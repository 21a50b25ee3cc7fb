----------------------------- MODULE RpcResults -----------------------------
(***************************************************************************)
(* The result plumbing of one RPC query (multicast_group.h): the          *)
(* PendingResults<Ret> object the RPC layer keeps and the QueryResults    *)
(* <Ret> the caller holds.                                                 *)
(*                                                                         *)
(* fulfill_map runs when the query is delivered; each reply reaches       *)
(* set_value on the P2P thread; new_view_callback calls                    *)
(* set_exception_for_removed_node for each node the new view removes.     *)
(* The callers (rpc_manager.cpp) are not in this tree.  RPCManager         *)
(* declares p2p_connections_mutex, and new_view_callback rebuilds the P2P  *)
(* connections the reply path reads, so each handler is one step here,     *)
(* and the connection of a removed node, with any reply still on it, is   *)
(* dropped by the same callback.                                           *)
(* A set on a promise already satisfied throws std::future_error; err     *)
(* records it.  The void specialization, which has no replies, is not     *)
(* modelled.                                                               *)
(***************************************************************************)
EXTENDS FiniteSets

CONSTANT Members   \* the shard members the query is delivered to

Outcomes == {"value", "exception"}

VARIABLES
    mapFulfilled,     \* map_fulfilled
    destNodes,        \* dest_nodes
    respondedNodes,   \* responded_nodes
    promise,          \* promise[n]: the state of reply_promises[n]
    pendingMap,       \* the caller's pending_rmap: "pending", "ready", "read"
    got,              \* got[n]: what the caller's ReplyMap::get(n) returned
    inflight,         \* replies received and not yet handled by the P2P thread
    replied,          \* nodes that have sent their reply
    removed,          \* nodes removed from the view
    err               \* set when a promise is set twice

vars == <<mapFulfilled, destNodes, respondedNodes, promise, pendingMap, got,
          inflight, replied, removed, err>>

TypeOK ==
    /\ mapFulfilled \in BOOLEAN
    /\ destNodes \subseteq Members /\ respondedNodes \subseteq Members
    /\ promise \in [Members -> {"unset"} \cup Outcomes]
    /\ pendingMap \in {"pending", "ready", "read"}
    /\ got \in [Members -> {"none"} \cup Outcomes]
    /\ inflight \subseteq replied /\ replied \subseteq Members
    /\ removed \subseteq Members
    /\ err \in BOOLEAN

\* PendingResults() and get_future(): nothing fulfilled yet.
Init ==
    /\ mapFulfilled = FALSE
    /\ destNodes = {} /\ respondedNodes = {}
    /\ promise = [n \in Members |-> "unset"]
    /\ pendingMap = "pending"
    /\ got = [n \in Members |-> "none"]
    /\ inflight = {} /\ replied = {} /\ removed = {}
    /\ err = FALSE

\* reply_promises.at(n).set_value(v) or .set_exception(e): a second set
\* throws std::future_error.
SetOnce(n, kind) ==
    IF promise[n] = "unset"
    THEN /\ promise' = [promise EXCEPT ![n] = kind] /\ UNCHANGED err
    ELSE /\ err' = TRUE /\ UNCHANGED promise

\* fulfill_map(who), when the query is delivered: one promise per member,
\* dest_nodes, and both promises of the object set.
FulfillMap ==
    /\ ~mapFulfilled
    /\ mapFulfilled' = TRUE
    /\ destNodes' = destNodes \cup Members
    /\ pendingMap' = "ready"
    /\ UNCHANGED <<respondedNodes, promise, got, inflight, replied, removed, err>>

\* Node n, still in the view, executes the query and sends its reply.
SendReply(n) ==
    /\ n \notin replied /\ n \notin removed
    /\ replied' = replied \cup {n}
    /\ inflight' = inflight \cup {n}
    /\ UNCHANGED <<mapFulfilled, destNodes, respondedNodes, promise,
                   pendingMap, got, removed, err>>

\* set_value(n, v) on the P2P thread: responded_nodes.insert, the promises
\* taken from reply_promises_are_ready (blocking until fulfill_map), then
\* n's promise set.
HandleReply(n) ==
    /\ n \in inflight /\ mapFulfilled
    /\ inflight' = inflight \ {n}
    /\ respondedNodes' = respondedNodes \cup {n}
    /\ SetOnce(n, "value")
    /\ UNCHANGED <<mapFulfilled, destNodes, pendingMap, got, replied, removed>>

\* Mutants: a removal that skips the responded_nodes test; one that
\* counts a reply still in flight as a response.
RemoveNodeNoRespondedCheck(r) ==
    /\ mapFulfilled /\ r \notin removed
    /\ removed' = removed \cup {r}
    /\ inflight' = inflight \ {r}
    /\ IF r \in destNodes
       THEN /\ respondedNodes' = respondedNodes \cup {r}
            /\ SetOnce(r, "exception")
       ELSE UNCHANGED <<respondedNodes, promise, err>>
    /\ UNCHANGED <<mapFulfilled, destNodes, pendingMap, got, replied>>
RemoveNodeSkipsInflight(r) ==
    /\ mapFulfilled /\ r \notin removed
    /\ removed' = removed \cup {r}
    /\ inflight' = inflight \ {r}
    /\ IF r \in destNodes /\ r \notin respondedNodes \cup inflight
       THEN /\ respondedNodes' = respondedNodes \cup {r}
            /\ SetOnce(r, "exception")
       ELSE UNCHANGED <<respondedNodes, promise, err>>
    /\ UNCHANGED <<mapFulfilled, destNodes, pendingMap, got, replied>>

\* new_view_callback for a node r the new view removes: its connection,
\* and a reply still on it, is dropped; set_exception_for_removed_node(r)
\* calls set_exception if r was a destination that has not responded.
RemoveNode(r) ==
    /\ mapFulfilled /\ r \notin removed
    /\ removed' = removed \cup {r}
    /\ inflight' = inflight \ {r}
    /\ IF r \in destNodes /\ r \notin respondedNodes
       THEN /\ respondedNodes' = respondedNodes \cup {r}
            /\ SetOnce(r, "exception")
       ELSE UNCHANGED <<respondedNodes, promise, err>>
    /\ UNCHANGED <<mapFulfilled, destNodes, pendingMap, got, replied>>

\* The caller's QueryResults::wait/get: once fulfill_map has run, the
\* reply map is moved out of pending_rmap.
WaitReplyMap ==
    /\ pendingMap = "ready"
    /\ pendingMap' = "read"
    /\ UNCHANGED <<mapFulfilled, destNodes, respondedNodes, promise, got,
                   inflight, replied, removed, err>>

\* ReplyMap::get(nid): rmap.at(nid).get() blocks until n's promise is set
\* and returns its value or rethrows its exception.
GetReply(n) ==
    /\ pendingMap = "read" /\ got[n] = "none" /\ promise[n] # "unset"
    /\ got' = [got EXCEPT ![n] = promise[n]]
    /\ UNCHANGED <<mapFulfilled, destNodes, respondedNodes, promise,
                   pendingMap, inflight, replied, removed, err>>

Next ==
    \/ FulfillMap \/ WaitReplyMap
    \/ \E n \in Members : SendReply(n) \/ HandleReply(n) \/ RemoveNode(n) \/ GetReply(n)

\* The delivery and P2P threads run; the caller waits on every reply; a
\* member that is not removed replies, and one that never replies is
\* removed by a view change (the failure detector's completeness).
Fairness ==
    /\ WF_vars(FulfillMap) /\ WF_vars(WaitReplyMap)
    /\ \A n \in Members : /\ WF_vars(HandleReply(n)) /\ WF_vars(GetReply(n))
                         /\ WF_vars(SendReply(n) \/ RemoveNode(n))

Spec == Init /\ [][Next]_vars /\ Fairness

\* Each reply promise is satisfied at most once: whichever of a node's
\* reply (set_value) and its removal (set_exception_for_removed_node)
\* comes first, the other never sets the promise again and never throws
\* std::future_error.
NoFutureError == ~err

\* The caller never blocks for ever in ReplyMap::get: every destination's
\* promise is eventually set, by its reply or by the exception of its
\* removal, and every get returns.
CallerNeverBlocks == <>(\A n \in Members : got[n] # "none")
=============================================================================
