----------------------------- MODULE RaggedEdge -----------------------------
(***************************************************************************)
(* Epoch termination of a dying view (view_manager.cpp terminate_epoch and *)
(* what it chains to) for one shard that holds every member of the view:   *)
(* ragged-edge cleanup by the shard leader and the followers, delivery up  *)
(* to the ragged trim (deliver_in_order, deliver_messages_upto), the       *)
(* persistence barrier and the step to finish_view_change.  Suspicions,    *)
(* the partition rule, member crashes and the SST (row copies, FIFO puts,  *)
(* freeze) run concurrently with it.                                       *)
(*                                                                         *)
(* The model starts when every member has run start_meta_wedge and every   *)
(* member has seen every other one wedged, and after the SMC drain with    *)
(* put_with_completion and sync_with_members: num_received (rcv) is final  *)
(* and the same at every reader.  The GMS counters and make_next_view are  *)
(* left to the GMS module: the next view is taken as adequate.             *)
(***************************************************************************)
EXTENDS Integers, Sequences, FiniteSets

CONSTANTS
    N,                  \* members of the dying view; node r has rank r
    S,                  \* num_shard_senders; sender ranks are 0..S-1
    MaxIdx,             \* largest message index a member has received
    MaxCrashes,         \* bound on crashes of members
    CrashDuringCleanup, \* may a member crash after some member began cleanup
    FalseSuspicion      \* may the failure detector report a live member

ASSUME N \in Nat \ {0} /\ S \in Nat \ {0} /\ MaxIdx \in Nat /\ MaxCrashes \in Nat
ASSUME CrashDuringCleanup \in BOOLEAN /\ FalseSuspicion \in BOOLEAN

Nodes       == 1..N
SenderRanks == 0..(S - 1)
Idx         == -1..MaxIdx
Msgs        == SenderRanks \X (0..MaxIdx)     \* <<sender rank, index>>
SeqOf(m)    == m[2] * S + m[1]                \* index * num_shard_senders + sender_rank
Dead        == {"Crashed", "Partitioned", "Missing"}
Live        == {"MetaWedged", "GlobalMinWait", "PersistWait"}

SetMin(X) == CHOOSE x \in X : \A y \in X : x <= y
SetMax(X) == CHOOSE x \in X : \A y \in X : y <= x

VARIABLES
    phase,     \* the one-time predicate node i waits on, or how it stopped
    failed,    \* failed[i]: Vc.failed at i, equal to last_suspected and to the frozen rows
    follower,  \* follower[i]: terminate_epoch put the shard in follower_subgroups_and_shards
    sst,       \* sst[i][r]: node i's copy of gmsSST row r; sst[i][i] is i's own row
    chan,      \* chan[r][i]: puts of row r posted to node i and not yet written, in order
    rcv,       \* rcv[i][s]: num_received[i][num_received_offset + s] after the drain
    dset,      \* dset[i]: the messages node i has delivered in this view
    crashes    \* number of crashes so far

vars == <<phase, failed, follower, sst, chan, rcv, dset, crashes>>

SeqNums == -1..((MaxIdx + 1) * S - 1)
Row == [susp : SUBSET Nodes, gm : [SenderRanks -> Idx], ready : BOOLEAN,
        dnum : SeqNums, pnum : SeqNums]
Put == [f : {"susp"}, v : SUBSET Nodes] \cup [f : {"gm"}, v : [SenderRanks -> Idx]]
       \cup [f : {"ready"}, v : BOOLEAN] \cup [f : {"pnum"}, v : SeqNums]

-----------------------------------------------------------------------------
(* Helpers of the multicast engine and of the view.                        *)

\* receiver_function: seq_num from the first minimum of num_received
SeqNum(nr) ==
    LET m == SetMin({nr[s] : s \in SenderRanks})
    IN (m + 1) * S + SetMin({s \in SenderRanks : nr[s] = m}) - 1

\* Fault variants of the definitions below, each a plausible coding error
\* with the same parameters as the definition it stands in for: the
\* stability bound taken with max, the leader's min loop stopping one member
\* short, and the trim read as a count of messages instead of an index.
MinStableNumMax(r) == SetMax({SeqNum(r[n]) : n \in Nodes})
LeaderGlobalMinSkipLast(i) ==
    [s \in SenderRanks |-> SetMin({rcv[i][s]} \cup {rcv[n][s] : n \in (Nodes \ failed[i]) \ {N}})]

\* delivery_trigger: the min of seq_num over every shard member, failed or not
MinStableNum(r) == SetMin({SeqNum(r[n]) : n \in Nodes})

\* subview_rank_of_shard_leader: lowest-ranked member i does not think failed
ShardLeader(i) == SetMin(Nodes \ failed[i])

\* SST put to every shard member (get_shard_sst_indices), FIFO per receiver.
\* A write to a member that is dead or has left the old SST is never read
\* again, so it is not kept.
PostPuts(i, ups) ==
    [chan EXCEPT ![i] = [j \in Nodes |-> IF j = i \/ phase[j] \notin Live THEN <<>>
                                         ELSE chan[i][j] \o ups]]

\* Forget the writes still on their way to member i, which stops reading
\* the old SST.
DropIncoming(c, i) == [r \in Nodes |-> [c[r] EXCEPT ![i] = <<>>]]

\* leader_ragged_edge_cleanup, not-found branch: min over non-failed members
LeaderGlobalMin(i) ==
    [s \in SenderRanks |-> SetMin({rcv[n][s] : n \in Nodes \ failed[i]})]

\* leader_ragged_edge_cleanup: inherit the global_min of the first shard member
\* (failed or not) whose global_min_ready is set, else compute it
LeaderTrim(i) ==
    LET ready == {n \in Nodes : sst[i][n].ready}
    IN IF ready # {} THEN sst[i][SetMin(ready)].gm ELSE LeaderGlobalMin(i)

\* deliver_messages_upto: the new delivered_num and the sequence numbers it
\* delivers, skipping those past the trim of their sender
MaxSeqAsCount(cur, trim) == SetMax({cur} \cup {(trim[s] + 1) * S + s : s \in SenderRanks})
MaxSeq(cur, trim) == SetMax({cur} \cup {trim[s] * S + s : s \in SenderRanks})
\* Fault variant of DueMsgs: the per-sender test against the trim dropped.
DueMsgsNoTrimFilter(cur, trim) ==
    {m \in Msgs : cur < SeqOf(m) /\ SeqOf(m) <= MaxSeq(cur, trim)}
DueMsgs(cur, trim) ==
    {m \in Msgs : cur < SeqOf(m) /\ SeqOf(m) <= MaxSeq(cur, trim) /\ m[2] <= trim[m[1]]}

\* leader/follower cleanup after the trim is known: set global_min and
\* global_min_ready, put both (in that order), then deliver_in_order.  A due
\* message i never received makes locally_stable_sst_messages.at() throw.
\* The put of delivered_num is left out: no step here reads another row's
\* delivered_num (the sender predicates that do are wedged).
RaggedCleanup(i, trim, next) ==
    LET cur     == sst[i][i].dnum
        due     == DueMsgs(cur, trim)
        missing == {m \in due : m[2] > rcv[i][m[1]]}
        got     == IF missing = {} THEN due
                   ELSE {m \in due : SeqOf(m) < SetMin({SeqOf(x) : x \in missing})}
        dnum    == IF missing = {} THEN MaxSeq(cur, trim) ELSE cur
        ups     == <<[f |-> "gm", v |-> trim], [f |-> "ready", v |-> TRUE]>>
    IN /\ sst' = [sst EXCEPT ![i][i].gm = trim, ![i][i].ready = TRUE, ![i][i].dnum = dnum]
       /\ chan' = IF missing = {} THEN PostPuts(i, ups) ELSE DropIncoming(PostPuts(i, ups), i)
       /\ dset' = [dset EXCEPT ![i] = @ \cup got]
       /\ phase' = [phase EXCEPT ![i] = IF missing = {} THEN next ELSE "Missing"]

-----------------------------------------------------------------------------
Init ==
    /\ rcv \in [Nodes -> [SenderRanks -> Idx]]
    /\ \E d0 \in [Nodes -> -1..MinStableNum(rcv)] :
          /\ sst = [i \in Nodes |-> [r \in Nodes |->
                      [susp |-> {}, gm |-> [s \in SenderRanks |-> 0], ready |-> FALSE,
                       dnum |-> d0[r], pnum |-> d0[r]]]]
          /\ dset = [i \in Nodes |-> {m \in Msgs : SeqOf(m) <= d0[i]}]
    /\ phase = [i \in Nodes |-> "MetaWedged"]
    /\ failed = [i \in Nodes |-> {}]
    /\ follower = [i \in Nodes |-> FALSE]
    /\ chan = [r \in Nodes |-> [i \in Nodes |-> <<>>]]
    /\ crashes = 0

-----------------------------------------------------------------------------
(* Actions.  Each trigger runs atomically on i's single predicate thread.  *)

\* report_failure(q): the failure detector of i reports q.  It marks
\* suspected[my_rank][q] and applies the partition rule to its own row; its
\* put names the cell past the row's end, so peers learn of the suspicion
\* only from new_suspicion's put of the whole row.
ReportFailure(i, q) ==
    /\ phase[i] \in Live
    /\ q # i
    /\ q \notin sst[i][i].susp
    /\ phase[q] \in Dead \/ FalseSuspicion
    /\ LET susp == sst[i][i].susp \cup {q}
       IN /\ sst' = [sst EXCEPT ![i][i].susp = susp]
          /\ IF Cardinality(susp) >= (N + 1) \div 2
                THEN /\ phase' = [phase EXCEPT ![i] = "Partitioned"]
                     /\ chan' = DropIncoming(chan, i)
                ELSE UNCHANGED <<phase, chan>>
    /\ UNCHANGED <<failed, follower, rcv, dset, crashes>>

\* new_suspicion: OR every row's suspected into i's row; every newly
\* suspected q is frozen and marked failed, with the partition check before
\* and after num_failed++, and the whole row is put after each q.  The
\* first q that brings num_failed to (N+1)/2 throws.
NewSuspicion(i) ==
    /\ phase[i] \in Live
    /\ \E r \in Nodes : sst[i][r].susp \ failed[i] # {}
    /\ LET agg   == UNION {sst[i][r].susp : r \in Nodes}
           newQ  == agg \ failed[i]
           f0    == Cardinality(failed[i])
           abort == f0 + Cardinality(newQ) >= (N + 1) \div 2
           put   == ~abort \/ f0 + 1 < (N + 1) \div 2
       IN /\ sst' = [sst EXCEPT ![i][i].susp = agg]
          /\ failed' = [failed EXCEPT ![i] = @ \cup newQ]
          /\ LET posted == IF put THEN PostPuts(i, <<[f |-> "susp", v |-> agg]>>) ELSE chan
             IN chan' = IF abort THEN DropIncoming(posted, i) ELSE posted
          /\ phase' = [phase EXCEPT ![i] = IF abort THEN "Partitioned" ELSE @]
    /\ UNCHANGED <<follower, rcv, dset, crashes>>

\* is_meta_wedged fired: terminate_epoch.  The shard leader runs
\* leader_ragged_edge_cleanup; anyone else records the shard as a follower
\* shard.  Both then wait on leader_global_mins_are_ready.
TerminateEpoch(i) ==
    /\ phase[i] = "MetaWedged"
    /\ Nodes \ failed[i] # {}
    /\ IF ShardLeader(i) = i
          THEN /\ RaggedCleanup(i, LeaderTrim(i), "GlobalMinWait")
               /\ UNCHANGED follower
          ELSE /\ follower' = [follower EXCEPT ![i] = TRUE]
               /\ phase' = [phase EXCEPT ![i] = "GlobalMinWait"]
               /\ UNCHANGED <<sst, chan, dset>>
    /\ UNCHANGED <<failed, rcv, crashes>>

\* leader_global_mins_are_ready and global_min_ready_continuation: the shard
\* leader is recomputed from the current failed[]; a follower waits for its
\* global_min_ready, then runs follower_ragged_edge_cleanup with its
\* global_min.  Then the persistence barrier is registered.
GlobalMinsReady(i) ==
    /\ phase[i] = "GlobalMinWait"
    /\ IF follower[i]
          THEN /\ Nodes \ failed[i] # {}
               /\ sst[i][ShardLeader(i)].ready
               /\ RaggedCleanup(i, sst[i][ShardLeader(i)].gm, "PersistWait")
          ELSE /\ phase' = [phase EXCEPT ![i] = "PersistWait"]
               /\ UNCHANGED <<sst, chan, dset>>
    /\ UNCHANGED <<failed, follower, rcv, crashes>>

\* persistence_finished_pred: every member i does not think failed has
\* persisted_num (its sequence half) at least i's delivered_num; then
\* finish_view_change installs the next view.
FinishViewChange(i) ==
    /\ phase[i] = "PersistWait"
    /\ \A m \in Nodes \ failed[i] : sst[i][m].pnum >= sst[i][i].dnum
    /\ phase' = [phase EXCEPT ![i] = "Installed"]
    /\ chan' = DropIncoming(chan, i)
    /\ UNCHANGED <<failed, follower, sst, rcv, dset, crashes>>

\* The persistence manager persists what i delivered and posts persisted_num.
Persist(i) ==
    /\ phase[i] \notin Dead
    /\ sst[i][i].pnum < sst[i][i].dnum
    /\ sst' = [sst EXCEPT ![i][i].pnum = sst[i][i].dnum]
    /\ chan' = PostPuts(i, <<[f |-> "pnum", v |-> sst[i][i].dnum]>>)
    /\ UNCHANGED <<phase, failed, follower, rcv, dset, crashes>>

\* The oldest put of row r reaches i; a frozen row keeps its last value.
DeliverPut(r, i) ==
    /\ chan[r][i] # <<>>
    /\ chan' = [chan EXCEPT ![r][i] = Tail(@)]
    /\ sst' = IF r \in failed[i] THEN sst
              ELSE [sst EXCEPT ![i][r][Head(chan[r][i]).f] = Head(chan[r][i]).v]
    /\ UNCHANGED <<phase, failed, follower, rcv, dset, crashes>>

\* A member crashes; unless CrashDuringCleanup, only before any member left
\* the meta-wedged state.
Crash(i) ==
    /\ phase[i] \notin Dead
    /\ crashes < MaxCrashes
    /\ CrashDuringCleanup \/ \A j \in Nodes : phase[j] \in {"MetaWedged"} \cup Dead
    /\ phase' = [phase EXCEPT ![i] = "Crashed"]
    /\ crashes' = crashes + 1
    /\ chan' = DropIncoming(chan, i)
    /\ UNCHANGED <<failed, follower, sst, rcv, dset>>

\* Writes a dead member posted and the NIC had not completed are lost.
LosePuts(r, i) ==
    /\ phase[r] \in Dead
    /\ chan[r][i] # <<>>
    /\ chan' = [chan EXCEPT ![r][i] = <<>>]
    /\ UNCHANGED <<phase, failed, follower, sst, rcv, dset, crashes>>

Next ==
    \/ \E i \in Nodes :
          \/ TerminateEpoch(i) \/ GlobalMinsReady(i) \/ FinishViewChange(i)
          \/ NewSuspicion(i) \/ Persist(i) \/ Crash(i)
          \/ \E q \in Nodes : ReportFailure(i, q)
    \/ \E r, i \in Nodes : DeliverPut(r, i) \/ LosePuts(r, i)

\* The predicate thread evaluates every registered predicate again and again,
\* RDMA writes of a live member complete, the persistence thread keeps up,
\* and the failure detector eventually reports a dead member.
Fairness ==
    /\ \A i \in Nodes : WF_vars(TerminateEpoch(i)) /\ WF_vars(GlobalMinsReady(i))
                        /\ WF_vars(FinishViewChange(i)) /\ WF_vars(NewSuspicion(i))
                        /\ WF_vars(Persist(i))
    /\ \A r, i \in Nodes : WF_vars(DeliverPut(r, i))
    /\ \A i, q \in Nodes : WF_vars(phase[q] \in Dead /\ ReportFailure(i, q))

Spec == Init /\ [][Next]_vars /\ Fairness

-----------------------------------------------------------------------------
(* Properties.                                                             *)

TypeOK ==
    /\ phase \in [Nodes -> Live \cup Dead \cup {"Installed"}]
    /\ failed \in [Nodes -> SUBSET Nodes]
    /\ follower \in [Nodes -> BOOLEAN]
    /\ sst \in [Nodes -> [Nodes -> Row]]
    /\ chan \in [Nodes -> [Nodes -> Seq(Put)]]
    /\ rcv \in [Nodes -> [SenderRanks -> Idx]]
    /\ dset \in [Nodes -> SUBSET Msgs]
    /\ crashes \in 0..MaxCrashes

\* Virtual synchrony of the ragged edge (uniform form): a message delivered
\* by any member in this view, in the steady state by delivery_trigger or in
\* cleanup by deliver_messages_upto, alive or not, is delivered by every
\* member that installs the next view.
UniformAgreement ==
    \A i, j \in Nodes : phase[i] = "Installed" => dset[j] \subseteq dset[i]

\* The ragged trim a member applies never names a message it has not
\* received: deliver_messages_upto never reaches the throwing .at() of
\* locally_stable_sst_messages at a member that is not dead.
NoMissingMessage ==
    \A i \in Nodes : phase[i] # "Missing"

\* spec section 3 and 8.1: all members that install the next view have
\* delivered exactly the same messages of the dying view.
InstallAgreement ==
    \A i, j \in Nodes : phase[i] = "Installed" /\ phase[j] = "Installed"
                           => dset[i] = dset[j]

\* Epoch termination finishes: every member eventually installs the next
\* view or stops (crash, partition exception, missing message).
EpochTerminates ==
    \A i \in Nodes : <>(phase[i] \in Dead \cup {"Installed"})

\* The trim the shard decided: the global_min of a member that has set
\* its global_min_ready (-2 for every sender while none has).
DecidedTrim ==
    LET ready == {i \in Nodes : sst[i][i].ready}
    IN IF ready = {} THEN [s \in SenderRanks |-> -2] ELSE sst[SetMin(ready)][SetMin(ready)].gm

RT == INSTANCE RaggedTrim WITH
        trim <- DecidedTrim,
        stopped <- {i \in Nodes : phase[i] \in Dead},
        installed <- {i \in Nodes : phase[i] = "Installed"}

\* Epoch termination implements the ragged trim of spec 4.5: one trim is
\* decided, by the shard leader's min over the members it does not think
\* failed, or inherited from a global_min_ready it sees; every member's
\* deliver_messages_upto delivers exactly its messages, and a member
\* reaches finish_view_change only after that.  The followers copy the
\* leader's global_min, and the trim covers every message delivery_trigger
\* delivered in the view.
ImplementsRaggedTrim == RT!SafeSpec

=============================================================================
