-------------------------------- MODULE GMS --------------------------------
(***************************************************************************)
(* The steady-state group membership protocol of one view of Derecho, from *)
(* view_manager.cpp: the recurrent SST predicates registered by            *)
(* register_predicates (new_suspicion, leader_start_join,                  *)
(* redirect_join_attempt, leader_commit_change,                            *)
(* acknowledge_proposed_change), report_failure and leave, the one-time    *)
(* predicate start_meta_wedge and the first step of terminate_epoch,       *)
(* make_next_view with its retry while the next view is inadequate.        *)
(*                                                                         *)
(* Members are the ranks 1..N; a member's node id is its rank.  Every      *)
(* trigger runs on the member's single predicate thread and is one atomic  *)
(* action.  A put is FIFO per peer and carries one column of the row.      *)
(***************************************************************************)
EXTENDS Integers, Sequences, FiniteSets, SequencesExt

CONSTANTS
    N,              \* members of the current view
    Joiners,        \* ids of the nodes trying to join (model values)
    K,              \* gmsSST.changes.size(): slots of the pending-changes list
    MinMembers,     \* the sharding function accepts views of this many members
    MaxCrashes,     \* crashes and leaves in one behaviour
    FalseSuspicion, \* whether the failure detector may suspect a live member
    BatchPuts       \* the puts of one trigger are written at a peer in one step

ASSUME N \in Nat \ {0} /\ K \in Nat \ {0} /\ MaxCrashes \in Nat

Nodes == 1..N
Slots == 0..(K-1)
Unset == 0     \* a changes[] cell nothing was written to: zeroed memory, node id 0
Ids == Nodes \cup Joiners \cup {Unset}

Live == {"Normal", "MetaWedging", "Inadequate", "NextView"}
Dead == {"Crashed", "Left", "Partitioned", "OutOfRoom", "TooManyChanges",
         "Excluded", "Overflow"}

VARIABLES
    phase,    \* which predicates the member has registered, or how it stopped
    failed,   \* failed[i]: Vc.failed, = last_suspected = the rows i froze
    row,      \* row[i][r]: member i's copy of SST row r
    chan,     \* chan[r][i]: puts of row r not yet written at i, in order
    pending,  \* pending[i]: pending_join_sockets, ids of queued joiners
    jtarget,  \* jtarget[j]: the member joiner j connects to, 0 once proposed
    steady,   \* steady[i]: the join, commit and ack predicates are registered
    saved,    \* saved[i]: curr_num_committed captured by retry_next_view
    next,     \* next[i]: members of the next view i computed
    crashes

vars == <<phase, failed, row, chan, pending, jtarget, steady, saved, next, crashes>>

Row == [susp: SUBSET Nodes, wedged: BOOLEAN, rip: BOOLEAN,
        changes: [Slots -> Ids], nchanges: 0..K, nacked: 0..K, ncommitted: 0..K]

Put(f, v) == [f |-> f, v |-> v]

\* View::rank_of_leader: the lowest-ranked member i does not consider failed
RankOfLeader(i) == Min(Nodes \ failed[i])

\* The puts of member i reach every live peer, after the ones already
\* posted; a channel holds writes, each a sequence of puts.
Writes(ups) ==
    IF ups = <<>> THEN <<>>
    ELSE IF BatchPuts THEN <<ups>> ELSE [k \in DOMAIN ups |-> <<ups[k]>>]

PostPuts(i, ups) ==
    [chan EXCEPT ![i] = [j \in Nodes |-> IF j = i \/ phase[j] \notin Live THEN <<>>
                                         ELSE chan[i][j] \o Writes(ups)]]

DropIncoming(c, i) == [r \in Nodes |-> [c[r] EXCEPT ![i] = <<>>]]

\* View::wedge: halt the multicast group, set and publish wedged[my_rank]
Wedge(i) == IF row[i][i].wedged THEN <<>> ELSE <<Put("wedged", TRUE)>>

\* changes_contains: q among the cells 0 .. num_changes - num_installed - 1
ChangesContains(r, q) == \E s \in 0..(r.nchanges - 1) : r.changes[s] = q

\* (mutant) min_acked without the !failed[n] test
MinAckedAll(i) == Min({row[i][n].nacked : n \in Nodes})

\* min_acked: the least num_acked over the rows i does not consider failed
MinAcked(i) == Min({row[i][n].nacked : n \in Nodes \ failed[i]})

\* The partition rule of new_suspicion and report_failure.
Minority(i, nfailed, nleft) ==
    /\ ~row[i][i].rip
    /\ nfailed # 0
    /\ nfailed - nleft >= (N - nleft + 1) \div 2

-----------------------------------------------------------------------------
(* new_suspicion, the loop over the newly suspected q in rank order.  st   *)
(* carries failed[], the local row, the puts posted so far and how the     *)
(* loop ended; a throw ends the loop after the puts of earlier iterations. *)
RECURSIVE MarkFailed(_, _, _, _)
MarkFailed(i, qs, nleft, st) ==
    IF qs = <<>> \/ st.stop # "" THEN st
    ELSE LET q   == Head(qs)
             f1  == st.failed \cup {q}
             r1  == [st.row EXCEPT !.wedged = TRUE]
             ups == <<Put("susp", r1.susp), Put("wedged", TRUE)>>
             idx == r1.nchanges
             prop == Min(Nodes \ f1) = i /\ ~ChangesContains(r1, q)
         IN IF Minority(i, Cardinality(st.failed), nleft)
               \/ Minority(i, Cardinality(f1), nleft)
            THEN [st EXCEPT !.stop = "Partitioned"]
            ELSE IF prop /\ idx = K
            THEN [st EXCEPT !.failed = f1, !.row = r1, !.puts = @ \o ups,
                            !.stop = "OutOfRoom"]
            ELSE LET r2 == IF prop
                           THEN [r1 EXCEPT !.changes[idx] = q, !.nchanges = idx + 1]
                           ELSE r1
                     up2 == IF prop
                            THEN <<Put("changes", r2.changes), Put("nchanges", r2.nchanges)>>
                            ELSE <<>>
                 IN MarkFailed(i, Tail(qs), nleft,
                               [st EXCEPT !.failed = f1, !.row = r2,
                                          !.puts = @ \o ups \o up2])

Init ==
    /\ phase = [i \in Nodes |-> "Normal"]
    /\ failed = [i \in Nodes |-> {}]
    /\ row = [i \in Nodes |-> [r \in Nodes |->
                 [susp |-> {}, wedged |-> FALSE, rip |-> FALSE,
                  changes |-> [s \in Slots |-> Unset],
                  nchanges |-> 0, nacked |-> 0, ncommitted |-> 0]]]
    /\ chan = [r \in Nodes |-> [i \in Nodes |-> <<>>]]
    /\ pending = [i \in Nodes |-> <<>>]
    /\ jtarget \in [Joiners -> Nodes]
    /\ steady = [i \in Nodes |-> TRUE]
    /\ saved = [i \in Nodes |-> 0]
    /\ next = [i \in Nodes |-> <<>>]
    /\ crashes = 0

\* report_failure, run by the SST's failure detector for the row of q:
\* mark suspected[my_rank][q] and apply the partition rule.  Its put is
\* addressed with r after the counting loop (r = row length), so it
\* republishes the first byte of changes[] instead of the cell: peers learn
\* of the suspicion only from the put of new_suspicion.
ReportFailure(i, q) ==
    /\ phase[i] \in Live
    /\ q # i /\ q \notin row[i][i].susp
    /\ phase[q] \in Dead \/ FalseSuspicion
    /\ LET susp  == row[i][i].susp \cup {q}
           nleft == Cardinality({r \in Nodes : row[i][r].rip})
           nfail == Cardinality({r \in susp : ~row[i][r].rip})
       IN IF Minority(i, nfail, nleft)
          THEN /\ phase' = [phase EXCEPT ![i] = "Partitioned"]
               /\ chan' = DropIncoming(chan, i)
               /\ UNCHANGED row
          ELSE /\ row' = [row EXCEPT ![i][i].susp = susp]
               /\ UNCHANGED <<phase, chan>>
    /\ UNCHANGED <<failed, pending, jtarget, steady, saved, next, crashes>>

\* leave: wedge, clear the predicates, suspect myself, set and publish rip.
Leave(i) ==
    /\ phase[i] \in Live
    /\ crashes < MaxCrashes
    /\ LET r1 == [row[i][i] EXCEPT !.susp = @ \cup {i}, !.rip = TRUE]
       IN /\ row' = [row EXCEPT ![i][i] = r1]
          /\ chan' = DropIncoming(PostPuts(i, <<Put("susp", r1.susp), Put("rip", TRUE)>>), i)
    /\ phase' = [phase EXCEPT ![i] = "Left"]
    /\ crashes' = crashes + 1
    /\ UNCHANGED <<failed, pending, jtarget, steady, saved, next>>

\* new_suspicion: aggregate suspected[] of every row into mine, then mark
\* each newly suspected member failed (suspected_changed predicate).
NewSuspicion(i) ==
    /\ phase[i] \in Live
    /\ LET agg   == UNION {row[i][r].susp : r \in Nodes}
           newQ  == agg \ failed[i]
           nleft == Cardinality({r \in Nodes : row[i][r].rip})
           st    == MarkFailed(i, SetToSortSeq(newQ, <), nleft,
                               [failed |-> failed[i], row |-> [row[i][i] EXCEPT !.susp = agg],
                                puts |-> <<>>, stop |-> ""])
       IN /\ newQ # {}
          /\ failed' = [failed EXCEPT ![i] = st.failed]
          /\ row' = [row EXCEPT ![i][i] = st.row]
          /\ IF st.stop = ""
             THEN /\ chan' = PostPuts(i, st.puts)
                  /\ UNCHANGED phase
             ELSE /\ phase' = [phase EXCEPT ![i] = st.stop]
                  /\ chan' = DropIncoming(PostPuts(i, st.puts), i)
    /\ UNCHANGED <<pending, jtarget, steady, saved, next, crashes>>

\* register_predicates registered the join, commit and ack predicates and
\* the predicate thread still runs.
Steady(i) == phase[i] \in Live /\ steady[i]

\* leader_start_join and receive_join: the leader takes the first queued
\* joiner, proposes it at slot num_changes - num_installed and wedges.
LeaderStartJoin(i) ==
    /\ Steady(i) /\ RankOfLeader(i) = i /\ pending[i] # <<>>
    /\ LET j   == Head(pending[i])
           me  == row[i][i]
           idx == me.nchanges
           r1  == [me EXCEPT !.changes[idx] = j, !.nchanges = idx + 1, !.wedged = TRUE]
       IN CASE me.nchanges - me.ncommitted = K ->
                 /\ phase' = [phase EXCEPT ![i] = "TooManyChanges"]
                 /\ chan' = DropIncoming(chan, i)
                 /\ UNCHANGED <<row, pending, jtarget>>
            [] idx >= K ->
                 /\ phase' = [phase EXCEPT ![i] = "Overflow"]
                 /\ chan' = DropIncoming(chan, i)
                 /\ UNCHANGED <<row, pending, jtarget>>
            [] OTHER ->
                 /\ row' = [row EXCEPT ![i][i] = r1]
                 /\ chan' = PostPuts(i, Wedge(i) \o
                                  <<Put("changes", r1.changes), Put("nchanges", r1.nchanges)>>)
                 /\ pending' = [pending EXCEPT ![i] = Tail(@)]
                 /\ jtarget' = [jtarget EXCEPT ![j] = 0]
                 /\ UNCHANGED phase
    /\ UNCHANGED <<failed, steady, saved, next, crashes>>

\* redirect_join_attempt: a non-leader answers LEADER_REDIRECT with the
\* leader it knows of, and the joiner reconnects there.
RedirectJoinAttempt(i) ==
    /\ Steady(i) /\ RankOfLeader(i) # i /\ pending[i] # <<>>
    /\ pending' = [pending EXCEPT ![i] = Tail(@)]
    /\ jtarget' = [jtarget EXCEPT ![Head(pending[i])] = RankOfLeader(i)]
    /\ UNCHANGED <<phase, failed, row, chan, steady, saved, next, crashes>>

\* The joiner's constructor connects to the member it was told of; the
\* client listener thread queues the socket.
JoinerConnect(j) ==
    /\ jtarget[j] # 0
    /\ phase[jtarget[j]] \in Live
    /\ j \notin Range(pending[jtarget[j]])
    /\ pending' = [pending EXCEPT ![jtarget[j]] = Append(@, j)]
    /\ UNCHANGED <<phase, failed, row, chan, jtarget, steady, saved, next, crashes>>

\* leader_commit_change: once every member the leader does not consider
\* failed acknowledged beyond num_committed, commit up to min_acked.
LeaderCommitChange(i) ==
    /\ Steady(i) /\ RankOfLeader(i) = i
    /\ MinAcked(i) > row[i][i].ncommitted
    /\ row' = [row EXCEPT ![i][i].ncommitted = MinAcked(i)]
    /\ chan' = PostPuts(i, <<Put("ncommitted", MinAcked(i))>>)
    /\ UNCHANGED <<phase, failed, pending, jtarget, steady, saved, next, crashes>>

\* (mutant) a follower that sets num_acked from the leader's num_changes
\* without echoing num_changes itself
AckWithoutEcho(i) ==
    /\ Steady(i)
    /\ LET L  == row[i][RankOfLeader(i)]
           me == row[i][i]
           r2 == [me EXCEPT !.nacked = L.nchanges, !.ncommitted = L.ncommitted, !.wedged = TRUE]
       IN /\ L.nchanges > me.nacked
          /\ row' = [row EXCEPT ![i][i] = r2]
          /\ chan' = PostPuts(i, <<Put("ncommitted", r2.ncommitted), Put("nacked", r2.nacked)>>
                                 \o Wedge(i))
    /\ UNCHANGED <<phase, failed, pending, jtarget, steady, saved, next, crashes>>

\* (mutant) num_acked set one beyond num_changes
AckOffByOne(i) ==
    /\ Steady(i)
    /\ LET L  == row[i][RankOfLeader(i)]
           me == row[i][i]
           r1 == IF RankOfLeader(i) # i
                 THEN [me EXCEPT !.changes = L.changes, !.nchanges = L.nchanges,
                                 !.ncommitted = L.ncommitted]
                 ELSE me
           r2 == [r1 EXCEPT !.nacked = r1.nchanges + 1, !.wedged = TRUE]
       IN /\ L.nchanges > me.nacked
          /\ row' = [row EXCEPT ![i][i] = r2]
          /\ chan' = PostPuts(i, <<Put("nacked", r2.nacked)>> \o Wedge(i))
    /\ UNCHANGED <<phase, failed, pending, jtarget, steady, saved, next, crashes>>

\* acknowledge_proposed_change: a follower echoes the leader's changes,
\* num_changes and num_committed; everyone sets num_acked = num_changes,
\* publishes the columns in order and wedges.
AcknowledgeProposedChange(i) ==
    /\ Steady(i)
    /\ LET L  == row[i][RankOfLeader(i)]
           me == row[i][i]
           r1 == IF RankOfLeader(i) # i
                 THEN [me EXCEPT !.changes = L.changes, !.nchanges = L.nchanges,
                                 !.ncommitted = L.ncommitted]
                 ELSE me
           r2 == [r1 EXCEPT !.nacked = r1.nchanges, !.wedged = TRUE]
       IN /\ L.nchanges > me.nacked
          /\ row' = [row EXCEPT ![i][i] = r2]
          /\ chan' = PostPuts(i, <<Put("changes", r2.changes), Put("nchanges", r2.nchanges),
                                   Put("ncommitted", r2.ncommitted), Put("nacked", r2.nacked)>>
                                 \o Wedge(i))
    /\ UNCHANGED <<phase, failed, pending, jtarget, steady, saved, next, crashes>>

\* start_meta_wedge, the one-time trigger of leader_committed_changes:
\* remove the steady-state predicates except new_suspicion and wedge.
StartMetaWedge(i) ==
    /\ phase[i] = "Normal"
    /\ row[i][RankOfLeader(i)].ncommitted > 0
    /\ phase' = [phase EXCEPT ![i] = "MetaWedging"]
    /\ steady' = [steady EXCEPT ![i] = FALSE]
    /\ row' = [row EXCEPT ![i][i].wedged = TRUE]
    /\ chan' = PostPuts(i, Wedge(i))
    /\ UNCHANGED <<failed, pending, jtarget, saved, next, crashes>>

\* make_next_view: the first num_committed[leader] - num_installed[leader]
\* cells of MY changes[] are the committed changes; members of the view
\* among them leave, the others join at the end in change order.
NextMembers(i) ==
    LET cc      == row[i][RankOfLeader(i)].ncommitted
        cell(s) == IF s < K THEN row[i][i].changes[s] ELSE Unset
        chg     == [s \in 1..cc |-> cell(s - 1)]
        leaves  == Range(chg) \cap Nodes
    IN SelectSeq([r \in Nodes |-> r], LAMBDA r : r \notin leaves)
       \o SelectSeq(chg, LAMBDA c : c \notin Nodes)

\* terminate_epoch up to the provisioning check: an adequate next view goes
\* on to the ragged-edge cleanup (module RaggedEdge); an inadequate one
\* re-registers the steady-state predicates and waits for a new commit.
\* make_next_view throws when the next view does not contain me.  The
\* steady-state predicates stay registered until finish_view_change.
ComputeNextView(i) ==
    LET m == NextMembers(i)
    IN /\ next' = [next EXCEPT ![i] = m]
       /\ steady' = [steady EXCEPT ![i] = @ \/ (i \in Range(m) /\ Len(m) < MinMembers)]
       /\ saved' = [saved EXCEPT ![i] = row[i][RankOfLeader(i)].ncommitted]
       /\ phase' = [phase EXCEPT ![i] =
                      CASE i \notin Range(m)   -> "Excluded"
                        [] Len(m) < MinMembers -> "Inadequate"
                        [] OTHER               -> "NextView"]
       /\ chan' = IF i \notin Range(m) THEN DropIncoming(chan, i) ELSE chan

\* is_meta_wedged: every member i does not consider failed is wedged.
TerminateEpoch(i) ==
    /\ phase[i] = "MetaWedging"
    /\ \A n \in Nodes \ failed[i] : row[i][n].wedged
    /\ ComputeNextView(i)
    /\ UNCHANGED <<failed, row, pending, jtarget, crashes>>

\* leader_committed_change / retry_next_view: a commit beyond the one the
\* inadequate view was computed from calls terminate_epoch again.
RetryNextView(i) ==
    /\ phase[i] = "Inadequate"
    /\ row[i][RankOfLeader(i)].ncommitted > saved[i]
    /\ ComputeNextView(i)
    /\ UNCHANGED <<failed, row, pending, jtarget, crashes>>

\* The SST writes a put at the peer, unless the peer froze that row.
DeliverPut(r, i) ==
    /\ chan[r][i] # <<>>
    /\ LET apply(x, p) == [x EXCEPT ![p.f] = p.v]
       IN row' = IF r \in failed[i] THEN row
                 ELSE [row EXCEPT ![i][r] = FoldLeft(apply, @, Head(chan[r][i]))]
    /\ chan' = [chan EXCEPT ![r][i] = Tail(@)]
    /\ UNCHANGED <<phase, failed, pending, jtarget, steady, saved, next, crashes>>

Crash(i) ==
    /\ phase[i] \in Live
    /\ crashes < MaxCrashes
    /\ phase' = [phase EXCEPT ![i] = "Crashed"]
    /\ crashes' = crashes + 1
    /\ chan' = DropIncoming(chan, i)
    /\ UNCHANGED <<failed, row, pending, jtarget, steady, saved, next>>

\* Writes a stopped member posted and the NIC had not completed are lost.
LosePuts(r, i) ==
    /\ phase[r] \in Dead \ {"Left"}
    /\ chan[r][i] # <<>>
    /\ chan' = [chan EXCEPT ![r][i] = <<>>]
    /\ UNCHANGED <<phase, failed, row, pending, jtarget, steady, saved, next, crashes>>

Next ==
    \/ \E i \in Nodes :
          \/ NewSuspicion(i) \/ LeaderStartJoin(i) \/ RedirectJoinAttempt(i)
          \/ LeaderCommitChange(i) \/ AcknowledgeProposedChange(i)
          \/ StartMetaWedge(i) \/ TerminateEpoch(i) \/ RetryNextView(i)
          \/ Leave(i) \/ Crash(i)
          \/ \E q \in Nodes : ReportFailure(i, q)
    \/ \E j \in Joiners : JoinerConnect(j)
    \/ \E r, i \in Nodes : DeliverPut(r, i) \/ LosePuts(r, i)

\* The predicate thread evaluates every registered predicate again and
\* again, the SST writes of a live member complete, and the failure
\* detector eventually reports a member that stopped.
Fairness ==
    /\ \A i \in Nodes :
          /\ WF_vars(NewSuspicion(i)) /\ WF_vars(LeaderStartJoin(i))
          /\ WF_vars(RedirectJoinAttempt(i)) /\ WF_vars(LeaderCommitChange(i))
          /\ WF_vars(AcknowledgeProposedChange(i)) /\ WF_vars(StartMetaWedge(i))
          /\ WF_vars(TerminateEpoch(i)) /\ WF_vars(RetryNextView(i))
    /\ \A r, i \in Nodes : WF_vars(DeliverPut(r, i))
    /\ \A i, q \in Nodes : WF_vars(phase[q] \in Dead /\ ReportFailure(i, q))
    /\ \A j \in Joiners : WF_vars(JoinerConnect(j))

Spec == Init /\ [][Next]_vars /\ Fairness

-----------------------------------------------------------------------------
TypeOK ==
    /\ phase \in [Nodes -> Live \cup Dead]
    /\ failed \in [Nodes -> SUBSET Nodes]
    /\ row \in [Nodes -> [Nodes -> Row]]
    /\ pending \in [Nodes -> Seq(Joiners)]
    /\ jtarget \in [Joiners -> Nodes \cup {0}]
    /\ steady \in [Nodes -> BOOLEAN]
    /\ saved \in [Nodes -> 0..K]
    /\ next \in [Nodes -> Seq(Ids)]

\* Uniform agreement on the next view: every two members whose
\* terminate_epoch found the next view adequate computed the same member
\* list in make_next_view (spec: installed vid sequences agree).
NextViewAgreement ==
    \A i, j \in Nodes :
        phase[i] = "NextView" /\ phase[j] = "NextView" => next[i] = next[j]

\* receive_join writes changes[num_changes - num_installed] after checking
\* num_changes - num_committed against the capacity: the write must stay
\* inside the changes[] column.
ChangesWithinCapacity == \A i \in Nodes : phase[i] # "Overflow"

\* Spec section 3: num_committed <= num_acked <= num_changes on the row of
\* every live member, across leader changes in acknowledge_proposed_change.
CountersOrdered ==
    \A i \in Nodes :
        phase[i] \in Live =>
            row[i][i].ncommitted <= row[i][i].nacked /\ row[i][i].nacked <= row[i][i].nchanges

\* Once a member has crashed or left, the survivors run the whole change:
\* suspicion spreads, the (possibly new) leader proposes and commits the
\* removal, everyone meta-wedges and every live member computes the next
\* view (new_suspicion .. terminate_epoch).
ViewChangeCompletes ==
    (\E q \in Nodes : phase[q] \in Dead)
        ~> (\A i \in Nodes : phase[i] \in Live => phase[i] = "NextView")

====
