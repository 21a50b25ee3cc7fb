------------------------------ MODULE Multicast ------------------------------
(***************************************************************************)
(* The ORDERED-mode multicast engine of one shard of one subgroup during   *)
(* one view (MulticastGroup in src/derecho/rpc_manager.h).                 *)
(*                                                                         *)
(* Members 1..N form the shard; members 1..S are its senders, with         *)
(* sender_rank = member - 1.  A message is identified by its sender and    *)
(* its per-sender index k; its sequence number is k * S + sender_rank.     *)
(* A message travels on one of two transports:                            *)
(*   - "SST": the small-message ring of the sender (W slots), read by a   *)
(*     recurrent predicate of every member (receiver_function);           *)
(*   - "RDMC": queued on pending_sends, handed to rdmc::send by the       *)
(*     sender thread (send_loop), completed at every member in FIFO order *)
(*     (rdmc_receive_handler), holding one buffer of the member's pool.   *)
(* Both receive handlers run resolve_num_received, the null-send scheme   *)
(* and the seq_num update; delivery_trigger delivers in sequence order   *)
(* up to the minimum seq_num of the shard and asks the persistence       *)
(* thread to persist; persisted_num is compared by the sender thread.    *)
(*                                                                         *)
(* Counters of other members' rows (seq_num, delivered_num,              *)
(* persisted_num, num_received_sst) are read at their latest value: a put *)
(* is modelled as landing at once.  All these counters only grow and are *)
(* only compared with a lower bound, so a stale read only delays a step   *)
(* the model also takes.                                                  *)
(***************************************************************************)
EXTENDS Integers, Sequences, FiniteSets, SequencesExt

CONSTANTS
    N,           \* shard members 1..N
    S,           \* senders 1..S (SubgroupSettings::senders)
    W,           \* window_size
    MaxSends,    \* application messages each sender sends (bound)
    Vid,         \* sst.vid[member_index] of the current view
    Transports   \* transports the application's payload sizes select

ASSUME /\ S \in 1..N /\ W \in Nat \ {0} /\ MaxSends \in Nat /\ Vid \in Nat
       /\ Transports \subseteq {"SST", "RDMC"} /\ Transports # {}

Members == 1..N
Senders == 1..S
Rank(s) == s - 1
SeqNo(k, s) == k * S + Rank(s)
\* A version packs (vid, seq) into 64 bits, vid in the high half;
\* VersionBase stands for 2^32 and exceeds every sequence number here.
VersionBase == 1000
Version(q) == Vid * VersionBase + q
\* batch_size of receiver_trig: window_size / 2, at least 1.
BatchSize == IF W \div 2 = 0 THEN 1 ELSE W \div 2

VARIABLES
    log,     \* log[s][k+1]: message index k of sender s (null?, transport)
    nsent,   \* nsent[s]: RDMC messages of s handed to rdmc::send
    nrs,     \* nrs[m][s]: ring messages of s consumed by m (num_received_sst + 1)
    nrr,     \* nrr[m][s]: RDMC messages of s completed at m
    rcv,     \* rcv[m][s]: indices of s received at m (received_intervals)
    seqn,    \* seqn[m]: seq_num[m]
    dlv,     \* dlv[m]: sequence numbers delivered at m
    dn,      \* dn[m]: delivered_num[m]
    preq,    \* preq[m]: latest version passed to post_persist at m
    pn       \* pn[m]: persisted_num[m] (a version)

vars == <<log, nsent, nrs, nrr, rcv, seqn, dlv, dn, preq, pn>>

Msg(isnull, t) == [null |-> isnull, rdmc |-> t = "RDMC"]

\* The indices from k on of the messages of a log whose transport is (or
\* is not, for b FALSE) RDMC, in order.
RECURSIVE IdxFrom(_, _, _)
IdxFrom(lg, b, k) ==
    IF k >= Len(lg) THEN <<>>
    ELSE (IF lg[k + 1].rdmc = b THEN <<k>> ELSE <<>>) \o IdxFrom(lg, b, k + 1)
\* Indices of the messages of a log on the RDMC and on the SST transport.
RdmcIdx(lg) == IdxFrom(lg, TRUE, 0)
SstIdx(lg) == IdxFrom(lg, FALSE, 0)
RingLen(s) == Len(SstIdx(log[s]))
AppSends(s) == Cardinality({p \in 1..Len(log[s]) : ~log[s][p].null})

\* Mutant: the end of the last received interval instead of the first.
ContigMaxLast(X) == IF X = {} THEN -1 ELSE Max(X)

\* The largest n with 0..n all received (-1 if none): what
\* resolve_num_received returns from its interval list.
ContigMax(X) == CHOOSE n \in -1..Cardinality(X) : (0..n \subseteq X) /\ (n + 1) \notin X
NumReceived(rc, s) == ContigMax(rc[s])

\* Mutant: seq_num one past the last message received from every sender.
NewSeqNumPastMin(rc) ==
    LET row == [s \in Senders |-> NumReceived(rc, s)]
        lo == Min(Range(row))
        at == Min({s \in Senders : row[s] = lo})
    IN (lo + 1) * S + Rank(at)

\* receiver_function and the RDMC handler: the first sender with the
\* fewest contiguous messages decides the new seq_num.
NewSeqNum(rc) ==
    LET row == [s \in Senders |-> NumReceived(rc, s)]
        lo == Min(Range(row))
        at == Min({s \in Senders : row[s] = lo})
    IN (lo + 1) * S + Rank(at) - 1

\* Mutant: the lower-ranked sender stops one null short.
NullsTooFew(m, s, new, fmi) ==
    IF m \notin Senders \/ m = s THEN 0 ELSE Max({0, new - fmi})

\* Null-send scheme: a sender m that received index `new` of sender s
\* catches its own index up (to new if it ranks below s, new - 1 if above).
NullsNeeded(m, s, new, fmi) ==
    IF m \notin Senders \/ m = s THEN 0
    ELSE IF Rank(m) < Rank(s) THEN Max({0, new + 1 - fmi})
    ELSE Max({0, new - fmi})

AddNulls(lg, m, c) ==
    IF c = 0 THEN lg ELSE [lg EXCEPT ![m] = @ \o [x \in 1..c |-> Msg(TRUE, "SST")]]

\* One received message (index k of sender s) at m: store, resolve
\* num_received, send nulls.  Shared by both handlers.
Receive(st, m, s, k) ==
    LET rc == [st.rc EXCEPT ![s] = @ \cup {k}]
    IN [st EXCEPT !.rc = rc,
                  !.lg = AddNulls(st.lg, m, NullsNeeded(m, s, NumReceived(rc, s), Len(st.lg[m])))]

\* The ring slot of s that m reads next holds ring message c = nrs[m][s]
\* (the trailer generation matches) when c was written and not yet
\* overwritten by ring message c + W.
SlotReady(lg, c, s) == c < Len(SstIdx(lg[s])) /\ Len(SstIdx(lg[s])) <= c + W

\* sst::multicast_group::get_buffer: the next ring slot is free when every
\* member has consumed the ring message W places before it.
RingFree(s) == \A m \in Members : nrs[m][s] >= RingLen(s) + 1 - W

\* Buffers of m's pool held: m's own RDMC messages and the RDMC messages
\* m received, until delivered at m.  The pool has W * N buffers.
InUse(m) ==
    Cardinality(UNION {{<<s, k>> : k \in {x \in Range(RdmcIdx(log[s])) :
                                            /\ (s = m \/ x \in rcv[m][s])
                                            /\ SeqNo(x, s) \notin dlv[m]}} : s \in Senders})

Init ==
    /\ log = [s \in Senders |-> <<>>]
    /\ nsent = [s \in Senders |-> 0]
    /\ nrs = [m \in Members |-> [s \in Senders |-> 0]]
    /\ nrr = [m \in Members |-> [s \in Senders |-> 0]]
    /\ rcv = [m \in Members |-> [s \in Senders |-> {}]]
    /\ seqn = [m \in Members |-> -1]
    /\ dlv = [m \in Members |-> {}]
    /\ dn = [m \in Members |-> -1]
    /\ preq = [m \in Members |-> -1]
    /\ pn = [m \in Members |-> -1]

\* Mutant: the delivered_num window checked one message too far back.
SendWindowOffByOne(s, t) ==
    LET fmi == Len(log[s]) IN
    /\ AppSends(s) < MaxSends
    /\ \A m \in Members : dn[m] >= (fmi - W - 1) * S + Rank(s)
    /\ IF t = "RDMC" THEN InUse(s) < W * N ELSE RingFree(s)
    /\ log' = [log EXCEPT ![s] = Append(@, Msg(FALSE, t))]
    /\ UNCHANGED <<nsent, nrs, nrr, rcv, seqn, dlv, dn, preq, pn>>

\* MulticastGroup::send for an application message.  get_sendbuffer_ptr
\* returns nullptr (and send retries, the lock released) until every shard
\* member's delivered_num reaches message future_message_indices - W of
\* this sender, and, per transport, until a pool buffer or a ring slot is
\* free; then the message takes index future_message_indices, which is
\* incremented, and is queued on pending_sends (RDMC) or published in the
\* ring (SST).  send holds msg_state_mtx from the successful
\* get_sendbuffer_ptr to the queueing, so pending_sst_sends and next_sends
\* are never seen set by another thread.
Send(s, t) ==
    LET fmi == Len(log[s]) IN
    /\ AppSends(s) < MaxSends
    /\ \A m \in Members : dn[m] >= (fmi - W) * S + Rank(s)
    /\ IF t = "RDMC" THEN InUse(s) < W * N ELSE RingFree(s)
    /\ log' = [log EXCEPT ![s] = Append(@, Msg(FALSE, t))]
    /\ UNCHANGED <<nsent, nrs, nrr, rcv, seqn, dlv, dn, preq, pn>>

\* Mutants: should_send without its own-receipt check; without persisted_num.
ShouldSendNoSelfCheck(s) ==
    /\ nsent[s] < Len(RdmcIdx(log[s]))
    /\ LET idx == RdmcIdx(log[s])[nsent[s] + 1]
           floor == (idx - W) * S + Rank(s)
       IN \A m \in Members : dn[m] >= floor /\ pn[m] >= floor
ShouldSendNoPersistCheck(s) ==
    /\ nsent[s] < Len(RdmcIdx(log[s]))
    /\ LET idx == RdmcIdx(log[s])[nsent[s] + 1]
       IN /\ NumReceived(rcv[s], s) >= idx - 1
          /\ \A m \in Members : dn[m] >= (idx - W) * S + Rank(s)

\* should_send_to_subgroup: pending_sends is not empty, this member has
\* itself received every earlier index of its own, and every member's
\* delivered_num and persisted_num have reached message index - W of this
\* sender (persisted_num, a version, compared as it is with a sequence
\* number).
ShouldSend(s) ==
    /\ nsent[s] < Len(RdmcIdx(log[s]))
    /\ LET idx == RdmcIdx(log[s])[nsent[s] + 1]
           floor == (idx - W) * S + Rank(s)
       IN /\ NumReceived(rcv[s], s) >= idx - 1
          /\ \A m \in Members : dn[m] >= floor /\ pn[m] >= floor

\* send_loop: once should_wake holds, the sender thread hands the head of
\* pending_sends to rdmc::send and pops it.
SendLoop(s) ==
    /\ ShouldSend(s)
    /\ nsent' = [nsent EXCEPT ![s] = @ + 1]
    /\ UNCHANGED <<log, nrs, nrr, rcv, seqn, dlv, dn, preq, pn>>

\* rdmc_receive_handler: the next RDMC message of s completes at m; it is
\* stored as locally stable, num_received resolved, nulls sent, and, only
\* if num_received grew, seq_num recomputed and raised.
RdmcPending(m, s) == nrr[m][s] < nsent[s]

ReceiveRdmc(m, s) ==
    /\ RdmcPending(m, s)
    /\ LET k == RdmcIdx(log[s])[nrr[m][s] + 1]
           st == Receive([lg |-> log, rc |-> rcv[m]], m, s, k)
           grew == NumReceived(st.rc, s) > NumReceived(rcv[m], s)
       IN /\ log' = st.lg
          /\ rcv' = [rcv EXCEPT ![m] = st.rc]
          /\ seqn' = IF grew THEN [seqn EXCEPT ![m] = Max({@, NewSeqNum(st.rc)})]
                     ELSE seqn
    /\ nrr' = [nrr EXCEPT ![m][s] = @ + 1]
    /\ UNCHANGED <<nsent, nrs, dlv, dn, preq, pn>>

\* One probe of receiver_function's loop: if the ring slot of s holds the
\* next ring message, run sst_receive_handler on it and count it.
SstStep(st, m, s) ==
    LET c == st.ns[s] IN
    IF SlotReady(st.lg, c, s)
    THEN [Receive(st, m, s, SstIdx(st.lg[s])[c + 1]) EXCEPT !.ns[s] = c + 1]
    ELSE st

\* batch_size rounds over the senders in rank order.
BatchOrder == [p \in 1..(BatchSize * S) |-> ((p - 1) % S) + 1]

\* The probes of one batch, in order.
RECURSIVE SstBatch(_, _, _)
SstBatch(st, m, order) ==
    IF order = <<>> THEN st ELSE SstBatch(SstStep(st, m, Head(order)), m, Tail(order))

\* receiver_trig, run when receiver_predicate finds a ready slot: the
\* batch, then seq_num recomputed from the whole row and raised.
ReceiverPredicate(m) == \E s \in Senders : SlotReady(log, nrs[m][s], s)

ReceiveSST(m) ==
    /\ ReceiverPredicate(m)
    /\ LET st == SstBatch([lg |-> log, rc |-> rcv[m], ns |-> nrs[m]], m, BatchOrder)
       IN /\ log' = st.lg
          /\ rcv' = [rcv EXCEPT ![m] = st.rc]
          /\ nrs' = [nrs EXCEPT ![m] = st.ns]
          /\ seqn' = [seqn EXCEPT ![m] = Max({@, NewSeqNum(st.rc)})]
    /\ UNCHANGED <<nsent, nrr, dlv, dn, preq, pn>>

Received(m) == UNION {{SeqNo(k, s) : k \in rcv[m][s]} : s \in Senders}
IsNull(q) == log[(q % S) + 1][(q \div S) + 1].null

\* Mutant: delivery bounded by the member's own seq_num, not the shard's.
DeliverOwnSeqNum(m) ==
    LET ds == {q \in Received(m) \ dlv[m] : q <= seqn[m]}
    IN /\ ds # {}
       /\ dlv' = [dlv EXCEPT ![m] = @ \cup ds]
       /\ dn' = [dn EXCEPT ![m] = Max(ds)]
       /\ preq' = IF \E q \in ds : ~IsNull(q)
                  THEN [preq EXCEPT ![m] = Version(Max(ds))] ELSE preq
       /\ UNCHANGED <<log, nsent, nrs, nrr, rcv, seqn, pn>>

\* Mutant: post_persist only for a batch without nulls (non_null_msgs_delivered
\* and-ed over the batch instead of or-ed).
DeliverPostsAllNonNull(m) ==
    LET minStable == Min({seqn[x] : x \in Members})
        ds == {q \in Received(m) \ dlv[m] : q <= minStable}
    IN /\ ds # {}
       /\ dlv' = [dlv EXCEPT ![m] = @ \cup ds]
       /\ dn' = [dn EXCEPT ![m] = Max(ds)]
       /\ preq' = IF \A q \in ds : ~IsNull(q)
                  THEN [preq EXCEPT ![m] = Version(Max(ds))] ELSE preq
       /\ UNCHANGED <<log, nsent, nrs, nrr, rcv, seqn, pn>>

\* delivery_trigger: deliver the locally stable messages, least first,
\* while they are at most the shard's minimum seq_num; publish
\* delivered_num and, if one of them was not a null, post_persist the
\* version of the last one delivered.
Deliver(m) ==
    LET minStable == Min({seqn[x] : x \in Members})
        ds == {q \in Received(m) \ dlv[m] : q <= minStable}
    IN /\ ds # {}
       /\ dlv' = [dlv EXCEPT ![m] = @ \cup ds]
       /\ dn' = [dn EXCEPT ![m] = Max(ds)]
       /\ preq' = IF \E q \in ds : ~IsNull(q)
                  THEN [preq EXCEPT ![m] = Version(Max(ds))] ELSE preq
       /\ UNCHANGED <<log, nsent, nrs, nrr, rcv, seqn, pn>>

\* The persistence thread persists up to the requested version and
\* publishes it as persisted_num.
Persist(m) ==
    /\ preq[m] > pn[m]
    /\ pn' = [pn EXCEPT ![m] = preq[m]]
    /\ UNCHANGED <<log, nsent, nrs, nrr, rcv, seqn, dlv, dn, preq>>

Next ==
    \/ \E s \in Senders, t \in Transports : Send(s, t)
    \/ \E s \in Senders : SendLoop(s)
    \/ \E m \in Members, s \in Senders : ReceiveRdmc(m, s)
    \/ \E m \in Members : ReceiveSST(m) \/ Deliver(m) \/ Persist(m)

\* The SST predicate thread evaluates every recurrent predicate again and
\* again; the sender thread and the persistence thread are woken by the
\* steps that enable them; RDMC completes every send it accepted.  The
\* application is not obliged to send.  For the two receive handlers, weak
\* fairness is stated with the trigger's own condition in place of ENABLED
\* (the same condition: both handlers always change the state).

Fairness ==
    /\ \A m \in Members, s \in Senders : (<>[]RdmcPending(m, s) => []<><<ReceiveRdmc(m, s)>>_vars)
    /\ \A m \in Members : /\ (<>[]ReceiverPredicate(m) => []<><<ReceiveSST(m)>>_vars)
                         /\ WF_vars(Deliver(m)) /\ WF_vars(Persist(m))

Spec == Init /\ [][Next]_vars /\ Fairness

-----------------------------------------------------------------------------
\* Nulls only catch a sender up to an index another sender has used, so no
\* index exceeds the number of application messages sent in the shard.
MaxIndex == S * MaxSends - 1
MaxSeq == (MaxIndex + 1) * S - 1
Versions == {-1} \cup {Version(q) : q \in 0..MaxSeq}

TypeOK ==
    /\ log \in [Senders -> Seq([null : BOOLEAN, rdmc : BOOLEAN])]
    /\ \A s \in Senders : Len(log[s]) <= MaxIndex + 1
    /\ nsent \in [Senders -> Nat]
    /\ nrs \in [Members -> [Senders -> Nat]]
    /\ nrr \in [Members -> [Senders -> Nat]]
    /\ rcv \in [Members -> [Senders -> SUBSET (0..MaxIndex)]]
    /\ seqn \in [Members -> -1..MaxSeq] /\ dn \in [Members -> -1..MaxSeq]
    /\ dlv \in [Members -> SUBSET (0..MaxSeq)]
    /\ preq \in [Members -> Versions] /\ pn \in [Members -> Versions]

\* Ordered delivery (delivery_trigger, seq_num and the null-send scheme):
\* at every member the delivered messages are exactly sequence numbers
\* 0..delivered_num, so nothing is skipped, repeated or delivered late.
DeliveryInOrder == \A m \in Members : dlv[m] = 0..dn[m]

\* Stability: a member delivers a message only once every shard member
\* has received it (min over seq_num covers it), whichever transport
\* carried it.
DeliveredIsStable ==
    \A m, x \in Members : dlv[m] \subseteq Received(x)

\* The SST receive handler keeps a pointer into the ring slot until the
\* message is delivered: no ring slot (application message or null) is
\* rewritten while a member has not yet delivered the message it holds.
RingSlotsHeldUntilDelivered ==
    \A s \in Senders, m \in Members :
        \A c \in 0..(RingLen(s) - 1) :
            SeqNo(SstIdx(log[s])[c + 1], s) \notin dlv[m] => RingLen(s) <= c + W

\* send_loop moves the head of pending_sends into current_sends, which the
\* sender's own completion of the previous RDMC message consumes: at most
\* one RDMC message of a sender is awaiting its own completion.
AtMostOneRdmcInFlight == \A s \in Senders : nsent[s] - nrr[s][s] <= 1

\* The persistence window the sender thread intends: when an RDMC message
\* with index idx is handed to rdmc::send, every member has persisted the
\* sender's message idx - W (compared as sequence numbers).
PersistedSeq(m) == IF pn[m] < 0 THEN pn[m] ELSE pn[m] % VersionBase
PersistWindow ==
    \A s \in Senders : \A j \in 1..nsent[s] :
        \A m \in Members : PersistedSeq(m) >= SeqNo(RdmcIdx(log[s])[j] - W, s)

\* Every message a sender has sent, null or not, is delivered by every
\* shard member.
AllDelivered ==
    \A s \in Senders, m \in Members :
        \A k \in 0..(Len(log[s]) - 1) : SeqNo(k, s) \in dlv[m]

\* send_loop sleeps on sender_cv, whose wake-ups can be lost (SenderThread),
\* so it carries no fairness here.  If the sender thread does hand every
\* RDMC message to rdmc::send, the receive handlers, the null-send scheme
\* and delivery_trigger deliver every message sent at every member.
AllSentDelivered ==
    <>[](\A s \in Senders : nsent[s] = Len(RdmcIdx(log[s]))) => <>[]AllDelivered

\* The persistence barrier of terminate_epoch (persistence_finished_pred)
\* waits until the sequence half of every member's persisted_num reaches
\* its delivered_num: once the application stops, every member's
\* persisted_num eventually catches up with its delivered_num.
PersistenceCatchesUp ==
    <>[](\A m \in Members : PersistedSeq(m) >= dn[m])

-----------------------------------------------------------------------------
\* Refinement mapping to TotalOrder.  Application message i of sender s is
\* the i-th non-null message in s's log.  The total order is the
\* application messages whose sequence numbers are at most the least
\* seq_num of the shard, in sequence order: delivery_trigger never
\* delivers past that bound.  A member's
\* delivered sequence is its delivered application messages in sequence
\* order; delivery is gap-free (DeliveryInOrder), so they are those up to
\* delivered_num.
Exists(q) == (q \div S) < Len(log[(q % S) + 1])
\* The application messages with sequence numbers q..hi, in sequence
\* order, cnt[s] counting the application messages of s before q.
RECURSIVE AppSeqFrom(_, _, _)
AppSeqFrom(q, hi, cnt) ==
    LET s == (q % S) + 1 IN
    IF q > hi THEN <<>>
    ELSE IF Exists(q) /\ ~IsNull(q)
         THEN <<<<s, cnt[s]>>>> \o AppSeqFrom(q + 1, hi, [cnt EXCEPT ![s] = @ + 1])
         ELSE AppSeqFrom(q + 1, hi, cnt)
AppSeqUpTo(hi) == AppSeqFrom(0, hi, [s \in Senders |-> 0])
Ordered == AppSeqUpTo(Min({seqn[x] : x \in Members}))

TO == INSTANCE TotalOrder
        WITH sent <- [s \in Senders |-> AppSends(s)],
             order <- Ordered,
             delivered <- [m \in Members |-> AppSeqUpTo(dn[m])]

\* The engine implements atomic multicast: every step of send, the sender
\* thread, the two receive handlers and delivery_trigger is a step of
\* TotalOrder (or leaves its state alone).  The order never changes once
\* the shard's least seq_num has passed a message, every member delivers
\* a prefix of it, and every application message is ordered and
\* delivered everywhere.
ImplementsTotalOrder == TO!SafeSpec
=============================================================================
