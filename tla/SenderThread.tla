---------------------------- MODULE SenderThread ----------------------------
(***************************************************************************)
(* The sender thread of MulticastGroup (send_loop, rpc_manager.h) and the  *)
(* condition variable sender_cv that wakes it, composed with the multicast *)
(* engine of module Multicast.                                            *)
(*                                                                         *)
(* send_loop holds msg_state_mtx at all times except while it waits on     *)
(* sender_cv.  sender_cv.wait(lock, should_wake) evaluates should_wake     *)
(* under the lock and, if it is false, releases the lock and blocks: a    *)
(* notify_all issued by a thread that does not hold msg_state_mtx between *)
(* the evaluation and the block is lost.  The notifiers are send (under   *)
(* the lock), receive_handler_plus_notify (after rdmc_receive_handler has *)
(* released the lock) and sender_trig, the trigger of a recurrent SST     *)
(* predicate, which runs without the lock.                                *)
(*                                                                         *)
(* thr[m], the sender thread of member m (every node runs one):                                 *)
(*   "run"   holds the lock, about to evaluate should_wake;               *)
(*   "block" holds the lock, found should_wake false, not yet waiting;    *)
(*   "sleep" waits on sender_cv (lock released);                          *)
(*   "woken" notified, waiting to take the lock again.                    *)
(* Every other use of msg_state_mtx at m is a single step of Multicast,   *)
(* taken only while the sender thread of m does not hold the lock.        *)
(***************************************************************************)
EXTENDS Integers

CONSTANTS N, S, W, MaxSends, Vid, Transports,   \* as in Multicast
    TrigLocks   \* sender_trig takes msg_state_mtx (FALSE in the code)

ASSUME TrigLocks \in BOOLEAN

VARIABLES log, nsent, nrs, nrr, rcv, seqn, dlv, dn, preq, pn

M == INSTANCE Multicast

VARIABLES
    thr,     \* thr[s]: where the sender thread of s is in send_loop
    nmd,     \* nmd[s]: next_message_to_deliver of s (sender_pred's counter)
    missed   \* missed[m]: a notify reached m's thread between check and block

vars == <<log, nsent, nrs, nrr, rcv, seqn, dlv, dn, preq, pn>>
allVars == <<vars, thr, nmd, missed>>
Senders == M!Senders
Members == M!Members

\* msg_state_mtx of member m is not held by m's sender thread.
Free(m) == thr[m] \in {"sleep", "woken"}

\* should_wake: only a sender ever has pending_sends.
ShouldWake(m) == m \in Senders /\ M!ShouldSend(m)

\* sender_cv.notify_all() at m: a waiting thread is woken; a thread between
\* its check and its block misses the notify.
Wake(m) ==
    /\ thr' = IF thr[m] = "sleep" THEN [thr EXCEPT ![m] = "woken"] ELSE thr
    /\ missed' = IF thr[m] = "block" THEN [missed EXCEPT ![m] = TRUE] ELSE missed

Init ==
    /\ M!Init
    /\ thr = [m \in Members |-> "run"]
    /\ nmd = [s \in Senders |-> 0]
    /\ missed = [m \in Members |-> FALSE]

\* send: get_sendbuffer_ptr and the queueing under the lock; an RDMC
\* message is pushed on pending_sends and sender_cv notified.
AppSend(s, t) ==
    /\ Free(s)
    /\ M!Send(s, t)
    /\ IF t = "RDMC" THEN Wake(s) ELSE UNCHANGED <<thr, missed>>
    /\ UNCHANGED nmd

\* should_wake true: the head of pending_sends goes to rdmc::send and the
\* thread loops to evaluate should_wake again, the lock still held.
SenderSend(s) ==
    /\ thr[s] = "run"
    /\ M!SendLoop(s)
    /\ UNCHANGED <<thr, nmd, missed>>

\* should_wake false: the thread is about to wait.
SenderCheck(s) ==
    /\ thr[s] = "run"
    /\ ~ShouldWake(s)
    /\ thr' = [thr EXCEPT ![s] = "block"]
    /\ UNCHANGED <<vars, nmd, missed>>

\* The wait releases the lock and blocks.
SenderWait(s) ==
    /\ thr[s] = "block"
    /\ thr' = [thr EXCEPT ![s] = "sleep"]
    /\ UNCHANGED <<vars, nmd, missed>>

\* A woken thread takes the lock again and evaluates should_wake at once
\* (no other holder of the lock can come between).
SenderRelock(s) ==
    /\ thr[s] = "woken"
    /\ thr' = [thr EXCEPT ![s] = IF ShouldWake(s) THEN "run" ELSE "block"]
    /\ missed' = [missed EXCEPT ![s] = FALSE]
    /\ UNCHANGED <<vars, nmd>>

\* receive_handler_plus_notify: rdmc_receive_handler under the lock, then
\* notify_all.
ReceiveHandlerPlusNotify(m, s) ==
    /\ Free(m)
    /\ M!ReceiveRdmc(m, s)
    /\ Wake(m)
    /\ UNCHANGED nmd

\* receiver_trig and delivery_trigger take the lock and notify nobody.
ReceiverTrig(m) == Free(m) /\ M!ReceiveSST(m) /\ UNCHANGED <<thr, nmd, missed>>
DeliveryTrigger(m) == Free(m) /\ M!Deliver(m) /\ UNCHANGED <<thr, nmd, missed>>

\* The persistence thread does not take msg_state_mtx.
PersistenceThread(m) == M!Persist(m) /\ UNCHANGED <<thr, nmd, missed>>

\* sender_pred: every shard member's delivered_num and persisted_num have
\* reached message next_message_to_deliver of this sender.
SenderPred(s) ==
    LET q == nmd[s] * S + M!Rank(s)
    IN \A m \in Members : dn[m] >= q /\ pn[m] >= q

\* sender_trig: notify_all, then next_message_to_deliver++.
SenderTrig(s) ==
    /\ SenderPred(s)
    /\ TrigLocks => Free(s)
    /\ Wake(s)
    /\ nmd' = [nmd EXCEPT ![s] = @ + 1]
    /\ UNCHANGED vars

Next ==
    \/ \E s \in Senders, t \in Transports : AppSend(s, t)
    \/ \E s \in Senders : SenderSend(s) \/ SenderTrig(s)
    \/ \E m \in Members : SenderCheck(m) \/ SenderWait(m) \/ SenderRelock(m)
    \/ \E m \in Members, s \in Senders : ReceiveHandlerPlusNotify(m, s)
    \/ \E m \in Members : ReceiverTrig(m) \/ DeliveryTrigger(m) \/ PersistenceThread(m)

\* The sender thread runs whenever it holds the lock or is woken; the SST
\* predicate thread evaluates sender_pred again and again; the lock is
\* released by the sender thread at every wait, so the handlers that need
\* it get it.  Notifies are not assumed to arrive: a sleeping thread with
\* nobody to wake it stays asleep (spurious wakeups are not relied on).
Fairness ==
    /\ \A s \in Senders : WF_allVars(SenderSend(s)) /\ WF_allVars(SenderTrig(s))
    /\ \A m \in Members : /\ WF_allVars(SenderCheck(m)) /\ WF_allVars(SenderWait(m))
                         /\ WF_allVars(SenderRelock(m))
    /\ \A m \in Members, s \in Senders :
           WF_allVars(ReceiveHandlerPlusNotify(m, s))
    /\ \A m \in Members : /\ WF_allVars(ReceiverTrig(m))
                         /\ WF_allVars(DeliveryTrigger(m)) /\ WF_allVars(PersistenceThread(m))

Spec == Init /\ [][Next]_allVars /\ Fairness

-----------------------------------------------------------------------------
\* Every message a sender has sent is eventually delivered by every shard
\* member (Multicast's AllDelivered), now that send_loop must be woken to
\* hand an RDMC message to rdmc::send.
AllDelivered == <>[]M!AllDelivered
=============================================================================
