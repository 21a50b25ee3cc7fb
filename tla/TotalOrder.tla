----------------------------- MODULE TotalOrder -----------------------------
(***************************************************************************)
(* What an ORDERED-mode Derecho subgroup promises its members within one   *)
(* view (spec: "atomic multicast"): the messages the senders send are      *)
(* placed in one total order that keeps each sender's messages in the      *)
(* order it sent them, every member delivers a prefix of that order, and   *)
(* every message sent is eventually delivered by every member.             *)
(*                                                                         *)
(* Message i of sender s is the pair <<s, i>>.  The order is extended by   *)
(* batches, and a member may deliver several messages in one step, as the *)
(* implementation does.                                                   *)
(***************************************************************************)
EXTENDS Naturals, Sequences, FiniteSets, SequencesExt

CONSTANTS
    Members,    \* the shard members
    Senders,    \* the members that send
    MaxSends    \* messages each sender sends (bound)

VARIABLES
    sent,       \* sent[s]: how many messages s has sent
    order,      \* the total order agreed so far
    delivered   \* delivered[m]: the messages m has delivered, in order

vars == <<sent, order, delivered>>

\* How many of s's messages have a place in the order o.
Placed(o, s) == Cardinality({p \in DOMAIN o : o[p][1] = s})

\* The next message of s after those placed in o and those in ext.
NextOf(o, s, ext) == <<s, Placed(o \o ext, s)>>

\* The ways to place n more of the messages counted by snt after o, each
\* sender's in sending order.
RECURSIVE Extensions(_, _, _)
Extensions(o, snt, n) ==
    IF n = 0 THEN {<<>>}
    ELSE UNION {{Append(e, NextOf(o, s, e)) : s \in {x \in Senders : NextOf(o, x, e)[2] < snt[x]}}
                : e \in Extensions(o, snt, n - 1)}

Init ==
    /\ sent = [s \in Senders |-> 0]
    /\ order = <<>>
    /\ delivered = [m \in Members |-> <<>>]

Broadcast(s) ==
    LET snt == sent
    IN /\ snt[s] < MaxSends
       /\ sent' = [snt EXCEPT ![s] = @ + 1]
       /\ UNCHANGED <<order, delivered>>

\* Some sent messages are placed, after every message already placed.
Order ==
    LET o == order
        snt == sent
    IN \E n \in 1..(FoldFunction(+, 0, snt) - Len(o)) : \E ext \in Extensions(o, snt, n) :
           /\ order' = o \o ext
           /\ UNCHANGED <<sent, delivered>>

\* m delivers the next messages of the order.
Deliver(m) ==
    LET o == order
        d == delivered
    IN \E n \in (Len(d[m]) + 1)..Len(o) :
           /\ delivered' = [d EXCEPT ![m] = SubSeq(o, 1, n)]
           /\ UNCHANGED <<sent, order>>

Next ==
    \/ \E s \in Senders : Broadcast(s)
    \/ Order
    \/ \E m \in Members : Deliver(m)

\* Sending is up to the application; placing and delivering must happen.
Spec == Init /\ [][Next]_vars /\ WF_vars(Order) /\ \A m \in Members : WF_vars(Deliver(m))

\* The safety part (stuttering tested first; the same formula)
SafeSpec == Init /\ [][UNCHANGED vars \/ Next]_vars
=============================================================================
