----------------------------- MODULE RaggedTrim -----------------------------
(***************************************************************************)
(* What the end of a view promises one shard (spec 4.5 and 8.1): one      *)
(* ragged trim, the number of messages of each sender the dying view      *)
(* delivers, is decided once.  It covers everything any member delivered  *)
(* before, and every member that still runs when it is decided has         *)
(* received it.  A member delivers exactly the messages of the trim and   *)
(* only then installs the next view; a member may stop at any time.       *)
(*                                                                         *)
(* Message i of the sender of rank s is <<s, i>>.                          *)
(***************************************************************************)
EXTENDS Integers

CONSTANTS
    Nodes,        \* the shard members
    SenderRanks,  \* the ranks of the shard's senders
    MaxIdx        \* the largest index a member can have received

Idx   == -1..MaxIdx
Msgs  == SenderRanks \X (0..MaxIdx)
Trims == [SenderRanks -> Idx]
NoTrim == [s \in SenderRanks |-> -2]

\* The messages a trim delivers.
TrimSet(t) == {m \in Msgs : m[2] <= t[m[1]]}

VARIABLES
    rcv,        \* rcv[i][s]: the last index of s that member i received
    dset,       \* dset[i]: the messages member i has delivered in this view
    trim,       \* the trim decided, or NoTrim
    stopped,    \* members that stopped (crash, partition)
    installed   \* members that installed the next view

vars == <<rcv, dset, trim, stopped, installed>>

\* Before the view ends, members deliver only what every member received.
Init ==
    /\ rcv \in [Nodes -> [SenderRanks -> Idx]]
    /\ dset \in [Nodes -> SUBSET {m \in Msgs : \A n \in Nodes : m[2] <= rcv[n][m[1]]}]
    /\ trim = NoTrim
    /\ stopped = {} /\ installed = {}

Running(i) == i \notin stopped \cup installed

\* A trim may be decided if it covers every delivery so far and every
\* running member has received it.
Admissible(t) ==
    /\ \A j \in Nodes : dset[j] \subseteq TrimSet(t)
    /\ \A n \in Nodes \ stopped : \A s \in SenderRanks : t[s] <= rcv[n][s]

\* Member i delivers the trim, deciding it if no trim is decided yet.
DeliverTrim(i) ==
    /\ Running(i)
    /\ \E t \in Trims :
          /\ IF trim = NoTrim THEN Admissible(t) ELSE t = trim
          /\ trim' = t
          /\ dset' = [dset EXCEPT ![i] = TrimSet(t)]
    /\ UNCHANGED <<rcv, stopped, installed>>

\* Member i installs the next view once it delivered the trim.
Install(i) ==
    /\ Running(i) /\ trim # NoTrim /\ dset[i] = TrimSet(trim)
    /\ installed' = installed \cup {i}
    /\ UNCHANGED <<rcv, dset, trim, stopped>>

Stop(i) ==
    /\ Running(i)
    /\ stopped' = stopped \cup {i}
    /\ UNCHANGED <<rcv, dset, trim, installed>>

Next == \E i \in Nodes : DeliverTrim(i) \/ Install(i) \/ Stop(i)

\* The safety part (stuttering tested first; the same formula)
SafeSpec == Init /\ [][UNCHANGED vars \/ Next]_vars
=============================================================================
