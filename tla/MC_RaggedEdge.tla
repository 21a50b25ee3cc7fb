--------------------------- MODULE MC_RaggedEdge ---------------------------
(***************************************************************************)
(* Model-checking instance of RaggedEdge.  The violation runs start from  *)
(* one drain outcome, so that TLC reaches the deep interleavings quickly:  *)
(* the lowest-ranked member (the shard leader) missed sender 0's message, *)
(* the two others received one message of each sender.                   *)
(***************************************************************************)
EXTENDS RaggedEdge

WitnessRcv ==
    rcv = [n \in Nodes |-> [s \in SenderRanks |-> IF n = 1 /\ s = 0 THEN -1 ELSE 0]]

\* In the false-suspicion run only member 2 suspects, and only the shard
\* leader (rank 1); runs where another member acts on it are not explored.
WitnessSuspicion ==
    \A i \in Nodes : sst[i][i].susp \subseteq (IF i = 2 THEN {1} ELSE {})
=============================================================================
