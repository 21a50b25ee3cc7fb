------------------------------- MODULE MC_GMS -------------------------------
(* Model values for checking GMS with TLC. *)
EXTENDS GMS

CONSTANTS j1, j2

MCJoiners == {j1}

NoJoiners == {}

MCJoiners2 == {j1, j2}

(* Prunes the window between a leader's commit and its start_meta_wedge  *)
(* in which a queued join could be taken: the predicate thread evaluates *)
(* leader_committed_changes in the same pass as leader_commit_change, so *)
(* a join reaches receive_join only from the inadequate-view path.       *)
NoJoinBeforeMetaWedge ==
    \A i \in Nodes : ~(phase[i] = "Normal" /\ row[i][i].ncommitted > 0 /\ pending[i] # <<>>)

====
