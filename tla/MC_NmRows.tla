------------------------------ MODULE MC_NmRows -----------------------------
(* A training row and the scoring row that runs after it. *)
EXTENDS NmRows, TLC

CONSTANTS a1, a2, a3, j1, j2
TrainThenScore == [t \in Tasks |-> IF t = "score" THEN {"train"} ELSE {}]
RowHours == [t \in Tasks |-> IF t = "score" THEN 1 ELSE 2]
NmSymmetry == Permutations({a1, a2, a3}) \cup Permutations({j1, j2})
=============================================================================
