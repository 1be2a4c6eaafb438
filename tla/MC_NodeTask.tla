----------------------------- MODULE MC_NodeTask -----------------------------
(* A stage, a reducer that accepts it unfinished and commits a barrier, and a  *)
(* task that waits for the barrier.                                            *)
EXTENDS NodeTask

CONSTANTS a, r, z
NodeRequires == [t \in Tasks |-> CASE t = a -> {} [] t = r -> {a} [] t = z -> {r}]
NodeWaits == [t \in Tasks |-> IF t = z THEN {r} ELSE {}]
NodeWork == [t \in Tasks |-> IF t = a THEN 1 ELSE 0]
=============================================================================
