----------------------------- MODULE MC_Handoff -----------------------------
(* Two files of OUT and two processes on one host. *)
EXTENDS Handoff, TLC

CONSTANTS p1, p2, f1, f2
HandoffSymmetry == Permutations({p1, p2}) \cup Permutations({f1, f2})
=============================================================================
