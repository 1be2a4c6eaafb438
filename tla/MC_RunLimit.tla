---------------------------- MODULE MC_RunLimit ----------------------------
(* Attempts of one block, one after the other. *)
EXTENDS RunLimit
=============================================================================
