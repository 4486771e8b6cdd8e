--------------------------- MODULE MCLoginQueue ---------------------------
(* Instances of LoginQueue for TLC. *)
EXTENDS LoginQueue, TLC

Symmetry == Permutations(Pid) \cup Permutations(Handle)
===========================================================================
