---------------------------- MODULE MCWorldLogin ----------------------------
(* Instances of WorldLogin for TLC. *)
EXTENDS WorldLogin, TLC

Symmetry == Permutations(Pid) \cup Permutations(Handle)
=============================================================================
