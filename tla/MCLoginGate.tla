---------------------------- MODULE MCLoginGate ----------------------------
(* Instances of LoginGate for TLC. *)
EXTENDS LoginGate, TLC

Symmetry == Permutations(Pid) \cup Permutations(Handle)
=============================================================================
