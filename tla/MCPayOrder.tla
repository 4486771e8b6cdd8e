---------------------------- MODULE MCPayOrder ----------------------------
(* Instances of PayOrder for TLC. *)
EXTENDS PayOrder, TLC

Symmetry == Permutations(Order)
=============================================================================
