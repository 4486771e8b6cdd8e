---------------------------- MODULE MCRoleCreate ----------------------------
(* Instances of RoleCreate for TLC. *)
EXTENDS RoleCreate

Symmetry == Permutations(Handle) \cup Permutations(Name)
=============================================================================
