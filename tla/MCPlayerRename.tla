--------------------------- MODULE MCPlayerRename ---------------------------
(***************************************************************************)
(* Two players and three names.  p1 has coins and pays from the first        *)
(* rename on, p2 has a card and no coins.  Names only serve to be told       *)
(* apart.                                                                    *)
(***************************************************************************)
EXTENDS PlayerRename

Symmetry == Permutations(Name)
=============================================================================
