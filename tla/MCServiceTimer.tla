--------------------------- MODULE MCServiceTimer ---------------------------
(***************************************************************************)
(* A small service for ServiceTimer: two objects of one key on a wheel of   *)
(* two slots at each level.                                                 *)
(***************************************************************************)
EXTENDS ServiceTimer
=============================================================================
