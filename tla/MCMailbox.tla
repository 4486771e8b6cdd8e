----------------------------- MODULE MCMailbox -----------------------------
(***************************************************************************)
(* An instance of Mailbox for TLC: service a runs from the start, has       *)
(* priority and cannot be ended; service b is launched, may fail to start   *)
(* and may be ended.  There is no symmetry: MailServed and QueueFreed are   *)
(* liveness properties.                                                     *)
(***************************************************************************)
EXTENDS Mailbox
=============================================================================
