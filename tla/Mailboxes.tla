----------------------------- MODULE Mailboxes -----------------------------
(***************************************************************************)
(* What the core of skynet promises a service: its mail is handled in the   *)
(* order it was posted, one piece at a time; once the mailbox of a dead      *)
(* service is closed nothing is posted or handled any more, and what is     *)
(* left is taken out piece by piece, to be answered with an error.          *)
(***************************************************************************)
EXTENDS Sequences

CONSTANTS Service, Sender

VARIABLES
  mail,   \* mail[s]: what waits for s
  phase,  \* "none", "open", "closing" (dead, the last users not yet done), "closed"
  busy    \* services handling a piece of mail

vars == <<mail, phase, busy>>

Init ==
  /\ mail = [s \in Service |-> <<>>]
  /\ phase \in [Service -> {"none", "open"}]
  /\ busy = {}

Open(s) ==
  /\ phase[s] = "none"
  /\ phase' = [phase EXCEPT ![s] = "open"]
  /\ UNCHANGED <<mail, busy>>

Post(s, m) ==
  /\ phase[s] \in {"open", "closing"}
  /\ mail' = [mail EXCEPT ![s] = Append(@, m)]
  /\ UNCHANGED <<phase, busy>>

Begin(s) ==
  /\ phase[s] \in {"open", "closing"}
  /\ s \notin busy
  /\ mail[s] # <<>>
  /\ mail' = [mail EXCEPT ![s] = Tail(@)]
  /\ busy' = busy \cup {s}
  /\ UNCHANGED phase

Done(s) ==
  /\ s \in busy
  /\ busy' = busy \ {s}
  /\ UNCHANGED <<mail, phase>>

Die(s) ==
  /\ phase[s] = "open"
  /\ phase' = [phase EXCEPT ![s] = "closing"]
  /\ UNCHANGED <<mail, busy>>

Close(s) ==
  /\ phase[s] = "closing"
  /\ s \notin busy
  /\ phase' = [phase EXCEPT ![s] = "closed"]
  /\ UNCHANGED <<mail, busy>>

Drop(s) ==
  /\ phase[s] = "closed"
  /\ mail[s] # <<>>
  /\ mail' = [mail EXCEPT ![s] = Tail(@)]
  /\ UNCHANGED <<phase, busy>>

Next == \E s \in Service :
  \/ Open(s) \/ Begin(s) \/ Done(s) \/ Die(s) \/ Close(s) \/ Drop(s)
  \/ \E m \in Sender : Post(s, m)

Spec == Init /\ [][Next]_vars
=============================================================================
