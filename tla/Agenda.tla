------------------------------- MODULE Agenda -------------------------------
(***************************************************************************)
(* What the timing wheel promises: an entry is handed out in the very tick *)
(* it was put down for, once; those of one tick in the order they were put *)
(* down, those of earlier ticks first; and an entry that has not been      *)
(* handed out and dealt with is not put down again.                        *)
(***************************************************************************)
EXTENDS Integers, SequencesExt

CONSTANTS Id, Horizon

VARIABLES
  time,    \* the tick the agenda has reached
  agenda,  \* agenda[t]: the entries put down for tick t
  ready    \* the entries handed out and not yet dealt with

vars == <<time, agenda, ready>>

Waiting == ToSet(ready) \cup UNION {ToSet(agenda[t]) : t \in 1..Horizon}

Init ==
  /\ time = 0
  /\ agenda = [t \in 1..Horizon |-> <<>>]
  /\ ready = <<>>

PutDown(i, t) ==
  /\ UNCHANGED <<time, ready>>
  /\ agenda' = [agenda EXCEPT ![t] = Append(@, i)]

\* What was put down for the next n ticks.
Coming(n) ==
  LET upTo[m \in 0..n] == IF m = 0 THEN <<>> ELSE upTo[m - 1] \o agenda[time + m]
  IN upTo[n]

HandOut(t) ==
  /\ ready = <<>>
  /\ time' = t
  /\ ready' = Coming(t - time)
  /\ agenda' = [s \in 1..Horizon |-> IF s <= t THEN <<>> ELSE agenda[s]]

DealWith ==
  /\ ready # <<>>
  /\ ready' = Tail(ready)
  /\ UNCHANGED <<time, agenda>>

Next ==
  \/ \E i \in Id \ Waiting : \E t \in time + 1..Horizon : PutDown(i, t)
  \/ \E t \in time + 1..Horizon : HandOut(t)
  \/ DealWith

Spec == Init /\ [][Next]_vars
=============================================================================
