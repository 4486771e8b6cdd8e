---------------------------- MODULE AdmissionLine ----------------------------
(***************************************************************************)
(* What a login queue promises, whatever tables and numbers it keeps: one   *)
(* line of players, served from the front.  A player outside the line that  *)
(* holds no slot enters directly only past an empty line; a player in the   *)
(* line leaves it from the front when called, or by giving up; a slot is    *)
(* lost by leaving or by not answering the call.                            *)
(***************************************************************************)
EXTENDS Naturals, Sequences, SequencesExt

CONSTANT Pid

VARIABLES line, called, inside

Init ==
  /\ line = <<>>
  /\ called = {}
  /\ inside = {}

\* A called player, or anyone past an empty line, takes a place inside.
Enter(p) ==
  /\ p \in called \cup inside \/ line = <<>>
  /\ called' = called \ {p}
  /\ inside' = inside \cup {p}
  /\ UNCHANGED line

Join(p) ==
  /\ p \notin called \cup inside \cup ToSet(line)
  /\ line' = Append(line, p)
  /\ UNCHANGED <<called, inside>>

GiveUp(i) ==
  /\ line' = RemoveAt(line, i)
  /\ UNCHANGED <<called, inside>>

\* The first n are called, while some leave and some lose their call.
Call(n, leaving, silent) ==
  /\ called' = (called \ silent) \cup {line[i] : i \in 1..n}
  /\ line' = SubSeq(line, n + 1, Len(line))
  /\ inside' = inside \ leaving

Next ==
  \/ \E p \in Pid : Enter(p) \/ Join(p)
  \/ \E i \in 1..Len(line) : GiveUp(i)
  \/ \E n \in 0..Len(line), leaving \in SUBSET inside, silent \in SUBSET called :
       Call(n, leaving, silent)

Spec == Init /\ [][Next]_<<line, called, inside>>
=============================================================================
