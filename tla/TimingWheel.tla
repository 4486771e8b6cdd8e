---------------------------- MODULE TimingWheel ----------------------------
(***************************************************************************)
(* The timing wheel of clib/timingwheel/twheel.c as operators on a record. *)
(* A node waits in near when it is due in the current block of Near ticks, *)
(* else in far at the first level whose block holds both its time and now, *)
(* under its digit of that level; when now enters that digit the nodes are *)
(* sorted in again.  Times are unsigned numbers below Span; a node whose   *)
(* time has wrapped waits in overflow for now to wrap.                     *)
(***************************************************************************)
EXTENDS Integers, SequencesExt

CONSTANTS
  Near,    \* TIME_NEAR, 256
  Far,     \* TIME_FAR, 64
  Levels   \* 4

ASSUME TimingWheelAssumption ==
  Near \in Nat \ {0, 1} /\ Far \in Nat \ {0, 1} /\ Levels \in Nat \ {0}

\* The ticks of a slot of far at level i; Span is 2^32.
Size[i \in 0..Levels] == IF i = 0 THEN Near ELSE Far * Size[i - 1]
Span == Size[Levels]

SameBlock(i, t, u) == t \div Size[i] = u \div Size[i]
Digit(i, t) == (t \div Size[i]) % Far

Slot == ({"near"} \X {0} \X (0..Near - 1))
          \cup ({"far"} \X (0..Levels - 1) \X (0..Far - 1))
          \cup {<<"overflow", 0, 0>>}

EmptyWheel == [curr |-> 0, list |-> [s \in Slot |-> <<>>]]

\* The level at which a node of time t waits that is not of the block of now.
Level(now, t) ==
  CHOOSE i \in 0..Levels - 1 : SameBlock(i + 1, now, t) /\ ~SameBlock(i, now, t)

SlotOf(now, t) ==
  IF t < now THEN <<"overflow", 0, 0>>
  ELSE IF SameBlock(0, now, t) THEN <<"near", 0, t % Near>>
  ELSE <<"far", Level(now, t), Digit(Level(now, t), t)>>

AddNode(wheel, node) ==
  [wheel EXCEPT !.list[SlotOf(wheel.curr, node.time)] = Append(@, node)]

AddTime(wheel, id, delay) ==
  AddNode(wheel, [id |-> id, time |-> (wheel.curr + delay) % Span])

\* Mutant: the levels above the lowest are never sorted in.
ReachedLowest(now) ==
  IF now = 0 THEN {<<"overflow", 0, 0>>}
  ELSE IF now % Near = 0 THEN {<<"far", 0, Digit(0, now)>>} ELSE {}

\* The slots whose nodes are sorted in again when now has come: of the levels
\* that enter a new slot only the one whose digit has not become 0.
Reached(now) ==
  IF now = 0 THEN {<<"overflow", 0, 0>>}
  ELSE {<<"far", i, Digit(i, now)>> :
          i \in {j \in 0..Levels - 1 : now % Size[j] = 0 /\ Digit(j, now) # 0}}

\* The nodes of a list that was taken out, in its order.
AddNodes(wheel, nodes) ==
  LET after[n \in 0..Len(nodes)] ==
        IF n = 0 THEN wheel ELSE AddNode(after[n - 1], nodes[n])
  IN after[Len(nodes)]

Shift(wheel) ==
  LET next == [wheel EXCEPT !.curr = (@ + 1) % Span]
      reached == Reached(next.curr)
  IN IF reached = {} THEN next
     ELSE LET s == CHOOSE x \in reached : TRUE
          IN AddNodes([next EXCEPT !.list[s] = <<>>], next.list[s])

\* timewheel_shift and timewheel_execute; popped are the nodes taken so far.
Turn(run) ==
  LET next == Shift(run.wheel)
      s == <<"near", 0, next.curr % Near>>
  IN [wheel |-> [next EXCEPT !.list[s] = <<>>],
      popped |-> run.popped \o next.list[s]]

\* timewheel_update; t is counted from the start of the wheel.
Update(wheel, t) ==
  LET run[n \in 0..t - wheel.curr] ==
        IF n = 0 THEN [wheel |-> wheel, popped |-> <<>>] ELSE Turn(run[n - 1])
  IN run[t - wheel.curr]

-----------------------------------------------------------------------------
Ids(nodes) == [n \in DOMAIN nodes |-> nodes[n].id]

\* The ids of the nodes of time t, in the order of the list.
IdsOf(nodes, t) ==
  LET of[n \in 0..Len(nodes)] ==
        IF n = 0 THEN <<>>
        ELSE IF nodes[n].time = t THEN Append(of[n - 1], nodes[n].id) ELSE of[n - 1]
  IN of[Len(nodes)]

\* The ids that will be popped at time t, when the wheel is as it should be.
DueAt(wheel, t) == IdsOf(wheel.list[SlotOf(wheel.curr, t)], t)
=============================================================================
