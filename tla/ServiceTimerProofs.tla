------------------------- MODULE ServiceTimerProofs -------------------------
(***************************************************************************)
(* Proofs about ServiceTimer, for every wheel (any number of levels, of any*)
(* size), every set of timers and keys and any bounds: IInv is inductive, so*)
(* that ids are in one place, whichever lists of the wheel their nodes went*)
(* through, and keys and callbacks go together; and with Sorted, that every*)
(* node waits where the present tick looks for its time, the wheel and the *)
(* driver implement Agenda.                                                *)
(***************************************************************************)
EXTENDS ServiceTimer, NaturalsInduction, WellFoundedInduction, SequenceTheorems, TLAPS

-----------------------------------------------------------------------------
(***************************************************************************)
(* Recursive functions.                                                    *)
(***************************************************************************)

\* A set of numbers that has 0, and with each number below N the next one, has
\* all numbers up to N.
LEMMA UpToInduction ==
  ASSUME NEW N \in Nat, NEW I, 0 \in I,
         \A n \in 1..N : n - 1 \in I => n \in I
  PROVE  \A n \in 0..N : n \in I
<1> DEFINE T == {n \in 0..N : n \notin I}
<1> SUFFICES ASSUME T # {}
             PROVE  FALSE
  OBVIOUS
<1>1. T \subseteq Nat
  OBVIOUS
<1>2. PICK n \in T : \A m \in T : ~(<<m, n>> \in OpToRel(<, Nat))
  <2> HIDE DEF T
  <2> QED
    BY <1>1, NatLessThanWellFounded, WFMin
<1>3. n \in 1..N
  OBVIOUS
<1>4. n - 1 \in T
  BY <1>3
<1>5. <<n - 1, n>> \in OpToRel(<, Nat)
  BY <1>3 DEF OpToRel
<1> QED
  BY <1>2, <1>4, <1>5

\* A function that is given by its value at 0 and by a step from each value to
\* the next exists.
Steps(N, S) == [1..N -> [S -> S]]
IsRun(f, N, S, a, step) ==
  f \in [0..N -> S] /\ f[0] = a /\ \A n \in 1..N : f[n] = step[n][f[n - 1]]
LEMMA StepsExist ==
  ASSUME NEW N \in Nat, NEW S, NEW a \in S, NEW step \in Steps(N, S)
  PROVE  \E f : IsRun(f, N, S, a, step)
<1> DEFINE Up(f, m) == /\ f \in [0..m -> S]
                       /\ f[0] = a
                       /\ \A n \in 1..m : f[n] = step[n][f[n - 1]]
           I == {m \in 0..N : \E f : Up(f, m)}
<1>1. 0 \in I
  <2> DEFINE f == [n \in 0..0 |-> a]
  <2>1. Up(f, 0)
    OBVIOUS
  <2> HIDE DEF f, Up
  <2> QED
    BY <2>1
<1>2. ASSUME NEW m \in 1..N, m - 1 \in I
      PROVE  m \in I
  <2>1. PICK f : Up(f, m - 1)
    BY <1>2
  <2> DEFINE g == [n \in 0..m |-> IF n = m THEN step[m][f[m - 1]] ELSE f[n]]
  <2>2. f[m - 1] \in S
    BY <2>1
  <2>3. step[m][f[m - 1]] \in S
    BY <2>2 DEF Steps
  <2>4. g \in [0..m -> S] /\ g[0] = a
    BY <2>1, <2>3
  <2>5. ASSUME NEW n \in 1..m
        PROVE  g[n] = step[n][g[n - 1]]
    <3>1. CASE n = m
      <4>1. g[n] = step[m][f[m - 1]] /\ g[n - 1] = f[m - 1]
        BY <3>1
      <4> QED
        BY <3>1, <4>1
    <3>2. CASE n # m
      <4>1. n \in 1..m - 1
        BY <3>2
      <4>2. g[n] = f[n] /\ g[n - 1] = f[n - 1]
        BY <3>2, <4>1
      <4>3. f[n] = step[n][f[n - 1]]
        BY <2>1, <4>1
      <4> QED
        BY <4>2, <4>3
    <3> QED
      BY <3>1, <3>2
  <2>6. Up(g, m)
    BY <2>4, <2>5
  <2> HIDE DEF g, Up
  <2> QED
    BY <2>6
<1>3. N \in I
  <2> HIDE DEF I
  <2>1. \A n \in 0..N : n \in I
    BY <1>1, <1>2, UpToInduction
  <2> QED
    BY <2>1
<1>4. PICK f : Up(f, N)
  BY <1>3
<1> QED
  BY <1>4 DEF IsRun

-----------------------------------------------------------------------------
(***************************************************************************)
(* Quotients.                                                              *)
(***************************************************************************)

\* Quotients in terms of products.
LEMMA DivIs ==
  ASSUME NEW S \in Nat \ {0}, NEW x \in Nat
  PROVE  /\ x \div S \in Nat /\ x % S \in 0..S - 1
         /\ x = S * (x \div S) + (x % S)
         /\ S * (x \div S) <= x /\ x < S * (x \div S) + S
OBVIOUS

\* The quotient is the only one.
LEMMA DivUnique ==
  ASSUME NEW S \in Nat \ {0}, NEW x \in Nat, NEW q \in Nat, S * q <= x, x < S * q + S
  PROVE  x \div S = q
<1> DEFINE p == x \div S
<1>1. p \in Nat /\ S * p <= x /\ x < S * p + S
  BY DivIs
<1> HIDE DEF p
<1>2. ~(p < q)
  <2> SUFFICES ASSUME p < q PROVE FALSE
    OBVIOUS
  <2>1. p + 1 <= q
    BY <1>1
  <2>2. S * (p + 1) <= S * q /\ S * (p + 1) = S * p + S
    BY <1>1, <2>1
  <2> QED
    BY <1>1, <2>2
<1>3. ~(q < p)
  <2> SUFFICES ASSUME q < p PROVE FALSE
    OBVIOUS
  <2>1. q + 1 <= p
    BY <1>1
  <2>2. S * (q + 1) <= S * p /\ S * (q + 1) = S * q + S
    BY <1>1, <2>1
  <2> QED
    BY <1>1, <2>2
<1>4. p = q
  BY <1>1, <1>2, <1>3
<1> QED
  BY <1>4 DEF p

\* Later times have no smaller quotients.
LEMMA DivGrows ==
  ASSUME NEW S \in Nat \ {0}, NEW x \in Nat, NEW y \in Nat, x <= y
  PROVE  x \div S <= y \div S
<1> DEFINE p == x \div S
           q == y \div S
<1>1. p \in Nat /\ q \in Nat /\ S * p <= x /\ y < S * q + S
  BY DivIs
<1> HIDE DEF p, q
<1>2. ~(q < p)
  <2> SUFFICES ASSUME q < p PROVE FALSE
    OBVIOUS
  <2>1. q + 1 <= p
    BY <1>1
  <2>2. S * (q + 1) <= S * p /\ S * (q + 1) = S * q + S
    BY <1>1, <2>1
  <2> QED
    BY <1>1, <2>2
<1> QED
  BY <1>1, <1>2 DEF p, q

\* The quotient grows with the time that is a multiple, and only then.
LEMMA DivNext ==
  ASSUME NEW S \in Nat \ {0}, NEW c \in Nat
  PROVE  /\ (c + 1) % S = 0 => c \div S < (c + 1) \div S
         /\ (c + 1) % S # 0 => c \div S = (c + 1) \div S
<1> DEFINE q == (c + 1) \div S
           m == (c + 1) % S
<1>1. q \in Nat /\ m \in 0..S - 1 /\ c + 1 = S * q + m
  <2>1. c + 1 \in Nat
    OBVIOUS
  <2> QED
    BY <2>1, DivIs
<1> HIDE DEF q, m
<1>2. CASE m = 0
  <2>1. c < S * q
    BY <1>1, <1>2
  <2> DEFINE p == c \div S
  <2>2. p \in Nat /\ S * p <= c
    BY DivIs
  <2> HIDE DEF p
  <2>3. ~(q <= p)
    <3> SUFFICES ASSUME q <= p PROVE FALSE
      OBVIOUS
    <3>1. S * q <= S * p
      BY <1>1, <2>2
    <3>2. S * q \in Nat /\ S * p \in Nat
      BY <1>1, <2>2
    <3> QED
      BY <2>1, <2>2, <3>1, <3>2
  <2>4. p < q
    BY <1>1, <2>2, <2>3
  <2> QED
    BY <1>2, <2>4 DEF p, q, m
<1>3. CASE m # 0
  <2>1. S * q \in Nat
    BY <1>1
  <2>2. S * q <= c /\ c < S * q + S
    BY <1>1, <1>3, <2>1
  <2>3. c \div S = q
    BY <1>1, <2>2, DivUnique
  <2> QED
    BY <1>3, <2>3 DEF q, m
<1> QED
  BY <1>2, <1>3

\* Dividing by a product is dividing twice.
LEMMA DivTwice ==
  ASSUME NEW S \in Nat \ {0}, NEW F \in Nat \ {0}, NEW x \in Nat
  PROVE  x \div (F * S) = (x \div S) \div F
<1> DEFINE p == x \div S
           q == p \div F
<1>1. p \in Nat /\ q \in Nat /\ S * p <= x /\ x < S * p + S /\ F * q <= p /\ p < F * q + F
  BY DivIs
<1> HIDE DEF p, q
<1>2. F * S \in Nat \ {0}
  OBVIOUS
<1>3. F * q \in Nat /\ S * p \in Nat /\ S * (F * q) = (F * S) * q /\ S * (F * q) \in Nat
  BY <1>1
<1>4. S * (F * q) <= S * p
  BY <1>1, <1>3
<1>5. p + 1 <= F * q + F
  BY <1>1, <1>3
<1>6. S * (p + 1) <= S * (F * q + F)
  BY <1>1, <1>3, <1>5
<1>7. S * (p + 1) = S * p + S /\ S * (F * q + F) = (F * S) * q + F * S
  BY <1>1, <1>3
<1>8. (F * S) * q <= x /\ x < (F * S) * q + F * S
  BY <1>1, <1>2, <1>3, <1>4, <1>6, <1>7
<1>9. x \div (F * S) = q
  BY <1>1, <1>2, <1>8, DivUnique
<1> QED
  BY <1>9 DEF p, q

\* A multiple of the product is a multiple whose quotient is one.
LEMMA MultipleOfProduct ==
  ASSUME NEW S \in Nat \ {0}, NEW F \in Nat \ {0}, NEW x \in Nat
  PROVE  x % (F * S) = 0 <=> x % S = 0 /\ (x \div S) % F = 0
<1> DEFINE p == x \div S
           q == p \div F
           a == x % S
           b == p % F
           c == x % (F * S)
<1>1. p \in Nat /\ q \in Nat /\ a \in 0..S - 1 /\ b \in 0..F - 1 /\ x = S * p + a /\ p = F * q + b
  BY DivIs
<1>2. c \in Nat /\ x = (F * S) * q + c
  <2>1. F * S \in Nat \ {0}
    OBVIOUS
  <2>2. x \div (F * S) = q
    BY DivTwice
  <2>3. c \in 0..F * S - 1 /\ x = (F * S) * (x \div (F * S)) + c
    BY <2>1, DivIs
  <2> QED
    BY <2>1, <2>2, <2>3
<1> HIDE DEF p, q, a, b, c
<1>3. S * p = (F * S) * q + S * b /\ (F * S) * q \in Nat /\ S * b \in Nat
  <2>1. S * p = S * (F * q + b)
    BY <1>1
  <2>2. S * (F * q + b) = (F * S) * q + S * b
    BY <1>1
  <2> QED
    BY <1>1, <2>1, <2>2
<1>4. c = S * b + a
  BY <1>1, <1>2, <1>3
<1>5. c = 0 <=> a = 0 /\ b = 0
  BY <1>1, <1>3, <1>4
<1> QED
  BY <1>5 DEF a, b, c, p

\* A smaller number is its own remainder.
LEMMA SmallMod ==
  ASSUME NEW m \in Nat, NEW x \in Nat, x < m
  PROVE  x % m = x
OBVIOUS

-----------------------------------------------------------------------------
(***************************************************************************)
(* The slots.                                                              *)
(***************************************************************************)

\* Whichever function Size is, it is one that its equation holds of.
LEMMA SizeDefined ==
  /\ Size[0] = Near
  /\ \A i \in 1..Levels : Size[i] = Far * Size[i - 1]
<1> DEFINE S == Nat \ {0}
           step == [n \in 1..Levels |-> [x \in S |-> Far * x]]
<1>1. Levels \in Nat /\ Near \in S /\ \A x \in S : Far * x \in S
  BY TimingWheelAssumption
<1>2. step \in Steps(Levels, S)
  BY <1>1 DEF Steps
<1>3. PICK f : IsRun(f, Levels, S, Near, step)
  <2> HIDE DEF S, step
  <2> QED
    BY <1>1, <1>2, StepsExist
<1>4. f = [i \in 0..Levels |-> IF i = 0 THEN Near ELSE Far * f[i - 1]]
  <2>1. \A i \in 1..Levels : f[i - 1] \in S
    BY <1>1, <1>3 DEF IsRun
  <2>2. \A i \in 1..Levels : f[i] = Far * f[i - 1]
    BY <1>3, <2>1 DEF IsRun
  <2> QED
    BY <1>3, <2>2 DEF IsRun
<1>5. Size = [i \in 0..Levels |-> IF i = 0 THEN Near ELSE Far * Size[i - 1]]
  BY <1>4, Zenon DEF Size
<1> HIDE DEF S
<1> QED
  BY <1>1, <1>5

\* The ticks of a slot are a number.
LEMMA SizeFacts == \A i \in 0..Levels : Size[i] \in Nat \ {0}
<1> DEFINE I == {i \in 0..Levels : Size[i] \in Nat \ {0}}
<1>1. Levels \in Nat /\ 0 \in I
  BY TimingWheelAssumption, SizeDefined
<1>2. ASSUME NEW i \in 1..Levels, i - 1 \in I PROVE i \in I
  BY <1>2, TimingWheelAssumption, SizeDefined
<1> HIDE DEF I
<1>3. \A i \in 0..Levels : i \in I
  BY <1>1, <1>2, UpToInduction
<1> QED
  BY <1>3 DEF I

\* A digit is one.
LEMMA DigitIn ==
  ASSUME NEW i \in 0..Levels - 1, NEW t \in Nat
  PROVE  Digit(i, t) \in 0..Far - 1
<1>1. Size[i] \in Nat \ {0} /\ Far \in Nat \ {0}
  BY SizeFacts, TimingWheelAssumption
<1>2. t \div Size[i] \in Nat
  BY <1>1
<1> QED
  BY <1>1, <1>2 DEF Digit

\* Times of one block are of one block at the next level.
LEMMA BlockGrows ==
  ASSUME NEW i \in 0..Levels - 1, NEW t \in Nat, NEW u \in Nat
  PROVE  /\ t \div Size[i + 1] = (t \div Size[i]) \div Far
         /\ SameBlock(i, t, u) => SameBlock(i + 1, t, u)
         /\ t % Size[i + 1] = 0 <=> t % Size[i] = 0 /\ Digit(i, t) = 0
<1>1. /\ i + 1 \in 1..Levels /\ (i + 1) - 1 = i /\ i \in 0..Levels
      /\ Far \in Nat \ {0}
  BY TimingWheelAssumption
<1>2. Size[i] \in Nat \ {0} /\ Size[i + 1] = Far * Size[i]
  BY <1>1, SizeFacts, SizeDefined
<1>3. \A x \in Nat : x \div Size[i + 1] = (x \div Size[i]) \div Far
  BY <1>1, <1>2, DivTwice
<1>4. t % Size[i + 1] = 0 <=> t % Size[i] = 0 /\ (t \div Size[i]) % Far = 0
  <2> DEFINE S == Size[i]
  <2>1. S \in Nat \ {0} /\ Size[i + 1] = Far * S
    BY <1>2
  <2> HIDE DEF S
  <2>2. t % (Far * S) = 0 <=> t % S = 0 /\ (t \div S) % Far = 0
    BY <1>1, <2>1, MultipleOfProduct
  <2>3. t % Size[i + 1] = 0 <=> t % S = 0 /\ (t \div S) % Far = 0
    BY <2>1, <2>2, Zenon
  <2> QED
    BY <2>3 DEF S
<1> QED
  BY <1>3, <1>4 DEF SameBlock, Digit

\* What holds at a level holds at the levels above, or below.
LEMMA BlocksAbove ==
  ASSUME NEW i \in 0..Levels, NEW j \in 0..Levels, i <= j, NEW t \in Nat, NEW u \in Nat
  PROVE  /\ SameBlock(i, t, u) => SameBlock(j, t, u)
         /\ t % Size[j] = 0 => t % Size[i] = 0
<1>1. Levels \in Nat /\ i \in Nat /\ j \in Nat
  BY TimingWheelAssumption
<1> DEFINE G(k) == /\ SameBlock(i, t, u) => SameBlock(k, t, u)
                   /\ t % Size[k] = 0 => t % Size[i] = 0
           N == Levels - i
           I == {n \in 0..N : G(i + n)}
<1>2. N \in Nat
  BY <1>1
<1>3. 0 \in I
  <2>1. i + 0 = i /\ 0 \in 0..N
    BY <1>1
  <2>2. G(i + 0)
    BY <2>1
  <2> QED
    BY <2>1, <2>2
<1>4. ASSUME NEW n \in 1..N, n - 1 \in I PROVE n \in I
  <2> DEFINE k == i + (n - 1)
  <2>1. G(k)
    BY <1>4
  <2>2. k \in 0..Levels - 1 /\ k + 1 = i + n
    BY <1>1
  <2> HIDE DEF k
  <2>3. G(k + 1)
    BY <2>1, <2>2, BlockGrows
  <2>4. G(i + n)
    BY <2>2, <2>3
  <2> QED
    BY <2>4
<1>5. j - i \in I
  <2>1. j - i \in 0..N
    BY <1>1
  <2> HIDE DEF I, N
  <2>2. \A n \in 0..N : n \in I
    BY <1>2, <1>3, <1>4, UpToInduction
  <2> QED
    BY <2>1, <2>2
<1>6. i + (j - i) = j
  BY <1>1
<1>7. G(i + (j - i))
  BY <1>5
<1> QED
  BY <1>6, <1>7

\* The level of a time is the only one that parts its block from the present one.
LEMMA LevelIs ==
  ASSUME NEW now \in Nat, NEW t \in Nat, NEW i \in 0..Levels - 1,
         SameBlock(i + 1, now, t), ~SameBlock(i, now, t)
  PROVE  Level(now, t) = i /\ ~SameBlock(0, now, t)
<1>1. Levels \in Nat \ {0} /\ i \in 0..Levels /\ i + 1 \in 0..Levels
  BY TimingWheelAssumption
<1>2. ASSUME NEW k \in 0..Levels - 1, SameBlock(k + 1, now, t), ~SameBlock(k, now, t)
      PROVE  k = i
  <2>1. k \in 0..Levels /\ k + 1 \in 0..Levels
    BY <1>1
  <2>2. ~(k + 1 <= i)
    BY <1>1, <1>2, <2>1, BlocksAbove
  <2>3. ~(i + 1 <= k)
    BY <1>1, <1>2, <2>1, BlocksAbove
  <2> QED
    BY <1>1, <2>1, <2>2, <2>3
<1>3. Level(now, t) = i
  BY <1>2 DEF Level
<1>4. ~SameBlock(0, now, t)
  <2>1. 0 \in 0..Levels /\ 0 <= i
    BY <1>1
  <2> QED
    BY <1>1, <2>1, BlocksAbove
<1> QED
  BY <1>3, <1>4

\* A time that is not of the present block has a level.
LEMMA LevelFacts ==
  ASSUME NEW now \in 0..Span - 1, NEW t \in 0..Span - 1, ~SameBlock(0, now, t)
  PROVE  /\ Level(now, t) \in 0..Levels - 1
         /\ SameBlock(Level(now, t) + 1, now, t) /\ ~SameBlock(Level(now, t), now, t)
<1>1. Span \in Nat \ {0} /\ Levels \in Nat \ {0}
  BY SizeFacts, TimingWheelAssumption DEF Span
<1>2. SameBlock(Levels, now, t)
  <2>1. \A n \in 0..Span - 1 : n \div Span = 0
    BY <1>1
  <2> QED
    BY <2>1 DEF SameBlock, Span
<1> DEFINE I == {i \in 0..Levels : ~SameBlock(i, now, t)}
<1>3. \E i \in 0..Levels - 1 : SameBlock(i + 1, now, t) /\ ~SameBlock(i, now, t)
  <2> SUFFICES ASSUME \A i \in 0..Levels - 1 : ~SameBlock(i, now, t) => ~SameBlock(i + 1, now, t)
               PROVE  FALSE
    OBVIOUS
  <2>1. 0 \in I
    BY <1>1
  <2>2. ASSUME NEW i \in 1..Levels, i - 1 \in I PROVE i \in I
    <3>1. i - 1 \in 0..Levels - 1 /\ (i - 1) + 1 = i
      BY <1>1
    <3>2. ~SameBlock(i - 1, now, t)
      BY <2>2
    <3>3. ~SameBlock(i, now, t)
      BY <3>1, <3>2
    <3> QED
      BY <3>3
  <2> HIDE DEF I
  <2>3. Levels \in I
    <3>1. \A i \in 0..Levels : i \in I
      BY <1>1, <2>1, <2>2, UpToInduction
    <3> QED
      BY <1>1, <3>1
  <2> QED
    BY <1>2, <2>3 DEF I
<1> QED
  BY <1>3 DEF Level

\* If the wheel has no list to sort in, no slot of a level has been entered.
LEMMA NothingReached ==
  ASSUME NEW now \in 1..Span - 1, Reached(now) = {}
  PROVE  \A i \in 0..Levels : now % Size[i] # 0
<1>1. Span \in Nat /\ Levels \in Nat \ {0} /\ now # 0 /\ now \in Nat /\ Size[Levels] = Span
  BY SizeFacts, TimingWheelAssumption DEF Span
<1>2. \A i \in 0..Levels - 1 : ~(now % Size[i] = 0 /\ Digit(i, now) # 0)
  BY <1>1 DEF Reached
<1>3. now % Size[0] # 0
  <2> SUFFICES ASSUME now % Size[0] = 0
               PROVE  FALSE
    OBVIOUS
  <2> DEFINE I == {i \in 0..Levels : now % Size[i] = 0}
  <2>1. 0 \in I
    BY <1>1
  <2>2. ASSUME NEW i \in 1..Levels, i - 1 \in I PROVE i \in I
    <3>1. i - 1 \in 0..Levels - 1 /\ (i - 1) + 1 = i
      BY <1>1
    <3>2. now % Size[i - 1] = 0
      BY <2>2
    <3>3. now % Size[(i - 1) + 1] = 0
      BY <1>1, <1>2, <3>1, <3>2, BlockGrows
    <3> QED
      BY <3>1, <3>3
  <2> HIDE DEF I
  <2>3. Levels \in I
    <3>1. \A i \in 0..Levels : i \in I
      BY <1>1, <2>1, <2>2, UpToInduction
    <3> QED
      BY <1>1, <3>1
  <2>4. now % Span = 0
    BY <1>1, <2>3 DEF I
  <2>5. now % Span = now
    BY <1>1, SmallMod
  <2> QED
    BY <1>1, <2>4, <2>5
<1> QED
  BY <1>1, <1>3, BlocksAbove

\* The slot of a node is one.
LEMMA SlotOfIn ==
  ASSUME NEW now \in 0..Span - 1, NEW t \in 0..Span - 1
  PROVE  SlotOf(now, t) \in Slot
<1>1. Span \in Nat \ {0} /\ Levels \in Nat \ {0} /\ Near \in Nat \ {0} /\ Far \in Nat \ {0}
  BY SizeFacts, TimingWheelAssumption DEF Span
<1>2. CASE t < now
  BY <1>2 DEF SlotOf, Slot
<1>3. CASE ~(t < now) /\ SameBlock(0, now, t)
  <2>1. t % Near \in 0..Near - 1
    BY <1>1
  <2> QED
    BY <1>3, <2>1 DEF SlotOf, Slot
<1>4. CASE ~(t < now) /\ ~SameBlock(0, now, t)
  <2>1. Level(now, t) \in 0..Levels - 1
    BY <1>4, LevelFacts
  <2>2. Digit(Level(now, t), t) \in 0..Far - 1
    BY <1>1, <2>1, DigitIn
  <2>3. <<"far", Level(now, t), Digit(Level(now, t), t)>> \in Slot
    BY <2>1, <2>2 DEF Slot
  <2> QED
    BY <1>4, <2>3 DEF SlotOf
<1> QED
  BY <1>2, <1>3, <1>4

\* The slots whose nodes are sorted in again are slots.
LEMMA ReachedIn ==
  ASSUME NEW now \in Nat
  PROVE  Reached(now) \subseteq Slot
<1>1. ASSUME NEW i \in 0..Levels - 1 PROVE <<"far", i, Digit(i, now)>> \in Slot
  <2>1. Digit(i, now) \in 0..Far - 1
    BY DigitIn
  <2> QED
    BY <2>1 DEF Slot
<1> QED
  BY <1>1 DEF Reached, Slot

\* Blocks at the levels where the next tick enters no new slot are as before.
LEMMA SameBlockNext ==
  ASSUME NEW c \in Nat, NEW t \in Nat, c + 1 <= t, NEW i \in 0..Levels
  PROVE  /\ (c + 1) % Size[i] = 0 => ~SameBlock(i, c, t)
         /\ (c + 1) % Size[i] # 0 => (SameBlock(i, c, t) <=> SameBlock(i, c + 1, t))
<1> DEFINE S == Size[i]
<1>1. S \in Nat \ {0} /\ c + 1 \in Nat
  BY SizeFacts
<1> HIDE DEF S
<1>2. /\ c \div S \in Nat /\ t \div S \in Nat /\ (c + 1) \div S \in Nat
  BY <1>1, DivIs
<1>3. (c + 1) \div S <= t \div S
  BY <1>1, DivGrows
<1>4. /\ (c + 1) % S = 0 => c \div S < (c + 1) \div S
      /\ (c + 1) % S # 0 => c \div S = (c + 1) \div S
  BY <1>1, DivNext
<1>5. /\ (c + 1) % S = 0 => c \div S # t \div S
      /\ (c + 1) % S # 0 => (c \div S = t \div S <=> (c + 1) \div S = t \div S)
  BY <1>2, <1>3, <1>4
<1> QED
  BY <1>5 DEF SameBlock, S

\* A tick leaves the slot of a time what it was, unless that is sorted in again.
LEMMA SlotStays ==
  ASSUME NEW c \in Nat, c + 1 < Span, NEW t \in c + 1..Span - 1
  PROVE  /\ Reached(c + 1) = {} => SlotOf(c + 1, t) = SlotOf(c, t)
         /\ \A s \in Reached(c + 1) : SlotOf(c, t) # s => SlotOf(c + 1, t) = SlotOf(c, t)
<1> DEFINE d == c + 1
<1>1. /\ Span \in Nat /\ Levels \in Nat \ {0} /\ t \in Nat
      /\ d \in Nat /\ d # 0 /\ d \in 1..Span - 1 /\ d \in 0..Span - 1 /\ c \in 0..Span - 1 /\ t \in 0..Span - 1
      /\ d <= t /\ ~(t < d) /\ ~(t < c)
  BY SizeFacts, TimingWheelAssumption DEF Span
<1>2. \A i \in 0..Levels :
        /\ d % Size[i] = 0 => ~SameBlock(i, c, t)
        /\ d % Size[i] # 0 => (SameBlock(i, c, t) <=> SameBlock(i, d, t))
  BY <1>1, SameBlockNext
<1>3. Reached(d) = {<<"far", i, Digit(i, d)>> :
                      i \in {j \in 0..Levels - 1 : d % Size[j] = 0 /\ Digit(j, d) # 0}}
  BY <1>1 DEF Reached
<1> HIDE DEF d
\* If the level of t parts it from d as it parted it from c, the slot stays.
<1>4. ASSUME ~SameBlock(0, c, t),
             LET i == Level(c, t) IN SameBlock(i + 1, d, t) /\ ~SameBlock(i, d, t)
      PROVE  SlotOf(d, t) = SlotOf(c, t)
  <2>1. Level(c, t) \in 0..Levels - 1
    BY <1>1, <1>4, LevelFacts
  <2>2. Level(d, t) = Level(c, t) /\ ~SameBlock(0, d, t)
    BY <1>1, <1>4, <2>1, LevelIs
  <2> QED
    BY <1>1, <1>4, <2>2 DEF SlotOf
<1>5. ASSUME Reached(d) = {}
      PROVE  SlotOf(d, t) = SlotOf(c, t)
  <2>1. \A i \in 0..Levels : SameBlock(i, c, t) <=> SameBlock(i, d, t)
    <3>1. \A i \in 0..Levels : d % Size[i] # 0
      BY <1>1, <1>5, NothingReached
    <3> QED
      BY <1>2, <3>1
  <2>2. CASE SameBlock(0, c, t)
    <3>1. SameBlock(0, d, t)
      BY <1>1, <2>1, <2>2
    <3> QED
      BY <1>1, <2>2, <3>1 DEF SlotOf
  <2>3. CASE ~SameBlock(0, c, t)
    <3> DEFINE i == Level(c, t)
    <3>1. i \in 0..Levels - 1 /\ SameBlock(i + 1, c, t) /\ ~SameBlock(i, c, t)
      BY <1>1, <2>3, LevelFacts
    <3>2. i \in 0..Levels /\ i + 1 \in 0..Levels
      BY <1>1, <3>1
    <3>3. SameBlock(i + 1, d, t) /\ ~SameBlock(i, d, t)
      BY <2>1, <3>1, <3>2
    <3> QED
      BY <1>4, <2>3, <3>3
  <2> QED
    BY <2>2, <2>3
<1>6. ASSUME NEW s \in Reached(d), SlotOf(c, t) # s
      PROVE  SlotOf(d, t) = SlotOf(c, t)
  <2>1. PICK j \in 0..Levels - 1 : d % Size[j] = 0 /\ Digit(j, d) # 0 /\ s = <<"far", j, Digit(j, d)>>
    BY <1>3, <1>6
  <2>2. j \in 0..Levels /\ j + 1 \in 0..Levels /\ 0 \in 0..Levels /\ j \in Nat
    BY <1>1
  <2>3. \A i \in 0..Levels : i <= j => d % Size[i] = 0
    BY <1>1, <2>1, <2>2, BlocksAbove
  <2>4. \A i \in 0..Levels : j < i => d % Size[i] # 0
    <3>1. d % Size[j + 1] # 0
      BY <1>1, <2>1, BlockGrows
    <3>2. \A i \in 0..Levels : j < i => j + 1 <= i
      BY <2>2
    <3> QED
      BY <1>1, <2>2, <3>1, <3>2, BlocksAbove
  <2>5. ~SameBlock(0, c, t) /\ ~SameBlock(j, c, t)
    BY <1>2, <2>2, <2>3
  <2> DEFINE i == Level(c, t)
  <2>6. i \in 0..Levels - 1 /\ SameBlock(i + 1, c, t) /\ ~SameBlock(i, c, t)
    BY <1>1, <2>5, LevelFacts
  <2>7. i \in 0..Levels /\ i + 1 \in 0..Levels /\ i \in Nat
    BY <1>1, <2>6
  <2> HIDE DEF i
  <2>8. j <= i
    <3>1. ~(i + 1 <= j)
      BY <1>2, <2>3, <2>6, <2>7
    <3> QED
      BY <2>2, <2>7, <3>1
  <2>9. SameBlock(i + 1, d, t)
    <3>1. j < i + 1
      BY <2>2, <2>7, <2>8
    <3> QED
      BY <1>2, <2>4, <2>6, <2>7, <3>1
  <2>10. CASE j < i
    <3>1. ~SameBlock(i, d, t)
      BY <1>2, <2>4, <2>6, <2>7, <2>10
    <3> QED
      BY <1>4, <2>5, <2>9, <3>1 DEF i
  <2>11. CASE i = j
    <3>1. SlotOf(c, t) = <<"far", j, Digit(j, t)>>
      BY <1>1, <2>5, <2>11 DEF SlotOf, i
    <3>2. Digit(j, t) # Digit(j, d)
      BY <1>6, <2>1, <3>1
    <3>3. ~SameBlock(j, d, t)
      BY <3>2 DEF Digit, SameBlock
    <3> QED
      BY <1>4, <2>5, <2>9, <2>11, <3>3 DEF i
  <2> QED
    BY <2>2, <2>7, <2>8, <2>10, <2>11
<1> QED
  BY <1>5, <1>6 DEF d

\* The times of the list that a tick takes out are that tick.
LEMMA DueSlot ==
  ASSUME NEW d \in 0..Span - 1, NEW t \in 0..Span - 1, d <= t
  PROVE  SlotOf(d, t) = <<"near", 0, d % Near>> <=> t = d
<1>1. /\ Span \in Nat /\ d \in Nat /\ t \in Nat /\ ~(t < d)
      /\ Near \in Nat \ {0} /\ Size[0] = Near
  BY SizeFacts, SizeDefined, TimingWheelAssumption DEF Span
<1>2. CASE SameBlock(0, d, t)
  <2>1. SlotOf(d, t) = <<"near", 0, t % Near>>
    BY <1>1, <1>2 DEF SlotOf
  <2>2. t \div Near = d \div Near
    BY <1>1, <1>2 DEF SameBlock
  <2>3. t = Near * (t \div Near) + (t % Near) /\ d = Near * (d \div Near) + (d % Near)
    BY <1>1, DivIs
  <2>4. t % Near = d % Near => t = d
    BY <2>2, <2>3
  <2> QED
    BY <2>1, <2>4
<1>3. CASE ~SameBlock(0, d, t)
  <2>1. t # d
    BY <1>3 DEF SameBlock
  <2>2. SlotOf(d, t) # <<"near", 0, d % Near>>
    BY <1>1, <1>3 DEF SlotOf
  <2> QED
    BY <2>1, <2>2
<1> QED
  BY <1>2, <1>3

-----------------------------------------------------------------------------
(***************************************************************************)
(* Lists that hold each element once.                                      *)
(***************************************************************************)

\* Element x is at index j of a list, and of the list of place p.
In(s, j, x) == j \in DOMAIN s /\ s[j] = x
At(lists, p, j, x) == p \in DOMAIN lists /\ In(lists[p], j, x)

\* What is held is somewhere; it is held once if it is in one place.
LEMMA HeldFacts ==
  ASSUME NEW lists
  PROVE  /\ \A x : x \in Held(lists) <=> \E p, j : At(lists, p, j, x)
         /\ Once(lists) <=> \A p, q, j, k, x : At(lists, p, j, x) /\ At(lists, q, k, x) => p = q /\ j = k
<1>1. ASSUME NEW x PROVE x \in Held(lists) <=> \E p, j : At(lists, p, j, x)
  BY DEF Held, ToSet, At, In
<1>2. ASSUME Once(lists), NEW p, NEW q, NEW j, NEW k, NEW x, At(lists, p, j, x), At(lists, q, k, x)
      PROVE  p = q /\ j = k
  BY <1>2 DEF Once, At, In
<1>3. ASSUME \A p, q, j, k, x : At(lists, p, j, x) /\ At(lists, q, k, x) => p = q /\ j = k
      PROVE  Once(lists)
  BY <1>3 DEF Once, At, In
<1> QED
  BY <1>1, <1>2, <1>3

\* Of two families of lists, one has x at index n of p as well; one has no more
\* what is at the indices D of p, where the rest has moved by c; one has what is
\* in p behind the n elements of r.
Added(lists, next, p, n, x) ==
  \A q, j, y : At(next, q, j, y) <=> At(lists, q, j, y) \/ (q = p /\ j = n /\ y = x)
TakenFrom(lists, next, p, c, D) ==
  /\ \A q, j, y : q # p => (At(next, q, j, y) <=> At(lists, q, j, y))
  /\ \A j, y : At(next, p, j, y) <=> j \in Int /\ At(lists, p, j + c, y) /\ j + c \notin D
MovedTo(lists, next, p, r, n) ==
  /\ \A q, j, y : q # p /\ q # r => (At(next, q, j, y) <=> At(lists, q, j, y))
  /\ \A j, y : ~At(next, p, j, y)
  /\ \A j, y : At(next, r, j, y) <=> At(lists, r, j, y) \/ (j \in Int /\ At(lists, p, j - n, y))
Indexed(lists) == \A p, j, y : At(lists, p, j, y) => j \in Int

\* A new element may be put somewhere,
LEMMA PutNew ==
  ASSUME NEW lists, NEW next, NEW p, NEW n, NEW x, Added(lists, next, p, n, x),
         x \notin Held(lists), Once(lists)
  PROVE  Once(next) /\ Held(next) = Held(lists) \cup {x}
<1>1. \A q, j : ~At(lists, q, j, x)
  BY HeldFacts
<1>2. Once(next)
  BY <1>1, HeldFacts DEF Added
<1>3. \A y : y \in Held(next) <=> y \in Held(lists) \/ y = x
  BY HeldFacts DEF Added
<1> QED
  BY <1>2, <1>3

\* those at the indices D may be taken from a list, where the rest move by c,
LEMMA Taken ==
  ASSUME NEW lists, NEW next, NEW p, NEW c \in Int, NEW D,
         TakenFrom(lists, next, p, c, D), Indexed(lists), Once(lists)
  PROVE  /\ Once(next)
         /\ \A y : y \in Held(next) <=> y \in Held(lists) /\ ~\E j \in D : At(lists, p, j, y)
<1> DEFINE Gone(y) == \E j \in D : At(lists, p, j, y)
<1> USE DEF TakenFrom, Indexed
<1>1. \A q, s, j, k, y : At(lists, q, j, y) /\ At(lists, s, k, y) => q = s /\ j = k
  BY HeldFacts
<1>2. ASSUME NEW q, NEW s, NEW j, NEW k, NEW y, At(next, q, j, y), At(next, s, k, y)
      PROVE  q = s /\ j = k
  <2>1. CASE q = p /\ s = p
    <3>1. j + c = k + c /\ j \in Int /\ k \in Int
      BY <1>1, <1>2, <2>1
    <3> QED
      BY <2>1, <3>1
  <2>2. CASE q = p /\ s # p
    BY <1>1, <1>2, <2>2
  <2>3. CASE q # p /\ s = p
    BY <1>1, <1>2, <2>3
  <2>4. CASE q # p /\ s # p
    BY <1>1, <1>2, <2>4
  <2> QED
    BY <2>1, <2>2, <2>3, <2>4
<1>3. ASSUME NEW q, NEW j, NEW y, At(next, q, j, y)
      PROVE  y \in Held(lists) /\ ~Gone(y)
  <2>1. CASE q = p
    <3>1. At(lists, p, j + c, y) /\ j + c \notin D
      BY <1>3, <2>1
    <3>2. ~Gone(y)
      BY <1>1, <3>1
    <3> QED
      BY <3>1, <3>2, HeldFacts
  <2>2. CASE q # p
    <3>1. At(lists, q, j, y)
      BY <1>3, <2>2
    <3>2. ~Gone(y)
      BY <1>1, <2>2, <3>1
    <3> QED
      BY <3>1, <3>2, HeldFacts
  <2> QED
    BY <2>1, <2>2
<1>4. ASSUME NEW q, NEW j, NEW y, At(lists, q, j, y), ~Gone(y)
      PROVE  y \in Held(next)
  <2>1. CASE q = p
    <3>1. j \in Int /\ j \notin D
      BY <1>4, <2>1
    <3>2. j - c \in Int /\ (j - c) + c = j
      BY <3>1
    <3>3. At(next, p, j - c, y)
      BY <1>4, <2>1, <3>1, <3>2
    <3> QED
      BY <3>3, HeldFacts
  <2>2. CASE q # p
    BY <1>4, <2>2, HeldFacts
  <2> QED
    BY <2>1, <2>2
<1>5. Once(next)
  BY <1>2, HeldFacts
<1>6. \A y : y \in Held(next) <=> y \in Held(lists) /\ ~Gone(y)
  BY <1>3, <1>4, HeldFacts
<1> QED
  BY <1>5, <1>6

\* and all of a list may be put elsewhere, behind the n that are there.
LEMMA Moved ==
  ASSUME NEW lists, NEW next, NEW p, NEW r, p # r, NEW n \in Int,
         MovedTo(lists, next, p, r, n), Indexed(lists),
         Once(lists)
  PROVE  Once(next) /\ Held(next) = Held(lists)
<1> USE DEF MovedTo, Indexed
<1>1. \A q, s, j, k, y : At(lists, q, j, y) /\ At(lists, s, k, y) => q = s /\ j = k
  BY HeldFacts
<1>2. ASSUME NEW q, NEW s, NEW j, NEW k, NEW y, At(next, q, j, y), At(next, s, k, y)
      PROVE  q = s /\ j = k
  <2>1. /\ \/ q # p /\ At(lists, q, j, y)
           \/ q = r /\ j \in Int /\ At(lists, p, j - n, y)
        /\ \/ s # p /\ At(lists, s, k, y)
           \/ s = r /\ k \in Int /\ At(lists, p, k - n, y)
    BY <1>2
  <2>2. CASE /\ q = r /\ j \in Int /\ At(lists, p, j - n, y)
             /\ s = r /\ k \in Int /\ At(lists, p, k - n, y)
    <3>1. j - n = k - n
      BY <1>1, <2>2
    <3> QED
      BY <2>2, <3>1
  <2> QED
    BY <1>1, <2>1, <2>2
<1>3. ASSUME NEW y, y \in Held(next) PROVE y \in Held(lists)
  <2>1. PICK q, j : At(next, q, j, y)
    BY <1>3, HeldFacts
  <2>2. \E s, k : At(lists, s, k, y)
    BY <2>1
  <2> QED
    BY <2>2, HeldFacts
<1>4. ASSUME NEW y, y \in Held(lists) PROVE y \in Held(next)
  <2>1. PICK q, j : At(lists, q, j, y)
    BY <1>4, HeldFacts
  <2>2. CASE q = p
    <3>1. j + n \in Int /\ (j + n) - n = j
      BY <2>1, <2>2
    <3>2. At(next, r, j + n, y)
      BY <2>1, <2>2, <3>1
    <3> QED
      BY <3>2, HeldFacts
  <2>3. CASE q # p
    <3>1. At(next, q, j, y)
      BY <2>1, <2>3
    <3> QED
      BY <3>1, HeldFacts
  <2> QED
    BY <2>2, <2>3
<1>5. Once(next)
  BY <1>2, HeldFacts
<1>6. \A y : y \in Held(next) <=> y \in Held(lists)
  BY <1>3, <1>4
<1> QED
  BY <1>5, <1>6

\* What is where in a queue with an element more.
LEMMA InAppend ==
  ASSUME NEW S, NEW s \in Seq(S), NEW x \in S
  PROVE  \A j, y : In(Append(s, x), j, y) <=> In(s, j, y) \/ (j = Len(s) + 1 /\ y = x)
BY DEF In

\* A queue without its first element.
LEMMA InTail ==
  ASSUME NEW S, NEW s \in Seq(S), s # <<>>
  PROVE  /\ \A j, y : In(Tail(s), j, y) <=> j \in Int /\ In(s, j + 1, y) /\ j + 1 \notin {1}
         /\ In(s, 1, Head(s))
BY DEF In

\* A queue without its last element.
LEMMA InFront ==
  ASSUME NEW S, NEW s \in Seq(S), s # <<>>
  PROVE  /\ \A j, y : In(Front(s), j, y) <=> j \in Int /\ In(s, j + 0, y) /\ j + 0 \notin {Len(s)}
         /\ In(s, Len(s), Last(s))
         /\ Front(s) \in Seq(S) /\ Last(s) \in S
<1>1. Len(s) \in Nat \ {0} /\ DOMAIN s = 1..Len(s)
  OBVIOUS
<1>2. /\ Front(s) \in Seq(S) /\ Len(Front(s)) = Len(s) - 1
      /\ \A j \in 1..Len(s) - 1 : Front(s)[j] = s[j]
  BY <1>1 DEF Front
<1>3. DOMAIN Front(s) = 1..Len(s) - 1
  BY <1>2
<1> QED
  BY <1>1, <1>2, <1>3 DEF In, Last

\* Two queues joined.
LEMMA InConcat ==
  ASSUME NEW S, NEW s \in Seq(S), NEW t \in Seq(S)
  PROVE  \A j, y : In(s \o t, j, y) <=> In(s, j, y) \/ (j \in Int /\ In(t, j - Len(s), y))
<1>1. /\ Len(s) \in Nat /\ Len(t) \in Nat /\ DOMAIN s = 1..Len(s) /\ DOMAIN t = 1..Len(t)
      /\ DOMAIN (s \o t) = 1..Len(s) + Len(t)
      /\ \A j \in 1..Len(s) + Len(t) : (s \o t)[j] = IF j <= Len(s) THEN s[j] ELSE t[j - Len(s)]
  BY ConcatProperties, LenProperties
<1> QED
  BY <1>1 DEF In

-----------------------------------------------------------------------------
(***************************************************************************)
(* The lists of the wheel.                                                 *)
(***************************************************************************)
Node == [id : Id, time : 0..Span - 1]
Wheels == [curr : 0..Span - 1, list : [Slot -> Seq(Node)]]
Runs == [wheel : Wheels, popped : Seq(Node)]
Reuse == <<"reuse", 0, 0>>
Handles == <<"handles", 0, 0>>

\* The ids of nodes,
LEMMA IdsFacts ==
  ASSUME NEW s \in Seq(Node)
  PROVE  /\ Ids(s) \in Seq(Id) /\ Len(Ids(s)) = Len(s)
         /\ \A j, y : In(Ids(s), j, y) <=> j \in DOMAIN s /\ s[j].id = y
<1>1. Len(s) \in Nat /\ DOMAIN s = 1..Len(s)
  BY LenProperties
<1>2. ASSUME NEW j \in DOMAIN s PROVE s[j].id \in Id
  <2>1. s[j] \in Node
    BY <1>1, ElementOfSeq
  <2> QED
    BY <2>1 DEF Node
<1>3. Ids(s) \in [1..Len(s) -> Id]
  BY <1>1, <1>2 DEF Ids
<1>4. Ids(s) \in Seq(Id)
  BY <1>1, <1>3, SeqDef
<1>5. Len(Ids(s)) = Len(s)
  BY <1>1, <1>3, <1>4, LenProperties
<1>6. \A j, y : In(Ids(s), j, y) <=> j \in DOMAIN s /\ s[j].id = y
  BY DEF In, Ids
<1> QED
  BY <1>4, <1>5, <1>6

\* with a node more.
LEMMA IdsAppend ==
  ASSUME NEW s \in Seq(Node), NEW node \in Node
  PROVE  \A j, y : In(Ids(Append(s, node)), j, y) <=> In(Ids(s), j, y) \/ (j = Len(s) + 1 /\ y = node.id)
<1>1. Append(s, node) \in Seq(Node)
  OBVIOUS
<1>2. \A j : j \in DOMAIN Append(s, node) <=> j \in DOMAIN s \/ j = Len(s) + 1
  OBVIOUS
<1>3. \A j \in DOMAIN s : Append(s, node)[j] = s[j]
  OBVIOUS
<1>4. Append(s, node)[Len(s) + 1] = node /\ Len(s) + 1 \notin DOMAIN s
  OBVIOUS
<1> DEFINE t == Append(s, node)
<1>5. \A j, y : In(Ids(s), j, y) <=> j \in DOMAIN s /\ s[j].id = y
  BY IdsFacts
<1>6. \A j, y : In(Ids(t), j, y) <=> j \in DOMAIN t /\ t[j].id = y
  BY <1>1, IdsFacts
<1> HIDE DEF t
<1> SUFFICES \A j, y : In(Ids(t), j, y) <=> In(Ids(s), j, y) \/ (j = Len(s) + 1 /\ y = node.id)
  BY DEF t
<1>7. /\ \A j : j \in DOMAIN t <=> j \in DOMAIN s \/ j = Len(s) + 1
      /\ \A j \in DOMAIN s : t[j] = s[j]
      /\ t[Len(s) + 1] = node /\ Len(s) + 1 \notin DOMAIN s
  BY <1>2, <1>3, <1>4 DEF t
<1> QED
  BY <1>5, <1>6, <1>7

\* The ids of two lists joined are those of the one behind those of the other.
LEMMA IdsConcat ==
  ASSUME NEW s \in Seq(Node), NEW t \in Seq(Node)
  PROVE  /\ s \o t \in Seq(Node)
         /\ \A j, y : In(Ids(s \o t), j, y) <=> In(Ids(s), j, y) \/ (j \in Int /\ In(Ids(t), j - Len(s), y))
<1>1. s \o t \in Seq(Node)
  OBVIOUS
<1>2. \A j, x : In(s \o t, j, x) <=> In(s, j, x) \/ (j \in Int /\ In(t, j - Len(s), x))
  BY InConcat
<1>3. ASSUME NEW u \in Seq(Node)
      PROVE  \A j, y : In(Ids(u), j, y) <=> \E x : In(u, j, x) /\ x.id = y
  <2>1. \A j, y : In(Ids(u), j, y) <=> j \in DOMAIN u /\ u[j].id = y
    BY IdsFacts
  <2>2. \A j, y : (\E x : In(u, j, x) /\ x.id = y) <=> j \in DOMAIN u /\ u[j].id = y
    BY DEF In
  <2> QED
    BY <2>1, <2>2
<1> DEFINE u == s \o t
           n == Len(s)
<1>4. /\ \A j, y : In(Ids(s), j, y) <=> \E x : In(s, j, x) /\ x.id = y
      /\ \A j, y : In(Ids(t), j, y) <=> \E x : In(t, j, x) /\ x.id = y
  BY <1>3
<1>5. \A j, y : In(Ids(u), j, y) <=> \E x : In(u, j, x) /\ x.id = y
  BY <1>1, <1>3
<1>6. \A j, x : In(u, j, x) <=> In(s, j, x) \/ (j \in Int /\ In(t, j - n, x))
  BY <1>2
<1> HIDE DEF u, n
<1>7. \A j, y : In(Ids(u), j, y) <=> In(Ids(s), j, y) \/ (j \in Int /\ In(Ids(t), j - n, y))
  BY <1>4, <1>5, <1>6
<1> QED
  BY <1>1, <1>7 DEF u, n

\* The places of the service's lists, and what is where.
LEMMA ListsFacts ==
  ASSUME NEW r \in Seq(Id), NEW h \in Seq(Id), NEW w, w \in Wheels
  PROVE  /\ DOMAIN ListsOf(r, h, w) = Place
         /\ Reuse \in Place /\ Handles \in Place /\ Reuse # Handles
         /\ Slot \subseteq Place /\ Reuse \notin Slot /\ Handles \notin Slot
         /\ \A j, y : At(ListsOf(r, h, w), Reuse, j, y) <=> In(r, j, y)
         /\ \A j, y : At(ListsOf(r, h, w), Handles, j, y) <=> In(h, j, y)
         /\ \A s \in Slot : \A j, y : At(ListsOf(r, h, w), s, j, y) <=> In(Ids(w.list[s]), j, y)
         /\ \A s, j, y : At(ListsOf(r, h, w), s, j, y) => s \in Slot \cup {Reuse, Handles}
<1>1. DOMAIN ListsOf(r, h, w) = Place
  BY DEF ListsOf
<1>2. Reuse \in Place /\ Handles \in Place /\ Slot \subseteq Place /\ Place = Slot \cup {Reuse, Handles}
  BY DEF Place, Reuse, Handles
<1>3. Reuse # Handles /\ Reuse \notin Slot /\ Handles \notin Slot
  BY DEF Reuse, Handles, Slot
<1>4. \A s \in Place : ListsOf(r, h, w)[s] = IF s = Reuse THEN r ELSE IF s = Handles THEN h ELSE Ids(w.list[s])
  BY DEF ListsOf, Reuse, Handles
<1> HIDE DEF Place, Reuse, Handles, Slot
<1> QED
  BY <1>1, <1>2, <1>3, <1>4 DEF At

\* Indices are numbers.
LEMMA IndexInt ==
  ASSUME NEW r \in Seq(Id), NEW h \in Seq(Id), NEW w, w \in Wheels
  PROVE  \A s, j, y : At(ListsOf(r, h, w), s, j, y) => j \in Int /\ y \in Id
<1>1. \A u \in Seq(Id) : \A j, y : In(u, j, y) => j \in Int /\ y \in Id
  BY DEF In
<1>2. \A s \in Slot : w.list[s] \in Seq(Node)
  BY DEF Wheels
<1>3. \A s \in Slot : Ids(w.list[s]) \in Seq(Id)
  BY <1>2, IdsFacts
<1> QED
  BY <1>1, <1>3, ListsFacts

\* A node goes to the end of its list.
LEMMA AddNodeIn ==
  ASSUME NEW w, w \in Wheels, NEW node \in Node
  PROVE  LET s == SlotOf(w.curr, node.time)
             next == AddNode(w, node)
         IN /\ s \in Slot
            /\ next \in Wheels /\ next.curr = w.curr
            /\ next.list[s] = Append(w.list[s], node) /\ \A q \in Slot : q # s => next.list[q] = w.list[q]
            /\ w.list[s] \in Seq(Node)
<1> DEFINE s == SlotOf(w.curr, node.time)
           next == AddNode(w, node)
<1>1. s \in Slot
  <2>1. w.curr \in 0..Span - 1 /\ node.time \in 0..Span - 1
    BY DEF Wheels, Node
  <2> QED
    BY <2>1, SlotOfIn
<1>2. /\ next \in Wheels /\ next.curr = w.curr
      /\ next.list[s] = Append(w.list[s], node) /\ \A q \in Slot : q # s => next.list[q] = w.list[q]
      /\ w.list[s] \in Seq(Node)
  <2>1. w.list \in [Slot -> Seq(Node)] /\ w.curr \in 0..Span - 1
    BY DEF Wheels
  <2>2. w.list[s] \in Seq(Node)
    BY <1>1, <2>1
  <2>3. Append(w.list[s], node) \in Seq(Node)
    BY <2>2
  <2>4. next = [w EXCEPT !.list = [w.list EXCEPT ![s] = Append(w.list[s], node)]]
    BY DEF AddNode, Wheels
  <2> HIDE DEF s, next
  <2>5. [w.list EXCEPT ![s] = Append(w.list[s], node)] \in [Slot -> Seq(Node)]
    BY <2>1, <2>3
  <2>6. next \in Wheels /\ next.curr = w.curr /\ next.list = [w.list EXCEPT ![s] = Append(w.list[s], node)]
    BY <2>4, <2>5 DEF Wheels
  <2> QED
    BY <1>1, <2>1, <2>2, <2>6
<1> QED
  BY <1>1, <1>2

\* A node of an id that is nowhere may be added.
LEMMA AddNodeFacts ==
  ASSUME NEW r \in Seq(Id), NEW h \in Seq(Id), NEW w, w \in Wheels, NEW node \in Node,
         Once(ListsOf(r, h, w)), node.id \notin Held(ListsOf(r, h, w))
  PROVE  /\ AddNode(w, node) \in Wheels /\ AddNode(w, node).curr = w.curr
         /\ Once(ListsOf(r, h, AddNode(w, node)))
         /\ Held(ListsOf(r, h, AddNode(w, node))) = Held(ListsOf(r, h, w)) \cup {node.id}
<1> DEFINE s == SlotOf(w.curr, node.time)
           next == AddNode(w, node)
<1>1. s \in Slot
  BY AddNodeIn
<1>2. /\ next \in Wheels /\ next.curr = w.curr
      /\ next.list[s] = Append(w.list[s], node) /\ \A q \in Slot : q # s => next.list[q] = w.list[q]
      /\ w.list[s] \in Seq(Node)
  BY AddNodeIn
<1> HIDE DEF s, next
<1>3. \A j, y : In(Ids(next.list[s]), j, y) <=> In(Ids(w.list[s]), j, y) \/ (j = Len(w.list[s]) + 1 /\ y = node.id)
  BY <1>2, IdsAppend
<1>4. \A q, j, y : At(ListsOf(r, h, next), q, j, y) <=>
        At(ListsOf(r, h, w), q, j, y) \/ (q = s /\ j = Len(w.list[s]) + 1 /\ y = node.id)
  <2> SUFFICES ASSUME NEW q, NEW j, NEW y
               PROVE  At(ListsOf(r, h, next), q, j, y) <=>
                        At(ListsOf(r, h, w), q, j, y) \/ (q = s /\ j = Len(w.list[s]) + 1 /\ y = node.id)
    OBVIOUS
  <2>1. CASE q = s
    BY <1>1, <1>2, <1>3, <2>1, ListsFacts
  <2>2. CASE q \in Slot /\ q # s
    BY <1>2, <2>2, ListsFacts
  <2>3. CASE q \notin Slot
    BY <1>1, <1>2, <2>3, ListsFacts
  <2> QED
    BY <2>1, <2>2, <2>3
<1>5. Once(ListsOf(r, h, next)) /\ Held(ListsOf(r, h, next)) = Held(ListsOf(r, h, w)) \cup {node.id}
  <2> DEFINE L == ListsOf(r, h, w)
             M == ListsOf(r, h, next)
             n == Len(w.list[s]) + 1
             x == node.id
  <2>1. Added(L, M, s, n, x)
    BY <1>4 DEF Added
  <2>2. x \notin Held(L) /\ Once(L)
    OBVIOUS
  <2> HIDE DEF L, M, n, x
  <2>3. Once(M) /\ Held(M) = Held(L) \cup {x}
    BY <2>1, <2>2, PutNew
  <2> QED
    BY <2>3 DEF L, M, x
<1> QED
  BY <1>2, <1>5 DEF next

\* A list of the wheel may be emptied.
LEMMA EmptiedIn ==
  ASSUME NEW w, w \in Wheels, NEW s \in Slot
  PROVE  /\ [w EXCEPT !.list[s] = <<>>] \in Wheels
         /\ [w EXCEPT !.list[s] = <<>>].curr = w.curr
         /\ [w EXCEPT !.list[s] = <<>>].list[s] = <<>>
         /\ \A q \in Slot : q # s => [w EXCEPT !.list[s] = <<>>].list[q] = w.list[q]
<1> DEFINE next == [w EXCEPT !.list[s] = <<>>]
<1>1. w.list \in [Slot -> Seq(Node)] /\ w.curr \in 0..Span - 1 /\ <<>> \in Seq(Node)
  BY DEF Wheels
<1>2. next = [w EXCEPT !.list = [w.list EXCEPT ![s] = <<>>]]
  BY DEF Wheels
<1> HIDE DEF next
<1>3. [w.list EXCEPT ![s] = <<>>] \in [Slot -> Seq(Node)]
  BY <1>1
<1>4. next \in Wheels /\ next.curr = w.curr /\ next.list = [w.list EXCEPT ![s] = <<>>]
  BY <1>2, <1>3 DEF Wheels
<1>5. next \in Wheels /\ next.curr = w.curr /\ next.list[s] = <<>>
      /\ \A q \in Slot : q # s => next.list[q] = w.list[q]
  BY <1>1, <1>4
<1> QED
  BY <1>5 DEF next

\* Nodes are added one after another, to what stays a wheel.
LEMMA AddNodesRun ==
  ASSUME NEW w, w \in Wheels, NEW nodes \in Seq(Node)
  PROVE  \E f : /\ f[0] = w /\ \A n \in 1..Len(nodes) : f[n] = AddNode(f[n - 1], nodes[n])
                /\ AddNodes(w, nodes) = f[Len(nodes)]
                /\ \A n \in 0..Len(nodes) : f[n] \in Wheels /\ f[n].curr = w.curr
<1> DEFINE N == Len(nodes)
           step == [n \in 1..N |-> [v \in Wheels |-> AddNode(v, nodes[n])]]
           after == CHOOSE g : g = [n \in 0..N |-> IF n = 0 THEN w ELSE AddNode(g[n - 1], nodes[n])]
<1>1. N \in Nat /\ \A n \in 1..N : nodes[n] \in Node
  BY LenProperties, ElementOfSeq
<1>2. \A v \in Wheels, n \in 1..N : AddNode(v, nodes[n]) \in Wheels
  BY <1>1, AddNodeIn
<1>3. step \in Steps(N, Wheels)
  BY <1>2 DEF Steps
<1>4. PICK f : IsRun(f, N, Wheels, w, step)
  <2> HIDE DEF N, step
  <2> QED
    BY <1>1, <1>3, StepsExist
<1>5. f = [n \in 0..N |-> IF n = 0 THEN w ELSE AddNode(f[n - 1], nodes[n])]
  <2>1. \A n \in 1..N : f[n - 1] \in Wheels
    BY <1>1, <1>4 DEF IsRun
  <2>2. \A n \in 1..N : f[n] = AddNode(f[n - 1], nodes[n])
    BY <1>4, <2>1 DEF IsRun
  <2> HIDE DEF N, step
  <2>3. f \in [0..N -> Wheels] /\ f[0] = w
    BY <1>4 DEF IsRun
  <2>4. \A n \in 0..N : f[n] = IF n = 0 THEN w ELSE AddNode(f[n - 1], nodes[n])
    BY <1>1, <2>2, <2>3
  <2> QED
    BY <2>3, <2>4
<1>6. after = [n \in 0..N |-> IF n = 0 THEN w ELSE AddNode(after[n - 1], nodes[n])]
  BY <1>5, Zenon
<1>7. AddNodes(w, nodes) = after[N]
  BY Zenon DEF AddNodes
<1> HIDE DEF N, after
<1>8. after[0] = w /\ \A n \in 1..N : after[n] = AddNode(after[n - 1], nodes[n])
  BY <1>1, <1>6
<1>9. \A n \in 0..N : after[n] \in Wheels /\ after[n].curr = w.curr
  <2> DEFINE I == {n \in 0..N : after[n] \in Wheels /\ after[n].curr = w.curr}
  <2>1. 0 \in I
    BY <1>1, <1>8
  <2>2. ASSUME NEW n \in 1..N, n - 1 \in I PROVE n \in I
    <3>1. after[n - 1] \in Wheels /\ after[n - 1].curr = w.curr
      BY <2>2
    <3>2. AddNode(after[n - 1], nodes[n]) \in Wheels /\ AddNode(after[n - 1], nodes[n]).curr = after[n - 1].curr
      BY <1>1, <3>1, AddNodeIn
    <3> QED
      BY <1>1, <1>8, <3>1, <3>2
  <2> HIDE DEF I
  <2>3. \A n \in 0..N : n \in I
    BY <1>1, <2>1, <2>2, UpToInduction
  <2> QED
    BY <2>3 DEF I
<1> QED
  BY <1>7, <1>8, <1>9 DEF N

\* Nodes of new ids may be added.
LEMMA AddNodesFacts ==
  ASSUME NEW r \in Seq(Id), NEW h \in Seq(Id), NEW w, w \in Wheels, NEW nodes \in Seq(Node),
         Once(ListsOf(r, h, w)),
         \A j \in DOMAIN nodes : nodes[j].id \notin Held(ListsOf(r, h, w)),
         \A j, k \in DOMAIN nodes : nodes[j].id = nodes[k].id => j = k
  PROVE  /\ AddNodes(w, nodes) \in Wheels /\ AddNodes(w, nodes).curr = w.curr
         /\ Once(ListsOf(r, h, AddNodes(w, nodes)))
         /\ \A x : x \in Held(ListsOf(r, h, AddNodes(w, nodes))) <=>
                     x \in Held(ListsOf(r, h, w)) \/ \E k \in DOMAIN nodes : x = nodes[k].id
<1> DEFINE N == Len(nodes)
           L(v) == ListsOf(r, h, v)
<1>1. PICK f : /\ f[0] = w /\ \A n \in 1..N : f[n] = AddNode(f[n - 1], nodes[n])
               /\ AddNodes(w, nodes) = f[N]
  BY AddNodesRun
<1>2. N \in Nat /\ DOMAIN nodes = 1..N /\ \A n \in 1..N : nodes[n] \in Node
  BY LenProperties, ElementOfSeq
<1> DEFINE Good(n) == /\ f[n] \in Wheels /\ f[n].curr = w.curr /\ Once(L(f[n]))
                      /\ \A x : x \in Held(L(f[n])) <=>
                                  x \in Held(L(w)) \/ \E k \in 1..n : x = nodes[k].id
           I == {n \in 0..N : Good(n)}
<1> HIDE DEF N, L
<1>3. 0 \in I
  BY <1>1, <1>2 DEF L
<1>4. ASSUME NEW n \in 1..N, n - 1 \in I
      PROVE  n \in I
  <2> DEFINE node == nodes[n]
             v == f[n - 1]
  <2>1. Good(n - 1)
    BY <1>4
  <2>2. node \in Node /\ n \in Nat
    BY <1>2
  <2>3. node.id \notin Held(L(v))
    <3>1. \A k \in 1..n - 1 : node.id # nodes[k].id
      BY <1>2
    <3>2. node.id \notin Held(L(w))
      BY <1>2 DEF L
    <3> QED
      BY <2>1, <3>1, <3>2
  <2>4. /\ AddNode(v, node) \in Wheels /\ AddNode(v, node).curr = v.curr
        /\ Once(L(AddNode(v, node)))
        /\ Held(L(AddNode(v, node))) = Held(L(v)) \cup {node.id}
    BY <2>1, <2>2, <2>3, AddNodeFacts DEF L
  <2>5. f[n] = AddNode(v, node)
    BY <1>1
  <2>6. \A x : (\E k \in 1..n : x = nodes[k].id) <=> (\E k \in 1..n - 1 : x = nodes[k].id) \/ x = node.id
    <3>1. \A k : k \in 1..n <=> k \in 1..n - 1 \/ k = n
      BY <2>2
    <3> QED
      BY <3>1
  <2> HIDE DEF node, v
  <2>7. \A x : x \in Held(L(f[n])) <=> x \in Held(L(w)) \/ \E k \in 1..n : x = nodes[k].id
    <3>1. \A x : x \in Held(L(v)) <=> x \in Held(L(w)) \/ \E k \in 1..n - 1 : x = nodes[k].id
      BY <2>1 DEF v
    <3>2. \A x : x \in Held(L(f[n])) <=> x \in Held(L(v)) \/ x = node.id
      BY <2>4, <2>5
    <3> QED
      BY <2>6, <3>1, <3>2
  <2>8. v.curr = w.curr
    BY <2>1 DEF v
  <2>9. Good(n)
    BY <2>4, <2>5, <2>7, <2>8
  <2> QED
    BY <2>9
<1>5. Good(N)
  <2>1. N \in I
    <3> HIDE DEF I
    <3>1. \A n \in 0..N : n \in I
      BY <1>2, <1>3, <1>4, UpToInduction
    <3> QED
      BY <1>2, <3>1
  <2> QED
    BY <2>1
<1> QED
  BY <1>1, <1>2, <1>5 DEF L

\* A tick keeps wheels wheels,
LEMMA ShiftIn ==
  ASSUME NEW w, w \in Wheels
  PROVE  Shift(w) \in Wheels
<1> DEFINE next == [w EXCEPT !.curr = (@ + 1) % Span]
           reached == Reached(next.curr)
           s == CHOOSE x \in reached : TRUE
           v == [next EXCEPT !.list[s] = <<>>]
           nodes == next.list[s]
<1>1. next \in Wheels /\ next.curr \in Nat
  <2>1. w.curr \in 0..Span - 1 /\ w.list \in [Slot -> Seq(Node)] /\ Span \in Nat \ {0}
    BY SizeFacts, TimingWheelAssumption DEF Wheels, Span
  <2>2. (w.curr + 1) % Span \in 0..Span - 1
    BY <2>1
  <2> QED
    BY <2>1, <2>2 DEF Wheels
<1>2. Shift(w) = IF reached = {} THEN next ELSE AddNodes(v, nodes)
  BY DEF Shift
<1> HIDE DEF next
<1>3. ASSUME reached # {}
      PROVE  AddNodes(v, nodes) \in Wheels
  <2>1. s \in Slot
    BY <1>1, <1>3, ReachedIn
  <2> HIDE DEF s
  <2>2. v \in Wheels
    BY <1>1, <2>1, EmptiedIn
  <2>3. nodes \in Seq(Node)
    BY <1>1, <2>1 DEF Wheels
  <2> HIDE DEF v, nodes
  <2>4. Len(nodes) \in 0..Len(nodes)
    BY <2>3, LenProperties
  <2> QED
    BY <2>2, <2>3, <2>4, AddNodesRun
<1> QED
  BY <1>1, <1>2, <1>3

\* and the driver's runs runs.
LEMMA TurnIn ==
  ASSUME NEW run, run \in Runs
  PROVE  Turn(run) \in Runs
<1> DEFINE next == Shift(run.wheel)
           s == <<"near", 0, next.curr % Near>>
           v == [next EXCEPT !.list[s] = <<>>]
           nodes == next.list[s]
<1>1. next \in Wheels /\ run.popped \in Seq(Node)
  BY ShiftIn DEF Runs
<1>2. Turn(run) = [wheel |-> v, popped |-> run.popped \o nodes]
  BY DEF Turn
<1> HIDE DEF next
<1>3. s \in Slot
  <2>1. next.curr \in Nat /\ Near \in Nat \ {0}
    BY <1>1, SizeFacts, TimingWheelAssumption DEF Wheels, Span
  <2>2. next.curr % Near \in 0..Near - 1
    BY <2>1
  <2> QED
    BY <2>2 DEF Slot
<1> HIDE DEF s
<1>4. v \in Wheels
  BY <1>1, <1>3, EmptiedIn
<1>5. nodes \in Seq(Node)
  BY <1>1, <1>3 DEF Wheels
<1> HIDE DEF v, nodes
<1>6. run.popped \o nodes \in Seq(Node)
  BY <1>1, <1>5
<1> QED
  BY <1>2, <1>4, <1>6 DEF Runs

\* The driver runs the wheel tick by tick.
LEMMA UpdateRun ==
  ASSUME NEW w, w \in Wheels, NEW t, t - w.curr \in Nat
  PROVE  \E f : /\ f \in [0..t - w.curr -> Runs]
                /\ f[0] = [wheel |-> w, popped |-> <<>>]
                /\ \A n \in 1..t - w.curr : f[n] = Turn(f[n - 1])
                /\ Update(w, t) = f[t - w.curr]
<1> DEFINE N == t - w.curr
           start == [wheel |-> w, popped |-> <<>>]
           step == [n \in 1..N |-> [run \in Runs |-> Turn(run)]]
           chosen == CHOOSE g : g = [n \in 0..N |-> IF n = 0 THEN start ELSE Turn(g[n - 1])]
<1>1. start \in Runs
  BY DEF Runs
<1>2. step \in Steps(N, Runs)
  BY TurnIn DEF Steps
<1> HIDE DEF N, start, step
<1>3. N \in Nat
  BY DEF N
<1>4. PICK f : IsRun(f, N, Runs, start, step)
  BY <1>1, <1>2, <1>3, StepsExist
<1>5. /\ f \in [0..N -> Runs] /\ f[0] = start
      /\ \A n \in 1..N : f[n] = Turn(f[n - 1])
  <2>1. f \in [0..N -> Runs] /\ f[0] = start /\ \A n \in 1..N : f[n] = step[n][f[n - 1]]
    BY <1>4 DEF IsRun
  <2>2. \A n \in 1..N : f[n - 1] \in Runs
    BY <1>3, <2>1
  <2>3. \A n \in 1..N, run \in Runs : step[n][run] = Turn(run)
    BY DEF step
  <2> QED
    BY <2>1, <2>2, <2>3
<1>6. f = [n \in 0..N |-> IF n = 0 THEN start ELSE Turn(f[n - 1])]
  <2>1. \A n \in 0..N : f[n] = IF n = 0 THEN start ELSE Turn(f[n - 1])
    BY <1>3, <1>5
  <2> QED
    BY <1>5, <2>1
<1>7. chosen = [n \in 0..N |-> IF n = 0 THEN start ELSE Turn(chosen[n - 1])]
  BY <1>6, Zenon
<1>8. Update(w, t) = chosen[N]
  BY Zenon DEF Update, start, N
<1> HIDE DEF chosen
<1>9. chosen[0] = start /\ \A n \in 1..N : chosen[n] = Turn(chosen[n - 1])
  BY <1>3, <1>7
<1>10. chosen \in [0..N -> Runs]
  <2> DEFINE I == {n \in 0..N : chosen[n] \in Runs}
  <2>1. 0 \in I /\ \A n \in 1..N : n - 1 \in I => n \in I
    BY <1>1, <1>3, <1>9, TurnIn
  <2> HIDE DEF I
  <2>2. \A n \in 0..N : n \in I
    BY <1>3, <2>1, UpToInduction
  <2>3. \A n \in 0..N : chosen[n] \in Runs
    BY <2>2 DEF I
  <2> QED
    BY <1>7, <2>3
<1> QED
  BY <1>8, <1>9, <1>10 DEF N, start

\* Only the lists of the wheel count.
LEMMA SameLists ==
  ASSUME NEW r, NEW h, NEW v, NEW w, \A s \in Slot : v.list[s] = w.list[s]
  PROVE  ListsOf(r, h, v) = ListsOf(r, h, w)
<1>1. \A p \in Place : p = Reuse \/ p = Handles \/ p \in Slot
  BY DEF Place, Reuse, Handles
<1> QED
  BY <1>1 DEF ListsOf, Reuse, Handles

\* A tick moves nodes between the lists and loses none.
LEMMA ShiftFacts ==
  ASSUME NEW r \in Seq(Id), NEW h \in Seq(Id), NEW w, w \in Wheels, Once(ListsOf(r, h, w))
  PROVE  /\ Shift(w) \in Wheels /\ Shift(w).curr = (w.curr + 1) % Span
         /\ Once(ListsOf(r, h, Shift(w)))
         /\ Held(ListsOf(r, h, Shift(w))) = Held(ListsOf(r, h, w))
<1> DEFINE next == [w EXCEPT !.curr = (@ + 1) % Span]
           reached == Reached(next.curr)
           s == CHOOSE x \in reached : TRUE
           v == [next EXCEPT !.list[s] = <<>>]
           nodes == next.list[s]
           u == AddNodes(v, nodes)
<1>1. next \in Wheels /\ next.curr = (w.curr + 1) % Span /\ next.list = w.list /\ next.curr \in Nat
  <2>1. w.curr \in 0..Span - 1 /\ w.list \in [Slot -> Seq(Node)] /\ Span \in Nat \ {0}
    BY SizeFacts, TimingWheelAssumption DEF Wheels, Span
  <2>2. (w.curr + 1) % Span \in 0..Span - 1
    BY <2>1
  <2> QED
    BY <2>1, <2>2 DEF Wheels
<1>2. Shift(w) = IF reached = {} THEN next ELSE u
  BY DEF Shift
<1> HIDE DEF next
<1>3. ListsOf(r, h, next) = ListsOf(r, h, w)
  BY <1>1, SameLists
<1>4. CASE reached = {}
  BY <1>1, <1>2, <1>3, <1>4
<1>5. CASE reached # {}
  <2>1. s \in Slot
    BY <1>1, <1>5, ReachedIn
  <2> HIDE DEF s
  <2>2. /\ v \in Wheels /\ v.curr = next.curr /\ v.list[s] = <<>>
        /\ \A q \in Slot : q # s => v.list[q] = next.list[q]
    BY <1>1, <2>1, EmptiedIn
  <2>3. nodes \in Seq(Node)
    BY <1>1, <2>1 DEF Wheels
  <2> HIDE DEF v, nodes
  <2> DEFINE L == ListsOf(r, h, next)
             M == ListsOf(r, h, v)
             R == {x \in Id : \E j : At(L, s, j, x)}
  <2>4. \A j, y : At(L, s, j, y) <=> j \in DOMAIN nodes /\ nodes[j].id = y
    <3>1. \A j, y : At(L, s, j, y) <=> In(Ids(nodes), j, y)
      BY <1>1, <2>1, ListsFacts DEF nodes
    <3> QED
      BY <2>3, <3>1, IdsFacts
  <2>5. TakenFrom(L, M, s, 0, Int)
    <3>1. \A q, j, y : q # s => (At(M, q, j, y) <=> At(L, q, j, y))
      <4> SUFFICES ASSUME NEW q, NEW j, NEW y, q # s
                   PROVE  At(M, q, j, y) <=> At(L, q, j, y)
        OBVIOUS
      <4>1. CASE q \in Slot
        BY <1>1, <2>2, <4>1, ListsFacts
      <4>2. CASE q \notin Slot
        BY <1>1, <2>2, <4>2, ListsFacts
      <4> QED
        BY <4>1, <4>2
    <3>2. \A j, y : ~At(M, s, j, y)
      <4>1. \A j, y : At(M, s, j, y) <=> In(Ids(v.list[s]), j, y)
        BY <2>1, <2>2, ListsFacts
      <4>2. \A j, y : ~In(Ids(<<>>), j, y)
        BY DEF In, Ids
      <4> QED
        BY <2>2, <4>1, <4>2
    <3> QED
      BY <3>1, <3>2 DEF TakenFrom
  <2>6. Indexed(L) /\ \A p, j, y : At(L, p, j, y) => y \in Id
    BY <1>1, IndexInt DEF Indexed
  <2>7. \A y : y \in R <=> \E j \in Int : At(L, s, j, y)
    BY <2>6 DEF Indexed
  <2>8. Once(L)
    BY <1>3
  <2>9. R \subseteq Held(L)
    BY HeldFacts
  <2>10. \A j, k \in DOMAIN nodes : nodes[j].id = nodes[k].id => j = k
    <3>1. \A p, q, j, k, x : At(L, p, j, x) /\ At(L, q, k, x) => p = q /\ j = k
      BY <2>8, HeldFacts
    <3> HIDE DEF L
    <3> SUFFICES ASSUME NEW j \in DOMAIN nodes, NEW k \in DOMAIN nodes, nodes[j].id = nodes[k].id
                 PROVE  j = k
      OBVIOUS
    <3>2. At(L, s, j, nodes[j].id) /\ At(L, s, k, nodes[j].id)
      BY <2>4
    <3> QED
      BY <3>1, <3>2
  <2>11. \A x : x \in R <=> \E k \in DOMAIN nodes : x = nodes[k].id
    BY <2>4, <2>6
  <2> HIDE DEF L, M, R
  <2>12. Once(M) /\ \A y : y \in Held(M) <=> y \in Held(L) /\ y \notin R
    <3>1. Once(M) /\ \A y : y \in Held(M) <=> y \in Held(L) /\ ~\E j \in Int : At(L, s, j, y)
      BY <2>5, <2>6, <2>8, Taken
    <3> QED
      BY <2>7, <3>1
  <2>13. \A j \in DOMAIN nodes : nodes[j].id \notin Held(M)
    BY <2>11, <2>12
  <2>14. /\ u \in Wheels /\ u.curr = v.curr
         /\ Once(ListsOf(r, h, u))
         /\ \A x : x \in Held(ListsOf(r, h, u)) <=> x \in Held(M) \/ \E k \in DOMAIN nodes : x = nodes[k].id
    BY <2>2, <2>3, <2>10, <2>12, <2>13, AddNodesFacts DEF M
  <2>15. Held(ListsOf(r, h, u)) = Held(L)
    BY <2>9, <2>11, <2>12, <2>14
  <2> HIDE DEF u
  <2> QED
    BY <1>1, <1>2, <1>3, <1>5, <2>2, <2>14, <2>15 DEF L
<1> QED
  BY <1>4, <1>5

\* Then the nodes that are due are taken out.
LEMMA TurnFacts ==
  ASSUME NEW r \in Seq(Id), NEW run, run \in Runs, Once(ListsOf(r, Ids(run.popped), run.wheel))
  PROVE  /\ Turn(run) \in Runs /\ Turn(run).wheel.curr = (run.wheel.curr + 1) % Span
         /\ Once(ListsOf(r, Ids(Turn(run).popped), Turn(run).wheel))
         /\ Held(ListsOf(r, Ids(Turn(run).popped), Turn(run).wheel))
              = Held(ListsOf(r, Ids(run.popped), run.wheel))
<1> DEFINE next == Shift(run.wheel)
           s == <<"near", 0, next.curr % Near>>
           v == [next EXCEPT !.list[s] = <<>>]
           nodes == next.list[s]
           popped == run.popped \o nodes
           L == ListsOf(r, Ids(run.popped), next)
           M == ListsOf(r, Ids(popped), v)
<1>1. run.wheel \in Wheels /\ run.popped \in Seq(Node)
  BY DEF Runs
<1>2. Ids(run.popped) \in Seq(Id) /\ Len(Ids(run.popped)) = Len(run.popped) /\ Len(run.popped) \in Nat
  BY <1>1, IdsFacts
<1>3. /\ next \in Wheels /\ next.curr = (run.wheel.curr + 1) % Span
      /\ Once(L) /\ Held(L) = Held(ListsOf(r, Ids(run.popped), run.wheel))
  BY <1>1, <1>2, ShiftFacts
<1> HIDE DEF next
<1>4. s \in Slot
  <2>1. next.curr \in Nat /\ Near \in Nat \ {0}
    BY <1>3, SizeFacts, TimingWheelAssumption DEF Wheels, Span
  <2>2. next.curr % Near \in 0..Near - 1
    BY <2>1
  <2> QED
    BY <2>2 DEF Slot
<1>5. Turn(run) = [wheel |-> v, popped |-> popped]
  BY DEF Turn, next
<1> HIDE DEF s
<1>6. /\ v \in Wheels /\ v.curr = next.curr /\ v.list[s] = <<>>
      /\ \A q \in Slot : q # s => v.list[q] = next.list[q]
  BY <1>3, <1>4, EmptiedIn
<1>7. nodes \in Seq(Node)
  BY <1>3, <1>4 DEF Wheels
<1> HIDE DEF v, nodes
<1>8. /\ popped \in Seq(Node)
      /\ \A j, y : In(Ids(popped), j, y) <=>
           In(Ids(run.popped), j, y) \/ (j \in Int /\ In(Ids(nodes), j - Len(run.popped), y))
  BY <1>1, <1>7, IdsConcat
<1> HIDE DEF popped
<1>9. Ids(popped) \in Seq(Id)
  BY <1>8, IdsFacts
<1>10. MovedTo(L, M, s, Handles, Len(run.popped))
  <2>1. \A q, j, y : q # s /\ q # Handles => (At(M, q, j, y) <=> At(L, q, j, y))
    <3> SUFFICES ASSUME NEW q, NEW j, NEW y, q # s, q # Handles
                 PROVE  At(M, q, j, y) <=> At(L, q, j, y)
      OBVIOUS
    <3>1. CASE q \in Slot
      BY <1>2, <1>3, <1>6, <1>9, <3>1, ListsFacts
    <3>2. CASE q \notin Slot
      BY <1>2, <1>3, <1>6, <1>9, <3>2, ListsFacts
    <3> QED
      BY <3>1, <3>2
  <2>2. \A j, y : ~At(M, s, j, y)
    <3>1. \A j, y : At(M, s, j, y) <=> In(Ids(v.list[s]), j, y)
      BY <1>4, <1>6, <1>9, ListsFacts
    <3>2. \A j, y : ~In(Ids(<<>>), j, y)
      BY DEF In, Ids
    <3> QED
      BY <1>6, <3>1, <3>2
  <2>3. \A j, y : At(M, Handles, j, y) <=> In(Ids(popped), j, y)
    BY <1>6, <1>9, ListsFacts
  <2>4. /\ \A j, y : At(L, Handles, j, y) <=> In(Ids(run.popped), j, y)
        /\ \A j, y : At(L, s, j, y) <=> In(Ids(nodes), j, y)
    BY <1>2, <1>3, <1>4, ListsFacts DEF nodes
  <2> HIDE DEF L, M
  <2>5. \A j, y : At(M, Handles, j, y) <=> At(L, Handles, j, y) \/ (j \in Int /\ At(L, s, j - Len(run.popped), y))
    BY <1>8, <2>3, <2>4
  <2> QED
    BY <2>1, <2>2, <2>5 DEF MovedTo
<1>11. Indexed(L)
  BY <1>2, <1>3, IndexInt DEF Indexed
<1>12. s # Handles
  BY <1>1, <1>2, <1>3, <1>4, ListsFacts
<1> HIDE DEF L, M
<1>13. Once(M) /\ Held(M) = Held(L)
  BY <1>2, <1>3, <1>10, <1>11, <1>12, Moved
<1>14. Turn(run) \in Runs /\ Turn(run).wheel = v /\ Turn(run).popped = popped
  BY <1>5, <1>6, <1>8 DEF Runs
<1> QED
  BY <1>3, <1>6, <1>13, <1>14 DEF L, M

\* The driver brings the wheel to the present.
LEMMA UpdateFacts ==
  ASSUME NEW r \in Seq(Id), NEW w, w \in Wheels, NEW t \in 0..Span - 1, w.curr <= t,
         Once(ListsOf(r, <<>>, w))
  PROVE  /\ Update(w, t) \in Runs /\ Update(w, t).wheel.curr = t
         /\ Once(ListsOf(r, Ids(Update(w, t).popped), Update(w, t).wheel))
         /\ Held(ListsOf(r, Ids(Update(w, t).popped), Update(w, t).wheel)) = Held(ListsOf(r, <<>>, w))
<1> DEFINE N == t - w.curr
           L(run) == ListsOf(r, Ids(run.popped), run.wheel)
<1>1. N \in Nat /\ w.curr \in Nat /\ t \in Nat /\ Span \in Nat /\ t < Span /\ w.curr + N = t
  BY SizeFacts, TimingWheelAssumption DEF Wheels, Span
<1>2. PICK f : /\ f \in [0..N -> Runs]
               /\ f[0] = [wheel |-> w, popped |-> <<>>]
               /\ \A n \in 1..N : f[n] = Turn(f[n - 1])
               /\ Update(w, t) = f[N]
  BY <1>1, UpdateRun
<1>3. L(f[0]) = ListsOf(r, <<>>, w)
  <2>1. Ids(<<>>) = <<>>
    BY DEF Ids
  <2> QED
    BY <1>2, <2>1
<1> DEFINE Good(n) == /\ f[n] \in Runs /\ f[n].wheel.curr = w.curr + n
                      /\ Once(L(f[n])) /\ Held(L(f[n])) = Held(ListsOf(r, <<>>, w))
           I == {n \in 0..N : Good(n)}
<1> HIDE DEF N, L
<1>4. 0 \in I
  <2>1. f[0] \in Runs /\ f[0].wheel = w
    BY <1>1, <1>2
  <2>2. w.curr + 0 = w.curr
    BY <1>1
  <2> QED
    BY <1>1, <1>3, <2>1, <2>2
<1>5. ASSUME NEW n \in 1..N, n - 1 \in I
      PROVE  n \in I
  <2> DEFINE run == f[n - 1]
  <2>1. f[n] = Turn(run)
    BY <1>2
  <2>2. Good(n - 1)
    BY <1>5
  <2>3. /\ run \in Runs /\ run.wheel.curr = w.curr + (n - 1)
        /\ Once(L(run)) /\ Held(L(run)) = Held(ListsOf(r, <<>>, w))
    BY <2>2
  <2> HIDE DEF run
  <2>4. /\ Turn(run) \in Runs /\ Turn(run).wheel.curr = (run.wheel.curr + 1) % Span
        /\ Once(L(Turn(run))) /\ Held(L(Turn(run))) = Held(L(run))
    BY <2>3, TurnFacts DEF L
  <2>5. (run.wheel.curr + 1) % Span = w.curr + n
    <3>1. (w.curr + (n - 1)) + 1 = w.curr + n /\ w.curr + n \in Nat /\ w.curr + n < Span
      BY <1>1
    <3>2. (w.curr + n) % Span = w.curr + n
      BY <1>1, <3>1, SmallMod
    <3> QED
      BY <2>3, <3>1, <3>2
  <2>6. Good(n)
    BY <2>1, <2>3, <2>4, <2>5, Zenon
  <2> QED
    BY <2>6
<1>6. Good(N)
  <2>1. N \in I
    <3> HIDE DEF I
    <3>1. \A n \in 0..N : n \in I
      BY <1>1, <1>4, <1>5, UpToInduction
    <3> QED
      BY <1>1, <3>1
  <2> QED
    BY <2>1
<1> QED
  BY <1>1, <1>2, <1>6 DEF L

-----------------------------------------------------------------------------
(***************************************************************************)
(* The inductive invariant                                                 *)
(***************************************************************************)

\* Ids and keys keep each other in order: an id that is used again is nobody's
\* because one that is somebody's was given out and waits or is about to be
\* called; and the driver has dealt with all handles before it takes the next.
IInv ==
  /\ IdOnePlace
  /\ OneTimer
  /\ ~execute => handles = <<>>
  /\ \A i \in Id : used[i] # Nil => i <= dispatchId

\* The types that the lemmas about lists are of.
LEMMA TypeFacts ==
  TypeOK => /\ wheel \in Wheels /\ wheel.curr <= clock /\ clock \in 0..Span - 1
            /\ reuse \in Seq(Id) /\ handles \in Seq(Id) /\ dispatchId \in 0..MaxId
            /\ MaxId \in Nat /\ MaxTime \in Nat /\ Span \in Nat
<1> SUFFICES ASSUME TypeOK
             PROVE  /\ wheel \in Wheels /\ wheel.curr <= clock /\ clock \in 0..Span - 1
                    /\ MaxId \in Nat /\ MaxTime \in Nat /\ Span \in Nat
  BY DEF TypeOK
<1>1. Span \in Nat \ {0} /\ MaxTime \in 0..Span - 1 /\ MaxId \in Nat
  BY SizeFacts, TimingWheelAssumption, ServiceTimerAssumption DEF Span
<1>2. clock \in 0..MaxTime /\ wheel \in [curr : 0..clock, list : [Slot -> Seq(Node)]]
  BY DEF TypeOK, Node
<1>3. clock \in 0..Span - 1 /\ \A c \in 0..clock : c \in 0..Span - 1 /\ c <= clock
  BY <1>1, <1>2
<1> HIDE DEF Node
<1>4. wheel \in Wheels /\ wheel.curr <= clock
  BY <1>2, <1>3 DEF Wheels
<1> QED
  BY <1>1, <1>3, <1>4

\* What a key leads to is an id.
LEMMA KeyIds ==
  TypeOK => \A n \in Name : name2Id[n] # 0 => name2Id[n] \in Id
<1> SUFFICES ASSUME TypeOK, NEW n \in Name, name2Id[n] # 0
             PROVE  name2Id[n] \in Id
  OBVIOUS
<1>1. name2Id[n] \in 0..dispatchId
  BY DEF TypeOK
<1>2. dispatchId \in 0..MaxId /\ MaxId \in Nat
  BY TypeFacts
<1> QED
  BY <1>1, <1>2 DEF Id

\* The ids in a queue.
LEMMA ToSetFacts ==
  ASSUME NEW s, NEW x
  PROVE  x \in ToSet(s) <=> \E j : In(s, j, x)
BY DEF ToSet, In

\* Nobody is no name.
LEMMA NameFacts ==
  /\ Nil \notin Name
  /\ \A n \in Name : n[1] \in Timer
BY ServiceTimerAssumption DEF Name

-----------------------------------------------------------------------------
\* In the beginning no id has been given out.
LEMMA InitIInv == Init => IInv
<1> SUFFICES ASSUME Init
             PROVE  IInv
  OBVIOUS
<1>1. Span \in Nat \ {0} /\ MaxTime \in Nat /\ MaxId \in Nat
  BY SizeFacts, TimingWheelAssumption, ServiceTimerAssumption DEF Span
<1>2. wheel \in [curr : 0..clock, list : [Slot -> Seq(Node)]] /\ \A s \in Slot : wheel.list[s] = <<>>
  BY DEF Init, EmptyWheel
<1>3. TypeOK
  <2>1. wheel \in [curr : 0..clock, list : [Slot -> Seq([id : Id, time : 0..Span - 1])]]
    BY <1>2 DEF Node
  <2>2. used \in [Id -> Name \cup {Nil}] /\ name2Id \in [Name -> 0..dispatchId]
    BY DEF Init
  <2>3. clock \in 0..MaxTime /\ dispatchId \in 0..MaxId
    BY <1>1 DEF Init
  <2>4. /\ handles \in Seq(Id) /\ execute \in BOOLEAN /\ reuse \in Seq(Id)
        /\ released \subseteq Timer /\ repeated \subseteq Name
    <3>1. handles = <<>> /\ execute = FALSE /\ reuse = <<>> /\ released = {} /\ repeated = {}
      BY DEF Init
    <3>2. handles \in Seq(Id) /\ reuse \in Seq(Id)
      BY <3>1, EmptySeq
    <3> QED
      BY <3>1, <3>2
  <2> QED
    BY <2>1, <2>2, <2>3, <2>4 DEF TypeOK
<1> DEFINE L == ListsOf(reuse, handles, wheel)
<1>4. \A p, j, y : ~At(L, p, j, y)
  <2>1. \A j, y : ~In(<<>>, j, y) /\ ~In(Ids(<<>>), j, y)
    BY DEF In, Ids
  <2>2. reuse = <<>> /\ handles = <<>>
    BY DEF Init
  <2>3. wheel \in Wheels /\ reuse \in Seq(Id) /\ handles \in Seq(Id)
    BY <1>3, TypeFacts
  <2>4. \A j, y : ~At(L, Reuse, j, y) /\ ~At(L, Handles, j, y)
    <3>1. \A j, y : (At(L, Reuse, j, y) <=> In(reuse, j, y)) /\ (At(L, Handles, j, y) <=> In(handles, j, y))
      BY <2>3, ListsFacts
    <3> HIDE DEF L
    <3> QED
      BY <2>1, <2>2, <3>1
  <2>5. ASSUME NEW s \in Slot PROVE \A j, y : ~At(L, s, j, y)
    <3>1. \A j, y : At(L, s, j, y) <=> In(Ids(wheel.list[s]), j, y)
      BY <2>3, ListsFacts
    <3>2. wheel.list[s] = <<>>
      BY <1>2
    <3> HIDE DEF L
    <3> QED
      BY <2>1, <3>1, <3>2
  <2>6. \A s, j, y : At(L, s, j, y) => s \in Slot \cup {Reuse, Handles}
    BY <2>3, ListsFacts
  <2> HIDE DEF L
  <2> QED
    BY <2>4, <2>5, <2>6
<1>5. Once(L) /\ \A y : y \notin Held(L)
  <2> HIDE DEF L
  <2> QED
    BY <1>4, HeldFacts
<1>6. Held(L) = 1..dispatchId
  BY <1>5 DEF Init
<1>7. \A i \in Id : used[i] = Nil
  BY DEF Init
<1>8. IdOnePlace
  BY <1>3, <1>5, <1>6, <1>7 DEF IdOnePlace
<1>9. OneTimer
  <2>1. \A n \in Name : name2Id[n] = 0 /\ n # Nil
    BY NameFacts DEF Init
  <2> QED
    BY <1>7, <2>1 DEF OneTimer
<1>10. execute = FALSE /\ handles = <<>>
  BY DEF Init
<1> QED
  BY <1>7, <1>8, <1>9, <1>10 DEF IInv

\* A step that leaves the lists and takes nothing new into use keeps the places.
LEMMA PlacesSame ==
  ASSUME IInv, TypeOK', UNCHANGED <<reuse, handles, dispatchId, execute>>,
         \A s \in Slot : wheel'.list[s] = wheel.list[s],
         \A i \in Id : used'[i] # Nil => used[i] # Nil,
         OneTimer'
  PROVE  IInv'
<1>1. ListsOf(reuse', handles', wheel') = ListsOf(reuse, handles, wheel)
  BY SameLists
<1>2. IdOnePlace'
  BY <1>1 DEF IInv, IdOnePlace
<1>3. /\ ~execute' => handles' = <<>>
      /\ \A i \in Id : used'[i] # Nil => i <= dispatchId'
  BY DEF IInv
<1> QED
  BY <1>2, <1>3 DEF IInv

\* A callback is deleted: its id stays where it is and becomes nobody's.
LEMMA DelCallbackIInv ==
  ASSUME IInv, NEW n \in Name, DelCallback(n)
  PROVE  IInv'
<1>1. TypeOK /\ OneTimer
  BY DEF IInv, IdOnePlace
<1>2. name2Id[n] \in Id /\ dispatchId \in 0..MaxId /\ MaxId \in Nat
  BY <1>1, TypeFacts, KeyIds DEF DelCallback
<1>3. /\ used' = [used EXCEPT ![name2Id[n]] = Nil] /\ name2Id' = [name2Id EXCEPT ![n] = 0]
      /\ UNCHANGED <<clock, wheel, handles, execute, reuse, dispatchId, released, repeated>>
      /\ n[1] \notin released /\ used[name2Id[n]] = n
  BY <1>1 DEF DelCallback, OneTimer
<1>4. TypeOK'
  <2>1. used' \in [Id -> Name \cup {Nil}]
    BY <1>1, <1>3 DEF TypeOK
  <2>2. name2Id' \in [Name -> 0..dispatchId]
    BY <1>1, <1>2, <1>3 DEF TypeOK
  <2> QED
    BY <1>1, <1>3, <2>1, <2>2 DEF TypeOK
<1>5. /\ \A i \in Id : used'[i] = IF i = name2Id[n] THEN Nil ELSE used[i]
      /\ \A m \in Name : name2Id'[m] = IF m = n THEN 0 ELSE name2Id[m]
  BY <1>1, <1>3 DEF TypeOK
<1>6. OneTimer'
  <2>1. ASSUME NEW m \in Name \ repeated, NEW i \in Id, used'[i] = m
        PROVE  m[1] \notin released /\ name2Id'[m] = i
    <3>1. used[i] = m /\ i # name2Id[n]
      BY <1>5, <2>1, NameFacts
    <3>2. m[1] \notin released /\ name2Id[m] = i
      BY <1>1, <3>1 DEF OneTimer
    <3> QED
      BY <1>5, <3>1, <3>2
  <2>2. ASSUME NEW m \in Name, m[1] \notin released, name2Id'[m] # 0
        PROVE  used'[name2Id'[m]] = m
    <3>1. m # n /\ name2Id'[m] = name2Id[m]
      BY <1>5, <2>2
    <3>2. used[name2Id[m]] = m
      BY <1>1, <2>2, <3>1 DEF OneTimer
    <3>3. name2Id[m] \in Id
      BY <1>1, <2>2, <3>1, KeyIds
    <3>4. name2Id[m] # name2Id[n]
      BY <1>3, <3>1, <3>2
    <3> QED
      BY <1>5, <3>1, <3>2, <3>3, <3>4
  <2> QED
    BY <1>3, <2>1, <2>2 DEF OneTimer
<1> QED
  BY <1>3, <1>4, <1>5, <1>6, PlacesSame

\* An object is released: the ids of its keys become nobody's.
LEMMA ReleaseIInv ==
  ASSUME IInv, NEW o \in Timer, Release(o)
  PROVE  IInv'
<1>1. TypeOK /\ OneTimer
  BY DEF IInv, IdOnePlace
<1> DEFINE Freed(i) == \E k \in Key : name2Id[<<o, k>>] = i
<1>2. /\ used' = [i \in Id |-> IF Freed(i) THEN Nil ELSE used[i]]
      /\ released' = released \cup {o} /\ o \notin released
      /\ UNCHANGED <<clock, wheel, handles, execute, reuse, dispatchId, name2Id, repeated>>
  BY DEF Release
<1>3. \A i \in Id : used'[i] = IF Freed(i) THEN Nil ELSE used[i]
  BY <1>2
<1>4. TypeOK'
  <2>1. used' \in [Id -> Name \cup {Nil}]
    BY <1>1, <1>2 DEF TypeOK
  <2>2. released' \subseteq Timer
    BY <1>1, <1>2 DEF TypeOK
  <2> QED
    BY <1>1, <1>2, <2>1, <2>2 DEF TypeOK
<1>5. OneTimer'
  <2>1. ASSUME NEW m \in Name \ repeated, NEW i \in Id, used'[i] = m
        PROVE  m[1] \notin released' /\ name2Id[m] = i
    <3>1. used[i] = m /\ ~Freed(i)
      BY <1>3, <2>1, NameFacts
    <3>2. m[1] \notin released /\ name2Id[m] = i
      BY <1>1, <3>1 DEF OneTimer
    <3>3. m[1] # o
      <4>1. PICK t \in Timer, k \in Key : m = <<t, k>>
        BY DEF Name
      <4> QED
        BY <3>1, <3>2, <4>1
    <3> QED
      BY <1>2, <3>2, <3>3
  <2>2. ASSUME NEW m \in Name, m[1] \notin released', name2Id[m] # 0
        PROVE  used'[name2Id[m]] = m
    <3>1. used[name2Id[m]] = m /\ m[1] # o
      BY <1>1, <1>2, <2>2 DEF OneTimer
    <3>2. name2Id[m] \in Id
      BY <1>1, <2>2, KeyIds
    <3>3. ASSUME NEW k \in Key, name2Id[<<o, k>>] = name2Id[m] PROVE FALSE
      <4>1. <<o, k>> \in Name /\ <<o, k>>[1] = o
        BY DEF Name
      <4>2. used[name2Id[<<o, k>>]] = <<o, k>>
        BY <1>1, <1>2, <2>2, <3>3, <4>1 DEF OneTimer
      <4> QED
        BY <3>1, <3>3, <4>1, <4>2
    <3> QED
      BY <1>3, <3>1, <3>2, <3>3
  <2> QED
    BY <1>2, <2>1, <2>2 DEF OneTimer
<1>6. \A i \in Id : used'[i] # Nil => used[i] # Nil
  BY <1>3
<1> QED
  BY <1>2, <1>4, <1>5, <1>6, PlacesSame

\* Time passes.
LEMMA PassIInv ==
  ASSUME IInv, Pass
  PROVE  IInv'
<1>1. TypeOK /\ OneTimer
  BY DEF IInv, IdOnePlace
<1>2. /\ clock < MaxTime /\ clock' = clock + 1
      /\ UNCHANGED <<wheel, handles, execute, reuse, dispatchId, used, name2Id, released, repeated>>
  BY DEF Pass
<1>3. TypeOK'
  <2>1. clock \in 0..MaxTime /\ MaxTime \in Nat
    BY <1>1, TypeFacts DEF TypeOK
  <2>2. clock' \in 0..MaxTime /\ 0..clock \subseteq 0..clock'
    BY <1>2, <2>1
  <2>3. wheel' \in [curr : 0..clock', list : [Slot -> Seq([id : Id, time : 0..Span - 1])]]
    BY <1>1, <1>2, <2>2 DEF TypeOK
  <2> QED
    BY <1>1, <1>2, <2>2, <2>3 DEF TypeOK
<1>4. OneTimer'
  BY <1>1, <1>2 DEF OneTimer
<1> QED
  BY <1>2, <1>3, <1>4, PlacesSame

\* The driver ends when it has dealt with all handles.
LEMMA DriverEndIInv ==
  ASSUME IInv, DriverEnd
  PROVE  IInv'
<1>1. UNCHANGED <<clock, wheel, handles, reuse, dispatchId, used, name2Id, released, repeated>>
      /\ handles = <<>> /\ execute' = FALSE
  BY DEF DriverEnd
<1>2. TypeOK' /\ OneTimer'
  BY <1>1 DEF IInv, IdOnePlace, TypeOK, OneTimer
<1>3. IdOnePlace'
  BY <1>1, <1>2 DEF IInv, IdOnePlace
<1> QED
  BY <1>1, <1>2, <1>3 DEF IInv

\* A list is as it was where neither queue changed.
LEMMA SameElsewhere ==
  ASSUME NEW r, NEW h, NEW g, NEW k, NEW w, NEW q,
         q # Reuse \/ r = g, q # Handles \/ h = k
  PROVE  \A j, y : At(ListsOf(r, h, w), q, j, y) <=> At(ListsOf(g, k, w), q, j, y)
<1>1. DOMAIN ListsOf(r, h, w) = Place /\ DOMAIN ListsOf(g, k, w) = Place
  BY DEF ListsOf
<1>2. q \in Place => ListsOf(r, h, w)[q] = ListsOf(g, k, w)[q]
  BY DEF ListsOf, Reuse, Handles
<1> QED
  BY <1>1, <1>2 DEF At

\* The driver takes what is due out of the wheel.
LEMMA DriverFuncIInv ==
  ASSUME IInv, DriverFunc
  PROVE  IInv'
<1> DEFINE run == Update(wheel, clock)
<1>1. TypeOK /\ OneTimer /\ handles = <<>>
  BY DEF IInv, IdOnePlace, DriverFunc
<1>2. /\ wheel' = run.wheel /\ handles' = Ids(run.popped) /\ execute' = TRUE
      /\ UNCHANGED <<clock, reuse, dispatchId, used, name2Id, released, repeated>>
  BY DEF DriverFunc
<1>3. /\ wheel \in Wheels /\ clock \in 0..Span - 1 /\ wheel.curr <= clock /\ reuse \in Seq(Id)
      /\ clock \in Nat
  BY <1>1, TypeFacts
<1>4. Once(ListsOf(reuse, <<>>, wheel)) /\ Held(ListsOf(reuse, <<>>, wheel)) = 1..dispatchId
  BY <1>1 DEF IInv, IdOnePlace
<1>5. /\ run \in Runs /\ run.wheel.curr = clock
      /\ Once(ListsOf(reuse, Ids(run.popped), run.wheel))
      /\ Held(ListsOf(reuse, Ids(run.popped), run.wheel)) = 1..dispatchId
  BY <1>3, <1>4, UpdateFacts
<1> HIDE DEF run
<1>6. TypeOK'
  <2>1. handles' \in Seq(Id)
    BY <1>2, <1>5, IdsFacts DEF Runs
  <2>2. wheel' \in [curr : 0..clock, list : [Slot -> Seq(Node)]]
    <3>1. wheel' \in Wheels /\ wheel'.curr = clock
      BY <1>2, <1>5 DEF Runs
    <3> HIDE DEF Node
    <3> QED
      BY <1>3, <3>1 DEF Wheels
  <2>3. wheel' \in [curr : 0..clock', list : [Slot -> Seq([id : Id, time : 0..Span - 1])]]
    BY <1>2, <2>2 DEF Node
  <2> QED
    BY <1>1, <1>2, <2>1, <2>3 DEF TypeOK
<1>7. OneTimer'
  BY <1>1, <1>2 DEF OneTimer
<1>8. IdOnePlace'
  BY <1>2, <1>5, <1>6 DEF IInv, IdOnePlace
<1> QED
  BY <1>2, <1>7, <1>8 DEF IInv

\* A handle is dealt with: its id goes behind those to be used again.
LEMMA ProxyFuncIInv ==
  ASSUME IInv, ProxyFunc
  PROVE  IInv'
<1> DEFINE id == Head(handles)
           n == used[id]
           L == ListsOf(reuse, handles, wheel)
           K == ListsOf(reuse, Tail(handles), wheel)
           M == ListsOf(Append(reuse, id), Tail(handles), wheel)
<1>1. TypeOK /\ OneTimer
  BY DEF IInv, IdOnePlace
<1>2. /\ wheel \in Wheels /\ reuse \in Seq(Id) /\ handles \in Seq(Id)
      /\ dispatchId \in 0..MaxId /\ MaxId \in Nat
  BY <1>1, TypeFacts
<1>3. /\ execute /\ handles # <<>>
      /\ reuse' = Append(reuse, id)
      /\ used' = [used EXCEPT ![id] = Nil]
      /\ name2Id' = IF n = Nil THEN name2Id ELSE [name2Id EXCEPT ![n] = 0]
      /\ handles' = Tail(handles)
      /\ UNCHANGED <<clock, wheel, execute, dispatchId, released, repeated>>
  BY DEF ProxyFunc
<1>4. Tail(handles) \in Seq(Id) /\ id \in Id
  BY <1>2, <1>3, HeadTailProperties
<1>5. Append(reuse, id) \in Seq(Id)
  BY <1>2, <1>4
<1>6. /\ \A j, y : In(Tail(handles), j, y) <=> j \in Int /\ In(handles, j + 1, y) /\ j + 1 \notin {1}
      /\ In(handles, 1, id)
  BY <1>2, <1>3, InTail
<1>7. \A j, y : In(Append(reuse, id), j, y) <=> In(reuse, j, y) \/ (j = Len(reuse) + 1 /\ y = id)
  BY <1>2, <1>4, InAppend
<1> HIDE DEF id
<1>8. Once(L) /\ Held(L) = 1..dispatchId
  BY DEF IInv, IdOnePlace
<1>9. Indexed(L)
  BY <1>2, IndexInt DEF Indexed
<1>10. TakenFrom(L, K, Handles, 1, {1})
  <2>1. \A q, j, y : q # Handles => (At(K, q, j, y) <=> At(L, q, j, y))
    BY SameElsewhere
  <2>2. \A j, y : (At(K, Handles, j, y) <=> In(Tail(handles), j, y)) /\ (At(L, Handles, j, y) <=> In(handles, j, y))
    BY <1>2, <1>4, ListsFacts
  <2> HIDE DEF L, K
  <2> QED
    BY <1>6, <2>1, <2>2 DEF TakenFrom
<1>11. At(L, Handles, 1, id)
  BY <1>2, <1>6, ListsFacts
<1>12. Added(K, M, Reuse, Len(reuse) + 1, id)
  <2>1. \A q, j, y : q # Reuse => (At(M, q, j, y) <=> At(K, q, j, y))
    BY SameElsewhere
  <2>2. \A j, y : (At(M, Reuse, j, y) <=> In(Append(reuse, id), j, y)) /\ (At(K, Reuse, j, y) <=> In(reuse, j, y))
    BY <1>2, <1>4, <1>5, ListsFacts
  <2> HIDE DEF M, K
  <2> QED
    BY <1>7, <2>1, <2>2 DEF Added
<1>13. Once(M) /\ Held(M) = Held(K) \cup {id} /\ \A y : y \in Held(K) <=> y \in Held(L) /\ y # id
  <2> HIDE DEF L, K, M
  <2>1. Once(K) /\ \A y : y \in Held(K) <=> y \in Held(L) /\ ~\E j \in {1} : At(L, Handles, j, y)
    <3>1. 1 \in Int
      OBVIOUS
    <3>2. Indexed(L) /\ Once(L) /\ TakenFrom(L, K, Handles, 1, {1})
      BY <1>8, <1>9, <1>10
    <3> QED
      BY <3>1, <3>2, Taken
  <2>2. \A y : At(L, Handles, 1, y) <=> y = id
    <3>1. \A y : At(L, Handles, 1, y) /\ At(L, Handles, 1, id) => y = id
      BY DEF At, In
    <3> QED
      BY <1>11, <3>1
  <2>3. \A y : y \in Held(K) <=> y \in Held(L) /\ y # id
    BY <2>1, <2>2
  <2>4. Once(M) /\ Held(M) = Held(K) \cup {id}
    BY <1>12, <2>1, <2>3, PutNew
  <2> QED
    BY <2>3, <2>4
<1>14. id \in Held(L)
  <2> HIDE DEF L
  <2> QED
    BY <1>11, HeldFacts
<1>15. Once(M) /\ Held(M) = 1..dispatchId
  <2> HIDE DEF L, K, M
  <2> QED
    BY <1>8, <1>13, <1>14
<1> HIDE DEF L, K
<1>16. /\ \A i \in Id : used'[i] = IF i = id THEN Nil ELSE used[i]
       /\ \A m \in Name : name2Id'[m] = IF m = n THEN 0 ELSE name2Id[m]
  <2>1. used \in [Id -> Name \cup {Nil}] /\ name2Id \in [Name -> 0..dispatchId]
    BY <1>1 DEF TypeOK
  <2> QED
    BY <1>3, <2>1, NameFacts
<1>17. TypeOK'
  <2>1. used' \in [Id -> Name \cup {Nil}]
    BY <1>1, <1>3 DEF TypeOK
  <2>2. name2Id' \in [Name -> 0..dispatchId]
    <3>1. name2Id \in [Name -> 0..dispatchId] /\ 0 \in 0..dispatchId
      BY <1>1, <1>2 DEF TypeOK
    <3> QED
      BY <1>3, <3>1
  <2> QED
    BY <1>1, <1>3, <1>4, <1>5, <2>1, <2>2 DEF TypeOK
<1>18. OneTimer'
  <2>1. ASSUME NEW m \in Name \ repeated, NEW i \in Id, used'[i] = m
        PROVE  m[1] \notin released /\ name2Id'[m] = i
    <3>1. used[i] = m /\ i # id
      BY <1>16, <2>1, NameFacts
    <3>2. m[1] \notin released /\ name2Id[m] = i
      BY <1>1, <3>1 DEF OneTimer
    <3>3. m # n
      BY <1>1, <1>4, <2>1, <3>1, <3>2 DEF OneTimer
    <3> QED
      BY <1>16, <3>2, <3>3
  <2>2. ASSUME NEW m \in Name, m[1] \notin released, name2Id'[m] # 0
        PROVE  used'[name2Id'[m]] = m
    <3>1. m # n /\ name2Id'[m] = name2Id[m]
      BY <1>16, <2>2
    <3>2. used[name2Id[m]] = m
      BY <1>1, <2>2, <3>1 DEF OneTimer
    <3>3. name2Id[m] \in Id /\ name2Id[m] # id
      BY <1>1, <2>2, <3>1, <3>2, KeyIds
    <3> QED
      BY <1>16, <3>1, <3>2, <3>3
  <2> QED
    BY <1>3, <2>1, <2>2 DEF OneTimer
<1>19. ASSUME NEW i \in Id, used'[i] # Nil
       PROVE  i \notin ToSet(reuse') /\ i <= dispatchId
  <2>1. i # id /\ used[i] # Nil
    BY <1>16, <1>19
  <2>2. i \notin ToSet(reuse) /\ i <= dispatchId
    BY <2>1 DEF IInv, IdOnePlace
  <2>3. \A j : ~In(Append(reuse, id), j, i)
    BY <1>7, <2>1, <2>2, ToSetFacts
  <2> QED
    BY <1>3, <2>2, <2>3, ToSetFacts
<1>20. Once(ListsOf(reuse', handles', wheel')) /\ Held(ListsOf(reuse', handles', wheel')) = 1..dispatchId'
  BY <1>3, <1>15
<1>21. IdOnePlace'
  BY <1>17, <1>19, <1>20 DEF IdOnePlace
<1> QED
  BY <1>3, <1>18, <1>19, <1>21 DEF IInv

\* The id that a callback gets is in no place and nobody's, whether it is used
\* again or new.
LEMMA FreshId ==
  ASSUME IInv, NEW n \in Name, NEW d \in 1..MaxDelay, AddCallback(n, d)
  PROVE  \E id \in Id :
           /\ used' = [used EXCEPT ![id] = n]
           /\ wheel' = AddTime(wheel, id, d)
           /\ name2Id' = [name2Id EXCEPT ![n] = id]
           /\ used[id] = Nil
           /\ id \in 1..dispatchId' /\ dispatchId' \in dispatchId..MaxId
           /\ reuse' \in Seq(Id) /\ \A y : y \in ToSet(reuse') => y \in ToSet(reuse)
           /\ Once(ListsOf(reuse', handles, wheel))
           /\ id \notin Held(ListsOf(reuse', handles, wheel))
           /\ Held(ListsOf(reuse', handles, wheel)) \cup {id} = 1..dispatchId'
<1> DEFINE id == IF reuse # <<>> THEN Last(reuse) ELSE dispatchId + 1
           L == ListsOf(reuse, handles, wheel)
           K == ListsOf(reuse', handles, wheel)
<1>1. /\ used' = [used EXCEPT ![id] = n]
      /\ wheel' = AddTime(wheel, id, d)
      /\ name2Id' = [name2Id EXCEPT ![n] = id]
      /\ id <= MaxId
      /\ reuse' = IF reuse # <<>> THEN Front(reuse) ELSE reuse
      /\ dispatchId' = IF reuse # <<>> THEN dispatchId ELSE dispatchId + 1
  BY DEF AddCallback
<1>2. TypeOK /\ Once(L) /\ Held(L) = 1..dispatchId
  BY DEF IInv, IdOnePlace
<1>3. /\ wheel \in Wheels /\ reuse \in Seq(Id) /\ handles \in Seq(Id)
      /\ dispatchId \in 0..MaxId /\ MaxId \in Nat
  BY <1>2, TypeFacts
<1>4. CASE reuse # <<>>
  <2>1. id = Last(reuse) /\ reuse' = Front(reuse) /\ dispatchId' = dispatchId
    BY <1>1, <1>4
  <2> HIDE DEF id
  <2>2. /\ \A j, y : In(reuse', j, y) <=> j \in Int /\ In(reuse, j + 0, y) /\ j + 0 \notin {Len(reuse)}
        /\ In(reuse, Len(reuse), id)
        /\ reuse' \in Seq(Id) /\ id \in Id
    BY <1>3, <1>4, <2>1, InFront
  <2>3. /\ \A j, y : At(L, Reuse, j, y) <=> In(reuse, j, y)
        /\ \A j, y : At(K, Reuse, j, y) <=> In(reuse', j, y)
    BY <1>3, <2>2, ListsFacts
  <2>4. \A q, j, y : q # Reuse => (At(K, q, j, y) <=> At(L, q, j, y))
    BY SameElsewhere
  <2>5. Indexed(L)
    BY <1>3, IndexInt DEF Indexed
  <2>6. Len(reuse) \in Int
    BY <1>3
  <2> DEFINE len == Len(reuse)
  <2> HIDE DEF L, K, len
  <2>7. TakenFrom(L, K, Reuse, 0, {len})
    BY <2>2, <2>3, <2>4 DEF TakenFrom, len
  <2>8. Once(K) /\ \A y : y \in Held(K) <=> y \in Held(L) /\ ~\E j \in {len} : At(L, Reuse, j, y)
    <3>1. 0 \in Int
      OBVIOUS
    <3> QED
      BY <1>2, <2>5, <2>7, <3>1, Taken
  <2>9. \A y : At(L, Reuse, len, y) <=> y = id
    <3>1. At(L, Reuse, len, id)
      BY <2>2, <2>3 DEF len
    <3>2. \A y : At(L, Reuse, len, y) /\ At(L, Reuse, len, id) => y = id
      BY DEF At, In
    <3> QED
      BY <3>1, <3>2
  <2>10. id \in Held(L)
    <3>1. At(L, Reuse, len, id)
      BY <2>9
    <3> QED
      BY <3>1, HeldFacts
  <2>11. id \notin Held(K) /\ Held(K) \cup {id} = 1..dispatchId'
    BY <1>2, <2>1, <2>8, <2>9, <2>10
  <2>12. id \in ToSet(reuse)
    BY <2>2, ToSetFacts
  <2>13. used[id] = Nil
    BY <2>2, <2>12 DEF IInv, IdOnePlace
  <2>14. \A y : y \in ToSet(reuse') => y \in ToSet(reuse)
    BY <2>2, ToSetFacts
  <2>15. id \in 1..dispatchId' /\ dispatchId' \in dispatchId..MaxId
    BY <1>2, <1>3, <2>1, <2>10
  <2>16. /\ used' = [used EXCEPT ![id] = n]
         /\ wheel' = AddTime(wheel, id, d)
         /\ name2Id' = [name2Id EXCEPT ![n] = id]
    BY <1>1 DEF id
  <2> QED
    BY <2>2, <2>8, <2>11, <2>13, <2>14, <2>15, <2>16 DEF K
<1>5. CASE reuse = <<>>
  <2>1. id = dispatchId + 1 /\ reuse' = reuse /\ dispatchId' = dispatchId + 1
    BY <1>1, <1>5
  <2>2. /\ used' = [used EXCEPT ![id] = n]
        /\ wheel' = AddTime(wheel, id, d)
        /\ name2Id' = [name2Id EXCEPT ![n] = id]
        /\ id <= MaxId
    BY <1>1
  <2> HIDE DEF id
  <2>3. id \in Id /\ id \in 1..dispatchId' /\ dispatchId' \in dispatchId..MaxId
    BY <1>3, <2>1, <2>2 DEF Id
  <2>4. used[id] = Nil
    <3>1. ~(id <= dispatchId)
      BY <1>3, <2>1
    <3> QED
      BY <2>3, <3>1 DEF IInv
  <2>5. K = L
    BY <2>1
  <2> HIDE DEF K, L
  <2>6. Once(K) /\ id \notin Held(K) /\ Held(K) \cup {id} = 1..dispatchId'
    <3>1. id \notin 1..dispatchId /\ (1..dispatchId) \cup {id} = 1..dispatchId'
      BY <1>3, <2>1
    <3> QED
      BY <1>2, <2>5, <3>1
  <2>7. reuse' \in Seq(Id) /\ \A y : y \in ToSet(reuse') => y \in ToSet(reuse)
    BY <1>3, <2>1
  <2> QED
    BY <2>2, <2>3, <2>4, <2>6, <2>7 DEF K
<1> QED
  BY <1>4, <1>5

\* A callback is added: its id goes into the wheel.
LEMMA AddCallbackIInv ==
  ASSUME IInv, NEW n \in Name, NEW d \in 1..MaxDelay, AddCallback(n, d)
  PROVE  IInv'
<1>1. PICK id \in Id :
        /\ used' = [used EXCEPT ![id] = n]
        /\ wheel' = AddTime(wheel, id, d)
        /\ name2Id' = [name2Id EXCEPT ![n] = id]
        /\ used[id] = Nil
        /\ id \in 1..dispatchId' /\ dispatchId' \in dispatchId..MaxId
        /\ reuse' \in Seq(Id) /\ \A y : y \in ToSet(reuse') => y \in ToSet(reuse)
        /\ Once(ListsOf(reuse', handles, wheel))
        /\ id \notin Held(ListsOf(reuse', handles, wheel))
        /\ Held(ListsOf(reuse', handles, wheel)) \cup {id} = 1..dispatchId'
  BY FreshId
<1>2. /\ n[1] \notin released
      /\ repeated' = IF GetCallback(name2Id[n]) # Nil THEN repeated \cup {n} ELSE repeated
      /\ UNCHANGED <<clock, handles, execute, released>>
  BY DEF AddCallback
<1>3. TypeOK /\ OneTimer
  BY DEF IInv, IdOnePlace
<1>4. /\ wheel \in Wheels /\ wheel.curr <= clock /\ clock \in 0..Span - 1 /\ Span \in Nat
      /\ handles \in Seq(Id) /\ dispatchId \in 0..MaxId /\ MaxId \in Nat
  BY <1>3, TypeFacts
<1> DEFINE node == [id |-> id, time |-> (wheel.curr + d) % Span]
           L == ListsOf(reuse', handles, wheel)
           M == ListsOf(reuse', handles, wheel')
<1>5. node \in Node /\ node.id = id
  <2>1. wheel.curr \in Nat /\ d \in Nat /\ Span \in Nat \ {0}
    BY <1>4, ServiceTimerAssumption DEF Wheels
  <2>2. (wheel.curr + d) % Span \in 0..Span - 1
    BY <2>1
  <2> QED
    BY <2>2 DEF Node
<1>6. wheel' = AddNode(wheel, node)
  BY <1>1 DEF AddTime
<1> HIDE DEF node
<1>7. wheel' \in Wheels /\ wheel'.curr = wheel.curr /\ Once(M) /\ Held(M) = 1..dispatchId'
  <2> DEFINE r == reuse'
             h == handles
             w == wheel
             v == AddNode(wheel, node)
  <2>1. /\ r \in Seq(Id) /\ h \in Seq(Id) /\ w \in Wheels /\ node \in Node
        /\ Once(ListsOf(r, h, w)) /\ node.id \notin Held(ListsOf(r, h, w))
    BY <1>1, <1>4, <1>5
  <2>2. /\ v \in Wheels /\ v.curr = w.curr /\ Once(ListsOf(r, h, v))
        /\ Held(ListsOf(r, h, v)) = Held(ListsOf(r, h, w)) \cup {node.id}
    <3> HIDE DEF r, h, w
    <3>1. /\ AddNode(w, node) \in Wheels /\ AddNode(w, node).curr = w.curr
          /\ Once(ListsOf(r, h, AddNode(w, node)))
          /\ Held(ListsOf(r, h, AddNode(w, node))) = Held(ListsOf(r, h, w)) \cup {node.id}
      BY <2>1, AddNodeFacts
    <3> QED
      BY <3>1 DEF w
  <2>3. ListsOf(r, h, w) = L /\ ListsOf(r, h, v) = M /\ v = wheel'
    BY <1>6
  <2> HIDE DEF L, M, v, r, h
  <2> QED
    BY <1>1, <1>5, <2>2, <2>3 DEF L
<1>8. /\ \A i \in Id : used'[i] = IF i = id THEN n ELSE used[i]
      /\ \A m \in Name : name2Id'[m] = IF m = n THEN id ELSE name2Id[m]
  <2>1. used \in [Id -> Name \cup {Nil}] /\ name2Id \in [Name -> 0..dispatchId]
    BY <1>3 DEF TypeOK
  <2> QED
    BY <1>1, <2>1
<1>9. TypeOK'
  <2>1. used' \in [Id -> Name \cup {Nil}]
    BY <1>1, <1>3 DEF TypeOK
  <2>2. name2Id' \in [Name -> 0..dispatchId']
    <3>1. name2Id \in [Name -> 0..dispatchId]
      BY <1>3 DEF TypeOK
    <3>2. 0..dispatchId \subseteq 0..dispatchId' /\ id \in 0..dispatchId'
      BY <1>1, <1>4
    <3>3. name2Id \in [Name -> 0..dispatchId']
      BY <3>1, <3>2
    <3> QED
      BY <1>1, <3>2, <3>3
  <2>3. wheel' \in [curr : 0..clock, list : [Slot -> Seq(Node)]]
    <3>1. wheel'.curr \in 0..clock
      BY <1>4, <1>7 DEF Wheels
    <3> HIDE DEF Node
    <3> QED
      BY <1>7, <3>1 DEF Wheels
  <2>4. wheel' \in [curr : 0..clock', list : [Slot -> Seq([id : Id, time : 0..Span - 1])]]
    BY <1>2, <2>3 DEF Node
  <2>5. dispatchId' \in 0..MaxId
    BY <1>1, <1>4
  <2>6. repeated' \subseteq Name
    BY <1>2, <1>3 DEF TypeOK
  <2> QED
    BY <1>1, <1>2, <1>3, <2>1, <2>2, <2>4, <2>5, <2>6 DEF TypeOK
<1>10. OneTimer'
  <2>1. ASSUME NEW m \in Name \ repeated', NEW i \in Id, used'[i] = m
        PROVE  m[1] \notin released /\ name2Id'[m] = i
    <3>1. CASE i = id
      BY <1>2, <1>8, <2>1, <3>1
    <3>2. CASE i # id
      <4>1. used[i] = m /\ m \notin repeated
        BY <1>2, <1>8, <2>1, <3>2
      <4>2. m[1] \notin released /\ name2Id[m] = i
        BY <1>3, <4>1 DEF OneTimer
      <4>3. i # 0
        BY DEF Id
      <4>4. m # n
        BY <1>2, <2>1, <4>1, <4>2, <4>3, NameFacts DEF GetCallback
      <4> QED
        BY <1>8, <4>2, <4>4
    <3> QED
      BY <3>1, <3>2
  <2>2. ASSUME NEW m \in Name, m[1] \notin released, name2Id'[m] # 0
        PROVE  used'[name2Id'[m]] = m
    <3>1. CASE m = n
      BY <1>8, <3>1
    <3>2. CASE m # n
      <4>1. name2Id'[m] = name2Id[m]
        BY <1>8, <3>2
      <4>2. used[name2Id[m]] = m /\ name2Id[m] \in Id
        BY <1>3, <2>2, <4>1, KeyIds DEF OneTimer
      <4>3. name2Id[m] # id
        BY <1>1, <4>2, NameFacts
      <4> QED
        BY <1>8, <4>1, <4>2, <4>3
    <3> QED
      BY <3>1, <3>2
  <2> QED
    BY <1>2, <2>1, <2>2 DEF OneTimer
<1>11. ASSUME NEW i \in Id, used'[i] # Nil
       PROVE  i \notin ToSet(reuse') /\ i <= dispatchId'
  <2>1. CASE i = id
    <3>1. id <= dispatchId'
      BY <1>1, <1>4
    <3>2. id \notin ToSet(reuse')
      <4>1. \A j, y : At(L, Reuse, j, y) <=> In(reuse', j, y)
        BY <1>1, <1>4, ListsFacts
      <4>2. id \notin Held(L)
        BY <1>1
      <4> HIDE DEF L
      <4> QED
        BY <4>1, <4>2, HeldFacts, ToSetFacts
    <3> QED
      BY <2>1, <3>1, <3>2
  <2>2. CASE i # id
    <3>1. used[i] # Nil
      BY <1>8, <1>11, <2>2
    <3>2. i \notin ToSet(reuse) /\ i <= dispatchId
      BY <3>1 DEF IInv, IdOnePlace
    <3> QED
      BY <1>1, <1>4, <3>2 DEF Id
  <2> QED
    BY <2>1, <2>2
<1>12. Once(ListsOf(reuse', handles', wheel')) /\ Held(ListsOf(reuse', handles', wheel')) = 1..dispatchId'
  BY <1>2, <1>7
<1>13. IdOnePlace'
  BY <1>9, <1>11, <1>12 DEF IdOnePlace
<1>14. ~execute' => handles' = <<>>
  BY <1>2 DEF IInv
<1> QED
  BY <1>10, <1>11, <1>13, <1>14 DEF IInv

\* Nothing changes in a step of the rest of the system.
LEMMA StutterIInv ==
  ASSUME IInv, UNCHANGED vars
  PROVE  IInv'
<1>1. UNCHANGED <<clock, wheel, handles, execute, reuse, dispatchId, used, name2Id, released, repeated>>
  BY DEF vars
<1>2. TypeOK' /\ OneTimer'
  BY <1>1 DEF IInv, IdOnePlace, TypeOK, OneTimer
<1> QED
  BY <1>1, <1>2, PlacesSame

\* IInv is inductive.
LEMMA NextIInv ==
  IInv /\ [Next]_vars => IInv'
<1> SUFFICES ASSUME IInv, [Next]_vars
             PROVE  IInv'
  OBVIOUS
<1>1. CASE \E n \in Name, d \in 1..MaxDelay : AddCallback(n, d)
  BY <1>1, AddCallbackIInv
<1>2. CASE \E n \in Name : DelCallback(n)
  BY <1>2, DelCallbackIInv
<1>3. CASE \E o \in Timer : Release(o)
  BY <1>3, ReleaseIInv
<1>4. CASE DriverFunc
  BY <1>4, DriverFuncIInv
<1>5. CASE ProxyFunc
  BY <1>5, ProxyFuncIInv
<1>6. CASE DriverEnd
  BY <1>6, DriverEndIInv
<1>7. CASE Pass
  BY <1>7, PassIInv
<1>8. CASE UNCHANGED vars
  BY <1>8, StutterIInv
<1> QED
  BY <1>1, <1>2, <1>3, <1>4, <1>5, <1>6, <1>7, <1>8 DEF Next

\* In every state ids are in one place, keys and callbacks go together, the
\* driver has no handles left when it is not running, and only ids that were
\* given out are somebody's.
THEOREM Invariance == Spec => []IInv
<1>1. Init => IInv
  BY InitIInv
<1>2. IInv /\ [Next]_vars => IInv'
  BY NextIInv
<1> QED
  BY <1>1, <1>2, PTL DEF Spec

\* No id is lost and none is in two places, through all levels of the wheel: a
\* callback is neither forgotten nor called for the one that had its id before.
THEOREM IdInOnePlace == Spec => []IdOnePlace
<1>1. IInv => IdOnePlace
  BY DEF IInv
<1> QED
  BY <1>1, Invariance, PTL

\* A callback that waits is the one its key leads to, and its object has not
\* been released: nothing deleted is called, and what waits can be deleted.
THEOREM KeyLeadsToTimer == Spec => []OneTimer
<1>1. IInv => OneTimer
  BY DEF IInv
<1> QED
  BY <1>1, Invariance, PTL

-----------------------------------------------------------------------------
(***************************************************************************)
(* What is due.                                                            *)
(***************************************************************************)

\* The ids of time t among the first n nodes, for each n.
IsIdsRun(f, nodes, t) ==
  /\ f[0] = <<>>
  /\ \A n \in 1..Len(nodes) :
       f[n] = IF nodes[n].time = t THEN Append(f[n - 1], nodes[n].id) ELSE f[n - 1]
LEMMA IdsRunExists ==
  ASSUME NEW nodes \in Seq(Node), NEW t
  PROVE  \E f : /\ f \in [0..Len(nodes) -> Seq(Id)] /\ IsIdsRun(f, nodes, t)
                /\ IdsOf(nodes, t) = f[Len(nodes)]
<1> DEFINE N == Len(nodes)
           S == Seq(Id)
           step == [n \in 1..N |-> [x \in S |-> IF nodes[n].time = t THEN Append(x, nodes[n].id) ELSE x]]
           of == CHOOSE g : g = [n \in 0..N |->
                   IF n = 0 THEN <<>>
                   ELSE IF nodes[n].time = t THEN Append(g[n - 1], nodes[n].id) ELSE g[n - 1]]
<1>1. N \in Nat /\ \A n \in 1..N : nodes[n].id \in Id
  <2>1. N \in Nat /\ \A n \in 1..N : nodes[n] \in Node
    BY LenProperties, ElementOfSeq
  <2> QED
    BY <2>1 DEF Node
<1>2. \A x \in S, n \in 1..N : (IF nodes[n].time = t THEN Append(x, nodes[n].id) ELSE x) \in S
  BY <1>1
<1>3. step \in Steps(N, S) /\ <<>> \in S
  BY <1>2 DEF Steps
<1>4. PICK f : IsRun(f, N, S, <<>>, step)
  <2> HIDE DEF N, S, step
  <2> QED
    BY <1>1, <1>3, StepsExist
<1>5. f = [n \in 0..N |->
             IF n = 0 THEN <<>>
             ELSE IF nodes[n].time = t THEN Append(f[n - 1], nodes[n].id) ELSE f[n - 1]]
  <2>1. \A n \in 1..N : f[n - 1] \in S
    BY <1>1, <1>4 DEF IsRun
  <2>2. \A n \in 1..N : f[n] = IF nodes[n].time = t THEN Append(f[n - 1], nodes[n].id) ELSE f[n - 1]
    <3> HIDE DEF S
    <3> QED
      BY <1>4, <2>1 DEF IsRun
  <2> HIDE DEF N, S, step
  <2>3. f \in [0..N -> S] /\ f[0] = <<>>
    BY <1>4 DEF IsRun
  <2>4. \A n \in 0..N : f[n] = IF n = 0 THEN <<>>
          ELSE IF nodes[n].time = t THEN Append(f[n - 1], nodes[n].id) ELSE f[n - 1]
    <3>1. \A n \in 0..N : n = 0 \/ (n # 0 /\ n \in 1..N)
      BY <1>1
    <3> QED
      BY <2>2, <2>3, <3>1, Zenon
  <2> QED
    BY <2>3, <2>4
<1>6. of = [n \in 0..N |->
              IF n = 0 THEN <<>>
              ELSE IF nodes[n].time = t THEN Append(of[n - 1], nodes[n].id) ELSE of[n - 1]]
  BY <1>5, Zenon
<1>7. IdsOf(nodes, t) = of[N]
  BY Zenon DEF IdsOf
<1> HIDE DEF N, of, S
<1>8. of[0] = <<>> /\ \A n \in 1..N :
        of[n] = IF nodes[n].time = t THEN Append(of[n - 1], nodes[n].id) ELSE of[n - 1]
  <2>1. 0 \in 0..N /\ \A n \in 1..N : n \in 0..N /\ n # 0
    BY <1>1
  <2>2. \A n \in 0..N : of[n] = IF n = 0 THEN <<>>
          ELSE IF nodes[n].time = t THEN Append(of[n - 1], nodes[n].id) ELSE of[n - 1]
    BY <1>6, Zenon
  <2> QED
    BY <2>1, <2>2, Zenon
<1>9. of \in [0..N -> S]
  <2> DEFINE I == {n \in 0..N : of[n] \in S}
  <2>1. 0 \in I
    BY <1>1, <1>3, <1>8
  <2>2. ASSUME NEW n \in 1..N, n - 1 \in I PROVE n \in I
    <3>1. of[n - 1] \in S
      BY <2>2
    <3>2. of[n] \in S
      BY <1>2, <1>8, <3>1
    <3> QED
      BY <1>1, <3>2
  <2> HIDE DEF I
  <2>3. \A n \in 0..N : n \in I
    BY <1>1, <2>1, <2>2, UpToInduction
  <2>4. \A n \in 0..N : of[n] \in S
    BY <2>3 DEF I
  <2>5. \E B : of = [n \in 0..N |-> B[n]]
    <3> DEFINE B == [n \in 0..N |-> IF n = 0 THEN <<>>
                      ELSE IF nodes[n].time = t THEN Append(of[n - 1], nodes[n].id) ELSE of[n - 1]]
    <3>1. of = B
      BY <1>6
    <3>2. B = [n \in 0..N |-> B[n]]
      OBVIOUS
    <3> HIDE DEF B
    <3> QED
      BY <3>1, <3>2
  <2> QED
    BY <2>4, <2>5
<1>10. IsIdsRun(of, nodes, t)
  BY <1>8 DEF IsIdsRun, N
<1> QED
  BY <1>7, <1>9, <1>10 DEF N, S

\* Whichever function counts so counts them.
LEMMA IdsOfIs ==
  ASSUME NEW nodes \in Seq(Node), NEW t, NEW f, IsIdsRun(f, nodes, t)
  PROVE  IdsOf(nodes, t) = f[Len(nodes)]
<1> DEFINE N == Len(nodes)
<1>1. PICK g : IsIdsRun(g, nodes, t) /\ IdsOf(nodes, t) = g[N]
  BY IdsRunExists
<1>2. N \in Nat
  BY LenProperties
<1>3. /\ f[0] = g[0]
      /\ \A n \in 1..N : f[n - 1] = g[n - 1] => f[n] = g[n]
  BY <1>1 DEF IsIdsRun
<1> DEFINE I == {n \in 0..N : f[n] = g[n]}
<1> HIDE DEF N
<1>4. 0 \in I /\ \A n \in 1..N : n - 1 \in I => n \in I
  BY <1>2, <1>3
<1>5. N \in I
  <2> HIDE DEF I
  <2>1. \A n \in 0..N : n \in I
    BY <1>2, <1>4, UpToInduction
  <2> QED
    BY <1>2, <2>1
<1> QED
  BY <1>1, <1>5 DEF N

\* A node more is one id more, if it is of the time.
LEMMA IdsOfAppend ==
  ASSUME NEW nodes \in Seq(Node), NEW node \in Node, NEW t
  PROVE  /\ IdsOf(nodes, t) \in Seq(Id)
         /\ IdsOf(Append(nodes, node), t) =
              IF node.time = t THEN Append(IdsOf(nodes, t), node.id) ELSE IdsOf(nodes, t)
<1> DEFINE more == Append(nodes, node)
           N == Len(nodes)
<1>1. /\ more \in Seq(Node) /\ Len(more) = N + 1 /\ N \in Nat
      /\ more[N + 1] = node /\ \A n \in 1..N : more[n] = nodes[n]
  BY LenProperties, AppendProperties
<1> HIDE DEF more
<1>2. PICK f : IsIdsRun(f, more, t) /\ IdsOf(more, t) = f[N + 1]
  BY <1>1, IdsRunExists
<1>3. /\ f[0] = <<>>
      /\ \A n \in 1..N + 1 : f[n] = IF more[n].time = t THEN Append(f[n - 1], more[n].id) ELSE f[n - 1]
  BY <1>1, <1>2 DEF IsIdsRun
<1>4. \A n \in 1..N : n \in 1..N + 1
  BY <1>1
<1>5. \A n \in 1..N : f[n] = IF nodes[n].time = t THEN Append(f[n - 1], nodes[n].id) ELSE f[n - 1]
  BY <1>1, <1>3, <1>4
<1>6. IsIdsRun(f, nodes, t)
  BY <1>3, <1>5 DEF IsIdsRun
<1>7. IdsOf(nodes, t) = f[N]
  BY <1>6, IdsOfIs
<1>8. f[N + 1] = IF node.time = t THEN Append(f[N], node.id) ELSE f[N]
  <2>1. N + 1 \in 1..N + 1 /\ (N + 1) - 1 = N
    BY <1>1
  <2> QED
    BY <1>1, <1>3, <2>1
<1>9. IdsOf(nodes, t) \in Seq(Id)
  <2>1. PICK g : g \in [0..Len(nodes) -> Seq(Id)] /\ IdsOf(nodes, t) = g[Len(nodes)]
    BY IdsRunExists
  <2> QED
    BY <1>1, <2>1
<1> QED
  BY <1>2, <1>7, <1>8, <1>9 DEF more

\* No node of the time, no id; nodes of no other time, all ids.
LEMMA IdsOfNoneOrAll ==
  ASSUME NEW nodes \in Seq(Node), NEW t
  PROVE  /\ (\A k \in DOMAIN nodes : nodes[k].time # t) => IdsOf(nodes, t) = <<>>
         /\ (\A k \in DOMAIN nodes : nodes[k].time = t) => IdsOf(nodes, t) = Ids(nodes)
<1> DEFINE N == Len(nodes)
<1>1. N \in Nat /\ DOMAIN nodes = 1..N
  BY LenProperties
<1>2. ASSUME \A k \in DOMAIN nodes : nodes[k].time # t
      PROVE  IdsOf(nodes, t) = <<>>
  <2> DEFINE f == [n \in 0..N |-> <<>>]
  <2>1. IsIdsRun(f, nodes, t)
    BY <1>1, <1>2 DEF IsIdsRun
  <2>2. f[N] = <<>>
    BY <1>1
  <2> HIDE DEF f
  <2> QED
    BY <2>1, <2>2, IdsOfIs
<1>3. ASSUME \A k \in DOMAIN nodes : nodes[k].time = t
      PROVE  IdsOf(nodes, t) = Ids(nodes)
  <2> DEFINE f == [n \in 0..N |-> [k \in 1..n |-> nodes[k].id]]
  <2>1. ASSUME NEW n \in 1..N
        PROVE  f[n] = Append(f[n - 1], nodes[n].id)
    <3> DEFINE m == n - 1
               a == [k \in 1..m |-> nodes[k].id]
               x == nodes[n].id
    <3>1. m \in Nat /\ n = m + 1 /\ m \in 0..N /\ n \in 0..N
      BY <1>1
    <3>2. \A k \in 1..m : nodes[k].id \in Id
      <4>1. \A k \in 1..m : nodes[k] \in Node
        BY <1>1, <3>1, ElementOfSeq
      <4> QED
        BY <4>1 DEF Node
    <3>3. x \in Id
      <4>1. nodes[n] \in Node
        BY <1>1, ElementOfSeq
      <4> QED
        BY <4>1 DEF Node
    <3>4. a \in Seq(Id) /\ Len(a) = m
      <4>1. a \in [1..m -> Id]
        BY <3>2
      <4> HIDE DEF a, m
      <4> QED
        BY <3>1, <4>1, SeqDef, LenProperties
    <3>5. f[n] = [k \in 1..m + 1 |-> nodes[k].id] /\ f[m] = a
      BY <3>1
    <3>6. [k \in 1..m + 1 |-> nodes[k].id] = Append(a, x)
      <4> DEFINE b == [k \in 1..m + 1 |-> nodes[k].id]
      <4>1. b \in [1..m + 1 -> Id]
        BY <3>1, <3>2, <3>3
      <4>2. \A k \in 1..m : b[k] = a[k]
        BY <3>1
      <4>3. b[m + 1] = x
        BY <3>1
      <4> HIDE DEF a, b, m, x
      <4>4. b \in Seq(Id) /\ Len(b) = m + 1
        BY <3>1, <4>1, SeqDef, LenProperties
      <4>5. /\ Append(a, x) \in Seq(Id) /\ Len(Append(a, x)) = m + 1
            /\ \A k \in 1..m : Append(a, x)[k] = a[k]
            /\ Append(a, x)[m + 1] = x
        BY <3>3, <3>4, AppendProperties
      <4>6. \A k \in 1..m + 1 : b[k] = Append(a, x)[k]
        BY <3>1, <4>2, <4>3, <4>5
      <4>7. b = Append(a, x)
        BY <4>4, <4>5, <4>6, SeqEqual
      <4> QED
        BY <4>7 DEF b
    <3> HIDE DEF f, a
    <3> QED
      BY <3>5, <3>6
  <2>2. f[0] = <<>> /\ f[N] = Ids(nodes)
    BY <1>1 DEF Ids
  <2> HIDE DEF f
  <2>3. IsIdsRun(f, nodes, t)
    BY <1>1, <1>3, <2>1, <2>2 DEF IsIdsRun
  <2> QED
    BY <2>2, <2>3, IdsOfIs
<1> QED
  BY <1>2, <1>3

\* An id of a time is that of a node.
LEMMA IdsOfIn ==
  ASSUME NEW nodes \in Seq(Node), NEW t, NEW j \in DOMAIN IdsOf(nodes, t)
  PROVE  \E k \in DOMAIN nodes : IdsOf(nodes, t)[j] = nodes[k].id
<1> DEFINE N == Len(nodes)
<1>1. N \in Nat /\ DOMAIN nodes = 1..N
  BY LenProperties
<1>2. PICK f : f \in [0..N -> Seq(Id)] /\ IsIdsRun(f, nodes, t) /\ IdsOf(nodes, t) = f[N]
  BY IdsRunExists
<1> DEFINE Good(n) == \A i \in DOMAIN f[n] : \E k \in DOMAIN nodes : f[n][i] = nodes[k].id
           I == {n \in 0..N : Good(n)}
<1> HIDE DEF N
<1>3. 0 \in I
  BY <1>1, <1>2 DEF IsIdsRun
<1>4. ASSUME NEW n \in 1..N, n - 1 \in I PROVE n \in I
  <2> DEFINE a == f[n - 1]
             x == nodes[n].id
  <2>1. Good(n - 1) /\ n \in 0..N /\ n \in DOMAIN nodes
    BY <1>1, <1>4
  <2>2. f[n] = a \/ f[n] = Append(a, x)
    BY <1>2 DEF IsIdsRun, N
  <2>3. a \in Seq(Id) /\ x \in Id
    <3>1. n - 1 \in 0..N
      BY <1>1
    <3>2. nodes[n] \in Node
      BY ElementOfSeq DEF N
    <3> QED
      BY <1>2, <3>1, <3>2 DEF Node
  <2>4. \A i \in DOMAIN a : \E k \in DOMAIN nodes : a[i] = nodes[k].id
    BY <2>1
  <2> HIDE DEF a, x
  <2>5. \A i \in DOMAIN Append(a, x) : (i \in DOMAIN a /\ Append(a, x)[i] = a[i]) \/ Append(a, x)[i] = x
    BY <2>3
  <2>6. Good(n)
    <3> SUFFICES ASSUME NEW i \in DOMAIN f[n]
                 PROVE  \E k \in DOMAIN nodes : f[n][i] = nodes[k].id
      OBVIOUS
    <3>1. CASE f[n] = a
      BY <2>4, <3>1
    <3>2. CASE f[n] = Append(a, x)
      <4>1. (i \in DOMAIN a /\ f[n][i] = a[i]) \/ f[n][i] = nodes[n].id
        BY <2>5, <3>2 DEF x
      <4> QED
        BY <2>1, <2>4, <4>1
    <3> QED
      BY <2>2, <3>1, <3>2
  <2> QED
    BY <2>1, <2>6
<1>5. Good(N)
  <2>1. N \in I
    <3> HIDE DEF I
    <3>1. \A n \in 0..N : n \in I
      BY <1>1, <1>3, <1>4, UpToInduction
    <3> QED
      BY <1>1, <3>1
  <2> QED
    BY <2>1
<1> QED
  BY <1>2, <1>5

\* Nodes of a time no earlier than from wait where they are looked for.
Sorted(w, from) ==
  \A s \in Slot : \A j \in DOMAIN w.list[s] :
    from <= w.list[s][j].time /\ SlotOf(w.curr, w.list[s][j].time) = s

\* What is due are ids.
LEMMA DueIn ==
  ASSUME NEW w, w \in Wheels, NEW t \in 0..Span - 1
  PROVE  /\ SlotOf(w.curr, t) \in Slot /\ w.list[SlotOf(w.curr, t)] \in Seq(Node)
         /\ DueAt(w, t) \in Seq(Id)
<1> DEFINE nodes == w.list[SlotOf(w.curr, t)]
<1>1. w.curr \in 0..Span - 1 /\ w.list \in [Slot -> Seq(Node)]
  BY DEF Wheels
<1>2. SlotOf(w.curr, t) \in Slot
  BY <1>1, SlotOfIn
<1>3. nodes \in Seq(Node)
  BY <1>1, <1>2
<1>4. PICK f : f \in [0..Len(nodes) -> Seq(Id)] /\ DueAt(w, t) = f[Len(nodes)]
  BY <1>3, IdsRunExists DEF DueAt
<1>5. Len(nodes) \in Nat
  BY <1>3, LenProperties
<1> QED
  BY <1>2, <1>3, <1>4, <1>5

\* A node more is due at its time, after those that were.
LEMMA AddNodeDue ==
  ASSUME NEW w, w \in Wheels, NEW node \in Node
  PROVE  /\ \A from : Sorted(w, from) /\ from <= node.time => Sorted(AddNode(w, node), from)
         /\ \A t \in 0..Span - 1 :
              DueAt(AddNode(w, node), t) =
                IF node.time = t THEN Append(DueAt(w, t), node.id) ELSE DueAt(w, t)
<1> DEFINE s == SlotOf(w.curr, node.time)
           next == AddNode(w, node)
<1>1. s \in Slot
  BY AddNodeIn
<1>2. /\ next \in Wheels /\ next.curr = w.curr
      /\ next.list[s] = Append(w.list[s], node) /\ \A q \in Slot : q # s => next.list[q] = w.list[q]
      /\ w.list[s] \in Seq(Node)
  BY AddNodeIn
<1>3. w.curr \in 0..Span - 1 /\ \A q \in Slot : w.list[q] \in Seq(Node)
  BY DEF Wheels
<1>4. s = SlotOf(w.curr, node.time)
  OBVIOUS
<1> HIDE DEF next, s
<1>5. ASSUME NEW from, Sorted(w, from), from <= node.time
      PROVE  Sorted(next, from)
  <2> SUFFICES ASSUME NEW q \in Slot, NEW j \in DOMAIN next.list[q]
               PROVE  from <= next.list[q][j].time /\ SlotOf(w.curr, next.list[q][j].time) = q
    BY <1>2 DEF Sorted
  <2>1. \A k \in DOMAIN w.list[q] : from <= w.list[q][k].time /\ SlotOf(w.curr, w.list[q][k].time) = q
    BY <1>5 DEF Sorted
  <2>2. CASE q # s
    BY <1>2, <2>1, <2>2
  <2>3. CASE q = s
    <3> DEFINE a == w.list[s]
    <3>1. j \in DOMAIN Append(a, node) /\ a \in Seq(Node)
      BY <1>2, <2>3
    <3> HIDE DEF a
    <3>2. (j \in DOMAIN a /\ Append(a, node)[j] = a[j]) \/ Append(a, node)[j] = node
      BY <3>1
    <3>3. next.list[q] = Append(a, node) /\ w.list[q] = a
      BY <1>2, <2>3 DEF a
    <3>4. CASE j \in DOMAIN a /\ Append(a, node)[j] = a[j]
      BY <2>1, <3>3, <3>4
    <3>5. CASE Append(a, node)[j] = node
      BY <1>4, <1>5, <2>3, <3>3, <3>5
    <3> QED
      BY <3>2, <3>4, <3>5
  <2> QED
    BY <2>2, <2>3
<1>6. ASSUME NEW t \in 0..Span - 1
      PROVE  DueAt(next, t) = IF node.time = t THEN Append(DueAt(w, t), node.id) ELSE DueAt(w, t)
  <2> DEFINE q == SlotOf(w.curr, t)
  <2>1. q \in Slot
    BY DueIn
  <2>2. DueAt(w, t) = IdsOf(w.list[q], t) /\ DueAt(next, t) = IdsOf(next.list[q], t)
    BY <1>2 DEF DueAt
  <2>3. w.list[q] \in Seq(Node)
    BY <1>3, <2>1
  <2>4. IdsOf(Append(w.list[q], node), t) =
          IF node.time = t THEN Append(IdsOf(w.list[q], t), node.id) ELSE IdsOf(w.list[q], t)
    BY <2>3, IdsOfAppend
  <2>5. node.time = t => q = s
    BY <1>4
  <2> HIDE DEF q
  <2>6. CASE q = s
    <3>1. next.list[q] = Append(w.list[q], node)
      BY <1>2, <2>6
    <3> QED
      BY <2>2, <2>4, <3>1, Zenon
  <2>7. CASE q # s
    <3>1. next.list[q] = w.list[q] /\ node.time # t
      BY <1>2, <2>1, <2>5, <2>7
    <3> QED
      BY <2>2, <2>4, <3>1, Zenon
  <2> QED
    BY <2>6, <2>7
<1> QED
  BY <1>5, <1>6 DEF next

\* What follows in a list follows in it joined to another.
LEMMA AppendConcat ==
  ASSUME NEW a \in Seq(Id), NEW b \in Seq(Id), NEW x \in Id
  PROVE  /\ Append(a \o b, x) = a \o Append(b, x)
         /\ a \o <<>> = a /\ <<>> \o a = a
OBVIOUS

\* Nodes are due after those that were there, in their order.
LEMMA AddNodesDue ==
  ASSUME NEW w, w \in Wheels, NEW nodes \in Seq(Node)
  PROVE  /\ AddNodes(w, nodes) \in Wheels /\ AddNodes(w, nodes).curr = w.curr
         /\ \A from : Sorted(w, from) /\ (\A k \in DOMAIN nodes : from <= nodes[k].time)
                        => Sorted(AddNodes(w, nodes), from)
         /\ \A t \in 0..Span - 1 : DueAt(AddNodes(w, nodes), t) = DueAt(w, t) \o IdsOf(nodes, t)
<1> DEFINE N == Len(nodes)
<1>1. PICK f : /\ f[0] = w /\ \A n \in 1..N : f[n] = AddNode(f[n - 1], nodes[n])
               /\ AddNodes(w, nodes) = f[N]
               /\ \A n \in 0..N : f[n] \in Wheels /\ f[n].curr = w.curr
  BY AddNodesRun
<1>2. N \in Nat /\ DOMAIN nodes = 1..N /\ \A n \in 1..N : nodes[n] \in Node
  BY LenProperties, ElementOfSeq
<1>3. \A n \in 0..N : f[n] \in Wheels /\ f[n].curr = w.curr
  BY <1>1
<1> HIDE DEF N
<1>4. ASSUME NEW from, Sorted(w, from), \A k \in DOMAIN nodes : from <= nodes[k].time
      PROVE  Sorted(f[N], from)
  <2> DEFINE I == {n \in 0..N : Sorted(f[n], from)}
  <2>1. 0 \in I
    BY <1>1, <1>2, <1>4
  <2>2. ASSUME NEW n \in 1..N, n - 1 \in I PROVE n \in I
    <3>1. Sorted(f[n - 1], from)
      BY <2>2
    <3>2. n - 1 \in 0..N /\ n \in 0..N /\ nodes[n] \in Node /\ from <= nodes[n].time
      BY <1>2, <1>4
    <3>3. f[n - 1] \in Wheels
      BY <1>3, <3>2
    <3>4. Sorted(AddNode(f[n - 1], nodes[n]), from)
      BY <3>1, <3>2, <3>3, AddNodeDue
    <3> QED
      BY <1>1, <3>2, <3>4
  <2> HIDE DEF I
  <2>3. \A n \in 0..N : n \in I
    BY <1>2, <2>1, <2>2, UpToInduction
  <2>4. N \in I
    BY <1>2, <2>3
  <2> QED
    BY <2>4 DEF I
<1>5. ASSUME NEW t \in 0..Span - 1
      PROVE  DueAt(f[N], t) = DueAt(w, t) \o IdsOf(nodes, t)
  <2>1. PICK g : /\ g \in [0..N -> Seq(Id)] /\ IsIdsRun(g, nodes, t)
                 /\ IdsOf(nodes, t) = g[N]
    BY IdsRunExists DEF N
  <2>2. DueAt(w, t) \in Seq(Id)
    BY DueIn
  <2> DEFINE a == DueAt(w, t)
             I == {n \in 0..N : DueAt(f[n], t) = a \o g[n]}
  <2> HIDE DEF a
  <2>3. 0 \in I
    <3>1. g[0] = <<>> /\ a \o <<>> = a
      BY <2>1, <2>2, AppendConcat DEF IsIdsRun, a
    <3>2. DueAt(f[0], t) = a \o g[0]
      BY <1>1, <3>1, Zenon DEF a
    <3> QED
      BY <1>2, <3>2
  <2>4. ASSUME NEW n \in 1..N, n - 1 \in I PROVE n \in I
    <3>1. DueAt(f[n - 1], t) = a \o g[n - 1]
      BY <2>4
    <3>2. n - 1 \in 0..N /\ n \in 0..N /\ nodes[n] \in Node
      BY <1>2
    <3>3. nodes[n].id \in Id
      BY <3>2 DEF Node
    <3>4. f[n - 1] \in Wheels /\ g[n - 1] \in Seq(Id) /\ a \in Seq(Id)
      BY <1>3, <2>1, <2>2, <3>2 DEF a
    <3>5. DueAt(AddNode(f[n - 1], nodes[n]), t) =
            IF nodes[n].time = t THEN Append(DueAt(f[n - 1], t), nodes[n].id) ELSE DueAt(f[n - 1], t)
      BY <3>2, <3>4, AddNodeDue
    <3>6. g[n] = IF nodes[n].time = t THEN Append(g[n - 1], nodes[n].id) ELSE g[n - 1]
      BY <2>1 DEF IsIdsRun, N
    <3>7. f[n] = AddNode(f[n - 1], nodes[n])
      BY <1>1
    <3>8. Append(a \o g[n - 1], nodes[n].id) = a \o Append(g[n - 1], nodes[n].id)
      BY <3>3, <3>4, AppendConcat
    <3>9. DueAt(f[n], t) = a \o g[n]
      <4>1. CASE nodes[n].time = t
        BY <3>1, <3>5, <3>6, <3>7, <3>8, <4>1, Zenon
      <4>2. CASE nodes[n].time # t
        BY <3>1, <3>5, <3>6, <3>7, <4>2, Zenon
      <4> QED
        BY <4>1, <4>2
    <3> QED
      BY <3>2, <3>9
  <2>5. N \in I
    <3> HIDE DEF I
    <3>1. \A n \in 0..N : n \in I
      BY <1>2, <2>3, <2>4, UpToInduction
    <3> QED
      BY <1>2, <3>1
  <2> QED
    BY <2>1, <2>5 DEF a
<1> QED
  BY <1>1, <1>2, <1>3, <1>4, <1>5

\* A tick sorts a list in again and nothing that is due is out of its turn.
LEMMA ShiftDue ==
  ASSUME NEW w, w \in Wheels, w.curr + 1 < Span, Sorted(w, w.curr + 1)
  PROVE  /\ Shift(w) \in Wheels /\ Shift(w).curr = w.curr + 1
         /\ Sorted(Shift(w), w.curr + 1)
         /\ \A t \in w.curr + 1..Span - 1 : DueAt(Shift(w), t) = DueAt(w, t)
<1> DEFINE c == w.curr
           d == c + 1
           next == [w EXCEPT !.curr = (@ + 1) % Span]
           s == CHOOSE x \in Reached(d) : TRUE
           v == [next EXCEPT !.list[s] = <<>>]
           nodes == next.list[s]
           u == AddNodes(v, nodes)
<1>1. /\ c \in 0..Span - 1 /\ w.list \in [Slot -> Seq(Node)] /\ Span \in Nat \ {0}
      /\ c \in Nat /\ d \in Nat /\ d < Span /\ d \in 0..Span - 1
  BY SizeFacts, TimingWheelAssumption DEF Wheels, Span
<1>2. next \in Wheels /\ next.curr = d /\ next.list = w.list
  <2>1. (w.curr + 1) % Span = d
    BY <1>1, SmallMod
  <2> HIDE DEF c, d
  <2> QED
    BY <1>1, <2>1 DEF Wheels
<1>3. Shift(w) = IF Reached(next.curr) = {} THEN next
                 ELSE AddNodes([next EXCEPT !.list[CHOOSE x \in Reached(next.curr) : TRUE] = <<>>],
                               next.list[CHOOSE x \in Reached(next.curr) : TRUE])
  BY Zenon DEF Shift
<1>4. Shift(w) = IF Reached(d) = {} THEN next ELSE u
  BY <1>2, <1>3, Zenon
<1>5. ASSUME NEW t \in d..Span - 1
      PROVE  /\ t \in 0..Span - 1
             /\ Reached(d) = {} => SlotOf(d, t) = SlotOf(c, t)
             /\ \A x \in Reached(d) : SlotOf(c, t) # x => SlotOf(d, t) = SlotOf(c, t)
  BY <1>1, SlotStays
<1>6. \A q \in Slot : \A j \in DOMAIN w.list[q] :
        w.list[q][j].time \in d..Span - 1 /\ SlotOf(c, w.list[q][j].time) = q
  <2> SUFFICES ASSUME NEW q \in Slot, NEW j \in DOMAIN w.list[q]
               PROVE  w.list[q][j].time \in d..Span - 1 /\ SlotOf(c, w.list[q][j].time) = q
    OBVIOUS
  <2>1. w.list[q] \in Seq(Node)
    BY <1>1
  <2>2. w.list[q][j] \in Node
    BY <2>1, ElementOfSeq, LenProperties
  <2>3. w.list[q][j].time \in 0..Span - 1
    BY <2>2 DEF Node
  <2>4. d <= w.list[q][j].time /\ SlotOf(c, w.list[q][j].time) = q
    BY DEF Sorted
  <2> QED
    BY <1>1, <2>3, <2>4
<1> HIDE DEF c, d, next
<1>7. CASE Reached(d) = {}
  <2>1. Sorted(next, d)
    <3>1. \A q \in Slot : \A j \in DOMAIN next.list[q] :
            d <= next.list[q][j].time /\ SlotOf(next.curr, next.list[q][j].time) = q
      BY <1>1, <1>2, <1>5, <1>6, <1>7
    <3> QED
      BY <3>1 DEF Sorted
  <2>2. \A t \in d..Span - 1 : DueAt(next, t) = DueAt(w, t)
    BY <1>2, <1>5, <1>7 DEF DueAt, c
  <2> QED
    BY <1>2, <1>4, <1>7, <2>1, <2>2 DEF c, d
<1>8. CASE Reached(d) # {}
  <2>1. s \in Slot /\ s \in Reached(d)
    BY <1>1, <1>8, ReachedIn
  <2> HIDE DEF s
  <2>2. /\ v \in Wheels /\ v.curr = d /\ v.list[s] = <<>>
        /\ \A q \in Slot : q # s => v.list[q] = w.list[q]
    <3>1. /\ v \in Wheels /\ v.curr = next.curr /\ v.list[s] = <<>>
          /\ \A q \in Slot : q # s => v.list[q] = next.list[q]
      BY <1>2, <2>1, EmptiedIn
    <3> HIDE DEF v
    <3> QED
      BY <1>2, <3>1
  <2>3. nodes \in Seq(Node) /\ nodes = w.list[s]
    BY <1>1, <1>2, <2>1
  <2> HIDE DEF v, nodes
  <2>4. Sorted(v, d)
    <3> SUFFICES ASSUME NEW q \in Slot, NEW j \in DOMAIN v.list[q]
                 PROVE  d <= v.list[q][j].time /\ SlotOf(d, v.list[q][j].time) = q
      BY <2>2 DEF Sorted
    <3>1. q # s
      BY <2>2
    <3>2. j \in DOMAIN w.list[q] /\ v.list[q][j] = w.list[q][j]
      BY <2>2, <3>1
    <3>3. w.list[q][j].time \in d..Span - 1 /\ SlotOf(c, w.list[q][j].time) = q
      BY <1>6, <3>2
    <3>4. SlotOf(d, w.list[q][j].time) = q
      BY <1>5, <2>1, <3>1, <3>3
    <3>5. d <= w.list[q][j].time
      BY <1>1, <3>3
    <3> QED
      BY <3>2, <3>4, <3>5
  <2>5. \A k \in DOMAIN nodes : nodes[k].time \in d..Span - 1 /\ SlotOf(c, nodes[k].time) = s
    BY <1>6, <2>1, <2>3
  <2>6. /\ u \in Wheels /\ u.curr = d /\ Sorted(u, d)
        /\ \A t \in 0..Span - 1 : DueAt(u, t) = DueAt(v, t) \o IdsOf(nodes, t)
    <3>1. \A k \in DOMAIN nodes : d <= nodes[k].time
      BY <1>1, <2>5
    <3> QED
      BY <2>2, <2>3, <2>4, <3>1, AddNodesDue
  <2> HIDE DEF u
  <2>7. ASSUME NEW t \in d..Span - 1
        PROVE  DueAt(u, t) = DueAt(w, t)
    <3> DEFINE q == SlotOf(d, t)
               a == IdsOf(nodes, t)
               b == DueAt(v, t)
    <3>1. t \in 0..Span - 1
      BY <1>5
    <3>2. q \in Slot /\ v.list[q] \in Seq(Node) /\ b \in Seq(Id) /\ b = IdsOf(v.list[q], t)
      BY <2>2, <3>1, DueIn DEF DueAt
    <3>3. DueAt(w, t) = IdsOf(w.list[SlotOf(c, t)], t) /\ DueAt(w, t) \in Seq(Id)
      BY <3>1, DueIn DEF DueAt, c
    <3>4. DueAt(u, t) = b \o a
      BY <2>6, <3>1
    <3> HIDE DEF a, b, q
    <3>5. CASE SlotOf(c, t) = s
      <4>1. \A k \in DOMAIN v.list[q] : v.list[q][k].time # t
        <5>1. CASE q = s
          BY <2>2, <5>1
        <5>2. CASE q # s
          BY <1>6, <2>2, <3>2, <3>5, <5>2
        <5> QED
          BY <5>1, <5>2
      <4>2. b = <<>>
        BY <3>2, <4>1, IdsOfNoneOrAll
      <4>3. a = DueAt(w, t)
        BY <2>3, <3>3, <3>5 DEF a
      <4>4. <<>> \o DueAt(w, t) = DueAt(w, t)
        BY <3>3, AppendConcat
      <4> QED
        BY <3>4, <4>2, <4>3, <4>4, Zenon
    <3>6. CASE SlotOf(c, t) # s
      <4>1. q = SlotOf(c, t)
        BY <1>5, <2>1, <3>6 DEF q
      <4>2. b = DueAt(w, t)
        BY <2>2, <3>2, <3>3, <3>6, <4>1
      <4>3. \A k \in DOMAIN nodes : nodes[k].time # t
        BY <2>5, <3>6
      <4>4. a = <<>>
        BY <2>3, <4>3, IdsOfNoneOrAll DEF a
      <4>5. DueAt(w, t) \o <<>> = DueAt(w, t)
        BY <3>3, AppendConcat
      <4> QED
        BY <3>4, <4>2, <4>4, <4>5, Zenon
    <3> QED
      BY <3>5, <3>6
  <2> QED
    BY <1>4, <1>8, <2>6, <2>7 DEF c, d
<1> QED
  BY <1>7, <1>8

\* The ids of two lists joined are the ids of the one and those of the other.
LEMMA IdsJoined ==
  ASSUME NEW a \in Seq(Node), NEW b \in Seq(Node)
  PROVE  Ids(a \o b) = Ids(a) \o Ids(b)
<1> DEFINE n == Len(a)
           m == Len(b)
           ab == a \o b
           x == Ids(a)
           y == Ids(b)
           s == Ids(ab)
           t == x \o y
<1>1. /\ n \in Nat /\ m \in Nat /\ DOMAIN a = 1..n /\ DOMAIN b = 1..m
      /\ ab \in Seq(Node) /\ Len(ab) = n + m
      /\ \A i \in 1..n + m : ab[i] = IF i <= n THEN a[i] ELSE b[i - n]
  BY LenProperties, ConcatProperties
<1> HIDE DEF ab
<1>2. /\ x \in Seq(Id) /\ Len(x) = n /\ y \in Seq(Id) /\ Len(y) = m
      /\ s \in Seq(Id) /\ Len(s) = n + m /\ DOMAIN ab = 1..n + m
  BY <1>1, IdsFacts, LenProperties
<1>3. /\ \A i \in 1..n : x[i] = a[i].id
      /\ \A i \in 1..m : y[i] = b[i].id
      /\ \A i \in 1..n + m : s[i] = ab[i].id
  BY <1>1, <1>2 DEF Ids
<1> HIDE DEF x, y, s, n, m
<1>4. /\ t \in Seq(Id) /\ Len(t) = n + m
      /\ \A i \in 1..n + m : t[i] = IF i <= n THEN x[i] ELSE y[i - n]
  <2>1. /\ t \in Seq(Id) /\ Len(t) = Len(x) + Len(y)
        /\ \A i \in 1..Len(x) + Len(y) : t[i] = IF i <= Len(x) THEN x[i] ELSE y[i - Len(x)]
    BY <1>2, ConcatProperties
  <2> HIDE DEF t
  <2> QED
    BY <1>2, <2>1
<1> HIDE DEF t
<1>5. ASSUME NEW i \in 1..n + m
      PROVE  s[i] = t[i]
  <2>1. CASE i <= n
    <3>1. i \in 1..n
      BY <1>1, <2>1
    <3> QED
      BY <1>1, <1>3, <1>4, <2>1, <3>1
  <2>2. CASE ~(i <= n)
    <3>1. i - n \in 1..m
      BY <1>1, <2>2
    <3> QED
      BY <1>1, <1>3, <1>4, <2>2, <3>1
  <2> QED
    BY <2>1, <2>2
<1>6. s = t
  BY <1>2, <1>4, <1>5, SeqEqual
<1> QED
  BY <1>6 DEF s, t, x, y, ab

\* A turn of the driver takes out what is due in the next tick, and nothing else.
LEMMA TurnDue ==
  ASSUME NEW run, run \in Runs, NEW c, c = run.wheel.curr, c + 1 < Span, Sorted(run.wheel, c + 1)
  PROVE  /\ Turn(run).wheel.curr = c + 1
         /\ Sorted(Turn(run).wheel, c + 2)
         /\ Ids(Turn(run).popped) = Ids(run.popped) \o DueAt(run.wheel, c + 1)
         /\ \A t \in c + 2..Span - 1 : DueAt(Turn(run).wheel, t) = DueAt(run.wheel, t)
<1> DEFINE d == c + 1
           w == run.wheel
           next == Shift(w)
           s == <<"near", 0, next.curr % Near>>
           v == [next EXCEPT !.list[s] = <<>>]
           nodes == next.list[s]
<1>1. w \in Wheels /\ run.popped \in Seq(Node) /\ c = w.curr
  BY DEF Runs
<1>2. /\ c \in Nat /\ Span \in Nat /\ d \in Nat /\ d < Span /\ d \in 0..Span - 1
      /\ Near \in Nat \ {0}
  BY <1>1, SizeFacts, TimingWheelAssumption DEF Wheels, Span
<1>3. Turn(run) = [wheel |-> v, popped |-> run.popped \o nodes]
  BY DEF Turn
<1>4. /\ next \in Wheels /\ next.curr = d /\ Sorted(next, d)
      /\ \A t \in d..Span - 1 : DueAt(next, t) = DueAt(w, t)
  BY <1>1, ShiftDue
<1> HIDE DEF next, w
<1>5. s = <<"near", 0, d % Near>> /\ s \in Slot
  <2>1. d % Near \in 0..Near - 1
    BY <1>2
  <2> QED
    BY <1>4, <2>1 DEF Slot
<1>6. \A t \in d..Span - 1 : t \in 0..Span - 1 /\ d <= t /\ (SlotOf(d, t) = s <=> t = d)
  BY <1>2, <1>5, DueSlot
<1> HIDE DEF s, d
<1>7. /\ v \in Wheels /\ v.curr = d /\ v.list[s] = <<>>
      /\ \A q \in Slot : q # s => v.list[q] = next.list[q]
  <2>1. /\ v \in Wheels /\ v.curr = next.curr /\ v.list[s] = <<>>
        /\ \A q \in Slot : q # s => v.list[q] = next.list[q]
    BY <1>4, <1>5, EmptiedIn
  <2> HIDE DEF v
  <2> QED
    BY <1>4, <2>1
<1>8. nodes \in Seq(Node)
  BY <1>4, <1>5 DEF Wheels
<1> HIDE DEF v, nodes
<1>9. \A q \in Slot : \A j \in DOMAIN next.list[q] :
        next.list[q][j].time \in d..Span - 1 /\ SlotOf(d, next.list[q][j].time) = q
  <2> SUFFICES ASSUME NEW q \in Slot, NEW j \in DOMAIN next.list[q]
               PROVE  next.list[q][j].time \in d..Span - 1 /\ SlotOf(d, next.list[q][j].time) = q
    OBVIOUS
  <2>1. next.list[q] \in Seq(Node)
    BY <1>4 DEF Wheels
  <2>2. next.list[q][j] \in Node
    BY <2>1, ElementOfSeq, LenProperties
  <2>3. next.list[q][j].time \in 0..Span - 1
    BY <2>2 DEF Node
  <2>4. d <= next.list[q][j].time /\ SlotOf(d, next.list[q][j].time) = q
    BY <1>4 DEF Sorted
  <2> QED
    BY <1>2, <2>3, <2>4
<1>10. Ids(nodes) = DueAt(w, d)
  <2>1. d \in d..Span - 1 /\ d \in 0..Span - 1
    BY <1>2
  <2>2. DueAt(next, d) = IdsOf(nodes, d)
    BY <1>4, <1>6, <2>1 DEF DueAt, nodes
  <2>3. \A k \in DOMAIN nodes : nodes[k].time = d
    BY <1>5, <1>6, <1>9 DEF nodes
  <2> QED
    BY <1>4, <1>8, <2>1, <2>2, <2>3, IdsOfNoneOrAll
<1>11. Sorted(v, d + 1)
  <2> SUFFICES ASSUME NEW q \in Slot, NEW j \in DOMAIN v.list[q]
               PROVE  d + 1 <= v.list[q][j].time /\ SlotOf(d, v.list[q][j].time) = q
    BY <1>7 DEF Sorted
  <2>1. q # s
    BY <1>7
  <2>2. j \in DOMAIN next.list[q] /\ v.list[q][j] = next.list[q][j]
    BY <1>7, <2>1
  <2> DEFINE t == v.list[q][j].time
  <2>3. t \in d..Span - 1 /\ SlotOf(d, t) = q
    BY <1>9, <2>2
  <2> HIDE DEF t
  <2>4. t # d
    BY <1>6, <2>1, <2>3
  <2>5. d + 1 <= t
    BY <1>2, <2>3, <2>4
  <2> QED
    BY <2>3, <2>5 DEF t
<1>12. ASSUME NEW t \in d + 1..Span - 1
       PROVE  DueAt(v, t) = DueAt(w, t)
  <2>1. t \in d..Span - 1 /\ t # d /\ t \in 0..Span - 1
    BY <1>2
  <2>2. SlotOf(d, t) # s
    BY <1>6, <2>1
  <2>3. SlotOf(d, t) \in Slot
    BY <1>2, <2>1, SlotOfIn
  <2>4. DueAt(v, t) = DueAt(next, t)
    BY <1>4, <1>7, <2>2, <2>3 DEF DueAt
  <2> QED
    BY <1>4, <2>1, <2>4
<1>13. Ids(run.popped \o nodes) = Ids(run.popped) \o DueAt(w, d)
  BY <1>1, <1>8, <1>10, IdsJoined, Zenon
<1>14. c + 2 = d + 1
  BY <1>2 DEF d
<1>15. Turn(run).wheel = v /\ Turn(run).popped = run.popped \o nodes
  BY <1>3
<1> QED
  BY <1>7, <1>11, <1>12, <1>13, <1>14, <1>15, Zenon DEF d, w

\* The wheel brought to t, tick by tick, has handed out what was due in each
\* tick up to t, one after another, and nothing else is due at another time.
IsJoined(g, n, w) ==
  g[0] = <<>> /\ \A m \in 1..n : g[m] = g[m - 1] \o DueAt(w, w.curr + m)
LEMMA UpdateDue ==
  ASSUME NEW w, w \in Wheels, NEW t \in 0..Span - 1, w.curr <= t, Sorted(w, w.curr + 1),
         NEW g, IsJoined(g, t - w.curr, w)
  PROVE  /\ Sorted(Update(w, t).wheel, t + 1)
         /\ Ids(Update(w, t).popped) = g[t - w.curr]
         /\ \A u \in t + 1..Span - 1 : DueAt(Update(w, t).wheel, u) = DueAt(w, u)
<1> DEFINE c == w.curr
           N == t - c
<1>1. N \in Nat /\ c \in Nat /\ t \in Nat /\ Span \in Nat /\ t < Span /\ c + N = t
  BY SizeFacts, TimingWheelAssumption DEF Wheels, Span
<1>2. PICK f : /\ f \in [0..N -> Runs]
               /\ f[0] = [wheel |-> w, popped |-> <<>>]
               /\ \A n \in 1..N : f[n] = Turn(f[n - 1])
               /\ Update(w, t) = f[N]
  BY <1>1, UpdateRun
<1>3. g[0] = <<>> /\ \A m \in 1..N : g[m] = g[m - 1] \o DueAt(w, c + m)
  BY DEF IsJoined
<1> DEFINE Good(n) == /\ f[n].wheel.curr = c + n
                      /\ Sorted(f[n].wheel, c + n + 1)
                      /\ Ids(f[n].popped) = g[n]
                      /\ \A u \in c + n + 1..Span - 1 : DueAt(f[n].wheel, u) = DueAt(w, u)
           I == {n \in 0..N : Good(n)}
<1> HIDE DEF N
<1>4. 0 \in I
  <2>1. Ids(<<>>) = <<>>
    BY DEF Ids
  <2>2. f[0].wheel = w /\ f[0].popped = <<>> /\ c + 0 = c
    BY <1>1, <1>2
  <2> HIDE DEF c
  <2> QED
    BY <1>1, <1>3, <2>1, <2>2 DEF c
<1> HIDE DEF c
<1>5. ASSUME NEW n \in 1..N, n - 1 \in I PROVE n \in I
  <2> DEFINE run == f[n - 1]
             d == c + (n - 1)
  <2>1. /\ run.wheel.curr = d
        /\ Sorted(run.wheel, d + 1)
        /\ Ids(run.popped) = g[n - 1]
        /\ \A u \in d + 1..Span - 1 : DueAt(run.wheel, u) = DueAt(w, u)
    BY <1>5
  <2>2. run \in Runs /\ f[n] = Turn(run) /\ g[n] = g[n - 1] \o DueAt(w, c + n)
    <3>1. n - 1 \in 0..N
      BY <1>1
    <3> QED
      BY <1>2, <1>3, <3>1
  <2>3. /\ d + 1 = c + n /\ d + 2 = c + n + 1 /\ d + 1 < Span /\ d + 1 \in d + 1..Span - 1
        /\ \A u \in d + 2..Span - 1 : u \in d + 1..Span - 1
    BY <1>1
  <2> HIDE DEF d, run
  <2>4. /\ Turn(run).wheel.curr = d + 1
        /\ Sorted(Turn(run).wheel, d + 2)
        /\ Ids(Turn(run).popped) = Ids(run.popped) \o DueAt(run.wheel, d + 1)
        /\ \A u \in d + 2..Span - 1 : DueAt(Turn(run).wheel, u) = DueAt(run.wheel, u)
    BY <2>1, <2>2, <2>3, TurnDue
  <2>5. Ids(f[n].popped) = g[n]
    <3>1. DueAt(run.wheel, d + 1) = DueAt(w, c + n)
      BY <2>1, <2>3
    <3> QED
      BY <2>1, <2>2, <2>4, <3>1, Zenon
  <2>6. f[n].wheel.curr = c + n /\ Sorted(f[n].wheel, c + n + 1)
    BY <2>2, <2>3, <2>4, Zenon
  <2>7. \A u \in c + n + 1..Span - 1 : DueAt(f[n].wheel, u) = DueAt(w, u)
    BY <2>1, <2>2, <2>3, <2>4
  <2> QED
    BY <2>5, <2>6, <2>7
<1>6. Good(N)
  <2>1. N \in I
    <3> HIDE DEF I
    <3>1. \A n \in 0..N : n \in I
      BY <1>1, <1>4, <1>5, UpToInduction
    <3> QED
      BY <1>1, <3>1
  <2> QED
    BY <2>1
<1> QED
  BY <1>1, <1>2, <1>6 DEF N, c

-----------------------------------------------------------------------------
(***************************************************************************)
(* The agenda.                                                             *)
(***************************************************************************)

\* What the nodes of the wheel put down for each tick to come.
DueFrom(w) == [t \in 1..MaxTime |-> IF t > w.curr THEN DueAt(w, t) ELSE <<>>]

\* What the agenda says of the next n ticks is what is due in them, tick by tick.
LEMMA ComingRun ==
  ASSUME wheel \in Wheels, NEW n \in Nat, wheel.curr + n <= MaxTime
  PROVE  \E g : IsJoined(g, n, wheel) /\ Agenda!Coming(n) = g[n]
<1> DEFINE c == wheel.curr
           A == DueFrom(wheel)
           S == Seq(Id)
           step == [m \in 1..n |-> [x \in S |-> x \o A[c + m]]]
           chosen == CHOOSE g : g = [m \in 0..n |-> IF m = 0 THEN <<>> ELSE g[m - 1] \o A[c + m]]
<1>1. /\ c \in Nat /\ MaxTime \in Nat /\ Span \in Nat /\ MaxTime < Span /\ c + n <= MaxTime
  BY SizeFacts, TimingWheelAssumption, ServiceTimerAssumption DEF Wheels, Span
<1>2. ASSUME NEW m \in 1..n
      PROVE  A[c + m] = DueAt(wheel, c + m) /\ A[c + m] \in S
  <2>1. c + m \in 1..MaxTime /\ c + m > c /\ c + m \in 0..Span - 1
    BY <1>1
  <2>2. A[c + m] = DueAt(wheel, c + m)
    BY <2>1 DEF DueFrom
  <2> QED
    BY <2>1, <2>2, DueIn
<1>3. Agenda!Coming(n) = chosen[n]
  BY Zenon DEF Agenda!Coming, DueFrom
<1>4. step \in Steps(n, S) /\ <<>> \in S
  BY <1>2 DEF Steps
<1> HIDE DEF A, c
<1>5. PICK f : IsRun(f, n, S, <<>>, step)
  <2> HIDE DEF S, step
  <2> QED
    BY <1>4, StepsExist
<1>6. f = [m \in 0..n |-> IF m = 0 THEN <<>> ELSE f[m - 1] \o A[c + m]]
  <2>1. f \in [0..n -> S] /\ f[0] = <<>> /\ \A m \in 1..n : f[m] = step[m][f[m - 1]]
    BY <1>5 DEF IsRun
  <2>2. \A m \in 1..n : f[m - 1] \in S
    BY <2>1
  <2>3. \A m \in 1..n, x \in S : step[m][x] = x \o A[c + m]
    OBVIOUS
  <2> HIDE DEF S, step
  <2>4. \A m \in 1..n : f[m] = f[m - 1] \o A[c + m]
    BY <2>1, <2>2, <2>3
  <2>5. \A m \in 0..n : m = 0 \/ (m # 0 /\ m \in 1..n)
    OBVIOUS
  <2>6. \A m \in 0..n : f[m] = IF m = 0 THEN <<>> ELSE f[m - 1] \o A[c + m]
    BY <2>1, <2>4, <2>5, Zenon
  <2> QED
    BY <2>1, <2>6
<1>7. chosen = [m \in 0..n |-> IF m = 0 THEN <<>> ELSE chosen[m - 1] \o A[c + m]]
  BY <1>6, Zenon
<1> HIDE DEF chosen
<1>8. chosen[0] = <<>> /\ \A m \in 1..n : chosen[m] = chosen[m - 1] \o A[c + m]
  <2>1. 0 \in 0..n /\ \A m \in 1..n : m \in 0..n /\ m # 0
    OBVIOUS
  <2>2. \A m \in 0..n : chosen[m] = IF m = 0 THEN <<>> ELSE chosen[m - 1] \o A[c + m]
    BY <1>7, Zenon
  <2> QED
    BY <2>1, <2>2, Zenon
<1>9. IsJoined(chosen, n, wheel)
  BY <1>2, <1>8, Zenon DEF IsJoined, c
<1> QED
  BY <1>3, <1>9

\* What is due is in the wheel.
LEMMA DueHeld ==
  ASSUME NEW r \in Seq(Id), NEW h \in Seq(Id), NEW w, w \in Wheels, NEW t \in 0..Span - 1,
         NEW x, x \in ToSet(DueAt(w, t))
  PROVE  x \in Held(ListsOf(r, h, w))
<1> DEFINE s == SlotOf(w.curr, t)
           nodes == w.list[s]
           L == ListsOf(r, h, w)
<1>1. s \in Slot /\ nodes \in Seq(Node)
  BY DueIn
<1>2. PICK j : j \in DOMAIN DueAt(w, t) /\ DueAt(w, t)[j] = x
  BY DEF ToSet
<1>3. PICK k \in DOMAIN nodes : x = nodes[k].id
  BY <1>1, <1>2, IdsOfIn DEF DueAt
<1>4. In(Ids(nodes), k, x)
  BY <1>3 DEF In, Ids
<1>5. At(L, s, k, x)
  BY <1>1, <1>4, ListsFacts
<1> HIDE DEF L
<1> QED
  BY <1>5, HeldFacts DEF L

\* Ids and keys are in order, and no node of the wheel has been missed.
AInv == IInv /\ Sorted(wheel, wheel.curr + 1)

\* A tick to come is a number of the wheel.
LEMMA TicksToCome ==
  ASSUME AInv
  PROVE  /\ wheel \in Wheels /\ wheel.curr \in Nat /\ Span \in Nat /\ MaxTime \in Nat
         /\ MaxTime < Span /\ clock \in 0..MaxTime /\ wheel.curr <= clock
         /\ \A t \in 1..MaxTime : t \in 0..Span - 1
<1>1. TypeOK
  BY DEF AInv, IInv, IdOnePlace
<1>2. MaxTime \in 0..Span - 1 /\ clock \in 0..MaxTime
  BY <1>1, ServiceTimerAssumption DEF TypeOK
<1> QED
  BY <1>1, <1>2, TypeFacts DEF Wheels

\* The wheel is empty and so is the agenda.
LEMMA InitAgenda == Init => AInv /\ Agenda!Init
<1> SUFFICES ASSUME Init
             PROVE  AInv /\ Agenda!Init
  OBVIOUS
<1>1. IInv /\ wheel = EmptyWheel /\ handles = <<>>
  BY InitIInv DEF Init
<1>2. wheel.curr = 0 /\ \A s \in Slot : wheel.list[s] = <<>>
  BY <1>1 DEF EmptyWheel
<1>3. AInv
  BY <1>1, <1>2 DEF AInv, Sorted
<1>4. ASSUME NEW t \in 1..MaxTime
      PROVE  DueAt(wheel, t) = <<>>
  <2>1. SlotOf(wheel.curr, t) \in Slot
    BY <1>3, TicksToCome, DueIn
  <2>2. wheel.list[SlotOf(wheel.curr, t)] = <<>>
    BY <1>2, <2>1
  <2>3. IdsOf(<<>>, t) = <<>>
    <3>1. <<>> \in Seq(Node) /\ \A k \in DOMAIN <<>> : <<>>[k].time # t
      OBVIOUS
    <3> QED
      BY <3>1, IdsOfNoneOrAll
  <2> QED
    BY <2>2, <2>3, Zenon DEF DueAt
<1>5. DueFrom(wheel) = [t \in 1..MaxTime |-> <<>>]
  BY <1>4 DEF DueFrom
<1> QED
  BY <1>1, <1>2, <1>3, <1>5, Zenon DEF Agenda!Init, DueFrom

\* A callback is put down for the tick its delay leads to, behind the others.
LEMMA AddCallbackAgenda ==
  ASSUME AInv, NEW n \in Name, NEW d \in 1..MaxDelay, AddCallback(n, d)
  PROVE  Sorted(wheel', wheel'.curr + 1) /\ Agenda!Next
<1> DEFINE c == wheel.curr
           t == c + d
<1>1. /\ wheel \in Wheels /\ c \in Nat /\ Span \in Nat /\ MaxTime \in Nat /\ MaxTime < Span
      /\ d \in Nat \ {0} /\ reuse' = reuse' /\ UNCHANGED handles /\ t <= MaxTime
      /\ \A u \in 1..MaxTime : u \in 0..Span - 1
  BY TicksToCome, ServiceTimerAssumption DEF AddCallback
<1>2. PICK id \in Id :
        /\ wheel' = AddTime(wheel, id, d)
        /\ reuse' \in Seq(Id)
        /\ id \notin Held(ListsOf(reuse', handles, wheel))
  BY FreshId DEF AInv
<1>3. t \in c + 1..MaxTime /\ t \in 1..MaxTime /\ t > c /\ t \in 0..Span - 1 /\ c + 1 <= t /\ t % Span = t
  BY <1>1, SmallMod
<1> DEFINE node == [id |-> id, time |-> t]
<1>4. node \in Node /\ node.id = id /\ node.time = t
  BY <1>3 DEF Node
<1>5. wheel' = AddNode(wheel, node)
  BY <1>2, <1>3, Zenon DEF AddTime
<1> HIDE DEF node, t
<1>6. /\ Sorted(wheel', c + 1) /\ wheel'.curr = c
      /\ \A u \in 0..Span - 1 :
           DueAt(wheel', u) = IF t = u THEN Append(DueAt(wheel, u), id) ELSE DueAt(wheel, u)
  <2>1. Sorted(wheel, c + 1)
    BY DEF AInv
  <2>2. AddNode(wheel, node).curr = c
    BY <1>1, <1>4, AddNodeIn
  <2>3. /\ Sorted(AddNode(wheel, node), c + 1)
        /\ \A u \in 0..Span - 1 :
             DueAt(AddNode(wheel, node), u) =
               IF node.time = u THEN Append(DueAt(wheel, u), node.id) ELSE DueAt(wheel, u)
    BY <1>1, <1>3, <1>4, <2>1, AddNodeDue
  <2> QED
    BY <1>4, <1>5, <2>2, <2>3, Zenon
<1>7. DueFrom(wheel') = [DueFrom(wheel) EXCEPT ![t] = Append(@, id)]
  <2> DEFINE A == DueFrom(wheel)
             B == DueFrom(wheel')
  <2>1. \A u \in 1..MaxTime : /\ A[u] = IF u > c THEN DueAt(wheel, u) ELSE <<>>
                              /\ B[u] = IF u > c THEN DueAt(wheel', u) ELSE <<>>
    BY <1>6 DEF DueFrom
  <2>2. A = [u \in 1..MaxTime |-> A[u]] /\ B = [u \in 1..MaxTime |-> B[u]]
    BY DEF DueFrom
  <2> HIDE DEF A, B
  <2>3. \A u \in 1..MaxTime : B[u] = IF u = t THEN Append(A[u], id) ELSE A[u]
    <3> TAKE u \in 1..MaxTime
    <3>1. u \in 0..Span - 1
      BY <1>1
    <3>2. CASE u = t
      BY <1>3, <1>6, <2>1, <3>1, <3>2, Zenon
    <3>3. CASE u # t
      BY <1>6, <2>1, <3>1, <3>3, Zenon
    <3> QED
      BY <3>2, <3>3
  <2>4. B = [A EXCEPT ![t] = Append(@, id)]
    BY <1>3, <2>2, <2>3
  <2> QED
    BY <2>4 DEF A, B
<1>8. PICK s : s = t
  OBVIOUS
<1>9. id \notin Agenda!Waiting
  <2> DEFINE L == ListsOf(reuse', handles, wheel)
  <2>1. handles \in Seq(Id)
    BY TypeFacts DEF AInv, IInv, IdOnePlace
  <2>2. ASSUME NEW u \in 1..MaxTime
        PROVE  id \notin ToSet(DueFrom(wheel)[u])
    <3>1. CASE u > c
      <4>1. DueFrom(wheel)[u] = DueAt(wheel, u)
        BY <3>1 DEF DueFrom
      <4> QED
        BY <1>1, <1>2, <2>1, <4>1, DueHeld
    <3>2. CASE ~(u > c)
      <4>1. DueFrom(wheel)[u] = <<>>
        BY <3>2 DEF DueFrom
      <4> QED
        BY <4>1 DEF ToSet
    <3> QED
      BY <3>1, <3>2
  <2>3. id \notin ToSet(handles)
    <3>1. \A j, y : At(L, Handles, j, y) <=> In(handles, j, y)
      BY <1>1, <1>2, <2>1, ListsFacts
    <3>2. id \notin Held(L)
      BY <1>2
    <3> HIDE DEF L
    <3> QED
      BY <3>1, <3>2, HeldFacts, ToSetFacts
  <2>4. Agenda!Waiting = ToSet(handles) \cup UNION {ToSet(DueFrom(wheel)[u]) : u \in 1..MaxTime}
    BY Zenon DEF Agenda!Waiting, Agenda!ToSet, ToSet, DueFrom
  <2> QED
    BY <2>2, <2>3, <2>4
<1>10. Agenda!Next
  <2>1. s \in wheel.curr + 1..MaxTime
    BY <1>3, <1>8
  <2>2. Agenda!PutDown(id, s)
    BY <1>1, <1>6, <1>7, <1>8, Zenon DEF Agenda!PutDown, DueFrom
  <2> QED
    BY <1>9, <2>1, <2>2 DEF Agenda!Next
<1> QED
  BY <1>6, <1>10

\* The driver hands out the ticks it comes to, or finds that it has been there.
LEMMA DriverFuncAgenda ==
  ASSUME AInv, DriverFunc
  PROVE  Sorted(wheel', wheel'.curr + 1) /\ [Agenda!Next]_(Agenda!vars)
<1> DEFINE run == Update(wheel, clock)
           c == wheel.curr
           t == clock
           N == t - c
<1>1. /\ wheel \in Wheels /\ c \in Nat /\ Span \in Nat /\ MaxTime \in Nat /\ MaxTime < Span
      /\ t \in 0..MaxTime /\ c <= t /\ \A u \in 1..MaxTime : u \in 0..Span - 1
  BY TicksToCome
<1>2. wheel' = run.wheel /\ handles' = Ids(run.popped) /\ handles = <<>>
  BY DEF DriverFunc, AInv, IInv
<1>3. N \in Nat /\ c + N <= MaxTime /\ c + N = t /\ t \in 0..Span - 1
  BY <1>1
<1>4. PICK g : IsJoined(g, N, wheel) /\ Agenda!Coming(N) = g[N]
  <2> HIDE DEF N
  <2> QED
    BY <1>1, <1>3, ComingRun
<1>5. Sorted(wheel, c + 1)
  BY DEF AInv
<1>6. /\ Sorted(run.wheel, t + 1)
      /\ Ids(run.popped) = g[N]
      /\ \A u \in t + 1..Span - 1 : DueAt(run.wheel, u) = DueAt(wheel, u)
  BY <1>1, <1>3, <1>4, <1>5, UpdateDue
<1>7. run.wheel.curr = t
  <2>1. reuse \in Seq(Id) /\ Once(ListsOf(reuse, <<>>, wheel))
    BY <1>2, TypeFacts DEF AInv, IInv, IdOnePlace
  <2> QED
    BY <1>1, <1>3, <2>1, UpdateFacts
<1> HIDE DEF run, N
<1>8. wheel'.curr = t /\ Sorted(wheel', t + 1) /\ handles' = Agenda!Coming(N)
  BY <1>2, <1>4, <1>6, <1>7
<1>9. DueFrom(wheel') = [u \in 1..MaxTime |-> IF u <= t THEN <<>> ELSE DueFrom(wheel)[u]]
  <2>1. ASSUME NEW u \in 1..MaxTime
        PROVE  (IF u > t THEN DueAt(wheel', u) ELSE <<>>) = IF u <= t THEN <<>> ELSE DueFrom(wheel)[u]
    <3>1. CASE u <= t
      <4>1. ~(u > t)
        BY <1>1, <3>1
      <4> QED
        BY <3>1, <4>1
    <3>2. CASE ~(u <= t)
      <4>1. u > t /\ u > c /\ u \in t + 1..Span - 1
        BY <1>1, <3>2
      <4>2. DueFrom(wheel)[u] = DueAt(wheel, u)
        BY <4>1 DEF DueFrom
      <4>3. DueAt(wheel', u) = DueAt(wheel, u)
        BY <1>2, <1>6, <4>1
      <4> QED
        BY <3>2, <4>1, <4>2, <4>3, Zenon
    <3> QED
      BY <3>1, <3>2
  <2>2. DueFrom(wheel') = [u \in 1..MaxTime |-> IF u > t THEN DueAt(wheel', u) ELSE <<>>]
    BY <1>8 DEF DueFrom
  <2> QED
    BY <2>1, <2>2
<1>10. CASE t > c
  <2>1. PICK u : u = t
    OBVIOUS
  <2>2. u \in wheel.curr + 1..MaxTime
    BY <1>1, <1>10, <2>1
  <2>3. Agenda!HandOut(u)
    BY <1>2, <1>8, <1>9, <2>1, Zenon DEF Agenda!HandOut, DueFrom, N
  <2>4. Agenda!Next
    BY <2>2, <2>3 DEF Agenda!Next
  <2> QED
    BY <1>8, <2>4
<1>11. CASE ~(t > c)
  <2>1. t = c /\ N = 0
    BY <1>1, <1>11 DEF N
  <2>2. handles' = handles /\ wheel'.curr = c
    BY <1>2, <1>4, <1>8, <2>1 DEF IsJoined
  <2>3. DueFrom(wheel') = DueFrom(wheel)
    <3>1. \A u \in 1..MaxTime : u <= c => DueFrom(wheel)[u] = <<>>
      BY <1>1 DEF DueFrom
    <3>2. DueFrom(wheel) = [u \in 1..MaxTime |-> DueFrom(wheel)[u]]
      BY DEF DueFrom
    <3> QED
      BY <1>9, <2>1, <3>1, <3>2
  <2>4. UNCHANGED Agenda!vars
    BY <2>2, <2>3, Zenon DEF Agenda!vars, DueFrom
  <2> QED
    BY <1>8, <2>4
<1> QED
  BY <1>10, <1>11

\* What happens to the wheel happens to the agenda; the rest leaves it alone.
LEMMA NextAgenda ==
  AInv /\ [Next]_vars => AInv' /\ [Agenda!Next]_(Agenda!vars)
<1> SUFFICES ASSUME AInv, [Next]_vars
             PROVE  AInv' /\ [Agenda!Next]_(Agenda!vars)
  OBVIOUS
<1>1. IInv' /\ Sorted(wheel, wheel.curr + 1)
  BY NextIInv DEF AInv
<1>2. ASSUME UNCHANGED <<wheel, handles>>
      PROVE  Sorted(wheel', wheel'.curr + 1) /\ UNCHANGED Agenda!vars
  BY <1>1, <1>2, Zenon DEF Agenda!vars
<1>3. CASE \E n \in Name, d \in 1..MaxDelay : AddCallback(n, d)
  BY <1>1, <1>3, AddCallbackAgenda DEF AInv
<1>4. CASE \E n \in Name : DelCallback(n)
  BY <1>1, <1>2, <1>4 DEF DelCallback, AInv
<1>5. CASE \E o \in Timer : Release(o)
  BY <1>1, <1>2, <1>5 DEF Release, AInv
<1>6. CASE DriverFunc
  BY <1>1, <1>6, DriverFuncAgenda DEF AInv
<1>7. CASE ProxyFunc
  <2>1. /\ handles # <<>> /\ handles' = Tail(handles) /\ UNCHANGED wheel
    BY <1>7 DEF ProxyFunc
  <2>2. Agenda!DealWith
    BY <2>1, Zenon DEF Agenda!DealWith
  <2>3. Sorted(wheel', wheel'.curr + 1)
    BY <1>1, <2>1
  <2> QED
    BY <1>1, <2>2, <2>3 DEF AInv, Agenda!Next
<1>8. CASE DriverEnd
  BY <1>1, <1>2, <1>8 DEF DriverEnd, AInv
<1>9. CASE Pass
  BY <1>1, <1>2, <1>9 DEF Pass, AInv
<1>10. CASE UNCHANGED vars
  BY <1>1, <1>2, <1>10 DEF vars, AInv
<1> QED
  BY <1>3, <1>4, <1>5, <1>6, <1>7, <1>8, <1>9, <1>10 DEF Next

\* The wheel and the driver keep the agenda: every id is handed out in the very
\* tick it was put down for, once, in order, through whichever levels of the
\* wheel its node went and however late the driver came.
THEOREM AgendaKept == Spec => KeepsAgenda
<1>1. Init => AInv /\ Agenda!Init
  BY InitAgenda
<1>2. AInv /\ [Next]_vars => AInv' /\ [Agenda!Next]_(Agenda!vars)
  BY NextAgenda
<1> QED
  BY <1>1, <1>2, PTL DEF Spec, KeepsAgenda, Agenda!Spec
=============================================================================
