-------------------------- MODULE LoginQueueProofs --------------------------
(***************************************************************************)
(* Proofs about LoginQueue, for every set of players and sockets, every     *)
(* limit and every number of tickets: the tables of the queue agree         *)
(* (IInv), no step but the two AdmitsWithinLimit names takes the count of   *)
(* admitted players above the limit, and the queue is one line served from  *)
(* the front, as AdmissionLine says.                                        *)
(***************************************************************************)
EXTENDS LoginQueue, FiniteSetTheorems, WellFoundedInduction, SequenceTheorems, TLAPS

(***************************************************************************)
(* The numbers a run of calls takes                                        *)
(***************************************************************************)

\* Every set of numbers that is not empty has a largest one.
LEMMA MaxNumberOf ==
  ASSUME NEW S \in SUBSET Number, S # {}
  PROVE  /\ Max(S) \in S
         /\ \A x \in S : x <= Max(S)
<1> DEFINE Above(x) == {y \in S : x < y}
           T == {Above(x) : x \in S}
<1>1. MaxNumber \in Nat /\ Number \subseteq Nat /\ S \subseteq Nat
  BY LoginQueueAssumption DEF Number
<1>2. IsFiniteSet(Number)
  BY <1>1, FS_Interval DEF Number
<1>3. T \subseteq FiniteSubsetsOf(Number)
  <2> SUFFICES ASSUME NEW x \in S
               PROVE  Above(x) \in FiniteSubsetsOf(Number)
    OBVIOUS
  <2>1. Above(x) \in SUBSET Number
    OBVIOUS
  <2> QED
    BY <2>1, <1>2, FS_Subset DEF FiniteSubsetsOf
<1>4. T # {}
  OBVIOUS
<1>5. PICK t \in T : \A u \in T : ~(<<u, t>> \in StrictSubsetOrdering(Number))
  <2> HIDE DEF T
  <2> QED
    BY <1>3, <1>4, FS_StrictSubsetOrderingWellFounded, WFMin
<1>6. PICK x \in S : t = Above(x)
  BY <1>5
<1>7. \A y \in S : y <= x
  <2> SUFFICES ASSUME NEW y \in S, x < y
               PROVE  FALSE
    BY <1>1, <1>6
  <2>1. Above(y) \subseteq Above(x)
    <3>1. \A z \in S : y < z => x < z
      BY <1>1, <1>6
    <3> QED
      BY <3>1
  <2>2. y \in Above(x) /\ y \notin Above(y)
    BY <1>1
  <2>3. Above(y) \in SUBSET Number /\ Above(x) \in SUBSET Number
    OBVIOUS
  <2>4. <<Above(y), Above(x)>> \in StrictSubsetOrdering(Number)
    BY <2>1, <2>2, <2>3, Zenon DEF StrictSubsetOrdering
  <2> QED
    BY <1>5, <1>6, <2>4
<1> QED
  BY <1>1, <1>6, <1>7 DEF Max

\* And a smallest one.
LEMMA MinNumberOf ==
  ASSUME NEW S \in SUBSET Number, S # {}
  PROVE  \E k \in S : \A x \in S : k <= x
<1> DEFINE Below(x) == {y \in S : y < x}
           T == {Below(x) : x \in S}
<1>1. S \subseteq Nat
  BY LoginQueueAssumption DEF Number
<1>2. IsFiniteSet(Number)
  BY LoginQueueAssumption, FS_Interval DEF Number
<1>3. T \subseteq FiniteSubsetsOf(Number)
  <2> SUFFICES ASSUME NEW x \in S
               PROVE  Below(x) \in FiniteSubsetsOf(Number)
    OBVIOUS
  <2>1. Below(x) \in SUBSET Number
    OBVIOUS
  <2> QED
    BY <2>1, <1>2, FS_Subset DEF FiniteSubsetsOf
<1>4. PICK t \in T : \A u \in T : ~(<<u, t>> \in StrictSubsetOrdering(Number))
  <2>1. T # {}
    OBVIOUS
  <2> HIDE DEF T
  <2> QED
    BY <1>3, <2>1, FS_StrictSubsetOrderingWellFounded, WFMin
<1>5. PICK k \in S : t = Below(k)
  BY <1>4
<1>6. \A x \in S : k <= x
  <2> SUFFICES ASSUME NEW y \in S, y < k
               PROVE  FALSE
    BY <1>1, <1>5
  <2>1. Below(y) \subseteq Below(k)
    <3>1. \A z \in S : z < y => z < k
      BY <1>1, <1>5
    <3> QED
      BY <3>1
  <2>2. y \in Below(k) /\ y \notin Below(y)
    BY <1>1
  <2>3. Below(y) \in SUBSET Number /\ Below(k) \in SUBSET Number
    OBVIOUS
  <2>4. <<Below(y), Below(k)>> \in StrictSubsetOrdering(Number)
    BY <2>1, <2>2, <2>3, Zenon DEF StrictSubsetOrdering
  <2> QED
    BY <1>4, <1>5, <2>4
<1> QED
  BY <1>6

LEMMA MaxOfPair ==
  ASSUME NEW n \in Int
  PROVE  Max({n, 0}) = IF n > 0 THEN n ELSE 0
<1> DEFINE m == IF n > 0 THEN n ELSE 0
<1>1. m \in {n, 0} /\ \A x \in {n, 0} : m >= x
  OBVIOUS
<1>2. \A k \in {n, 0} : (\A x \in {n, 0} : k >= x) => k = m
  OBVIOUS
<1> HIDE DEF m
<1> QED
  BY <1>1, <1>2, Zenon DEF Max, m

\* The numbers that wait are finitely many.
LEMMA WaitingFinite ==
  /\ WaitingNumbers \in SUBSET Number
  /\ \A S \in SUBSET WaitingNumbers :
       /\ IsFiniteSet(S)
       /\ Cardinality(S) \in Nat
<1>1. IsFiniteSet(Number)
  BY LoginQueueAssumption, FS_Interval DEF Number
<1>2. WaitingNumbers \in SUBSET Number
  BY DEF WaitingNumbers
<1>3. ASSUME NEW S \in SUBSET WaitingNumbers
      PROVE  IsFiniteSet(S) /\ Cardinality(S) \in Nat
  BY <1>1, <1>2, FS_Subset, FS_CardinalityType
<1> QED
  BY <1>2, <1>3

\* A run of calls takes the smallest numbers that wait: it passes over none.
LEMMA CalledInOrder ==
  ASSUME NEW n \in Int,
         NEW j \in NextNumbers(n),
         NEW k \in WaitingNumbers, k \notin NextNumbers(n)
  PROVE  j < k
<1> DEFINE UpTo(x) == {i \in WaitingNumbers : i <= x}
<1> SUFFICES ASSUME k <= j
             PROVE  FALSE
  BY WaitingFinite, LoginQueueAssumption DEF NextNumbers, Number
<1>1. j \in WaitingNumbers /\ Cardinality(UpTo(j)) <= n
  BY DEF NextNumbers
<1>2. UpTo(k) \in SUBSET UpTo(j)
  <2>1. WaitingNumbers \subseteq Nat
    BY WaitingFinite, LoginQueueAssumption DEF Number
  <2>2. \A i \in WaitingNumbers : i <= k => i <= j
    BY <1>1, <2>1
  <2> QED
    BY <2>2
<1>3. Cardinality(UpTo(k)) <= Cardinality(UpTo(j))
  BY <1>2, WaitingFinite, FS_Subset
<1>4. Cardinality(UpTo(k)) <= n
  BY <1>1, <1>3, WaitingFinite
<1> QED
  BY <1>4 DEF NextNumbers

\* A run of n calls takes at most n numbers.
LEMMA CallsAtMost ==
  ASSUME NEW n \in Int
  PROVE  /\ NextNumbers(n) \in SUBSET WaitingNumbers
         /\ Cardinality(NextNumbers(n)) <= Max({n, 0})
<1> DEFINE S == NextNumbers(n)
           UpTo(x) == {i \in WaitingNumbers : i <= x}
<1>1. S \in SUBSET WaitingNumbers
  BY DEF NextNumbers
<1>2. Max({n, 0}) \in Int /\ n <= Max({n, 0}) /\ 0 <= Max({n, 0})
  BY MaxOfPair
<1>3. CASE S = {}
  BY <1>1, <1>2, <1>3, FS_EmptySet
<1>4. CASE S # {}
  <2>1. Max(S) \in S /\ \A x \in S : x <= Max(S)
    <3> HIDE DEF S
    <3> QED BY <1>1, <1>4, WaitingFinite, MaxNumberOf
  <2>2. S \in SUBSET UpTo(Max(S))
    BY <1>1, <2>1
  <2>3. Cardinality(UpTo(Max(S))) <= n
    BY <2>1 DEF NextNumbers
  <2>4. Cardinality(S) <= Cardinality(UpTo(Max(S)))
    BY <2>2, WaitingFinite, FS_Subset
  <2>5. UpTo(Max(S)) \in SUBSET WaitingNumbers
    OBVIOUS
  <2> QED
    BY <1>1, <1>2, <2>3, <2>4, <2>5, WaitingFinite
<1> QED
  BY <1>1, <1>3, <1>4

\* A run of n calls that leaves a number waiting has taken at least n.
LEMMA CallsAtLeast ==
  ASSUME NEW n \in Int, NEW k0 \in WaitingNumbers, k0 \notin NextNumbers(n)
  PROVE  Cardinality(NextNumbers(n)) >= n
<1> DEFINE S == NextNumbers(n)
           R == WaitingNumbers \ S
           UpTo(x) == {i \in WaitingNumbers : i <= x}
<1>1. WaitingNumbers \in SUBSET Number /\ Number \subseteq Nat
  BY WaitingFinite, LoginQueueAssumption DEF Number
<1>2. S \in SUBSET WaitingNumbers
  BY DEF NextNumbers
<1>3. IsFiniteSet(S) /\ Cardinality(S) \in Nat
  BY <1>2, WaitingFinite
<1>4. PICK k \in R : \A x \in R : k <= x
  <2>1. R \in SUBSET Number /\ R # {}
    BY <1>1
  <2> HIDE DEF R
  <2> QED
    BY <2>1, MinNumberOf
<1>5. k \in WaitingNumbers /\ k \notin S /\ k \in Nat
  BY <1>1, <1>4
<1>6. \A i \in S : i \in WaitingNumbers /\ i <= k
  <2> SUFFICES ASSUME NEW i \in S
               PROVE  i \in WaitingNumbers /\ i <= k
    OBVIOUS
  <2>1. i < k
    BY <1>5, CalledInOrder
  <2>2. i \in Nat /\ i \in WaitingNumbers
    BY <1>1, <1>2
  <2> QED
    BY <1>5, <2>1, <2>2
<1>7. \A i \in WaitingNumbers : i <= k /\ i \notin S => i = k
  BY <1>1, <1>4, <1>5
<1>8. UpTo(k) = S \cup {k}
  <2>1. ASSUME NEW i \in UpTo(k) PROVE i \in S \cup {k}
    BY <1>7
  <2>2. ASSUME NEW i \in S \cup {k} PROVE i \in UpTo(k)
    BY <1>5, <1>6
  <2> QED
    BY <2>1, <2>2
<1>9. ~(Cardinality(UpTo(k)) <= n)
  BY <1>5 DEF NextNumbers
<1> HIDE DEF S
<1>10. Cardinality(S \cup {k}) = Cardinality(S) + 1
  BY <1>3, <1>5, FS_AddElement
<1>11. Cardinality(S) >= n
  BY <1>3, <1>8, <1>9, <1>10
<1> QED
  BY <1>11 DEF S

-----------------------------------------------------------------------------
(***************************************************************************)
(* The inductive invariant                                                 *)
(***************************************************************************)

\* The invariants of LoginQueue are inductive together only: a call keeps HandleWhileWaiting because the called player
\* waited (QueueInverse), and keeps the count because it was not online
\* (OnePlace).
IInv ==
  /\ TypeOK
  /\ OnlineCntExact
  /\ QueueInverse
  /\ OnePlace
  /\ HandleWhileWaiting
  /\ NoIdleSlot

\* The players a run of n calls takes.
NextPids(n) == {queueList[k] : k \in NextNumbers(n)}

\* Every call goes to a player that waits.
LEMMA CalledPlayersWaited ==
  ASSUME TypeOK, QueueInverse, NEW n \in Int
  PROVE  \A p \in NextPids(n) : p \in Pid /\ queuePlayers[p] # 0
<1> TAKE p \in NextPids(n)
<1>1. PICK k \in NextNumbers(n) : p = queueList[k]
  BY DEF NextPids
<1>2. k \in Number /\ queueList[k] # None
  BY DEF NextNumbers, WaitingNumbers
<1>3. p \in Pid
  BY <1>1, <1>2 DEF TypeOK
<1>4. queuePlayers[p] = k
  BY <1>1, <1>2 DEF QueueInverse
<1> QED
  BY <1>2, <1>3, <1>4, LoginQueueAssumption DEF Number

\* A run of calls keeps the two queue tables inverse to each other, and takes
\* the called players out of the one and into the call list.
LEMMA CallNumbersKeeps ==
  ASSUME TypeOK, QueueInverse,
         NEW n \in Int,
         NEW kept \in [Pid -> 0..(KeepChecks + 1)],
         CallNumbers(n, kept),
         UNCHANGED lastNumber
  PROVE  /\ callNumber' \in 0..MaxNumber
         /\ queueList' \in [Number -> Pid \cup {None}]
         /\ queuePlayers' \in [Pid -> 0..MaxNumber]
         /\ callList' \in [Pid -> 0..(KeepChecks + 1)]
         /\ QueueInverse'
         /\ \A p \in Pid :
              /\ p \in NextPids(n) => queuePlayers'[p] = 0 /\ callList'[p] = 1
              /\ p \notin NextPids(n) =>
                   queuePlayers'[p] = queuePlayers[p] /\ callList'[p] = kept[p]
<1> DEFINE S == NextNumbers(n)
           P == NextPids(n)
<1>1. S \in SUBSET WaitingNumbers /\ S \in SUBSET Number
  BY WaitingFinite, CallsAtMost
<1>2. MaxNumber \in Nat /\ Number \subseteq Nat /\ KeepChecks \in Nat
  BY LoginQueueAssumption DEF Number
<1>3. /\ callNumber' = IF S = {} THEN callNumber ELSE Max(S)
      /\ queueList' = [k \in Number |-> IF k \in S THEN None ELSE queueList[k]]
      /\ queuePlayers' = [p \in Pid |-> IF p \in P THEN 0 ELSE queuePlayers[p]]
      /\ callList' = [p \in Pid |-> IF p \in P THEN 1 ELSE kept[p]]
  BY DEF CallNumbers, NextPids
<1>4. S # {} => Max(S) \in S
  <2> HIDE DEF S
  <2> QED
    BY <1>1, MaxNumberOf
<1>5. callNumber' \in 0..MaxNumber
  BY <1>1, <1>2, <1>3, <1>4 DEF TypeOK, Number
<1>6. queueList' \in [Number -> Pid \cup {None}]
  BY <1>3 DEF TypeOK
<1>7. queuePlayers' \in [Pid -> 0..MaxNumber]
  BY <1>2, <1>3 DEF TypeOK
<1>8. callList' \in [Pid -> 0..(KeepChecks + 1)]
  BY <1>2, <1>3
<1>9. ASSUME NEW k \in Number, queueList'[k] # None
      PROVE  callNumber' < k /\ k <= lastNumber' /\ queuePlayers'[queueList'[k]] = k
  <2>1. k \notin S /\ queueList'[k] = queueList[k] /\ queueList[k] # None
    BY <1>3, <1>9
  <2>2. callNumber < k /\ k <= lastNumber /\ queuePlayers[queueList[k]] = k
        /\ queueList[k] \in Pid
    BY <2>1 DEF QueueInverse, TypeOK
  <2>3. k \in WaitingNumbers
    BY <2>1, <2>2 DEF WaitingNumbers
  <2>4. callNumber' < k
    BY <1>3, <1>4, <2>1, <2>2, <2>3, CalledInOrder
  <2>5. queueList[k] \notin P
    <3> SUFFICES ASSUME NEW j \in S, queueList[j] = queueList[k]
                 PROVE  FALSE
      BY DEF NextPids
    <3>1. j \in Number /\ queueList[j] # None
      BY <1>1, <2>1
    <3>2. queuePlayers[queueList[j]] = j
      BY <3>1 DEF QueueInverse
    <3> QED
      BY <3>2, <2>1, <2>2
  <2> QED
    BY <1>3, <2>1, <2>2, <2>4, <2>5
<1>10. ASSUME NEW p \in Pid, queuePlayers'[p] # 0
       PROVE  queueList'[queuePlayers'[p]] = p
  <2>1. p \notin P /\ queuePlayers'[p] = queuePlayers[p] /\ queuePlayers[p] # 0
    BY <1>3, <1>10
  <2>2. queueList[queuePlayers[p]] = p /\ queuePlayers[p] \in Number
    BY <1>2, <2>1 DEF QueueInverse, TypeOK, Number
  <2>3. queuePlayers[p] \notin S
    BY <2>1, <2>2 DEF NextPids
  <2> QED
    BY <1>3, <2>1, <2>2, <2>3
<1>11. callNumber' <= lastNumber'
  BY <1>1, <1>2, <1>3, <1>4 DEF WaitingNumbers, QueueInverse
<1>12. QueueInverse'
  BY <1>9, <1>10, <1>11 DEF QueueInverse
<1> QED
  BY <1>3, <1>5, <1>6, <1>7, <1>8, <1>12

\* A run of n calls adds at most n players to those whose call was kept.
LEMMA CallsAddAtMost ==
  ASSUME TypeOK, QueueInverse,
         NEW n \in Int,
         NEW kept \in [Pid -> 0..(KeepChecks + 1)],
         CallNumbers(n, kept),
         UNCHANGED lastNumber
  PROVE  /\ Cardinality({p \in Pid : kept[p] > 0}) \in Nat
         /\ Cardinality(CalledPids') \in Nat
         /\ Cardinality(CalledPids') <= Cardinality({p \in Pid : kept[p] > 0})
                                         + (IF n > 0 THEN n ELSE 0)
<1> DEFINE K == {p \in Pid : kept[p] > 0}
           S == NextNumbers(n)
           P == NextPids(n)
<1>1. IsFiniteSet(Pid)
  BY LoginQueueAssumption
<1>2. S \in SUBSET WaitingNumbers /\ IsFiniteSet(S) /\ Cardinality(S) \in Nat
      /\ Cardinality(S) <= (IF n > 0 THEN n ELSE 0)
  BY CallsAtMost, WaitingFinite, MaxOfPair
<1>3. P = {queueList[k] : k \in S}
  BY DEF NextPids
<1> HIDE DEF S, P
<1>4. IsFiniteSet(P) /\ Cardinality(P) \in Nat /\ Cardinality(P) <= Cardinality(S)
  <2> DEFINE f == [k \in S |-> queueList[k]]
  <2>1. f \in Surjection(S, P)
    BY <1>3 DEF Surjection
  <2>2. IsFiniteSet(P) /\ Cardinality(P) <= Cardinality(S)
    BY <1>2, <2>1, FS_Surjection
  <2> QED
    BY <2>2, FS_CardinalityType
<1>5. IsFiniteSet(K) /\ Cardinality(K) \in Nat
  BY <1>1, FS_Subset, FS_CardinalityType
<1>6. CalledPids' \in SUBSET (K \cup P)
  <2>1. callList' = [p \in Pid |-> IF p \in P THEN 1 ELSE kept[p]]
    BY <1>3 DEF CallNumbers, S
  <2> QED
    BY <2>1 DEF CalledPids
<1>7. IsFiniteSet(K \cup P) /\ Cardinality(K \cup P) \in Nat
      /\ Cardinality(K \cup P) <= Cardinality(K) + Cardinality(P)
  <2> HIDE DEF K
  <2>1. IsFiniteSet(K \cap P)
    <3>1. K \cap P \in SUBSET P
      OBVIOUS
    <3> QED
      BY <1>4, <3>1, FS_Subset
  <2>2. Cardinality(K \cap P) \in Nat
    BY <2>1, FS_CardinalityType
  <2>3. IsFiniteSet(K \cup P) /\ Cardinality(K \cup P) =
          Cardinality(K) + Cardinality(P) - Cardinality(K \cap P)
    BY <1>4, <1>5, FS_Union
  <2>4. Cardinality(K \cup P) \in Nat
    BY <2>3, FS_CardinalityType
  <2> QED
    BY <1>4, <1>5, <2>2, <2>3, <2>4
<1>8. IsFiniteSet(CalledPids') /\ Cardinality(CalledPids') \in Nat
      /\ Cardinality(CalledPids') <= Cardinality(K \cup P)
  <2> HIDE DEF K
  <2> QED
    BY <1>6, <1>7, FS_Subset, FS_CardinalityType
<1> HIDE DEF K
<1>9. Cardinality(CalledPids') <= Cardinality(K) + (IF n > 0 THEN n ELSE 0)
  BY <1>2, <1>4, <1>5, <1>7, <1>8
<1> QED
  BY <1>5, <1>8, <1>9 DEF K

\* A run of n calls adds n players, as long as someone is left waiting.
LEMMA CallsAddAtLeast ==
  ASSUME TypeOK, QueueInverse,
         NEW n \in Int,
         NEW kept \in [Pid -> 0..(KeepChecks + 1)],
         \A p \in Pid : queuePlayers[p] # 0 => kept[p] = 0,
         CallNumbers(n, kept),
         NEW q \in Pid, queuePlayers[q] # 0, q \notin NextPids(n)
  PROVE  /\ Cardinality({p \in Pid : kept[p] > 0}) \in Nat
         /\ Cardinality(CalledPids') \in Nat
         /\ Cardinality(CalledPids') >= Cardinality({p \in Pid : kept[p] > 0}) + n
<1> DEFINE K == {p \in Pid : kept[p] > 0}
           S == NextNumbers(n)
           P == NextPids(n)
           f == [k \in S |-> queueList[k]]
<1>1. S \in SUBSET WaitingNumbers /\ IsFiniteSet(S) /\ Cardinality(S) \in Nat
      /\ S \in SUBSET Number
  BY CallsAtMost, WaitingFinite
<1>2. Cardinality(S) >= n
  <2>1. queuePlayers[q] \in WaitingNumbers
    BY LoginQueueAssumption DEF TypeOK, QueueInverse, WaitingNumbers, Number
  <2>2. queuePlayers[q] \notin S
    BY DEF NextPids, QueueInverse
  <2> QED
    BY <2>1, <2>2, CallsAtLeast
<1>3. \A k \in S : queueList[k] \in Pid /\ queuePlayers[queueList[k]] = k
  BY <1>1 DEF WaitingNumbers, TypeOK, QueueInverse
<1>4. P = {queueList[k] : k \in S}
  BY DEF NextPids
<1>5. \A p \in P : p \in Pid /\ p \notin K
  BY CalledPlayersWaited
<1>6. callList' = [p \in Pid |-> IF p \in P THEN 1 ELSE kept[p]]
  BY <1>4 DEF CallNumbers
<1>7. CalledPids' = K \cup P
  BY <1>5, <1>6 DEF CalledPids
<1> HIDE DEF S, P
<1>8. IsFiniteSet(P) /\ Cardinality(P) = Cardinality(S)
  <2>1. f \in Surjection(S, P)
    BY <1>4 DEF Surjection
  <2>2. f \in Injection(S, P)
    BY <1>3, <1>4 DEF Injection, IsInjective
  <2> HIDE DEF f
  <2> QED
    BY <1>1, <2>1, <2>2, FS_Surjection
<1>9. IsFiniteSet(K) /\ Cardinality(K) \in Nat
  BY LoginQueueAssumption, FS_Subset, FS_CardinalityType
<1>10. K \cap P = {}
  BY <1>5
<1> HIDE DEF K
<1>11. Cardinality(K \cup P) = Cardinality(K) + Cardinality(P) - Cardinality(K \cap P)
  BY <1>8, <1>9, FS_Union
<1>12. Cardinality(K \cap P) = 0
  BY <1>10, FS_EmptySet
<1>13. Cardinality(CalledPids') \in Nat /\ Cardinality(CalledPids') >= Cardinality(K) + n
  BY <1>1, <1>2, <1>7, <1>8, <1>9, <1>11, <1>12
<1> QED
  BY <1>9, <1>13 DEF K

\* The counts of called, of timed-out and of admitted players are numbers.
LEMMA CountsAreNat ==
  ASSUME TypeOK
  PROVE  /\ IsFiniteSet(CalledPids) /\ Cardinality(CalledPids) \in Nat
         /\ IsFiniteSet(TimedOut) /\ Cardinality(TimedOut) \in Nat
         /\ GetOnlineTotCnt \in Nat
<1>1. CalledPids \in SUBSET Pid /\ TimedOut \in SUBSET Pid
  BY DEF CalledPids, TimedOut
<1>2. IsFiniteSet(CalledPids) /\ IsFiniteSet(TimedOut)
  BY <1>1, LoginQueueAssumption, FS_Subset
<1>3. Cardinality(CalledPids) \in Nat /\ Cardinality(TimedOut) \in Nat
  BY <1>2, FS_CardinalityType
<1> QED
  BY <1>2, <1>3 DEF GetOnlineTotCnt, TypeOK

LEMMA InitIInv == Init => IInv
  BY LoginQueueAssumption, FS_EmptySet
  DEF Init, IInv, TypeOK, OnlineCntExact, QueueInverse, OnePlace, HandleWhileWaiting, NoIdleSlot, Number

-----------------------------------------------------------------------------
(***************************************************************************)
(* Every action keeps the invariant                                        *)
(***************************************************************************)

\* A player enters: its call, if it had one, becomes its place online.
LEMMA OnLoginIInv ==
  ASSUME IInv, NEW p \in Pid, ~NeedQueue(p), OnLogin(p)
  PROVE  IInv'
<1> USE DEF IInv
<1>1. IsFiniteSet(online)
  BY LoginQueueAssumption, FS_Subset DEF TypeOK
<1>2. TypeOK'
  BY LoginQueueAssumption DEF TypeOK, OnLogin
<1>3. OnlineCntExact'
  BY <1>1, FS_AddElement DEF OnLogin, OnlineCntExact
<1>4. QueueInverse'
  BY DEF QueueInverse, OnLogin
<1>5. queuePlayers[p] = 0
  <2> SUFFICES ASSUME queuePlayers[p] # 0
               PROVE  FALSE
    OBVIOUS
  <2>1. queuePlayers[p] \in Number /\ queueList[queuePlayers[p]] # None
    BY LoginQueueAssumption DEF TypeOK, QueueInverse, Number
  <2> QED
    BY <2>1 DEF NeedQueue, OnePlace, TypeOK
<1>6. OnePlace'
  BY <1>5 DEF OnePlace, OnLogin, TypeOK
<1>7. HandleWhileWaiting'
  BY <1>5 DEF HandleWhileWaiting, OnLogin, TypeOK
<1>8. NoIdleSlot'
  <2>1. IsFiniteSet(CalledPids) /\ Cardinality(CalledPids) \in Nat
    BY CountsAreNat
  <2>2. CalledPids' = CalledPids \ {p}
    BY DEF CalledPids, OnLogin, TypeOK
  <2>3. Cardinality(CalledPids') = IF p \in CalledPids THEN Cardinality(CalledPids) - 1
                                                       ELSE Cardinality(CalledPids)
    BY <2>1, <2>2, FS_RemoveElement
  <2>4. p \in CalledPids => p \notin online
    BY DEF OnePlace, CalledPids
  <2>5. GetOnlineTotCnt' >= GetOnlineTotCnt
    BY <2>1, <2>3, <2>4 DEF GetOnlineTotCnt, OnLogin, TypeOK
  <2>6. queuePlayers' = queuePlayers /\ onlineLimit' = onlineLimit
    BY DEF OnLogin
  <2>7. GetOnlineTotCnt \in Nat /\ GetOnlineTotCnt' \in Int /\ onlineLimit \in Nat
    BY <2>1, <2>3 DEF GetOnlineTotCnt, OnLogin, TypeOK
  <2> QED
    BY <2>5, <2>6, <2>7 DEF NoIdleSlot
<1> QED
  BY <1>2, <1>3, <1>4, <1>6, <1>7, <1>8

\* A player joins the line, or comes back to it with another socket.
LEMMA PendingQueueIInv ==
  ASSUME IInv, NEW p \in Pid, NEW h \in Handle, NeedQueue(p), PendingQueue(p, h)
  PROVE  IInv'
<1> USE DEF IInv
<1>1. p \notin online /\ callList[p] = 0
  BY DEF NeedQueue
<1>2. CASE queuePlayers[p] # 0
  <2>1. playerHandles' = [playerHandles EXCEPT ![p] = h]
        /\ UNCHANGED <<callNumber, lastNumber, queueList, queuePlayers, callList,
                       online, onlineCnt, onlineLimit>>
    BY <1>2 DEF PendingQueue
  <2> QED
    BY <2>1, <1>2, LoginQueueAssumption
    DEF TypeOK, OnlineCntExact, QueueInverse, OnePlace, HandleWhileWaiting,
        NoIdleSlot, GetOnlineTotCnt, CalledPids
<1>3. CASE queuePlayers[p] = 0
  <2> DEFINE k == lastNumber + 1
  <2>1. /\ k \in Number /\ lastNumber' = k
        /\ queueList' = [queueList EXCEPT ![k] = p]
        /\ queuePlayers' = [queuePlayers EXCEPT ![p] = k]
        /\ playerHandles' = [playerHandles EXCEPT ![p] = h]
        /\ UNCHANGED <<callNumber, callList, online, onlineCnt, onlineLimit>>
    BY <1>3, LoginQueueAssumption DEF PendingQueue, TypeOK, Number
  <2>2. queueList[k] = None
    BY <2>1, LoginQueueAssumption DEF QueueInverse, TypeOK, Number
  <2>3. k \notin {0} /\ callNumber < k
    BY LoginQueueAssumption DEF TypeOK, QueueInverse
  <2>4. TypeOK'
    BY <2>1, LoginQueueAssumption DEF TypeOK, Number
  <2>5. QueueInverse'
    BY <1>3, <2>1, <2>2, <2>3, LoginQueueAssumption DEF QueueInverse, TypeOK, Number
  <2>6. OnlineCntExact'
    BY <2>1 DEF OnlineCntExact
  <2>7. OnePlace' /\ HandleWhileWaiting'
    BY <1>1, <2>1, <2>3, LoginQueueAssumption DEF OnePlace, HandleWhileWaiting, TypeOK
  <2>8. GetOnlineTotCnt >= onlineLimit
    <3>1. ASSUME NEW j \in Number, queueList[j] # None
          PROVE  \E q \in Pid : queuePlayers[q] # 0
      BY <3>1, LoginQueueAssumption DEF QueueInverse, TypeOK, Number
    <3> QED
      BY <3>1 DEF NeedQueue, NoIdleSlot
  <2>9. NoIdleSlot'
    BY <2>1, <2>8 DEF NoIdleSlot, GetOnlineTotCnt, CalledPids
  <2> QED
    BY <2>4, <2>5, <2>6, <2>7, <2>9
<1> QED
  BY <1>2, <1>3

\* A player leaves, and the first of the line is called.
LEMMA OnLogoutIInv ==
  ASSUME IInv, NEW p \in Pid, OnLogout(p)
  PROVE  IInv'
<1> USE DEF IInv
<1> DEFINE P == NextPids(1)
<1>1. /\ CallNumbers(1, callList) /\ lastNumber' = lastNumber
      /\ online' = online \ {p}
      /\ onlineCnt' = IF p \in online THEN onlineCnt - 1 ELSE onlineCnt
      /\ playerHandles' = playerHandles /\ onlineLimit' = onlineLimit
  BY DEF OnLogout
<1>2. callList \in [Pid -> 0..(KeepChecks + 1)]
  BY DEF TypeOK
<1>3. \A q \in P : q \in Pid /\ queuePlayers[q] # 0
  BY CalledPlayersWaited
<1>4. /\ callNumber' \in 0..MaxNumber
      /\ queueList' \in [Number -> Pid \cup {None}]
      /\ queuePlayers' \in [Pid -> 0..MaxNumber]
      /\ callList' \in [Pid -> 0..(KeepChecks + 1)]
      /\ QueueInverse'
      /\ \A q \in Pid :
           /\ q \in P => queuePlayers'[q] = 0 /\ callList'[q] = 1
           /\ q \notin P => queuePlayers'[q] = queuePlayers[q] /\ callList'[q] = callList[q]
  BY <1>1, <1>2, CallNumbersKeeps
<1> HIDE DEF P
<1>5. IsFiniteSet(online) /\ Cardinality(online) \in Nat
  BY LoginQueueAssumption, FS_Subset, FS_CardinalityType DEF TypeOK
<1>6. OnlineCntExact' /\ onlineCnt' \in Nat
  BY <1>1, <1>5, FS_RemoveElement, FS_CardinalityType DEF OnlineCntExact
<1>7. TypeOK'
  BY <1>1, <1>4, <1>6 DEF TypeOK
<1>8. OnePlace'
  BY <1>1, <1>3, <1>4 DEF OnePlace, TypeOK
<1>9. HandleWhileWaiting'
  BY <1>1, <1>3, <1>4 DEF HandleWhileWaiting, TypeOK
<1>10. NoIdleSlot'
  <2> SUFFICES ASSUME NEW q \in Pid, queuePlayers'[q] # 0
               PROVE  GetOnlineTotCnt' >= onlineLimit'
    BY DEF NoIdleSlot
  <2>1. queuePlayers[q] # 0 /\ q \notin P
    BY <1>4
  <2>2. onlineCnt + Cardinality(CalledPids) >= onlineLimit
    BY <2>1 DEF NoIdleSlot, GetOnlineTotCnt
  <2>3. \A r \in Pid : queuePlayers[r] # 0 => callList[r] = 0
    BY <1>2 DEF OnePlace
  <2>4. {r \in Pid : callList[r] > 0} = CalledPids
    BY DEF CalledPids
  <2>5. /\ Cardinality({r \in Pid : callList[r] > 0}) \in Nat
        /\ Cardinality(CalledPids') \in Nat
        /\ Cardinality(CalledPids') >= Cardinality({r \in Pid : callList[r] > 0}) + 1
    BY <1>1, <1>2, <2>1, <2>3, CallsAddAtLeast DEF P
  <2>6. GetOnlineTotCnt' = onlineCnt' + Cardinality(CalledPids')
        /\ onlineCnt \in Nat /\ onlineLimit \in Nat
    BY DEF GetOnlineTotCnt, TypeOK
  <2>7. /\ Cardinality(CalledPids) \in Nat /\ Cardinality(CalledPids') \in Nat
        /\ Cardinality(CalledPids') >= Cardinality(CalledPids) + 1
    BY <2>4, <2>5, Zenon
  <2>8. onlineLimit' = onlineLimit
    BY <1>1
  <2> QED
    BY <1>1, <2>2, <2>6, <2>7, <2>8
<1> QED
  BY <1>4, <1>6, <1>7, <1>8, <1>9, <1>10

\* A player leaves the line.
LEMMA QuitQueueIInv ==
  ASSUME IInv, NEW p \in Pid, QuitQueue(p)
  PROVE  IInv'
<1> USE DEF IInv
<1>1. queuePlayers[p] \in Number /\ queueList[queuePlayers[p]] = p
  BY LoginQueueAssumption DEF QuitQueue, TypeOK, QueueInverse, Number
<1>2. TypeOK' /\ OnlineCntExact'
  BY <1>1, LoginQueueAssumption DEF QuitQueue, TypeOK, OnlineCntExact
<1>3. QueueInverse'
  BY <1>1, LoginQueueAssumption DEF QuitQueue, TypeOK, QueueInverse, Number
<1>4. OnePlace' /\ HandleWhileWaiting'
  BY <1>1, LoginQueueAssumption DEF QuitQueue, TypeOK, OnePlace, HandleWhileWaiting
<1>5. NoIdleSlot'
  BY DEF QuitQueue, NoIdleSlot, GetOnlineTotCnt, CalledPids, TypeOK
<1> QED
  BY <1>2, <1>3, <1>4, <1>5

\* The limit changes, and as many numbers are called as it rose by.
LEMMA SetOnlinePlayerLimitIInv ==
  ASSUME IInv, NEW limit \in Limits, SetOnlinePlayerLimit(limit)
  PROVE  IInv'
<1> USE DEF IInv
<1> DEFINE n == limit - onlineLimit
           P == NextPids(n)
<1>1. /\ CallNumbers(n, callList) /\ lastNumber' = lastNumber
      /\ online' = online /\ onlineCnt' = onlineCnt
      /\ playerHandles' = playerHandles /\ onlineLimit' = limit
      /\ n \in Int /\ limit \in Nat
  BY LoginQueueAssumption DEF SetOnlinePlayerLimit, TypeOK
<1> HIDE DEF n
<1>2. callList \in [Pid -> 0..(KeepChecks + 1)]
  BY DEF TypeOK
<1>3. \A q \in P : q \in Pid /\ queuePlayers[q] # 0
  BY <1>1, CalledPlayersWaited
<1>4. /\ callNumber' \in 0..MaxNumber
      /\ queueList' \in [Number -> Pid \cup {None}]
      /\ queuePlayers' \in [Pid -> 0..MaxNumber]
      /\ callList' \in [Pid -> 0..(KeepChecks + 1)]
      /\ QueueInverse'
      /\ \A q \in Pid :
           /\ q \in P => queuePlayers'[q] = 0 /\ callList'[q] = 1
           /\ q \notin P => queuePlayers'[q] = queuePlayers[q] /\ callList'[q] = callList[q]
  BY <1>1, <1>2, CallNumbersKeeps
<1> HIDE DEF P
<1>5. TypeOK' /\ OnlineCntExact'
  BY <1>1, <1>4 DEF TypeOK, OnlineCntExact
<1>6. OnePlace' /\ HandleWhileWaiting'
  BY <1>1, <1>3, <1>4 DEF OnePlace, HandleWhileWaiting, TypeOK
<1>7. NoIdleSlot'
  <2> SUFFICES ASSUME NEW q \in Pid, queuePlayers'[q] # 0
               PROVE  GetOnlineTotCnt' >= onlineLimit'
    BY DEF NoIdleSlot
  <2>1. queuePlayers[q] # 0 /\ q \notin P
    BY <1>4
  <2>2. onlineCnt + Cardinality(CalledPids) >= onlineLimit
    BY <2>1 DEF NoIdleSlot, GetOnlineTotCnt
  <2>3. \A r \in Pid : queuePlayers[r] # 0 => callList[r] = 0
    BY <1>2 DEF OnePlace
  <2>4. {r \in Pid : callList[r] > 0} = CalledPids
    BY DEF CalledPids
  <2>5. /\ Cardinality({r \in Pid : callList[r] > 0}) \in Nat
        /\ Cardinality(CalledPids') \in Nat
        /\ Cardinality(CalledPids') >= Cardinality({r \in Pid : callList[r] > 0}) + n
    BY <1>1, <1>2, <2>1, <2>3, CallsAddAtLeast DEF P
  <2>6. GetOnlineTotCnt' = onlineCnt' + Cardinality(CalledPids')
        /\ onlineCnt \in Nat /\ onlineLimit \in Nat
    BY DEF GetOnlineTotCnt, TypeOK
  <2>7. /\ Cardinality(CalledPids) \in Nat /\ Cardinality(CalledPids') \in Nat
        /\ Cardinality(CalledPids') >= Cardinality(CalledPids) + n
    BY <2>4, <2>5, Zenon
  <2>8. onlineLimit' = limit
    BY <1>1
  <2> QED
    BY <1>1, <2>2, <2>6, <2>7, <2>8 DEF n
<1> QED
  BY <1>4, <1>5, <1>6, <1>7

\* The calls the minute check keeps are those that did not time out.
LEMMA KeptCalls ==
  ASSUME TypeOK
  PROVE  Cardinality({r \in Pid : [p \in Pid |-> IF p \in TimedOut \/ callList[p] = 0
                                               THEN 0 ELSE callList[p] + 1][r] > 0})
           = Cardinality(CalledPids) - Cardinality(TimedOut)
<1> DEFINE K == {r \in Pid : [p \in Pid |-> IF p \in TimedOut \/ callList[p] = 0
                                           THEN 0 ELSE callList[p] + 1][r] > 0}
<1>1. K = CalledPids \ TimedOut
  BY DEF CalledPids, TypeOK
<1>2. TimedOut \in SUBSET CalledPids
  BY LoginQueueAssumption DEF TimedOut, CalledPids, TypeOK
<1>3. CalledPids \cap TimedOut = TimedOut
  BY <1>2
<1>4. Cardinality(CalledPids \ TimedOut)
        = Cardinality(CalledPids) - Cardinality(CalledPids \cap TimedOut)
  BY CountsAreNat, FS_Difference
<1> HIDE DEF K
<1>5. Cardinality(K) = Cardinality(CalledPids) - Cardinality(TimedOut)
  BY <1>1, <1>3, <1>4
<1> QED
  BY <1>5 DEF K

\* The minute check drops the calls that timed out, with their sockets.
LEMMA CheckTimeOutIInv ==
  ASSUME IInv, _CheckTimeOut
  PROVE  IInv'
<1> USE DEF IInv
<1> DEFINE n == Cardinality(TimedOut) + Max({onlineLimit - GetOnlineTotCnt, 0})
           kept == [p \in Pid |-> IF p \in TimedOut \/ callList[p] = 0
                                  THEN 0 ELSE callList[p] + 1]
           P == NextPids(n)
<1>1. /\ CallNumbers(n, kept) /\ lastNumber' = lastNumber
      /\ online' = online /\ onlineCnt' = onlineCnt /\ onlineLimit' = onlineLimit
      /\ playerHandles' = [p \in Pid |-> IF p \in TimedOut THEN None ELSE playerHandles[p]]
  BY DEF _CheckTimeOut
<1>2. n \in Int
  BY CountsAreNat, MaxOfPair DEF TypeOK
<1>3. kept \in [Pid -> 0..(KeepChecks + 1)]
  BY LoginQueueAssumption DEF TypeOK, TimedOut
<1>4. \A p \in Pid : (kept[p] > 0 => callList[p] > 0) /\ (callList[p] > 0 => kept[p] > 0 \/ p \in TimedOut)
                     /\ (p \in TimedOut => kept[p] = 0 /\ callList[p] > 0)
  BY LoginQueueAssumption DEF TypeOK, TimedOut
<1> HIDE DEF n, kept
<1>5. \A q \in P : q \in Pid /\ queuePlayers[q] # 0
  BY <1>2, CalledPlayersWaited
<1>6. /\ callNumber' \in 0..MaxNumber
      /\ queueList' \in [Number -> Pid \cup {None}]
      /\ queuePlayers' \in [Pid -> 0..MaxNumber]
      /\ callList' \in [Pid -> 0..(KeepChecks + 1)]
      /\ QueueInverse'
      /\ \A q \in Pid :
           /\ q \in P => queuePlayers'[q] = 0 /\ callList'[q] = 1
           /\ q \notin P => queuePlayers'[q] = queuePlayers[q] /\ callList'[q] = kept[q]
  BY <1>1, <1>2, <1>3, CallNumbersKeeps
<1> HIDE DEF P
<1>7. TypeOK' /\ OnlineCntExact'
  BY <1>1, <1>6 DEF TypeOK, OnlineCntExact
<1>8. OnePlace'
  BY <1>1, <1>3, <1>4, <1>5, <1>6 DEF OnePlace, TypeOK
<1>9. HandleWhileWaiting'
  BY <1>1, <1>3, <1>4, <1>5, <1>6 DEF HandleWhileWaiting, OnePlace, TypeOK
<1>10. NoIdleSlot'
  <2> SUFFICES ASSUME NEW q \in Pid, queuePlayers'[q] # 0
               PROVE  GetOnlineTotCnt' >= onlineLimit'
    BY DEF NoIdleSlot
  <2>1. queuePlayers[q] # 0 /\ q \notin P
    BY <1>6
  <2>2. \A r \in Pid : queuePlayers[r] # 0 => kept[r] = 0
    BY <1>3, <1>4 DEF OnePlace, TypeOK
  <2>3. /\ Cardinality({r \in Pid : kept[r] > 0}) \in Nat
        /\ Cardinality(CalledPids') \in Nat
        /\ Cardinality(CalledPids') >= Cardinality({r \in Pid : kept[r] > 0}) + n
    BY <1>1, <1>2, <1>3, <2>1, <2>2, CallsAddAtLeast DEF P
  <2>4. Cardinality({r \in Pid : kept[r] > 0}) = Cardinality(CalledPids) - Cardinality(TimedOut)
    BY KeptCalls DEF kept
  <2>5. /\ Cardinality(CalledPids) \in Nat /\ Cardinality(TimedOut) \in Nat
        /\ onlineCnt \in Nat /\ onlineLimit \in Nat
    BY CountsAreNat DEF TypeOK
  <2>6. n >= Cardinality(TimedOut) + (onlineLimit - GetOnlineTotCnt)
    BY <2>5, CountsAreNat, MaxOfPair DEF n
  <2>7. GetOnlineTotCnt = onlineCnt + Cardinality(CalledPids)
        /\ GetOnlineTotCnt' = onlineCnt' + Cardinality(CalledPids')
    BY DEF GetOnlineTotCnt
  <2> QED
    BY <1>1, <1>2, <2>3, <2>4, <2>5, <2>6, <2>7
<1> QED
  BY <1>6, <1>7, <1>8, <1>9, <1>10

\* Nothing happens.
LEMMA StutterIInv ==
  ASSUME IInv, UNCHANGED vars
  PROVE  IInv'
  BY DEF vars, IInv, TypeOK, OnlineCntExact, QueueInverse, OnePlace, HandleWhileWaiting,
         NoIdleSlot, GetOnlineTotCnt, CalledPids

\* The queue's tables agree in every reachable state.
THEOREM Invariance == Spec => []IInv
<1>1. Init => IInv
  BY InitIInv
<1>2. IInv /\ [Next]_vars => IInv'
  <2> SUFFICES ASSUME IInv, [Next]_vars
               PROVE  IInv'
    OBVIOUS
  <2>1. ASSUME NEW p \in Pid, NEW h \in Handle, ValidLogin(p, h)
        PROVE  IInv'
    BY <2>1, OnLoginIInv, PendingQueueIInv DEF ValidLogin
  <2>2. ASSUME NEW p \in Pid, OnLogout(p)
        PROVE  IInv'
    BY <2>2, OnLogoutIInv
  <2>3. ASSUME NEW p \in Pid, QuitQueue(p)
        PROVE  IInv'
    BY <2>3, QuitQueueIInv
  <2>4. ASSUME NEW limit \in Limits, SetOnlinePlayerLimit(limit)
        PROVE  IInv'
    BY <2>4, SetOnlinePlayerLimitIInv
  <2>5. CASE _CheckTimeOut
    BY <2>5, CheckTimeOutIInv
  <2>6. CASE UNCHANGED vars
    BY <2>6, StutterIInv
  <2> QED
    BY <2>1, <2>2, <2>3, <2>4, <2>5, <2>6 DEF Next
<1> QED
  BY <1>1, <1>2, PTL DEF Spec

\* Every variable keeps its type, whatever the number of players and tickets.
THEOREM TypeCorrect == Spec => []TypeOK
  BY Invariance, PTL DEF IInv

\* m_iOnlineCnt is the number of online players, for ever.
THEOREM OnlineCounted == Spec => []OnlineCntExact
  BY Invariance, PTL DEF IInv

\* m_mQueueList and m_mQueuePlayers describe one line, for ever.
THEOREM TablesInverse == Spec => []QueueInverse
  BY Invariance, PTL DEF IInv

\* No player is counted twice: waiting, called and online exclude each other.
THEOREM OnePlaceEach == Spec => []OnePlace
  BY Invariance, PTL DEF IInv

\* The sockets remembered are those of the waiting and of the called players.
THEOREM HandlesKept == Spec => []HandleWhileWaiting
  BY Invariance, PTL DEF IInv

\* The counters, the two queue tables and the sockets beside them describe one
\* line, whatever the order of logins, logouts, calls and quits.
THEOREM OneLine == Spec => []TablesAgree
  BY Invariance, PTL DEF IInv, TablesAgree

\* The queue is work-conserving: nobody ever waits while a slot is free.
THEOREM SlotsUsed == Spec => []NoIdleSlot
  BY Invariance, PTL DEF IInv

-----------------------------------------------------------------------------
(***************************************************************************)
(* Admission                                                               *)
(***************************************************************************)

\* A login keeps the count, or takes it up to the limit at most.
LEMMA OnLoginAdmits ==
  ASSUME IInv, NEW p \in Pid, ~NeedQueue(p), OnLogin(p),
         GetOnlineTotCnt' > GetOnlineTotCnt
  PROVE  ~(GetOnlineTotCnt' > onlineLimit')
<1> USE DEF IInv
<1>1. IsFiniteSet(CalledPids) /\ Cardinality(CalledPids) \in Nat /\ GetOnlineTotCnt \in Nat
  BY CountsAreNat
<1>2. onlineCnt \in Nat /\ onlineLimit \in Nat /\ onlineLimit' = onlineLimit
  BY DEF TypeOK, OnLogin
<1>3. CalledPids' = CalledPids \ {p}
  BY DEF CalledPids, OnLogin, TypeOK
<1>4. Cardinality(CalledPids') = IF p \in CalledPids THEN Cardinality(CalledPids) - 1
                                                     ELSE Cardinality(CalledPids)
  BY <1>1, <1>3, FS_RemoveElement
<1>5. onlineCnt' = IF p \in online THEN onlineCnt ELSE onlineCnt + 1
  BY DEF OnLogin
<1>6. p \notin CalledPids /\ p \notin online
  BY <1>1, <1>2, <1>4, <1>5 DEF GetOnlineTotCnt
<1>7. GetOnlineTotCnt < onlineLimit
  BY <1>1, <1>2, <1>6 DEF NeedQueue, CalledPids, TypeOK
<1> QED
  BY <1>1, <1>2, <1>4, <1>5, <1>6, <1>7 DEF GetOnlineTotCnt

\* The logout of an online player adds nobody to the count.
LEMMA OnLogoutAdmits ==
  ASSUME IInv, NEW p \in online, OnLogout(p)
  PROVE  ~(GetOnlineTotCnt' > GetOnlineTotCnt)
<1> USE DEF IInv
<1>1. callList \in [Pid -> 0..(KeepChecks + 1)] /\ onlineCnt \in Nat
  BY DEF TypeOK
<1>2. CallNumbers(1, callList) /\ lastNumber' = lastNumber /\ onlineCnt' = onlineCnt - 1
  BY DEF OnLogout
<1>3. {r \in Pid : callList[r] > 0} = CalledPids
  BY DEF CalledPids
<1>4. /\ Cardinality({r \in Pid : callList[r] > 0}) \in Nat
      /\ Cardinality(CalledPids') \in Nat
      /\ Cardinality(CalledPids') <= Cardinality({r \in Pid : callList[r] > 0})
                                      + (IF 1 > 0 THEN 1 ELSE 0)
  BY <1>1, <1>2, CallsAddAtMost
<1> QED
  BY <1>1, <1>2, <1>3, <1>4 DEF GetOnlineTotCnt

\* A lower limit calls nobody.
LEMMA SetOnlinePlayerLimitAdmits ==
  ASSUME IInv, NEW limit \in Limits, SetOnlinePlayerLimit(limit),
         GetOnlineTotCnt' > GetOnlineTotCnt
  PROVE  onlineLimit' > onlineLimit
<1> USE DEF IInv
<1> DEFINE n == limit - onlineLimit
<1>1. callList \in [Pid -> 0..(KeepChecks + 1)] /\ onlineCnt \in Nat /\ onlineLimit \in Nat
      /\ limit \in Nat /\ n \in Int
  BY LoginQueueAssumption DEF TypeOK
<1>2. CallNumbers(n, callList) /\ lastNumber' = lastNumber /\ onlineCnt' = onlineCnt
      /\ onlineLimit' = limit
  BY DEF SetOnlinePlayerLimit
<1> HIDE DEF n
<1>3. {r \in Pid : callList[r] > 0} = CalledPids
  BY DEF CalledPids
<1>4. /\ Cardinality({r \in Pid : callList[r] > 0}) \in Nat
      /\ Cardinality(CalledPids') \in Nat
      /\ Cardinality(CalledPids') <= Cardinality({r \in Pid : callList[r] > 0})
                                      + (IF n > 0 THEN n ELSE 0)
  BY <1>1, <1>2, CallsAddAtMost
<1>5. n > 0
  BY <1>1, <1>2, <1>3, <1>4 DEF GetOnlineTotCnt
<1> QED
  BY <1>1, <1>2, <1>5 DEF n

\* The minute check refills the lost calls and the free slots, no more.
LEMMA CheckTimeOutAdmits ==
  ASSUME IInv, _CheckTimeOut, GetOnlineTotCnt' > GetOnlineTotCnt
  PROVE  ~(GetOnlineTotCnt' > onlineLimit')
<1> USE DEF IInv
<1> DEFINE free == onlineLimit - GetOnlineTotCnt
           n == Cardinality(TimedOut) + Max({free, 0})
           kept == [p \in Pid |-> IF p \in TimedOut \/ callList[p] = 0
                                  THEN 0 ELSE callList[p] + 1]
           K == {p \in Pid : kept[p] > 0}
<1>1. /\ CallNumbers(n, kept) /\ lastNumber' = lastNumber
      /\ onlineCnt' = onlineCnt /\ onlineLimit' = onlineLimit
      /\ onlineCnt \in Nat /\ onlineLimit \in Nat
  BY DEF _CheckTimeOut, TypeOK
<1>2. /\ IsFiniteSet(CalledPids) /\ Cardinality(CalledPids) \in Nat
      /\ IsFiniteSet(TimedOut) /\ Cardinality(TimedOut) \in Nat
      /\ GetOnlineTotCnt \in Nat
  BY CountsAreNat
<1>3. free \in Int /\ n \in Nat
      /\ n = Cardinality(TimedOut) + (IF free > 0 THEN free ELSE 0)
  BY <1>1, <1>2, MaxOfPair
<1>4. kept \in [Pid -> 0..(KeepChecks + 1)]
  BY LoginQueueAssumption DEF TypeOK, TimedOut
<1>5. Cardinality(K) = Cardinality(CalledPids) - Cardinality(TimedOut)
  BY KeptCalls
<1> HIDE DEF n, kept
<1>8. /\ Cardinality(CalledPids') <= Cardinality(K) + (IF n > 0 THEN n ELSE 0)
      /\ Cardinality(CalledPids') \in Nat /\ Cardinality(K) \in Nat
  <2>1. n \in Int
    BY <1>3
  <2> QED
    BY <1>1, <1>4, <2>1, CallsAddAtMost
<1> HIDE DEF K
<1>10. onlineCnt + Cardinality(CalledPids) = GetOnlineTotCnt
       /\ GetOnlineTotCnt' = onlineCnt' + Cardinality(CalledPids')
  BY DEF GetOnlineTotCnt
<1> QED
  BY <1>1, <1>2, <1>3, <1>5, <1>8, <1>10

\* AdmitsWithinLimit: for every number of players and every limit, the count
\* of admitted players passes the limit only when the limit is raised, or when
\* the logout of a player that is not on the list calls a number.
THEOREM AdmissionBounded == Spec => AdmitsWithinLimit
<1> DEFINE A == GetOnlineTotCnt' > GetOnlineTotCnt /\ GetOnlineTotCnt' > onlineLimit' =>
                  \/ onlineLimit' > onlineLimit
                  \/ \E p \in Pid \ online : OnLogout(p)
<1>1. IInv /\ [Next]_vars => [A]_vars
  <2> SUFFICES ASSUME IInv, Next, GetOnlineTotCnt' > GetOnlineTotCnt,
                      GetOnlineTotCnt' > onlineLimit'
               PROVE  \/ onlineLimit' > onlineLimit
                      \/ \E p \in Pid \ online : OnLogout(p)
    OBVIOUS
  <2>1. CASE \E p \in Pid, h \in Handle : ValidLogin(p, h)
    <3>1. PICK p \in Pid, h \in Handle : ValidLogin(p, h)
      BY <2>1
    <3>2. CASE NeedQueue(p) /\ PendingQueue(p, h)
      BY <3>2, CountsAreNat DEF IInv, PendingQueue, GetOnlineTotCnt, CalledPids
    <3>3. CASE ~NeedQueue(p) /\ OnLogin(p)
      BY <3>3, OnLoginAdmits
    <3> QED
      BY <3>1, <3>2, <3>3 DEF ValidLogin
  <2>2. CASE \E p \in Pid : OnLogout(p)
    BY <2>2, OnLogoutAdmits
  <2>3. CASE \E p \in Pid : QuitQueue(p)
    BY <2>3, CountsAreNat DEF IInv, QuitQueue, GetOnlineTotCnt, CalledPids
  <2>4. CASE \E limit \in Limits : SetOnlinePlayerLimit(limit)
    BY <2>4, SetOnlinePlayerLimitAdmits
  <2>5. CASE _CheckTimeOut
    BY <2>5, CheckTimeOutAdmits
  <2> QED
    BY <2>1, <2>2, <2>3, <2>4, <2>5 DEF Next
<1> QED
  BY <1>1, Invariance, PTL DEF Spec, AdmitsWithinLimit

-----------------------------------------------------------------------------
(***************************************************************************)
(* The line                                                                *)
(***************************************************************************)

\* The numbers of a set have the ranks from 1 to their count, in their order.
LEMMA RankFacts ==
  ASSUME NEW S \in SUBSET Number
  PROVE  /\ IsFiniteSet(S) /\ Cardinality(S) \in Nat /\ S \subseteq Nat
         /\ \A k \in S : Rank(S, k) \in 1..Cardinality(S)
         /\ \A j, k \in S : j < k => Rank(S, j) < Rank(S, k)
         /\ \A k \in S : NumberAt(S, Rank(S, k)) = k
         /\ \A i \in 1..Cardinality(S) : NumberAt(S, i) \in S /\ Rank(S, NumberAt(S, i)) = i
<1> DEFINE UpTo(k) == {j \in S : j <= k}
           n == Cardinality(S)
           T == 1..n
           f == [k \in S |-> Rank(S, k)]
<1>1. /\ IsFiniteSet(S) /\ n \in Nat /\ S \subseteq Nat
      /\ \A A \in SUBSET S : IsFiniteSet(A) /\ Cardinality(A) \in Nat
  <2>1. IsFiniteSet(Number) /\ Number \subseteq Nat
    BY LoginQueueAssumption, FS_Interval DEF Number
  <2>2. \A A \in SUBSET S : IsFiniteSet(A) /\ Cardinality(A) \in Nat
    BY <2>1, FS_Subset, FS_CardinalityType
  <2> QED
    BY <2>1, <2>2
<1>2. ASSUME NEW k \in S
      PROVE  Rank(S, k) \in T
  <2>1. UpTo(k) \in SUBSET S /\ k \in UpTo(k)
    BY <1>1
  <2>2. Cardinality(UpTo(k)) <= n /\ Cardinality(UpTo(k)) # 0
    BY <1>1, <2>1, FS_Subset, FS_EmptySet
  <2>3. Rank(S, k) = Cardinality(UpTo(k))
    BY DEF Rank
  <2> HIDE DEF UpTo
  <2> QED
    BY <1>1, <2>1, <2>2, <2>3
<1>3. ASSUME NEW j \in S, NEW k \in S, j < k
      PROVE  Rank(S, j) < Rank(S, k)
  <2>1. UpTo(j) \in SUBSET UpTo(k) /\ k \in UpTo(k) /\ k \notin UpTo(j)
    <3>1. \A x \in S : x <= j => x <= k
      BY <1>1, <1>3
    <3>2. k <= k /\ ~(k <= j)
      BY <1>1, <1>3
    <3> QED
      BY <3>1, <3>2
  <2>2. UpTo(k) \in SUBSET S
    OBVIOUS
  <2>3. Rank(S, j) = Cardinality(UpTo(j)) /\ Rank(S, k) = Cardinality(UpTo(k))
    BY DEF Rank
  <2> HIDE DEF UpTo
  <2>4. /\ Cardinality(UpTo(j)) # Cardinality(UpTo(k))
        /\ Cardinality(UpTo(j)) <= Cardinality(UpTo(k))
    BY <1>1, <2>1, <2>2, FS_Subset
  <2>5. Cardinality(UpTo(j)) \in Nat /\ Cardinality(UpTo(k)) \in Nat
    BY <1>1, <2>1, <2>2
  <2> QED
    BY <2>3, <2>4, <2>5
<1>4. \A j, k \in S : Rank(S, j) = Rank(S, k) => j = k
  <2> SUFFICES ASSUME NEW j \in S, NEW k \in S, Rank(S, j) = Rank(S, k), j # k
               PROVE  FALSE
    OBVIOUS
  <2>1. j < k \/ k < j
    BY <1>1
  <2>2. Rank(S, j) \in T /\ Rank(S, k) \in T
    BY <1>2
  <2> QED
    BY <1>3, <2>1, <2>2
<1>5. f \in Injection(S, T)
  <2>1. f \in [S -> T]
    BY <1>2
  <2>2. \A j, k \in S : f[j] = f[k] => j = k
    BY <1>4
  <2> HIDE DEF f, T
  <2> QED
    BY <2>1, <2>2 DEF Injection, IsInjective
<1>6. IsFiniteSet(T) /\ Cardinality(T) = n
  BY <1>1, FS_Interval
<1>7. f \in Surjection(S, T)
  <2> HIDE DEF f, T
  <2> QED
    BY <1>5, <1>6, FS_Injection
<1>8. \A i \in T : \E k \in S : Rank(S, k) = i
  BY <1>7 DEF Surjection
<1>9. \A i \in T : NumberAt(S, i) \in S /\ Rank(S, NumberAt(S, i)) = i
  <2> HIDE DEF T
  <2> QED
    BY <1>8, Zenon DEF NumberAt
<1>10. \A k \in S : NumberAt(S, Rank(S, k)) = k
  <2> TAKE k \in S
  <2>1. NumberAt(S, Rank(S, k)) \in S /\ Rank(S, NumberAt(S, Rank(S, k))) = Rank(S, k)
    BY <1>2, <1>9
  <2> QED
    BY <1>4, <2>1
<1> QED
  BY <1>1, <1>2, <1>3, <1>9, <1>10

\* A set that lost the numbers of a subset: the ranks of the others fall by the
\* count of those below them.
LEMMA RankWithout ==
  ASSUME NEW S \in SUBSET Number, NEW N \in SUBSET S
  PROVE  /\ S \ N \in SUBSET Number
         /\ Cardinality(N) \in Nat
         /\ Cardinality(S \ N) = Cardinality(S) - Cardinality(N)
         /\ \A k \in S \ N : (\A j \in N : j < k) => Rank(S \ N, k) = Rank(S, k) - Cardinality(N)
         /\ \A k \in S \ N : (\A j \in N : k < j) => Rank(S \ N, k) = Rank(S, k)
<1>1. IsFiniteSet(S) /\ S \subseteq Nat
  BY RankFacts
<1>2. Cardinality(N) \in Nat
  BY <1>1, FS_Subset, FS_CardinalityType
<1>3. Cardinality(S \ N) = Cardinality(S) - Cardinality(N)
  <2>1. S \cap N = N
    OBVIOUS
  <2>2. Cardinality(S \ N) = Cardinality(S) - Cardinality(S \cap N)
    BY <1>1, FS_Difference, Zenon
  <2> QED
    BY <2>1, <2>2, Zenon
<1>4. ASSUME NEW k \in S \ N, \A j \in N : j < k
      PROVE  Rank(S \ N, k) = Rank(S, k) - Cardinality(N)
  <2> DEFINE U == {j \in S : j <= k}
  <2>1. \A j \in N : j <= k
    BY <1>1, <1>4
  <2>2. {j \in S \ N : j <= k} = U \ N /\ U \cap N = N
    BY <2>1
  <2>3. IsFiniteSet(U)
    BY <1>1, FS_Subset
  <2>4. Cardinality(U \ N) = Cardinality(U) - Cardinality(N)
    BY <2>2, <2>3, FS_Difference
  <2> QED
    BY <2>2, <2>4 DEF Rank
<1>5. ASSUME NEW k \in S \ N, \A j \in N : k < j
      PROVE  Rank(S \ N, k) = Rank(S, k)
  <2>1. \A j \in N : ~(j <= k)
    BY <1>1, <1>5
  <2>2. {j \in S \ N : j <= k} = {j \in S : j <= k}
    BY <2>1
  <2> QED
    BY <2>2 DEF Rank
<1> QED
  BY <1>2, <1>3, <1>4, <1>5

\* A number above all others is the last one.
LEMMA RankAbove ==
  ASSUME NEW S \in SUBSET Number, NEW m \in Number, \A k \in S : k < m
  PROVE  /\ S \cup {m} \in SUBSET Number
         /\ Cardinality(S \cup {m}) = Cardinality(S) + 1
         /\ \A k \in S : Rank(S \cup {m}, k) = Rank(S, k)
         /\ Rank(S \cup {m}, m) = Cardinality(S) + 1
<1>1. IsFiniteSet(S) /\ S \subseteq Nat /\ m \in Nat /\ m \notin S
  BY RankFacts, LoginQueueAssumption DEF Number
<1>2. Cardinality(S \cup {m}) = Cardinality(S) + 1
  BY <1>1, FS_AddElement
<1>3. ASSUME NEW k \in S PROVE Rank(S \cup {m}, k) = Rank(S, k)
  <2>1. ~(m <= k)
    BY <1>1
  <2>2. {j \in S \cup {m} : j <= k} = {j \in S : j <= k}
    BY <2>1
  <2> QED
    BY <2>2 DEF Rank
<1>4. Rank(S \cup {m}, m) = Cardinality(S \cup {m})
  <2>1. \A j \in S \cup {m} : j <= m
    BY <1>1
  <2>2. {j \in S \cup {m} : j <= m} = S \cup {m}
    BY <2>1
  <2> QED
    BY <2>2 DEF Rank
<1> QED
  BY <1>2, <1>3, <1>4

\* The first numbers of a set are its first by rank.
LEMMA FirstOnes ==
  ASSUME NEW S \in SUBSET Number, NEW n \in Int, NEW N, N = {k \in S : Rank(S, k) <= n}
  PROVE  /\ \A k \in N : Rank(S, k) <= Cardinality(N)
         /\ \A k \in S \ N : (\A j \in N : j < k) /\ Rank(S, k) > Cardinality(N)
<1>1. IsFiniteSet(S) /\ S \subseteq Nat /\ \A A \in SUBSET S : IsFiniteSet(A) /\ Cardinality(A) \in Nat
  BY RankFacts, FS_Subset, FS_CardinalityType
<1> DEFINE UpTo(k) == {j \in S : j <= k}
<1>2. \A k \in S : Rank(S, k) = Cardinality(UpTo(k)) /\ Rank(S, k) \in Nat
  BY <1>1 DEF Rank
<1>3. \A k \in S : Rank(S, k) \in Nat
  BY <1>2
<1>4. \A j, k \in S : j <= k => Rank(S, j) <= Rank(S, k)
  <2> SUFFICES ASSUME NEW j \in S, NEW k \in S, j <= k
               PROVE  Rank(S, j) <= Rank(S, k)
    OBVIOUS
  <2>1. UpTo(j) \in SUBSET UpTo(k) /\ UpTo(k) \in SUBSET S
    <3>1. \A x \in S : x <= j => x <= k
      BY <1>1
    <3> QED
      BY <3>1
  <2> HIDE DEF UpTo
  <2> QED
    BY <1>1, <1>2, <2>1, FS_Subset
<1>5. ASSUME NEW k \in N
      PROVE  Rank(S, k) <= Cardinality(N)
  <2>1. \A j \in UpTo(k) : Rank(S, j) <= n
    <3>1. k \in S /\ Rank(S, k) <= n
      OBVIOUS
    <3>2. \A j \in UpTo(k) : j \in S /\ Rank(S, j) <= Rank(S, k)
      BY <1>4, <3>1
    <3> HIDE DEF UpTo
    <3> QED
      BY <1>3, <3>1, <3>2
  <2>2. UpTo(k) \in SUBSET N /\ N \in SUBSET S
    BY <2>1
  <2> HIDE DEF UpTo
  <2> QED
    BY <1>1, <1>2, <2>2, FS_Subset
<1>6. ASSUME NEW k \in S \ N
      PROVE  (\A j \in N : j < k) /\ Rank(S, k) > Cardinality(N)
  <2>1. \A j \in N : j < k
    <3> SUFFICES ASSUME NEW j \in N, k <= j
                 PROVE  FALSE
      BY <1>1
    <3>1. j \in S /\ Rank(S, j) <= n /\ k \in S /\ ~(Rank(S, k) <= n)
      OBVIOUS
    <3>2. Rank(S, k) <= Rank(S, j)
      BY <1>4, <3>1
    <3> HIDE DEF UpTo
    <3> QED
      BY <1>3, <3>1, <3>2
  <2>2. N \cup {k} \in SUBSET UpTo(k) /\ UpTo(k) \in SUBSET S /\ k \notin N /\ N \in SUBSET S
    <3>1. \A j \in N : j \in S /\ j <= k
      BY <1>1, <2>1
    <3>2. k \in S /\ k <= k /\ k \notin N
      BY <1>1
    <3> QED
      BY <3>1, <3>2
  <2> HIDE DEF UpTo
  <2>3. Cardinality(N \cup {k}) = Cardinality(N) + 1
    BY <1>1, <2>2, FS_AddElement
  <2>4. Cardinality(N \cup {k}) <= Cardinality(UpTo(k))
    BY <1>1, <2>2, FS_Subset
  <2> QED
    BY <1>1, <1>2, <2>1, <2>2, <2>3, <2>4
<1> QED
  BY <1>5, <1>6

\* The players of a set of numbers, in the order of the numbers, are a sequence.
LineOn(S, list) == [i \in 1..Cardinality(S) |-> list[NumberAt(S, i)]]
LEMMA LineFacts ==
  ASSUME NEW S \in SUBSET Number, NEW list, \A k \in S : list[k] \in Pid
  PROVE  /\ LineOn(S, list) \in Seq(Pid) /\ Len(LineOn(S, list)) = Cardinality(S)
         /\ \A i \in 1..Cardinality(S) : LineOn(S, list)[i] = list[NumberAt(S, i)]
         /\ \A k \in S : list[k] = LineOn(S, list)[Rank(S, k)]
<1> DEFINE n == Cardinality(S)
           line == LineOn(S, list)
<1>1. n \in Nat /\ \A i \in 1..n : NumberAt(S, i) \in S
  BY RankFacts
<1>2. line \in [1..n -> Pid] /\ \A i \in 1..n : line[i] = list[NumberAt(S, i)]
  BY <1>1 DEF LineOn
<1>3. line \in Seq(Pid)
  BY <1>1, <1>2, SeqDef
<1>4. Len(line) = n
  BY <1>1, <1>2, <1>3, LenProperties
<1>5. \A k \in S : list[k] = line[Rank(S, k)]
  BY <1>2, RankFacts
<1> QED
  BY <1>2, <1>3, <1>4, <1>5

\* What a line becomes and what leaves it, as opaque terms for the provers.
AtEnd(s, p) == Append(s, p)
Without(s, r) == SubSeq(s, 1, r - 1) \o SubSeq(s, r + 1, Len(s))
After(s, c) == SubSeq(s, c + 1, Len(s))
Front(s, c) == {s[i] : i \in 1..c}
Held(list, N) == {list[k] : k \in N}

\* A number above those of S joins them, to make T.
Joins(S, m, T, list, next) ==
  /\ S \in SUBSET Number /\ m \in Number /\ T = S \cup {m}
  /\ \A k \in S : k < m
  /\ \A k \in S : list[k] \in Pid
  /\ next[m] \in Pid
  /\ \A k \in S : next[k] = list[k]

\* The player of a new number goes to the end,
LEMMA LineJoined ==
  ASSUME NEW S, NEW m, NEW T, NEW list, NEW next, Joins(S, m, T, list, next)
  PROVE  LineOn(T, next) = AtEnd(LineOn(S, list), next[m])
<1> DEFINE n == Cardinality(S)
           s == LineOn(T, next)
           t == Append(LineOn(S, list), next[m])
<1>0. /\ S \in SUBSET Number /\ m \in Number /\ T = S \cup {m}
      /\ \A k \in S : k < m
      /\ \A k \in S : list[k] \in Pid
      /\ next[m] \in Pid
      /\ \A k \in S : next[k] = list[k]
  BY DEF Joins
<1>1. /\ T \in SUBSET Number /\ Cardinality(T) = n + 1 /\ n \in Nat
      /\ \A k \in S : Rank(T, k) = Rank(S, k)
      /\ Rank(T, m) = n + 1
  <2>1. /\ S \cup {m} \in SUBSET Number /\ Cardinality(S \cup {m}) = n + 1 /\ n \in Nat
        /\ \A k \in S : Rank(S \cup {m}, k) = Rank(S, k)
        /\ Rank(S \cup {m}, m) = n + 1
    BY <1>0, RankAbove, RankFacts
  <2> QED
    BY <1>0, <2>1, Zenon
<1>2. /\ \A k \in T : next[k] \in Pid
      /\ m \in T /\ S \subseteq T
  BY <1>0
<1>3. s \in Seq(Pid) /\ Len(s) = n + 1 /\ \A k \in T : next[k] = s[Rank(T, k)]
  BY <1>1, <1>2, LineFacts
<1>4. /\ LineOn(S, list) \in Seq(Pid) /\ Len(LineOn(S, list)) = n
      /\ \A i \in 1..n : LineOn(S, list)[i] = list[NumberAt(S, i)]
  BY <1>0, LineFacts
<1>5. /\ t \in Seq(Pid) /\ Len(t) = n + 1 /\ t[n + 1] = next[m]
      /\ \A i \in 1..n : t[i] = list[NumberAt(S, i)]
  <2>1. \A i \in 1..n : LineOn(S, list)[i] \in Pid
    BY <1>0, <1>1, <1>4, RankFacts
  <2> QED
    BY <1>0, <1>1, <1>4, <2>1
<1> HIDE DEF s, t
<1>6. ASSUME NEW i \in 1..n + 1
      PROVE  s[i] = t[i]
  <2>1. CASE i = n + 1
    BY <1>1, <1>2, <1>3, <1>5, <2>1
  <2>2. CASE i \in 1..n
    <3>1. NumberAt(S, i) \in S /\ Rank(S, NumberAt(S, i)) = i
      BY <1>0, <2>2, RankFacts
    <3>2. next[NumberAt(S, i)] = s[i]
      BY <1>1, <1>2, <1>3, <3>1
    <3> QED
      BY <1>0, <1>5, <2>2, <3>1, <3>2
  <2> QED
    BY <1>1, <2>1, <2>2
<1>7. s = t
  BY <1>3, <1>5, <1>6, SeqEqual
<1> QED
  BY <1>7, Zenon DEF s, t, AtEnd

\* that of a number given up leaves its place,
LEMMA LineLeft ==
  ASSUME NEW S \in SUBSET Number, NEW m \in S,
         NEW list, \A k \in S : list[k] \in Pid,
         NEW next, \A k \in S \ {m} : next[k] = list[k]
  PROVE  /\ Rank(S, m) \in 1..Len(LineOn(S, list))
         /\ LineOn(S \ {m}, next) = Without(LineOn(S, list), Rank(S, m))
<1> DEFINE T == S \ {m}
           n == Cardinality(S)
           r == Rank(S, m)
           line == LineOn(S, list)
           s == LineOn(T, next)
           front == SubSeq(line, 1, r - 1)
           back == SubSeq(line, r + 1, n)
<1>1. /\ n \in Nat /\ S \subseteq Nat /\ r \in 1..n
      /\ \A j, k \in S : j < k => Rank(S, j) < Rank(S, k)
      /\ \A k \in S : Rank(S, k) \in 1..n
  BY RankFacts
<1>2. /\ T \in SUBSET Number /\ Cardinality(T) = n - 1
      /\ \A k \in T : m < k => Rank(T, k) = Rank(S, k) - 1
      /\ \A k \in T : k < m => Rank(T, k) = Rank(S, k)
  <2> DEFINE N == {m}
  <2>1. Cardinality(N) = 1 /\ N \in SUBSET S
    BY FS_Singleton
  <2>2. \A k : (m < k <=> \A j \in N : j < k) /\ (k < m <=> \A j \in N : k < j)
    OBVIOUS
  <2> HIDE DEF N
  <2>3. /\ S \ N \in SUBSET Number /\ Cardinality(S \ N) = n - 1
        /\ \A k \in S \ N : m < k => Rank(S \ N, k) = Rank(S, k) - 1
        /\ \A k \in S \ N : k < m => Rank(S \ N, k) = Rank(S, k)
    <3>1. /\ S \ N \in SUBSET Number
          /\ Cardinality(S \ N) = n - Cardinality(N)
          /\ \A k \in S \ N : (\A j \in N : j < k) => Rank(S \ N, k) = Rank(S, k) - Cardinality(N)
          /\ \A k \in S \ N : (\A j \in N : k < j) => Rank(S \ N, k) = Rank(S, k)
      BY <2>1, RankWithout
    <3> QED
      BY <2>1, <2>2, <3>1
  <2> QED
    BY <2>3 DEF N
<1>3. /\ line \in Seq(Pid) /\ Len(line) = n
      /\ \A k \in S : list[k] = line[Rank(S, k)]
      /\ \A i \in 1..n : line[i] \in Pid
  BY LineFacts, ElementOfSeq
<1>4. \A k \in T : next[k] \in Pid
  OBVIOUS
<1> HIDE DEF T
<1>5. /\ s \in Seq(Pid) /\ Len(s) = n - 1
      /\ \A i \in 1..n - 1 : s[i] = next[NumberAt(T, i)]
  BY <1>2, <1>4, LineFacts
<1>6. \A i \in 1..n - 1 : NumberAt(T, i) \in T /\ Rank(T, NumberAt(T, i)) = i
  BY <1>2, RankFacts
<1> HIDE DEF line, s, r
<1>7. /\ front \in Seq(Pid) /\ Len(front) = r - 1
      /\ \A i \in 1..r - 1 : front[i] = line[i]
  <2>1. r - 1 \in Int /\ 1 \in Int /\ \A i \in 1..r - 1 : line[i] \in Pid
    BY <1>1, <1>3
  <2>2. /\ front \in Seq(Pid) /\ Len(front) = IF 1 <= r - 1 THEN (r - 1) - 1 + 1 ELSE 0
        /\ \A i \in 1..(r - 1) - 1 + 1 : front[i] = line[1 + i - 1]
    BY <2>1, SubSeqProperties
  <2> HIDE DEF front
  <2>3. \A i \in 1..r - 1 : 1 + i - 1 = i /\ i \in 1..(r - 1) - 1 + 1
    BY <1>1
  <2>4. Len(front) = r - 1
    BY <1>1, <2>2
  <2> QED
    BY <2>2, <2>3, <2>4
<1>8. /\ back \in Seq(Pid) /\ Len(back) = n - r
      /\ \A i \in 1..n - r : back[i] = line[r + i]
  <2>1. r + 1 \in Int /\ n \in Int /\ \A i \in r + 1..n : line[i] \in Pid
    BY <1>1, <1>3
  <2>2. /\ back \in Seq(Pid) /\ Len(back) = IF r + 1 <= n THEN n - (r + 1) + 1 ELSE 0
        /\ \A i \in 1..n - (r + 1) + 1 : back[i] = line[(r + 1) + i - 1]
    BY <2>1, SubSeqProperties
  <2> HIDE DEF back
  <2>3. \A i \in 1..n - r : (r + 1) + i - 1 = r + i /\ i \in 1..n - (r + 1) + 1
    BY <1>1
  <2>4. Len(back) = n - r
    BY <1>1, <2>2
  <2> QED
    BY <2>2, <2>3, <2>4
<1> HIDE DEF front, back
<1> DEFINE t == front \o back
<1>9. /\ t \in Seq(Pid) /\ Len(t) = n - 1
      /\ \A i \in 1..n - 1 : t[i] = IF i < r THEN line[i] ELSE line[i + 1]
  <2>1. /\ t \in Seq(Pid) /\ Len(t) = Len(front) + Len(back)
        /\ \A i \in 1..Len(front) + Len(back) :
             t[i] = IF i <= Len(front) THEN front[i] ELSE back[i - Len(front)]
    BY <1>7, <1>8, ConcatProperties
  <2>2. Len(front) + Len(back) = n - 1
    BY <1>1, <1>7, <1>8
  <2> HIDE DEF t
  <2>3. ASSUME NEW i \in 1..n - 1
        PROVE  t[i] = IF i < r THEN line[i] ELSE line[i + 1]
    <3>1. CASE i < r
      <4>1. i <= r - 1 /\ i \in 1..r - 1
        BY <1>1, <3>1
      <4>2. t[i] = front[i]
        BY <1>7, <2>1, <2>2, <4>1
      <4> QED
        BY <1>7, <3>1, <4>1, <4>2
    <3>2. CASE ~(i < r)
      <4>1. i - (r - 1) \in 1..n - r /\ r + (i - (r - 1)) = i + 1 /\ ~(i <= r - 1)
        BY <1>1, <3>2
      <4>2. t[i] = back[i - (r - 1)]
        BY <1>7, <2>1, <2>2, <4>1
      <4>3. back[i - (r - 1)] = line[i + 1]
        BY <1>8, <4>1
      <4> QED
        BY <3>2, <4>2, <4>3
    <3> QED
      BY <3>1, <3>2
  <2> QED
    BY <2>1, <2>2, <2>3
<1> HIDE DEF t
<1>10. ASSUME NEW i \in 1..n - 1
       PROVE  s[i] = t[i]
  <2> DEFINE k == NumberAt(T, i)
  <2>1. k \in T /\ Rank(T, k) = i /\ s[i] = next[k]
    BY <1>5, <1>6
  <2> HIDE DEF k
  <2>2. k \in S /\ k # m /\ next[k] = list[k] /\ list[k] = line[Rank(S, k)] /\ m \in S
    BY <1>3, <2>1 DEF T
  <2>3. CASE k < m
    <3>1. Rank(S, k) = i /\ i < r
      BY <1>1, <1>2, <2>1, <2>2, <2>3 DEF r
    <3> QED
      BY <1>9, <2>1, <2>2, <3>1
  <2>4. CASE m < k
    <3>1. Rank(S, k) - 1 = i /\ r < Rank(S, k) /\ Rank(S, k) \in 1..n
      BY <1>1, <1>2, <2>1, <2>2, <2>4 DEF r
    <3>2. Rank(S, k) = i + 1 /\ ~(i < r)
      BY <1>1, <3>1
    <3> QED
      BY <1>9, <2>1, <2>2, <3>2
  <2>5. k < m \/ m < k
    BY <1>1, <2>2
  <2> QED
    BY <2>3, <2>4, <2>5
<1>11. s = t
  BY <1>5, <1>9, <1>10, SeqEqual
<1> QED
  <2>1. Without(line, r) = t
    BY <1>3, Zenon DEF Without, t, front, back
  <2>2. LineOn(S \ {m}, next) = Without(LineOn(S, list), Rank(S, m))
    BY <1>11, <2>1, Zenon DEF s, r, line, T
  <2>3. Rank(S, m) \in 1..Len(LineOn(S, list))
    BY <1>1, <1>3 DEF r, line
  <2> QED
    BY <2>2, <2>3

\* The first n numbers of S leave, N, and T stays.
Leaves(S, n, N, T, list, next) ==
  /\ S \in SUBSET Number /\ n \in Int
  /\ N = {k \in S : Rank(S, k) <= n} /\ T = S \ N
  /\ \A k \in S : list[k] \in Pid
  /\ \A k \in S \ N : next[k] = list[k]

\* and those of the first numbers are the first players, which a call takes.
LEMMA LineCalled ==
  ASSUME NEW S, NEW n, NEW N, NEW T, NEW list, NEW next, Leaves(S, n, N, T, list, next)
  PROVE  /\ Cardinality(N) \in 0..Len(LineOn(S, list))
         /\ Held(list, N) = Front(LineOn(S, list), Cardinality(N))
         /\ LineOn(T, next) = After(LineOn(S, list), Cardinality(N))
<1> DEFINE len == Cardinality(S)
           c == Cardinality(N)
           line == LineOn(S, list)
           s == LineOn(T, next)
           t == SubSeq(line, c + 1, len)
<1>0. /\ S \in SUBSET Number /\ n \in Int
      /\ N = {k \in S : Rank(S, k) <= n} /\ T = S \ N
      /\ \A k \in S : list[k] \in Pid
      /\ \A k \in S \ N : next[k] = list[k]
  BY DEF Leaves
<1>1. /\ len \in Nat /\ S \subseteq Nat
      /\ \A k \in S : Rank(S, k) \in 1..len
      /\ \A i \in 1..len : NumberAt(S, i) \in S /\ Rank(S, NumberAt(S, i)) = i
  BY <1>0, RankFacts
<1>2. /\ N \in SUBSET S
      /\ \A k \in N : Rank(S, k) <= c
      /\ \A k \in T : (\A j \in N : j < k) /\ Rank(S, k) > c
  <2>1. /\ \A k \in N : Rank(S, k) <= c
        /\ \A k \in S \ N : (\A j \in N : j < k) /\ Rank(S, k) > c
    BY <1>0, FirstOnes
  <2> QED
    BY <1>0, <2>1
<1>3. /\ T \in SUBSET Number /\ c \in Nat /\ Cardinality(T) = len - c
      /\ \A k \in T : Rank(T, k) = Rank(S, k) - c
  <2>1. /\ S \ N \in SUBSET Number /\ Cardinality(N) \in Nat
        /\ Cardinality(S \ N) = len - Cardinality(N)
        /\ \A k \in S \ N : (\A j \in N : j < k) => Rank(S \ N, k) = Rank(S, k) - Cardinality(N)
    BY <1>0, <1>2, RankWithout
  <2>2. S \ N = T
    BY <1>0
  <2> QED
    BY <1>2, <2>1, <2>2, Zenon
<1>4. c \in 0..len
  <2>1. Cardinality(T) \in Nat
    BY <1>3, RankFacts
  <2> QED
    BY <1>1, <1>3, <2>1
<1>5. /\ line \in Seq(Pid) /\ Len(line) = len
      /\ \A k \in S : list[k] = line[Rank(S, k)]
      /\ \A i \in 1..len : line[i] \in Pid
  BY <1>0, LineFacts, ElementOfSeq
<1>12. \A k \in T : next[k] = list[k] /\ k \in S
  BY <1>0
<1>6. /\ s \in Seq(Pid) /\ Len(s) = len - c
      /\ \A i \in 1..len - c : s[i] = next[NumberAt(T, i)]
  <2>1. \A k \in T : next[k] \in Pid
    BY <1>0, <1>12
  <2>2. /\ s \in Seq(Pid) /\ Len(s) = Cardinality(T)
        /\ \A i \in 1..Cardinality(T) : s[i] = next[NumberAt(T, i)]
    BY <1>3, <2>1, LineFacts DEF s
  <2> QED
    BY <1>3, <2>2
<1>7. \A i \in 1..len - c : NumberAt(T, i) \in T /\ Rank(T, NumberAt(T, i)) = i
  BY <1>3, RankFacts
<1> HIDE DEF line, s, c
<1>8. {list[k] : k \in N} = {line[i] : i \in 1..c}
  <2>1. ASSUME NEW k \in N PROVE \E i \in 1..c : list[k] = line[i]
    <3>1. Rank(S, k) \in 1..c
      BY <1>1, <1>2, <1>4
    <3> QED
      BY <1>2, <1>5, <3>1
  <2>2. ASSUME NEW i \in 1..c PROVE \E k \in N : line[i] = list[k]
    <3>1. i \in 1..len
      BY <1>1, <1>4
    <3>2. NumberAt(S, i) \in S /\ Rank(S, NumberAt(S, i)) = i
      BY <1>1, <3>1
    <3>3. NumberAt(S, i) \in N
      BY <1>0, <1>2, <1>4, <3>2
    <3> QED
      BY <1>5, <3>2, <3>3
  <2> QED
    BY <2>1, <2>2
<1>9. /\ t \in Seq(Pid) /\ Len(t) = len - c
      /\ \A i \in 1..len - c : t[i] = line[c + i]
  <2>1. c + 1 \in Int /\ len \in Int /\ \A i \in c + 1..len : line[i] \in Pid
    BY <1>1, <1>4, <1>5
  <2>2. /\ t \in Seq(Pid) /\ Len(t) = IF c + 1 <= len THEN len - (c + 1) + 1 ELSE 0
        /\ \A i \in 1..len - (c + 1) + 1 : t[i] = line[(c + 1) + i - 1]
    BY <2>1, SubSeqProperties
  <2> HIDE DEF t
  <2>3. \A i \in 1..len - c : (c + 1) + i - 1 = c + i /\ i \in 1..len - (c + 1) + 1
    BY <1>1, <1>4
  <2>4. Len(t) = len - c
    BY <1>1, <1>4, <2>2
  <2> QED
    BY <2>2, <2>3, <2>4
<1> HIDE DEF t
<1>10. ASSUME NEW i \in 1..len - c
       PROVE  s[i] = t[i]
  <2> DEFINE k == NumberAt(T, i)
  <2>1. k \in T /\ Rank(T, k) = i /\ s[i] = next[k]
    BY <1>6, <1>7
  <2> HIDE DEF k
  <2>2. k \in S /\ next[k] = list[k] /\ list[k] = line[Rank(S, k)]
    BY <1>5, <1>12, <2>1
  <2>3. Rank(S, k) = c + i
    <3>1. Rank(S, k) - c = i /\ Rank(S, k) \in 1..len
      BY <1>1, <1>3, <2>1, <2>2
    <3> QED
      BY <1>1, <1>4, <3>1
  <2> QED
    BY <1>9, <2>1, <2>2, <2>3
<1>11. s = t
  BY <1>6, <1>9, <1>10, SeqEqual
<1> QED
  <2>1. LineOn(T, next) = After(LineOn(S, list), Cardinality(N))
    <3>1. After(line, c) = t
      BY <1>5, Zenon DEF After, t
    <3> QED
      BY <1>11, <3>1, Zenon DEF s, line, c
  <2>2. Cardinality(N) \in 0..Len(LineOn(S, list))
    BY <1>4, <1>5 DEF line, c
  <2>3. Held(list, N) = Front(LineOn(S, list), Cardinality(N))
    BY <1>8 DEF line, c, Held, Front
  <2> QED
    BY <2>1, <2>2, <2>3

-----------------------------------------------------------------------------
(***************************************************************************)
(* The queue is a line: each step is one of AdmissionLine                  *)
(***************************************************************************)

\* The line has the players that wait.
LEMMA LineSeen ==
  ASSUME IInv
  PROVE  /\ WaitingNumbers = {k \in Number : queueList[k] # None}
         /\ WaitingNumbers \in SUBSET Number /\ \A k \in WaitingNumbers : queueList[k] \in Pid
         /\ LineOf = LineOn(WaitingNumbers, queueList)
         /\ Line!ToSet(LineOf) = {p \in Pid : queuePlayers[p] # 0}
<1>1. TypeOK /\ QueueInverse
  BY DEF IInv
<1>2. WaitingNumbers = {k \in Number : queueList[k] # None}
  BY <1>1 DEF WaitingNumbers, QueueInverse
<1>3. WaitingNumbers \in SUBSET Number /\ \A k \in WaitingNumbers : queueList[k] \in Pid
  BY <1>1, <1>2 DEF TypeOK
<1>4. LineOf = LineOn(WaitingNumbers, queueList)
  BY DEF LineOf, LineOn
<1> DEFINE W == WaitingNumbers
<1> HIDE DEF W
<1>5. /\ Len(LineOf) = Cardinality(W) /\ LineOf \in Seq(Pid)
      /\ \A i \in 1..Cardinality(W) : LineOf[i] = queueList[NumberAt(W, i)]
      /\ \A k \in W : queueList[k] = LineOf[Rank(W, k)]
  BY <1>3, <1>4, LineFacts DEF W
<1>6. /\ \A k \in W : Rank(W, k) \in 1..Cardinality(W)
      /\ \A i \in 1..Cardinality(W) : NumberAt(W, i) \in W
  BY <1>3, RankFacts DEF W
<1>7. DOMAIN LineOf = 1..Cardinality(W)
  BY <1>5, LenProperties
<1>8. \A p : p \in Line!ToSet(LineOf) <=> \E k \in W : p = queueList[k]
  BY <1>5, <1>6, <1>7 DEF Line!ToSet
<1>9. \A k \in W : queueList[k] \in Pid /\ queuePlayers[queueList[k]] = k /\ k # 0
  BY <1>1, <1>2, <1>3, LoginQueueAssumption DEF QueueInverse, W, Number
<1>10. \A p \in Pid : queuePlayers[p] # 0 => queuePlayers[p] \in W /\ queueList[queuePlayers[p]] = p
  <2> TAKE p \in Pid
  <2> HAVE queuePlayers[p] # 0
  <2>1. queuePlayers[p] \in Number /\ queueList[queuePlayers[p]] = p
    BY <1>1, LoginQueueAssumption DEF TypeOK, QueueInverse, Number
  <2> QED
    BY <1>2, <2>1, LoginQueueAssumption DEF W
<1>11. Line!ToSet(LineOf) = {p \in Pid : queuePlayers[p] # 0}
  BY <1>8, <1>9, <1>10
<1> QED
  BY <1>2, <1>3, <1>4, <1>11

\* A login is that of somebody called or inside, or past an empty line.
LEMMA LoginEnters ==
  ASSUME IInv, NEW p \in Pid, ~NeedQueue(p), OnLogin(p)
  PROVE  Line!Enter(p)
<1>1. /\ online' = online \cup {p} /\ callList' = [callList EXCEPT ![p] = 0]
      /\ UNCHANGED <<callNumber, lastNumber, queueList>>
  BY DEF OnLogin
<1>2. LineOf' = LineOf
  BY <1>1 DEF LineOf, WaitingNumbers
<1>3. CalledPids' = CalledPids \ {p}
  BY <1>1 DEF CalledPids, IInv, TypeOK
<1>4. p \in CalledPids \cup online \/ LineOf = <<>>
  <2> SUFFICES ASSUME p \notin CalledPids, p \notin online
               PROVE  LineOf = <<>>
    OBVIOUS
  <2>1. callList[p] = 0
    BY DEF CalledPids, IInv, TypeOK
  <2>2. \A k \in Number : queueList[k] = None
    BY <2>1 DEF NeedQueue
  <2>3. WaitingNumbers = {}
    BY <2>2 DEF WaitingNumbers
  <2> QED
    BY <2>3, FS_EmptySet DEF LineOf
<1> QED
  BY <1>1, <1>2, <1>3, <1>4 DEF Line!Enter

\* A player that has a number stays where it is, one that has none goes to the end.
LEMMA PendingJoins ==
  ASSUME IInv, IInv', NEW p \in Pid, NEW h \in Handle, NeedQueue(p), PendingQueue(p, h)
  PROVE  Line!Join(p) \/ UNCHANGED <<LineOf, CalledPids, online>>
<1>1. UNCHANGED <<callNumber, callList, online>>
  BY DEF PendingQueue
<1>2. CalledPids' = CalledPids
  BY <1>1 DEF CalledPids
<1>3. CASE UNCHANGED <<lastNumber, queueList, queuePlayers>>
  <2>1. LineOf' = LineOf
    BY <1>1, <1>3 DEF LineOf, WaitingNumbers
  <2> QED
    BY <1>1, <1>2, <2>1
<1>4. CASE /\ queuePlayers[p] = 0 /\ lastNumber < MaxNumber
           /\ lastNumber' = lastNumber + 1
           /\ queueList' = [queueList EXCEPT ![lastNumber + 1] = p]
           /\ queuePlayers' = [queuePlayers EXCEPT ![p] = lastNumber + 1]
  <2> DEFINE W == WaitingNumbers
             m == lastNumber + 1
  <2>1. TypeOK /\ QueueInverse
    BY DEF IInv
  <2>2. m \in Number /\ lastNumber \in Nat
    BY <1>4, <2>1, LoginQueueAssumption DEF TypeOK, Number
  <2>3. \A k \in Number : queueList'[k] = IF k = m THEN p ELSE queueList[k]
    BY <1>4, <2>1, <2>2 DEF TypeOK
  <2>4. p # None
    BY LoginQueueAssumption
  <2>5. W \in SUBSET Number /\ W \subseteq Nat /\ \A k \in W : k < m /\ queueList[k] \in Pid
    <3>1. W \in SUBSET Number /\ \A k \in W : queueList[k] \in Pid
      BY LineSeen
    <3>2. W \subseteq Nat
      BY <3>1, LoginQueueAssumption DEF Number
    <3>3. \A k \in W : k <= lastNumber
      BY DEF WaitingNumbers
    <3> QED
      BY <2>2, <3>1, <3>2, <3>3
  <2>6. WaitingNumbers' = W \cup {m}
    <3>1. WaitingNumbers' = {k \in Number : queueList'[k] # None}
      BY DEF IInv, TypeOK, QueueInverse, WaitingNumbers
    <3>2. W = {k \in Number : queueList[k] # None}
      BY LineSeen
    <3> QED
      BY <2>2, <2>3, <2>4, <3>1, <3>2
  <2>7. /\ \A k \in W : queueList'[k] = queueList[k]
        /\ queueList'[m] = p
    BY <2>2, <2>3, <2>5
  <2>8. LineOf = LineOn(W, queueList) /\ LineOf' = LineOn(W \cup {m}, queueList')
    BY <2>6 DEF LineOf, LineOn
  <2> HIDE DEF W, m
  <2>9. LineOf' = AtEnd(LineOf, p)
    <3>1. /\ W \in SUBSET Number /\ m \in Number
          /\ \A k \in W : k < m
          /\ \A k \in W : queueList[k] \in Pid
          /\ queueList'[m] \in Pid
          /\ \A k \in W : queueList'[k] = queueList[k]
      BY <2>2, <2>5, <2>7
    <3>2. Joins(W, m, W \cup {m}, queueList, queueList')
      BY <3>1 DEF Joins
    <3>3. LineOn(W \cup {m}, queueList') = AtEnd(LineOn(W, queueList), queueList'[m])
      BY <3>2, LineJoined
    <3> QED
      BY <2>7, <2>8, <3>3
  <2>10. p \notin CalledPids \cup online \cup Line!ToSet(LineOf)
    <3>1. p \notin Line!ToSet(LineOf)
      BY <1>4, LineSeen
    <3> QED
      BY <3>1 DEF NeedQueue, CalledPids
  <2>11. LineOf' = Append(LineOf, p)
    BY <2>9, Zenon DEF AtEnd
  <2> QED
    BY <1>1, <1>2, <2>10, <2>11, Zenon DEF Line!Join
<1> QED
  BY <1>3, <1>4 DEF PendingQueue

\* A player that quits gives up its place in the line.
LEMMA QuitGivesUp ==
  ASSUME IInv, IInv', NEW p \in Pid, QuitQueue(p)
  PROVE  \E i \in 1..Len(LineOf) : Line!GiveUp(i)
<1> DEFINE W == WaitingNumbers
           m == queuePlayers[p]
<1>1. /\ queueList' = [queueList EXCEPT ![m] = None]
      /\ UNCHANGED <<callNumber, lastNumber, callList, online>>
      /\ m # 0
  BY DEF QuitQueue
<1>2. CalledPids' = CalledPids
  BY <1>1 DEF CalledPids
<1>3. TypeOK /\ QueueInverse
  BY DEF IInv
<1>4. m \in Number /\ queueList[m] = p
  BY <1>1, <1>3, LoginQueueAssumption DEF TypeOK, QueueInverse, Number
<1>5. W = {k \in Number : queueList[k] # None}
      /\ W \in SUBSET Number /\ \A k \in W : queueList[k] \in Pid
  BY LineSeen
<1>6. m \in W
  BY <1>4, <1>5, LoginQueueAssumption
<1>7. \A k \in Number : queueList'[k] = IF k = m THEN None ELSE queueList[k]
  BY <1>1, <1>3, <1>4 DEF TypeOK
<1>8. WaitingNumbers' = W \ {m}
  <2>1. WaitingNumbers' = {k \in Number : queueList'[k] # None}
    BY DEF IInv, TypeOK, QueueInverse, WaitingNumbers
  <2> QED
    BY <1>5, <1>7, <2>1
<1>9. LineOf = LineOn(W, queueList) /\ LineOf' = LineOn(W \ {m}, queueList')
  BY <1>8 DEF LineOf, LineOn
<1>10. \A k \in W \ {m} : queueList'[k] = queueList[k]
  BY <1>5, <1>7
<1> HIDE DEF W, m
<1>11. /\ Rank(W, m) \in 1..Len(LineOf)
       /\ LineOf' = Without(LineOf, Rank(W, m))
  <2>1. W \in SUBSET Number /\ m \in W
    BY <1>5, <1>6
  <2>2. (\A k \in W : queueList[k] \in Pid) /\ \A k \in W \ {m} : queueList'[k] = queueList[k]
    BY <1>5, <1>10
  <2>3. /\ Rank(W, m) \in 1..Len(LineOn(W, queueList))
        /\ LineOn(W \ {m}, queueList') = Without(LineOn(W, queueList), Rank(W, m))
    BY <2>1, <2>2, LineLeft
  <2> QED
    BY <1>9, <2>3
<1>12. Line!GiveUp(Rank(W, m))
  <2>1. LineOf' = Line!RemoveAt(LineOf, Rank(W, m))
    BY <1>11, Zenon DEF Without, Line!RemoveAt
  <2> QED
    BY <1>1, <1>2, <2>1, Zenon DEF Line!GiveUp
<1> QED
  BY <1>11, <1>12

\* A run of calls takes players from the front of the line.
LEMMA CallsFromFront ==
  ASSUME IInv, IInv', NEW n \in Int,
         NEW kept \in [Pid -> 0..(KeepChecks + 1)],
         CallNumbers(n, kept), UNCHANGED lastNumber,
         \A p \in Pid : kept[p] > 0 => callList[p] > 0,
         online' \in SUBSET online
  PROVE  \E c \in 0..Len(LineOf), leaving \in SUBSET online, silent \in SUBSET CalledPids :
           Line!Call(c, leaving, silent)
<1> DEFINE W == WaitingNumbers
           N == NextNumbers(n)
           c == Cardinality(N)
           leaving == online \ online'
           silent == {p \in CalledPids : kept[p] = 0}
<1>1. TypeOK /\ QueueInverse
  BY DEF IInv
<1>2. W = {k \in Number : queueList[k] # None}
      /\ W \in SUBSET Number /\ \A k \in W : queueList[k] \in Pid
  BY LineSeen
<1>3. N = {k \in W : Rank(W, k) <= n}
  BY DEF NextNumbers, Rank
<1>4. queueList' = [k \in Number |-> IF k \in N THEN None ELSE queueList[k]]
  BY DEF CallNumbers
<1>5. WaitingNumbers' = W \ N
  <2>1. WaitingNumbers' = {k \in Number : queueList'[k] # None}
    BY DEF IInv, TypeOK, QueueInverse, WaitingNumbers
  <2> HIDE DEF W, N
  <2> QED
    BY <1>2, <1>4, <2>1
<1>6. LineOf = LineOn(W, queueList) /\ LineOf' = LineOn(W \ N, queueList')
  BY <1>5 DEF LineOf, LineOn
<1>7. /\ \A p \in Pid : p \in NextPids(n) => callList'[p] = 1
      /\ \A p \in Pid : p \notin NextPids(n) => callList'[p] = kept[p]
      /\ \A p \in NextPids(n) : p \in Pid
  BY <1>1, CallNumbersKeeps, CalledPlayersWaited
<1>8. NextPids(n) = {queueList[k] : k \in N}
  BY DEF NextPids
<1> HIDE DEF W, N
<1>9. \A k \in W \ N : queueList'[k] = queueList[k]
  BY <1>2, <1>4
<1>10. /\ c \in 0..Len(LineOf)
       /\ Held(queueList, N) = Front(LineOf, c)
       /\ LineOf' = After(LineOf, c)
  <2>1. W \in SUBSET Number /\ N = {k \in W : Rank(W, k) <= n} /\ n \in Int
    BY <1>2, <1>3
  <2>2. (\A k \in W : queueList[k] \in Pid) /\ \A k \in W \ N : queueList'[k] = queueList[k]
    BY <1>2, <1>9
  <2>3. /\ Cardinality(N) \in 0..Len(LineOn(W, queueList))
        /\ Held(queueList, N) = Front(LineOn(W, queueList), Cardinality(N))
        /\ LineOn(W \ N, queueList') = After(LineOn(W, queueList), Cardinality(N))
    <3>1. Leaves(W, n, N, W \ N, queueList, queueList')
      BY <2>1, <2>2 DEF Leaves
    <3> QED
      BY <3>1, LineCalled
  <2> QED
    BY <1>6, <2>3
<1>11. CalledPids' = (CalledPids \ silent) \cup {LineOf[i] : i \in 1..c}
  <2>1. CalledPids' = (CalledPids \ silent) \cup NextPids(n)
    <3>1. ASSUME NEW p \in Pid
          PROVE  callList'[p] > 0 <=> (callList[p] > 0 /\ kept[p] # 0) \/ p \in NextPids(n)
      <4>1. kept[p] \in 0..(KeepChecks + 1) /\ KeepChecks \in Nat
        BY LoginQueueAssumption
      <4>2. kept[p] > 0 <=> kept[p] # 0
        BY <4>1
      <4> QED
        BY <1>7, <4>2
    <3> QED
      BY <1>7, <3>1 DEF CalledPids
  <2> QED
    <3>1. NextPids(n) = {LineOf[i] : i \in 1..c}
      BY <1>8, <1>10 DEF Held, Front
    <3> QED
      BY <2>1, <3>1
<1>12. online' = online \ leaving /\ leaving \in SUBSET online /\ silent \in SUBSET CalledPids
  OBVIOUS
<1> HIDE DEF c, leaving, silent
<1>13. Line!Call(c, leaving, silent)
  <2>1. LineOf' = SubSeq(LineOf, c + 1, Len(LineOf))
    BY <1>10, Zenon DEF After
  <2> QED
    BY <1>11, <1>12, <2>1, Zenon DEF Line!Call
<1> QED
  BY <1>10, <1>12, <1>13

\* In the beginning the line is empty.
LEMMA LineInit == Init => Line!Init
<1> SUFFICES ASSUME Init
             PROVE  Line!Init
  OBVIOUS
<1>1. WaitingNumbers = {} /\ CalledPids = {} /\ online = {}
  BY DEF Init, WaitingNumbers, CalledPids
<1>2. LineOf = <<>>
  BY <1>1, FS_EmptySet DEF LineOf
<1> QED
  BY <1>1, <1>2 DEF Line!Init

\* Each step is one of the line, or changes nothing of it.
LEMMA LineNext ==
  IInv /\ IInv' /\ [Next]_vars => [Line!Next]_<<LineOf, CalledPids, online>>
<1> SUFFICES ASSUME IInv, IInv', [Next]_vars
             PROVE  Line!Next \/ UNCHANGED <<LineOf, CalledPids, online>>
  OBVIOUS
<1>1. callList \in [Pid -> 0..(KeepChecks + 1)] /\ KeepChecks \in Nat
  BY LoginQueueAssumption DEF IInv, TypeOK
<1>2. CASE \E p \in Pid, h \in Handle : ValidLogin(p, h)
  <2>1. PICK p \in Pid, h \in Handle : ValidLogin(p, h)
    BY <1>2
  <2>2. Line!Enter(p) \/ Line!Join(p) \/ UNCHANGED <<LineOf, CalledPids, online>>
    BY <2>1, LoginEnters, PendingJoins DEF ValidLogin
  <2> QED
    BY <2>2 DEF Line!Next
<1>3. CASE \E p \in Pid : OnLogout(p)
  <2>1. CallNumbers(1, callList) /\ UNCHANGED lastNumber /\ online' \in SUBSET online /\ 1 \in Int
    BY <1>3 DEF OnLogout
  <2>2. \E c \in 0..Len(LineOf), leaving \in SUBSET online, silent \in SUBSET CalledPids :
          Line!Call(c, leaving, silent)
    BY <1>1, <2>1, CallsFromFront
  <2> QED
    BY <2>2 DEF Line!Next
<1>4. CASE \E p \in Pid : QuitQueue(p)
  BY <1>4, QuitGivesUp DEF Line!Next
<1>5. CASE \E limit \in Limits : SetOnlinePlayerLimit(limit)
  <2>1. PICK limit \in Limits : SetOnlinePlayerLimit(limit)
    BY <1>5
  <2>2. limit - onlineLimit \in Int
    BY LoginQueueAssumption DEF IInv, TypeOK
  <2>3. CallNumbers(limit - onlineLimit, callList) /\ UNCHANGED lastNumber /\ online' \in SUBSET online
    BY <2>1 DEF SetOnlinePlayerLimit
  <2>4. \E c \in 0..Len(LineOf), leaving \in SUBSET online, silent \in SUBSET CalledPids :
          Line!Call(c, leaving, silent)
    BY <1>1, <2>2, <2>3, CallsFromFront
  <2> QED
    BY <2>4 DEF Line!Next
<1>6. CASE _CheckTimeOut
  <2> DEFINE n == Cardinality(TimedOut) + Max({onlineLimit - GetOnlineTotCnt, 0})
             kept == [p \in Pid |-> IF p \in TimedOut \/ callList[p] = 0
                                    THEN 0 ELSE callList[p] + 1]
  <2>1. n \in Int
    BY CountsAreNat, MaxOfPair DEF IInv, TypeOK
  <2>2. kept \in [Pid -> 0..(KeepChecks + 1)]
    BY <1>1 DEF TimedOut
  <2>3. \A p \in Pid : kept[p] > 0 => callList[p] > 0
    BY <1>1
  <2>4. CallNumbers(n, kept) /\ UNCHANGED lastNumber /\ online' \in SUBSET online
    BY <1>6 DEF _CheckTimeOut
  <2> HIDE DEF n, kept
  <2>5. \E c \in 0..Len(LineOf), leaving \in SUBSET online, silent \in SUBSET CalledPids :
          Line!Call(c, leaving, silent)
    BY <2>1, <2>2, <2>3, <2>4, CallsFromFront
  <2> QED
    BY <2>5 DEF Line!Next
<1>7. CASE UNCHANGED vars
  BY <1>7 DEF vars, LineOf, WaitingNumbers, CalledPids
<1> QED
  BY <1>2, <1>3, <1>4, <1>5, <1>6, <1>7 DEF Next

\* FirstComeFirstCalled: for every number of players, tickets and sockets the two
\* tables, the numbers and the call list are one line, served from the front;
\* nobody overtakes, whoever quits, times out or reconnects.
THEOREM OneLineServed == Spec => FirstComeFirstCalled
  BY LineInit, LineNext, Invariance, PTL DEF Spec, FirstComeFirstCalled, Line!Spec
=============================================================================
