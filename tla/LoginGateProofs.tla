--------------------------- MODULE LoginGateProofs ---------------------------
(***************************************************************************)
(* Proofs about LoginGate, for every set of players and sockets, every       *)
(* limit and every number of logins: IInv is inductive, so that m_iLoginCnt  *)
(* covers the logins under way, a socket has one login at most, a login is   *)
(* never left without an answer unless it is told to be lost, and the places *)
(* of the login queue follow the sessions of the world.                      *)
(***************************************************************************)
EXTENDS LoginGate, FiniteSetTheorems, SequenceTheorems, TLAPS

\* What is proved of the login queue.
QueueProofs == INSTANCE LoginQueueProofs

\* What the proofs use of the tail of a queue,
LEMMA TailFacts ==
  ASSUME NEW S, NEW s \in Seq(S), s # <<>>
  PROVE  /\ Tail(s) \in Seq(S)
         /\ 1 \in DOMAIN s /\ Head(s) = s[1] /\ Head(s) \in S
         /\ \A i \in DOMAIN Tail(s) : i + 1 \in DOMAIN s /\ i + 1 # 1 /\ Tail(s)[i] = s[i + 1]
         /\ \A i \in DOMAIN s : i = 1 \/ (i - 1 \in DOMAIN Tail(s) /\ Tail(s)[i - 1] = s[i])
         /\ \A i, j \in DOMAIN Tail(s) : i + 1 = j + 1 => i = j
OBVIOUS

\* and of a queue with an element appended.
LEMMA AppendFacts ==
  ASSUME NEW S, NEW s \in Seq(S), NEW x \in S
  PROVE  /\ Append(s, x) \in Seq(S)
         /\ \A i \in DOMAIN s : i \in DOMAIN Append(s, x) /\ Append(s, x)[i] = s[i]
         /\ Len(s) + 1 \in DOMAIN Append(s, x) /\ Append(s, x)[Len(s) + 1] = x
         /\ Len(s) + 1 \notin DOMAIN s
         /\ DOMAIN Append(s, x) = DOMAIN s \cup {Len(s) + 1}
OBVIOUS

\* How many elements of a queue are in a set.
Count(s, X) == Cardinality({i \in DOMAIN s : s[i] \in X})

\* A count is a natural number,
LEMMA CountNat ==
  ASSUME NEW S, NEW s \in Seq(S), NEW X
  PROVE  IsFiniteSet({i \in DOMAIN s : s[i] \in X}) /\ Count(s, X) \in Nat
<1>1. DOMAIN s = 1..Len(s) /\ Len(s) \in Int /\ 1 \in Int
  OBVIOUS
<1>2. IsFiniteSet(DOMAIN s)
  BY <1>1, FS_Interval
<1>3. {i \in DOMAIN s : s[i] \in X} \in SUBSET (DOMAIN s)
  OBVIOUS
<1>4. IsFiniteSet({i \in DOMAIN s : s[i] \in X})
  BY <1>2, <1>3, FS_Subset
<1> QED
  BY <1>4, FS_CardinalityType DEF Count

\* zero for an empty queue,
LEMMA CountEmpty ==
  ASSUME NEW X
  PROVE  Count(<<>>, X) = 0
<1>1. {i \in DOMAIN <<>> : <<>>[i] \in X} = {}
  OBVIOUS
<1> QED
  BY <1>1, FS_EmptySet DEF Count

\* one more with a new element of the set,
LEMMA CountAppend ==
  ASSUME NEW S, NEW s \in Seq(S), NEW x \in S, NEW X
  PROVE  Count(Append(s, x), X) = Count(s, X) + (IF x \in X THEN 1 ELSE 0)
<1> DEFINE A == {i \in DOMAIN s : s[i] \in X}
           B == {i \in DOMAIN Append(s, x) : Append(s, x)[i] \in X}
<1>1. IsFiniteSet(A) /\ Count(s, X) = Cardinality(A) /\ Cardinality(A) \in Nat
  BY CountNat DEF Count
<1>2. Len(s) + 1 \notin A
  BY AppendFacts
<1>3. CASE x \in X
  <2>1. B = A \cup {Len(s) + 1}
    BY <1>3, AppendFacts
  <2> QED
    BY <1>1, <1>2, <1>3, <2>1, FS_AddElement DEF Count
<1>4. CASE x \notin X
  <2>1. B = A
    BY <1>4, AppendFacts
  <2>2. Count(Append(s, x), X) = Cardinality(B)
    BY DEF Count
  <2> HIDE DEF A, B
  <2>3. Count(Append(s, x), X) = Count(s, X) /\ Count(s, X) \in Nat
    BY <1>1, <2>1, <2>2
  <2> QED
    BY <1>4, <2>3
<1> QED
  BY <1>3, <1>4

\* and one less when such an element is taken from the front.
LEMMA CountTail ==
  ASSUME NEW S, NEW s \in Seq(S), s # <<>>, NEW X
  PROVE  Count(s, X) = Count(Tail(s), X) + (IF Head(s) \in X THEN 1 ELSE 0)
<1> DEFINE A == {i \in DOMAIN s : s[i] \in X}
           B == {i \in DOMAIN Tail(s) : Tail(s)[i] \in X}
           f == [i \in B |-> i + 1]
<1>1. IsFiniteSet(A) /\ Count(s, X) = Cardinality(A) /\ Cardinality(A) \in Nat
  BY CountNat DEF Count
<1>2. Tail(s) \in Seq(S)
  BY TailFacts
<1>3. IsFiniteSet(B) /\ Count(Tail(s), X) = Cardinality(B) /\ Cardinality(B) \in Nat
  BY <1>2, CountNat DEF Count
<1>4. f \in Bijection(B, A \ {1})
  <2>1. f \in [B -> A \ {1}]
    BY TailFacts
  <2>2. \A i, j \in B : f[i] = f[j] => i = j
    BY TailFacts
  <2>3. ASSUME NEW i \in A \ {1} PROVE \E j \in B : f[j] = i
    <3>1. i - 1 \in DOMAIN Tail(s) /\ Tail(s)[i - 1] = s[i] /\ i \in DOMAIN s
      BY <2>3, TailFacts
    <3>2. i \in Int
      BY <3>1
    <3>3. i - 1 \in B /\ f[i - 1] = i
      BY <2>3, <3>1, <3>2
    <3> QED
      BY <3>3
  <2> QED
    BY <2>1, <2>2, <2>3, Zenon DEF Bijection, Injection, Surjection, IsInjective
<1>5. Cardinality(A \ {1}) = Cardinality(B)
  <2>1. ExistsBijection(B, A \ {1})
    BY <1>4, Zenon DEF ExistsBijection
  <2> HIDE DEF A, B
  <2> QED
    BY <1>3, <2>1, FS_Bijection
<1>6. Cardinality(A \ {1}) = IF 1 \in A THEN Cardinality(A) - 1 ELSE Cardinality(A)
  BY <1>1, FS_RemoveElement
<1>7. 1 \in A <=> Head(s) \in X
  BY TailFacts
<1> HIDE DEF A, B
<1>8. CASE Head(s) \in X
  BY <1>1, <1>3, <1>5, <1>6, <1>7, <1>8
<1>9. CASE Head(s) \notin X
  BY <1>1, <1>3, <1>5, <1>6, <1>7, <1>9
<1> QED
  BY <1>8, <1>9

\* What two queues that are joined hold,
LEMMA ConcatFacts ==
  ASSUME NEW S, NEW s \in Seq(S), NEW t \in Seq(S), NEW u, u = s \o t
  PROVE  /\ \A i \in DOMAIN s : i \in DOMAIN u /\ u[i] = s[i]
         /\ \A i \in DOMAIN t : Len(s) + i \in DOMAIN u /\ u[Len(s) + i] = t[i]
         /\ \A i \in DOMAIN u : \/ i \in DOMAIN s /\ u[i] = s[i]
                                \/ \E j \in DOMAIN t : u[i] = t[j]
<1>1. /\ DOMAIN s = 1..Len(s) /\ Len(s) \in Nat /\ DOMAIN t = 1..Len(t) /\ Len(t) \in Nat
      /\ DOMAIN u = 1..(Len(s) + Len(t))
      /\ \A i \in 1..Len(s) : u[i] = s[i]
      /\ \A i \in 1..Len(t) : u[Len(s) + i] = t[i]
  OBVIOUS
<1>2. ASSUME NEW i \in DOMAIN u
      PROVE  \/ i \in DOMAIN s /\ u[i] = s[i]
             \/ \E j \in DOMAIN t : u[i] = t[j]
  <2>1. CASE i <= Len(s)
    BY <1>1, <1>2, <2>1
  <2>2. CASE ~(i <= Len(s))
    <3>1. i \in Int /\ i <= Len(s) + Len(t)
      BY <1>1, <1>2
    <3>2. i - Len(s) \in DOMAIN t /\ Len(s) + (i - Len(s)) = i
      BY <1>1, <2>2, <3>1
    <3>3. u[i] = t[i - Len(s)]
      BY <1>1, <3>2
    <3> QED
      BY <3>2, <3>3
  <2> QED
    BY <2>1, <2>2
<1> QED
  BY <1>1, <1>2

-----------------------------------------------------------------------------
\* and how many of a set: their counts add up.
LEMMA CountConcat ==
  ASSUME NEW S, NEW s \in Seq(S), NEW t \in Seq(S), NEW X
  PROVE  /\ s \o t \in Seq(S)
         /\ Count(s \o t, X) = Count(s, X) + Count(t, X)
<1> DEFINE A == {i \in DOMAIN s : s[i] \in X}
           B == {i \in DOMAIN t : t[i] \in X}
           C == {i \in DOMAIN (s \o t) : (s \o t)[i] \in X}
           f == [i \in B |-> i + Len(s)]
<1>1. /\ IsFiniteSet(A) /\ Count(s, X) = Cardinality(A) /\ Cardinality(A) \in Nat
      /\ IsFiniteSet(B) /\ Count(t, X) = Cardinality(B) /\ Cardinality(B) \in Nat
  BY CountNat DEF Count
<1>2. s \o t \in Seq(S)
  OBVIOUS
<1>3. IsFiniteSet(C) /\ Count(s \o t, X) = Cardinality(C)
  <2> DEFINE u == s \o t
  <2>1. u \in Seq(S)
    BY <1>2
  <2> HIDE DEF u
  <2>2. IsFiniteSet({i \in DOMAIN u : u[i] \in X}) /\ Count(u, X) \in Nat
    BY <2>1, CountNat
  <2> QED
    BY <2>2 DEF Count, u
<1>4. /\ DOMAIN s = 1..Len(s) /\ DOMAIN t = 1..Len(t) /\ Len(s) \in Nat /\ Len(t) \in Nat
      /\ DOMAIN (s \o t) = 1..(Len(s) + Len(t))
      /\ \A i \in 1..Len(s) : (s \o t)[i] = s[i]
      /\ \A i \in 1..Len(t) : (s \o t)[i + Len(s)] = t[i]
  OBVIOUS
<1>5. A \subseteq C
  BY <1>4
<1>6. f \in Bijection(B, C \ A)
  <2>1. f \in [B -> C \ A]
    BY <1>4
  <2>2. \A i, j \in B : f[i] = f[j] => i = j
    BY <1>4
  <2>3. ASSUME NEW i \in C \ A PROVE \E j \in B : f[j] = i
    <3>1. i \in Int /\ i <= Len(s) + Len(t) /\ 1 <= i /\ (s \o t)[i] \in X
      BY <2>3, <1>4
    <3>2. ~(i <= Len(s))
      BY <3>1, <2>3, <1>4
    <3>3. i - Len(s) \in 1..Len(t) /\ (i - Len(s)) + Len(s) = i
      BY <3>1, <3>2, <1>4
    <3>4. i - Len(s) \in B /\ f[i - Len(s)] = i
      BY <3>1, <3>3, <1>4
    <3> QED
      BY <3>4
  <2> QED
    BY <2>1, <2>2, <2>3, Zenon DEF Bijection, Injection, Surjection, IsInjective
<1>7. Cardinality(C \ A) = Cardinality(B)
  BY <1>1, <1>6, FS_Bijection DEF ExistsBijection
<1>8. Cardinality(C \ A) = Cardinality(C) - Cardinality(C \cap A)
  BY <1>3, FS_Difference
<1>9. C \cap A = A
  BY <1>5
<1> HIDE DEF A, B, C
<1>10. Cardinality(C) = Cardinality(A) + Cardinality(B)
  <2>1. Cardinality(C) \in Nat
    BY <1>3, FS_CardinalityType
  <2>2. Cardinality(A) \in Nat /\ Cardinality(B) \in Nat
    BY <1>1
  <2>3. Cardinality(C \ A) = Cardinality(C) - Cardinality(A)
    BY <1>8, <1>9, Zenon
  <2> DEFINE a == Cardinality(A)  b == Cardinality(B)  c == Cardinality(C)
  <2>4. c - a = b
    BY <1>7, <2>3, Zenon
  <2>5. a \in Nat /\ b \in Nat /\ c \in Nat
    BY <2>1, <2>2
  <2> HIDE DEF a, b, c
  <2>6. c = a + b
    BY <2>4, <2>5
  <2> QED
    BY <2>6 DEF a, b, c
<1> QED
  BY <1>1, <1>2, <1>3, <1>10, Zenon

\* The elements of a finite set put in some order: each is there once.
LEMMA OrderFacts ==
  ASSUME NEW P, IsFiniteSet(P), NEW order \in SetToSeqs(P)
  PROVE  /\ order \in Bijection(1..Cardinality(P), P)
         /\ DOMAIN order = 1..Cardinality(P) /\ Cardinality(P) \in Nat
         /\ \A i \in DOMAIN order : order[i] \in P
         /\ \A p \in P : \E i \in DOMAIN order : order[i] = p
<1> DEFINE n == Cardinality(P)
<1>1. n \in Nat
  BY FS_CardinalityType
<1>2. order \in [1..n -> P] /\ \A i, j \in 1..n : i # j => order[i] # order[j]
  BY DEF SetToSeqs
<1> HIDE DEF n
<1>3. order \in Injection(1..n, P)
  BY <1>2 DEF Injection, IsInjective
<1>4. Cardinality(1..n) = n
  BY <1>1, FS_Interval
<1>5. order \in Surjection(1..n, P)
  BY <1>3, <1>4, FS_Injection DEF n
<1>6. order \in Bijection(1..n, P)
  BY <1>3, <1>5 DEF Bijection
<1>7. \A p \in P : \E i \in 1..n : order[i] = p
  BY <1>5 DEF Surjection
<1> QED
  BY <1>1, <1>2, <1>6, <1>7 DEF n

\* A queue with one element for each: how many of them are in a set is how
\* many they stand for.
LEMMA CountOrder ==
  ASSUME NEW P, IsFiniteSet(P), NEW order \in SetToSeqs(P),
         NEW S, NEW s \in Seq(S), DOMAIN s = DOMAIN order,
         NEW X, NEW E \in SUBSET P, \A i \in DOMAIN s : s[i] \in X <=> order[i] \in E
  PROVE  Count(s, X) = Cardinality(E)
<1> DEFINE n == Cardinality(P)
           D == {i \in DOMAIN s : s[i] \in X}
           f == [i \in D |-> order[i]]
<1>1. /\ order \in Bijection(1..n, P) /\ DOMAIN order = 1..n /\ n \in Nat
      /\ \A i \in DOMAIN order : order[i] \in P
      /\ \A p \in P : \E i \in DOMAIN order : order[i] = p
  BY OrderFacts
<1>2. \A i, j \in DOMAIN order : order[i] = order[j] => i = j
  BY <1>1 DEF Bijection, Injection, IsInjective
<1> HIDE DEF n
<1>3. IsFiniteSet(D) /\ Count(s, X) = Cardinality(D)
  BY CountNat DEF Count
<1>4. f \in Bijection(D, E)
  <2>1. f \in [D -> E]
    BY <1>1
  <2>2. \A i, j \in D : f[i] = f[j] => i = j
    BY <1>2
  <2>3. \A p \in E : \E i \in D : f[i] = p
    BY <1>1
  <2> QED
    BY <2>1, <2>2, <2>3, Zenon DEF Bijection, Injection, Surjection, IsInjective
<1>5. Cardinality(E) = Cardinality(D)
  BY <1>3, <1>4, FS_Bijection DEF ExistsBijection
<1> QED
  BY <1>3, <1>5


(***************************************************************************)
(* The inductive invariant                                                 *)
(***************************************************************************)

\* What the proofs use of a socket: while it has a login under way, and never
\* more than one, it is in in_login_role or gone; so a socket that the world
\* has taken over, for its one login, has no other on its way there; and in
\* in_login_role it waits for a login, or is lost.
OneLogin(h) ==
  /\ LoginsOf(h) <= 1
  /\ status[h] \notin {"in_login_role", "kicked", "closed"} => LoginsOf(h) = 0
  /\ owner[h] # None => h \in forwarded
  /\ h \in forwarded => Asked(h) \cup Held(h) \cup Mailed(h) = {}
  /\ h \in lost \/ status[h] # "in_login_role" \/ LoginsOf(h) > 0

\* And of a player whose login no logout crossed: it holds its place, and no
\* logout that would take the place from it is in the mail.
PlaceKept(p) ==
  OnItsWay(p) \/ session[p] # None => p \in online /\ ~LogoutInMail(p)

\* The types of what is not of the queue; what is held back for a player is a
\* login of it.
GateTypes ==
  /\ session \in [Pid -> SessionRecord \cup {None}]
  /\ owner \in [Handle -> Pid \cup {None}]
  /\ toWorld \in Seq(World!Message)
  /\ toLogin \in Seq(World!Reply)
  /\ openStatus \in 0..3
  /\ status \in [Handle -> Statuses]
  /\ pendingRole \in [Handle -> Pid \cup {None}]
  /\ asked \in Seq([handle : Handle, pid : Pid])
  /\ loginQueue \in [Pid -> {"no", "new", "old"}]
  /\ loginCnt \in Nat
  /\ waitQueue \in [Pid -> World!Message \cup {None}]
  /\ \A p \in Pid : waitQueue[p] # None => waitQueue[p].type = "LoginPlayer" /\ waitQueue[p].pid = p
  /\ tokenCache \in [Pid -> Token \cup {None}]
  /\ lastToken \in 0..MaxLogins
  /\ forwarded \in SUBSET Handle
  /\ crossed \in SUBSET Pid
  /\ failed \in SUBSET Pid
  /\ lost \in SUBSET Handle

\* The logins m_iLoginCnt has to count.
Noted == {p \in Pid : loginQueue[p] # "no"}
Covered == loginCnt >= Cardinality(Noted)

\* The parts need each other: the counts add up only over tables of their
\* types; a socket stays in in_login_role because no second login of it is
\* answered first; and a place is kept because no logout that would return it
\* is in the mail, which only crossed players have to fear.
IInv ==
  /\ QueueProofs!IInv
  /\ GateTypes
  /\ Covered
  /\ \A h \in Handle : OneLogin(h)
  /\ \A p \in Pid \ crossed : PlaceKept(p)
  /\ SlotReturned

-----------------------------------------------------------------------------
\* The instance of the queue and its proofs speak of the same operators.
LEMMA SameCardinality ==
  ASSUME NEW S
  PROVE  /\ QueueProofs!Cardinality(S) = Cardinality(S) /\ Queue!Cardinality(S) = Cardinality(S)
         /\ World!Cardinality(S) = Cardinality(S)
<1>1. QueueProofs!Cardinality(S) = Cardinality(S)
  BY DEF QueueProofs!Cardinality, Cardinality
<1>2. Queue!Cardinality(S) = Cardinality(S)
  BY DEF Queue!Cardinality, Cardinality
<1>3. World!Cardinality(S) = Cardinality(S)
  BY DEF World!Cardinality, Cardinality
<1> QED
  BY <1>1, <1>2, <1>3

\* The assumption the proofs of the queue rest on.
LEMMA QueueAssumed == QueueProofs!LoginQueueAssumption
<1>1. QueueProofs!IsFiniteSet(Pid) = IsFiniteSet(Pid)
  BY DEF QueueProofs!IsFiniteSet, IsFiniteSet
<1> QED
  BY <1>1, LoginGateAssumption DEF QueueProofs!LoginQueueAssumption

\* Its actions are those the proofs are about.
LEMMA SameQueue ==
  /\ Queue!Init <=> QueueProofs!Init
  /\ Queue!TypeOK <=> QueueProofs!TypeOK
  /\ \A p : Queue!NeedQueue(p) <=> QueueProofs!NeedQueue(p)
  /\ \A p : Queue!OnLogin(p) <=> QueueProofs!OnLogin(p)
  /\ \A p, h : Queue!PendingQueue(p, h) <=> QueueProofs!PendingQueue(p, h)
  /\ \A p : Queue!OnLogout(p) <=> QueueProofs!OnLogout(p)
  /\ \A p : Queue!QuitQueue(p) <=> QueueProofs!QuitQueue(p)
  /\ \A limit : Queue!SetOnlinePlayerLimit(limit) <=> QueueProofs!SetOnlinePlayerLimit(limit)
  /\ Queue!_CheckTimeOut <=> QueueProofs!_CheckTimeOut
<1>1. Queue!Number = QueueProofs!Number
  BY DEF Queue!Number, QueueProofs!Number
<1>2. \A n : Queue!NextNumbers(n) = QueueProofs!NextNumbers(n)
  BY <1>1, SameCardinality
  DEF Queue!NextNumbers, QueueProofs!NextNumbers, Queue!WaitingNumbers, QueueProofs!WaitingNumbers
<1>3. \A S : Queue!Max(S) = QueueProofs!Max(S)
  BY DEF Queue!Max, QueueProofs!Max
<1>4. \A n, kept : Queue!CallNumbers(n, kept) <=> QueueProofs!CallNumbers(n, kept)
  BY <1>1, <1>2, <1>3 DEF Queue!CallNumbers, QueueProofs!CallNumbers
<1>5. Queue!GetOnlineTotCnt = QueueProofs!GetOnlineTotCnt
  BY SameCardinality DEF Queue!GetOnlineTotCnt, QueueProofs!GetOnlineTotCnt,
                         Queue!CalledPids, QueueProofs!CalledPids
<1>6. Queue!TimedOut = QueueProofs!TimedOut
  BY DEF Queue!TimedOut, QueueProofs!TimedOut
<1>7. Queue!Init <=> QueueProofs!Init
  BY <1>1 DEF Queue!Init, QueueProofs!Init
<1>8. Queue!TypeOK <=> QueueProofs!TypeOK
  BY <1>1 DEF Queue!TypeOK, QueueProofs!TypeOK
<1>9. \A p : Queue!NeedQueue(p) <=> QueueProofs!NeedQueue(p)
  BY <1>1, <1>5 DEF Queue!NeedQueue, QueueProofs!NeedQueue
<1>10. \A p : Queue!OnLogin(p) <=> QueueProofs!OnLogin(p)
  BY DEF Queue!OnLogin, QueueProofs!OnLogin
<1>11. \A p, h : Queue!PendingQueue(p, h) <=> QueueProofs!PendingQueue(p, h)
  BY DEF Queue!PendingQueue, QueueProofs!PendingQueue
<1>12. \A p : Queue!OnLogout(p) <=> QueueProofs!OnLogout(p)
  BY <1>4 DEF Queue!OnLogout, QueueProofs!OnLogout
<1>13. \A p : Queue!QuitQueue(p) <=> QueueProofs!QuitQueue(p)
  BY DEF Queue!QuitQueue, QueueProofs!QuitQueue
<1>14. \A limit : Queue!SetOnlinePlayerLimit(limit) <=> QueueProofs!SetOnlinePlayerLimit(limit)
  BY <1>4 DEF Queue!SetOnlinePlayerLimit, QueueProofs!SetOnlinePlayerLimit
<1>15. Queue!_CheckTimeOut <=> QueueProofs!_CheckTimeOut
  BY <1>3, <1>4, <1>5, <1>6, SameCardinality DEF Queue!_CheckTimeOut, QueueProofs!_CheckTimeOut
<1> QED
  BY <1>7, <1>8, <1>9, <1>10, <1>11, <1>12, <1>13, <1>14, <1>15

\* The types of the queue in the next state.
LEMMA QueueTypesNext == Queue!TypeOK' <=> QueueProofs!TypeOK'
<1>1. Queue!TypeOK <=> QueueProofs!TypeOK
  BY SameQueue
<1> QED
  BY <1>1, PTL

\* The queue keeps its invariant whatever the login service calls.
LEMMA QueueKept ==
  ASSUME QueueProofs!IInv,
         \/ UNCHANGED queueVars
         \/ \E p \in Pid : ~Queue!NeedQueue(p) /\ Queue!OnLogin(p)
         \/ \E p \in Pid, h \in Handle : Queue!NeedQueue(p) /\ Queue!PendingQueue(p, h)
         \/ \E p \in Pid : Queue!OnLogout(p) \/ Queue!QuitQueue(p)
         \/ \E limit \in Limits : Queue!SetOnlinePlayerLimit(limit)
         \/ Queue!_CheckTimeOut
  PROVE  QueueProofs!IInv' /\ Queue!TypeOK'
<1>1. QueueProofs!IInv'
  <2>1. CASE UNCHANGED queueVars
    <3>1. UNCHANGED QueueProofs!vars
      BY <2>1 DEF queueVars, QueueProofs!vars
    <3> QED
      BY <3>1, QueueProofs!StutterIInv, QueueAssumed
  <2>2. CASE \E p \in Pid : ~Queue!NeedQueue(p) /\ Queue!OnLogin(p)
    <3>1. PICK p \in Pid : ~Queue!NeedQueue(p) /\ Queue!OnLogin(p)
      BY <2>2
    <3>2. ~QueueProofs!NeedQueue(p) /\ QueueProofs!OnLogin(p)
      BY <3>1, SameQueue, Zenon
    <3> QED
      BY <3>2, QueueProofs!OnLoginIInv, QueueAssumed
  <2>3. CASE \E p \in Pid, h \in Handle : Queue!NeedQueue(p) /\ Queue!PendingQueue(p, h)
    <3>1. PICK p \in Pid, h \in Handle : Queue!NeedQueue(p) /\ Queue!PendingQueue(p, h)
      BY <2>3
    <3>2. QueueProofs!NeedQueue(p) /\ QueueProofs!PendingQueue(p, h)
      BY <3>1, SameQueue, Zenon
    <3> QED
      BY <3>2, QueueProofs!PendingQueueIInv, QueueAssumed
  <2>4. CASE \E p \in Pid : Queue!OnLogout(p) \/ Queue!QuitQueue(p)
    <3>1. PICK p \in Pid : Queue!OnLogout(p) \/ Queue!QuitQueue(p)
      BY <2>4
    <3>2. QueueProofs!OnLogout(p) \/ QueueProofs!QuitQueue(p)
      BY <3>1, SameQueue, Zenon
    <3> QED
      BY <3>2, QueueProofs!OnLogoutIInv, QueueProofs!QuitQueueIInv, QueueAssumed
  <2>5. CASE \E limit \in Limits : Queue!SetOnlinePlayerLimit(limit)
    <3>1. PICK limit \in Limits : Queue!SetOnlinePlayerLimit(limit)
      BY <2>5
    <3>2. QueueProofs!SetOnlinePlayerLimit(limit)
      BY <3>1, SameQueue, Zenon
    <3> QED
      BY <3>2, QueueProofs!SetOnlinePlayerLimitIInv, QueueAssumed
  <2>6. CASE Queue!_CheckTimeOut
    <3>1. QueueProofs!_CheckTimeOut
      BY <2>6, SameQueue, Zenon
    <3> QED
      BY <3>1, QueueProofs!CheckTimeOutIInv, QueueAssumed
  <2> QED
    BY <2>1, <2>2, <2>3, <2>4, <2>5, <2>6
<1>2. QueueProofs!TypeOK'
  BY <1>1 DEF QueueProofs!IInv
<1> QED
  BY <1>1, <1>2, QueueTypesNext


-----------------------------------------------------------------------------
(* What the messages carry, and how the logins of a socket are counted *)

\* The types of the queue and those of the rest are all.
LEMMA TypesSplit == Queue!TypeOK /\ GateTypes => TypeOK
  BY DEF TypeOK, GateTypes

\* Messages to the world,
LEMMA MessageFacts ==
  /\ \A p \in Pid, h \in Handle, t \in Token :
       /\ World!LoginMessage(p, h, t) \in World!Message
       /\ World!LoginMessage(p, h, t).type = "LoginPlayer"
       /\ World!LoginMessage(p, h, t).pid = p /\ World!LoginMessage(p, h, t).handle = h
       /\ World!LoginMessage(p, h, t).token = t
  /\ \A h \in Handle :
       /\ World!ClosedMessage(h) \in World!Message
       /\ World!ClosedMessage(h).type = "DelConnection" /\ World!ClosedMessage(h).handle = h
  /\ \A m \in World!Message :
       /\ m.handle \in Handle /\ m.type \in {"LoginPlayer", "DelConnection"}
       /\ m.type = "LoginPlayer" => m.pid \in Pid /\ m.token \in Token
<1>1. ASSUME NEW p \in Pid, NEW h \in Handle, NEW t \in Token
      PROVE  /\ World!LoginMessage(p, h, t) \in World!Message
             /\ World!LoginMessage(p, h, t).type = "LoginPlayer"
             /\ World!LoginMessage(p, h, t).pid = p /\ World!LoginMessage(p, h, t).handle = h
             /\ World!LoginMessage(p, h, t).token = t
  <2>1. World!LoginMessage(p, h, t) \in World!Message
    BY DEF World!Message
  <2> QED
    BY <2>1 DEF World!LoginMessage
<1>2. ASSUME NEW h \in Handle
      PROVE  /\ World!ClosedMessage(h) \in World!Message
             /\ World!ClosedMessage(h).type = "DelConnection" /\ World!ClosedMessage(h).handle = h
  <2>1. World!ClosedMessage(h) \in World!Message
    BY DEF World!Message
  <2> QED
    BY <2>1 DEF World!ClosedMessage
<1>3. ASSUME NEW m \in World!Message
      PROVE  /\ m.handle \in Handle /\ m.type \in {"LoginPlayer", "DelConnection"}
             /\ m.type = "LoginPlayer" => m.pid \in Pid /\ m.token \in Token
  <2>1. CASE \E p \in Pid, h \in Handle, t \in Token : m = World!LoginMessage(p, h, t)
    BY <1>1, <2>1
  <2>2. CASE \E h \in Handle : m = World!ClosedMessage(h)
    BY <1>2, <2>2
  <2> QED
    BY <2>1, <2>2 DEF World!Message
<1> QED
  BY <1>1, <1>2, <1>3

\* messages from it,
LEMMA ResultFacts ==
  ASSUME NEW p \in Pid, NEW h \in Handle \cup {None}, NEW t \in Token,
         NEW err \in {"ok", "in_login", "not_exist_player", "script_error"}
  PROVE  /\ World!Result(p, h, t, err) \in World!Reply
         /\ World!Result(p, h, t, err).type = "LoginResult"
         /\ World!Result(p, h, t, err).pid = p /\ World!Result(p, h, t, err).handle = h
         /\ World!Result(p, h, t, err).token = t
<1>1. World!Result(p, h, t, err) \in World!Reply
  BY DEF World!Reply
<1> QED
  BY <1>1 DEF World!Result

\* which are these,
LEMMA ReplyFacts ==
  /\ \A p \in Pid, t \in Token :
       /\ World!Left(p, t) \in World!Reply
       /\ World!Left(p, t).type = "OnLogout" /\ World!Left(p, t).pid = p
  /\ \A r \in World!Reply :
       /\ r.type \in {"LoginResult", "OnLogout"} /\ r.pid \in Pid /\ r.token \in Token
       /\ r.type = "LoginResult" => r.handle \in Handle \cup {None}
<1> DEFINE Errors == {"ok", "in_login", "not_exist_player", "script_error"}
<1>2. ASSUME NEW p \in Pid, NEW t \in Token
      PROVE  /\ World!Left(p, t) \in World!Reply
             /\ World!Left(p, t).type = "OnLogout" /\ World!Left(p, t).pid = p
             /\ World!Left(p, t).token = t
  <2>1. World!Left(p, t) \in World!Reply
    BY DEF World!Reply
  <2> QED
    BY <2>1 DEF World!Left
<1>3. ASSUME NEW r \in World!Reply
      PROVE  /\ r.type \in {"LoginResult", "OnLogout"} /\ r.pid \in Pid /\ r.token \in Token
             /\ r.type = "LoginResult" => r.handle \in Handle \cup {None}
  <2>1. CASE \E p \in Pid, h \in Handle \cup {None}, t \in Token, err \in Errors :
               r = World!Result(p, h, t, err)
    BY <2>1, ResultFacts
  <2>2. CASE \E p \in Pid, t \in Token : r = World!Left(p, t)
    BY <1>2, <2>2
  <2> QED
    BY <2>1, <2>2 DEF World!Reply
<1> QED
  BY <1>2, <1>3

\* and the sessions of the world.
LEMMA SessionFacts ==
  /\ \A s \in SessionRecord :
       /\ s # None /\ s.at \in {"loading", "online"} /\ s.handle \in Handle \cup {None}
       /\ s.token \in Token
       /\ [s EXCEPT !.handle = None] \in SessionRecord
       /\ [s EXCEPT !.handle = None].at = s.at /\ [s EXCEPT !.handle = None].handle = None
       /\ [s EXCEPT !.at = "online"] \in SessionRecord
       /\ [s EXCEPT !.at = "online"].at = "online" /\ [s EXCEPT !.at = "online"].handle = s.handle
  /\ \A h \in Handle, t \in Token : \A at \in {"loading", "online"} :
       [at |-> at, handle |-> h, token |-> t] \in SessionRecord
  BY NilAssumption DEF SessionRecord

\* nil is neither a player nor a socket nor a message.
LEMMA NilFacts == None \notin Pid /\ None \notin Handle /\ None \notin World!Message
  BY NilAssumption, LoginGateAssumption

\* The requests, logins and results of a socket,
AskedBy(h) == {a \in [handle : Handle, pid : Pid] : a.handle = h}
SentFor(h) == {m \in World!Message : m.type = "LoginPlayer" /\ m.handle = h}
ToldTo(h) == {r \in World!Reply : r.type = "LoginResult" /\ r.handle = h}

\* how many there are of each,
AskedCnt(h) == Count(asked, AskedBy(h))
HeldCnt(h) == Cardinality(Held(h))
MailedCnt(h) == Count(toWorld, SentFor(h))
LoadingCnt(h) == Cardinality(LoadingFrom(h))
ResultCnt(h) == Count(toLogin, ToldTo(h))

\* and OneLogin in these numbers.
Numbers(h) ==
  /\ AskedCnt(h) \in Nat /\ HeldCnt(h) \in Nat /\ MailedCnt(h) \in Nat
  /\ LoadingCnt(h) \in Nat /\ ResultCnt(h) \in Nat
View(h) ==
  /\ AskedCnt(h) + HeldCnt(h) + MailedCnt(h) + LoadingCnt(h) + ResultCnt(h) <= 1
  /\ status[h] \notin {"in_login_role", "kicked", "closed"} =>
       AskedCnt(h) + HeldCnt(h) + MailedCnt(h) + LoadingCnt(h) + ResultCnt(h) = 0
  /\ owner[h] # None => h \in forwarded
  /\ h \in forwarded => AskedCnt(h) = 0 /\ HeldCnt(h) = 0 /\ MailedCnt(h) = 0
  /\ \/ h \in lost \/ status[h] # "in_login_role"
     \/ AskedCnt(h) + HeldCnt(h) + MailedCnt(h) + LoadingCnt(h) + ResultCnt(h) > 0

\* The logins of a socket are those numbers.
LEMMA NumberFacts ==
  GateTypes => \A h \in Handle :
    /\ Numbers(h)
    /\ IsFiniteSet(Held(h)) /\ IsFiniteSet(LoadingFrom(h))
    /\ OneLogin(h) <=> View(h)
<1> SUFFICES ASSUME GateTypes, NEW h \in Handle
             PROVE  /\ Numbers(h)
                    /\ IsFiniteSet(Held(h)) /\ IsFiniteSet(LoadingFrom(h))
                    /\ OneLogin(h) <=> View(h)
  OBVIOUS
<1>1. /\ asked \in Seq([handle : Handle, pid : Pid])
      /\ toWorld \in Seq(World!Message) /\ toLogin \in Seq(World!Reply)
  BY DEF GateTypes
<1>2. Asked(h) = {i \in DOMAIN asked : asked[i] \in AskedBy(h)}
  <2> DEFINE S == [handle : Handle, pid : Pid]
  <2>1. \A i \in DOMAIN asked : asked[i] \in S
    <3>1. asked \in Seq(S)
      BY <1>1
    <3> HIDE DEF S
    <3> QED
      BY <3>1
  <2> QED
    BY <2>1 DEF Asked, AskedBy
<1>3. Mailed(h) = {i \in DOMAIN toWorld : toWorld[i] \in SentFor(h)}
  <2>1. \A i \in DOMAIN toWorld : toWorld[i] \in World!Message
    BY <1>1
  <2> QED
    BY <2>1 DEF Mailed, SentFor
<1>4. Results(h) = {i \in DOMAIN toLogin : toLogin[i] \in ToldTo(h)}
  <2>1. \A i \in DOMAIN toLogin : toLogin[i] \in World!Reply
    BY <1>1
  <2> QED
    BY <2>1 DEF Results, ToldTo
<1>5. /\ IsFiniteSet(Asked(h)) /\ AskedCnt(h) = Cardinality(Asked(h)) /\ AskedCnt(h) \in Nat
      /\ IsFiniteSet(Mailed(h)) /\ MailedCnt(h) = Cardinality(Mailed(h)) /\ MailedCnt(h) \in Nat
      /\ ResultCnt(h) = Cardinality(Results(h)) /\ ResultCnt(h) \in Nat
  <2>1. IsFiniteSet(Asked(h)) /\ AskedCnt(h) = Cardinality(Asked(h)) /\ AskedCnt(h) \in Nat
    <3>1. /\ IsFiniteSet({i \in DOMAIN asked : asked[i] \in AskedBy(h)})
          /\ Count(asked, AskedBy(h)) \in Nat
      BY <1>1, CountNat
    <3> QED
      BY <1>2, <3>1 DEF AskedCnt, Count
  <2>2. IsFiniteSet(Mailed(h)) /\ MailedCnt(h) = Cardinality(Mailed(h)) /\ MailedCnt(h) \in Nat
    <3>1. /\ IsFiniteSet({i \in DOMAIN toWorld : toWorld[i] \in SentFor(h)})
          /\ Count(toWorld, SentFor(h)) \in Nat
      BY <1>1, CountNat
    <3> QED
      BY <1>3, <3>1 DEF MailedCnt, Count
  <2>3. ResultCnt(h) = Cardinality(Results(h)) /\ ResultCnt(h) \in Nat
    <3>1. Count(toLogin, ToldTo(h)) \in Nat
      BY <1>1, CountNat
    <3> QED
      BY <1>4, <3>1 DEF ResultCnt, Count
  <2> QED
    BY <2>1, <2>2, <2>3
<1>6. Held(h) \in SUBSET Pid /\ LoadingFrom(h) \in SUBSET Pid
  BY DEF Held, LoadingFrom
<1>7. IsFiniteSet(Held(h)) /\ IsFiniteSet(LoadingFrom(h))
  BY <1>6, FS_Subset, LoginGateAssumption
<1>8. HeldCnt(h) \in Nat /\ LoadingCnt(h) \in Nat
  BY <1>7, FS_CardinalityType DEF HeldCnt, LoadingCnt
<1>9. Numbers(h)
  BY <1>5, <1>8 DEF Numbers
<1>10. LoginsOf(h) = AskedCnt(h) + HeldCnt(h) + MailedCnt(h) + LoadingCnt(h) + ResultCnt(h)
  BY <1>5 DEF LoginsOf, HeldCnt, LoadingCnt
<1>11. Asked(h) \cup Held(h) \cup Mailed(h) = {} <=> AskedCnt(h) = 0 /\ HeldCnt(h) = 0 /\ MailedCnt(h) = 0
  BY <1>5, <1>7, FS_EmptySet DEF HeldCnt
<1>12. OneLogin(h) <=> View(h)
  BY <1>10, <1>11 DEF OneLogin, View
<1> QED
  BY <1>7, <1>9, <1>12

\* The same of the next state.
LEMMA NumbersNext == GateTypes' => \A h \in Handle : Numbers(h)' /\ (OneLogin(h)' <=> View(h)')
<1>1. (GateTypes => \A h \in Handle :
         /\ Numbers(h)
         /\ IsFiniteSet(Held(h)) /\ IsFiniteSet(LoadingFrom(h))
         /\ OneLogin(h) <=> View(h))'
  BY NumberFacts, PTL
<1> QED
  BY <1>1

\* In a step that keeps the types it is enough to follow the numbers.
LEMMA ByNumbers ==
  ASSUME GateTypes, GateTypes', NEW g \in Handle, OneLogin(g),
         Numbers(g) /\ Numbers(g)' /\ View(g) => View(g)'
  PROVE  OneLogin(g)'
<1>1. Numbers(g) /\ View(g)
  BY NumberFacts
<1> QED
  BY <1>1, NumbersNext

\* Where the queues and sessions stay as they are so do the numbers.
LEMMA SameNumbers ==
  \A h \in Handle :
    /\ asked' = asked => AskedCnt(h)' = AskedCnt(h)
    /\ waitQueue' = waitQueue => HeldCnt(h)' = HeldCnt(h)
    /\ toWorld' = toWorld => MailedCnt(h)' = MailedCnt(h)
    /\ session' = session => LoadingCnt(h)' = LoadingCnt(h)
    /\ toLogin' = toLogin => ResultCnt(h)' = ResultCnt(h)
  BY DEF AskedCnt, HeldCnt, MailedCnt, LoadingCnt, ResultCnt, Held, LoadingFrom,
         AskedBy, SentFor, ToldTo, World!Loading


-----------------------------------------------------------------------------
(* m_iLoginCnt *)

\* Logins that are sent are noted, and those that were not noted are counted.
LEMMA SentAreCounted ==
  ASSUME GateTypes, Covered, NEW order \in Seq(World!Message),
         \A i \in DOMAIN order : order[i].type = "LoginPlayer",
         Send2WorldLogin(order)
  PROVE  /\ loginQueue' \in [Pid -> {"no", "new", "old"}] /\ loginCnt' \in Nat
         /\ toWorld' = toWorld \o order
         /\ Covered'
<1> DEFINE pids == {order[i].pid : i \in DOMAIN order}
           fresh == {p \in pids : loginQueue[p] = "no"}
<1>1. \A i \in DOMAIN order : order[i] \in World!Message
  OBVIOUS
<1>2. pids \subseteq Pid
  BY <1>1, MessageFacts
<1>3. /\ loginQueue' = [p \in Pid |-> IF p \in pids THEN "new" ELSE loginQueue[p]]
      /\ loginCnt' = loginCnt + Cardinality(fresh)
      /\ toWorld' = toWorld \o order
  BY DEF Send2WorldLogin
<1> HIDE DEF pids
<1>4. loginQueue \in [Pid -> {"no", "new", "old"}] /\ loginCnt \in Nat
  BY DEF GateTypes
<1>5. Noted' = Noted \cup fresh /\ Noted \cap fresh = {}
  BY <1>2, <1>3, <1>4 DEF Noted
<1>6. Noted \in SUBSET Pid /\ fresh \in SUBSET Pid
  BY <1>2 DEF Noted
<1>7. IsFiniteSet(Noted) /\ IsFiniteSet(fresh)
  BY <1>6, FS_Subset, LoginGateAssumption
<1> HIDE DEF fresh
<1>8. Cardinality(Noted) \in Nat /\ Cardinality(fresh) \in Nat
  BY <1>7, FS_CardinalityType
<1>9. Cardinality(Noted') = Cardinality(Noted) + Cardinality(fresh) - Cardinality(Noted \cap fresh)
  BY <1>5, <1>7, FS_Union
<1>10. Cardinality(Noted \cap fresh) = 0
  BY <1>5, FS_EmptySet
<1>11. Cardinality(Noted') = Cardinality(Noted) + Cardinality(fresh)
  BY <1>8, <1>9, <1>10
<1>12. Covered'
  BY <1>3, <1>4, <1>8, <1>11 DEF Covered
<1>13. loginQueue' \in [Pid -> {"no", "new", "old"}]
  BY <1>3, <1>4
<1> QED
  BY <1>3, <1>4, <1>8, <1>12, <1>13

\* A login that is left was counted.
LEMMA LeftIsCounted ==
  ASSUME GateTypes, Covered, NEW p \in Pid, LeaveLoginQueue(p)
  PROVE  /\ loginQueue' \in [Pid -> {"no", "new", "old"}] /\ loginCnt' \in Nat
         /\ Covered'
<1>1. loginQueue \in [Pid -> {"no", "new", "old"}] /\ loginCnt \in Nat
  BY DEF GateTypes
<1>2. /\ loginCnt' = (IF loginQueue[p] # "no" THEN loginCnt - 1 ELSE loginCnt)
      /\ loginQueue' = [loginQueue EXCEPT ![p] = "no"]
  BY DEF LeaveLoginQueue
<1>3. Noted' = Noted \ {p}
  BY <1>1, <1>2 DEF Noted
<1>4. p \in Noted <=> loginQueue[p] # "no"
  BY DEF Noted
<1>5. Noted \in SUBSET Pid
  BY DEF Noted
<1>6. IsFiniteSet(Noted)
  BY <1>5, FS_Subset, LoginGateAssumption
<1>7. Cardinality(Noted) \in Nat /\ Cardinality(Noted') \in Nat
  BY <1>3, <1>6, FS_CardinalityType, FS_RemoveElement
<1>8. Cardinality(Noted') = IF p \in Noted THEN Cardinality(Noted) - 1 ELSE Cardinality(Noted)
  BY <1>3, <1>6, FS_RemoveElement
<1>9. loginCnt >= Cardinality(Noted)
  BY DEF Covered
<1>10. loginCnt' \in Nat /\ loginCnt' >= Cardinality(Noted')
  BY <1>1, <1>2, <1>4, <1>7, <1>8, <1>9
<1>11. loginQueue' \in [Pid -> {"no", "new", "old"}]
  BY <1>1, <1>2
<1> QED
  BY <1>10, <1>11 DEF Covered

\* The parts of the invariant, as the steps below use them.
LEMMA Parts ==
  /\ IInv <=> /\ QueueProofs!IInv /\ Queue!TypeOK /\ GateTypes /\ Covered
              /\ \A h \in Handle : OneLogin(h)
              /\ \A p \in Pid \ crossed : PlaceKept(p)
              /\ SlotReturned
  /\ IInv => online \subseteq Pid
<1>1. QueueProofs!IInv => Queue!TypeOK
  BY SameQueue DEF QueueProofs!IInv
<1>2. QueueProofs!IInv => online \subseteq Pid
  BY DEF QueueProofs!IInv, QueueProofs!TypeOK
<1> QED
  BY <1>1, <1>2 DEF IInv

\* The same of the next state.
LEMMA PartsNext ==
  IInv' <=> /\ QueueProofs!IInv' /\ Queue!TypeOK' /\ GateTypes' /\ Covered'
            /\ \A h \in Handle : OneLogin(h)'
            /\ \A p \in Pid \ crossed' : PlaceKept(p)'
            /\ SlotReturned'
<1>1. (/\ IInv <=> /\ QueueProofs!IInv /\ Queue!TypeOK /\ GateTypes /\ Covered
                   /\ \A h \in Handle : OneLogin(h)
                   /\ \A p \in Pid \ crossed : PlaceKept(p)
                   /\ SlotReturned
       /\ IInv => online \subseteq Pid)'
  BY Parts, PTL
<1> QED
  BY <1>1

\* The way of a login: what PlaceKept and SlotReturned look at.
slotVars == <<waitQueue, toWorld, toLogin, session, online, crossed, failed>>

\* Where none of it changes the places stay as they are.
LEMMA SlotsUnchanged ==
  ASSUME UNCHANGED slotVars,
         \A p \in Pid \ crossed : PlaceKept(p), SlotReturned
  PROVE  (\A p \in Pid \ crossed' : PlaceKept(p)') /\ SlotReturned'
  BY DEF slotVars, PlaceKept, SlotReturned, OnItsWay, InMail, LogoutInMail

\* A step that moves no login and only lets a socket through its accounts, or
\* kicks it, keeps the invariant.
LEMMA QuietStep ==
  ASSUME IInv, QueueProofs!IInv', Queue!TypeOK', GateTypes',
         UNCHANGED <<slotVars, asked, owner, forwarded, lost>>,
         Covered',
         \A h \in Handle : \/ status'[h] = status[h]
                           \/ status'[h] \in {"kicked", "closed"}
                           \/ /\ status[h] \notin {"in_login_role", "kicked", "closed"}
                              /\ status'[h] # "in_login_role"
  PROVE  IInv'
<1>1. GateTypes /\ (\A h \in Handle : OneLogin(h))
      /\ (\A p \in Pid \ crossed : PlaceKept(p)) /\ SlotReturned
  BY Parts
<1>2. UNCHANGED slotVars /\ UNCHANGED <<asked, waitQueue, toWorld, session, toLogin>>
      /\ owner' = owner /\ forwarded' = forwarded /\ lost' = lost
  BY DEF slotVars
<1>3. ASSUME NEW h \in Handle PROVE OneLogin(h)'
  <2>1. /\ AskedCnt(h)' = AskedCnt(h) /\ HeldCnt(h)' = HeldCnt(h)
        /\ MailedCnt(h)' = MailedCnt(h) /\ LoadingCnt(h)' = LoadingCnt(h)
        /\ ResultCnt(h)' = ResultCnt(h)
    BY <1>2, SameNumbers
  <2>2. ASSUME Numbers(h), Numbers(h)', View(h) PROVE View(h)'
    BY <2>1, <2>2, <1>2 DEF View
  <2> QED
    BY <1>1, <2>2, ByNumbers
<1>4. (\A p \in Pid \ crossed' : PlaceKept(p)') /\ SlotReturned'
  BY <1>1, <1>2, SlotsUnchanged
<1> QED
  BY <1>3, <1>4, PartsNext

-----------------------------------------------------------------------------
(* Requests of the client *)

\* Nothing is counted where m_mRoleLoginQueue and m_iLoginCnt stay.
LEMMA CoveredUnchanged ==
  ASSUME Covered, loginQueue' = loginQueue, loginCnt' = loginCnt
  PROVE  Covered'
  BY DEF Covered, Noted

\* A socket goes through the checks of its account.
LEMMA LoginAccountIInv ==
  ASSUME IInv, NEW h \in Handle, LoginAccount(h) \/ _LoginAccount3(h)
  PROVE  IInv'
<1>1. GateTypes /\ Covered /\ QueueProofs!IInv
  BY Parts
<1>2. /\ UNCHANGED <<queueVars, worldVars, openStatus, asked, loginVars, historyVars>>
      /\ \/ \E s \in {"in_login_account", "login_account"} :
              /\ status[h] \in {"no_account", "in_login_account"}
              /\ status' = [status EXCEPT ![h] = s] /\ pendingRole' = pendingRole
         \/ /\ status' = [status EXCEPT ![h] = "kicked"]
            /\ pendingRole' = [pendingRole EXCEPT ![h] = None]
  BY DEF LoginAccount, _LoginAccount3, KickConnection
<1>3. QueueProofs!IInv' /\ Queue!TypeOK'
  BY <1>1, <1>2, QueueKept
<1>4. status' \in [Handle -> Statuses] /\ pendingRole' \in [Handle -> Pid \cup {None}]
  BY <1>1, <1>2 DEF GateTypes, Statuses
<1>5. GateTypes'
  BY <1>1, <1>2, <1>4 DEF GateTypes, worldVars, loginVars, historyVars
<1>6. Covered'
  BY <1>1, <1>2, CoveredUnchanged DEF loginVars
<1>7. \A g \in Handle : \/ status'[g] = status[g] \/ status'[g] \in {"kicked", "closed"}
                        \/ /\ status[g] \notin {"in_login_role", "kicked", "closed"}
                           /\ status'[g] # "in_login_role"
  BY <1>1, <1>2 DEF GateTypes
<1>8. UNCHANGED <<slotVars, asked, owner, forwarded, lost>>
  BY <1>2 DEF slotVars, queueVars, worldVars, loginVars, historyVars
<1> QED
  BY <1>3, <1>5, <1>6, <1>7, <1>8, QuietStep

\* A player leaves the queue.
LEMMA QuitLoginQueueIInv ==
  ASSUME IInv, NEW h \in Handle, QuitLoginQueue(h)
  PROVE  IInv'
<1>1. GateTypes /\ Covered /\ QueueProofs!IInv
  BY Parts
<1>2. /\ UNCHANGED <<worldVars, openStatus, status, asked, loginVars, historyVars>>
      /\ pendingRole[h] # None /\ pendingRole' = [pendingRole EXCEPT ![h] = None]
      /\ Queue!QuitQueue(pendingRole[h]) \/ UNCHANGED queueVars
  BY DEF QuitLoginQueue
<1>3. pendingRole[h] \in Pid
  BY <1>1, <1>2 DEF GateTypes
<1>4. QueueProofs!IInv' /\ Queue!TypeOK'
  BY <1>1, <1>2, <1>3, QueueKept
<1>5. pendingRole' \in [Handle -> Pid \cup {None}]
  BY <1>1, <1>2 DEF GateTypes
<1>6. GateTypes'
  BY <1>1, <1>2, <1>5 DEF GateTypes, worldVars, loginVars, historyVars
<1>7. Covered'
  BY <1>1, <1>2, CoveredUnchanged DEF loginVars
<1>8. online' = online
  BY <1>2 DEF Queue!QuitQueue, queueVars
<1>9. UNCHANGED <<slotVars, asked, owner, forwarded, lost>> /\ status' = status
  BY <1>2, <1>8 DEF slotVars, worldVars, loginVars, historyVars
<1> QED
  BY <1>4, <1>6, <1>7, <1>9, QuietStep

\* The role is asked for: a socket that had no login under way gets one.
LEMMA LoginRoleIInv ==
  ASSUME IInv, NEW h \in Handle, NEW p \in Pid, LoginRole(h, p) \/ ReLoginRole(h, p)
  PROVE  IInv'
<1>1. /\ GateTypes /\ Covered /\ QueueProofs!IInv /\ (\A g \in Handle : OneLogin(g))
      /\ (\A q \in Pid \ crossed : PlaceKept(q)) /\ SlotReturned
  BY Parts
<1> DEFINE a == [handle |-> h, pid |-> p]
<1>2. /\ UNCHANGED <<queueVars, worldVars, openStatus, loginVars, historyVars>>
      /\ \/ /\ status' = [status EXCEPT ![h] = "kicked"] /\ asked' = asked
            /\ pendingRole' = [pendingRole EXCEPT ![h] = None]
         \/ /\ status[h] \in {"no_account", "login_account"} /\ h \notin forwarded
            /\ status' = [status EXCEPT ![h] = "in_login_role"]
            /\ asked' = Append(asked, a) /\ pendingRole' = pendingRole
  BY DEF LoginRole, ReLoginRole, KickConnection, Heard
<1>3. QueueProofs!IInv' /\ Queue!TypeOK'
  BY <1>1, <1>2, QueueKept
<1>4. a \in [handle : Handle, pid : Pid] /\ \A g : a \in AskedBy(g) <=> g = h
  BY DEF AskedBy
<1> HIDE DEF a
<1>5. /\ status \in [Handle -> Statuses] /\ pendingRole \in [Handle -> Pid \cup {None}]
      /\ asked \in Seq([handle : Handle, pid : Pid])
  BY <1>1 DEF GateTypes
<1>6. /\ status' \in [Handle -> Statuses] /\ pendingRole' \in [Handle -> Pid \cup {None}]
      /\ asked' \in Seq([handle : Handle, pid : Pid])
  <2> DEFINE S == [handle : Handle, pid : Pid]
  <2>1. asked \in Seq(S) /\ a \in S
    BY <1>4, <1>5
  <2> HIDE DEF S
  <2>2. Append(asked, a) \in Seq(S)
    BY <2>1, AppendFacts
  <2>3. asked' \in Seq(S)
    BY <1>2, <2>1, <2>2
  <2>4. status' \in [Handle -> Statuses] /\ pendingRole' \in [Handle -> Pid \cup {None}]
    BY <1>2, <1>5 DEF Statuses
  <2> QED
    BY <2>3, <2>4 DEF S
<1>7. GateTypes'
  BY <1>1, <1>2, <1>6 DEF GateTypes, worldVars, loginVars, historyVars
<1>8. Covered'
  BY <1>1, <1>2, CoveredUnchanged DEF loginVars
<1>9. UNCHANGED slotVars /\ UNCHANGED <<waitQueue, toWorld, session, toLogin, owner, forwarded, lost>>
  BY <1>2 DEF slotVars, queueVars, worldVars, loginVars, historyVars
<1>10. CASE asked' = asked /\ status' = [status EXCEPT ![h] = "kicked"]
  <2>1. \A g \in Handle : status'[g] = status[g] \/ status'[g] = "kicked"
    BY <1>5, <1>10
  <2> QED
    BY <1>3, <1>7, <1>8, <1>9, <1>10, <2>1, QuietStep
<1>11. CASE asked' = Append(asked, a) /\ status[h] \in {"no_account", "login_account"}
            /\ status' = [status EXCEPT ![h] = "in_login_role"] /\ h \notin forwarded
  <2>1. ASSUME NEW g \in Handle PROVE OneLogin(g)'
    <3>1. /\ HeldCnt(g)' = HeldCnt(g) /\ MailedCnt(g)' = MailedCnt(g)
          /\ LoadingCnt(g)' = LoadingCnt(g) /\ ResultCnt(g)' = ResultCnt(g)
      BY <1>9, SameNumbers
    <3>2. AskedCnt(g)' = AskedCnt(g) + (IF a \in AskedBy(g) THEN 1 ELSE 0)
      <4>1. AskedBy(g)' = AskedBy(g)
        BY DEF AskedBy
      <4>2. Count(Append(asked, a), AskedBy(g)) = Count(asked, AskedBy(g)) + (IF a \in AskedBy(g) THEN 1 ELSE 0)
        <5> DEFINE S == [handle : Handle, pid : Pid]
        <5>1. asked \in Seq(S) /\ a \in S
          BY <1>4, <1>5
        <5> HIDE DEF S
        <5> QED
          BY <5>1, CountAppend
      <4> QED
        BY <1>11, <4>1, <4>2 DEF AskedCnt
    <3>3. AskedCnt(g)' = AskedCnt(g) + (IF g = h THEN 1 ELSE 0)
      BY <3>2, <1>4
    <3>4. ASSUME Numbers(g), Numbers(g)', View(g) PROVE View(g)'
      <4>1. status'[g] = IF g = h THEN "in_login_role" ELSE status[g]
        BY <1>5, <1>11
      <4>2. CASE g = h
        <5>1. /\ AskedCnt(g)' = 1 /\ HeldCnt(g)' = 0 /\ MailedCnt(g)' = 0
              /\ LoadingCnt(g)' = 0 /\ ResultCnt(g)' = 0
          BY <1>11, <3>1, <3>3, <3>4, <4>2 DEF View, Numbers
        <5> QED
          BY <1>9, <1>11, <3>4, <4>1, <4>2, <5>1 DEF View
      <4>3. CASE g # h
        <5>1. AskedCnt(g)' = AskedCnt(g) /\ status'[g] = status[g]
          BY <3>3, <3>4, <4>1, <4>3 DEF Numbers
        <5> QED
          BY <1>9, <3>1, <3>4, <5>1 DEF View
      <4> QED
        BY <4>2, <4>3
    <3> QED
      BY <1>1, <1>7, <3>4, ByNumbers
  <2>2. (\A q \in Pid \ crossed' : PlaceKept(q)') /\ SlotReturned'
    BY <1>1, <1>9, SlotsUnchanged
  <2> QED
    BY <1>3, <1>7, <1>8, <2>1, <2>2, PartsNext
<1> QED
  BY <1>2, <1>10, <1>11


\* What is in the mail to the world when a message is appended to it,
LEMMA MailAppend ==
  ASSUME toWorld \in Seq(World!Message), NEW m \in World!Message, toWorld' = Append(toWorld, m)
  PROVE  /\ toWorld' \in Seq(World!Message)
         /\ \A h \in Handle : MailedCnt(h)' = MailedCnt(h) + (IF m \in SentFor(h) THEN 1 ELSE 0)
         /\ \A p \in Pid : InMail(p)' <=> InMail(p) \/ (m.type = "LoginPlayer" /\ m.pid = p)
<1>1. toWorld' \in Seq(World!Message)
  BY AppendFacts
<1>2. ASSUME NEW h \in Handle
      PROVE  MailedCnt(h)' = MailedCnt(h) + (IF m \in SentFor(h) THEN 1 ELSE 0)
  <2>1. SentFor(h)' = SentFor(h)
    BY DEF SentFor
  <2>2. Count(Append(toWorld, m), SentFor(h)) = Count(toWorld, SentFor(h)) + (IF m \in SentFor(h) THEN 1 ELSE 0)
    BY CountAppend
  <2> QED
    BY <2>1, <2>2 DEF MailedCnt
<1>3. ASSUME NEW p \in Pid
      PROVE  InMail(p)' <=> InMail(p) \/ (m.type = "LoginPlayer" /\ m.pid = p)
  BY AppendFacts DEF InMail
<1> QED
  BY <1>1, <1>2, <1>3

\* and when the first message is taken from it.
LEMMA MailTail ==
  ASSUME toWorld \in Seq(World!Message), toWorld # <<>>, toWorld' = Tail(toWorld)
  PROVE  /\ toWorld' \in Seq(World!Message) /\ Head(toWorld) \in World!Message
         /\ \A h \in Handle : MailedCnt(h) = MailedCnt(h)' + (IF Head(toWorld) \in SentFor(h) THEN 1 ELSE 0)
         /\ \A p \in Pid : InMail(p) <=> \/ InMail(p)'
                                         \/ Head(toWorld).type = "LoginPlayer" /\ Head(toWorld).pid = p
<1>1. toWorld' \in Seq(World!Message) /\ Head(toWorld) \in World!Message
  BY TailFacts
<1>2. ASSUME NEW h \in Handle
      PROVE  MailedCnt(h) = MailedCnt(h)' + (IF Head(toWorld) \in SentFor(h) THEN 1 ELSE 0)
  <2>1. SentFor(h)' = SentFor(h)
    BY DEF SentFor
  <2>2. Count(toWorld, SentFor(h)) = Count(Tail(toWorld), SentFor(h)) + (IF Head(toWorld) \in SentFor(h) THEN 1 ELSE 0)
    BY CountTail
  <2> QED
    BY <2>1, <2>2 DEF MailedCnt
<1>3. ASSUME NEW p \in Pid
      PROVE  InMail(p) <=> \/ InMail(p)'
                           \/ Head(toWorld).type = "LoginPlayer" /\ Head(toWorld).pid = p
  <2>1. /\ 1 \in DOMAIN toWorld /\ Head(toWorld) = toWorld[1]
        /\ \A i \in DOMAIN Tail(toWorld) : i + 1 \in DOMAIN toWorld /\ Tail(toWorld)[i] = toWorld[i + 1]
        /\ \A i \in DOMAIN toWorld : i = 1 \/ (i - 1 \in DOMAIN Tail(toWorld) /\ Tail(toWorld)[i - 1] = toWorld[i])
    BY TailFacts
  <2>2. InMail(p)' <=> \E i \in DOMAIN Tail(toWorld) : Tail(toWorld)[i].type = "LoginPlayer" /\ Tail(toWorld)[i].pid = p
    BY DEF InMail
  <2>3. ASSUME InMail(p)' PROVE InMail(p)
    <3>1. PICK i \in DOMAIN Tail(toWorld) : Tail(toWorld)[i].type = "LoginPlayer" /\ Tail(toWorld)[i].pid = p
      BY <2>2, <2>3
    <3>2. i + 1 \in DOMAIN toWorld /\ toWorld[i + 1].type = "LoginPlayer" /\ toWorld[i + 1].pid = p
      BY <2>1, <3>1
    <3> QED
      BY <3>2 DEF InMail
  <2>4. ASSUME InMail(p), ~(Head(toWorld).type = "LoginPlayer" /\ Head(toWorld).pid = p) PROVE InMail(p)'
    <3>1. PICK i \in DOMAIN toWorld : toWorld[i].type = "LoginPlayer" /\ toWorld[i].pid = p
      BY <2>4 DEF InMail
    <3>2. i # 1
      BY <2>1, <2>4, <3>1
    <3>3. /\ i - 1 \in DOMAIN Tail(toWorld)
          /\ Tail(toWorld)[i - 1].type = "LoginPlayer" /\ Tail(toWorld)[i - 1].pid = p
      BY <2>1, <3>1, <3>2
    <3> QED
      BY <2>2, <3>3
  <2>5. Head(toWorld).type = "LoginPlayer" /\ Head(toWorld).pid = p => InMail(p)
    BY <2>1 DEF InMail
  <2> QED
    BY <2>3, <2>4, <2>5
<1> QED
  BY <1>1, <1>2, <1>3

\* The same of the mail from the world.
LEMMA RepliesAppend ==
  ASSUME toLogin \in Seq(World!Reply), NEW r \in World!Reply, toLogin' = Append(toLogin, r)
  PROVE  /\ toLogin' \in Seq(World!Reply)
         /\ \A h \in Handle : ResultCnt(h)' = ResultCnt(h) + (IF r \in ToldTo(h) THEN 1 ELSE 0)
         /\ \A p \in Pid : LogoutInMail(p)' <=> LogoutInMail(p) \/ (r.type = "OnLogout" /\ r.pid = p)
<1>1. toLogin' \in Seq(World!Reply)
  BY AppendFacts
<1>2. ASSUME NEW h \in Handle
      PROVE  ResultCnt(h)' = ResultCnt(h) + (IF r \in ToldTo(h) THEN 1 ELSE 0)
  <2>1. ToldTo(h)' = ToldTo(h)
    BY DEF ToldTo
  <2>2. Count(Append(toLogin, r), ToldTo(h)) = Count(toLogin, ToldTo(h)) + (IF r \in ToldTo(h) THEN 1 ELSE 0)
    BY CountAppend
  <2> QED
    BY <2>1, <2>2 DEF ResultCnt
<1>3. ASSUME NEW p \in Pid
      PROVE  LogoutInMail(p)' <=> LogoutInMail(p) \/ (r.type = "OnLogout" /\ r.pid = p)
  BY AppendFacts DEF LogoutInMail
<1> QED
  BY <1>1, <1>2, <1>3

\* Taking one, too.
LEMMA RepliesTail ==
  ASSUME toLogin \in Seq(World!Reply), toLogin # <<>>, toLogin' = Tail(toLogin)
  PROVE  /\ toLogin' \in Seq(World!Reply) /\ Head(toLogin) \in World!Reply
         /\ \A h \in Handle : ResultCnt(h) = ResultCnt(h)' + (IF Head(toLogin) \in ToldTo(h) THEN 1 ELSE 0)
         /\ \A p \in Pid : LogoutInMail(p) <=> \/ LogoutInMail(p)'
                                               \/ Head(toLogin).type = "OnLogout" /\ Head(toLogin).pid = p
<1>1. toLogin' \in Seq(World!Reply) /\ Head(toLogin) \in World!Reply
  BY TailFacts
<1>2. ASSUME NEW h \in Handle
      PROVE  ResultCnt(h) = ResultCnt(h)' + (IF Head(toLogin) \in ToldTo(h) THEN 1 ELSE 0)
  <2>1. ToldTo(h)' = ToldTo(h)
    BY DEF ToldTo
  <2>2. Count(toLogin, ToldTo(h)) = Count(Tail(toLogin), ToldTo(h)) + (IF Head(toLogin) \in ToldTo(h) THEN 1 ELSE 0)
    BY CountTail
  <2> QED
    BY <2>1, <2>2 DEF ResultCnt
<1>3. ASSUME NEW p \in Pid
      PROVE  LogoutInMail(p) <=> \/ LogoutInMail(p)'
                                 \/ Head(toLogin).type = "OnLogout" /\ Head(toLogin).pid = p
  <2>1. /\ 1 \in DOMAIN toLogin /\ Head(toLogin) = toLogin[1]
        /\ \A i \in DOMAIN Tail(toLogin) : i + 1 \in DOMAIN toLogin /\ Tail(toLogin)[i] = toLogin[i + 1]
        /\ \A i \in DOMAIN toLogin : i = 1 \/ (i - 1 \in DOMAIN Tail(toLogin) /\ Tail(toLogin)[i - 1] = toLogin[i])
    BY TailFacts
  <2>2. LogoutInMail(p)' <=> \E i \in DOMAIN Tail(toLogin) : Tail(toLogin)[i].type = "OnLogout" /\ Tail(toLogin)[i].pid = p
    BY DEF LogoutInMail
  <2>3. ASSUME LogoutInMail(p)' PROVE LogoutInMail(p)
    <3>1. PICK i \in DOMAIN Tail(toLogin) : Tail(toLogin)[i].type = "OnLogout" /\ Tail(toLogin)[i].pid = p
      BY <2>2, <2>3
    <3>2. i + 1 \in DOMAIN toLogin /\ toLogin[i + 1].type = "OnLogout" /\ toLogin[i + 1].pid = p
      BY <2>1, <3>1
    <3> QED
      BY <3>2 DEF LogoutInMail
  <2>4. ASSUME LogoutInMail(p), ~(Head(toLogin).type = "OnLogout" /\ Head(toLogin).pid = p) PROVE LogoutInMail(p)'
    <3>1. PICK i \in DOMAIN toLogin : toLogin[i].type = "OnLogout" /\ toLogin[i].pid = p
      BY <2>4 DEF LogoutInMail
    <3>2. i # 1
      BY <2>1, <2>4, <3>1
    <3>3. /\ i - 1 \in DOMAIN Tail(toLogin)
          /\ Tail(toLogin)[i - 1].type = "OnLogout" /\ Tail(toLogin)[i - 1].pid = p
      BY <2>1, <3>1, <3>2
    <3> QED
      BY <2>2, <3>3
  <2>5. Head(toLogin).type = "OnLogout" /\ Head(toLogin).pid = p => LogoutInMail(p)
    BY <2>1 DEF LogoutInMail
  <2> QED
    BY <2>3, <2>4, <2>5
<1> QED
  BY <1>1, <1>2, <1>3

\* Two steps that keep the way of every login the same keep the places.
LEMMA SlotsSame ==
  ASSUME \A p \in Pid : OnItsWay(p)' <=> OnItsWay(p),
         \A p \in Pid : LogoutInMail(p)' <=> LogoutInMail(p),
         session' = session, online' = online, crossed' = crossed, failed' = failed,
         online \subseteq Pid,
         \A p \in Pid \ crossed : PlaceKept(p), SlotReturned
  PROVE  (\A p \in Pid \ crossed' : PlaceKept(p)') /\ SlotReturned'
  BY DEF PlaceKept, SlotReturned

\* A socket is closed: it is never in in_login_role again.
LEMMA SocketClosedIInv ==
  ASSUME IInv, NEW h \in Handle, SocketClosed(h)
  PROVE  IInv'
<1>1. /\ GateTypes /\ Covered /\ QueueProofs!IInv /\ (\A g \in Handle : OneLogin(g))
      /\ (\A q \in Pid \ crossed : PlaceKept(q)) /\ SlotReturned /\ online \subseteq Pid
  BY Parts
<1> DEFINE m == World!ClosedMessage(h)
<1>2. /\ status' = [status EXCEPT ![h] = "closed"]
      /\ pendingRole' = [pendingRole EXCEPT ![h] = None]
      /\ toWorld' = Append(toWorld, m)
      /\ lost' = lost \ {h}
      /\ UNCHANGED <<queueVars, session, owner, toLogin, openStatus, asked, loginVars,
                     forwarded, crossed, failed>>
  BY DEF SocketClosed
<1>3. m \in World!Message /\ m.type = "DelConnection"
  BY MessageFacts
<1> HIDE DEF m
<1>4. QueueProofs!IInv' /\ Queue!TypeOK'
  BY <1>1, <1>2, QueueKept
<1>5. toWorld \in Seq(World!Message)
  BY <1>1 DEF GateTypes
<1>6. /\ toWorld' \in Seq(World!Message)
      /\ \A g \in Handle : MailedCnt(g)' = MailedCnt(g) + (IF m \in SentFor(g) THEN 1 ELSE 0)
      /\ \A p \in Pid : InMail(p)' <=> InMail(p) \/ (m.type = "LoginPlayer" /\ m.pid = p)
  BY <1>2, <1>3, <1>5, MailAppend
<1>7. status' \in [Handle -> Statuses] /\ pendingRole' \in [Handle -> Pid \cup {None}]
      /\ status \in [Handle -> Statuses]
  BY <1>1, <1>2 DEF GateTypes, Statuses
<1>8. GateTypes'
  BY <1>1, <1>2, <1>6, <1>7 DEF GateTypes, loginVars
<1>9. Covered'
  BY <1>1, <1>2, CoveredUnchanged DEF loginVars
<1>10. ASSUME NEW g \in Handle PROVE OneLogin(g)'
  <2>1. /\ AskedCnt(g)' = AskedCnt(g) /\ HeldCnt(g)' = HeldCnt(g)
        /\ LoadingCnt(g)' = LoadingCnt(g) /\ ResultCnt(g)' = ResultCnt(g)
    BY <1>2, SameNumbers DEF loginVars
  <2>2. m \notin SentFor(g)
    BY <1>3 DEF SentFor
  <2>3. MailedCnt(g)' = MailedCnt(g) + 0
    BY <1>6, <2>2
  <2>4. ASSUME Numbers(g), Numbers(g)', View(g) PROVE View(g)'
    <3>1. status'[g] = IF g = h THEN "closed" ELSE status[g]
      BY <1>2, <1>7
    <3>2. MailedCnt(g)' = MailedCnt(g)
      BY <2>3, <2>4 DEF Numbers
    <3> QED
      BY <1>2, <2>1, <2>4, <3>1, <3>2 DEF View
  <2> QED
    BY <1>1, <1>8, <2>4, ByNumbers
<1>11. (\A q \in Pid \ crossed' : PlaceKept(q)') /\ SlotReturned'
  <2>1. \A p \in Pid : OnItsWay(p)' <=> OnItsWay(p)
    BY <1>2, <1>3, <1>6 DEF OnItsWay, loginVars
  <2>2. \A p \in Pid : LogoutInMail(p)' <=> LogoutInMail(p)
    BY <1>2 DEF LogoutInMail
  <2> QED
    BY <1>1, <1>2, <2>1, <2>2, SlotsSame DEF queueVars
<1> QED
  BY <1>4, <1>8, <1>9, <1>10, <1>11, PartsNext


-----------------------------------------------------------------------------
(* The answers of the database *)

\* A socket of the client is closed, or not.
LEMMA ClosedFacts ==
  ASSUME GateTypes, NEW h \in Handle
  PROVE  Closed(h) <=> status[h] \in {"kicked", "closed"}
  BY DEF GateTypes, Closed

\* The first request is taken.
LEMMA AskedTail ==
  ASSUME asked \in Seq([handle : Handle, pid : Pid]), asked # <<>>, asked' = Tail(asked)
  PROVE  /\ asked' \in Seq([handle : Handle, pid : Pid])
         /\ Head(asked).handle \in Handle /\ Head(asked).pid \in Pid
         /\ \A g \in Handle : AskedCnt(g) = AskedCnt(g)' + (IF g = Head(asked).handle THEN 1 ELSE 0)
<1>1. asked' \in Seq([handle : Handle, pid : Pid]) /\ Head(asked) \in [handle : Handle, pid : Pid]
  BY TailFacts
<1>2. ASSUME NEW g \in Handle
      PROVE  AskedCnt(g) = AskedCnt(g)' + (IF g = Head(asked).handle THEN 1 ELSE 0)
  <2>1. AskedBy(g)' = AskedBy(g)
    BY DEF AskedBy
  <2>2. Count(asked, AskedBy(g)) = Count(Tail(asked), AskedBy(g)) + (IF Head(asked) \in AskedBy(g) THEN 1 ELSE 0)
    BY CountTail
  <2>3. Head(asked) \in AskedBy(g) <=> g = Head(asked).handle
    BY <1>1 DEF AskedBy
  <2> QED
    BY <2>1, <2>2, <2>3 DEF AskedCnt
<1> QED
  BY <1>1, <1>2

\* A request that ends here: its socket is free again, or it is gone, or lost.
LEMMA AnswerEnds ==
  ASSUME IInv, QueueProofs!IInv', Queue!TypeOK', GateTypes', Covered',
         asked # <<>>, asked' = Tail(asked),
         UNCHANGED <<slotVars, owner, forwarded>>,
         lost \subseteq lost',
         NEW h \in Handle, h = Head(asked).handle,
         \A g \in Handle \ {h} : status'[g] = status[g],
         status'[h] = "in_login_role" => h \in lost'
  PROVE  IInv'
<1>1. /\ GateTypes /\ (\A g \in Handle : OneLogin(g))
      /\ (\A q \in Pid \ crossed : PlaceKept(q)) /\ SlotReturned
  BY Parts
<1>2. UNCHANGED slotVars /\ UNCHANGED <<waitQueue, toWorld, session, toLogin, owner, forwarded>>
  BY DEF slotVars
<1>3. \A g \in Handle : AskedCnt(g) = AskedCnt(g)' + (IF g = h THEN 1 ELSE 0)
  BY <1>1, AskedTail DEF GateTypes
<1>4. ASSUME NEW g \in Handle PROVE OneLogin(g)'
  <2>1. /\ HeldCnt(g)' = HeldCnt(g) /\ MailedCnt(g)' = MailedCnt(g)
        /\ LoadingCnt(g)' = LoadingCnt(g) /\ ResultCnt(g)' = ResultCnt(g)
    BY <1>2, SameNumbers
  <2>2. ASSUME Numbers(g), Numbers(g)', View(g) PROVE View(g)'
    <3>1. CASE g = h
      <4>1. AskedCnt(g) = AskedCnt(g)' + 1
        BY <1>3, <3>1
      <4>2. /\ AskedCnt(g)' = 0 /\ HeldCnt(g)' = 0 /\ MailedCnt(g)' = 0
            /\ LoadingCnt(g)' = 0 /\ ResultCnt(g)' = 0
        <5>1. AskedCnt(g) + HeldCnt(g) + MailedCnt(g) + LoadingCnt(g) + ResultCnt(g) <= 1
          BY <2>2 DEF View
        <5>2. /\ AskedCnt(g) \in Nat /\ HeldCnt(g) \in Nat /\ MailedCnt(g) \in Nat
              /\ LoadingCnt(g) \in Nat /\ ResultCnt(g) \in Nat /\ AskedCnt(g)' \in Nat
          BY <2>2 DEF Numbers
        <5>3. /\ HeldCnt(g) = 0 /\ MailedCnt(g) = 0
              /\ LoadingCnt(g) = 0 /\ ResultCnt(g) = 0 /\ AskedCnt(g)' = 0
          BY <4>1, <5>1, <5>2
        <5> QED
          BY <2>1, <5>3
      <4> QED
        BY <1>2, <2>2, <3>1, <4>2 DEF View
    <3>2. CASE g # h
      <4>1. AskedCnt(g)' = AskedCnt(g) /\ status'[g] = status[g]
        BY <1>3, <2>2, <3>2 DEF Numbers
      <4> QED
        BY <1>2, <2>1, <2>2, <4>1 DEF View
    <3> QED
      BY <3>1, <3>2
  <2> QED
    BY <1>1, <2>2, ByNumbers
<1>5. (\A q \in Pid \ crossed' : PlaceKept(q)') /\ SlotReturned'
  BY <1>1, <1>2, SlotsUnchanged
<1> QED
  BY <1>4, <1>5, PartsNext

\* The request is dropped, and its socket lost.
LEMMA LoseAnswerIInv ==
  ASSUME IInv, LoseAnswer
  PROVE  IInv'
<1>1. GateTypes /\ Covered /\ QueueProofs!IInv
  BY Parts
<1> DEFINE h == Head(asked).handle
<1>2. /\ asked # <<>> /\ asked' = Tail(asked)
      /\ lost' = lost \cup {g \in {h} : ~Closed(g)}
      /\ UNCHANGED <<queueVars, worldVars, openStatus, status, pendingRole, loginVars,
                     forwarded, crossed, failed>>
  BY DEF LoseAnswer
<1>3. h \in Handle /\ asked' \in Seq([handle : Handle, pid : Pid])
  BY <1>1, <1>2, AskedTail DEF GateTypes
<1> HIDE DEF h
<1>4. QueueProofs!IInv' /\ Queue!TypeOK'
  BY <1>1, <1>2, QueueKept
<1>5. GateTypes'
  BY <1>1, <1>2, <1>3 DEF GateTypes, worldVars, loginVars
<1>6. Covered'
  BY <1>1, <1>2, CoveredUnchanged DEF loginVars
<1>7. status'[h] = "in_login_role" => h \in lost'
  BY <1>1, <1>2, <1>3, ClosedFacts
<1>8. UNCHANGED <<slotVars, owner, forwarded>> /\ status' = status /\ lost \subseteq lost'
  BY <1>2 DEF slotVars, queueVars, worldVars, loginVars
<1> QED
  BY <1>2, <1>3, <1>4, <1>5, <1>6, <1>7, <1>8, AnswerEnds DEF h

\* The request is refused, or the player takes a number.
LEMMA AnswerRefusedIInv ==
  ASSUME IInv, asked # <<>>, asked' = Tail(asked),
         UNCHANGED <<worldVars, openStatus, loginVars, historyVars>>,
         NEW h \in Handle, h = Head(asked).handle, NEW p \in Pid,
         \/ Closed(h) /\ UNCHANGED <<queueVars, status, pendingRole>>
         \/ KickConnection(h) /\ UNCHANGED queueVars
         \/ /\ Queue!NeedQueue(p) /\ Queue!PendingQueue(p, h)
            /\ status' = [status EXCEPT ![h] = "login_account"]
            /\ pendingRole' = [pendingRole EXCEPT ![h] = p]
  PROVE  IInv'
<1>1. GateTypes /\ Covered /\ QueueProofs!IInv
  BY Parts
<1>2. QueueProofs!IInv' /\ Queue!TypeOK'
  BY <1>1, QueueKept
<1>3. asked' \in Seq([handle : Handle, pid : Pid])
  BY <1>1, AskedTail DEF GateTypes
<1>4. /\ status \in [Handle -> Statuses] /\ pendingRole \in [Handle -> Pid \cup {None}]
  BY <1>1 DEF GateTypes
<1>5. /\ status' \in [Handle -> Statuses] /\ pendingRole' \in [Handle -> Pid \cup {None}]
      /\ \A g \in Handle \ {h} : status'[g] = status[g]
      /\ status'[h] # "in_login_role"
  <2>1. CASE Closed(h) /\ UNCHANGED <<queueVars, status, pendingRole>>
    BY <1>1, <1>4, <2>1, ClosedFacts
  <2>2. CASE KickConnection(h)
    BY <1>4, <2>2 DEF KickConnection, Statuses
  <2>3. CASE /\ status' = [status EXCEPT ![h] = "login_account"]
             /\ pendingRole' = [pendingRole EXCEPT ![h] = p]
    BY <1>4, <2>3 DEF Statuses
  <2> QED
    BY <2>1, <2>2, <2>3
<1>6. GateTypes'
  BY <1>1, <1>3, <1>5 DEF GateTypes, worldVars, loginVars, historyVars
<1>7. Covered'
  BY <1>1, CoveredUnchanged DEF loginVars
<1>8. online' = online
  BY DEF queueVars, Queue!PendingQueue
<1>9. UNCHANGED <<slotVars, owner, forwarded>> /\ lost \subseteq lost'
  BY <1>8 DEF slotVars, worldVars, loginVars, historyVars
<1> QED
  BY <1>2, <1>5, <1>6, <1>7, <1>9, AnswerEnds

\* The player gets its place, and its login is sent or held back.
LEMMA AnswerEntersIInv ==
  ASSUME IInv, asked # <<>>, asked' = Tail(asked),
         NEW h \in Handle, h = Head(asked).handle, NEW p \in Pid,
         ~Closed(h), ~Queue!NeedQueue(p), Queue!OnLogin(p), EnterLoginQueue(p, h),
         UNCHANGED <<session, owner, toLogin, status, pendingRole, tokenCache,
                     forwarded, failed, openStatus>>
  PROVE  IInv'
<1>1. /\ GateTypes /\ Covered /\ QueueProofs!IInv /\ (\A g \in Handle : OneLogin(g))
      /\ (\A q \in Pid \ crossed : PlaceKept(q)) /\ SlotReturned /\ online \subseteq Pid
  BY Parts
<1> DEFINE m == World!LoginMessage(p, h, lastToken + 1)
<1>2. /\ lastToken < MaxLogins /\ lastToken' = lastToken + 1
      /\ crossed' = IF LogoutInMail(p) THEN crossed \cup {p} ELSE crossed \ {p}
      /\ \/ Send2WorldLogin(<<m>>) /\ waitQueue' = waitQueue /\ lost' = lost
         \/ /\ waitQueue' = [waitQueue EXCEPT ![p] = m]
            /\ lost' = lost \cup {g \in Handle : /\ waitQueue[p] # None
                                                 /\ g = waitQueue[p].handle
                                                 /\ ~Closed(g)}
            /\ toWorld' = toWorld /\ loginQueue' = loginQueue /\ loginCnt' = loginCnt
  BY DEF EnterLoginQueue
<1>3. lastToken + 1 \in Token /\ lastToken' \in 0..MaxLogins
  BY <1>1, <1>2, LoginGateAssumption DEF GateTypes, Token
<1>4. m \in World!Message /\ m.type = "LoginPlayer" /\ m.pid = p /\ m.handle = h /\ m # None
  BY <1>3, MessageFacts, NilFacts
<1>5. \A g \in Handle : m \in SentFor(g) <=> g = h
  BY <1>4 DEF SentFor
<1> HIDE DEF m
<1>6. QueueProofs!IInv' /\ Queue!TypeOK'
  BY <1>1, QueueKept
<1>7. /\ asked' \in Seq([handle : Handle, pid : Pid])
      /\ \A g \in Handle : AskedCnt(g) = AskedCnt(g)' + (IF g = h THEN 1 ELSE 0)
  BY <1>1, AskedTail DEF GateTypes
<1>8. /\ toWorld \in Seq(World!Message) /\ waitQueue \in [Pid -> World!Message \cup {None}]
      /\ \A q \in Pid : waitQueue[q] # None => waitQueue[q].type = "LoginPlayer" /\ waitQueue[q].pid = q
  BY <1>1 DEF GateTypes
<1>9. /\ \A g \in Handle : /\ LoadingCnt(g)' = LoadingCnt(g) /\ ResultCnt(g)' = ResultCnt(g)
                           /\ status'[g] = status[g]
      /\ \A q \in Pid : LogoutInMail(q)' <=> LogoutInMail(q)
  BY SameNumbers DEF LogoutInMail
<1>10. crossed' \in SUBSET Pid /\ lost' \in SUBSET Handle
  BY <1>1, <1>2 DEF GateTypes
<1>11. /\ online' = online \cup {p}
       /\ \A q \in Pid \ {p} : q \in crossed' <=> q \in crossed
       /\ p \notin crossed' => ~LogoutInMail(p)
  BY <1>2 DEF Queue!OnLogin
<1>12. ASSUME \A q \in Pid : OnItsWay(q)' <=> q = p \/ OnItsWay(q)
       PROVE  (\A q \in Pid \ crossed' : PlaceKept(q)') /\ SlotReturned'
  BY <1>1, <1>9, <1>11, <1>12 DEF PlaceKept, SlotReturned
<1>13. CASE Send2WorldLogin(<<m>>) /\ waitQueue' = waitQueue /\ lost' = lost
  <2>1. <<m>> \in Seq(World!Message) /\ \A i \in DOMAIN <<m>> : <<m>>[i].type = "LoginPlayer"
    BY <1>4
  <2>2. /\ loginQueue' \in [Pid -> {"no", "new", "old"}] /\ loginCnt' \in Nat
        /\ toWorld' = toWorld \o <<m>> /\ Covered'
    BY <1>1, <1>13, <2>1, SentAreCounted
  <2>3. toWorld' = Append(toWorld, m)
    BY <1>4, <1>8, <2>2
  <2>4. /\ toWorld' \in Seq(World!Message)
        /\ \A g \in Handle : MailedCnt(g)' = MailedCnt(g) + (IF m \in SentFor(g) THEN 1 ELSE 0)
        /\ \A q \in Pid : InMail(q)' <=> InMail(q) \/ (m.type = "LoginPlayer" /\ m.pid = q)
    BY <1>4, <1>8, <2>3, MailAppend
  <2>5. GateTypes'
    BY <1>1, <1>3, <1>7, <1>10, <1>13, <2>2, <2>4 DEF GateTypes
  <2>6. ASSUME NEW g \in Handle PROVE OneLogin(g)'
    <3>1. HeldCnt(g)' = HeldCnt(g) /\ MailedCnt(g)' = MailedCnt(g) + (IF g = h THEN 1 ELSE 0)
      BY <1>5, <1>13, <2>4, SameNumbers
    <3>2. ASSUME Numbers(g), Numbers(g)', View(g) PROVE View(g)'
      <4>1. CASE g = h
        <5>1. AskedCnt(g) = AskedCnt(g)' + 1 /\ MailedCnt(g)' = MailedCnt(g) + 1
          BY <1>7, <3>1, <4>1
        <5>2. g \notin forwarded
          BY <3>2, <5>1 DEF View, Numbers
        <5>3. /\ AskedCnt(g) \in Nat /\ HeldCnt(g) \in Nat /\ MailedCnt(g) \in Nat
              /\ LoadingCnt(g) \in Nat /\ ResultCnt(g) \in Nat /\ AskedCnt(g)' \in Nat
          BY <3>2 DEF Numbers
        <5>4. /\ HeldCnt(g)' = HeldCnt(g) /\ LoadingCnt(g)' = LoadingCnt(g)
              /\ ResultCnt(g)' = ResultCnt(g)
          BY <1>9, <3>1
        <5>5. AskedCnt(g)' + HeldCnt(g)' + MailedCnt(g)' + LoadingCnt(g)' + ResultCnt(g)'
                = AskedCnt(g) + HeldCnt(g) + MailedCnt(g) + LoadingCnt(g) + ResultCnt(g)
          BY <5>1, <5>3, <5>4
        <5>6. status'[g] = status[g] /\ owner' = owner /\ forwarded' = forwarded /\ lost' = lost
          BY <1>9, <1>13 DEF worldVars
        <5> QED
          BY <3>2, <5>2, <5>5, <5>6, Zenon DEF View
      <4>2. CASE g # h
        <5>1. AskedCnt(g)' = AskedCnt(g) /\ MailedCnt(g)' = MailedCnt(g)
          BY <1>7, <3>1, <3>2, <4>2 DEF Numbers
        <5> QED
          BY <1>9, <1>13, <3>1, <3>2, <5>1 DEF View
      <4> QED
        BY <4>1, <4>2
    <3> QED
      BY <1>1, <2>5, <3>2, ByNumbers
  <2>7. \A q \in Pid : OnItsWay(q)' <=> q = p \/ OnItsWay(q)
    BY <1>4, <1>13, <2>4 DEF OnItsWay
  <2> QED
    BY <1>6, <1>12, <2>2, <2>5, <2>6, <2>7, PartsNext
<1>14. CASE /\ waitQueue' = [waitQueue EXCEPT ![p] = m]
            /\ lost' = lost \cup {g \in Handle : /\ waitQueue[p] # None
                                                 /\ g = waitQueue[p].handle
                                                 /\ ~Closed(g)}
            /\ toWorld' = toWorld /\ loginQueue' = loginQueue /\ loginCnt' = loginCnt
  <2>1. Covered'
    BY <1>1, <1>14, CoveredUnchanged
  <2>2. /\ waitQueue' \in [Pid -> World!Message \cup {None}]
        /\ \A q \in Pid : waitQueue'[q] # None => waitQueue'[q].type = "LoginPlayer" /\ waitQueue'[q].pid = q
    BY <1>4, <1>8, <1>14
  <2>3. GateTypes'
    BY <1>1, <1>3, <1>7, <1>10, <1>14, <2>2 DEF GateTypes
  <2>4. ASSUME NEW g \in Handle PROVE OneLogin(g)'
    <3>1. MailedCnt(g)' = MailedCnt(g)
      BY <1>14, SameNumbers
    <3>2. /\ IsFiniteSet(Held(g))
          /\ p \in Held(g) <=> waitQueue[p] # None /\ waitQueue[p].handle = g
      BY <1>1, NumberFacts DEF Held
    <3>3. g = h => Held(g)' = Held(g) \cup {p}
      BY <1>4, <1>8, <1>14 DEF Held
    <3>4. g # h => Held(g)' = Held(g) \ {p}
      BY <1>4, <1>8, <1>14 DEF Held
    <3>5. g = h => HeldCnt(g)' = HeldCnt(g) + (IF p \in Held(g) THEN 0 ELSE 1)
      BY <3>2, <3>3, FS_AddElement, FS_CardinalityType DEF HeldCnt
    <3>6. g # h => HeldCnt(g)' = HeldCnt(g) - (IF p \in Held(g) THEN 1 ELSE 0)
      BY <3>2, <3>4, FS_RemoveElement, FS_CardinalityType DEF HeldCnt
    <3>7. p \in Held(g) => HeldCnt(g) # 0
      BY <3>2, FS_EmptySet DEF HeldCnt
    <3>8. p \in Held(g) => g \in lost' \/ status'[g] # "in_login_role"
      BY <1>1, <1>9, <1>14, <3>2, ClosedFacts
    <3>9. ASSUME Numbers(g), Numbers(g)', View(g) PROVE View(g)'
      <4>1. CASE g = h
        <5>1. AskedCnt(g) = AskedCnt(g)' + 1
          BY <1>7, <4>1
        <5>5. AskedCnt(g) >= 1 /\ AskedCnt(g) # 0
          BY <3>9, <5>1 DEF Numbers
        <5>2. HeldCnt(g) = 0
          BY <3>9, <5>5 DEF View, Numbers
        <5>4. g \notin forwarded
          BY <3>9, <5>5 DEF View
        <5>3. HeldCnt(g)' = HeldCnt(g) + 1
          BY <3>5, <3>7, <4>1, <5>2
        <5> QED
          BY <1>9, <1>14, <3>1, <3>9, <5>1, <5>2, <5>3, <5>4 DEF View, Numbers
      <4>2. CASE g # h /\ p \in Held(g)
        <5>1. AskedCnt(g)' = AskedCnt(g) /\ HeldCnt(g)' = HeldCnt(g) - 1
          BY <1>7, <3>6, <3>9, <4>2 DEF Numbers
        <5> QED
          BY <1>9, <1>14, <3>1, <3>8, <3>9, <4>2, <5>1 DEF View, Numbers
      <4>3. CASE g # h /\ p \notin Held(g)
        <5>1. AskedCnt(g)' = AskedCnt(g) /\ HeldCnt(g)' = HeldCnt(g)
          BY <1>7, <3>6, <3>9, <4>3 DEF Numbers
        <5> QED
          BY <1>9, <1>14, <3>1, <3>9, <5>1 DEF View
      <4> QED
        BY <4>1, <4>2, <4>3
    <3> QED
      BY <1>1, <2>3, <3>9, ByNumbers
  <2>5. \A q \in Pid : OnItsWay(q)' <=> q = p \/ OnItsWay(q)
    BY <1>4, <1>8, <1>14 DEF OnItsWay, InMail
  <2> QED
    BY <1>6, <1>12, <2>1, <2>3, <2>4, <2>5, PartsNext
<1> QED
  BY <1>2, <1>13, <1>14

\* Every outcome of the answer.
LEMMA LoginRole1IInv ==
  ASSUME IInv, _LoginRole1
  PROVE  IInv'
<1> DEFINE h == Head(asked).handle
           p == Head(asked).pid
<1>1. asked # <<>> /\ asked' = Tail(asked) /\ openStatus' = openStatus
  BY DEF _LoginRole1
<1>2. h \in Handle /\ p \in Pid
  BY <1>1, Parts, AskedTail DEF GateTypes
<1>3. \/ /\ Closed(h)
         /\ UNCHANGED <<queueVars, worldVars, status, pendingRole, loginVars, historyVars>>
      \/ /\ ~Closed(h)
         /\ KickConnection(h)
         /\ UNCHANGED <<queueVars, worldVars, loginVars, historyVars>>
      \/ /\ ~Closed(h)
         /\ Queue!NeedQueue(p)
         /\ Queue!PendingQueue(p, h)
         /\ status' = [status EXCEPT ![h] = "login_account"]
         /\ pendingRole' = [pendingRole EXCEPT ![h] = p]
         /\ UNCHANGED <<worldVars, loginVars, historyVars>>
      \/ /\ ~Closed(h)
         /\ ~Queue!NeedQueue(p)
         /\ Queue!OnLogin(p)
         /\ EnterLoginQueue(p, h)
         /\ UNCHANGED <<session, owner, toLogin, status, pendingRole, tokenCache,
                        forwarded, failed>>
  BY DEF _LoginRole1
<1>4. h = Head(asked).handle
  OBVIOUS
<1> HIDE DEF h, p
<1>5. CASE /\ Closed(h)
           /\ UNCHANGED <<queueVars, worldVars, status, pendingRole, loginVars, historyVars>>
  BY <1>1, <1>2, <1>4, <1>5, AnswerRefusedIInv
<1>6. CASE KickConnection(h) /\ UNCHANGED <<queueVars, worldVars, loginVars, historyVars>>
  BY <1>1, <1>2, <1>4, <1>6, AnswerRefusedIInv
<1>7. CASE /\ Queue!NeedQueue(p) /\ Queue!PendingQueue(p, h)
           /\ status' = [status EXCEPT ![h] = "login_account"]
           /\ pendingRole' = [pendingRole EXCEPT ![h] = p]
           /\ UNCHANGED <<worldVars, loginVars, historyVars>>
  BY <1>1, <1>2, <1>4, <1>7, AnswerRefusedIInv
<1>8. CASE /\ ~Closed(h) /\ ~Queue!NeedQueue(p) /\ Queue!OnLogin(p) /\ EnterLoginQueue(p, h)
           /\ UNCHANGED <<session, owner, toLogin, status, pendingRole, tokenCache,
                          forwarded, failed>>
  BY <1>1, <1>2, <1>4, <1>8, AnswerEntersIInv
<1> QED
  BY <1>3, <1>5, <1>6, <1>7, <1>8


-----------------------------------------------------------------------------
(* Timers *)

\* Logins are appended to the mail of the world.
LEMMA MailConcat ==
  ASSUME toWorld \in Seq(World!Message), NEW s \in Seq(World!Message), toWorld' = toWorld \o s
  PROVE  /\ toWorld' \in Seq(World!Message)
         /\ \A h \in Handle : MailedCnt(h)' = MailedCnt(h) + Count(s, SentFor(h))
         /\ \A p \in Pid : InMail(p)' <=> \/ InMail(p)
                                          \/ \E i \in DOMAIN s : s[i].type = "LoginPlayer" /\ s[i].pid = p
<1>1. toWorld' \in Seq(World!Message)
  BY CountConcat
<1>2. ASSUME NEW h \in Handle
      PROVE  MailedCnt(h)' = MailedCnt(h) + Count(s, SentFor(h))
  <2>1. SentFor(h)' = SentFor(h)
    BY DEF SentFor
  <2>2. Count(toWorld \o s, SentFor(h)) = Count(toWorld, SentFor(h)) + Count(s, SentFor(h))
    BY CountConcat
  <2> QED
    BY <2>1, <2>2 DEF MailedCnt
<1>3. ASSUME NEW p \in Pid
      PROVE  InMail(p)' <=> \/ InMail(p)
                            \/ \E i \in DOMAIN s : s[i].type = "LoginPlayer" /\ s[i].pid = p
  <2> DEFINE u == toWorld \o s
  <2>1. u = toWorld \o s /\ toWorld \in Seq(World!Message)
    OBVIOUS
  <2>3. toWorld' = u
    OBVIOUS
  <2> HIDE DEF u
  <2>2. /\ \A i \in DOMAIN toWorld : i \in DOMAIN u /\ u[i] = toWorld[i]
        /\ \A i \in DOMAIN s : Len(toWorld) + i \in DOMAIN u /\ u[Len(toWorld) + i] = s[i]
        /\ \A i \in DOMAIN u : \/ i \in DOMAIN toWorld /\ u[i] = toWorld[i]
                               \/ \E j \in DOMAIN s : u[i] = s[j]
    <3> DEFINE S == World!Message
    <3>1. toWorld \in Seq(S) /\ s \in Seq(S) /\ u = toWorld \o s
      BY <2>1
    <3> HIDE DEF S
    <3> QED
      BY <3>1, ConcatFacts
  <2> QED
    BY <2>2, <2>3 DEF InMail
<1> QED
  BY <1>1, <1>2, <1>3

\* The logins of some players leave m_mRoleWaitQueue for the world.
LEMMA CheckPushWaitQueueIInv ==
  ASSUME IInv, CheckPushWaitQueue
  PROVE  IInv'
<1>1. /\ GateTypes /\ Covered /\ QueueProofs!IInv /\ (\A g \in Handle : OneLogin(g))
      /\ (\A q \in Pid \ crossed : PlaceKept(q)) /\ SlotReturned /\ online \subseteq Pid
  BY Parts
<1>2. /\ waitQueue \in [Pid -> World!Message \cup {None}] /\ toWorld \in Seq(World!Message)
      /\ \A p \in Pid : waitQueue[p] # None => waitQueue[p].type = "LoginPlayer" /\ waitQueue[p].pid = p
  BY <1>1 DEF GateTypes
<1>3. PICK now \in SUBSET {p \in Pid : waitQueue[p] # None} :
        /\ waitQueue' = [p \in Pid |-> IF p \in now THEN None ELSE waitQueue[p]]
        /\ \E order \in SetToSeqs(now) :
             Send2WorldLogin([i \in DOMAIN order |-> waitQueue[order[i]]])
  BY DEF CheckPushWaitQueue
<1>4. PICK order \in SetToSeqs(now) : Send2WorldLogin([i \in DOMAIN order |-> waitQueue[order[i]]])
  BY <1>3
<1>5. UNCHANGED <<queueVars, session, owner, toLogin, openStatus, connVars,
                  tokenCache, lastToken, historyVars>>
  BY DEF CheckPushWaitQueue
<1>6. now \in SUBSET Pid
  OBVIOUS
<1>7. IsFiniteSet(now)
  BY <1>6, FS_Subset, LoginGateAssumption
<1> DEFINE s == [i \in DOMAIN order |-> waitQueue[order[i]]]
<1>8. \A p \in now : waitQueue[p] \in World!Message /\ waitQueue[p].type = "LoginPlayer" /\ waitQueue[p].pid = p
  BY <1>2, <1>6
<1>9. s \in Seq(World!Message)
  <2>1. \A p \in now : waitQueue[p] \in World!Message
    BY <1>8
  <2>2. /\ DOMAIN order = 1..Cardinality(now) /\ Cardinality(now) \in Nat
        /\ \A i \in DOMAIN order : order[i] \in now
    BY <1>7, OrderFacts
  <2> QED
    BY <2>1, <2>2
<1>10. /\ \A i \in DOMAIN order : order[i] \in now
       /\ \A p \in now : \E i \in DOMAIN order : order[i] = p
  BY <1>7, OrderFacts
<1>11. DOMAIN s = DOMAIN order /\ \A i \in DOMAIN s : s[i] = waitQueue[order[i]]
  OBVIOUS
<1>12. Send2WorldLogin(s)
  BY <1>4
<1> HIDE DEF s
<1>13. \A i \in DOMAIN s : s[i].type = "LoginPlayer"
  BY <1>8, <1>10, <1>11
<1>14. /\ loginQueue' \in [Pid -> {"no", "new", "old"}] /\ loginCnt' \in Nat
       /\ toWorld' = toWorld \o s /\ Covered'
  BY <1>1, <1>9, <1>12, <1>13, SentAreCounted
<1>15. /\ toWorld' \in Seq(World!Message)
       /\ \A h \in Handle : MailedCnt(h)' = MailedCnt(h) + Count(s, SentFor(h))
       /\ \A p \in Pid : InMail(p)' <=> \/ InMail(p)
                                        \/ \E i \in DOMAIN s : s[i].type = "LoginPlayer" /\ s[i].pid = p
  BY <1>2, <1>9, <1>14, MailConcat
<1>16. \A p \in Pid : (\E i \in DOMAIN s : s[i].type = "LoginPlayer" /\ s[i].pid = p) <=> p \in now
  BY <1>8, <1>10, <1>11
<1>17. waitQueue' \in [Pid -> World!Message \cup {None}]
  BY <1>2, <1>3
<1>18. \A p \in Pid : waitQueue'[p] # None => waitQueue'[p].type = "LoginPlayer" /\ waitQueue'[p].pid = p
  BY <1>2, <1>3
<1>19. GateTypes'
  BY <1>1, <1>5, <1>14, <1>15, <1>17, <1>18 DEF GateTypes, connVars, historyVars
<1>20. QueueProofs!IInv' /\ Queue!TypeOK'
  BY <1>1, <1>5, QueueKept
<1>21. ASSUME NEW g \in Handle PROVE OneLogin(g)'
  <2>1. /\ AskedCnt(g)' = AskedCnt(g) /\ LoadingCnt(g)' = LoadingCnt(g)
        /\ ResultCnt(g)' = ResultCnt(g)
    BY <1>5, SameNumbers DEF connVars
  <2>2. IsFiniteSet(Held(g))
    BY <1>1, NumberFacts
  <2>3. Held(g)' = Held(g) \ now
    BY <1>2, <1>3, NilFacts DEF Held
  <2>4. Count(s, SentFor(g)) = Cardinality(Held(g) \cap now)
    <3>1. \A i \in DOMAIN s : s[i] \in SentFor(g) <=> order[i] \in Held(g) \cap now
      BY <1>6, <1>8, <1>10, <1>11, NilFacts DEF Held, SentFor
    <3>2. Held(g) \cap now \in SUBSET now
      OBVIOUS
    <3> QED
      BY <1>7, <1>9, <1>11, <3>1, <3>2, CountOrder
  <2>5. HeldCnt(g)' = HeldCnt(g) - Cardinality(Held(g) \cap now)
    BY <2>2, <2>3, FS_Difference DEF HeldCnt
  <2>6. MailedCnt(g)' = MailedCnt(g) + Cardinality(Held(g) \cap now)
    BY <1>15, <2>4
  <2>7. Cardinality(Held(g) \cap now) \in Nat
    BY <2>2, FS_Intersection, FS_CardinalityType
  <2>8. ASSUME Numbers(g), Numbers(g)', View(g) PROVE View(g)'
    <3> DEFINE n == Cardinality(Held(g) \cap now)
    <3>1. n \in Nat /\ HeldCnt(g)' = HeldCnt(g) - n /\ MailedCnt(g)' = MailedCnt(g) + n
      BY <2>5, <2>6, <2>7
    <3> HIDE DEF n
    <3>2. status' = status /\ owner' = owner /\ forwarded' = forwarded /\ lost' = lost
      BY <1>5 DEF connVars, historyVars
    <3>3. AskedCnt(g)' + HeldCnt(g)' + MailedCnt(g)' + LoadingCnt(g)' + ResultCnt(g)'
             = AskedCnt(g) + HeldCnt(g) + MailedCnt(g) + LoadingCnt(g) + ResultCnt(g)
      BY <2>1, <2>8, <3>1 DEF Numbers
    <3>4. HeldCnt(g) = 0 /\ MailedCnt(g) = 0 => HeldCnt(g)' = 0 /\ MailedCnt(g)' = 0
      BY <2>8, <3>1 DEF Numbers
    <3> QED
      BY <2>1, <2>8, <3>2, <3>3, <3>4 DEF View
  <2> QED
    BY <1>1, <1>19, <2>8, ByNumbers
<1>22. (\A q \in Pid \ crossed' : PlaceKept(q)') /\ SlotReturned'
  <2>1. \A p \in Pid : OnItsWay(p)' <=> OnItsWay(p)
    BY <1>2, <1>3, <1>15, <1>16 DEF OnItsWay
  <2>2. \A p \in Pid : LogoutInMail(p)' <=> LogoutInMail(p)
    BY <1>5 DEF LogoutInMail
  <2> QED
    BY <1>1, <1>5, <2>1, <2>2, SlotsSame DEF queueVars, historyVars
<1> QED
  BY <1>14, <1>19, <1>20, <1>21, <1>22, PartsNext

\* Old logins are dropped and still counted.
LEMMA ClearNoValidLoginIInv ==
  ASSUME IInv, ClearNoValidLogin
  PROVE  IInv'
<1>1. GateTypes /\ Covered /\ QueueProofs!IInv
  BY Parts
<1>2. /\ loginQueue' = [p \in Pid |-> IF loginQueue[p] = "new" THEN "old" ELSE "no"]
      /\ UNCHANGED <<queueVars, worldVars, openStatus, connVars, loginCnt, waitQueue,
                     tokenCache, lastToken, historyVars>>
  BY DEF ClearNoValidLogin
<1>3. QueueProofs!IInv' /\ Queue!TypeOK'
  BY <1>1, <1>2, QueueKept
<1>4. GateTypes'
  BY <1>1, <1>2 DEF GateTypes, worldVars, connVars, historyVars
<1>5. Covered'
  <2>1. Noted' \in SUBSET Noted
    BY <1>2 DEF Noted
  <2>2. Noted \in SUBSET Pid
    BY DEF Noted
  <2>3. IsFiniteSet(Noted)
    BY <2>2, FS_Subset, LoginGateAssumption
  <2>4. Cardinality(Noted') <= Cardinality(Noted) /\ Cardinality(Noted) \in Nat /\ Cardinality(Noted') \in Nat
    BY <2>1, <2>3, FS_Subset, FS_CardinalityType
  <2>5. loginCnt' = loginCnt /\ loginCnt >= Cardinality(Noted) /\ loginCnt \in Nat
    BY <1>1, <1>2 DEF Covered, GateTypes
  <2>6. loginCnt' >= Cardinality(Noted')
    BY <2>4, <2>5
  <2> QED
    BY <2>6 DEF Covered
<1>6. UNCHANGED <<slotVars, asked, owner, forwarded, lost>> /\ status' = status
  BY <1>2 DEF slotVars, queueVars, worldVars, connVars, historyVars
<1> QED
  BY <1>3, <1>4, <1>5, <1>6, QuietStep

\* What the operator and the check of the queue do, or nothing at all.
LEMMA OperatorIInv ==
  ASSUME IInv, OperatorStep \/ QueueCheck \/ UNCHANGED vars
  PROVE  IInv'
<1>1. GateTypes /\ Covered /\ QueueProofs!IInv
  BY Parts
<1>2. /\ UNCHANGED <<worldVars, connVars, loginVars, historyVars>>
      /\ openStatus' = openStatus \/ openStatus' \in OpenStatus
      /\ \/ UNCHANGED queueVars \/ Queue!_CheckTimeOut
         \/ \E limit \in Limits : Queue!SetOnlinePlayerLimit(limit)
  BY DEF OperatorStep, QueueCheck, vars
<1>3. QueueProofs!IInv' /\ Queue!TypeOK'
  BY <1>1, <1>2, QueueKept
<1>4. openStatus' \in 0..3
  BY <1>1, <1>2, LoginGateAssumption DEF GateTypes
<1>5. GateTypes'
  BY <1>1, <1>2, <1>4 DEF GateTypes, worldVars, connVars, loginVars, historyVars
<1>6. Covered'
  BY <1>1, <1>2, CoveredUnchanged DEF loginVars
<1>7. online' = online
  BY <1>2 DEF queueVars, Queue!_CheckTimeOut, Queue!SetOnlinePlayerLimit
<1>8. UNCHANGED <<slotVars, asked, owner, forwarded, lost>> /\ status' = status
  BY <1>2, <1>7 DEF slotVars, worldVars, connVars, loginVars, historyVars
<1> QED
  BY <1>3, <1>5, <1>6, <1>8, QuietStep


-----------------------------------------------------------------------------
(* Messages from the world *)

\* A result is taken: a socket that is still there is free again.
LEMMA LoginResultIInv ==
  ASSUME IInv, TakeMessage, LoginResult(Head(toLogin))
  PROVE  IInv'
<1> DEFINE m == Head(toLogin)
<1>1. /\ GateTypes /\ Covered /\ QueueProofs!IInv /\ (\A g \in Handle : OneLogin(g))
      /\ (\A q \in Pid \ crossed : PlaceKept(q)) /\ SlotReturned /\ online \subseteq Pid
  BY Parts
<1>2. /\ toLogin # <<>> /\ toLogin' = Tail(toLogin)
      /\ UNCHANGED <<session, owner, toWorld, openStatus, pendingRole, asked, waitQueue,
                     lastToken, forwarded, crossed, lost>>
  BY DEF TakeMessage
<1>3. /\ m.type = "LoginResult"
      /\ \/ /\ Closed(m.handle)
            /\ UNCHANGED <<status, loginQueue, loginCnt, tokenCache>>
         \/ /\ ~Closed(m.handle)
            /\ LeaveLoginQueue(m.pid)
            /\ \/ /\ status' = [status EXCEPT ![m.handle] = "login_role"]
                  /\ tokenCache' = [tokenCache EXCEPT ![m.pid] = m.token]
               \/ /\ status' = [status EXCEPT ![m.handle] = "login_account"]
                  /\ UNCHANGED tokenCache
      /\ UNCHANGED <<queueVars, failed>>
  BY DEF LoginResult
<1>4. /\ toLogin' \in Seq(World!Reply) /\ m \in World!Reply
      /\ \A h \in Handle : ResultCnt(h) = ResultCnt(h)' + (IF m \in ToldTo(h) THEN 1 ELSE 0)
      /\ \A p \in Pid : LogoutInMail(p) <=> LogoutInMail(p)' \/ (m.type = "OnLogout" /\ m.pid = p)
  BY <1>1, <1>2, RepliesTail DEF GateTypes
<1> HIDE DEF m
<1>5. m.pid \in Pid /\ m.token \in Token /\ \A h \in Handle : m \in ToldTo(h) <=> m.handle = h
  BY <1>3, <1>4, ReplyFacts DEF ToldTo
<1>6. /\ status \in [Handle -> Statuses] /\ tokenCache \in [Pid -> Token \cup {None}]
      /\ loginQueue \in [Pid -> {"no", "new", "old"}] /\ loginCnt \in Nat
  BY <1>1 DEF GateTypes
<1>7. /\ loginQueue' \in [Pid -> {"no", "new", "old"}] /\ loginCnt' \in Nat /\ Covered'
  <2>1. CASE LeaveLoginQueue(m.pid)
    BY <1>1, <1>5, <2>1, LeftIsCounted
  <2>2. CASE UNCHANGED <<loginQueue, loginCnt>>
    BY <1>1, <1>6, <2>2, CoveredUnchanged
  <2> QED
    BY <1>3, <2>1, <2>2
<1>8. /\ status' \in [Handle -> Statuses] /\ tokenCache' \in [Pid -> Token \cup {None}]
      /\ \A g \in Handle : IF g = m.handle /\ ~Closed(g) THEN status'[g] \in {"login_role", "login_account"}
                                                        ELSE status'[g] = status[g]
  <2>1. CASE Closed(m.handle) /\ UNCHANGED <<status, tokenCache>>
    BY <1>6, <2>1
  <2>2. CASE /\ ~Closed(m.handle) /\ status' = [status EXCEPT ![m.handle] = "login_role"]
             /\ tokenCache' = [tokenCache EXCEPT ![m.pid] = m.token]
    BY <1>5, <1>6, <2>2 DEF Statuses
  <2>3. CASE /\ ~Closed(m.handle) /\ status' = [status EXCEPT ![m.handle] = "login_account"]
             /\ UNCHANGED tokenCache
    BY <1>6, <2>3 DEF Statuses
  <2> QED
    BY <1>3, <2>1, <2>2, <2>3
<1>9. GateTypes'
  BY <1>1, <1>2, <1>3, <1>4, <1>7, <1>8 DEF GateTypes
<1>10. QueueProofs!IInv' /\ Queue!TypeOK'
  BY <1>1, <1>3, QueueKept
<1>11. ASSUME NEW g \in Handle PROVE OneLogin(g)'
  <2>1. /\ AskedCnt(g)' = AskedCnt(g) /\ HeldCnt(g)' = HeldCnt(g)
        /\ MailedCnt(g)' = MailedCnt(g) /\ LoadingCnt(g)' = LoadingCnt(g)
    BY <1>2, SameNumbers
  <2>2. ASSUME Numbers(g), Numbers(g)', View(g) PROVE View(g)'
    <3>1. CASE g = m.handle
      <4>1. ResultCnt(g) = ResultCnt(g)' + 1
        BY <1>4, <1>5, <3>1
      <4>2. /\ AskedCnt(g)' = 0 /\ HeldCnt(g)' = 0 /\ MailedCnt(g)' = 0
            /\ LoadingCnt(g)' = 0 /\ ResultCnt(g)' = 0
        <5>1. AskedCnt(g) + HeldCnt(g) + MailedCnt(g) + LoadingCnt(g) + ResultCnt(g) <= 1
          BY <2>2 DEF View
        <5>2. /\ AskedCnt(g) \in Nat /\ HeldCnt(g) \in Nat /\ MailedCnt(g) \in Nat
              /\ LoadingCnt(g) \in Nat /\ ResultCnt(g) \in Nat /\ ResultCnt(g)' \in Nat
          BY <2>2 DEF Numbers
        <5>3. /\ AskedCnt(g) = 0 /\ HeldCnt(g) = 0 /\ MailedCnt(g) = 0
              /\ LoadingCnt(g) = 0 /\ ResultCnt(g)' = 0
          BY <4>1, <5>1, <5>2
        <5> QED
          BY <2>1, <5>3
      <4>3. status'[g] # "in_login_role"
        BY <1>1, <1>8, <3>1, ClosedFacts
      <4> QED
        BY <1>2, <2>2, <4>2, <4>3 DEF View
    <3>2. CASE g # m.handle
      <4>1. ResultCnt(g)' = ResultCnt(g) /\ status'[g] = status[g]
        BY <1>4, <1>5, <1>8, <2>2, <3>2 DEF Numbers
      <4> QED
        BY <1>2, <2>1, <2>2, <4>1 DEF View
    <3> QED
      BY <3>1, <3>2
  <2> QED
    BY <1>1, <1>9, <2>2, ByNumbers
<1>12. (\A q \in Pid \ crossed' : PlaceKept(q)') /\ SlotReturned'
  <2>1. \A p \in Pid : OnItsWay(p)' <=> OnItsWay(p)
    BY <1>2 DEF OnItsWay, InMail
  <2>2. \A p \in Pid : LogoutInMail(p)' <=> LogoutInMail(p)
    BY <1>3, <1>4
  <2> QED
    BY <1>1, <1>2, <1>3, <2>1, <2>2, SlotsSame DEF queueVars
<1> QED
  BY <1>7, <1>9, <1>10, <1>11, <1>12, PartsNext

\* A logout is taken: the player gives its place back.
LEMMA OnLogoutIInv ==
  ASSUME IInv, TakeMessage, OnLogout(Head(toLogin))
  PROVE  IInv'
<1> DEFINE m == Head(toLogin)
<1>1. /\ GateTypes /\ Covered /\ QueueProofs!IInv /\ (\A g \in Handle : OneLogin(g))
      /\ (\A q \in Pid \ crossed : PlaceKept(q)) /\ SlotReturned /\ online \subseteq Pid
  BY Parts
<1>2. /\ toLogin # <<>> /\ toLogin' = Tail(toLogin)
      /\ UNCHANGED <<session, owner, toWorld, openStatus, pendingRole, asked, waitQueue,
                     lastToken, forwarded, crossed, lost>>
  BY DEF TakeMessage
<1>3. /\ m.type = "OnLogout"
      /\ Queue!OnLogout(m.pid)
      /\ tokenCache' = [tokenCache EXCEPT ![m.pid] = IF @ = m.token THEN None ELSE @]
      /\ failed' = failed \ {m.pid}
      /\ UNCHANGED <<status, loginQueue, loginCnt>>
  BY DEF OnLogout
<1>4. /\ toLogin' \in Seq(World!Reply) /\ m \in World!Reply
      /\ \A h \in Handle : ResultCnt(h) = ResultCnt(h)' + (IF m \in ToldTo(h) THEN 1 ELSE 0)
      /\ \A p \in Pid : LogoutInMail(p) <=> LogoutInMail(p)' \/ (m.type = "OnLogout" /\ m.pid = p)
  BY <1>1, <1>2, RepliesTail DEF GateTypes
<1> HIDE DEF m
<1>5. m.pid \in Pid /\ m.token \in Token /\ \A h \in Handle : m \notin ToldTo(h)
  BY <1>3, <1>4, ReplyFacts DEF ToldTo
<1>6. tokenCache \in [Pid -> Token \cup {None}]
  BY <1>1 DEF GateTypes
<1>7. tokenCache' \in [Pid -> Token \cup {None}]
  BY <1>3, <1>5, <1>6
<1>8. GateTypes'
  BY <1>1, <1>2, <1>3, <1>4, <1>7 DEF GateTypes
<1>9. Covered'
  BY <1>1, <1>3, CoveredUnchanged
<1>10. QueueProofs!IInv' /\ Queue!TypeOK'
  BY <1>1, <1>3, <1>5, QueueKept
<1>11. ASSUME NEW g \in Handle PROVE OneLogin(g)'
  <2>1. /\ AskedCnt(g)' = AskedCnt(g) /\ HeldCnt(g)' = HeldCnt(g)
        /\ MailedCnt(g)' = MailedCnt(g) /\ LoadingCnt(g)' = LoadingCnt(g)
    BY <1>2, SameNumbers
  <2>2. ResultCnt(g) = ResultCnt(g)' + 0
    BY <1>4, <1>5
  <2>3. ASSUME Numbers(g), Numbers(g)', View(g) PROVE View(g)'
    <3>1. ResultCnt(g)' = ResultCnt(g)
      BY <2>2, <2>3 DEF Numbers
    <3> QED
      BY <1>2, <1>3, <2>1, <2>3, <3>1 DEF View
  <2> QED
    BY <1>1, <1>8, <2>3, ByNumbers
<1>12. online' = online \ {m.pid}
  BY <1>3 DEF Queue!OnLogout
<1>13. \A p \in Pid : OnItsWay(p)' <=> OnItsWay(p)
  BY <1>2 DEF OnItsWay, InMail
<1>14. \A q \in Pid \ crossed' : PlaceKept(q)'
  BY <1>1, <1>2, <1>3, <1>4, <1>12, <1>13 DEF PlaceKept
<1>15. SlotReturned'
  BY <1>1, <1>2, <1>3, <1>4, <1>12, <1>13 DEF SlotReturned
<1> QED
  BY <1>8, <1>9, <1>10, <1>11, <1>14, <1>15, PartsNext


-----------------------------------------------------------------------------
(* Steps of the world *)

\* The players whose logout is told in a step, whose session ends without one,
\* and whose loading loses its socket.
Out == {p \in Pid : \E t \in Token : toLogin' = Append(toLogin, World!Left(p, t))}
Ended == {p \in Pid : session[p] # None /\ session'[p] = None} \ Out
LetDown == {p \in Pid : p \in Out \/ (session'[p] # None /\ session'[p].handle = None)}

\* A step of the world moves the logins of a socket on and adds none; where it
\* drops one the socket is let down.  Only a login of its own lets the world
\* take a socket over.
MovesOn(g) ==
  /\ MailedCnt(g)' <= MailedCnt(g)
  /\ MailedCnt(g)' + LoadingCnt(g)' + ResultCnt(g)' <= MailedCnt(g) + LoadingCnt(g) + ResultCnt(g)
  /\ \/ MailedCnt(g)' + LoadingCnt(g)' + ResultCnt(g)' = MailedCnt(g) + LoadingCnt(g) + ResultCnt(g)
     \/ \E p \in LetDown : World!Loading(p) /\ session[p].handle = g
  /\ owner'[g] # None => owner[g] # None \/ MailedCnt(g) = MailedCnt(g)' + 1

\* So does one that moves logins from loading to their answers.
LEMMA MovesOnWithin ==
  ASSUME NEW g \in Handle, Numbers(g), Numbers(g)',
         MailedCnt(g)' = MailedCnt(g),
         LoadingCnt(g)' + ResultCnt(g)' = LoadingCnt(g) + ResultCnt(g),
         owner'[g] = owner[g]
  PROVE  MovesOn(g)
<1>1. /\ MailedCnt(g) \in Nat /\ LoadingCnt(g) \in Nat /\ ResultCnt(g) \in Nat
      /\ MailedCnt(g)' \in Nat /\ LoadingCnt(g)' \in Nat /\ ResultCnt(g)' \in Nat
  BY DEF Numbers
<1>2. MailedCnt(g)' + LoadingCnt(g)' + ResultCnt(g)' = MailedCnt(g) + LoadingCnt(g) + ResultCnt(g)
  BY <1>1
<1>3. MailedCnt(g)' <= MailedCnt(g)
  BY <1>1
<1>4. MailedCnt(g)' + LoadingCnt(g)' + ResultCnt(g)' <= MailedCnt(g) + LoadingCnt(g) + ResultCnt(g)
  BY <1>1, <1>2
<1> QED
  BY <1>2, <1>3, <1>4, Zenon DEF MovesOn

\* What a step of the world has to keep, besides the types: it moves the logins
\* of each socket on; a player that has no session and no login on its way gets
\* none, and one that loses its session has its logout in the mail or failed.
LEMMA WorldKept ==
  ASSUME IInv, WorldStep,
         session' \in [Pid -> SessionRecord \cup {None}],
         owner' \in [Handle -> Pid \cup {None}],
         toWorld' \in Seq(World!Message), toLogin' \in Seq(World!Reply),
         \A g \in Handle : Numbers(g) /\ Numbers(g)' => MovesOn(g),
         \A p \in Pid :
           /\ OnItsWay(p)' => OnItsWay(p)
           /\ OnItsWay(p)' \/ session'[p] # None => OnItsWay(p) \/ session[p] # None
           /\ LogoutInMail(p)' => LogoutInMail(p) \/ (p \in Out /\ session'[p] = None)
           /\ OnItsWay(p) \/ session[p] # None \/ LogoutInMail(p) =>
                OnItsWay(p)' \/ session'[p] # None \/ LogoutInMail(p)' \/ p \in Ended
  PROVE  IInv'
<1>1. /\ GateTypes /\ Covered /\ QueueProofs!IInv /\ (\A g \in Handle : OneLogin(g))
      /\ (\A q \in Pid \ crossed : PlaceKept(q)) /\ SlotReturned /\ online \subseteq Pid
  BY Parts
<1>2. /\ forwarded' = forwarded \cup {h \in Handle : owner'[h] # None}
      /\ crossed' = crossed \cup {p \in Out : OnItsWay(p)}
      /\ failed' = failed \cup Ended
      /\ lost' = lost \cup {h \in Handle : ~Closed(h) /\ \E p \in LetDown :
                              World!Loading(p) /\ session[p].handle = h}
      /\ UNCHANGED <<queueVars, openStatus, connVars, loginVars>>
  BY DEF WorldStep, Out, Ended, LetDown
<1>3. QueueProofs!IInv' /\ Queue!TypeOK'
  BY <1>1, <1>2, QueueKept
<1>4. /\ forwarded' \in SUBSET Handle /\ crossed' \in SUBSET Pid
      /\ failed' \in SUBSET Pid /\ lost' \in SUBSET Handle
  BY <1>1, <1>2 DEF GateTypes, Out, Ended
<1>5. GateTypes'
  BY <1>1, <1>2, <1>4 DEF GateTypes, connVars, loginVars
<1>6. Covered'
  BY <1>1, <1>2, CoveredUnchanged DEF loginVars
<1>7. ASSUME NEW g \in Handle PROVE OneLogin(g)'
  <2>1. AskedCnt(g)' = AskedCnt(g) /\ HeldCnt(g)' = HeldCnt(g) /\ status' = status
    BY <1>2, SameNumbers DEF connVars, loginVars
  <2>2. (\E p \in LetDown : World!Loading(p) /\ session[p].handle = g) =>
          g \in lost' \/ status[g] # "in_login_role"
    BY <1>1, <1>2, ClosedFacts
  <2>3. /\ g \in forwarded' <=> g \in forwarded \/ owner'[g] # None
        /\ g \in lost => g \in lost'
    BY <1>2
  <2>4. ASSUME Numbers(g), Numbers(g)', View(g) PROVE View(g)'
    <3>1. /\ MailedCnt(g)' <= MailedCnt(g)
          /\ MailedCnt(g)' + LoadingCnt(g)' + ResultCnt(g)' <= MailedCnt(g) + LoadingCnt(g) + ResultCnt(g)
          /\ \/ MailedCnt(g)' + LoadingCnt(g)' + ResultCnt(g)' = MailedCnt(g) + LoadingCnt(g) + ResultCnt(g)
             \/ g \in lost' \/ status[g] # "in_login_role"
          /\ owner'[g] # None => owner[g] # None \/ MailedCnt(g) = MailedCnt(g)' + 1
      BY <2>2, <2>4 DEF MovesOn
    <3> DEFINE a == AskedCnt(g)  h == HeldCnt(g)  m == MailedCnt(g)  l == LoadingCnt(g)
               r == ResultCnt(g)  m2 == MailedCnt(g)'  l2 == LoadingCnt(g)'  r2 == ResultCnt(g)'
    <3>2. /\ a \in Nat /\ h \in Nat /\ m \in Nat /\ l \in Nat /\ r \in Nat
          /\ m2 \in Nat /\ l2 \in Nat /\ r2 \in Nat
          /\ AskedCnt(g)' = a /\ HeldCnt(g)' = h
      BY <2>1, <2>4 DEF Numbers
    <3>3. /\ m2 <= m /\ m2 + l2 + r2 <= m + l + r
          /\ m2 + l2 + r2 = m + l + r \/ g \in lost' \/ status[g] # "in_login_role"
          /\ owner'[g] # None => owner[g] # None \/ m = m2 + 1
      BY <3>1
    <3>4. /\ a + h + m + l + r <= 1
          /\ status[g] \notin {"in_login_role", "kicked", "closed"} => a + h + m + l + r = 0
          /\ owner[g] # None => g \in forwarded
          /\ g \in forwarded => a = 0 /\ h = 0 /\ m = 0
          /\ g \in lost \/ status[g] # "in_login_role" \/ a + h + m + l + r > 0
      BY <2>4 DEF View
    <3> HIDE DEF a, h, m, l, r, m2, l2, r2
    <3>5. /\ a + h + m2 + l2 + r2 <= 1
          /\ status[g] \notin {"in_login_role", "kicked", "closed"} => a + h + m2 + l2 + r2 = 0
          /\ g \in lost' \/ status[g] # "in_login_role" \/ a + h + m2 + l2 + r2 > 0
      BY <2>3, <3>2, <3>3, <3>4
    <3>6. g \in forwarded' => a = 0 /\ h = 0 /\ m2 = 0
      <4>1. CASE g \in forwarded
        BY <3>2, <3>3, <3>4, <4>1
      <4>2. CASE g \notin forwarded /\ owner'[g] # None
        <5>1. m = m2 + 1
          BY <3>3, <3>4, <4>2
        <5> QED
          BY <3>2, <3>4, <5>1
      <4> QED
        BY <2>3, <4>1, <4>2
    <3>7. owner'[g] # None => g \in forwarded'
      BY <2>3
    <3> QED
      BY <2>1, <3>2, <3>5, <3>6, <3>7 DEF View, m2, l2, r2
  <2> QED
    BY <1>1, <1>5, <2>4, ByNumbers
<1>8. online' = online
  BY <1>2 DEF queueVars
<1>9. \A q \in Pid \ crossed' : PlaceKept(q)'
  BY <1>1, <1>2, <1>8 DEF PlaceKept
<1>10. SlotReturned'
  BY <1>1, <1>2, <1>8 DEF SlotReturned
<1> QED
  BY <1>3, <1>5, <1>6, <1>7, <1>9, <1>10, PartsNext

\* What a step of the world starts from.
LEMMA WorldTypes ==
  ASSUME IInv
  PROVE  /\ GateTypes
         /\ session \in [Pid -> SessionRecord \cup {None}]
         /\ owner \in [Handle -> Pid \cup {None}]
         /\ toWorld \in Seq(World!Message) /\ toLogin \in Seq(World!Reply)
         /\ \A g \in Handle : IsFiniteSet(LoadingFrom(g))
         /\ \A p \in Pid : session[p] # None => session[p] \in SessionRecord
<1>1. GateTypes
  BY Parts
<1> QED
  BY <1>1, NumberFacts DEF GateTypes

\* The players that load are fewer by one, or as many.
LEMMA LoadingWithout ==
  ASSUME NEW g \in Handle, IsFiniteSet(LoadingFrom(g)), NEW p,
         LoadingFrom(g)' = LoadingFrom(g) \ {p}
  PROVE  /\ LoadingCnt(g)' = LoadingCnt(g) - (IF p \in LoadingFrom(g) THEN 1 ELSE 0)
         /\ LoadingCnt(g) \in Nat
  BY FS_RemoveElement, FS_CardinalityType DEF LoadingCnt

\* A login reaches the world: it is refused, taken over, or starts a session.
LEMMA WorldLoginIInv ==
  ASSUME IInv, WorldStep, World!LoginPlayer
  PROVE  IInv'
<1> DEFINE m == Head(toWorld)
           p == m.pid
           h == m.handle
<1>1. /\ GateTypes
      /\ session \in [Pid -> SessionRecord \cup {None}] /\ owner \in [Handle -> Pid \cup {None}]
      /\ toWorld \in Seq(World!Message) /\ toLogin \in Seq(World!Reply)
      /\ \A g \in Handle : IsFiniteSet(LoadingFrom(g))
      /\ \A q \in Pid : session[q] # None => session[q] \in SessionRecord
  BY WorldTypes
<1>2. /\ toWorld # <<>> /\ m.type = "LoginPlayer" /\ toWorld' = Tail(toWorld)
      /\ \/ /\ World!Loading(p) /\ session' = session /\ owner' = owner
            /\ toLogin' = Append(toLogin, World!Result(p, h, m.token, "in_login"))
         \/ /\ World!Online(p)
            /\ session' = [session EXCEPT ![p] = [at |-> "online", handle |-> h, token |-> m.token]]
            /\ owner' = [g \in Handle |-> IF g = h THEN p
                                           ELSE IF g = session[p].handle THEN None ELSE owner[g]]
            /\ toLogin' = Append(toLogin, World!Result(p, h, m.token, "ok"))
         \/ /\ session[p] = None
            /\ session' = [session EXCEPT ![p] = [at |-> "loading", handle |-> h, token |-> m.token]]
            /\ owner' = [owner EXCEPT ![h] = p]
            /\ toLogin' = toLogin
  BY DEF World!LoginPlayer
<1>3. /\ toWorld' \in Seq(World!Message) /\ m \in World!Message
      /\ \A g \in Handle : MailedCnt(g) = MailedCnt(g)' + (IF m \in SentFor(g) THEN 1 ELSE 0)
      /\ \A q \in Pid : InMail(q) <=> InMail(q)' \/ (m.type = "LoginPlayer" /\ m.pid = q)
  BY <1>1, <1>2, MailTail
<1> HIDE DEF m
<1>4. p \in Pid /\ h \in Handle /\ m.token \in Token
  BY <1>2, <1>3, MessageFacts
<1>5. \A g \in Handle : m \in SentFor(g) <=> g = h
  BY <1>2, <1>3 DEF SentFor
<1>6. \A q \in Pid : InMail(q) <=> InMail(q)' \/ p = q
  BY <1>2, <1>3
<1> DEFINE tk == m.token
<1> HIDE DEF p, h, tk
<1>7. waitQueue' = waitQueue
  BY DEF WorldStep, loginVars
<1>8. \A q \in Pid : OnItsWay(q) <=> OnItsWay(q)' \/ p = q
  BY <1>6, <1>7 DEF OnItsWay
<1>9. CASE /\ World!Loading(p) /\ session' = session /\ owner' = owner
           /\ toLogin' = Append(toLogin, World!Result(p, h, tk, "in_login"))
  <2> DEFINE r == World!Result(p, h, tk, "in_login")
  <2>1. r \in World!Reply /\ r.type = "LoginResult" /\ r.handle = h
    BY <1>4, ResultFacts DEF tk
  <2>2. toLogin' = Append(toLogin, r)
    BY <1>9
  <2> HIDE DEF r
  <2>3. /\ toLogin' \in Seq(World!Reply)
        /\ \A g \in Handle : ResultCnt(g)' = ResultCnt(g) + (IF r \in ToldTo(g) THEN 1 ELSE 0)
        /\ \A q \in Pid : LogoutInMail(q)' <=> LogoutInMail(q) \/ (r.type = "OnLogout" /\ r.pid = q)
    BY <1>1, <2>1, <2>2, RepliesAppend
  <2>4. \A g \in Handle : r \in ToldTo(g) <=> g = h
    BY <2>1 DEF ToldTo
  <2>5. ASSUME NEW g \in Handle, Numbers(g), Numbers(g)'
        PROVE  /\ MailedCnt(g)' <= MailedCnt(g)
               /\ MailedCnt(g)' + LoadingCnt(g)' + ResultCnt(g)' = MailedCnt(g) + LoadingCnt(g) + ResultCnt(g)
    <3>1. LoadingCnt(g)' = LoadingCnt(g)
      BY <1>9, SameNumbers
    <3>2. /\ MailedCnt(g) = MailedCnt(g)' + (IF g = h THEN 1 ELSE 0)
          /\ ResultCnt(g)' = ResultCnt(g) + (IF g = h THEN 1 ELSE 0)
      BY <1>3, <1>5, <2>3, <2>4
    <3> QED
      BY <2>5, <3>1, <3>2 DEF Numbers
  <2>6. \A g \in Handle : Numbers(g) /\ Numbers(g)' => MovesOn(g)
    BY <1>9, <2>5 DEF Numbers, MovesOn
  <2>7. session[p] # None
    BY <1>9 DEF World!Loading
  <2>8. \A q \in Pid : LogoutInMail(q)' <=> LogoutInMail(q)
    BY <2>1, <2>3
  <2> QED
    BY <1>1, <1>3, <1>8, <1>9, <2>3, <2>6, <2>7, <2>8, WorldKept
<1>10. CASE /\ World!Online(p)
            /\ session' = [session EXCEPT ![p] = [at |-> "online", handle |-> h, token |-> tk]]
            /\ owner' = [g \in Handle |-> IF g = h THEN p
                                           ELSE IF g = session[p].handle THEN None ELSE owner[g]]
            /\ toLogin' = Append(toLogin, World!Result(p, h, tk, "ok"))
  <2> DEFINE r == World!Result(p, h, tk, "ok")
             s == [at |-> "online", handle |-> h, token |-> tk]
  <2>1. r \in World!Reply /\ r.type = "LoginResult" /\ r.handle = h
    BY <1>4, ResultFacts DEF tk
  <2>2. toLogin' = Append(toLogin, r)
    BY <1>10
  <2>3. s \in SessionRecord /\ s # None /\ s.at = "online"
    BY <1>4, SessionFacts DEF tk
  <2>4. session' = [session EXCEPT ![p] = s]
    BY <1>10
  <2> HIDE DEF r, s
  <2>5. /\ toLogin' \in Seq(World!Reply)
        /\ \A g \in Handle : ResultCnt(g)' = ResultCnt(g) + (IF r \in ToldTo(g) THEN 1 ELSE 0)
        /\ \A q \in Pid : LogoutInMail(q)' <=> LogoutInMail(q) \/ (r.type = "OnLogout" /\ r.pid = q)
    BY <1>1, <2>1, <2>2, RepliesAppend
  <2>6. \A g \in Handle : r \in ToldTo(g) <=> g = h
    BY <2>1 DEF ToldTo
  <2>7. session' \in [Pid -> SessionRecord \cup {None}] /\ owner' \in [Handle -> Pid \cup {None}]
    BY <1>1, <1>4, <1>10, <2>3, <2>4
  <2>8. session[p].at = "online"
    BY <1>10 DEF World!Online
  <2>9. \A g \in Handle : LoadingFrom(g)' = LoadingFrom(g)
    BY <1>1, <1>4, <2>3, <2>4, <2>8 DEF LoadingFrom, World!Loading
  <2>10. ASSUME NEW g \in Handle, Numbers(g), Numbers(g)'
         PROVE  /\ MailedCnt(g)' <= MailedCnt(g)
                /\ MailedCnt(g)' + LoadingCnt(g)' + ResultCnt(g)' = MailedCnt(g) + LoadingCnt(g) + ResultCnt(g)
                /\ owner'[g] # None => owner[g] # None \/ MailedCnt(g) = MailedCnt(g)' + 1
    <3>1. LoadingCnt(g)' = LoadingCnt(g)
      BY <2>9 DEF LoadingCnt
    <3>2. /\ MailedCnt(g) = MailedCnt(g)' + (IF g = h THEN 1 ELSE 0)
          /\ ResultCnt(g)' = ResultCnt(g) + (IF g = h THEN 1 ELSE 0)
      BY <1>3, <1>5, <2>5, <2>6
    <3>3. owner'[g] # None => owner[g] # None \/ g = h
      BY <1>10
    <3> QED
      BY <2>10, <3>1, <3>2, <3>3 DEF Numbers
  <2>11. \A g \in Handle : Numbers(g) /\ Numbers(g)' => MovesOn(g)
    BY <2>10 DEF Numbers, MovesOn
  <2>12. \A q \in Pid : session'[q] # None <=> session[q] # None
    BY <1>1, <1>10, <2>3, <2>4 DEF World!Online
  <2>13. session[p] # None
    BY <1>10 DEF World!Online
  <2>14. \A q \in Pid : LogoutInMail(q)' <=> LogoutInMail(q)
    BY <2>1, <2>5
  <2> QED
    BY <1>3, <1>8, <2>5, <2>7, <2>11, <2>12, <2>13, <2>14, WorldKept
<1>11. CASE /\ session[p] = None
            /\ session' = [session EXCEPT ![p] = [at |-> "loading", handle |-> h, token |-> tk]]
            /\ owner' = [owner EXCEPT ![h] = p]
            /\ toLogin' = toLogin
  <2> DEFINE s == [at |-> "loading", handle |-> h, token |-> tk]
  <2>1. s \in SessionRecord /\ s # None /\ s.at = "loading" /\ s.handle = h
    BY <1>4, SessionFacts DEF tk
  <2>2. session' = [session EXCEPT ![p] = s]
    BY <1>11
  <2> HIDE DEF s
  <2>3. session' \in [Pid -> SessionRecord \cup {None}] /\ owner' \in [Handle -> Pid \cup {None}]
    BY <1>1, <1>4, <1>11, <2>1, <2>2
  <2>4. ASSUME NEW g \in Handle, Numbers(g), Numbers(g)'
        PROVE  /\ MailedCnt(g)' <= MailedCnt(g)
               /\ MailedCnt(g)' + LoadingCnt(g)' + ResultCnt(g)' = MailedCnt(g) + LoadingCnt(g) + ResultCnt(g)
               /\ owner'[g] # None => owner[g] # None \/ MailedCnt(g) = MailedCnt(g)' + 1
    <3>1. p \notin LoadingFrom(g)
      BY <1>11 DEF LoadingFrom, World!Loading
    <3>2. LoadingFrom(g)' = IF g = h THEN LoadingFrom(g) \cup {p} ELSE LoadingFrom(g)
      BY <1>1, <1>4, <1>11, <2>1, <2>2 DEF LoadingFrom, World!Loading
    <3>3. LoadingCnt(g)' = LoadingCnt(g) + (IF g = h THEN 1 ELSE 0)
      <4>1. CASE g = h
        BY <1>1, <3>1, <3>2, <4>1, FS_AddElement DEF LoadingCnt
      <4>2. CASE g # h
        BY <2>4, <3>2, <4>2 DEF LoadingCnt, Numbers
      <4> QED
        BY <4>1, <4>2
    <3>4. MailedCnt(g) = MailedCnt(g)' + (IF g = h THEN 1 ELSE 0) /\ ResultCnt(g)' = ResultCnt(g)
      BY <1>3, <1>5, <1>11, SameNumbers
    <3>5. owner'[g] # None => owner[g] # None \/ g = h
      BY <1>1, <1>11
    <3> QED
      BY <2>4, <3>3, <3>4, <3>5 DEF Numbers
  <2>5. \A g \in Handle : Numbers(g) /\ Numbers(g)' => MovesOn(g)
    BY <2>4 DEF Numbers, MovesOn
  <2>6. \A q \in Pid : session'[q] # None <=> session[q] # None \/ q = p
    BY <1>1, <1>4, <2>1, <2>2
  <2>7. \A q \in Pid : LogoutInMail(q)' <=> LogoutInMail(q)
    BY <1>11 DEF LogoutInMail
  <2> QED
    BY <1>1, <1>3, <1>8, <1>11, <2>3, <2>5, <2>6, <2>7, WorldKept
<1> QED
  BY <1>2, <1>9, <1>10, <1>11 DEF p, h, tk


\* A socket that is closed: a session that loads for it loses it.
LEMMA WorldClosedIInv ==
  ASSUME IInv, WorldStep, World!DelConnection
  PROVE  IInv'
<1> DEFINE m == Head(toWorld)
           h == m.handle
           p == owner[h]
<1>1. /\ GateTypes
      /\ session \in [Pid -> SessionRecord \cup {None}] /\ owner \in [Handle -> Pid \cup {None}]
      /\ toWorld \in Seq(World!Message) /\ toLogin \in Seq(World!Reply)
      /\ \A g \in Handle : IsFiniteSet(LoadingFrom(g))
      /\ \A q \in Pid : session[q] # None => session[q] \in SessionRecord
  BY WorldTypes
<1>2. /\ toWorld # <<>> /\ m.type = "DelConnection" /\ toWorld' = Tail(toWorld)
      /\ owner' = [owner EXCEPT ![h] = None]
      /\ session' = [q \in Pid |-> IF q = p /\ session[q] # None
                                   THEN [session[q] EXCEPT !.handle = None] ELSE session[q]]
      /\ toLogin' = toLogin
  BY DEF World!DelConnection
<1>3. /\ toWorld' \in Seq(World!Message) /\ m \in World!Message
      /\ \A g \in Handle : MailedCnt(g) = MailedCnt(g)' + (IF m \in SentFor(g) THEN 1 ELSE 0)
      /\ \A q \in Pid : InMail(q) <=> InMail(q)' \/ (m.type = "LoginPlayer" /\ m.pid = q)
  BY <1>1, <1>2, MailTail
<1> HIDE DEF m
<1>4. h \in Handle /\ \A g \in Handle : m \notin SentFor(g)
  BY <1>2, <1>3, MessageFacts DEF SentFor
<1> HIDE DEF h
<1>5. p \in Pid \cup {None}
  BY <1>1, <1>4
<1>6. \A g \in Handle : owner'[g] # None => owner[g] # None
  BY <1>1, <1>2
<1> HIDE DEF p
<1>7. /\ \A q \in Pid : IF q = p /\ session[q] # None
                        THEN /\ session'[q] \in SessionRecord /\ session'[q] # None
                             /\ session'[q].at = session[q].at /\ session'[q].handle = None
                        ELSE session'[q] = session[q]
      /\ session' = [q \in Pid |-> session'[q]]
  BY <1>1, <1>2, SessionFacts
<1>8. /\ session' \in [Pid -> SessionRecord \cup {None}] /\ owner' \in [Handle -> Pid \cup {None}]
      /\ \A q \in Pid : session'[q] # None <=> session[q] # None
  BY <1>1, <1>2, <1>7
<1>9. ASSUME NEW g \in Handle, Numbers(g), Numbers(g)'
      PROVE  /\ MailedCnt(g)' = MailedCnt(g) /\ ResultCnt(g)' = ResultCnt(g)
             /\ LoadingCnt(g)' <= LoadingCnt(g)
             /\ \/ LoadingCnt(g)' = LoadingCnt(g)
                \/ \E q \in LetDown : World!Loading(q) /\ session[q].handle = g
  <2>1. MailedCnt(g) = MailedCnt(g)' + 0
    BY <1>3, <1>4
  <2>2. MailedCnt(g)' = MailedCnt(g) /\ ResultCnt(g)' = ResultCnt(g)
    BY <1>2, <1>9, <2>1, SameNumbers DEF Numbers
  <2>3. LoadingFrom(g)' = LoadingFrom(g) \ {p}
    BY <1>7, <1>8, NilFacts DEF LoadingFrom, World!Loading
  <2>4. LoadingCnt(g)' = LoadingCnt(g) - (IF p \in LoadingFrom(g) THEN 1 ELSE 0) /\ LoadingCnt(g) \in Nat
    BY <1>1, <2>3, LoadingWithout
  <2>5. CASE p \in LoadingFrom(g)
    <3>1. p \in LetDown /\ World!Loading(p) /\ session[p].handle = g
      BY <1>7, <2>5 DEF LoadingFrom, World!Loading, LetDown
    <3> QED
      BY <2>2, <2>4, <2>5, <3>1
  <2>6. CASE p \notin LoadingFrom(g)
    BY <2>2, <2>4, <2>6
  <2> QED
    BY <2>5, <2>6
<1>10. \A g \in Handle : Numbers(g) /\ Numbers(g)' => MovesOn(g)
  BY <1>6, <1>9 DEF Numbers, MovesOn
<1>11. waitQueue' = waitQueue
  BY DEF WorldStep, loginVars
<1>12. \A q \in Pid : OnItsWay(q)' <=> OnItsWay(q)
  BY <1>2, <1>3, <1>11 DEF OnItsWay
<1>13. \A q \in Pid : LogoutInMail(q)' <=> LogoutInMail(q)
  BY <1>2 DEF LogoutInMail
<1>14. toLogin' \in Seq(World!Reply)
  BY <1>1, <1>2
<1> QED
  BY <1>3, <1>8, <1>10, <1>12, <1>13, <1>14, WorldKept

\* A player is loaded, and the login service told.
LEMMA WorldFinishIInv ==
  ASSUME IInv, WorldStep, NEW p \in Pid, World!Finish(p)
  PROVE  IInv'
<1> DEFINE r == World!Result(p, session[p].handle, session[p].token, "ok")
           s == [session[p] EXCEPT !.at = "online"]
<1>1. /\ GateTypes
      /\ session \in [Pid -> SessionRecord \cup {None}] /\ owner \in [Handle -> Pid \cup {None}]
      /\ toWorld \in Seq(World!Message) /\ toLogin \in Seq(World!Reply)
      /\ \A g \in Handle : IsFiniteSet(LoadingFrom(g))
      /\ \A q \in Pid : session[q] # None => session[q] \in SessionRecord
  BY WorldTypes
<1>2. /\ World!Loading(p)
      /\ session' = [session EXCEPT ![p] = s]
      /\ toLogin' = Append(toLogin, r)
      /\ owner' = owner /\ toWorld' = toWorld
  BY DEF World!Finish
<1>3. session[p] # None /\ session[p].at = "loading" /\ session[p] \in SessionRecord
  BY <1>1, <1>2 DEF World!Loading
<1>4. s \in SessionRecord /\ s # None /\ s.at = "online"
  <2>1. \A x \in SessionRecord : [x EXCEPT !.at = "online"] \in SessionRecord
                              /\ [x EXCEPT !.at = "online"].at = "online"
    BY SessionFacts
  <2>2. s \in SessionRecord /\ s.at = "online"
    BY <1>3, <2>1, Zenon
  <2> QED
    BY <2>2, NilAssumption
<1>5. r \in World!Reply /\ r.type = "LoginResult" /\ r.handle = session[p].handle
  <2> DEFINE h == session[p].handle
             t == session[p].token
  <2>1. h \in Handle \cup {None} /\ t \in Token
    BY <1>3, SessionFacts
  <2> HIDE DEF h, t
  <2>2. World!Result(p, h, t, "ok") \in World!Reply /\ World!Result(p, h, t, "ok").type = "LoginResult"
        /\ World!Result(p, h, t, "ok").handle = h
    BY <2>1, ResultFacts
  <2> QED
    BY <2>2 DEF h, t
<1> HIDE DEF r, s
<1>6. /\ toLogin' \in Seq(World!Reply)
      /\ \A g \in Handle : ResultCnt(g)' = ResultCnt(g) + (IF r \in ToldTo(g) THEN 1 ELSE 0)
      /\ \A q \in Pid : LogoutInMail(q)' <=> LogoutInMail(q) \/ (r.type = "OnLogout" /\ r.pid = q)
  BY <1>1, <1>2, <1>5, RepliesAppend
<1>7. session' \in [Pid -> SessionRecord \cup {None}] /\ \A q \in Pid : session'[q] # None <=> session[q] # None
  BY <1>1, <1>2, <1>3, <1>4
<1>8. ASSUME NEW g \in Handle, Numbers(g), Numbers(g)'
      PROVE  MailedCnt(g)' = MailedCnt(g) /\ LoadingCnt(g)' + ResultCnt(g)' = LoadingCnt(g) + ResultCnt(g)
  <2>1. MailedCnt(g)' = MailedCnt(g)
    BY <1>2, SameNumbers
  <2>2. r \in ToldTo(g) <=> p \in LoadingFrom(g)
    BY <1>2, <1>5 DEF ToldTo, LoadingFrom
  <2>3. LoadingFrom(g)' = LoadingFrom(g) \ {p}
    BY <1>1, <1>2, <1>4 DEF LoadingFrom, World!Loading
  <2>4. LoadingCnt(g)' = LoadingCnt(g) - (IF p \in LoadingFrom(g) THEN 1 ELSE 0) /\ LoadingCnt(g) \in Nat
    BY <1>1, <2>3, LoadingWithout
  <2>5. ResultCnt(g)' = ResultCnt(g) + (IF p \in LoadingFrom(g) THEN 1 ELSE 0)
    BY <1>6, <2>2
  <2>6. ResultCnt(g) \in Nat
    BY <1>8 DEF Numbers
  <2>7. CASE p \in LoadingFrom(g)
    <3>1. LoadingCnt(g)' = LoadingCnt(g) - 1 /\ ResultCnt(g)' = ResultCnt(g) + 1
      BY <2>4, <2>5, <2>7
    <3> QED
      BY <2>1, <2>4, <2>6, <3>1
  <2>8. CASE p \notin LoadingFrom(g)
    <3>1. LoadingCnt(g)' = LoadingCnt(g) - 0 /\ ResultCnt(g)' = ResultCnt(g) + 0
      BY <2>4, <2>5, <2>8
    <3> QED
      BY <2>1, <2>4, <2>6, <3>1
  <2> QED
    BY <2>7, <2>8
<1>9. \A g \in Handle : Numbers(g) /\ Numbers(g)' => MovesOn(g)
  <2> SUFFICES ASSUME NEW g \in Handle, Numbers(g), Numbers(g)'
               PROVE  MovesOn(g)
    OBVIOUS
  <2>1. owner'[g] = owner[g]
    BY <1>2
  <2> QED
    BY <1>8, <2>1, MovesOnWithin
<1>10. waitQueue' = waitQueue
  BY DEF WorldStep, loginVars
<1>11. \A q \in Pid : OnItsWay(q)' <=> OnItsWay(q)
  BY <1>2, <1>10 DEF OnItsWay, InMail
<1>12. \A q \in Pid : LogoutInMail(q)' <=> LogoutInMail(q)
  BY <1>5, <1>6
<1> QED
  BY <1>1, <1>2, <1>6, <1>7, <1>9, <1>11, <1>12, WorldKept

\* A player leaves the world: the logout is told, and a socket it loaded for lost.
LEMMA WorldLogoutIInv ==
  ASSUME IInv, WorldStep, NEW p \in Pid, World!Logout(p)
  PROVE  IInv'
<1> DEFINE t == session[p].token
           r == World!Left(p, t)
<1>1. /\ GateTypes
      /\ session \in [Pid -> SessionRecord \cup {None}] /\ owner \in [Handle -> Pid \cup {None}]
      /\ toWorld \in Seq(World!Message) /\ toLogin \in Seq(World!Reply)
      /\ \A g \in Handle : IsFiniteSet(LoadingFrom(g))
      /\ \A q \in Pid : session[q] # None => session[q] \in SessionRecord
  BY WorldTypes
<1>2. /\ session[p] # None
      /\ session' = [session EXCEPT ![p] = None]
      /\ owner' \in [Handle -> Pid \cup {None}] /\ \A g \in Handle : owner'[g] # None => owner[g] # None
      /\ toLogin' = Append(toLogin, r)
      /\ toWorld' = toWorld
  BY <1>1 DEF World!Logout
<1>15. \A g \in Handle : owner'[g] # None => owner[g] # None
  BY <1>2
<1>3. t \in Token
  BY <1>1, <1>2, SessionFacts
<1>4. r \in World!Reply /\ r.type = "OnLogout" /\ r.pid = p
  BY <1>3, ReplyFacts
<1>5. p \in Out
  BY <1>2, <1>3 DEF Out
<1> HIDE DEF r, t
<1>6. /\ toLogin' \in Seq(World!Reply)
      /\ \A g \in Handle : ResultCnt(g)' = ResultCnt(g) + (IF r \in ToldTo(g) THEN 1 ELSE 0)
      /\ \A q \in Pid : LogoutInMail(q)' <=> LogoutInMail(q) \/ (r.type = "OnLogout" /\ r.pid = q)
  BY <1>1, <1>2, <1>4, RepliesAppend
<1>7. /\ session' \in [Pid -> SessionRecord \cup {None}]
      /\ \A q \in Pid : session'[q] # None <=> session[q] # None /\ q # p
  BY <1>1, <1>2
<1>8. ASSUME NEW g \in Handle, Numbers(g), Numbers(g)'
      PROVE  /\ MailedCnt(g)' = MailedCnt(g) /\ ResultCnt(g)' = ResultCnt(g)
             /\ LoadingCnt(g)' <= LoadingCnt(g)
             /\ \/ LoadingCnt(g)' = LoadingCnt(g)
                \/ \E q \in LetDown : World!Loading(q) /\ session[q].handle = g
  <2>1. MailedCnt(g)' = MailedCnt(g)
    BY <1>2, SameNumbers
  <2>2. r \notin ToldTo(g)
    BY <1>4 DEF ToldTo
  <2>3. ResultCnt(g)' = ResultCnt(g)
    BY <1>6, <1>8, <2>2 DEF Numbers
  <2>4. LoadingFrom(g)' = LoadingFrom(g) \ {p}
    BY <1>1, <1>2 DEF LoadingFrom, World!Loading
  <2>5. LoadingCnt(g)' = LoadingCnt(g) - (IF p \in LoadingFrom(g) THEN 1 ELSE 0) /\ LoadingCnt(g) \in Nat
    BY <1>1, <2>4, LoadingWithout
  <2>6. CASE p \in LoadingFrom(g)
    <3>1. p \in LetDown /\ World!Loading(p) /\ session[p].handle = g
      BY <1>5, <2>6 DEF LoadingFrom, LetDown
    <3> QED
      BY <2>1, <2>3, <2>5, <2>6, <3>1
  <2>7. CASE p \notin LoadingFrom(g)
    BY <2>1, <2>3, <2>5, <2>7
  <2> QED
    BY <2>6, <2>7
<1>9. \A g \in Handle : Numbers(g) /\ Numbers(g)' => MovesOn(g)
  BY <1>8, <1>15 DEF Numbers, MovesOn
<1>10. waitQueue' = waitQueue
  BY DEF WorldStep, loginVars
<1>11. \A q \in Pid : OnItsWay(q)' <=> OnItsWay(q)
  BY <1>2, <1>10 DEF OnItsWay, InMail
<1>12. \A q \in Pid : LogoutInMail(q)' <=> LogoutInMail(q) \/ q = p
  BY <1>4, <1>6
<1>13. session'[p] = None
  BY <1>1, <1>2
<1>14. toWorld' \in Seq(World!Message)
  BY <1>1, <1>2
<1> QED
  BY <1>2, <1>5, <1>6, <1>7, <1>9, <1>11, <1>12, <1>13, <1>14, WorldKept


\* What a list of messages adds to the mail from the world.
LEMMA RepliesConcat ==
  ASSUME toLogin \in Seq(World!Reply), NEW s \in Seq(World!Reply), toLogin' = toLogin \o s
  PROVE  /\ toLogin' \in Seq(World!Reply)
         /\ \A h \in Handle : ResultCnt(h)' = ResultCnt(h) + Count(s, ToldTo(h))
         /\ \A p \in Pid : LogoutInMail(p)' <=> \/ LogoutInMail(p)
                                                \/ \E i \in DOMAIN s : s[i].type = "OnLogout" /\ s[i].pid = p
<1>1. toLogin' \in Seq(World!Reply)
  BY CountConcat
<1>2. ASSUME NEW h \in Handle
      PROVE  ResultCnt(h)' = ResultCnt(h) + Count(s, ToldTo(h))
  <2>1. ToldTo(h)' = ToldTo(h)
    BY DEF ToldTo
  <2>2. Count(toLogin \o s, ToldTo(h)) = Count(toLogin, ToldTo(h)) + Count(s, ToldTo(h))
    BY CountConcat
  <2> QED
    BY <2>1, <2>2 DEF ResultCnt
<1>3. ASSUME NEW p \in Pid
      PROVE  LogoutInMail(p)' <=> \/ LogoutInMail(p)
                                  \/ \E i \in DOMAIN s : s[i].type = "OnLogout" /\ s[i].pid = p
  <2> DEFINE u == toLogin \o s
  <2>1. u = toLogin \o s /\ toLogin \in Seq(World!Reply)
    OBVIOUS
  <2>2. toLogin' = u
    OBVIOUS
  <2> HIDE DEF u
  <2>3. /\ \A i \in DOMAIN toLogin : i \in DOMAIN u /\ u[i] = toLogin[i]
        /\ \A i \in DOMAIN s : Len(toLogin) + i \in DOMAIN u /\ u[Len(toLogin) + i] = s[i]
        /\ \A i \in DOMAIN u : \/ i \in DOMAIN toLogin /\ u[i] = toLogin[i]
                               \/ \E j \in DOMAIN s : u[i] = s[j]
    <3> DEFINE S == World!Reply
    <3>1. toLogin \in Seq(S) /\ s \in Seq(S) /\ u = toLogin \o s
      BY <2>1
    <3> HIDE DEF S
    <3> QED
      BY <3>1, ConcatFacts
  <2> QED
    BY <2>2, <2>3 DEF LogoutInMail
<1> QED
  BY <1>1, <1>2, <1>3

\* Some players fail to load: each socket that waited gets a result.
LEMMA WorldFailIInv ==
  ASSUME IInv, WorldStep, NEW P \in SUBSET {p \in Pid : World!Loading(p)},
         NEW order \in SetToSeqs(P), NEW err \in {"not_exist_player", "script_error"},
         World!Fail(order, err)
  PROVE  IInv'
<1> DEFINE s == [i \in DOMAIN order |->
                   World!Result(order[i], session[order[i]].handle, session[order[i]].token, err)]
<1>1. /\ GateTypes
      /\ session \in [Pid -> SessionRecord \cup {None}] /\ owner \in [Handle -> Pid \cup {None}]
      /\ toWorld \in Seq(World!Message) /\ toLogin \in Seq(World!Reply)
      /\ \A g \in Handle : IsFiniteSet(LoadingFrom(g))
      /\ \A q \in Pid : session[q] # None => session[q] \in SessionRecord
  BY WorldTypes
<1>2. P \in SUBSET Pid
  OBVIOUS
<1>3. IsFiniteSet(P)
  BY <1>2, FS_Subset, LoginGateAssumption
<1>4. /\ DOMAIN order = 1..Cardinality(P) /\ Cardinality(P) \in Nat
      /\ \A i \in DOMAIN order : order[i] \in P
      /\ \A p \in P : \E i \in DOMAIN order : order[i] = p
  BY <1>3, OrderFacts
<1>5. World!Range(order) = P
  BY <1>4 DEF World!Range
<1>6. /\ session' = [p \in Pid |-> IF p \in P THEN None ELSE session[p]]
      /\ toLogin' = toLogin \o s
      /\ owner' = owner /\ toWorld' = toWorld
  BY <1>5 DEF World!Fail
<1>7. ASSUME NEW i \in DOMAIN order
      PROVE  s[i] \in World!Reply /\ s[i].type = "LoginResult" /\ s[i].handle = session[order[i]].handle
  <2> DEFINE p == order[i]
             h == session[p].handle
             t == session[p].token
  <2>1. p \in Pid /\ World!Loading(p)
    BY <1>4
  <2>2. h \in Handle \cup {None} /\ t \in Token
    BY <1>1, <2>1, SessionFacts DEF World!Loading
  <2>3. s[i] = World!Result(p, h, t, err)
    OBVIOUS
  <2>4. err \in {"ok", "in_login", "not_exist_player", "script_error"}
    OBVIOUS
  <2> HIDE DEF p, h, t, s
  <2>5. World!Result(p, h, t, err) \in World!Reply /\ World!Result(p, h, t, err).type = "LoginResult"
        /\ World!Result(p, h, t, err).handle = h
    BY <2>1, <2>2, <2>4, ResultFacts
  <2> QED
    BY <2>3, <2>5 DEF h, p
<1>8. DOMAIN s = DOMAIN order /\ s \in Seq(World!Reply)
  <2>1. DOMAIN s = DOMAIN order
    OBVIOUS
  <2>2. s = [i \in DOMAIN order |-> s[i]]
    OBVIOUS
  <2> HIDE DEF s
  <2> QED
    BY <1>4, <1>7, <2>1, <2>2
<1> HIDE DEF s
<1>9. /\ toLogin' \in Seq(World!Reply)
      /\ \A g \in Handle : ResultCnt(g)' = ResultCnt(g) + Count(s, ToldTo(g))
      /\ \A p \in Pid : LogoutInMail(p)' <=> \/ LogoutInMail(p)
                                             \/ \E i \in DOMAIN s : s[i].type = "OnLogout" /\ s[i].pid = p
  BY <1>1, <1>6, <1>8, RepliesConcat
<1>10. \A p \in Pid : LogoutInMail(p)' <=> LogoutInMail(p)
  BY <1>7, <1>8, <1>9
<1>11. /\ session' \in [Pid -> SessionRecord \cup {None}]
       /\ \A q \in Pid : session'[q] = IF q \in P THEN None ELSE session[q]
  BY <1>1, <1>6
<1>12. Out = {}
  <2> SUFFICES ASSUME NEW p \in Pid, NEW t \in Token, toLogin' = Append(toLogin, World!Left(p, t))
               PROVE  FALSE
    BY DEF Out
  <2> DEFINE x == World!Left(p, t)
             S == World!Reply
  <2>1. x \in S /\ x.type = "OnLogout"
    BY ReplyFacts
  <2>2. toLogin \in Seq(S) /\ s \in Seq(S)
    BY <1>1, <1>8
  <2>9. toLogin \o s = Append(toLogin, x)
    BY <1>6
  <2> HIDE DEF x, S
  <2>3. Len(toLogin \o s) = Len(toLogin) + Len(s) /\ Len(Append(toLogin, x)) = Len(toLogin) + 1
        /\ Len(s) \in Nat /\ Len(toLogin) \in Nat
    BY <2>1, <2>2
  <2>4. Len(s) = 1
    <3>1. Len(toLogin \o s) = Len(Append(toLogin, x))
      BY <2>9, Zenon
    <3> DEFINE a == Len(toLogin)  b == Len(s)
    <3>2. a + b = a + 1 /\ a \in Nat /\ b \in Nat
      BY <2>3, <3>1, Zenon
    <3> HIDE DEF a, b
    <3>3. b = 1
      BY <3>2
    <3> QED
      BY <3>3 DEF b
  <2>5. 1 \in DOMAIN s
    BY <2>2, <2>4
  <2>6. (toLogin \o s)[Len(toLogin) + 1] = s[1]
    BY <2>2, <2>5
  <2>7. Append(toLogin, x)[Len(toLogin) + 1] = x
    BY <2>1, <2>2
  <2>8. s[1] = x
    BY <2>6, <2>7, <2>9
  <2> QED
    BY <1>7, <1>8, <2>1, <2>5, <2>8
<1>13. ASSUME NEW g \in Handle, Numbers(g), Numbers(g)'
       PROVE  /\ MailedCnt(g)' = MailedCnt(g)
              /\ LoadingCnt(g)' + ResultCnt(g)' = LoadingCnt(g) + ResultCnt(g)
  <2>1. MailedCnt(g)' = MailedCnt(g)
    BY <1>6, SameNumbers
  <2>2. LoadingFrom(g)' = LoadingFrom(g) \ P
    BY <1>11 DEF LoadingFrom, World!Loading
  <2>3. LoadingCnt(g)' = LoadingCnt(g) - Cardinality(LoadingFrom(g) \cap P)
    BY <1>1, <2>2, FS_Difference DEF LoadingCnt
  <2>4. Count(s, ToldTo(g)) = Cardinality(LoadingFrom(g) \cap P)
    <3>1. \A i \in DOMAIN s : s[i] \in ToldTo(g) <=> order[i] \in LoadingFrom(g) \cap P
      BY <1>2, <1>4, <1>7, <1>8 DEF ToldTo, LoadingFrom
    <3>2. LoadingFrom(g) \cap P \in SUBSET P
      OBVIOUS
    <3> QED
      BY <1>3, <1>8, <3>1, <3>2, CountOrder
  <2>5. Cardinality(LoadingFrom(g) \cap P) \in Nat
    BY <1>1, FS_Intersection, FS_CardinalityType
  <2> DEFINE n == Cardinality(LoadingFrom(g) \cap P)
  <2>6. n \in Nat /\ LoadingCnt(g)' = LoadingCnt(g) - n /\ ResultCnt(g)' = ResultCnt(g) + n
    BY <1>9, <2>3, <2>4, <2>5
  <2> HIDE DEF n
  <2> QED
    BY <1>13, <2>1, <2>6 DEF Numbers
<1>14. \A g \in Handle : owner'[g] = owner[g]
  BY <1>6
<1>15. \A g \in Handle : Numbers(g) /\ Numbers(g)' => MovesOn(g)
  BY <1>13, <1>14 DEF Numbers, MovesOn
<1>16. waitQueue' = waitQueue
  BY DEF WorldStep, loginVars
<1>17. \A q \in Pid : OnItsWay(q)' <=> OnItsWay(q)
  BY <1>6, <1>16 DEF OnItsWay, InMail
<1>18. \A q \in Pid : session[q] # None => session'[q] # None \/ q \in Ended
  BY <1>11, <1>12 DEF Ended
<1>19. \A q \in Pid : session'[q] # None => session[q] # None
  BY <1>11
<1>20. owner' \in [Handle -> Pid \cup {None}] /\ toWorld' \in Seq(World!Message)
  BY <1>1, <1>6
<1> QED
  BY <1>9, <1>10, <1>11, <1>15, <1>17, <1>18, <1>19, <1>20, WorldKept

\* Every step of the world.
LEMMA WorldStepIInv ==
  ASSUME IInv, WorldStep
  PROVE  IInv'
<1>1. World!WorldStep
  BY DEF WorldStep
<1>2. CASE World!LoginPlayer
  BY <1>2, WorldLoginIInv
<1>3. CASE World!DelConnection
  BY <1>3, WorldClosedIInv
<1>4. ASSUME NEW p \in Pid, World!Finish(p) PROVE IInv'
  BY <1>4, WorldFinishIInv
<1>5. ASSUME NEW p \in Pid, World!Logout(p) PROVE IInv'
  BY <1>5, WorldLogoutIInv
<1>6. ASSUME NEW p \in Pid, World!Loading(p), World!Fail(<<p>>, "not_exist_player") PROVE IInv'
  <2>1. Cardinality({p}) = 1
    BY FS_Singleton
  <2>2. <<p>> \in [1..1 -> {p}] /\ \A i, j \in 1..1 : i # j => <<p>>[i] # <<p>>[j]
    OBVIOUS
  <2>3. <<p>> \in SetToSeqs({p})
    BY <2>1, <2>2 DEF SetToSeqs
  <2>4. {p} \in SUBSET {q \in Pid : World!Loading(q)}
    BY <1>6
  <2> QED
    BY <1>6, <2>3, <2>4, WorldFailIInv
<1>7. ASSUME NEW P \in SUBSET {p \in Pid : World!Loading(p)}, NEW order \in World!SetToSeqs(P),
             World!Fail(order, "script_error")
      PROVE  IInv'
  <2>1. order \in SetToSeqs(P)
    BY SameCardinality DEF World!SetToSeqs, SetToSeqs
  <2> QED
    BY <1>7, <2>1, WorldFailIInv
<1> QED
  BY <1>1, <1>2, <1>3, <1>4, <1>5, <1>6, <1>7 DEF World!WorldStep


-----------------------------------------------------------------------------
(* The theorems *)

\* At first nothing is under way.
LEMMA InitIInv == Init => IInv
<1> SUFFICES ASSUME Init PROVE IInv
  OBVIOUS
<1>1. /\ Queue!Init
      /\ session = [p \in Pid |-> None] /\ owner = [h \in Handle |-> None]
      /\ toWorld = <<>> /\ toLogin = <<>> /\ openStatus = 3
      /\ status = [h \in Handle |-> "no_account"]
      /\ pendingRole = [h \in Handle |-> None]
      /\ asked = <<>>
      /\ loginQueue = [p \in Pid |-> "no"] /\ loginCnt = 0
      /\ waitQueue = [p \in Pid |-> None] /\ tokenCache = [p \in Pid |-> None]
      /\ lastToken = 0
      /\ forwarded = {} /\ crossed = {} /\ failed = {} /\ lost = {}
  BY DEF Init, World!Init
<1>2. QueueProofs!IInv
  BY <1>1, SameQueue, QueueProofs!InitIInv, QueueAssumed
<1>3. toWorld \in Seq(World!Message) /\ toLogin \in Seq(World!Reply)
      /\ asked \in Seq([handle : Handle, pid : Pid])
  BY <1>1
<1>4. GateTypes
  BY <1>1, <1>3, LoginGateAssumption DEF GateTypes, Statuses
<1>5. Covered
  <2>1. Noted = {}
    BY <1>1 DEF Noted
  <2> QED
    BY <1>1, <2>1, FS_EmptySet DEF Covered
<1>6. ASSUME NEW h \in Handle PROVE OneLogin(h)
  <2>1. AskedCnt(h) = 0 /\ MailedCnt(h) = 0 /\ ResultCnt(h) = 0
    BY <1>1, CountEmpty DEF AskedCnt, MailedCnt, ResultCnt
  <2>2. Held(h) = {} /\ LoadingFrom(h) = {}
    BY <1>1 DEF Held, LoadingFrom, World!Loading
  <2>3. HeldCnt(h) = 0 /\ LoadingCnt(h) = 0
    BY <2>2, FS_EmptySet DEF HeldCnt, LoadingCnt
  <2>4. View(h)
    BY <1>1, <2>1, <2>3 DEF View
  <2> QED
    BY <1>4, <2>4, NumberFacts
<1>7. (\A p \in Pid : PlaceKept(p)) /\ SlotReturned
  <2>1. \A p \in Pid : ~OnItsWay(p) /\ session[p] = None
    BY <1>1 DEF OnItsWay, InMail
  <2>2. online = {}
    BY <1>1 DEF Queue!Init
  <2> QED
    BY <2>1, <2>2 DEF PlaceKept, SlotReturned
<1> QED
  BY <1>2, <1>4, <1>5, <1>6, <1>7 DEF IInv

\* The invariant is kept by every step of the login service and of the world.
LEMMA NextIInv == IInv /\ [Next]_vars => IInv'
<1> SUFFICES ASSUME IInv, [Next]_vars PROVE IInv'
  OBVIOUS
<1>1. ASSUME NEW h \in Handle, LoginAccount(h) \/ _LoginAccount3(h) PROVE IInv'
  BY <1>1, LoginAccountIInv
<1>2. ASSUME NEW h \in Handle, NEW p \in Pid, LoginRole(h, p) \/ ReLoginRole(h, p) PROVE IInv'
  BY <1>2, LoginRoleIInv
<1>3. ASSUME NEW h \in Handle, QuitLoginQueue(h) PROVE IInv'
  BY <1>3, QuitLoginQueueIInv
<1>4. ASSUME NEW h \in Handle, SocketClosed(h) PROVE IInv'
  BY <1>4, SocketClosedIInv
<1>5. CASE _LoginRole1
  BY <1>5, LoginRole1IInv
<1>6. CASE LoseAnswer
  BY <1>6, LoseAnswerIInv
<1>7. CASE CheckPushWaitQueue
  BY <1>7, CheckPushWaitQueueIInv
<1>8. CASE ClearNoValidLogin
  BY <1>8, ClearNoValidLoginIInv
<1>9. CASE TakeMessage
  BY <1>9, LoginResultIInv, OnLogoutIInv DEF TakeMessage
<1>10. CASE WorldStep
  BY <1>10, WorldStepIInv
<1>11. CASE OperatorStep \/ QueueCheck \/ UNCHANGED vars
  BY <1>11, OperatorIInv
<1> QED
  BY <1>1, <1>2, <1>3, <1>4, <1>5, <1>6, <1>7, <1>8, <1>9, <1>10, <1>11 DEF Next

\* The login gate keeps the invariant, for all players and sockets.
THEOREM Invariance == Spec => []IInv
  BY InitIInv, NextIInv, PTL DEF Spec

\* m_iLoginCnt is never smaller than the number of logins of
\* m_mRoleLoginQueue, and every table of the login service keeps its type.
THEOREM LimitHolds == Spec => []LoginCntCovers
<1>1. IInv => LoginCntCovers
  BY Parts, TypesSplit DEF LoginCntCovers, Covered, Noted
<1> QED
  BY <1>1, Invariance, PTL

\* A socket has at most one login under way, in the requests, the tables of
\* the login service, the mail and the world together, and a socket that the
\* world has taken over sends none.
THEOREM OneLoginAtATime == Spec => []OneLoginPerSocket
<1>1. IInv => OneLoginPerSocket
  BY DEF IInv, OneLoginPerSocket, OneLogin
<1> QED
  BY <1>1, Invariance, PTL

\* A player that is on its way to the world, or there, holds its place in the
\* login queue, unless the logout of its last session crossed its login.
THEOREM PlaceHeld == Spec => []SlotHeld
<1>1. IInv => SlotHeld
  BY DEF IInv, SlotHeld, PlaceKept
<1> QED
  BY <1>1, Invariance, PTL

\* A place is held by a player on its way, in the world or about to be logged
\* out, or by one whose session failed to load.
THEOREM PlaceReturned == Spec => []SlotReturned
<1>1. IInv => SlotReturned
  BY DEF IInv
<1> QED
  BY <1>1, Invariance, PTL

\* A client that waits for its role is owed an answer, or was let down in one
\* of the four known ways.
THEOREM AnswerOwed == Spec => []NoStuckLogin
<1>1. IInv => NoStuckLogin
  BY DEF IInv, NoStuckLogin, OneLogin
<1> QED
  BY <1>1, Invariance, PTL

=============================================================================
