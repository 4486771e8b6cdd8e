-------------------------- MODULE RoleCreateProofs --------------------------
(***************************************************************************)
(* Proofs about RoleCreate, for every set of sockets and names and any      *)
(* number of ids, requests and restarts: IInv is inductive, so that a taken *)
(* name has one claim, a socket one creation under way, and the rows of a   *)
(* role agree, whatever is closed, lost or restarted.                       *)
(***************************************************************************)
EXTENDS RoleCreate, FiniteSetTheorems, SequenceTheorems, TLAPS

\* What the proofs use of the tail of a queue,
LEMMA TailFacts ==
  ASSUME NEW S, NEW s \in Seq(S), s # <<>>
  PROVE  /\ Tail(s) \in Seq(S)
         /\ 1 \in DOMAIN s /\ Head(s) = s[1] /\ Head(s) \in S
         /\ \A i \in DOMAIN Tail(s) : i + 1 \in DOMAIN s /\ i + 1 # 1 /\ Tail(s)[i] = s[i + 1]
         /\ \A i \in DOMAIN s : i = 1 \/ (i - 1 \in DOMAIN Tail(s) /\ Tail(s)[i - 1] = s[i])
         /\ \A i, j \in DOMAIN Tail(s) : i + 1 = j + 1 => i = j
OBVIOUS

\* and of a queue with an element appended.
LEMMA AppendFacts ==
  ASSUME NEW S, NEW s \in Seq(S), NEW x \in S
  PROVE  /\ Append(s, x) \in Seq(S)
         /\ \A i \in DOMAIN s : i \in DOMAIN Append(s, x) /\ Append(s, x)[i] = s[i]
         /\ Len(s) + 1 \in DOMAIN Append(s, x) /\ Append(s, x)[Len(s) + 1] = x
         /\ Len(s) + 1 \notin DOMAIN s
         /\ DOMAIN Append(s, x) = DOMAIN s \cup {Len(s) + 1}
OBVIOUS

\* Two elements are appended one after the other.
LEMMA AppendTwo ==
  ASSUME NEW S, NEW s \in Seq(S), NEW x \in S, NEW y \in S
  PROVE  s \o <<x, y>> = Append(Append(s, x), y)
OBVIOUS

\* How many elements of a queue are in a set.
Count(s, X) == Cardinality({i \in DOMAIN s : s[i] \in X})

\* A count is a natural number,
LEMMA CountNat ==
  ASSUME NEW S, NEW s \in Seq(S), NEW X
  PROVE  IsFiniteSet({i \in DOMAIN s : s[i] \in X}) /\ Count(s, X) \in Nat
<1>1. DOMAIN s = 1..Len(s) /\ Len(s) \in Int /\ 1 \in Int
  OBVIOUS
<1>2. IsFiniteSet(DOMAIN s)
  BY <1>1, FS_Interval
<1>3. {i \in DOMAIN s : s[i] \in X} \in SUBSET (DOMAIN s)
  OBVIOUS
<1>4. IsFiniteSet({i \in DOMAIN s : s[i] \in X})
  BY <1>2, <1>3, FS_Subset
<1> QED
  BY <1>4, FS_CardinalityType DEF Count

\* zero for an empty queue,
LEMMA CountEmpty ==
  ASSUME NEW X
  PROVE  Count(<<>>, X) = 0
<1>1. {i \in DOMAIN <<>> : <<>>[i] \in X} = {}
  OBVIOUS
<1> QED
  BY <1>1, FS_EmptySet DEF Count

\* one more with a new element of the set,
LEMMA CountAppend ==
  ASSUME NEW S, NEW s \in Seq(S), NEW x \in S, NEW X
  PROVE  Count(Append(s, x), X) = Count(s, X) + (IF x \in X THEN 1 ELSE 0)
<1> DEFINE A == {i \in DOMAIN s : s[i] \in X}
           B == {i \in DOMAIN Append(s, x) : Append(s, x)[i] \in X}
<1>1. IsFiniteSet(A) /\ Count(s, X) = Cardinality(A) /\ Cardinality(A) \in Nat
  BY CountNat DEF Count
<1>2. Len(s) + 1 \notin A
  BY AppendFacts
<1>3. CASE x \in X
  <2>1. B = A \cup {Len(s) + 1}
    BY <1>3, AppendFacts
  <2> QED
    BY <1>1, <1>2, <1>3, <2>1, FS_AddElement DEF Count
<1>4. CASE x \notin X
  <2>1. B = A
    BY <1>4, AppendFacts
  <2>2. Count(Append(s, x), X) = Cardinality(B)
    BY DEF Count
  <2> HIDE DEF A, B
  <2>3. Count(Append(s, x), X) = Count(s, X) /\ Count(s, X) \in Nat
    BY <1>1, <2>1, <2>2
  <2> QED
    BY <1>4, <2>3
<1> QED
  BY <1>3, <1>4

\* and one less when such an element is taken from the front.
LEMMA CountTail ==
  ASSUME NEW S, NEW s \in Seq(S), s # <<>>, NEW X
  PROVE  Count(s, X) = Count(Tail(s), X) + (IF Head(s) \in X THEN 1 ELSE 0)
<1> DEFINE A == {i \in DOMAIN s : s[i] \in X}
           B == {i \in DOMAIN Tail(s) : Tail(s)[i] \in X}
           f == [i \in B |-> i + 1]
<1>1. IsFiniteSet(A) /\ Count(s, X) = Cardinality(A) /\ Cardinality(A) \in Nat
  BY CountNat DEF Count
<1>2. Tail(s) \in Seq(S)
  BY TailFacts
<1>3. IsFiniteSet(B) /\ Count(Tail(s), X) = Cardinality(B) /\ Cardinality(B) \in Nat
  BY <1>2, CountNat DEF Count
<1>4. f \in Bijection(B, A \ {1})
  <2>1. f \in [B -> A \ {1}]
    BY TailFacts
  <2>2. \A i, j \in B : f[i] = f[j] => i = j
    BY TailFacts
  <2>3. ASSUME NEW i \in A \ {1} PROVE \E j \in B : f[j] = i
    <3>1. i - 1 \in DOMAIN Tail(s) /\ Tail(s)[i - 1] = s[i] /\ i \in DOMAIN s
      BY <2>3, TailFacts
    <3>2. i \in Int
      BY <3>1
    <3>3. i - 1 \in B /\ f[i - 1] = i
      BY <2>3, <3>1, <3>2
    <3> QED
      BY <3>3
  <2> QED
    BY <2>1, <2>2, <2>3, Zenon DEF Bijection, Injection, Surjection, IsInjective
<1>5. Cardinality(A \ {1}) = Cardinality(B)
  BY <1>3, <1>4, FS_Bijection DEF ExistsBijection
<1>6. Cardinality(A \ {1}) = IF 1 \in A THEN Cardinality(A) - 1 ELSE Cardinality(A)
  BY <1>1, FS_RemoveElement
<1>7. 1 \in A <=> Head(s) \in X
  BY TailFacts
<1> HIDE DEF A, B
<1>8. CASE Head(s) \in X
  BY <1>1, <1>3, <1>5, <1>6, <1>7, <1>8
<1>9. CASE Head(s) \notin X
  BY <1>1, <1>3, <1>5, <1>6, <1>7, <1>9
<1> QED
  BY <1>8, <1>9

-----------------------------------------------------------------------------
\* What a request, an answer and a try carry.
LEMMA RequestFacts ==
  /\ \A h \in Handle, n \in Name :
       /\ Req("GetPlayerListByAccount", h, n, None) \in Requests
       /\ Req("InsertNewNameCounter", h, n, None) \in Requests
  /\ \A n \in Name : DeleteName(n) \in Requests
  /\ \A n \in Name, p \in Pid : Req("CreatePlayer", None, n, p) \in Requests
  /\ \A p \in Pid : Req("CreateOffline", None, None, p) \in Requests
  /\ \A r \in Requests :
       /\ r.op \in {"GetPlayerListByAccount", "InsertNewNameCounter"} =>
            r.handle \in Handle /\ r.name \in Name /\ r.pid = None
       /\ r.op = "DeleteName" => r.handle = None /\ r.name \in Name /\ r.pid = None
       /\ r.op = "CreatePlayer" => r.handle = None /\ r.name \in Name /\ r.pid \in Pid
       /\ r.op = "CreateOffline" => r.handle = None /\ r.name = None /\ r.pid \in Pid
BY DEF Requests, Req, DeleteName

LEMMA AnswerFacts ==
  /\ \A h \in Handle, n \in Name, k \in Nat :
       [op |-> "GetPlayerListByAccount", handle |-> h, name |-> n, result |-> k] \in Answers
  /\ \A h \in Handle, n \in Name, b \in BOOLEAN :
       [op |-> "InsertNewNameCounter", handle |-> h, name |-> n, result |-> b] \in Answers
  /\ \A a \in Answers :
       /\ a.handle \in Handle /\ a.name \in Name
       /\ a.op = "InsertNewNameCounter" => a.result \in BOOLEAN
       /\ a.op = "GetPlayerListByAccount" => a.result \in Nat
BY DEF Answers

LEMMA TryFacts ==
  \A t \in Tries :
    /\ t.stage \in {"asked", "supplied", "answered"}
    /\ t.handle \in HandleOrNone /\ t.name \in Name /\ t.pid \in PidOrNone
    /\ t.stage = "asked" => t.pid = None
    /\ t.stage = "supplied" => t.pid \in Pid
    /\ [t EXCEPT !.handle = None] \in Tries
BY DEF Tries, HandleOrNone, PidOrNone

\* A try moves on to the next stage.
LEMMA TrySteps ==
  \A t \in Tries :
    /\ t.stage = "asked" => \A p \in Pid : [t EXCEPT !.stage = "supplied", !.pid = p] \in Tries
    /\ t.stage = "supplied" =>
         /\ [t EXCEPT !.stage = "answered"] \in Tries
         /\ [t EXCEPT !.stage = "answered", !.pid = None] \in Tries
BY DEF Tries, HandleOrNone, PidOrNone

\* An id is a number, and so is not None.
LEMMA PidFacts ==
  /\ None \notin Pid /\ None \notin Name /\ None \notin Handle
  /\ IsFiniteSet(Pid)
<1>1. None \notin Pid /\ None \notin Name /\ None \notin Handle
  BY RoleCreateAssumption DEF Pid
<1>2. MaxPid \in Int /\ 1 \in Int
  BY RoleCreateAssumption
<1> QED
  BY <1>1, <1>2, FS_Interval DEF Pid

\* There are as many roles as is natural.
LEMMA RolesFinite == IsFiniteSet(Roles) /\ Cardinality(Roles) \in Nat
<1>1. Roles \in SUBSET Pid
  BY DEF Roles
<1> QED
  BY <1>1, PidFacts, FS_Subset, FS_CardinalityType

-----------------------------------------------------------------------------
\* Every step keeps the types, and the tries finitely many.
LEMMA TypeStep == TypeOK /\ IsFiniteSet(tries) /\ [Next]_vars => TypeOK' /\ IsFiniteSet(tries)'
<1> SUFFICES ASSUME TypeOK, IsFiniteSet(tries), [Next]_vars PROVE TypeOK' /\ IsFiniteSet(tries')
  OBVIOUS
<1>1. ASSUME NEW h \in Handle, Login(h) \/ Close(h) PROVE TypeOK' /\ tries' = tries
  BY <1>1 DEF Login, Close, TypeOK, gameDb, ids, bounds, history
<1>2. ASSUME NEW h \in Handle, NEW n \in Name, CreateRole(h, n) PROVE TypeOK' /\ tries' = tries
  <2>1. requests' \in 0..MaxRequests
    BY <1>2, RoleCreateAssumption DEF CreateRole, TypeOK
  <2>2. dbQueue' \in Seq(Requests)
    BY <1>2, RequestFacts, AppendFacts DEF CreateRole, TypeOK
  <2> QED
    BY <1>2, <2>1, <2>2 DEF CreateRole, TypeOK, gameDb, ids, history
<1>3. ASSUME GetPlayerListByAccount PROVE TypeOK' /\ tries' = tries
  <2> DEFINE a == [op |-> "GetPlayerListByAccount", handle |-> Head(dbQueue).handle,
                   name |-> Head(dbQueue).name, result |-> Cardinality(Roles)]
  <2>1. /\ Head(dbQueue) \in Requests /\ dbQueue' \in Seq(Requests)
        /\ Head(dbQueue).op = "GetPlayerListByAccount"
    BY <1>3, TailFacts DEF TypeOK, GetPlayerListByAccount, HeadIs
  <2>2. a \in Answers
    BY <2>1, RequestFacts, RolesFinite, AnswerFacts
  <2>3. dbMail' \in Seq(Answers)
    BY <1>3, <2>2, AppendFacts DEF TypeOK, GetPlayerListByAccount, Answer
  <2> QED
    BY <1>3, <2>1, <2>3 DEF TypeOK, GetPlayerListByAccount, gameDb, ids, bounds, history
<1>4. ASSUME InsertNewNameCounter PROVE TypeOK' /\ tries' = tries
  <2> DEFINE a == [op |-> "InsertNewNameCounter", handle |-> Head(dbQueue).handle,
                   name |-> Head(dbQueue).name, result |-> Head(dbQueue).name \notin namecounter]
  <2>1. /\ Head(dbQueue) \in Requests /\ dbQueue' \in Seq(Requests)
        /\ Head(dbQueue).op = "InsertNewNameCounter"
    BY <1>4, TailFacts DEF TypeOK, InsertNewNameCounter, HeadIs
  <2>2. a \in Answers
    BY <2>1, RequestFacts, AnswerFacts
  <2>4. dbMail' \in Seq(Answers)
    BY <1>4, <2>2, AppendFacts DEF TypeOK, InsertNewNameCounter, Answer
  <2>3. namecounter' \subseteq Name
    BY <1>4, <2>1, RequestFacts DEF TypeOK, InsertNewNameCounter
  <2> QED
    BY <1>4, <2>1, <2>3, <2>4 DEF TypeOK, InsertNewNameCounter, ids, bounds, history
<1>5. ASSUME DbDeleteName PROVE TypeOK' /\ tries' = tries
  <2>1. dbQueue' \in Seq(Requests)
    BY <1>5, TailFacts DEF TypeOK, DbDeleteName, HeadIs
  <2> QED
    BY <1>5, <2>1 DEF TypeOK, DbDeleteName, ids, bounds, history
<1>6. ASSUME CreatePlayer PROVE TypeOK' /\ tries' = tries
  <2>1. /\ Head(dbQueue) \in Requests /\ dbQueue' \in Seq(Requests)
        /\ Head(dbQueue).op = "CreatePlayer"
    BY <1>6, TailFacts DEF TypeOK, CreatePlayer, HeadIs
  <2>2. Head(dbQueue).pid \in Pid /\ Head(dbQueue).name \in Name
    BY <2>1, RequestFacts
  <2>3. /\ player' \in [Pid -> Name \cup {None}] /\ lostNames' \subseteq Name /\ lostRoles' \subseteq Pid
        /\ stuck' = stuck /\ twice' = twice
    BY <1>6, <2>2 DEF TypeOK, CreatePlayer, history
  <2> QED
    BY <1>6, <2>1, <2>3 DEF TypeOK, CreatePlayer, ids, bounds
<1>7. ASSUME CreateOffline PROVE TypeOK' /\ tries' = tries
  <2>1. /\ Head(dbQueue) \in Requests /\ dbQueue' \in Seq(Requests)
        /\ Head(dbQueue).op = "CreateOffline"
    BY <1>7, TailFacts DEF TypeOK, CreateOffline, HeadIs
  <2>2. offline' \subseteq Pid
    BY <1>7, <2>1, RequestFacts DEF TypeOK, CreateOffline
  <2> QED
    BY <1>7, <2>1, <2>2 DEF TypeOK, CreateOffline, ids, bounds, history
<1>8. ASSUME _CreateRole3 PROVE TypeOK' /\ tries' = tries
  <2> DEFINE x == Req("InsertNewNameCounter", Head(dbMail).handle, Head(dbMail).name, None)
  <2>1. /\ Head(dbMail) \in Answers /\ dbMail' \in Seq(Answers)
    BY <1>8, TailFacts DEF TypeOK, _CreateRole3, MailIs
  <2>2. x \in Requests
    BY <2>1, RequestFacts, AnswerFacts
  <2>3. dbQueue' = dbQueue \/ dbQueue' = Append(dbQueue, x)
    BY <1>8 DEF _CreateRole3
  <2>4. dbQueue' \in Seq(Requests)
    <3> HIDE DEF x
    <3>1. dbQueue \in Seq(Requests)
      BY DEF TypeOK
    <3>2. Append(dbQueue, x) \in Seq(Requests)
      BY <2>2, <3>1, AppendFacts
    <3> QED
      BY <2>3, <3>1, <3>2
  <2>5. status' \in [Handle -> {"new", "login_account", "in_create_role", "closed"}]
    BY <1>8 DEF TypeOK, _CreateRole3
  <2> QED
    BY <1>8, <2>1, <2>4, <2>5 DEF TypeOK, _CreateRole3, gameDb, ids, bounds, history
<1>9. ASSUME _TrueCreateRole1 PROVE TypeOK' /\ IsFiniteSet(tries')
  <2> DEFINE a == Head(dbMail)
             t == [stage |-> "asked", handle |-> a.handle, name |-> a.name, pid |-> None]
  <2>1. /\ a \in Answers /\ dbMail' \in Seq(Answers)
    BY <1>9, TailFacts DEF TypeOK, _TrueCreateRole1, MailIs
  <2>2. t \in Tries
    BY <2>1, AnswerFacts DEF Tries, HandleOrNone
  <2>3. tries' = tries \/ tries' = tries \cup {t}
    BY <1>9 DEF _TrueCreateRole1
  <2>4. tries' \subseteq Tries /\ IsFiniteSet(tries')
    <3> HIDE DEF t
    <3>1. IsFiniteSet(tries \cup {t})
      BY FS_AddElement
    <3> QED
      BY <2>2, <2>3, <3>1 DEF TypeOK
  <2>5. dbQueue' = dbQueue \/ dbQueue' = Append(dbQueue, DeleteName(a.name))
    BY <1>9 DEF _TrueCreateRole1
  <2>6. dbQueue' \in Seq(Requests)
    <3>1. DeleteName(a.name) \in Requests
      BY <2>1, RequestFacts, AnswerFacts
    <3>2. Append(dbQueue, DeleteName(a.name)) \in Seq(Requests)
      BY <3>1, AppendFacts DEF TypeOK
    <3> QED
      BY <2>5, <3>2 DEF TypeOK
  <2>7. status' \in [Handle -> {"new", "login_account", "in_create_role", "closed"}]
    BY <1>9 DEF TypeOK, _TrueCreateRole1
  <2> QED
    BY <1>9, <2>1, <2>4, <2>6, <2>7 DEF TypeOK, _TrueCreateRole1, gameDb, ids, bounds, history
<1>10. ASSUME LoseAnswer PROVE TypeOK' /\ tries' = tries
  <2>1. /\ Head(dbMail) \in Answers /\ dbMail' \in Seq(Answers)
    BY <1>10, TailFacts DEF TypeOK, LoseAnswer
  <2>2. lostNames' \subseteq Name /\ stuck' \subseteq Handle
    BY <1>10, <2>1, AnswerFacts DEF TypeOK, LoseAnswer
  <2> QED
    BY <1>10, <2>1, <2>2 DEF TypeOK, LoseAnswer, gameDb, ids, bounds
<1>11. ASSUME NEW t \in tries, GenPlayerId(t) PROVE TypeOK' /\ IsFiniteSet(tries')
  <2> DEFINE u == [t EXCEPT !.stage = "supplied", !.pid = nowPlayerId']
  <2>1. nowPlayerId' \in Pid /\ nowPlayerId' \in 0..MaxPid
    BY <1>11, RoleCreateAssumption DEF TypeOK, GenPlayerId, Pid
  <2>2. u \in Tries
    BY <1>11, <2>1, TrySteps DEF TypeOK, GenPlayerId
  <2>3. tries' = (tries \ {t}) \cup {u}
    BY <1>11 DEF GenPlayerId
  <2>4. tries' \subseteq Tries /\ IsFiniteSet(tries')
    BY <2>2, <2>3, FS_AddElement, FS_RemoveElement DEF TypeOK
  <2>5. twice' \subseteq Pid
    BY <1>11, <2>1 DEF TypeOK, GenPlayerId
  <2> QED
    BY <1>11, <2>1, <2>4, <2>5 DEF TypeOK, GenPlayerId, loginVars, gameDb, bounds
<1>12. ASSUME NEW t \in tries, _TryCreateRole2(t) PROVE TypeOK' /\ IsFiniteSet(tries')
  <2>1. PICK u \in Tries : tries' = (tries \ {t}) \cup {u}
    BY <1>12, TrySteps DEF TypeOK, _TryCreateRole2
  <2>2. tries' \subseteq Tries /\ IsFiniteSet(tries')
    BY <2>1, FS_AddElement, FS_RemoveElement DEF TypeOK
  <2>3. t.pid \in Pid /\ t.name \in Name
    BY <1>12, TryFacts DEF TypeOK, _TryCreateRole2
  <2>4. roleinfo' = roleinfo \/ roleinfo' = roleinfo \cup {[pid |-> t.pid, name |-> t.name]}
    BY <1>12 DEF _TryCreateRole2
  <2>5. roleinfo' \subseteq [pid : Pid, name : Name]
    BY <2>3, <2>4 DEF TypeOK
  <2> QED
    BY <1>12, <2>2, <2>5 DEF TypeOK, _TryCreateRole2, loginVars, gameDb, ids, bounds, history
<1>13. ASSUME NEW t \in tries, _TrueCreateRole2(t) PROVE TypeOK' /\ IsFiniteSet(tries')
  <2>1. tries' = tries \ {t} /\ t \in Tries
    BY <1>13 DEF TypeOK, _TrueCreateRole2
  <2>2. tries' \subseteq Tries /\ IsFiniteSet(tries')
    BY <2>1, FS_RemoveElement DEF TypeOK
  <2>3. t.name \in Name /\ t.pid \in PidOrNone /\ (t.pid # None => t.pid \in Pid)
    BY <2>1, TryFacts DEF PidOrNone
  <2>4. status' \in [Handle -> {"new", "login_account", "in_create_role", "closed"}]
    BY <1>13 DEF TypeOK, _TrueCreateRole2
  <2>5. ASSUME t.pid # None
        PROVE  dbQueue \o <<Req("CreatePlayer", None, t.name, t.pid), Req("CreateOffline", None, None, t.pid)>>
                 \in Seq(Requests)
    <3> DEFINE x == Req("CreatePlayer", None, t.name, t.pid)
               y == Req("CreateOffline", None, None, t.pid)
    <3>1. x \in Requests /\ y \in Requests
      BY <2>3, <2>5, RequestFacts
    <3> HIDE DEF x, y
    <3>2. dbQueue \o <<x, y>> = Append(Append(dbQueue, x), y)
      BY <3>1, AppendTwo DEF TypeOK
    <3>3. Append(Append(dbQueue, x), y) \in Seq(Requests)
      BY <3>1, AppendFacts DEF TypeOK
    <3> QED
      BY <3>2, <3>3 DEF x, y
  <2>6. dbQueue' \in Seq(Requests)
    <3>1. DeleteName(t.name) \in Requests
      BY <2>3, RequestFacts
    <3>2. Append(dbQueue, DeleteName(t.name)) \in Seq(Requests)
      BY <3>1, AppendFacts DEF TypeOK
    <3>3. \/ dbQueue' = dbQueue
          \/ dbQueue' = Append(dbQueue, DeleteName(t.name))
          \/ t.pid # None /\ dbQueue' = dbQueue \o <<Req("CreatePlayer", None, t.name, t.pid),
                                                  Req("CreateOffline", None, None, t.pid)>>
      BY <1>13 DEF _TrueCreateRole2
    <3> QED
      BY <2>5, <3>2, <3>3 DEF TypeOK
  <2>7. reverts' \subseteq Pid /\ lostNames' \subseteq Name /\ lostRoles' \subseteq Pid
        /\ stuck' = stuck /\ twice' = twice
    BY <1>13, <2>3 DEF TypeOK, _TrueCreateRole2, history
  <2> QED
    BY <1>13, <2>2, <2>4, <2>6, <2>7 DEF TypeOK, _TrueCreateRole2, gameDb, ids, bounds
<1>14. ASSUME NEW T \in SUBSET tries, Forget(T)
       PROVE  /\ tries' \subseteq Tries /\ IsFiniteSet(tries')
              /\ lostNames' \subseteq Name /\ lostRoles' \subseteq Pid /\ stuck' \subseteq Handle
  <2>1. tries' \in SUBSET tries
    BY <1>14 DEF Forget
  <2>2. tries' \subseteq Tries /\ IsFiniteSet(tries')
    BY <2>1, FS_Subset DEF TypeOK
  <2>3. \A t \in T : t.name \in Name /\ t.handle \in HandleOrNone /\ t.pid \in PidOrNone
    BY TryFacts DEF TypeOK
  <2> QED
    BY <1>14, <2>2, <2>3 DEF TypeOK, Forget, HandleOrNone, PidOrNone
<1>15. ASSUME NEW t \in tries, LoseTry(t) PROVE TypeOK' /\ IsFiniteSet(tries')
  BY <1>14, <1>15 DEF TypeOK, LoseTry, loginVars, gameDb, ids, bounds
<1>16. ASSUME NEW p \in Pid, RevertRole(p) \/ LoseRevert(p) PROVE TypeOK' /\ tries' = tries
  BY <1>16 DEF TypeOK, RevertRole, LoseRevert, loginVars, gameDb, ids, bounds, history
<1>17. ASSUME SavePlayerIdCounter PROVE TypeOK' /\ tries' = tries
  <2>1. savedPlayerId' \in 0..MaxPid
    BY <1>17, RoleCreateAssumption DEF TypeOK, SavePlayerIdCounter
  <2> QED
    BY <1>17, <2>1 DEF TypeOK, SavePlayerIdCounter, loginVars, gameDb, bounds, history
<1>18. ASSUME LoadPlayerIdCounter PROVE TypeOK' /\ tries' = tries
  BY <1>18 DEF TypeOK, LoadPlayerIdCounter, loginVars, gameDb, bounds, history
<1>19. ASSUME Restart PROVE restarts' \in 0..MaxRestarts
  BY <1>19, RoleCreateAssumption DEF TypeOK, Restart
<1>20. ASSUME RestartGS PROVE TypeOK' /\ IsFiniteSet(tries')
  <2> DEFINE f == [t \in tries |-> [t EXCEPT !.handle = None]]
  <2>1. tries' = {[t EXCEPT !.handle = None] : t \in tries}
    BY <1>20 DEF RestartGS
  <2>2. f \in Surjection(tries, tries')
    BY <2>1, Zenon DEF Surjection
  <2>3. tries' \subseteq Tries /\ IsFiniteSet(tries')
    BY <2>1, <2>2, FS_Surjection, TryFacts DEF TypeOK
  <2>4. status' \in [Handle -> {"new", "login_account", "in_create_role", "closed"}]
    BY <1>20 DEF RestartGS
  <2>5. lostRoles' \subseteq Pid
    <3>1. \A i \in DOMAIN dbQueue : dbQueue[i] \in Requests
      BY DEF TypeOK
    <3>2. \A r \in Queued("CreatePlayer") \cup Queued("CreateOffline") : r.pid \in Pid
      BY <3>1, RequestFacts DEF Queued
    <3> QED
      BY <1>20, <3>2 DEF TypeOK, RestartGS
  <2>6. dbQueue' \in Seq(Requests) /\ dbMail' \in Seq(Answers)
    BY <1>20 DEF RestartGS
  <2> QED
    BY <1>19, <1>20, <2>3, <2>4, <2>5, <2>6 DEF TypeOK, RestartGS, gameDb, ids
<1>21. ASSUME RestartCS PROVE TypeOK' /\ IsFiniteSet(tries')
  <2>1. {t \in tries : t.stage = "supplied"} \in SUBSET tries
    OBVIOUS
  <2>2. nowPlayerId' \in 0..MaxPid
    BY <1>21, RoleCreateAssumption DEF RestartCS
  <2> QED
    BY <1>14, <1>19, <1>21, <2>1, <2>2 DEF TypeOK, RestartCS, loginVars, gameDb
<1>22. CASE UNCHANGED vars
  BY <1>22 DEF TypeOK, vars, loginVars, gameDb, ids, bounds, history
<1> QED
  BY <1>1, <1>2, <1>3, <1>4, <1>5, <1>6, <1>7, <1>8, <1>9, <1>10, <1>11, <1>12, <1>13, <1>15,
     <1>16, <1>17, <1>18, <1>20, <1>21, <1>22 DEF Next, GameDbStep

-----------------------------------------------------------------------------
\* The requests to create a role that are left were there before.
QueueLeft ==
  \A p \in Pid :
    /\ \A i \in Creating(p)' : \E j \in Creating(p) : dbQueue'[i].name = dbQueue[j].name
    /\ (\A i, j \in Creating(p) : i = j) => (\A i, j \in Creating(p)' : i = j)

\* A request stays in the queue unless it was its head.
HeadLeaves ==
  \A i \in DOMAIN dbQueue :
    \/ dbQueue[i] = Head(dbQueue)
    \/ \E j \in DOMAIN dbQueue' : dbQueue'[j] = dbQueue[i]

\* No request leaves the queue.
NoneLeaves == \A i \in DOMAIN dbQueue : \E j \in DOMAIN dbQueue' : dbQueue'[j] = dbQueue[i]

\* The queue when its head is served,
LEMMA QueueServed ==
  ASSUME TypeOK, dbQueue # <<>>, dbQueue' = Tail(dbQueue)
  PROVE  QueueLeft /\ HeadLeaves /\ dbQueue' \in Seq(Requests)
         /\ Head(dbQueue) \in Requests /\ 1 \in DOMAIN dbQueue /\ dbQueue[1] = Head(dbQueue)
         /\ \A i \in DOMAIN dbQueue' : i + 1 \in DOMAIN dbQueue /\ i + 1 # 1 /\ dbQueue'[i] = dbQueue[i + 1]
<1>1. /\ dbQueue' \in Seq(Requests) /\ Head(dbQueue) \in Requests
      /\ 1 \in DOMAIN dbQueue /\ dbQueue[1] = Head(dbQueue)
      /\ \A i \in DOMAIN dbQueue' : i + 1 \in DOMAIN dbQueue /\ i + 1 # 1 /\ dbQueue'[i] = dbQueue[i + 1]
      /\ \A i \in DOMAIN dbQueue : i = 1 \/ (i - 1 \in DOMAIN dbQueue' /\ dbQueue'[i - 1] = dbQueue[i])
      /\ \A i, j \in DOMAIN dbQueue' : i + 1 = j + 1 => i = j
  BY TailFacts DEF TypeOK
<1>2. HeadLeaves
  BY <1>1 DEF HeadLeaves
<1>3. QueueLeft
  <2>1. \A p \in Pid : \A i \in Creating(p)' :
          i \in DOMAIN dbQueue' /\ i + 1 \in Creating(p) /\ dbQueue'[i].name = dbQueue[i + 1].name
    BY <1>1 DEF Creating
  <2>2. ASSUME NEW p \in Pid, \A i, j \in Creating(p) : i = j,
               NEW i \in Creating(p)', NEW j \in Creating(p)'
        PROVE  i = j
    <3>1. i + 1 = j + 1
      BY <2>1, <2>2
    <3> QED
      BY <1>1, <2>1, <3>1
  <2> QED
    BY <2>1, <2>2 DEF QueueLeft
<1> QED
  BY <1>1, <1>2, <1>3

\* when a request of another kind is appended,
LEMMA QueueAppended ==
  ASSUME TypeOK, NEW x \in Requests, dbQueue' = Append(dbQueue, x), x.op # "CreatePlayer"
  PROVE  QueueLeft /\ NoneLeaves
<1>1. /\ \A i \in DOMAIN dbQueue : i \in DOMAIN dbQueue' /\ dbQueue'[i] = dbQueue[i]
      /\ \A i \in DOMAIN dbQueue' : i \in DOMAIN dbQueue \/ dbQueue'[i] = x
  BY AppendFacts DEF TypeOK
<1>2. \A p \in Pid : \A i \in Creating(p)' : i \in Creating(p) /\ dbQueue'[i].name = dbQueue[i].name
  BY <1>1 DEF Creating
<1> QED
  BY <1>1, <1>2 DEF QueueLeft, NoneLeaves

\* and when it stays as it is.
LEMMA QueueSame ==
  ASSUME dbQueue' = dbQueue
  PROVE  QueueLeft /\ NoneLeaves
BY DEF QueueLeft, NoneLeaves, Creating

\* A step that writes no row: what it takes from the ways to a row is noted.
Quiet ==
  /\ QueueLeft
  /\ \A i \in DOMAIN dbQueue :
       \/ \E j \in DOMAIN dbQueue' : dbQueue'[j] = dbQueue[i]
       \/ dbQueue[i].op \notin {"CreatePlayer", "CreateOffline"}
       \/ dbQueue[i].op = "CreateOffline" /\ dbQueue[i].pid \in offline'
  /\ UNCHANGED <<player, roleinfo, twice>>
  /\ lostRoles \subseteq lostRoles' /\ offline \subseteq offline' /\ reverts' \subseteq reverts
  /\ \A p \in reverts : p \in reverts' \/ p \in lostRoles'
  /\ \A t \in tries' : t.pid \in Pid => t \in tries
  /\ \A t \in tries : t.stage = "answered" /\ t.pid \in Pid => t \in tries' \/ t.pid \in lostRoles'

Rows == RowFollowed /\ IdOnce /\ OfflineComes

LEMMA QuietKeeps ==
  ASSUME TypeOK, Rows, Quiet
  PROVE  Rows'
<1> USE DEF Rows
<1>1. QueueLeft /\ player' = player /\ roleinfo' = roleinfo /\ twice' = twice
  BY DEF Quiet
<1>2. RowFollowed'
  <2> SUFFICES ASSUME NEW r \in roleinfo PROVE RowFollowed!(r)'
    BY <1>1 DEF RowFollowed
  <2>1. r.pid \in Pid
    BY DEF TypeOK
  <2>2. CASE player[r.pid] = r.name
    BY <1>1, <2>2
  <2>3. CASE \E i \in Creating(r.pid) : dbQueue[i].name = r.name
    <3>1. PICK i \in Creating(r.pid) : dbQueue[i].name = r.name
      BY <2>3
    <3>2. i \in DOMAIN dbQueue /\ dbQueue[i].op = "CreatePlayer" /\ dbQueue[i].pid = r.pid
      BY <3>1 DEF Creating
    <3>3. PICK j \in DOMAIN dbQueue' : dbQueue'[j] = dbQueue[i]
      BY <3>2 DEF Quiet
    <3>4. j \in Creating(r.pid)'
      BY <3>2, <3>3 DEF Creating
    <3> QED
      BY <3>1, <3>3, <3>4
  <2>4. CASE \E t \in tries : t.stage = "answered" /\ t.pid = r.pid /\ t.name = r.name
    BY <2>1, <2>4 DEF Quiet
  <2>5. CASE r.pid \in reverts \cup lostRoles
    BY <2>5 DEF Quiet
  <2> QED
    BY <2>2, <2>3, <2>4, <2>5 DEF RowFollowed
<1>3. IdOnce'
  <2> SUFFICES ASSUME NEW p \in Pid \ twice PROVE IdOnce!(p)'
    BY <1>1 DEF IdOnce
  <2>1. \A t \in tries' : t.pid = p => t \in tries
    BY DEF Quiet
  <2>2. Creating(p)' # {} => Creating(p) # {}
    BY <1>1 DEF QueueLeft
  <2>3. p \in reverts' => p \in reverts
    BY DEF Quiet
  <2>4. \A i \in Creating(p)' : \E j \in Creating(p) : dbQueue'[i].name = dbQueue[j].name
    BY <1>1 DEF QueueLeft
  <2>5. \A i, j \in Creating(p) : i = j
    BY DEF IdOnce
  <2>6. \A i, j \in Creating(p)' : i = j
    BY <1>1, <2>5 DEF QueueLeft
  <2>7. HasRow(p)' <=> HasRow(p)
    BY <1>1 DEF HasRow
  <2> QED
    BY <1>1, <2>1, <2>2, <2>3, <2>4, <2>6, <2>7 DEF IdOnce
<1>4. OfflineComes'
  <2> SUFFICES ASSUME NEW p \in Pid PROVE OfflineComes!(p)'
    BY DEF OfflineComes
  <2>1. SUFFICES ASSUME (player[p] # None \/ Creating(p) # {})
                 PROVE  OfflineComes!(p)'
    BY <1>1 DEF QueueLeft
  <2>2. CASE p \in offline \cup lostRoles
    BY <2>2 DEF Quiet
  <2>3. CASE \E i \in DOMAIN dbQueue : dbQueue[i].op = "CreateOffline" /\ dbQueue[i].pid = p
    BY <2>3 DEF Quiet
  <2> QED
    BY <2>1, <2>2, <2>3 DEF OfflineComes
<1> QED
  BY <1>2, <1>3, <1>4

-----------------------------------------------------------------------------
\* The steps that write no row.
LEMMA QuietSteps ==
  ASSUME TypeOK, Rows,
         \/ \E h \in Handle : Login(h) \/ Close(h)
         \/ \E h \in Handle, n \in Name : CreateRole(h, n)
         \/ GetPlayerListByAccount \/ InsertNewNameCounter \/ DbDeleteName \/ CreateOffline
         \/ _CreateRole3 \/ _TrueCreateRole1 \/ LoseAnswer
         \/ \E t \in tries : LoseTry(t)
         \/ \E p \in Pid : LoseRevert(p)
         \/ SavePlayerIdCounter \/ LoadPlayerIdCounter \/ RestartCS
  PROVE  Rows'
<1> USE PidFacts
<1>1. ASSUME NEW h \in Handle, Login(h) \/ Close(h) PROVE Quiet
  BY <1>1, QueueSame DEF Login, Close, Quiet, NoneLeaves, gameDb, history
<1>2. ASSUME NEW h \in Handle, NEW n \in Name, CreateRole(h, n) PROVE Quiet
  <2>1. PICK x \in Requests : x.op # "CreatePlayer" /\ dbQueue' = Append(dbQueue, x)
    BY <1>2, RequestFacts DEF CreateRole, Req
  <2>2. QueueLeft /\ NoneLeaves
    BY <2>1, QueueAppended
  <2> QED
    BY <1>2, <2>2 DEF CreateRole, Quiet, NoneLeaves, gameDb, history
<1>3. ASSUME GetPlayerListByAccount \/ InsertNewNameCounter \/ DbDeleteName PROVE Quiet
  <2>1. dbQueue # <<>> /\ dbQueue' = Tail(dbQueue) /\ Head(dbQueue).op \notin {"CreatePlayer", "CreateOffline"}
    BY <1>3 DEF GetPlayerListByAccount, InsertNewNameCounter, DbDeleteName, HeadIs
  <2>2. QueueLeft /\ HeadLeaves
    BY <2>1, QueueServed
  <2> QED
    BY <1>3, <2>1, <2>2
    DEF GetPlayerListByAccount, InsertNewNameCounter, DbDeleteName, Quiet, HeadLeaves, gameDb, history
<1>4. ASSUME CreateOffline PROVE Quiet
  <2>1. dbQueue # <<>> /\ dbQueue' = Tail(dbQueue) /\ Head(dbQueue).op = "CreateOffline"
        /\ offline' = offline \cup {Head(dbQueue).pid}
    BY <1>4 DEF CreateOffline, HeadIs
  <2>2. QueueLeft /\ HeadLeaves
    BY <2>1, QueueServed
  <2> QED
    BY <1>4, <2>1, <2>2 DEF CreateOffline, Quiet, HeadLeaves, history
<1>5. ASSUME _CreateRole3 PROVE Quiet
  <2>1. Head(dbMail).handle \in Handle /\ Head(dbMail).name \in Name
    BY <1>5, TailFacts, AnswerFacts DEF _CreateRole3, MailIs, TypeOK
  <2>2. \/ dbQueue' = dbQueue
        \/ dbQueue' = Append(dbQueue, Req("InsertNewNameCounter", Head(dbMail).handle, Head(dbMail).name, None))
    BY <1>5 DEF _CreateRole3
  <2>3. \/ dbQueue' = dbQueue
        \/ \E x \in Requests : x.op # "CreatePlayer" /\ dbQueue' = Append(dbQueue, x)
    BY <2>1, <2>2, RequestFacts DEF Req
  <2>4. QueueLeft /\ NoneLeaves
    BY <2>3, QueueSame, QueueAppended
  <2> QED
    BY <1>5, <2>4 DEF _CreateRole3, Quiet, NoneLeaves, gameDb, history
<1>6. ASSUME _TrueCreateRole1 PROVE Quiet
  <2>1. Head(dbMail).handle \in Handle /\ Head(dbMail).name \in Name
    BY <1>6, TailFacts, AnswerFacts DEF _TrueCreateRole1, MailIs, TypeOK
  <2>2. \/ dbQueue' = dbQueue
        \/ dbQueue' = Append(dbQueue, DeleteName(Head(dbMail).name))
    BY <1>6 DEF _TrueCreateRole1
  <2>3. \/ dbQueue' = dbQueue
        \/ \E x \in Requests : x.op # "CreatePlayer" /\ dbQueue' = Append(dbQueue, x)
    BY <2>1, <2>2, RequestFacts DEF Req, DeleteName
  <2>4. QueueLeft /\ NoneLeaves
    BY <2>3, QueueSame, QueueAppended
  <2>5. \/ tries' = tries
        \/ tries' = tries \cup {[stage |-> "asked", handle |-> Head(dbMail).handle,
                                 name |-> Head(dbMail).name, pid |-> None]}
    BY <1>6 DEF _TrueCreateRole1
  <2>6. tries \subseteq tries' /\ \A t \in tries' : t.pid \in Pid => t \in tries
    BY <2>5
  <2> QED
    BY <1>6, <2>4, <2>6 DEF _TrueCreateRole1, Quiet, NoneLeaves, gameDb, history
<1>7. ASSUME LoseAnswer PROVE Quiet
  BY <1>7, QueueSame DEF LoseAnswer, Quiet, NoneLeaves, gameDb
<1>8. ASSUME NEW t \in tries, LoseTry(t) PROVE Quiet
  BY <1>8, QueueSame DEF LoseTry, Forget, Quiet, NoneLeaves, loginVars, gameDb
<1>9. ASSUME NEW p \in Pid, LoseRevert(p) PROVE Quiet
  BY <1>9, QueueSame DEF LoseRevert, Quiet, NoneLeaves, loginVars, gameDb
<1>10. ASSUME SavePlayerIdCounter \/ LoadPlayerIdCounter PROVE Quiet
  BY <1>10, QueueSame DEF SavePlayerIdCounter, LoadPlayerIdCounter, Quiet, NoneLeaves, loginVars, gameDb, history
<1>11. ASSUME RestartCS PROVE Quiet
  BY <1>11, QueueSame DEF RestartCS, Forget, Quiet, NoneLeaves, loginVars, gameDb
<1> QED
  BY <1>1, <1>2, <1>3, <1>4, <1>5, <1>6, <1>7, <1>8, <1>9, <1>10, <1>11, QuietKeeps

\* The row of a player is written for the one request of its id, or refused.
LEMMA CreatePlayerRows ==
  ASSUME TypeOK, Rows, CreatePlayer
  PROVE  Rows'
<1> DEFINE r == Head(dbQueue)
<1>1. /\ dbQueue # <<>> /\ dbQueue' = Tail(dbQueue) /\ r.op = "CreatePlayer"
      /\ UNCHANGED <<offline, tries, reverts, roleinfo>>
  BY DEF CreatePlayer, HeadIs
<1>2. /\ QueueLeft /\ HeadLeaves /\ r \in Requests /\ r.pid \in Pid /\ r.name \in Name
      /\ 1 \in DOMAIN dbQueue /\ dbQueue[1] = r
      /\ \A i \in DOMAIN dbQueue' : i + 1 \in DOMAIN dbQueue /\ i + 1 # 1 /\ dbQueue'[i] = dbQueue[i + 1]
  BY <1>1, QueueServed, RequestFacts
<1>3. 1 \in Creating(r.pid) /\ r.name # None
  BY <1>1, <1>2, PidFacts DEF Creating
<1>4. twice' = twice /\ lostRoles \subseteq lostRoles'
  BY DEF CreatePlayer, history
<1>5. \/ player[r.pid] = None /\ player' = [player EXCEPT ![r.pid] = r.name]
      \/ player[r.pid] # None /\ player' = player /\ lostRoles' = lostRoles \cup {r.pid}
  BY DEF CreatePlayer
<1>6. /\ \A p \in Pid : player[p] # None => player'[p] = player[p]
      /\ \A p \in Pid \ {r.pid} : player'[p] = player[p]
      /\ player'[r.pid] = r.name \/ r.pid \in lostRoles'
  BY <1>2, <1>5 DEF TypeOK
<1>7. RowFollowed'
  <2> SUFFICES ASSUME NEW s \in roleinfo PROVE RowFollowed!(s)'
    BY <1>1 DEF RowFollowed
  <2>1. s.pid \in Pid /\ s.name # None
    BY PidFacts DEF TypeOK
  <2>2. CASE player[s.pid] = s.name
    BY <1>6, <2>1, <2>2
  <2>3. CASE \E i \in Creating(s.pid) : dbQueue[i].name = s.name
    <3>1. PICK i \in Creating(s.pid) : dbQueue[i].name = s.name
      BY <2>3
    <3>2. i \in DOMAIN dbQueue /\ dbQueue[i].op = "CreatePlayer" /\ dbQueue[i].pid = s.pid
      BY <3>1 DEF Creating
    <3>3. CASE dbQueue[i] = r
      BY <1>6, <3>1, <3>2, <3>3
    <3>4. ASSUME NEW j \in DOMAIN dbQueue', dbQueue'[j] = dbQueue[i] PROVE RowFollowed!(s)'
      <4>1. j \in Creating(s.pid)'
        BY <3>2, <3>4 DEF Creating
      <4> QED
        BY <3>1, <3>4, <4>1
    <3> QED
      BY <1>2, <3>2, <3>3, <3>4 DEF HeadLeaves
  <2>4. CASE \E t \in tries : t.stage = "answered" /\ t.pid = s.pid /\ t.name = s.name
    BY <1>1, <2>4
  <2>5. CASE s.pid \in reverts \cup lostRoles
    BY <1>1, <1>4, <2>5
  <2> QED
    BY <2>2, <2>3, <2>4, <2>5 DEF Rows, RowFollowed
<1>8. IdOnce'
  <2> SUFFICES ASSUME NEW p \in Pid \ twice PROVE IdOnce!(p)'
    BY <1>4 DEF IdOnce
  <2>1. /\ \A i \in Creating(p)' : \E j \in Creating(p) : dbQueue'[i].name = dbQueue[j].name
        /\ Creating(p)' # {} => Creating(p) # {}
    BY <1>2 DEF QueueLeft
  <2>2. \A i, j \in Creating(p) : i = j
    BY DEF Rows, IdOnce
  <2>3. \A i, j \in Creating(p)' : i = j
    BY <1>2, <2>2 DEF QueueLeft
  <2>4. HasRow(p)' <=> HasRow(p)
    BY <1>1 DEF HasRow
  <2>5. CASE p # r.pid
    BY <1>1, <1>6, <2>1, <2>3, <2>4, <2>5 DEF Rows, IdOnce
  <2>6. CASE p = r.pid
    <3>1. Creating(p)' = {}
      <4>1. \A i \in Creating(p)' : i + 1 \in Creating(p) /\ i + 1 # 1
        BY <1>2 DEF Creating
      <4> QED
        BY <1>3, <2>2, <2>6, <4>1
    <3>2. /\ player[p] = None /\ [pid |-> p, name |-> r.name] \in roleinfo
          /\ p \notin reverts /\ \A t \in tries : t.pid # p
      BY <1>2, <1>3, <2>6 DEF Rows, IdOnce
    <3>3. player'[p] = r.name
      BY <1>2, <1>5, <2>6, <3>2 DEF TypeOK
    <3> QED
      BY <1>1, <3>1, <3>2, <3>3 DEF IdOnce
  <2> QED
    BY <2>5, <2>6
<1>9. OfflineComes'
  <2> SUFFICES ASSUME NEW p \in Pid, player'[p] # None \/ Creating(p)' # {}
               PROVE  OfflineComes!(p)'
    BY DEF OfflineComes
  <2>1. player[p] # None \/ Creating(p) # {}
    BY <1>2, <1>3, <1>6 DEF QueueLeft
  <2>2. CASE p \in offline \cup lostRoles
    BY <1>1, <1>4, <2>2
  <2>3. CASE \E i \in DOMAIN dbQueue : dbQueue[i].op = "CreateOffline" /\ dbQueue[i].pid = p
    <3>1. PICK i \in DOMAIN dbQueue : dbQueue[i].op = "CreateOffline" /\ dbQueue[i].pid = p
      BY <2>3
    <3>2. dbQueue[i] # r
      BY <1>1, <3>1
    <3> QED
      BY <1>2, <3>1, <3>2 DEF HeadLeaves
  <2> QED
    BY <2>1, <2>2, <2>3 DEF Rows, OfflineComes
<1> QED
  BY <1>7, <1>8, <1>9 DEF Rows

\* A new id is nowhere yet, unless it was supplied before.
LEMMA GenPlayerIdRows ==
  ASSUME TypeOK, Rows, NEW t \in tries, GenPlayerId(t)
  PROVE  Rows'
<1> DEFINE q == nowPlayerId'
           u == [t EXCEPT !.stage = "supplied", !.pid = q]
<1>1. /\ t.stage = "asked" /\ t \in Tries /\ q \in Pid /\ tries' = (tries \ {t}) \cup {u}
      /\ UNCHANGED <<dbQueue, player, offline, reverts, roleinfo, lostRoles>>
  BY RoleCreateAssumption DEF GenPlayerId, TypeOK, Pid, loginVars, gameDb
<1>2. u.pid = q /\ u.stage = "supplied" /\ t.pid = None /\ None \notin Pid
  BY <1>1, PidFacts, TryFacts DEF Tries
<1>3. \A p \in Pid : Creating(p)' = Creating(p) /\ (HasRow(p)' <=> HasRow(p))
  BY <1>1 DEF Creating, HasRow
<1>4. twice \subseteq twice' /\ (q \notin twice' => ~HasRow(q) /\ \A v \in tries : v.pid # q)
  BY DEF GenPlayerId, HasRow
<1> HIDE DEF u, q
<1>5. RowFollowed'
  <2> SUFFICES ASSUME NEW r \in roleinfo PROVE RowFollowed!(r)'
    BY <1>1 DEF RowFollowed
  <2>1. r.pid \in Pid
    BY DEF TypeOK
  <2>2. \A v \in tries : v.stage = "answered" => v \in tries'
    BY <1>1
  <2> QED
    BY <1>1, <1>3, <2>1, <2>2 DEF Rows, RowFollowed
<1>6. IdOnce'
  <2> SUFFICES ASSUME NEW p \in Pid \ twice' PROVE IdOnce!(p)'
    BY DEF IdOnce
  <2>1. p \notin twice
    BY <1>4
  <2>2. \A v \in tries' : v \in tries \/ v = u
    BY <1>1
  <2>3. CASE p # q
    <3>1. \A v \in tries' : v.pid = p => v \in tries
      BY <1>2, <2>2, <2>3
    <3> QED
      BY <1>1, <1>3, <2>1, <3>1 DEF Rows, IdOnce
  <2>4. CASE p = q
    <3>1. \A v \in tries' : v.pid = p => v = u
      BY <1>4, <2>2, <2>4
    <3>2. ~HasRow(p) /\ \A n : [pid |-> p, name |-> n] \notin roleinfo
      BY <1>4, <2>4 DEF HasRow
    <3>3. p \notin reverts /\ Creating(p) = {} /\ player[p] = None
      <4>1. /\ p \in reverts => HasRow(p)
            /\ \A i \in Creating(p) : [pid |-> p, name |-> dbQueue[i].name] \in roleinfo
            /\ player[p] # None => [pid |-> p, name |-> player[p]] \in roleinfo
        BY <2>1 DEF Rows, IdOnce
      <4> QED
        BY <3>2, <4>1
    <3> QED
      BY <1>1, <1>2, <1>3, <3>1, <3>3 DEF IdOnce
  <2> QED
    BY <2>3, <2>4
<1>7. OfflineComes'
  BY <1>1, <1>3 DEF Rows, OfflineComes
<1> QED
  BY <1>5, <1>6, <1>7 DEF Rows

\* The row that is written belongs to an answer, a refused id to nobody.
LEMMA TryCreateRole2Rows ==
  ASSUME TypeOK, Rows, NEW t \in tries, _TryCreateRole2(t)
  PROVE  Rows'
<1>1. /\ t.stage = "supplied" /\ t \in Tries /\ t.pid \in Pid
      /\ UNCHANGED <<dbQueue, player, offline, reverts, lostRoles, twice>>
  BY TryFacts DEF _TryCreateRole2, TypeOK, loginVars, gameDb, history
<1>2. \A p \in Pid : Creating(p)' = Creating(p)
  BY <1>1 DEF Creating
<1>3. OfflineComes'
  BY <1>1, <1>2 DEF Rows, OfflineComes
<1>4. CASE /\ roleinfo' = roleinfo \cup {[pid |-> t.pid, name |-> t.name]}
           /\ tries' = (tries \ {t}) \cup {[t EXCEPT !.stage = "answered"]}
  <2> DEFINE u == [t EXCEPT !.stage = "answered"]
             s == [pid |-> t.pid, name |-> t.name]
  <2>1. u.pid = t.pid /\ u.name = t.name /\ u.stage = "answered"
    BY <1>1 DEF Tries
  <2>2. /\ roleinfo' = roleinfo \cup {s} /\ tries' = (tries \ {t}) \cup {u}
        /\ s.pid = t.pid /\ s.name = t.name
    BY <1>4
  <2> HIDE DEF u, s
  <2>3. \A p \in Pid : HasRow(p) => HasRow(p)'
    BY <2>2 DEF HasRow
  <2>4. RowFollowed'
    <3>1. \A r \in roleinfo : r.pid \in Pid
      BY DEF TypeOK
    <3>2. \A v \in tries : v.stage = "answered" => v \in tries'
      BY <1>1, <2>2
    <3>3. ASSUME NEW r \in roleinfo PROVE RowFollowed!(r)'
      BY <1>1, <1>2, <3>1, <3>2 DEF Rows, RowFollowed
    <3>4. RowFollowed!(s)'
      BY <2>1, <2>2
    <3> QED
      BY <2>2, <3>3, <3>4 DEF RowFollowed
  <2>5. IdOnce'
    <3> SUFFICES ASSUME NEW p \in Pid \ twice PROVE IdOnce!(p)'
      BY <1>1 DEF IdOnce
    <3>1. CASE p # t.pid
      <4>1. \A v \in tries' : v.pid = p => v \in tries
        BY <2>1, <2>2, <3>1
      <4> QED
        BY <1>1, <1>2, <2>2, <2>3, <4>1 DEF Rows, IdOnce
    <3>2. CASE p = t.pid
      <4>1. \A v \in tries : v.pid = p => v = t
        BY <3>2 DEF Rows, IdOnce
      <4>2. \A v \in tries' : v.pid = p => v = u
        BY <2>2, <4>1
      <4>3. p \notin reverts /\ Creating(p) = {} /\ player[p] = None
        BY <3>2 DEF Rows, IdOnce
      <4>4. [pid |-> p, name |-> u.name] \in roleinfo'
        BY <2>1, <2>2, <3>2 DEF s
      <4> QED
        BY <1>1, <1>2, <4>2, <4>3, <4>4 DEF IdOnce
    <3> QED
      BY <3>1, <3>2
  <2> QED
    BY <1>3, <2>4, <2>5 DEF Rows
<1>5. CASE /\ roleinfo' = roleinfo
           /\ tries' = (tries \ {t}) \cup {[t EXCEPT !.stage = "answered", !.pid = None]}
  <2>1. Quiet
    <3>1. [t EXCEPT !.stage = "answered", !.pid = None].pid \notin Pid
      BY <1>1, PidFacts DEF Tries
    <3>2. \A v \in tries' : v.pid \in Pid => v \in tries
      BY <1>5, <3>1
    <3>3. \A v \in tries : v.stage = "answered" => v \in tries'
      BY <1>1, <1>5
    <3> QED
      BY <1>1, <1>5, <3>2, <3>3, QueueSame DEF Quiet, NoneLeaves
  <2> QED
    BY <2>1, QuietKeeps
<1> QED
  BY <1>4, <1>5 DEF _TryCreateRole2

\* The answer becomes the requests for a player and its offline row, or a
\* rollback.
LEMMA TrueCreateRole2Rows ==
  ASSUME TypeOK, Rows, NEW t \in tries, _TrueCreateRole2(t)
  PROVE  Rows'
<1>1. /\ t.stage = "answered" /\ t.pid \in PidOrNone /\ t.name \in Name /\ tries' = tries \ {t}
      /\ UNCHANGED <<player, offline, roleinfo, lostRoles, twice>>
  BY TryFacts DEF _TrueCreateRole2, Answered, TypeOK, gameDb, history
<1>2. \A p \in Pid : HasRow(p)' <=> HasRow(p)
  BY <1>1 DEF HasRow
<1>3. DeleteName(t.name) \in Requests /\ DeleteName(t.name).op # "CreatePlayer"
  BY <1>1, RequestFacts DEF DeleteName, Req
<1>4. CASE t.pid = None
  <2>1. reverts' = reverts /\ (dbQueue' = dbQueue \/ dbQueue' = Append(dbQueue, DeleteName(t.name)))
    BY <1>4 DEF _TrueCreateRole2
  <2>2. QueueLeft /\ NoneLeaves
    BY <1>3, <2>1, QueueSame, QueueAppended
  <2>3. Quiet
    BY <1>1, <1>4, <2>1, <2>2, PidFacts DEF Quiet, NoneLeaves
  <2> QED
    BY <2>3, QuietKeeps
<1>5. CASE t.pid # None /\ ~Open(t.handle)
  <2> DEFINE q == t.pid
  <2>1. /\ q \in Pid /\ reverts' = reverts \cup {q} /\ dbQueue' = Append(dbQueue, DeleteName(t.name))
    BY <1>1, <1>5 DEF _TrueCreateRole2, PidOrNone
  <2>2. QueueLeft /\ NoneLeaves
    BY <1>3, <2>1, QueueAppended
  <2>3. \A p \in Pid : \A i \in Creating(p) : \E j \in Creating(p)' : dbQueue'[j].name = dbQueue[i].name
    <3> SUFFICES ASSUME NEW p \in Pid, NEW i \in Creating(p)
                 PROVE  \E j \in Creating(p)' : dbQueue'[j].name = dbQueue[i].name
      OBVIOUS
    <3>1. PICK j \in DOMAIN dbQueue' : dbQueue'[j] = dbQueue[i]
      BY <2>2 DEF NoneLeaves, Creating
    <3>2. j \in Creating(p)'
      BY <3>1 DEF Creating
    <3> QED
      BY <3>1, <3>2
  <2>4. RowFollowed'
    <3> SUFFICES ASSUME NEW r \in roleinfo PROVE RowFollowed!(r)'
      BY <1>1 DEF RowFollowed
    <3>1. r.pid \in Pid
      BY DEF TypeOK
    <3>2. CASE \E v \in tries : v.stage = "answered" /\ v.pid = r.pid /\ v.name = r.name
      BY <1>1, <2>1, <3>2
    <3> QED
      BY <1>1, <2>1, <2>3, <3>1, <3>2 DEF Rows, RowFollowed
  <2>5. IdOnce'
    <3> SUFFICES ASSUME NEW p \in Pid \ twice PROVE IdOnce!(p)'
      BY <1>1 DEF IdOnce
    <3>1. /\ \A i \in Creating(p)' : \E j \in Creating(p) : dbQueue'[i].name = dbQueue[j].name
          /\ Creating(p) = {} => Creating(p)' = {}
      BY <2>2 DEF QueueLeft
    <3>2. \A i, j \in Creating(p) : i = j
      BY DEF Rows, IdOnce
    <3>3. \A i, j \in Creating(p)' : i = j
      BY <2>2, <3>2 DEF QueueLeft
    <3>4. CASE p # q
      BY <1>1, <1>2, <2>1, <3>1, <3>3, <3>4 DEF Rows, IdOnce
    <3>5. CASE p = q
      <4>1. /\ \A v \in tries : v.pid = p => v = t
            /\ p \notin reverts /\ Creating(p) = {} /\ player[p] = None /\ HasRow(p)
        <5>1. [pid |-> p, name |-> t.name] \in roleinfo
          BY <1>1, <3>5 DEF Rows, IdOnce
        <5>2. HasRow(p)
          BY <5>1 DEF HasRow
        <5> QED
          BY <1>1, <3>5, <5>2 DEF Rows, IdOnce
      <4> QED
        BY <1>1, <1>2, <3>1, <4>1 DEF IdOnce
    <3> QED
      BY <3>4, <3>5
  <2>6. OfflineComes'
    <3>1. \A p \in Pid : Creating(p) = {} => Creating(p)' = {}
      BY <2>2 DEF QueueLeft
    <3> QED
      BY <1>1, <2>2, <3>1 DEF Rows, OfflineComes, NoneLeaves
  <2> QED
    BY <2>4, <2>5, <2>6 DEF Rows
<1>6. CASE t.pid # None /\ Open(t.handle)
  <2> DEFINE q == t.pid
             x == Req("CreatePlayer", None, t.name, q)
             y == Req("CreateOffline", None, None, q)
             k == Len(dbQueue) + 1
  <2>1. /\ q \in Pid /\ reverts' = reverts /\ dbQueue' = dbQueue \o <<x, y>>
    BY <1>1, <1>6 DEF _TrueCreateRole2, PidOrNone
  <2>2. x \in Requests /\ y \in Requests
    BY <1>1, <2>1, RequestFacts
  <2>3. /\ x.op = "CreatePlayer" /\ x.pid = q /\ x.name = t.name
        /\ y.op = "CreateOffline" /\ y.pid = q
    BY DEF Req
  <2> HIDE DEF x, y
  <2>4. /\ \A i \in DOMAIN dbQueue : i \in DOMAIN dbQueue' /\ dbQueue'[i] = dbQueue[i]
        /\ k \in DOMAIN dbQueue' /\ dbQueue'[k] = x /\ k \notin DOMAIN dbQueue
        /\ \E i \in DOMAIN dbQueue' : dbQueue'[i] = y
        /\ \A i \in DOMAIN dbQueue' : i \in DOMAIN dbQueue \/ i = k \/ dbQueue'[i] = y
    <3>1. dbQueue' = Append(Append(dbQueue, x), y)
      BY <2>1, <2>2, AppendTwo DEF TypeOK
    <3>2. Append(dbQueue, x) \in Seq(Requests)
      BY <2>2, AppendFacts DEF TypeOK
    <3> DEFINE s == Append(dbQueue, x)
    <3>3. /\ \A i \in DOMAIN dbQueue : i \in DOMAIN s /\ s[i] = dbQueue[i]
          /\ k \in DOMAIN s /\ s[k] = x /\ k \notin DOMAIN dbQueue
          /\ DOMAIN s = DOMAIN dbQueue \cup {k}
      BY <2>2, AppendFacts DEF TypeOK
    <3> HIDE DEF s, k
    <3>4. /\ \A i \in DOMAIN s : i \in DOMAIN dbQueue' /\ dbQueue'[i] = s[i]
          /\ Len(s) + 1 \in DOMAIN dbQueue' /\ dbQueue'[Len(s) + 1] = y
          /\ DOMAIN dbQueue' = DOMAIN s \cup {Len(s) + 1}
      BY <2>2, <3>1, <3>2, AppendFacts DEF s
    <3> QED
      BY <3>3, <3>4
  <2>5. \A p \in Pid \ {q} : \A i \in Creating(p)' : i \in Creating(p) /\ dbQueue'[i] = dbQueue[i]
    BY <2>3, <2>4 DEF Creating
  <2>6. \A i \in Creating(q)' : i = k \/ i \in Creating(q)
    BY <2>3, <2>4 DEF Creating
  <2>7. k \in Creating(q)' /\ dbQueue'[k].name = t.name
    BY <2>3, <2>4 DEF Creating
  <2>8. \A p \in Pid : \A i \in Creating(p) : i \in Creating(p)' /\ dbQueue'[i] = dbQueue[i]
    BY <2>4 DEF Creating
  <2>9. RowFollowed'
    <3> SUFFICES ASSUME NEW r \in roleinfo PROVE RowFollowed!(r)'
      BY <1>1 DEF RowFollowed
    <3>1. r.pid \in Pid
      BY DEF TypeOK
    <3>2. CASE \E v \in tries : v.stage = "answered" /\ v.pid = r.pid /\ v.name = r.name
      BY <1>1, <2>7, <3>2
    <3> QED
      BY <1>1, <2>1, <2>8, <3>1, <3>2 DEF Rows, RowFollowed
  <2>10. IdOnce'
    <3> SUFFICES ASSUME NEW p \in Pid \ twice PROVE IdOnce!(p)'
      BY <1>1 DEF IdOnce
    <3>1. CASE p # q
      <4>1. \A i \in Creating(p)' : i \in Creating(p) /\ dbQueue'[i] = dbQueue[i]
        BY <2>5, <3>1
      <4>2. Creating(p) = {} => Creating(p)' = {}
        BY <4>1
      <4> QED
        BY <1>1, <1>2, <2>1, <4>1, <4>2 DEF Rows, IdOnce
    <3>2. CASE p = q
      <4>1. /\ \A v \in tries : v.pid = p => v = t
            /\ p \notin reverts /\ Creating(p) = {} /\ player[p] = None
            /\ [pid |-> p, name |-> t.name] \in roleinfo
        BY <1>1, <3>2 DEF Rows, IdOnce
      <4>2. \A i \in Creating(p)' : i = k
        BY <2>6, <3>2, <4>1
      <4>3. \A v \in tries' : v.pid # p
        BY <1>1, <4>1
      <4> QED
        BY <1>1, <2>1, <2>7, <4>1, <4>2, <4>3 DEF IdOnce
    <3> QED
      BY <3>1, <3>2
  <2>11. OfflineComes'
    <3> SUFFICES ASSUME NEW p \in Pid, player[p] # None \/ Creating(p)' # {}
                 PROVE  OfflineComes!(p)'
      BY <1>1 DEF OfflineComes
    <3>1. CASE p = q
      BY <2>3, <2>4, <3>1
    <3>2. CASE p # q
      <4>1. player[p] # None \/ Creating(p) # {}
        BY <2>5, <3>2
      <4> QED
        BY <1>1, <2>4, <4>1 DEF Rows, OfflineComes
    <3> QED
      BY <3>1, <3>2
  <2> QED
    BY <2>9, <2>10, <2>11 DEF Rows
<1> QED
  BY <1>4, <1>5, <1>6

\* A rollback takes the rows of an id that nothing else has.
LEMMA RevertRoleRows ==
  ASSUME TypeOK, Rows, NEW p \in Pid, RevertRole(p)
  PROVE  Rows'
<1>1. /\ p \in reverts /\ reverts' = reverts \ {p} /\ roleinfo' = {r \in roleinfo : r.pid # p}
      /\ UNCHANGED <<dbQueue, tries, player, offline, lostRoles, twice>>
  BY DEF RevertRole, loginVars, gameDb, history
<1>2. \A q \in Pid : Creating(q)' = Creating(q)
  BY <1>1 DEF Creating
<1>3. RowFollowed'
  <2>1. \A r \in roleinfo' : r \in roleinfo /\ r.pid # p /\ r.pid \in Pid
    BY <1>1 DEF TypeOK
  <2> QED
    BY <1>1, <1>2, <2>1 DEF Rows, RowFollowed
<1>4. IdOnce'
  <2> SUFFICES ASSUME NEW q \in Pid \ twice PROVE IdOnce!(q)'
    BY <1>1 DEF IdOnce
  <2>1. CASE q # p
    <3>1. /\ HasRow(q)' <=> HasRow(q)
          /\ \A n : [pid |-> q, name |-> n] \in roleinfo => [pid |-> q, name |-> n] \in roleinfo'
      BY <1>1, <2>1 DEF HasRow
    <3> QED
      BY <1>1, <1>2, <2>1, <3>1 DEF Rows, IdOnce
  <2>2. CASE q = p
    <3>1. Creating(q) = {} /\ player[q] = None /\ \A t \in tries : t.pid # q
      BY <1>1, <2>2 DEF Rows, IdOnce
    <3> QED
      BY <1>1, <1>2, <2>2, <3>1 DEF IdOnce
  <2> QED
    BY <2>1, <2>2
<1>5. OfflineComes'
  BY <1>1, <1>2 DEF Rows, OfflineComes
<1> QED
  BY <1>3, <1>4, <1>5 DEF Rows

\* A restart of the game server notes the ids whose requests it forgets.
LEMMA RestartGSRows ==
  ASSUME TypeOK, Rows, RestartGS
  PROVE  Rows'
<1>1. /\ dbQueue' = <<>> /\ tries' = {[t EXCEPT !.handle = None] : t \in tries}
      /\ lostRoles' = lostRoles \cup {r.pid : r \in Queued("CreatePlayer") \cup Queued("CreateOffline")}
      /\ UNCHANGED <<player, offline, reverts, roleinfo, twice>>
  BY DEF RestartGS, gameDb
<1>2. \A p \in Pid : Creating(p)' = {}
  BY <1>1 DEF Creating
<1>3. \A i \in DOMAIN dbQueue : dbQueue[i].op \in {"CreatePlayer", "CreateOffline"} =>
        dbQueue[i].pid \in lostRoles'
  BY <1>1 DEF Queued
<1>4. \A t \in Tries :
        /\ [t EXCEPT !.handle = None].stage = t.stage
        /\ [t EXCEPT !.handle = None].pid = t.pid
        /\ [t EXCEPT !.handle = None].name = t.name
  BY DEF Tries
<1>5. /\ \A t \in tries : \E u \in tries' : u.stage = t.stage /\ u.pid = t.pid /\ u.name = t.name
      /\ \A u \in tries' : \E t \in tries : u = [t EXCEPT !.handle = None]
                             /\ u.stage = t.stage /\ u.pid = t.pid /\ u.name = t.name
  <2>1. \A t \in tries : [t EXCEPT !.handle = None] \in tries'
    BY <1>1
  <2>2. \A u \in tries' : \E t \in tries : u = [t EXCEPT !.handle = None]
    BY <1>1
  <2>3. \A t \in tries : t \in Tries
    BY DEF TypeOK
  <2>4. ASSUME NEW t \in tries
        PROVE  \E u \in tries' : u.stage = t.stage /\ u.pid = t.pid /\ u.name = t.name
    <3> DEFINE u == [t EXCEPT !.handle = None]
    <3>1. u \in tries' /\ u.stage = t.stage /\ u.pid = t.pid /\ u.name = t.name
      BY <1>4, <2>1, <2>3
    <3> HIDE DEF u
    <3> QED
      BY <3>1
  <2>5. ASSUME NEW u \in tries'
        PROVE  \E t \in tries : u = [t EXCEPT !.handle = None]
                 /\ u.stage = t.stage /\ u.pid = t.pid /\ u.name = t.name
    <3>1. PICK t \in tries : u = [t EXCEPT !.handle = None]
      BY <2>2
    <3>2. u.stage = t.stage /\ u.pid = t.pid /\ u.name = t.name
      BY <1>4, <2>3, <3>1
    <3> QED
      BY <3>1, <3>2
  <2> QED
    BY <2>4, <2>5
<1>6. RowFollowed'
  <2> SUFFICES ASSUME NEW r \in roleinfo PROVE RowFollowed!(r)'
    BY <1>1 DEF RowFollowed
  <2>1. CASE \E i \in Creating(r.pid) : dbQueue[i].name = r.name
    BY <1>3, <2>1 DEF Creating
  <2>2. CASE \E t \in tries : t.stage = "answered" /\ t.pid = r.pid /\ t.name = r.name
    BY <1>5, <2>2
  <2> QED
    BY <1>1, <2>1, <2>2 DEF Rows, RowFollowed
<1>7. IdOnce'
  <2> SUFFICES ASSUME NEW p \in Pid \ twice PROVE IdOnce!(p)'
    BY <1>1 DEF IdOnce
  <2>1. HasRow(p)' <=> HasRow(p)
    BY <1>1 DEF HasRow
  <2>2. \A t, u \in tries' : t.pid = p /\ u.pid = p => t = u
    <3> SUFFICES ASSUME NEW v \in tries', NEW w \in tries', v.pid = p, w.pid = p PROVE v = w
      OBVIOUS
    <3>1. PICK t \in tries : v = [t EXCEPT !.handle = None] /\ v.pid = t.pid
      BY <1>5
    <3>2. PICK u \in tries : w = [u EXCEPT !.handle = None] /\ w.pid = u.pid
      BY <1>5
    <3>3. t = u
      BY <3>1, <3>2 DEF Rows, IdOnce
    <3> QED
      BY <3>1, <3>2, <3>3
  <2>3. \A u \in tries' : u.pid = p => \E t \in tries : t.pid = p /\ t.stage = u.stage /\ t.name = u.name
    BY <1>5
  <2> QED
    BY <1>1, <1>2, <2>1, <2>2, <2>3 DEF Rows, IdOnce
<1>8. OfflineComes'
  BY <1>1, <1>2, <1>3 DEF Rows, OfflineComes
<1> QED
  BY <1>6, <1>7, <1>8 DEF Rows

\* Every step keeps what the rows of a role say of each other.
LEMMA RowsStep == TypeOK /\ Rows /\ [Next]_vars => Rows'
<1> SUFFICES ASSUME TypeOK, Rows, [Next]_vars PROVE Rows'
  OBVIOUS
<1>1. CASE UNCHANGED vars
  BY <1>1 DEF vars, loginVars, gameDb, history, Rows, RowFollowed, IdOnce, OfflineComes, Creating, HasRow
<1> QED
  BY <1>1, QuietSteps, CreatePlayerRows, GenPlayerIdRows, TryCreateRole2Rows, TrueCreateRole2Rows,
     RevertRoleRows, RestartGSRows DEF Next, GameDbStep

-----------------------------------------------------------------------------
(* The claims on a name and the creations of a socket, counted.              *)

In(x, S) == IF x \in S THEN 1 ELSE 0

Entered(n) == {a \in Answers : a.op = "InsertNewNameCounter" /\ a.result = TRUE /\ a.name = n}
Using(n) == {r \in Requests : r.op \in {"DeleteName", "CreatePlayer"} /\ r.name = n}
RolesOf(n) == {p \in Roles : player[p] = n}
TriesOf(n) == {t \in tries : t.handle # None /\ t.name = n}

Inserting(h) == {r \in Requests : r.op = "InsertNewNameCounter" /\ r.handle = h}
Inserted(h) == {a \in Answers : a.op = "InsertNewNameCounter" /\ a.handle = h}
TriesBy(h) == {t \in tries : t.handle = h}

R(n) == Cardinality(RolesOf(n))
T(n) == Cardinality(TriesOf(n))
M(n) == Count(dbMail, Entered(n))
Q(n) == Count(dbQueue, Using(n))
TB(h) == Cardinality(TriesBy(h))
MB(h) == Count(dbMail, Inserted(h))
QB(h) == Count(dbQueue, Inserting(h))

\* A name is in a set once or not at all.
LEMMA InIs ==
  ASSUME NEW x, NEW S
  PROVE  Cardinality({x} \cap S) = In(x, S)
<1>1. CASE x \in S
  <2>1. {x} \cap S = {x}
    BY <1>1
  <2> QED
    BY <1>1, <2>1, FS_Singleton DEF In
<1>2. CASE x \notin S
  <2>1. {x} \cap S = {}
    BY <1>2
  <2> QED
    BY <1>2, <2>1, FS_EmptySet DEF In
<1> QED
  BY <1>1, <1>2

\* The counts are natural numbers, and what Claims and Creations add up,
CountsHold ==
  /\ \A n \in Name :
       /\ R(n) \in Nat /\ T(n) \in Nat /\ M(n) \in Nat /\ Q(n) \in Nat
       /\ IsFiniteSet(RolesOf(n)) /\ IsFiniteSet(TriesOf(n))
       /\ Claims(n) = R(n) + T(n) + M(n) + Q(n) + In(n, lostNames)
  /\ \A h \in Handle :
       /\ TB(h) \in Nat /\ MB(h) \in Nat /\ QB(h) \in Nat
       /\ IsFiniteSet(TriesBy(h))
       /\ Creations(h) = QB(h) + MB(h) + TB(h) + In(h, stuck)

LEMMA Counts == TypeOK /\ IsFiniteSet(tries) => CountsHold
<1> SUFFICES ASSUME TypeOK, IsFiniteSet(tries) PROVE CountsHold
  OBVIOUS
<1>1. /\ \A i \in DOMAIN dbQueue : dbQueue[i] \in Requests
      /\ \A i \in DOMAIN dbMail : dbMail[i] \in Answers
      /\ dbQueue \in Seq(Requests) /\ dbMail \in Seq(Answers)
  BY DEF TypeOK
<1>2. ASSUME NEW n \in Name
      PROVE  /\ R(n) \in Nat /\ T(n) \in Nat /\ M(n) \in Nat /\ Q(n) \in Nat
             /\ IsFiniteSet(RolesOf(n)) /\ IsFiniteSet(TriesOf(n))
             /\ Claims(n) = R(n) + T(n) + M(n) + Q(n) + In(n, lostNames)
  <2>1. M(n) \in Nat /\ Q(n) \in Nat
    BY <1>1, CountNat DEF M, Q
  <2>2. RolesOf(n) \in SUBSET Roles /\ TriesOf(n) \in SUBSET tries
    BY DEF RolesOf, TriesOf
  <2>3. IsFiniteSet(RolesOf(n)) /\ IsFiniteSet(TriesOf(n))
    BY <2>2, RolesFinite, FS_Subset
  <2>4. R(n) \in Nat /\ T(n) \in Nat
    BY <2>3, FS_CardinalityType DEF R, T
  <2>5. {i \in DOMAIN dbMail : dbMail[i] \in Entered(n)} =
          {i \in DOMAIN dbMail : /\ dbMail[i].op = "InsertNewNameCounter"
                                 /\ dbMail[i].result /\ dbMail[i].name = n}
    <3>1. \A a \in Answers :
            a \in Entered(n) <=> a.op = "InsertNewNameCounter" /\ a.result /\ a.name = n
      BY AnswerFacts DEF Entered
    <3> QED
      BY <1>1, <3>1
  <2>6. {i \in DOMAIN dbQueue : dbQueue[i] \in Using(n)} =
          {i \in DOMAIN dbQueue : /\ dbQueue[i].op \in {"DeleteName", "CreatePlayer"}
                                  /\ dbQueue[i].name = n}
    BY <1>1 DEF Using
  <2> QED
    BY <2>1, <2>3, <2>4, <2>5, <2>6, InIs DEF Claims, R, T, M, Q, Count, RolesOf, TriesOf
<1>3. ASSUME NEW h \in Handle
      PROVE  /\ TB(h) \in Nat /\ MB(h) \in Nat /\ QB(h) \in Nat
             /\ IsFiniteSet(TriesBy(h))
             /\ Creations(h) = QB(h) + MB(h) + TB(h) + In(h, stuck)
  <2>1. MB(h) \in Nat /\ QB(h) \in Nat
    BY <1>1, CountNat DEF MB, QB
  <2>2. TriesBy(h) \in SUBSET tries
    BY DEF TriesBy
  <2>3. IsFiniteSet(TriesBy(h)) /\ TB(h) \in Nat
    BY <2>2, FS_Subset, FS_CardinalityType DEF TB
  <2>4. {i \in DOMAIN dbMail : dbMail[i] \in Inserted(h)} =
          {i \in DOMAIN dbMail : dbMail[i].op = "InsertNewNameCounter" /\ dbMail[i].handle = h}
    BY <1>1 DEF Inserted
  <2>5. {i \in DOMAIN dbQueue : dbQueue[i] \in Inserting(h)} =
          {i \in DOMAIN dbQueue : dbQueue[i].op = "InsertNewNameCounter" /\ dbQueue[i].handle = h}
    BY <1>1 DEF Inserting
  <2> QED
    BY <2>1, <2>3, <2>4, <2>5, InIs DEF Creations, TB, MB, QB, Count, TriesBy
<1> QED
  BY <1>2, <1>3 DEF CountsHold

\* also after a step.
LEMMA CountsNext == TypeOK' /\ IsFiniteSet(tries)' => CountsHold'
BY Counts, PTL

\* A name balances, and a socket does: the invariants in these counts.
NameBalance(n) == R(n) + T(n) + M(n) + Q(n) + In(n, lostNames) = In(n, namecounter)
SocketBalance(h) ==
  status[h] # "closed" =>
    QB(h) + MB(h) + TB(h) + In(h, stuck) = (IF status[h] = "in_create_role" THEN 1 ELSE 0)

Balances == (\A n \in Name : NameBalance(n)) /\ (\A h \in Handle : SocketBalance(h))

LEMMA Balanced ==
  TypeOK /\ IsFiniteSet(tries) =>
    (NameClaimedOnce /\ OneCreationPerSocket /\ NothingBefore <=> Balances)
<1> SUFFICES ASSUME TypeOK, IsFiniteSet(tries)
             PROVE  NameClaimedOnce /\ OneCreationPerSocket /\ NothingBefore <=> Balances
  OBVIOUS
<1>1. NameClaimedOnce <=> \A n \in Name : NameBalance(n)
  BY Counts, InIs DEF CountsHold, NameClaimedOnce, NameBalance
<1>2. \A h \in Handle : /\ Open(h) <=> status[h] \in {"login_account", "in_create_role"}
                        /\ status[h] \in {"new", "login_account", "in_create_role", "closed"}
  BY DEF TypeOK, Open
<1>3. OneCreationPerSocket /\ NothingBefore <=> \A h \in Handle : SocketBalance(h)
  BY <1>2, Counts DEF CountsHold, OneCreationPerSocket, NothingBefore, SocketBalance
<1> QED
  BY <1>1, <1>3 DEF Balances

Typed == TypeOK /\ IsFiniteSet(tries)

\* What a request, and an answer, counts for.
LEMMA CountedFor ==
  /\ \A r \in Requests : \A n \in Name :
       r \in Using(n) <=> r.op \in {"DeleteName", "CreatePlayer"} /\ r.name = n
  /\ \A r \in Requests : \A h \in Handle :
       r \in Inserting(h) <=> r.op = "InsertNewNameCounter" /\ r.handle = h
  /\ \A a \in Answers : \A n \in Name :
       a \in Entered(n) <=> a.op = "InsertNewNameCounter" /\ a.result = TRUE /\ a.name = n
  /\ \A a \in Answers : \A h \in Handle :
       a \in Inserted(h) <=> a.op = "InsertNewNameCounter" /\ a.handle = h
BY DEF Using, Inserting, Entered, Inserted

\* The counts of requests when one is served,
LEMMA ServedCounts ==
  ASSUME Typed, dbQueue # <<>>, dbQueue' = Tail(dbQueue)
  PROVE  /\ Head(dbQueue) \in Requests
         /\ \A n \in Name : Q(n) = Q(n)' +
              (IF Head(dbQueue).op \in {"DeleteName", "CreatePlayer"} /\ Head(dbQueue).name = n THEN 1 ELSE 0)
         /\ \A h \in Handle : QB(h) = QB(h)' +
              (IF Head(dbQueue).op = "InsertNewNameCounter" /\ Head(dbQueue).handle = h THEN 1 ELSE 0)
<1>1. Head(dbQueue) \in Requests /\ dbQueue \in Seq(Requests)
  BY TailFacts DEF Typed, TypeOK
<1>2. \A X : Count(dbQueue, X) = Count(dbQueue', X) + (IF Head(dbQueue) \in X THEN 1 ELSE 0)
  BY <1>1, CountTail
<1> QED
  BY <1>1, <1>2, CountedFor DEF Q, QB

\* or asked for,
LEMMA AskedCounts ==
  ASSUME Typed, NEW x \in Requests, dbQueue' = Append(dbQueue, x)
  PROVE  /\ \A n \in Name : Q(n)' = Q(n) +
              (IF x.op \in {"DeleteName", "CreatePlayer"} /\ x.name = n THEN 1 ELSE 0)
         /\ \A h \in Handle : QB(h)' = QB(h) +
              (IF x.op = "InsertNewNameCounter" /\ x.handle = h THEN 1 ELSE 0)
<1>1. \A X : Count(dbQueue', X) = Count(dbQueue, X) + (IF x \in X THEN 1 ELSE 0)
  BY CountAppend DEF Typed, TypeOK
<1> QED
  BY <1>1, CountedFor DEF Q, QB

\* and of answers when one is taken,
LEMMA TakenCounts ==
  ASSUME Typed, dbMail # <<>>, dbMail' = Tail(dbMail)
  PROVE  /\ Head(dbMail) \in Answers
         /\ \A n \in Name : M(n) = M(n)' +
              (IF Head(dbMail).op = "InsertNewNameCounter" /\ Head(dbMail).result = TRUE
                  /\ Head(dbMail).name = n THEN 1 ELSE 0)
         /\ \A h \in Handle : MB(h) = MB(h)' +
              (IF Head(dbMail).op = "InsertNewNameCounter" /\ Head(dbMail).handle = h THEN 1 ELSE 0)
<1>1. Head(dbMail) \in Answers /\ dbMail \in Seq(Answers)
  BY TailFacts DEF Typed, TypeOK
<1>2. \A X : Count(dbMail, X) = Count(dbMail', X) + (IF Head(dbMail) \in X THEN 1 ELSE 0)
  BY <1>1, CountTail
<1> QED
  BY <1>1, <1>2, CountedFor DEF M, MB

\* or sent.
LEMMA SentCounts ==
  ASSUME Typed, NEW a \in Answers, dbMail' = Append(dbMail, a)
  PROVE  /\ \A n \in Name : M(n)' = M(n) +
              (IF a.op = "InsertNewNameCounter" /\ a.result = TRUE /\ a.name = n THEN 1 ELSE 0)
         /\ \A h \in Handle : MB(h)' = MB(h) +
              (IF a.op = "InsertNewNameCounter" /\ a.handle = h THEN 1 ELSE 0)
<1>1. \A X : Count(dbMail', X) = Count(dbMail, X) + (IF a \in X THEN 1 ELSE 0)
  BY CountAppend DEF Typed, TypeOK
<1> QED
  BY <1>1, CountedFor DEF M, MB

\* What stays counts as before.
LEMMA SameCounts ==
  /\ dbQueue' = dbQueue => (\A n \in Name : Q(n)' = Q(n)) /\ (\A h \in Handle : QB(h)' = QB(h))
  /\ dbMail' = dbMail => (\A n \in Name : M(n)' = M(n)) /\ (\A h \in Handle : MB(h)' = MB(h))
  /\ tries' = tries => (\A n \in Name : T(n)' = T(n)) /\ (\A h \in Handle : TB(h)' = TB(h))
  /\ player' = player => \A n \in Name : R(n)' = R(n)
BY DEF Q, QB, M, MB, T, TB, R, TriesOf, TriesBy, RolesOf, Roles

\* A try counts for its name and its socket when it begins,
LEMMA TryAdded ==
  ASSUME Typed, NEW t \in Tries, t.handle # None, tries' = tries \cup {t},
         T(t.name) = 0 \/ TB(t.handle) = 0
  PROVE  /\ \A n \in Name : T(n)' = T(n) + (IF n = t.name THEN 1 ELSE 0)
         /\ \A h \in Handle : TB(h)' = TB(h) + (IF h = t.handle THEN 1 ELSE 0)
<1>1. CountsHold /\ t.name \in Name /\ t.handle \in Handle
  BY Counts, TryFacts DEF Typed, HandleOrNone
<1>2. t \notin tries
  <2>1. t \in tries => TriesOf(t.name) # {} /\ TriesBy(t.handle) # {}
    BY DEF TriesOf, TriesBy
  <2> QED
    BY <1>1, <2>1, FS_EmptySet DEF CountsHold, T, TB
<1>3. ASSUME NEW n \in Name PROVE T(n)' = T(n) + (IF n = t.name THEN 1 ELSE 0)
  <2>1. IsFiniteSet(TriesOf(n)) /\ Cardinality(TriesOf(n)) = T(n) /\ T(n) \in Nat
    BY <1>1 DEF CountsHold, T
  <2>2. CASE n = t.name
    <3>1. TriesOf(n)' = TriesOf(n) \cup {t} /\ t \notin TriesOf(n)
      BY <1>2, <2>2 DEF TriesOf
    <3>2. Cardinality(TriesOf(n) \cup {t}) = Cardinality(TriesOf(n)) + 1
      BY <2>1, <3>1, FS_AddElement
    <3> QED
      BY <2>1, <2>2, <3>1, <3>2 DEF T
  <2>3. CASE n # t.name
    <3>1. TriesOf(n)' = TriesOf(n)
      BY <2>3 DEF TriesOf
    <3> QED
      BY <2>1, <2>3, <3>1 DEF T
  <2> QED
    BY <2>2, <2>3
<1>4. ASSUME NEW h \in Handle PROVE TB(h)' = TB(h) + (IF h = t.handle THEN 1 ELSE 0)
  <2>1. IsFiniteSet(TriesBy(h)) /\ Cardinality(TriesBy(h)) = TB(h) /\ TB(h) \in Nat
    BY <1>1 DEF CountsHold, TB
  <2>2. CASE h = t.handle
    <3>1. TriesBy(h)' = TriesBy(h) \cup {t} /\ t \notin TriesBy(h)
      BY <1>2, <2>2 DEF TriesBy
    <3>2. Cardinality(TriesBy(h) \cup {t}) = Cardinality(TriesBy(h)) + 1
      BY <2>1, <3>1, FS_AddElement
    <3> QED
      BY <2>1, <2>2, <3>1, <3>2 DEF TB
  <2>3. CASE h # t.handle
    <3>1. TriesBy(h)' = TriesBy(h)
      BY <2>3 DEF TriesBy
    <3> QED
      BY <2>1, <2>3, <3>1 DEF TB
  <2> QED
    BY <2>2, <2>3
<1> QED
  BY <1>3, <1>4

\* no more when it ends,
LEMMA TryRemoved ==
  ASSUME Typed, NEW t \in tries, tries' = tries \ {t}
  PROVE  /\ \A n \in Name : T(n) = T(n)' + (IF t.handle # None /\ n = t.name THEN 1 ELSE 0)
         /\ \A h \in Handle : TB(h) = TB(h)' + (IF h = t.handle THEN 1 ELSE 0)
<1>1. CountsHold
  BY Counts DEF Typed
<1>3. ASSUME NEW n \in Name
      PROVE  T(n) = T(n)' + (IF t.handle # None /\ n = t.name THEN 1 ELSE 0)
  <2>1. IsFiniteSet(TriesOf(n)) /\ Cardinality(TriesOf(n)) = T(n) /\ T(n) \in Nat
    BY <1>1 DEF CountsHold, T
  <2>2. TriesOf(n)' = TriesOf(n) \ {t}
    BY DEF TriesOf
  <2>3. T(n)' = IF t \in TriesOf(n) THEN T(n) - 1 ELSE T(n)
    BY <2>1, <2>2, FS_RemoveElement DEF T
  <2>4. t \in TriesOf(n) <=> t.handle # None /\ n = t.name
    BY DEF TriesOf
  <2>5. CASE t \in TriesOf(n)
    BY <2>1, <2>3, <2>4, <2>5
  <2>6. CASE t \notin TriesOf(n)
    BY <2>1, <2>3, <2>4, <2>6
  <2> QED
    BY <2>5, <2>6
<1>4. ASSUME NEW h \in Handle PROVE TB(h) = TB(h)' + (IF h = t.handle THEN 1 ELSE 0)
  <2>1. IsFiniteSet(TriesBy(h)) /\ Cardinality(TriesBy(h)) = TB(h) /\ TB(h) \in Nat
    BY <1>1 DEF CountsHold, TB
  <2>2. TriesBy(h)' = TriesBy(h) \ {t}
    BY DEF TriesBy
  <2>3. TB(h)' = IF t \in TriesBy(h) THEN TB(h) - 1 ELSE TB(h)
    BY <2>1, <2>2, FS_RemoveElement DEF TB
  <2>4. t \in TriesBy(h) <=> h = t.handle
    BY DEF TriesBy
  <2>5. CASE t \in TriesBy(h)
    BY <2>1, <2>3, <2>4, <2>5
  <2>6. CASE t \notin TriesBy(h)
    BY <2>1, <2>3, <2>4, <2>6
  <2> QED
    BY <2>5, <2>6
<1> QED
  BY <1>3, <1>4

\* A finite set with at most one element has none but the one it has.
LEMMA AtMostOne ==
  ASSUME NEW S, IsFiniteSet(S), Cardinality(S) \in {0, 1}, NEW x \in S
  PROVE  S = {x}
BY FS_EmptySet, FS_Singleton

\* and as before on its way.
LEMMA TryMoved ==
  ASSUME Typed, NEW t \in tries, NEW u, u.handle = t.handle, u.name = t.name,
         tries' = (tries \ {t}) \cup {u}
  PROVE  /\ \A n \in Name : T(n) \in {0, 1} => T(n)' = T(n)
         /\ \A h \in Handle : TB(h) \in {0, 1} => TB(h)' = TB(h)
<1>1. CountsHold
  BY Counts DEF Typed
<1>2. ASSUME NEW n \in Name, T(n) \in {0, 1} PROVE T(n)' = T(n)
  <2>1. CASE t \in TriesOf(n)
    <3>1. TriesOf(n) = {t}
      BY <1>1, <1>2, <2>1, AtMostOne DEF CountsHold, T
    <3>2. TriesOf(n)' = {u}
      BY <2>1, <3>1 DEF TriesOf
    <3> QED
      BY <3>1, <3>2, FS_Singleton DEF T
  <2>2. CASE t \notin TriesOf(n)
    <3>1. TriesOf(n)' = TriesOf(n)
      BY <2>2 DEF TriesOf
    <3> QED
      BY <3>1 DEF T
  <2> QED
    BY <2>1, <2>2
<1>3. ASSUME NEW h \in Handle, TB(h) \in {0, 1} PROVE TB(h)' = TB(h)
  <2>1. CASE t \in TriesBy(h)
    <3>1. TriesBy(h) = {t}
      BY <1>1, <1>3, <2>1, AtMostOne DEF CountsHold, TB
    <3>2. TriesBy(h)' = {u}
      BY <2>1, <3>1 DEF TriesBy
    <3> QED
      BY <3>1, <3>2, FS_Singleton DEF TB
  <2>2. CASE t \notin TriesBy(h)
    <3>1. TriesBy(h)' = TriesBy(h)
      BY <2>2 DEF TriesBy
    <3> QED
      BY <3>1 DEF TB
  <2> QED
    BY <2>1, <2>2
<1> QED
  BY <1>2, <1>3

-----------------------------------------------------------------------------
\* The counts before and after a step.
LEMMA Sums ==
  ASSUME Typed, Typed', Balances
  PROVE  /\ \A n \in Name :
              /\ R(n) \in Nat /\ T(n) \in Nat /\ M(n) \in Nat /\ Q(n) \in Nat
              /\ R(n)' \in Nat /\ T(n)' \in Nat /\ M(n)' \in Nat /\ Q(n)' \in Nat
              /\ R(n) + T(n) + M(n) + Q(n) + In(n, lostNames) = In(n, namecounter)
              /\ T(n) \in {0, 1}
         /\ \A h \in Handle :
              /\ TB(h) \in Nat /\ MB(h) \in Nat /\ QB(h) \in Nat
              /\ TB(h)' \in Nat /\ MB(h)' \in Nat /\ QB(h)' \in Nat
              /\ status[h] # "closed" =>
                   /\ QB(h) + MB(h) + TB(h) + In(h, stuck) = (IF status[h] = "in_create_role" THEN 1 ELSE 0)
                   /\ TB(h) \in {0, 1}
<1>1. CountsHold /\ CountsHold'
  BY Counts, CountsNext DEF Typed
<1>2. ASSUME NEW n \in Name
      PROVE  /\ R(n) \in Nat /\ T(n) \in Nat /\ M(n) \in Nat /\ Q(n) \in Nat
             /\ R(n)' \in Nat /\ T(n)' \in Nat /\ M(n)' \in Nat /\ Q(n)' \in Nat
             /\ R(n) + T(n) + M(n) + Q(n) + In(n, lostNames) = In(n, namecounter)
    BY <1>1 DEF CountsHold, Balances, NameBalance
<1>3. ASSUME NEW n \in Name PROVE T(n) \in {0, 1}
  <2>1. In(n, lostNames) \in {0, 1} /\ In(n, namecounter) \in {0, 1}
    BY DEF In
  <2>2. /\ R(n) \in Nat /\ T(n) \in Nat /\ M(n) \in Nat /\ Q(n) \in Nat
        /\ R(n) + T(n) + M(n) + Q(n) + In(n, lostNames) = In(n, namecounter)
    BY <1>2
  <2> QED
    BY <2>1, <2>2
<1>4. ASSUME NEW h \in Handle
      PROVE  /\ TB(h) \in Nat /\ MB(h) \in Nat /\ QB(h) \in Nat
             /\ TB(h)' \in Nat /\ MB(h)' \in Nat /\ QB(h)' \in Nat
             /\ status[h] # "closed" =>
                  QB(h) + MB(h) + TB(h) + In(h, stuck) = (IF status[h] = "in_create_role" THEN 1 ELSE 0)
  BY <1>1 DEF CountsHold, Balances, SocketBalance
<1>5. ASSUME NEW h \in Handle, status[h] # "closed" PROVE TB(h) \in {0, 1}
  <2>1. In(h, stuck) \in {0, 1}
    BY DEF In
  <2>2. /\ TB(h) \in Nat /\ MB(h) \in Nat /\ QB(h) \in Nat
        /\ QB(h) + MB(h) + TB(h) + In(h, stuck) = (IF status[h] = "in_create_role" THEN 1 ELSE 0)
    BY <1>4, <1>5
  <2> QED
    BY <2>1, <2>2
<1> QED
  BY <1>2, <1>3, <1>4, <1>5

\* The counts of queue and mail are numbers before and after a step.
LEMMA QueueNats ==
  ASSUME Typed, Typed', Balances
  PROVE  /\ \A n \in Name : Q(n) \in Nat /\ Q(n)' \in Nat /\ M(n) \in Nat /\ M(n)' \in Nat
         /\ \A h \in Handle : QB(h) \in Nat /\ QB(h)' \in Nat /\ MB(h) \in Nat /\ MB(h)' \in Nat
BY Sums

\* Requests and answers that claim nothing.
LEMMA NoClaims ==
  ASSUME Typed, Typed', Balances
  PROVE  /\ \A x \in Requests :
              dbQueue' = Append(dbQueue, x) /\ x.op \in {"GetPlayerListByAccount", "CreateOffline"} =>
                (\A n \in Name : Q(n)' = Q(n)) /\ (\A h \in Handle : QB(h)' = QB(h))
         /\ dbQueue # <<>> /\ dbQueue' = Tail(dbQueue)
            /\ Head(dbQueue).op \in {"GetPlayerListByAccount", "CreateOffline"} =>
                (\A n \in Name : Q(n)' = Q(n)) /\ (\A h \in Handle : QB(h)' = QB(h))
         /\ \A a \in Answers : dbMail' = Append(dbMail, a) /\ a.op = "GetPlayerListByAccount" =>
                (\A n \in Name : M(n)' = M(n)) /\ (\A h \in Handle : MB(h)' = MB(h))
<1>1. ASSUME NEW x \in Requests, dbQueue' = Append(dbQueue, x),
             x.op \in {"GetPlayerListByAccount", "CreateOffline"}
      PROVE  (\A n \in Name : Q(n)' = Q(n)) /\ (\A h \in Handle : QB(h)' = QB(h))
  <2>1. /\ \A n \in Name : Q(n)' = Q(n) + 0
        /\ \A h \in Handle : QB(h)' = QB(h) + 0
    BY <1>1, AskedCounts
  <2> QED
    BY <2>1, QueueNats
<1>2. ASSUME dbQueue # <<>>, dbQueue' = Tail(dbQueue),
             Head(dbQueue).op \in {"GetPlayerListByAccount", "CreateOffline"}
      PROVE  (\A n \in Name : Q(n)' = Q(n)) /\ (\A h \in Handle : QB(h)' = QB(h))
  <2>1. /\ \A n \in Name : Q(n) = Q(n)' + 0
        /\ \A h \in Handle : QB(h) = QB(h)' + 0
    BY <1>2, ServedCounts
  <2> QED
    BY <2>1, QueueNats
<1>3. ASSUME NEW a \in Answers, dbMail' = Append(dbMail, a), a.op = "GetPlayerListByAccount"
      PROVE  (\A n \in Name : M(n)' = M(n)) /\ (\A h \in Handle : MB(h)' = MB(h))
  <2>1. /\ \A n \in Name : M(n)' = M(n) + 0
        /\ \A h \in Handle : MB(h)' = MB(h) + 0
    BY <1>3, SentCounts
  <2> QED
    BY <2>1, QueueNats
<1> QED
  BY <1>1, <1>2, <1>3

\* Steps that touch no claim and no creation.
LEMMA StillBalanced ==
  ASSUME Typed, Typed', Balances,
         \A n \in Name : Q(n)' = Q(n) /\ M(n)' = M(n) /\ T(n)' = T(n) /\ R(n)' = R(n),
         \A h \in Handle : QB(h)' = QB(h) /\ MB(h)' = MB(h) /\ (status'[h] # "closed" => TB(h)' = TB(h)),
         \A h \in Handle : status'[h] = "closed" \/ (status[h] # "closed" /\
           (status'[h] = "in_create_role" <=> status[h] = "in_create_role")),
         UNCHANGED <<namecounter, lostNames, stuck>>
  PROVE  Balances'
<1>1. ASSUME NEW n \in Name PROVE NameBalance(n)'
  BY Sums DEF NameBalance
<1>2. ASSUME NEW h \in Handle PROVE SocketBalance(h)'
  BY Sums DEF SocketBalance
<1> QED
  BY <1>1, <1>2 DEF Balances

\* The client, the counting of roles and offline rows, and the central server.
LEMMA OtherSteps ==
  ASSUME Typed, Typed', Balances,
         \/ \E h \in Handle : Login(h) \/ Close(h)
         \/ \E h \in Handle, n \in Name : CreateRole(h, n)
         \/ GetPlayerListByAccount \/ CreateOffline
         \/ \E t \in tries : GenPlayerId(t) \/ _TryCreateRole2(t)
         \/ \E p \in Pid : RevertRole(p) \/ LoseRevert(p)
         \/ SavePlayerIdCounter \/ LoadPlayerIdCounter
  PROVE  Balances'
<1>1. ASSUME NEW h \in Handle, Login(h) \/ Close(h) PROVE Balances'
  <2>1. \A g \in Handle : status'[g] = "closed" \/ (status[g] # "closed" /\
           (status'[g] = "in_create_role" <=> status[g] = "in_create_role"))
    BY <1>1 DEF Login, Close, Open, Typed, TypeOK
  <2> QED
    BY <1>1, <2>1, SameCounts, StillBalanced DEF Login, Close, gameDb, history
<1>2. ASSUME NEW h \in Handle, NEW n \in Name, CreateRole(h, n) PROVE Balances'
  <2> DEFINE x == Req("GetPlayerListByAccount", h, n, None)
  <2>1. x \in Requests /\ x.op = "GetPlayerListByAccount" /\ dbQueue' = Append(dbQueue, x)
    BY <1>2, RequestFacts DEF CreateRole, Req
  <2> HIDE DEF x
  <2>2. /\ \A m \in Name : Q(m)' = Q(m)
        /\ \A g \in Handle : QB(g)' = QB(g)
    BY <2>1, NoClaims
  <2> QED
    BY <1>2, <2>2, SameCounts, StillBalanced DEF CreateRole, gameDb, history, Open
<1>3. ASSUME GetPlayerListByAccount \/ CreateOffline PROVE Balances'
  <2>1. /\ dbQueue # <<>> /\ dbQueue' = Tail(dbQueue)
        /\ Head(dbQueue).op \in {"GetPlayerListByAccount", "CreateOffline"}
    BY <1>3 DEF GetPlayerListByAccount, CreateOffline, HeadIs
  <2>2. Head(dbQueue) \in Requests
    BY <2>1, TailFacts DEF Typed, TypeOK
  <2>3. /\ \A m \in Name : Q(m)' = Q(m)
        /\ \A g \in Handle : QB(g)' = QB(g)
    BY <2>1, NoClaims
  <2>4. (\A m \in Name : M(m)' = M(m)) /\ (\A g \in Handle : MB(g)' = MB(g))
    <3>1. CASE dbMail' = dbMail
      BY <3>1, SameCounts
    <3>2. CASE GetPlayerListByAccount
      <4> DEFINE a == [op |-> "GetPlayerListByAccount", handle |-> Head(dbQueue).handle,
                       name |-> Head(dbQueue).name, result |-> Cardinality(Roles)]
      <4>1. Head(dbQueue).op = "GetPlayerListByAccount"
        BY <3>2 DEF GetPlayerListByAccount, HeadIs
      <4>2. a \in Answers /\ a.op = "GetPlayerListByAccount"
        BY <2>2, <4>1, RequestFacts, RolesFinite, AnswerFacts
      <4>3. dbMail' = Append(dbMail, a)
        BY <3>2 DEF GetPlayerListByAccount, Answer
      <4> HIDE DEF a
      <4> QED
        BY <4>2, <4>3, NoClaims
    <3> QED
      BY <1>3, <3>1, <3>2 DEF CreateOffline
  <2>5. UNCHANGED <<status, tries, player, namecounter, lostNames, stuck>>
    BY <1>3 DEF GetPlayerListByAccount, CreateOffline, gameDb, history
  <2> QED
    BY <2>3, <2>4, <2>5, SameCounts, StillBalanced
<1>4. ASSUME NEW t \in tries, GenPlayerId(t) \/ _TryCreateRole2(t) PROVE Balances'
  <2>1. \E u : u.handle = t.handle /\ u.name = t.name /\ tries' = (tries \ {t}) \cup {u}
    <3>1. t \in Tries
      BY DEF Typed, TypeOK
    <3>2. CASE GenPlayerId(t)
      <4> DEFINE u == [t EXCEPT !.stage = "supplied", !.pid = nowPlayerId']
      <4>1. u.handle = t.handle /\ u.name = t.name
        BY <3>1 DEF Tries
      <4>2. tries' = (tries \ {t}) \cup {u}
        BY <3>2 DEF GenPlayerId
      <4> QED
        BY <4>1, <4>2
    <3>3. CASE tries' = (tries \ {t}) \cup {[t EXCEPT !.stage = "answered"]}
      <4>1. [t EXCEPT !.stage = "answered"].handle = t.handle /\ [t EXCEPT !.stage = "answered"].name = t.name
        BY <3>1 DEF Tries
      <4> QED
        BY <3>3, <4>1
    <3>4. CASE tries' = (tries \ {t}) \cup {[t EXCEPT !.stage = "answered", !.pid = None]}
      <4> DEFINE u == [t EXCEPT !.stage = "answered", !.pid = None]
      <4>1. u.handle = t.handle /\ u.name = t.name
        BY <3>1 DEF Tries
      <4> QED
        BY <3>4, <4>1
    <3> QED
      BY <1>4, <3>2, <3>3, <3>4 DEF _TryCreateRole2
  <2>2. /\ \A n \in Name : T(n)' = T(n)
        /\ \A h \in Handle : status[h] # "closed" => TB(h)' = TB(h)
    BY <2>1, TryMoved, Sums
  <2>3. UNCHANGED <<status, dbQueue, dbMail, player, namecounter, lostNames, stuck>>
    BY <1>4 DEF GenPlayerId, _TryCreateRole2, loginVars, gameDb, history
  <2> QED
    BY <2>2, <2>3, SameCounts, StillBalanced
<1>5. ASSUME \/ \E p \in Pid : RevertRole(p) \/ LoseRevert(p)
             \/ SavePlayerIdCounter \/ LoadPlayerIdCounter
      PROVE  Balances'
  <2>1. UNCHANGED <<status, dbQueue, dbMail, tries, player, namecounter, lostNames, stuck>>
    BY <1>5 DEF RevertRole, LoseRevert, SavePlayerIdCounter, LoadPlayerIdCounter, loginVars, gameDb, history
  <2> QED
    BY <2>1, SameCounts, StillBalanced
<1> QED
  BY <1>1, <1>2, <1>3, <1>4, <1>5

\* The claim of a new name moves from nowhere to the answer, the creation of a
\* socket from the request to the answer.
LEMMA InsertNewNameCounterBalance ==
  ASSUME Typed, Typed', Balances, InsertNewNameCounter
  PROVE  Balances'
<1> DEFINE r == Head(dbQueue)
           a == [op |-> "InsertNewNameCounter", handle |-> r.handle, name |-> r.name,
                 result |-> r.name \notin namecounter]
<1>1. /\ dbQueue # <<>> /\ dbQueue' = Tail(dbQueue) /\ r.op = "InsertNewNameCounter"
      /\ dbMail' = Append(dbMail, a) /\ namecounter' = namecounter \cup {r.name}
      /\ UNCHANGED <<status, tries, player, lostNames, stuck>>
  BY DEF InsertNewNameCounter, HeadIs, Answer, history
<1>2. r \in Requests /\ r.handle \in Handle /\ r.name \in Name
  BY <1>1, TailFacts, RequestFacts DEF Typed, TypeOK
<1>3. a \in Answers /\ a.op = "InsertNewNameCounter" /\ a.handle = r.handle /\ a.name = r.name
      /\ (a.result = TRUE <=> r.name \notin namecounter)
  BY <1>2, AnswerFacts
<1> HIDE DEF a
<1>4. ASSUME NEW n \in Name PROVE NameBalance(n)'
  <2>1. Q(n)' = Q(n) /\ T(n)' = T(n) /\ R(n)' = R(n)
    BY <1>1, ServedCounts, SameCounts, QueueNats
  <2>2. M(n)' = M(n) + (IF n = r.name /\ n \notin namecounter THEN 1 ELSE 0)
    BY <1>1, <1>3, SentCounts
  <2> QED
    BY <1>1, <2>1, <2>2, Sums DEF NameBalance, In
<1>5. ASSUME NEW h \in Handle PROVE SocketBalance(h)'
  <2>1. QB(h) = QB(h)' + (IF h = r.handle THEN 1 ELSE 0) /\ TB(h)' = TB(h)
    BY <1>1, ServedCounts, SameCounts
  <2>2. MB(h)' = MB(h) + (IF h = r.handle THEN 1 ELSE 0)
    BY <1>1, <1>3, SentCounts
  <2> QED
    BY <1>1, <2>1, <2>2, Sums DEF SocketBalance, In
<1> QED
  BY <1>4, <1>5 DEF Balances

\* A name given back is free: nobody else claimed it.
LEMMA DbDeleteNameBalance ==
  ASSUME Typed, Typed', Balances, DbDeleteName
  PROVE  Balances'
<1> DEFINE r == Head(dbQueue)
<1>1. /\ dbQueue # <<>> /\ dbQueue' = Tail(dbQueue) /\ r.op = "DeleteName"
      /\ namecounter' = namecounter \ {r.name}
      /\ UNCHANGED <<status, dbMail, tries, player, lostNames, stuck>>
  BY DEF DbDeleteName, HeadIs, history
<1>2. /\ \A n \in Name : Q(n) = Q(n)' + (IF n = r.name THEN 1 ELSE 0)
      /\ \A h \in Handle : QB(h) = QB(h)' + 0
  BY <1>1, ServedCounts
<1> HIDE DEF r
<1>3. ASSUME NEW n \in Name PROVE NameBalance(n)'
  <2>1. M(n)' = M(n) /\ T(n)' = T(n) /\ R(n)' = R(n)
    BY <1>1, SameCounts
  <2>2. In(n, lostNames)' = In(n, lostNames) /\ In(n, lostNames) \in {0, 1}
    BY <1>1 DEF In
  <2>3. CASE n = r.name
    <3>1. In(n, namecounter)' = 0 /\ In(n, namecounter) \in {0, 1}
      BY <1>1, <2>3 DEF In
    <3>2. Q(n) = Q(n)' + 1
      BY <1>2, <2>3
    <3> QED
      BY <2>1, <2>2, <3>1, <3>2, Sums DEF NameBalance
  <2>4. CASE n # r.name
    <3>1. In(n, namecounter)' = In(n, namecounter)
      BY <1>1, <2>4 DEF In
    <3>2. Q(n) = Q(n)' + 0
      BY <1>2, <2>4
    <3> QED
      BY <2>1, <2>2, <3>1, <3>2, Sums DEF NameBalance
  <2> QED
    BY <2>3, <2>4
<1>4. ASSUME NEW h \in Handle PROVE SocketBalance(h)'
  <2>1. MB(h)' = MB(h) /\ TB(h)' = TB(h) /\ QB(h)' = QB(h)
    BY <1>1, <1>2, SameCounts, QueueNats
  <2> QED
    BY <1>1, <2>1, Sums DEF SocketBalance
<1> QED
  BY <1>3, <1>4 DEF Balances

\* The claim of a request for a role becomes the role's, or is forgotten.
LEMMA CreatePlayerBalance ==
  ASSUME Typed, Typed', Balances, CreatePlayer
  PROVE  Balances'
<1> DEFINE r == Head(dbQueue)
<1>1. /\ dbQueue # <<>> /\ dbQueue' = Tail(dbQueue) /\ r.op = "CreatePlayer"
      /\ UNCHANGED <<status, dbMail, tries, namecounter, stuck>>
  BY DEF CreatePlayer, HeadIs, history
<1>2. /\ \A n \in Name : Q(n) = Q(n)' + (IF n = r.name THEN 1 ELSE 0)
      /\ \A h \in Handle : QB(h) = QB(h)' + 0
      /\ r \in Requests
  BY <1>1, ServedCounts
<1>3. r.name \in Name /\ r.pid \in Pid /\ None \notin Name
  BY <1>1, <1>2, RequestFacts, PidFacts
<1>4. \/ player[r.pid] = None /\ player' = [player EXCEPT ![r.pid] = r.name] /\ lostNames' = lostNames
      \/ lostNames' = lostNames \cup {r.name} /\ player' = player
  BY DEF CreatePlayer, history
<1>5. player \in [Pid -> Name \cup {None}]
  BY DEF Typed, TypeOK
<1> HIDE DEF r
<1>6. ASSUME NEW n \in Name PROVE NameBalance(n)'
  <2>1. M(n)' = M(n) /\ T(n)' = T(n)
    BY <1>1, SameCounts
  <2>2. CASE lostNames' = lostNames \cup {r.name} /\ player' = player
    <3>1. R(n)' = R(n)
      BY <2>2, SameCounts
    <3> QED
      BY <1>1, <1>2, <2>1, <2>2, <3>1, Sums DEF NameBalance, In
  <2>3. CASE player[r.pid] = None /\ player' = [player EXCEPT ![r.pid] = r.name] /\ lostNames' = lostNames
    <3>1. IsFiniteSet(RolesOf(n)) /\ R(n) = Cardinality(RolesOf(n)) /\ R(n) \in Nat
      BY Counts DEF Typed, CountsHold, R
    <3>2. R(n)' = R(n) + (IF n = r.name THEN 1 ELSE 0)
      <4>1. CASE n = r.name
        <5>1. RolesOf(n)' = RolesOf(n) \cup {r.pid} /\ r.pid \notin RolesOf(n)
          BY <1>3, <1>5, <2>3, <4>1 DEF RolesOf, Roles
        <5>2. Cardinality(RolesOf(n) \cup {r.pid}) = Cardinality(RolesOf(n)) + 1
          BY <3>1, <5>1, FS_AddElement
        <5> QED
          BY <3>1, <4>1, <5>1, <5>2 DEF R
      <4>2. CASE n # r.name
        <5>1. RolesOf(n)' = RolesOf(n)
          BY <1>3, <1>5, <2>3, <4>2 DEF RolesOf, Roles
        <5> QED
          BY <3>1, <4>2, <5>1 DEF R
      <4> QED
        BY <4>1, <4>2
    <3> QED
      BY <1>1, <1>2, <2>1, <2>3, <3>2, Sums DEF NameBalance, In
  <2> QED
    BY <1>4, <2>2, <2>3
<1>7. ASSUME NEW h \in Handle PROVE SocketBalance(h)'
  <2>1. MB(h)' = MB(h) /\ TB(h)' = TB(h) /\ QB(h)' = QB(h)
    BY <1>1, <1>2, SameCounts, QueueNats
  <2> QED
    BY <1>1, <2>1, Sums DEF SocketBalance
<1> QED
  BY <1>6, <1>7 DEF Balances

\* A creation begins for a socket that has none, or nothing does.
LEMMA CreateRole3Balance ==
  ASSUME Typed, Typed', Balances, _CreateRole3
  PROVE  Balances'
<1> DEFINE a == Head(dbMail)
<1>1. /\ dbMail # <<>> /\ dbMail' = Tail(dbMail) /\ a.op = "GetPlayerListByAccount"
      /\ UNCHANGED <<tries, player, namecounter, lostNames, stuck>>
  BY DEF _CreateRole3, MailIs, gameDb, history
<1>2. /\ \A n \in Name : M(n) = M(n)' + 0
      /\ \A h \in Handle : MB(h) = MB(h)' + 0
      /\ a \in Answers
  BY <1>1, TakenCounts
<1>3. /\ \A n \in Name : M(n)' = M(n)
      /\ \A h \in Handle : MB(h)' = MB(h)
      /\ a.handle \in Handle /\ a.name \in Name
  BY <1>2, QueueNats, AnswerFacts
<1>4. status \in [Handle -> {"new", "login_account", "in_create_role", "closed"}]
  BY DEF Typed, TypeOK
<1>5. \/ UNCHANGED <<status, dbQueue>>
      \/ status' = [status EXCEPT ![a.handle] = "closed"] /\ dbQueue' = dbQueue
      \/ /\ status[a.handle] = "login_account"
         /\ status' = [status EXCEPT ![a.handle] = "in_create_role"]
         /\ dbQueue' = Append(dbQueue, Req("InsertNewNameCounter", a.handle, a.name, None))
  BY DEF _CreateRole3
<1> HIDE DEF a
<1>6. CASE \/ UNCHANGED <<status, dbQueue>>
           \/ status' = [status EXCEPT ![a.handle] = "closed"] /\ dbQueue' = dbQueue
  <2>1. \A g \in Handle : status'[g] = "closed" \/ status'[g] = status[g]
    BY <1>4, <1>6
  <2>2. \A g \in Handle : status'[g] = "closed" \/ (status[g] # "closed" /\
           (status'[g] = "in_create_role" <=> status[g] = "in_create_role"))
    BY <2>1
  <2> QED
    BY <1>1, <1>3, <1>6, <2>2, SameCounts, StillBalanced
<1>7. CASE /\ status[a.handle] = "login_account"
           /\ status' = [status EXCEPT ![a.handle] = "in_create_role"]
           /\ dbQueue' = Append(dbQueue, Req("InsertNewNameCounter", a.handle, a.name, None))
  <2> DEFINE x == Req("InsertNewNameCounter", a.handle, a.name, None)
  <2>1. x \in Requests /\ x.op = "InsertNewNameCounter" /\ x.handle = a.handle
    BY <1>3, RequestFacts DEF Req
  <2>2. dbQueue' = Append(dbQueue, x)
    BY <1>7
  <2> HIDE DEF x
  <2>3. /\ \A n \in Name : Q(n)' = Q(n) + 0
        /\ \A h \in Handle : QB(h)' = QB(h) + (IF h = a.handle THEN 1 ELSE 0)
    BY <2>1, <2>2, AskedCounts
  <2>4. ASSUME NEW n \in Name PROVE NameBalance(n)'
    <3>1. R(n)' = R(n) /\ T(n)' = T(n)
      BY <1>1, SameCounts
    <3> QED
      BY <1>1, <1>3, <2>3, <3>1, Sums DEF NameBalance, In
  <2>5. ASSUME NEW h \in Handle PROVE SocketBalance(h)'
    <3>1. TB(h)' = TB(h) /\ In(h, stuck)' = In(h, stuck)
      BY <1>1, SameCounts DEF In
    <3>2. CASE h = a.handle
      <4>1. status[h] = "login_account" /\ status'[h] = "in_create_role"
        BY <1>3, <1>4, <1>7, <3>2
      <4> QED
        BY <1>3, <2>3, <3>1, <3>2, <4>1, Sums DEF SocketBalance, In
    <3>3. CASE h # a.handle
      <4>1. status'[h] = status[h]
        BY <1>3, <1>4, <1>7, <3>3
      <4> QED
        BY <1>3, <2>3, <3>1, <3>3, <4>1, Sums DEF SocketBalance, In
    <3> QED
      BY <3>2, <3>3
  <2> QED
    BY <2>4, <2>5 DEF Balances
<1> QED
  BY <1>5, <1>6, <1>7


\* The claim of an answer becomes the one of a try, or is given back when the
\* socket is gone.
LEMMA TrueCreateRole1Balance ==
  ASSUME Typed, Typed', Balances, _TrueCreateRole1
  PROVE  Balances'
<1>1. /\ dbMail # <<>> /\ dbMail' = Tail(dbMail) /\ Head(dbMail).op = "InsertNewNameCounter"
      /\ UNCHANGED <<player, namecounter, lostNames, stuck>>
  BY DEF _TrueCreateRole1, MailIs, gameDb, history
<1>2. Head(dbMail) \in Answers
  BY <1>1, TakenCounts
<1>3. PICK g \in Handle, m \in Name, b \in BOOLEAN :
        g = Head(dbMail).handle /\ m = Head(dbMail).name /\ b = Head(dbMail).result
  BY <1>1, <1>2, AnswerFacts
<1> DEFINE t == [stage |-> "asked", handle |-> g, name |-> m, pid |-> None]
<1>4. /\ \A n \in Name : M(n) = M(n)' + (IF b = TRUE /\ n = m THEN 1 ELSE 0)
      /\ \A h \in Handle : MB(h) = MB(h)' + (IF h = g THEN 1 ELSE 0)
  BY <1>1, <1>3, TakenCounts
<1>5. g # None
  BY PidFacts
<1>6. status \in [Handle -> {"new", "login_account", "in_create_role", "closed"}]
  BY DEF Typed, TypeOK
<1>7. /\ t \in Tries /\ t.handle = g /\ t.name = m
      /\ DeleteName(m) \in Requests /\ DeleteName(m).op = "DeleteName"
      /\ DeleteName(m).name = m
  BY <1>5, RequestFacts DEF Tries, HandleOrNone, DeleteName, Req
<1>8. \/ /\ Open(g) /\ b = TRUE /\ tries' = tries \cup {t}
         /\ UNCHANGED <<status, dbQueue>>
      \/ /\ Open(g) /\ b = FALSE
         /\ status' = [status EXCEPT ![g] = "login_account"]
         /\ UNCHANGED <<tries, dbQueue>>
      \/ /\ ~Open(g) /\ b = TRUE /\ dbQueue' = Append(dbQueue, DeleteName(m))
         /\ UNCHANGED <<status, tries>>
      \/ /\ ~Open(g) /\ b = FALSE /\ UNCHANGED <<status, tries, dbQueue>>
  BY <1>3 DEF _TrueCreateRole1
<1> HIDE DEF t
<1>9. /\ \A n \in Name : R(n)' = R(n) /\ In(n, lostNames)' = In(n, lostNames)
                         /\ In(n, namecounter)' = In(n, namecounter)
                         /\ In(n, lostNames) \in {0, 1} /\ In(n, namecounter) \in {0, 1}
      /\ \A h \in Handle : In(h, stuck)' = In(h, stuck) /\ In(h, stuck) \in {0, 1}
  BY <1>1, SameCounts DEF In
<1>10. MB(g) = MB(g)' + 1
  BY <1>4, <1>5
<1>11. status[g] # "closed" =>
        /\ status[g] = "in_create_role"
        /\ QB(g) = 0 /\ TB(g) = 0 /\ In(g, stuck) = 0 /\ MB(g)' = 0
  <2> SUFFICES ASSUME status[g] # "closed"
               PROVE  /\ status[g] = "in_create_role"
                      /\ QB(g) = 0 /\ TB(g) = 0 /\ In(g, stuck) = 0 /\ MB(g)' = 0
    OBVIOUS
  <2>1. /\ TB(g) \in Nat /\ QB(g) \in Nat /\ MB(g)' \in Nat
        /\ QB(g) + MB(g) + TB(g) + In(g, stuck)
             = (IF status[g] = "in_create_role" THEN 1 ELSE 0)
    BY <1>5, Sums
  <2>2. In(g, stuck) \in {0, 1}
    BY <1>5, <1>9
  <2> QED
    BY <1>10, <2>1, <2>2
<1>12. ~Open(g) => status[g] = "closed"
  BY <1>5, <1>6, <1>11 DEF Open
<1>13. CASE Open(g) /\ b = TRUE /\ tries' = tries \cup {t} /\ UNCHANGED <<status, dbQueue>>
  <2>1. TB(t.handle) = 0
    BY <1>7, <1>11, <1>13 DEF Open
  <2>2. /\ \A n \in Name : T(n)' = T(n) + (IF n = m THEN 1 ELSE 0)
        /\ \A h \in Handle : TB(h)' = TB(h) + (IF h = g THEN 1 ELSE 0)
    BY <1>5, <1>7, <1>13, <2>1, TryAdded
  <2>3. /\ \A n \in Name : Q(n)' = Q(n)
        /\ \A h \in Handle : QB(h)' = QB(h)
    BY <1>13, SameCounts
  <2>4. ASSUME NEW n \in Name PROVE NameBalance(n)'
    BY <1>4, <1>9, <1>13, <2>2, <2>3, Sums DEF NameBalance
  <2>5. ASSUME NEW h \in Handle PROVE SocketBalance(h)'
    BY <1>4, <1>9, <1>13, <2>2, <2>3, Sums DEF SocketBalance
  <2> QED
    BY <2>4, <2>5 DEF Balances
<1>14. CASE /\ Open(g) /\ b = FALSE
            /\ status' = [status EXCEPT ![g] = "login_account"] /\ UNCHANGED <<tries, dbQueue>>
  <2>1. /\ \A n \in Name : Q(n)' = Q(n) /\ T(n)' = T(n)
        /\ \A h \in Handle : QB(h)' = QB(h) /\ TB(h)' = TB(h)
    BY <1>14, SameCounts
  <2>2. ASSUME NEW n \in Name PROVE NameBalance(n)'
    <3>1. M(n) = M(n)' + 0
      BY <1>4, <1>14
    <3> QED
      BY <1>9, <2>1, <3>1, Sums DEF NameBalance
  <2>3. ASSUME NEW h \in Handle PROVE SocketBalance(h)'
    <3>1. CASE h = g
      <4>1. status'[h] = "login_account" /\ status[h] # "closed"
        BY <1>5, <1>6, <1>14, <3>1 DEF Open
      <4> QED
        BY <1>9, <1>11, <2>1, <3>1, <4>1 DEF SocketBalance
    <3>2. CASE h # g
      <4>1. status'[h] = status[h] /\ MB(h) = MB(h)' + 0
        BY <1>4, <1>5, <1>6, <1>14, <3>2
      <4> QED
        BY <1>9, <2>1, <4>1, Sums DEF SocketBalance
    <3> QED
      BY <3>1, <3>2
  <2> QED
    BY <2>2, <2>3 DEF Balances
<1>15. CASE /\ ~Open(g) /\ b = TRUE /\ dbQueue' = Append(dbQueue, DeleteName(m))
            /\ UNCHANGED <<status, tries>>
  <2>1. /\ \A n \in Name : Q(n)' = Q(n) + (IF n = m THEN 1 ELSE 0)
        /\ \A h \in Handle : QB(h)' = QB(h) + 0
    BY <1>7, <1>15, AskedCounts
  <2>2. /\ \A n \in Name : T(n)' = T(n)
        /\ \A h \in Handle : TB(h)' = TB(h)
    BY <1>15, SameCounts
  <2>3. ASSUME NEW n \in Name PROVE NameBalance(n)'
    <3>1. M(n) = M(n)' + (IF n = m THEN 1 ELSE 0) /\ Q(n)' = Q(n) + (IF n = m THEN 1 ELSE 0)
      BY <1>4, <1>15, <2>1
    <3>2. M(n)' + Q(n)' = M(n) + Q(n)
      BY <3>1, QueueNats
    <3> QED
      BY <1>9, <2>2, <3>2, Sums DEF NameBalance
  <2>4. ASSUME NEW h \in Handle, status'[h] # "closed" PROVE SocketBalance(h)'
    <3>1. status'[h] = status[h] /\ h # g
      BY <1>12, <1>15, <2>4
    <3>2. MB(h) = MB(h)' + 0
      BY <1>4, <3>1
    <3> QED
      BY <1>9, <2>1, <2>2, <2>4, <3>1, <3>2, Sums DEF SocketBalance
  <2> QED
    BY <2>3, <2>4 DEF Balances, SocketBalance
<1>16. CASE ~Open(g) /\ b = FALSE /\ UNCHANGED <<status, tries, dbQueue>>
  <2>1. \A h \in Handle : status[h] # "closed" => MB(h) = MB(h)' + 0
    BY <1>4, <1>12, <1>16
  <2>2. /\ \A n \in Name : Q(n)' = Q(n) /\ T(n)' = T(n)
        /\ \A h \in Handle : QB(h)' = QB(h) /\ TB(h)' = TB(h)
    BY <1>16, SameCounts
  <2>3. ASSUME NEW n \in Name PROVE NameBalance(n)'
    <3>1. M(n) = M(n)' + 0
      BY <1>4, <1>16
    <3> QED
      BY <1>9, <2>2, <3>1, Sums DEF NameBalance
  <2>4. ASSUME NEW h \in Handle PROVE SocketBalance(h)'
    BY <1>9, <1>16, <2>1, <2>2, Sums DEF SocketBalance
  <2> QED
    BY <2>3, <2>4 DEF Balances
<1> QED
  BY <1>8, <1>13, <1>14, <1>15, <1>16

\* An answer that nobody takes is remembered as lost.
LEMMA LoseAnswerBalance ==
  ASSUME Typed, Typed', Balances, LoseAnswer
  PROVE  Balances'
<1> DEFINE a == Head(dbMail)
<1>1. /\ dbMail # <<>> /\ dbMail' = Tail(dbMail)
      /\ UNCHANGED <<status, dbQueue, tries, player, namecounter>>
  BY DEF LoseAnswer, gameDb
<1>2. /\ \A n \in Name : M(n) = M(n)' +
           (IF a.op = "InsertNewNameCounter" /\ a.result = TRUE /\ n = a.name THEN 1 ELSE 0)
      /\ \A h \in Handle : MB(h) = MB(h)' +
           (IF a.op = "InsertNewNameCounter" /\ h = a.handle THEN 1 ELSE 0)
      /\ a \in Answers
  BY <1>1, TakenCounts
<1>3. /\ a.op = "InsertNewNameCounter" => a.result \in BOOLEAN
      /\ \A n \in Name : n \in lostNames' <=>
           n \in lostNames \/ (a.op = "InsertNewNameCounter" /\ a.result = TRUE /\ n = a.name)
      /\ \A h \in Handle : h \in stuck' <=>
           h \in stuck \/ (a.op = "InsertNewNameCounter" /\ h = a.handle)
  BY <1>2, AnswerFacts DEF LoseAnswer
<1> HIDE DEF a
<1>4. ASSUME NEW n \in Name PROVE NameBalance(n)'
  <2>1. /\ Q(n)' = Q(n) /\ T(n)' = T(n) /\ R(n)' = R(n) /\ In(n, namecounter)' = In(n, namecounter)
        /\ In(n, namecounter) \in {0, 1} /\ In(n, lostNames) \in {0, 1}
    BY <1>1, SameCounts DEF In
  <2>2. CASE a.op = "InsertNewNameCounter" /\ a.result = TRUE /\ n = a.name
    <3>1. M(n) = M(n)' + 1 /\ In(n, lostNames)' = 1
      BY <1>2, <1>3, <2>2 DEF In
    <3> QED
      BY <2>1, <3>1, Sums DEF NameBalance
  <2>3. CASE ~(a.op = "InsertNewNameCounter" /\ a.result = TRUE /\ n = a.name)
    <3>1. M(n) = M(n)' + 0 /\ In(n, lostNames)' = In(n, lostNames)
      BY <1>2, <1>3, <2>3 DEF In
    <3> QED
      BY <2>1, <3>1, Sums DEF NameBalance
  <2> QED
    BY <2>2, <2>3
<1>5. ASSUME NEW h \in Handle PROVE SocketBalance(h)'
  <2>1. QB(h)' = QB(h) /\ TB(h)' = TB(h) /\ status' = status /\ In(h, stuck) \in {0, 1}
    BY <1>1, SameCounts DEF In
  <2>2. CASE a.op = "InsertNewNameCounter" /\ h = a.handle
    <3>1. MB(h) = MB(h)' + 1 /\ In(h, stuck)' = 1
      BY <1>2, <1>3, <2>2 DEF In
    <3> QED
      BY <2>1, <3>1, Sums DEF SocketBalance
  <2>3. CASE ~(a.op = "InsertNewNameCounter" /\ h = a.handle)
    <3>1. MB(h) = MB(h)' + 0 /\ In(h, stuck)' = In(h, stuck)
      BY <1>2, <1>3, <2>3 DEF In
    <3> QED
      BY <2>1, <3>1, Sums DEF SocketBalance
  <2> QED
    BY <2>2, <2>3
<1> QED
  BY <1>4, <1>5 DEF Balances


\* Two requests, the second of them for an offline row.
LEMMA AskedTwo ==
  ASSUME Typed, Typed', Balances, NEW x \in Requests, NEW y \in Requests,
         x.op = "CreatePlayer", y.op = "CreateOffline",
         dbQueue' = dbQueue \o <<x, y>>
  PROVE  /\ \A n \in Name : Q(n)' = Q(n) + (IF n = x.name THEN 1 ELSE 0)
         /\ \A h \in Handle : QB(h)' = QB(h)
<1> DEFINE s == Append(dbQueue, x)
<1>1. dbQueue \in Seq(Requests) /\ s \in Seq(Requests) /\ s = Append(dbQueue, x) /\ dbQueue' = Append(s, y)
  BY AppendTwo, AppendFacts DEF Typed, TypeOK
<1>2. \A X : Count(s, X) = Count(dbQueue, X) + (IF x \in X THEN 1 ELSE 0)
  <2>1. dbQueue \in Seq(Requests)
    BY <1>1
  <2> QED
    BY <2>1, CountAppend
<1> HIDE DEF s
<1>3. \A X : Count(dbQueue', X) = Count(s, X) + (IF y \in X THEN 1 ELSE 0)
  <2>1. s \in Seq(Requests)
    BY <1>1
  <2>2. \A X : Count(Append(s, y), X) = Count(s, X) + (IF y \in X THEN 1 ELSE 0)
    BY <2>1, CountAppend
  <2>3. dbQueue' = Append(s, y)
    BY <1>1
  <2> QED
    BY <2>2, <2>3
<1>4. \A X : Count(s, X) \in Nat
  BY <1>1, CountNat
<1>5. ASSUME NEW n \in Name PROVE Q(n)' = Q(n) + (IF n = x.name THEN 1 ELSE 0)
  <2>1. y \notin Using(n) /\ (x \in Using(n) <=> n = x.name)
    BY CountedFor
  <2>2. Count(dbQueue', Using(n)) = Count(s, Using(n)) + 0
    BY <1>3, <2>1
  <2>3. Count(dbQueue', Using(n)) = Count(s, Using(n))
    BY <1>4, <2>2
  <2> QED
    BY <1>2, <2>1, <2>3 DEF Q
<1>6. ASSUME NEW h \in Handle PROVE QB(h)' = QB(h)
  <2>1. y \notin Inserting(h) /\ x \notin Inserting(h)
    BY CountedFor
  <2>2. Count(dbQueue', Inserting(h)) = Count(s, Inserting(h)) + 0
    BY <1>3, <2>1
  <2>3. Count(s, Inserting(h)) = QB(h) + 0
    BY <1>2, <2>1 DEF QB
  <2>4. Count(dbQueue', Inserting(h)) = QB(h)
    BY <1>4, <2>2, <2>3, QueueNats
  <2> QED
    BY <2>4 DEF QB
<1> QED
  BY <1>5, <1>6

\* The claim of an answered try goes on to the role or to the rollback, and the
\* socket's creation is over.
LEMMA TrueCreateRole2Balance ==
  ASSUME Typed, Typed', Balances, NEW t \in tries, _TrueCreateRole2(t)
  PROVE  Balances'
<1>1. t.handle # None /\ tries' = tries \ {t} /\ UNCHANGED <<dbMail, player, namecounter, stuck>>
  BY DEF _TrueCreateRole2, Answered, gameDb, history
<1>2. t.handle \in Handle /\ t.name \in Name /\ t.pid \in PidOrNone
  BY <1>1, TryFacts DEF Typed, TypeOK, HandleOrNone
<1>3. PICK g \in Handle, m \in Name : g = t.handle /\ m = t.name
  BY <1>2
<1>4. /\ \A n \in Name : T(n) = T(n)' + (IF n = m THEN 1 ELSE 0)
      /\ \A h \in Handle : TB(h) = TB(h)' + (IF h = g THEN 1 ELSE 0)
  BY <1>1, <1>3, TryRemoved
<1>5. status \in [Handle -> {"new", "login_account", "in_create_role", "closed"}]
  BY DEF Typed, TypeOK
<1>6. /\ \A n \in Name : /\ R(n)' = R(n) /\ M(n)' = M(n) /\ In(n, namecounter)' = In(n, namecounter)
                         /\ In(n, lostNames) \in {0, 1} /\ In(n, namecounter) \in {0, 1}
      /\ \A h \in Handle : MB(h)' = MB(h) /\ In(h, stuck)' = In(h, stuck) /\ In(h, stuck) \in {0, 1}
  BY <1>1, SameCounts DEF In
<1>7. TB(g) = TB(g)' + 1
  BY <1>4
<1>8. status[g] # "closed" =>
        status[g] = "in_create_role" /\ QB(g) = 0 /\ MB(g) = 0 /\ In(g, stuck) = 0 /\ TB(g)' = 0
  <2> SUFFICES ASSUME status[g] # "closed"
               PROVE  status[g] = "in_create_role" /\ QB(g) = 0 /\ MB(g) = 0 /\ In(g, stuck) = 0 /\ TB(g)' = 0
    OBVIOUS
  <2>1. /\ TB(g)' \in Nat /\ QB(g) \in Nat /\ MB(g) \in Nat
        /\ QB(g) + MB(g) + TB(g) + In(g, stuck) = (IF status[g] = "in_create_role" THEN 1 ELSE 0)
    BY Sums
  <2>2. In(g, stuck) \in {0, 1}
    BY <1>6
  <2> QED
    BY <1>7, <2>1, <2>2
<1>9. ~Open(g) => status[g] = "closed"
  BY <1>5, <1>8 DEF Open
\* The socket's part.
<1>10. /\ (Open(g) /\ status' = [status EXCEPT ![g] = "login_account"]) \/ (~Open(g) /\ status' = status)
  BY <1>3 DEF _TrueCreateRole2
<1>11. ASSUME \A h \in Handle : QB(h)' = QB(h), NEW h \in Handle PROVE SocketBalance(h)'
  <2>1. CASE h = g /\ Open(g)
    <3>1. status'[h] = "login_account" /\ status[g] # "closed"
      BY <1>5, <1>10, <2>1 DEF Open
    <3> QED
      BY <1>6, <1>8, <1>11, <2>1, <3>1 DEF SocketBalance
  <2>2. CASE h = g /\ ~Open(g)
    BY <1>9, <1>10, <2>2 DEF SocketBalance
  <2>3. CASE h # g
    <3>1. status'[h] = status[h] /\ TB(h) = TB(h)' + 0
      BY <1>4, <1>5, <1>10, <2>3
    <3> QED
      BY <1>6, <1>11, <2>3, <3>1, Sums DEF SocketBalance
  <2> QED
    BY <2>1, <2>2, <2>3
\* The name's part.
<1>12. ASSUME \A n \in Name : Q(n)' = Q(n) + (IF n = m THEN 1 ELSE 0), lostNames' = lostNames,
              NEW n \in Name
       PROVE  NameBalance(n)'
  <2>1. Q(n)' = Q(n) + (IF n = m THEN 1 ELSE 0) /\ T(n) = T(n)' + (IF n = m THEN 1 ELSE 0)
    BY <1>4, <1>12
  <2>2. T(n)' \in Nat /\ Q(n) \in Nat
    BY Sums
  <2>3. T(n)' + Q(n)' = T(n) + Q(n)
    BY <2>1, <2>2
  <2>4. In(n, lostNames)' = In(n, lostNames)
    BY <1>12 DEF In
  <2>5. /\ R(n) \in Nat /\ T(n) \in Nat /\ M(n) \in Nat /\ Q(n)' \in Nat
        /\ R(n) + T(n) + M(n) + Q(n) + In(n, lostNames) = In(n, namecounter)
    BY Sums
  <2>6. R(n)' = R(n) /\ M(n)' = M(n) /\ In(n, namecounter)' = In(n, namecounter) /\ In(n, lostNames) \in {0, 1}
    BY <1>6
  <2> QED
    BY <2>2, <2>3, <2>4, <2>5, <2>6 DEF NameBalance
<1>13. CASE t.pid = None /\ ~Open(g)
  <2>1. dbQueue' = dbQueue /\ lostNames' = lostNames \cup {m}
    BY <1>3, <1>13 DEF _TrueCreateRole2
  <2>2. /\ \A n \in Name : Q(n)' = Q(n)
        /\ \A h \in Handle : QB(h)' = QB(h)
    BY <2>1, SameCounts
  <2>3. ASSUME NEW n \in Name PROVE NameBalance(n)'
    <3>1. CASE n = m
      <4>1. In(n, lostNames)' = 1 /\ T(n) = T(n)' + 1
        BY <1>4, <2>1, <3>1 DEF In
      <4> QED
        BY <1>6, <2>2, <4>1, Sums DEF NameBalance
    <3>2. CASE n # m
      <4>1. In(n, lostNames)' = In(n, lostNames) /\ T(n) = T(n)' + 0
        BY <1>4, <2>1, <3>2 DEF In
      <4> QED
        BY <1>6, <2>2, <4>1, Sums DEF NameBalance
    <3> QED
      BY <3>1, <3>2
  <2> QED
    BY <1>11, <2>2, <2>3 DEF Balances
<1>14. CASE (t.pid = None /\ Open(g)) \/ (t.pid # None /\ ~Open(g))
  <2>1. dbQueue' = Append(dbQueue, DeleteName(m)) /\ lostNames' = lostNames
    BY <1>3, <1>14 DEF _TrueCreateRole2, history
  <2>2. DeleteName(m) \in Requests /\ DeleteName(m).op = "DeleteName" /\ DeleteName(m).name = m
    BY RequestFacts DEF DeleteName, Req
  <2>3. /\ \A n \in Name : Q(n)' = Q(n) + (IF n = m THEN 1 ELSE 0)
        /\ \A h \in Handle : QB(h)' = QB(h) + 0
    BY <2>1, <2>2, AskedCounts
  <2>4. \A h \in Handle : QB(h)' = QB(h)
    BY <2>3, QueueNats
  <2> QED
    BY <1>11, <1>12, <2>1, <2>3, <2>4 DEF Balances
<1>15. CASE t.pid # None /\ Open(g)
  <2> DEFINE x == Req("CreatePlayer", None, m, t.pid)
             y == Req("CreateOffline", None, None, t.pid)
  <2>1. dbQueue' = dbQueue \o <<x, y>> /\ lostNames' = lostNames
    BY <1>3, <1>15 DEF _TrueCreateRole2, history
  <2>2. t.pid \in Pid
    BY <1>2, <1>15 DEF PidOrNone
  <2>3. x \in Requests /\ y \in Requests /\ x.op = "CreatePlayer" /\ x.name = m /\ y.op = "CreateOffline"
    BY <2>2, RequestFacts DEF Req
  <2> HIDE DEF x, y
  <2>4. /\ \A n \in Name : Q(n)' = Q(n) + (IF n = m THEN 1 ELSE 0)
        /\ \A h \in Handle : QB(h)' = QB(h)
    BY <2>1, <2>3, AskedTwo
  <2> QED
    BY <1>11, <1>12, <2>1, <2>4 DEF Balances
<1> QED
  BY <1>13, <1>14, <1>15

\* The tries that are forgotten are lost names and stuck sockets.
LEMMA ForgetBalance ==
  ASSUME Typed, Typed', Balances, NEW F \in SUBSET tries, Forget(F),
         UNCHANGED <<status, dbQueue, dbMail, player, namecounter>>
  PROVE  Balances'
<1>1. /\ tries' = tries \ F
      /\ \A n \in Name : n \in lostNames' <=> n \in lostNames \/ \E t \in F : t.handle # None /\ t.name = n
      /\ \A h \in Handle : h \in stuck' <=> h \in stuck \/ \E t \in F : t.handle = h
  BY PidFacts DEF Forget
<1>2. CountsHold
  BY Counts DEF Typed
<1>3. ASSUME NEW n \in Name PROVE NameBalance(n)'
  <2>1. /\ Q(n)' = Q(n) /\ M(n)' = M(n) /\ R(n)' = R(n) /\ In(n, namecounter)' = In(n, namecounter)
        /\ In(n, namecounter) \in {0, 1} /\ In(n, lostNames) \in {0, 1}
    BY SameCounts DEF In
  <2>2. IsFiniteSet(TriesOf(n)) /\ Cardinality(TriesOf(n)) \in {0, 1} /\ T(n) = Cardinality(TriesOf(n))
    BY <1>2, Sums DEF CountsHold, T
  <2>3. CASE \E t \in F : t \in TriesOf(n)
    <3>1. PICK x \in F : x \in TriesOf(n)
      BY <2>3
    <3>2. TriesOf(n) = {x}
      BY <2>2, <3>1, AtMostOne
    <3>3. TriesOf(n)' = {}
      BY <1>1, <3>1, <3>2 DEF TriesOf
    <3>4. T(n) = 1 /\ T(n)' = 0
      BY <2>2, <3>2, <3>3, FS_Singleton, FS_EmptySet DEF T
    <3>5. In(n, lostNames)' = 1
      BY <1>1, <3>1 DEF In, TriesOf
    <3> QED
      BY <2>1, <3>4, <3>5, Sums DEF NameBalance
  <2>4. CASE ~\E t \in F : t \in TriesOf(n)
    <3>1. TriesOf(n)' = TriesOf(n)
      BY <1>1, <2>4 DEF TriesOf
    <3>2. In(n, lostNames)' = In(n, lostNames)
      BY <1>1, <2>4 DEF In, TriesOf
    <3>3. T(n)' = T(n)
      BY <3>1 DEF T
    <3> QED
      BY <2>1, <3>2, <3>3, Sums DEF NameBalance
  <2> QED
    BY <2>3, <2>4
<1>4. ASSUME NEW h \in Handle, status[h] # "closed" PROVE SocketBalance(h)'
  <2>1. QB(h)' = QB(h) /\ MB(h)' = MB(h) /\ In(h, stuck) \in {0, 1}
    BY SameCounts DEF In
  <2>2. IsFiniteSet(TriesBy(h)) /\ Cardinality(TriesBy(h)) \in {0, 1} /\ TB(h) = Cardinality(TriesBy(h))
    BY <1>2, <1>4, Sums DEF CountsHold, TB
  <2>3. CASE \E t \in F : t \in TriesBy(h)
    <3>1. PICK x \in F : x \in TriesBy(h)
      BY <2>3
    <3>2. TriesBy(h) = {x}
      BY <2>2, <3>1, AtMostOne
    <3>3. TriesBy(h)' = {}
      BY <1>1, <3>1, <3>2 DEF TriesBy
    <3>4. TB(h) = 1 /\ TB(h)' = 0
      BY <2>2, <3>2, <3>3, FS_Singleton, FS_EmptySet DEF TB
    <3>5. In(h, stuck)' = 1
      BY <1>1, <3>1 DEF In, TriesBy
    <3> QED
      BY <1>4, <2>1, <3>4, <3>5, Sums DEF SocketBalance
  <2>4. CASE ~\E t \in F : t \in TriesBy(h)
    <3>1. TriesBy(h)' = TriesBy(h)
      BY <1>1, <2>4 DEF TriesBy
    <3>2. In(h, stuck)' = In(h, stuck)
      BY <1>1, <2>4 DEF In, TriesBy
    <3>3. TB(h)' = TB(h)
      BY <3>1 DEF TB
    <3> QED
      BY <1>4, <2>1, <3>2, <3>3, Sums DEF SocketBalance
  <2> QED
    BY <2>3, <2>4
<1> QED
  BY <1>3, <1>4 DEF Balances, SocketBalance

\* When the game server restarts every socket is closed, and a name that is
\* taken is a role's or lost.
LEMMA RestartGSBalance ==
  ASSUME Typed, Typed', Balances, RestartGS
  PROVE  Balances'
<1>1. /\ dbQueue' = <<>> /\ dbMail' = <<>> /\ UNCHANGED <<player, namecounter, stuck>>
      /\ lostNames' = lostNames \cup (namecounter \ {player[p] : p \in Roles})
      /\ tries' = {[t EXCEPT !.handle = None] : t \in tries}
      /\ \A h \in Handle : status'[h] = IF status[h] = "new" THEN "new" ELSE "closed"
  BY DEF RestartGS, gameDb
<1>2. \A t \in tries' : t.handle = None
  <2>1. \A t \in Tries : [t EXCEPT !.handle = None].handle = None
    BY DEF Tries
  <2> QED
    BY <1>1, <2>1 DEF Typed, TypeOK
<1>3. ASSUME NEW n \in Name PROVE NameBalance(n)'
  <2>1. Q(n)' = 0 /\ M(n)' = 0
    BY <1>1, CountEmpty DEF Q, M
  <2>2. TriesOf(n)' = {}
    BY <1>2 DEF TriesOf
  <2>3. T(n)' = 0
    BY <2>2, FS_EmptySet DEF T
  <2>4. R(n)' = R(n) /\ In(n, namecounter)' = In(n, namecounter)
        /\ In(n, namecounter) \in {0, 1} /\ In(n, lostNames) \in {0, 1}
    BY <1>1, SameCounts DEF In
  <2>5. IsFiniteSet(RolesOf(n)) /\ R(n) = Cardinality(RolesOf(n))
    BY Counts DEF Typed, CountsHold, R
  <2>6. R(n) = 0 <=> n \notin {player[p] : p \in Roles}
    <3>1. R(n) = 0 <=> RolesOf(n) = {}
      BY <2>5, FS_EmptySet
    <3> QED
      BY <3>1 DEF RolesOf
  <2>7. n \in lostNames' <=> n \in lostNames \/ (n \in namecounter /\ R(n) = 0)
    BY <1>1, <2>6
  <2>8. /\ R(n) \in Nat /\ T(n) \in Nat /\ M(n) \in Nat /\ Q(n) \in Nat
        /\ R(n) + T(n) + M(n) + Q(n) + In(n, lostNames) = In(n, namecounter)
    BY Sums
  <2>9. CASE n \notin namecounter
    <3>1. In(n, namecounter) = 0
      BY <2>9 DEF In
    <3>2. R(n) = 0 /\ In(n, lostNames) = 0
      BY <2>4, <2>8, <3>1
    <3>3. In(n, lostNames)' = 0
      BY <2>7, <2>9, <3>2 DEF In
    <3> QED
      BY <2>1, <2>3, <2>4, <3>1, <3>2, <3>3 DEF NameBalance
  <2>10. CASE n \in namecounter /\ R(n) = 0
    <3>1. In(n, namecounter) = 1 /\ In(n, lostNames)' = 1
      BY <2>7, <2>10 DEF In
    <3> QED
      BY <2>1, <2>3, <2>4, <2>10, <3>1 DEF NameBalance
  <2>11. CASE n \in namecounter /\ R(n) # 0
    <3>1. In(n, namecounter) = 1
      BY <2>11 DEF In
    <3>2. R(n) = 1 /\ In(n, lostNames) = 0
      BY <2>4, <2>8, <2>11, <3>1
    <3>3. In(n, lostNames)' = 0
      BY <2>7, <3>2 DEF In
    <3> QED
      BY <2>1, <2>3, <2>4, <3>1, <3>2, <3>3 DEF NameBalance
  <2> QED
    BY <2>9, <2>10, <2>11
<1>4. ASSUME NEW h \in Handle, status'[h] # "closed" PROVE SocketBalance(h)'
  <2>1. QB(h)' = 0 /\ MB(h)' = 0
    BY <1>1, CountEmpty DEF QB, MB
  <2>2. TriesBy(h)' = {}
    BY <1>2, PidFacts DEF TriesBy
  <2>3. TB(h)' = 0
    BY <2>2, FS_EmptySet DEF TB
  <2>4. status[h] = "new" /\ status'[h] = "new"
    BY <1>1, <1>4
  <2>5. In(h, stuck)' = In(h, stuck) /\ In(h, stuck) \in {0, 1}
    BY <1>1 DEF In
  <2>6. /\ TB(h) \in Nat /\ MB(h) \in Nat /\ QB(h) \in Nat
        /\ QB(h) + MB(h) + TB(h) + In(h, stuck) = 0
    BY <2>4, Sums
  <2>7. In(h, stuck) = 0
    BY <2>5, <2>6
  <2> QED
    BY <2>1, <2>3, <2>4, <2>5, <2>7 DEF SocketBalance
<1> QED
  BY <1>3, <1>4 DEF Balances, SocketBalance


\* Every step keeps the balances,
LEMMA BalancesStep == Typed /\ Typed' /\ Balances /\ [Next]_vars => Balances'
<1> SUFFICES ASSUME Typed, Typed', Balances, [Next]_vars PROVE Balances'
  OBVIOUS
<1>1. CASE \/ \E h \in Handle : Login(h) \/ Close(h)
           \/ \E h \in Handle, n \in Name : CreateRole(h, n)
           \/ GetPlayerListByAccount \/ CreateOffline
           \/ \E t \in tries : GenPlayerId(t) \/ _TryCreateRole2(t)
           \/ \E p \in Pid : RevertRole(p) \/ LoseRevert(p)
           \/ SavePlayerIdCounter \/ LoadPlayerIdCounter
  BY <1>1, OtherSteps
<1>2. CASE InsertNewNameCounter
  BY <1>2, InsertNewNameCounterBalance
<1>3. CASE DbDeleteName
  BY <1>3, DbDeleteNameBalance
<1>4. CASE CreatePlayer
  BY <1>4, CreatePlayerBalance
<1>5. CASE _CreateRole3
  BY <1>5, CreateRole3Balance
<1>6. CASE _TrueCreateRole1
  BY <1>6, TrueCreateRole1Balance
<1>7. CASE LoseAnswer
  BY <1>7, LoseAnswerBalance
<1>8. ASSUME NEW t \in tries, _TrueCreateRole2(t) PROVE Balances'
  BY <1>8, TrueCreateRole2Balance
<1>9. ASSUME NEW t \in tries, LoseTry(t) PROVE Balances'
  <2>1. {t} \in SUBSET tries /\ Forget({t}) /\ UNCHANGED <<status, dbQueue, dbMail, player, namecounter>>
    BY <1>9 DEF LoseTry, loginVars, gameDb
  <2> QED
    BY <2>1, ForgetBalance
<1>10. CASE RestartCS
  <2> DEFINE F == {t \in tries : t.stage = "supplied"}
  <2>1. F \in SUBSET tries /\ Forget(F) /\ UNCHANGED <<status, dbQueue, dbMail, player, namecounter>>
    BY <1>10 DEF RestartCS, loginVars, gameDb
  <2>2. PICK G \in SUBSET tries : G = F
    BY <2>1
  <2> HIDE DEF F
  <2>3. Forget(G)
    BY <2>1, <2>2
  <2> QED
    BY <2>1, <2>3, ForgetBalance
<1>11. CASE RestartGS
  BY <1>11, RestartGSBalance
<1>12. CASE UNCHANGED vars
  <2>1. UNCHANGED <<status, dbQueue, dbMail, tries, player, namecounter, lostNames, stuck>>
    BY <1>12 DEF vars, loginVars, gameDb, history
  <2> QED
    BY <2>1, SameCounts, StillBalanced
<1> QED
  BY <1>1, <1>2, <1>3, <1>4, <1>5, <1>6, <1>7, <1>8, <1>9, <1>10, <1>11, <1>12 DEF Next, GameDbStep

\* and at first there is nothing to balance.
LEMMA InitInv == Init => IInv
<1> SUFFICES ASSUME Init PROVE IInv
  OBVIOUS
<1>1. TypeOK
  BY RoleCreateAssumption DEF Init, TypeOK, Pid
<1>2. IsFiniteSet(tries)
  BY FS_EmptySet DEF Init
<1>3. \A p \in Pid : Creating(p) = {} /\ player[p] = None
  BY DEF Init, Creating
<1>4. RowFollowed /\ IdOnce /\ OfflineComes
  BY <1>3 DEF Init, RowFollowed, IdOnce, OfflineComes
<1>5. Balances
  <2>1. ASSUME NEW n \in Name PROVE NameBalance(n)
    <3>1. RolesOf(n) = {} /\ TriesOf(n) = {}
      BY PidFacts, <1>3 DEF Init, RolesOf, Roles, TriesOf
    <3>2. R(n) = 0 /\ T(n) = 0
      BY <3>1, FS_EmptySet DEF R, T
    <3>3. M(n) = 0 /\ Q(n) = 0
      BY CountEmpty DEF Init, M, Q
    <3>4. In(n, lostNames) = 0 /\ In(n, namecounter) = 0
      BY DEF Init, In
    <3> QED
      BY <3>2, <3>3, <3>4 DEF NameBalance
  <2>2. ASSUME NEW h \in Handle PROVE SocketBalance(h)
    <3>1. TriesBy(h) = {}
      BY DEF Init, TriesBy
    <3>2. TB(h) = 0
      BY <3>1, FS_EmptySet DEF TB
    <3>3. MB(h) = 0 /\ QB(h) = 0
      BY CountEmpty DEF Init, MB, QB
    <3>4. In(h, stuck) = 0 /\ status[h] = "new"
      BY DEF Init, In
    <3> QED
      BY <3>2, <3>3, <3>4 DEF SocketBalance
  <2> QED
    BY <2>1, <2>2 DEF Balances
<1> QED
  BY <1>1, <1>2, <1>4, <1>5, Balanced DEF IInv

-----------------------------------------------------------------------------
\* The inductive invariant: the three tables of a role agree because an id is
\* in one place, names and sockets balance because every step that takes a
\* claim somewhere takes it from somewhere else.
THEOREM Invariance == Spec => []IInv
<1>1. IInv /\ [Next]_vars => IInv'
  <2> SUFFICES ASSUME IInv, [Next]_vars PROVE IInv'
    OBVIOUS
  <2>1. Typed /\ Rows /\ Balances
    BY Balanced DEF IInv, Typed, Rows
  <2>2. Typed'
    BY <2>1, TypeStep DEF Typed
  <2>3. Rows'
    BY <2>1, RowsStep DEF Typed
  <2>4. Balances'
    BY <2>1, <2>2, BalancesStep
  <2>5. (TypeOK /\ IsFiniteSet(tries) =>
          (NameClaimedOnce /\ OneCreationPerSocket /\ NothingBefore <=> Balances))'
    BY Balanced, PTL
  <2> QED
    BY <2>2, <2>3, <2>4, <2>5 DEF IInv, Typed, Rows
<1> QED
  BY <1>1, InitInv, PTL DEF Spec

\* Types, for any number of ids, sockets and requests.
THEOREM TypeCorrect == Spec => []TypeOK
<1>1. IInv => TypeOK
  BY DEF IInv
<1> QED
  BY <1>1, Invariance, PTL

\* A taken name has one claim: no two roles share one, and no rollback frees
\* the name of another creation (_TrueCreateRole1, _TrueCreateRole2).
THEOREM NamesClaimed == Spec => []NameClaimedOnce
<1>1. IInv => NameClaimedOnce
  BY DEF IInv
<1> QED
  BY <1>1, Invariance, PTL

\* A socket in in_create_role has just one creation under way or lost with its
\* answer, another one has none (_CreateRole3).
THEOREM OneCreation == Spec => []OneCreationPerSocket
<1>1. IInv => OneCreationPerSocket
  BY DEF IInv
<1> QED
  BY <1>1, Invariance, PTL

\* The row of the index of all roles, the role and its offline row agree, but
\* for what was forgotten and ids that were supplied twice.
THEOREM RowsTogether == Spec => []RowsAgree
<1>1. IInv => RowsAgree
  <2> SUFFICES ASSUME IInv PROVE RowsAgree
    OBVIOUS
  <2>1. TypeOK /\ RowFollowed /\ IdOnce /\ OfflineComes
    BY DEF IInv
  <2>2. \A r \in Requests :
          /\ r.op = "CreatePlayer" => r = Req("CreatePlayer", None, r.name, r.pid)
          /\ r.op = "CreateOffline" => r = Req("CreateOffline", None, None, r.pid)
    BY DEF Requests, Req
  <2>3. \A i \in DOMAIN dbQueue : dbQueue[i] \in Requests /\ dbQueue[i] \in Range(dbQueue)
    BY <2>1 DEF TypeOK, Range
  <2>4. RowHasRole
    <3> SUFFICES ASSUME NEW r \in roleinfo PROVE RowHasRole!(r)
      BY DEF RowHasRole
    <3>1. CASE \E i \in Creating(r.pid) : dbQueue[i].name = r.name
      <4>1. PICK i \in DOMAIN dbQueue :
              dbQueue[i].op = "CreatePlayer" /\ dbQueue[i].pid = r.pid /\ dbQueue[i].name = r.name
        BY <3>1 DEF Creating
      <4> QED
        BY <2>2, <2>3, <4>1
    <3> QED
      BY <2>1, <3>1 DEF RowFollowed
  <2>5. RoleHasRow
    <3> SUFFICES ASSUME NEW p \in Roles PROVE RoleHasRow!(p)
      BY DEF RoleHasRow
    <3>1. p \in Pid /\ player[p] # None
      BY DEF Roles
    <3>2. [pid |-> p, name |-> player[p]] \in roleinfo \/ p \in twice
      BY <2>1, <3>1 DEF IdOnce
    <3>3. CASE \E i \in DOMAIN dbQueue : dbQueue[i].op = "CreateOffline" /\ dbQueue[i].pid = p
      BY <2>2, <2>3, <3>2, <3>3
    <3> QED
      BY <2>1, <3>1, <3>2, <3>3 DEF OfflineComes
  <2> QED
    BY <2>4, <2>5 DEF RowsAgree
<1> QED
  BY <1>1, Invariance, PTL

=============================================================================
