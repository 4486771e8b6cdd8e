--------------------------- MODULE PayOrderProofs ---------------------------
(***************************************************************************)
(* Proofs about PayOrder, for every finite set of orders and any bounds:    *)
(* IInv is inductive, so that an order is given once, what was reported is  *)
(* given, and the two rows of a player agree, but for the cases that the    *)
(* histories name.                                                          *)
(***************************************************************************)
EXTENDS PayOrder, FiniteSetTheorems, SequenceTheorems, WellFoundedInduction, TLAPS

\* The numbers of a sequence have a largest one with any property.
LEMMA LastOf ==
  ASSUME NEW n \in Nat, NEW S \in SUBSET (1..n), S # {}
  PROVE  \E x \in S : \A y \in S : y <= x
<1> DEFINE Above(x) == {y \in S : x < y}
           T == {Above(x) : x \in S}
<1>1. IsFiniteSet(1..n)
  BY FS_Interval
<1>2. T \subseteq FiniteSubsetsOf(1..n)
  <2> SUFFICES ASSUME NEW x \in S PROVE Above(x) \in FiniteSubsetsOf(1..n)
    OBVIOUS
  <2>1. Above(x) \in SUBSET (1..n)
    OBVIOUS
  <2> QED
    BY <1>1, <2>1, FS_Subset DEF FiniteSubsetsOf
<1>3. T # {}
  OBVIOUS
<1>4. PICK t \in T : \A u \in T : ~(<<u, t>> \in StrictSubsetOrdering(1..n))
  <2> HIDE DEF T
  <2> QED
    BY <1>1, <1>2, <1>3, FS_StrictSubsetOrderingWellFounded, WFMin
<1>5. PICK x \in S : t = Above(x)
  BY <1>4
<1>6. \A y \in S : y <= x
  <2> SUFFICES ASSUME NEW y \in S, x < y PROVE FALSE
    BY <1>5
  <2>1. Above(y) \subseteq Above(x)
    <3>1. \A z \in S : y < z => x < z
      BY <1>5
    <3> QED
      BY <3>1
  <2>2. y \in Above(x) /\ y \notin Above(y)
    OBVIOUS
  <2>3. Above(y) \in SUBSET (1..n) /\ Above(x) \in SUBSET (1..n)
    OBVIOUS
  <2>4. <<Above(y), Above(x)>> \in StrictSubsetOrdering(1..n)
    BY <2>1, <2>2, <2>3, Zenon DEF StrictSubsetOrdering
  <2>5. Above(y) \in T
    OBVIOUS
  <2> QED
    BY <1>4, <1>5, <2>4, <2>5
<1> QED
  BY <1>6

\* What the row x holds when the writes s to the rows d are made.
Writes(s, x) == {i \in DOMAIN s : s[i].obj = x}
Row(s, d, x) ==
  IF Writes(s, x) = {} THEN d[x]
  ELSE s[CHOOSE i \in Writes(s, x) : \A j \in Writes(s, x) : j <= i].data

LEMMA RowIsSaved == \A x : SavedRow(x) = Row(dbMail, db, x)
BY DEF SavedRow, Row, Writes

LEMMA RowIsSavedNext == \A x : SavedRow(x)' = Row(dbMail', db', x)
BY DEF SavedRow, Row, Writes

\* It is the last one written,
LEMMA RowLast ==
  ASSUME NEW S, NEW s \in Seq(S), NEW d, NEW x, NEW k \in Writes(s, x),
         \A j \in Writes(s, x) : j <= k
  PROVE  Row(s, d, x) = s[k].data
<1>1. Writes(s, x) \subseteq Int
  BY DEF Writes
<1>2. (CHOOSE i \in Writes(s, x) : \A j \in Writes(s, x) : j <= i) = k
  BY <1>1
<1> QED
  BY <1>2 DEF Row

\* if there is one.
LEMMA HasLast ==
  ASSUME NEW S, NEW s \in Seq(S), NEW x, Writes(s, x) # {}
  PROVE  \E k \in Writes(s, x) : \A j \in Writes(s, x) : j <= k
<1>1. Writes(s, x) \in SUBSET (1..Len(s)) /\ Len(s) \in Nat
  BY DEF Writes
<1> QED
  BY <1>1, LastOf

\* A write appended is the last one of its row,
LEMMA RowAppended ==
  ASSUME NEW S, NEW s \in Seq(S), NEW w \in S, NEW d, NEW x
  PROVE  Row(Append(s, w), d, x) = IF w.obj = x THEN w.data ELSE Row(s, d, x)
<1> DEFINE t == Append(s, w)
           n == Len(s) + 1
<1>1. /\ t \in Seq(S) /\ DOMAIN t = DOMAIN s \cup {n} /\ t[n] = w /\ n \notin DOMAIN s
      /\ \A i \in DOMAIN s : t[i] = s[i] /\ i <= n /\ i \in Int
      /\ n <= n
  OBVIOUS
<1> HIDE DEF t, n
<1>2. CASE w.obj = x
  <2>1. n \in Writes(t, x) /\ \A j \in Writes(t, x) : j <= n
    BY <1>1, <1>2 DEF Writes
  <2>2. Row(t, d, x) = t[n].data
    BY <1>1, <2>1, RowLast
  <2> QED
    BY <1>1, <1>2, <2>2 DEF t
<1>3. CASE w.obj # x
  <2>1. Writes(t, x) = Writes(s, x)
    BY <1>1, <1>3 DEF Writes
  <2>2. CASE Writes(s, x) = {}
    BY <1>3, <2>1, <2>2 DEF Row, t
  <2>3. CASE Writes(s, x) # {}
    <3>1. PICK k \in Writes(s, x) : \A j \in Writes(s, x) : j <= k
      BY <2>3, HasLast
    <3>2. Row(s, d, x) = s[k].data
      BY <3>1, RowLast
    <3>3. Row(t, d, x) = t[k].data
      BY <1>1, <2>1, <3>1, RowLast
    <3>4. t[k] = s[k]
      BY <1>1, <3>1 DEF Writes
    <3> QED
      BY <1>3, <3>2, <3>3, <3>4 DEF t
  <2> QED
    BY <2>2, <2>3
<1> QED
  BY <1>2, <1>3

\* one that is made is in the row,
LEMMA RowMade ==
  ASSUME NEW S, NEW s \in Seq(S), s # <<>>, NEW d, NEW e, NEW x,
         e[x] = IF Head(s).obj = x THEN Head(s).data ELSE d[x]
  PROVE  Row(Tail(s), e, x) = Row(s, d, x)
<1> DEFINE t == Tail(s)
<1>1. /\ t \in Seq(S) /\ 1 \in DOMAIN s /\ Head(s) = s[1]
      /\ \A i \in DOMAIN t : i \in Int /\ i >= 1 /\ i + 1 \in DOMAIN s /\ t[i] = s[i + 1]
      /\ \A i \in DOMAIN s : i \in Int /\ (i = 1 \/ (i - 1 \in DOMAIN t /\ t[i - 1] = s[i]))
  OBVIOUS
<1> HIDE DEF t
<1>2. CASE Writes(t, x) = {}
  <2>1. \A i \in DOMAIN s : s[i].obj = x => i = 1
    BY <1>1, <1>2 DEF Writes
  <2>2. CASE Head(s).obj = x
    <3>1. 1 \in Writes(s, x) /\ \A j \in Writes(s, x) : j <= 1
      BY <1>1, <2>1, <2>2 DEF Writes
    <3>2. Row(s, d, x) = s[1].data
      BY <3>1, RowLast
    <3> QED
      BY <1>1, <1>2, <2>2, <3>2 DEF Row, t
  <2>3. CASE Head(s).obj # x
    <3>1. Writes(s, x) = {}
      BY <1>1, <2>1, <2>3 DEF Writes
    <3> QED
      BY <1>2, <2>3, <3>1 DEF Row, t
  <2> QED
    BY <2>2, <2>3
<1>3. CASE Writes(t, x) # {}
  <2>1. PICK k \in Writes(t, x) : \A j \in Writes(t, x) : j <= k
    BY <1>1, <1>3, HasLast
  <2>2. Row(t, e, x) = t[k].data
    BY <1>1, <2>1, RowLast
  <2>3. k \in DOMAIN t /\ t[k].obj = x
    BY DEF Writes
  <2>4. k + 1 \in Writes(s, x) /\ k \in Int /\ k >= 1
    BY <1>1, <2>3 DEF Writes
  <2>5. ASSUME NEW j \in Writes(s, x) PROVE j <= k + 1
    <3>1. j \in DOMAIN s /\ s[j].obj = x /\ j \in Int
      BY <1>1 DEF Writes
    <3>2. CASE j = 1
      BY <2>4, <3>2
    <3>3. CASE j # 1
      <4>1. j - 1 \in Writes(t, x)
        BY <1>1, <3>1, <3>3 DEF Writes
      <4>2. j - 1 <= k
        BY <2>1, <4>1
      <4> QED
        BY <2>4, <3>1, <4>2
    <3> QED
      BY <3>2, <3>3
  <2>6. Row(s, d, x) = s[k + 1].data
    BY <2>4, <2>5, RowLast
  <2> QED
    BY <1>1, <2>2, <2>3, <2>6 DEF t
<1> QED
  BY <1>2, <1>3

\* and without writes the row is as it is.
LEMMA RowAtRest == \A d, x : Row(<<>>, d, x) = d[x]
BY DEF Row, Writes

-----------------------------------------------------------------------------
Object == {"privacy", "goods"}
Writing == [obj : {"privacy"}, data : PrivacyData] \cup [obj : {"goods"}, data : GoodsData]
Data(x) == IF x = "privacy" THEN privacy ELSE goods

\* Writes are about one of the two objects.
LEMMA WritingFacts ==
  /\ \A w \in Writing : /\ w.obj \in Object
                        /\ w.obj = "privacy" => w.data \in PrivacyData
                        /\ w.obj = "goods" => w.data \in GoodsData
  /\ \A p \in PrivacyData : p.orders \subseteq Order /\ p.funcs \subseteq Order
BY DEF Writing, Object, PrivacyData

LEMMA MailFacts ==
  ASSUME TypeOK
  PROVE  /\ dbMail \in Seq(Writing)
         /\ \A i \in DOMAIN dbMail : dbMail[i] \in Writing
         /\ dbMail # <<>> => Head(dbMail) = dbMail[1] /\ 1 \in DOMAIN dbMail /\ Tail(dbMail) \in Seq(Writing)
         /\ dbMail # <<>> => \A i \in DOMAIN Tail(dbMail) : i + 1 \in DOMAIN dbMail /\ Tail(dbMail)[i] = dbMail[i + 1]
         /\ \A x \in Object : Write(x) \in Writing /\ Write(x).obj = x /\ Write(x).data = Data(x)
<1>1. dbMail \in Seq(Writing)
  BY DEF TypeOK, Writing
<1>2. \A x \in Object : Write(x) \in Writing /\ Write(x).obj = x /\ Write(x).data = Data(x)
  BY DEF TypeOK, Writing, Write, Data, Object
<1> HIDE DEF Writing
<1> QED
  BY <1>1, <1>2

\* What is saved has its type.
LEMMA SavedTyped ==
  ASSUME TypeOK
  PROVE  SavedRow("privacy") \in PrivacyData /\ SavedRow("goods") \in GoodsData
<1>1. db["privacy"] \in PrivacyData /\ db["goods"] \in GoodsData
  BY DEF TypeOK
<1>2. ASSUME NEW x \in Object, Writes(dbMail, x) # {}
      PROVE  \E w \in Writing : w.obj = x /\ SavedRow(x) = w.data
  <2>1. PICK k \in Writes(dbMail, x) : \A j \in Writes(dbMail, x) : j <= k
    BY <1>2, MailFacts, HasLast
  <2>2. SavedRow(x) = dbMail[k].data
    BY <2>1, MailFacts, RowLast, RowIsSaved
  <2> QED
    BY <2>2, MailFacts DEF Writes
<1>3. ASSUME NEW x \in Object, Writes(dbMail, x) = {} PROVE SavedRow(x) = db[x]
  BY <1>3, RowIsSaved DEF Row
<1> QED
  BY <1>1, <1>2, <1>3, WritingFacts DEF Object

\* The saved rows when nothing is written, a write is made, the game server
\* stops,
LEMMA SavedSame ==
  dbMail' = dbMail /\ db' = db => \A x : SavedRow(x)' = SavedRow(x)
BY RowIsSaved, RowIsSavedNext

LEMMA SavedMade ==
  ASSUME TypeOK, DbWrite
  PROVE  \A x \in Object : SavedRow(x)' = SavedRow(x)
<1>1. dbMail # <<>> /\ dbMail' = Tail(dbMail) /\ db' = [db EXCEPT ![Head(dbMail).obj] = Head(dbMail).data]
  BY DEF DbWrite
<1>2. \A x \in Object : db'[x] = IF Head(dbMail).obj = x THEN Head(dbMail).data ELSE db[x]
  BY <1>1 DEF TypeOK, Object
<1>3. dbMail \in Seq(Writing)
  BY MailFacts
<1>4. \A x \in Object : Row(Tail(dbMail), db', x) = Row(dbMail, db, x)
  BY <1>1, <1>2, <1>3, RowMade
<1> QED
  BY <1>1, <1>4, RowIsSaved, RowIsSavedNext

LEMMA SavedStopped ==
  dbMail' = <<>> /\ db' = db => SavedRow("privacy")' = db.privacy /\ SavedRow("goods")' = db.goods
BY RowAtRest, RowIsSavedNext

\* and when an object, and the one merged with it, is saved.
LEMMA SavedBySave ==
  ASSUME TypeOK, NEW obj \in Object, _RecuSave(obj), db' = db
  PROVE  /\ \A x \in Object :
              SavedRow(x)' = IF x \in dirty /\ (x = obj \/ merged) THEN Data(x) ELSE SavedRow(x)
         /\ dbMail' \in Seq(Writing)
         /\ \A i \in DOMAIN dbMail' : \/ i \in DOMAIN dbMail /\ dbMail'[i] = dbMail[i]
                                      \/ \E x \in Object : dbMail'[i] = Write(x)
<1> DEFINE o2 == OtherObj(obj)
           s == dbMail \o DoSave(obj)
           f == IF merged THEN DoSave(o2) ELSE <<>>
<1>1. o2 \in Object /\ o2 # obj /\ \A x \in Object : x = obj \/ x = o2
  BY DEF OtherObj, Object
<1>2. dbMail \in Seq(Writing) /\ Write(obj) \in Writing /\ Write(o2) \in Writing
      /\ Write(obj).obj = obj /\ Write(obj).data = Data(obj)
      /\ Write(o2).obj = o2 /\ Write(o2).data = Data(o2)
  BY <1>1, MailFacts
<1>3. dbMail' = s \o f
  BY DEF _RecuSave
<1>4. /\ obj \in dirty => s = Append(dbMail, Write(obj))
      /\ obj \notin dirty => s = dbMail
  BY <1>2 DEF DoSave
<1>5. s \in Seq(Writing)
  <2> HIDE DEF s, Writing
  <2>1. Append(dbMail, Write(obj)) \in Seq(Writing)
    BY <1>2
  <2> QED
    BY <1>2, <1>4, <2>1
<1>6. \A i \in DOMAIN s : \/ i \in DOMAIN dbMail /\ s[i] = dbMail[i]
                          \/ s[i] = Write(obj)
  <2> HIDE DEF s, Writing
  <2>1. \A i \in DOMAIN Append(dbMail, Write(obj)) :
          \/ i \in DOMAIN dbMail /\ Append(dbMail, Write(obj))[i] = dbMail[i]
          \/ Append(dbMail, Write(obj))[i] = Write(obj)
    BY <1>2
  <2> QED
    BY <1>4, <2>1
<1>7. /\ (merged /\ o2 \in dirty) => dbMail' = Append(s, Write(o2))
      /\ ~(merged /\ o2 \in dirty) => dbMail' = s
  <2> HIDE DEF s, Writing
  <2> QED
    BY <1>2, <1>3, <1>5 DEF DoSave
<1> HIDE DEF s, f, Writing, o2
<1>8. dbMail' \in Seq(Writing)
  <2>1. Append(s, Write(o2)) \in Seq(Writing)
    BY <1>2, <1>5
  <2> QED
    BY <1>5, <1>7, <2>1
<1>9. \A i \in DOMAIN dbMail' : \/ i \in DOMAIN s /\ dbMail'[i] = s[i]
                                \/ dbMail'[i] = Write(o2)
  <2>1. \A i \in DOMAIN Append(s, Write(o2)) :
          \/ i \in DOMAIN s /\ Append(s, Write(o2))[i] = s[i]
          \/ Append(s, Write(o2))[i] = Write(o2)
    BY <1>2, <1>5
  <2> QED
    BY <1>7, <2>1
<1>10. \A i \in DOMAIN dbMail' : \/ i \in DOMAIN dbMail /\ dbMail'[i] = dbMail[i]
                                 \/ \E x \in Object : dbMail'[i] = Write(x)
  BY <1>1, <1>6, <1>9
<1>11. \A x : Row(s, db, x) = IF obj \in dirty /\ x = obj THEN Data(obj) ELSE Row(dbMail, db, x)
  <2>1. \A x : Row(Append(dbMail, Write(obj)), db, x) = IF obj = x THEN Data(obj) ELSE Row(dbMail, db, x)
    BY <1>2, RowAppended
  <2> QED
    BY <1>4, <2>1
<1>12. \A x : Row(dbMail', db, x) = IF merged /\ o2 \in dirty /\ x = o2 THEN Data(o2) ELSE Row(s, db, x)
  <2>1. \A x : Row(Append(s, Write(o2)), db, x) = IF o2 = x THEN Data(o2) ELSE Row(s, db, x)
    BY <1>2, <1>5, RowAppended
  <2> QED
    BY <1>7, <2>1
<1>13. ASSUME NEW x \in Object
       PROVE  SavedRow(x)' = IF x \in dirty /\ (x = obj \/ merged) THEN Data(x) ELSE SavedRow(x)
  <2>1. SavedRow(x)' = Row(dbMail', db, x) /\ SavedRow(x) = Row(dbMail, db, x)
    BY RowIsSaved, RowIsSavedNext
  <2>2. CASE x = obj
    BY <1>1, <1>11, <1>12, <2>1, <2>2
  <2>3. CASE x = o2
    BY <1>1, <1>11, <1>12, <2>1, <2>3
  <2> QED
    BY <1>1, <2>2, <2>3
<1> QED
  BY <1>8, <1>10, <1>13

-----------------------------------------------------------------------------
\* The types after a save, and after orders are given out.
LEMMA SaveTyped ==
  ASSUME TypeOK, NEW obj \in Object, _RecuSave(obj), db' = db
  PROVE  /\ dbMail' \in Seq([obj : {"privacy"}, data : PrivacyData] \cup [obj : {"goods"}, data : GoodsData])
         /\ dirty' \subseteq dirty /\ obj \notin dirty' /\ merged' = FALSE /\ loose' \subseteq loose
BY SavedBySave DEF _RecuSave, Writing

LEMMA GiveTyped ==
  ASSUME TypeOK, NEW p \in PrivacyData, NEW b \in SUBSET Order, NEW bad, _PaySuccessedCb1(p, b, bad)
  PROVE  /\ privacy' \in PrivacyData /\ goods' \in GoodsData
         /\ dirty' \subseteq dirty \cup (IF online THEN {"privacy", "goods"} ELSE {"privacy"})
         /\ merged' \in BOOLEAN /\ (merged' => merged \/ online)
         /\ marks' \subseteq Order
         /\ faults' \in 0..MaxFaults
<1>1. bad \subseteq b /\ Fail(bad) /\ DealSucceedOrder(p, (b \ p.orders) \ bad)
      /\ merged' = (merged \/ online) /\ marks' = marks \cup (b \ bad)
  BY DEF _PaySuccessedCb1
<1>2. IsFiniteSet(bad)
  BY <1>1, PayAssumption, FS_Subset
<1>3. Cardinality(bad) \in Nat
  BY <1>2, FS_CardinalityType
<1>4. faults' \in 0..MaxFaults
  BY <1>1, <1>3, PayAssumption DEF Fail, TypeOK
<1>5. privacy' \in PrivacyData
  BY <1>1 DEF DealSucceedOrder, PrivacyData
<1>6. goods' \in GoodsData
  <2>1. goods \in [Order -> Nat]
    BY DEF TypeOK, GoodsData
  <2>2. \A o \in Order : goods[o] + 1 \in Nat /\ goods[o] + 0 \in Nat
    BY <2>1
  <2>3. CASE online
    <3> DEFINE g == (b \ p.orders) \ bad
               h == [o \in Order |-> goods[o] + (IF o \in g THEN 1 ELSE 0)]
    <3>1. goods' = h
      BY <1>1, <2>3 DEF DealSucceedOrder
    <3>2. h \in [Order -> Nat]
      BY <2>2
    <3> QED
      BY <3>1, <3>2 DEF GoodsData
  <2>4. CASE ~online
    BY <1>1, <2>1, <2>4 DEF DealSucceedOrder, GoodsData
  <2> QED
    BY <2>3, <2>4
<1>7. dirty' \subseteq dirty \cup (IF online THEN {"privacy", "goods"} ELSE {"privacy"})
  BY <1>1 DEF DealSucceedOrder
<1> QED
  BY <1>1, <1>4, <1>5, <1>6, <1>7 DEF TypeOK

\* Every step keeps the types.
LEMMA TypeStep == TypeOK /\ [Next]_vars => TypeOK'
<1> SUFFICES ASSUME TypeOK, [Next]_vars PROVE TypeOK'
  OBVIOUS
<1> USE DEF payVars, routerVars, worldVars, dbVars, historyVars
<1>1. ASSUME NEW o \in Order, PayCallback(o) \/ MarkOrderAsDealed(o) PROVE TypeOK'
  <2>1. pay' \in [Order -> {"none", "open", "dealt"}] /\ asked' \subseteq Order /\ marks' \subseteq Order
    BY <1>1 DEF PayCallback, MarkOrderAsDealed, TypeOK
  <2>2. UNCHANGED <<toGs, deals, worldVars, dbVars, historyVars>>
    BY <1>1 DEF PayCallback, MarkOrderAsDealed
  <2> QED
    BY <2>1, <2>2 DEF TypeOK
<1>2. ASSUME NEW b \in Batch, SendOrder2GS(b) PROVE toGs' \in [Batch -> 0..MaxMail]
  <2>1. toGs[b] + 1 \in 0..MaxMail
    BY <1>2, PayAssumption DEF SendOrder2GS, TypeOK
  <2> QED
    BY <1>2, <2>1 DEF SendOrder2GS, TypeOK
<1>3. ASSUME NEW b \in Batch, toGs[b] > 0, toGs' = [toGs EXCEPT ![b] = @ - 1]
      PROVE  toGs' \in [Batch -> 0..MaxMail]
  <2>1. toGs[b] - 1 \in 0..MaxMail
    BY <1>3, PayAssumption DEF TypeOK
  <2> QED
    BY <1>3, <2>1 DEF TypeOK
<1>4. deals > 0 /\ deals' = deals - 1 => deals' \in 0..MaxMail
  BY PayAssumption DEF TypeOK
<1>5. faults < MaxFaults /\ faults' = faults + 1 => faults' \in 0..MaxFaults
  BY PayAssumption DEF TypeOK
<1>6. ASSUME NEW o \in Order, _PayCallback1(o) PROVE TypeOK'
  <2>1. {o} \in Batch
    <3>1. {o} \in SUBSET Order /\ {o} # {}
      OBVIOUS
    <3> QED
      BY <3>1 DEF Batch
  <2>2. toGs' \in [Batch -> 0..MaxMail]
    <3>1. CASE SendOrder2GS({o})
      BY <1>2, <2>1, <3>1
    <3>2. CASE toGs' = toGs
      BY <3>2 DEF TypeOK
    <3> QED
      BY <1>6, <3>1, <3>2 DEF _PayCallback1
  <2>3. asked' \subseteq Order
    BY <1>6 DEF _PayCallback1, TypeOK
  <2> QED
    BY <1>6, <2>2, <2>3 DEF _PayCallback1, TypeOK
<1>7. CASE DealUntreatedOrder
  <2>1. toGs' \in [Batch -> 0..MaxMail]
    <3> DEFINE open == {o \in Order : pay[o] = "open"}
    <3>1. CASE open # {} /\ SendOrder2GS(open)
      <4>1. PICK b \in Batch : b = open
        <5>1. open \in SUBSET Order
          OBVIOUS
        <5> HIDE DEF open
        <5> QED
          BY <3>1, <5>1 DEF Batch
      <4> QED
        BY <1>2, <3>1, <4>1
    <3>2. CASE toGs' = toGs
      BY <3>2 DEF TypeOK
    <3> QED
      BY <1>7, <3>1, <3>2 DEF DealUntreatedOrder
  <2> QED
    BY <1>4, <1>7, <2>1 DEF DealUntreatedOrder, TypeOK
<1>8. ASSUME NEW b \in Batch, PaySuccessedCb(b) PROVE TypeOK'
  <2>1. toGs' \in [Batch -> 0..MaxMail] /\ b \in SUBSET Order
    BY <1>3, <1>8 DEF PaySuccessedCb, Batch
  <2>2. ASSUME block = "loaded", NEW bad \in SUBSET b, _PaySuccessedCb1(privacy, b, bad),
               UNCHANGED <<block, waiting>>
        PROVE  TypeOK'
    <3>1. privacy \in PrivacyData
      BY DEF TypeOK
    <3> QED
      BY <1>8, <2>1, <2>2, <3>1, GiveTyped DEF PaySuccessedCb, TypeOK
  <2>3. CASE /\ block # "loaded" /\ block' = "loading" /\ waiting' = waiting \cup b
             /\ UNCHANGED <<marks, privacy, goods, dirty, merged, faults>>
    BY <1>8, <2>1, <2>3 DEF PaySuccessedCb, TypeOK
  <2> QED
    BY <1>8, <2>2, <2>3 DEF PaySuccessedCb
<1>9. CASE LoadPrivacy
  BY <1>9 DEF LoadPrivacy, TypeOK
<1>10. CASE OnLoaded
  <2>1. PICK bad \in SUBSET waiting : _PaySuccessedCb1(db.privacy, waiting, bad)
    BY <1>10 DEF OnLoaded
  <2>2. db.privacy \in PrivacyData /\ waiting \in SUBSET Order
    BY DEF TypeOK
  <2>3. /\ privacy' \in PrivacyData /\ goods' \in GoodsData
        /\ dirty' \subseteq dirty \cup (IF online THEN {"privacy", "goods"} ELSE {"privacy"})
        /\ merged' \in BOOLEAN /\ (merged' => merged \/ online)
        /\ marks' \subseteq Order /\ faults' \in 0..MaxFaults
    BY <2>1, <2>2, GiveTyped
  <2> QED
    BY <1>10, <2>3 DEF OnLoaded, TypeOK
<1>11. CASE CleanOfflineBlock
  BY <1>11 DEF CleanOfflineBlock, TypeOK, NoPrivacy, PrivacyData
<1>12. CASE LoadEnd
  <2>1. PICK given \in SUBSET privacy.funcs : OnLogin(given)
    BY <1>12 DEF LoadEnd
  <2>2. privacy \in PrivacyData /\ privacy.funcs \subseteq Order
    BY DEF TypeOK, PrivacyData
  <2>3. privacy' \in PrivacyData
    BY <2>1, <2>2 DEF OnLogin, PrivacyData
  <2>4. goods' \in GoodsData
    <3>1. \A o \in Order : db.goods[o] + 1 \in Nat /\ db.goods[o] + 0 \in Nat
      BY DEF TypeOK, GoodsData
    <3> QED
      BY <2>1, <3>1 DEF OnLogin, GoodsData
  <2>5. loose' \subseteq Order /\ dropped' \subseteq Order /\ dirty' \subseteq {"privacy", "goods"}
    BY <2>1, <2>2 DEF OnLogin, TypeOK
  <2>6. deals' \in 0..MaxMail /\ faults' \in 0..MaxFaults
    <3>1. deals < MaxMail /\ deals' = deals + 1 => deals' \in 0..MaxMail
      BY PayAssumption DEF TypeOK
    <3> QED
      BY <1>5, <1>12, <3>1 DEF LoadEnd, TypeOK
  <2> QED
    BY <1>12, <2>3, <2>4, <2>5, <2>6 DEF LoadEnd, TypeOK
<1>13. CASE SavePrivacy
  BY <1>13, SaveTyped DEF SavePrivacy, TypeOK, Object
<1>14. CASE SavePlayer
  BY <1>14, SaveTyped DEF SavePlayer, TypeOK, Object
<1>15. CASE Logout
  <2>1. goods' \in GoodsData
    BY <1>15 DEF Logout, NoGoods, GoodsData
  <2> QED
    BY <1>15, <2>1, SaveTyped DEF Logout, TypeOK, Object
<1>16. CASE DbWrite
  <2>1. /\ dbMail # <<>> /\ dbMail' = Tail(dbMail)
        /\ db' = [db EXCEPT ![Head(dbMail).obj] = Head(dbMail).data]
    BY <1>16 DEF DbWrite
  <2>2. dbMail' \in Seq([obj : {"privacy"}, data : PrivacyData] \cup [obj : {"goods"}, data : GoodsData])
    BY <2>1 DEF TypeOK
  <2>3. Head(dbMail) \in Writing
    BY <2>1, MailFacts
  <2>4. db' \in [privacy : PrivacyData, goods : GoodsData]
    <3>1. CASE Head(dbMail).obj = "privacy"
      BY <2>1, <2>3, <3>1, WritingFacts DEF TypeOK
    <3>2. CASE Head(dbMail).obj = "goods"
      BY <2>1, <2>3, <3>2, WritingFacts DEF TypeOK
    <3> QED
      BY <2>3, <3>1, <3>2, WritingFacts DEF Object
  <2> QED
    BY <1>16, <2>2, <2>4 DEF DbWrite, TypeOK
<1>17. CASE LoseMessage
  <2>1. toGs' \in [Batch -> 0..MaxMail] /\ deals' \in 0..MaxMail /\ marks' \subseteq Order
    BY <1>3, <1>4, <1>17 DEF LoseMessage, TypeOK
  <2> QED
    BY <1>5, <1>17, <2>1 DEF LoseMessage, TypeOK
<1>18. CASE StopGS
  <2>1. goods' \in GoodsData /\ privacy' \in PrivacyData
    BY <1>18 DEF StopGS, NoGoods, GoodsData, NoPrivacy, PrivacyData
  <2>2. faults' \in 0..MaxFaults
    BY <1>5, <1>18 DEF StopGS
  <2>3. torn' \subseteq Order /\ unsaved' \subseteq Order
    BY <1>18 DEF StopGS, TypeOK
  <2>4. dbMail' \in Seq([obj : {"privacy"}, data : PrivacyData] \cup [obj : {"goods"}, data : GoodsData])
    BY <1>18 DEF StopGS
  <2> HIDE DEF GoodsData, PrivacyData
  <2> QED
    BY <1>18, <2>1, <2>2, <2>3, <2>4 DEF StopGS, TypeOK
<1>19. CASE UNCHANGED vars
  BY <1>19 DEF vars, TypeOK
<1> QED
  BY <1>1, <1>6, <1>7, <1>8, <1>9, <1>10, <1>11, <1>12, <1>13, <1>14, <1>15, <1>16, <1>17, <1>18, <1>19 DEF Next

-----------------------------------------------------------------------------
\* What the player has now, in this state and in the next.
LEMMA NowIs ==
  /\ Privacy = IF block = "loaded" THEN privacy ELSE SavedRow("privacy")
  /\ Goods = IF online THEN goods ELSE SavedRow("goods")
  /\ Saved.privacy = SavedRow("privacy")
  /\ Saved.goods = SavedRow("goods")
BY DEF Privacy, Goods, Saved

LEMMA NowIsNext ==
  /\ Privacy' = IF block' = "loaded" THEN privacy' ELSE SavedRow("privacy")'
  /\ Goods' = IF online' THEN goods' ELSE SavedRow("goods")'
  /\ Saved'.privacy = SavedRow("privacy")'
  /\ Saved'.goods = SavedRow("goods")'
BY DEF Privacy, Goods, Saved

LEMMA NowTyped == TypeOK => Privacy \in PrivacyData /\ Goods \in GoodsData
BY SavedTyped, NowIs DEF TypeOK

LEMMA NowTypedNext == TypeOK' => Privacy' \in PrivacyData /\ Goods' \in GoodsData
<1>1. PrivacyData' = PrivacyData /\ GoodsData' = GoodsData
  BY DEF PrivacyData, GoodsData
<1>2. (TypeOK => Privacy \in PrivacyData /\ Goods \in GoodsData)'
  BY NowTyped, PTL
<1> QED
  BY <1>1, <1>2

\* Rows that agreed go on agreeing while they are the same; and they agree
\* whenever nothing is merged.
LEMMA TogetherSame ==
  ASSUME SavedTogether, TypeOK', \A x \in Object : SavedRow(x)' = SavedRow(x),
         loose \subseteq loose', torn \subseteq torn', dropped \subseteq dropped'
  PROVE  SavedTogether'
BY NowIs, NowIsNext DEF SavedTogether, Agree, Object

LEMMA TogetherApart ==
  ASSUME TypeOK', NowAgree', ApartAsSaved', ~merged'
  PROVE  SavedTogether'
<1> SUFFICES ASSUME NEW o \in Order \ (loose' \cup torn' \cup dropped') PROVE Agree(Saved, o)'
  BY DEF SavedTogether
<1>1. Goods'[o] = IF InHand(Privacy', o) THEN 1 ELSE 0
  BY DEF NowAgree, InHand
<1>2. (InHand(SavedRow("privacy")', o) <=> InHand(Privacy', o)) /\ SavedRow("goods")'[o] = Goods'[o]
  BY DEF ApartAsSaved, InHand
<1> QED
  BY <1>1, <1>2, NowIsNext DEF Agree, InHand

\* A step that changes neither what is saved nor what the player has.
LEMMA Quiet ==
  ASSUME IInv, TypeOK', FuncsNoted', \A x \in Object : SavedRow(x)' = SavedRow(x),
         UNCHANGED <<online, goods, dirty, merged, loose, torn, unsaved, dropped>>,
         Privacy' = Privacy,
         block' = "loaded" => block = "loaded" /\ privacy' = privacy,
         \A o \in Order : pay'[o] = "dealt" \/ o \in marks' => pay[o] = "dealt" \/ o \in marks
  PROVE  IInv'
<1>1. SavedRow("privacy")' = SavedRow("privacy") /\ SavedRow("goods")' = SavedRow("goods")
  BY DEF Object
<1>2. Goods' = Goods
  BY <1>1, NowIs, NowIsNext
<1>3. CleanIsSaved'
  BY <1>1 DEF IInv, CleanIsSaved
<1>4. NowAgree'
  BY <1>2 DEF IInv, NowAgree, InHand
<1>5. SavedTogether'
  BY TogetherSame DEF IInv
<1>6. ApartAsSaved'
  BY <1>1, <1>2 DEF IInv, ApartAsSaved, InHand
<1>7. ReportedNoted'
  BY DEF IInv, ReportedNoted
<1> QED
  BY <1>3, <1>4, <1>5, <1>6, <1>7 DEF IInv

\* The lists in the mail stay as they are.
LEMMA FuncsSame ==
  ASSUME FuncsNoted, UNCHANGED <<dbMail, db>>, privacy'.funcs \subseteq privacy'.orders
  PROVE  FuncsNoted'
BY DEF FuncsNoted

\* A step that leaves the world and the database alone.
LEMMA Elsewhere ==
  ASSUME IInv, TypeOK', UNCHANGED <<worldVars, dbVars, loose, torn, unsaved, dropped>>,
         \A o \in Order : pay'[o] = "dealt" \/ o \in marks' => pay[o] = "dealt" \/ o \in marks
  PROVE  IInv'
<1> USE DEF worldVars, dbVars
<1>1. FuncsNoted'
  BY FuncsSame DEF IInv, FuncsNoted
<1>2. \A x : SavedRow(x)' = SavedRow(x)
  BY SavedSame
<1>3. Privacy' = Privacy
  BY <1>2, NowIs, NowIsNext
<1> QED
  BY <1>1, <1>2, <1>3, Quiet

\* A save: the player's data stays the same, and what is saved comes up to it.
LEMMA SaveKeeps ==
  ASSUME IInv, TypeOK', NEW obj \in Object, _RecuSave(obj),
         UNCHANGED <<pay, marks, block, privacy, db, torn, unsaved, dropped>>,
         \/ UNCHANGED <<online, goods>>
         \/ online /\ ~online' /\ obj = "goods"
  PROVE  IInv'
<1>1. TypeOK
  BY DEF IInv, SavedTogether
<1>2. /\ SavedRow("privacy")' = IF "privacy" \in dirty /\ ("privacy" = obj \/ merged) THEN privacy ELSE SavedRow("privacy")
      /\ SavedRow("goods")' = IF "goods" \in dirty /\ ("goods" = obj \/ merged) THEN goods ELSE SavedRow("goods")
  BY <1>1, SavedBySave DEF Object, Data
<1>3. /\ "privacy" \in dirty => block = "loaded"
      /\ "goods" \in dirty => online
      /\ merged => online /\ block = "loaded"
  BY <1>1 DEF TypeOK
<1>4. /\ block = "loaded" /\ "privacy" \notin dirty => privacy = SavedRow("privacy")
      /\ online /\ "goods" \notin dirty => goods = SavedRow("goods")
  BY DEF IInv, CleanIsSaved
<1>5. Privacy' = Privacy
  BY <1>2, <1>3, NowIs, NowIsNext
<1>6. Goods' = Goods
  BY <1>2, <1>3, <1>4, NowIs, NowIsNext
<1>7. /\ ~merged' /\ dirty' = dirty \ (IF merged THEN {obj, OtherObj(obj)} ELSE {obj})
      /\ loose' = IF dirty' = {} THEN {} ELSE loose
  BY DEF _RecuSave
<1>8. \A x \in Object : x \in dirty' <=> x \in dirty /\ x # obj /\ ~merged
  BY <1>7 DEF Object, OtherObj
<1>9. FuncsNoted'
  <2>1. ASSUME NEW i \in DOMAIN dbMail', dbMail'[i].obj = "privacy"
        PROVE  dbMail'[i].data.funcs \subseteq dbMail'[i].data.orders
    <3>1. CASE i \in DOMAIN dbMail /\ dbMail'[i] = dbMail[i]
      BY <2>1, <3>1 DEF IInv, FuncsNoted
    <3>2. ASSUME NEW x \in Object, dbMail'[i] = Write(x)
          PROVE  dbMail'[i].data.funcs \subseteq dbMail'[i].data.orders
      <4>1. dbMail'[i].data = privacy
        BY <1>1, <2>1, <3>2, MailFacts DEF Data
      <4> QED
        BY <4>1 DEF IInv, FuncsNoted
    <3> QED
      BY <1>1, <3>1, <3>2, SavedBySave
  <2> QED
    BY <2>1 DEF IInv, FuncsNoted
<1>10. CleanIsSaved'
  BY <1>2, <1>4, <1>8 DEF CleanIsSaved, Object
<1>11. NowAgree'
  BY <1>5, <1>6 DEF IInv, NowAgree, InHand
<1>12. ApartAsSaved'
  <2>1. CASE merged \/ dirty' = {}
    <3>1. "privacy" \notin dirty' /\ "goods" \notin dirty'
      BY <1>8, <2>1 DEF Object
    <3>2. SavedRow("privacy")' = Privacy' /\ SavedRow("goods")' = Goods'
      BY <1>10, <3>1, NowIsNext DEF CleanIsSaved
    <3> QED
      BY <3>2 DEF ApartAsSaved, InHand
  <2>2. CASE ~merged /\ dirty' # {}
    <3>1. SavedRow("privacy")' = SavedRow("privacy") \/ SavedRow("privacy")' = Privacy
      BY <1>2, <1>3, NowIs
    <3>2. SavedRow("goods")' = SavedRow("goods") \/ SavedRow("goods")' = Goods
      BY <1>2, <1>3, NowIs
    <3>3. loose' = loose
      BY <1>7, <2>2
    <3> QED
      BY <1>5, <1>6, <2>2, <3>1, <3>2, <3>3 DEF IInv, ApartAsSaved, InHand
  <2> QED
    BY <2>1, <2>2
<1>13. SavedTogether'
  BY <1>7, <1>11, <1>12, TogetherApart
<1>14. ReportedNoted'
  BY <1>5 DEF IInv, ReportedNoted
<1> QED
  BY <1>9, <1>10, <1>11, <1>12, <1>13, <1>14 DEF IInv

\* Orders are given out: what is given was not noted, so nothing of it is in
\* hand, and it comes to hand at once with the player, later with the list.
LEMMA GiveKeeps ==
  ASSUME IInv, TypeOK', NEW p \in PrivacyData, p = Privacy, p.funcs \subseteq p.orders,
         NEW b \in SUBSET Order, NEW bad, _PaySuccessedCb1(p, b, bad), block' = "loaded",
         UNCHANGED <<pay, dbVars, online, loose, torn, unsaved, dropped>>
  PROVE  IInv'
<1> USE DEF dbVars
<1> DEFINE given == (b \ p.orders) \ bad
<1>1. TypeOK
  BY DEF IInv, SavedTogether
<1>2. /\ DealSucceedOrder(p, given) /\ merged' = (merged \/ online)
      /\ marks' = marks \cup (b \ bad)
  BY DEF _PaySuccessedCb1
<1>3. /\ given \subseteq Order /\ given \cap p.orders = {}
      /\ \A o \in b \ bad : o \in p.orders \/ o \in given
  OBVIOUS
<1> HIDE DEF given
<1>4. \A x : SavedRow(x)' = SavedRow(x)
  BY SavedSame
<1>5. /\ privacy' = [orders |-> p.orders \cup given,
                     funcs |-> IF online THEN p.funcs ELSE p.funcs \cup given]
      /\ Privacy' = privacy'
  BY <1>2, NowIsNext DEF DealSucceedOrder
<1>6. /\ Privacy'.orders = p.orders \cup given
      /\ Privacy'.funcs = IF online THEN p.funcs ELSE p.funcs \cup given
  BY <1>5
<1>7. Goods \in [Order -> Nat] /\ Goods' \in [Order -> Nat]
  BY <1>1, NowTyped, NowTypedNext DEF GoodsData
<1>8. \A o \in Order : Goods'[o] = Goods[o] + (IF online /\ o \in given THEN 1 ELSE 0)
  <2>1. CASE online
    <3>1. goods' = [o \in Order |-> goods[o] + (IF o \in given THEN 1 ELSE 0)]
      BY <1>2, <2>1 DEF DealSucceedOrder
    <3>2. Goods = goods /\ Goods' = goods'
      BY <2>1, NowIs, NowIsNext
    <3> QED
      BY <2>1, <3>1, <3>2
  <2>2. CASE ~online
    <3>1. Goods' = Goods
      BY <1>4, <2>2, NowIs, NowIsNext
    <3> QED
      BY <1>7, <2>2, <3>1
  <2> QED
    BY <2>1, <2>2
<1>9. \A o \in given : ~InHand(p, o)
  BY <1>3 DEF InHand
<1>10. \A o \in Order : /\ InHand(Privacy', o) <=> InHand(p, o) \/ (online /\ o \in given)
  BY <1>3, <1>6 DEF InHand
<1>11. \A o \in Order \ torn : Goods[o] <= (IF InHand(p, o) THEN 1 ELSE 0)
  BY DEF IInv, NowAgree
<1>12. FuncsNoted'
  <2>1. privacy'.funcs \subseteq privacy'.orders
    BY <1>5, <1>6
  <2> QED
    BY <2>1, FuncsSame DEF IInv
<1>13. CleanIsSaved'
  <2>1. given = {} => privacy' = p
    BY <1>5 DEF PrivacyData
  <2>2. "privacy" \notin dirty' => given = {} /\ "privacy" \notin dirty
    BY <1>2 DEF DealSucceedOrder
  <2>3. "privacy" \notin dirty => p = SavedRow("privacy")
    BY NowIs DEF IInv, CleanIsSaved
  <2>4. online' /\ "goods" \notin dirty' => given = {} /\ "goods" \notin dirty
    BY <1>2 DEF DealSucceedOrder
  <2>5. online /\ given = {} => goods' = goods
    <3>1. online => Goods = goods /\ Goods' = goods'
      BY NowIs, NowIsNext
    <3>2. given = {} => \A o \in Order : Goods'[o] = Goods[o]
      BY <1>7, <1>8
    <3>3. given = {} => Goods' = Goods
      BY <1>7, <3>2
    <3> QED
      BY <3>1, <3>3
  <2>6. online /\ "goods" \notin dirty => goods = SavedRow("goods")
    BY DEF IInv, CleanIsSaved
  <2> QED
    BY <1>4, <2>1, <2>2, <2>3, <2>4, <2>5, <2>6 DEF CleanIsSaved
<1>14. NowAgree'
  <2> SUFFICES ASSUME NEW o \in Order \ torn
               PROVE  /\ Goods'[o] <= (IF InHand(Privacy', o) THEN 1 ELSE 0)
                      /\ o \notin dropped => Goods'[o] = (IF InHand(Privacy', o) THEN 1 ELSE 0)
    BY DEF NowAgree, InHand
  <2>1. CASE o \in given
    <3>1. Goods[o] = 0
      BY <1>7, <1>9, <1>11, <2>1
    <3> QED
      BY <1>8, <1>9, <1>10, <2>1, <3>1
  <2>2. CASE o \notin given
    <3>1. Goods'[o] = Goods[o] /\ (InHand(Privacy', o) <=> InHand(p, o))
      BY <1>7, <1>8, <1>10, <2>2
    <3> QED
      BY <3>1 DEF IInv, NowAgree
  <2> QED
    BY <2>1, <2>2
<1>15. SavedTogether'
  BY <1>4, TogetherSame DEF IInv
<1>16. ApartAsSaved'
  <2> SUFFICES ASSUME ~merged', NEW o \in Order \ (loose \cup torn \cup dropped)
               PROVE  /\ InHand(SavedRow("privacy")', o) <=> InHand(Privacy', o)
                      /\ SavedRow("goods")'[o] = Goods'[o]
    BY DEF ApartAsSaved, InHand
  <2>1. ~online /\ ~merged
    BY <1>2
  <2>2. Goods'[o] = Goods[o] /\ (InHand(Privacy', o) <=> InHand(Privacy, o))
    BY <1>7, <1>8, <1>10, <2>1
  <2> QED
    BY <1>4, <2>1, <2>2 DEF IInv, ApartAsSaved, InHand
<1>17. ReportedNoted'
  BY <1>2, <1>3, <1>6 DEF IInv, ReportedNoted
<1> QED
  BY <1>12, <1>13, <1>14, <1>15, <1>16, <1>17 DEF IInv

\* A login empties the list: what is given comes to hand, the rest is dropped.
LEMMA LoginKeeps ==
  ASSUME IInv, TypeOK', LoadEnd
  PROVE  IInv'
<1> USE DEF payVars, dbVars
<1>1. TypeOK
  BY DEF IInv, SavedTogether
<1>2. PICK given \in SUBSET privacy.funcs : OnLogin(given)
  BY DEF LoadEnd
<1>3. /\ block = "loaded" /\ block' = "loaded" /\ ~online /\ online' /\ merged' = merged
      /\ UNCHANGED <<pay, marks, dbMail, db, torn, unsaved>>
  BY DEF LoadEnd
<1>4. \A x : SavedRow(x)' = SavedRow(x)
  BY <1>3, SavedSame
<1>5. SavedRow("goods") = db.goods
  <2>1. Writes(dbMail, "goods") = {}
    BY DEF LoadEnd, InMail, Writes
  <2> QED
    BY <2>1, RowIsSaved DEF Row
<1>6. privacy \in PrivacyData /\ privacy.funcs \subseteq Order /\ privacy.funcs \subseteq privacy.orders
  BY <1>1 DEF TypeOK, PrivacyData, IInv, FuncsNoted
<1>7. /\ privacy' = [privacy EXCEPT !.funcs = {}]
      /\ dirty' = dirty \cup {"privacy"} \cup (IF given = {} THEN {} ELSE {"goods"})
      /\ loose' = loose \cup given
      /\ dropped' = dropped \cup (privacy.funcs \ given)
      /\ goods' = [o \in Order |-> db.goods[o] + (IF o \in given THEN 1 ELSE 0)]
  BY <1>2 DEF OnLogin
<1>8. privacy'.orders = privacy.orders /\ privacy'.funcs = {}
  BY <1>6, <1>7 DEF PrivacyData
<1>9. Privacy = privacy /\ Privacy' = privacy' /\ Goods = db.goods /\ Goods' = goods'
  BY <1>3, <1>5, NowIs, NowIsNext
<1>10. Goods \in [Order -> Nat]
  BY <1>1, NowTyped DEF GoodsData
<1>11. \A o \in Order : Goods'[o] = Goods[o] + (IF o \in given THEN 1 ELSE 0)
  BY <1>7, <1>9
<1>12. \A o \in Order : /\ o \in privacy.funcs => ~InHand(Privacy, o) /\ InHand(Privacy', o)
                        /\ o \notin privacy.funcs => (InHand(Privacy', o) <=> InHand(Privacy, o))
  BY <1>6, <1>8, <1>9 DEF InHand
<1>13. FuncsNoted'
  BY <1>3, <1>8, FuncsSame DEF IInv
<1>14. CleanIsSaved'
  <2>1. given = {} => goods' = db.goods
    <3>1. db.goods \in [Order -> Nat]
      BY <1>9, <1>10
    <3>2. given = {} => \A o \in Order : goods'[o] = db.goods[o]
      BY <1>7, <3>1
    <3>3. goods' \in [Order -> Nat]
      BY <1>7, <3>1
    <3> QED
      BY <3>1, <3>2, <3>3
  <2> QED
    BY <1>4, <1>5, <1>7, <2>1 DEF CleanIsSaved
<1>15. NowAgree'
  <2> SUFFICES ASSUME NEW o \in Order \ torn
               PROVE  /\ Goods'[o] <= (IF InHand(Privacy', o) THEN 1 ELSE 0)
                      /\ o \notin dropped' => Goods'[o] = (IF InHand(Privacy', o) THEN 1 ELSE 0)
    BY <1>3 DEF NowAgree, InHand
  <2>1. CASE o \in privacy.funcs
    <3>1. Goods[o] = 0
      BY <1>10, <1>12, <2>1 DEF IInv, NowAgree
    <3>2. o \notin dropped' => o \in given
      BY <1>7, <2>1
    <3> QED
      BY <1>11, <1>12, <2>1, <3>1, <3>2
  <2>2. CASE o \notin privacy.funcs
    <3>1. Goods'[o] = Goods[o] /\ (InHand(Privacy', o) <=> InHand(Privacy, o))
      BY <1>10, <1>11, <1>12, <2>2
    <3>2. o \notin dropped' => o \notin dropped
      BY <1>7
    <3> QED
      BY <3>1, <3>2 DEF IInv, NowAgree
  <2> QED
    BY <2>1, <2>2
<1>16. SavedTogether'
  BY <1>3, <1>4, <1>7, TogetherSame DEF IInv
<1>17. ApartAsSaved'
  <2> SUFFICES ASSUME NEW o \in Order \ (loose' \cup torn \cup dropped')
               PROVE  /\ InHand(SavedRow("privacy")', o) <=> InHand(Privacy', o)
                      /\ SavedRow("goods")'[o] = Goods'[o]
    BY <1>3 DEF ApartAsSaved, InHand
  <2>1. o \notin privacy.funcs /\ o \notin loose /\ o \notin dropped
    BY <1>7
  <2>2. ~merged
    BY <1>1, <1>3 DEF TypeOK
  <2>3. Goods'[o] = Goods[o] /\ (InHand(Privacy', o) <=> InHand(Privacy, o))
    BY <1>10, <1>11, <1>12, <2>1
  <2> QED
    BY <1>4, <2>1, <2>2, <2>3 DEF IInv, ApartAsSaved, InHand
<1>18. ReportedNoted'
  BY <1>3, <1>8, <1>9 DEF IInv, ReportedNoted
<1> QED
  BY <1>13, <1>14, <1>15, <1>16, <1>17, <1>18 DEF IInv

\* A stop: what is left is what is in the rows, and the histories name the rest.
LEMMA StopKeeps ==
  ASSUME IInv, TypeOK', StopGS
  PROVE  IInv'
<1> USE DEF payVars, routerVars
<1>1. /\ block' = "none" /\ ~online' /\ ~merged' /\ dirty' = {} /\ privacy' = NoPrivacy
      /\ dbMail' = <<>> /\ UNCHANGED <<pay, marks, db, dropped>>
      /\ torn' = torn \cup {o \in Order : ~Agree(db, o)}
      /\ unsaved' = unsaved \cup {o \in Order \ db.privacy.orders : pay[o] = "dealt" \/ o \in marks}
  BY DEF StopGS
<1>2. SavedRow("privacy")' = db.privacy /\ SavedRow("goods")' = db.goods
  BY <1>1, SavedStopped
<1>3. Privacy' = db.privacy /\ Goods' = db.goods
  BY <1>1, <1>2, NowIsNext
<1>4. FuncsNoted'
  BY <1>1 DEF IInv, FuncsNoted, NoPrivacy
<1>5. CleanIsSaved'
  BY <1>1 DEF CleanIsSaved
<1>6. NowAgree'
  <2>1. \A o \in Order \ torn' : db.goods[o] = IF InHand(db.privacy, o) THEN 1 ELSE 0
    BY <1>1 DEF Agree, InHand
  <2> QED
    BY <1>3, <2>1 DEF NowAgree, InHand
<1>7. ApartAsSaved'
  BY <1>2, <1>3 DEF ApartAsSaved, InHand
<1>8. SavedTogether'
  BY <1>1, <1>6, <1>7, TogetherApart
<1>9. ReportedNoted'
  BY <1>1, <1>3 DEF ReportedNoted
<1> QED
  BY <1>4, <1>5, <1>6, <1>7, <1>8, <1>9 DEF IInv

-----------------------------------------------------------------------------
\* It holds at the start,
LEMMA InitInv == Init => IInv
<1> SUFFICES ASSUME Init PROVE IInv
  OBVIOUS
<1>1. /\ block = "none" /\ ~online /\ privacy = NoPrivacy /\ dirty = {} /\ dbMail = <<>>
      /\ db = [privacy |-> NoPrivacy, goods |-> NoGoods]
      /\ pay = [o \in Order |-> "none"] /\ marks = {}
  BY DEF Init
<1>2. TypeOK
  <2>1. toGs \in [Batch -> 0..MaxMail] /\ deals \in 0..MaxMail /\ faults \in 0..MaxFaults
    BY PayAssumption DEF Init
  <2>2. NoPrivacy \in PrivacyData /\ NoGoods \in GoodsData
    BY DEF NoPrivacy, PrivacyData, NoGoods, GoodsData
  <2>3. dbMail \in Seq([obj : {"privacy"}, data : PrivacyData] \cup [obj : {"goods"}, data : GoodsData])
    BY <1>1
  <2> HIDE DEF NoPrivacy, PrivacyData, NoGoods, GoodsData
  <2> QED
    BY <2>1, <2>2, <2>3 DEF Init, TypeOK
<1>3. SavedRow("privacy") = NoPrivacy /\ SavedRow("goods") = NoGoods
  BY <1>1, RowAtRest, RowIsSaved
<1>4. Privacy = NoPrivacy /\ Goods = NoGoods
  BY <1>1, <1>3, NowIs
<1>5. FuncsNoted
  BY <1>1 DEF FuncsNoted, NoPrivacy
<1>6. CleanIsSaved
  BY <1>1 DEF CleanIsSaved
<1>7. NowAgree
  BY <1>4 DEF NowAgree, InHand, NoPrivacy, NoGoods
<1>8. SavedTogether
  BY <1>2, <1>3, NowIs DEF SavedTogether, Agree, NoPrivacy, NoGoods
<1>9. ApartAsSaved
  BY <1>3, <1>4 DEF ApartAsSaved, InHand
<1>10. ReportedNoted
  BY <1>1 DEF ReportedNoted
<1> QED
  BY <1>5, <1>6, <1>7, <1>8, <1>9, <1>10 DEF IInv

\* and every step keeps it.
LEMMA NextInv == IInv /\ [Next]_vars => IInv'
<1> SUFFICES ASSUME IInv, [Next]_vars PROVE IInv'
  OBVIOUS
<1>1. TypeOK /\ TypeOK'
  BY TypeStep DEF IInv, SavedTogether
<1> USE DEF payVars, routerVars, worldVars, dbVars, historyVars
<1>2. ASSUME NEW o \in Order, PayCallback(o) \/ _PayCallback1(o) \/ MarkOrderAsDealed(o) PROVE IInv'
  <2>1. UNCHANGED <<worldVars, dbVars, loose, torn, unsaved, dropped>>
    BY <1>2 DEF PayCallback, _PayCallback1, MarkOrderAsDealed
  <2>2. \A q \in Order : pay'[q] = "dealt" \/ q \in marks' => pay[q] = "dealt" \/ q \in marks
    BY <1>1, <1>2 DEF PayCallback, _PayCallback1, MarkOrderAsDealed, TypeOK
  <2> QED
    BY <1>1, <2>1, <2>2, Elsewhere
<1>3. CASE DealUntreatedOrder \/ LoseMessage \/ UNCHANGED vars
  <2>1. UNCHANGED <<worldVars, dbVars, loose, torn, unsaved, dropped>>
    BY <1>3 DEF DealUntreatedOrder, LoseMessage, vars
  <2>2. pay' = pay /\ marks' \subseteq marks
    BY <1>3 DEF DealUntreatedOrder, LoseMessage, vars
  <2> QED
    BY <1>1, <2>1, <2>2, Elsewhere
<1>4. ASSUME UNCHANGED <<pay, marks, dbMail, db, online, goods, dirty, merged, loose, torn, unsaved, dropped>>,
             \/ block # "loaded" /\ block' = "loading" /\ privacy' = privacy
             \/ block = "loaded" /\ "privacy" \notin dirty /\ block' = "none" /\ privacy' = NoPrivacy
      PROVE  IInv'
  <2>1. \A x : SavedRow(x)' = SavedRow(x)
    BY <1>4, SavedSame
  <2>2. Privacy' = Privacy
    BY <1>4, <2>1, NowIs, NowIsNext DEF IInv, CleanIsSaved
  <2>3. privacy'.funcs \subseteq privacy'.orders
    BY <1>4 DEF IInv, FuncsNoted, NoPrivacy
  <2>4. FuncsNoted'
    BY <1>4, <2>3, FuncsSame DEF IInv
  <2> QED
    BY <1>1, <1>4, <2>1, <2>2, <2>4, Quiet
<1>5. ASSUME NEW b \in Batch, PaySuccessedCb(b) PROVE IInv'
  <2>1. CASE block = "loaded"
    <3>1. PICK bad \in SUBSET b : _PaySuccessedCb1(privacy, b, bad)
      BY <1>5, <2>1 DEF PaySuccessedCb
    <3>2. privacy \in PrivacyData /\ privacy = Privacy /\ privacy.funcs \subseteq privacy.orders
      BY <1>1, <2>1, NowIs DEF TypeOK, IInv, FuncsNoted
    <3>3. b \in SUBSET Order
      BY DEF Batch
    <3>4. block' = "loaded" /\ UNCHANGED <<pay, dbVars, online, loose, torn, unsaved, dropped>>
      BY <1>5, <2>1 DEF PaySuccessedCb
    <3> QED
      BY <1>1, <3>1, <3>2, <3>3, <3>4, GiveKeeps
  <2>2. CASE block # "loaded"
    BY <1>4, <1>5, <2>2 DEF PaySuccessedCb
  <2> QED
    BY <2>1, <2>2
<1>6. CASE LoadPrivacy
  BY <1>4, <1>6 DEF LoadPrivacy
<1>7. CASE CleanOfflineBlock
  BY <1>4, <1>7 DEF CleanOfflineBlock
<1>8. CASE OnLoaded
  <2>1. PICK bad \in SUBSET waiting : _PaySuccessedCb1(db.privacy, waiting, bad)
    BY <1>8 DEF OnLoaded
  <2>2. db.privacy = Privacy
    <3>1. Writes(dbMail, "privacy") = {}
      BY <1>8 DEF OnLoaded, InMail, Writes
    <3>2. SavedRow("privacy") = db.privacy
      BY <3>1, RowIsSaved DEF Row
    <3> QED
      BY <1>8, <3>2, NowIs DEF OnLoaded
  <2>3. db.privacy \in PrivacyData /\ db.privacy.funcs \subseteq db.privacy.orders
    BY <1>1 DEF TypeOK, IInv, FuncsNoted
  <2>4. waiting \in SUBSET Order
    BY <1>1 DEF TypeOK
  <2>5. block' = "loaded" /\ UNCHANGED <<pay, dbVars, online, loose, torn, unsaved, dropped>>
    BY <1>8 DEF OnLoaded
  <2> QED
    BY <1>1, <2>1, <2>2, <2>3, <2>4, <2>5, GiveKeeps
<1>9. CASE LoadEnd
  BY <1>1, <1>9, LoginKeeps
<1>10. ASSUME NEW obj \in Object, _RecuSave(obj),
              UNCHANGED <<pay, marks, block, privacy, db, torn, unsaved, dropped>>,
              \/ UNCHANGED <<online, goods>>
              \/ online /\ ~online' /\ obj = "goods"
       PROVE  IInv'
  BY <1>1, <1>10, SaveKeeps
<1>11. CASE SavePrivacy
  BY <1>10, <1>11 DEF SavePrivacy, Object
<1>12. CASE SavePlayer
  BY <1>10, <1>12 DEF SavePlayer, Object
<1>13. CASE Logout
  BY <1>10, <1>13 DEF Logout, Object
<1>14. CASE DbWrite
  <2>1. \A x \in Object : SavedRow(x)' = SavedRow(x)
    BY <1>1, <1>14, SavedMade
  <2>2. UNCHANGED <<payVars, routerVars, worldVars, historyVars>>
    BY <1>14 DEF DbWrite
  <2>3. Privacy' = Privacy
    BY <2>1, <2>2, NowIs, NowIsNext DEF Object
  <2>4. FuncsNoted'
    <3>1. /\ dbMail # <<>> /\ dbMail' = Tail(dbMail)
          /\ db' = [db EXCEPT ![Head(dbMail).obj] = Head(dbMail).data]
      BY <1>14 DEF DbWrite
    <3>2. \A i \in DOMAIN dbMail' : dbMail'[i].obj = "privacy" => dbMail'[i].data.funcs \subseteq dbMail'[i].data.orders
      BY <1>1, <3>1, MailFacts DEF IInv, FuncsNoted
    <3>3. db'.privacy.funcs \subseteq db'.privacy.orders
      <4>1. CASE Head(dbMail).obj = "privacy"
        <5>1. db'.privacy = Head(dbMail).data
          BY <1>1, <3>1, <4>1 DEF TypeOK
        <5> QED
          BY <1>1, <3>1, <4>1, <5>1, MailFacts DEF IInv, FuncsNoted
      <4>2. CASE Head(dbMail).obj # "privacy"
        <5>1. db'.privacy = db.privacy
          BY <1>1, <3>1, <4>2 DEF TypeOK
        <5> QED
          BY <5>1 DEF IInv, FuncsNoted
      <4> QED
        BY <4>1, <4>2
    <3> QED
      BY <2>2, <3>2, <3>3 DEF IInv, FuncsNoted
  <2> QED
    BY <1>1, <2>1, <2>2, <2>3, <2>4, Quiet
<1>15. CASE StopGS
  BY <1>1, <1>15, StopKeeps
<1> QED
  BY <1>2, <1>3, <1>5, <1>6, <1>7, <1>8, <1>9, <1>11, <1>12, <1>13, <1>14, <1>15 DEF Next

\* Theorem: in every behaviour the block and the goods agree now, and what is
\* saved lags behind only where it will be saved together.
THEOREM Invariance == Spec => []IInv
BY InitInv, NextInv, PTL DEF Spec

\* Theorem: an order is given once, in hand or on the function list, unless a
\* stop of the game server fell between the writes of the two rows.
THEOREM OnceOnly == Spec => []GivenOnce
<1>1. IInv => GivenOnce
  <2> SUFFICES ASSUME IInv, NEW o \in Order \ torn
               PROVE  Goods[o] + (IF o \in Privacy.funcs THEN 1 ELSE 0) <= 1
    BY DEF GivenOnce
  <2>1. Goods \in [Order -> Nat]
    BY NowTyped DEF IInv, SavedTogether, GoodsData
  <2>2. Goods[o] <= (IF InHand(Privacy, o) THEN 1 ELSE 0)
    BY DEF IInv, NowAgree
  <2>3. o \in Privacy.funcs => ~InHand(Privacy, o)
    BY DEF InHand
  <2> QED
    BY <2>1, <2>2, <2>3
<1> QED
  BY <1>1, Invariance, PTL

\* Theorem: an order that was reported as dealt with is in hand or on the
\* function list, but for the stops and the failing functions named.
THEOREM ReportedIsGiven == Spec => []DealtIsGiven
<1>1. IInv => DealtIsGiven
  <2> SUFFICES ASSUME IInv, NEW o \in Order \ (torn \cup unsaved \cup dropped),
                      pay[o] = "dealt" \/ o \in marks, o \notin Privacy.funcs
               PROVE  Goods[o] >= 1
    BY DEF DealtIsGiven
  <2>1. InHand(Privacy, o)
    BY DEF IInv, ReportedNoted, InHand
  <2> QED
    BY <2>1 DEF IInv, NowAgree
<1> QED
  BY <1>1, Invariance, PTL

\* Theorem: the variables keep their types and the rows of the block and the
\* player agree, but for what a login took from the function list.
THEOREM RowsAgree == Spec => []SavedTogether
<1>1. IInv => SavedTogether
  BY DEF IInv
<1> QED
  BY <1>1, Invariance, PTL

=============================================================================
