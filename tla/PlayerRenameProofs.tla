------------------------- MODULE PlayerRenameProofs -------------------------
(***************************************************************************)
(* Proofs about PlayerRename, for any players, names, prices and bounds:    *)
(* IInv is inductive, so that nobody bears a name of another player, names  *)
(* are not left taken, frozen money comes back, a rename makes no debt and  *)
(* one rename is free, but for the cases that the histories name.           *)
(***************************************************************************)
EXTENDS PlayerRename, TLAPS

\* The invariant speaks of sequences in two ways: an element of a set M is in
\* it, and no two are.
Has(s, M) == \E i \in DOMAIN s : s[i] \in M
Once(s, M) == \A i, j \in DOMAIN s : s[i] \in M /\ s[j] \in M => i = j

LEMMA HasNone == \A M : Once(<<>>, M) /\ ~Has(<<>>, M)
BY DEF Has, Once

LEMMA NoneOnce == \A s, M : ~Has(s, M) => Once(s, M)
BY DEF Has, Once

\* An element is appended,
LEMMA HasAppended ==
  ASSUME NEW S, NEW s \in Seq(S), NEW x \in S
  PROVE  \A M : /\ Has(Append(s, x), M) <=> Has(s, M) \/ x \in M
                /\ Once(Append(s, x), M) <=> Once(s, M) /\ (x \in M => ~Has(s, M))
<1> DEFINE t == Append(s, x)
           n == Len(s) + 1
<1>1. /\ DOMAIN t = DOMAIN s \cup {n} /\ t[n] = x /\ n \notin DOMAIN s
      /\ \A i \in DOMAIN s : t[i] = s[i]
  OBVIOUS
<1> HIDE DEF t, n
<1>2. \A M : Has(t, M) <=> Has(s, M) \/ x \in M
  BY <1>1 DEF Has
<1>3. \A M : Once(t, M) <=> Once(s, M) /\ (x \in M => ~Has(s, M))
  BY <1>1 DEF Has, Once
<1> QED
  BY <1>2, <1>3 DEF t

\* the first one is taken,
LEMMA HasTaken ==
  ASSUME NEW S, NEW s \in Seq(S), s # <<>>
  PROVE  \A M : /\ Has(s, M) <=> Has(Tail(s), M) \/ Head(s) \in M
                /\ Once(s, M) <=> Once(Tail(s), M) /\ (Head(s) \in M => ~Has(Tail(s), M))
<1> DEFINE t == Tail(s)
<1>1. /\ 1 \in DOMAIN s /\ Head(s) = s[1]
      /\ \A i \in DOMAIN t : i \in Int /\ i >= 1 /\ i + 1 \in DOMAIN s /\ t[i] = s[i + 1]
      /\ \A i \in DOMAIN s : i \in Int /\ (i = 1 \/ (i - 1 \in DOMAIN t /\ t[i - 1] = s[i]))
  OBVIOUS
<1> HIDE DEF t
<1>2. \A M : Has(s, M) <=> Has(t, M) \/ Head(s) \in M
  BY <1>1 DEF Has
<1>3. ASSUME NEW M, Once(s, M) PROVE Once(t, M) /\ (Head(s) \in M => ~Has(t, M))
  <2>1. \A i, j \in DOMAIN t : t[i] \in M /\ t[j] \in M => i + 1 = j + 1
    BY <1>1, <1>3 DEF Once
  <2>2. Once(t, M)
    BY <1>1, <2>1 DEF Once
  <2>3. \A i \in DOMAIN t : s[1] \in M /\ t[i] \in M => 1 = i + 1
    BY <1>1, <1>3 DEF Once
  <2> QED
    BY <1>1, <2>2, <2>3 DEF Has
<1>4. ASSUME NEW M, Once(t, M), Head(s) \in M => ~Has(t, M) PROVE Once(s, M)
  <2> SUFFICES ASSUME NEW i \in DOMAIN s, NEW j \in DOMAIN s, s[i] \in M, s[j] \in M
               PROVE  i = j
    BY DEF Once
  <2>1. CASE i = 1 \/ j = 1
    BY <1>1, <1>4, <2>1 DEF Has
  <2>2. CASE i # 1 /\ j # 1
    <3>1. i - 1 = j - 1
      BY <1>1, <1>4, <2>2 DEF Once
    <3> QED
      BY <1>1, <3>1
  <2> QED
    BY <2>1, <2>2
<1> QED
  BY <1>2, <1>3, <1>4 DEF t

\* and a sequence without such elements is appended.
LEMMA HasJoined ==
  ASSUME NEW S, NEW s \in Seq(S), NEW t \in Seq(S)
  PROVE  /\ s \o t \in Seq(S)
         /\ \A M : /\ Has(s \o t, M) <=> Has(s, M) \/ Has(t, M)
                   /\ ~Has(t, M) => (Once(s \o t, M) <=> Once(s, M))
<1> DEFINE u == s \o t
           n == Len(s)
<1>1. /\ u \in Seq(S) /\ n \in Nat
      /\ \A i \in DOMAIN s : i \in DOMAIN u /\ u[i] = s[i]
      /\ \A i \in DOMAIN t : i + n \in DOMAIN u /\ u[i + n] = t[i]
      /\ \A i \in DOMAIN u : \/ i \in DOMAIN s
                             \/ i - n \in DOMAIN t /\ u[i] = t[i - n]
  OBVIOUS
<1> HIDE DEF u, n
<1>2. \A M : Has(u, M) <=> Has(s, M) \/ Has(t, M)
  BY <1>1 DEF Has
<1>3. ASSUME NEW M, ~Has(t, M) PROVE Once(u, M) <=> Once(s, M)
  <2>1. \A i \in DOMAIN u : u[i] \in M => i \in DOMAIN s
    BY <1>1, <1>3 DEF Has
  <2> QED
    BY <1>1, <2>1 DEF Once
<1> QED
  BY <1>1, <1>2, <1>3 DEF u

-----------------------------------------------------------------------------
(* Types *)

\* Which fields a request and an answer have.
LEMMA RequestFacts ==
  \A r \in RequestType :
    /\ r.op = "FindName" => r.name \in Name /\ r.id \in 1..MaxRequests
    /\ r.op = "DeleteName" => r.name \in Name
    /\ r.op = "InsertNewNameCounter" => r.name \in Name /\ r.frozen \in BOOLEAN /\ r.gm \in BOOLEAN
    /\ r.op = "SavePlayerMain" => r.name \in Name /\ r.free \in Nat
    /\ r.op = "SavePlayerBase" => r.rename \in Nat
    /\ r.op = "SavePlayerItem" => r.cards \in 0..1
    /\ r.op = "SaveOfflineProfile" => r.profile \in ProfileType
BY DEF RequestType

LEMMA AnswerFacts ==
  \A a \in AnswerType :
    /\ a.op \in {"FindName", "InsertNewNameCounter"}
    /\ a.name \in Name /\ a.success \in BOOLEAN
    /\ a.op = "FindName" => a.id \in 1..MaxRequests
    /\ a.op = "InsertNewNameCounter" => a.frozen \in BOOLEAN /\ a.gm \in BOOLEAN
BY DEF AnswerType

LEMMA Requests ==
  /\ \A n \in Name :
       /\ \A i \in 1..MaxRequests : [op |-> "FindName", name |-> n, id |-> i] \in RequestType
       /\ \A f, g \in BOOLEAN :
            [op |-> "InsertNewNameCounter", name |-> n, frozen |-> f, gm |-> g] \in RequestType
       /\ [op |-> "DeleteName", name |-> n] \in RequestType
  /\ \A pl \in PlayerType :
       Main(pl) \in RequestType /\ Base(pl) \in RequestType /\ Item(pl) \in RequestType
  /\ \A pf \in ProfileType : Profile(pf) \in RequestType
BY DEF RequestType, PlayerType, Main, Base, Item, Profile

LEMMA Answers ==
  \A n \in Name, s \in BOOLEAN :
    /\ \A i \in 1..MaxRequests :
         [op |-> "FindName", name |-> n, id |-> i, success |-> s] \in AnswerType
    /\ \A f, g \in BOOLEAN :
         [op |-> "InsertNewNameCounter", name |-> n, frozen |-> f, gm |-> g, success |-> s] \in AnswerType
BY DEF AnswerType

\* The first request and the first answer.
LEMMA HeadFacts ==
  ASSUME TypeOK, NEW p \in Player
  PROVE  /\ db[p] \in Seq(RequestType) /\ mail[p] \in Seq(AnswerType)
         /\ db[p] # <<>> => Head(db[p]) \in RequestType /\ Tail(db[p]) \in Seq(RequestType)
         /\ mail[p] # <<>> => Head(mail[p]) \in AnswerType /\ Tail(mail[p]) \in Seq(AnswerType)
<1>1. db[p] \in Seq(RequestType) /\ mail[p] \in Seq(AnswerType)
  BY DEF TypeOK
<1> HIDE DEF RequestType, AnswerType
<1> QED
  BY <1>1

\* The requests that save a player.
LEMMA Joined ==
  ASSUME NEW S, NEW s \in Seq(S), NEW t \in Seq(S)
  PROVE  s \o t \in Seq(S)
OBVIOUS

LEMMA IfDirtyHas ==
  ASSUME NEW S, NEW x \in S, NEW y
  PROVE  IfDirty(x, y) \in Seq(S) /\ \A M : Has(IfDirty(x, y), M) => x \in M
<1>1. CASE x = y
  BY <1>1 DEF IfDirty, Has
<1>2. CASE x # y
  <2>1. IfDirty(x, y) = <<x>>
    BY <1>2 DEF IfDirty
  <2>2. \A i \in DOMAIN <<x>> : <<x>>[i] = x
    OBVIOUS
  <2> QED
    BY <2>1, <2>2 DEF Has
<1> QED
  BY <1>1, <1>2

LEMMA SavesHas ==
  ASSUME TypeOK, NEW p \in Player
  PROVE  /\ SaveOfflineDb(p) \in Seq(RequestType) /\ Saves(p) \in Seq(RequestType)
         /\ \A M : Has(SaveOfflineDb(p), M) => Profile(profile[p]) \in M
         /\ \A M : Has(Saves(p), M) => \/ Main(player[p]) \in M \/ Base(player[p]) \in M
                                       \/ Item(player[p]) \in M \/ Profile(profile[p]) \in M
<1> DEFINE m == IfDirty(Main(player[p]), Main(Written(p)))
           b == IfDirty(Base(player[p]), Base(Written(p)))
           i == IfDirty(Item(player[p]), Item(Written(p)))
           f == SaveOfflineDb(p)
<1>1. player[p] \in PlayerType /\ profile[p] \in ProfileType
  BY DEF TypeOK
<1>2. /\ Main(player[p]) \in RequestType /\ Base(player[p]) \in RequestType
      /\ Item(player[p]) \in RequestType /\ Profile(profile[p]) \in RequestType
  BY <1>1, Requests
<1>3. m \in Seq(RequestType) /\ \A M : Has(m, M) => Main(player[p]) \in M
  BY <1>2, IfDirtyHas
<1>4. b \in Seq(RequestType) /\ \A M : Has(b, M) => Base(player[p]) \in M
  BY <1>2, IfDirtyHas
<1>5. i \in Seq(RequestType) /\ \A M : Has(i, M) => Item(player[p]) \in M
  BY <1>2, IfDirtyHas
<1>6. f \in Seq(RequestType) /\ \A M : Has(f, M) => Profile(profile[p]) \in M
  BY <1>2, IfDirtyHas DEF SaveOfflineDb
<1>7. Saves(p) = m \o b \o i \o f
  BY DEF Saves
<1> HIDE DEF m, b, i, f
<1>8. m \o b \in Seq(RequestType) /\ \A M : Has(m \o b, M) <=> Has(m, M) \/ Has(b, M)
  BY <1>3, <1>4, HasJoined
<1>9. m \o b \o i \in Seq(RequestType) /\ \A M : Has(m \o b \o i, M) <=> Has(m \o b, M) \/ Has(i, M)
  BY <1>5, <1>8, HasJoined
<1> DEFINE mbi == m \o b \o i
<1> HIDE DEF mbi
<1>10. mbi \o f \in Seq(RequestType) /\ \A M : Has(mbi \o f, M) <=> Has(mbi, M) \/ Has(f, M)
  <2>1. mbi \in Seq(RequestType)
    BY <1>9 DEF mbi
  <2> QED
    BY <1>6, <2>1, HasJoined
<1>11. Saves(p) \in Seq(RequestType)
  BY <1>7, <1>10 DEF mbi
<1>12. ASSUME NEW M, Has(Saves(p), M)
       PROVE  \/ Main(player[p]) \in M \/ Base(player[p]) \in M
              \/ Item(player[p]) \in M \/ Profile(profile[p]) \in M
  <2>1. Has(m, M) \/ Has(b, M) \/ Has(i, M) \/ Has(f, M)
    BY <1>7, <1>8, <1>9, <1>10, <1>12 DEF mbi
  <2> QED
    BY <1>3, <1>4, <1>5, <1>6, <2>1
<1> QED
  BY <1>6, <1>11, <1>12 DEF f

\* Money: the profile keeps its type.
LEMMA FrozenMoneyTyped ==
  \A pf \in ProfileType, kind \in {"rpl", "gold"}, val \in 0..Price :
    FrozenMoney(pf, kind, val) \in ProfileType
BY DEF FrozenMoney, ProfileType, Sum

LEMMA Prices == Price \in Nat /\ Price > 0 /\ RplCoins \in Nat /\ GoldCoins \in Nat
BY PlayerRenameAssumption

LEMMA NotNone == \A s \in Sum : s # None
BY PlayerRenameAssumption DEF Sum

LEMMA FrozenTyped ==
  \A pf \in ProfileType : \A kind \in {"rpl", "gold"} : Frozen(pf, kind) \in 0..Price
BY Prices DEF Frozen, ProfileType, Sum

LEMMA CoinsTyped ==
  \A pf \in ProfileType :
    /\ RplGoldCoin(pf) \in 0..RplCoins /\ GoldCoin(pf) \in 0..RplCoins + GoldCoins
    /\ GoldCoin(pf) >= RplGoldCoin(pf)
BY FrozenTyped, Prices DEF RplGoldCoin, GoldCoin, Above0, ProfileType

LEMMA MoneyTyped ==
  ASSUME NEW pf \in ProfileType
  PROVE  /\ FrozenGoldCoin(pf, Price) \in ProfileType
         /\ UnFrozenMoney(pf) \in ProfileType
         /\ \A val \in 0..Price : ResumeGoldCoin(pf, val) \in ProfileType
<1>1. FrozenGoldCoin(pf, Price) \in ProfileType
  <2>1. RplGoldCoin(pf) \in 0..RplCoins
    BY CoinsTyped
  <2>2. CASE Price <= RplGoldCoin(pf)
    BY <2>2, FrozenMoneyTyped, Prices DEF FrozenGoldCoin
  <2>3. CASE ~(Price <= RplGoldCoin(pf))
    <3>1. RplGoldCoin(pf) \in 0..Price /\ Price - RplGoldCoin(pf) \in 0..Price
      BY <2>1, <2>3, Prices
    <3>2. FrozenMoney(pf, "rpl", RplGoldCoin(pf)) \in ProfileType
      BY <3>1, FrozenMoneyTyped
    <3>3. FrozenMoney(FrozenMoney(pf, "rpl", RplGoldCoin(pf)), "gold", Price - RplGoldCoin(pf)) \in ProfileType
      BY <3>1, <3>2, FrozenMoneyTyped
    <3> QED
      BY <2>3, <3>3 DEF FrozenGoldCoin
  <2> QED
    BY <2>2, <2>3
<1>2. UnFrozenMoney(pf) \in ProfileType
  BY DEF UnFrozenMoney, ProfileType
<1>3. ASSUME NEW val \in 0..Price PROVE ResumeGoldCoin(pf, val) \in ProfileType
  <2>1. pf.rpl \in 0..RplCoins /\ pf.gold \in 0..GoldCoins /\ pf.owe \in Nat /\ val \in Nat
    BY Prices DEF ProfileType
  <2>2. CASE pf.rpl >= val
    <3>1. pf.rpl - val \in 0..RplCoins
      BY <2>1, <2>2, Prices
    <3> QED
      BY <2>2, <3>1 DEF ResumeGoldCoin, ProfileType
  <2>3. CASE ~(pf.rpl >= val)
    <3> DEFINE gold == pf.gold - (val - pf.rpl)
    <3>1. /\ 0 \in 0..RplCoins /\ Above0(gold) \in 0..GoldCoins
          /\ pf.owe + Above0(0 - gold) \in Nat
      BY <2>1, <2>3, Prices DEF Above0
    <3>2. ResumeGoldCoin(pf, val) =
            [pf EXCEPT !.rpl = 0, !.gold = Above0(gold), !.owe = pf.owe + Above0(0 - gold)]
      BY <2>3 DEF ResumeGoldCoin
    <3> HIDE DEF gold
    <3> QED
      BY <3>1, <3>2 DEF ProfileType
  <2> QED
    BY <2>2, <2>3
<1> QED
  BY <1>1, <1>2, <1>3

\* A row keeps its type.
LEMMA PutTyped ==
  ASSUME NEW r \in RequestType, NEW pl \in PlayerType
  PROVE  Put(r, pl) \in PlayerType
<1>1. CASE r.op = "SavePlayerMain"
  BY <1>1, RequestFacts DEF Put, PlayerType
<1>2. CASE r.op = "SavePlayerBase"
  BY <1>2, RequestFacts DEF Put, PlayerType
<1>3. CASE r.op = "SavePlayerItem"
  BY <1>3, RequestFacts DEF Put, PlayerType
<1>4. CASE r.op \notin {"SavePlayerMain", "SavePlayerBase", "SavePlayerItem"}
  <2>1. Put(r, pl) = pl
    BY <1>4 DEF Put
  <2> QED
    BY <2>1
<1> QED
  BY <1>1, <1>2, <1>3, <1>4

LEMMA RenamedTyped ==
  ASSUME NEW a \in AnswerType, NEW pl \in PlayerType
  PROVE  Renamed(pl, a) \in PlayerType
<1>1. pl.rename \in Nat /\ pl.cards \in 0..1 /\ pl.free \in Nat /\ a.name \in Name
  BY AnswerFacts DEF PlayerType
<1> DEFINE rename == IF a.gm THEN pl.rename ELSE pl.rename + 1
           cards == IF pl.rename > 0 /\ pl.cards > 0 THEN pl.cards - 1 ELSE pl.cards
           free == IF ~a.gm /\ ~(pl.rename > 0 /\ pl.cards > 0) /\ ~a.frozen THEN pl.free + 1 ELSE pl.free
<1>2. rename \in Nat /\ cards \in 0..1 /\ free \in Nat
  BY <1>1
<1>3. Renamed(pl, a) = [pl EXCEPT !.name = a.name, !.rename = rename, !.cards = cards, !.free = free]
  BY DEF Renamed
<1> HIDE DEF rename, cards, free
<1> QED
  BY <1>1, <1>2, <1>3 DEF PlayerType

-----------------------------------------------------------------------------
(* What a step makes of the requests and the answers of a player.  Those of *)
(* the other players stay.                                                  *)

LEMMA Asked ==
  ASSUME TypeOK, NEW p \in Player, NEW r \in RequestType, Ask(p, r)
  PROVE  /\ db' \in [Player -> Seq(RequestType)] /\ \A q \in Player \ {p} : db'[q] = db[q]
         /\ \A M : /\ Has(db'[p], M) <=> Has(db[p], M) \/ r \in M
                   /\ Once(db'[p], M) <=> Once(db[p], M) /\ (r \in M => ~Has(db[p], M))
<1>1. db \in [Player -> Seq(RequestType)] /\ db' = [db EXCEPT ![p] = Append(db[p], r)]
  BY DEF TypeOK, Ask
<1> HIDE DEF RequestType
<1>2. db[p] \in Seq(RequestType) /\ Append(db[p], r) \in Seq(RequestType)
  BY <1>1
<1>3. db'[p] = Append(db[p], r)
  BY <1>1
<1>4. db' \in [Player -> Seq(RequestType)] /\ \A q \in Player \ {p} : db'[q] = db[q]
  BY <1>1, <1>2
<1> QED
  BY <1>2, <1>3, <1>4, HasAppended

LEMMA Joins ==
  ASSUME TypeOK, NEW p \in Player, NEW t \in Seq(RequestType), db' = [db EXCEPT ![p] = @ \o t]
  PROVE  /\ db' \in [Player -> Seq(RequestType)] /\ \A q \in Player \ {p} : db'[q] = db[q]
         /\ \A M : /\ Has(db'[p], M) <=> Has(db[p], M) \/ Has(t, M)
                   /\ ~Has(t, M) => (Once(db'[p], M) <=> Once(db[p], M))
<1>1. db \in [Player -> Seq(RequestType)] /\ db' = [db EXCEPT ![p] = db[p] \o t]
  BY DEF TypeOK
<1> HIDE DEF RequestType
<1>2. db[p] \in Seq(RequestType) /\ db[p] \o t \in Seq(RequestType)
  BY <1>1, HasJoined
<1>3. db'[p] = db[p] \o t
  BY <1>1
<1>4. db' \in [Player -> Seq(RequestType)] /\ \A q \in Player \ {p} : db'[q] = db[q]
  BY <1>1, <1>2
<1> QED
  BY <1>2, <1>3, <1>4, HasJoined

LEMMA DoneWith ==
  ASSUME TypeOK, NEW p \in Player, db[p] # <<>>, Done(p)
  PROVE  /\ db' \in [Player -> Seq(RequestType)] /\ \A q \in Player \ {p} : db'[q] = db[q]
         /\ Head(db[p]) \in RequestType
         /\ \A M : /\ Has(db[p], M) <=> Has(db'[p], M) \/ Head(db[p]) \in M
                   /\ Once(db[p], M) <=> Once(db'[p], M) /\ (Head(db[p]) \in M => ~Has(db'[p], M))
<1>1. db \in [Player -> Seq(RequestType)] /\ db' = [db EXCEPT ![p] = Tail(db[p])]
  BY DEF TypeOK, Done
<1> HIDE DEF RequestType
<1>2. db[p] \in Seq(RequestType) /\ Tail(db[p]) \in Seq(RequestType) /\ Head(db[p]) \in RequestType
  BY <1>1
<1>3. db'[p] = Tail(db[p])
  BY <1>1
<1>4. db' \in [Player -> Seq(RequestType)] /\ \A q \in Player \ {p} : db'[q] = db[q]
  BY <1>1, <1>2
<1> QED
  BY <1>2, <1>3, <1>4, HasTaken

LEMMA Answered ==
  ASSUME TypeOK, NEW p \in Player, NEW a \in AnswerType, Answer(p, a)
  PROVE  /\ mail' \in [Player -> Seq(AnswerType)] /\ \A q \in Player \ {p} : mail'[q] = mail[q]
         /\ \A M : /\ Has(mail'[p], M) <=> Has(mail[p], M) \/ a \in M
                   /\ Once(mail'[p], M) <=> Once(mail[p], M) /\ (a \in M => ~Has(mail[p], M))
<1>1. mail \in [Player -> Seq(AnswerType)] /\ mail' = [mail EXCEPT ![p] = Append(mail[p], a)]
  BY DEF TypeOK, Answer
<1> HIDE DEF AnswerType
<1>2. mail[p] \in Seq(AnswerType) /\ Append(mail[p], a) \in Seq(AnswerType)
  BY <1>1
<1>3. mail'[p] = Append(mail[p], a)
  BY <1>1
<1>4. mail' \in [Player -> Seq(AnswerType)] /\ \A q \in Player \ {p} : mail'[q] = mail[q]
  BY <1>1, <1>2
<1> QED
  BY <1>2, <1>3, <1>4, HasAppended

LEMMA Taken ==
  ASSUME TypeOK, NEW p \in Player, mail[p] # <<>>, Take(p)
  PROVE  /\ mail' \in [Player -> Seq(AnswerType)] /\ \A q \in Player \ {p} : mail'[q] = mail[q]
         /\ Head(mail[p]) \in AnswerType
         /\ \A M : /\ Has(mail[p], M) <=> Has(mail'[p], M) \/ Head(mail[p]) \in M
                   /\ Once(mail[p], M) <=> Once(mail'[p], M) /\ (Head(mail[p]) \in M => ~Has(mail'[p], M))
<1>1. mail \in [Player -> Seq(AnswerType)] /\ mail' = [mail EXCEPT ![p] = Tail(mail[p])]
  BY DEF TypeOK, Take
<1> HIDE DEF AnswerType
<1>2. mail[p] \in Seq(AnswerType) /\ Tail(mail[p]) \in Seq(AnswerType) /\ Head(mail[p]) \in AnswerType
  BY <1>1
<1>3. mail'[p] = Tail(mail[p])
  BY <1>1
<1>4. mail' \in [Player -> Seq(AnswerType)] /\ \A q \in Player \ {p} : mail'[q] = mail[q]
  BY <1>1, <1>2
<1> QED
  BY <1>2, <1>3, <1>4, HasTaken

-----------------------------------------------------------------------------
(* The variables keep their types *)

LEMMA InitTyped == Init => TypeOK
<1> SUFFICES ASSUME Init PROVE TypeOK
  OBVIOUS
<1>1. PICK name \in [Player -> Name] :
        /\ player = [p \in Player |-> [name |-> name[p], rename |-> 0, free |-> 0,
                                       cards |-> IF p \in CardOwner THEN 1 ELSE 0]]
        /\ namecounter = {name[p] : p \in Player}
  BY DEF Init
<1>2. player \in [Player -> PlayerType] /\ namecounter \subseteq Name
  BY <1>1 DEF PlayerType
<1>3. profile \in [Player -> ProfileType]
  <2>1. profile = [p \in Player |-> [rpl |-> IF p \in Rich THEN RplCoins ELSE 0,
                                     gold |-> IF p \in Rich THEN GoldCoins ELSE 0,
                                     owe |-> 0, frozen |-> None]]
    BY DEF Init
  <2>2. ASSUME NEW p \in Player PROVE profile[p] \in ProfileType
    BY <2>1, Prices DEF ProfileType
  <2> QED
    BY <2>1, <2>2
<1>4. /\ online = [p \in Player |-> TRUE] /\ row = player /\ profileRow = profile
      /\ db = [p \in Player |-> <<>>] /\ mail = [p \in Player |-> <<>>]
      /\ confirms = {} /\ requests = 0
      /\ leaked = {} /\ undone = {} /\ stuck = {} /\ exposed = {} /\ raced = {}
  BY DEF Init
<1>5. MaxRequests \in Nat
  BY PlayerRenameAssumption
<1> HIDE DEF PlayerType, ProfileType, RequestType, AnswerType, Init
<1> QED
  BY <1>2, <1>3, <1>4, <1>5 DEF TypeOK

\* The player asks,
LEMMA AsksTyped ==
  ASSUME TypeOK, NEW p \in Player, NEW n \in Name, DoRename(p, n) \/ RenamePlayer(p, n)
  PROVE  TypeOK'
<1>1. requests' \in 1..MaxRequests /\ requests' \in 0..MaxRequests
  BY PlayerRenameAssumption DEF TypeOK, DoRename, RenamePlayer, NewRequest
<1>2. db' \in [Player -> Seq(RequestType)]
  <2>1. CASE DoRename(p, n)
    <3>1. [op |-> "FindName", name |-> n, id |-> requests'] \in RequestType
      BY <1>1, Requests
    <3> QED
      BY <2>1, <3>1, Asked DEF DoRename
  <2>2. CASE RenamePlayer(p, n)
    <3>1. [op |-> "InsertNewNameCounter", name |-> n, frozen |-> FALSE, gm |-> TRUE] \in RequestType
      BY Requests
    <3> QED
      BY <2>2, <3>1, Asked DEF RenamePlayer
  <2> QED
    BY <2>1, <2>2
<1>3. /\ UNCHANGED <<live, saved, namecounter, mail, confirms, leaked, undone, stuck, exposed>>
      /\ raced' \subseteq raced \cup {p}
  BY DEF DoRename, RenamePlayer, history
<1> HIDE DEF RequestType, AnswerType, PlayerType, ProfileType
<1> QED
  BY <1>1, <1>2, <1>3 DEF TypeOK, live, saved

LEMMA DoRename2Typed ==
  ASSUME TypeOK, NEW c \in confirms, DoRename2(c)
  PROVE  TypeOK'
<1>1. c.pid \in Player /\ c.name \in Name
  BY DEF TypeOK
<1>2. PICK p \in Player : p = c.pid
  BY <1>1
<1>3. /\ UNCHANGED <<online, player, saved, namecounter, mail, requests, leaked, undone, stuck>>
      /\ confirms' \subseteq confirms
      /\ exposed' \subseteq exposed \cup {p} /\ raced' \subseteq raced \cup {p}
  BY <1>2 DEF DoRename2
<1>4. profile' \in [Player -> ProfileType]
  <2>1. profile' = profile \/ profile' = [profile EXCEPT ![p] = FrozenGoldCoin(profile[p], Price)]
    BY <1>2 DEF DoRename2
  <2>2. profile \in [Player -> ProfileType] /\ FrozenGoldCoin(profile[p], Price) \in ProfileType
    BY MoneyTyped DEF TypeOK
  <2> HIDE DEF ProfileType
  <2> QED
    BY <2>1, <2>2
<1>5. db' \in [Player -> Seq(RequestType)]
  <2>1. \/ db' = db
        \/ \E f \in BOOLEAN : Ask(p, [op |-> "InsertNewNameCounter", name |-> c.name, frozen |-> f, gm |-> FALSE])
    BY <1>2 DEF DoRename2
  <2>2. \A f \in BOOLEAN : [op |-> "InsertNewNameCounter", name |-> c.name, frozen |-> f, gm |-> FALSE] \in RequestType
    BY <1>1, Requests
  <2>3. db \in [Player -> Seq(RequestType)]
    BY DEF TypeOK
  <2> QED
    BY <2>1, <2>2, <2>3, Asked
<1> HIDE DEF RequestType, AnswerType, PlayerType, ProfileType
<1> QED
  BY <1>3, <1>4, <1>5 DEF TypeOK, saved

\* spends, leaves and is saved;
LEMMA SpendTyped ==
  ASSUME TypeOK, NEW p \in Player, Spend(p) \/ LoseCard(p)
  PROVE  TypeOK'
<1>1. /\ UNCHANGED <<online, saved, namecounter, gamedb, confirms, requests, leaked, undone, stuck>>
      /\ exposed' \subseteq exposed \cup {p} /\ raced' \subseteq raced \cup {p}
  BY DEF Spend, LoseCard
<1>2. profile' \in [Player -> ProfileType]
  <2>1. profile' = profile \/ profile' = [profile EXCEPT ![p] = ResumeGoldCoin(profile[p], 1)]
    BY DEF Spend, LoseCard
  <2>2. profile \in [Player -> ProfileType] /\ 1 \in 0..Price
    BY Prices DEF TypeOK
  <2>3. ResumeGoldCoin(profile[p], 1) \in ProfileType
    BY <2>2, MoneyTyped
  <2> HIDE DEF ProfileType
  <2> QED
    BY <2>1, <2>2, <2>3
<1>3. player' \in [Player -> PlayerType]
  <2> DEFINE pl == [player[p] EXCEPT !.cards = player[p].cards - 1]
  <2>1. player' = player \/ (player[p].cards > 0 /\ player' = [player EXCEPT ![p] = pl])
    BY DEF Spend, LoseCard
  <2>2. player \in [Player -> PlayerType]
    BY DEF TypeOK
  <2>3. player[p].cards > 0 => pl \in PlayerType
    BY <2>2 DEF PlayerType
  <2> HIDE DEF PlayerType, pl
  <2> QED
    BY <2>1, <2>2, <2>3
<1> HIDE DEF RequestType, AnswerType, PlayerType, ProfileType
<1> QED
  BY <1>1, <1>2, <1>3 DEF TypeOK, saved, gamedb

LEMMA SavesTyped ==
  ASSUME TypeOK, NEW p \in Player, Logout(p) \/ Login(p) \/ SaveDb(p) \/ SaveProfile(p)
  PROVE  TypeOK'
<1>1. /\ UNCHANGED <<player, profile, saved, namecounter, mail, confirms, requests, history>>
      /\ online' \in [Player -> BOOLEAN]
  BY DEF TypeOK, Logout, Login, SaveDb, SaveProfile, live, gamedb
<1>2. db' \in [Player -> Seq(RequestType)]
  <2>1. \/ db' = db \/ db' = [db EXCEPT ![p] = @ \o Saves(p)]
        \/ db' = [db EXCEPT ![p] = @ \o SaveOfflineDb(p)]
    BY DEF Logout, Login, SaveDb, SaveProfile, gamedb
  <2>2. Saves(p) \in Seq(RequestType) /\ SaveOfflineDb(p) \in Seq(RequestType)
    BY SavesHas
  <2>3. db \in [Player -> Seq(RequestType)]
    BY DEF TypeOK
  <2> QED
    BY <2>1, <2>2, <2>3, Joins
<1> HIDE DEF RequestType, AnswerType, PlayerType, ProfileType
<1> QED
  BY <1>1, <1>2 DEF TypeOK, saved, history

\* gamedb answers,
LEMMA AnswersTyped ==
  ASSUME TypeOK, NEW p \in Player, FindName(p) \/ InsertNewNameCounter(p)
  PROVE  TypeOK'
<1> DEFINE r == Head(db[p])
<1>1. /\ UNCHANGED <<live, saved, confirms, requests, history>>
      /\ Done(p) /\ db[p] # <<>>
      /\ namecounter' \subseteq namecounter \cup {r.name}
      /\ r.op \in {"FindName", "InsertNewNameCounter"}
  BY DEF FindName, InsertNewNameCounter, HeadIs
<1>2. r \in RequestType
  BY <1>1, HeadFacts
<1>3. r.name \in Name
  BY <1>1, <1>2, RequestFacts
<1>4. db' \in [Player -> Seq(RequestType)]
  BY <1>1, DoneWith
<1>5. mail' \in [Player -> Seq(AnswerType)]
  <2>1. CASE FindName(p)
    <3>1. r.op = "FindName"
      BY <2>1 DEF FindName, HeadIs
    <3>2. [op |-> "FindName", name |-> r.name, id |-> r.id, success |-> r.name \in namecounter] \in AnswerType
      <4>1. r.id \in 1..MaxRequests /\ (r.name \in namecounter) \in BOOLEAN
        BY <1>2, <3>1, RequestFacts
      <4> HIDE DEF r, AnswerType
      <4> QED
        BY <1>3, <4>1, Answers
    <3> QED
      BY <2>1, <3>2, Answered DEF FindName
  <2>2. CASE InsertNewNameCounter(p)
    <3>1. r.op = "InsertNewNameCounter"
      BY <2>2 DEF InsertNewNameCounter, HeadIs
    <3>2. [op |-> "InsertNewNameCounter", name |-> r.name, frozen |-> r.frozen, gm |-> r.gm,
           success |-> r.name \notin namecounter] \in AnswerType
      BY <1>2, <3>1, RequestFacts, Answers
    <3> QED
      BY <2>2, <3>2, Answered DEF InsertNewNameCounter
  <2> QED
    BY <1>1, <2>1, <2>2 DEF FindName, InsertNewNameCounter, HeadIs
<1> HIDE DEF RequestType, AnswerType, PlayerType, ProfileType, r
<1> QED
  BY <1>1, <1>3, <1>4, <1>5 DEF TypeOK, live, saved, history

\* and writes;
LEMMA WritesTyped ==
  ASSUME TypeOK, NEW p \in Player, DeleteName(p) \/ SavePlayer(p) \/ SaveOfflineProfile(p)
  PROVE  TypeOK'
<1>1. /\ UNCHANGED <<live, mail, confirms, requests, history>>
      /\ Done(p) /\ db[p] # <<>> /\ namecounter' \subseteq namecounter
  BY DEF DeleteName, SavePlayer, SaveOfflineProfile, HeadIs
<1>2. Head(db[p]) \in RequestType
  BY <1>1, HeadFacts
<1>3. db' \in [Player -> Seq(RequestType)]
  BY <1>1, DoneWith
<1>4. row' \in [Player -> PlayerType]
  <2>1. row' = row \/ row' = [row EXCEPT ![p] = Put(Head(db[p]), row[p])]
    BY DEF DeleteName, SavePlayer, SaveOfflineProfile, saved
  <2>2. row \in [Player -> PlayerType]
    BY DEF TypeOK
  <2>3. Put(Head(db[p]), row[p]) \in PlayerType
    BY <1>2, <2>2, PutTyped
  <2> HIDE DEF PlayerType
  <2> QED
    BY <2>1, <2>2, <2>3
<1>5. profileRow' \in [Player -> ProfileType]
  <2>1. profileRow \in [Player -> ProfileType]
    BY DEF TypeOK
  <2>2. CASE profileRow' = profileRow
    BY <2>1, <2>2
  <2>3. CASE SaveOfflineProfile(p)
    <3>1. Head(db[p]).profile \in ProfileType
      BY <1>2, <2>3, RequestFacts DEF SaveOfflineProfile, HeadIs
    <3> HIDE DEF ProfileType
    <3> QED
      BY <2>1, <2>3, <3>1 DEF SaveOfflineProfile
  <2> QED
    BY <2>2, <2>3 DEF DeleteName, SavePlayer, saved
<1> HIDE DEF RequestType, AnswerType, PlayerType, ProfileType
<1> QED
  BY <1>1, <1>3, <1>4, <1>5 DEF TypeOK, live, history

\* the world takes the answers,
LEMMA DoRename1Typed ==
  ASSUME TypeOK, NEW p \in Player, DoRename1(p)
  PROVE  TypeOK'
<1> DEFINE a == Head(mail[p])
           c == [pid |-> p, name |-> a.name, id |-> a.id]
<1>1. /\ UNCHANGED <<live, saved, namecounter, db, requests, history>>
      /\ Take(p) /\ mail[p] # <<>> /\ a.op = "FindName" /\ confirms' \subseteq confirms \cup {c}
  BY DEF DoRename1, MailIs
<1>2. mail' \in [Player -> Seq(AnswerType)] /\ a \in AnswerType
  BY <1>1, Taken
<1>3. a.name \in Name /\ a.id \in 1..MaxRequests
  BY <1>1, <1>2, AnswerFacts
<1>4. confirms' \subseteq [pid : Player, name : Name, id : 1..MaxRequests]
  BY <1>1, <1>3 DEF TypeOK
<1> HIDE DEF RequestType, AnswerType, PlayerType, ProfileType, a, c
<1> QED
  BY <1>1, <1>2, <1>4 DEF TypeOK, live, saved, history

LEMMA DoRename3Typed ==
  ASSUME TypeOK, NEW p \in Player, DoRename3(p)
  PROVE  TypeOK'
<1> DEFINE a == Head(mail[p])
<1>1. /\ UNCHANGED <<online, saved, namecounter, confirms, requests, undone, stuck, exposed, raced>>
      /\ Take(p) /\ mail[p] # <<>>
      /\ leaked' \subseteq leaked \cup {a.name}
      /\ DoRenameSuccess(p, a) \/ DoRenameFail(p, a)
  BY DEF DoRename3, MailIs
<1>2. mail' \in [Player -> Seq(AnswerType)] /\ a \in AnswerType
  BY <1>1, Taken
<1>3. a.name \in Name
  BY <1>2, AnswerFacts
<1>4. player \in [Player -> PlayerType] /\ profile \in [Player -> ProfileType]
      /\ db \in [Player -> Seq(RequestType)]
  BY DEF TypeOK
<1>5. player' \in [Player -> PlayerType]
  <2>1. player' = player \/ player' = [player EXCEPT ![p] = Renamed(player[p], a)]
    BY <1>1 DEF DoRenameSuccess, DoRenameFail
  <2>2. Renamed(player[p], a) \in PlayerType
    BY <1>2, <1>4, RenamedTyped
  <2> HIDE DEF PlayerType, a
  <2> QED
    BY <1>4, <2>1, <2>2
<1>6. profile' \in [Player -> ProfileType]
  <2>1. \/ profile' = profile
        \/ profile' = [profile EXCEPT ![p] = UnFrozenMoney(profile[p])]
        \/ profile' = [profile EXCEPT ![p] = ResumeGoldCoin(UnFrozenMoney(profile[p]), Price)]
    BY <1>1 DEF DoRenameSuccess, DoRenameFail
  <2>2. UnFrozenMoney(profile[p]) \in ProfileType
    BY <1>4, MoneyTyped
  <2>3. ResumeGoldCoin(UnFrozenMoney(profile[p]), Price) \in ProfileType
    BY <2>2, MoneyTyped, Prices
  <2> HIDE DEF ProfileType
  <2> QED
    BY <1>4, <2>1, <2>2, <2>3
<1>7. db' \in [Player -> Seq(RequestType)]
  <2>1. db' = db \/ Ask(p, [op |-> "DeleteName", name |-> player[p].name])
    BY <1>1 DEF DoRenameSuccess, DoRenameFail, OnRenameSuccess
  <2>2. player[p].name \in Name
    BY <1>4 DEF PlayerType
  <2>3. [op |-> "DeleteName", name |-> player[p].name] \in RequestType
    BY <2>2, Requests
  <2> QED
    BY <1>4, <2>1, <2>3, Asked
<1> HIDE DEF RequestType, AnswerType, PlayerType, ProfileType, a
<1> QED
  BY <1>1, <1>2, <1>3, <1>5, <1>6, <1>7 DEF TypeOK, saved

\* or loses them, and it stops.
LEMMA LoseAnswerTyped ==
  ASSUME TypeOK, NEW p \in Player, LoseAnswer(p)
  PROVE  TypeOK'
<1> DEFINE a == Head(mail[p])
<1>1. /\ UNCHANGED <<live, saved, namecounter, db, confirms, requests, undone, exposed, raced>>
      /\ Take(p) /\ mail[p] # <<>>
      /\ leaked' \subseteq leaked \cup {a.name} /\ stuck' \subseteq stuck \cup {p}
  BY DEF LoseAnswer, Forget
<1>2. mail' \in [Player -> Seq(AnswerType)] /\ a \in AnswerType
  BY <1>1, Taken
<1>3. a.name \in Name
  BY <1>2, AnswerFacts
<1> HIDE DEF RequestType, AnswerType, PlayerType, ProfileType, a
<1> QED
  BY <1>1, <1>2, <1>3 DEF TypeOK, live, saved

LEMMA RestartTyped ==
  ASSUME TypeOK, Restart
  PROVE  TypeOK'
<1>1. \A p \in Player : row[p].name \in Name
  BY DEF TypeOK, PlayerType
<1>2. /\ online' = [p \in Player |-> FALSE] /\ player' = row /\ profile' = profileRow
      /\ db' = [p \in Player |-> <<>>] /\ mail' = [p \in Player |-> <<>>] /\ confirms' = {}
      /\ undone' = undone \cup {row[p].name : p \in {q \in Player : row[q].name # player[q].name}}
      /\ leaked' = leaked \cup (namecounter \ {row[p].name : p \in Player})
      /\ stuck' = stuck \cup {p \in Player : profileRow[p].frozen # None}
      /\ raced' = raced \cup {p \in Player : row[p].free > row[p].rename}
      /\ UNCHANGED <<row, profileRow, namecounter, requests, exposed>>
  BY DEF Restart, saved
<1>3. (leaked \cup undone)' \subseteq Name
  BY <1>1, <1>2 DEF TypeOK
<1>4. (stuck \cup exposed \cup raced)' \subseteq Player
  BY <1>2 DEF TypeOK
<1>5. /\ db' \in [Player -> Seq(RequestType)] /\ mail' \in [Player -> Seq(AnswerType)]
      /\ online' \in [Player -> BOOLEAN]
  <2> HIDE DEF RequestType, AnswerType
  <2> QED
    BY <1>2
<1> HIDE DEF RequestType, AnswerType, PlayerType, ProfileType
<1> QED
  BY <1>2, <1>3, <1>4, <1>5 DEF TypeOK

LEMMA StutterTyped == TypeOK /\ UNCHANGED vars => TypeOK'
BY DEF TypeOK, vars, live, saved, gamedb, history

-----------------------------------------------------------------------------
(* Names: each has one owner, is taken then, and is not taken without one *)

Gifts(n) == {a \in AnswerType : a.op = "InsertNewNameCounter" /\ a.success /\ a.name = n}
GiveUps(n) == {r \in RequestType : r.op = "DeleteName" /\ r.name = n}

Owns(p, n) ==
  player[p].name = n \/ Has(mail[p], Gifts(n)) \/ Has(db[p], GiveUps(n))

\* Three parts of the invariant, of one name.
OwnedOnce(n) ==
  /\ \A p, q \in Player : Owns(p, n) /\ Owns(q, n) => p = q
  /\ \A p \in Player :
       /\ Once(mail[p], Gifts(n)) /\ Once(db[p], GiveUps(n))
       /\ player[p].name = n => ~Has(mail[p], Gifts(n)) /\ ~Has(db[p], GiveUps(n))
       /\ ~(Has(mail[p], Gifts(n)) /\ Has(db[p], GiveUps(n)))
Names ==
  /\ \A n \in Name \ undone : OwnedOnce(n) /\ \A p \in Player : Owns(p, n) => n \in namecounter
  /\ \A n \in namecounter \ leaked : \E p \in Player : Owns(p, n)

LEMMA NamesRead ==
  ASSUME TypeOK
  PROVE  OneOwner /\ OwnedIsTaken /\ NameUsed <=> Names
<1>1. ASSUME NEW p \in Player, NEW n \in Name
      PROVE  /\ Given(p, n) = {i \in DOMAIN mail[p] : mail[p][i] \in Gifts(n)}
             /\ GivenUp(p, n) = {i \in DOMAIN db[p] : db[p][i] \in GiveUps(n)}
  <2>1. db[p] \in Seq(RequestType) /\ mail[p] \in Seq(AnswerType)
    BY HeadFacts
  <2>2. \A i \in DOMAIN mail[p] : mail[p][i] \in AnswerType
    BY <2>1
  <2>3. \A i \in DOMAIN db[p] : db[p][i] \in RequestType
    BY <2>1
  <2> HIDE DEF RequestType, AnswerType
  <2> QED
    BY <2>2, <2>3 DEF Given, GivenUp, Gifts, GiveUps
<1>2. ASSUME NEW p \in Player, NEW n \in Name
      PROVE  /\ Given(p, n) = {} <=> ~Has(mail[p], Gifts(n))
             /\ GivenUp(p, n) = {} <=> ~Has(db[p], GiveUps(n))
             /\ (\A i, j \in Given(p, n) : i = j) <=> Once(mail[p], Gifts(n))
             /\ (\A i, j \in GivenUp(p, n) : i = j) <=> Once(db[p], GiveUps(n))
  BY <1>1 DEF Has, Once
<1>3. OneOwner <=> \A n \in Name \ undone : OwnedOnce(n)
  <2>1. ASSUME NEW n \in Name \ undone, OneOwner PROVE OwnedOnce(n)
    <3>1. \A p, q \in Player :
            /\ player[p].name = n =>
                 /\ player[q].name = n => p = q
                 /\ Given(q, n) = {} /\ GivenUp(q, n) = {}
            /\ \A i \in Given(p, n) : /\ \A j \in Given(q, n) : p = q /\ i = j
                                     /\ GivenUp(q, n) = {}
            /\ \A i \in GivenUp(p, n) : \A j \in GivenUp(q, n) : p = q /\ i = j
      BY <2>1 DEF OneOwner
    <3>2. \A p \in Player : /\ \A i, j \in Given(p, n) : i = j
                            /\ \A i, j \in GivenUp(p, n) : i = j
      BY <3>1
    <3>3. \A p, q \in Player :
            /\ player[p].name = n =>
                 /\ player[q].name = n => p = q
                 /\ Given(q, n) = {} /\ GivenUp(q, n) = {}
            /\ Given(p, n) # {} => (Given(q, n) # {} => p = q) /\ GivenUp(q, n) = {}
            /\ GivenUp(p, n) # {} /\ GivenUp(q, n) # {} => p = q
      BY <3>1
    <3> QED
      BY <1>2, <3>2, <3>3 DEF OwnedOnce, Owns
  <2>2. ASSUME \A n \in Name \ undone : OwnedOnce(n) PROVE OneOwner
    <3> SUFFICES ASSUME NEW n \in Name \ undone, NEW p \in Player, NEW q \in Player
                 PROVE  /\ player[p].name = n =>
                             /\ player[q].name = n => p = q
                             /\ Given(q, n) = {} /\ GivenUp(q, n) = {}
                        /\ \A i \in Given(p, n) : /\ \A j \in Given(q, n) : p = q /\ i = j
                                                 /\ GivenUp(q, n) = {}
                        /\ \A i \in GivenUp(p, n) : \A j \in GivenUp(q, n) : p = q /\ i = j
      BY DEF OneOwner
    <3>1. OwnedOnce(n)
      BY <2>2
    <3>2. /\ player[p].name = n =>
               /\ player[q].name = n => p = q
               /\ Given(q, n) = {} /\ GivenUp(q, n) = {}
          /\ Given(p, n) # {} => (Given(q, n) # {} => p = q) /\ GivenUp(q, n) = {}
          /\ GivenUp(p, n) # {} /\ GivenUp(q, n) # {} => p = q
          /\ \A i, j \in Given(p, n) : i = j
          /\ \A i, j \in GivenUp(p, n) : i = j
      BY <1>2, <3>1 DEF OwnedOnce, Owns
    <3> QED
      BY <3>2
  <2> QED
    BY <2>1, <2>2
<1>4. OwnedIsTaken <=> \A n \in Name \ undone : \A p \in Player : Owns(p, n) => n \in namecounter
  BY <1>2 DEF OwnedIsTaken, Owns
<1>5. NameUsed <=> \A n \in namecounter \ leaked : \E p \in Player : Owns(p, n)
  <2>1. ASSUME NEW p \in Player, NEW n \in Name
        PROVE  /\ Has(mail[p], Gifts(n)) <=>
                    \E a \in ToSet(mail[p]) : a.op = "InsertNewNameCounter" /\ a.success /\ a.name = n
               /\ Has(db[p], GiveUps(n)) <=> \E r \in ToSet(db[p]) : r.op = "DeleteName" /\ r.name = n
    <3>1. /\ Has(mail[p], Gifts(n)) <=> Given(p, n) # {}
          /\ Has(db[p], GiveUps(n)) <=> GivenUp(p, n) # {}
      BY <1>2
    <3> QED
      BY <3>1 DEF Given, GivenUp, ToSet
  <2>2. namecounter \subseteq Name
    BY DEF TypeOK
  <2> QED
    BY <2>1, <2>2 DEF NameUsed, Owns
<1> QED
  BY <1>3, <1>4, <1>5 DEF Names

\* Nothing changes in the view of a name: the requests and answers that matter
\* to it are the same.
Quiet(p) ==
  /\ \A q \in Player \ {p} : db'[q] = db[q] /\ mail'[q] = mail[q]
  /\ \A q \in Player : player'[q].name = player[q].name
  /\ \A n \in Name : /\ Has(mail'[p], Gifts(n)) <=> Has(mail[p], Gifts(n))
                     /\ Has(db'[p], GiveUps(n)) <=> Has(db[p], GiveUps(n))
                     /\ Once(mail'[p], Gifts(n)) <=> Once(mail[p], Gifts(n))
                     /\ Once(db'[p], GiveUps(n)) <=> Once(db[p], GiveUps(n))
  /\ UNCHANGED <<namecounter, undone, leaked>>

LEMMA NamesQuiet ==
  ASSUME TypeOK, Names, NEW p \in Player, Quiet(p)
  PROVE  Names'
<1>1. \A q \in Player, n \in Name :
        /\ Has(mail'[q], Gifts(n)) <=> Has(mail[q], Gifts(n))
        /\ Has(db'[q], GiveUps(n)) <=> Has(db[q], GiveUps(n))
        /\ Once(mail'[q], Gifts(n)) <=> Once(mail[q], Gifts(n))
        /\ Once(db'[q], GiveUps(n)) <=> Once(db[q], GiveUps(n))
        /\ player'[q].name = player[q].name
  BY DEF Quiet
<1>2. \A n \in Name : OwnedOnce(n) => OwnedOnce(n)'
  BY <1>1 DEF OwnedOnce, Owns
<1>3. \A q \in Player, n \in Name : Owns(q, n)' <=> Owns(q, n)
  BY <1>1 DEF Owns
<1>4. namecounter' = namecounter /\ undone' = undone /\ leaked' = leaked /\ namecounter \subseteq Name
  BY DEF Quiet, TypeOK
<1> QED
  BY <1>2, <1>3, <1>4 DEF Names

LEMMA NamesInit == Init => Names
<1> SUFFICES ASSUME Init PROVE Names
  OBVIOUS
<1>1. PICK name \in [Player -> Name] :
        /\ IsInjective(name)
        /\ player = [p \in Player |-> [name |-> name[p], rename |-> 0, free |-> 0,
                                       cards |-> IF p \in CardOwner THEN 1 ELSE 0]]
        /\ namecounter = {name[p] : p \in Player}
  BY DEF Init
<1>2. \A p \in Player : /\ player[p].name = name[p] /\ name[p] \in namecounter
                        /\ db[p] = <<>> /\ mail[p] = <<>>
  BY <1>1 DEF Init
<1>3. \A p, q \in Player : name[p] = name[q] => p = q
  BY <1>1 DEF IsInjective
<1>4. \A n : \A p \in Player : Owns(p, n) <=> name[p] = n
  BY <1>2, HasNone DEF Owns
<1>5. \A n : OwnedOnce(n)
  BY <1>2, <1>3, <1>4, HasNone DEF OwnedOnce
<1> QED
  BY <1>1, <1>2, <1>4, <1>5 DEF Names

\* A request that deletes no name,
LEMMA NotGiveUp == \A r : r.op # "DeleteName" => \A n : r \notin GiveUps(n)
BY DEF GiveUps

\* an answer that gives none,
LEMMA NotGift == \A a : a.op # "InsertNewNameCounter" \/ ~a.success => \A n : a \notin Gifts(n)
BY DEF Gifts

LEMMA NamesAsk ==
  ASSUME TypeOK, Names, NEW p \in Player, NEW r \in RequestType, Ask(p, r), r.op # "DeleteName",
         UNCHANGED <<player, mail, namecounter, undone, leaked>>
  PROVE  Names'
<1>1. \A n : r \notin GiveUps(n)
  BY NotGiveUp
<1>2. Quiet(p)
  BY <1>1, Asked DEF Quiet
<1> QED
  BY <1>2, NamesQuiet

LEMMA NamesSame ==
  ASSUME TypeOK, Names, NEW p \in Player, \A q \in Player : player'[q].name = player[q].name,
         UNCHANGED <<db, mail, namecounter, undone, leaked>>
  PROVE  Names'
<1>1. Quiet(p)
  BY DEF Quiet
<1> QED
  BY <1>1, NamesQuiet

\* and the requests that save a player leave the view as it is.
LEMMA NamesSave ==
  ASSUME TypeOK, Names, NEW p \in Player,
         SaveDb(p) \/ Logout(p) \/ SaveProfile(p)
  PROVE  Names'
<1>1. UNCHANGED <<player, mail, namecounter, undone, leaked>>
  BY DEF SaveDb, Logout, SaveProfile, live, history
<1>2. PICK t \in Seq(RequestType) :
        /\ db' = [db EXCEPT ![p] = @ \o t]
        /\ \A M : Has(t, M) => \/ Main(player[p]) \in M \/ Base(player[p]) \in M
                               \/ Item(player[p]) \in M \/ Profile(profile[p]) \in M
  <2>1. CASE SaveDb(p) \/ Logout(p)
    BY <2>1, SavesHas DEF SaveDb, Logout
  <2>2. CASE SaveProfile(p)
    BY <2>2, SavesHas DEF SaveProfile
  <2> QED
    BY <2>1, <2>2
<1>3. \A n : ~Has(t, GiveUps(n))
  BY <1>2, NotGiveUp DEF Main, Base, Item, Profile
<1>4. Quiet(p)
  BY <1>1, <1>2, <1>3, Joins DEF Quiet
<1> QED
  BY <1>4, NamesQuiet

LEMMA NamesDone ==
  ASSUME TypeOK, Names, NEW p \in Player, db[p] # <<>>, Done(p), Head(db[p]).op # "DeleteName",
         UNCHANGED <<player, namecounter, undone, leaked>>,
         mail' = mail \/ \E a \in AnswerType : a.op = "FindName" /\ Answer(p, a)
  PROVE  Names'
<1>1. \A n : Head(db[p]) \notin GiveUps(n)
  BY NotGiveUp
<1>2. \/ mail' = mail
      \/ /\ \A q \in Player \ {p} : mail'[q] = mail[q]
         /\ \A n : /\ Has(mail'[p], Gifts(n)) <=> Has(mail[p], Gifts(n))
                   /\ Once(mail'[p], Gifts(n)) <=> Once(mail[p], Gifts(n))
  <2>1. CASE \E a \in AnswerType : a.op = "FindName" /\ Answer(p, a)
    <3>1. PICK a \in AnswerType : a.op = "FindName" /\ Answer(p, a)
      BY <2>1
    <3>2. \A n : a \notin Gifts(n)
      BY <3>1, NotGift
    <3> QED
      BY <3>1, <3>2, Answered
  <2> QED
    BY <2>1
<1>3. Quiet(p)
  BY <1>1, <1>2, DoneWith DEF Quiet
<1> QED
  BY <1>3, NamesQuiet

\* An answer that gives no name is taken.
LEMMA NamesTake ==
  ASSUME TypeOK, Names, NEW p \in Player, mail[p] # <<>>, Take(p),
         Head(mail[p]).op # "InsertNewNameCounter" \/ ~Head(mail[p]).success,
         UNCHANGED <<player, db, namecounter, undone, leaked>>
  PROVE  Names'
<1>1. \A n : Head(mail[p]) \notin Gifts(n)
  BY NotGift
<1>2. Quiet(p)
  BY <1>1, Taken DEF Quiet
<1> QED
  BY <1>2, NamesQuiet

\* One that gives a name is lost, or comes too late: the name is left taken.
LEMMA NamesLeak ==
  ASSUME TypeOK, Names, NEW p \in Player, mail[p] # <<>>, Take(p),
         Head(mail[p]).op = "InsertNewNameCounter", Head(mail[p]).success,
         leaked' = leaked \cup {Head(mail[p]).name},
         UNCHANGED <<player, db, namecounter, undone>>
  PROVE  Names'
<1> DEFINE a == Head(mail[p])
<1>1. /\ \A q \in Player \ {p} : mail'[q] = mail[q]
      /\ \A M : /\ Has(mail[p], M) <=> Has(mail'[p], M) \/ a \in M
                /\ Once(mail[p], M) => Once(mail'[p], M)
  BY Taken
<1>2. \A n : a \in Gifts(n) => n = a.name
  BY DEF Gifts
<1> HIDE DEF a
<1>3. \A q \in Player, n \in Name :
        /\ Has(mail'[q], Gifts(n)) => Has(mail[q], Gifts(n))
        /\ Once(mail[q], Gifts(n)) => Once(mail'[q], Gifts(n))
        /\ n # a.name => (Has(mail[q], Gifts(n)) <=> Has(mail'[q], Gifts(n)))
  BY <1>1, <1>2
<1>4. \A q \in Player, n \in Name : /\ Owns(q, n)' => Owns(q, n)
                                    /\ n # a.name => (Owns(q, n) <=> Owns(q, n)')
  BY <1>3 DEF Owns
<1>5. \A n \in Name : OwnedOnce(n) => OwnedOnce(n)'
  BY <1>3, <1>4 DEF OwnedOnce
<1>6. leaked' = leaked \cup {a.name} /\ namecounter \subseteq Name
  BY DEF a, TypeOK
<1> QED
  BY <1>4, <1>5, <1>6 DEF Names

\* A name is entered: it had no owner, and is given away with the answer.
LEMMA NamesInsert ==
  ASSUME TypeOK, Names, NEW p \in Player, InsertNewNameCounter(p)
  PROVE  Names'
<1> DEFINE r == Head(db[p])
           a == [op |-> "InsertNewNameCounter", name |-> r.name, frozen |-> r.frozen, gm |-> r.gm,
                 success |-> r.name \notin namecounter]
<1>1. /\ db[p] # <<>> /\ Done(p) /\ r.op = "InsertNewNameCounter" /\ Answer(p, a)
      /\ namecounter' = namecounter \cup {r.name}
      /\ UNCHANGED <<player, undone, leaked>>
  BY DEF InsertNewNameCounter, HeadIs, live, history
<1>2. r \in RequestType
  BY <1>1, HeadFacts
<1>3. r.name \in Name /\ r.frozen \in BOOLEAN /\ r.gm \in BOOLEAN
  BY <1>1, <1>2, RequestFacts
<1>4. a \in AnswerType
  <2>1. (r.name \notin namecounter) \in BOOLEAN
    OBVIOUS
  <2> HIDE DEF r, AnswerType
  <2> QED
    BY <1>3, <2>1, Answers
<1>5. \A n : a \in Gifts(n) <=> n = r.name /\ r.name \notin namecounter
  <2>1. a.op = "InsertNewNameCounter" /\ a.name = r.name /\ a.success = (r.name \notin namecounter)
    OBVIOUS
  <2> HIDE DEF a, r, AnswerType
  <2> QED
    BY <1>4, <2>1 DEF Gifts
<1>6. /\ \A q \in Player \ {p} : db'[q] = db[q] /\ mail'[q] = mail[q]
      /\ \A M : /\ Has(db[p], M) <=> Has(db'[p], M) \/ r \in M
                /\ Once(db[p], M) => Once(db'[p], M)
      /\ \A M : /\ Has(mail'[p], M) <=> Has(mail[p], M) \/ a \in M
                /\ Once(mail'[p], M) <=> Once(mail[p], M) /\ (a \in M => ~Has(mail[p], M))
  BY <1>1, <1>4, DoneWith, Answered
<1>7. \A n : r \notin GiveUps(n)
  BY <1>1, NotGiveUp
<1> HIDE DEF r, a
<1>8. \A q \in Player, n \in Name :
        /\ Has(db'[q], GiveUps(n)) <=> Has(db[q], GiveUps(n))
        /\ Once(db[q], GiveUps(n)) => Once(db'[q], GiveUps(n))
        /\ Has(mail'[q], Gifts(n)) <=>
             Has(mail[q], Gifts(n)) \/ (q = p /\ n = r.name /\ r.name \notin namecounter)
        /\ Once(mail[q], Gifts(n)) /\ (n = r.name /\ r.name \notin namecounter => ~Has(mail[q], Gifts(n)))
             => Once(mail'[q], Gifts(n))
        /\ player'[q].name = player[q].name
  BY <1>1, <1>5, <1>6, <1>7
<1>9. \A q \in Player, n \in Name :
        Owns(q, n)' <=> Owns(q, n) \/ (q = p /\ n = r.name /\ r.name \notin namecounter)
  BY <1>8 DEF Owns
<1>10. ASSUME NEW n \in Name \ undone PROVE OwnedOnce(n)'
  <2>1. OwnedOnce(n) /\ \A q \in Player : Owns(q, n) => n \in namecounter
    BY DEF Names
  <2>2. CASE n = r.name /\ r.name \notin namecounter
    <3>1. \A q \in Player : ~Owns(q, n)
      BY <2>1, <2>2
    <3> QED
      BY <1>8, <1>9, <2>1, <2>2, <3>1 DEF OwnedOnce, Owns
  <2>3. CASE ~(n = r.name /\ r.name \notin namecounter)
    BY <1>8, <1>9, <2>1, <2>3 DEF OwnedOnce
  <2> QED
    BY <2>2, <2>3
<1>11. undone' = undone /\ leaked' = leaked /\ namecounter' = namecounter \cup {r.name}
       /\ namecounter \subseteq Name
  BY <1>1 DEF TypeOK
<1> QED
  BY <1>3, <1>9, <1>10, <1>11 DEF Names

\* A name is deleted: its owner was the request that does it.
LEMMA NamesDelete ==
  ASSUME TypeOK, Names, NEW p \in Player, DeleteName(p)
  PROVE  Names'
<1> DEFINE r == Head(db[p])
<1>1. /\ db[p] # <<>> /\ Done(p) /\ r.op = "DeleteName"
      /\ namecounter' = namecounter \ {r.name}
      /\ UNCHANGED <<player, mail, undone, leaked>>
  BY DEF DeleteName, HeadIs, live, history
<1>2. r \in RequestType
  BY <1>1, HeadFacts
<1>3. \A n : r \in GiveUps(n) <=> n = r.name
  <2> HIDE DEF r, RequestType
  <2> QED
    BY <1>1, <1>2 DEF GiveUps
<1>4. /\ \A q \in Player \ {p} : db'[q] = db[q]
      /\ \A M : /\ Has(db[p], M) <=> Has(db'[p], M) \/ r \in M
                /\ Once(db[p], M) <=> Once(db'[p], M) /\ (r \in M => ~Has(db'[p], M))
  BY <1>1, DoneWith
<1> HIDE DEF r
<1>5. \A q \in Player, n \in Name :
        /\ Has(db[q], GiveUps(n)) <=> Has(db'[q], GiveUps(n)) \/ (q = p /\ n = r.name)
        /\ Once(db[q], GiveUps(n)) =>
             Once(db'[q], GiveUps(n)) /\ (q = p /\ n = r.name => ~Has(db'[q], GiveUps(n)))
        /\ player'[q].name = player[q].name /\ mail'[q] = mail[q]
  BY <1>1, <1>3, <1>4
<1>6. \A q \in Player, n \in Name : Owns(q, n) <=> Owns(q, n)' \/ (q = p /\ n = r.name)
  BY <1>5 DEF Owns
<1>7. ASSUME NEW n \in Name \ undone, NEW q \in Player, OwnedOnce(n), Owns(q, n)' PROVE n # r.name
  <2>1. Owns(p, r.name) => Owns(q, n) /\ (n = r.name => q = p)
    BY <1>6, <1>7 DEF OwnedOnce
  <2>2. n = r.name => ~Owns(p, n)'
    <3>1. n = r.name => Has(db[p], GiveUps(n)) /\ ~Has(db'[p], GiveUps(n))
      BY <1>5, <1>7 DEF OwnedOnce
    <3> QED
      BY <1>5, <1>7, <3>1 DEF OwnedOnce, Owns
  <2> QED
    BY <1>6, <1>7, <2>1, <2>2
<1>8. \A n \in Name : OwnedOnce(n) => OwnedOnce(n)'
  BY <1>5, <1>6 DEF OwnedOnce
<1>9. undone' = undone /\ leaked' = leaked /\ namecounter' = namecounter \ {r.name}
       /\ namecounter \subseteq Name
  BY <1>1 DEF TypeOK
<1> QED
  BY <1>6, <1>7, <1>8, <1>9 DEF Names

\* A player is renamed: the new name is its own, and its old one given up.
LEMMA NamesRenamed ==
  ASSUME TypeOK, Names, NEW p \in Player, DoRename3(p), online[p], Head(mail[p]).success
  PROVE  Names'
<1> DEFINE a == Head(mail[p])
           old == player[p].name
           d == [op |-> "DeleteName", name |-> old]
<1>1. /\ mail[p] # <<>> /\ Take(p) /\ a.op = "InsertNewNameCounter"
      /\ UNCHANGED <<namecounter, undone, leaked>>
      /\ player' = [player EXCEPT ![p] = Renamed(player[p], a)] /\ Ask(p, d)
  BY DEF DoRename3, MailIs, DoRenameSuccess, OnRenameSuccess
<1>2. a \in AnswerType /\ player \in [Player -> PlayerType] /\ player[p] \in PlayerType
  BY <1>1, HeadFacts DEF TypeOK
<1>3. a.name \in Name /\ old \in Name
  BY <1>2, AnswerFacts DEF PlayerType
<1>4. d \in RequestType
  BY <1>3, Requests
<1>5. \A n : a \in Gifts(n) <=> n = a.name
  <2> HIDE DEF AnswerType
  <2> QED
    BY <1>1, <1>2 DEF Gifts
<1>6. \A n : d \in GiveUps(n) <=> n = old
  <2>1. d.op = "DeleteName" /\ d.name = old
    OBVIOUS
  <2> HIDE DEF d, RequestType
  <2> QED
    BY <1>4, <2>1 DEF GiveUps
<1>7. \A q \in Player : player'[q].name = IF q = p THEN a.name ELSE player[q].name
  <2>1. Renamed(player[p], a).name = a.name
    BY <1>2 DEF Renamed, PlayerType
  <2> HIDE DEF PlayerType, a
  <2> QED
    BY <1>1, <1>2, <2>1
<1>8. /\ \A q \in Player \ {p} : db'[q] = db[q] /\ mail'[q] = mail[q]
      /\ \A M : /\ Has(mail[p], M) <=> Has(mail'[p], M) \/ a \in M
                /\ Once(mail[p], M) <=> Once(mail'[p], M) /\ (a \in M => ~Has(mail'[p], M))
      /\ \A M : /\ Has(db'[p], M) <=> Has(db[p], M) \/ d \in M
                /\ Once(db'[p], M) <=> Once(db[p], M) /\ (d \in M => ~Has(db[p], M))
  BY <1>1, <1>4, Taken, Asked
<1> HIDE DEF a, d, old
<1>9. \A q \in Player, n \in Name :
        /\ Has(mail[q], Gifts(n)) <=> Has(mail'[q], Gifts(n)) \/ (q = p /\ n = a.name)
        /\ Once(mail[q], Gifts(n)) =>
             Once(mail'[q], Gifts(n)) /\ (q = p /\ n = a.name => ~Has(mail'[q], Gifts(n)))
        /\ Has(db'[q], GiveUps(n)) <=> Has(db[q], GiveUps(n)) \/ (q = p /\ n = old)
        /\ Once(db[q], GiveUps(n)) /\ (q = p /\ n = old => ~Has(db[q], GiveUps(n)))
             => Once(db'[q], GiveUps(n))
  BY <1>5, <1>6, <1>8
<1>10. \A q \in Player, n \in Name : Owns(q, n)' <=> Owns(q, n)
  <2> SUFFICES ASSUME NEW q \in Player, NEW n \in Name PROVE Owns(q, n)' <=> Owns(q, n)
    OBVIOUS
  <2>1. CASE q # p
    BY <1>7, <1>9, <2>1 DEF Owns
  <2>2. CASE q = p
    BY <1>7, <1>9, <2>2 DEF Owns, old
  <2> QED
    BY <2>1, <2>2
<1>11. ASSUME NEW n \in Name, OwnedOnce(n) PROVE OwnedOnce(n)'
  <2>1. \A q, s \in Player : Owns(q, n)' /\ Owns(s, n)' => q = s
    BY <1>10, <1>11 DEF OwnedOnce
  <2>2. ASSUME NEW q \in Player
        PROVE  /\ Once(mail[q], Gifts(n))' /\ Once(db[q], GiveUps(n))'
               /\ player'[q].name = n => ~Has(mail'[q], Gifts(n)) /\ ~Has(db'[q], GiveUps(n))
               /\ ~(Has(mail'[q], Gifts(n)) /\ Has(db'[q], GiveUps(n)))
    <3>1. /\ Once(mail[q], Gifts(n)) /\ Once(db[q], GiveUps(n))
          /\ player[q].name = n => ~Has(mail[q], Gifts(n)) /\ ~Has(db[q], GiveUps(n))
          /\ ~(Has(mail[q], Gifts(n)) /\ Has(db[q], GiveUps(n)))
      BY <1>11 DEF OwnedOnce
    <3>2. player[p].name = old
      BY DEF old
    <3>3. CASE q = p
      <4>1. n = a.name => n # old
        BY <1>9, <3>1, <3>2, <3>3
      <4> QED
        BY <1>7, <1>9, <3>1, <3>2, <3>3, <4>1
    <3>4. CASE q # p
      BY <1>7, <1>9, <3>1, <3>4
    <3> QED
      BY <3>3, <3>4
  <2> QED
    BY <2>1, <2>2 DEF OwnedOnce
<1>12. undone' = undone /\ leaked' = leaked /\ namecounter' = namecounter /\ namecounter \subseteq Name
  BY <1>1 DEF TypeOK
<1> QED
  BY <1>10, <1>11, <1>12 DEF Names

\* The game server stops: a player that loses a name it had taken has another
\* one back.
LEMMA NamesRestart ==
  ASSUME TypeOK, Names, Restart
  PROVE  Names'
<1>1. /\ player' = row /\ namecounter' = namecounter /\ namecounter \subseteq Name
      /\ undone' = undone \cup {row[p].name : p \in {q \in Player : row[q].name # player[q].name}}
      /\ leaked' = leaked \cup (namecounter \ {row[p].name : p \in Player})
      /\ \A p \in Player : db'[p] = <<>> /\ mail'[p] = <<>>
  BY DEF TypeOK, Restart, saved
<1>2. \A p \in Player : \A n : Owns(p, n)' <=> row[p].name = n
  BY <1>1, HasNone DEF Owns
<1>3. \A p \in Player : \A n : n \notin undone' /\ row[p].name = n => player[p].name = n
  BY <1>1
<1>4. ASSUME NEW n \in Name \ undone'
      PROVE  OwnedOnce(n)' /\ \A p \in Player : Owns(p, n)' => n \in namecounter'
  <2>1. n \in Name \ undone
    BY <1>1
  <2>2. OwnedOnce(n) /\ \A p \in Player : Owns(p, n) => n \in namecounter
    BY <2>1 DEF Names
  <2>3. \A p \in Player : Owns(p, n)' => Owns(p, n)
    BY <1>2, <1>3 DEF Owns
  <2>4. \A p \in Player : ~Has(mail'[p], Gifts(n)) /\ ~Has(db'[p], GiveUps(n))
                          /\ Once(mail'[p], Gifts(n)) /\ Once(db'[p], GiveUps(n))
    BY <1>1, HasNone
  <2> QED
    BY <1>1, <2>2, <2>3, <2>4 DEF OwnedOnce
<1>5. \A n \in namecounter' \ leaked' : \E p \in Player : Owns(p, n)'
  BY <1>1, <1>2
<1> QED
  BY <1>4, <1>5 DEF Names

-----------------------------------------------------------------------------
(* Money: the frozen sum is the price of the one rename that waits for it *)

Freezings == {r \in RequestType : r.op = "InsertNewNameCounter" /\ r.frozen}
FrozenAnswers == {a \in AnswerType : a.op = "InsertNewNameCounter" /\ a.frozen}
Uncovered == {r \in RequestType : r.op = "SaveOfflineProfile" /\ ~Covered(r.profile)}

Waits(p) == Has(db[p], Freezings) \/ Has(mail[p], FrozenAnswers)

\* Two parts of the invariant, of one player.
Money(p) ==
  /\ p \notin stuck => (profile[p].frozen # None => Waits(p))
  /\ p \notin exposed =>
       /\ Covered(profile[p]) /\ Covered(profileRow[p]) /\ ~Has(db[p], Uncovered)
       /\ Waits(p) => profile[p].frozen # None
       /\ ~(Has(db[p], Freezings) /\ Has(mail[p], FrozenAnswers))
       /\ Once(db[p], Freezings) /\ Once(mail[p], FrozenAnswers)

LEMMA MoneyRead ==
  ASSUME TypeOK
  PROVE  FrozenReturned /\ PriceFrozen <=> \A p \in Player : Money(p)
<1>1. ASSUME NEW p \in Player
      PROVE  /\ \A i \in DOMAIN mail[p] : mail[p][i] \in AnswerType
             /\ \A i \in DOMAIN db[p] : db[p][i] \in RequestType
  <2>1. db[p] \in Seq(RequestType) /\ mail[p] \in Seq(AnswerType)
    BY HeadFacts
  <2> HIDE DEF RequestType, AnswerType
  <2> QED
    BY <2>1
<1>2. ASSUME NEW p \in Player
      PROVE  /\ FrozenMail(p) = {i \in DOMAIN mail[p] : mail[p][i] \in FrozenAnswers}
             /\ FrozenDb(p) = {i \in DOMAIN db[p] : db[p][i] \in Freezings}
  BY <1>1 DEF FrozenDb, FrozenMail, Freezings, FrozenAnswers
<1>3. ASSUME NEW p \in Player
      PROVE  /\ FrozenMail(p) = {} <=> ~Has(mail[p], FrozenAnswers)
             /\ FrozenDb(p) = {} <=> ~Has(db[p], Freezings)
             /\ (\A i, j \in FrozenMail(p) : i = j) <=> Once(mail[p], FrozenAnswers)
             /\ (\A i, j \in FrozenDb(p) : i = j) <=> Once(db[p], Freezings)
  BY <1>2 DEF Has, Once
<1>4. ASSUME NEW p \in Player
      PROVE  (\A i \in DOMAIN db[p] : db[p][i].op = "SaveOfflineProfile" => Covered(db[p][i].profile))
             <=> ~Has(db[p], Uncovered)
  BY <1>1 DEF Has, Uncovered
<1>5. ASSUME NEW p \in Player
      PROVE  (\E r \in UnderWay(p) : r.frozen) <=> Waits(p)
  <2>1. (\E r \in UnderWay(p) : r.frozen) <=> FrozenDb(p) # {} \/ FrozenMail(p) # {}
    BY DEF UnderWay, ToSet, FrozenDb, FrozenMail
  <2> QED
    BY <1>3, <2>1 DEF Waits
<1>6. FrozenReturned <=> \A p \in Player \ stuck : profile[p].frozen # None => Waits(p)
  BY <1>5 DEF FrozenReturned
<1>7. PriceFrozen <=>
        \A p \in Player \ exposed :
          /\ Covered(profile[p]) /\ Covered(profileRow[p]) /\ ~Has(db[p], Uncovered)
          /\ Waits(p) => profile[p].frozen # None
          /\ ~(Has(db[p], Freezings) /\ Has(mail[p], FrozenAnswers))
          /\ Once(db[p], Freezings) /\ Once(mail[p], FrozenAnswers)
  BY <1>3, <1>4 DEF PriceFrozen, Waits
<1> QED
  BY <1>6, <1>7 DEF Money

LEMMA MoneyInit == Init => \A p \in Player : Money(p)
<1> SUFFICES ASSUME Init, NEW p \in Player PROVE Money(p)
  OBVIOUS
<1>1. db[p] = <<>> /\ mail[p] = <<>> /\ profileRow = profile
      /\ profile[p].owe = 0 /\ profile[p].frozen = None
  BY DEF Init
<1> QED
  BY <1>1, HasNone DEF Money, Waits, Covered

\* The view of its money stays.
Still(p) ==
  /\ profile'[p] = profile[p]
  /\ p \in stuck => p \in stuck'
  /\ p \in exposed => p \in exposed'
  /\ Has(db'[p], Freezings) <=> Has(db[p], Freezings)
  /\ Has(mail'[p], FrozenAnswers) <=> Has(mail[p], FrozenAnswers)
  /\ Once(db[p], Freezings) => Once(db'[p], Freezings)
  /\ Once(mail[p], FrozenAnswers) => Once(mail'[p], FrozenAnswers)
  /\ Has(db'[p], Uncovered) => Has(db[p], Uncovered) \/ ~Covered(profile[p])
  /\ profileRow'[p] = profileRow[p] \/ Has(db[p], Uncovered) \/ Covered(profileRow'[p])

LEMMA MoneyStill ==
  ASSUME NEW p \in Player, Money(p), Still(p)
  PROVE  Money(p)'
BY DEF Money, Still, Waits

\* What is neither a request nor an answer about frozen money, nor a profile.
LEMMA NotFreezing ==
  /\ \A r : r.op # "InsertNewNameCounter" \/ ~r.frozen => r \notin Freezings /\ r \notin FrozenAnswers
  /\ \A r : r.op # "SaveOfflineProfile" => r \notin Uncovered
BY DEF Freezings, FrozenAnswers, Uncovered

LEMMA NotFreezingFields ==
  /\ \A n, i : [op |-> "FindName", name |-> n, id |-> i] \notin Freezings \cup Uncovered
  /\ \A n, g : [op |-> "InsertNewNameCounter", name |-> n, frozen |-> FALSE, gm |-> g]
                 \notin Freezings \cup Uncovered
  /\ \A n, g, f : [op |-> "InsertNewNameCounter", name |-> n, frozen |-> f, gm |-> g] \notin Uncovered
  /\ \A n : [op |-> "DeleteName", name |-> n] \notin Freezings \cup Uncovered
  /\ \A n, i, s : [op |-> "FindName", name |-> n, id |-> i, success |-> s] \notin FrozenAnswers
  /\ \A pl : Main(pl) \notin Freezings \cup Uncovered /\ Base(pl) \notin Freezings \cup Uncovered
             /\ Item(pl) \notin Freezings \cup Uncovered
  /\ \A pf : Profile(pf) \notin Freezings /\ (Profile(pf) \in Uncovered => ~Covered(pf))
BY DEF Freezings, FrozenAnswers, Uncovered, Main, Base, Item, Profile

\* The other players' is not looked at.
LEMMA MoneyOthers ==
  ASSUME NEW q \in Player, Money(q), db'[q] = db[q], mail'[q] = mail[q],
         profile'[q] = profile[q], profileRow'[q] = profileRow[q],
         q \in stuck <=> q \in stuck', q \in exposed <=> q \in exposed'
  PROVE  Money(q)'
BY DEF Money, Waits

\* What a profile is when a price is frozen, paid or released, and when
\* something else is bought.
LEMMA CoveredFrozen ==
  ASSUME NEW pf \in ProfileType, Covered(pf), ~Overwrites(pf, Price), GoldCoin(pf) >= Price
  PROVE  Covered(FrozenGoldCoin(pf, Price)) /\ FrozenGoldCoin(pf, Price).frozen # None
<1>1. pf.rpl \in Nat /\ pf.gold \in Nat /\ pf.owe = 0 /\ pf.frozen = None
  BY Prices DEF ProfileType, Covered, Overwrites
<1>2. RplGoldCoin(pf) = pf.rpl /\ GoldCoin(pf) = pf.gold + pf.rpl
  BY <1>1 DEF RplGoldCoin, GoldCoin, Frozen, Above0
<1>3. Price <= pf.rpl \/ (pf.rpl = 0 /\ Price <= pf.gold)
  BY <1>1, <1>2, Prices DEF Overwrites
<1> DEFINE rpl == [kind |-> "rpl", val |-> Price]
           gold == [kind |-> "gold", val |-> Price]
<1>4. rpl \in Sum /\ gold \in Sum /\ rpl.val = Price /\ rpl.kind = "rpl" /\ gold.val = Price /\ gold.kind = "gold"
  BY Prices DEF Sum
<1>5. rpl # None /\ gold # None
  BY <1>4, NotNone
<1>6. CASE Price <= pf.rpl
  <2>1. FrozenGoldCoin(pf, Price) = [pf EXCEPT !.frozen = rpl]
    BY <1>2, <1>6 DEF FrozenGoldCoin, FrozenMoney
  <2>2. /\ FrozenGoldCoin(pf, Price).frozen = rpl /\ FrozenGoldCoin(pf, Price).owe = 0
        /\ FrozenGoldCoin(pf, Price).rpl = pf.rpl
    <3> HIDE DEF rpl
    <3> QED
      BY <1>1, <2>1 DEF ProfileType
  <2> HIDE DEF rpl
  <2> QED
    BY <1>4, <1>5, <1>6, <2>2 DEF Covered
<1>7. CASE ~(Price <= pf.rpl)
  <2>1. FrozenGoldCoin(pf, Price) = FrozenMoney(FrozenMoney(pf, "rpl", 0), "gold", Price)
    <3>1. RplGoldCoin(pf) = 0 /\ Price - 0 = Price
      BY <1>2, <1>3, <1>7, Prices
    <3> QED
      BY <1>2, <1>7, <3>1 DEF FrozenGoldCoin
  <2>2. /\ FrozenGoldCoin(pf, Price).frozen = gold /\ FrozenGoldCoin(pf, Price).owe = 0
        /\ FrozenGoldCoin(pf, Price).gold = pf.gold
    BY <1>1, <2>1 DEF ProfileType, FrozenMoney
  <2> HIDE DEF gold
  <2> QED
    BY <1>3, <1>4, <1>5, <1>7, <2>2 DEF Covered
<1> QED
  BY <1>6, <1>7

LEMMA CoveredReleased ==
  ASSUME NEW pf \in ProfileType
  PROVE  /\ UnFrozenMoney(pf).frozen = None
         /\ ResumeGoldCoin(UnFrozenMoney(pf), Price).frozen = None
         /\ Covered(pf) => Covered(UnFrozenMoney(pf))
         /\ Covered(pf) /\ pf.frozen # None => Covered(ResumeGoldCoin(UnFrozenMoney(pf), Price))
<1> DEFINE u == UnFrozenMoney(pf)
<1>1. /\ u \in ProfileType /\ u.rpl = pf.rpl /\ u.gold = pf.gold /\ u.owe = pf.owe /\ u.frozen = None
  BY DEF UnFrozenMoney, ProfileType
<1>2. u.rpl \in Nat /\ u.gold \in Nat /\ u.owe \in Nat
  BY <1>1, Prices DEF ProfileType
<1> HIDE DEF u
<1>3. ResumeGoldCoin(u, Price).frozen = None
  BY <1>1 DEF ResumeGoldCoin, ProfileType
<1>4. ASSUME Covered(pf), pf.frozen # None PROVE ResumeGoldCoin(u, Price).owe = 0
  <2>1. u.owe = 0 /\ (Price <= u.rpl \/ Price <= u.gold)
    BY <1>1, <1>4 DEF Covered
  <2>2. CASE u.rpl >= Price
    <3>1. ResumeGoldCoin(u, Price).owe = u.owe
      BY <1>1, <2>2 DEF ResumeGoldCoin, ProfileType
    <3> QED
      BY <2>1, <3>1
  <2>3. CASE ~(u.rpl >= Price)
    <3>1. ResumeGoldCoin(u, Price).owe = u.owe + Above0(0 - (u.gold - (Price - u.rpl)))
      BY <1>1, <2>3 DEF ResumeGoldCoin, ProfileType
    <3> QED
      BY <1>2, <2>1, <2>3, <3>1, Prices DEF Above0
  <2> QED
    BY <2>2, <2>3
<1> QED
  BY <1>1, <1>3, <1>4 DEF Covered, u

LEMMA CoveredSpent ==
  ASSUME NEW pf \in ProfileType
  PROVE  /\ ResumeGoldCoin(pf, 1).frozen = pf.frozen
         /\ Covered(pf) /\ GoldCoin(pf) >= 1 /\ pf.rpl \notin 1..Frozen(pf, "rpl")
              => Covered(ResumeGoldCoin(pf, 1))
<1> DEFINE s == ResumeGoldCoin(pf, 1)
<1>1. pf.rpl \in Nat /\ pf.gold \in Nat /\ pf.owe \in Nat
  BY Prices DEF ProfileType
<1>2. /\ pf.rpl >= 1 => s.rpl = pf.rpl - 1 /\ s.gold = pf.gold /\ s.owe = pf.owe
      /\ ~(pf.rpl >= 1) => /\ s.rpl = 0 /\ s.gold = Above0(pf.gold - (1 - pf.rpl))
                           /\ s.owe = pf.owe + Above0(0 - (pf.gold - (1 - pf.rpl)))
      /\ s.frozen = pf.frozen
  BY DEF ResumeGoldCoin, ProfileType
<1> HIDE DEF s
<1>3. ASSUME Covered(pf), GoldCoin(pf) >= 1, pf.rpl \notin 1..Frozen(pf, "rpl") PROVE Covered(s)
  <2>1. CASE pf.frozen = None
    <3>1. GoldCoin(pf) = pf.gold + pf.rpl
      BY <1>1, <2>1 DEF RplGoldCoin, GoldCoin, Frozen, Above0
    <3>2. s.owe = 0
      BY <1>1, <1>2, <1>3, <3>1 DEF Covered, Above0
    <3> QED
      BY <1>2, <2>1, <3>2 DEF Covered
  <2>2. CASE pf.frozen # None /\ pf.frozen.kind = "rpl"
    <3>1. Frozen(pf, "rpl") = Price /\ Price <= pf.rpl
      BY <1>3, <2>2 DEF Covered, Frozen
    <3>2. pf.rpl > Price
      BY <1>1, <1>3, <3>1, Prices
    <3> QED
      BY <1>1, <1>2, <1>3, <2>2, <3>2, Prices DEF Covered
  <2>3. CASE pf.frozen # None /\ pf.frozen.kind # "rpl"
    <3>1. pf.frozen.kind = "gold" /\ pf.frozen.val = Price /\ Price <= pf.gold
      BY <1>3, <2>3 DEF Covered, ProfileType, Sum
    <3>2. GoldCoin(pf) = (pf.gold - Price) + pf.rpl
      BY <1>1, <2>3, <3>1, Prices DEF RplGoldCoin, GoldCoin, Frozen, Above0
    <3>3. pf.rpl >= 1 \/ pf.gold - 1 >= Price
      BY <1>1, <1>3, <3>1, <3>2, Prices
    <3>4. s.owe = 0 /\ Price <= s.gold
      BY <1>1, <1>2, <1>3, <3>1, <3>3, Prices DEF Covered, Above0
    <3> QED
      BY <1>2, <1>3, <2>3, <3>1, <3>4 DEF Covered
  <2> QED
    BY <2>1, <2>2, <2>3
<1> QED
  BY <1>2, <1>3 DEF s

LEMMA MoneyFacts ==
  ASSUME TypeOK, NEW p \in Player
  PROVE  profile[p] \in ProfileType /\ player[p] \in PlayerType /\ row[p] \in PlayerType
BY DEF TypeOK

\* A request that is not about frozen money is made,
LEMMA MoneyAsk ==
  ASSUME TypeOK, \A q \in Player : Money(q), NEW p \in Player, NEW r \in RequestType, Ask(p, r),
         r \notin Freezings \cup Uncovered, UNCHANGED <<profile, profileRow, mail, stuck, exposed>>
  PROVE  \A q \in Player : Money(q)'
<1>1. Still(p)
  BY Asked DEF Still
<1>2. \A q \in Player \ {p} : db'[q] = db[q]
  BY Asked
<1> QED
  BY <1>1, <1>2, MoneyStill, MoneyOthers

LEMMA MoneySame ==
  ASSUME \A q \in Player : Money(q), UNCHANGED <<profile, profileRow, db, mail, stuck, exposed>>
  PROVE  \A q \in Player : Money(q)'
BY MoneyOthers

\* a player is saved,
LEMMA MoneySave ==
  ASSUME TypeOK, \A q \in Player : Money(q), NEW p \in Player,
         SaveDb(p) \/ Logout(p) \/ SaveProfile(p)
  PROVE  \A q \in Player : Money(q)'
<1>1. UNCHANGED <<profile, profileRow, mail, stuck, exposed>>
  BY DEF SaveDb, Logout, SaveProfile, live, saved, history
<1>2. PICK t \in Seq(RequestType) :
        /\ db' = [db EXCEPT ![p] = @ \o t]
        /\ \A M : Has(t, M) => \/ Main(player[p]) \in M \/ Base(player[p]) \in M
                               \/ Item(player[p]) \in M \/ Profile(profile[p]) \in M
  <2>1. CASE SaveDb(p) \/ Logout(p)
    BY <2>1, SavesHas DEF SaveDb, Logout
  <2>2. CASE SaveProfile(p)
    BY <2>2, SavesHas DEF SaveProfile
  <2> QED
    BY <2>1, <2>2
<1>3. ~Has(t, Freezings) /\ (Has(t, Uncovered) => ~Covered(profile[p]))
  BY <1>2, NotFreezingFields
<1>4. Still(p)
  BY <1>1, <1>2, <1>3, Joins DEF Still
<1>5. \A q \in Player \ {p} : db'[q] = db[q]
  BY <1>2, Joins
<1> QED
  BY <1>1, <1>4, <1>5, MoneyStill, MoneyOthers

\* a request that is not about frozen money is done, with or without an answer,
LEMMA MoneyDone ==
  ASSUME TypeOK, \A q \in Player : Money(q), NEW p \in Player, db[p] # <<>>, Done(p),
         Head(db[p]) \notin Freezings, UNCHANGED <<profile, stuck, exposed>>,
         \A q \in Player \ {p} : profileRow'[q] = profileRow[q],
         profileRow'[p] = profileRow[p] \/ Head(db[p]) \in Uncovered \/ Covered(profileRow'[p]),
         mail' = mail \/ \E a \in AnswerType : a \notin FrozenAnswers /\ Answer(p, a)
  PROVE  \A q \in Player : Money(q)'
<1>1. /\ \A q \in Player \ {p} : mail'[q] = mail[q]
      /\ Has(mail'[p], FrozenAnswers) <=> Has(mail[p], FrozenAnswers)
      /\ Once(mail'[p], FrozenAnswers) <=> Once(mail[p], FrozenAnswers)
  <2>1. CASE \E a \in AnswerType : a \notin FrozenAnswers /\ Answer(p, a)
    BY <2>1, Answered
  <2> QED
    BY <2>1
<1>2. Still(p)
  BY <1>1, DoneWith DEF Still
<1>3. \A q \in Player \ {p} : db'[q] = db[q]
  BY DoneWith
<1> QED
  BY <1>1, <1>2, <1>3, MoneyStill, MoneyOthers

\* and so is an answer.
LEMMA MoneyTake ==
  ASSUME TypeOK, \A q \in Player : Money(q), NEW p \in Player, mail[p] # <<>>, Take(p),
         Head(mail[p]) \notin FrozenAnswers, UNCHANGED <<profile, profileRow, exposed>>,
         stuck \subseteq stuck', \A q \in Player \ {p} : q \in stuck' <=> q \in stuck,
         db' = db \/ \E r \in RequestType : r \notin Freezings \cup Uncovered /\ Ask(p, r)
  PROVE  \A q \in Player : Money(q)'
<1>1. /\ \A q \in Player \ {p} : db'[q] = db[q]
      /\ Has(db'[p], Freezings) <=> Has(db[p], Freezings)
      /\ Once(db'[p], Freezings) <=> Once(db[p], Freezings)
      /\ Has(db'[p], Uncovered) <=> Has(db[p], Uncovered)
  <2>1. CASE \E r \in RequestType : r \notin Freezings \cup Uncovered /\ Ask(p, r)
    BY <2>1, Asked
  <2> QED
    BY <2>1
<1>2. Still(p)
  BY <1>1, Taken DEF Still
<1>3. \A q \in Player \ {p} : mail'[q] = mail[q]
  BY Taken
<1> QED
  BY <1>1, <1>2, <1>3, MoneyStill, MoneyOthers

\* A price is frozen: none was, and no rename waited for one.
LEMMA MoneyFreeze ==
  ASSUME TypeOK, \A q \in Player : Money(q), NEW p \in Player, NEW r \in RequestType, Ask(p, r),
         r \in Freezings, r \notin Uncovered,
         GoldCoin(profile[p]) >= Price,
         profile' = [profile EXCEPT ![p] = FrozenGoldCoin(@, Price)],
         exposed' = IF Overwrites(profile[p], Price) THEN exposed \cup {p} ELSE exposed,
         UNCHANGED <<profileRow, mail, stuck>>
  PROVE  \A q \in Player : Money(q)'
<1>1. /\ \A q \in Player \ {p} : db'[q] = db[q]
      /\ Has(db'[p], Freezings)
      /\ Once(db'[p], Freezings) <=> Once(db[p], Freezings) /\ ~Has(db[p], Freezings)
      /\ Has(db'[p], Uncovered) <=> Has(db[p], Uncovered)
  BY Asked
<1>2. profile \in [Player -> ProfileType] /\ profile[p] \in ProfileType
  BY DEF TypeOK
<1>3. /\ profile'[p] = FrozenGoldCoin(profile[p], Price)
      /\ \A q \in Player \ {p} : profile'[q] = profile[q]
  <2> HIDE DEF ProfileType
  <2> QED
    BY <1>2
<1>4. ASSUME p \notin exposed'
      PROVE  /\ Covered(profile'[p]) /\ profile'[p].frozen # None
             /\ p \notin exposed /\ profile[p].frozen = None
  <2>1. ~Overwrites(profile[p], Price) /\ p \notin exposed
    BY <1>4
  <2>2. Covered(profile[p]) /\ profile[p].frozen = None
    BY <2>1 DEF Money, Overwrites
  <2> QED
    BY <1>2, <1>3, <2>1, <2>2, CoveredFrozen
<1>5. Money(p)'
  BY <1>1, <1>4 DEF Money, Waits
<1>6. \A q \in Player \ {p} : q \in exposed' <=> q \in exposed
  OBVIOUS
<1> QED
  BY <1>1, <1>3, <1>5, <1>6, MoneyOthers

LEMMA MoneyDoRename2 ==
  ASSUME TypeOK, \A q \in Player : Money(q), NEW c \in confirms, DoRename2(c)
  PROVE  \A q \in Player : Money(q)'
<1>1. c.pid \in Player /\ c.name \in Name
  BY DEF TypeOK
<1>2. PICK p \in Player : p = c.pid
  BY <1>1
<1> DEFINE pays == p \in HighGrade \/ player[p].rename > 0
           freezes == pays /\ player[p].cards = 0
           r == [op |-> "InsertNewNameCounter", name |-> c.name, frozen |-> freezes, gm |-> FALSE]
<1>3. UNCHANGED <<profileRow, mail, stuck>>
  BY DEF DoRename2, saved
<1>4. CASE UNCHANGED <<profile, db, exposed, raced>>
  BY <1>3, <1>4, MoneySame
<1>5. CASE /\ freezes => GoldCoin(profile[p]) >= Price
           /\ profile' = IF freezes THEN [profile EXCEPT ![p] = FrozenGoldCoin(@, Price)] ELSE profile
           /\ exposed' = IF freezes /\ Overwrites(profile[p], Price) THEN exposed \cup {p} ELSE exposed
           /\ Ask(p, r)
  <2>1. r \in RequestType /\ r \notin Uncovered /\ (r \in Freezings <=> freezes)
    <3>1. freezes \in BOOLEAN
      OBVIOUS
    <3> HIDE DEF freezes, RequestType
    <3>2. r \in RequestType
      BY <1>1, <3>1, Requests
    <3>3. r.op = "InsertNewNameCounter" /\ r.frozen = freezes
      OBVIOUS
    <3> HIDE DEF r
    <3> QED
      BY <3>2, <3>3 DEF Freezings, Uncovered
  <2>2. CASE freezes
    <3> HIDE DEF r, freezes
    <3> QED
      BY <1>3, <1>5, <2>1, <2>2, MoneyFreeze
  <2>3. CASE ~freezes
    <3> HIDE DEF r, freezes
    <3> QED
      BY <1>3, <1>5, <2>1, <2>3, MoneyAsk
  <2> QED
    BY <2>2, <2>3
<1> QED
  BY <1>2, <1>4, <1>5 DEF DoRename2

\* A player buys something else.
LEMMA MoneySpend ==
  ASSUME TypeOK, \A q \in Player : Money(q), NEW p \in Player, Spend(p)
  PROVE  \A q \in Player : Money(q)'
<1>1. profile \in [Player -> ProfileType] /\ profile[p] \in ProfileType
  BY DEF TypeOK
<1>2. /\ UNCHANGED <<profileRow, db, mail, stuck>> /\ GoldCoin(profile[p]) >= 1
      /\ profile' = [profile EXCEPT ![p] = ResumeGoldCoin(profile[p], 1)]
      /\ exposed' = IF profile[p].rpl \in 1..Frozen(profile[p], "rpl") THEN exposed \cup {p} ELSE exposed
  BY DEF Spend, saved, gamedb
<1>3. /\ profile'[p] = ResumeGoldCoin(profile[p], 1)
      /\ \A q \in Player \ {p} : profile'[q] = profile[q] /\ (q \in exposed' <=> q \in exposed)
  <2> HIDE DEF ProfileType
  <2> QED
    BY <1>1, <1>2
<1>4. profile'[p].frozen = profile[p].frozen
  BY <1>1, <1>3, CoveredSpent
<1>5. p \notin exposed' /\ Covered(profile[p]) => p \notin exposed /\ Covered(profile'[p])
  BY <1>1, <1>2, <1>3, CoveredSpent
<1>6. p \notin exposed' => p \notin exposed
  BY <1>2
<1>7. Money(p)'
  BY <1>2, <1>4, <1>5, <1>6 DEF Money, Waits
<1> QED
  BY <1>2, <1>3, <1>7, MoneyOthers

\* The freezing of a price goes from the request to its answer.
LEMMA MoneyInsert ==
  ASSUME TypeOK, \A q \in Player : Money(q), NEW p \in Player, InsertNewNameCounter(p)
  PROVE  \A q \in Player : Money(q)'
<1> DEFINE r == Head(db[p])
           a == [op |-> "InsertNewNameCounter", name |-> r.name, frozen |-> r.frozen, gm |-> r.gm,
                 success |-> r.name \notin namecounter]
<1>1. /\ db[p] # <<>> /\ Done(p) /\ r.op = "InsertNewNameCounter" /\ Answer(p, a)
      /\ UNCHANGED <<profile, profileRow, stuck, exposed>>
  BY DEF InsertNewNameCounter, HeadIs, live, saved, history
<1>2. r \in RequestType
  BY <1>1, HeadFacts
<1>3. r.name \in Name /\ r.frozen \in BOOLEAN /\ r.gm \in BOOLEAN
  BY <1>1, <1>2, RequestFacts
<1>4. a \in AnswerType
  <2>1. (r.name \notin namecounter) \in BOOLEAN
    OBVIOUS
  <2> HIDE DEF r, AnswerType
  <2> QED
    BY <1>3, <2>1, Answers
<1>5. (a \in FrozenAnswers <=> r.frozen) /\ (r \in Freezings <=> r.frozen)
  <2>1. a.op = "InsertNewNameCounter" /\ a.frozen = r.frozen
    OBVIOUS
  <2> HIDE DEF a, r, AnswerType, RequestType
  <2> QED
    BY <1>1, <1>2, <1>4, <2>1 DEF FrozenAnswers, Freezings
<1> HIDE DEF a
<1>6. CASE ~r.frozen
  <2> HIDE DEF r
  <2> QED
    BY <1>1, <1>4, <1>5, <1>6, MoneyDone DEF r
<1>7. CASE r.frozen
  <2> HIDE DEF r
  <2>1. /\ \A q \in Player \ {p} : db'[q] = db[q] /\ mail'[q] = mail[q]
        /\ Has(db[p], Freezings)
        /\ Once(db[p], Freezings) => Once(db'[p], Freezings) /\ ~Has(db'[p], Freezings)
        /\ Has(db'[p], Uncovered) => Has(db[p], Uncovered)
        /\ Has(mail'[p], FrozenAnswers)
        /\ Once(mail'[p], FrozenAnswers) <=> Once(mail[p], FrozenAnswers) /\ ~Has(mail[p], FrozenAnswers)
    BY <1>1, <1>4, <1>5, <1>7, DoneWith, Answered DEF r
  <2>2. Money(p)'
    BY <1>1, <2>1 DEF Money, Waits
  <2> QED
    BY <1>1, <2>1, <2>2, MoneyOthers
<1> QED
  BY <1>6, <1>7

\* It is paid or released,
LEMMA MoneyDoRename3 ==
  ASSUME TypeOK, \A q \in Player : Money(q), NEW p \in Player, DoRename3(p)
  PROVE  \A q \in Player : Money(q)'
<1> DEFINE a == Head(mail[p])
           d == [op |-> "DeleteName", name |-> player[p].name]
<1>1. /\ mail[p] # <<>> /\ Take(p) /\ a.op = "InsertNewNameCounter"
      /\ UNCHANGED <<profileRow, stuck, exposed>>
      /\ \/ Ask(p, d) /\ profile' = IF a.frozen
                                    THEN [profile EXCEPT ![p] = ResumeGoldCoin(UnFrozenMoney(@), Price)]
                                    ELSE profile
         \/ db' = db /\ profile' = IF a.frozen THEN [profile EXCEPT ![p] = UnFrozenMoney(@)] ELSE profile
  BY DEF DoRename3, MailIs, DoRenameSuccess, DoRenameFail, OnRenameSuccess, saved
<1>2. a \in AnswerType /\ profile \in [Player -> ProfileType] /\ profile[p] \in ProfileType
  BY <1>1, HeadFacts DEF TypeOK
<1>3. d \in RequestType /\ d \notin Freezings \cup Uncovered
  <2>1. player[p].name \in Name
    BY MoneyFacts DEF PlayerType
  <2> QED
    BY <2>1, Requests, NotFreezingFields
<1>4. a \in FrozenAnswers <=> a.frozen
  <2> HIDE DEF AnswerType
  <2> QED
    BY <1>1, <1>2 DEF FrozenAnswers
<1> HIDE DEF d
<1>5. CASE ~a.frozen
  <2>1. profile' = profile /\ (db' = db \/ Ask(p, d))
    BY <1>1, <1>5
  <2>2. a \notin FrozenAnswers
    BY <1>4, <1>5
  <2>3. \A q : q \in stuck' <=> q \in stuck
    BY <1>1
  <2> QED
    BY <1>1, <1>3, <2>1, <2>2, <2>3, MoneyTake
<1>6. CASE a.frozen
  <2>1. /\ \A q \in Player \ {p} : db'[q] = db[q]
        /\ Has(db'[p], Freezings) <=> Has(db[p], Freezings)
        /\ Once(db'[p], Freezings) <=> Once(db[p], Freezings)
        /\ Has(db'[p], Uncovered) <=> Has(db[p], Uncovered)
    BY <1>1, <1>3, Asked
  <2>2. /\ \A q \in Player \ {p} : mail'[q] = mail[q]
        /\ Has(mail[p], FrozenAnswers)
        /\ Once(mail[p], FrozenAnswers) => Once(mail'[p], FrozenAnswers) /\ ~Has(mail'[p], FrozenAnswers)
    BY <1>1, <1>4, <1>6, Taken
  <2>3. /\ \/ profile'[p] = ResumeGoldCoin(UnFrozenMoney(profile[p]), Price)
           \/ profile'[p] = UnFrozenMoney(profile[p])
        /\ \A q \in Player \ {p} : profile'[q] = profile[q]
    <3> HIDE DEF ProfileType
    <3> QED
      BY <1>1, <1>2, <1>6
  <2>4. /\ profile'[p].frozen = None
        /\ Covered(profile[p]) /\ profile[p].frozen # None => Covered(profile'[p])
    BY <1>2, <2>3, CoveredReleased
  <2>5. p \notin exposed' => /\ Covered(profile[p]) /\ Covered(profileRow[p]) /\ ~Has(db[p], Uncovered)
                             /\ profile[p].frozen # None /\ ~Has(db[p], Freezings)
                             /\ Once(db[p], Freezings) /\ Once(mail[p], FrozenAnswers)
    BY <1>1, <2>2 DEF Money, Waits
  <2>6. Money(p)'
    BY <1>1, <2>1, <2>2, <2>4, <2>5 DEF Money, Waits
  <2>7. \A q : (q \in stuck' <=> q \in stuck) /\ (q \in exposed' <=> q \in exposed)
    BY <1>1
  <2> QED
    BY <1>1, <2>1, <2>2, <2>3, <2>6, <2>7, MoneyOthers
<1> QED
  BY <1>5, <1>6

\* or forgotten: then it is stuck.
LEMMA MoneyLoseAnswer ==
  ASSUME TypeOK, \A q \in Player : Money(q), NEW p \in Player, LoseAnswer(p)
  PROVE  \A q \in Player : Money(q)'
<1> DEFINE a == Head(mail[p])
<1>1. /\ mail[p] # <<>> /\ Take(p) /\ UNCHANGED <<profile, profileRow, db, exposed>>
      /\ stuck' = IF a.op = "InsertNewNameCounter" /\ a.frozen THEN stuck \cup {p} ELSE stuck
  BY DEF LoseAnswer, Forget, live, saved
<1>2. a \in FrozenAnswers => p \in stuck'
  BY <1>1 DEF FrozenAnswers
<1>3. stuck \subseteq stuck' /\ \A q \in Player \ {p} : q \in stuck' <=> q \in stuck
  BY <1>1
<1>4. CASE a \notin FrozenAnswers
  BY <1>1, <1>3, <1>4, MoneyTake
<1>5. CASE a \in FrozenAnswers
  <2>1. /\ \A q \in Player \ {p} : mail'[q] = mail[q]
        /\ Has(mail'[p], FrozenAnswers) => Has(mail[p], FrozenAnswers)
        /\ Once(mail[p], FrozenAnswers) => Once(mail'[p], FrozenAnswers)
    BY <1>1, Taken
  <2>2. Money(p)'
    BY <1>1, <1>2, <1>5, <2>1 DEF Money, Waits
  <2> QED
    BY <1>1, <1>3, <2>1, <2>2, MoneyOthers
<1> QED
  BY <1>4, <1>5

LEMMA MoneyRestart ==
  ASSUME \A q \in Player : Money(q), Restart
  PROVE  \A q \in Player : Money(q)'
<1> SUFFICES ASSUME NEW q \in Player PROVE Money(q)'
  OBVIOUS
<1>1. /\ profile' = profileRow /\ profileRow' = profileRow /\ exposed' = exposed
      /\ db'[q] = <<>> /\ mail'[q] = <<>>
      /\ profileRow[q].frozen # None => q \in stuck'
  BY DEF Restart, saved
<1>2. /\ ~Has(db'[q], Freezings) /\ ~Has(mail'[q], FrozenAnswers) /\ ~Has(db'[q], Uncovered)
      /\ Once(db'[q], Freezings) /\ Once(mail'[q], FrozenAnswers)
  BY <1>1, HasNone
<1> QED
  BY <1>1, <1>2 DEF Money, Waits

-----------------------------------------------------------------------------
(* Renames: one is under way, and the second one is paid for *)

Renames == {r \in RequestType : r.op = "InsertNewNameCounter"}
RenameAnswers == {a \in AnswerType : a.op = "InsertNewNameCounter"}
Unpaid == {r \in Renames : ~r.gm /\ ~r.frozen}
UnpaidAnswers == {a \in RenameAnswers : ~a.gm /\ ~a.frozen}
TwiceFree == {r \in RequestType : r.op = "SavePlayerMain" /\ ~(r.free <= 1)}

\* A part of the invariant, of one player.
Free(p) ==
  p \notin raced =>
    /\ player[p].free <= 1 /\ player[p].free <= player[p].rename
    /\ row[p].free <= 1 /\ ~Has(db[p], TwiceFree)
    /\ ~(Has(db[p], Renames) /\ Has(mail[p], RenameAnswers))
    /\ Once(db[p], Renames) /\ Once(mail[p], RenameAnswers)
    /\ Has(db[p], Unpaid) \/ Has(mail[p], UnpaidAnswers) => player[p].rename = 0 \/ player[p].cards > 0

LEMMA UnderWayRead ==
  ASSUME TypeOK, NEW p \in Player
  PROVE  /\ RenameMail(p) = {i \in DOMAIN mail[p] : mail[p][i] \in RenameAnswers}
         /\ RenameDb(p) = {i \in DOMAIN db[p] : db[p][i] \in Renames}
         /\ UnderWay(p) = {} <=> ~Has(db[p], Renames) /\ ~Has(mail[p], RenameAnswers)
         /\ Has(db[p], Unpaid) <=> \E i \in RenameDb(p) : ~db[p][i].gm /\ ~db[p][i].frozen
         /\ Has(mail[p], UnpaidAnswers) <=> \E i \in RenameMail(p) : ~mail[p][i].gm /\ ~mail[p][i].frozen
         /\ Has(db[p], TwiceFree) <=>
              \E i \in DOMAIN db[p] : db[p][i].op = "SavePlayerMain" /\ ~(db[p][i].free <= 1)
<1>1. /\ \A i \in DOMAIN mail[p] : mail[p][i] \in AnswerType
      /\ \A i \in DOMAIN db[p] : db[p][i] \in RequestType
  <2>1. db[p] \in Seq(RequestType) /\ mail[p] \in Seq(AnswerType)
    BY HeadFacts
  <2> HIDE DEF RequestType, AnswerType
  <2> QED
    BY <2>1
<1>2. /\ RenameMail(p) = {i \in DOMAIN mail[p] : mail[p][i] \in RenameAnswers}
      /\ RenameDb(p) = {i \in DOMAIN db[p] : db[p][i] \in Renames}
  BY <1>1 DEF RenameMail, RenameDb, Renames, RenameAnswers
<1>3. UnderWay(p) = {} <=> ~Has(db[p], Renames) /\ ~Has(mail[p], RenameAnswers)
  <2>1. UnderWay(p) = {} <=> RenameDb(p) = {} /\ RenameMail(p) = {}
    BY DEF UnderWay, ToSet, RenameDb, RenameMail
  <2> QED
    BY <1>2, <2>1 DEF Has
<1>4. /\ Has(db[p], Unpaid) <=> \E i \in RenameDb(p) : ~db[p][i].gm /\ ~db[p][i].frozen
      /\ Has(mail[p], UnpaidAnswers) <=> \E i \in RenameMail(p) : ~mail[p][i].gm /\ ~mail[p][i].frozen
  BY <1>2 DEF Has, Unpaid, UnpaidAnswers
<1>5. Has(db[p], TwiceFree) <=>
        \E i \in DOMAIN db[p] : db[p][i].op = "SavePlayerMain" /\ ~(db[p][i].free <= 1)
  BY <1>1 DEF Has, TwiceFree
<1> QED
  BY <1>2, <1>3, <1>4, <1>5

LEMMA FreeRead ==
  ASSUME TypeOK
  PROVE  OneRename <=> \A p \in Player : Free(p)
<1>1. ASSUME NEW p \in Player
      PROVE  /\ RenameMail(p) = {} <=> ~Has(mail[p], RenameAnswers)
             /\ RenameDb(p) = {} <=> ~Has(db[p], Renames)
             /\ (\A i, j \in RenameMail(p) : i = j) <=> Once(mail[p], RenameAnswers)
             /\ (\A i, j \in RenameDb(p) : i = j) <=> Once(db[p], Renames)
  BY UnderWayRead DEF Has, Once
<1>2. ASSUME NEW p \in Player
      PROVE  (\A i \in RenameDb(p) : PaidOrFirst(p, db[p][i]))
             /\ (\A i \in RenameMail(p) : PaidOrFirst(p, mail[p][i])) <=>
               (Has(db[p], Unpaid) \/ Has(mail[p], UnpaidAnswers) => player[p].rename = 0 \/ player[p].cards > 0)
  BY UnderWayRead DEF PaidOrFirst
<1>3. ASSUME NEW p \in Player
      PROVE  (\A i \in DOMAIN db[p] : db[p][i].op = "SavePlayerMain" => db[p][i].free <= 1)
             <=> ~Has(db[p], TwiceFree)
  BY UnderWayRead
<1> QED
  BY <1>1, <1>2, <1>3 DEF OneRename, Free

LEMMA FreeInit == Init => \A p \in Player : Free(p)
<1> SUFFICES ASSUME Init, NEW p \in Player PROVE Free(p)
  OBVIOUS
<1>1. db[p] = <<>> /\ mail[p] = <<>> /\ row = player
      /\ player[p].free = 0 /\ player[p].rename = 0
  <2>1. PICK name \in [Player -> Name] :
          player = [q \in Player |-> [name |-> name[q], rename |-> 0, free |-> 0,
                                      cards |-> IF q \in CardOwner THEN 1 ELSE 0]]
    BY DEF Init
  <2> QED
    BY <2>1 DEF Init
<1> QED
  BY <1>1, HasNone DEF Free

\* The view of its renames stays.
Calm(p) ==
  /\ player'[p] = player[p] /\ (p \in raced => p \in raced')
  /\ row'[p].free = row[p].free \/ row'[p].free <= 1 \/ Has(db[p], TwiceFree)
  /\ Has(db'[p], TwiceFree) => Has(db[p], TwiceFree) \/ ~(player[p].free <= 1)
  /\ Has(db'[p], Renames) => Has(db[p], Renames)
  /\ Has(mail'[p], RenameAnswers) => Has(mail[p], RenameAnswers)
  /\ Once(db[p], Renames) => Once(db'[p], Renames)
  /\ Once(mail[p], RenameAnswers) => Once(mail'[p], RenameAnswers)
  /\ Has(db'[p], Unpaid) => Has(db[p], Unpaid)
  /\ Has(mail'[p], UnpaidAnswers) => Has(mail[p], UnpaidAnswers)

LEMMA FreeCalm ==
  ASSUME NEW p \in Player, Free(p), Calm(p)
  PROVE  Free(p)'
BY DEF Free, Calm

LEMMA FreeOthers ==
  ASSUME NEW q \in Player, Free(q), db'[q] = db[q], mail'[q] = mail[q],
         player'[q] = player[q], row'[q] = row[q], q \in raced <=> q \in raced'
  PROVE  Free(q)'
BY DEF Free

\* What is neither a rename nor a player saved.
LEMMA NotRename ==
  /\ \A r : r.op # "InsertNewNameCounter" =>
       r \notin Renames /\ r \notin RenameAnswers /\ r \notin Unpaid /\ r \notin UnpaidAnswers
  /\ \A r : r.op # "SavePlayerMain" => r \notin TwiceFree
BY DEF Renames, RenameAnswers, Unpaid, UnpaidAnswers, TwiceFree

Matters == Renames \cup Unpaid \cup TwiceFree

LEMMA NotRenameFields ==
  /\ \A n, i : [op |-> "FindName", name |-> n, id |-> i] \notin Matters
  /\ \A n : [op |-> "DeleteName", name |-> n] \notin Matters
  /\ \A n, g, f : LET r == [op |-> "InsertNewNameCounter", name |-> n, frozen |-> f, gm |-> g]
                  IN r \notin TwiceFree /\ (r \in Unpaid => ~g /\ ~f)
  /\ \A pl : Base(pl) \notin Matters /\ Item(pl) \notin Matters
  /\ \A pl : Main(pl) \notin Renames \cup Unpaid /\ (Main(pl) \in TwiceFree => ~(pl.free <= 1))
  /\ \A pf : Profile(pf) \notin Matters
BY DEF Matters, Renames, Unpaid, TwiceFree, Main, Base, Item, Profile

\* A request that is no rename is made,
LEMMA FreeAsk ==
  ASSUME TypeOK, \A q \in Player : Free(q), NEW p \in Player, NEW r \in RequestType, Ask(p, r),
         r \notin Matters, UNCHANGED <<player, row, mail, raced>>
  PROVE  \A q \in Player : Free(q)'
<1>1. Calm(p)
  BY Asked DEF Calm, Matters
<1>2. \A q \in Player \ {p} : db'[q] = db[q]
  BY Asked
<1> QED
  BY <1>1, <1>2, FreeCalm, FreeOthers

LEMMA FreeSame ==
  ASSUME \A q \in Player : Free(q), UNCHANGED <<player, row, db, mail, raced>>
  PROVE  \A q \in Player : Free(q)'
BY FreeOthers

\* a player is saved,
LEMMA FreeSave ==
  ASSUME TypeOK, \A q \in Player : Free(q), NEW p \in Player,
         SaveDb(p) \/ Logout(p) \/ SaveProfile(p)
  PROVE  \A q \in Player : Free(q)'
<1>1. UNCHANGED <<player, row, mail, raced>>
  BY DEF SaveDb, Logout, SaveProfile, live, saved, history
<1>2. PICK t \in Seq(RequestType) :
        /\ db' = [db EXCEPT ![p] = @ \o t]
        /\ \A M : Has(t, M) => \/ Main(player[p]) \in M \/ Base(player[p]) \in M
                               \/ Item(player[p]) \in M \/ Profile(profile[p]) \in M
  <2>1. CASE SaveDb(p) \/ Logout(p)
    BY <2>1, SavesHas DEF SaveDb, Logout
  <2>2. CASE SaveProfile(p)
    BY <2>2, SavesHas DEF SaveProfile
  <2> QED
    BY <2>1, <2>2
<1>3. /\ ~Has(t, Renames) /\ ~Has(t, Unpaid)
      /\ Has(t, TwiceFree) => ~(player[p].free <= 1)
  BY <1>2, NotRenameFields DEF Matters
<1>4. Calm(p)
  BY <1>1, <1>2, <1>3, Joins DEF Calm
<1>5. \A q \in Player \ {p} : db'[q] = db[q]
  BY <1>2, Joins
<1> QED
  BY <1>1, <1>4, <1>5, FreeCalm, FreeOthers

\* a request that is no rename is done,
LEMMA FreeDone ==
  ASSUME TypeOK, \A q \in Player : Free(q), NEW p \in Player, db[p] # <<>>, Done(p),
         UNCHANGED <<player, raced>>,
         \A q \in Player \ {p} : row'[q] = row[q],
         row'[p].free = row[p].free \/ row'[p].free <= 1 \/ Has(db[p], TwiceFree),
         mail' = mail \/ \E a \in AnswerType : a \notin RenameAnswers /\ Answer(p, a)
  PROVE  \A q \in Player : Free(q)'
<1>1. /\ \A q \in Player \ {p} : mail'[q] = mail[q]
      /\ Has(mail'[p], RenameAnswers) => Has(mail[p], RenameAnswers)
      /\ Has(mail'[p], UnpaidAnswers) => Has(mail[p], UnpaidAnswers)
      /\ Once(mail[p], RenameAnswers) => Once(mail'[p], RenameAnswers)
  <2>1. CASE \E a \in AnswerType : a \notin RenameAnswers /\ Answer(p, a)
    BY <2>1, Answered DEF UnpaidAnswers
  <2> QED
    BY <2>1
<1>2. Calm(p)
  BY <1>1, DoneWith DEF Calm
<1>3. \A q \in Player \ {p} : db'[q] = db[q]
  BY DoneWith
<1> QED
  BY <1>1, <1>2, <1>3, FreeCalm, FreeOthers

\* and an answer without a rename of it is taken.
LEMMA FreeTake ==
  ASSUME TypeOK, \A q \in Player : Free(q), NEW p \in Player, mail[p] # <<>>, Take(p),
         UNCHANGED <<player, row, db, raced>>
  PROVE  \A q \in Player : Free(q)'
<1>1. Calm(p)
  BY Taken DEF Calm
<1>2. \A q \in Player \ {p} : mail'[q] = mail[q]
  BY Taken
<1> QED
  BY <1>1, <1>2, FreeCalm, FreeOthers

\* A rename begins: none is under way.
LEMMA FreeBegin ==
  ASSUME TypeOK, \A q \in Player : Free(q), NEW p \in Player, NEW r \in RequestType, Ask(p, r),
         r \notin TwiceFree, r \in Unpaid => player[p].rename = 0 \/ player[p].cards > 0,
         raced' = IF UnderWay(p) # {} THEN raced \cup {p} ELSE raced,
         UNCHANGED <<player, row, mail>>
  PROVE  \A q \in Player : Free(q)'
<1>1. /\ \A q \in Player \ {p} : db'[q] = db[q]
      /\ \A M : /\ Has(db'[p], M) <=> Has(db[p], M) \/ r \in M
                /\ Once(db'[p], M) <=> Once(db[p], M) /\ (r \in M => ~Has(db[p], M))
  BY Asked
<1>2. p \notin raced' => /\ p \notin raced
                         /\ ~Has(db[p], Renames) /\ ~Has(mail[p], RenameAnswers)
  BY UnderWayRead
<1>3. /\ Has(db[p], Unpaid) => Has(db[p], Renames)
      /\ Has(mail[p], UnpaidAnswers) => Has(mail[p], RenameAnswers)
  BY DEF Has, Unpaid, UnpaidAnswers
<1>4. Free(p)'
  BY <1>1, <1>2, <1>3 DEF Free
<1>5. \A q \in Player \ {p} : q \in raced' <=> q \in raced
  OBVIOUS
<1> QED
  BY <1>1, <1>4, <1>5, FreeOthers

LEMMA FreeDoRename2 ==
  ASSUME TypeOK, \A q \in Player : Free(q), NEW c \in confirms, DoRename2(c)
  PROVE  \A q \in Player : Free(q)'
<1>1. c.pid \in Player /\ c.name \in Name
  BY DEF TypeOK
<1>2. PICK p \in Player : p = c.pid
  BY <1>1
<1> DEFINE pays == p \in HighGrade \/ player[p].rename > 0
           freezes == pays /\ player[p].cards = 0
           r == [op |-> "InsertNewNameCounter", name |-> c.name, frozen |-> freezes, gm |-> FALSE]
<1>3. UNCHANGED <<player, row, mail>>
  BY DEF DoRename2, saved
<1>4. CASE UNCHANGED <<profile, db, exposed, raced>>
  BY <1>3, <1>4, FreeSame
<1>5. CASE /\ Ask(p, r)
           /\ raced' = IF UnderWay(p) # {} THEN raced \cup {p} ELSE raced
  <2>1. r \in RequestType /\ r \notin TwiceFree /\ (r \in Unpaid => ~freezes)
    <3>1. freezes \in BOOLEAN
      OBVIOUS
    <3> HIDE DEF freezes, RequestType
    <3> QED
      BY <1>1, <3>1, Requests, NotRenameFields
  <2>2. ~freezes => player[p].rename = 0 \/ player[p].cards > 0
    BY MoneyFacts DEF PlayerType
  <2> HIDE DEF r, freezes
  <2> QED
    BY <1>3, <1>5, <2>1, <2>2, FreeBegin
<1> QED
  BY <1>2, <1>4, <1>5 DEF DoRename2

LEMMA FreeRenamePlayer ==
  ASSUME TypeOK, \A q \in Player : Free(q), NEW p \in Player, NEW n \in Name, RenamePlayer(p, n)
  PROVE  \A q \in Player : Free(q)'
<1> DEFINE r == [op |-> "InsertNewNameCounter", name |-> n, frozen |-> FALSE, gm |-> TRUE]
<1>1. r \in RequestType /\ r \notin TwiceFree /\ r \notin Unpaid
  BY Requests, NotRenameFields
<1>2. /\ Ask(p, r) /\ raced' = IF UnderWay(p) # {} THEN raced \cup {p} ELSE raced
      /\ UNCHANGED <<player, row, mail>>
  BY DEF RenamePlayer, live, saved
<1> HIDE DEF r
<1> QED
  BY <1>1, <1>2, FreeBegin

\* A card goes: no rename counts on it.
LEMMA FreeLoseCard ==
  ASSUME TypeOK, \A q \in Player : Free(q), NEW p \in Player, LoseCard(p)
  PROVE  \A q \in Player : Free(q)'
<1>1. /\ UNCHANGED <<row, db, mail>>
      /\ player' = [player EXCEPT ![p] = [player[p] EXCEPT !.cards = player[p].cards - 1]]
      /\ raced' = IF UnderWay(p) # {} THEN raced \cup {p} ELSE raced
  BY DEF LoseCard, saved, gamedb
<1>2. player \in [Player -> PlayerType] /\ player[p] \in PlayerType
  BY DEF TypeOK
<1>3. /\ \A q \in Player \ {p} : player'[q] = player[q] /\ (q \in raced' <=> q \in raced)
      /\ player'[p].free = player[p].free /\ player'[p].rename = player[p].rename
  BY <1>1, <1>2 DEF PlayerType
<1>4. p \notin raced' => /\ p \notin raced
                         /\ ~Has(db[p], Renames) /\ ~Has(mail[p], RenameAnswers)
  BY <1>1, UnderWayRead
<1>5. /\ Has(db[p], Unpaid) => Has(db[p], Renames)
      /\ Has(mail[p], UnpaidAnswers) => Has(mail[p], RenameAnswers)
  BY DEF Has, Unpaid, UnpaidAnswers
<1>6. Free(p)'
  BY <1>1, <1>3, <1>4, <1>5 DEF Free
<1> QED
  BY <1>1, <1>3, <1>6, FreeOthers

\* A rename goes from the request to its answer,
LEMMA FreeInsert ==
  ASSUME TypeOK, \A q \in Player : Free(q), NEW p \in Player, InsertNewNameCounter(p)
  PROVE  \A q \in Player : Free(q)'
<1> DEFINE r == Head(db[p])
           a == [op |-> "InsertNewNameCounter", name |-> r.name, frozen |-> r.frozen, gm |-> r.gm,
                 success |-> r.name \notin namecounter]
<1>1. /\ db[p] # <<>> /\ Done(p) /\ r.op = "InsertNewNameCounter" /\ Answer(p, a)
      /\ UNCHANGED <<player, row, raced>>
  BY DEF InsertNewNameCounter, HeadIs, live, saved, history
<1>2. r \in RequestType
  BY <1>1, HeadFacts
<1>3. r.name \in Name /\ r.frozen \in BOOLEAN /\ r.gm \in BOOLEAN
  BY <1>1, <1>2, RequestFacts
<1>4. a \in AnswerType
  <2>1. (r.name \notin namecounter) \in BOOLEAN
    OBVIOUS
  <2> HIDE DEF r, AnswerType
  <2> QED
    BY <1>3, <2>1, Answers
<1>5. r \in Renames /\ a \in RenameAnswers /\ (a \in UnpaidAnswers => r \in Unpaid)
  <2>1. a.op = "InsertNewNameCounter" /\ a.frozen = r.frozen /\ a.gm = r.gm
    OBVIOUS
  <2> HIDE DEF a, r, AnswerType, RequestType
  <2> QED
    BY <1>1, <1>2, <1>4, <2>1 DEF Renames, RenameAnswers, Unpaid, UnpaidAnswers
<1> HIDE DEF a
<1>6. /\ \A q \in Player \ {p} : db'[q] = db[q] /\ mail'[q] = mail[q]
      /\ \A M : /\ Has(db[p], M) <=> Has(db'[p], M) \/ r \in M
                /\ Once(db[p], M) <=> Once(db'[p], M) /\ (r \in M => ~Has(db'[p], M))
      /\ \A M : /\ Has(mail'[p], M) <=> Has(mail[p], M) \/ a \in M
                /\ Once(mail'[p], M) <=> Once(mail[p], M) /\ (a \in M => ~Has(mail[p], M))
  BY <1>1, <1>4, DoneWith, Answered
<1> HIDE DEF r
<1>7. Free(p)'
  BY <1>1, <1>5, <1>6 DEF Free
<1> QED
  BY <1>1, <1>6, <1>7, FreeOthers

\* a player is saved by gamedb,
LEMMA FreeSavePlayer ==
  ASSUME TypeOK, \A q \in Player : Free(q), NEW p \in Player, SavePlayer(p)
  PROVE  \A q \in Player : Free(q)'
<1> DEFINE r == Head(db[p])
<1>1. /\ db[p] # <<>> /\ Done(p) /\ UNCHANGED <<player, mail, raced>>
      /\ r.op \in {"SavePlayerMain", "SavePlayerBase", "SavePlayerItem"}
      /\ row' = [row EXCEPT ![p] = Put(r, row[p])]
  BY DEF SavePlayer, HeadIs, live, history
<1>2. row \in [Player -> PlayerType] /\ row[p] \in PlayerType
  BY DEF TypeOK
<1>3. r \in RequestType /\ (Has(db[p], TwiceFree) <=> Has(db'[p], TwiceFree) \/ r \in TwiceFree)
  BY <1>1, DoneWith
<1> HIDE DEF r, RequestType
<1>4. /\ row'[p] = Put(r, row[p])
      /\ \A q \in Player \ {p} : row'[q] = row[q]
  <2> HIDE DEF PlayerType
  <2> QED
    BY <1>1, <1>2
<1>5. row'[p].free = row[p].free \/ row'[p].free <= 1 \/ Has(db[p], TwiceFree)
  <2>1. CASE r.op = "SavePlayerMain"
    <3>1. row'[p].free = r.free
      BY <1>2, <1>4, <2>1 DEF Put, PlayerType
    <3>2. r.free <= 1 \/ r \in TwiceFree
      BY <1>3, <2>1 DEF TwiceFree
    <3> QED
      BY <1>3, <3>1, <3>2
  <2>2. CASE r.op # "SavePlayerMain"
    <3>1. row'[p].free = row[p].free
      BY <1>1, <1>2, <1>4, <2>2 DEF Put, PlayerType
    <3> QED
      BY <3>1
  <2> QED
    BY <2>1, <2>2
<1> QED
  BY <1>1, <1>4, <1>5, FreeDone

\* and renamed: the first time for nothing, then for a card or for coins.
LEMMA FreeRenamed ==
  ASSUME TypeOK, \A q \in Player : Free(q), NEW p \in Player, DoRename3(p),
         online[p], Head(mail[p]).success
  PROVE  \A q \in Player : Free(q)'
<1> DEFINE a == Head(mail[p])
           d == [op |-> "DeleteName", name |-> player[p].name]
           pl == player[p]
           card == pl.rename > 0 /\ pl.cards > 0
<1>1. /\ mail[p] # <<>> /\ Take(p) /\ a.op = "InsertNewNameCounter" /\ Ask(p, d)
      /\ UNCHANGED <<row, raced>> /\ player' = [player EXCEPT ![p] = Renamed(pl, a)]
  BY DEF DoRename3, MailIs, DoRenameSuccess, OnRenameSuccess, saved
<1>2. a \in AnswerType /\ player \in [Player -> PlayerType] /\ pl \in PlayerType
  BY <1>1, HeadFacts DEF TypeOK
<1>3. pl.name \in Name /\ pl.rename \in Nat /\ pl.free \in Nat /\ pl.cards \in 0..1
  BY <1>2 DEF PlayerType
<1>4. d \in RequestType /\ d \notin Matters
  BY <1>3, Requests, NotRenameFields
<1>5. a \in RenameAnswers /\ (~a.gm /\ ~a.frozen => a \in UnpaidAnswers)
  <2> HIDE DEF AnswerType
  <2> QED
    BY <1>1, <1>2 DEF RenameAnswers, UnpaidAnswers
<1>6. /\ \A q \in Player \ {p} : db'[q] = db[q] /\ mail'[q] = mail[q]
      /\ \A M : /\ Has(mail[p], M) <=> Has(mail'[p], M) \/ a \in M
                /\ Once(mail[p], M) <=> Once(mail'[p], M) /\ (a \in M => ~Has(mail'[p], M))
      /\ \A M : /\ Has(db'[p], M) <=> Has(db[p], M) \/ d \in M
                /\ Once(db'[p], M) <=> Once(db[p], M) /\ (d \in M => ~Has(db[p], M))
  BY <1>1, <1>4, Taken, Asked
<1>7. /\ \A q \in Player \ {p} : player'[q] = player[q]
      /\ player'[p].rename = IF a.gm THEN pl.rename ELSE pl.rename + 1
      /\ player'[p].free = IF ~a.gm /\ ~card /\ ~a.frozen THEN pl.free + 1 ELSE pl.free
  <2>1. /\ player'[p] = Renamed(pl, a)
        /\ \A q \in Player \ {p} : player'[q] = player[q]
    <3> HIDE DEF PlayerType, a
    <3> QED
      BY <1>1, <1>2
  <2> HIDE DEF a, pl
  <2> QED
    BY <1>2, <2>1 DEF Renamed, PlayerType
<1> HIDE DEF a, d
<1>8. ASSUME p \notin raced'
      PROVE  /\ p \notin raced /\ pl.free <= 1 /\ pl.free <= pl.rename
             /\ row'[p].free <= 1 /\ ~Has(db'[p], TwiceFree)
             /\ ~Has(db'[p], Renames) /\ Once(db'[p], Renames)
             /\ ~Has(mail'[p], RenameAnswers) /\ Once(mail'[p], RenameAnswers)
             /\ ~a.gm /\ ~a.frozen => pl.rename = 0 \/ pl.cards > 0
  <2>1. /\ p \notin raced /\ row' = row /\ Free(p)
    BY <1>1, <1>8
  <2> QED
    BY <1>4, <1>5, <1>6, <2>1 DEF Free, Matters
<1>9. p \notin raced' => player'[p].free <= 1 /\ player'[p].free <= player'[p].rename
  <2> SUFFICES ASSUME p \notin raced'
               PROVE  player'[p].free <= 1 /\ player'[p].free <= player'[p].rename
    OBVIOUS
  <2>1. CASE ~a.gm /\ ~card /\ ~a.frozen
    <3>1. pl.rename = 0
      BY <1>3, <1>8, <2>1
    <3> QED
      BY <1>3, <1>7, <1>8, <2>1, <3>1
  <2>2. CASE ~(~a.gm /\ ~card /\ ~a.frozen)
    BY <1>3, <1>7, <1>8, <2>2
  <2> QED
    BY <2>1, <2>2
<1>10. /\ Has(db'[p], Unpaid) => Has(db'[p], Renames)
       /\ Has(mail'[p], UnpaidAnswers) => Has(mail'[p], RenameAnswers)
  BY DEF Has, Unpaid, UnpaidAnswers
<1>11. Free(p)'
  BY <1>8, <1>9, <1>10 DEF Free
<1> QED
  BY <1>1, <1>6, <1>7, <1>11, FreeOthers

LEMMA FreeRestart ==
  ASSUME TypeOK, \A q \in Player : Free(q), Restart
  PROVE  \A q \in Player : Free(q)'
<1> SUFFICES ASSUME NEW q \in Player PROVE Free(q)'
  OBVIOUS
<1>1. /\ player' = row /\ row' = row /\ db'[q] = <<>> /\ mail'[q] = <<>>
      /\ q \notin raced' => q \notin raced /\ ~(row[q].free > row[q].rename)
  BY DEF Restart, saved
<1>2. row[q].free \in Nat /\ row[q].rename \in Nat
  BY MoneyFacts DEF PlayerType
<1> QED
  BY <1>1, <1>2, HasNone DEF Free

-----------------------------------------------------------------------------
(* The invariant *)

\* IInv in the form in which its parts are kept.
Kept == TypeOK /\ Names /\ \A p \in Player : Money(p) /\ Free(p)

LEMMA KeptRead == IInv <=> Kept
BY NamesRead, MoneyRead, FreeRead DEF IInv, Kept

LEMMA KeptInit == Init => Kept
BY InitTyped, NamesInit, MoneyInit, FreeInit DEF Kept

\* What the player does,
LEMMA KeptAsks ==
  ASSUME Kept, NEW p \in Player, NEW n \in Name, DoRename(p, n) \/ RenamePlayer(p, n)
  PROVE  Kept'
<1>1. TypeOK /\ Names /\ (\A q \in Player : Money(q)) /\ (\A q \in Player : Free(q))
  BY DEF Kept
<1>2. TypeOK'
  BY <1>1, AsksTyped
<1>3. UNCHANGED <<player, profile, row, profileRow, namecounter, mail, leaked, undone, stuck, exposed>>
  BY DEF DoRename, RenamePlayer, live, saved, history
<1>4. CASE DoRename(p, n)
  <2> DEFINE r == [op |-> "FindName", name |-> n, id |-> requests']
  <2>1. requests' \in 1..MaxRequests
    BY <1>1, <1>4, PlayerRenameAssumption DEF TypeOK, DoRename, NewRequest
  <2>2. r \in RequestType /\ r \notin Freezings \cup Uncovered /\ r \notin Matters
    BY <2>1, Requests, NotFreezingFields, NotRenameFields
  <2>3. Ask(p, r) /\ r.op # "DeleteName" /\ raced' = raced
    BY <1>4 DEF DoRename, history
  <2> HIDE DEF r
  <2>4. Names'
    BY <1>1, <1>3, <2>2, <2>3, NamesAsk
  <2>5. \A q \in Player : Money(q)'
    BY <1>1, <1>3, <2>2, <2>3, MoneyAsk
  <2>6. \A q \in Player : Free(q)'
    BY <1>1, <1>3, <2>2, <2>3, FreeAsk
  <2> QED
    BY <1>2, <2>4, <2>5, <2>6 DEF Kept
<1>5. CASE RenamePlayer(p, n)
  <2> DEFINE r == [op |-> "InsertNewNameCounter", name |-> n, frozen |-> FALSE, gm |-> TRUE]
  <2>1. r \in RequestType /\ r \notin Freezings \cup Uncovered
    BY Requests, NotFreezingFields
  <2>2. Ask(p, r) /\ r.op # "DeleteName"
    BY <1>5 DEF RenamePlayer
  <2> HIDE DEF r
  <2>3. Names'
    BY <1>1, <1>3, <2>1, <2>2, NamesAsk
  <2>4. \A q \in Player : Money(q)'
    BY <1>1, <1>3, <2>1, <2>2, MoneyAsk
  <2>5. \A q \in Player : Free(q)'
    BY <1>1, <1>5, FreeRenamePlayer
  <2> QED
    BY <1>2, <2>3, <2>4, <2>5 DEF Kept
<1> QED
  BY <1>4, <1>5

LEMMA KeptDoRename2 ==
  ASSUME Kept, NEW c \in confirms, DoRename2(c)
  PROVE  Kept'
<1>1. TypeOK /\ Names /\ (\A q \in Player : Money(q)) /\ (\A q \in Player : Free(q))
  BY DEF Kept
<1>2. c.pid \in Player /\ c.name \in Name
  BY <1>1 DEF TypeOK
<1>3. UNCHANGED <<player, namecounter, mail, leaked, undone>>
  BY DEF DoRename2
<1>4. Names'
  <2>1. \/ db' = db
        \/ \E f \in BOOLEAN :
             Ask(c.pid, [op |-> "InsertNewNameCounter", name |-> c.name, frozen |-> f, gm |-> FALSE])
    BY DEF DoRename2
  <2>2. ASSUME NEW f \in BOOLEAN,
               Ask(c.pid, [op |-> "InsertNewNameCounter", name |-> c.name, frozen |-> f, gm |-> FALSE])
        PROVE  Names'
    <3> DEFINE r == [op |-> "InsertNewNameCounter", name |-> c.name, frozen |-> f, gm |-> FALSE]
    <3>1. r \in RequestType /\ r.op # "DeleteName" /\ Ask(c.pid, r)
      BY <1>2, <2>2, Requests
    <3> HIDE DEF r
    <3> QED
      BY <1>1, <1>2, <1>3, <3>1, NamesAsk
  <2>3. db' = db => Names'
    BY <1>1, <1>2, <1>3, NamesSame
  <2> QED
    BY <2>1, <2>2, <2>3
<1> QED
  BY <1>1, <1>4, DoRename2Typed, MoneyDoRename2, FreeDoRename2 DEF Kept

LEMMA KeptDropCallBack ==
  ASSUME Kept, NEW c \in confirms, DropCallBack(c)
  PROVE  Kept'
<1>1. TypeOK /\ Names /\ (\A q \in Player : Money(q)) /\ (\A q \in Player : Free(q))
  BY DEF Kept
<1>2. /\ UNCHANGED <<online, player, profile, row, profileRow, namecounter, db, mail, requests,
                     leaked, undone, stuck, exposed, raced>>
      /\ confirms' \subseteq confirms
  BY DEF DropCallBack, live, saved, gamedb, history
<1>3. TypeOK'
  BY <1>1, <1>2 DEF TypeOK
<1>4. c.pid \in Player
  BY <1>1 DEF TypeOK
<1>5. Names'
  BY <1>1, <1>2, <1>4, NamesSame
<1> QED
  BY <1>1, <1>2, <1>3, <1>5, MoneySame, FreeSame DEF Kept

LEMMA KeptSpend ==
  ASSUME Kept, NEW p \in Player, Spend(p) \/ LoseCard(p)
  PROVE  Kept'
<1>1. TypeOK /\ Names /\ (\A q \in Player : Money(q)) /\ (\A q \in Player : Free(q))
  BY DEF Kept
<1>2. TypeOK' /\ UNCHANGED <<row, profileRow, namecounter, db, mail, leaked, undone, stuck>>
  BY <1>1, SpendTyped DEF Spend, LoseCard, saved, gamedb
<1>3. Names'
  <2>1. \A q \in Player : player'[q].name = player[q].name
    <3>1. \/ player' = player
          \/ player' = [player EXCEPT ![p] = [player[p] EXCEPT !.cards = player[p].cards - 1]]
      BY DEF Spend, LoseCard
    <3>2. player \in [Player -> PlayerType] /\ player[p] \in PlayerType
      BY <1>1 DEF TypeOK
    <3>3. [player[p] EXCEPT !.cards = player[p].cards - 1].name = player[p].name
      BY <3>2 DEF PlayerType
    <3> HIDE DEF PlayerType
    <3> QED
      BY <3>1, <3>2, <3>3
  <2> QED
    BY <1>1, <1>2, <2>1, NamesSame
<1>4. \A q \in Player : Money(q)'
  <2>1. CASE Spend(p)
    BY <1>1, <2>1, MoneySpend
  <2>2. CASE LoseCard(p)
    <3>1. UNCHANGED <<profile, exposed>>
      BY <2>2 DEF LoseCard
    <3> QED
      BY <1>1, <1>2, <3>1, MoneySame
  <2> QED
    BY <2>1, <2>2
<1>5. \A q \in Player : Free(q)'
  <2>1. CASE Spend(p)
    <3>1. UNCHANGED <<player, raced>>
      BY <2>1 DEF Spend
    <3> QED
      BY <1>1, <1>2, <3>1, FreeSame
  <2>2. CASE LoseCard(p)
    BY <1>1, <2>2, FreeLoseCard
  <2> QED
    BY <2>1, <2>2
<1> QED
  BY <1>2, <1>3, <1>4, <1>5 DEF Kept

LEMMA KeptSaves ==
  ASSUME Kept, NEW p \in Player, Logout(p) \/ Login(p) \/ SaveDb(p) \/ SaveProfile(p)
  PROVE  Kept'
<1>1. TypeOK /\ Names /\ (\A q \in Player : Money(q)) /\ (\A q \in Player : Free(q))
  BY DEF Kept
<1>2. TypeOK'
  BY <1>1, SavesTyped
<1>3. CASE Login(p)
  <2>1. UNCHANGED <<player, profile, row, profileRow, namecounter, db, mail,
                    leaked, undone, stuck, exposed, raced>>
    BY <1>3 DEF Login, saved, gamedb, history
  <2>2. Names'
    BY <1>1, <2>1, NamesSame
  <2> QED
    BY <1>1, <1>2, <2>1, <2>2, MoneySame, FreeSame DEF Kept
<1>4. CASE Logout(p) \/ SaveDb(p) \/ SaveProfile(p)
  BY <1>1, <1>2, <1>4, NamesSave, MoneySave, FreeSave DEF Kept
<1> QED
  BY <1>3, <1>4

\* what gamedb does,
LEMMA KeptFindName ==
  ASSUME Kept, NEW p \in Player, FindName(p)
  PROVE  Kept'
<1>1. TypeOK /\ Names /\ (\A q \in Player : Money(q)) /\ (\A q \in Player : Free(q))
  BY DEF Kept
<1> DEFINE r == Head(db[p])
           a == [op |-> "FindName", name |-> r.name, id |-> r.id, success |-> r.name \in namecounter]
<1>2. /\ db[p] # <<>> /\ Done(p) /\ r.op = "FindName" /\ Answer(p, a)
      /\ UNCHANGED <<player, profile, row, profileRow, namecounter, leaked, undone, stuck, exposed, raced>>
  BY DEF FindName, HeadIs, live, saved, history
<1>3. r \in RequestType /\ r.name \in Name /\ r.id \in 1..MaxRequests
  BY <1>1, <1>2, HeadFacts, RequestFacts
<1>4. a \in AnswerType
  <2>1. (r.name \in namecounter) \in BOOLEAN
    OBVIOUS
  <2> HIDE DEF r, AnswerType
  <2> QED
    BY <1>3, <2>1, Answers
<1>5. a.op = "FindName" /\ a \notin FrozenAnswers /\ a \notin RenameAnswers
  BY NotFreezing, NotRename
<1>6. r \notin Freezings
  BY <1>2, NotFreezing
<1> HIDE DEF a
<1>7. Names'
  BY <1>1, <1>2, <1>4, <1>5, NamesDone
<1>8. \A q \in Player : Money(q)'
  BY <1>1, <1>2, <1>4, <1>5, <1>6, MoneyDone
<1>9. \A q \in Player : Free(q)'
  BY <1>1, <1>2, <1>4, <1>5, FreeDone
<1> QED
  BY <1>1, <1>7, <1>8, <1>9, AnswersTyped DEF Kept

LEMMA KeptInsert ==
  ASSUME Kept, NEW p \in Player, InsertNewNameCounter(p)
  PROVE  Kept'
BY AnswersTyped, NamesInsert, MoneyInsert, FreeInsert DEF Kept

LEMMA KeptDelete ==
  ASSUME Kept, NEW p \in Player, DeleteName(p)
  PROVE  Kept'
<1>1. TypeOK /\ Names /\ (\A q \in Player : Money(q)) /\ (\A q \in Player : Free(q))
  BY DEF Kept
<1>2. /\ db[p] # <<>> /\ Done(p) /\ Head(db[p]).op = "DeleteName"
      /\ UNCHANGED <<player, profile, row, profileRow, mail, stuck, exposed, raced>>
  BY DEF DeleteName, HeadIs, live, saved, history
<1>3. Head(db[p]) \notin Freezings
  BY <1>2, NotFreezing
<1>4. \A q \in Player : Money(q)'
  BY <1>1, <1>2, <1>3, MoneyDone
<1>5. \A q \in Player : Free(q)'
  BY <1>1, <1>2, FreeDone
<1> QED
  BY <1>1, <1>4, <1>5, WritesTyped, NamesDelete DEF Kept

LEMMA KeptSavePlayer ==
  ASSUME Kept, NEW p \in Player, SavePlayer(p)
  PROVE  Kept'
<1>1. TypeOK /\ Names /\ (\A q \in Player : Money(q)) /\ (\A q \in Player : Free(q))
  BY DEF Kept
<1>2. /\ db[p] # <<>> /\ Done(p)
      /\ Head(db[p]).op \in {"SavePlayerMain", "SavePlayerBase", "SavePlayerItem"}
      /\ UNCHANGED <<player, profile, profileRow, namecounter, mail, leaked, undone, stuck, exposed>>
  BY DEF SavePlayer, HeadIs, live, history
<1>3. Head(db[p]) \notin Freezings
  BY <1>2, NotFreezing
<1>4. Names'
  BY <1>1, <1>2, NamesDone
<1>5. \A q \in Player : Money(q)'
  BY <1>1, <1>2, <1>3, MoneyDone
<1> QED
  BY <1>1, <1>4, <1>5, WritesTyped, FreeSavePlayer DEF Kept

LEMMA KeptSaveProfile ==
  ASSUME Kept, NEW p \in Player, SaveOfflineProfile(p)
  PROVE  Kept'
<1>1. TypeOK /\ Names /\ (\A q \in Player : Money(q)) /\ (\A q \in Player : Free(q))
  BY DEF Kept
<1>2. /\ db[p] # <<>> /\ Done(p) /\ Head(db[p]).op = "SaveOfflineProfile"
      /\ profileRow' = [profileRow EXCEPT ![p] = Head(db[p]).profile]
      /\ UNCHANGED <<player, profile, row, namecounter, mail, leaked, undone, stuck, exposed, raced>>
  BY DEF SaveOfflineProfile, HeadIs, live, history
<1>3. Head(db[p]) \notin Freezings
  BY <1>2, NotFreezing
<1>4. Head(db[p]) \in RequestType
  BY <1>1, <1>2, HeadFacts
<1>5. /\ \A q \in Player \ {p} : profileRow'[q] = profileRow[q]
      /\ Head(db[p]) \in Uncovered \/ Covered(profileRow'[p])
  <2>1. profileRow \in [Player -> ProfileType]
    BY <1>1 DEF TypeOK
  <2>2. /\ \A q \in Player \ {p} : profileRow'[q] = profileRow[q]
        /\ profileRow'[p] = Head(db[p]).profile
    BY <1>2, <2>1
  <2> HIDE DEF RequestType
  <2> QED
    BY <1>2, <1>4, <2>2 DEF Uncovered
<1>6. Names'
  BY <1>1, <1>2, NamesDone
<1>7. \A q \in Player : Money(q)'
  BY <1>1, <1>2, <1>3, <1>5, MoneyDone
<1>8. \A q \in Player : Free(q)'
  BY <1>1, <1>2, FreeDone
<1> QED
  BY <1>1, <1>6, <1>7, <1>8, WritesTyped DEF Kept

\* and what the world does with the answers.
LEMMA KeptDoRename1 ==
  ASSUME Kept, NEW p \in Player, DoRename1(p)
  PROVE  Kept'
<1>1. TypeOK /\ Names /\ (\A q \in Player : Money(q)) /\ (\A q \in Player : Free(q))
  BY DEF Kept
<1>2. /\ mail[p] # <<>> /\ Take(p) /\ Head(mail[p]).op = "FindName"
      /\ UNCHANGED <<player, profile, row, profileRow, db, namecounter, leaked, undone, stuck, exposed, raced>>
  BY DEF DoRename1, MailIs, live, saved, history
<1>3. Head(mail[p]) \notin FrozenAnswers /\ Head(mail[p]).op # "InsertNewNameCounter"
  BY <1>2, NotFreezing
<1>4. Names'
  BY <1>1, <1>2, <1>3, NamesTake
<1>5. \A q \in Player : Money(q)'
  BY <1>1, <1>2, <1>3, MoneyTake
<1>6. \A q \in Player : Free(q)'
  BY <1>1, <1>2, FreeTake
<1> QED
  BY <1>1, <1>4, <1>5, <1>6, DoRename1Typed DEF Kept

LEMMA KeptDoRename3 ==
  ASSUME Kept, NEW p \in Player, DoRename3(p)
  PROVE  Kept'
<1>1. TypeOK /\ Names /\ (\A q \in Player : Money(q)) /\ (\A q \in Player : Free(q))
  BY DEF Kept
<1>2. TypeOK' /\ \A q \in Player : Money(q)'
  BY <1>1, DoRename3Typed, MoneyDoRename3
<1> DEFINE a == Head(mail[p])
<1>3. mail[p] # <<>> /\ Take(p) /\ a.op = "InsertNewNameCounter" /\ UNCHANGED <<row, namecounter, undone, raced>>
  BY DEF DoRename3, MailIs, saved
<1>4. CASE online[p] /\ a.success
  BY <1>1, <1>2, <1>4, NamesRenamed, FreeRenamed DEF Kept
<1>5. CASE ~(online[p] /\ a.success)
  <2>1. player' = player /\ db' = db /\ leaked' = IF a.success THEN leaked \cup {a.name} ELSE leaked
    BY <1>5 DEF DoRename3, DoRenameFail
  <2>2. \A q \in Player : Free(q)'
    BY <1>1, <1>3, <2>1, FreeTake
  <2>3. CASE a.success
    BY <1>1, <1>2, <1>3, <2>1, <2>2, <2>3, NamesLeak DEF Kept
  <2>4. CASE ~a.success
    BY <1>1, <1>2, <1>3, <2>1, <2>2, <2>4, NamesTake DEF Kept
  <2> QED
    BY <2>3, <2>4
<1> QED
  BY <1>4, <1>5

LEMMA KeptLoseAnswer ==
  ASSUME Kept, NEW p \in Player, LoseAnswer(p)
  PROVE  Kept'
<1>1. TypeOK /\ Names /\ (\A q \in Player : Money(q)) /\ (\A q \in Player : Free(q))
  BY DEF Kept
<1>2. TypeOK' /\ \A q \in Player : Money(q)'
  BY <1>1, LoseAnswerTyped, MoneyLoseAnswer
<1> DEFINE a == Head(mail[p])
<1>3. /\ mail[p] # <<>> /\ Take(p) /\ UNCHANGED <<player, row, db, namecounter, undone, raced>>
      /\ leaked' = leaked \cup {b.name : b \in {c \in {a} : c.op = "InsertNewNameCounter" /\ c.success}}
  BY DEF LoseAnswer, Forget, live, saved
<1>4. \A q \in Player : Free(q)'
  BY <1>1, <1>3, FreeTake
<1>5. CASE a.op = "InsertNewNameCounter" /\ a.success
  <2>1. leaked' = leaked \cup {a.name}
    <3> HIDE DEF a
    <3> QED
      BY <1>3, <1>5
  <2> QED
    BY <1>1, <1>2, <1>3, <1>4, <1>5, <2>1, NamesLeak DEF Kept
<1>6. CASE ~(a.op = "InsertNewNameCounter" /\ a.success)
  <2>1. leaked' = leaked
    <3> HIDE DEF a
    <3> QED
      BY <1>3, <1>6
  <2> QED
    BY <1>1, <1>2, <1>3, <1>4, <1>6, <2>1, NamesTake DEF Kept
<1> QED
  BY <1>5, <1>6

LEMMA KeptRestart ==
  ASSUME Kept, Restart
  PROVE  Kept'
BY RestartTyped, NamesRestart, MoneyRestart, FreeRestart DEF Kept

LEMMA KeptStutter ==
  ASSUME Kept, UNCHANGED vars
  PROVE  Kept'
<1>1. TypeOK /\ Names /\ (\A q \in Player : Money(q)) /\ (\A q \in Player : Free(q))
  BY DEF Kept
<1>2. UNCHANGED <<player, profile, row, profileRow, namecounter, db, mail,
                  leaked, undone, stuck, exposed, raced>>
  BY DEF vars, live, saved, gamedb, history
<1>3. Names'
  BY <1>1, <1>2 DEF Names, OwnedOnce, Owns
<1> QED
  BY <1>1, <1>2, <1>3, StutterTyped, MoneySame, FreeSame DEF Kept

LEMMA KeptNext == Kept /\ [Next]_vars => Kept'
<1> SUFFICES ASSUME Kept, [Next]_vars PROVE Kept'
  OBVIOUS
<1>1. CASE \E p \in Player, n \in Name : DoRename(p, n) \/ RenamePlayer(p, n)
  BY <1>1, KeptAsks
<1>2. CASE \E c \in confirms : DoRename2(c) \/ DropCallBack(c)
  BY <1>2, KeptDoRename2, KeptDropCallBack
<1>3. CASE \E p \in Player : \/ Spend(p) \/ LoseCard(p)
                             \/ Logout(p) \/ Login(p) \/ SaveDb(p) \/ SaveProfile(p)
  BY <1>3, KeptSpend, KeptSaves
<1>4. CASE \E p \in Player : \/ FindName(p) \/ InsertNewNameCounter(p) \/ DeleteName(p)
                             \/ SavePlayer(p) \/ SaveOfflineProfile(p)
  BY <1>4, KeptFindName, KeptInsert, KeptDelete, KeptSavePlayer, KeptSaveProfile
<1>5. CASE \E p \in Player : DoRename1(p) \/ DoRename3(p) \/ LoseAnswer(p)
  BY <1>5, KeptDoRename1, KeptDoRename3, KeptLoseAnswer
<1>6. CASE Restart
  BY <1>6, KeptRestart
<1>7. CASE UNCHANGED vars
  BY <1>7, KeptStutter
<1> QED
  BY <1>1, <1>2, <1>3, <1>4, <1>5, <1>6, <1>7 DEF Next

\* The invariant holds of every reachable state.
THEOREM Invariance == Spec => []IInv
<1>1. Init => IInv
  BY KeptInit, KeptRead
<1>2. IInv /\ [Next]_vars => IInv'
  <2>1. IInv => Kept
    BY KeptRead
  <2>2. Kept' => IInv'
    BY KeptRead, PTL
  <2> QED
    BY <2>1, <2>2, KeptNext
<1> QED
  BY <1>1, <1>2, PTL DEF Spec

\* Nobody bears a name that is another's or that is not taken, but for the names
\* that a restart gave back.
THEOREM NamesKept == Spec => []NameKept
<1>1. IInv => NameKept
  <2> SUFFICES ASSUME IInv, NEW p \in Player, player[p].name \notin undone
               PROVE  /\ player[p].name \in namecounter
                      /\ \A q \in Player \ {p} : player[q].name # player[p].name
    BY DEF NameKept
  <2>1. player[p].name \in Name \ undone
    BY DEF IInv, TypeOK, PlayerType
  <2> QED
    BY <2>1 DEF IInv, OneOwner, OwnedIsTaken
<1> QED
  BY <1>1, Invariance, PTL

\* No name is left taken, but for those of the history.
THEOREM NamesUsed == Spec => []NameUsed
<1>1. IInv => NameUsed
  BY DEF IInv
<1> QED
  BY <1>1, Invariance, PTL

\* Frozen money waits for a rename, unless that was forgotten.
THEOREM FrozenComesBack == Spec => []FrozenReturned
<1>1. IInv => FrozenReturned
  BY DEF IInv
<1> QED
  BY <1>1, Invariance, PTL

\* A rename makes no debt, and the variables keep their types.
THEOREM NobodyOwes == Spec => []NoDebt
<1>1. IInv => NoDebt
  BY DEF IInv, NoDebt, PriceFrozen, Covered
<1> QED
  BY <1>1, Invariance, PTL

\* One rename is free.
THEOREM FreeJustOnce == Spec => []FreeOnce
<1>1. IInv => FreeOnce
  BY DEF IInv, FreeOnce, OneRename
<1> QED
  BY <1>1, Invariance, PTL

=============================================================================
