---------------------------- MODULE PlayerRename ----------------------------
(***************************************************************************)
(* A player takes another name (service/world/rename.lua).  The name is      *)
(* looked up, the player asked to confirm, the price frozen, the name        *)
(* entered in the table namecounter; when the answer has come the player is  *)
(* renamed, pays, and its old name is deleted from the table.  In between    *)
(* the player may ask again, spend, leave and come back; an answer may come  *)
(* after its session was dropped, and the game server may stop.              *)
(*                                                                         *)
(* The requests of a player go to one gamedb service, which handles them in  *)
(* order; those of two players go to two.                                    *)
(***************************************************************************)
EXTENDS Integers, Sequences, FiniteSets, SequencesExt, Functions, TLC

CONSTANTS
  Player, Name, None,
  HighGrade,    \* players above grade 50: they pay for the first time, too
  CardOwner,    \* players that have a card (item 10178) at the start
  Price,        \* 580
  Rich,         \* players that have coins at the start
  RplCoins,     \* how many bound ones
  GoldCoins,    \* how many others
  MaxRequests,  \* bound of the model: requests for a name, and GM renames
  MaxRestarts   \* bound of the model: restarts of the game server

ASSUME PlayerRenameAssumption ==
  /\ HighGrade \subseteq Player /\ CardOwner \subseteq Player /\ Rich \subseteq Player
  /\ None \notin Name \cup [kind : {"rpl", "gold"}, val : 0..Price]
  /\ Price \in Nat \ {0} /\ RplCoins \in Nat /\ GoldCoins \in Nat
  /\ MaxRequests \in Nat /\ MaxRestarts \in Nat

VARIABLES
  online,
  player,       \* name, GetRename() and cards, and how often it was renamed
                \* for nothing (history); of a player offline as loaded next
  profile,      \* its coins, its debt, and m_mFrozenMoney, whose only key is "nil"
  row,          \* the saved player
  profileRow,   \* the saved profile
  namecounter,  \* names taken (unique index)
  db,           \* of each player: requests to its gamedb service
  mail,         \* of each player: the answers of it
  confirms,     \* callbacks that wait for the client, [pid, name, id]
  \* bounds and history
  requests, restarts,
  leaked,       \* names left taken: nobody was renamed, or the deletion was forgotten
  undone,       \* names a player has back because a restart forgot its rename
  stuck,        \* players whose frozen money nobody releases
  exposed,      \* players whose frozen sum another took the place of, or whose frozen
                \* bound coins were spent
  raced         \* players with two renames under way, or whose card went meanwhile,
                \* or whose count of renames was not saved with the name

live == <<online, player, profile>>
saved == <<row, profileRow>>
gamedb == <<db, mail>>
history == <<leaked, undone, stuck, exposed, raced>>
vars == <<live, saved, namecounter, gamedb, confirms, requests, restarts, history>>

Init ==
  /\ online = [p \in Player |-> TRUE]
  /\ \E name \in [Player -> Name] :
       /\ IsInjective(name)
       /\ player = [p \in Player |-> [name |-> name[p], rename |-> 0, free |-> 0,
                                      cards |-> IF p \in CardOwner THEN 1 ELSE 0]]
       /\ namecounter = {name[p] : p \in Player}
  /\ profile = [p \in Player |-> [rpl |-> IF p \in Rich THEN RplCoins ELSE 0,
                                gold |-> IF p \in Rich THEN GoldCoins ELSE 0,
                                owe |-> 0, frozen |-> None]]
  /\ row = player /\ profileRow = profile
  /\ db = [p \in Player |-> <<>>] /\ mail = [p \in Player |-> <<>>]
  /\ confirms = {}
  /\ requests = 0 /\ restarts = 0
  /\ leaked = {} /\ undone = {} /\ stuck = {} /\ exposed = {} /\ raced = {}

-----------------------------------------------------------------------------
(* The money of a profile *)

Frozen(pf, kind) == IF pf.frozen # None /\ pf.frozen.kind = kind THEN pf.frozen.val ELSE 0
Above0(n) == IF n > 0 THEN n ELSE 0
RplGoldCoin(pf) == Above0(pf.rpl - Frozen(pf, "rpl"))
GoldCoin(pf) == Above0(pf.gold - Frozen(pf, "gold")) + RplGoldCoin(pf)

\* DispatchFrozenSession returns nothing, so that every sum is kept under the
\* key "nil" and what was there is overwritten.
FrozenMoney(pf, kind, val) == [pf EXCEPT !.frozen = [kind |-> kind, val |-> val]]

\* Mutant: the price is only counted, not frozen.
FrozenGoldCoinNothing(pf, val) == pf

FrozenGoldCoin(pf, val) ==
  LET rpl == RplGoldCoin(pf)
  IN IF val <= rpl
     THEN FrozenMoney(pf, "rpl", val)
     ELSE FrozenMoney(FrozenMoney(pf, "rpl", rpl), "gold", val - rpl)

Overwrites(pf, val) == pf.frozen # None \/ RplGoldCoin(pf) \in 1..val - 1

UnFrozenMoney(pf) == [pf EXCEPT !.frozen = None]

\* Bound coins go first; what is missing becomes a debt.
ResumeGoldCoin(pf, val) ==
  IF pf.rpl >= val
  THEN [pf EXCEPT !.rpl = @ - val]
  ELSE LET gold == pf.gold - (val - pf.rpl)
       IN [pf EXCEPT !.rpl = 0, !.gold = Above0(gold), !.owe = @ + Above0(0 - gold)]

-----------------------------------------------------------------------------
(* The player *)

Ask(p, request) == db' = [db EXCEPT ![p] = Append(@, request)]
NewRequest == requests < MaxRequests /\ requests' = requests + 1
UnderWay(p) == {r \in ToSet(db[p]) \cup ToSet(mail[p]) : r.op = "InsertNewNameCounter"}

DoRename(p, n) ==
  /\ online[p]
  /\ NewRequest
  /\ Ask(p, [op |-> "FindName", name |-> n, id |-> requests'])
  /\ UNCHANGED <<live, saved, namecounter, mail, confirms, restarts, history>>

\* CBackendMgr:RenamePlayer, called by the tools of the operators.
RenamePlayer(p, n) ==
  /\ online[p]
  /\ NewRequest
  /\ Ask(p, [op |-> "InsertNewNameCounter", name |-> n, frozen |-> FALSE, gm |-> TRUE])
  /\ raced' = IF UnderWay(p) # {} THEN raced \cup {p} ELSE raced
  /\ UNCHANGED <<live, saved, namecounter, mail, confirms, restarts, leaked, undone, stuck, exposed>>

\* The client confirms: the callback is taken out, whatever becomes of it.
DoRename2(c) ==
  LET p == c.pid
      pays == p \in HighGrade \/ player[p].rename > 0
      freezes == pays /\ player[p].cards = 0
  IN /\ c \in confirms /\ online[p]
     /\ confirms' = confirms \ {c}
     /\ \/ /\ freezes /\ GoldCoin(profile[p]) < Price
           /\ UNCHANGED <<profile, db, exposed, raced>>
        \/ /\ freezes => GoldCoin(profile[p]) >= Price
           /\ profile' = IF freezes THEN [profile EXCEPT ![p] = FrozenGoldCoin(@, Price)] ELSE profile
           /\ exposed' = IF freezes /\ Overwrites(profile[p], Price)
                             THEN exposed \cup {p} ELSE exposed
           /\ Ask(p, [op |-> "InsertNewNameCounter", name |-> c.name, frozen |-> freezes, gm |-> FALSE])
           /\ raced' = IF UnderWay(p) # {} THEN raced \cup {p} ELSE raced
     /\ UNCHANGED <<online, player, saved, namecounter, mail, requests, restarts, leaked, undone, stuck>>

\* The client declines, or CCBMgr drops the callback after three minutes.
DropCallBack(c) ==
  /\ confirms' = confirms \ {c}
  /\ UNCHANGED <<live, saved, namecounter, gamedb, requests, restarts, history>>

\* The player buys something else: bound coins go first, the frozen ones too.
Spend(p) ==
  /\ online[p] /\ GoldCoin(profile[p]) >= 1
  /\ profile' = [profile EXCEPT ![p] = ResumeGoldCoin(@, 1)]
  /\ exposed' = IF profile[p].rpl \in 1..Frozen(profile[p], "rpl") THEN exposed \cup {p} ELSE exposed
  /\ UNCHANGED <<online, player, saved, namecounter, gamedb, confirms, requests, restarts,
                 leaked, undone, stuck, raced>>

\* It uses its card or gives it away.
LoseCard(p) ==
  /\ online[p] /\ player[p].cards > 0
  /\ player' = [player EXCEPT ![p].cards = @ - 1]
  /\ raced' = IF UnderWay(p) # {} THEN raced \cup {p} ELSE raced
  /\ UNCHANGED <<online, profile, saved, namecounter, gamedb, confirms, requests, restarts,
                 leaked, undone, stuck, exposed>>

\* The parts of the player that are saved each with a request of its own.
Main(pl) == [op |-> "SavePlayerMain", name |-> pl.name, free |-> pl.free]
Base(pl) == [op |-> "SavePlayerBase", rename |-> pl.rename]
Item(pl) == [op |-> "SavePlayerItem", cards |-> pl.cards]

\* What such a request makes of the row.
Put(r, pl) ==
  CASE r.op = "SavePlayerMain" -> [pl EXCEPT !.name = r.name, !.free = r.free]
    [] r.op = "SavePlayerBase" -> [pl EXCEPT !.rename = r.rename]
    [] r.op = "SavePlayerItem" -> [pl EXCEPT !.cards = r.cards]
    [] OTHER -> pl

\* What the rows will be when the requests of the player have been handled.
Written(p) == FoldLeft(LAMBDA pl, r : Put(r, pl), row[p], db[p])

WrittenProfile(p) ==
  LET saves == SelectSeq(db[p], LAMBDA r : r.op = "SaveOfflineProfile")
  IN IF saves = <<>> THEN profileRow[p] ELSE Last(saves).profile

IfDirty(request, written) == IF request = written THEN <<>> ELSE <<request>>

Profile(pf) == [op |-> "SaveOfflineProfile", profile |-> pf]
SaveOfflineDb(p) == IfDirty(Profile(profile[p]), Profile(WrittenProfile(p)))

\* The requests that save what is dirty, the profile last.
Saves(p) ==
  IfDirty(Main(player[p]), Main(Written(p))) \o IfDirty(Base(player[p]), Base(Written(p)))
    \o IfDirty(Item(player[p]), Item(Written(p))) \o SaveOfflineDb(p)

SaveDb(p) ==
  /\ online[p] /\ Saves(p) # <<>>
  /\ db' = [db EXCEPT ![p] = @ \o Saves(p)]
  /\ UNCHANGED <<live, saved, namecounter, mail, confirms, requests, restarts, history>>

\* The player is saved when it leaves.
Logout(p) ==
  /\ online[p]
  /\ online' = [online EXCEPT ![p] = FALSE]
  /\ db' = [db EXCEPT ![p] = @ \o Saves(p)]
  /\ UNCHANGED <<player, profile, saved, namecounter, mail, confirms, requests, restarts, history>>

Login(p) ==
  /\ ~online[p]
  /\ online' = [online EXCEPT ![p] = TRUE]
  /\ UNCHANGED <<player, profile, saved, namecounter, gamedb, confirms, requests, restarts, history>>

\* The profile has a timer of its own, with and without its player.
SaveProfile(p) ==
  /\ SaveOfflineDb(p) # <<>>
  /\ db' = [db EXCEPT ![p] = @ \o SaveOfflineDb(p)]
  /\ UNCHANGED <<live, saved, namecounter, mail, confirms, requests, restarts, history>>

-----------------------------------------------------------------------------
(* gamedb *)

HeadIs(p, op) == db[p] # <<>> /\ Head(db[p]).op = op
Answer(p, answer) == mail' = [mail EXCEPT ![p] = Append(@, answer)]
Done(p) == db' = [db EXCEPT ![p] = Tail(@)]

FindName(p) ==
  /\ HeadIs(p, "FindName")
  /\ LET r == Head(db[p])
     IN Answer(p, [op |-> "FindName", name |-> r.name, id |-> r.id,
                   success |-> r.name \in namecounter])
  /\ Done(p)
  /\ UNCHANGED <<live, saved, namecounter, confirms, requests, restarts, history>>

InsertNewNameCounter(p) ==
  /\ HeadIs(p, "InsertNewNameCounter")
  /\ LET r == Head(db[p])
     IN Answer(p, [op |-> "InsertNewNameCounter", name |-> r.name, frozen |-> r.frozen,
                   gm |-> r.gm, success |-> r.name \notin namecounter])
  /\ namecounter' = namecounter \cup {Head(db[p]).name}
  /\ Done(p)
  /\ UNCHANGED <<live, saved, confirms, requests, restarts, history>>

DeleteName(p) ==
  /\ HeadIs(p, "DeleteName")
  /\ namecounter' = namecounter \ {Head(db[p]).name}
  /\ Done(p)
  /\ UNCHANGED <<live, saved, mail, confirms, requests, restarts, history>>

SavePlayer(p) ==
  /\ \E op \in {"SavePlayerMain", "SavePlayerBase", "SavePlayerItem"} : HeadIs(p, op)
  /\ row' = [row EXCEPT ![p] = Put(Head(db[p]), @)]
  /\ Done(p)
  /\ UNCHANGED <<live, profileRow, namecounter, mail, confirms, requests, restarts, history>>

SaveOfflineProfile(p) ==
  /\ HeadIs(p, "SaveOfflineProfile")
  /\ profileRow' = [profileRow EXCEPT ![p] = Head(db[p]).profile]
  /\ Done(p)
  /\ UNCHANGED <<live, row, namecounter, mail, confirms, requests, restarts, history>>

-----------------------------------------------------------------------------
(* The world takes the answers *)

MailIs(p, op) == mail[p] # <<>> /\ Head(mail[p]).op = op
Take(p) == mail' = [mail EXCEPT ![p] = Tail(@)]

DoRename1(p) ==
  /\ MailIs(p, "FindName")
  /\ Take(p)
  /\ confirms' = IF online[p] /\ ~Head(mail[p]).success
                 THEN confirms \cup {[pid |-> p, name |-> Head(mail[p]).name, id |-> Head(mail[p]).id]}
                 ELSE confirms
  /\ UNCHANGED <<live, saved, namecounter, db, requests, restarts, history>>

\* Mutant: the rename is not counted.
RenamedUncounted(pl, a) ==
  LET card == pl.rename > 0 /\ pl.cards > 0
  IN [pl EXCEPT !.name = a.name,
                !.cards = IF card THEN @ - 1 ELSE @,
                !.free = IF ~a.gm /\ ~card /\ ~a.frozen THEN @ + 1 ELSE @]

\* A card goes although it was GM who renamed, and stays the first time.
Renamed(pl, a) ==
  LET card == pl.rename > 0 /\ pl.cards > 0
  IN [pl EXCEPT !.name = a.name,
                !.rename = IF a.gm THEN @ ELSE @ + 1,
                !.cards = IF card THEN @ - 1 ELSE @,
                !.free = IF ~a.gm /\ ~card /\ ~a.frozen THEN @ + 1 ELSE @]

\* Mutants: the old name stays in the table; the name is read after it was set.
OnRenameSuccessKeepsOld(p, old) == UNCHANGED db
OnRenameSuccessReadsLate(p, old) == Ask(p, [op |-> "DeleteName", name |-> player'[p].name])

OnRenameSuccess(p, old) == Ask(p, [op |-> "DeleteName", name |-> old])

DoRenameSuccess(p, a) ==
  /\ player' = [player EXCEPT ![p] = Renamed(@, a)]
  /\ profile' = IF a.frozen
                THEN [profile EXCEPT ![p] = ResumeGoldCoin(UnFrozenMoney(@), Price)] ELSE profile
  /\ OnRenameSuccess(p, player[p].name)

\* Mutant: the money stays frozen.
DoRenameFailKeepsFrozen(p, a) == UNCHANGED <<player, profile, db>>

DoRenameFail(p, a) ==
  /\ profile' = IF a.frozen THEN [profile EXCEPT ![p] = UnFrozenMoney(@)] ELSE profile
  /\ UNCHANGED <<player, db>>

\* A player that has left is not renamed: its new name stays in the table.
DoRename3(p) ==
  /\ MailIs(p, "InsertNewNameCounter")
  /\ Take(p)
  /\ LET a == Head(mail[p])
     IN IF online[p] /\ a.success
        THEN DoRenameSuccess(p, a) /\ UNCHANGED leaked
        ELSE /\ DoRenameFail(p, a)
             /\ leaked' = IF a.success THEN leaked \cup {a.name} ELSE leaked
  /\ UNCHANGED <<online, saved, namecounter, confirms, requests, restarts, undone, stuck, exposed, raced>>

-----------------------------------------------------------------------------
(* Faults *)

\* What is forgotten with the answers A.
Forget(p, A) ==
  /\ leaked' = leaked \cup {a.name : a \in {b \in A : b.op = "InsertNewNameCounter" /\ b.success}}
  /\ stuck' = IF \E a \in A : a.op = "InsertNewNameCounter" /\ a.frozen THEN stuck \cup {p} ELSE stuck

\* The answer comes when its session was dropped after 300 s.
LoseAnswer(p) ==
  /\ mail[p] # <<>>
  /\ Take(p)
  /\ Forget(p, {Head(mail[p])})
  /\ UNCHANGED <<live, saved, namecounter, db, confirms, requests, restarts, undone, exposed, raced>>

\* The game server stops, with everything that waits, and starts from its rows.
Restart ==
  /\ restarts < MaxRestarts
  /\ restarts' = restarts + 1
  /\ online' = [p \in Player |-> FALSE]
  /\ player' = row /\ profile' = profileRow
  /\ db' = [p \in Player |-> <<>>] /\ mail' = [p \in Player |-> <<>>]
  /\ confirms' = {}
  /\ undone' = undone \cup {row[p].name : p \in {q \in Player : row[q].name # player[q].name}}
  /\ leaked' = leaked \cup (namecounter \ {row[p].name : p \in Player})
  /\ stuck' = stuck \cup {p \in Player : profileRow[p].frozen # None}
  /\ raced' = raced \cup {p \in Player : row[p].free > row[p].rename}
  /\ UNCHANGED <<saved, namecounter, requests, exposed>>

-----------------------------------------------------------------------------
Next ==
  \/ \E p \in Player, n \in Name : DoRename(p, n) \/ RenamePlayer(p, n)
  \/ \E c \in confirms : DoRename2(c) \/ DropCallBack(c)
  \/ \E p \in Player :
       \/ Spend(p) \/ LoseCard(p) \/ Logout(p) \/ Login(p) \/ SaveDb(p) \/ SaveProfile(p)
       \/ FindName(p) \/ InsertNewNameCounter(p) \/ DeleteName(p) \/ SavePlayer(p)
       \/ SaveOfflineProfile(p) \/ DoRename1(p) \/ DoRename3(p) \/ LoseAnswer(p)
  \/ Restart

Spec == Init /\ [][Next]_vars

-----------------------------------------------------------------------------
PlayerType == [name : Name, rename : Nat, cards : 0..1, free : Nat]
Sum == [kind : {"rpl", "gold"}, val : 0..Price]
ProfileType == [rpl : 0..RplCoins, gold : 0..GoldCoins, owe : Nat, frozen : {None} \cup Sum]
RequestType ==
  [op : {"FindName"}, name : Name, id : 1..MaxRequests]
    \cup [op : {"DeleteName"}, name : Name]
    \cup [op : {"InsertNewNameCounter"}, name : Name, frozen : BOOLEAN, gm : BOOLEAN]
    \cup [op : {"SavePlayerMain"}, name : Name, free : Nat]
    \cup [op : {"SavePlayerBase"}, rename : Nat]
    \cup [op : {"SavePlayerItem"}, cards : 0..1]
    \cup [op : {"SaveOfflineProfile"}, profile : ProfileType]
AnswerType ==
  [op : {"FindName"}, name : Name, id : 1..MaxRequests, success : BOOLEAN]
    \cup [op : {"InsertNewNameCounter"}, name : Name, frozen : BOOLEAN, gm : BOOLEAN, success : BOOLEAN]

TypeOK ==
  /\ online \in [Player -> BOOLEAN]
  /\ player \in [Player -> PlayerType] /\ row \in [Player -> PlayerType]
  /\ profile \in [Player -> ProfileType] /\ profileRow \in [Player -> ProfileType]
  /\ namecounter \subseteq Name
  /\ db \in [Player -> Seq(RequestType)] /\ mail \in [Player -> Seq(AnswerType)]
  /\ confirms \subseteq [pid : Player, name : Name, id : 1..MaxRequests]
  /\ requests \in 0..MaxRequests
  /\ leaked \cup undone \subseteq Name
  /\ stuck \cup exposed \cup raced \subseteq Player

\* The name of a player is taken in the table and nobody else's, unless a
\* restart gave that name back to a player that had already left it: it is
\* deleted from the table by then, and somebody else may take it.
NameKept ==
  \A p \in Player :
    player[p].name \notin undone =>
      /\ player[p].name \in namecounter
      /\ \A q \in Player \ {p} : player[q].name # player[p].name

\* A name that is taken is a player's, about to be one's, or about to be deleted,
\* unless its answer found nobody or was lost, or a restart forgot it.
NameUsed ==
  \A n \in namecounter \ leaked :
    \E p \in Player :
      \/ player[p].name = n
      \/ \E a \in ToSet(mail[p]) : a.op = "InsertNewNameCounter" /\ a.success /\ a.name = n
      \/ \E r \in ToSet(db[p]) : r.op = "DeleteName" /\ r.name = n

\* Frozen money is paid or released with the answer it waits for.
FrozenReturned ==
  \A p \in Player \ stuck : profile[p].frozen # None => \E r \in UnderWay(p) : r.frozen

\* A rename makes nobody a debtor: the price is frozen until it is paid, unless
\* another sum took its place under the one key, or another purchase was paid
\* with the frozen bound coins.  (The variables keep their types, too, and no
\* coins are below zero.)
NoDebt == TypeOK /\ \A p \in Player \ exposed : profile[p].owe = 0

\* Only one rename is free, unless two are under way at once, the card that was
\* counted on is gone, or a restart found the new name saved and the count not.
FreeOnce == \A p \in Player \ raced : player[p].free <= 1
-----------------------------------------------------------------------------
(* Why they hold *)

\* A name has one owner at most: a player that bears it, the answer that gives
\* it to one, or the request that deletes it; and then it is in the table.
Given(p, n) ==
  {i \in DOMAIN mail[p] : /\ mail[p][i].op = "InsertNewNameCounter"
                         /\ mail[p][i].success /\ mail[p][i].name = n}
GivenUp(p, n) == {i \in DOMAIN db[p] : db[p][i].op = "DeleteName" /\ db[p][i].name = n}

OneOwner ==
  \A n \in Name \ undone : \A p, q \in Player :
    /\ player[p].name = n =>
         /\ player[q].name = n => p = q
         /\ Given(q, n) = {} /\ GivenUp(q, n) = {}
    /\ \A i \in Given(p, n) : /\ \A j \in Given(q, n) : p = q /\ i = j
                             /\ GivenUp(q, n) = {}
    /\ \A i \in GivenUp(p, n) : \A j \in GivenUp(q, n) : p = q /\ i = j

OwnedIsTaken ==
  \A n \in Name \ undone : \A p \in Player :
    player[p].name = n \/ Given(p, n) # {} \/ GivenUp(p, n) # {} => n \in namecounter

\* A frozen sum is the price, and it is there.
Covered(pf) ==
  /\ pf.owe = 0
  /\ pf.frozen # None =>
       /\ pf.frozen.val = Price
       /\ Price <= IF pf.frozen.kind = "rpl" THEN pf.rpl ELSE pf.gold

\* One price of a player is frozen at a time.
FrozenDb(p) == {i \in DOMAIN db[p] : db[p][i].op = "InsertNewNameCounter" /\ db[p][i].frozen}
FrozenMail(p) == {i \in DOMAIN mail[p] : mail[p][i].op = "InsertNewNameCounter" /\ mail[p][i].frozen}

PriceFrozen ==
  \A p \in Player \ exposed :
    /\ Covered(profile[p]) /\ Covered(profileRow[p])
    /\ \A i \in DOMAIN db[p] : db[p][i].op = "SaveOfflineProfile" => Covered(db[p][i].profile)
    /\ FrozenDb(p) \cup FrozenMail(p) # {} => profile[p].frozen # None
    /\ FrozenDb(p) = {} \/ FrozenMail(p) = {}
    /\ \A i, j \in FrozenDb(p) : i = j
    /\ \A i, j \in FrozenMail(p) : i = j

\* One rename of a player is under way; if it is not paid with coins then it is
\* the first one, or there is a card for it.
RenameDb(p) == {i \in DOMAIN db[p] : db[p][i].op = "InsertNewNameCounter"}
RenameMail(p) == {i \in DOMAIN mail[p] : mail[p][i].op = "InsertNewNameCounter"}
PaidOrFirst(p, r) == r.gm \/ r.frozen \/ player[p].rename = 0 \/ player[p].cards > 0

OneRename ==
  \A p \in Player \ raced :
    /\ player[p].free <= 1 /\ player[p].free <= player[p].rename
    /\ row[p].free <= 1
    /\ \A i \in DOMAIN db[p] : db[p][i].op = "SavePlayerMain" => db[p][i].free <= 1
    /\ RenameDb(p) = {} \/ RenameMail(p) = {}
    /\ \A i, j \in RenameDb(p) : i = j
    /\ \A i, j \in RenameMail(p) : i = j
    /\ \A i \in RenameDb(p) : PaidOrFirst(p, db[p][i])
    /\ \A i \in RenameMail(p) : PaidOrFirst(p, mail[p][i])

IInv ==
  TypeOK /\ OneOwner /\ OwnedIsTaken /\ NameUsed /\ FrozenReturned /\ PriceFrozen /\ OneRename
=============================================================================
