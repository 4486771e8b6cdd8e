------------------------------ MODULE PayOrder ------------------------------
(***************************************************************************)
(* The orders of one player, from the call of the payment platform to the  *)
(* goods in the player's data.  The pay services of the central server     *)
(* keep the orders in their table; the world of the game server gives the  *)
(* goods out and notes the order in the player's Privacy block; a timer    *)
(* saves the block and the player, together when they were merged.         *)
(*                                                                         *)
(* The player object and its Profile block are one object here ("goods"):  *)
(* CPlayer:SaveDb saves the profile too, and a profile that gets gold is   *)
(* merged with its player.                                                 *)
(***************************************************************************)
EXTENDS Naturals, Sequences, FiniteSets

CONSTANTS Order,      \* orders of the player, each id is used once
          MaxMail,    \* bound: equal messages in flight, writes in the mail
          MaxFaults   \* bound: messages the router drops, stops of the game
                      \* server and products that cannot be given out

ASSUME PayAssumption ==
  /\ IsFiniteSet(Order)
  /\ MaxMail \in Nat \ {0}
  /\ MaxFaults \in Nat

VARIABLES
  \* the central server
  pay,         \* table pay: "none", "open" (deal = 0) or "dealt" (deal = 1)
  asked,       \* orders for which the data center looks up the player's server
  \* the router
  toGs,        \* PaySuccessedCb in flight: how many for each set of orders
  marks,       \* orders with a MarkOrderAsDealed in flight
  deals,       \* DealUntreatedOrder in flight
  \* the world
  block,       \* the Privacy block: "none", "loading" or "loaded"
  waiting,     \* orders whose callback waits for the block
  privacy,     \* the block: dealt orders, and orders in the function list
  online,      \* the player is online
  goods,       \* how often each order's goods are in the player's data
  dirty,       \* objects with unsaved changes, among "privacy" and "goods"
  merged,      \* the two save objects are merged
  \* the database
  dbMail,      \* writes on their way to the gamedb service
  db,          \* the rows, written one by one
  \* history
  loose,       \* given out from the function list, not yet saved on both sides
  torn,        \* orders on which the rows disagreed when the game server stopped
  unsaved,     \* orders reported as dealt and not saved when it stopped
  dropped,     \* orders left in the list that a failing function cut short
  faults

payVars == <<pay, asked>>
routerVars == <<toGs, marks, deals>>
worldVars == <<block, waiting, privacy, online, goods, dirty, merged>>
dbVars == <<dbMail, db>>
historyVars == <<loose, torn, unsaved, dropped, faults>>
vars == <<payVars, routerVars, worldVars, dbVars, historyVars>>

Batch == (SUBSET Order) \ {{}}
NoGoods == [o \in Order |-> 0]
NoPrivacy == [orders |-> {}, funcs |-> {}]

Init ==
  /\ pay = [o \in Order |-> "none"]
  /\ asked = {}
  /\ toGs = [b \in Batch |-> 0]
  /\ marks = {}
  /\ deals = 0
  /\ block = "none"
  /\ waiting = {}
  /\ privacy = NoPrivacy
  /\ online = FALSE
  /\ goods = NoGoods
  /\ dirty = {}
  /\ merged = FALSE
  /\ dbMail = <<>>
  /\ db = [privacy |-> NoPrivacy, goods |-> NoGoods]
  /\ loose = {}
  /\ torn = {}
  /\ unsaved = {}
  /\ dropped = {}
  /\ faults = 0

-----------------------------------------------------------------------------
(* The pay services *)

SendOrder2GS(b) ==
  /\ toGs[b] < MaxMail
  /\ toGs' = [toGs EXCEPT ![b] = @ + 1]

\* The platform reports an order as paid: its row is inserted, the data center
\* is asked for the player's server.  The platform may report it again; the
\* index of the table refuses the second row and nothing is changed.
PayCallback(o) ==
  /\ pay[o] = "none"
  /\ pay' = [pay EXCEPT ![o] = "open"]
  /\ asked' = asked \cup {o}
  /\ UNCHANGED <<routerVars, worldVars, dbVars, historyVars>>

\* The data center answers; no message is sent when it does not know the role,
\* does not answer in time or the pay service is restarted in between.
_PayCallback1(o) ==
  /\ o \in asked
  /\ asked' = asked \ {o}
  /\ \/ SendOrder2GS({o})
     \/ UNCHANGED toGs
  /\ UNCHANGED <<pay, marks, deals, worldVars, dbVars, historyVars>>

\* Mutant of DealUntreatedOrder: what was open is not sent again.
DealUntreatedOrderSilently ==
  /\ deals > 0
  /\ deals' = deals - 1
  /\ UNCHANGED <<payVars, toGs, marks, worldVars, dbVars, historyVars>>

\* A login asks for the orders that are still open.
DealUntreatedOrder ==
  /\ deals > 0
  /\ deals' = deals - 1
  /\ LET open == {o \in Order : pay[o] = "open"}
     IN \/ open # {} /\ SendOrder2GS(open)
        \/ open = {} /\ UNCHANGED toGs
  /\ UNCHANGED <<payVars, marks, worldVars, dbVars, historyVars>>

\* The orders of a message are updated one by one.
MarkOrderAsDealed(o) ==
  /\ o \in marks
  /\ marks' = marks \ {o}
  /\ pay' = [pay EXCEPT ![o] = "dealt"]
  /\ UNCHANGED <<asked, toGs, deals, worldVars, dbVars, historyVars>>

-----------------------------------------------------------------------------
(* Saving.  The mail to the gamedb service of the player is read in order,   *)
(* so a row that is asked for after its last write is read with it.          *)

Write(obj) == [obj |-> obj, data |-> IF obj = "privacy" THEN privacy ELSE goods]
InMail(obj) == \E i \in DOMAIN dbMail : dbMail[i].obj = obj

\* An object is written if it has changes.
DoSave(obj) == IF obj \in dirty THEN <<Write(obj)>> ELSE <<>>
OtherObj(obj) == IF obj = "privacy" THEN "goods" ELSE "privacy"

\* The object whose timer fired and then the one merged with it are saved, and
\* the merge is over.
_RecuSave(obj) ==
  /\ Len(dbMail) < MaxMail
  /\ dbMail' = dbMail \o DoSave(obj) \o (IF merged THEN DoSave(OtherObj(obj)) ELSE <<>>)
  /\ dirty' = dirty \ (IF merged THEN {obj, OtherObj(obj)} ELSE {obj})
  /\ merged' = FALSE
  /\ loose' = IF dirty' = {} THEN {} ELSE loose

SavePrivacy ==
  /\ block = "loaded"
  /\ _RecuSave("privacy")
  /\ UNCHANGED <<payVars, routerVars, block, waiting, privacy, online, goods, db, torn,
                 unsaved, dropped, faults>>

SavePlayer ==
  /\ online
  /\ _RecuSave("goods")
  /\ UNCHANGED <<payVars, routerVars, block, waiting, privacy, online, goods, db, torn,
                 unsaved, dropped, faults>>

DbWrite ==
  /\ dbMail # <<>>
  /\ db' = [db EXCEPT ![Head(dbMail).obj] = Head(dbMail).data]
  /\ dbMail' = Tail(dbMail)
  /\ UNCHANGED <<payVars, routerVars, worldVars, historyVars>>

-----------------------------------------------------------------------------
(* The world *)

\* The goods go to an online player at once, to an absent one through the
\* function list of the block; the block p notes the orders as dealt with.
DealSucceedOrder(p, given) ==
  /\ privacy' = [orders |-> p.orders \cup given,
                 funcs |-> IF online THEN p.funcs ELSE p.funcs \cup given]
  /\ goods' = IF online THEN [o \in Order |-> goods[o] + (IF o \in given THEN 1 ELSE 0)]
                       ELSE goods
  /\ dirty' = IF given = {} THEN dirty
              ELSE dirty \cup (IF online THEN {"privacy", "goods"} ELSE {"privacy"})

Fail(bad) ==
  /\ faults + Cardinality(bad) <= MaxFaults
  /\ faults' = faults + Cardinality(bad)

\* Mutant of _PaySuccessedCb1: the list of dealt orders is not asked.
PaySuccessedCb1Again(p, b, bad) ==
  /\ bad \subseteq b
  /\ Fail(bad)
  /\ DealSucceedOrder(p, b \ bad)
  /\ merged' = (merged \/ online)
  /\ marks' = marks \cup (b \ bad)

\* Mutant of _PaySuccessedCb1: the block and the player are not merged.
PaySuccessedCb1Alone(p, b, bad) ==
  /\ bad \subseteq b \ p.orders
  /\ Fail(bad)
  /\ DealSucceedOrder(p, (b \ p.orders) \ bad)
  /\ marks' = marks \cup (b \ bad)
  /\ UNCHANGED merged

\* Mutant of _PaySuccessedCb1: orders that could not be given out are reported too.
PaySuccessedCb1ReportsAll(p, b, bad) ==
  /\ bad \subseteq b \ p.orders
  /\ Fail(bad)
  /\ DealSucceedOrder(p, (b \ p.orders) \ bad)
  /\ merged' = (merged \/ online)
  /\ marks' = marks \cup b

\* The orders of the batch b that the block p does not know are given out;
\* those in bad fail (an assert before anything is given) and stay open.  The
\* others, and those known before, are reported.
_PaySuccessedCb1(p, b, bad) ==
  /\ bad \subseteq b \ p.orders
  /\ Fail(bad)
  /\ DealSucceedOrder(p, (b \ p.orders) \ bad)
  /\ merged' = (merged \/ online)
  /\ marks' = marks \cup (b \ bad)

PaySuccessedCb(b) ==
  /\ toGs[b] > 0
  /\ toGs' = [toGs EXCEPT ![b] = @ - 1]
  /\ \/ /\ block = "loaded"
        /\ \E bad \in SUBSET b : _PaySuccessedCb1(privacy, b, bad)
        /\ UNCHANGED <<block, waiting>>
     \/ /\ block # "loaded"
        /\ block' = "loading"
        /\ waiting' = waiting \cup b
        /\ UNCHANGED <<marks, privacy, goods, dirty, merged, faults>>
  /\ UNCHANGED <<payVars, deals, online, dbVars, loose, torn, unsaved, dropped>>

\* A login, or any system that asks for the block.
LoadPrivacy ==
  /\ block = "none"
  /\ block' = "loading"
  /\ UNCHANGED <<payVars, routerVars, waiting, privacy, online, goods, dirty, merged, dbVars,
                 historyVars>>

\* The block comes and the callbacks that wait for it run.
OnLoaded ==
  /\ block = "loading"
  /\ ~InMail("privacy")
  /\ block' = "loaded"
  /\ waiting' = {}
  /\ \E bad \in SUBSET waiting : _PaySuccessedCb1(db.privacy, waiting, bad)
  /\ UNCHANGED <<payVars, toGs, deals, online, dbVars, loose, torn, unsaved, dropped>>

\* A block without changes that nobody used for five minutes is dropped.
CleanOfflineBlock ==
  /\ block = "loaded"
  /\ ~online
  /\ "privacy" \notin dirty
  /\ block' = "none"
  /\ privacy' = NoPrivacy
  /\ UNCHANGED <<payVars, routerVars, waiting, online, goods, dirty, merged, dbVars, historyVars>>

\* The function list is emptied and run; after the first function that fails
\* the rest of it is forgotten.  Nothing merges the block with the player.
OnLogin(given) ==
  /\ given \subseteq privacy.funcs
  /\ privacy' = [privacy EXCEPT !.funcs = {}]
  /\ goods' = [o \in Order |-> db.goods[o] + (IF o \in given THEN 1 ELSE 0)]
  /\ dirty' = dirty \cup {"privacy"} \cup (IF given = {} THEN {} ELSE {"goods"})
  /\ loose' = loose \cup given
  /\ dropped' = dropped \cup (privacy.funcs \ given)

\* The player is loaded and goes online; a failing function ends the handler
\* before the central server is asked for open orders.
LoadEnd ==
  /\ block = "loaded"
  /\ ~online
  /\ ~InMail("goods")
  /\ online' = TRUE
  /\ \/ /\ OnLogin(privacy.funcs)
        /\ deals < MaxMail
        /\ deals' = deals + 1
        /\ UNCHANGED faults
     \/ /\ \E given \in (SUBSET privacy.funcs) \ {privacy.funcs} : OnLogin(given)
        /\ faults < MaxFaults
        /\ faults' = faults + 1
        /\ UNCHANGED deals
  /\ UNCHANGED <<payVars, toGs, marks, block, waiting, merged, dbVars, torn, unsaved>>

\* The player is saved, with the block when they are merged, and leaves.
Logout ==
  /\ online
  /\ online' = FALSE
  /\ _RecuSave("goods")
  /\ goods' = NoGoods
  /\ UNCHANGED <<payVars, routerVars, block, waiting, privacy, db, torn, unsaved, dropped,
                 faults>>

-----------------------------------------------------------------------------
(* Losses and stops *)

LoseMessage ==
  /\ faults < MaxFaults
  /\ faults' = faults + 1
  /\ \/ /\ \E b \in Batch : toGs[b] > 0 /\ toGs' = [toGs EXCEPT ![b] = @ - 1]
        /\ UNCHANGED <<marks, deals>>
     \/ /\ \E b \in Batch : b \subseteq marks /\ marks' = marks \ b
        /\ UNCHANGED <<toGs, deals>>
     \/ /\ deals > 0
        /\ deals' = deals - 1
        /\ UNCHANGED <<toGs, marks>>
  /\ UNCHANGED <<payVars, worldVars, dbVars, loose, torn, unsaved, dropped>>

\* The two rows tell the same story of an order.
Agree(rows, o) ==
  rows.goods[o] = IF o \in rows.privacy.orders \ rows.privacy.funcs THEN 1 ELSE 0

StopGS ==
  /\ faults < MaxFaults
  /\ faults' = faults + 1
  /\ torn' = torn \cup {o \in Order : ~Agree(db, o)}
  /\ unsaved' = unsaved \cup {o \in Order \ db.privacy.orders : pay[o] = "dealt" \/ o \in marks}
  /\ loose' = {}
  /\ block' = "none"
  /\ waiting' = {}
  /\ privacy' = NoPrivacy
  /\ online' = FALSE
  /\ goods' = NoGoods
  /\ dirty' = {}
  /\ merged' = FALSE
  /\ dbMail' = <<>>
  /\ UNCHANGED <<payVars, routerVars, db, dropped>>

-----------------------------------------------------------------------------
Next ==
  \/ \E o \in Order : \/ PayCallback(o)
                      \/ _PayCallback1(o)
                      \/ MarkOrderAsDealed(o)
  \/ \E b \in Batch : PaySuccessedCb(b)
  \/ DealUntreatedOrder
  \/ LoadPrivacy
  \/ OnLoaded
  \/ CleanOfflineBlock
  \/ LoadEnd
  \/ Logout
  \/ SavePrivacy
  \/ SavePlayer
  \/ DbWrite
  \/ LoseMessage
  \/ StopGS

Spec == Init /\ [][Next]_vars

\* Mail that is not lost is handled, the database answers.
FairSpec ==
  /\ Spec
  /\ \A b \in Batch : WF_vars(PaySuccessedCb(b))
  /\ \A o \in Order : WF_vars(MarkOrderAsDealed(o))
  /\ WF_vars(DealUntreatedOrder)
  /\ WF_vars(OnLoaded)
  /\ WF_vars(DbWrite)

-----------------------------------------------------------------------------
(***************************************************************************)
(* Properties                                                              *)
(***************************************************************************)

\* What the rows hold when the mail is read.
SavedRow(obj) ==
  LET writes == {i \in DOMAIN dbMail : dbMail[i].obj = obj}
  IN IF writes = {} THEN db[obj]
     ELSE dbMail[CHOOSE i \in writes : \A j \in writes : j <= i].data
Saved == [privacy |-> SavedRow("privacy"), goods |-> SavedRow("goods")]

\* What the player has now.
Privacy == IF block = "loaded" THEN privacy ELSE Saved.privacy
Goods == IF online THEN goods ELSE Saved.goods

PrivacyData == [orders : SUBSET Order, funcs : SUBSET Order]
GoodsData == [Order -> Nat]

\* The variables have their types, only a player whose block is there is online
\* (GetPrivacy in CPlayer:OnLogin), only objects that exist have unsaved
\* changes, and only an online player is merged with its block.
TypeOK ==
  /\ pay \in [Order -> {"none", "open", "dealt"}]
  /\ asked \subseteq Order
  /\ toGs \in [Batch -> 0..MaxMail]
  /\ marks \subseteq Order
  /\ deals \in 0..MaxMail
  /\ block \in {"none", "loading", "loaded"}
  /\ waiting \subseteq Order
  /\ privacy \in PrivacyData
  /\ online \in BOOLEAN
  /\ goods \in GoodsData
  /\ dirty \subseteq {"privacy", "goods"}
  /\ merged \in BOOLEAN
  /\ dbMail \in Seq([obj : {"privacy"}, data : PrivacyData] \cup [obj : {"goods"}, data : GoodsData])
  /\ db \in [privacy : PrivacyData, goods : GoodsData]
  /\ loose \subseteq Order
  /\ torn \subseteq Order
  /\ unsaved \subseteq Order
  /\ dropped \subseteq Order
  /\ faults \in 0..MaxFaults
  /\ online => block = "loaded"
  /\ waiting # {} => block = "loading"
  /\ merged => online
  /\ "privacy" \in dirty => block = "loaded"
  /\ "goods" \in dirty => online

\* An order is given out once, be it in hand or on the function list, however
\* often its messages are repeated, delayed or lost and the player comes and
\* goes; only a stop of the game server between the writes of the block and of
\* the player lets it be given twice (IsDealedOrder in CPayMgr:_PaySuccessedCb1).
GivenOnce ==
  \A o \in Order \ torn : Goods[o] + (IF o \in Privacy.funcs THEN 1 ELSE 0) <= 1

\* An order that the central server was told is dealt with is in the player's
\* hands or on its function list, unless the game server stopped before it was
\* saved or between the two writes, or a failing function cut the list short
\* (MarkOrderAsDealed is sent before the save).
DealtIsGiven ==
  \A o \in Order \ (torn \cup unsaved \cup dropped) :
    pay[o] = "dealt" \/ o \in marks => Goods[o] >= 1 \/ o \in Privacy.funcs

\* The block and the player are saved together: once the mail to the database
\* is read, the rows agree on every order but those a login gave out from the
\* function list a short while ago (AddSaveMerge in _PaySuccessedCb1; OnLogin
\* of the block merges nothing).  (The variables keep their types, too.)
SavedTogether ==
  TypeOK /\ \A o \in Order \ (loose \cup torn \cup dropped) : Agree(Saved, o)

\* A player that logs in again and again gets every paid order in the end:
\* DealUntreatedOrder asks for the open ones at each login.
EveryOrderDealt ==
  []<>online /\ []<>~online => \A o \in Order : pay[o] = "open" ~> pay[o] = "dealt"
-----------------------------------------------------------------------------
(* Why they hold: what the player has now agrees on every order, and what is   *)
(* saved lags behind it only where it will be saved together.                  *)

InHand(p, o) == o \in p.orders \ p.funcs

\* An order on a function list was noted before.
FuncsNoted ==
  /\ privacy.funcs \subseteq privacy.orders
  /\ db.privacy.funcs \subseteq db.privacy.orders
  /\ \A i \in DOMAIN dbMail :
       dbMail[i].obj = "privacy" => dbMail[i].data.funcs \subseteq dbMail[i].data.orders

\* An object without changes is as it was saved.
CleanIsSaved ==
  /\ block = "loaded" /\ "privacy" \notin dirty => privacy = SavedRow("privacy")
  /\ online /\ "goods" \notin dirty => goods = SavedRow("goods")

\* The block and the goods the player has now agree.
NowAgree ==
  \A o \in Order \ torn :
    /\ Goods[o] <= (IF InHand(Privacy, o) THEN 1 ELSE 0)
    /\ o \notin dropped => Goods[o] = (IF InHand(Privacy, o) THEN 1 ELSE 0)

\* What came to hand since the last save did so while the two were merged.
ApartAsSaved ==
  ~merged => \A o \in Order \ (loose \cup torn \cup dropped) :
    /\ InHand(SavedRow("privacy"), o) <=> InHand(Privacy, o)
    /\ SavedRow("goods")[o] = Goods[o]

\* What is reported is noted in the block.
ReportedNoted ==
  \A o \in Order \ unsaved : pay[o] = "dealt" \/ o \in marks => o \in Privacy.orders

IInv == FuncsNoted /\ CleanIsSaved /\ NowAgree /\ SavedTogether /\ ApartAsSaved /\ ReportedNoted
=============================================================================
