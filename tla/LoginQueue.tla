----------------------------- MODULE LoginQueue -----------------------------
(***************************************************************************)
(* CLoginQueueMgr (service/login/loginqueue.lua): the ticket queue in       *)
(* front of a game server that has reached its number of online players.    *)
(*                                                                         *)
(* A player that may not enter takes a number; numbers are called in order  *)
(* as slots become free; a called player holds a slot until it logs in or   *)
(* its call times out.  Every method of the class that changes state is one *)
(* action here; the callers (CConnection, logiccmd) are arbitrary: any      *)
(* method may be called at any time with any player.                        *)
(***************************************************************************)
EXTENDS Integers, Sequences, FiniteSets, FiniteSetsExt

CONSTANTS
  Pid,         \* players
  Handle,      \* client sockets
  None,        \* Lua nil
  Limits,      \* values an operator sets as the online limit
  QueueCnt,    \* gamedefines.QUEUE_CNT, the limit at start
  KeepChecks,  \* TIME_KEEP_NUMBER in periods of the 60 s check
  MaxNumber    \* bound of the model: numbers handed out

ASSUME LoginQueueAssumption ==
  /\ IsFiniteSet(Pid)
  /\ None \notin Pid
  /\ None \notin Handle
  /\ QueueCnt \in Nat
  /\ Limits \subseteq Nat
  /\ KeepChecks \in Nat
  /\ MaxNumber \in Nat

VARIABLES
  callNumber,    \* m_iCallNumber: the last number called
  lastNumber,    \* m_iLastNumber: the last number handed out
  queueList,     \* m_mQueueList: number -> player
  queuePlayers,  \* m_mQueuePlayers: player -> number, 0 for nil
  callList,      \* m_mCallList: 0 for nil, else 1 + the checks passed since the call
  online,        \* m_mOnlinePlayers
  onlineCnt,     \* m_iOnlineCnt
  playerHandles, \* m_mPlayerHandles
  onlineLimit    \* m_iOnlineLimit, or QUEUE_CNT while it is nil

vars == <<callNumber, lastNumber, queueList, queuePlayers, callList,
          online, onlineCnt, playerHandles, onlineLimit>>

Number == 1..MaxNumber

CalledPids == {p \in Pid : callList[p] > 0}

\* The numbers CallNumber can still find: it scans from m_iCallNumber + 1.
WaitingNumbers == {k \in Number : callNumber < k /\ k <= lastNumber /\ queueList[k] # None}

GetOnlineTotCnt == onlineCnt + Cardinality(CalledPids)

-----------------------------------------------------------------------------
Init ==
  /\ callNumber = 0
  /\ lastNumber = 0
  /\ queueList = [k \in Number |-> None]
  /\ queuePlayers = [p \in Pid |-> 0]
  /\ callList = [p \in Pid |-> 0]
  /\ online = {}
  /\ onlineCnt = 0
  /\ playerHandles = [p \in Pid |-> None]
  /\ onlineLimit = QueueCnt

\* Mutant of NextNumbers: the scan runs from the last number down.
NextNumbersFromBack(n) ==
  {k \in WaitingNumbers : Cardinality({j \in WaitingNumbers : j >= k}) <= n}

\* CallNumber run n times over: the n smallest waiting numbers are called.
NextNumbers(n) ==
  {k \in WaitingNumbers : Cardinality({j \in WaitingNumbers : j <= k}) <= n}

\* kept is the call list as the caller leaves it before the first call.
CallNumbers(n, kept) ==
  LET S == NextNumbers(n)
      P == {queueList[k] : k \in S}
  IN /\ callNumber' = IF S = {} THEN callNumber ELSE Max(S)
     /\ queueList' = [k \in Number |-> IF k \in S THEN None ELSE queueList[k]]
     /\ queuePlayers' = [p \in Pid |-> IF p \in P THEN 0 ELSE queuePlayers[p]]
     /\ callList' = [p \in Pid |-> IF p \in P THEN 1 ELSE kept[p]]

\* Mutant of NeedQueue: called players do not count.
NeedQueueForgetsCalls(p) ==
  /\ p \notin online
  /\ callList[p] = 0
  /\ onlineCnt >= onlineLimit \/ \E k \in Number : queueList[k] # None

NeedQueue(p) ==
  /\ p \notin online
  /\ callList[p] = 0
  /\ \/ GetOnlineTotCnt >= onlineLimit
     \/ \E k \in Number : queueList[k] # None

\* Mutant of OnLogin: the call is kept.
OnLoginKeepsCall(p) ==
  /\ online' = online \cup {p}
  /\ onlineCnt' = IF p \in online THEN onlineCnt ELSE onlineCnt + 1
  /\ playerHandles' = [playerHandles EXCEPT ![p] = None]
  /\ UNCHANGED <<callNumber, lastNumber, queueList, queuePlayers, callList, onlineLimit>>

OnLogin(p) ==
  /\ online' = online \cup {p}
  /\ onlineCnt' = IF p \in online THEN onlineCnt ELSE onlineCnt + 1
  /\ callList' = [callList EXCEPT ![p] = 0]
  /\ playerHandles' = [playerHandles EXCEPT ![p] = None]
  /\ UNCHANGED <<callNumber, lastNumber, queueList, queuePlayers, onlineLimit>>

\* A player that waits already keeps its number and moves to the new socket.
PendingQueue(p, h) ==
  /\ playerHandles' = [playerHandles EXCEPT ![p] = h]
  /\ \/ /\ queuePlayers[p] # 0
        /\ UNCHANGED <<lastNumber, queueList, queuePlayers>>
     \/ /\ queuePlayers[p] = 0
        /\ lastNumber < MaxNumber
        /\ lastNumber' = lastNumber + 1
        /\ queueList' = [queueList EXCEPT ![lastNumber + 1] = p]
        /\ queuePlayers' = [queuePlayers EXCEPT ![p] = lastNumber + 1]
  /\ UNCHANGED <<callNumber, callList, online, onlineCnt, onlineLimit>>

ValidLogin(p, h) ==
  \/ NeedQueue(p) /\ PendingQueue(p, h)
  \/ ~NeedQueue(p) /\ OnLogin(p)

\* Mutant of OnLogout: the slot that comes free is given to nobody.
OnLogoutCallsNobody(p) ==
  /\ online' = online \ {p}
  /\ onlineCnt' = IF p \in online THEN onlineCnt - 1 ELSE onlineCnt
  /\ UNCHANGED <<callNumber, lastNumber, queueList, queuePlayers, callList, playerHandles, onlineLimit>>

\* The logout of a player the queue does not know as online calls a number too.
OnLogout(p) ==
  /\ online' = online \ {p}
  /\ onlineCnt' = IF p \in online THEN onlineCnt - 1 ELSE onlineCnt
  /\ CallNumbers(1, callList)
  /\ UNCHANGED <<lastNumber, playerHandles, onlineLimit>>

\* Mutant of QuitQueue: the socket stays behind.
QuitQueueKeepsHandle(p) ==
  /\ queuePlayers[p] # 0
  /\ queueList' = [queueList EXCEPT ![queuePlayers[p]] = None]
  /\ queuePlayers' = [queuePlayers EXCEPT ![p] = 0]
  /\ UNCHANGED <<callNumber, lastNumber, callList, online, onlineCnt, playerHandles, onlineLimit>>

\* For a player without a number the write m_mQueueList[nil] raises an error
\* and the handle is not cleared: the call leaves the state as it was.
QuitQueue(p) ==
  /\ queuePlayers[p] # 0
  /\ queueList' = [queueList EXCEPT ![queuePlayers[p]] = None]
  /\ queuePlayers' = [queuePlayers EXCEPT ![p] = 0]
  /\ playerHandles' = [playerHandles EXCEPT ![p] = None]
  /\ UNCHANGED <<callNumber, lastNumber, callList, online, onlineCnt, onlineLimit>>

SetOnlinePlayerLimit(limit) ==
  /\ onlineLimit' = limit
  /\ CallNumbers(limit - onlineLimit, callList)
  /\ UNCHANGED <<lastNumber, online, onlineCnt, playerHandles>>

TimedOut == {p \in Pid : callList[p] > KeepChecks}

\* Mutant of _CheckTimeOut: the slots of the lost calls are given to nobody.
CheckTimeOutNoRefill ==
  /\ CallNumbers(0, [p \in Pid |-> IF p \in TimedOut \/ callList[p] = 0
                                   THEN 0 ELSE callList[p] + 1])
  /\ playerHandles' = [p \in Pid |-> IF p \in TimedOut THEN None ELSE playerHandles[p]]
  /\ UNCHANGED <<lastNumber, online, onlineCnt, onlineLimit>>

\* One number is called for every call that timed out, then as many as there
\* are free slots.  (The calls that replace timed-out ones leave the count of
\* free slots as it was before, so both loops are one run of calls.)
_CheckTimeOut ==
  LET free == onlineLimit - GetOnlineTotCnt
  IN /\ CallNumbers(Cardinality(TimedOut) + Max({free, 0}),
                    [p \in Pid |-> IF p \in TimedOut \/ callList[p] = 0
                                   THEN 0 ELSE callList[p] + 1])
     /\ playerHandles' = [p \in Pid |-> IF p \in TimedOut THEN None ELSE playerHandles[p]]
     /\ UNCHANGED <<lastNumber, online, onlineCnt, onlineLimit>>

Next ==
  \/ \E p \in Pid, h \in Handle : ValidLogin(p, h)
  \/ \E p \in Pid : OnLogout(p)
  \/ \E p \in Pid : QuitQueue(p)
  \/ \E limit \in Limits : SetOnlinePlayerLimit(limit)
  \/ _CheckTimeOut

Spec == Init /\ [][Next]_vars

\* Schedule re-arms the 60 s timer each time it fires.
FairSpec == Spec /\ WF_vars(_CheckTimeOut)

-----------------------------------------------------------------------------
(***************************************************************************)
(* Properties                                                              *)
(***************************************************************************)
TypeOK ==
  /\ callNumber \in 0..MaxNumber
  /\ lastNumber \in 0..MaxNumber
  /\ queueList \in [Number -> Pid \cup {None}]
  /\ queuePlayers \in [Pid -> 0..MaxNumber]
  /\ callList \in [Pid -> 0..(KeepChecks + 1)]
  /\ online \in SUBSET Pid
  /\ onlineCnt \in Nat
  /\ playerHandles \in [Pid -> Handle \cup {None}]
  /\ onlineLimit \in Nat

\* m_iOnlineCnt, kept by hand beside m_mOnlinePlayers, is its size: no order
\* of logins, repeated logins and logouts makes the counter drift.
OnlineCntExact == onlineCnt = Cardinality(online)

\* The two queue tables describe one line: a number that is held is held by
\* the player that has it, and lies between the last number called and the
\* last handed out, so CallNumber's scan cannot pass over a waiting player.
QueueInverse ==
  /\ callNumber <= lastNumber
  /\ \A k \in Number : queueList[k] # None =>
       callNumber < k /\ k <= lastNumber /\ queuePlayers[queueList[k]] = k
  /\ \A p \in Pid : queuePlayers[p] # 0 => queueList[queuePlayers[p]] = p

\* A player waits, is called, or is online: never two of these at once, so no
\* player is counted twice against the limit.
OnePlace ==
  \A p \in Pid :
    /\ ~(queuePlayers[p] # 0 /\ callList[p] > 0)
    /\ ~(queuePlayers[p] # 0 /\ p \in online)
    /\ ~(callList[p] > 0 /\ p \in online)

\* A socket is remembered for exactly the players that wait or are called:
\* each of them can be told that its turn has come.
HandleWhileWaiting ==
  \A p \in Pid : playerHandles[p] # None <=> queuePlayers[p] # 0 \/ callList[p] > 0

\* The tables and the counters kept by hand beside them describe one line.
TablesAgree == OnlineCntExact /\ QueueInverse /\ HandleWhileWaiting

\* Nobody waits while a slot is free: every event that frees a slot (a logout,
\* a call that timed out, a raised limit) gives it to the line in the same step.
NoIdleSlot == (\E p \in Pid : queuePlayers[p] # 0) => GetOnlineTotCnt >= onlineLimit

\* The count of players that are in or called passes the limit in two ways
\* only: the limit is raised, or a player logs out that is not on the list.
AdmitsWithinLimit ==
  [][GetOnlineTotCnt' > GetOnlineTotCnt /\ GetOnlineTotCnt' > onlineLimit' =>
       \/ onlineLimit' > onlineLimit
       \/ \E p \in Pid \ online : OnLogout(p)]_vars

\* With free slots for good, a waiting player leaves the line (it is called,
\* or it quits): neither called players that never log in nor holes left by
\* players that quit block the queue.
LineMoves ==
  \A p \in Pid :
    (queuePlayers[p] # 0 /\ [](onlineCnt < onlineLimit)) ~> (queuePlayers[p] = 0)

\* The line as AdmissionLine sees it: the waiting players by their numbers.
Rank(S, k) == Cardinality({j \in S : j <= k})
NumberAt(S, i) == CHOOSE k \in S : Rank(S, k) = i
LineOf == [i \in 1..Cardinality(WaitingNumbers) |-> queueList[NumberAt(WaitingNumbers, i)]]

Line == INSTANCE AdmissionLine WITH
          line <- LineOf, called <- CalledPids, inside <- online

\* What the queue promises (AdmissionLine): first come, first called.
FirstComeFirstCalled == Line!Spec
=============================================================================
