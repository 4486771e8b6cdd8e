------------------------------ MODULE LoginGate ------------------------------
(***************************************************************************)
(* The login service (service/login): a client's way from its socket to the  *)
(* world.  CConnection keeps the status of a socket, CGateMgr the logins on   *)
(* their way to the world (m_mRoleLoginQueue), those held back                *)
(* (m_mRoleWaitQueue) and the role tokens for a quick relogin, and            *)
(* CLoginQueueMgr (module LoginQueue) the players that hold a place.          *)
(*                                                                         *)
(* The three tables of the login service and the sessions of the world are    *)
(* kept together only by messages.  The world appears as what WorldLogin is   *)
(* checked to implement (module WorldSessions).                              *)
(***************************************************************************)
EXTENDS Integers, Sequences, FiniteSets, SequencesExt

CONSTANTS
  Pid,              \* players
  Handle,           \* client sockets, all open at first; an id is not used again
  None,             \* Lua nil
  Limits,           \* values an operator sets as the online limit
  QueueCnt,         \* gamedefines.QUEUE_CNT
  KeepChecks,       \* TIME_KEEP_NUMBER in periods of the queue's 60 s check
  MaxNumber,        \* bound of the model: queue numbers handed out
  LoginQueueLimit,  \* LOGIN_QUEUE_LIMIT (100)
  WaitPushNum,      \* WAIT_PUSH_NUM (200)
  OpenStatus,       \* the values an operator gives m_iOpenStatus
  MaxLogins         \* bound of the model: role tokens given out

ASSUME LoginGateAssumption ==
  /\ IsFiniteSet(Pid)
  /\ None \notin Pid \cup Handle
  /\ QueueCnt \in Nat
  /\ Limits \subseteq Nat
  /\ KeepChecks \in Nat
  /\ MaxNumber \in Nat
  /\ LoginQueueLimit \in Nat
  /\ WaitPushNum \in Nat \ {0}
  /\ OpenStatus \subseteq 0..3
  /\ MaxLogins \in Nat

VARIABLES
  \* CLoginQueueMgr
  callNumber, lastNumber, queueList, queuePlayers, callList, online, onlineCnt,
  playerHandles, onlineLimit,
  \* the world, and the mail between it and the login service
  session, owner, toWorld, toLogin,
  \* CGateMgr and its connections
  openStatus,   \* m_iOpenStatus
  status,       \* m_oStatus of each connection; "kicked": the connection is
                \* deleted and the gate has yet to report the close
  pendingRole,  \* m_iLoginPendingRole of each connection
  asked,        \* the unanswered GetPlayer requests, all to the block "login"
  loginQueue,   \* m_mRoleLoginQueue: "no", "new", or "old" (seen by a check)
  loginCnt,     \* m_iLoginCnt
  waitQueue,    \* m_mRoleWaitQueue
  tokenCache,   \* m_mRoleTokenCache: player -> token
  lastToken,    \* m_iRoleTokenID
  \* where the messages of a socket go, and history
  forwarded,    \* sockets the world took over: their messages go there
  crossed,      \* players whose admitted login and an older logout crossed
  failed,       \* players that lost a session because its loading failed
  lost          \* sockets whose login was given up without a word to them

queueVars == <<callNumber, lastNumber, queueList, queuePlayers, callList, online,
               onlineCnt, playerHandles, onlineLimit>>
connVars == <<status, pendingRole, asked>>
loginVars == <<loginQueue, loginCnt, waitQueue, tokenCache, lastToken>>
historyVars == <<forwarded, crossed, failed, lost>>
worldVars == <<session, owner, toWorld, toLogin>>
vars == <<queueVars, worldVars, openStatus, connVars, loginVars, historyVars>>

Queue == INSTANCE LoginQueue
Token == 1..MaxLogins
World == INSTANCE WorldSessions
SessionRecord == [at : {"loading", "online"}, handle : Handle \cup {None}, token : Token]

\* nil is neither a message nor a session.
ASSUME NilAssumption == None \notin World!Message /\ None \notin SessionRecord

\* GetConnection finds nothing (nor does it for nil).
Closed(h) == h \notin {g \in Handle : status[g] \notin {"kicked", "closed"}}

\* The login messages of a client reach this service.
Heard(h) == ~Closed(h) /\ h \notin forwarded

-----------------------------------------------------------------------------
Init ==
  /\ Queue!Init
  /\ World!Init
  /\ openStatus = 3
  /\ status = [h \in Handle |-> "no_account"]
  /\ pendingRole = [h \in Handle |-> None]
  /\ asked = <<>>
  /\ loginQueue = [p \in Pid |-> "no"]
  /\ loginCnt = 0
  /\ waitQueue = [p \in Pid |-> None]
  /\ tokenCache = [p \in Pid |-> None]
  /\ lastToken = 0
  /\ forwarded = {}
  /\ crossed = {}
  /\ failed = {}
  /\ lost = {}

\* The way of a player's login that the world has not handled yet.
InMail(p) == \E i \in DOMAIN toWorld : toWorld[i].type = "LoginPlayer" /\ toWorld[i].pid = p
OnItsWay(p) == waitQueue[p] # None \/ InMail(p)
LogoutInMail(p) == \E i \in DOMAIN toLogin : toLogin[i].type = "OnLogout" /\ toLogin[i].pid = p

\* The connection is deleted; the gate will report the close.
KickConnection(h) ==
  /\ status' = [status EXCEPT ![h] = "kicked"]
  /\ pendingRole' = [pendingRole EXCEPT ![h] = None]

-----------------------------------------------------------------------------
(* Requests of the client *)

\* A second request on the same socket gets it kicked.
LoginAccount(h) ==
  /\ Heard(h)
  /\ openStatus # 0
  /\ \/ /\ status[h] = "no_account"
        /\ status' = [status EXCEPT ![h] = "in_login_account"]
        /\ UNCHANGED pendingRole
     \/ status[h] # "no_account" /\ KickConnection(h)
  /\ UNCHANGED <<queueVars, worldVars, openStatus, asked, loginVars, historyVars>>

\* The last answer of the account's checks: the role list is sent, or a check
\* has failed.  (A refusal while the server is closed changes nothing, and
\* leaves the socket in in_login_account.)
_LoginAccount3(h) ==
  /\ status[h] = "in_login_account"
  /\ \/ status' = [status EXCEPT ![h] = "login_account"] /\ UNCHANGED pendingRole
     \/ KickConnection(h)
  /\ UNCHANGED <<queueVars, worldVars, openStatus, asked, loginVars, historyVars>>

\* Mutant of LoginRole: the status does not change.
LoginRoleKeepsStatus(h, p) ==
  /\ Heard(h)
  /\ openStatus \in {1, 3}
  /\ status[h] = "login_account"
  /\ asked' = Append(asked, [handle |-> h, pid |-> p])
  /\ UNCHANGED <<queueVars, worldVars, openStatus, status, pendingRole, loginVars, historyVars>>

\* Status 1 admits white-listed accounts (any account may be one), 3 everyone.
LoginRole(h, p) ==
  /\ Heard(h)
  /\ openStatus \in {1, 3}
  /\ \/ /\ status[h] # "login_account"
        /\ KickConnection(h)
        /\ UNCHANGED asked
     \/ /\ status[h] = "login_account"
        /\ status' = [status EXCEPT ![h] = "in_login_role"]
        /\ asked' = Append(asked, [handle |-> h, pid |-> p])
        /\ UNCHANGED pendingRole
  /\ UNCHANGED <<queueVars, worldVars, openStatus, loginVars, historyVars>>

\* A client that kept its role token asks for the role on a fresh socket.
\* (With another token it is told so and nothing changes.)
ReLoginRole(h, p) ==
  /\ Heard(h)
  /\ status[h] = "no_account"
  /\ tokenCache[p] # None
  /\ status' = [status EXCEPT ![h] = "in_login_role"]
  /\ asked' = Append(asked, [handle |-> h, pid |-> p])
  /\ UNCHANGED <<queueVars, worldVars, openStatus, pendingRole, loginVars, historyVars>>

\* QuitQueue raises an error for a player that has no number any more.
QuitLoginQueue(h) ==
  /\ Heard(h)
  /\ openStatus = 3
  /\ pendingRole[h] # None
  /\ pendingRole' = [pendingRole EXCEPT ![h] = None]
  /\ IF queuePlayers[pendingRole[h]] # 0 THEN Queue!QuitQueue(pendingRole[h])
                                         ELSE UNCHANGED queueVars
  /\ UNCHANGED <<worldVars, openStatus, status, asked, loginVars, historyVars>>

SocketClosed(h) ==
  /\ status[h] # "closed"
  /\ status' = [status EXCEPT ![h] = "closed"]
  /\ pendingRole' = [pendingRole EXCEPT ![h] = None]
  /\ toWorld' = Append(toWorld, World!ClosedMessage(h))
  /\ lost' = lost \ {h}
  /\ UNCHANGED <<queueVars, session, owner, toLogin, openStatus, asked, loginVars,
                 forwarded, crossed, failed>>

-----------------------------------------------------------------------------
(* To the world *)

\* Mutant of Send2WorldLogin: the logins are noted without being counted.
Send2WorldLoginUncounted(order) ==
  /\ loginQueue' = [p \in Pid |->
       IF \E i \in DOMAIN order : order[i].pid = p THEN "new" ELSE loginQueue[p]]
  /\ loginCnt' = loginCnt
  /\ toWorld' = toWorld \o order

\* The logins of some players are sent, in this order.
Send2WorldLogin(order) ==
  LET pids == {order[i].pid : i \in DOMAIN order}
  IN /\ loginQueue' = [p \in Pid |-> IF p \in pids THEN "new" ELSE loginQueue[p]]
     /\ loginCnt' = loginCnt + Cardinality({p \in pids : loginQueue[p] = "no"})
     /\ toWorld' = toWorld \o order

\* One that is held back takes the place of an older one of the same player.
EnterLoginQueue(p, h) ==
  LET m == World!LoginMessage(p, h, lastToken + 1)
  IN /\ lastToken < MaxLogins
     /\ lastToken' = lastToken + 1
     /\ crossed' = IF LogoutInMail(p) THEN crossed \cup {p} ELSE crossed \ {p}
     /\ \/ /\ loginCnt < LoginQueueLimit
           /\ Send2WorldLogin(<<m>>)
           /\ UNCHANGED <<waitQueue, lost>>
        \/ /\ loginCnt >= LoginQueueLimit
           /\ waitQueue' = [waitQueue EXCEPT ![p] = m]
           /\ lost' = lost \cup {g \in Handle : /\ waitQueue[p] # None
                                                /\ g = waitQueue[p].handle
                                                /\ ~Closed(g)}
           /\ UNCHANGED <<toWorld, loginQueue, loginCnt>>

\* The database has answered for the first request: the connection is gone, or
\* the role may not log in, or it takes a number, or a place.
_LoginRole1 ==
  /\ asked # <<>>
  /\ asked' = Tail(asked)
  /\ LET h == Head(asked).handle
         p == Head(asked).pid
     IN \/ /\ Closed(h)
           /\ UNCHANGED <<queueVars, worldVars, status, pendingRole, loginVars, historyVars>>
        \/ /\ ~Closed(h)
           /\ KickConnection(h)
           /\ UNCHANGED <<queueVars, worldVars, loginVars, historyVars>>
        \/ /\ ~Closed(h)
           /\ Queue!NeedQueue(p)
           /\ Queue!PendingQueue(p, h)
           /\ status' = [status EXCEPT ![h] = "login_account"]
           /\ pendingRole' = [pendingRole EXCEPT ![h] = p]
           /\ UNCHANGED <<worldVars, loginVars, historyVars>>
        \/ /\ ~Closed(h)
           /\ ~Queue!NeedQueue(p)
           /\ Queue!OnLogin(p)
           /\ EnterLoginQueue(p, h)
           /\ UNCHANGED <<session, owner, toLogin, status, pendingRole, tokenCache,
                          forwarded, failed>>
  /\ UNCHANGED openStatus

\* The database answer is more than 300 s late, and its session is dropped.
LoseAnswer ==
  /\ asked # <<>>
  /\ asked' = Tail(asked)
  /\ lost' = lost \cup {h \in {Head(asked).handle} : ~Closed(h)}
  /\ UNCHANGED <<queueVars, worldVars, openStatus, status, pendingRole, loginVars,
                 forwarded, crossed, failed>>

\* Mutant of CheckPushWaitQueue: nobody is sent while m_iLoginCnt is at the limit.
CheckPushWithinLimit ==
  /\ loginCnt < LoginQueueLimit
  /\ \E p \in {q \in Pid : waitQueue[q] # None} :
       waitQueue' = [waitQueue EXCEPT ![p] = None] /\ Send2WorldLogin(<<waitQueue[p]>>)
  /\ UNCHANGED <<queueVars, session, owner, toLogin, openStatus, connVars,
                 tokenCache, lastToken, historyVars>>

\* Every second the first WaitPushNum of those held back are sent, whatever
\* m_iLoginCnt is.
CheckPushWaitQueue ==
  LET held == {p \in Pid : waitQueue[p] # None}
  IN /\ held # {}
     /\ \E now \in SUBSET held :
          /\ Cardinality(now) = IF Cardinality(held) < WaitPushNum THEN Cardinality(held)
                                                                  ELSE WaitPushNum
          /\ waitQueue' = [p \in Pid |-> IF p \in now THEN None ELSE waitQueue[p]]
          /\ \E order \in SetToSeqs(now) :
               Send2WorldLogin([i \in DOMAIN order |-> waitQueue[order[i]]])
     /\ UNCHANGED <<queueVars, session, owner, toLogin, openStatus, connVars,
                    tokenCache, lastToken, historyVars>>

\* Every ten minutes: logins that are older than ten minutes are dropped, and
\* m_iLoginCnt still counts them.
ClearNoValidLogin ==
  /\ loginQueue' = [p \in Pid |-> IF loginQueue[p] = "new" THEN "old" ELSE "no"]
  /\ UNCHANGED <<queueVars, worldVars, openStatus, connVars, loginCnt, waitQueue,
                 tokenCache, lastToken, historyVars>>

-----------------------------------------------------------------------------
(* From the world *)

LeaveLoginQueue(p) ==
  /\ loginCnt' = IF loginQueue[p] # "no" THEN loginCnt - 1 ELSE loginCnt
  /\ loginQueue' = [loginQueue EXCEPT ![p] = "no"]

\* Mutant of LoginResult: a login that failed gives its place back.
LoginResultReturnsSlot(m) ==
  /\ m.type = "LoginResult"
  /\ IF m.errcode = "ok" THEN UNCHANGED queueVars ELSE Queue!OnLogout(m.pid)
  /\ LeaveLoginQueue(m.pid)
  /\ status' = IF Closed(m.handle) THEN status
               ELSE [status EXCEPT ![m.handle] = IF m.errcode = "ok" THEN "login_role" ELSE "login_account"]
  /\ UNCHANGED <<failed, tokenCache>>

\* Mutant of LoginResult: the status stays after a failure.
LoginResultKeepsStatus(m) ==
  /\ m.type = "LoginResult"
  /\ \/ /\ Closed(m.handle)
        /\ UNCHANGED <<status, loginQueue, loginCnt, tokenCache>>
     \/ /\ ~Closed(m.handle)
        /\ LeaveLoginQueue(m.pid)
        /\ status' = [status EXCEPT ![m.handle] = IF m.errcode = "ok" THEN "login_role" ELSE @]
        /\ UNCHANGED tokenCache
  /\ UNCHANGED <<queueVars, failed>>

\* A result for a connection that is gone changes nothing.
LoginResult(m) ==
  /\ m.type = "LoginResult"
  /\ \/ /\ Closed(m.handle)
        /\ UNCHANGED <<status, loginQueue, loginCnt, tokenCache>>
     \/ /\ ~Closed(m.handle)
        /\ LeaveLoginQueue(m.pid)
        /\ IF m.errcode = "ok"
             THEN /\ status' = [status EXCEPT ![m.handle] = "login_role"]
                  /\ tokenCache' = [tokenCache EXCEPT ![m.pid] = m.token]
             ELSE /\ status' = [status EXCEPT ![m.handle] = "login_account"]
                  /\ UNCHANGED tokenCache
  /\ UNCHANGED <<queueVars, failed>>

\* Mutant of OnLogout: the queue is not told.
OnLogoutKeepsSlot(m) ==
  /\ m.type = "OnLogout"
  /\ tokenCache' = [tokenCache EXCEPT ![m.pid] = IF @ = m.token THEN None ELSE @]
  /\ failed' = failed \ {m.pid}
  /\ UNCHANGED <<queueVars, status, loginQueue, loginCnt>>

OnLogout(m) ==
  /\ m.type = "OnLogout"
  /\ Queue!OnLogout(m.pid)
  /\ tokenCache' = [tokenCache EXCEPT ![m.pid] = IF @ = m.token THEN None ELSE @]
  /\ failed' = failed \ {m.pid}
  /\ UNCHANGED <<status, loginQueue, loginCnt>>

TakeMessage ==
  /\ toLogin # <<>>
  /\ LoginResult(Head(toLogin)) \/ OnLogout(Head(toLogin))
  /\ toLogin' = Tail(toLogin)
  /\ UNCHANGED <<session, owner, toWorld, openStatus, pendingRole, asked, waitQueue,
                 lastToken, forwarded, crossed, lost>>

-----------------------------------------------------------------------------
\* A step of the world.  A logout may cross a login of the same player, and a
\* socket loses its login when its loading session is logged out, or loses it
\* as the owner of another socket that closes.
WorldStep ==
  /\ World!WorldStep
  /\ forwarded' = forwarded \cup {h \in Handle : owner'[h] # None}
  /\ LET out == {p \in Pid : \E t \in Token : toLogin' = Append(toLogin, World!Left(p, t))}
         ended == {p \in Pid : session[p] # None /\ session'[p] = None} \ out
         letDown == {p \in Pid : \/ p \in out
                                 \/ session'[p] # None /\ session'[p].handle = None}
     IN /\ crossed' = crossed \cup {p \in out : OnItsWay(p)}
        /\ failed' = failed \cup ended
        /\ lost' = lost \cup {h \in Handle : ~Closed(h) /\ \E p \in letDown :
                                World!Loading(p) /\ session[p].handle = h}
  /\ UNCHANGED <<queueVars, openStatus, connVars, loginVars>>

OperatorStep ==
  /\ \/ /\ openStatus' \in OpenStatus
        /\ UNCHANGED queueVars
     \/ /\ \E limit \in Limits : Queue!SetOnlinePlayerLimit(limit)
        /\ UNCHANGED openStatus
  /\ UNCHANGED <<worldVars, connVars, loginVars, historyVars>>

QueueCheck ==
  /\ Queue!_CheckTimeOut
  /\ UNCHANGED <<worldVars, openStatus, connVars, loginVars, historyVars>>

Next ==
  \/ \E h \in Handle :
       \/ LoginAccount(h)
       \/ _LoginAccount3(h)
       \/ \E p \in Pid : LoginRole(h, p) \/ ReLoginRole(h, p)
       \/ QuitLoginQueue(h)
       \/ SocketClosed(h)
  \/ _LoginRole1
  \/ LoseAnswer
  \/ CheckPushWaitQueue
  \/ ClearNoValidLogin
  \/ TakeMessage
  \/ WorldStep
  \/ OperatorStep
  \/ QueueCheck

Spec == Init /\ [][Next]_vars

\* Mail is dispatched, the database answers or its session is dropped, the
\* timer of the wait queue fires, and the world ends the loading of a player
\* (EveryLoginEnds of module WorldLogin).
FairSpec ==
  /\ Spec
  /\ WF_vars(_LoginRole1 \/ LoseAnswer)
  /\ WF_vars(CheckPushWaitQueue)
  /\ WF_vars(TakeMessage)
  /\ WF_vars(WorldStep /\ (World!LoginPlayer \/ World!DelConnection))
  /\ \A p \in Pid : WF_vars(WorldStep /\ World!Loading(p) /\ ~World!Loading(p)')

-----------------------------------------------------------------------------
(***************************************************************************)
(* Properties                                                              *)
(***************************************************************************)
Statuses == {"no_account", "in_login_account", "login_account", "in_login_role",
             "login_role", "kicked", "closed"}

TypeOK ==
  /\ Queue!TypeOK
  /\ session \in [Pid -> SessionRecord \cup {None}]
  /\ owner \in [Handle -> Pid \cup {None}]
  /\ toWorld \in Seq(World!Message)
  /\ toLogin \in Seq(World!Reply)
  /\ openStatus \in 0..3
  /\ status \in [Handle -> Statuses]
  /\ pendingRole \in [Handle -> Pid \cup {None}]
  /\ asked \in Seq([handle : Handle, pid : Pid])
  /\ loginQueue \in [Pid -> {"no", "new", "old"}]
  /\ loginCnt \in Nat
  /\ waitQueue \in [Pid -> World!Message \cup {None}]
  /\ tokenCache \in [Pid -> Token \cup {None}]
  /\ lastToken \in 0..MaxLogins
  /\ forwarded \in SUBSET Handle
  /\ crossed \in SUBSET Pid
  /\ failed \in SUBSET Pid
  /\ lost \in SUBSET Handle

\* m_iLoginCnt counts at least the logins of m_mRoleLoginQueue: late results,
\* repeated logins and the ten-minute clean-up never make it too small, so more
\* than LOGIN_QUEUE_LIMIT logins are never sent directly.  (The variables keep
\* their types, too.)
LoginCntCovers == TypeOK /\ loginCnt >= Cardinality({p \in Pid : loginQueue[p] # "no"})

\* The logins of a socket that are under way: what is waited for by h.
Asked(h) == {i \in DOMAIN asked : asked[i].handle = h}
Held(h) == {p \in Pid : waitQueue[p] # None /\ waitQueue[p].handle = h}
Mailed(h) == {i \in DOMAIN toWorld : toWorld[i].type = "LoginPlayer" /\ toWorld[i].handle = h}
LoadingFrom(h) == {p \in Pid : World!Loading(p) /\ session[p].handle = h}
Results(h) == {i \in DOMAIN toLogin : toLogin[i].type = "LoginResult" /\ toLogin[i].handle = h}

LoginsOf(h) == Cardinality(Asked(h)) + Cardinality(Held(h)) + Cardinality(Mailed(h))
               + Cardinality(LoadingFrom(h)) + Cardinality(Results(h))

\* What module WorldLogin assumes of the login service: a socket has at most
\* one login under way, and none is sent from a socket the world has taken over.
OneLoginPerSocket ==
  \A h \in Handle :
    /\ LoginsOf(h) <= 1
    /\ h \in forwarded => Asked(h) \cup Held(h) \cup Mailed(h) = {}

\* A client that was left in in_login_role is owed an answer: some request,
\* message or session will answer it.  A socket is let down in four ways only
\* (lost): its database answer was dropped, a later login took its place in
\* m_mRoleWaitQueue, its loading session was logged out, or that session lost
\* the socket when another one closed.
NoStuckLogin ==
  \A h \in Handle \ lost : status[h] = "in_login_role" => LoginsOf(h) > 0

\* A player with a login on its way or a session holds a place in the login
\* queue, unless the logout of its last session crossed the login.
SlotHeld ==
  \A p \in Pid \ crossed : OnItsWay(p) \/ session[p] # None => p \in online

\* A player on the list of m_mOnlinePlayers is on its way, or has a session, or
\* its logout is in the mail, unless a session of it failed to load.
SlotReturned ==
  \A p \in online \ failed : OnItsWay(p) \/ session[p] # None \/ LogoutInMail(p)

\* Every login request is answered one way or another, or was lost.
LoginAnswered ==
  \A h \in Handle : status[h] = "in_login_role" ~> status[h] # "in_login_role" \/ h \in lost
=============================================================================
