----------------------------- MODULE WorldLogin -----------------------------
(***************************************************************************)
(* How the world service takes a player in (service/world/worldobj.lua):    *)
(* LoginPlayer creates a CPlayer and loads it from the database in a chain   *)
(* of asynchronous requests (GetPlayer, LoadPlayerMain, the modules of       *)
(* lLoginLoadInfo, then the offline blocks), while logouts, lost sockets,    *)
(* script errors and the login monitor act between any two answers.          *)
(*                                                                         *)
(* The chain belongs to the pid, not to the CPlayer: nothing cancels it when  *)
(* its player goes, and its later answers are applied to whatever player of   *)
(* that pid is loading then.                                                *)
(*                                                                         *)
(* The service is one Lua VM, so a handler is one step.  The messages from    *)
(* and to the login service, and the requests of one pid to its gamedb       *)
(* service, are queues (skynet mail is first in, first out).  The login      *)
(* service appears as the environment at the end of the module.              *)
(***************************************************************************)
EXTENDS Integers, Sequences, FiniteSets, SequencesExt

CONSTANTS
  Pid,         \* players
  Handle,      \* client sockets; an id is not used again
  None,        \* Lua nil
  Modules,     \* #lLoginLoadInfo (24)
  FailChecks,  \* 300 s in periods of the login monitor's 30 s check (10)
  PerDeal,     \* m_iPerDeal of the login monitor (10)
  MaxLogins    \* bound of the model: role tokens given out

VARIABLES
  loginPlayers,   \* m_mLoginPlayers: the players being loaded
  onlinePlayers,  \* m_mOnlinePlayers
  connections,    \* m_mConnections: handle -> owner pid
  dbQueue,        \* the unanswered database requests of each pid, in order
  block,          \* the offline blocks of each pid: "none", "loading", "loaded"
  waiting,        \* the pids whose load chain waits for the offline blocks
  monitor,        \* m_mLoginMonitor: 0 for nil, else 1 + the checks since
  failing,        \* the pids DealLoginFail still has to fail; None: no timer runs
  overlapped,     \* (history) pids whose player was created while a chain ran
  toWorld,        \* messages from the login service
  toLogin,        \* messages to the login service
  waitQueue,      \* login service: m_mRoleWaitQueue
  busy,           \* login service: sockets whose status admits no login
  gone,           \* login service: sockets that were closed
  lastToken       \* login service: the last role token given out

worldVars == <<loginPlayers, onlinePlayers, connections, dbQueue, block,
               waiting, monitor, failing, overlapped>>
envVars == <<waitQueue, busy, gone, lastToken>>
vars == <<worldVars, envVars, toWorld, toLogin>>

Token == 1..MaxLogins

\* The load requests: 0 is GetPlayer, 1 is LoadPlayerMain, then the modules;
\* BlockLoad is the request of the offline blocks.
LastModule == Modules + 1
Data == 1..LastModule
BlockLoad == Modules + 2

\* A CPlayer: its socket (m_iNetHandle), role token, and the data written to it.
Player == [handle : Handle \cup {None}, token : Token, loaded : SUBSET Data]

ASSUME WorldLoginAssumption ==
  /\ IsFiniteSet(Pid)
  /\ None \notin Pid
  /\ None \notin Handle
  /\ None \notin Player
  /\ None \notin [at : {"loading", "online"}, handle : Handle \cup {None}, token : Token]
  /\ Modules \in Nat \ {0}
  /\ FailChecks \in Nat \ {0}
  /\ PerDeal \in Nat \ {0}
  /\ MaxLogins \in Nat

IsLogining(p) == loginPlayers[p] # None
IsOnline(p) == onlinePlayers[p] # None

ChainRuns(p) == p \in waiting \/ \E i \in DOMAIN dbQueue[p] : dbQueue[p][i] # BlockLoad

-----------------------------------------------------------------------------
Init ==
  /\ loginPlayers = [p \in Pid |-> None]
  /\ onlinePlayers = [p \in Pid |-> None]
  /\ connections = [h \in Handle |-> None]
  /\ dbQueue = [p \in Pid |-> <<>>]
  /\ block = [p \in Pid |-> "none"]
  /\ waiting = {}
  /\ monitor = [p \in Pid |-> 0]
  /\ failing = None
  /\ overlapped = {}
  /\ toWorld = <<>>
  /\ toLogin = <<>>
  /\ waitQueue = [p \in Pid |-> None]
  /\ busy = {}
  /\ gone = {}
  /\ lastToken = 0

Send(m) == toLogin' = Append(toLogin, m)

Result(p, h, t, err) ==
  [type |-> "LoginResult", pid |-> p, handle |-> h, token |-> t, errcode |-> err]
LogoutNotifyGate(p, t) == Send([type |-> "OnLogout", pid |-> p, token |-> t])

Ask(p, step) == [dbQueue EXCEPT ![p] = Append(@, step)]

\* CPlayer:SetNetHandle on the player FindPlayerAnywayByPid finds, if any: the
\* two tables with the handle changed.
LoginWithHandle(p, h) ==
  IF IsLogining(p) THEN [loginPlayers EXCEPT ![p].handle = h] ELSE loginPlayers
OnlineWithHandle(p, h) ==
  IF IsOnline(p) /\ ~IsLogining(p)
    THEN [onlinePlayers EXCEPT ![p].handle = h] ELSE onlinePlayers

-----------------------------------------------------------------------------
(* Login *)

\* The player is being loaded already.
RefuseLogin(m) ==
  /\ IsLogining(m.pid)
  /\ Send(Result(m.pid, m.handle, m.token, "in_login"))
  /\ UNCHANGED worldVars

\* The player is online: the old socket is kicked, the new one taken over.
\* (Kicking takes the handle of the old connection's owner away before the
\* new connection writes its own.)
ReEnter(m) ==
  LET p == m.pid
      old == onlinePlayers[p].handle
      kicked == {h \in Handle : h = old /\ h # m.handle /\ connections[h] # None}
      owners == {connections[h] : h \in kicked}
  IN /\ ~IsLogining(p)
     /\ IsOnline(p)
     /\ connections' = [h \in Handle |-> IF h = m.handle THEN p
                                         ELSE IF h \in kicked THEN None
                                         ELSE connections[h]]
     /\ loginPlayers' = [q \in Pid |->
          IF q \in owners /\ IsLogining(q)
            THEN [loginPlayers[q] EXCEPT !.handle = None] ELSE loginPlayers[q]]
     /\ onlinePlayers' = [q \in Pid |->
          IF q = p THEN [onlinePlayers[q] EXCEPT !.handle = m.handle, !.token = m.token]
          ELSE IF q \in owners /\ IsOnline(q) /\ ~IsLogining(q)
            THEN [onlinePlayers[q] EXCEPT !.handle = None] ELSE onlinePlayers[q]]
     /\ Send(Result(p, m.handle, m.token, "ok"))
     /\ UNCHANGED <<dbQueue, block, waiting, monitor, failing, overlapped>>

\* The player is not here: a CPlayer is created and its load chain started.
FirstLogin(m) ==
  LET p == m.pid
  IN /\ ~IsLogining(p)
     /\ ~IsOnline(p)
     /\ loginPlayers' = [loginPlayers EXCEPT ![p] =
          [handle |-> m.handle, token |-> m.token, loaded |-> {}]]
     /\ connections' = [connections EXCEPT ![m.handle] = p]
     /\ dbQueue' = Ask(p, 0)
     /\ overlapped' = IF ChainRuns(p) THEN overlapped \cup {p} ELSE overlapped \ {p}
     /\ UNCHANGED <<onlinePlayers, block, waiting, monitor, failing, toLogin>>

LoginPlayer ==
  /\ toWorld # <<>>
  /\ Head(toWorld).type = "LoginPlayer"
  /\ RefuseLogin(Head(toWorld)) \/ ReEnter(Head(toWorld)) \/ FirstLogin(Head(toWorld))
  /\ toWorld' = Tail(toWorld)

\* Mutant of DelConnection: the connection goes without Disconnected().
DelConnectionSilently ==
  /\ toWorld # <<>>
  /\ Head(toWorld).type = "DelConnection"
  /\ connections' = [connections EXCEPT ![Head(toWorld).handle] = None]
  /\ toWorld' = Tail(toWorld)
  /\ UNCHANGED <<loginPlayers, onlinePlayers, dbQueue, block, waiting, monitor,
                 failing, overlapped, toLogin>>

\* Disconnected() clears the handle of the owner's player whatever it is.
DelConnection ==
  /\ toWorld # <<>>
  /\ Head(toWorld).type = "DelConnection"
  /\ LET h == Head(toWorld).handle
         p == connections[h]
     IN \/ /\ p = None
           /\ UNCHANGED worldVars
        \/ /\ p # None
           /\ connections' = [connections EXCEPT ![h] = None]
           /\ loginPlayers' = LoginWithHandle(p, None)
           /\ onlinePlayers' = OnlineWithHandle(p, None)
           /\ UNCHANGED <<dbQueue, block, waiting, monitor, failing, overlapped>>
  /\ toWorld' = Tail(toWorld)
  /\ UNCHANGED toLogin

-----------------------------------------------------------------------------
(* The load chain.  Each action handles the answer to the first request of p. *)

Answered(p, step) == dbQueue[p] # <<>> /\ Head(dbQueue[p]) = step

\* The chain asks the next request, or ends.
ThenAsk(p, step) == dbQueue' = [dbQueue EXCEPT ![p] = Append(Tail(@), step)]
ThenEnd(p) == dbQueue' = [dbQueue EXCEPT ![p] = Tail(@)]

\* The player that is loading under p, if any, with the answer written to it.
LoadInto(p, d) ==
  loginPlayers' = IF IsLogining(p) THEN [loginPlayers EXCEPT ![p].loaded = @ \cup {d}]
                  ELSE loginPlayers

\* Mutant of _LoginRole1: the player that does not exist stays in the table.
LoginRole1KeepsPlayer(p) ==
  /\ Answered(p, 0)
  /\ \/ /\ ~IsLogining(p)
        /\ ThenEnd(p)
        /\ UNCHANGED toLogin
     \/ /\ IsLogining(p)
        /\ ThenAsk(p, 1)
        /\ UNCHANGED toLogin
     \/ /\ IsLogining(p)
        /\ ThenEnd(p)
        /\ Send(Result(p, loginPlayers[p].handle, loginPlayers[p].token, "not_exist_player"))
  /\ UNCHANGED <<loginPlayers, onlinePlayers, connections, block, waiting, monitor,
                 failing, overlapped, toWorld>>

_LoginRole1(p) ==
  /\ Answered(p, 0)
  /\ \/ /\ ~IsLogining(p)
        /\ ThenEnd(p)
        /\ UNCHANGED <<loginPlayers, toLogin>>
     \/ /\ IsLogining(p)
        /\ ThenAsk(p, 1)
        /\ UNCHANGED <<loginPlayers, toLogin>>
     \/ /\ IsLogining(p)      \* the database has no such player
        /\ ThenEnd(p)
        /\ loginPlayers' = [loginPlayers EXCEPT ![p] = None]
        /\ Send(Result(p, loginPlayers[p].handle, loginPlayers[p].token, "not_exist_player"))
  /\ UNCHANGED <<onlinePlayers, connections, block, waiting, monitor, failing,
                 overlapped, toWorld>>

\* Mutant of _LoginRole2: the modules are loaded from the second on.
LoginRole2SkipsFirst(p) ==
  /\ Answered(p, 1)
  /\ \/ ~IsLogining(p) /\ ThenEnd(p)
     \/ IsLogining(p) /\ ThenAsk(p, 3)
  /\ LoadInto(p, 1)
  /\ UNCHANGED <<onlinePlayers, connections, block, waiting, monitor, failing,
                 overlapped, toWorld, toLogin>>

_LoginRole2(p) ==
  /\ Answered(p, 1)
  /\ \/ ~IsLogining(p) /\ ThenEnd(p)
     \/ IsLogining(p) /\ ThenAsk(p, 2)
  /\ LoadInto(p, 1)
  /\ UNCHANGED <<onlinePlayers, connections, block, waiting, monitor, failing,
                 overlapped, toWorld, toLogin>>

\* An answer that is lost: it came 300 s late and the session was dropped, or
\* the Load it was given to raised an error.  The chain stops where it is, and
\* offline blocks that were asked for go on loading for ever.
LoseAnswer(p) ==
  /\ dbQueue[p] # <<>>
  /\ ThenEnd(p)
  /\ UNCHANGED <<loginPlayers, onlinePlayers, connections, block, waiting, monitor,
                 failing, overlapped, toWorld, toLogin>>

\* The chain goes on even when it finds no player to load into.
_LoginLoadModule(p) ==
  /\ \E d \in 2..Modules : Answered(p, d) /\ LoadInto(p, d) /\ ThenAsk(p, d + 1)
  /\ UNCHANGED <<onlinePlayers, connections, block, waiting, monitor, failing,
                 overlapped, toWorld, toLogin>>

\* LoadEnd with the player as found in loading: it goes online.
LoadEnd(p, player) ==
  \/ /\ player = None
     /\ loginPlayers' = loginPlayers
     /\ UNCHANGED <<onlinePlayers, toLogin>>
  \/ /\ player # None
     /\ loginPlayers' = [loginPlayers EXCEPT ![p] = None]
     /\ onlinePlayers' = [onlinePlayers EXCEPT ![p] = player]
     /\ Send(Result(p, player.handle, player.token, "ok"))

\* The answer of the last module is written, and the chain turns to the
\* offline blocks: they are loaded already, or it waits for them.
_LoginLoadOfflines(p) ==
  /\ Answered(p, LastModule)
  /\ \/ /\ block[p] = "loaded"
        /\ ThenEnd(p)
        /\ LoadEnd(p, IF IsLogining(p)
                      THEN [loginPlayers[p] EXCEPT !.loaded = @ \cup {LastModule}] ELSE None)
        /\ UNCHANGED <<block, waiting>>
     \/ /\ block[p] # "loaded"
        /\ waiting' = waiting \cup {p}
        /\ LoadInto(p, LastModule)
        /\ block' = [block EXCEPT ![p] = "loading"]
        /\ IF block[p] = "none" THEN ThenAsk(p, BlockLoad) ELSE ThenEnd(p)
        /\ UNCHANGED <<onlinePlayers, toLogin>>
  /\ UNCHANGED <<connections, monitor, failing, overlapped, toWorld>>

\* The offline blocks come, or the database has none: the chains that wait
\* run on in both cases.
BlockAnswer(p, success) ==
  /\ Answered(p, BlockLoad)
  /\ block[p] = "loading"
  /\ ThenEnd(p)
  /\ block' = [block EXCEPT ![p] = IF success THEN "loaded" ELSE "none"]
  /\ LoadEnd(p, IF p \in waiting THEN loginPlayers[p] ELSE None)
  /\ waiting' = waiting \ {p}
  /\ UNCHANGED <<connections, monitor, failing, overlapped, toWorld>>

\* Any system may load the offline blocks of any player (a friend looks at a
\* profile, a mail is sent).
LoadOfflineBlock(p) ==
  /\ block[p] = "none"
  /\ block' = [block EXCEPT ![p] = "loading"]
  /\ dbQueue' = Ask(p, BlockLoad)
  /\ UNCHANGED <<loginPlayers, onlinePlayers, connections, waiting, monitor, failing,
                 overlapped, toWorld, toLogin>>

\* Mutant of CleanOfflineBlock: blocks still loading are dropped too.
CleanLoadingBlock(p) ==
  /\ block[p] # "none"
  /\ ~IsOnline(p)
  /\ block' = [block EXCEPT ![p] = "none"]
  /\ UNCHANGED <<loginPlayers, onlinePlayers, connections, dbQueue, waiting, monitor,
                 failing, overlapped, toWorld, toLogin>>

\* Blocks nobody used for five minutes are dropped, those of online players not.
CleanOfflineBlock(p) ==
  /\ block[p] = "loaded"
  /\ ~IsOnline(p)
  /\ block' = [block EXCEPT ![p] = "none"]
  /\ UNCHANGED <<loginPlayers, onlinePlayers, connections, dbQueue, waiting, monitor,
                 failing, overlapped, toWorld, toLogin>>

-----------------------------------------------------------------------------
(* Leaving *)

\* Mutant of Logout: nobody is told that a loading player left.
LogoutQuietly(p) ==
  /\ \/ /\ IsLogining(p)
        /\ loginPlayers' = [loginPlayers EXCEPT ![p] = None]
        /\ UNCHANGED <<onlinePlayers, connections, toLogin>>
     \/ /\ IsOnline(p)
        /\ onlinePlayers' = [onlinePlayers EXCEPT ![p] = None]
        /\ connections' = [h \in Handle |->
             IF h = onlinePlayers[p].handle THEN None ELSE connections[h]]
        /\ LogoutNotifyGate(p, onlinePlayers[p].token)
        /\ UNCHANGED loginPlayers
  /\ UNCHANGED <<dbQueue, block, waiting, monitor, failing, overlapped, toWorld>>

\* Logout of a player: one that is loading leaves its connection behind, an
\* online one has its connection kicked (KickConnection, DelConnection).
Logout(p) ==
  /\ \/ /\ IsLogining(p)
        /\ loginPlayers' = [loginPlayers EXCEPT ![p] = None]
        /\ LogoutNotifyGate(p, loginPlayers[p].token)
        /\ UNCHANGED <<onlinePlayers, connections>>
     \/ /\ ~IsLogining(p)
        /\ IsOnline(p)
        /\ LET kicked == {h \in Handle : h = onlinePlayers[p].handle /\ connections[h] # None}
               owners == {connections[h] : h \in kicked}
           IN /\ connections' = [h \in Handle |-> IF h \in kicked THEN None ELSE connections[h]]
              /\ loginPlayers' = [q \in Pid |->
                   IF q \in owners /\ IsLogining(q)
                     THEN [loginPlayers[q] EXCEPT !.handle = None] ELSE loginPlayers[q]]
              /\ onlinePlayers' = [q \in Pid |->
                   IF q = p THEN None
                   ELSE IF q \in owners /\ IsOnline(q) /\ ~IsLogining(q)
                     THEN [onlinePlayers[q] EXCEPT !.handle = None] ELSE onlinePlayers[q]]
        /\ LogoutNotifyGate(p, onlinePlayers[p].token)
  /\ UNCHANGED <<dbQueue, block, waiting, monitor, failing, overlapped, toWorld>>

-----------------------------------------------------------------------------
(* The login monitor *)

\* Mutant of DealLoginFail: the players are told and stay in the table.
DealLoginFailKeeps(pids) ==
  IF pids = {} THEN failing' = None /\ UNCHANGED <<loginPlayers, toLogin>>
  ELSE \E now \in SUBSET pids :
         /\ Cardinality(now) = IF Cardinality(pids) < PerDeal THEN Cardinality(pids) ELSE PerDeal
         /\ failing' = pids \ now
         /\ loginPlayers' = loginPlayers
         /\ \E order \in SetToSeqs({p \in now : IsLogining(p)}) :
              toLogin' = toLogin \o [i \in DOMAIN order |->
                Result(order[i], loginPlayers[order[i]].handle,
                       loginPlayers[order[i]].token, "script_error")]

\* DealLoginFail fails the first PerDeal pids of its list and leaves the rest
\* to a timer; OnLoginFail fails whatever player is loading under a pid.
DealLoginFail(pids) ==
  IF pids = {} THEN failing' = None /\ UNCHANGED <<loginPlayers, toLogin>>
  ELSE \E now \in SUBSET pids :
         /\ Cardinality(now) = IF Cardinality(pids) < PerDeal THEN Cardinality(pids) ELSE PerDeal
         /\ failing' = pids \ now
         /\ loginPlayers' = [p \in Pid |-> IF p \in now THEN None ELSE loginPlayers[p]]
         /\ \E order \in SetToSeqs({p \in now : IsLogining(p)}) :
              toLogin' = toLogin \o [i \in DOMAIN order |->
                Result(order[i], loginPlayers[order[i]].handle,
                       loginPlayers[order[i]].token, "script_error")]

\* The check every 30 s: pids that finished are forgotten, those first seen
\* loading 300 s ago are failed, those not seen before are noted.  A pid whose
\* player was replaced between two checks keeps its old time.
CheckLoginValid ==
  /\ failing = None
  /\ LET done == {p \in Pid : IsOnline(p) \/ ~IsLogining(p)}
         late == {p \in Pid \ done : monitor[p] >= FailChecks}
     IN /\ monitor' = [p \in Pid |->
             IF p \in done \cup late THEN 0
             ELSE IF monitor[p] < FailChecks THEN monitor[p] + 1 ELSE monitor[p]]
        /\ DealLoginFail(late)
  /\ UNCHANGED <<onlinePlayers, connections, dbQueue, block, waiting, overlapped, toWorld>>

\* The 100 ms timer of DealLoginFail.
DealMore ==
  /\ failing # None
  /\ DealLoginFail(failing)
  /\ UNCHANGED <<onlinePlayers, connections, dbQueue, block, waiting, monitor,
                 overlapped, toWorld>>

-----------------------------------------------------------------------------
(* The login service as the world meets it.  It gives a token to a login and  *)
(* sends it at once, or keeps it in m_mRoleWaitQueue, where a later login of   *)
(* the same player takes its place and where it stays when its socket closes.  *)

LoginMessage(p, h, t) == [type |-> "LoginPlayer", pid |-> p, handle |-> h, token |-> t]

EnterLoginQueue(p, h) ==
  /\ h \notin busy \cup gone
  /\ lastToken < MaxLogins
  /\ busy' = busy \cup {h}
  /\ lastToken' = lastToken + 1
  /\ \/ /\ toWorld' = Append(toWorld, LoginMessage(p, h, lastToken + 1))
        /\ UNCHANGED waitQueue
     \/ /\ waitQueue' = [waitQueue EXCEPT ![p] = LoginMessage(p, h, lastToken + 1)]
        /\ UNCHANGED toWorld
  /\ UNCHANGED <<worldVars, gone, toLogin>>

CheckPushWaitQueue(p) ==
  /\ waitQueue[p] # None
  /\ waitQueue' = [waitQueue EXCEPT ![p] = None]
  /\ toWorld' = Append(toWorld, waitQueue[p])
  /\ UNCHANGED <<worldVars, busy, gone, lastToken, toLogin>>

\* What the world sends is taken at once (see Next).  After a refused login the
\* socket may log in again; in the other cases its messages go to the world now.
TakeMessages ==
  /\ toLogin # <<>>
  /\ toLogin' = <<>>
  /\ busy' = busy \ {r.handle : r \in {m \in Range(toLogin) :
                                         m.type = "LoginResult" /\ m.errcode = "in_login"}}
  /\ UNCHANGED <<worldVars, waitQueue, gone, lastToken, toWorld>>

SocketClosed(h) ==
  /\ h \notin gone
  /\ gone' = gone \cup {h}
  /\ toWorld' = Append(toWorld, [type |-> "DelConnection", handle |-> h])
  /\ UNCHANGED <<worldVars, waitQueue, busy, lastToken, toLogin>>

-----------------------------------------------------------------------------
Chain(p) ==
  \/ _LoginRole1(p)
  \/ _LoginRole2(p)
  \/ LoseAnswer(p)
  \/ _LoginLoadModule(p)
  \/ _LoginLoadOfflines(p)
  \/ \E success \in BOOLEAN : BlockAnswer(p, success)

WorldStep ==
  \/ LoginPlayer
  \/ DelConnection
  \/ \E p \in Pid : \/ Chain(p)
                    \/ LoadOfflineBlock(p)
                    \/ CleanOfflineBlock(p)
                    \/ Logout(p)
  \/ CheckLoginValid
  \/ DealMore

EnvStep ==
  \/ \E p \in Pid, h \in Handle : EnterLoginQueue(p, h)
  \/ \E p \in Pid : CheckPushWaitQueue(p)
  \/ \E h \in Handle : SocketClosed(h)

\* How long the login service leaves a reply unread cannot be seen from here,
\* for it may also wait before it sends the next login: so it reads at once.
Next ==
  \/ toLogin = <<>> /\ WorldStep /\ UNCHANGED envVars
  \/ toLogin = <<>> /\ EnvStep
  \/ TakeMessages

Spec == Init /\ [][Next]_vars

\* The mail of a service is dispatched, a database request is answered or its
\* session times out, and the monitor's timers fire.
FairSpec ==
  /\ Spec
  /\ WF_vars(TakeMessages)
  /\ WF_vars(toLogin = <<>> /\ (LoginPlayer \/ DelConnection) /\ UNCHANGED envVars)
  /\ \A p \in Pid : WF_vars(toLogin = <<>> /\ Chain(p) /\ UNCHANGED envVars)
  /\ WF_vars(toLogin = <<>> /\ CheckLoginValid /\ UNCHANGED envVars)
  /\ WF_vars(toLogin = <<>> /\ DealMore /\ UNCHANGED envVars)

-----------------------------------------------------------------------------
(***************************************************************************)
(* Properties                                                              *)
(***************************************************************************)
Message == [type : {"LoginPlayer"}, pid : Pid, handle : Handle, token : Token]
           \cup [type : {"DelConnection"}, handle : Handle]
Reply == [type : {"LoginResult"}, pid : Pid, handle : Handle \cup {None}, token : Token,
          errcode : {"ok", "in_login", "not_exist_player", "script_error"}]
         \cup [type : {"OnLogout"}, pid : Pid, token : Token]

TypeOK ==
  /\ loginPlayers \in [Pid -> Player \cup {None}]
  /\ onlinePlayers \in [Pid -> Player \cup {None}]
  /\ connections \in [Handle -> Pid \cup {None}]
  /\ dbQueue \in [Pid -> Seq(0..BlockLoad)]
  /\ block \in [Pid -> {"none", "loading", "loaded"}]
  /\ waiting \in SUBSET Pid
  /\ monitor \in [Pid -> 0..FailChecks]
  /\ failing \in (SUBSET Pid) \cup {None}
  /\ overlapped \in SUBSET Pid
  /\ toWorld \in Seq(Message)
  /\ toLogin \in Seq(Reply)
  /\ waitQueue \in [Pid -> Message \cup {None}]
  /\ busy \in SUBSET Handle
  /\ gone \in SUBSET Handle
  /\ lastToken \in 0..MaxLogins

\* A player is being loaded or online, never both.
OneObject == \A p \in Pid : ~(IsLogining(p) /\ IsOnline(p))

PlayerOf(p) == IF IsLogining(p) THEN loginPlayers[p] ELSE onlinePlayers[p]

SocketOwned ==
  \A p \in Pid : PlayerOf(p) # None /\ PlayerOf(p).handle # None =>
    connections[PlayerOf(p).handle] = p

\* No order of logins, logouts and late answers gives a pid two CPlayers, and
\* the socket a player writes to is one its own connection object owns: what
\* is sent to a player never goes to another one's client, and closing the
\* socket always finds the player.  (The variables keep their types, too.)
OwnSocket == TypeOK /\ OneObject /\ SocketOwned

\* The assertion in LoadOfflineBlock's callback never fails: an answer of the
\* database finds the blocks it was asked for, still loading, and two requests
\* for them are never under way at once.
BlockAskedOnce ==
  \A p \in Pid :
    Cardinality({i \in DOMAIN dbQueue[p] : dbQueue[p][i] = BlockLoad})
      <= IF block[p] = "loading" THEN 1 ELSE 0

\* A player that goes online has all its data, unless its CPlayer was created
\* while a load chain of an earlier one was still running.
DataWritten == \A p \in Pid \ overlapped : IsOnline(p) => onlinePlayers[p].loaded = Data

\* The role tokens the world still owes an answer.
Owed ==
  {toWorld[i].token : i \in {j \in DOMAIN toWorld : toWorld[j].type = "LoginPlayer"}}
  \cup {loginPlayers[p].token : p \in {q \in Pid : IsLogining(q)}}

NewReplies == {toLogin'[i] : i \in (DOMAIN toLogin') \ (DOMAIN toLogin)}

\* Every login is answered at most once: an answer is sent for a token that is
\* owed one, and the step that sends it pays the debt.
AnsweredOnce ==
  [][\A r \in NewReplies : r.type = "LoginResult" => r.token \in Owed \ Owed']_vars

\* The world as the login service sees it.
Session == [p \in Pid |->
  IF IsLogining(p)
    THEN [at |-> "loading", handle |-> loginPlayers[p].handle, token |-> loginPlayers[p].token]
  ELSE IF IsOnline(p)
    THEN [at |-> "online", handle |-> onlinePlayers[p].handle, token |-> onlinePlayers[p].token]
  ELSE None]

World == INSTANCE WorldSessions WITH session <- Session, owner <- connections

\* What the world promises the login service (WorldSessions): one session for
\* a player, each change of it told once and in order.
OneSession == World!Spec

\* Every login the world has received ends: the player goes online, or the
\* login service is told of the failure, or the player is logged out; a broken
\* chain does not leave a player loading for ever.
EveryLoginEnds == \A t \in Token : t \in Owed ~> t \notin Owed

\* The comment in LoadEnd: "all DB data has been written by now".
AllDataWritten == \A p \in Pid : IsOnline(p) => onlinePlayers[p].loaded = Data

-----------------------------------------------------------------------------
(* Why they hold: a socket, and a token, is in one place at a time, however  *)
(* long a login waits; and the chain of a pid loads in order.               *)

LoginIn(m) == m.type = "LoginPlayer"

\* The sockets and the tokens of two logins on their way are different, and the
\* socket counts as busy until a refusal has reached the login service.
OnTheWay ==
  /\ \A i, j \in DOMAIN toWorld :
       LoginIn(toWorld[i]) /\ LoginIn(toWorld[j]) /\ i # j =>
         toWorld[i].handle # toWorld[j].handle /\ toWorld[i].token # toWorld[j].token
  /\ \A i \in DOMAIN toWorld : LoginIn(toWorld[i]) =>
       toWorld[i].handle \in busy /\ toWorld[i].token <= lastToken
  /\ \A p \in Pid : waitQueue[p] # None =>
       /\ LoginIn(waitQueue[p])
       /\ waitQueue[p].handle \in busy /\ waitQueue[p].token <= lastToken
       /\ \A i \in DOMAIN toWorld : LoginIn(toWorld[i]) =>
            toWorld[i].handle # waitQueue[p].handle /\ toWorld[i].token # waitQueue[p].token
       /\ \A q \in Pid \ {p} : waitQueue[q] # None =>
            waitQueue[q].handle # waitQueue[p].handle /\ waitQueue[q].token # waitQueue[p].token

\* A login on its way has neither the socket of a player nor the token of one
\* that is loading; two loading players have two tokens.
Arrived ==
  \A p \in Pid :
    /\ PlayerOf(p) # None /\ PlayerOf(p).handle # None =>
         /\ PlayerOf(p).handle \in busy
         /\ \A i \in DOMAIN toWorld : LoginIn(toWorld[i]) => toWorld[i].handle # PlayerOf(p).handle
         /\ \A q \in Pid : waitQueue[q] # None => waitQueue[q].handle # PlayerOf(p).handle
    /\ IsLogining(p) =>
         /\ loginPlayers[p].token <= lastToken
         /\ \A i \in DOMAIN toWorld : LoginIn(toWorld[i]) => toWorld[i].token # loginPlayers[p].token
         /\ \A q \in Pid : waitQueue[q] # None => waitQueue[q].token # loginPlayers[p].token
         /\ \A q \in Pid \ {p} : IsLogining(q) => loginPlayers[q].token # loginPlayers[p].token

\* The socket of a refused login is nobody's.
Refused ==
  \A k \in DOMAIN toLogin : toLogin[k].type = "LoginResult" /\ toLogin[k].errcode = "in_login" =>
    /\ \A i \in DOMAIN toWorld : LoginIn(toWorld[i]) => toWorld[i].handle # toLogin[k].handle
    /\ \A p \in Pid : waitQueue[p] # None => waitQueue[p].handle # toLogin[k].handle
    /\ \A p \in Pid : PlayerOf(p) # None => PlayerOf(p).handle # toLogin[k].handle

\* The request for the offline blocks is one, and under way only while they load.
OneBlockLoad ==
  \A p \in Pid : \A i \in DOMAIN dbQueue[p] : dbQueue[p][i] = BlockLoad =>
    block[p] = "loading" /\ \A j \in DOMAIN dbQueue[p] : dbQueue[p][j] = BlockLoad => i = j

\* What a player's own chain has passed is written to it.
InOrder ==
  \A p \in Pid \ overlapped :
    /\ IsLogining(p) =>
         /\ \A i \in DOMAIN dbQueue[p] : dbQueue[p][i] # BlockLoad =>
              \A d \in Data : d < dbQueue[p][i] => d \in loginPlayers[p].loaded
         /\ p \in waiting => loginPlayers[p].loaded = Data
    /\ IsOnline(p) => onlinePlayers[p].loaded = Data

IInv == TypeOK /\ OneObject /\ SocketOwned /\ OnTheWay /\ Arrived /\ Refused /\ OneBlockLoad /\ InOrder
=============================================================================
