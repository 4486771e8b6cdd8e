----------------------------- MODULE RoleCreate -----------------------------
(***************************************************************************)
(* The creation of a role (service/login/CConnection.lua, CreateRole).  The   *)
(* login service counts the roles of the account, enters the name in the      *)
(* table namecounter of its game server, gets an id from the central server   *)
(* (service/datacenter, service/idsupply), and writes the role.  Every step   *)
(* is an answer to a request: meanwhile the client may close its socket or    *)
(* ask again from another one, an answer may be lost or come after its        *)
(* session was dropped, and either server may restart.                        *)
(*                                                                         *)
(* The sockets are those of one account that creates roles on one server.     *)
(***************************************************************************)
EXTENDS Integers, Sequences, FiniteSets, SequencesExt

CONSTANTS
  Handle,       \* sockets of the account; an id is not used again
  Name,         \* role names
  None,         \* Lua nil
  MaxRoles,     \* roles an account may have on a server (3)
  MaxPid,       \* bound of the model: ids handed out
  MaxRequests,  \* bound of the model: C2GSCreateRole messages
  MaxRestarts   \* bound of the model: restarts, of both servers together

ASSUME RoleCreateAssumption ==
  /\ None \notin Handle \cup Name \cup Nat
  /\ MaxRoles \in Nat /\ MaxPid \in Nat /\ MaxRequests \in Nat /\ MaxRestarts \in Nat

VARIABLES
  \* the login service
  status,         \* of each socket; "new": not logged in yet, "closed": unknown to the gate
  dbQueue,        \* requests to the gamedb service of the block "login"
  dbMail,         \* its answers
  \* databases of the game server
  namecounter,    \* names taken (unique index)
  player,         \* id -> name of the role (unique index on the id)
  offline,        \* ids with a row for their offline blocks
  \* the central server and the way to it
  tries,          \* TryCreateRole: on its way, at the data center, or answered
  reverts,        \* ids of the RevertRole messages on their way
  roleinfo,       \* rows [pid, name] of the index of all roles
  nowPlayerId, savedPlayerId, idsLoaded,  \* CPlayerIdMgr, and its saved counter
  \* bounds and history
  requests, restarts,
  lostNames,      \* names whose creation was forgotten without a rollback
  lostRoles,      \* ids whose creation or rollback was forgotten half way
  stuck,          \* sockets that wait for an answer that was lost
  twice           \* ids supplied more than once

loginVars == <<status, dbQueue, dbMail>>
gameDb == <<namecounter, player, offline>>
ids == <<nowPlayerId, savedPlayerId, idsLoaded>>
history == <<lostNames, lostRoles, stuck, twice>>
bounds == <<requests, restarts>>
vars == <<loginVars, gameDb, tries, reverts, roleinfo, ids, bounds, history>>

Pid == 1..MaxPid

Init ==
  /\ status = [h \in Handle |-> "new"]
  /\ dbQueue = <<>> /\ dbMail = <<>>
  /\ namecounter = {} /\ player = [p \in Pid |-> None] /\ offline = {}
  /\ tries = {} /\ reverts = {} /\ roleinfo = {}
  /\ nowPlayerId = 0 /\ savedPlayerId = 0 /\ idsLoaded = TRUE
  /\ requests = 0 /\ restarts = 0
  /\ lostNames = {} /\ lostRoles = {} /\ stuck = {} /\ twice = {}

\* GetConnection finds the connection.
Open(h) == h \in {g \in Handle : status[g] \in {"login_account", "in_create_role"}}

Roles == {p \in Pid : player[p] # None}

\* Requests and answers of the block "login".
Req(op, h, n, p) == [op |-> op, handle |-> h, name |-> n, pid |-> p]
DeleteName(n) == Req("DeleteName", None, n, None)
HeadIs(op) == dbQueue # <<>> /\ Head(dbQueue).op = op
MailIs(op) == dbMail # <<>> /\ Head(dbMail).op = op
Answer(op, result) == Append(dbMail,
  [op |-> op, handle |-> Head(dbQueue).handle, name |-> Head(dbQueue).name, result |-> result])
Queued(op) == {dbQueue[i] : i \in {j \in DOMAIN dbQueue : dbQueue[j].op = op}}

-----------------------------------------------------------------------------
(* The client *)

Login(h) ==
  /\ status[h] = "new"
  /\ status' = [status EXCEPT ![h] = "login_account"]
  /\ UNCHANGED <<dbQueue, dbMail, gameDb, tries, reverts, roleinfo, ids, bounds, history>>

\* CreateRole does not look at the status: the roles are counted first.
CreateRole(h, n) ==
  /\ Open(h)
  /\ requests < MaxRequests
  /\ requests' = requests + 1
  /\ dbQueue' = Append(dbQueue, Req("GetPlayerListByAccount", h, n, None))
  /\ UNCHANGED <<status, dbMail, gameDb, tries, reverts, roleinfo, ids, restarts, history>>

Close(h) ==
  /\ Open(h)
  /\ status' = [status EXCEPT ![h] = "closed"]
  /\ UNCHANGED <<dbQueue, dbMail, gameDb, tries, reverts, roleinfo, ids, bounds, history>>

-----------------------------------------------------------------------------
(* gamedb: the requests of a block are handled in order *)

GetPlayerListByAccount ==
  /\ HeadIs("GetPlayerListByAccount")
  /\ dbMail' = Answer("GetPlayerListByAccount", Cardinality(Roles))
  /\ dbQueue' = Tail(dbQueue)
  /\ UNCHANGED <<status, gameDb, tries, reverts, roleinfo, ids, bounds, history>>

InsertNewNameCounter ==
  /\ HeadIs("InsertNewNameCounter")
  /\ dbMail' = Answer("InsertNewNameCounter", Head(dbQueue).name \notin namecounter)
  /\ namecounter' = namecounter \cup {Head(dbQueue).name}
  /\ dbQueue' = Tail(dbQueue)
  /\ UNCHANGED <<status, player, offline, tries, reverts, roleinfo, ids, bounds, history>>

DbDeleteName ==
  /\ HeadIs("DeleteName")
  /\ namecounter' = namecounter \ {Head(dbQueue).name}
  /\ dbQueue' = Tail(dbQueue)
  /\ UNCHANGED <<status, dbMail, player, offline, tries, reverts, roleinfo, ids, bounds, history>>

\* A second row of an id is refused by the index, and nobody looks at that.
CreatePlayer ==
  /\ HeadIs("CreatePlayer")
  /\ LET r == Head(dbQueue) IN
     IF player[r.pid] = None
     THEN player' = [player EXCEPT ![r.pid] = r.name] /\ UNCHANGED history
     ELSE /\ lostNames' = lostNames \cup {r.name}
          /\ lostRoles' = lostRoles \cup {r.pid}
          /\ UNCHANGED <<player, stuck, twice>>
  /\ dbQueue' = Tail(dbQueue)
  /\ UNCHANGED <<status, dbMail, namecounter, offline, tries, reverts, roleinfo, ids, bounds>>

CreateOffline ==
  /\ HeadIs("CreateOffline")
  /\ offline' = offline \cup {Head(dbQueue).pid}
  /\ dbQueue' = Tail(dbQueue)
  /\ UNCHANGED <<status, dbMail, namecounter, player, tries, reverts, roleinfo, ids, bounds, history>>

-----------------------------------------------------------------------------
(* The login service takes the answers *)

\* Mutant of _CreateRole3: the status of the socket is not looked at.
CreateRole3AnyStatus ==
  /\ MailIs("GetPlayerListByAccount")
  /\ dbMail' = Tail(dbMail)
  /\ LET a == Head(dbMail) IN
     IF Open(a.handle) /\ a.result < MaxRoles
     THEN /\ status' = [status EXCEPT ![a.handle] = "in_create_role"]
          /\ dbQueue' = Append(dbQueue, Req("InsertNewNameCounter", a.handle, a.name, None))
     ELSE UNCHANGED <<status, dbQueue>>
  /\ UNCHANGED <<gameDb, tries, reverts, roleinfo, ids, bounds, history>>

\* A socket that has another creation under way, or asks for a role that does
\* not exist, is kicked.
_CreateRole3 ==
  /\ MailIs("GetPlayerListByAccount")
  /\ dbMail' = Tail(dbMail)
  /\ LET a == Head(dbMail) IN
     \/ /\ ~Open(a.handle) \/ a.result >= MaxRoles
        /\ UNCHANGED <<status, dbQueue>>
     \/ /\ Open(a.handle) /\ a.result < MaxRoles
        /\ status' = [status EXCEPT ![a.handle] = "closed"]
        /\ UNCHANGED dbQueue
     \/ /\ Open(a.handle) /\ a.result < MaxRoles
        /\ status[a.handle] = "login_account"
        /\ status' = [status EXCEPT ![a.handle] = "in_create_role"]
        /\ dbQueue' = Append(dbQueue, Req("InsertNewNameCounter", a.handle, a.name, None))
  /\ UNCHANGED <<gameDb, tries, reverts, roleinfo, ids, bounds, history>>

_TrueCreateRole1 ==
  /\ MailIs("InsertNewNameCounter")
  /\ dbMail' = Tail(dbMail)
  /\ LET a == Head(dbMail) IN
     \/ /\ Open(a.handle) /\ a.result
        /\ tries' = tries \cup {[stage |-> "asked", handle |-> a.handle, name |-> a.name, pid |-> None]}
        /\ UNCHANGED <<status, dbQueue>>
     \/ /\ Open(a.handle) /\ ~a.result
        /\ status' = [status EXCEPT ![a.handle] = "login_account"]
        /\ UNCHANGED <<tries, dbQueue>>
     \/ /\ ~Open(a.handle)
        /\ dbQueue' = IF a.result THEN Append(dbQueue, DeleteName(a.name)) ELSE dbQueue
        /\ UNCHANGED <<status, tries>>
  /\ UNCHANGED <<gameDb, reverts, roleinfo, ids, bounds, history>>

\* The session of the first answer was dropped after 300 s: nobody takes it.
LoseAnswer ==
  /\ dbMail # <<>>
  /\ dbMail' = Tail(dbMail)
  /\ LET a == Head(dbMail) IN
     IF a.op = "InsertNewNameCounter"
     THEN /\ lostNames' = IF a.result THEN lostNames \cup {a.name} ELSE lostNames
          /\ stuck' = stuck \cup {a.handle}
     ELSE UNCHANGED <<lostNames, stuck>>
  /\ UNCHANGED <<status, dbQueue, gameDb, tries, reverts, roleinfo, ids, bounds, lostRoles, twice>>

-----------------------------------------------------------------------------
(* The central server *)

\* GenPlayerId supplies an id whether or not the counter has been loaded.
GenPlayerId(t) ==
  /\ t.stage = "asked"
  /\ nowPlayerId < MaxPid
  /\ nowPlayerId' = nowPlayerId + 1
  /\ twice' = IF \/ \E r \in roleinfo : r.pid = nowPlayerId'
                 \/ \E u \in tries : u.pid = nowPlayerId'
              THEN twice \cup {nowPlayerId'} ELSE twice
  /\ tries' = (tries \ {t}) \cup {[t EXCEPT !.stage = "supplied", !.pid = nowPlayerId']}
  /\ UNCHANGED <<loginVars, gameDb, reverts, roleinfo, savedPlayerId, idsLoaded, bounds, lostNames, lostRoles, stuck>>

\* The row is written, or the database refuses it and no id is answered.
_TryCreateRole2(t) ==
  /\ t.stage = "supplied"
  /\ \/ /\ roleinfo' = roleinfo \cup {[pid |-> t.pid, name |-> t.name]}
        /\ tries' = (tries \ {t}) \cup {[t EXCEPT !.stage = "answered"]}
     \/ /\ tries' = (tries \ {t}) \cup {[t EXCEPT !.stage = "answered", !.pid = None]}
        /\ UNCHANGED roleinfo
  /\ UNCHANGED <<loginVars, gameDb, reverts, ids, bounds, history>>

RevertRole(p) ==
  /\ p \in reverts
  /\ reverts' = reverts \ {p}
  /\ roleinfo' = {r \in roleinfo : r.pid # p}
  /\ UNCHANGED <<loginVars, gameDb, tries, ids, bounds, history>>

\* The counter is saved after every id, once it has been loaded.
SavePlayerIdCounter ==
  /\ idsLoaded /\ savedPlayerId < nowPlayerId
  /\ savedPlayerId' = savedPlayerId + 1
  /\ UNCHANGED <<loginVars, gameDb, tries, reverts, roleinfo, nowPlayerId, idsLoaded, bounds, history>>

LoadPlayerIdCounter ==
  /\ ~idsLoaded
  /\ idsLoaded' = TRUE
  /\ nowPlayerId' = savedPlayerId
  /\ UNCHANGED <<loginVars, gameDb, tries, reverts, roleinfo, savedPlayerId, bounds, history>>

-----------------------------------------------------------------------------
(* The answer of the central server *)

Answered(t) == t.stage = "answered" /\ t.handle # None

\* Mutant of _TrueCreateRole2: the name stays taken when no id was supplied.
TrueCreateRole2KeepsName(t) ==
  /\ Answered(t) /\ t.pid = None /\ Open(t.handle)
  /\ tries' = tries \ {t}
  /\ status' = [status EXCEPT ![t.handle] = "login_account"]
  /\ UNCHANGED <<dbQueue, dbMail, gameDb, reverts, roleinfo, ids, bounds, history>>

\* Mutant of _TrueCreateRole2: a role whose socket is gone is not reverted.
TrueCreateRole2KeepsRow(t) ==
  /\ Answered(t) /\ ~Open(t.handle)
  /\ tries' = tries \ {t}
  /\ dbQueue' = Append(dbQueue, DeleteName(t.name))
  /\ UNCHANGED <<status, dbMail, gameDb, reverts, roleinfo, ids, bounds, history>>

\* When the socket is gone and there is no id, nobody gives the name back.
_TrueCreateRole2(t) ==
  /\ Answered(t)
  /\ tries' = tries \ {t}
  /\ \/ /\ Open(t.handle) /\ t.pid # None
        /\ status' = [status EXCEPT ![t.handle] = "login_account"]
        /\ dbQueue' = dbQueue \o <<Req("CreatePlayer", None, t.name, t.pid), Req("CreateOffline", None, None, t.pid)>>
        /\ UNCHANGED <<reverts, history>>
     \/ /\ Open(t.handle) /\ t.pid = None
        /\ status' = [status EXCEPT ![t.handle] = "login_account"]
        /\ dbQueue' = Append(dbQueue, DeleteName(t.name))
        /\ UNCHANGED <<reverts, history>>
     \/ /\ ~Open(t.handle) /\ t.pid # None
        /\ dbQueue' = Append(dbQueue, DeleteName(t.name))
        /\ reverts' = reverts \cup {t.pid}
        /\ UNCHANGED <<status, history>>
     \/ /\ ~Open(t.handle) /\ t.pid = None
        /\ lostNames' = lostNames \cup {t.name}
        /\ UNCHANGED <<status, dbQueue, reverts, lostRoles, stuck, twice>>
  /\ UNCHANGED <<dbMail, gameDb, roleinfo, ids, bounds>>

-----------------------------------------------------------------------------
(* Faults *)

\* What is forgotten when no answer of the tries T reaches its connection.
Forget(T) ==
  /\ tries' = tries \ T
  /\ lostNames' = lostNames \cup {t.name : t \in {u \in T : u.handle # None}}
  /\ lostRoles' = lostRoles \cup {t.pid : t \in {u \in T : u.stage = "answered" /\ u.pid # None}}
  /\ stuck' = stuck \cup ({t.handle : t \in T} \ {None})

\* The router loses the request or the answer, or the answer comes when its
\* session was dropped after 300 s or the game server has restarted.
LoseTry(t) ==
  /\ Forget({t})
  /\ UNCHANGED <<loginVars, gameDb, reverts, roleinfo, ids, bounds, twice>>

LoseRevert(p) ==
  /\ p \in reverts
  /\ reverts' = reverts \ {p}
  /\ lostRoles' = lostRoles \cup {p}
  /\ UNCHANGED <<loginVars, gameDb, tries, roleinfo, ids, bounds, lostNames, stuck, twice>>

Restart == restarts < MaxRestarts /\ restarts' = restarts + 1

\* The mail boxes of login and gamedb go, and so does everything that waits.
RestartGS ==
  /\ Restart
  /\ status' = [h \in Handle |-> IF status[h] = "new" THEN "new" ELSE "closed"]
  /\ dbQueue' = <<>> /\ dbMail' = <<>>
  /\ tries' = {[t EXCEPT !.handle = None] : t \in tries}
  /\ lostNames' = lostNames \cup (namecounter \ {player[p] : p \in Roles})
  /\ lostRoles' = lostRoles \cup {r.pid : r \in Queued("CreatePlayer") \cup Queued("CreateOffline")}
  /\ UNCHANGED <<gameDb, reverts, roleinfo, ids, requests, stuck, twice>>

\* The data center forgets whom it works for, the counter starts anew until
\* it is loaded, and saves under way are lost.
RestartCS ==
  /\ Restart
  /\ Forget({t \in tries : t.stage = "supplied"})
  /\ nowPlayerId' = 0 /\ idsLoaded' = FALSE
  /\ UNCHANGED <<loginVars, gameDb, reverts, roleinfo, savedPlayerId, requests, twice>>

-----------------------------------------------------------------------------
GameDbStep == \/ GetPlayerListByAccount \/ InsertNewNameCounter \/ DbDeleteName
              \/ CreatePlayer \/ CreateOffline

Next ==
  \/ \E h \in Handle : Login(h) \/ Close(h)
  \/ \E h \in Handle, n \in Name : CreateRole(h, n)
  \/ GameDbStep
  \/ _CreateRole3
  \/ _TrueCreateRole1
  \/ LoseAnswer
  \/ \E t \in tries : GenPlayerId(t)
  \/ \E t \in tries : _TryCreateRole2(t)
  \/ \E t \in tries : _TrueCreateRole2(t)
  \/ \E t \in tries : LoseTry(t)
  \/ \E p \in Pid : RevertRole(p) \/ LoseRevert(p)
  \/ SavePlayerIdCounter
  \/ LoadPlayerIdCounter
  \/ RestartGS
  \/ RestartCS

Spec == Init /\ [][Next]_vars

-----------------------------------------------------------------------------
(* What the creation of roles keeps *)

PidOrNone == Pid \cup {None}
HandleOrNone == Handle \cup {None}
Requests ==
  [op : {"GetPlayerListByAccount", "InsertNewNameCounter"}, handle : Handle, name : Name, pid : {None}]
  \cup [op : {"DeleteName"}, handle : {None}, name : Name, pid : {None}]
  \cup [op : {"CreatePlayer"}, handle : {None}, name : Name, pid : Pid]
  \cup [op : {"CreateOffline"}, handle : {None}, name : {None}, pid : Pid]
Answers ==
  [op : {"GetPlayerListByAccount"}, handle : Handle, name : Name, result : Nat]
  \cup [op : {"InsertNewNameCounter"}, handle : Handle, name : Name, result : BOOLEAN]
Tries ==
  [stage : {"asked"}, handle : HandleOrNone, name : Name, pid : {None}]
  \cup [stage : {"supplied"}, handle : HandleOrNone, name : Name, pid : Pid]
  \cup [stage : {"answered"}, handle : HandleOrNone, name : Name, pid : PidOrNone]

\* The variables keep their types: a role is never written without an id.
TypeOK ==
  /\ status \in [Handle -> {"new", "login_account", "in_create_role", "closed"}]
  /\ dbQueue \in Seq(Requests)
  /\ dbMail \in Seq(Answers)
  /\ namecounter \subseteq Name
  /\ player \in [Pid -> Name \cup {None}]
  /\ offline \subseteq Pid
  /\ tries \subseteq Tries
  /\ reverts \subseteq Pid
  /\ roleinfo \subseteq [pid : Pid, name : Name]
  /\ nowPlayerId \in 0..MaxPid /\ savedPlayerId \in 0..MaxPid /\ idsLoaded \in BOOLEAN
  /\ requests \in 0..MaxRequests /\ restarts \in 0..MaxRestarts
  /\ lostNames \subseteq Name /\ lostRoles \subseteq Pid
  /\ stuck \subseteq Handle /\ twice \subseteq Pid

\* How many have a claim on a name: roles, creations under way, requests that
\* will use it or give it back, and the creations that were forgotten.
Claims(n) ==
  Cardinality({p \in Roles : player[p] = n})
  + Cardinality({t \in tries : t.handle # None /\ t.name = n})
  + Cardinality({i \in DOMAIN dbMail : /\ dbMail[i].op = "InsertNewNameCounter"
                                       /\ dbMail[i].result /\ dbMail[i].name = n})
  + Cardinality({i \in DOMAIN dbQueue : /\ dbQueue[i].op \in {"DeleteName", "CreatePlayer"}
                                        /\ dbQueue[i].name = n})
  + Cardinality({n} \cap lostNames)

\* A taken name has one claim and a free one none: no two roles share a name,
\* no rollback frees the name of another creation, and a name stays taken for
\* nothing only where a creation was forgotten: its answer was lost, a server
\* restarted, the id was one of another role, or the socket was gone when no
\* id came (_TrueCreateRole1 gives the name back only with an id).
NameClaimedOnce == \A n \in Name : Claims(n) = Cardinality({n} \cap namecounter)

\* How many creations of a socket are under way, or lost with its answer.
Creations(h) ==
  Cardinality({i \in DOMAIN dbQueue : dbQueue[i].op = "InsertNewNameCounter" /\ dbQueue[i].handle = h})
  + Cardinality({i \in DOMAIN dbMail : dbMail[i].op = "InsertNewNameCounter" /\ dbMail[i].handle = h})
  + Cardinality({t \in tries : t.handle = h})
  + Cardinality({h} \cap stuck)

\* A socket has at most one creation under way, and is in in_create_role just
\* then: unless an answer was lost, no client waits for nothing.
OneCreationPerSocket ==
  \A h \in Handle : Open(h) => Creations(h) = (IF status[h] = "in_create_role" THEN 1 ELSE 0)

\* A row in the index of all roles has a role, or one under way, or a rollback
\* under way, unless the creation or the rollback was forgotten.
RowHasRole ==
  \A r \in roleinfo :
    \/ player[r.pid] = r.name
    \/ Req("CreatePlayer", None, r.name, r.pid) \in Range(dbQueue)
    \/ \E t \in tries : t.stage = "answered" /\ t.pid = r.pid
    \/ r.pid \in reverts \cup lostRoles

\* A role is in the index of all roles, unless its id was supplied twice and
\* the other creation was rolled back; and it has its offline row, or will
\* have it, unless the game server restarted between the two writes.
RoleHasRow ==
  \A p \in Roles :
    /\ [pid |-> p, name |-> player[p]] \in roleinfo \/ p \in twice
    /\ p \in offline \cup lostRoles \/ Req("CreateOffline", None, None, p) \in Range(dbQueue)

\* The rows of the three tables that describe a role agree: none of them is left
\* behind by a rollback, a loss or a restart that nobody knows of.
RowsAgree == RowHasRole /\ RoleHasRow
-----------------------------------------------------------------------------
(* Why they hold: an id that was supplied once is in one place at a time, and *)
(* what waits for a role knows its name.                                      *)

Creating(p) == {i \in DOMAIN dbQueue : dbQueue[i].op = "CreatePlayer" /\ dbQueue[i].pid = p}
HasRow(p) == \E r \in roleinfo : r.pid = p

\* RowHasRole, with the name of the row in the answer under way.
RowFollowed ==
  \A r \in roleinfo :
    \/ player[r.pid] = r.name
    \/ \E i \in Creating(r.pid) : dbQueue[i].name = r.name
    \/ \E t \in tries : t.stage = "answered" /\ t.pid = r.pid /\ t.name = r.name
    \/ r.pid \in reverts \cup lostRoles

\* One try, one rollback, one request or one role has the id, and except for
\* an id just supplied it has a row.
IdOnce ==
  \A p \in Pid \ twice :
    /\ \A t, u \in tries : t.pid = p /\ u.pid = p => t = u
    /\ \A t \in tries : t.pid = p =>
         /\ p \notin reverts /\ Creating(p) = {} /\ player[p] = None
         /\ t.stage = "answered" => [pid |-> p, name |-> t.name] \in roleinfo
    /\ p \in reverts => Creating(p) = {} /\ player[p] = None /\ HasRow(p)
    /\ \A i \in Creating(p) :
         /\ player[p] = None /\ [pid |-> p, name |-> dbQueue[i].name] \in roleinfo
         /\ \A j \in Creating(p) : i = j
    /\ player[p] # None => [pid |-> p, name |-> player[p]] \in roleinfo

\* The offline row of a role is asked for before there is a role.
OfflineComes ==
  \A p \in Pid : player[p] # None \/ Creating(p) # {} =>
    \/ p \in offline \cup lostRoles
    \/ \E i \in DOMAIN dbQueue : dbQueue[i].op = "CreateOffline" /\ dbQueue[i].pid = p

\* Nothing is created for a socket before it has logged in.
NothingBefore == \A h \in Handle : status[h] = "new" => Creations(h) = 0

IInv == TypeOK /\ IsFiniteSet(tries) /\ RowFollowed /\ IdOnce /\ OfflineComes
        /\ NameClaimedOnce /\ OneCreationPerSocket /\ NothingBefore
=============================================================================
