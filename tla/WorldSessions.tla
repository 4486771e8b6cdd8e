--------------------------- MODULE WorldSessions ---------------------------
(***************************************************************************)
(* What the login service can rely on from the world service: each player   *)
(* has at most one session there, which is being loaded or is online, and    *)
(* every change of it is told in the order it happens.                       *)
(*                                                                         *)
(* WorldLogin implements this specification; LoginGate is checked against    *)
(* it instead of against the load chains behind it.                          *)
(***************************************************************************)
EXTENDS Naturals, Sequences, SequencesExt

CONSTANTS
  Pid,     \* players
  Handle,  \* client sockets
  Token,   \* role tokens
  None     \* no session; no socket

VARIABLES
  session,  \* player -> its session in the world
  owner,    \* socket -> the player the world forwards its messages to
  toWorld,  \* messages from the login service, in order
  toLogin   \* messages to the login service, in order

sessionVars == <<session, owner, toWorld, toLogin>>

Loading(p) == session[p] # None /\ session[p].at = "loading"
Online(p) == session[p] # None /\ session[p].at = "online"

LoginMessage(p, h, t) == [type |-> "LoginPlayer", pid |-> p, handle |-> h, token |-> t]
ClosedMessage(h) == [type |-> "DelConnection", handle |-> h]
Message == {LoginMessage(p, h, t) : p \in Pid, h \in Handle, t \in Token}
           \cup {ClosedMessage(h) : h \in Handle}

Result(p, h, t, err) ==
  [type |-> "LoginResult", pid |-> p, handle |-> h, token |-> t, errcode |-> err]
Left(p, t) == [type |-> "OnLogout", pid |-> p, token |-> t]
Reply == {Result(p, h, t, err) : p \in Pid, h \in Handle \cup {None}, t \in Token,
            err \in {"ok", "in_login", "not_exist_player", "script_error"}}
         \cup {Left(p, t) : p \in Pid, t \in Token}

Init ==
  /\ session = [p \in Pid |-> None]
  /\ owner = [h \in Handle |-> None]
  /\ toWorld = <<>>
  /\ toLogin = <<>>

\* A login: refused while the player is loading, taken over by the session
\* while it is online (which lets go of its old socket), else the start of a
\* session.
LoginPlayer ==
  /\ toWorld # <<>>
  /\ Head(toWorld).type = "LoginPlayer"
  /\ toWorld' = Tail(toWorld)
  /\ LET m == Head(toWorld)
         p == m.pid
         Now(at) == [at |-> at, handle |-> m.handle, token |-> m.token]
     IN \/ /\ Loading(p)
           /\ toLogin' = Append(toLogin, Result(p, m.handle, m.token, "in_login"))
           /\ UNCHANGED <<session, owner>>
        \/ /\ Online(p)
           /\ session' = [session EXCEPT ![p] = Now("online")]
           /\ owner' = [h \in Handle |-> IF h = m.handle THEN p
                                          ELSE IF h = session[p].handle THEN None ELSE owner[h]]
           /\ toLogin' = Append(toLogin, Result(p, m.handle, m.token, "ok"))
        \/ /\ session[p] = None
           /\ session' = [session EXCEPT ![p] = Now("loading")]
           /\ owner' = [owner EXCEPT ![m.handle] = p]
           /\ UNCHANGED toLogin

\* A closed socket: the session of its owner loses its socket, and goes on.
DelConnection ==
  /\ toWorld # <<>>
  /\ Head(toWorld).type = "DelConnection"
  /\ toWorld' = Tail(toWorld)
  /\ LET h == Head(toWorld).handle
     IN /\ owner' = [owner EXCEPT ![h] = None]
        /\ session' = [p \in Pid |-> IF p = owner[h] /\ session[p] # None
                                     THEN [session[p] EXCEPT !.handle = None] ELSE session[p]]
  /\ UNCHANGED toLogin

Finish(p) ==
  /\ Loading(p)
  /\ session' = [session EXCEPT ![p].at = "online"]
  /\ toLogin' = Append(toLogin, Result(p, session[p].handle, session[p].token, "ok"))
  /\ UNCHANGED <<owner, toWorld>>

\* Loading sessions end.  Their sockets keep their owner.
Fail(order, err) ==
  /\ session' = [p \in Pid |-> IF p \in Range(order) THEN None ELSE session[p]]
  /\ toLogin' = toLogin \o [i \in DOMAIN order |->
       Result(order[i], session[order[i]].handle, session[order[i]].token, err)]
  /\ UNCHANGED <<owner, toWorld>>

\* An online session is kicked with its socket; a loading one leaves it behind.
Logout(p) ==
  /\ session[p] # None
  /\ session' = [session EXCEPT ![p] = None]
  /\ owner' = [h \in Handle |-> IF Online(p) /\ h = session[p].handle THEN None ELSE owner[h]]
  /\ toLogin' = Append(toLogin, Left(p, session[p].token))
  /\ UNCHANGED toWorld

WorldStep ==
  \/ LoginPlayer
  \/ DelConnection
  \/ \E p \in Pid : \/ Finish(p)
                    \/ Logout(p)
                    \/ Loading(p) /\ Fail(<<p>>, "not_exist_player")
  \/ \E P \in SUBSET {p \in Pid : Loading(p)} : \E order \in SetToSeqs(P) :
       P # {} /\ Fail(order, "script_error")

\* The login service sends, or takes what was sent to it.
Sends == \E m \in Message : toWorld' = Append(toWorld, m) /\ UNCHANGED <<session, owner, toLogin>>
Takes == /\ \E n \in 1..Len(toLogin) : toLogin' = SubSeq(toLogin, n + 1, Len(toLogin))
         /\ UNCHANGED <<session, owner, toWorld>>

Spec == Init /\ [][WorldStep \/ Sends \/ Takes]_sessionVars
=============================================================================
