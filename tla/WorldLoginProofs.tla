-------------------------- MODULE WorldLoginProofs --------------------------
(***************************************************************************)
(* Proofs about WorldLogin, for every finite set of players, every set of   *)
(* sockets and any number of logins and modules: IInv is inductive, so that *)
(* sockets, blocks and data are in order; a login is answered at most once; *)
(* and every step of the world is one of WorldSessions or is not seen there.*)
(***************************************************************************)
EXTENDS WorldLogin, FiniteSetTheorems, SequenceTheorems, TLAPS

\* What the proofs use of the tail of a queue,
LEMMA TailFacts ==
  ASSUME NEW S, NEW s \in Seq(S), s # <<>>
  PROVE  /\ Tail(s) \in Seq(S)
         /\ 1 \in DOMAIN s /\ Head(s) = s[1] /\ Head(s) \in S
         /\ \A i \in DOMAIN Tail(s) : i + 1 \in DOMAIN s /\ i + 1 # 1 /\ Tail(s)[i] = s[i + 1]
         /\ \A i, j \in DOMAIN Tail(s) : i # j => i + 1 # j + 1
         /\ DOMAIN s = 1..Len(s) /\ Len(Tail(s)) + 1 = Len(s)
OBVIOUS

\* and of a queue with an element appended.
LEMMA AppendFacts ==
  ASSUME NEW S, NEW s \in Seq(S), NEW x \in S
  PROVE  /\ Append(s, x) \in Seq(S)
         /\ \A i \in DOMAIN Append(s, x) :
              \/ i \in DOMAIN s /\ Append(s, x)[i] = s[i]
              \/ i = Len(s) + 1 /\ Append(s, x)[i] = x
         /\ Len(s) + 1 \notin DOMAIN s
OBVIOUS

-----------------------------------------------------------------------------
\* The logins on their way stay as they are when the world only takes its mail.
LEMMA MailTaken ==
  ASSUME TypeOK, OnTheWay,
         toWorld' = toWorld \/ (toWorld # <<>> /\ toWorld' = Tail(toWorld)),
         UNCHANGED <<waitQueue, busy, lastToken>>
  PROVE  OnTheWay'
<1>1. CASE toWorld' = toWorld
  BY <1>1 DEF OnTheWay, LoginIn
<1>2. CASE toWorld # <<>> /\ toWorld' = Tail(toWorld)
  <2>1. \A i \in DOMAIN toWorld' : i + 1 \in DOMAIN toWorld /\ toWorld'[i] = toWorld[i + 1]
    BY <1>2, TailFacts DEF TypeOK
  <2>2. \A i, j \in DOMAIN toWorld' : i # j => i + 1 # j + 1
    BY <1>2, TailFacts DEF TypeOK
  <2> QED
    BY <2>1, <2>2 DEF OnTheWay, LoginIn
<1> QED
  BY <1>1, <1>2

\* The mail that is left was there before.
LEMMA MailLeft ==
  ASSUME TypeOK,
         toWorld' = toWorld \/ (toWorld # <<>> /\ toWorld' = Tail(toWorld))
  PROVE  \A i \in DOMAIN toWorld' : \E j \in DOMAIN toWorld : toWorld'[i] = toWorld[j]
<1>1. ASSUME toWorld # <<>>, NEW i \in DOMAIN Tail(toWorld)
      PROVE  i + 1 \in DOMAIN toWorld /\ Tail(toWorld)[i] = toWorld[i + 1]
  BY <1>1, TailFacts DEF TypeOK
<1> QED
  BY <1>1

\* No player got a socket, and no login began to load.
PlayersKept ==
  \A p \in Pid :
    /\ PlayerOf(p)' # None =>
         PlayerOf(p) # None /\ PlayerOf(p)'.handle \in {PlayerOf(p).handle, None}
    /\ IsLogining(p)' => IsLogining(p) /\ loginPlayers'[p].token = loginPlayers[p].token

\* Then no player has the socket or the token of a login on its way.
LEMMA ArrivedKept ==
  ASSUME TypeOK, Arrived, PlayersKept,
         toWorld' = toWorld \/ (toWorld # <<>> /\ toWorld' = Tail(toWorld)),
         UNCHANGED <<waitQueue, busy, lastToken>>
  PROVE  Arrived'
<1>1. \A i \in DOMAIN toWorld' : \E j \in DOMAIN toWorld : toWorld'[i] = toWorld[j]
  BY MailLeft
<1> SUFFICES ASSUME NEW p \in Pid
             PROVE  Arrived!(p)'
  BY DEF Arrived
<1>2. ASSUME PlayerOf(p)' # None, PlayerOf(p)'.handle # None
      PROVE  /\ PlayerOf(p)'.handle \in busy'
             /\ \A i \in DOMAIN toWorld' : LoginIn(toWorld'[i]) => toWorld'[i].handle # PlayerOf(p)'.handle
             /\ \A q \in Pid : waitQueue'[q] # None => waitQueue'[q].handle # PlayerOf(p)'.handle
  <2>1. /\ PlayerOf(p) # None /\ PlayerOf(p).handle # None
        /\ PlayerOf(p)'.handle = PlayerOf(p).handle
    BY <1>2 DEF PlayersKept
  <2> QED
    BY <1>1, <2>1 DEF Arrived, LoginIn
<1>3. ASSUME IsLogining(p)'
      PROVE  /\ loginPlayers'[p].token <= lastToken'
             /\ \A i \in DOMAIN toWorld' : LoginIn(toWorld'[i]) => toWorld'[i].token # loginPlayers'[p].token
             /\ \A q \in Pid : waitQueue'[q] # None => waitQueue'[q].token # loginPlayers'[p].token
             /\ \A q \in Pid \ {p} : IsLogining(q)' => loginPlayers'[q].token # loginPlayers'[p].token
  BY <1>1, <1>3 DEF Arrived, LoginIn, PlayersKept
<1> QED
  BY <1>2, <1>3

\* A world step that refuses nobody leaves nothing to say of refusals.
LEMMA NobodyRefused ==
  ASSUME \A k \in DOMAIN toLogin' :
           ~(toLogin'[k].type = "LoginResult" /\ toLogin'[k].errcode = "in_login")
  PROVE  Refused'
BY DEF Refused

-----------------------------------------------------------------------------
\* The requests under way when one is asked for, when the first is answered and
\* the chain goes on, and when it ends.
LEMMA AskFacts ==
  ASSUME TypeOK, NEW p \in Pid, NEW step \in 0..BlockLoad, dbQueue' = Ask(p, step)
  PROVE  /\ dbQueue' \in [Pid -> Seq(0..BlockLoad)]
         /\ \A q \in Pid \ {p} : dbQueue'[q] = dbQueue[q]
         /\ \A i \in DOMAIN dbQueue'[p] :
              \/ i \in DOMAIN dbQueue[p] /\ dbQueue'[p][i] = dbQueue[p][i]
              \/ i = Len(dbQueue[p]) + 1 /\ dbQueue'[p][i] = step
         /\ Len(dbQueue[p]) + 1 \notin DOMAIN dbQueue[p]
<1>1. dbQueue[p] \in Seq(0..BlockLoad) /\ dbQueue'[p] = Append(dbQueue[p], step)
  BY DEF TypeOK, Ask
<1> QED
  BY <1>1, AppendFacts DEF TypeOK, Ask

\* The requests left when the first is answered and nothing more is asked for,
LEMMA ThenEndFacts ==
  ASSUME TypeOK, NEW p \in Pid, dbQueue[p] # <<>>, ThenEnd(p)
  PROVE  /\ dbQueue' \in [Pid -> Seq(0..BlockLoad)]
         /\ \A q \in Pid \ {p} : dbQueue'[q] = dbQueue[q]
         /\ \A i \in DOMAIN dbQueue'[p] :
              i + 1 \in DOMAIN dbQueue[p] /\ i + 1 # 1 /\ dbQueue'[p][i] = dbQueue[p][i + 1]
         /\ \A i, j \in DOMAIN dbQueue'[p] : i # j => i + 1 # j + 1
         /\ 1 \in DOMAIN dbQueue[p] /\ Head(dbQueue[p]) = dbQueue[p][1]
<1>1. dbQueue[p] \in Seq(0..BlockLoad) /\ dbQueue'[p] = Tail(dbQueue[p])
  BY DEF TypeOK, ThenEnd
<1> QED
  BY <1>1, TailFacts DEF TypeOK, ThenEnd

\* and when the next one is asked for.
LEMMA ThenAskFacts ==
  ASSUME TypeOK, NEW p \in Pid, NEW step \in 0..BlockLoad, dbQueue[p] # <<>>, ThenAsk(p, step)
  PROVE  /\ dbQueue' \in [Pid -> Seq(0..BlockLoad)]
         /\ \A q \in Pid \ {p} : dbQueue'[q] = dbQueue[q]
         /\ \A i \in DOMAIN dbQueue'[p] :
              \/ /\ i + 1 \in DOMAIN dbQueue[p] /\ i + 1 # 1
                 /\ dbQueue'[p][i] = dbQueue[p][i + 1]
              \/ /\ i = Len(dbQueue[p]) /\ i + 1 \notin DOMAIN dbQueue[p]
                 /\ dbQueue'[p][i] = step
         /\ \A i, j \in DOMAIN dbQueue'[p] : i # j => i + 1 # j + 1
         /\ 1 \in DOMAIN dbQueue[p] /\ Head(dbQueue[p]) = dbQueue[p][1]
<1>1. dbQueue[p] \in Seq(0..BlockLoad) /\ dbQueue'[p] = Append(Tail(dbQueue[p]), step)
  BY DEF TypeOK, ThenAsk
<1>2. /\ Tail(dbQueue[p]) \in Seq(0..BlockLoad)
      /\ Len(Tail(dbQueue[p])) + 1 = Len(dbQueue[p]) /\ DOMAIN dbQueue[p] = 1..Len(dbQueue[p])
  BY <1>1, TailFacts
<1>3. dbQueue'[p] \in Seq(0..BlockLoad)
  BY <1>1, <1>2, AppendFacts
<1>4. \A i \in DOMAIN dbQueue'[p] :
        \/ i \in DOMAIN Tail(dbQueue[p]) /\ dbQueue'[p][i] = Tail(dbQueue[p])[i]
        \/ i = Len(Tail(dbQueue[p])) + 1 /\ dbQueue'[p][i] = step
  BY <1>1, <1>2, AppendFacts
<1>5. /\ dbQueue' \in [Pid -> Seq(0..BlockLoad)]
      /\ \A q \in Pid \ {p} : dbQueue'[q] = dbQueue[q]
  BY <1>3 DEF TypeOK, ThenAsk
<1>6. \A i \in DOMAIN dbQueue'[p] : i \in Nat
  BY <1>3
<1>7. Len(dbQueue[p]) \in Nat /\ Len(Tail(dbQueue[p])) \in Nat
  BY <1>1, <1>2
<1>8. Len(dbQueue[p]) + 1 \notin DOMAIN dbQueue[p]
  BY <1>2, <1>7
<1>9. \A i \in DOMAIN dbQueue'[p] :
        \/ /\ i + 1 \in DOMAIN dbQueue[p] /\ i + 1 # 1
           /\ dbQueue'[p][i] = dbQueue[p][i + 1]
        \/ /\ i = Len(dbQueue[p]) /\ i + 1 \notin DOMAIN dbQueue[p]
           /\ dbQueue'[p][i] = step
  BY <1>1, <1>2, <1>4, <1>7, <1>8, TailFacts
<1> QED
  BY <1>1, <1>5, <1>6, <1>9, TailFacts

-----------------------------------------------------------------------------
(* The invariant is kept by each step of the world.  *)

\* When nobody gets or loses a player, sockets and tokens stay where they are.
LEMMA PlayersAsTheyWere ==
  ASSUME IInv, UNCHANGED <<envVars, toWorld, toLogin, connections>>,
         \A p \in Pid : /\ IsLogining(p)' <=> IsLogining(p)
                        /\ IsLogining(p) => /\ loginPlayers'[p].handle = loginPlayers[p].handle
                                            /\ loginPlayers'[p].token = loginPlayers[p].token,
         onlinePlayers' = onlinePlayers
  PROVE  OneObject' /\ SocketOwned' /\ OnTheWay' /\ Arrived' /\ Refused'
<1>1. TypeOK /\ OneObject /\ SocketOwned /\ OnTheWay /\ Arrived /\ Refused
  BY DEF IInv
<1>2. \A p \in Pid : /\ PlayerOf(p)' # None <=> PlayerOf(p) # None
                     /\ PlayerOf(p) # None => PlayerOf(p)'.handle = PlayerOf(p).handle
  BY DEF PlayerOf, IsLogining
<1>3. OneObject'
  BY <1>1 DEF OneObject, IsOnline
<1>4. SocketOwned'
  BY <1>1, <1>2 DEF SocketOwned
<1>5. OnTheWay'
  BY <1>1, MailTaken DEF envVars
<1>6. PlayersKept
  BY <1>2 DEF PlayersKept
<1>7. Arrived'
  BY <1>1, <1>6, ArrivedKept DEF envVars
<1>8. Refused'
  BY <1>1, <1>2 DEF Refused, envVars, LoginIn
<1> QED
  BY <1>3, <1>4, <1>5, <1>7, <1>8

\* The chain's requests, and what the answers so far have written, when the
\* first request of p is answered and the chain ends.
LEMMA ChainEnded ==
  ASSUME IInv, NEW p \in Pid, dbQueue[p] # <<>>, ThenEnd(p),
         UNCHANGED <<loginPlayers, onlinePlayers, block, waiting, overlapped>>
  PROVE  OneBlockLoad' /\ InOrder'
<1>1. TypeOK /\ OneBlockLoad /\ InOrder
  BY DEF IInv
<1>2. OneBlockLoad'
  BY <1>1, ThenEndFacts DEF OneBlockLoad
<1>3. \A q \in Pid : \A i \in DOMAIN dbQueue'[q] :
        \E j \in DOMAIN dbQueue[q] : dbQueue'[q][i] = dbQueue[q][j]
  BY <1>1, ThenEndFacts
<1>4. InOrder'
  BY <1>1, <1>3 DEF InOrder, IsLogining, IsOnline, Data
<1> QED
  BY <1>2, <1>4

\* A request that is forgotten only leaves the queue of its pid.
LEMMA LoseAnswerKeeps ==
  ASSUME IInv, UNCHANGED envVars, NEW p \in Pid, LoseAnswer(p)
  PROVE  IInv'
<1>1. TypeOK /\ dbQueue[p] # <<>> /\ ThenEnd(p)
  BY DEF IInv, LoseAnswer
<1>2. TypeOK'
  BY <1>1, ThenEndFacts DEF TypeOK, LoseAnswer, envVars
<1>3. OneObject' /\ SocketOwned' /\ OnTheWay' /\ Arrived' /\ Refused'
  BY PlayersAsTheyWere DEF LoseAnswer, IsLogining
<1>4. OneBlockLoad' /\ InOrder'
  BY <1>1, ChainEnded DEF LoseAnswer
<1> QED
  BY <1>2, <1>3, <1>4 DEF IInv

\* An answer that is written to the player leaves its socket and token alone.
LEMMA LoadIntoFacts ==
  ASSUME TypeOK, NEW p \in Pid, NEW d \in Data, LoadInto(p, d)
  PROVE  /\ loginPlayers' \in [Pid -> Player \cup {None}]
         /\ \A q \in Pid :
              /\ IsLogining(q)' <=> IsLogining(q)
              /\ IsLogining(q) => /\ loginPlayers'[q].handle = loginPlayers[q].handle
                                  /\ loginPlayers'[q].token = loginPlayers[q].token
                                  /\ loginPlayers[q].loaded \subseteq loginPlayers'[q].loaded
         /\ IsLogining(p) => d \in loginPlayers'[p].loaded
<1>1. CASE ~IsLogining(p)
  BY <1>1 DEF LoadInto, IsLogining, TypeOK
<1>2. CASE IsLogining(p)
  <2> DEFINE written == [loginPlayers[p] EXCEPT !.loaded = @ \cup {d}]
  <2>1. loginPlayers[p] \in Player
    BY <1>2 DEF IsLogining, TypeOK
  <2>2. /\ written \in Player
        /\ written.handle = loginPlayers[p].handle /\ written.token = loginPlayers[p].token
        /\ written.loaded = loginPlayers[p].loaded \cup {d}
    BY <2>1 DEF Player
  <2>3. written # None
    BY <2>2, WorldLoginAssumption
  <2>4. loginPlayers' = [loginPlayers EXCEPT ![p] = written]
    BY <1>2 DEF LoadInto
  <2> HIDE DEF written
  <2>5. /\ loginPlayers' \in [Pid -> Player \cup {None}]
        /\ loginPlayers'[p] = written
        /\ \A q \in Pid \ {p} : loginPlayers'[q] = loginPlayers[q]
    BY <2>2, <2>4 DEF TypeOK
  <2>6. /\ IsLogining(p)' /\ loginPlayers[p].loaded \subseteq loginPlayers'[p].loaded
        /\ d \in loginPlayers'[p].loaded
    BY <2>2, <2>3, <2>5 DEF IsLogining
  <2> QED
    BY <1>2, <2>2, <2>5, <2>6 DEF IsLogining
<1> QED
  BY <1>1, <1>2

\* The chain asks for the next data when the answer before it is written.
LEMMA ChainGoesOn ==
  ASSUME IInv, NEW p \in Pid, NEW d \in 0..Modules, Answered(p, d), ThenAsk(p, d + 1),
         UNCHANGED <<onlinePlayers, block, waiting, overlapped>>,
         loginPlayers' \in [Pid -> Player \cup {None}],
         \A q \in Pid : IsLogining(q)' => IsLogining(q) /\ loginPlayers[q].loaded \subseteq loginPlayers'[q].loaded,
         IsLogining(p) /\ d # 0 => d \in loginPlayers'[p].loaded
  PROVE  OneBlockLoad' /\ InOrder'
<1>1. TypeOK /\ OneBlockLoad /\ InOrder
  BY DEF IInv
<1>2. /\ Modules \in Nat /\ d \in Nat /\ d + 1 \in 0..BlockLoad /\ d + 1 # BlockLoad /\ d # BlockLoad
      /\ Data \subseteq Nat \ {0}
  BY WorldLoginAssumption DEF BlockLoad, Data, LastModule
<1>3. dbQueue[p] # <<>> /\ dbQueue[p][1] = d /\ 1 \in DOMAIN dbQueue[p]
  BY <1>1, <1>2, ThenAskFacts DEF Answered
<1>4. \A i \in DOMAIN dbQueue'[p] :
        \/ i + 1 \in DOMAIN dbQueue[p] /\ dbQueue'[p][i] = dbQueue[p][i + 1]
        \/ dbQueue'[p][i] = d + 1
  BY <1>1, <1>2, <1>3, ThenAskFacts
<1>5. \A q \in Pid \ {p} : dbQueue'[q] = dbQueue[q]
  BY <1>1, <1>2, <1>3, ThenAskFacts
<1>6. OneBlockLoad'
  <2>1. ASSUME NEW i \in DOMAIN dbQueue'[p], dbQueue'[p][i] = BlockLoad
        PROVE  i + 1 \in DOMAIN dbQueue[p] /\ dbQueue[p][i + 1] = BlockLoad
    BY <1>2, <1>4, <2>1
  <2>2. \A i, j \in DOMAIN dbQueue'[p] : i + 1 = j + 1 => i = j
    BY <1>1, <1>2, <1>3, ThenAskFacts
  <2> QED
    BY <1>1, <1>5, <2>1, <2>2 DEF OneBlockLoad, BlockLoad
<1>7. ASSUME NEW q \in Pid \ overlapped', IsLogining(q)',
             NEW i \in DOMAIN dbQueue'[q], dbQueue'[q][i] # BlockLoad,
             NEW e \in Data, e < dbQueue'[q][i]
      PROVE  e \in loginPlayers'[q].loaded
  <2>1. CASE \E j \in DOMAIN dbQueue[q] : dbQueue'[q][i] = dbQueue[q][j]
    BY <1>1, <1>7, <2>1 DEF InOrder, IsLogining
  <2>2. CASE q = p /\ dbQueue'[q][i] = d + 1
    <3>1. e = d \/ e < d
      BY <1>2, <1>7, <2>2
    <3>2. CASE e = d
      BY <1>2, <1>7, <2>2, <3>2
    <3>3. CASE e < d
      BY <1>1, <1>2, <1>3, <1>7, <2>2, <3>3 DEF InOrder, IsLogining
    <3> QED
      BY <3>1, <3>2, <3>3
  <2> QED
    BY <1>4, <1>5, <2>1, <2>2
<1>8. ASSUME NEW q \in Pid \ overlapped', IsLogining(q)', q \in waiting'
      PROVE  loginPlayers'[q].loaded = Data
  <2>1. loginPlayers'[q].loaded \subseteq Data
    BY <1>8 DEF Player, IsLogining
  <2>2. loginPlayers[q].loaded = Data
    BY <1>1, <1>8 DEF InOrder, IsLogining
  <2> QED
    BY <1>8, <2>1, <2>2
<1>9. \A q \in Pid \ overlapped' : IsOnline(q)' => onlinePlayers'[q].loaded = Data
  BY <1>1 DEF InOrder, IsOnline
<1>10. InOrder'
  BY <1>7, <1>8, <1>9 DEF InOrder, Data, LastModule, BlockLoad
<1> QED
  BY <1>6, <1>10

\* The role's answer writes its module, and the chain goes on while the player loads.
LEMMA LoginRole2Keeps ==
  ASSUME IInv, UNCHANGED envVars, NEW p \in Pid, _LoginRole2(p)
  PROVE  IInv'
<1>1. TypeOK /\ Answered(p, 1) /\ dbQueue[p] # <<>> /\ LoadInto(p, 1)
  BY DEF IInv, _LoginRole2, Answered
<1>2. /\ 1 \in Data /\ 1 \in 0..Modules /\ 2 \in 0..BlockLoad /\ Modules \in Nat
      /\ UNCHANGED <<onlinePlayers, connections, block, waiting, monitor, failing,
                     overlapped, toWorld, toLogin, waitQueue, busy, gone, lastToken>>
  BY WorldLoginAssumption DEF Data, LastModule, BlockLoad, _LoginRole2, envVars
<1>3. dbQueue' \in [Pid -> Seq(0..BlockLoad)]
  BY <1>1, <1>2, ThenEndFacts, ThenAskFacts DEF _LoginRole2
<1>4. TypeOK'
  BY <1>1, <1>2, <1>3, LoadIntoFacts DEF TypeOK
<1>5. OneObject' /\ SocketOwned' /\ OnTheWay' /\ Arrived' /\ Refused'
  BY <1>1, <1>2, LoadIntoFacts, PlayersAsTheyWere
<1>6. OneBlockLoad' /\ InOrder'
  <2>1. CASE ~IsLogining(p) /\ ThenEnd(p)
    BY <1>1, <1>2, <2>1, ChainEnded DEF LoadInto
  <2>2. CASE IsLogining(p) /\ ThenAsk(p, 2)
    BY <1>1, <1>2, <2>2, LoadIntoFacts, ChainGoesOn
  <2> QED
    BY <2>1, <2>2 DEF _LoginRole2
<1> QED
  BY <1>4, <1>5, <1>6 DEF IInv

\* An answer in the middle writes its module and asks for the next one.
LEMMA LoginLoadModuleKeeps ==
  ASSUME IInv, UNCHANGED envVars, NEW p \in Pid, _LoginLoadModule(p)
  PROVE  IInv'
<1>1. PICK d \in 2..Modules : Answered(p, d) /\ LoadInto(p, d) /\ ThenAsk(p, d + 1)
  BY DEF _LoginLoadModule
<1>2. TypeOK /\ dbQueue[p] # <<>>
  BY <1>1 DEF IInv, Answered
<1>3. /\ d \in Data /\ d \in 0..Modules /\ d + 1 \in 0..BlockLoad
      /\ UNCHANGED <<onlinePlayers, connections, block, waiting, monitor, failing,
                     overlapped, toWorld, toLogin, waitQueue, busy, gone, lastToken>>
  BY WorldLoginAssumption DEF Data, LastModule, BlockLoad, _LoginLoadModule, envVars
<1>4. TypeOK'
  <2>1. dbQueue' \in [Pid -> Seq(0..BlockLoad)]
    BY <1>1, <1>2, <1>3, ThenAskFacts
  <2> QED
    BY <1>1, <1>2, <1>3, <2>1, LoadIntoFacts DEF TypeOK
<1>5. OneObject' /\ SocketOwned' /\ OnTheWay' /\ Arrived' /\ Refused'
  BY <1>1, <1>2, <1>3, LoadIntoFacts, PlayersAsTheyWere DEF envVars
<1>6. OneBlockLoad' /\ InOrder'
  BY <1>1, <1>2, <1>3, LoadIntoFacts, ChainGoesOn
<1> QED
  BY <1>4, <1>5, <1>6 DEF IInv

-----------------------------------------------------------------------------
\* One reply is sent to a login service that has read all others.
LEMMA SendFacts ==
  ASSUME TypeOK, toLogin = <<>>, NEW m \in Reply, Send(m)
  PROVE  /\ toLogin' \in Seq(Reply)
         /\ DOMAIN toLogin' = {1} /\ toLogin'[1] = m
<1>1. toLogin \in Seq(Reply) /\ Len(toLogin) = 0 /\ toLogin' = Append(toLogin, m)
  BY DEF TypeOK, Send
<1> QED
  BY <1>1

\* A player that goes without a new one leaves the sockets of the others alone.
LEMMA SocketsKept ==
  ASSUME SocketOwned, PlayersKept,
         \A p \in Pid : PlayerOf(p)' # None /\ PlayerOf(p)'.handle # None =>
           connections'[PlayerOf(p)'.handle] = connections[PlayerOf(p)'.handle]
  PROVE  SocketOwned'
<1> SUFFICES ASSUME NEW p \in Pid, PlayerOf(p)' # None, PlayerOf(p)'.handle # None
             PROVE  connections'[PlayerOf(p)'.handle] = p
  BY DEF SocketOwned
<1>1. PlayerOf(p) # None /\ PlayerOf(p)'.handle = PlayerOf(p).handle
  BY DEF PlayersKept
<1> QED
  BY <1>1 DEF SocketOwned

\* When the player that was loading goes online it keeps its socket.
LEMMA LoadEndFacts ==
  ASSUME IInv, toLogin = <<>>, UNCHANGED envVars, UNCHANGED <<toWorld, connections>>,
         NEW p \in Pid, NEW player \in Player \cup {None}, LoadEnd(p, player),
         player # None => /\ IsLogining(p)
                          /\ player.handle = loginPlayers[p].handle
                          /\ player.token = loginPlayers[p].token
  PROVE  /\ loginPlayers' \in [Pid -> Player \cup {None}]
         /\ onlinePlayers' \in [Pid -> Player \cup {None}]
         /\ toLogin' \in Seq(Reply)
         /\ OneObject' /\ SocketOwned' /\ OnTheWay' /\ Arrived' /\ Refused'
         /\ \A q \in Pid \ {p} : loginPlayers'[q] = loginPlayers[q] /\ onlinePlayers'[q] = onlinePlayers[q]
         /\ player = None => UNCHANGED <<loginPlayers, onlinePlayers>>
         /\ player # None => loginPlayers'[p] = None /\ onlinePlayers'[p] = player
<1>1. TypeOK /\ OneObject /\ SocketOwned /\ OnTheWay /\ Arrived /\ Refused
  BY DEF IInv
<1>2. CASE player = None
  <2>1. UNCHANGED <<loginPlayers, onlinePlayers, toLogin>>
    BY <1>2 DEF LoadEnd
  <2>2. OneObject' /\ SocketOwned' /\ OnTheWay' /\ Arrived' /\ Refused'
    BY <2>1, PlayersAsTheyWere DEF IsLogining
  <2> QED
    BY <1>1, <1>2, <2>1, <2>2 DEF TypeOK
<1>3. CASE player # None
  <2>1. /\ loginPlayers' = [loginPlayers EXCEPT ![p] = None]
        /\ onlinePlayers' = [onlinePlayers EXCEPT ![p] = player]
        /\ Send(Result(p, player.handle, player.token, "ok"))
    BY <1>3 DEF LoadEnd
  <2>2. Result(p, player.handle, player.token, "ok") \in Reply
    BY <1>3 DEF Result, Reply, Player
  <2>3. toLogin' \in Seq(Reply) /\ DOMAIN toLogin' = {1} /\ toLogin'[1].errcode = "ok"
    <3>1. /\ toLogin' \in Seq(Reply) /\ DOMAIN toLogin' = {1}
          /\ toLogin'[1] = Result(p, player.handle, player.token, "ok")
      BY <1>1, <2>1, <2>2, SendFacts
    <3> QED
      BY <3>1 DEF Result
  <2>4. /\ loginPlayers' \in [Pid -> Player \cup {None}]
        /\ onlinePlayers' \in [Pid -> Player \cup {None}]
        /\ loginPlayers'[p] = None /\ onlinePlayers'[p] = player
        /\ \A q \in Pid \ {p} : loginPlayers'[q] = loginPlayers[q] /\ onlinePlayers'[q] = onlinePlayers[q]
    BY <1>1, <2>1 DEF TypeOK
  <2>5. OneObject'
    BY <1>1, <2>4 DEF OneObject, IsLogining, IsOnline
  <2>6. PlayersKept
    BY <1>3, <2>4 DEF PlayersKept, PlayerOf, IsLogining
  <2>7. SocketOwned'
    BY <1>1, <2>6, SocketsKept
  <2>8. OnTheWay' /\ Arrived'
    BY <1>1, <2>6, MailTaken, ArrivedKept DEF envVars
  <2>9. Refused'
    BY <2>3, NobodyRefused
  <2> QED
    BY <1>3, <2>3, <2>4, <2>5, <2>7, <2>8, <2>9
<1> QED
  BY <1>2, <1>3

\* The first answer starts the chain, or ends the login of a missing player.
LEMMA LoginRole1Keeps ==
  ASSUME IInv, toLogin = <<>>, UNCHANGED envVars, NEW p \in Pid, _LoginRole1(p)
  PROVE  IInv'
<1>1. TypeOK /\ OneObject /\ SocketOwned /\ OnTheWay /\ Arrived /\ Refused /\ Answered(p, 0) /\ dbQueue[p] # <<>>
  BY DEF IInv, _LoginRole1, Answered
<1>2. /\ 0 \in 0..Modules /\ 1 \in 0..BlockLoad /\ 0 + 1 = 1
      /\ UNCHANGED <<onlinePlayers, connections, block, waiting, monitor, failing,
                     overlapped, toWorld, waitQueue, busy, gone, lastToken>>
  BY WorldLoginAssumption DEF BlockLoad, _LoginRole1, envVars
<1>3. dbQueue' \in [Pid -> Seq(0..BlockLoad)]
  BY <1>1, <1>2, ThenEndFacts, ThenAskFacts DEF _LoginRole1
<1>4. CASE ~IsLogining(p) /\ ThenEnd(p) /\ UNCHANGED <<loginPlayers, toLogin>>
  <2>1. TypeOK'
    BY <1>1, <1>2, <1>3, <1>4 DEF TypeOK
  <2>2. OneObject' /\ SocketOwned' /\ OnTheWay' /\ Arrived' /\ Refused'
    BY <1>2, <1>4, PlayersAsTheyWere DEF IsLogining
  <2>3. OneBlockLoad' /\ InOrder'
    BY <1>1, <1>2, <1>4, ChainEnded
  <2> QED
    BY <2>1, <2>2, <2>3 DEF IInv
<1>5. CASE IsLogining(p) /\ ThenAsk(p, 1) /\ UNCHANGED <<loginPlayers, toLogin>>
  <2>1. TypeOK'
    BY <1>1, <1>2, <1>3, <1>5 DEF TypeOK
  <2>2. OneObject' /\ SocketOwned' /\ OnTheWay' /\ Arrived' /\ Refused'
    BY <1>2, <1>5, PlayersAsTheyWere DEF IsLogining
  <2>3. OneBlockLoad' /\ InOrder'
    <3>1. loginPlayers' \in [Pid -> Player \cup {None}]
      BY <2>1 DEF TypeOK
    <3> QED
      BY <1>1, <1>2, <1>5, <3>1, ChainGoesOn DEF IsLogining
  <2> QED
    BY <2>1, <2>2, <2>3 DEF IInv
<1>6. CASE /\ IsLogining(p)
           /\ ThenEnd(p)
           /\ loginPlayers' = [loginPlayers EXCEPT ![p] = None]
           /\ Send(Result(p, loginPlayers[p].handle, loginPlayers[p].token, "not_exist_player"))
  <2> DEFINE r == Result(p, loginPlayers[p].handle, loginPlayers[p].token, "not_exist_player")
  <2>1. loginPlayers[p] \in Player
    BY <1>1, <1>6 DEF IsLogining, TypeOK
  <2>2. r \in Reply /\ r.errcode = "not_exist_player"
    BY <2>1 DEF Result, Reply, Player
  <2>3. toLogin' \in Seq(Reply) /\ DOMAIN toLogin' = {1} /\ toLogin'[1] = r
    <3> HIDE DEF r
    <3>1. Send(r)
      BY <1>6 DEF r
    <3> QED
      BY <1>1, <2>2, <3>1, SendFacts
  <2>4. /\ loginPlayers' \in [Pid -> Player \cup {None}] /\ loginPlayers'[p] = None
        /\ \A q \in Pid \ {p} : loginPlayers'[q] = loginPlayers[q]
    BY <1>1, <1>6 DEF TypeOK
  <2>5. TypeOK'
    BY <1>1, <1>2, <1>3, <2>3, <2>4 DEF TypeOK
  <2>6. \A q \in Pid : IsLogining(q)' => IsLogining(q)
    BY <2>4 DEF IsLogining
  <2>7. PlayersKept /\ OneObject'
    <3>1. ~IsOnline(p)
      BY <1>1, <1>6 DEF OneObject
    <3> QED
      BY <1>1, <1>2, <2>4, <2>6, <3>1 DEF PlayersKept, PlayerOf, IsLogining, IsOnline, OneObject
  <2>8. SocketOwned' /\ OnTheWay' /\ Arrived'
    BY <1>1, <1>2, <2>7, SocketsKept, MailTaken, ArrivedKept
  <2>9. Refused'
    BY <2>2, <2>3, NobodyRefused
  <2>10. OneBlockLoad'
    BY <1>1, <1>2, <1>6, ThenEndFacts DEF IInv, OneBlockLoad
  <2>11. InOrder'
    <3>1. \A q \in Pid : \A i \in DOMAIN dbQueue'[q] :
            \E j \in DOMAIN dbQueue[q] : dbQueue'[q][i] = dbQueue[q][j]
      BY <1>1, <1>6, ThenEndFacts
    <3> QED
      BY <1>2, <2>4, <3>1 DEF IInv, InOrder, IsLogining, IsOnline, Data
  <2> QED
    BY <2>5, <2>7, <2>8, <2>9, <2>10, <2>11 DEF IInv
<1> QED
  BY <1>4, <1>5, <1>6 DEF _LoginRole1

\* The requests of a chain that ended are still the ones that were under way.
LEMMA EndedLoads ==
  ASSUME TypeOK, NEW p \in Pid, dbQueue[p] # <<>>, ThenEnd(p)
  PROVE  \A q \in Pid : \A i \in DOMAIN dbQueue'[q] :
           \E j \in DOMAIN dbQueue[q] : dbQueue'[q][i] = dbQueue[q][j]
<1>1. \A i \in DOMAIN dbQueue'[p] :
        i + 1 \in DOMAIN dbQueue[p] /\ dbQueue'[p][i] = dbQueue[p][i + 1]
  BY ThenEndFacts
<1>2. \A q \in Pid \ {p} : dbQueue'[q] = dbQueue[q]
  BY ThenEndFacts
<1> QED
  BY <1>1, <1>2

\* An answered request leaves no second request for the blocks.
LEMMA EndedOneBlockLoad ==
  ASSUME TypeOK, OneBlockLoad, NEW p \in Pid, dbQueue[p] # <<>>, ThenEnd(p),
         \A q \in Pid : block[q] = "loading" => block'[q] = "loading"
  PROVE  OneBlockLoad'
<1>1. /\ \A i \in DOMAIN dbQueue'[p] : i + 1 \in DOMAIN dbQueue[p] /\ dbQueue'[p][i] = dbQueue[p][i + 1]
      /\ \A i, j \in DOMAIN dbQueue'[p] : i + 1 = j + 1 => i = j
  BY ThenEndFacts
<1>2. \A q \in Pid \ {p} : dbQueue'[q] = dbQueue[q]
  BY ThenEndFacts
<1> QED
  BY <1>1, <1>2 DEF OneBlockLoad, BlockLoad

\* Players that leave or come online complete do not disturb the order.
LEMMA InOrderKept ==
  ASSUME InOrder, waiting' \subseteq waiting, overlapped' = overlapped,
         \A q \in Pid : \A i \in DOMAIN dbQueue'[q] :
           \E j \in DOMAIN dbQueue[q] : dbQueue'[q][i] = dbQueue[q][j],
         \A q \in Pid : /\ IsLogining(q)' => IsLogining(q) /\ loginPlayers'[q].loaded = loginPlayers[q].loaded
                        /\ IsOnline(q)' => \/ IsOnline(q) /\ onlinePlayers'[q].loaded = onlinePlayers[q].loaded
                                           \/ q \in overlapped
                                           \/ onlinePlayers'[q].loaded = Data
  PROVE  InOrder'
<1> SUFFICES ASSUME NEW q \in Pid \ overlapped
             PROVE  /\ IsLogining(q)' =>
                         /\ \A i \in DOMAIN dbQueue'[q] : dbQueue'[q][i] # BlockLoad =>
                              \A d \in Data : d < dbQueue'[q][i] => d \in loginPlayers'[q].loaded
                         /\ q \in waiting' => loginPlayers'[q].loaded = Data
                    /\ IsOnline(q)' => onlinePlayers'[q].loaded = Data
  BY DEF InOrder, BlockLoad, Data, LastModule
<1>1. ASSUME IsLogining(q)', NEW i \in DOMAIN dbQueue'[q], dbQueue'[q][i] # BlockLoad
      PROVE  \A d \in Data : d < dbQueue'[q][i] => d \in loginPlayers'[q].loaded
  BY <1>1 DEF InOrder
<1>2. IsLogining(q)' /\ q \in waiting' => loginPlayers'[q].loaded = Data
  BY DEF InOrder
<1>3. IsOnline(q)' => onlinePlayers'[q].loaded = Data
  BY DEF InOrder
<1> QED
  BY <1>1, <1>2, <1>3

\* The last answer asks for the blocks, waits for them or puts the player online.
LEMMA LoginLoadOfflinesKeeps ==
  ASSUME IInv, toLogin = <<>>, UNCHANGED envVars, NEW p \in Pid, _LoginLoadOfflines(p)
  PROVE  IInv'
<1>1. /\ TypeOK /\ OneBlockLoad /\ InOrder /\ Answered(p, LastModule)
      /\ dbQueue[p] # <<>> /\ dbQueue[p] \in Seq(0..BlockLoad)
  BY DEF IInv, _LoginLoadOfflines, Answered, TypeOK
<1>2. /\ LastModule \in Data /\ BlockLoad \in 0..BlockLoad /\ LastModule # BlockLoad /\ BlockLoad \in Nat
      /\ Data \subseteq Nat /\ \A d \in Data : d # LastModule => d < LastModule
      /\ UNCHANGED <<connections, monitor, failing, overlapped, toWorld, waitQueue, busy, gone, lastToken>>
  BY WorldLoginAssumption DEF Data, LastModule, BlockLoad, _LoginLoadOfflines, envVars
<1>3. 1 \in DOMAIN dbQueue[p] /\ dbQueue[p][1] = LastModule
  BY <1>1, TailFacts DEF Answered
\* What a chain of its own has loaded when its last answer comes.
<1>4. p \notin overlapped /\ IsLogining(p) => loginPlayers[p].loaded \cup {LastModule} = Data
  <2> SUFFICES ASSUME p \notin overlapped, IsLogining(p)
               PROVE  loginPlayers[p].loaded \cup {LastModule} = Data
    OBVIOUS
  <2>1. loginPlayers[p].loaded \subseteq Data
    BY <1>1 DEF TypeOK, Player, IsLogining
  <2>2. \A d \in Data : d < LastModule => d \in loginPlayers[p].loaded
    BY <1>1, <1>2, <1>3 DEF InOrder
  <2> QED
    BY <1>2, <2>1, <2>2
<1>5. CASE /\ block[p] = "loaded"
           /\ ThenEnd(p)
           /\ LoadEnd(p, IF IsLogining(p)
                         THEN [loginPlayers[p] EXCEPT !.loaded = @ \cup {LastModule}] ELSE None)
           /\ UNCHANGED <<block, waiting>>
  <2> DEFINE player == IF IsLogining(p)
                       THEN [loginPlayers[p] EXCEPT !.loaded = @ \cup {LastModule}] ELSE None
  <2>1. IsLogining(p) => /\ player \in Player
                         /\ player.handle = loginPlayers[p].handle
                         /\ player.token = loginPlayers[p].token
                         /\ player.loaded = loginPlayers[p].loaded \cup {LastModule}
    <3>1. IsLogining(p) => loginPlayers[p] \in Player
      BY <1>1 DEF TypeOK, IsLogining
    <3> QED
      BY <1>2, <3>1 DEF Player
  <2>2. ~IsLogining(p) => player = None
    OBVIOUS
  <2>3. LoadEnd(p, player)
    BY <1>5
  <2> HIDE DEF player
  <2>4. player # None <=> IsLogining(p)
    BY <2>1, <2>2, WorldLoginAssumption
  <2>5. player \in Player \cup {None}
    BY <2>1, <2>2
  <2>6. /\ loginPlayers' \in [Pid -> Player \cup {None}]
        /\ onlinePlayers' \in [Pid -> Player \cup {None}]
        /\ toLogin' \in Seq(Reply)
        /\ OneObject' /\ SocketOwned' /\ OnTheWay' /\ Arrived' /\ Refused'
        /\ \A q \in Pid \ {p} : loginPlayers'[q] = loginPlayers[q] /\ onlinePlayers'[q] = onlinePlayers[q]
        /\ player = None => UNCHANGED <<loginPlayers, onlinePlayers>>
        /\ player # None => loginPlayers'[p] = None /\ onlinePlayers'[p] = player
    BY <1>2, <2>1, <2>3, <2>4, <2>5, LoadEndFacts
  <2>7. TypeOK'
    BY <1>1, <1>2, <1>5, <2>6, ThenEndFacts DEF TypeOK
  <2>8. OneBlockLoad'
    BY <1>1, <1>5, EndedOneBlockLoad
  <2>9. InOrder'
    <3>1. ASSUME NEW q \in Pid
          PROVE  /\ IsLogining(q)' => IsLogining(q) /\ loginPlayers'[q].loaded = loginPlayers[q].loaded
                 /\ IsOnline(q)' => \/ IsOnline(q) /\ onlinePlayers'[q].loaded = onlinePlayers[q].loaded
                                    \/ q \in overlapped
                                    \/ onlinePlayers'[q].loaded = Data
      BY <1>4, <2>1, <2>2, <2>4, <2>6 DEF IsLogining, IsOnline
    <3>2. \A q \in Pid : \A i \in DOMAIN dbQueue'[q] :
            \E j \in DOMAIN dbQueue[q] : dbQueue'[q][i] = dbQueue[q][j]
      BY <1>1, <1>5, EndedLoads
    <3> QED
      BY <1>1, <1>2, <1>5, <3>1, <3>2, InOrderKept
  <2> QED
    BY <2>6, <2>7, <2>8, <2>9 DEF IInv
<1>6. CASE /\ block[p] # "loaded"
           /\ waiting' = waiting \cup {p}
           /\ LoadInto(p, LastModule)
           /\ block' = [block EXCEPT ![p] = "loading"]
           /\ IF block[p] = "none" THEN ThenAsk(p, BlockLoad) ELSE ThenEnd(p)
           /\ UNCHANGED <<onlinePlayers, toLogin>>
  <2>1. /\ loginPlayers' \in [Pid -> Player \cup {None}]
        /\ \A q \in Pid :
             /\ IsLogining(q)' <=> IsLogining(q)
             /\ IsLogining(q) => /\ loginPlayers'[q].handle = loginPlayers[q].handle
                                 /\ loginPlayers'[q].token = loginPlayers[q].token
                                 /\ loginPlayers[q].loaded \subseteq loginPlayers'[q].loaded
        /\ IsLogining(p) => LastModule \in loginPlayers'[p].loaded
    BY <1>1, <1>2, <1>6, LoadIntoFacts
  <2>2. dbQueue' \in [Pid -> Seq(0..BlockLoad)]
    BY <1>1, <1>2, <1>6, ThenEndFacts, ThenAskFacts
  <2>3. /\ block' \in [Pid -> {"none", "loading", "loaded"}] /\ block'[p] = "loading"
        /\ \A q \in Pid \ {p} : block'[q] = block[q]
    BY <1>1, <1>6 DEF TypeOK
  <2>4. TypeOK'
    BY <1>1, <1>2, <1>6, <2>1, <2>2, <2>3 DEF TypeOK
  <2>5. OneObject' /\ SocketOwned' /\ OnTheWay' /\ Arrived' /\ Refused'
    BY <1>2, <1>6, <2>1, PlayersAsTheyWere DEF envVars
  <2>6. OneBlockLoad'
    <3>1. CASE block[p] = "none"
      <4>1. \A i \in DOMAIN dbQueue[p] : dbQueue[p][i] # BlockLoad
        BY <1>1, <3>1 DEF OneBlockLoad
      <4>2. /\ \A i \in DOMAIN dbQueue'[p] : dbQueue'[p][i] = BlockLoad => i = Len(dbQueue[p])
            /\ \A q \in Pid \ {p} : dbQueue'[q] = dbQueue[q]
        BY <1>1, <1>2, <1>6, <3>1, <4>1, ThenAskFacts
      <4> QED
        BY <1>1, <2>3, <4>2 DEF OneBlockLoad, BlockLoad
    <3>2. CASE block[p] # "none"
      BY <1>1, <1>6, <2>3, <3>2, EndedOneBlockLoad
    <3> QED
      BY <3>1, <3>2
  <2>7. \A q \in Pid : \A i \in DOMAIN dbQueue'[q] :
          \/ dbQueue'[q][i] = BlockLoad
          \/ \E j \in DOMAIN dbQueue[q] : dbQueue'[q][i] = dbQueue[q][j]
    <3>1. CASE block[p] = "none"
      <4>1. /\ \A i \in DOMAIN dbQueue'[p] :
                 \/ i + 1 \in DOMAIN dbQueue[p] /\ dbQueue'[p][i] = dbQueue[p][i + 1]
                 \/ dbQueue'[p][i] = BlockLoad
            /\ \A q \in Pid \ {p} : dbQueue'[q] = dbQueue[q]
        BY <1>1, <1>2, <1>6, <3>1, ThenAskFacts
      <4> QED
        BY <4>1
    <3>2. CASE block[p] # "none"
      BY <1>1, <1>6, <3>2, EndedLoads
    <3> QED
      BY <3>1, <3>2
  <2>8. ASSUME NEW q \in Pid \ overlapped', IsLogining(q)'
        PROVE  /\ \A i \in DOMAIN dbQueue'[q] : dbQueue'[q][i] # BlockLoad =>
                    \A d \in Data : d < dbQueue'[q][i] => d \in loginPlayers'[q].loaded
               /\ q \in waiting' => loginPlayers'[q].loaded = Data
    <3>1. IsLogining(q) /\ loginPlayers[q].loaded \subseteq loginPlayers'[q].loaded /\ q \notin overlapped
      BY <1>2, <2>1, <2>8
    <3>2. loginPlayers'[q].loaded \subseteq Data
      BY <2>1, <2>8 DEF Player, IsLogining
    <3>3. q \in waiting' => loginPlayers'[q].loaded = Data
      BY <1>1, <1>4, <1>6, <2>1, <3>1, <3>2 DEF InOrder
    <3>4. \A i \in DOMAIN dbQueue'[q] : dbQueue'[q][i] # BlockLoad =>
            \A d \in Data : d < dbQueue'[q][i] => d \in loginPlayers'[q].loaded
      BY <1>1, <2>7, <3>1 DEF InOrder
    <3> QED
      BY <3>3, <3>4
  <2>9. InOrder'
    BY <1>1, <1>2, <1>6, <2>8 DEF InOrder, IsOnline, Data, LastModule, BlockLoad
  <2> QED
    BY <2>4, <2>5, <2>6, <2>9 DEF IInv
<1> QED
  BY <1>5, <1>6 DEF _LoginLoadOfflines

\* With the blocks, whether they came or not, a waiting player goes online.
LEMMA BlockAnswerKeeps ==
  ASSUME IInv, toLogin = <<>>, UNCHANGED envVars, NEW p \in Pid, NEW success \in BOOLEAN,
         BlockAnswer(p, success)
  PROVE  IInv'
<1> DEFINE player == IF p \in waiting THEN loginPlayers[p] ELSE None
<1>1. /\ TypeOK /\ OneBlockLoad /\ InOrder
      /\ dbQueue[p] # <<>> /\ ThenEnd(p) /\ dbQueue[p] \in Seq(0..BlockLoad)
      /\ Head(dbQueue[p]) = BlockLoad
  BY DEF IInv, BlockAnswer, Answered, TypeOK
<1>2. /\ UNCHANGED <<connections, monitor, failing, overlapped, toWorld, waitQueue, busy, gone, lastToken>>
      /\ waiting' \subseteq waiting
      /\ block' = [block EXCEPT ![p] = IF success THEN "loaded" ELSE "none"]
  BY DEF BlockAnswer, envVars
<1>3. player \in Player \cup {None} /\ (player # None => player = loginPlayers[p] /\ IsLogining(p) /\ p \in waiting)
  BY <1>1 DEF TypeOK, IsLogining
<1>4. LoadEnd(p, player)
  BY DEF BlockAnswer
<1> HIDE DEF player
<1>5. /\ loginPlayers' \in [Pid -> Player \cup {None}]
      /\ onlinePlayers' \in [Pid -> Player \cup {None}]
      /\ toLogin' \in Seq(Reply)
      /\ OneObject' /\ SocketOwned' /\ OnTheWay' /\ Arrived' /\ Refused'
      /\ \A q \in Pid \ {p} : loginPlayers'[q] = loginPlayers[q] /\ onlinePlayers'[q] = onlinePlayers[q]
      /\ player = None => UNCHANGED <<loginPlayers, onlinePlayers>>
      /\ player # None => loginPlayers'[p] = None /\ onlinePlayers'[p] = player
  BY <1>2, <1>3, <1>4, LoadEndFacts
<1>6. TypeOK'
  <2>1. dbQueue' \in [Pid -> Seq(0..BlockLoad)]
    BY <1>1, ThenEndFacts
  <2>2. block' \in [Pid -> {"none", "loading", "loaded"}]
    BY <1>1, <1>2 DEF TypeOK
  <2> QED
    BY <1>1, <1>2, <1>5, <2>1, <2>2 DEF TypeOK
<1>7. OneBlockLoad'
  <2>1. \A i \in DOMAIN dbQueue'[p] : i + 1 \in DOMAIN dbQueue[p] /\ i + 1 # 1 /\ dbQueue'[p][i] = dbQueue[p][i + 1]
    BY <1>1, ThenEndFacts
  <2>2. 1 \in DOMAIN dbQueue[p] /\ dbQueue[p][1] = BlockLoad
    BY <1>1, ThenEndFacts
  <2>3. \A i \in DOMAIN dbQueue'[p] : dbQueue'[p][i] # BlockLoad
    BY <1>1, <2>1, <2>2 DEF OneBlockLoad
  <2>4. \A q \in Pid \ {p} : dbQueue'[q] = dbQueue[q] /\ block'[q] = block[q]
    BY <1>1, <1>2, ThenEndFacts DEF TypeOK
  <2> QED
    BY <1>1, <2>3, <2>4 DEF OneBlockLoad, BlockLoad
<1>8. InOrder'
  <2>1. p \in waiting /\ p \notin overlapped /\ IsLogining(p) => loginPlayers[p].loaded = Data
    BY <1>1 DEF InOrder
  <2>2. ASSUME NEW q \in Pid
        PROVE  /\ IsLogining(q)' => IsLogining(q) /\ loginPlayers'[q].loaded = loginPlayers[q].loaded
               /\ IsOnline(q)' => \/ IsOnline(q) /\ onlinePlayers'[q].loaded = onlinePlayers[q].loaded
                                  \/ q \in overlapped
                                  \/ onlinePlayers'[q].loaded = Data
    BY <1>3, <1>5, <2>1 DEF IsLogining, IsOnline
  <2>3. \A q \in Pid : \A i \in DOMAIN dbQueue'[q] :
          \E j \in DOMAIN dbQueue[q] : dbQueue'[q][i] = dbQueue[q][j]
    BY <1>1, EndedLoads
  <2> QED
    BY <1>1, <1>2, <2>2, <2>3, InOrderKept
<1> QED
  BY <1>5, <1>6, <1>7, <1>8 DEF IInv

\* Another feature asks for the blocks only when nobody has.
LEMMA LoadOfflineBlockKeeps ==
  ASSUME IInv, UNCHANGED envVars, NEW p \in Pid, LoadOfflineBlock(p)
  PROVE  IInv'
<1>1. /\ TypeOK /\ OneBlockLoad /\ InOrder /\ block[p] = "none" /\ dbQueue' = Ask(p, BlockLoad)
      /\ BlockLoad \in 0..BlockLoad
  BY WorldLoginAssumption DEF IInv, LoadOfflineBlock, BlockLoad
<1>2. /\ UNCHANGED <<loginPlayers, onlinePlayers, connections, waiting, monitor, failing,
                     overlapped, toWorld, toLogin, waitQueue, busy, gone, lastToken>>
      /\ block' = [block EXCEPT ![p] = "loading"]
  BY DEF LoadOfflineBlock, envVars
<1>3. /\ dbQueue' \in [Pid -> Seq(0..BlockLoad)]
      /\ \A q \in Pid \ {p} : dbQueue'[q] = dbQueue[q]
      /\ \A i \in DOMAIN dbQueue'[p] :
           \/ i \in DOMAIN dbQueue[p] /\ dbQueue'[p][i] = dbQueue[p][i]
           \/ i = Len(dbQueue[p]) + 1 /\ dbQueue'[p][i] = BlockLoad
  BY <1>1, AskFacts
<1>4. /\ block' \in [Pid -> {"none", "loading", "loaded"}] /\ block'[p] = "loading"
      /\ \A q \in Pid \ {p} : block'[q] = block[q]
  BY <1>1, <1>2 DEF TypeOK
<1>5. TypeOK'
  BY <1>1, <1>2, <1>3, <1>4 DEF TypeOK
<1>6. OneObject' /\ SocketOwned' /\ OnTheWay' /\ Arrived' /\ Refused'
  BY <1>2, PlayersAsTheyWere DEF IsLogining, envVars
<1>7. OneBlockLoad'
  <2>1. \A i \in DOMAIN dbQueue[p] : dbQueue[p][i] # BlockLoad
    BY <1>1 DEF OneBlockLoad
  <2>2. \A i \in DOMAIN dbQueue'[p] : dbQueue'[p][i] = BlockLoad => i = Len(dbQueue[p]) + 1
    BY <1>3, <2>1
  <2>3. ASSUME NEW q \in Pid \ {p}, NEW i \in DOMAIN dbQueue'[q], dbQueue'[q][i] = BlockLoad
        PROVE  block'[q] = "loading" /\ \A j \in DOMAIN dbQueue'[q] : dbQueue'[q][j] = BlockLoad => i = j
    BY <1>1, <1>3, <1>4, <2>3 DEF OneBlockLoad
  <2>4. ASSUME NEW i \in DOMAIN dbQueue'[p], dbQueue'[p][i] = BlockLoad
        PROVE  block'[p] = "loading" /\ \A j \in DOMAIN dbQueue'[p] : dbQueue'[p][j] = BlockLoad => i = j
    BY <1>4, <2>2, <2>4
  <2> QED
    BY <2>3, <2>4 DEF OneBlockLoad, BlockLoad
<1>8. InOrder'
  <2>1. \A q \in Pid : \A i \in DOMAIN dbQueue'[q] :
          \/ dbQueue'[q][i] = BlockLoad
          \/ \E j \in DOMAIN dbQueue[q] : dbQueue'[q][i] = dbQueue[q][j]
    BY <1>3
  <2>2. ASSUME NEW q \in Pid \ overlapped, IsLogining(q), NEW i \in DOMAIN dbQueue'[q],
               dbQueue'[q][i] # BlockLoad, NEW d \in Data, d < dbQueue'[q][i]
        PROVE  d \in loginPlayers[q].loaded
    BY <1>1, <2>1, <2>2 DEF InOrder
  <2> QED
    BY <1>1, <1>2, <2>2 DEF InOrder, IsLogining, IsOnline, Data, LastModule, BlockLoad
<1> QED
  BY <1>5, <1>6, <1>7, <1>8 DEF IInv

\* Blocks that are dropped were loaded, so no request for them is under way.
LEMMA CleanOfflineBlockKeeps ==
  ASSUME IInv, UNCHANGED envVars, NEW p \in Pid, CleanOfflineBlock(p)
  PROVE  IInv'
<1>1. /\ TypeOK /\ OneBlockLoad /\ InOrder /\ block[p] = "loaded"
      /\ block' = [block EXCEPT ![p] = "none"]
      /\ UNCHANGED <<loginPlayers, onlinePlayers, connections, dbQueue, waiting, monitor, failing,
                     overlapped, toWorld, toLogin, waitQueue, busy, gone, lastToken>>
  BY DEF IInv, CleanOfflineBlock, envVars
<1>2. /\ block' \in [Pid -> {"none", "loading", "loaded"}]
      /\ \A q \in Pid \ {p} : block'[q] = block[q]
  BY <1>1 DEF TypeOK
<1>3. TypeOK'
  BY <1>1, <1>2 DEF TypeOK
<1>4. OneObject' /\ SocketOwned' /\ OnTheWay' /\ Arrived' /\ Refused'
  BY <1>1, PlayersAsTheyWere DEF IsLogining, envVars
<1>5. OneBlockLoad' /\ InOrder'
  BY <1>1, <1>2 DEF OneBlockLoad, InOrder, IsLogining, IsOnline, Data, LastModule, BlockLoad
<1> QED
  BY <1>3, <1>4, <1>5 DEF IInv

-----------------------------------------------------------------------------
\* Steps that leave the chains alone, and what is written to the players.
LEMMA ChainsUntouched ==
  ASSUME IInv, UNCHANGED <<dbQueue, block, waiting, overlapped>>,
         \A q \in Pid : /\ IsLogining(q)' => IsLogining(q) /\ loginPlayers'[q].loaded = loginPlayers[q].loaded
                        /\ IsOnline(q)' => IsOnline(q) /\ onlinePlayers'[q].loaded = onlinePlayers[q].loaded
  PROVE  OneBlockLoad' /\ InOrder'
<1>1. InOrder /\ OneBlockLoad
  BY DEF IInv
<1>2. OneBlockLoad'
  BY <1>1 DEF OneBlockLoad, BlockLoad
<1>3. InOrder'
  BY <1>1, InOrderKept
<1> QED
  BY <1>2, <1>3

\* The socket of the owner's player is taken away.
LEMMA HandleCleared ==
  ASSUME TypeOK, OneObject, NEW p \in Pid,
         loginPlayers' = LoginWithHandle(p, None),
         onlinePlayers' = OnlineWithHandle(p, None)
  PROVE  /\ loginPlayers' \in [Pid -> Player \cup {None}]
         /\ onlinePlayers' \in [Pid -> Player \cup {None}]
         /\ \A q \in Pid \ {p} : loginPlayers'[q] = loginPlayers[q] /\ onlinePlayers'[q] = onlinePlayers[q]
         /\ IsLogining(p)' <=> IsLogining(p)
         /\ IsOnline(p)' <=> IsOnline(p)
         /\ IsLogining(p) => /\ loginPlayers'[p].loaded = loginPlayers[p].loaded
                             /\ loginPlayers'[p].token = loginPlayers[p].token
                             /\ loginPlayers'[p].handle = None
         /\ IsOnline(p) => /\ onlinePlayers'[p].loaded = onlinePlayers[p].loaded
                           /\ onlinePlayers'[p].token = onlinePlayers[p].token
                           /\ onlinePlayers'[p].handle = None
<1> DEFINE Cleared(r) == [r EXCEPT !.handle = None]
<1>1. ASSUME NEW r \in Player
      PROVE  /\ Cleared(r) \in Player /\ Cleared(r) # None
             /\ Cleared(r).handle = None /\ Cleared(r).token = r.token /\ Cleared(r).loaded = r.loaded
  <2>1. /\ Cleared(r) \in Player
        /\ Cleared(r).handle = None /\ Cleared(r).token = r.token /\ Cleared(r).loaded = r.loaded
    BY DEF Player
  <2> QED
    BY <2>1, WorldLoginAssumption
<1>2. CASE IsLogining(p)
  <2>1. loginPlayers' = [loginPlayers EXCEPT ![p] = Cleared(loginPlayers[p])] /\ onlinePlayers' = onlinePlayers
    BY <1>2 DEF LoginWithHandle, OnlineWithHandle
  <2>2. loginPlayers[p] \in Player /\ ~IsOnline(p)
    BY <1>2 DEF TypeOK, IsLogining, OneObject
  <2> HIDE DEF Cleared
  <2> QED
    BY <1>1, <1>2, <2>1, <2>2 DEF TypeOK, IsLogining, IsOnline
<1>3. CASE ~IsLogining(p) /\ IsOnline(p)
  <2>1. onlinePlayers' = [onlinePlayers EXCEPT ![p] = Cleared(onlinePlayers[p])] /\ loginPlayers' = loginPlayers
    BY <1>3 DEF LoginWithHandle, OnlineWithHandle
  <2>2. onlinePlayers[p] \in Player
    BY <1>3 DEF TypeOK, IsOnline
  <2> HIDE DEF Cleared
  <2> QED
    BY <1>1, <1>3, <2>1, <2>2 DEF TypeOK, IsLogining, IsOnline
<1>4. CASE ~IsLogining(p) /\ ~IsOnline(p)
  BY <1>4 DEF TypeOK, LoginWithHandle, OnlineWithHandle, IsLogining, IsOnline
<1> QED
  BY <1>2, <1>3, <1>4

\* A closed socket is taken from the one player it belongs to.
LEMMA DelConnectionKeeps ==
  ASSUME IInv, toLogin = <<>>, UNCHANGED envVars, DelConnection
  PROVE  IInv'
<1> DEFINE h == Head(toWorld).handle
<1>1. /\ TypeOK /\ OneObject /\ SocketOwned /\ OnTheWay /\ Arrived
      /\ toWorld # <<>> /\ toWorld' = Tail(toWorld) /\ UNCHANGED <<toLogin, waitQueue, busy, gone, lastToken>>
  BY DEF IInv, DelConnection, envVars
<1>2. Head(toWorld) \in Message /\ toWorld' \in Seq(Message)
  BY <1>1, TailFacts DEF TypeOK
<1>3. h \in Handle /\ connections[h] \in Pid \cup {None}
  BY <1>1, <1>2 DEF DelConnection, Message, TypeOK
<1>4. DOMAIN toLogin' = {}
  BY <1>1 DEF TypeOK
<1>5. Refused'
  BY <1>4, NobodyRefused
<1>6. OnTheWay'
  BY <1>1, MailTaken
<1>7. CASE connections[h] = None /\ UNCHANGED worldVars
  <2>1. PlayersKept
    BY <1>7 DEF worldVars, PlayersKept, PlayerOf, IsLogining
  <2>2. Arrived'
    BY <1>1, <2>1, ArrivedKept
  <2>3. OneObject' /\ SocketOwned'
    BY <1>1, <1>7 DEF worldVars, OneObject, SocketOwned, PlayerOf, IsLogining, IsOnline
  <2>4. TypeOK'
    BY <1>1, <1>2, <1>7 DEF worldVars, TypeOK
  <2>5. OneBlockLoad' /\ InOrder'
    BY <1>7, ChainsUntouched DEF worldVars, IsLogining, IsOnline
  <2> QED
    BY <1>5, <1>6, <2>2, <2>3, <2>4, <2>5 DEF IInv
<1>8. ASSUME NEW p \in Pid, p = connections[h],
             /\ connections' = [connections EXCEPT ![h] = None]
             /\ loginPlayers' = LoginWithHandle(p, None)
             /\ onlinePlayers' = OnlineWithHandle(p, None)
             /\ UNCHANGED <<dbQueue, block, waiting, monitor, failing, overlapped>>
      PROVE  IInv'
  <2> HIDE DEF h
  <2>2. /\ loginPlayers' \in [Pid -> Player \cup {None}]
        /\ onlinePlayers' \in [Pid -> Player \cup {None}]
        /\ \A q \in Pid \ {p} : loginPlayers'[q] = loginPlayers[q] /\ onlinePlayers'[q] = onlinePlayers[q]
        /\ IsLogining(p)' <=> IsLogining(p)
        /\ IsOnline(p)' <=> IsOnline(p)
        /\ IsLogining(p) => /\ loginPlayers'[p].loaded = loginPlayers[p].loaded
                            /\ loginPlayers'[p].token = loginPlayers[p].token
                            /\ loginPlayers'[p].handle = None
        /\ IsOnline(p) => /\ onlinePlayers'[p].loaded = onlinePlayers[p].loaded
                          /\ onlinePlayers'[p].token = onlinePlayers[p].token
                          /\ onlinePlayers'[p].handle = None
    BY <1>1, <1>8, HandleCleared
  <2>3. PlayerOf(p)' # None => PlayerOf(p) # None /\ PlayerOf(p)'.handle = None
    BY <2>2 DEF PlayerOf, IsLogining, IsOnline
  <2>4. \A q \in Pid \ {p} : PlayerOf(q)' = PlayerOf(q)
    BY <2>2 DEF PlayerOf, IsLogining
  <2>5. PlayersKept
    BY <2>2, <2>3, <2>4 DEF PlayersKept, IsLogining
  <2>6. connections' \in [Handle -> Pid \cup {None}] /\ \A k \in Handle \ {h} : connections'[k] = connections[k]
    BY <1>1, <1>8 DEF TypeOK
  <2>7. TypeOK'
    BY <1>1, <1>2, <1>8, <2>2, <2>6 DEF TypeOK
  <2>8. OneObject'
    BY <1>1, <2>2 DEF OneObject, IsLogining, IsOnline
  <2>9. SocketOwned'
    <3>1. ASSUME NEW q \in Pid, PlayerOf(q)' # None, PlayerOf(q)'.handle # None
          PROVE  connections'[PlayerOf(q)'.handle] = connections[PlayerOf(q)'.handle]
      <4>1. q # p /\ PlayerOf(q)' = PlayerOf(q)
        BY <2>3, <2>4, <3>1
      <4>2. connections[PlayerOf(q).handle] = q
        BY <1>1, <3>1, <4>1 DEF SocketOwned
      <4>3. PlayerOf(q).handle \in Handle
        BY <1>1, <3>1, <4>1 DEF TypeOK, PlayerOf, IsLogining, Player
      <4>4. PlayerOf(q).handle # h
        BY <1>8, <4>1, <4>2
      <4> QED
        BY <2>6, <4>1, <4>3, <4>4
    <3> QED
      BY <1>1, <2>5, <3>1, SocketsKept
  <2>10. Arrived'
    BY <1>1, <2>5, ArrivedKept
  <2>11. OneBlockLoad' /\ InOrder'
    <3>1. ASSUME NEW q \in Pid
          PROVE  /\ IsLogining(q)' => IsLogining(q) /\ loginPlayers'[q].loaded = loginPlayers[q].loaded
                 /\ IsOnline(q)' => IsOnline(q) /\ onlinePlayers'[q].loaded = onlinePlayers[q].loaded
      BY <2>2 DEF IsLogining, IsOnline
    <3> QED
      BY <1>8, <3>1, ChainsUntouched
  <2> QED
    BY <1>5, <1>6, <2>7, <2>8, <2>9, <2>10, <2>11 DEF IInv
<1> QED
  BY <1>3, <1>7, <1>8 DEF DelConnection

-----------------------------------------------------------------------------
\* The socket and the token of the login that arrives are nobody's.
LEMMA ArrivalFacts ==
  ASSUME IInv, toWorld # <<>>, Head(toWorld).type = "LoginPlayer", toWorld' = Tail(toWorld),
         NEW m, m = Head(toWorld)
  PROVE  /\ toWorld' \in Seq(Message)
         /\ m.pid \in Pid /\ m.handle \in Handle /\ m.token \in Token
         /\ m.handle \in busy /\ m.token <= lastToken
         /\ \A i \in DOMAIN toWorld' : LoginIn(toWorld'[i]) =>
              toWorld'[i].handle # m.handle /\ toWorld'[i].token # m.token
         /\ \A q \in Pid : waitQueue[q] # None =>
              waitQueue[q].handle # m.handle /\ waitQueue[q].token # m.token
         /\ \A q \in Pid : /\ PlayerOf(q) # None => PlayerOf(q).handle # m.handle
                           /\ IsLogining(q) => loginPlayers[q].token # m.token
<1>1. TypeOK /\ OnTheWay /\ Arrived
  BY DEF IInv
<1>2. /\ toWorld' \in Seq(Message) /\ m \in Message
      /\ 1 \in DOMAIN toWorld /\ m = toWorld[1]
      /\ \A i \in DOMAIN toWorld' : i + 1 \in DOMAIN toWorld /\ i + 1 # 1 /\ toWorld'[i] = toWorld[i + 1]
  BY <1>1, TailFacts DEF TypeOK
<1>3. m.pid \in Pid /\ m.handle \in Handle /\ m.token \in Token /\ LoginIn(m) /\ m.handle # None
  BY <1>2, WorldLoginAssumption DEF Message, LoginIn
<1>4. m.handle \in busy /\ m.token <= lastToken
  BY <1>1, <1>2, <1>3 DEF OnTheWay
<1>5. \A i \in DOMAIN toWorld' : LoginIn(toWorld'[i]) =>
        toWorld'[i].handle # m.handle /\ toWorld'[i].token # m.token
  BY <1>1, <1>2, <1>3 DEF OnTheWay
<1>6. \A q \in Pid : waitQueue[q] # None =>
        waitQueue[q].handle # m.handle /\ waitQueue[q].token # m.token
  BY <1>1, <1>2, <1>3 DEF OnTheWay
<1>7. \A q \in Pid : /\ PlayerOf(q) # None => PlayerOf(q).handle # m.handle
                     /\ IsLogining(q) => loginPlayers[q].token # m.token
  BY <1>1, <1>2, <1>3 DEF Arrived
<1> QED
  BY <1>2, <1>3, <1>4, <1>5, <1>6, <1>7

\* A refused login leaves the world as it was, and its socket to nobody.
LEMMA RefuseLoginKeeps ==
  ASSUME IInv, toLogin = <<>>, UNCHANGED envVars,
         toWorld # <<>>, Head(toWorld).type = "LoginPlayer", toWorld' = Tail(toWorld),
         RefuseLogin(Head(toWorld))
  PROVE  IInv'
<1> DEFINE m == Head(toWorld)
           r == Result(m.pid, m.handle, m.token, "in_login")
<1>1. /\ TypeOK /\ OneObject /\ SocketOwned /\ OnTheWay /\ Arrived
      /\ UNCHANGED <<worldVars, waitQueue, busy, gone, lastToken>> /\ Send(r)
  BY DEF IInv, RefuseLogin, envVars
<1> HIDE DEF m
<1>2. /\ toWorld' \in Seq(Message) /\ m.pid \in Pid /\ m.handle \in Handle /\ m.token \in Token
      /\ \A i \in DOMAIN toWorld' : LoginIn(toWorld'[i]) => toWorld'[i].handle # m.handle
      /\ \A q \in Pid : waitQueue[q] # None => waitQueue[q].handle # m.handle
      /\ \A q \in Pid : PlayerOf(q) # None => PlayerOf(q).handle # m.handle
  BY ArrivalFacts DEF m
<1>3. r \in Reply /\ r.handle = m.handle
  BY <1>2 DEF Result, Reply
<1> HIDE DEF r
<1>4. toLogin' \in Seq(Reply) /\ DOMAIN toLogin' = {1} /\ toLogin'[1] = r
  BY <1>1, <1>3, SendFacts
<1>5. TypeOK'
  BY <1>1, <1>2, <1>4 DEF TypeOK, worldVars
<1>6. PlayersKept
  BY <1>1 DEF worldVars, PlayersKept, PlayerOf, IsLogining
<1>7. OnTheWay' /\ Arrived'
  BY <1>1, <1>6, MailTaken, ArrivedKept
<1>8. OneObject' /\ SocketOwned'
  BY <1>1 DEF worldVars, OneObject, SocketOwned, PlayerOf, IsLogining, IsOnline
<1>9. Refused'
  BY <1>1, <1>2, <1>3, <1>4 DEF Refused, worldVars, PlayerOf, IsLogining, LoginIn
<1>10. OneBlockLoad' /\ InOrder'
  BY <1>1, ChainsUntouched DEF worldVars, IsLogining, IsOnline
<1> QED
  BY <1>5, <1>7, <1>8, <1>9, <1>10 DEF IInv

\* A player that takes the socket of the login, the others keeping theirs.
LEMMA SocketTaken ==
  ASSUME IInv, UNCHANGED envVars,
         toWorld # <<>>, Head(toWorld).type = "LoginPlayer", toWorld' = Tail(toWorld),
         NEW m, m = Head(toWorld), NEW p \in Pid,
         PlayerOf(p)' # None, PlayerOf(p)'.handle = m.handle,
         IsLogining(p)' => loginPlayers'[p].token = m.token,
         \A q \in Pid \ {p} : loginPlayers'[q] = loginPlayers[q] /\ onlinePlayers'[q] = onlinePlayers[q],
         connections'[m.handle] = p,
         \A q \in Pid \ {p}, k \in Handle \ {m.handle} : connections[k] = q => connections'[k] = q
  PROVE  SocketOwned' /\ OnTheWay' /\ Arrived'
<1>1. TypeOK /\ SocketOwned /\ OnTheWay /\ Arrived
  BY DEF IInv
<1>2. UNCHANGED <<waitQueue, busy, gone, lastToken>>
  BY DEF envVars
<1>3. /\ m.handle \in Handle /\ m.token \in Token
      /\ m.handle \in busy /\ m.token <= lastToken
      /\ \A i \in DOMAIN toWorld' : LoginIn(toWorld'[i]) =>
           toWorld'[i].handle # m.handle /\ toWorld'[i].token # m.token
      /\ \A q \in Pid : waitQueue[q] # None =>
           waitQueue[q].handle # m.handle /\ waitQueue[q].token # m.token
      /\ \A q \in Pid : /\ PlayerOf(q) # None => PlayerOf(q).handle # m.handle
                        /\ IsLogining(q) => loginPlayers[q].token # m.token
  BY ArrivalFacts
<1>4. \A q \in Pid \ {p} : PlayerOf(q)' = PlayerOf(q) /\ (IsLogining(q)' <=> IsLogining(q))
  BY DEF PlayerOf, IsLogining
<1>5. OnTheWay'
  BY <1>1, <1>2, MailTaken
<1>6. SocketOwned'
  <2>1. ASSUME NEW q \in Pid \ {p}, PlayerOf(q)' # None, PlayerOf(q)'.handle # None
        PROVE  connections'[PlayerOf(q)'.handle] = q
    <3>1. PlayerOf(q).handle \in Handle
      BY <1>1, <1>4, <2>1 DEF TypeOK, PlayerOf, IsLogining, Player
    <3> QED
      BY <1>1, <1>3, <1>4, <2>1, <3>1 DEF SocketOwned
  <2> QED
    BY <2>1 DEF SocketOwned
<1>7. Arrived'
  <2>1. \A i \in DOMAIN toWorld' : \E j \in DOMAIN toWorld : toWorld'[i] = toWorld[j]
    BY <1>1, MailLeft
  <2>2. ASSUME NEW q \in Pid, PlayerOf(q)' # None, PlayerOf(q)'.handle # None
        PROVE  /\ PlayerOf(q)'.handle \in busy'
               /\ \A i \in DOMAIN toWorld' : LoginIn(toWorld'[i]) => toWorld'[i].handle # PlayerOf(q)'.handle
               /\ \A s \in Pid : waitQueue'[s] # None => waitQueue'[s].handle # PlayerOf(q)'.handle
    <3>1. CASE q = p
      BY <1>2, <1>3, <3>1
    <3>2. CASE q # p
      BY <1>1, <1>2, <1>4, <2>1, <2>2, <3>2 DEF Arrived, LoginIn
    <3> QED
      BY <3>1, <3>2
  <2>3. ASSUME NEW q \in Pid, IsLogining(q)'
        PROVE  /\ loginPlayers'[q].token <= lastToken'
               /\ \A i \in DOMAIN toWorld' : LoginIn(toWorld'[i]) => toWorld'[i].token # loginPlayers'[q].token
               /\ \A s \in Pid : waitQueue'[s] # None => waitQueue'[s].token # loginPlayers'[q].token
               /\ \A s \in Pid \ {q} : IsLogining(s)' => loginPlayers'[s].token # loginPlayers'[q].token
    <3>1. CASE q = p
      BY <1>2, <1>3, <1>4, <2>3, <3>1
    <3>2. CASE q # p
      <4>1. IsLogining(q) /\ loginPlayers'[q] = loginPlayers[q]
        BY <1>4, <2>3, <3>2
      <4>2. /\ loginPlayers'[q].token <= lastToken'
            /\ \A i \in DOMAIN toWorld' : LoginIn(toWorld'[i]) => toWorld'[i].token # loginPlayers'[q].token
            /\ \A s \in Pid : waitQueue'[s] # None => waitQueue'[s].token # loginPlayers'[q].token
        BY <1>1, <1>2, <2>1, <4>1 DEF Arrived, LoginIn
      <4>3. ASSUME NEW s \in Pid \ {q}, IsLogining(s)'
            PROVE  loginPlayers'[s].token # loginPlayers'[q].token
        <5>1. CASE s = p
          BY <1>3, <3>2, <4>1, <4>3, <5>1
        <5>2. CASE s # p
          BY <1>1, <1>4, <4>1, <4>3, <5>2 DEF Arrived
        <5> QED
          BY <5>1, <5>2
      <4> QED
        BY <4>2, <4>3
    <3> QED
      BY <3>1, <3>2
  <2> QED
    BY <2>2, <2>3 DEF Arrived, LoginIn
<1> QED
  BY <1>5, <1>6, <1>7

\* A new player takes a socket and a token that were on their way until now.
LEMMA FirstLoginKeeps ==
  ASSUME IInv, toLogin = <<>>, UNCHANGED envVars,
         toWorld # <<>>, Head(toWorld).type = "LoginPlayer", toWorld' = Tail(toWorld),
         FirstLogin(Head(toWorld))
  PROVE  IInv'
<1> SUFFICES ASSUME NEW m, m = Head(toWorld), NEW p \in Pid, p = m.pid
             PROVE  IInv'
  BY ArrivalFacts
<1> DEFINE new == [handle |-> m.handle, token |-> m.token, loaded |-> {}]
<1>1. /\ TypeOK /\ OneObject /\ SocketOwned /\ OneBlockLoad /\ InOrder
      /\ UNCHANGED <<onlinePlayers, block, waiting, monitor, failing, toLogin, waitQueue, busy, gone, lastToken>>
      /\ ~IsLogining(p) /\ ~IsOnline(p)
      /\ loginPlayers' = [loginPlayers EXCEPT ![p] = new]
      /\ connections' = [connections EXCEPT ![m.handle] = p]
      /\ dbQueue' = Ask(p, 0)
      /\ overlapped' = IF ChainRuns(p) THEN overlapped \cup {p} ELSE overlapped \ {p}
  BY DEF IInv, FirstLogin, envVars
<1>2. toWorld' \in Seq(Message) /\ m.handle \in Handle /\ m.token \in Token
  BY ArrivalFacts
<1>3. /\ new \in Player /\ new # None
      /\ new.handle = m.handle /\ new.token = m.token
  <2>1. new \in Player
    BY <1>2 DEF Player
  <2> QED
    BY <2>1, WorldLoginAssumption
<1> HIDE DEF new
<1>4. /\ loginPlayers' \in [Pid -> Player \cup {None}] /\ loginPlayers'[p] = new
      /\ \A q \in Pid \ {p} : loginPlayers'[q] = loginPlayers[q]
  BY <1>1, <1>3 DEF TypeOK
<1>5. /\ connections' \in [Handle -> Pid \cup {None}] /\ connections'[m.handle] = p
      /\ \A k \in Handle \ {m.handle} : connections'[k] = connections[k]
  BY <1>1, <1>2 DEF TypeOK
<1>6. /\ dbQueue' \in [Pid -> Seq(0..BlockLoad)]
      /\ \A q \in Pid \ {p} : dbQueue'[q] = dbQueue[q]
      /\ \A i \in DOMAIN dbQueue'[p] :
           \/ i \in DOMAIN dbQueue[p] /\ dbQueue'[p][i] = dbQueue[p][i]
           \/ dbQueue'[p][i] = 0
      /\ 0 # BlockLoad
  <2>1. 0 \in 0..BlockLoad /\ 0 # BlockLoad
    BY WorldLoginAssumption DEF BlockLoad
  <2> QED
    BY <1>1, <2>1, AskFacts
<1>7. overlapped' \in SUBSET Pid
  BY <1>1 DEF TypeOK
<1>8. TypeOK'
  BY <1>1, <1>2, <1>4, <1>5, <1>6, <1>7 DEF TypeOK
<1>9. OneObject'
  BY <1>1, <1>4 DEF OneObject, IsLogining, IsOnline
<1>10. PlayerOf(p)' = new /\ (IsLogining(p)' => loginPlayers'[p].token = m.token)
  BY <1>3, <1>4 DEF PlayerOf, IsLogining
<1>11. SocketOwned' /\ OnTheWay' /\ Arrived'
  BY <1>1, <1>3, <1>4, <1>5, <1>10, SocketTaken
<1>12. Refused'
  BY <1>1, NobodyRefused
<1>13. OneBlockLoad'
  <2>1. \A q \in Pid : \A i \in DOMAIN dbQueue'[q] : dbQueue'[q][i] = BlockLoad =>
          i \in DOMAIN dbQueue[q] /\ dbQueue[q][i] = BlockLoad
    BY <1>6
  <2> QED
    BY <1>1, <2>1 DEF OneBlockLoad, BlockLoad
<1>14. InOrder'
  <2>1. ASSUME NEW q \in Pid \ overlapped', IsLogining(q)'
        PROVE  /\ \A i \in DOMAIN dbQueue'[q] : dbQueue'[q][i] # BlockLoad =>
                    \A d \in Data : d < dbQueue'[q][i] => d \in loginPlayers'[q].loaded
               /\ q \in waiting' => loginPlayers'[q].loaded = Data
    <3>1. CASE q = p
      <4>1. ~ChainRuns(p)
        BY <1>1, <2>1, <3>1
      <4>2. q \notin waiting' /\ \A i \in DOMAIN dbQueue'[p] : dbQueue'[p][i] # BlockLoad => dbQueue'[p][i] = 0
        <5>1. p \notin waiting /\ \A i \in DOMAIN dbQueue[p] : dbQueue[p][i] = BlockLoad
          BY <4>1 DEF ChainRuns
        <5>2. \A i \in DOMAIN dbQueue'[p] :
                (i \in DOMAIN dbQueue[p] /\ dbQueue'[p][i] = dbQueue[p][i]) \/ dbQueue'[p][i] = 0
          BY <1>6
        <5> QED
          BY <1>1, <3>1, <5>1, <5>2
      <4>3. \A d \in Data : ~(d < 0)
        BY WorldLoginAssumption DEF Data, LastModule
      <4> QED
        BY <3>1, <4>2, <4>3
    <3>2. CASE q # p
      <4>1. q \notin overlapped /\ IsLogining(q)
        BY <1>1, <1>4, <2>1, <3>2 DEF IsLogining
      <4>2. /\ dbQueue'[q] = dbQueue[q] /\ loginPlayers'[q] = loginPlayers[q]
            /\ q \in waiting' => q \in waiting
        BY <1>1, <1>4, <1>6, <3>2
      <4>3. /\ \A i \in DOMAIN dbQueue[q] : dbQueue[q][i] # BlockLoad =>
                 \A d \in Data : d < dbQueue[q][i] => d \in loginPlayers[q].loaded
            /\ q \in waiting => loginPlayers[q].loaded = Data
        BY <1>1, <4>1 DEF InOrder
      <4> QED
        BY <4>2, <4>3
    <3> QED
      BY <3>1, <3>2
  <2>2. \A q \in Pid \ overlapped' : IsOnline(q)' => onlinePlayers'[q].loaded = Data
    BY <1>1 DEF InOrder, IsOnline
  <2> QED
    BY <2>1, <2>2 DEF InOrder, Data, LastModule, BlockLoad
<1> QED
  BY <1>8, <1>9, <1>11, <1>12, <1>13, <1>14 DEF IInv

\* The old socket of the player that comes back is its own, so that only its
\* own connection is kicked.
LEMMA ReEnterFacts ==
  ASSUME IInv, toWorld # <<>>, Head(toWorld).type = "LoginPlayer", toWorld' = Tail(toWorld),
         NEW m, m = Head(toWorld), NEW p \in Pid, p = m.pid, ReEnter(m)
  PROVE  /\ onlinePlayers' \in [Pid -> Player \cup {None}]
         /\ loginPlayers' = loginPlayers /\ ~IsLogining(p) /\ IsOnline(p)
         /\ onlinePlayers' = [onlinePlayers EXCEPT ![p].handle = m.handle, ![p].token = m.token]
         /\ onlinePlayers'[p] # None
         /\ onlinePlayers'[p].handle = m.handle /\ onlinePlayers'[p].token = m.token
         /\ onlinePlayers'[p].loaded = onlinePlayers[p].loaded
         /\ connections' = [k \in Handle |-> IF k = m.handle THEN p
                                             ELSE IF k = onlinePlayers[p].handle THEN None
                                             ELSE connections[k]]
<1> DEFINE old == onlinePlayers[p].handle
           kicked == {h \in Handle : h = old /\ h # m.handle /\ connections[h] # None}
           owners == {connections[h] : h \in kicked}
<1>1. /\ TypeOK /\ OneObject /\ SocketOwned /\ ~IsLogining(p) /\ IsOnline(p)
      /\ m.handle \in Handle /\ m.token \in Token
  BY ArrivalFacts DEF IInv, ReEnter
<1>2. /\ connections' = [h \in Handle |-> IF h = m.handle THEN p
                                          ELSE IF h \in kicked THEN None
                                          ELSE connections[h]]
      /\ loginPlayers' = [q \in Pid |->
           IF q \in owners /\ IsLogining(q)
             THEN [loginPlayers[q] EXCEPT !.handle = None] ELSE loginPlayers[q]]
      /\ onlinePlayers' = [q \in Pid |->
           IF q = p THEN [onlinePlayers[q] EXCEPT !.handle = m.handle, !.token = m.token]
           ELSE IF q \in owners /\ IsOnline(q) /\ ~IsLogining(q)
             THEN [onlinePlayers[q] EXCEPT !.handle = None] ELSE onlinePlayers[q]]
  BY DEF ReEnter
<1>3. PlayerOf(p) = onlinePlayers[p] /\ PlayerOf(p) # None /\ onlinePlayers[p] \in Player
  BY <1>1 DEF PlayerOf, IsOnline, TypeOK
<1>4. \A h \in kicked : connections[h] = p
  BY <1>1, <1>3, WorldLoginAssumption DEF SocketOwned
<1>5. \A q \in owners : q = p
  BY <1>4
<1> HIDE DEF owners
<1>6. loginPlayers' = loginPlayers
  BY <1>1, <1>2, <1>5 DEF TypeOK
<1> DEFINE back == [onlinePlayers[p] EXCEPT !.handle = m.handle, !.token = m.token]
<1>7. /\ back \in Player /\ back # None /\ back.handle = m.handle /\ back.token = m.token
      /\ back.loaded = onlinePlayers[p].loaded
  <2>1. /\ back \in Player /\ back.handle = m.handle /\ back.token = m.token
        /\ back.loaded = onlinePlayers[p].loaded
    BY <1>1, <1>3 DEF Player
  <2> QED
    BY <2>1, WorldLoginAssumption
<1>8. /\ onlinePlayers' = [onlinePlayers EXCEPT ![p] = back]
      /\ onlinePlayers' = [onlinePlayers EXCEPT ![p].handle = m.handle, ![p].token = m.token]
  <2>1. \A q \in Pid : onlinePlayers'[q] = IF q = p THEN back ELSE onlinePlayers[q]
    BY <1>2, <1>5
  <2> HIDE DEF back
  <2>2. onlinePlayers' = [onlinePlayers EXCEPT ![p] = back]
    BY <1>1, <1>2, <2>1 DEF TypeOK
  <2> QED
    BY <2>2 DEF back
<1> HIDE DEF back
<1>9. onlinePlayers' \in [Pid -> Player \cup {None}] /\ onlinePlayers'[p] = back
  BY <1>1, <1>7, <1>8 DEF TypeOK
<1>10. connections' = [k \in Handle |-> IF k = m.handle THEN p
                                        ELSE IF k = onlinePlayers[p].handle THEN None
                                        ELSE connections[k]]
  BY <1>2
<1> QED
  BY <1>1, <1>6, <1>7, <1>8, <1>9, <1>10

\* So does a player that is online and changes its socket.
LEMMA ReEnterKeeps ==
  ASSUME IInv, toLogin = <<>>, UNCHANGED envVars,
         toWorld # <<>>, Head(toWorld).type = "LoginPlayer", toWorld' = Tail(toWorld),
         ReEnter(Head(toWorld))
  PROVE  IInv'
<1> SUFFICES ASSUME NEW m, m = Head(toWorld), NEW p \in Pid, p = m.pid
             PROVE  IInv'
  BY ArrivalFacts
<1> DEFINE r == Result(p, m.handle, m.token, "ok")
<1>1. /\ TypeOK /\ OneObject /\ SocketOwned /\ InOrder
      /\ UNCHANGED <<dbQueue, block, waiting, monitor, failing, overlapped, waitQueue, busy, gone, lastToken>>
      /\ Send(r) /\ ReEnter(m)
  BY DEF IInv, ReEnter, envVars
<1>2. toWorld' \in Seq(Message) /\ m.handle \in Handle /\ m.token \in Token
  BY ArrivalFacts
<1>3. /\ onlinePlayers' \in [Pid -> Player \cup {None}]
      /\ loginPlayers' = loginPlayers /\ ~IsLogining(p) /\ IsOnline(p)
      /\ onlinePlayers' = [onlinePlayers EXCEPT ![p].handle = m.handle, ![p].token = m.token]
      /\ onlinePlayers'[p] # None
      /\ onlinePlayers'[p].handle = m.handle /\ onlinePlayers'[p].token = m.token
      /\ onlinePlayers'[p].loaded = onlinePlayers[p].loaded
      /\ connections' = [k \in Handle |-> IF k = m.handle THEN p
                                          ELSE IF k = onlinePlayers[p].handle THEN None
                                          ELSE connections[k]]
  BY <1>1, ReEnterFacts
<1>4. \A q \in Pid \ {p} : loginPlayers'[q] = loginPlayers[q] /\ onlinePlayers'[q] = onlinePlayers[q]
  BY <1>1, <1>3 DEF TypeOK
<1>5. r \in Reply /\ r.errcode = "ok"
  BY <1>2 DEF Result, Reply
<1> HIDE DEF r
<1>6. toLogin' \in Seq(Reply) /\ DOMAIN toLogin' = {1} /\ toLogin'[1] = r
  BY <1>1, <1>5, SendFacts
<1>7. connections' \in [Handle -> Pid \cup {None}]
  BY <1>1, <1>3 DEF TypeOK
<1>8. TypeOK'
  BY <1>1, <1>2, <1>3, <1>6, <1>7 DEF TypeOK
<1>9. OneObject'
  BY <1>1, <1>3, <1>4 DEF OneObject, IsLogining, IsOnline
<1>10. /\ PlayerOf(p)' # None /\ PlayerOf(p)'.handle = m.handle
       /\ IsLogining(p)' => loginPlayers'[p].token = m.token
  BY <1>3 DEF PlayerOf, IsLogining
<1>11. \A q \in Pid \ {p}, k \in Handle \ {m.handle} : connections[k] = q => connections'[k] = q
  <2>1. PlayerOf(p) = onlinePlayers[p] /\ PlayerOf(p) # None
    BY <1>3 DEF PlayerOf, IsLogining, IsOnline
  <2>2. \A k \in Handle : k = onlinePlayers[p].handle => connections[k] = p
    BY <1>1, <2>1, WorldLoginAssumption DEF SocketOwned
  <2> QED
    BY <1>3, <2>2
<1>12. connections'[m.handle] = p
  BY <1>2, <1>3
<1>13. SocketOwned' /\ OnTheWay' /\ Arrived'
  BY <1>4, <1>10, <1>11, <1>12, SocketTaken
<1>14. Refused'
  BY <1>5, <1>6, NobodyRefused
<1>15. OneBlockLoad' /\ InOrder'
  <2>1. ASSUME NEW q \in Pid
        PROVE  /\ IsLogining(q)' => IsLogining(q) /\ loginPlayers'[q].loaded = loginPlayers[q].loaded
               /\ IsOnline(q)' => IsOnline(q) /\ onlinePlayers'[q].loaded = onlinePlayers[q].loaded
    BY <1>3, <1>4 DEF IsLogining, IsOnline
  <2> QED
    BY <1>1, <2>1, ChainsUntouched
<1> QED
  BY <1>8, <1>9, <1>13, <1>14, <1>15 DEF IInv

\* The three outcomes of a login together.
LEMMA LoginPlayerKeeps ==
  ASSUME IInv, toLogin = <<>>, UNCHANGED envVars, LoginPlayer
  PROVE  IInv'
BY RefuseLoginKeeps, ReEnterKeeps, FirstLoginKeeps DEF LoginPlayer

\* An online player is kicked with the socket that is its own.
LEMMA LogoutFacts ==
  ASSUME TypeOK, OneObject, SocketOwned, NEW p \in Pid, Logout(p), ~IsLogining(p)
  PROVE  /\ loginPlayers' = loginPlayers /\ IsOnline(p)
         /\ onlinePlayers' = [onlinePlayers EXCEPT ![p] = None]
         /\ connections' = [h \in Handle |-> IF h = onlinePlayers[p].handle THEN None ELSE connections[h]]
         /\ \A h \in Handle : h = onlinePlayers[p].handle => connections[h] = p
<1> DEFINE kicked == {h \in Handle : h = onlinePlayers[p].handle /\ connections[h] # None}
           owners == {connections[h] : h \in kicked}
<1>1. /\ IsOnline(p)
      /\ connections' = [h \in Handle |-> IF h \in kicked THEN None ELSE connections[h]]
      /\ loginPlayers' = [q \in Pid |->
           IF q \in owners /\ IsLogining(q)
             THEN [loginPlayers[q] EXCEPT !.handle = None] ELSE loginPlayers[q]]
      /\ onlinePlayers' = [q \in Pid |->
           IF q = p THEN None
           ELSE IF q \in owners /\ IsOnline(q) /\ ~IsLogining(q)
             THEN [onlinePlayers[q] EXCEPT !.handle = None] ELSE onlinePlayers[q]]
  BY DEF Logout
<1>2. PlayerOf(p) = onlinePlayers[p] /\ PlayerOf(p) # None
  BY <1>1 DEF PlayerOf, IsOnline
<1>3. \A h \in Handle : h = onlinePlayers[p].handle => connections[h] = p
  BY <1>2, WorldLoginAssumption DEF SocketOwned
<1>4. \A q \in owners : q = p
  BY <1>3
<1>5. connections' = [h \in Handle |-> IF h = onlinePlayers[p].handle THEN None ELSE connections[h]]
  BY <1>1
<1> HIDE DEF owners
<1>6. loginPlayers' = loginPlayers
  BY <1>1, <1>4 DEF TypeOK
<1>7. onlinePlayers' = [onlinePlayers EXCEPT ![p] = None]
  BY <1>1, <1>4 DEF TypeOK
<1> QED
  BY <1>1, <1>3, <1>5, <1>6, <1>7

\* A logout removes the player, and of an online one the connection object too.
LEMMA LogoutKeeps ==
  ASSUME IInv, toLogin = <<>>, UNCHANGED envVars, NEW p \in Pid, Logout(p)
  PROVE  IInv'
<1>1. /\ TypeOK /\ OneObject /\ SocketOwned /\ OnTheWay /\ Arrived
      /\ UNCHANGED <<dbQueue, block, waiting, monitor, failing, overlapped, toWorld,
                     waitQueue, busy, gone, lastToken>>
  BY DEF IInv, Logout, envVars
<1>2. /\ loginPlayers' \in [Pid -> Player \cup {None}] /\ loginPlayers'[p] = None
      /\ onlinePlayers' \in [Pid -> Player \cup {None}] /\ onlinePlayers'[p] = None
      /\ \A q \in Pid \ {p} : loginPlayers'[q] = loginPlayers[q] /\ onlinePlayers'[q] = onlinePlayers[q]
      /\ connections' \in [Handle -> Pid \cup {None}]
      /\ \A k \in Handle : connections[k] # p => connections'[k] = connections[k]
  <2>1. CASE IsLogining(p)
    <3>1. loginPlayers' = [loginPlayers EXCEPT ![p] = None] /\ UNCHANGED <<onlinePlayers, connections>>
      BY <2>1 DEF Logout
    <3>2. onlinePlayers[p] = None
      BY <1>1, <2>1 DEF OneObject, IsOnline
    <3> QED
      BY <1>1, <3>1, <3>2 DEF TypeOK
  <2>2. CASE ~IsLogining(p)
    <3>1. /\ loginPlayers' = loginPlayers
          /\ onlinePlayers' = [onlinePlayers EXCEPT ![p] = None]
          /\ connections' = [h \in Handle |-> IF h = onlinePlayers[p].handle THEN None ELSE connections[h]]
          /\ \A h \in Handle : h = onlinePlayers[p].handle => connections[h] = p
      BY <1>1, <2>2, LogoutFacts
    <3> QED
      BY <1>1, <2>2, <3>1 DEF TypeOK, IsLogining
  <2> QED
    BY <2>1, <2>2
<1>3. PICK t \in Token : LogoutNotifyGate(p, t)
  <2>1. CASE IsLogining(p)
    BY <1>1, <2>1 DEF Logout, TypeOK, Player, IsLogining
  <2>2. CASE ~IsLogining(p)
    BY <1>1, <2>2 DEF Logout, TypeOK, Player, IsOnline
  <2> QED
    BY <2>1, <2>2
<1> DEFINE r == [type |-> "OnLogout", pid |-> p, token |-> t]
<1>4. r \in Reply /\ r.type # "LoginResult" /\ Send(r)
  BY <1>3 DEF Reply, LogoutNotifyGate
<1> HIDE DEF r
<1>5. toLogin' \in Seq(Reply) /\ DOMAIN toLogin' = {1} /\ toLogin'[1] = r
  BY <1>1, <1>4, SendFacts
<1>6. TypeOK'
  BY <1>1, <1>2, <1>5 DEF TypeOK
<1>7. OneObject' /\ PlayersKept
  BY <1>1, <1>2 DEF OneObject, PlayersKept, PlayerOf, IsLogining, IsOnline
<1>8. SocketOwned'
  <2>1. ASSUME NEW q \in Pid, PlayerOf(q)' # None, PlayerOf(q)'.handle # None
        PROVE  connections'[PlayerOf(q)'.handle] = connections[PlayerOf(q)'.handle]
    <3>1. q # p /\ PlayerOf(q)' = PlayerOf(q)
      BY <1>2, <2>1 DEF PlayerOf, IsLogining
    <3>2. connections[PlayerOf(q).handle] = q /\ PlayerOf(q).handle \in Handle
      BY <1>1, <2>1, <3>1 DEF SocketOwned, TypeOK, PlayerOf, IsLogining, Player
    <3> QED
      BY <1>2, <3>1, <3>2
  <2> QED
    BY <1>1, <1>7, <2>1, SocketsKept
<1>9. OnTheWay' /\ Arrived'
  BY <1>1, <1>7, MailTaken, ArrivedKept
<1>10. Refused'
  BY <1>4, <1>5, NobodyRefused
<1>11. OneBlockLoad' /\ InOrder'
  <2>1. ASSUME NEW q \in Pid
        PROVE  /\ IsLogining(q)' => IsLogining(q) /\ loginPlayers'[q].loaded = loginPlayers[q].loaded
               /\ IsOnline(q)' => IsOnline(q) /\ onlinePlayers'[q].loaded = onlinePlayers[q].loaded
    BY <1>2 DEF IsLogining, IsOnline
  <2> QED
    BY <1>1, <2>1, ChainsUntouched
<1> QED
  BY <1>6, <1>7, <1>8, <1>9, <1>10, <1>11 DEF IInv

-----------------------------------------------------------------------------
\* An order of a set of players names each of them once.
LEMMA OrderFacts ==
  ASSUME NEW S \in SUBSET Pid, NEW order \in SetToSeqs(S)
  PROVE  /\ order \in Seq(S) /\ DOMAIN order = 1..Len(order) /\ Len(order) \in Nat
         /\ \A i \in DOMAIN order : order[i] \in S
         /\ Range(order) = S
         /\ \A i, j \in DOMAIN order : order[i] = order[j] => i = j
<1>1. IsFiniteSet(S) /\ Cardinality(S) \in Nat
  BY WorldLoginAssumption, FS_Subset, FS_CardinalityType
<1>2. /\ order \in [1..Cardinality(S) -> S]
      /\ \A i, j \in 1..Cardinality(S) : i # j => order[i] # order[j]
  BY DEF SetToSeqs
<1>3. order \in Injection(1..Cardinality(S), S)
  BY <1>2 DEF Injection, IsInjective
<1>4. Cardinality(1..Cardinality(S)) = Cardinality(S)
  BY <1>1, FS_Interval
<1>5. order \in Surjection(1..Cardinality(S), S)
  BY <1>1, <1>3, <1>4, FS_Injection
<1>6. order \in Seq(S) /\ Len(order) = Cardinality(S)
  BY <1>1, <1>2
<1>7. Range(order) = S
  BY <1>2, <1>5 DEF Surjection, Range
<1> QED
  BY <1>1, <1>2, <1>6, <1>7

\* What DealLoginFail does to the players, whichever it picks.
Failed(S, order) ==
  /\ loginPlayers' = [p \in Pid |-> IF p \in S THEN None ELSE loginPlayers[p]]
  /\ toLogin' = toLogin \o [i \in DOMAIN order |->
       Result(order[i], loginPlayers[order[i]].handle, loginPlayers[order[i]].token, "script_error")]

\* DealLoginFail fails some of the loading players, in some order, or none.
LEMMA DealLoginFailFacts ==
  ASSUME TypeOK, NEW pids \in SUBSET Pid, DealLoginFail(pids)
  PROVE  /\ failing' \in (SUBSET Pid) \cup {None}
         /\ \/ UNCHANGED <<loginPlayers, toLogin>>
            \/ \E S \in SUBSET {p \in Pid : IsLogining(p)} : \E order \in SetToSeqs(S) : Failed(S, order)
<1>1. CASE pids = {}
  BY <1>1 DEF DealLoginFail
<1>2. CASE pids # {}
  <2>1. PICK now \in SUBSET pids :
          /\ failing' = pids \ now
          /\ loginPlayers' = [p \in Pid |-> IF p \in now THEN None ELSE loginPlayers[p]]
          /\ \E order \in SetToSeqs({p \in now : IsLogining(p)}) :
               toLogin' = toLogin \o [i \in DOMAIN order |->
                 Result(order[i], loginPlayers[order[i]].handle,
                        loginPlayers[order[i]].token, "script_error")]
    BY <1>2 DEF DealLoginFail
  <2> DEFINE S == {p \in now : IsLogining(p)}
  <2>2. S \in SUBSET {p \in Pid : IsLogining(p)}
    OBVIOUS
  <2>3. loginPlayers' = [p \in Pid |-> IF p \in S THEN None ELSE loginPlayers[p]]
    BY <2>1 DEF IsLogining
  <2>4. \E order \in SetToSeqs(S) : Failed(S, order)
    BY <2>1, <2>3 DEF Failed
  <2> HIDE DEF S
  <2> QED
    BY <2>1, <2>2, <2>4
<1> QED
  BY <1>1, <1>2

\* Each of them gets one answer, with its own token.
LEMMA FailedFacts ==
  ASSUME TypeOK, toLogin = <<>>, NEW S \in SUBSET {p \in Pid : IsLogining(p)},
         NEW order \in SetToSeqs(S), Failed(S, order)
  PROVE  /\ toLogin' \in Seq(Reply) /\ DOMAIN toLogin' = DOMAIN order
         /\ \A k \in DOMAIN toLogin' : toLogin'[k] =
              Result(order[k], loginPlayers[order[k]].handle, loginPlayers[order[k]].token, "script_error")
<1> DEFINE replies == [i \in DOMAIN order |->
       Result(order[i], loginPlayers[order[i]].handle, loginPlayers[order[i]].token, "script_error")]
<1>1. /\ order \in Seq(S) /\ DOMAIN order = 1..Len(order) /\ Len(order) \in Nat
      /\ \A i \in DOMAIN order : order[i] \in S
  <2>1. S \in SUBSET Pid
    OBVIOUS
  <2> QED
    BY <2>1, OrderFacts
<1>2. \A i \in DOMAIN order : replies[i] \in Reply
  <2> SUFFICES ASSUME NEW i \in DOMAIN order PROVE replies[i] \in Reply
    OBVIOUS
  <2>1. order[i] \in Pid /\ loginPlayers[order[i]] \in Player
    BY <1>1 DEF TypeOK, IsLogining
  <2> QED
    BY <2>1 DEF Reply, Result, Player
<1>3. replies \in Seq(Reply) /\ Len(replies) = Len(order) /\ DOMAIN replies = DOMAIN order
  <2>1. DOMAIN replies = 1..Len(order)
    BY <1>1
  <2>2. replies \in [1..Len(order) -> Reply]
    BY <1>1, <1>2
  <2> HIDE DEF replies
  <2> QED
    BY <1>1, <2>1, <2>2
<1>4. toLogin' = toLogin \o replies
  BY DEF Failed
<1>5. \A i \in DOMAIN order : replies[i] =
        Result(order[i], loginPlayers[order[i]].handle, loginPlayers[order[i]].token, "script_error")
  OBVIOUS
<1> HIDE DEF replies
<1>6. toLogin \in Seq(Reply) /\ Len(toLogin) = 0
  BY DEF TypeOK
<1>7. toLogin' = replies
  BY <1>3, <1>4, <1>6
<1> QED
  BY <1>3, <1>5, <1>7

\* Failing loading players, by the monitor or its timer, keeps the invariant.
LEMMA FailPlayersKeeps ==
  ASSUME IInv, toLogin = <<>>, UNCHANGED envVars,
         UNCHANGED <<onlinePlayers, connections, dbQueue, block, waiting, overlapped, toWorld>>,
         monitor' \in [Pid -> 0..FailChecks],
         NEW pids \in SUBSET Pid, DealLoginFail(pids)
  PROVE  IInv'
<1>1. /\ TypeOK /\ OneObject /\ SocketOwned /\ OnTheWay /\ Arrived
      /\ UNCHANGED <<waitQueue, busy, gone, lastToken>>
  BY DEF IInv, envVars
<1>2. failing' \in (SUBSET Pid) \cup {None}
  BY <1>1, DealLoginFailFacts
<1>3. /\ loginPlayers' \in [Pid -> Player \cup {None}]
      /\ \A q \in Pid : loginPlayers'[q] \in {loginPlayers[q], None}
      /\ toLogin' \in Seq(Reply)
      /\ \A k \in DOMAIN toLogin' : toLogin'[k].errcode = "script_error"
  <2>1. CASE UNCHANGED <<loginPlayers, toLogin>>
    <3>1. DOMAIN toLogin' = {}
      BY <2>1
    <3> QED
      BY <1>1, <2>1, <3>1 DEF TypeOK
  <2>2. ASSUME NEW S \in SUBSET {p \in Pid : IsLogining(p)}, NEW order \in SetToSeqs(S), Failed(S, order)
        PROVE  /\ loginPlayers' \in [Pid -> Player \cup {None}]
               /\ \A q \in Pid : loginPlayers'[q] \in {loginPlayers[q], None}
               /\ toLogin' \in Seq(Reply)
               /\ \A k \in DOMAIN toLogin' : toLogin'[k].errcode = "script_error"
    <3>1. loginPlayers' = [p \in Pid |-> IF p \in S THEN None ELSE loginPlayers[p]]
      BY <2>2 DEF Failed
    <3>2. /\ loginPlayers' \in [Pid -> Player \cup {None}]
          /\ \A q \in Pid : loginPlayers'[q] \in {loginPlayers[q], None}
      BY <1>1, <3>1 DEF TypeOK
    <3>3. /\ toLogin' \in Seq(Reply)
          /\ \A k \in DOMAIN toLogin' : toLogin'[k] =
               Result(order[k], loginPlayers[order[k]].handle, loginPlayers[order[k]].token, "script_error")
      BY <1>1, <2>2, FailedFacts
    <3> QED
      BY <3>2, <3>3 DEF Result
  <2> QED
    BY <1>1, <2>1, <2>2, DealLoginFailFacts
<1>4. TypeOK'
  BY <1>1, <1>2, <1>3 DEF TypeOK
<1>5. OneObject' /\ PlayersKept
  BY <1>1, <1>3 DEF OneObject, PlayersKept, PlayerOf, IsLogining, IsOnline
<1>6. SocketOwned' /\ OnTheWay' /\ Arrived'
  BY <1>1, <1>5, SocketsKept, MailTaken, ArrivedKept
<1>7. Refused'
  BY <1>3, NobodyRefused
<1>8. OneBlockLoad' /\ InOrder'
  <2>1. ASSUME NEW q \in Pid
        PROVE  /\ IsLogining(q)' => IsLogining(q) /\ loginPlayers'[q].loaded = loginPlayers[q].loaded
               /\ IsOnline(q)' => IsOnline(q) /\ onlinePlayers'[q].loaded = onlinePlayers[q].loaded
    BY <1>3 DEF IsLogining, IsOnline
  <2> QED
    BY <2>1, ChainsUntouched
<1> QED
  BY <1>4, <1>5, <1>6, <1>7, <1>8 DEF IInv

\* The monitor's check counts, and fails those that are late.
LEMMA CheckLoginValidKeeps ==
  ASSUME IInv, toLogin = <<>>, UNCHANGED envVars, CheckLoginValid
  PROVE  IInv'
<1> DEFINE done == {p \in Pid : IsOnline(p) \/ ~IsLogining(p)}
           late == {p \in Pid \ done : monitor[p] >= FailChecks}
<1>1. /\ DealLoginFail(late)
      /\ UNCHANGED <<onlinePlayers, connections, dbQueue, block, waiting, overlapped, toWorld>>
      /\ monitor' = [p \in Pid |->
           IF p \in done \cup late THEN 0
           ELSE IF monitor[p] < FailChecks THEN monitor[p] + 1 ELSE monitor[p]]
  BY DEF CheckLoginValid
<1>2. late \in SUBSET Pid
  OBVIOUS
<1>3. monitor' \in [Pid -> 0..FailChecks]
  <2>1. monitor \in [Pid -> 0..FailChecks] /\ FailChecks \in Nat
    BY WorldLoginAssumption DEF IInv, TypeOK
  <2> HIDE DEF done, late
  <2> QED
    BY <1>1, <2>1
<1> HIDE DEF late
<1> QED
  BY <1>1, <1>2, <1>3, FailPlayersKeeps

\* The timer of the monitor fails the rest of a batch.
LEMMA DealMoreKeeps ==
  ASSUME IInv, toLogin = <<>>, UNCHANGED envVars, DealMore
  PROVE  IInv'
<1>1. failing \in SUBSET Pid /\ monitor \in [Pid -> 0..FailChecks]
  BY DEF IInv, TypeOK, DealMore
<1>2. monitor' \in [Pid -> 0..FailChecks]
  BY <1>1 DEF DealMore
<1> QED
  BY <1>1, <1>2, FailPlayersKeeps DEF DealMore

\* All steps of the world together.
LEMMA WorldStepKeeps ==
  ASSUME IInv, toLogin = <<>>, UNCHANGED envVars, WorldStep
  PROVE  IInv'
BY LoginPlayerKeeps, DelConnectionKeeps, LoginRole1Keeps, LoginRole2Keeps, LoseAnswerKeeps,
   LoginLoadModuleKeeps, LoginLoadOfflinesKeeps, BlockAnswerKeeps, LoadOfflineBlockKeeps,
   CleanOfflineBlockKeeps, LogoutKeeps, CheckLoginValidKeeps, DealMoreKeeps
DEF WorldStep, Chain

-----------------------------------------------------------------------------
(* The steps of the login service keep it, too. *)

\* Nothing happens in the world when the login service takes a step.
LEMMA WorldAsItWas ==
  ASSUME IInv, UNCHANGED worldVars
  PROVE  /\ OneObject' /\ SocketOwned' /\ OneBlockLoad' /\ InOrder'
         /\ \A q \in Pid : PlayerOf(q)' = PlayerOf(q) /\ (IsLogining(q)' <=> IsLogining(q))
         /\ loginPlayers' = loginPlayers
<1>1. \A q \in Pid : PlayerOf(q)' = PlayerOf(q) /\ (IsLogining(q)' <=> IsLogining(q)) /\ (IsOnline(q)' <=> IsOnline(q))
  BY DEF worldVars, PlayerOf, IsLogining, IsOnline
<1>2. OneObject' /\ SocketOwned'
  BY <1>1 DEF IInv, OneObject, SocketOwned, worldVars
<1>3. OneBlockLoad' /\ InOrder'
  BY ChainsUntouched DEF worldVars, IsLogining, IsOnline
<1> QED
  BY <1>1, <1>2, <1>3 DEF worldVars

\* A login that gets a place gets a socket and a token nobody has.
LEMMA EnterLoginQueueKeeps ==
  ASSUME IInv, toLogin = <<>>, NEW p \in Pid, NEW h \in Handle, EnterLoginQueue(p, h)
  PROVE  IInv'
<1> DEFINE m == LoginMessage(p, h, lastToken + 1)
<1>1. /\ TypeOK /\ OnTheWay /\ Arrived
      /\ h \notin busy /\ busy' = busy \cup {h} /\ lastToken' = lastToken + 1 /\ lastToken < MaxLogins
      /\ UNCHANGED worldVars /\ UNCHANGED <<gone, toLogin>>
  BY DEF IInv, EnterLoginQueue
<1>2. /\ m \in Message /\ LoginIn(m) /\ m.handle = h /\ m.token = lastToken'
      /\ lastToken \in Nat /\ lastToken' \in 0..MaxLogins /\ lastToken < lastToken'
  <2>1. lastToken \in Nat /\ lastToken + 1 \in Token /\ lastToken + 1 \in 0..MaxLogins
    BY <1>1, WorldLoginAssumption DEF TypeOK, Token
  <2>2. m \in Message /\ LoginIn(m) /\ m.handle = h /\ m.token = lastToken + 1
    BY <2>1 DEF Message, LoginMessage, LoginIn
  <2> QED
    BY <1>1, <2>1, <2>2
<1>3. \/ toWorld' = Append(toWorld, m) /\ waitQueue' = waitQueue
      \/ waitQueue' = [waitQueue EXCEPT ![p] = m] /\ toWorld' = toWorld
  BY DEF EnterLoginQueue
<1> HIDE DEF m
<1>4. /\ OneObject' /\ SocketOwned' /\ OneBlockLoad' /\ InOrder'
      /\ \A q \in Pid : PlayerOf(q)' = PlayerOf(q) /\ (IsLogining(q)' <=> IsLogining(q))
      /\ loginPlayers' = loginPlayers
  BY <1>1, WorldAsItWas
<1>5. Refused'
  BY <1>1, NobodyRefused
\* All sockets and tokens in use are others.
<1>6. /\ \A i \in DOMAIN toWorld : LoginIn(toWorld[i]) =>
           toWorld[i].handle # h /\ toWorld[i].token <= lastToken /\ toWorld[i].token # lastToken'
      /\ \A q \in Pid : waitQueue[q] # None =>
           waitQueue[q].handle # h /\ waitQueue[q].token <= lastToken /\ waitQueue[q].token # lastToken'
      /\ \A q \in Pid : /\ PlayerOf(q) # None => PlayerOf(q).handle # h
                        /\ IsLogining(q) => /\ loginPlayers[q].token <= lastToken
                                            /\ loginPlayers[q].token # lastToken'
  <2>1. ASSUME NEW i \in DOMAIN toWorld, LoginIn(toWorld[i])
        PROVE  toWorld[i].handle # h /\ toWorld[i].token <= lastToken /\ toWorld[i].token # lastToken'
    <3>1. toWorld[i].handle \in busy /\ toWorld[i].token <= lastToken
      BY <1>1, <2>1 DEF OnTheWay
    <3>2. toWorld[i].token \in Nat
      BY <1>1, <2>1 DEF TypeOK, Message, LoginIn, Token
    <3> QED
      BY <1>1, <1>2, <3>1, <3>2
  <2>2. ASSUME NEW q \in Pid, waitQueue[q] # None
        PROVE  waitQueue[q].handle # h /\ waitQueue[q].token <= lastToken /\ waitQueue[q].token # lastToken'
    <3>1. LoginIn(waitQueue[q]) /\ waitQueue[q].handle \in busy /\ waitQueue[q].token <= lastToken
      BY <1>1, <2>2 DEF OnTheWay
    <3>2. waitQueue[q].token \in Nat
      BY <1>1, <2>2, <3>1 DEF TypeOK, Message, LoginIn, Token
    <3> QED
      BY <1>1, <1>2, <3>1, <3>2
  <2>3. ASSUME NEW q \in Pid
        PROVE  /\ PlayerOf(q) # None => PlayerOf(q).handle # h
               /\ IsLogining(q) => /\ loginPlayers[q].token <= lastToken
                                   /\ loginPlayers[q].token # lastToken'
    <3>1. PlayerOf(q) # None => PlayerOf(q).handle # h
      BY <1>1, WorldLoginAssumption DEF Arrived
    <3>2. IsLogining(q) => loginPlayers[q].token \in Nat /\ loginPlayers[q].token <= lastToken
      BY <1>1 DEF Arrived, TypeOK, IsLogining, Player, Token
    <3> QED
      BY <1>1, <1>2, <3>1, <3>2
  <2> QED
    BY <2>1, <2>2, <2>3
\* The new login is on its way or waits; the others are where they were.
<1>7. /\ \A i \in DOMAIN toWorld' :
           \/ i \in DOMAIN toWorld /\ toWorld'[i] = toWorld[i]
           \/ i = Len(toWorld) + 1 /\ toWorld'[i] = m /\ waitQueue' = waitQueue
      /\ \A q \in Pid : \/ waitQueue'[q] = waitQueue[q]
                        \/ q = p /\ waitQueue'[q] = m /\ toWorld' = toWorld
      /\ Len(toWorld) + 1 \notin DOMAIN toWorld
      /\ toWorld' \in Seq(Message)
      /\ waitQueue' \in [Pid -> Message \cup {None}]
  <2>1. toWorld \in Seq(Message) /\ waitQueue \in [Pid -> Message \cup {None}]
    BY <1>1 DEF TypeOK
  <2>2. CASE toWorld' = Append(toWorld, m) /\ waitQueue' = waitQueue
    BY <1>2, <2>1, <2>2, AppendFacts
  <2>3. CASE waitQueue' = [waitQueue EXCEPT ![p] = m] /\ toWorld' = toWorld
    BY <1>2, <2>1, <2>3, AppendFacts
  <2> QED
    BY <1>3, <2>2, <2>3
<1>8. TypeOK'
  BY <1>1, <1>2, <1>7 DEF TypeOK, worldVars
<1>9. OnTheWay'
  <2>1. ASSUME NEW i \in DOMAIN toWorld', NEW j \in DOMAIN toWorld', i # j,
               LoginIn(toWorld'[i]), LoginIn(toWorld'[j])
        PROVE  toWorld'[i].handle # toWorld'[j].handle /\ toWorld'[i].token # toWorld'[j].token
    BY <1>1, <1>2, <1>6, <1>7, <2>1 DEF OnTheWay
  <2>2. ASSUME NEW i \in DOMAIN toWorld', LoginIn(toWorld'[i])
        PROVE  toWorld'[i].handle \in busy' /\ toWorld'[i].token <= lastToken'
    <3>1. CASE i \in DOMAIN toWorld /\ toWorld'[i] = toWorld[i]
      <4>1. toWorld[i].handle \in busy /\ toWorld[i].token <= lastToken /\ toWorld[i].token \in Nat
        <5>1. toWorld[i].handle \in busy /\ toWorld[i].token <= lastToken
          BY <1>6, <1>1, <2>2, <3>1 DEF OnTheWay
        <5>2. toWorld[i] \in Message
          BY <1>1, <3>1 DEF TypeOK
        <5> QED
          BY <2>2, <3>1, <5>1, <5>2 DEF Message, LoginIn, Token
      <4> QED
        BY <1>1, <1>2, <3>1, <4>1
    <3>2. CASE toWorld'[i] = m
      BY <1>1, <1>2, <3>2
    <3> QED
      BY <1>7, <3>1, <3>2
  <2>3. ASSUME NEW q \in Pid, waitQueue'[q] # None
        PROVE  /\ LoginIn(waitQueue'[q])
               /\ waitQueue'[q].handle \in busy' /\ waitQueue'[q].token <= lastToken'
    <3>1. CASE waitQueue'[q] = waitQueue[q]
      <4>1. /\ LoginIn(waitQueue[q]) /\ waitQueue[q].handle \in busy
            /\ waitQueue[q].token <= lastToken /\ waitQueue[q].token \in Nat
        BY <1>1, <2>3, <3>1 DEF OnTheWay, TypeOK, Message, LoginIn, Token
      <4> QED
        BY <1>1, <1>2, <3>1, <4>1
    <3>2. CASE waitQueue'[q] = m
      BY <1>1, <1>2, <3>2
    <3> QED
      BY <1>7, <3>1, <3>2
  <2>4. ASSUME NEW q \in Pid, waitQueue'[q] # None, NEW i \in DOMAIN toWorld', LoginIn(toWorld'[i])
        PROVE  toWorld'[i].handle # waitQueue'[q].handle /\ toWorld'[i].token # waitQueue'[q].token
    BY <1>1, <1>2, <1>6, <1>7, <2>4 DEF OnTheWay
  <2>5. ASSUME NEW q \in Pid, waitQueue'[q] # None, NEW s \in Pid \ {q}, waitQueue'[s] # None
        PROVE  waitQueue'[s].handle # waitQueue'[q].handle /\ waitQueue'[s].token # waitQueue'[q].token
    BY <1>1, <1>2, <1>6, <1>7, <2>5 DEF OnTheWay
  <2> QED
    BY <2>1, <2>2, <2>3, <2>4, <2>5 DEF OnTheWay, LoginIn
<1>10. Arrived'
  <2>1. ASSUME NEW q \in Pid, PlayerOf(q)' # None, PlayerOf(q)'.handle # None
        PROVE  /\ PlayerOf(q)'.handle \in busy'
               /\ \A i \in DOMAIN toWorld' : LoginIn(toWorld'[i]) => toWorld'[i].handle # PlayerOf(q)'.handle
               /\ \A s \in Pid : waitQueue'[s] # None => waitQueue'[s].handle # PlayerOf(q)'.handle
    BY <1>1, <1>2, <1>4, <1>6, <1>7, <2>1 DEF Arrived
  <2>2. ASSUME NEW q \in Pid, IsLogining(q)'
        PROVE  /\ loginPlayers'[q].token <= lastToken'
               /\ \A i \in DOMAIN toWorld' : LoginIn(toWorld'[i]) => toWorld'[i].token # loginPlayers'[q].token
               /\ \A s \in Pid : waitQueue'[s] # None => waitQueue'[s].token # loginPlayers'[q].token
               /\ \A s \in Pid \ {q} : IsLogining(s)' => loginPlayers'[s].token # loginPlayers'[q].token
    <3>1. IsLogining(q) /\ loginPlayers[q].token <= lastToken /\ loginPlayers[q].token \in Nat
      BY <1>1, <1>4, <2>2 DEF Arrived, TypeOK, IsLogining, Player, Token
    <3>2. loginPlayers'[q].token <= lastToken'
      BY <1>2, <1>4, <3>1
    <3>3. \A s \in Pid \ {q} : IsLogining(s)' => loginPlayers'[s].token # loginPlayers'[q].token
      BY <1>1, <1>4, <3>1 DEF Arrived
    <3>4. \A i \in DOMAIN toWorld' : LoginIn(toWorld'[i]) => toWorld'[i].token # loginPlayers'[q].token
      BY <1>1, <1>2, <1>4, <1>6, <1>7, <3>1 DEF Arrived
    <3>5. \A s \in Pid : waitQueue'[s] # None => waitQueue'[s].token # loginPlayers'[q].token
      BY <1>1, <1>2, <1>4, <1>6, <1>7, <3>1 DEF Arrived
    <3> QED
      BY <3>2, <3>3, <3>4, <3>5
  <2> QED
    BY <2>1, <2>2 DEF Arrived, LoginIn
<1> QED
  BY <1>4, <1>5, <1>8, <1>9, <1>10 DEF IInv

\* A login that waited goes on its way.
LEMMA CheckPushWaitQueueKeeps ==
  ASSUME IInv, toLogin = <<>>, NEW p \in Pid, CheckPushWaitQueue(p)
  PROVE  IInv'
<1> SUFFICES ASSUME NEW m, m = waitQueue[p]
             PROVE  IInv'
  OBVIOUS
<1>1. /\ TypeOK /\ OnTheWay /\ Arrived
      /\ m # None /\ waitQueue' = [waitQueue EXCEPT ![p] = None] /\ toWorld' = Append(toWorld, m)
      /\ UNCHANGED worldVars /\ UNCHANGED <<busy, gone, lastToken, toLogin>>
  BY DEF IInv, CheckPushWaitQueue
<1>2. m \in Message
  BY <1>1 DEF TypeOK
<1>3. /\ OneObject' /\ SocketOwned' /\ OneBlockLoad' /\ InOrder'
      /\ \A q \in Pid : PlayerOf(q)' = PlayerOf(q) /\ (IsLogining(q)' <=> IsLogining(q))
      /\ loginPlayers' = loginPlayers
  BY <1>1, WorldAsItWas
<1>4. Refused'
  BY <1>1, NobodyRefused
<1>5. /\ \A i \in DOMAIN toWorld' :
           \/ i \in DOMAIN toWorld /\ toWorld'[i] = toWorld[i]
           \/ i = Len(toWorld) + 1 /\ toWorld'[i] = m
      /\ toWorld' \in Seq(Message)
  BY <1>1, <1>2, AppendFacts DEF TypeOK
<1>6. /\ waitQueue' \in [Pid -> Message \cup {None}] /\ waitQueue'[p] = None
      /\ \A q \in Pid \ {p} : waitQueue'[q] = waitQueue[q]
  BY <1>1 DEF TypeOK
<1>7. /\ LoginIn(m) /\ m.handle \in busy /\ m.token <= lastToken
      /\ \A i \in DOMAIN toWorld : LoginIn(toWorld[i]) => toWorld[i].handle # m.handle /\ toWorld[i].token # m.token
      /\ \A q \in Pid \ {p} : waitQueue[q] # None => waitQueue[q].handle # m.handle /\ waitQueue[q].token # m.token
  BY <1>1 DEF OnTheWay
<1>8. TypeOK'
  BY <1>1, <1>5, <1>6 DEF TypeOK, worldVars
<1>9. OnTheWay'
  <2>1. ASSUME NEW i \in DOMAIN toWorld', NEW j \in DOMAIN toWorld', i # j,
               LoginIn(toWorld'[i]), LoginIn(toWorld'[j])
        PROVE  toWorld'[i].handle # toWorld'[j].handle /\ toWorld'[i].token # toWorld'[j].token
    BY <1>1, <1>5, <1>7, <2>1 DEF OnTheWay
  <2>2. ASSUME NEW i \in DOMAIN toWorld', LoginIn(toWorld'[i])
        PROVE  toWorld'[i].handle \in busy' /\ toWorld'[i].token <= lastToken'
    BY <1>1, <1>5, <1>7, <2>2 DEF OnTheWay
  <2>3. ASSUME NEW q \in Pid, waitQueue'[q] # None
        PROVE  /\ q # p /\ LoginIn(waitQueue'[q])
               /\ waitQueue'[q].handle \in busy' /\ waitQueue'[q].token <= lastToken'
               /\ \A s \in Pid \ {q} : waitQueue'[s] # None =>
                    waitQueue'[s].handle # waitQueue'[q].handle /\ waitQueue'[s].token # waitQueue'[q].token
    BY <1>1, <1>6, <2>3 DEF OnTheWay
  <2>4. ASSUME NEW q \in Pid, waitQueue'[q] # None, NEW i \in DOMAIN toWorld', LoginIn(toWorld'[i])
        PROVE  toWorld'[i].handle # waitQueue'[q].handle /\ toWorld'[i].token # waitQueue'[q].token
    BY <1>1, <1>5, <1>6, <1>7, <2>3, <2>4 DEF OnTheWay
  <2> QED
    BY <2>1, <2>2, <2>3, <2>4 DEF OnTheWay, LoginIn
<1>10. Arrived'
  <2>1. ASSUME NEW q \in Pid, PlayerOf(q)' # None, PlayerOf(q)'.handle # None
        PROVE  /\ PlayerOf(q)'.handle \in busy'
               /\ \A i \in DOMAIN toWorld' : LoginIn(toWorld'[i]) => toWorld'[i].handle # PlayerOf(q)'.handle
               /\ \A s \in Pid : waitQueue'[s] # None => waitQueue'[s].handle # PlayerOf(q)'.handle
    BY <1>1, <1>3, <1>5, <1>6, <2>1 DEF Arrived
  <2>2. ASSUME NEW q \in Pid, IsLogining(q)'
        PROVE  /\ loginPlayers'[q].token <= lastToken'
               /\ \A i \in DOMAIN toWorld' : LoginIn(toWorld'[i]) => toWorld'[i].token # loginPlayers'[q].token
               /\ \A s \in Pid : waitQueue'[s] # None => waitQueue'[s].token # loginPlayers'[q].token
               /\ \A s \in Pid \ {q} : IsLogining(s)' => loginPlayers'[s].token # loginPlayers'[q].token
    BY <1>1, <1>3, <1>5, <1>6, <2>2 DEF Arrived
  <2> QED
    BY <2>1, <2>2 DEF Arrived, LoginIn
<1> QED
  BY <1>3, <1>4, <1>8, <1>9, <1>10 DEF IInv

\* The report of a closed socket is no login.
LEMMA SocketClosedKeeps ==
  ASSUME IInv, toLogin = <<>>, NEW h \in Handle, SocketClosed(h)
  PROVE  IInv'
<1> DEFINE m == [type |-> "DelConnection", handle |-> h]
<1>1. /\ TypeOK /\ OnTheWay /\ Arrived
      /\ gone' = gone \cup {h} /\ toWorld' = Append(toWorld, m)
      /\ UNCHANGED worldVars /\ UNCHANGED <<waitQueue, busy, lastToken, toLogin>>
  BY DEF IInv, SocketClosed
<1>2. m \in Message /\ ~LoginIn(m)
  BY DEF Message, LoginIn
<1> HIDE DEF m
<1>3. /\ OneObject' /\ SocketOwned' /\ OneBlockLoad' /\ InOrder'
      /\ \A q \in Pid : PlayerOf(q)' = PlayerOf(q) /\ (IsLogining(q)' <=> IsLogining(q))
      /\ loginPlayers' = loginPlayers
  BY <1>1, WorldAsItWas
<1>4. Refused'
  BY <1>1, NobodyRefused
<1>5. /\ \A i \in DOMAIN toWorld' : LoginIn(toWorld'[i]) => i \in DOMAIN toWorld /\ toWorld'[i] = toWorld[i]
      /\ toWorld' \in Seq(Message)
  BY <1>1, <1>2, AppendFacts DEF TypeOK
<1>6. TypeOK'
  BY <1>1, <1>5 DEF TypeOK, worldVars
<1>7. OnTheWay'
  BY <1>1, <1>5 DEF OnTheWay, LoginIn
<1>8. Arrived'
  BY <1>1, <1>3, <1>5 DEF Arrived, LoginIn
<1> QED
  BY <1>3, <1>4, <1>6, <1>7, <1>8 DEF IInv

\* The sockets of refused logins that are free again are nobody's.
LEMMA TakeMessagesKeeps ==
  ASSUME IInv, TakeMessages
  PROVE  IInv'
<1> DEFINE free == {r.handle : r \in {m \in Range(toLogin) : m.type = "LoginResult" /\ m.errcode = "in_login"}}
<1>1. /\ TypeOK /\ OnTheWay /\ Arrived /\ Refused
      /\ toLogin' = <<>> /\ busy' = busy \ free
      /\ UNCHANGED worldVars /\ UNCHANGED <<waitQueue, gone, lastToken, toWorld>>
  BY DEF IInv, TakeMessages
<1>2. \A h \in free : \E k \in DOMAIN toLogin :
        toLogin[k].type = "LoginResult" /\ toLogin[k].errcode = "in_login" /\ h = toLogin[k].handle
  BY DEF Range
<1>3. /\ \A i \in DOMAIN toWorld : LoginIn(toWorld[i]) => toWorld[i].handle \notin free
      /\ \A q \in Pid : waitQueue[q] # None => waitQueue[q].handle \notin free
      /\ \A q \in Pid : PlayerOf(q) # None => PlayerOf(q).handle \notin free
  <2> HIDE DEF free
  <2> QED
    BY <1>1, <1>2 DEF Refused
<1> HIDE DEF free
<1>4. /\ OneObject' /\ SocketOwned' /\ OneBlockLoad' /\ InOrder'
      /\ \A q \in Pid : PlayerOf(q)' = PlayerOf(q) /\ (IsLogining(q)' <=> IsLogining(q))
      /\ loginPlayers' = loginPlayers
  BY <1>1, WorldAsItWas
<1>5. Refused'
  BY <1>1, NobodyRefused
<1>6. TypeOK'
  <2>1. toLogin' \in Seq(Reply)
    BY <1>1
  <2> QED
    BY <1>1, <2>1 DEF TypeOK, worldVars
<1>7. OnTheWay'
  BY <1>1, <1>3 DEF OnTheWay, LoginIn
<1>8. Arrived'
  BY <1>1, <1>3, <1>4 DEF Arrived, LoginIn
<1> QED
  BY <1>4, <1>5, <1>6, <1>7, <1>8 DEF IInv

-----------------------------------------------------------------------------
\* The world begins empty.
LEMMA InitInv == Init => IInv
<1> SUFFICES ASSUME Init PROVE IInv
  OBVIOUS
<1>1. TypeOK
  <2>1. 0 \in 0..FailChecks /\ 0 \in 0..MaxLogins
    BY WorldLoginAssumption
  <2>2. toWorld \in Seq(Message) /\ toLogin \in Seq(Reply)
    BY DEF Init
  <2>3. dbQueue \in [Pid -> Seq(0..BlockLoad)]
    BY DEF Init
  <2> QED
    BY <2>1, <2>2, <2>3 DEF Init, TypeOK
<1>2. \A p \in Pid : ~IsLogining(p) /\ ~IsOnline(p) /\ PlayerOf(p) = None /\ waitQueue[p] = None
  BY DEF Init, IsLogining, IsOnline, PlayerOf
<1>3. DOMAIN toWorld = {} /\ DOMAIN toLogin = {} /\ \A p \in Pid : DOMAIN dbQueue[p] = {}
  BY DEF Init
<1>4. OneObject /\ SocketOwned /\ OnTheWay /\ Arrived /\ Refused /\ OneBlockLoad /\ InOrder
  BY <1>2, <1>3 DEF OneObject, SocketOwned, OnTheWay, Arrived, Refused, OneBlockLoad, InOrder
<1> QED
  BY <1>1, <1>4 DEF IInv

\* Each step keeps the invariant.
LEMMA NextKeeps == IInv /\ [Next]_vars => IInv'
<1> SUFFICES ASSUME IInv, [Next]_vars PROVE IInv'
  OBVIOUS
<1>1. ASSUME toLogin = <<>>, WorldStep, UNCHANGED envVars PROVE IInv'
  BY <1>1, WorldStepKeeps
<1>2. ASSUME toLogin = <<>>, EnvStep PROVE IInv'
  BY <1>2, EnterLoginQueueKeeps, CheckPushWaitQueueKeeps, SocketClosedKeeps DEF EnvStep
<1>3. ASSUME TakeMessages PROVE IInv'
  BY <1>3, TakeMessagesKeeps
<1>4. ASSUME UNCHANGED vars PROVE IInv'
  <2>1. /\ TypeOK /\ OnTheWay /\ Arrived /\ Refused /\ UNCHANGED worldVars
        /\ UNCHANGED <<waitQueue, busy, gone, lastToken, toWorld, toLogin>>
    BY <1>4 DEF IInv, vars, envVars
  <2>2. /\ OneObject' /\ SocketOwned' /\ OneBlockLoad' /\ InOrder'
        /\ \A q \in Pid : PlayerOf(q)' = PlayerOf(q) /\ (IsLogining(q)' <=> IsLogining(q))
        /\ loginPlayers' = loginPlayers
    BY <2>1, WorldAsItWas
  <2>3. TypeOK'
    BY <2>1 DEF TypeOK, worldVars
  <2>4. OnTheWay' /\ Arrived' /\ Refused'
    BY <2>1, <2>2 DEF OnTheWay, Arrived, Refused, LoginIn
  <2> QED
    BY <2>2, <2>3, <2>4 DEF IInv
<1> QED
  BY <1>1, <1>2, <1>3, <1>4 DEF Next

\* The invariant holds for every number of players, sockets, logins and modules.
THEOREM Invariance == Spec => []IInv
BY InitInv, NextKeeps, PTL DEF Spec

\* No order of logins, logouts and late answers of the database gives a pid two
\* players, and a player's socket is the one its connection object owns.
THEOREM SocketIsOwn == Spec => []OwnSocket
<1>1. IInv => OwnSocket
  BY DEF IInv, OwnSocket
<1> QED
  BY <1>1, Invariance, PTL

\* The assertion in the callback of LoadOfflineBlock never fails.
THEOREM OneRequest == Spec => []BlockAskedOnce
<1>1. IInv => BlockAskedOnce
  <2> SUFFICES ASSUME IInv, NEW p \in Pid
               PROVE  Cardinality({i \in DOMAIN dbQueue[p] : dbQueue[p][i] = BlockLoad})
                        <= IF block[p] = "loading" THEN 1 ELSE 0
    BY DEF BlockAskedOnce
  <2> DEFINE asked == {i \in DOMAIN dbQueue[p] : dbQueue[p][i] = BlockLoad}
  <2>1. \A i \in asked : block[p] = "loading" /\ asked = {i}
    BY DEF IInv, OneBlockLoad
  <2> HIDE DEF asked
  <2>2. CASE asked = {}
    <3>1. Cardinality(asked) = 0
      BY <2>2, FS_EmptySet
    <3> QED
      BY <3>1 DEF asked
  <2>3. CASE asked # {}
    <3>1. PICK i \in asked : asked = {i} /\ block[p] = "loading"
      BY <2>1, <2>3
    <3>2. Cardinality(asked) = 1
      BY <3>1, FS_Singleton
    <3> QED
      BY <3>1, <3>2 DEF asked
  <2> QED
    BY <2>2, <2>3
<1> QED
  BY <1>1, Invariance, PTL

\* A player is online with all its data, unless its CPlayer was created while a
\* load chain of an earlier one was still running.
THEOREM DataComplete == Spec => []DataWritten
<1>1. IInv => DataWritten
  BY DEF IInv, InOrder, DataWritten
<1> QED
  BY <1>1, Invariance, PTL

-----------------------------------------------------------------------------
(* Every login is answered at most once. *)

Answers == \A r \in NewReplies : r.type = "LoginResult" => r.token \in Owed \ Owed'

\* The tokens an answer is owed for, now and after a step.
LEMMA OwedFacts ==
  /\ \A t : t \in Owed <=> \/ \E i \in DOMAIN toWorld : LoginIn(toWorld[i]) /\ t = toWorld[i].token
                           \/ \E p \in Pid : IsLogining(p) /\ t = loginPlayers[p].token
  /\ \A t : t \in Owed' <=> \/ \E i \in DOMAIN toWorld' : LoginIn(toWorld'[i]) /\ t = toWorld'[i].token
                            \/ \E p \in Pid : IsLogining(p)' /\ t = loginPlayers'[p].token
BY DEF Owed, LoginIn

\* The debt to a player that stops loading is paid, for its token is its own.
LEMMA LoadingPaid ==
  ASSUME IInv, NEW p \in Pid, IsLogining(p), loginPlayers'[p] = None, toWorld' = toWorld,
         \A q \in Pid : loginPlayers'[q] \in {loginPlayers[q], None}
  PROVE  loginPlayers[p].token \in Owed \ Owed'
<1>1. /\ \A i \in DOMAIN toWorld : LoginIn(toWorld[i]) => toWorld[i].token # loginPlayers[p].token
      /\ \A q \in Pid \ {p} : IsLogining(q) => loginPlayers[q].token # loginPlayers[p].token
  BY DEF IInv, Arrived
<1>2. loginPlayers[p].token \in Owed
  BY OwedFacts
<1>3. \A q \in Pid : IsLogining(q)' => q # p /\ IsLogining(q) /\ loginPlayers'[q] = loginPlayers[q]
  BY DEF IsLogining
<1>4. loginPlayers[p].token \notin Owed'
  BY <1>1, <1>3, OwedFacts
<1> QED
  BY <1>2, <1>4

\* A login that is answered when it arrives has a token of its own, too.
LEMMA ArrivalPaid ==
  ASSUME IInv, toWorld # <<>>, Head(toWorld).type = "LoginPlayer", toWorld' = Tail(toWorld),
         NEW m, m = Head(toWorld), loginPlayers' = loginPlayers
  PROVE  m.token \in Owed \ Owed'
<1>1. 1 \in DOMAIN toWorld /\ m = toWorld[1] /\ LoginIn(m)
  BY TailFacts DEF IInv, TypeOK, LoginIn
<1>2. m.token \in Owed
  BY <1>1, OwedFacts
<1>3. /\ \A i \in DOMAIN toWorld' : LoginIn(toWorld'[i]) => toWorld'[i].token # m.token
      /\ \A q \in Pid : IsLogining(q) => loginPlayers[q].token # m.token
  BY ArrivalFacts
<1>4. \A q \in Pid : IsLogining(q)' => IsLogining(q)
  BY DEF IsLogining
<1> QED
  BY <1>2, <1>3, <1>4, OwedFacts

\* The one reply of a step.
LEMMA OneReply ==
  ASSUME TypeOK, toLogin = <<>>, NEW m \in Reply, Send(m),
         m.type = "LoginResult" => m.token \in Owed \ Owed'
  PROVE  Answers
<1>1. DOMAIN toLogin' = {1} /\ toLogin'[1] = m
  BY SendFacts
<1> QED
  BY <1>1 DEF Answers, NewReplies

\* A step that sends nothing pays nothing.
LEMMA NoReply ==
  ASSUME toLogin' = toLogin
  PROVE  Answers
BY DEF Answers, NewReplies

\* A refusal pays for the login just taken.
LEMMA LoginPlayerAnswers ==
  ASSUME IInv, toLogin = <<>>, LoginPlayer
  PROVE  Answers
<1> SUFFICES ASSUME NEW m, m = Head(toWorld)
             PROVE  Answers
  OBVIOUS
<1>1. TypeOK /\ toWorld # <<>> /\ m.type = "LoginPlayer" /\ toWorld' = Tail(toWorld)
  BY DEF IInv, LoginPlayer
<1>2. m.pid \in Pid /\ m.handle \in Handle /\ m.token \in Token
  BY <1>1, ArrivalFacts
<1>3. ASSUME NEW err \in {"ok", "in_login"}, Send(Result(m.pid, m.handle, m.token, err)),
             loginPlayers' = loginPlayers
      PROVE  Answers
  <2> DEFINE r == Result(m.pid, m.handle, m.token, err)
  <2>1. r \in Reply /\ r.token = m.token
    BY <1>2 DEF Result, Reply
  <2>2. m.token \in Owed \ Owed'
    BY <1>1, <1>3, ArrivalPaid
  <2>3. Send(r)
    BY <1>3
  <2> HIDE DEF r
  <2> QED
    BY <1>1, <2>1, <2>2, <2>3, OneReply
<1>4. CASE RefuseLogin(m)
  BY <1>3, <1>4 DEF RefuseLogin, worldVars
<1>5. CASE ReEnter(m)
  <2>1. loginPlayers' = loginPlayers
    BY <1>1, <1>2, <1>5, ReEnterFacts
  <2>2. Send(Result(m.pid, m.handle, m.token, "ok"))
    BY <1>5 DEF ReEnter
  <2> QED
    BY <1>3, <2>1, <2>2
<1>6. CASE FirstLogin(m)
  BY <1>6, NoReply DEF FirstLogin
<1> QED
  BY <1>4, <1>5, <1>6 DEF LoginPlayer

\* A player that goes online is told so once.
LEMMA LoadEndAnswers ==
  ASSUME IInv, toLogin = <<>>, toWorld' = toWorld,
         NEW p \in Pid, NEW player, LoadEnd(p, player),
         player # None => IsLogining(p) /\ player.handle = loginPlayers[p].handle
                            /\ player.token = loginPlayers[p].token
  PROVE  Answers
<1>1. CASE player = None
  BY <1>1, NoReply DEF LoadEnd
<1>2. CASE player # None
  <2> DEFINE r == Result(p, player.handle, player.token, "ok")
  <2>1. TypeOK /\ loginPlayers' = [loginPlayers EXCEPT ![p] = None] /\ Send(r)
    BY <1>2 DEF IInv, LoadEnd
  <2>2. loginPlayers[p] \in Player
    BY <1>2, <2>1 DEF TypeOK, IsLogining
  <2>3. r \in Reply /\ r.token = loginPlayers[p].token
    BY <1>2, <2>2 DEF Result, Reply, Player
  <2>4. loginPlayers[p].token \in Owed \ Owed'
    <3>1. loginPlayers'[p] = None /\ \A q \in Pid : loginPlayers'[q] \in {loginPlayers[q], None}
      BY <2>1 DEF TypeOK
    <3> QED
      BY <1>2, <3>1, LoadingPaid
  <2> HIDE DEF r
  <2> QED
    BY <2>1, <2>3, <2>4, OneReply
<1> QED
  BY <1>1, <1>2

\* A missing player is told so once.
LEMMA LoginRole1Answers ==
  ASSUME IInv, toLogin = <<>>, NEW p \in Pid, _LoginRole1(p)
  PROVE  Answers
<1>1. CASE toLogin' = toLogin
  BY <1>1, NoReply
<1>2. CASE /\ IsLogining(p)
           /\ loginPlayers' = [loginPlayers EXCEPT ![p] = None]
           /\ Send(Result(p, loginPlayers[p].handle, loginPlayers[p].token, "not_exist_player"))
  <2> DEFINE r == Result(p, loginPlayers[p].handle, loginPlayers[p].token, "not_exist_player")
  <2>1. TypeOK /\ Send(r) /\ toWorld' = toWorld
    BY <1>2 DEF IInv, _LoginRole1
  <2>2. loginPlayers[p] \in Player
    BY <1>2, <2>1 DEF TypeOK, IsLogining
  <2>3. r \in Reply /\ r.token = loginPlayers[p].token
    BY <2>2 DEF Result, Reply, Player
  <2>4. loginPlayers[p].token \in Owed \ Owed'
    <3>1. loginPlayers'[p] = None /\ \A q \in Pid : loginPlayers'[q] \in {loginPlayers[q], None}
      BY <1>2, <2>1 DEF TypeOK
    <3> QED
      BY <1>2, <2>1, <3>1, LoadingPaid
  <2> HIDE DEF r
  <2> QED
    BY <2>1, <2>3, <2>4, OneReply
<1> QED
  BY <1>1, <1>2 DEF _LoginRole1

\* A loading player that is logged out is told so once.
LEMMA LogoutAnswers ==
  ASSUME IInv, toLogin = <<>>, NEW p \in Pid, Logout(p)
  PROVE  Answers
<1>1. TypeOK
  BY DEF IInv
<1>2. PICK t \in Token : LogoutNotifyGate(p, t)
  <2>1. CASE IsLogining(p)
    BY <1>1, <2>1 DEF Logout, TypeOK, Player, IsLogining
  <2>2. CASE ~IsLogining(p)
    BY <1>1, <2>2 DEF Logout, TypeOK, Player, IsOnline
  <2> QED
    BY <2>1, <2>2
<1> DEFINE r == [type |-> "OnLogout", pid |-> p, token |-> t]
<1>3. r \in Reply /\ r.type # "LoginResult" /\ Send(r)
  BY <1>2 DEF Reply, LogoutNotifyGate
<1> HIDE DEF r
<1> QED
  BY <1>1, <1>3, OneReply

\* Failed players have different tokens, so no token is paid twice.
LEMMA DealLoginFailAnswers ==
  ASSUME IInv, toLogin = <<>>, toWorld' = toWorld, NEW pids \in SUBSET Pid, DealLoginFail(pids)
  PROVE  Answers
<1>1. TypeOK
  BY DEF IInv
<1>2. CASE UNCHANGED <<loginPlayers, toLogin>>
  BY <1>2, NoReply
<1>3. ASSUME NEW S \in SUBSET {p \in Pid : IsLogining(p)}, NEW order \in SetToSeqs(S), Failed(S, order)
      PROVE  Answers
  <2>1. /\ DOMAIN toLogin' = DOMAIN order
        /\ \A k \in DOMAIN toLogin' : toLogin'[k] =
             Result(order[k], loginPlayers[order[k]].handle, loginPlayers[order[k]].token, "script_error")
    BY <1>1, <1>3, FailedFacts
  <2>2. S \in SUBSET Pid /\ \A p \in S : IsLogining(p)
    OBVIOUS
  <2>3. \A k \in DOMAIN order : order[k] \in S
    BY <2>2, OrderFacts
  <2>4. \A p \in S : loginPlayers'[p] = None
    BY <1>3, <2>2 DEF Failed
  <2>5. \A q \in Pid : loginPlayers'[q] \in {loginPlayers[q], None}
    BY <1>3 DEF Failed
  <2>6. ASSUME NEW k \in DOMAIN toLogin'
        PROVE  toLogin'[k].token \in Owed \ Owed'
    <3>1. order[k] \in Pid /\ IsLogining(order[k]) /\ loginPlayers'[order[k]] = None
      BY <2>1, <2>2, <2>3, <2>4
    <3>2. loginPlayers[order[k]].token \in Owed \ Owed'
      BY <2>5, <3>1, LoadingPaid
    <3> QED
      BY <2>1, <3>2 DEF Result
  <2> QED
    BY <2>6 DEF Answers, NewReplies
<1> QED
  BY <1>1, <1>2, <1>3, DealLoginFailFacts

\* The end of the chain answers once, or leaves the answer to the blocks.
LEMMA LoginLoadOfflinesAnswers ==
  ASSUME IInv, toLogin = <<>>, NEW p \in Pid, _LoginLoadOfflines(p)
  PROVE  Answers
<1>1. CASE toLogin' = toLogin
  BY <1>1, NoReply
<1>2. CASE LoadEnd(p, IF IsLogining(p)
                      THEN [loginPlayers[p] EXCEPT !.loaded = @ \cup {LastModule}] ELSE None)
  <2> DEFINE player == IF IsLogining(p)
                       THEN [loginPlayers[p] EXCEPT !.loaded = @ \cup {LastModule}] ELSE None
  <2>1. IsLogining(p) => player.handle = loginPlayers[p].handle /\ player.token = loginPlayers[p].token
    BY DEF IInv, TypeOK, Player, IsLogining
  <2>2. ~IsLogining(p) => player = None
    OBVIOUS
  <2>3. LoadEnd(p, player) /\ toWorld' = toWorld
    BY <1>2 DEF _LoginLoadOfflines
  <2> HIDE DEF player
  <2> QED
    BY <2>1, <2>2, <2>3, LoadEndAnswers
<1> QED
  BY <1>1, <1>2 DEF _LoginLoadOfflines

\* The blocks answer for the player that waited for them.
LEMMA BlockAnswerAnswers ==
  ASSUME IInv, toLogin = <<>>, NEW p \in Pid, NEW success \in BOOLEAN, BlockAnswer(p, success)
  PROVE  Answers
<1> DEFINE player == IF p \in waiting THEN loginPlayers[p] ELSE None
<1>1. LoadEnd(p, player) /\ toWorld' = toWorld
  BY DEF BlockAnswer
<1>2. player # None => IsLogining(p) /\ player = loginPlayers[p]
  BY DEF IsLogining
<1> HIDE DEF player
<1> QED
  BY <1>1, <1>2, LoadEndAnswers

\* Each step answers as AnsweredOnce demands.
LEMMA NextAnswers == IInv /\ [Next]_vars => [Answers]_vars
<1> SUFFICES ASSUME IInv, Next PROVE Answers
  BY DEF vars
<1>1. ASSUME toLogin = <<>>, WorldStep PROVE Answers
  <2>1. CASE LoginPlayer
    BY <1>1, <2>1, LoginPlayerAnswers
  <2>2. CASE DelConnection
    BY <2>2, NoReply DEF DelConnection
  <2>3. ASSUME NEW p \in Pid, Chain(p) PROVE Answers
    <3>1. CASE _LoginRole2(p) \/ LoseAnswer(p) \/ _LoginLoadModule(p)
      BY <3>1, NoReply DEF _LoginRole2, LoseAnswer, _LoginLoadModule
    <3> QED
      BY <1>1, <2>3, <3>1, LoginRole1Answers, LoginLoadOfflinesAnswers, BlockAnswerAnswers DEF Chain
  <2>4. ASSUME NEW p \in Pid, LoadOfflineBlock(p) \/ CleanOfflineBlock(p) PROVE Answers
    BY <2>4, NoReply DEF LoadOfflineBlock, CleanOfflineBlock
  <2>5. ASSUME NEW p \in Pid, Logout(p) PROVE Answers
    BY <1>1, <2>5, LogoutAnswers
  <2>6. CASE CheckLoginValid
    <3> DEFINE late == {p \in Pid \ {q \in Pid : IsOnline(q) \/ ~IsLogining(q)} : monitor[p] >= FailChecks}
    <3>1. DealLoginFail(late) /\ toWorld' = toWorld /\ late \in SUBSET Pid
      BY <2>6 DEF CheckLoginValid
    <3> HIDE DEF late
    <3> QED
      BY <1>1, <3>1, DealLoginFailAnswers
  <2>7. CASE DealMore
    <3>1. failing \in SUBSET Pid /\ DealLoginFail(failing) /\ toWorld' = toWorld
      BY <2>7 DEF IInv, TypeOK, DealMore
    <3> QED
      BY <1>1, <3>1, DealLoginFailAnswers
  <2> QED
    BY <1>1, <2>1, <2>2, <2>3, <2>4, <2>5, <2>6, <2>7 DEF WorldStep
<1>2. ASSUME EnvStep PROVE Answers
  BY <1>2, NoReply DEF EnvStep, EnterLoginQueue, CheckPushWaitQueue, SocketClosed
<1>3. ASSUME TakeMessages PROVE Answers
  BY <1>3 DEF TakeMessages, Answers, NewReplies
<1> QED
  BY <1>1, <1>2, <1>3 DEF Next

\* An answer is only sent for a token that is owed one, and the step that sends
\* it pays the debt.
THEOREM NeverAnsweredTwice == Spec => AnsweredOnce
<1>1. IInv /\ [Next]_vars => [\A r \in NewReplies : r.type = "LoginResult" => r.token \in Owed \ Owed']_vars
  BY NextAnswers DEF Answers
<1> QED
  BY <1>1, Invariance, PTL DEF Spec, AnsweredOnce

-----------------------------------------------------------------------------
(* The world keeps the promise of WorldSessions. *)

Shown(at, player) == [at |-> at, handle |-> player.handle, token |-> player.token]

\* The session of a player, before and after a step.
LEMMA SessionNow ==
  ASSUME TypeOK, NEW p \in Pid
  PROVE  /\ IsLogining(p) => Session[p] = Shown("loading", loginPlayers[p]) /\ World!Loading(p) /\ Session[p] # None
         /\ ~IsLogining(p) /\ IsOnline(p) =>
              Session[p] = Shown("online", onlinePlayers[p]) /\ World!Online(p) /\ Session[p] # None
         /\ ~IsLogining(p) /\ ~IsOnline(p) => Session[p] = None
<1>1. CASE IsLogining(p)
  <2>1. Session[p] = Shown("loading", loginPlayers[p])
    BY <1>1 DEF Session, Shown
  <2>2. loginPlayers[p] \in Player
    BY <1>1 DEF TypeOK, IsLogining
  <2>3. Session[p] # None
    BY <2>1, <2>2, WorldLoginAssumption DEF Shown, Player
  <2>4. Session[p].at = "loading"
    BY <2>1 DEF Shown
  <2> QED
    BY <1>1, <2>1, <2>3, <2>4 DEF World!Loading
<1>2. CASE ~IsLogining(p) /\ IsOnline(p)
  <2>1. Session[p] = Shown("online", onlinePlayers[p])
    BY <1>2 DEF Session, Shown
  <2>2. onlinePlayers[p] \in Player
    BY <1>2 DEF TypeOK, IsOnline
  <2>3. Session[p] # None
    BY <2>1, <2>2, WorldLoginAssumption DEF Shown, Player
  <2>4. Session[p].at = "online"
    BY <2>1 DEF Shown
  <2> QED
    BY <1>2, <2>1, <2>3, <2>4 DEF World!Online
<1>3. CASE ~IsLogining(p) /\ ~IsOnline(p)
  BY <1>3 DEF Session
<1> QED
  BY <1>1, <1>2, <1>3

\* The session that is read off the tables after a step.
LEMMA SessionNext ==
  ASSUME NEW p \in Pid
  PROVE  /\ IsLogining(p)' => Session'[p] = Shown("loading", loginPlayers'[p])
         /\ ~IsLogining(p)' /\ IsOnline(p)' => Session'[p] = Shown("online", onlinePlayers'[p])
         /\ ~IsLogining(p)' /\ ~IsOnline(p)' => Session'[p] = None
BY DEF Session, Shown

\* What is not shown of a player does not matter,
LEMMA SessionOfSame ==
  ASSUME TypeOK, NEW p \in Pid,
         IsLogining(p)' <=> IsLogining(p),
         IsLogining(p) => /\ loginPlayers'[p].handle = loginPlayers[p].handle
                          /\ loginPlayers'[p].token = loginPlayers[p].token,
         IsOnline(p)' <=> IsOnline(p),
         IsOnline(p) => /\ onlinePlayers'[p].handle = onlinePlayers[p].handle
                        /\ onlinePlayers'[p].token = onlinePlayers[p].token
  PROVE  Session'[p] = Session[p]
BY SessionNow, SessionNext DEF Shown

\* and two sessions are the same when they are so player by player.
LEMMA SessionIs ==
  ASSUME NEW s, s = [p \in Pid |-> s[p]]
  PROVE  /\ (\A p \in Pid : Session'[p] = s[p]) => Session' = s
         /\ Session = [p \in Pid |-> Session[p]]
         /\ DOMAIN Session = Pid
BY DEF Session

\* Sessions stay when nothing of a player changes but data and requests.
LEMMA SessionsAsTheyWere ==
  ASSUME IInv,
         \A p \in Pid :
           /\ IsLogining(p)' <=> IsLogining(p)
           /\ IsLogining(p) => /\ loginPlayers'[p].handle = loginPlayers[p].handle
                               /\ loginPlayers'[p].token = loginPlayers[p].token
           /\ IsOnline(p)' <=> IsOnline(p)
           /\ IsOnline(p) => /\ onlinePlayers'[p].handle = onlinePlayers[p].handle
                             /\ onlinePlayers'[p].token = onlinePlayers[p].token
  PROVE  Session' = Session
<1>1. \A p \in Pid : Session'[p] = Session[p]
  BY SessionOfSame DEF IInv
<1>2. Session = [p \in Pid |-> Session[p]]
  BY DEF Session
<1> QED
  BY <1>1, <1>2, SessionIs

\* A login is one of WorldSessions, whichever of the three outcomes it has.
LEMMA LoginPlayerMaps ==
  ASSUME IInv, toLogin = <<>>, LoginPlayer
  PROVE  World!LoginPlayer
<1> SUFFICES ASSUME NEW m, m = Head(toWorld), NEW p, p = m.pid
             PROVE  World!LoginPlayer
  OBVIOUS
<1>1. /\ TypeOK /\ OneObject /\ toWorld # <<>> /\ m.type = "LoginPlayer" /\ toWorld' = Tail(toWorld)
      /\ p \in Pid /\ m.handle \in Handle
  BY ArrivalFacts DEF IInv, LoginPlayer
<1>2. CASE RefuseLogin(m)
  <2>1. World!Loading(p)
    BY <1>1, <1>2, SessionNow DEF RefuseLogin
  <2>2. Session' = Session
    BY <1>2, SessionsAsTheyWere DEF RefuseLogin, worldVars, IsLogining, IsOnline
  <2>3. toLogin' = Append(toLogin, World!Result(m.pid, m.handle, m.token, "in_login")) /\ connections' = connections
    BY <1>2 DEF RefuseLogin, worldVars, Send, Result, World!Result
  <2> QED
    BY <1>1, <2>1, <2>2, <2>3 DEF World!LoginPlayer
<1>3. CASE ReEnter(m)
  <2>1. /\ loginPlayers' = loginPlayers /\ ~IsLogining(p) /\ IsOnline(p)
        /\ onlinePlayers' = [onlinePlayers EXCEPT ![p].handle = m.handle, ![p].token = m.token]
        /\ onlinePlayers'[p] # None
        /\ onlinePlayers'[p].handle = m.handle /\ onlinePlayers'[p].token = m.token
        /\ connections' = [k \in Handle |-> IF k = m.handle THEN p
                                            ELSE IF k = onlinePlayers[p].handle THEN None
                                            ELSE connections[k]]
    BY <1>1, <1>3, ReEnterFacts
  <2>2. World!Online(p) /\ Session[p].handle = onlinePlayers[p].handle
    <3>1. World!Online(p) /\ Session[p] = Shown("online", onlinePlayers[p])
      BY <1>1, <2>1, SessionNow
    <3> QED
      BY <3>1 DEF Shown
  <2>3. Session' = [Session EXCEPT ![p] = [at |-> "online", handle |-> m.handle, token |-> m.token]]
    <3> DEFINE s == [Session EXCEPT ![p] = [at |-> "online", handle |-> m.handle, token |-> m.token]]
    <3>1. s = [q \in Pid |-> s[q]] /\ \A q \in Pid : s[q] =
            IF q = p THEN [at |-> "online", handle |-> m.handle, token |-> m.token] ELSE Session[q]
      BY <1>1 DEF Session
    <3>2. Session'[p] = [at |-> "online", handle |-> m.handle, token |-> m.token]
      BY <1>1, <2>1, SessionNext DEF Shown, IsLogining, IsOnline
    <3>3. ASSUME NEW q \in Pid \ {p} PROVE Session'[q] = Session[q]
      <4>1. onlinePlayers'[q] = onlinePlayers[q]
        BY <1>1, <2>1 DEF TypeOK
      <4> QED
        BY <1>1, <2>1, <4>1, SessionOfSame DEF IsLogining, IsOnline
    <3> HIDE DEF s
    <3>4. Session' = s
      BY <3>1, <3>2, <3>3, SessionIs
    <3> QED
      BY <3>4 DEF s
  <2>4. toLogin' = Append(toLogin, World!Result(p, m.handle, m.token, "ok"))
    BY <1>3 DEF ReEnter, Send, Result, World!Result
  <2>5. connections' = [h \in Handle |-> IF h = m.handle THEN p
                                         ELSE IF h = Session[p].handle THEN None ELSE connections[h]]
    BY <2>1, <2>2
  <2> QED
    BY <1>1, <2>2, <2>3, <2>4, <2>5 DEF World!LoginPlayer
<1>4. CASE FirstLogin(m)
  <2> DEFINE new == [handle |-> m.handle, token |-> m.token, loaded |-> {}]
  <2>1. /\ ~IsLogining(p) /\ ~IsOnline(p)
        /\ loginPlayers' = [loginPlayers EXCEPT ![p] = new]
        /\ connections' = [connections EXCEPT ![m.handle] = p]
        /\ UNCHANGED <<onlinePlayers, toLogin>>
    BY <1>4 DEF FirstLogin
  <2>2. new # None /\ new.handle = m.handle /\ new.token = m.token
    <3>1. new \in Player
      BY <1>1, ArrivalFacts DEF Player
    <3> QED
      BY <3>1, WorldLoginAssumption
  <2>3. Session[p] = None
    BY <1>1, <2>1, SessionNow
  <2>4. Session' = [Session EXCEPT ![p] = [at |-> "loading", handle |-> m.handle, token |-> m.token]]
    <3> DEFINE s == [Session EXCEPT ![p] = [at |-> "loading", handle |-> m.handle, token |-> m.token]]
    <3> HIDE DEF new
    <3>1. s = [q \in Pid |-> s[q]] /\ \A q \in Pid : s[q] =
            IF q = p THEN [at |-> "loading", handle |-> m.handle, token |-> m.token] ELSE Session[q]
      BY <1>1 DEF Session
    <3>2. Session'[p] = [at |-> "loading", handle |-> m.handle, token |-> m.token]
      <4>1. loginPlayers'[p] = new
        BY <1>1, <2>1 DEF TypeOK
      <4> QED
        BY <1>1, <2>2, <4>1, SessionNext DEF Shown, IsLogining
    <3>3. ASSUME NEW q \in Pid \ {p} PROVE Session'[q] = Session[q]
      <4>1. loginPlayers'[q] = loginPlayers[q]
        BY <1>1, <2>1 DEF TypeOK
      <4> QED
        BY <1>1, <2>1, <4>1, SessionOfSame DEF IsLogining, IsOnline
    <3> HIDE DEF s
    <3>4. Session' = s
      BY <3>1, <3>2, <3>3, SessionIs
    <3> QED
      BY <3>4 DEF s
  <2> QED
    BY <1>1, <2>1, <2>3, <2>4 DEF World!LoginPlayer
<1> QED
  BY <1>2, <1>3, <1>4 DEF LoginPlayer

\* A closed socket is taken from the session that has it.
LEMMA DelConnectionMaps ==
  ASSUME IInv, DelConnection
  PROVE  World!DelConnection
<1> DEFINE h == Head(toWorld).handle
<1>1. /\ TypeOK /\ OneObject /\ toWorld # <<>> /\ Head(toWorld).type = "DelConnection"
      /\ toWorld' = Tail(toWorld) /\ UNCHANGED toLogin
  BY DEF IInv, DelConnection
<1>2. h \in Handle /\ connections[h] \in Pid \cup {None}
  <2>1. Head(toWorld) \in Message
    BY <1>1, TailFacts DEF TypeOK
  <2> QED
    BY <1>1, <2>1 DEF Message, TypeOK
<1> DEFINE s == [p \in Pid |-> IF p = connections[h] /\ Session[p] # None
                               THEN [Session[p] EXCEPT !.handle = None] ELSE Session[p]]
<1>3. connections' = [connections EXCEPT ![h] = None] /\ Session' = s
  <2>1. CASE connections[h] = None /\ UNCHANGED worldVars
    <3>1. Session' = Session
      BY <2>1, SessionsAsTheyWere DEF worldVars, IsLogining, IsOnline
    <3>2. s = Session
      BY <2>1, WorldLoginAssumption DEF Session
    <3>3. connections' = [connections EXCEPT ![h] = None]
      BY <1>1, <1>2, <2>1 DEF TypeOK, worldVars
    <3> QED
      BY <3>1, <3>2, <3>3
  <2>2. ASSUME NEW p \in Pid, p = connections[h],
               connections' = [connections EXCEPT ![h] = None],
               loginPlayers' = LoginWithHandle(p, None),
               onlinePlayers' = OnlineWithHandle(p, None)
        PROVE  connections' = [connections EXCEPT ![h] = None] /\ Session' = s
    <3> HIDE DEF h
    <3>1. /\ \A q \in Pid \ {p} : loginPlayers'[q] = loginPlayers[q] /\ onlinePlayers'[q] = onlinePlayers[q]
          /\ IsLogining(p)' <=> IsLogining(p)
          /\ IsOnline(p)' <=> IsOnline(p)
          /\ IsLogining(p) => loginPlayers'[p].token = loginPlayers[p].token /\ loginPlayers'[p].handle = None
          /\ IsOnline(p) => onlinePlayers'[p].token = onlinePlayers[p].token /\ onlinePlayers'[p].handle = None
      BY <1>1, <2>2, HandleCleared
    <3>2. ASSUME NEW q \in Pid \ {p} PROVE Session'[q] = s[q]
      <4>1. Session'[q] = Session[q]
        BY <1>1, <3>1, SessionOfSame DEF IsLogining, IsOnline
      <4> QED
        BY <2>2, <4>1
    <3>3. Session'[p] = s[p]
      <4>1. CASE IsLogining(p)
        <5>1. Session'[p] = Shown("loading", loginPlayers'[p])
          BY <3>1, <4>1, SessionNext
        <5>2. Session[p] = Shown("loading", loginPlayers[p]) /\ Session[p] # None
          BY <1>1, <4>1, SessionNow
        <5>3. s[p] = [Session[p] EXCEPT !.handle = None]
          BY <2>2, <5>2
        <5> HIDE DEF s
        <5> QED
          BY <3>1, <4>1, <5>1, <5>2, <5>3 DEF Shown
      <4>2. CASE ~IsLogining(p) /\ IsOnline(p)
        <5>1. Session'[p] = Shown("online", onlinePlayers'[p])
          BY <3>1, <4>2, SessionNext
        <5>2. Session[p] = Shown("online", onlinePlayers[p]) /\ Session[p] # None
          BY <1>1, <4>2, SessionNow
        <5>3. s[p] = [Session[p] EXCEPT !.handle = None]
          BY <2>2, <5>2
        <5> HIDE DEF s
        <5> QED
          BY <3>1, <4>2, <5>1, <5>2, <5>3 DEF Shown
      <4>3. CASE ~IsLogining(p) /\ ~IsOnline(p)
        <5>1. Session'[p] = None
          BY <3>1, <4>3, SessionNext
        <5>2. Session[p] = None
          BY <1>1, <4>3, SessionNow
        <5> QED
          BY <5>1, <5>2
      <4> QED
        BY <4>1, <4>2, <4>3
    <3>4. s = [q \in Pid |-> s[q]]
      OBVIOUS
    <3> HIDE DEF s
    <3>5. Session' = s
      BY <3>2, <3>3, <3>4, SessionIs
    <3> QED
      BY <2>2, <3>5
  <2> QED
    BY <1>2, <2>1, <2>2 DEF DelConnection
<1> QED
  BY <1>1, <1>3 DEF World!DelConnection

\* LoadEnd finishes the loading of a session, or does nothing that is told.
LEMMA LoadEndMaps ==
  ASSUME IInv, UNCHANGED <<connections, toWorld>>,
         NEW p \in Pid, NEW player, LoadEnd(p, player),
         player # None => IsLogining(p) /\ player.handle = loginPlayers[p].handle
                            /\ player.token = loginPlayers[p].token
  PROVE  World!Finish(p) \/ UNCHANGED <<Session, connections, toWorld, toLogin>>
<1>1. TypeOK
  BY DEF IInv
<1>2. CASE player = None
  <2>1. UNCHANGED <<loginPlayers, onlinePlayers, toLogin>>
    BY <1>2 DEF LoadEnd
  <2>2. Session' = Session
    BY <2>1, SessionsAsTheyWere DEF IsLogining, IsOnline
  <2> QED
    BY <2>1, <2>2
<1>3. CASE player # None
  <2>1. /\ loginPlayers' = [loginPlayers EXCEPT ![p] = None]
        /\ onlinePlayers' = [onlinePlayers EXCEPT ![p] = player]
        /\ Send(Result(p, player.handle, player.token, "ok"))
    BY <1>3 DEF LoadEnd
  <2>2. Session[p] = Shown("loading", loginPlayers[p]) /\ World!Loading(p)
    BY <1>1, <1>3, SessionNow
  <2> DEFINE s == [Session EXCEPT ![p].at = "online"]
  <2>3. s = [q \in Pid |-> s[q]] /\ \A q \in Pid \ {p} : s[q] = Session[q]
    BY DEF Session
  <2>4. s[p] = [Session[p] EXCEPT !.at = "online"]
    BY DEF Session
  <2> HIDE DEF s
  <2>5. Session'[p] = s[p]
    <3>1. loginPlayers'[p] = None /\ onlinePlayers'[p] = player
      BY <1>1, <2>1 DEF TypeOK
    <3>2. Session'[p] = Shown("online", player)
      BY <1>3, <3>1, SessionNext DEF IsLogining, IsOnline
    <3> QED
      BY <1>3, <2>2, <2>4, <3>2 DEF Shown
  <2>6. ASSUME NEW q \in Pid \ {p} PROVE Session'[q] = s[q]
    <3>1. loginPlayers'[q] = loginPlayers[q] /\ onlinePlayers'[q] = onlinePlayers[q]
      BY <1>1, <2>1 DEF TypeOK
    <3> QED
      BY <1>1, <2>3, <3>1, SessionOfSame DEF IsLogining, IsOnline
  <2>7. Session' = s
    BY <2>3, <2>5, <2>6, SessionIs
  <2>8. toLogin' = Append(toLogin, World!Result(p, Session[p].handle, Session[p].token, "ok"))
    <3>1. Session[p].handle = player.handle /\ Session[p].token = player.token
      BY <1>3, <2>2 DEF Shown
    <3> QED
      BY <2>1, <3>1 DEF Send, Result, World!Result
  <2> QED
    BY <2>2, <2>7, <2>8 DEF World!Finish, s
<1> QED
  BY <1>2, <1>3

\* The players of an order stop loading, each told of in turn.
LEMMA FailMaps ==
  ASSUME IInv, UNCHANGED <<onlinePlayers, connections, toWorld>>,
         NEW S \in SUBSET {p \in Pid : IsLogining(p)}, NEW order, DOMAIN order \subseteq Nat,
         Range(order) = S, NEW err,
         loginPlayers' = [p \in Pid |-> IF p \in S THEN None ELSE loginPlayers[p]],
         toLogin' = toLogin \o [i \in DOMAIN order |->
           Result(order[i], loginPlayers[order[i]].handle, loginPlayers[order[i]].token, err)]
  PROVE  World!Fail(order, err)
<1>1. TypeOK /\ OneObject
  BY DEF IInv
<1> DEFINE s == [p \in Pid |-> IF p \in S THEN None ELSE Session[p]]
<1>2. \A p \in Pid : Session'[p] = s[p]
  <2>1. ASSUME NEW p \in S PROVE Session'[p] = None
    <3>1. loginPlayers'[p] = None /\ onlinePlayers'[p] = None
      BY <1>1, <2>1 DEF OneObject, IsOnline
    <3> QED
      BY <3>1, SessionNext DEF IsLogining, IsOnline
  <2>2. ASSUME NEW p \in Pid \ S PROVE Session'[p] = Session[p]
    <3>1. loginPlayers'[p] = loginPlayers[p] /\ onlinePlayers'[p] = onlinePlayers[p]
      BY <1>1 DEF TypeOK
    <3> QED
      BY <1>1, <3>1, SessionOfSame DEF IsLogining, IsOnline
  <2> QED
    BY <2>1, <2>2
<1>3. s = [p \in Pid |-> s[p]]
  OBVIOUS
<1> HIDE DEF s
<1>4. Session' = s
  BY <1>2, <1>3, SessionIs
<1>5. Session' = [p \in Pid |-> IF p \in Range(order) THEN None ELSE Session[p]]
  BY <1>4 DEF s
<1>6. \A i \in DOMAIN order :
        Result(order[i], loginPlayers[order[i]].handle, loginPlayers[order[i]].token, err)
          = World!Result(order[i], Session[order[i]].handle, Session[order[i]].token, err)
  <2> SUFFICES ASSUME NEW i \in DOMAIN order, NEW p, p = order[i]
               PROVE  Result(p, loginPlayers[p].handle, loginPlayers[p].token, err)
                        = World!Result(p, Session[p].handle, Session[p].token, err)
    OBVIOUS
  <2>1. p \in S
    BY DEF Range
  <2>2. Session[p] = Shown("loading", loginPlayers[p])
    BY <1>1, <2>1, SessionNow
  <2> QED
    BY <2>2 DEF Shown, Result, World!Result
<1>7. toLogin' = toLogin \o [i \in DOMAIN order |->
        World!Result(order[i], Session[order[i]].handle, Session[order[i]].token, err)]
  BY <1>6
<1> QED
  BY <1>5, <1>7 DEF World!Fail, World!Range, Range

\* An order of one is sent as one reply.
LEMMA ConcatOne ==
  ASSUME NEW S, NEW s \in Seq(S), NEW r \in S, NEW f \in Seq(S), Len(f) = 1, f[1] = r
  PROVE  s \o f = Append(s, r)
<1>1. s \o f \in Seq(S)
  OBVIOUS
<1>2. Len(s) \in Nat
  OBVIOUS
<1>3. Len(s \o f) = Len(s) + Len(f)
  BY ConcatProperties
<1>4. Append(s, r) \in Seq(S) /\ Len(Append(s, r)) = Len(s) + 1
  OBVIOUS
<1>5. \A i \in 1..Len(s) : (s \o f)[i] = s[i] /\ Append(s, r)[i] = s[i]
  OBVIOUS
<1>6. (s \o f)[Len(s) + 1] = r /\ Append(s, r)[Len(s) + 1] = r
  BY <1>2, <1>3
<1>7. \A i \in 1..(Len(s) + 1) : (s \o f)[i] = Append(s, r)[i]
  BY <1>2, <1>5, <1>6
<1> QED
  BY <1>1, <1>2, <1>3, <1>4, <1>7

\* A player the database does not know is an order of one.
LEMMA LoginRole1Maps ==
  ASSUME IInv, NEW p \in Pid, _LoginRole1(p)
  PROVE  \/ World!Loading(p) /\ World!Fail(<<p>>, "not_exist_player")
         \/ UNCHANGED <<Session, connections, toWorld, toLogin>>
<1>1. UNCHANGED <<onlinePlayers, connections, toWorld>> /\ TypeOK
  BY DEF IInv, _LoginRole1
<1>2. CASE UNCHANGED <<loginPlayers, toLogin>>
  BY <1>1, <1>2, SessionsAsTheyWere DEF IsLogining, IsOnline
<1>3. CASE /\ IsLogining(p)
           /\ loginPlayers' = [loginPlayers EXCEPT ![p] = None]
           /\ Send(Result(p, loginPlayers[p].handle, loginPlayers[p].token, "not_exist_player"))
  <2>1. World!Loading(p)
    BY <1>1, <1>3, SessionNow
  <2> SUFFICES ASSUME NEW order, order = <<p>>
               PROVE  World!Fail(order, "not_exist_player")
    BY <2>1
  <2>2. DOMAIN order = {1} /\ order[1] = p
    OBVIOUS
  <2>3. DOMAIN order \subseteq Nat /\ Range(order) = {p}
    BY <2>2 DEF Range
  <2>4. {p} \in SUBSET {q \in Pid : IsLogining(q)}
    BY <1>3
  <2>5. loginPlayers' = [q \in Pid |-> IF q \in {p} THEN None ELSE loginPlayers[q]]
    BY <1>1, <1>3 DEF TypeOK
  <2>6. toLogin' = toLogin \o [i \in DOMAIN order |->
          Result(order[i], loginPlayers[order[i]].handle, loginPlayers[order[i]].token, "not_exist_player")]
    <3> DEFINE r == Result(p, loginPlayers[p].handle, loginPlayers[p].token, "not_exist_player")
               f == [i \in DOMAIN order |->
                       Result(order[i], loginPlayers[order[i]].handle,
                              loginPlayers[order[i]].token, "not_exist_player")]
    <3>1. f = [i \in 1..1 |-> r]
      <4>1. DOMAIN order = 1..1
        BY <2>2
      <4> QED
        BY <2>2, <4>1
    <3>2. r \in Reply
      <4>1. loginPlayers[p] \in Player
        BY <1>1, <1>3 DEF TypeOK, IsLogining
      <4> QED
        BY <4>1 DEF Result, Reply, Player
    <3>3. toLogin' = Append(toLogin, r) /\ toLogin \in Seq(Reply)
      BY <1>1, <1>3 DEF Send, TypeOK
    <3> HIDE DEF r, f
    <3>4. f \in Seq(Reply) /\ Len(f) = 1 /\ f[1] = r
      BY <3>1, <3>2
    <3>5. toLogin \o f = Append(toLogin, r)
      BY <3>2, <3>3, <3>4, ConcatOne
    <3> QED
      BY <3>3, <3>5 DEF f
  <2> QED
    BY <1>1, <2>3, <2>4, <2>5, <2>6, FailMaps
<1> QED
  BY <1>2, <1>3 DEF _LoginRole1

\* A logout ends the session.
LEMMA LogoutMaps ==
  ASSUME IInv, NEW p \in Pid, Logout(p)
  PROVE  World!Logout(p)
<1>1. TypeOK /\ OneObject /\ SocketOwned /\ toWorld' = toWorld
  BY DEF IInv, Logout
<1> DEFINE s == [Session EXCEPT ![p] = None]
<1>2. s = [q \in Pid |-> s[q]] /\ s[p] = None /\ \A q \in Pid \ {p} : s[q] = Session[q]
  BY DEF Session
<1> HIDE DEF s
<1>3. CASE IsLogining(p)
  <2>1. /\ loginPlayers' = [loginPlayers EXCEPT ![p] = None]
        /\ LogoutNotifyGate(p, loginPlayers[p].token)
        /\ UNCHANGED <<onlinePlayers, connections>>
    BY <1>3 DEF Logout
  <2>2. Session[p] = Shown("loading", loginPlayers[p]) /\ Session[p] # None
    BY <1>1, <1>3, SessionNow
  <2>3. Session[p].token = loginPlayers[p].token /\ ~World!Online(p)
    BY <2>2 DEF Shown, World!Online
  <2>4. Session'[p] = s[p]
    <3>1. loginPlayers'[p] = None /\ onlinePlayers'[p] = None
      BY <1>1, <1>3, <2>1 DEF TypeOK, OneObject, IsOnline
    <3> QED
      BY <1>2, <3>1, SessionNext DEF IsLogining, IsOnline
  <2>5. ASSUME NEW q \in Pid \ {p} PROVE Session'[q] = s[q]
    <3>1. loginPlayers'[q] = loginPlayers[q] /\ onlinePlayers'[q] = onlinePlayers[q]
      BY <1>1, <2>1 DEF TypeOK
    <3> QED
      BY <1>1, <1>2, <3>1, SessionOfSame DEF IsLogining, IsOnline
  <2>6. Session' = s
    BY <1>2, <2>4, <2>5, SessionIs
  <2>7. toLogin' = Append(toLogin, World!Left(p, Session[p].token))
    BY <2>1, <2>3 DEF LogoutNotifyGate, Send, World!Left
  <2>8. connections' = [h \in Handle |-> IF World!Online(p) /\ h = Session[p].handle THEN None ELSE connections[h]]
    BY <1>1, <2>1, <2>3 DEF TypeOK
  <2> QED
    BY <1>1, <2>2, <2>6, <2>7, <2>8 DEF World!Logout, s
<1>4. CASE ~IsLogining(p)
  <2>1. /\ loginPlayers' = loginPlayers /\ IsOnline(p)
        /\ onlinePlayers' = [onlinePlayers EXCEPT ![p] = None]
        /\ connections' = [h \in Handle |-> IF h = onlinePlayers[p].handle THEN None ELSE connections[h]]
    BY <1>1, <1>4, LogoutFacts
  <2>2. LogoutNotifyGate(p, onlinePlayers[p].token)
    BY <1>4 DEF Logout
  <2>3. Session[p] = Shown("online", onlinePlayers[p]) /\ Session[p] # None /\ World!Online(p)
    BY <1>1, <1>4, <2>1, SessionNow
  <2>4. Session[p].token = onlinePlayers[p].token /\ Session[p].handle = onlinePlayers[p].handle
    BY <2>3 DEF Shown
  <2>5. Session'[p] = s[p]
    <3>1. loginPlayers'[p] = None /\ onlinePlayers'[p] = None
      BY <1>1, <1>4, <2>1 DEF TypeOK, IsLogining
    <3> QED
      BY <1>2, <3>1, SessionNext DEF IsLogining, IsOnline
  <2>6. ASSUME NEW q \in Pid \ {p} PROVE Session'[q] = s[q]
    <3>1. loginPlayers'[q] = loginPlayers[q] /\ onlinePlayers'[q] = onlinePlayers[q]
      BY <1>1, <2>1 DEF TypeOK
    <3> QED
      BY <1>1, <1>2, <3>1, SessionOfSame DEF IsLogining, IsOnline
  <2>7. Session' = s
    BY <1>2, <2>5, <2>6, SessionIs
  <2>8. toLogin' = Append(toLogin, World!Left(p, Session[p].token))
    BY <2>2, <2>4 DEF LogoutNotifyGate, Send, World!Left
  <2>9. connections' = [h \in Handle |-> IF World!Online(p) /\ h = Session[p].handle THEN None ELSE connections[h]]
    BY <2>1, <2>3, <2>4
  <2> QED
    BY <1>1, <2>3, <2>7, <2>8, <2>9 DEF World!Logout, s
<1> QED
  BY <1>3, <1>4

\* A failed batch ends its sessions in one step, in the same order.
LEMMA DealLoginFailMaps ==
  ASSUME IInv, toLogin = <<>>, UNCHANGED <<onlinePlayers, connections, toWorld>>,
         NEW pids \in SUBSET Pid, DealLoginFail(pids)
  PROVE  World!WorldStep \/ UNCHANGED <<Session, connections, toWorld, toLogin>>
<1>1. TypeOK
  BY DEF IInv
<1>2. CASE UNCHANGED <<loginPlayers, toLogin>>
  BY <1>2, SessionsAsTheyWere DEF IsLogining, IsOnline
<1>3. ASSUME NEW S \in SUBSET {p \in Pid : IsLogining(p)}, NEW order \in SetToSeqs(S), Failed(S, order)
      PROVE  World!WorldStep \/ UNCHANGED <<Session, connections, toWorld, toLogin>>
  <2>1. /\ DOMAIN order = 1..Len(order) /\ Len(order) \in Nat
        /\ \A i \in DOMAIN order : order[i] \in S
        /\ Range(order) = S
    BY OrderFacts
  <2>2. World!Fail(order, "script_error")
    BY <1>3, <2>1, FailMaps DEF Failed
  <2>3. CASE S = {}
    <3>1. loginPlayers' = loginPlayers
      BY <1>1, <1>3, <2>3 DEF Failed, TypeOK
    <3>2. toLogin' = toLogin
      <4>1. toLogin' \in Seq(Reply) /\ DOMAIN toLogin' = DOMAIN order
        BY <1>1, <1>3, FailedFacts
      <4>2. DOMAIN toLogin' = {}
        BY <2>1, <2>3, <4>1
      <4> QED
        BY <4>1, <4>2
    <3> QED
      BY <3>1, <3>2, SessionsAsTheyWere DEF IsLogining, IsOnline
  <2>4. CASE S # {}
    <3>1. S \in SUBSET {p \in Pid : World!Loading(p)}
      BY <1>1, SessionNow
    <3>2. order \in World!SetToSeqs(S)
      <4>1. World!Cardinality(S) = Cardinality(S)
        BY DEF Cardinality, World!Cardinality
      <4> QED
        BY <4>1 DEF SetToSeqs, World!SetToSeqs
    <3> QED
      BY <2>2, <2>4, <3>1, <3>2 DEF World!WorldStep
  <2> QED
    BY <2>3, <2>4
<1> QED
  BY <1>1, <1>2, <1>3, DealLoginFailFacts

\* Every step of the world is a step of WorldSessions, or is hidden.
LEMMA WorldStepMaps ==
  ASSUME IInv, toLogin = <<>>, WorldStep
  PROVE  World!WorldStep \/ UNCHANGED <<Session, connections, toWorld, toLogin>>
<1> DEFINE Stays == UNCHANGED <<Session, connections, toWorld, toLogin>>
<1>1. CASE LoginPlayer
  BY <1>1, LoginPlayerMaps DEF World!WorldStep
<1>2. CASE DelConnection
  BY <1>2, DelConnectionMaps DEF World!WorldStep
<1>3. ASSUME NEW p \in Pid, Chain(p) PROVE World!WorldStep \/ Stays
  <2>1. CASE _LoginRole1(p)
    BY <2>1, LoginRole1Maps DEF World!WorldStep
  <2>2. CASE _LoginRole2(p)
    <3>1. 1 \in Data /\ LoadInto(p, 1) /\ UNCHANGED <<onlinePlayers, connections, toWorld, toLogin>>
      BY <2>2, WorldLoginAssumption DEF _LoginRole2, Data, LastModule
    <3> QED
      BY <3>1, LoadIntoFacts, SessionsAsTheyWere DEF IInv, IsOnline
  <2>3. CASE LoseAnswer(p)
    BY <2>3, SessionsAsTheyWere DEF LoseAnswer, IsLogining, IsOnline
  <2>4. CASE _LoginLoadModule(p)
    <3>1. PICK d \in 2..Modules : LoadInto(p, d)
      BY <2>4 DEF _LoginLoadModule
    <3>2. d \in Data /\ UNCHANGED <<onlinePlayers, connections, toWorld, toLogin>>
      BY <2>4, WorldLoginAssumption DEF _LoginLoadModule, Data, LastModule
    <3> QED
      BY <3>1, <3>2, LoadIntoFacts, SessionsAsTheyWere DEF IInv, IsOnline
  <2>5. CASE _LoginLoadOfflines(p)
    <3>1. UNCHANGED <<connections, toWorld>>
      BY <2>5 DEF _LoginLoadOfflines
    <3>2. CASE LoadEnd(p, IF IsLogining(p)
                          THEN [loginPlayers[p] EXCEPT !.loaded = @ \cup {LastModule}] ELSE None)
      <4> DEFINE player == IF IsLogining(p)
                           THEN [loginPlayers[p] EXCEPT !.loaded = @ \cup {LastModule}] ELSE None
      <4>1. IsLogining(p) => player.handle = loginPlayers[p].handle /\ player.token = loginPlayers[p].token
        BY DEF IInv, TypeOK, Player, IsLogining
      <4>2. ~IsLogining(p) => player = None
        OBVIOUS
      <4>3. LoadEnd(p, player)
        BY <3>2
      <4> HIDE DEF player
      <4> QED
        BY <3>1, <4>1, <4>2, <4>3, LoadEndMaps DEF World!WorldStep
    <3>3. CASE LoadInto(p, LastModule) /\ UNCHANGED <<onlinePlayers, toLogin>>
      <4>1. LastModule \in Data
        BY WorldLoginAssumption DEF Data, LastModule
      <4> QED
        BY <3>1, <3>3, <4>1, LoadIntoFacts, SessionsAsTheyWere DEF IInv, IsOnline
    <3> QED
      BY <2>5, <3>2, <3>3 DEF _LoginLoadOfflines
  <2>6. ASSUME NEW success \in BOOLEAN, BlockAnswer(p, success) PROVE World!WorldStep \/ Stays
    <3> DEFINE player == IF p \in waiting THEN loginPlayers[p] ELSE None
    <3>1. LoadEnd(p, player) /\ UNCHANGED <<connections, toWorld>>
      BY <2>6 DEF BlockAnswer
    <3>2. player # None => IsLogining(p) /\ player = loginPlayers[p]
      BY DEF IsLogining
    <3> HIDE DEF player
    <3> QED
      BY <3>1, <3>2, LoadEndMaps DEF World!WorldStep
  <2> QED
    BY <1>3, <2>1, <2>2, <2>3, <2>4, <2>5, <2>6 DEF Chain
<1>4. ASSUME NEW p \in Pid, LoadOfflineBlock(p) \/ CleanOfflineBlock(p) PROVE Stays
  BY <1>4, SessionsAsTheyWere DEF LoadOfflineBlock, CleanOfflineBlock, IsLogining, IsOnline
<1>5. ASSUME NEW p \in Pid, Logout(p) PROVE World!WorldStep
  BY <1>5, LogoutMaps DEF World!WorldStep
<1>6. CASE CheckLoginValid
  <2> DEFINE late == {p \in Pid \ {q \in Pid : IsOnline(q) \/ ~IsLogining(q)} : monitor[p] >= FailChecks}
  <2>1. DealLoginFail(late) /\ UNCHANGED <<onlinePlayers, connections, toWorld>> /\ late \in SUBSET Pid
    BY <1>6 DEF CheckLoginValid
  <2> HIDE DEF late
  <2> QED
    BY <2>1, DealLoginFailMaps
<1>7. CASE DealMore
  <2>1. failing \in SUBSET Pid /\ DealLoginFail(failing) /\ UNCHANGED <<onlinePlayers, connections, toWorld>>
    BY <1>7 DEF IInv, TypeOK, DealMore
  <2> QED
    BY <2>1, DealLoginFailMaps
<1> QED
  BY <1>1, <1>2, <1>3, <1>4, <1>5, <1>6, <1>7 DEF WorldStep

\* The login service sends one message, or says nothing to the world.
LEMMA EnvStepMaps ==
  ASSUME IInv, EnvStep
  PROVE  World!Sends \/ UNCHANGED <<Session, connections, toWorld, toLogin>>
<1>1. TypeOK /\ OnTheWay /\ UNCHANGED worldVars /\ UNCHANGED toLogin
  BY DEF IInv, EnvStep, EnterLoginQueue, CheckPushWaitQueue, SocketClosed
<1>2. Session' = Session /\ connections' = connections
  BY <1>1, SessionsAsTheyWere DEF worldVars, IsLogining, IsOnline
<1>3. ASSUME NEW m \in World!Message, toWorld' = Append(toWorld, m) PROVE World!Sends
  BY <1>1, <1>2, <1>3 DEF World!Sends
<1>4. ASSUME NEW p \in Pid, NEW h \in Handle, EnterLoginQueue(p, h)
      PROVE  World!Sends \/ UNCHANGED <<Session, connections, toWorld, toLogin>>
  <2>1. CASE toWorld' = toWorld
    BY <1>1, <1>2, <2>1
  <2>2. CASE toWorld' = Append(toWorld, LoginMessage(p, h, lastToken + 1))
    <3>1. lastToken + 1 \in Token
      BY <1>1, <1>4, WorldLoginAssumption DEF TypeOK, Token, EnterLoginQueue
    <3>2. LoginMessage(p, h, lastToken + 1) \in World!Message
      BY <3>1 DEF World!Message, World!LoginMessage, LoginMessage
    <3> QED
      BY <1>3, <2>2, <3>2
  <2> QED
    BY <1>4, <2>1, <2>2 DEF EnterLoginQueue
<1>5. ASSUME NEW p \in Pid, CheckPushWaitQueue(p) PROVE World!Sends
  <2>1. waitQueue[p] \in Message /\ LoginIn(waitQueue[p]) /\ toWorld' = Append(toWorld, waitQueue[p])
    BY <1>1, <1>5 DEF CheckPushWaitQueue, TypeOK, OnTheWay
  <2>2. waitQueue[p] \in [type : {"LoginPlayer"}, pid : Pid, handle : Handle, token : Token]
    BY <2>1 DEF Message, LoginIn
  <2>3. waitQueue[p] = World!LoginMessage(waitQueue[p].pid, waitQueue[p].handle, waitQueue[p].token)
    BY <2>2 DEF World!LoginMessage
  <2>4. waitQueue[p] \in World!Message
    BY <2>2, <2>3 DEF World!Message
  <2> QED
    BY <1>3, <2>1, <2>4
<1>6. ASSUME NEW h \in Handle, SocketClosed(h) PROVE World!Sends
  <2>1. [type |-> "DelConnection", handle |-> h] \in World!Message
    BY DEF World!Message, World!ClosedMessage
  <2> QED
    BY <1>3, <1>6, <2>1 DEF SocketClosed
<1> QED
  BY <1>4, <1>5, <1>6 DEF EnvStep

\* The login service takes what the world has told.
LEMMA TakeMessagesMaps ==
  ASSUME IInv, TakeMessages
  PROVE  World!Takes
<1>1. TypeOK /\ toLogin # <<>> /\ toLogin' = <<>> /\ UNCHANGED worldVars /\ UNCHANGED toWorld
  BY DEF IInv, TakeMessages
<1>2. Session' = Session /\ connections' = connections
  BY <1>1, SessionsAsTheyWere DEF worldVars, IsLogining, IsOnline
<1>3. Len(toLogin) \in 1..Len(toLogin)
  BY <1>1 DEF TypeOK
<1>4. SubSeq(toLogin, Len(toLogin) + 1, Len(toLogin)) = <<>>
  BY <1>1 DEF TypeOK
<1> QED
  BY <1>1, <1>2, <1>3, <1>4 DEF World!Takes

\* What the world promises the login service is what it does: one session for a
\* player, each change of it told once and in order.
THEOREM OnePlayerOneSession == Spec => OneSession
<1>1. Init => World!Init
  <2> SUFFICES ASSUME Init PROVE World!Init
    OBVIOUS
  <2>1. Session = [p \in Pid |-> None]
    BY DEF Init, Session, IsLogining, IsOnline
  <2> QED
    BY <2>1 DEF Init, World!Init
<1>2. IInv /\ [Next]_vars => [World!WorldStep \/ World!Sends \/ World!Takes]_World!sessionVars
  <2> SUFFICES ASSUME IInv, [Next]_vars
               PROVE  \/ World!WorldStep \/ World!Sends \/ World!Takes
                      \/ UNCHANGED <<Session, connections, toWorld, toLogin>>
    BY DEF World!sessionVars
  <2>1. CASE toLogin = <<>> /\ WorldStep
    BY <2>1, WorldStepMaps
  <2>2. CASE EnvStep
    BY <2>2, EnvStepMaps
  <2>3. CASE TakeMessages
    BY <2>3, TakeMessagesMaps
  <2>4. CASE UNCHANGED vars
    <3>1. UNCHANGED <<loginPlayers, onlinePlayers, connections, toWorld, toLogin>>
      BY <2>4 DEF vars, worldVars
    <3> QED
      BY <3>1, SessionsAsTheyWere DEF IsLogining, IsOnline
  <2> QED
    BY <2>1, <2>2, <2>3, <2>4 DEF Next
<1> QED
  BY <1>1, <1>2, Invariance, PTL DEF Spec, OneSession, World!Spec
=============================================================================
