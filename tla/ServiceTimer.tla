---------------------------- MODULE ServiceTimer ----------------------------
(***************************************************************************)
(* The timers of a service, lualib/base/servicetimer.lua on the timing      *)
(* wheel.  A CTimer object names its callbacks by keys; the one CTimerMgr   *)
(* knows them by ids, which it uses again once the wheel has handed them    *)
(* out.  A deleted callback leaves its id in the wheel.                      *)
(*                                                                         *)
(* DriverFunc runs every hundredth of a second, brings the wheel to the     *)
(* present and calls what is due, one after another.  Between two calls     *)
(* anything may happen in the service: what the callback itself does, and   *)
(* other messages when it waits for an answer.                              *)
(***************************************************************************)
EXTENDS TimingWheel, FiniteSets

CONSTANTS
  Timer,     \* CTimer objects
  Key,       \* their keys
  Nil,
  MaxDelay,  \* bound of the model: the longest delay, in ticks
  MaxId,     \* bound of the model: ids in use
  MaxTime    \* bound of the model: how long the service runs, in ticks

ASSUME ServiceTimerAssumption ==
  /\ MaxDelay \in Nat /\ MaxId \in Nat
  /\ MaxTime \in 0..Span - 1  \* the time of the wheel does not wrap
  /\ Nil \notin Timer \X Key

VARIABLES
  clock,      \* skynet.now, counted from the creation of the wheel
  wheel,      \* m_oCobj
  handles,    \* m_lCbHandles, what ProxyFunc has not yet come to
  execute,    \* m_bExecute
  reuse,      \* m_lCbReUseId
  dispatchId, \* m_iCbDispatchId
  used,       \* m_mCbUsedId: whose callback an id is
  name2Id,    \* m_mName2Id of each object, 0 for nil
  released,   \* objects that were released
  repeated    \* history: keys added again while their timer was running

vars == <<clock, wheel, handles, execute, reuse, dispatchId, used, name2Id, released, repeated>>

Name == Timer \X Key
Id == 1..MaxId

Init ==
  /\ clock = 0
  /\ wheel = EmptyWheel
  /\ handles = <<>>
  /\ execute = FALSE
  /\ reuse = <<>>
  /\ dispatchId = 0
  /\ used = [i \in Id |-> Nil]
  /\ name2Id = [n \in Name |-> 0]
  /\ released = {}
  /\ repeated = {}

GetCallback(i) == IF i = 0 THEN Nil ELSE used[i]

\* CTimer:AddCallback.  The closure that is stored under the id looks its name
\* up again when it is called (ProxyFunc).
AddCallback(n, delay) ==
  LET id == IF reuse # <<>> THEN Last(reuse) ELSE dispatchId + 1
  IN /\ n[1] \notin released
     /\ id <= MaxId /\ wheel.curr + delay <= MaxTime
     /\ reuse' = IF reuse # <<>> THEN Front(reuse) ELSE reuse
     /\ dispatchId' = IF reuse # <<>> THEN dispatchId ELSE dispatchId + 1
     /\ used' = [used EXCEPT ![id] = n]
     /\ wheel' = AddTime(wheel, id, delay)
     /\ name2Id' = [name2Id EXCEPT ![n] = id]
     /\ repeated' = IF GetCallback(name2Id[n]) # Nil THEN repeated \cup {n} ELSE repeated
     /\ UNCHANGED <<clock, handles, execute, released>>

\* Mutant: the id of a deleted callback may be used at once.
DelCallbackFreesId(n) ==
  /\ n[1] \notin released /\ name2Id[n] # 0
  /\ used' = [used EXCEPT ![name2Id[n]] = Nil]
  /\ name2Id' = [name2Id EXCEPT ![n] = 0]
  /\ reuse' = Append(reuse, name2Id[n])
  /\ UNCHANGED <<clock, wheel, handles, execute, dispatchId, released, repeated>>

\* CTimer:DelCallback: the id stays in the wheel.
DelCallback(n) ==
  /\ n[1] \notin released /\ name2Id[n] # 0
  /\ used' = [used EXCEPT ![name2Id[n]] = Nil]
  /\ name2Id' = [name2Id EXCEPT ![n] = 0]
  /\ UNCHANGED <<clock, wheel, handles, execute, reuse, dispatchId, released, repeated>>

\* Mutant: the callbacks of a released object stay.
ReleaseKeeps(o) ==
  /\ o \notin released
  /\ released' = released \cup {o}
  /\ UNCHANGED <<clock, wheel, handles, execute, reuse, dispatchId, used, name2Id, repeated>>

\* CTimer:Release: the closures keep the table that the object gives up.
Release(o) ==
  /\ o \notin released
  /\ used' = [i \in Id |-> IF \E k \in Key : name2Id[<<o, k>>] = i THEN Nil ELSE used[i]]
  /\ released' = released \cup {o}
  /\ UNCHANGED <<clock, wheel, handles, execute, reuse, dispatchId, name2Id, repeated>>

\* DriverFunc up to its call of ProxyFunc.
DriverFunc ==
  /\ ~execute
  /\ LET run == Update(wheel, clock)
     IN /\ wheel' = run.wheel
        /\ handles' = Ids(run.popped)
  /\ execute' = TRUE
  /\ UNCHANGED <<clock, reuse, dispatchId, used, name2Id, released, repeated>>

\* Mutant: a deleted callback ends the loop.
ProxyFuncBreaks ==
  /\ execute /\ handles # <<>>
  /\ LET id == Head(handles)
         n == used[id]
     IN /\ reuse' = Append(reuse, id)
        /\ used' = [used EXCEPT ![id] = Nil]
        /\ name2Id' = IF n = Nil THEN name2Id ELSE [name2Id EXCEPT ![n] = 0]
        /\ handles' = IF n = Nil THEN <<>> ELSE Tail(handles)
  /\ UNCHANGED <<clock, wheel, execute, dispatchId, released, repeated>>

\* One turn of the loop of ProxyFunc: the id may be used again from here on, and
\* its callback calls the function when the name has an id, whichever.
ProxyFunc ==
  /\ execute /\ handles # <<>>
  /\ LET id == Head(handles)
         n == used[id]
     IN /\ reuse' = Append(reuse, id)
        /\ used' = [used EXCEPT ![id] = Nil]
        /\ name2Id' = IF n = Nil THEN name2Id ELSE [name2Id EXCEPT ![n] = 0]
  /\ handles' = Tail(handles)
  /\ UNCHANGED <<clock, wheel, execute, dispatchId, released, repeated>>

DriverEnd ==
  /\ execute /\ handles = <<>>
  /\ execute' = FALSE
  /\ UNCHANGED <<clock, wheel, handles, reuse, dispatchId, used, name2Id, released, repeated>>

Pass ==
  /\ clock < MaxTime
  /\ clock' = clock + 1
  /\ UNCHANGED <<wheel, handles, execute, reuse, dispatchId, used, name2Id, released, repeated>>

Next ==
  \/ \E n \in Name, d \in 1..MaxDelay : AddCallback(n, d)
  \/ \E n \in Name : DelCallback(n)
  \/ \E o \in Timer : Release(o)
  \/ DriverFunc \/ ProxyFunc \/ DriverEnd \/ Pass

Spec == Init /\ [][Next]_vars

\* Time passes, callbacks return, and skynet.timeout calls the driver again and
\* again: []<>execute is WF_vars(DriverFunc), which is enabled unless execute.
FairSpec == Spec /\ WF_vars(Pass) /\ WF_vars(ProxyFunc) /\ WF_vars(DriverEnd) /\ []<>execute

-----------------------------------------------------------------------------
\* The variables keep their types: the wheel never runs ahead of the clock.
TypeOK ==
  /\ clock \in 0..MaxTime
  /\ wheel \in [curr : 0..clock, list : [Slot -> Seq([id : Id, time : 0..Span - 1])]]
  /\ handles \in Seq(Id)
  /\ execute \in BOOLEAN
  /\ reuse \in Seq(Id)
  /\ dispatchId \in 0..MaxId
  /\ used \in [Id -> Name \cup {Nil}]
  /\ name2Id \in [Name -> 0..dispatchId]
  /\ released \subseteq Timer
  /\ repeated \subseteq Name

\* The lists that ids are in: those to be used again, the handles taken out, and
\* the lists of the wheel.
Place == Slot \cup {<<"reuse", 0, 0>>, <<"handles", 0, 0>>}
ListsOf(again, taken, w) ==
  [p \in Place |-> IF p = <<"reuse", 0, 0>> THEN again
                   ELSE IF p = <<"handles", 0, 0>> THEN taken
                   ELSE Ids(w.list[p])]

Held(lists) == UNION {ToSet(lists[p]) : p \in DOMAIN lists}

Once(lists) ==
  \A p \in DOMAIN lists : \A j \in DOMAIN lists[p] :
    \A q \in DOMAIN lists : \A k \in DOMAIN lists[q] :
      lists[p][j] = lists[q][k] => p = q /\ j = k

\* An id that was given out is in one place: to be used again, in one list of
\* the wheel, or among the handles the driver has taken out; an id that is to be
\* used again is nobody's.  So a callback is neither lost nor called for the one
\* that had its id before.
IdOnePlace ==
  LET lists == ListsOf(reuse, handles, wheel)
  IN /\ TypeOK
     /\ Once(lists) /\ Held(lists) = 1..dispatchId
     /\ \A i \in Id : used[i] # Nil => i \notin ToSet(reuse)

\* Unless a key is added again while its timer runs, a callback waits under an
\* id exactly when its object has not been released and its key leads to the id:
\* a deleted or released one is never called, one that waits can be deleted; and
\* no key, not even one added again, leads to somebody else's id.
OneTimer ==
  /\ \A n \in Name \ repeated : \A i \in Id :
       used[i] = n => n[1] \notin released /\ name2Id[n] = i
  /\ \A n \in Name : n[1] \notin released /\ name2Id[n] # 0 => used[name2Id[n]] = n

\* The wheel and the driver are an agenda: each id is handed out in the tick it
\* was put down for, in order, whichever levels its node went through, however
\* late the driver comes.
Agenda == INSTANCE Agenda WITH
  Horizon <- MaxTime,
  time <- wheel.curr,
  agenda <- [t \in 1..MaxTime |-> IF t > wheel.curr THEN DueAt(wheel, t) ELSE <<>>],
  ready <- handles

KeepsAgenda == Agenda!Spec

\* Every callback is called or deleted in the end.
EveryTimerFires == \A i \in Id : used[i] # Nil ~> used[i] = Nil
=============================================================================
