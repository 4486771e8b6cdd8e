--------------------------- MODULE MailboxProofs ---------------------------
(***************************************************************************)
(* Proofs about Mailbox, for every set of services, workers and feeders,    *)
(* every choice of priority services and every bound: IInv is inductive,    *)
(* so that no queue is lost, held twice or used after it was freed, and     *)
(* every step of the scheduler is one of the mailboxes of Mailboxes or is   *)
(* not seen there.                                                          *)
(***************************************************************************)
EXTENDS Mailbox, TLAPS

\* What the proofs use of the list that is list with x put in,
Added(list, x, longer) ==
  /\ longer \in Seq(Service)
  /\ \A y \in Service : Contains(longer, y) <=> (Contains(list, y) \/ y = x)
  /\ IsInjective(list) /\ ~Contains(list, x) => IsInjective(longer)

\* and of the head and the tail of a list.
Taken(list) ==
  /\ Head(list) \in Service
  /\ Tail(list) \in Seq(Service)
  /\ \A y \in Service : Contains(list, y) <=> (Contains(Tail(list), y) \/ y = Head(list))
  /\ IsInjective(list) => IsInjective(Tail(list)) /\ ~Contains(Tail(list), Head(list))

\* skynet_globalmq_push adds one queue.
LEMMA AppendAdds ==
  ASSUME NEW list \in Seq(Service), NEW x \in Service
  PROVE  Added(list, x, Append(list, x))
BY DEF Added, Contains, IsInjective

\* skynet_globalmq_push_head adds one queue.
LEMMA FrontAdds ==
  ASSUME NEW list \in Seq(Service), NEW x \in Service
  PROVE  Added(list, x, <<x>> \o list)
<1> DEFINE longer == <<x>> \o list
<1>1. /\ longer \in Seq(Service)
      /\ Len(longer) = Len(list) + 1
      /\ longer[1] = x
      /\ \A i \in 1..Len(list) : longer[i + 1] = list[i]
  OBVIOUS
<1>2. \A i \in 1..Len(longer) : i = 1 \/ (i - 1 \in 1..Len(list) /\ longer[i] = list[i - 1])
  BY <1>1
<1>3. \A y \in Service : Contains(longer, y) <=> (Contains(list, y) \/ y = x)
  <2> SUFFICES ASSUME NEW y \in Service
               PROVE  Contains(longer, y) <=> (Contains(list, y) \/ y = x)
    OBVIOUS
  <2>1. ASSUME NEW i \in 1..Len(list), list[i] = y
        PROVE  i + 1 \in 1..Len(longer) /\ longer[i + 1] = y
    BY <1>1, <2>1
  <2>2. 1 \in 1..Len(longer)
    BY <1>1
  <2>3. Contains(list, y) \/ y = x => Contains(longer, y)
    BY <1>1, <2>1, <2>2 DEF Contains
  <2>4. Contains(longer, y) => Contains(list, y) \/ y = x
    BY <1>1, <1>2 DEF Contains
  <2> QED
    BY <2>3, <2>4
<1>4. IsInjective(list) /\ ~Contains(list, x) => IsInjective(longer)
  BY <1>1, <1>2 DEF Contains, IsInjective
<1> QED
  BY <1>1, <1>3, <1>4 DEF Added

\* A queue is added at the end that its priority says.
LEMMA PushAdds ==
  ASSUME NEW list \in Seq(Service), NEW x \in Service
  PROVE  Added(list, x, PushByRank(x, list))
BY AppendAdds, FrontAdds DEF PushByRank

\* skynet_globalmq_pop takes one queue, which was there once.
LEMMA HeadTail ==
  ASSUME NEW list \in Seq(Service), list # <<>>
  PROVE  Taken(list)
<1>1. /\ Tail(list) \in Seq(Service)
      /\ Head(list) = list[1]
      /\ Len(list) >= 1
      /\ Len(Tail(list)) = Len(list) - 1
      /\ \A i \in 1..Len(Tail(list)) : Tail(list)[i] = list[i + 1]
  OBVIOUS
<1>2. \A i \in 1..Len(list) : i = 1 \/ (i - 1 \in 1..Len(Tail(list)) /\ list[i] = Tail(list)[i - 1])
  BY <1>1
<1>3. \A y \in Service : Contains(list, y) <=> (Contains(Tail(list), y) \/ y = Head(list))
  BY <1>1, <1>2 DEF Contains
<1>4. IsInjective(list) => IsInjective(Tail(list)) /\ ~Contains(Tail(list), Head(list))
  BY <1>1, <1>2 DEF Contains, IsInjective
<1> QED
  BY <1>1, <1>3, <1>4 DEF Taken

\* No two threads, and no two purposes of a thread, count the same reference.
LEMMA RefsDiffer ==
  /\ TableRef \in Owner
  /\ \A t \in Thread :
       /\ NewRef(t) \in Owner /\ RunRef(t) \in Owner /\ SendRef(t) \in Owner
       /\ TableRef # NewRef(t) /\ TableRef # RunRef(t) /\ TableRef # SendRef(t)
  /\ \A t, u \in Thread :
       /\ NewRef(t) # RunRef(u) /\ NewRef(t) # SendRef(u) /\ RunRef(t) # SendRef(u)
       /\ t # u => NewRef(t) # NewRef(u) /\ RunRef(t) # RunRef(u) /\ SendRef(t) # SendRef(u)
<1>1. None \notin Thread
  BY MailboxAssumption DEF Thread
<1> QED
  BY <1>1 DEF Owner, TableRef, NewRef, RunRef, SendRef

\* Workers and feeders are threads; None is no service.
LEMMA ThreadParts == Worker \subseteq Thread /\ Feeder \subseteq Thread /\ None \notin Service
BY MailboxAssumption DEF Thread

-----------------------------------------------------------------------------
(***************************************************************************)
(* Every step keeps the invariant: one lemma for each action, one step for  *)
(* each conjunct.                                                           *)
(***************************************************************************)

\* The head of the global queue goes from there into the hands of the worker.
LEMMA TakeQueueKeeps ==
  ASSUME IInv, NEW w \in Worker, TakeQueue(w)
  PROVE  IInv'
<1>1. globalMq # <<>> /\ globalMq' = Tail(globalMq)
  BY DEF TakeQueue
<1>2. Taken(globalMq)
  BY <1>1, HeadTail DEF IInv, TypeOK
<1>3. TypeOK'
  BY <1>1, <1>2 DEF IInv, TypeOK, Taken, TakeQueue, Free
<1>4. OnePlace'
  BY <1>1, <1>2 DEF IInv, OnePlace, Holds, Queued, Taken, TakeQueue, Free
<1>5. WorkerPlace'
  BY <1>1, <1>2 DEF IInv, WorkerPlace, Taken, TakeQueue, Free
<1>6. CallPlace'
  BY DEF IInv, CallPlace, TakeQueue, Free
<1>7. OneRelease'
  BY DEF IInv, OneRelease, TakeQueue
<1>8. Lives'
  BY <1>1, <1>2, RefsDiffer, ThreadParts DEF IInv, TypeOK, Lives, Placed,
     Queued, Holds, Taken, TakeQueue, Free
<1> QED
  BY <1>3, <1>4, <1>5, <1>6, <1>7, <1>8 DEF IInv

\* A worker that goes to sleep holds nothing.
LEMMA SleepKeeps ==
  ASSUME IInv, NEW w \in Worker, Sleep(w)
  PROVE  IInv'
<1>1. TypeOK'
  BY DEF IInv, TypeOK, Sleep, Free
<1>2. OnePlace'
  BY DEF IInv, OnePlace, Holds, Queued, Sleep, Free
<1>3. WorkerPlace'
  BY DEF IInv, WorkerPlace, Sleep, Free
<1>4. CallPlace'
  BY DEF IInv, CallPlace, Sleep, Free
<1>5. OneRelease'
  BY DEF IInv, OneRelease, Sleep
<1>6. Lives'
  BY DEF IInv, Lives, Placed, Queued, Holds, Sleep, Free
<1> QED
  BY <1>1, <1>2, <1>3, <1>4, <1>5, <1>6 DEF IInv

\* The reference of the loop is counted before the first message is taken.
LEMMA EnterLoopKeeps ==
  ASSUME IInv, NEW w \in Worker, EnterLoop(w)
  PROVE  IInv'
<1>1. TypeOK'
  BY MailboxAssumption, RefsDiffer, ThreadParts
     DEF IInv, TypeOK, EnterLoop, Grab
<1>2. OnePlace'
  BY DEF IInv, OnePlace, Holds, Queued, EnterLoop, Free, Grab
<1>3. WorkerPlace'
  BY RefsDiffer, ThreadParts DEF IInv, TypeOK, WorkerPlace, EnterLoop, Free,
     Grab
<1>4. CallPlace'
  BY RefsDiffer, ThreadParts DEF IInv, TypeOK, CallPlace, WorkerPlace, Lives,
     EnterLoop, Free, Grab
<1>5. OneRelease'
  BY DEF IInv, OneRelease, EnterLoop
<1>6. Lives'
  BY DEF IInv, Lives, Placed, Queued, Holds, EnterLoop, Free, Grab
<1> QED
  BY <1>1, <1>2, <1>3, <1>4, <1>5, <1>6 DEF IInv

\* The queue of a dead service is put back, or kept by the worker that empties it.
LEMMA DeadQueueKeeps ==
  ASSUME IInv, NEW w \in Worker, DeadQueue(w)
  PROVE  IInv'
<1>1. q[w] \in Service /\ nq[w] # q[w] /\ w \in Thread /\ Free(w)
  BY ThreadParts DEF IInv, TypeOK, WorkerPlace, DeadQueue
<1>2. /\ q' = [q EXCEPT ![w] = None]
      /\ UNCHANGED <<table, ref, box, mail, inGlobal, release, pc, nq, left, rounds, call>>
  BY DEF DeadQueue
<1>3. q'[w] = None /\ \A v \in Worker \ {w} : q'[v] = q[v]
  BY <1>2 DEF IInv, TypeOK
<1>4. OneRelease'
  BY <1>2 DEF IInv, OneRelease
<1>5. CASE ~release[q[w]]
  <2>1. Added(globalMq, q[w], Append(globalMq, q[w]))
    BY <1>1, AppendAdds DEF IInv, TypeOK
  <2>2. ~Queued(q[w]) /\ Holds(w, q[w]) /\ \A u \in Thread : Holds(u, q[w]) => u = w
    BY <1>1 DEF IInv, OnePlace, Holds
  <2>3. globalMq' = Append(globalMq, q[w]) /\ then' = [then EXCEPT ![w] = NoThen]
    BY <1>5 DEF DeadQueue, MqRelease
  <2>4. /\ then'[w].op = "none" /\ then'[w].box = None
        /\ \A u \in Thread \ {w} : then'[u] = then[u]
    BY <1>1, <2>3 DEF IInv, TypeOK, NoThen
  <2>5. \A u \in Thread, s \in Service : Holds(u, s)' <=> Holds(u, s) /\ s # q[w]
    BY <1>1, <1>2, <1>3, <2>2, <2>4, ThreadParts DEF Holds, IInv, WorkerPlace, Free
  <2>6. \A s \in Service : Placed(s)' <=> Placed(s)
    BY <1>1, <2>1, <2>2, <2>3, <2>5 DEF Placed, Queued, Added
  <2>7. TypeOK'
    BY <1>2, <2>1, <2>3 DEF IInv, TypeOK, Added, NoThen
  <2>8. OnePlace'
    BY <1>1, <2>1, <2>2, <2>3, <2>5 DEF IInv, OnePlace, Queued, Added
  <2>9. WorkerPlace'
    BY <1>1, <1>2, <1>3, <2>4, ThreadParts DEF IInv, WorkerPlace, Free, DeadQueue
  <2>10. CallPlace'
    BY <1>1, <1>2, <2>4 DEF IInv, CallPlace, Free
  <2>11. Lives'
    BY <1>2, <2>6 DEF IInv, Lives
  <2> QED
    BY <1>4, <2>7, <2>8, <2>9, <2>10, <2>11 DEF IInv
<1>6. CASE release[q[w]]
  <2>1. globalMq' = globalMq /\ then' = [then EXCEPT ![w] = Going("drop", q[w])]
    BY <1>6 DEF DeadQueue, MqRelease
  <2>2. /\ then'[w].op = "drop" /\ then'[w].box = q[w]
        /\ \A u \in Thread \ {w} : then'[u] = then[u]
    BY <1>1, <2>1 DEF IInv, TypeOK, Going
  <2>3. \A u \in Thread, s \in Service : Holds(u, s)' <=> Holds(u, s)
    BY <1>1, <1>2, <1>3, <2>2, ThreadParts DEF Holds, Free
  <2>4. TypeOK'
    BY <1>1, <1>2, <2>1 DEF IInv, TypeOK, Going
  <2>5. OnePlace'
    BY <2>1, <2>3 DEF IInv, OnePlace, Queued
  <2>6. WorkerPlace'
    BY <1>1, <1>2, <1>3, <2>2, ThreadParts DEF IInv, WorkerPlace, Free, DeadQueue
  <2>7. CallPlace'
    BY <1>1, <1>2, <1>6, <2>2, ThreadParts DEF IInv, CallPlace, Free, DeadQueue
  <2>8. Lives'
    BY <1>2, <2>1, <2>3 DEF IInv, Lives, Placed, Queued
  <2> QED
    BY <1>4, <2>4, <2>5, <2>6, <2>7, <2>8 DEF IInv
<1> QED
  BY <1>5, <1>6

\* A message leaves the queue, which stays in the hands of the worker.
LEMMA PopMailKeeps ==
  ASSUME IInv, NEW w \in Worker, PopMail(w)
  PROVE  IInv'
<1>1. TypeOK'
  <2>1. q[w] \in Service /\ mail[q[w]] \in Seq(Service \cup {None})
    BY DEF IInv, TypeOK, WorkerPlace, PopMail
  <2>2. Len(mail[q[w]]) - 1 \in Nat /\ Tail(mail[q[w]]) \in Seq(Service \cup {None})
    BY <2>1 DEF PopMail
  <2>3. left' \in [Worker -> Nat] /\ rounds' \in [Worker -> Nat]
    <3>1. CASE left[w] = 1 /\ rounds[w] > 0
      <4>1. rounds[w] - 1 \in Nat
        BY <3>1 DEF IInv, TypeOK
      <4> QED
        BY <2>2, <3>1, <4>1 DEF IInv, TypeOK, PopMail
    <3>2. CASE ~(left[w] = 1 /\ rounds[w] > 0)
      <4>1. left[w] - 1 \in Nat
        BY DEF IInv, TypeOK, PopMail
      <4> QED
        BY <3>2, <4>1 DEF IInv, TypeOK, PopMail
    <3> QED
      BY <3>1, <3>2
  <2> QED
    BY <2>1, <2>2, <2>3 DEF IInv, TypeOK, PopMail
<1>2. OnePlace'
  BY DEF IInv, OnePlace, Holds, Queued, PopMail, Free
<1>3. WorkerPlace'
  BY DEF IInv, WorkerPlace, PopMail, Free
<1>4. CallPlace'
  BY DEF IInv, CallPlace, PopMail, Free
<1>5. OneRelease'
  BY DEF IInv, OneRelease, PopMail
<1>6. Lives'
  BY DEF IInv, Lives, Placed, Queued, Holds, PopMail, Free
<1> QED
  BY <1>1, <1>2, <1>3, <1>4, <1>5, <1>6 DEF IInv

\* An empty queue leaves the worker's hands and its flag is taken down in one step.
LEMMA PopNothingKeeps ==
  ASSUME IInv, NEW w \in Worker, PopNothing(w)
  PROVE  IInv'
<1>1. TypeOK'
  BY RefsDiffer, ThreadParts DEF IInv, TypeOK, WorkerPlace, CallPlace,
     PopNothing, Free, Releasing
<1>2. OnePlace'
  BY RefsDiffer, ThreadParts DEF IInv, TypeOK, OnePlace, Holds, Queued,
     PopNothing, Free, Releasing
<1>3. WorkerPlace'
  BY RefsDiffer, ThreadParts DEF IInv, TypeOK, WorkerPlace, PopNothing, Free,
     Releasing
<1>4. CallPlace'
  BY RefsDiffer, ThreadParts DEF IInv, TypeOK, CallPlace, WorkerPlace,
     PopNothing, Free, Releasing
<1>5. OneRelease'
  BY RefsDiffer, ThreadParts DEF IInv, TypeOK, OneRelease, PopNothing, Free,
     Releasing
<1>6. Lives'
  BY RefsDiffer, ThreadParts DEF IInv, TypeOK, OnePlace, WorkerPlace, CallPlace,
     OneRelease, Lives, Placed, Queued, Holds, PopNothing, Free, Releasing
<1> QED
  BY <1>1, <1>2, <1>3, <1>4, <1>5, <1>6 DEF IInv

\* The worker keeps the queue and only drops its reference.
LEMMA KeepQueueKeeps ==
  ASSUME IInv, NEW w \in Worker, KeepQueue(w)
  PROVE  IInv'
<1>1. TypeOK'
  BY RefsDiffer, ThreadParts DEF IInv, TypeOK, WorkerPlace, CallPlace,
     KeepQueue, Free, Releasing
<1>2. OnePlace'
  BY DEF IInv, OnePlace, Holds, Queued, KeepQueue, Free, Releasing
<1>3. WorkerPlace'
  BY RefsDiffer, ThreadParts DEF IInv, TypeOK, WorkerPlace, KeepQueue, Free,
     Releasing
<1>4. CallPlace'
  BY RefsDiffer, ThreadParts DEF IInv, TypeOK, CallPlace, WorkerPlace,
     KeepQueue, Free, Releasing
<1>5. OneRelease'
  BY RefsDiffer, ThreadParts DEF IInv, TypeOK, OneRelease, KeepQueue, Free,
     Releasing
<1>6. Lives'
  BY DEF IInv, Lives, Placed, Queued, Holds, KeepQueue, Free, Releasing
<1> QED
  BY <1>1, <1>2, <1>3, <1>4, <1>5, <1>6 DEF IInv

\* The worker has two queues in hand, and they differ.
LEMMA NextQueueKeeps ==
  ASSUME IInv, NEW w \in Worker, NextQueue(w)
  PROVE  IInv'
<1>1. globalMq # <<>> /\ globalMq' = Tail(globalMq)
  BY DEF NextQueue
<1>2. Taken(globalMq)
  BY <1>1, HeadTail DEF IInv, TypeOK
<1>3. TypeOK'
  BY <1>1, <1>2 DEF IInv, TypeOK, Taken, NextQueue, Free
<1>4. OnePlace'
  BY <1>1, <1>2 DEF IInv, OnePlace, Holds, Queued, Taken, NextQueue, Free
<1>5. WorkerPlace'
  BY <1>1, <1>2, RefsDiffer, ThreadParts DEF IInv, TypeOK, OnePlace,
     WorkerPlace, CallPlace, Holds, Queued, Taken, NextQueue, Free
<1>6. CallPlace'
  BY DEF IInv, CallPlace, NextQueue, Free
<1>7. OneRelease'
  BY DEF IInv, OneRelease, NextQueue
<1>8. Lives'
  <2>1. nq'[w] = Head(globalMq) /\ \A v \in Worker : v # w => nq'[v] = nq[v]
    BY DEF IInv, TypeOK, NextQueue
  <2>2. nq[w] = None
    BY DEF IInv, WorkerPlace, NextQueue
  <2>3. \A s \in Service : Placed(s)' <=> Placed(s)
    BY <1>1, <1>2, <2>1, <2>2, ThreadParts
       DEF IInv, TypeOK, Placed, Queued, Holds, Taken, NextQueue
  <2> QED
    BY <2>3 DEF IInv, Lives, NextQueue
<1> QED
  BY <1>3, <1>4, <1>5, <1>6, <1>7, <1>8 DEF IInv

\* One of the two queues goes back to the global queue.
LEMMA PutBackKeeps ==
  ASSUME IInv, NEW w \in Worker, PutBack(w)
  PROVE  IInv'
<1>1. q[w] \in Service
  BY DEF IInv, TypeOK, WorkerPlace, PutBack
<1>2. Added(globalMq, q[w], PushByRank(q[w], globalMq))
  BY <1>1, PushAdds DEF IInv, TypeOK
<1>3. TypeOK'
  BY <1>1, <1>2, RefsDiffer, ThreadParts DEF IInv, TypeOK, WorkerPlace,
     CallPlace, Added, PutBack, Releasing
<1>4. OnePlace'
  BY <1>1, <1>2, RefsDiffer, ThreadParts DEF IInv, TypeOK, OnePlace,
     WorkerPlace, CallPlace, Holds, Queued, Added, PutBack, Releasing
<1>5. WorkerPlace'
  BY <1>1, RefsDiffer, ThreadParts DEF IInv, TypeOK, WorkerPlace, PutBack,
     Releasing, Free
<1>6. CallPlace'
  BY <1>1, RefsDiffer, ThreadParts, SMTT(20)
     DEF IInv, TypeOK, OnePlace, WorkerPlace, CallPlace, Lives, Holds, Queued, PutBack, Releasing, Free
<1>7. OneRelease'
  BY <1>1, RefsDiffer, ThreadParts DEF IInv, TypeOK, OneRelease, PutBack,
     Releasing
<1>8. Lives'
  BY <1>1, <1>2, RefsDiffer, ThreadParts DEF IInv, TypeOK, Lives, Placed,
     Queued, Holds, Added, PutBack, Releasing
<1> QED
  BY <1>3, <1>4, <1>5, <1>6, <1>7, <1>8 DEF IInv

\* A message that does nothing moves the worker only.
LEMMA HandleOnlyKeeps ==
  ASSUME IInv, NEW w \in Worker, HandleOnly(w)
  PROVE  IInv'
<1>1. TypeOK'
  BY DEF IInv, TypeOK, HandleOnly
<1>2. OnePlace'
  BY DEF IInv, OnePlace, Holds, Queued, HandleOnly
<1>3. WorkerPlace'
  BY DEF IInv, WorkerPlace, HandleOnly, Free
<1>4. CallPlace'
  BY DEF IInv, CallPlace, HandleOnly
<1>5. OneRelease'
  BY DEF IInv, OneRelease, HandleOnly
<1>6. Lives'
  BY DEF IInv, Lives, Placed, Queued, Holds, HandleOnly
<1> QED
  BY <1>1, <1>2, <1>3, <1>4, <1>5, <1>6 DEF IInv

\* The service returns to the loop with its reference still counted.
LEMMA ReturnKeeps ==
  ASSUME IInv, NEW w \in Worker, Return(w)
  PROVE  IInv'
<1>1. TypeOK'
  BY DEF IInv, TypeOK, Return, Free
<1>2. OnePlace'
  BY DEF IInv, OnePlace, Holds, Queued, Return, Free
<1>3. WorkerPlace'
  BY DEF IInv, WorkerPlace, Return, Free
<1>4. CallPlace'
  BY DEF IInv, CallPlace, Return, Free
<1>5. OneRelease'
  BY DEF IInv, OneRelease, Return
<1>6. Lives'
  BY DEF IInv, Lives, Placed, Queued, Holds, Return, Free
<1> QED
  BY <1>1, <1>2, <1>3, <1>4, <1>5, <1>6 DEF IInv

\* The receiver is in the table, so its context lives and may be counted once more.
LEMMA SendKeeps ==
  ASSUME IInv, NEW w \in Worker, NEW d \in Service, Send(w, d)
  PROVE  IInv'
<1>1. TypeOK'
  BY RefsDiffer, ThreadParts DEF IInv, TypeOK, WorkerPlace, CallPlace, Send,
     Pushing, Grab
<1>2. OnePlace'
  BY DEF IInv, OnePlace, Holds, Queued, Send, Pushing, Grab
<1>3. WorkerPlace'
  BY RefsDiffer, ThreadParts DEF IInv, TypeOK, WorkerPlace, Send, Pushing, Grab,
     Free
<1>4. CallPlace'
  BY RefsDiffer, ThreadParts, SMTT(20)
     DEF IInv, TypeOK, WorkerPlace, CallPlace, Lives, Send, Pushing, Grab, Free
<1>5. OneRelease'
  BY RefsDiffer, ThreadParts DEF IInv, TypeOK, OneRelease, Send, Pushing, Grab
<1>6. Lives'
  BY DEF IInv, Lives, Placed, Queued, Holds, Send, Pushing, Grab
<1> QED
  BY <1>1, <1>2, <1>3, <1>4, <1>5, <1>6 DEF IInv

\* The table gives its reference up to one thread only.
LEMMA KillKeeps ==
  ASSUME IInv, NEW w \in Worker, NEW d \in Service, Kill(w, d)
  PROVE  IInv'
<1>1. TypeOK'
  BY RefsDiffer, ThreadParts DEF IInv, TypeOK, WorkerPlace, CallPlace, Kill,
     Releasing
<1>2. OnePlace'
  BY DEF IInv, OnePlace, Holds, Queued, Kill, Releasing
<1>3. WorkerPlace'
  BY RefsDiffer, ThreadParts DEF IInv, TypeOK, WorkerPlace, Kill, Releasing,
     Free
<1>4. CallPlace'
  BY RefsDiffer, ThreadParts, SMTT(20)
     DEF IInv, TypeOK, WorkerPlace, CallPlace, Lives, Kill, Releasing, Free
<1>5. OneRelease'
  BY RefsDiffer, ThreadParts DEF IInv, TypeOK, CallPlace, OneRelease, Kill,
     Releasing
<1>6. Lives'
  BY DEF IInv, Lives, Placed, Queued, Holds, Kill, Releasing
<1> QED
  BY <1>1, <1>2, <1>3, <1>4, <1>5, <1>6 DEF IInv

\* A new service is in the hands of the thread that makes it.
LEMMA LaunchKeeps ==
  ASSUME IInv, NEW w \in Worker, NEW d \in Service, Launch(w, d)
  PROVE  IInv'
<1>1. TypeOK'
  BY RefsDiffer, ThreadParts DEF IInv, TypeOK, WorkerPlace, CallPlace, Launch,
     Going
<1>2. OnePlace'
  BY RefsDiffer, ThreadParts DEF IInv, TypeOK, OnePlace, WorkerPlace, CallPlace,
     Lives, Placed, Holds, Queued, Launch, Going
<1>3. WorkerPlace'
  <2>1. then'[w].op = "init" /\ then'[w].box = d /\ pc'[w] = "back"
    BY ThreadParts DEF IInv, TypeOK, Launch, Going
  <2>2. \A v \in Worker \ {w} : then'[v] = then[v] /\ pc'[v] = pc[v]
    BY DEF IInv, TypeOK, Launch
  <2>3. ref[d] = {} /\ \A s \in Service \ {d} : ref'[s] = ref[s]
    BY DEF IInv, TypeOK, Lives, Launch
  <2>4. ~Placed(d)
    BY DEF IInv, Lives, Launch
  <2>5. d \notin {q[w], nq[w]}
    BY <2>4, ThreadParts DEF Placed, Holds
  <2>6. UNCHANGED <<q, nq, call>>
    BY DEF Launch
  <2>7. pc[w] = "run"
    BY DEF Launch
  <2> SUFFICES ASSUME NEW v \in Worker
               PROVE  WorkerPlace!(v)'
    BY DEF WorkerPlace
  <2>8. WorkerPlace!(v)
    BY DEF IInv, WorkerPlace
  <2>9. CASE v = w
    BY <2>1, <2>3, <2>5, <2>6, <2>7, <2>8, <2>9 DEF IInv, TypeOK, Free
  <2>10. CASE v # w
    BY <2>2, <2>3, <2>6, <2>8, <2>10, ThreadParts DEF IInv, TypeOK, Free
  <2> QED
    BY <2>9, <2>10
<1>4. CallPlace'
  BY RefsDiffer, ThreadParts, SMTT(20)
     DEF IInv, TypeOK, OnePlace, WorkerPlace, CallPlace, Lives, Placed, Launch, Going, Free
<1>5. OneRelease'
  BY DEF IInv, OneRelease, Launch
<1>6. Lives'
  <2>1. ref[d] = {} /\ d \notin table /\ ~release[d] /\ mail[d] = <<>> /\ ~Placed(d)
    BY DEF IInv, Lives, Launch
  <2>2. then'[w].op = "init" /\ then'[w].box = d
    BY ThreadParts DEF IInv, TypeOK, Launch, Going
  <2>3. \A t \in Thread : t # w => then'[t] = then[t]
    BY DEF IInv, TypeOK, Launch
  <2>4. then[w].op = "none"
    BY DEF IInv, WorkerPlace, Launch, Free
  <2>5. Placed(d)'
    BY <2>2, ThreadParts DEF Placed, Holds
  <2>6. \A s \in Service \ {d} : Placed(s)' <=> Placed(s)
    BY <2>2, <2>3, <2>4, ThreadParts DEF Placed, Holds, Queued, Launch
  <2>7. \A s \in Service \ {d} :
          /\ ref'[s] = ref[s] /\ box'[s] = box[s] /\ inGlobal'[s] = inGlobal[s]
          /\ s \in table' <=> s \in table
    BY DEF IInv, TypeOK, Launch
  <2>8. ref'[d] = {TableRef, NewRef(w)} /\ box'[d] = "made" /\ inGlobal'[d]
    BY DEF IInv, TypeOK, Launch
  <2>9. UNCHANGED <<release, mail>>
    BY DEF Launch
  <2> QED
    BY <2>1, <2>5, <2>6, <2>7, <2>8, <2>9 DEF IInv, Lives
<1> QED
  BY <1>1, <1>2, <1>3, <1>4, <1>5, <1>6 DEF IInv

\* A worker that wakes holds nothing.
LEMMA WakeKeeps ==
  ASSUME IInv, NEW w \in Worker, Wake(w)
  PROVE  IInv'
<1>1. TypeOK'
  BY DEF IInv, TypeOK, Wake
<1>2. OnePlace'
  BY DEF IInv, OnePlace, Holds, Queued, Wake
<1>3. WorkerPlace'
  BY DEF IInv, WorkerPlace, Wake, Free
<1>4. CallPlace'
  BY DEF IInv, CallPlace, Wake
<1>5. OneRelease'
  BY DEF IInv, OneRelease, Wake
<1>6. Lives'
  BY DEF IInv, Lives, Placed, Queued, Holds, Wake
<1> QED
  BY <1>1, <1>2, <1>3, <1>4, <1>5, <1>6 DEF IInv

\* The timer and the socket thread count the receiver as a worker does.
LEMMA FeedKeeps ==
  ASSUME IInv, NEW f \in Feeder, NEW d \in Service, Feed(f, d)
  PROVE  IInv'
<1>1. TypeOK'
  BY RefsDiffer, ThreadParts DEF IInv, TypeOK, WorkerPlace, CallPlace, Feed,
     Free, Pushing, Grab
<1>2. OnePlace'
  BY DEF IInv, OnePlace, Holds, Queued, Feed, Free, Pushing, Grab
<1>3. WorkerPlace'
  <2>1. \A w \in Worker : w # f
    BY MailboxAssumption
  <2> QED
    BY <2>1, RefsDiffer, ThreadParts
       DEF IInv, Feed, TypeOK, WorkerPlace, Free, Pushing, Grab
<1>4. CallPlace'
  <2>1. f \in Thread /\ f \notin Worker /\ d # None
    BY MailboxAssumption, ThreadParts
  <2>2. ref[d] # {} /\ box[d] = "made" /\ ~release[d]
    BY RefsDiffer, ThreadParts DEF IInv, Lives, Feed
  <2>3. /\ ref'[d] = ref[d] \cup {SendRef(f)}
        /\ \A s \in Service \ {d} : ref'[s] = ref[s]
    BY DEF IInv, TypeOK, Feed, Grab
  <2>4. /\ call'[f].op = "push" /\ call'[f].to = d /\ call'[f].arg = None
        /\ \A u \in Thread \ {f} : call'[u] = call[u]
    BY ThreadParts DEF IInv, TypeOK, Feed, Pushing
  <2> SUFFICES ASSUME NEW u \in Thread PROVE CallPlace!(u)'
    BY DEF CallPlace
  <2>5. then'[u] = then[u] /\ UNCHANGED <<release, box, pc, table, then>>
    BY DEF Feed
  <2>6. CallPlace!(u)
    BY DEF IInv, CallPlace
  <2>7. CASE u = f
    BY <2>1, <2>3, <2>4, <2>5, <2>6, <2>7 DEF Free, Feed
  <2>8. CASE u # f
    <3>1. \A s \in Service : ref[s] \subseteq ref'[s]
      BY <2>3
    <3>2. call'[u] = call[u]
      BY <2>4, <2>8
    <3>3. call[u].op # "none" => call[u].to \in Service
      BY <2>6 DEF IInv, TypeOK
    <3>4. then[u].op = "init" => then[u].box \in Service
      BY <2>6 DEF IInv, TypeOK
    <3>5. call[u].op = "mark" => ref'[call[u].to] = {}
      BY <2>2, <2>3, <2>6, <3>3
    <3> QED
      BY <2>5, <2>6, <3>1, <3>2, <3>3, <3>4, <3>5
  <2> QED
    BY <2>7, <2>8
<1>5. OneRelease'
  BY RefsDiffer, ThreadParts DEF IInv, TypeOK, OneRelease, Feed, Free, Pushing,
     Grab
<1>6. Lives'
  BY DEF IInv, Lives, Placed, Queued, Holds, Feed, Free, Pushing, Grab
<1> QED
  BY <1>1, <1>2, <1>3, <1>4, <1>5, <1>6 DEF IInv

\* The queue goes to the global queue only when its flag says that it is nowhere.
LEMMA PushKeeps ==
  ASSUME IInv, NEW t \in Thread, Push(t)
  PROVE  IInv'
<1>1. call[t].to \in Service
  BY DEF IInv, TypeOK, CallPlace, Push
<1>2. Added(globalMq, call[t].to, PushByRank(call[t].to, globalMq))
  BY <1>1, PushAdds DEF IInv, TypeOK
<1>3. TypeOK'
  BY <1>1, <1>2, RefsDiffer, ThreadParts DEF IInv, TypeOK, WorkerPlace,
     CallPlace, Added, Push, Releasing
<1>4. OnePlace'
  BY <1>1, <1>2, RefsDiffer, ThreadParts DEF IInv, TypeOK, OnePlace,
     WorkerPlace, CallPlace, Lives, Placed, Holds, Queued, Added, Push,
     Releasing
<1>5. WorkerPlace'
  BY <1>1 DEF IInv, WorkerPlace, Push, Releasing, Free
<1>6. CallPlace'
  BY <1>1 DEF IInv, CallPlace, Push, Releasing
<1>7. OneRelease'
  BY <1>1, RefsDiffer, ThreadParts DEF IInv, TypeOK, OneRelease, Push, Releasing
<1>8. Lives'
  BY <1>1, <1>2, RefsDiffer, ThreadParts DEF IInv, TypeOK, WorkerPlace,
     CallPlace, Lives, Placed, Queued, Holds, Added, Push, Releasing
<1> QED
  BY <1>3, <1>4, <1>5, <1>6, <1>7, <1>8 DEF IInv

\* Each reference is dropped by the one thread that counted it.
LEMMA ReleaseKeeps ==
  ASSUME IInv, NEW t \in Thread, Release(t)
  PROVE  IInv'
<1>1. TypeOK'
  BY DEF IInv, TypeOK, Release, NoCall, Marking
<1>2. OnePlace'
  BY DEF IInv, OnePlace, Holds, Queued, Release, NoCall, Marking
<1>3. WorkerPlace'
  <2>1. call[t].to \in Service /\ call[t].op # "none"
    BY DEF IInv, TypeOK, CallPlace, Release
  <2>2. \A s \in Service : s # call[t].to => ref'[s] = ref[s]
    BY DEF IInv, TypeOK, Release
  <2>3. ref'[call[t].to] = ref[call[t].to] \ {call[t].arg}
    BY <2>1 DEF IInv, TypeOK, Release
  <2>4. \A w \in Worker : Free(w) => w # t /\ Free(w)'
    BY <2>1, ThreadParts DEF IInv, TypeOK, Release, Free
  <2>5. \A w \in Worker : pc[w] \in {"loop", "run", "back", "putback"} => RunRef(w) # call[t].arg
    BY <2>1, <2>4, RefsDiffer, ThreadParts DEF IInv, CallPlace, WorkerPlace, Release
  <2> QED
    BY <2>1, <2>2, <2>3, <2>4, <2>5 DEF IInv, TypeOK, WorkerPlace, Release
<1>4. CallPlace'
  <2>1. call[t].to \in Service /\ call[t].op # "none" /\ call[t].arg \in ref[call[t].to]
    BY DEF IInv, TypeOK, CallPlace, Release
  <2>2. /\ ref'[call[t].to] = ref[call[t].to] \ {call[t].arg}
        /\ \A s \in Service : s # call[t].to => ref'[s] = ref[s]
    BY <2>1 DEF IInv, TypeOK, Release
  <2>3. \A u \in Thread : u # t => call'[u] = call[u]
    BY DEF IInv, TypeOK, Release
  <2>4. \/ call'[t].op = "none"
        \/ call'[t].op = "mark" /\ call'[t].to = call[t].to /\ ref'[call[t].to] = {}
    BY <2>2 DEF IInv, TypeOK, Release, NoCall, Marking
  <2>5. box[call[t].to] = "made" /\ ~release[call[t].to]
    BY <2>1 DEF IInv, Lives
  <2>6. ASSUME NEW u \in Thread, u # t
        PROVE  /\ call[t].arg # SendRef(u) /\ call[t].arg # NewRef(u)
               /\ u \in Worker => call[t].arg # RunRef(u)
    BY <2>6, RefsDiffer, ThreadParts DEF IInv, CallPlace, Release
  <2>7. ASSUME NEW u \in Thread, u # t, call[u].op = "release", call[u].to = call[t].to
        PROVE  call[u].arg # call[t].arg
    BY <2>6, <2>7, RefsDiffer, ThreadParts DEF IInv, CallPlace, OneRelease, Release
  <2>8. \A u \in Thread : then[u].op = "init" => u # t
    BY <2>1 DEF IInv, CallPlace
  <2>9. UNCHANGED <<then, release, box, pc, table>>
    BY DEF Release
  <2> SUFFICES ASSUME NEW u \in Thread PROVE CallPlace!(u)'
    BY DEF CallPlace
  <2>10. CASE u = t
    BY <2>1, <2>4, <2>5, <2>8, <2>9, <2>10 DEF IInv, TypeOK, CallPlace
  <2>11. CASE u # t
    <3>1. call'[u] = call[u] /\ CallPlace!(u)
      BY <2>3, <2>11 DEF IInv, CallPlace
    <3>2. \A s \in Service, o \in Owner : o # call[t].arg /\ o \in ref[s] => o \in ref'[s]
      BY <2>2
    <3>3. ref[call[u].to] = {} => call[u].to # call[t].to
      BY <2>1
    <3> QED
      BY <2>1, <2>2, <2>6, <2>7, <2>9, <2>11, <3>1, <3>2, <3>3, RefsDiffer
         DEF IInv, TypeOK
  <2> QED
    BY <2>10, <2>11
<1>5. OneRelease'
  BY RefsDiffer, ThreadParts DEF IInv, TypeOK, CallPlace, OneRelease, Release,
     NoCall, Marking
<1>6. Lives'
  BY RefsDiffer, ThreadParts DEF IInv, TypeOK, WorkerPlace, CallPlace, Lives,
     Placed, Queued, Holds, Release, NoCall, Marking
<1> QED
  BY <1>1, <1>2, <1>3, <1>4, <1>5, <1>6 DEF IInv

\* The thread that dropped the last reference marks the queue, once.
LEMMA MarkReleaseKeeps ==
  ASSUME IInv, NEW t \in Thread, MarkRelease(t)
  PROVE  IInv'
<1>1. call[t].to \in Service
  BY DEF IInv, TypeOK, CallPlace, MarkRelease
<1>2. Added(globalMq, call[t].to, Append(globalMq, call[t].to))
  BY <1>1, AppendAdds DEF IInv, TypeOK
<1>3. TypeOK'
  BY <1>1, <1>2 DEF IInv, TypeOK, Added, MarkRelease, NoCall
<1>4. OnePlace'
  BY <1>1, <1>2, RefsDiffer, ThreadParts DEF IInv, TypeOK, OnePlace,
     WorkerPlace, CallPlace, Lives, Placed, Holds, Queued, Added, MarkRelease,
     NoCall
<1>5. WorkerPlace'
  BY <1>1 DEF IInv, WorkerPlace, MarkRelease, NoCall, Free
<1>6. CallPlace'
  BY <1>1, RefsDiffer, ThreadParts DEF IInv, TypeOK, OnePlace, WorkerPlace,
     CallPlace, OneRelease, Lives, Holds, MarkRelease, NoCall
<1>7. OneRelease'
  BY <1>1, RefsDiffer, ThreadParts DEF IInv, TypeOK, OneRelease, MarkRelease,
     NoCall
<1>8. Lives'
  BY <1>1, <1>2, RefsDiffer, ThreadParts DEF IInv, TypeOK, WorkerPlace,
     CallPlace, Lives, Placed, Queued, Holds, Added, MarkRelease, NoCall
<1> QED
  BY <1>3, <1>4, <1>5, <1>6, <1>7, <1>8 DEF IInv

\* A service that is still in the table posts its first message to itself.
LEMMA InitServiceKeeps ==
  ASSUME IInv, NEW t \in Thread, InitService(t)
  PROVE  IInv'
<1>1. TypeOK'
  BY RefsDiffer, ThreadParts DEF IInv, TypeOK, WorkerPlace, CallPlace,
     InitService, Releasing, Going
<1>2. OnePlace'
  BY DEF IInv, OnePlace, Holds, Queued, InitService, Releasing, Going
<1>3. WorkerPlace'
  BY DEF IInv, WorkerPlace, InitService, Releasing, Going, Free
<1>4. CallPlace'
  BY RefsDiffer, ThreadParts DEF IInv, TypeOK, CallPlace, InitService,
     Releasing, Going
<1>5. OneRelease'
  BY RefsDiffer, ThreadParts DEF IInv, TypeOK, OneRelease, InitService,
     Releasing, Going
<1>6. Lives'
  BY DEF IInv, Lives, Placed, Queued, Holds, InitService, Releasing, Going
<1> QED
  BY <1>1, <1>2, <1>3, <1>4, <1>5, <1>6 DEF IInv

\* A service whose init fails stays in the hands of the thread that made it.
LEMMA InitFailsKeeps ==
  ASSUME IInv, NEW t \in Thread, InitFails(t)
  PROVE  IInv'
<1>1. TypeOK'
  BY RefsDiffer, ThreadParts DEF IInv, TypeOK, WorkerPlace, CallPlace,
     InitFails, Releasing, Going
<1>2. OnePlace'
  BY DEF IInv, OnePlace, Holds, Queued, InitFails, Releasing, Going
<1>3. WorkerPlace'
  BY DEF IInv, WorkerPlace, InitFails, Releasing, Going, Free
<1>4. CallPlace'
  BY RefsDiffer, ThreadParts DEF IInv, TypeOK, CallPlace, InitFails, Releasing,
     Going
<1>5. OneRelease'
  BY RefsDiffer, ThreadParts DEF IInv, TypeOK, OneRelease, InitFails, Releasing,
     Going
<1>6. Lives'
  BY DEF IInv, Lives, Placed, Queued, Holds, InitFails, Releasing, Going
<1> QED
  BY <1>1, <1>2, <1>3, <1>4, <1>5, <1>6 DEF IInv

\* The new queue goes from the hands of its maker to the global queue.
LEMMA PublishKeeps ==
  ASSUME IInv, NEW t \in Thread, Publish(t)
  PROVE  IInv'
<1>1. then[t].box \in Service
  BY DEF IInv, TypeOK, CallPlace, Publish
<1>2. Added(globalMq, then[t].box, Append(globalMq, then[t].box))
  BY <1>1, AppendAdds DEF IInv, TypeOK
<1>3. TypeOK'
  BY <1>1, <1>2 DEF IInv, TypeOK, Added, Publish, NoThen
<1>4. OnePlace'
  <2>1. ~Queued(then[t].box) /\ \A u \in Thread : Holds(u, then[t].box) => u = t
    BY <1>1, ThreadParts DEF IInv, OnePlace, Holds, Publish
  <2>2. /\ then'[t].op = "none" /\ then'[t].box = None
        /\ \A u \in Thread \ {t} : then'[u] = then[u]
    BY DEF IInv, TypeOK, Publish, NoThen
  <2>3. \A u \in Thread, s \in Service : Holds(u, s)' => Holds(u, s) /\ s # then[t].box
    BY <1>1, <2>1, <2>2, ThreadParts DEF Holds, Publish, IInv, WorkerPlace
  <2> QED
    BY <1>1, <1>2, <2>1, <2>3 DEF IInv, OnePlace, Queued, Added, Publish
<1>5. WorkerPlace'
  BY <1>1 DEF IInv, WorkerPlace, Publish, NoThen, Free
<1>6. CallPlace'
  BY <1>1 DEF IInv, CallPlace, Publish, NoThen
<1>7. OneRelease'
  BY <1>1 DEF IInv, OneRelease, Publish
<1>8. Lives'
  BY <1>1, <1>2 DEF IInv, Lives, Placed, Queued, Holds, Added, Publish, NoThen
<1> QED
  BY <1>3, <1>4, <1>5, <1>6, <1>7, <1>8 DEF IInv

\* The maker takes the reference of the table, unless another thread did.
LEMMA RetireFailedKeeps ==
  ASSUME IInv, NEW t \in Thread, RetireFailed(t)
  PROVE  IInv'
<1>1. TypeOK'
  BY RefsDiffer, ThreadParts DEF IInv, TypeOK, WorkerPlace, CallPlace,
     RetireFailed, Releasing, Going
<1>2. OnePlace'
  BY DEF IInv, OnePlace, Holds, Queued, RetireFailed, Releasing, Going
<1>3. WorkerPlace'
  BY DEF IInv, WorkerPlace, RetireFailed, Releasing, Going, Free
<1>4. CallPlace'
  BY RefsDiffer, ThreadParts DEF IInv, TypeOK, CallPlace, WorkerPlace, Lives,
     RetireFailed, Releasing, Going
<1>5. OneRelease'
  BY RefsDiffer, ThreadParts DEF IInv, TypeOK, CallPlace, OneRelease,
     RetireFailed, Releasing, Going
<1>6. Lives'
  BY DEF IInv, Lives, Placed, Queued, Holds, RetireFailed, Releasing, Going
<1> QED
  BY <1>1, <1>2, <1>3, <1>4, <1>5, <1>6 DEF IInv

\* The maker of a failed service puts its queue back, or empties it.
LEMMA GiveUpKeeps ==
  ASSUME IInv, NEW t \in Thread, GiveUp(t)
  PROVE  IInv'
<1> DEFINE d == then[t].box
<1>1. d \in Service /\ then[t].op # "none"
  BY DEF IInv, TypeOK, CallPlace, GiveUp
<1>2. UNCHANGED <<table, ref, box, mail, inGlobal, release, pc, q, nq, left, rounds, call>>
  BY DEF GiveUp
<1>3. OneRelease'
  BY <1>2 DEF IInv, OneRelease
<1>4. CASE ~release[d]
  <2>1. Added(globalMq, d, Append(globalMq, d))
    BY <1>1, AppendAdds DEF IInv, TypeOK
  <2>2. ~Queued(d) /\ Holds(t, d) /\ \A u \in Thread : Holds(u, d) => u = t
    BY <1>1, ThreadParts DEF IInv, OnePlace, Holds
  <2>3. globalMq' = Append(globalMq, d) /\ then' = [then EXCEPT ![t] = NoThen]
    BY <1>4 DEF GiveUp, MqRelease
  <2>4. /\ then'[t].op = "none" /\ then'[t].box = None
        /\ \A u \in Thread \ {t} : then'[u] = then[u]
    BY <2>3 DEF IInv, TypeOK, NoThen
  <2>5. \A u \in Thread, s \in Service : Holds(u, s)' <=> Holds(u, s) /\ s # d
    BY <1>1, <1>2, <2>2, <2>4, ThreadParts DEF Holds, IInv, WorkerPlace
  <2>6. \A s \in Service : Placed(s)' <=> Placed(s)
    BY <1>1, <2>1, <2>2, <2>3, <2>5 DEF Placed, Queued, Added
  <2>7. TypeOK'
    BY <1>2, <2>1, <2>3 DEF IInv, TypeOK, Added, NoThen
  <2>8. OnePlace'
    BY <1>1, <2>1, <2>2, <2>3, <2>5 DEF IInv, OnePlace, Queued, Added
  <2>9. WorkerPlace'
    BY <1>2, <2>4, ThreadParts DEF IInv, WorkerPlace, Free
  <2>10. CallPlace'
    BY <1>2, <2>4 DEF IInv, CallPlace
  <2>11. Lives'
    BY <1>2, <2>6 DEF IInv, Lives
  <2> QED
    BY <1>3, <2>7, <2>8, <2>9, <2>10, <2>11 DEF IInv
<1>5. CASE release[d]
  <2>1. globalMq' = globalMq /\ then' = [then EXCEPT ![t] = Going("drop", d)]
    BY <1>5 DEF GiveUp, MqRelease
  <2>2. /\ then'[t].op = "drop" /\ then'[t].box = d
        /\ \A u \in Thread \ {t} : then'[u] = then[u]
    BY <2>1 DEF IInv, TypeOK, Going
  <2>3. \A u \in Thread, s \in Service : Holds(u, s)' <=> Holds(u, s)
    BY <1>1, <1>2, <2>2 DEF Holds
  <2>4. TypeOK'
    BY <1>1, <1>2, <2>1 DEF IInv, TypeOK, Going
  <2>5. OnePlace'
    BY <2>1, <2>3 DEF IInv, OnePlace, Queued
  <2>6. WorkerPlace'
    BY <1>1, <1>2, <2>2, ThreadParts DEF IInv, WorkerPlace, Free
  <2>7. CallPlace'
    BY <1>1, <1>2, <1>5, <2>2, ThreadParts DEF IInv, CallPlace
  <2>8. Lives'
    BY <1>2, <2>1, <2>3 DEF IInv, Lives, Placed, Queued
  <2> QED
    BY <1>3, <2>4, <2>5, <2>6, <2>7, <2>8 DEF IInv
<1> QED
  BY <1>4, <1>5

\* The sender of a message that is dropped is in the table, or gets no answer.
LEMMA DropMailKeeps ==
  ASSUME IInv, NEW t \in Thread, DropMail(t)
  PROVE  IInv'
<1> DEFINE d == then[t].box
           sender == Head(mail[d])
<1>0. d \in Service /\ mail[d] # <<>> /\ mail[d] \in Seq(Service \cup {None})
  BY DEF IInv, TypeOK, CallPlace, DropMail
<1>1. sender \in Service \cup {None} /\ Tail(mail[d]) \in Seq(Service \cup {None})
  BY <1>0
<1>2. UNCHANGED <<table, box, inGlobal, release, globalMq, pc, q, nq, left, rounds, then>>
  BY DEF DropMail
<1>3. mail' = [mail EXCEPT ![d] = Tail(@)] /\ call[t].op = "none"
  BY DEF DropMail
<1>4. box[d] = "made" /\ inGlobal[d]
  BY <1>0 DEF IInv, Lives
<1>5. OnePlace'
  BY <1>2 DEF IInv, OnePlace, Holds, Queued
<1>7. \A s \in Service : mail'[s] # <<>> => mail[s] # <<>>
  BY <1>0, <1>3 DEF IInv, TypeOK
<1>8. \A s \in Service : Placed(s)' <=> Placed(s)
  BY <1>2 DEF Placed, Holds, Queued
<1>9. mail' \in [Service -> Seq(Service \cup {None})]
  BY <1>0, <1>1, <1>3 DEF IInv, TypeOK
<1>10. CASE sender \notin table
  <2>1. ref' = ref /\ call' = call
    BY <1>10 DEF DropMail
  <2>2. TypeOK'
    BY <1>2, <1>9, <2>1 DEF IInv, TypeOK
  <2>3. WorkerPlace' /\ CallPlace' /\ OneRelease'
    BY <1>2, <2>1 DEF IInv, WorkerPlace, CallPlace, OneRelease, Free
  <2>4. Lives'
    BY <1>2, <1>7, <1>8, <2>1 DEF IInv, Lives
  <2> QED
    BY <1>5, <2>2, <2>3, <2>4 DEF IInv
<1>11. CASE sender \in table
  <2>1. /\ ref' = [ref EXCEPT ![sender] = @ \cup {SendRef(t)}]
        /\ call' = [call EXCEPT ![t] = Pushing(sender, d)]
    BY <1>11 DEF DropMail, Grab
  <2>2. sender \in Service /\ ref[sender] # {} /\ box[sender] = "made" /\ ~release[sender]
    BY <1>11 DEF IInv, TypeOK, Lives
  <2>3. /\ ref'[sender] = ref[sender] \cup {SendRef(t)}
        /\ \A s \in Service \ {sender} : ref'[s] = ref[s]
    BY <2>1, <2>2 DEF IInv, TypeOK
  <2>4. /\ call'[t].op = "push" /\ call'[t].to = sender /\ call'[t].arg = d
        /\ \A u \in Thread \ {t} : call'[u] = call[u]
    BY <2>1 DEF IInv, TypeOK, Pushing
  <2>5. TypeOK'
    <3>1. call' \in [Thread -> [op : {"none", "push", "release", "mark"},
                                to : Service \cup {None},
                                arg : Service \cup {None} \cup Owner]]
      BY <1>0, <1>1, <2>1 DEF IInv, TypeOK, Pushing
    <3>2. ref' \in [Service -> SUBSET Owner]
      BY <2>1, <2>2, RefsDiffer DEF IInv, TypeOK
    <3> QED
      BY <1>2, <1>9, <3>1, <3>2 DEF IInv, TypeOK
  <2>6. WorkerPlace'
    <3>1. \A w \in Worker : Free(w) => w # t /\ Free(w)'
      BY <1>2, <2>4, ThreadParts DEF Free, DropMail
    <3>2. \A s \in Service : ref[s] \subseteq ref'[s]
      BY <2>3
    <3> QED
      BY <1>2, <3>1, <3>2 DEF IInv, TypeOK, WorkerPlace
  <2>7. CallPlace'
    <3> SUFFICES ASSUME NEW u \in Thread PROVE CallPlace!(u)'
      BY DEF CallPlace
    <3>1. CallPlace!(u)
      BY DEF IInv, CallPlace
    <3>2. CASE u = t
      BY <1>0, <1>2, <2>2, <2>3, <2>4, <3>1, <3>2, ThreadParts DEF DropMail
    <3>3. CASE u # t
      <4>1. \A s \in Service : ref[s] \subseteq ref'[s]
        BY <2>3
      <4>2. call'[u] = call[u]
        BY <2>4, <3>3
      <4>3. call[u].op # "none" => call[u].to \in Service
        BY <3>1 DEF IInv, TypeOK
      <4>4. then[u].op = "init" => then[u].box \in Service
        BY <3>1 DEF IInv, TypeOK
      <4>5. call[u].op = "mark" => ref'[call[u].to] = {}
        BY <2>2, <2>3, <3>1, <4>3
      <4> QED
        BY <1>2, <3>1, <4>1, <4>2, <4>3, <4>4, <4>5
    <3> QED
      BY <3>2, <3>3
  <2>8. OneRelease'
    BY <2>4 DEF IInv, OneRelease
  <2>9. Lives'
    BY <1>2, <1>7, <1>8, <2>2, <2>3 DEF IInv, Lives
  <2> QED
    BY <1>5, <2>5, <2>6, <2>7, <2>8, <2>9 DEF IInv
<1> QED
  BY <1>10, <1>11

\* The queue is freed by the one thread that holds it.
LEMMA FreeQueueKeeps ==
  ASSUME IInv, NEW t \in Thread, FreeQueue(t)
  PROVE  IInv'
<1>1. TypeOK'
  BY DEF IInv, TypeOK, FreeQueue, NoThen
<1>2. OnePlace'
  BY DEF IInv, OnePlace, Holds, Queued, FreeQueue, NoThen
<1>3. WorkerPlace'
  BY DEF IInv, WorkerPlace, FreeQueue, NoThen, Free
<1>4. CallPlace'
  BY DEF IInv, CallPlace, FreeQueue, NoThen
<1>5. OneRelease'
  BY DEF IInv, OneRelease, FreeQueue
<1>6. Lives'
  BY RefsDiffer, ThreadParts DEF IInv, TypeOK, OnePlace, WorkerPlace, CallPlace,
     OneRelease, Lives, Placed, Queued, Holds, FreeQueue, NoThen
<1> QED
  BY <1>1, <1>2, <1>3, <1>4, <1>5, <1>6 DEF IInv

-----------------------------------------------------------------------------
\* At the start no thread has anything in hand and no queue is in the global one.
LEMMA InitInv == Init => IInv
<1> SUFFICES ASSUME Init
             PROVE  IInv
  OBVIOUS
<1>1. TypeOK
  BY MailboxAssumption, RefsDiffer DEF Init, TypeOK, NoCall, NoThen
<1>2. /\ \A t \in Thread : call[t].op = "none" /\ then[t].op = "none" /\ then[t].box = None
      /\ \A s \in Service : ~Contains(globalMq, s)
      /\ IsInjective(globalMq)
  BY DEF Init, NoCall, NoThen, Contains, IsInjective
<1>3. \A t \in Thread, s \in Service : ~Holds(t, s)
  BY <1>2, ThreadParts DEF Init, Holds
<1>4. OnePlace
  BY <1>2, <1>3 DEF OnePlace, Queued
<1>5. WorkerPlace /\ CallPlace /\ OneRelease
  BY <1>2, ThreadParts DEF Init, WorkerPlace, CallPlace, OneRelease, Free
<1>6. Lives
  BY <1>2, <1>3 DEF Init, Lives, Placed, Queued
<1> QED
  BY <1>1, <1>4, <1>5, <1>6 DEF IInv

\* Whatever a thread does, it keeps the invariant.
LEMMA NextKeeps == IInv /\ [Next]_vars => IInv'
<1> SUFFICES ASSUME IInv, [Next]_vars
             PROVE  IInv'
  OBVIOUS
<1>1. ASSUME NEW t \in Thread, InFunction(t)
      PROVE  IInv'
  BY <1>1, PushKeeps, ReleaseKeeps, MarkReleaseKeeps, InitServiceKeeps, InitFailsKeeps, PublishKeeps,
     RetireFailedKeeps, GiveUpKeeps, DropMailKeeps, FreeQueueKeeps
     DEF InFunction
<1>2. ASSUME NEW w \in Worker, Dispatch(w)
      PROVE  IInv'
  BY <1>2, TakeQueueKeeps, SleepKeeps, EnterLoopKeeps, DeadQueueKeeps, PopMailKeeps, PopNothingKeeps,
     KeepQueueKeeps, NextQueueKeeps, PutBackKeeps, HandleOnlyKeeps, ReturnKeeps, SendKeeps, KillKeeps,
     LaunchKeeps
     DEF Dispatch
<1>3. CASE UNCHANGED vars
  BY <1>3 DEF vars, IInv, TypeOK, OnePlace, WorkerPlace, CallPlace, OneRelease, Lives,
              Holds, Queued, Placed, Free
<1> QED
  BY <1>1, <1>2, <1>3, WakeKeeps, FeedKeeps DEF Next

\* The invariant holds in every state the scheduler reaches.
THEOREM InvAlways == Spec => []IInv
<1> QED
  BY InitInv, NextKeeps, PTL DEF Spec

\* Every variable keeps its type.
THEOREM TypeCorrect == Spec => []TypeOK
<1>1. IInv => TypeOK
  BY DEF IInv
<1> QED
  BY <1>1, InvAlways, PTL

\* No two threads carry the same queue, and none carries one that waits: a service
\* runs in one thread at a time (skynet_mq_pop, skynet_mq_push, q->in_global).
THEOREM OnePlaceAlways == Spec => []OnePlace
<1>1. IInv => OnePlace
  BY DEF IInv
<1> QED
  BY <1>1, InvAlways, PTL

\* A queue with mail or to be emptied is in the global queue or in the hands of a
\* thread: in_global never says so of a queue that is nowhere.
THEOREM NoQueueLost == Spec => []NoLostQueue
<1>1. IInv => NoLostQueue
  BY DEF IInv, Lives, NoLostQueue
<1> QED
  BY <1>1, InvAlways, PTL

\* A queue that is freed is reached from nowhere, and a context is deleted after its
\* last user (skynet_context_release, skynet_mq_mark_release).
THEOREM NothingUsedAfterFree == Spec => []NoUseAfterFree
<1>1. IInv => NoUseAfterFree
  <2> SUFFICES ASSUME IInv, NEW s \in Service
               PROVE  NoUseAfterFree!(s)
    BY DEF NoUseAfterFree
  <2>1. box[s] = "freed" => ~Placed(s)
    BY DEF IInv, Lives
  <2>2. ref[s] = {} => s \notin table
    BY DEF IInv, Lives
  <2>3. s \in Busy => ref[s] # {}
    BY DEF IInv, WorkerPlace, Busy
  <2>4. \A t \in Thread : call[t].op = "push" /\ call[t].to = s => ref[s] # {}
    BY DEF IInv, CallPlace
  <2> QED
    BY <2>1, <2>2, <2>3, <2>4 DEF Placed
<1> QED
  BY <1>1, InvAlways, PTL

-----------------------------------------------------------------------------
(***************************************************************************)
(* The scheduler implements Mailboxes                                      *)
(***************************************************************************)

\* The same services run when the workers that run one are the same.
LEMMA BusyKept ==
  ASSUME \A v \in Worker : /\ pc'[v] \in {"run", "back"} <=> pc[v] \in {"run", "back"}
                           /\ pc[v] \in {"run", "back"} => q'[v] = q[v]
  PROVE  Busy' = Busy
BY DEF Busy

\* The phases of the mailboxes stay when table, release and the queues made stay.
LEMMA PhaseKept ==
  ASSUME table' = table, release' = release,
         \A s \in Service : box'[s] = "none" <=> box[s] = "none"
  PROVE  Phase' = Phase
BY DEF Phase

\* A step about one service moves the phase of its mailbox only.
LEMMA PhaseMoves ==
  ASSUME NEW d \in Service, NEW p, Phase'[d] = p,
         \A s \in Service \ {d} : /\ s \in table' <=> s \in table
                                  /\ release'[s] = release[s]
                                  /\ box'[s] = "none" <=> box[s] = "none"
  PROVE  Phase' = [Phase EXCEPT ![d] = p]
<1>1. \A s \in Service \ {d} : Phase'[s] = Phase[s]
  BY DEF Phase
<1>2. Phase \in [Service -> {Phase[s] : s \in Service}] /\ Phase' = [s \in Service |-> Phase'[s]]
  BY DEF Phase
<1> QED
  BY <1>1, <1>2

\* The four phases, each by its condition.
LEMMA PhaseIs ==
  ASSUME NEW s \in Service
  PROVE  /\ box[s] = "none" => Phase[s] = "none"
         /\ box[s] # "none" /\ s \in table => Phase[s] = "open"
         /\ box[s] # "none" /\ s \notin table /\ ~release[s] => Phase[s] = "closing"
         /\ box[s] # "none" /\ s \notin table /\ release[s] => Phase[s] = "closed"
BY DEF Phase

\* The scheduler starts with empty mailboxes and nobody busy.
LEMMA PromiseInit == Init => Promise!Init
<1> SUFFICES ASSUME Init
             PROVE  Promise!Init
  OBVIOUS
<1>1. Phase \in [Service -> {"none", "open"}]
  BY DEF Init, Phase
<1>2. Busy = {}
  BY DEF Init, Busy
<1> QED
  BY <1>1, <1>2 DEF Init, Promise!Init

\* skynet_mq_push posts: the sender's reference keeps the mailbox from being closed.
LEMMA PushPosts ==
  ASSUME IInv, NEW t \in Thread, Push(t)
  PROVE  Promise!Next
<1> DEFINE d == call[t].to
<1>1. d \in Service /\ call[t].arg \in Service \cup {None} /\ ref[d] # {}
  BY DEF IInv, TypeOK, CallPlace, Push
<1>2. Phase[d] \in {"open", "closing"}
  BY <1>1, PhaseIs DEF IInv, Lives
<1>3. mail' = [mail EXCEPT ![d] = Append(@, call[t].arg)]
  BY DEF Push
<1>4. Busy' = Busy /\ Phase' = Phase
  BY BusyKept, PhaseKept DEF Push
<1>5. Promise!Post(d, call[t].arg)
  BY <1>2, <1>3, <1>4 DEF Promise!Post
<1> QED
  BY <1>1, <1>5 DEF Promise!Next

\* The first message of a service is a post, or nothing when it was killed before.
LEMMA InitServicePosts ==
  ASSUME IInv, NEW t \in Thread, InitService(t)
  PROVE  Promise!Next \/ UNCHANGED Promise!vars
<1> DEFINE d == then[t].box
<1>1. d \in Service /\ ref[d] # {}
  BY DEF IInv, TypeOK, CallPlace, InitService
<1>2. Busy' = Busy /\ Phase' = Phase
  BY BusyKept, PhaseKept DEF InitService
<1>3. CASE d \in table
  <2>1. Phase[d] = "open"
    BY <1>1, <1>3, PhaseIs DEF IInv, Lives
  <2>2. mail' = [mail EXCEPT ![d] = Append(@, d)]
    BY <1>3 DEF InitService
  <2>3. Promise!Post(d, d)
    BY <1>2, <2>1, <2>2 DEF Promise!Post
  <2> QED
    BY <1>1, <2>3 DEF Promise!Next
<1>4. CASE d \notin table
  BY <1>2, <1>4 DEF InitService, Promise!vars
<1> QED
  BY <1>3, <1>4

\* skynet_mq_pop begins a piece of mail of a service that no other worker runs.
LEMMA PopMailBegins ==
  ASSUME IInv, NEW w \in Worker, PopMail(w)
  PROVE  Promise!Next
<1>1. q[w] \in Service /\ ref[q[w]] # {} /\ pc[w] = "loop" /\ mail[q[w]] # <<>>
  BY DEF IInv, TypeOK, WorkerPlace, PopMail
<1>2. Phase[q[w]] \in {"open", "closing"}
  BY <1>1, PhaseIs DEF IInv, Lives
<1>3. Phase' = Phase
  BY PhaseKept DEF PopMail
<1>4. q[w] \notin Busy
  BY <1>1, ThreadParts DEF IInv, OnePlace, Holds, Busy
<1>5. pc' = [pc EXCEPT ![w] = "run"] /\ q' = q /\ mail' = [mail EXCEPT ![q[w]] = Tail(@)]
  BY DEF PopMail
<1>6. Busy' = Busy \cup {q[w]}
  BY <1>1, <1>5 DEF IInv, TypeOK, Busy
<1>7. Promise!Begin(q[w])
  BY <1>1, <1>2, <1>3, <1>4, <1>5, <1>6 DEF Promise!Begin
<1> QED
  BY <1>1, <1>7 DEF Promise!Next

\* The end of dispatch_message: no other worker runs the service.
LEMMA ReturnIsDone ==
  ASSUME IInv, NEW w \in Worker, Return(w)
  PROVE  Promise!Next
<1>1. q[w] \in Service /\ pc[w] = "back"
  BY DEF IInv, TypeOK, WorkerPlace, Return
<1>2. pc' = [pc EXCEPT ![w] = "loop"] /\ q' = q /\ mail' = mail
  BY DEF Return
<1>3. \A v \in Worker \ {w} : q[v] # q[w]
  BY <1>1, ThreadParts DEF IInv, OnePlace, Holds
<1>4. Busy' = Busy \ {q[w]} /\ q[w] \in Busy
  BY <1>1, <1>2, <1>3 DEF IInv, TypeOK, Busy
<1>5. Phase' = Phase
  BY PhaseKept DEF Return
<1>6. Promise!Done(q[w])
  BY <1>2, <1>4, <1>5 DEF Promise!Done
<1> QED
  BY <1>1, <1>6 DEF Promise!Next

\* skynet_handle_retire: the mailbox is closing.
LEMMA KillIsDie ==
  ASSUME IInv, NEW w \in Worker, NEW d \in Service, Kill(w, d)
  PROVE  Promise!Next
<1>1. d \in table /\ table' = table \ {d} /\ UNCHANGED <<box, release, mail>>
  BY DEF Kill
<1>2. box[d] = "made" /\ ~release[d]
  BY <1>1 DEF IInv, Lives
<1>3. Phase[d] = "open"
  BY <1>1, <1>2, PhaseIs
<1>4. Phase' = [Phase EXCEPT ![d] = "closing"]
  <2>1. Phase'[d] = "closing"
    BY <1>1, <1>2 DEF Phase
  <2> QED
    BY <1>1, <2>1, PhaseMoves
<1>5. Busy' = Busy
  BY BusyKept DEF Kill, IInv, TypeOK
<1>6. Promise!Die(d)
  BY <1>1, <1>3, <1>4, <1>5 DEF Promise!Die
<1> QED
  BY <1>6 DEF Promise!Next

\* A service whose init failed dies, unless it was killed before.
LEMMA RetireFailedIsDie ==
  ASSUME IInv, NEW t \in Thread, RetireFailed(t)
  PROVE  Promise!Next \/ UNCHANGED Promise!vars
<1> DEFINE d == then[t].box
<1>1. d \in Service /\ table' = table \ {d} /\ UNCHANGED <<box, release, mail>>
  BY DEF IInv, TypeOK, CallPlace, RetireFailed
<1>2. Busy' = Busy
  BY BusyKept DEF RetireFailed
<1>3. CASE d \in table
  <2>1. box[d] = "made" /\ ~release[d]
    BY <1>1, <1>3 DEF IInv, Lives
  <2>2. Phase[d] = "open"
    BY <1>1, <1>3, <2>1, PhaseIs
  <2>3. Phase'[d] = "closing"
    BY <1>1, <2>1 DEF Phase
  <2>4. Phase' = [Phase EXCEPT ![d] = "closing"]
    BY <1>1, <2>3, PhaseMoves
  <2>5. Promise!Die(d)
    BY <1>1, <1>2, <2>2, <2>4 DEF Promise!Die
  <2> QED
    BY <1>1, <2>5 DEF Promise!Next
<1>4. CASE d \notin table
  <2>1. table' = table
    BY <1>1, <1>4
  <2>2. Phase' = Phase
    BY <1>1, <2>1, PhaseKept
  <2> QED
    BY <1>1, <1>2, <2>2 DEF Promise!vars
<1> QED
  BY <1>3, <1>4

\* skynet_mq_mark_release closes the mailbox of a service that does not run.
LEMMA MarkReleaseCloses ==
  ASSUME IInv, NEW t \in Thread, MarkRelease(t)
  PROVE  Promise!Next
<1> DEFINE d == call[t].to
<1>1. d \in Service /\ ref[d] = {} /\ box[d] = "made" /\ ~release[d] /\ d \notin table
  BY DEF IInv, TypeOK, CallPlace, Lives, MarkRelease
<1>2. release' = [release EXCEPT ![d] = TRUE] /\ UNCHANGED <<table, box, mail>>
  BY DEF MarkRelease
<1>3. Phase[d] = "closing"
  BY <1>1, PhaseIs
<1>4. release'[d] = TRUE /\ \A s \in Service \ {d} : release'[s] = release[s]
  BY <1>1, <1>2 DEF IInv, TypeOK
<1>5. Phase'[d] = "closed"
  BY <1>1, <1>2, <1>4 DEF Phase
<1>6. Phase' = [Phase EXCEPT ![d] = "closed"]
  BY <1>1, <1>2, <1>4, <1>5, PhaseMoves
<1>7. d \notin Busy
  BY <1>1 DEF IInv, WorkerPlace, Busy
<1>8. Busy' = Busy
  BY BusyKept DEF MarkRelease
<1>9. Promise!Close(d)
  BY <1>2, <1>3, <1>6, <1>7, <1>8 DEF Promise!Close
<1> QED
  BY <1>1, <1>9 DEF Promise!Next

\* skynet_handle_register opens the mailbox.
LEMMA LaunchOpens ==
  ASSUME IInv, NEW w \in Worker, NEW d \in Service, Launch(w, d)
  PROVE  Promise!Next
<1>1. /\ box[d] = "none" /\ table' = table \cup {d} /\ box' = [box EXCEPT ![d] = "made"]
      /\ UNCHANGED <<release, mail, q>>
  BY DEF Launch
<1>2. box'[d] = "made" /\ \A s \in Service \ {d} : box'[s] = box[s]
  BY <1>1 DEF IInv, TypeOK
<1>3. Phase[d] = "none" /\ Phase'[d] = "open"
  BY <1>1, <1>2 DEF Phase
<1>4. Phase' = [Phase EXCEPT ![d] = "open"]
  BY <1>1, <1>2, <1>3, PhaseMoves
<1>5. Busy' = Busy
  BY BusyKept DEF Launch, IInv, TypeOK
<1>6. Promise!Open(d)
  BY <1>1, <1>3, <1>4, <1>5 DEF Promise!Open
<1> QED
  BY <1>6 DEF Promise!Next

\* _drop_queue takes mail out of closed mailboxes only.
LEMMA DropMailDrops ==
  ASSUME IInv, NEW t \in Thread, DropMail(t)
  PROVE  Promise!Next
<1> DEFINE d == then[t].box
<1>1. d \in Service /\ mail[d] # <<>> /\ release[d]
  BY DEF IInv, TypeOK, CallPlace, DropMail
<1>2. box[d] = "made" /\ d \notin table
  BY <1>1 DEF IInv, Lives
<1>3. Phase[d] = "closed"
  BY <1>1, <1>2, PhaseIs
<1>4. mail' = [mail EXCEPT ![d] = Tail(@)]
  BY DEF DropMail
<1>5. Busy' = Busy /\ Phase' = Phase
  BY BusyKept, PhaseKept DEF DropMail
<1>6. Promise!Drop(d)
  BY <1>1, <1>3, <1>4, <1>5 DEF Promise!Drop
<1> QED
  BY <1>1, <1>6 DEF Promise!Next

\* What else a thread does in the functions below the loop is not seen.
LEMMA FunctionStutters ==
  ASSUME IInv, NEW t \in Thread,
         Release(t) \/ InitFails(t) \/ Publish(t) \/ GiveUp(t) \/ FreeQueue(t)
  PROVE  UNCHANGED Promise!vars
<1>1. table' = table /\ release' = release /\ mail' = mail /\ pc' = pc /\ q' = q
  BY DEF Release, InitFails, Publish, GiveUp, FreeQueue
<1>2. \A s \in Service : box'[s] = "none" <=> box[s] = "none"
  <2>1. CASE FreeQueue(t)
    <3>1. then[t].box \in Service /\ release[then[t].box]
      BY <2>1 DEF IInv, TypeOK, CallPlace, FreeQueue
    <3>2. box[then[t].box] # "none"
      BY <3>1 DEF IInv, Lives
    <3> QED
      BY <2>1, <3>1, <3>2 DEF FreeQueue, IInv, TypeOK
  <2>2. CASE ~FreeQueue(t)
    BY <2>2 DEF Release, InitFails, Publish, GiveUp
  <2> QED
    BY <2>1, <2>2
<1>3. Busy' = Busy /\ Phase' = Phase
  BY <1>1, <1>2, BusyKept, PhaseKept
<1> QED
  BY <1>1, <1>3 DEF Promise!vars

\* What a worker does in the loop between two messages is not seen.
LEMMA DispatchStutters ==
  ASSUME IInv, NEW w \in Worker,
         \/ TakeQueue(w) \/ Sleep(w) \/ EnterLoop(w) \/ DeadQueue(w) \/ PopNothing(w)
         \/ KeepQueue(w) \/ NextQueue(w) \/ PutBack(w) \/ HandleOnly(w) \/ Wake(w)
         \/ \E d \in Service : Send(w, d)
  PROVE  UNCHANGED Promise!vars
<1>1. table' = table /\ release' = release /\ mail' = mail /\ box' = box
  BY DEF TakeQueue, Sleep, EnterLoop, DeadQueue, PopNothing, KeepQueue, NextQueue, PutBack,
         HandleOnly, Wake, Send
<1>2. Phase' = Phase
  BY <1>1, PhaseKept
<1>3. ASSUME NEW v \in Worker
      PROVE  /\ pc'[v] \in {"run", "back"} <=> pc[v] \in {"run", "back"}
             /\ pc[v] \in {"run", "back"} => q'[v] = q[v]
  BY DEF IInv, TypeOK, TakeQueue, Sleep, EnterLoop, DeadQueue, PopNothing, KeepQueue, NextQueue,
         PutBack, HandleOnly, Wake, Send
<1>4. Busy' = Busy
  BY <1>3, BusyKept
<1> QED
  BY <1>1, <1>2, <1>4 DEF Promise!vars

\* The lookup of the receiver is not seen.
LEMMA FeedStutters ==
  ASSUME NEW f \in Feeder, NEW d \in Service, Feed(f, d)
  PROVE  UNCHANGED Promise!vars
<1>1. Phase' = Phase /\ Busy' = Busy /\ mail' = mail
  BY PhaseKept, BusyKept DEF Feed
<1> QED
  BY <1>1 DEF Promise!vars

\* Every step is a step of the mailboxes or is not seen there.
LEMMA PromiseStep == IInv /\ [Next]_vars => [Promise!Next]_Promise!vars
<1> SUFFICES ASSUME IInv, [Next]_vars
             PROVE  Promise!Next \/ UNCHANGED Promise!vars
  OBVIOUS
<1>1. ASSUME NEW t \in Thread, InFunction(t)
      PROVE  Promise!Next \/ UNCHANGED Promise!vars
  BY <1>1, PushPosts, InitServicePosts, RetireFailedIsDie, MarkReleaseCloses, DropMailDrops,
     FunctionStutters
     DEF InFunction
<1>2. ASSUME NEW w \in Worker, Dispatch(w) \/ Wake(w)
      PROVE  Promise!Next \/ UNCHANGED Promise!vars
  BY <1>2, PopMailBegins, ReturnIsDone, KillIsDie, LaunchOpens, DispatchStutters
     DEF Dispatch
<1>3. CASE UNCHANGED vars
  <2>1. Phase' = Phase /\ Busy' = Busy /\ mail' = mail
    BY <1>3, PhaseKept, BusyKept DEF vars
  <2> QED
    BY <2>1 DEF Promise!vars
<1> QED
  BY <1>1, <1>2, <1>3, FeedStutters DEF Next

\* The scheduler implements the mailboxes: mail in order, one piece at a time, and
\* nothing after the end.
THEOREM PromiseKept == Spec => KeepsPromise
<1> QED
  BY PromiseInit, PromiseStep, InvAlways, PTL DEF Spec, KeepsPromise, Promise!Spec
=============================================================================
