------------------------------ MODULE Mailbox ------------------------------
(***************************************************************************)
(* The scheduler of skynet as this repository builds it (skynet_mq.c,       *)
(* skynet_server.c, skynet_handle.c, skynet_start.c): every service has a   *)
(* queue of mail; the queues that have mail stand in one global queue, from *)
(* which worker threads take a queue, hand some of its mail to the service  *)
(* and put it back.  All the other models rest on what this gives them: a   *)
(* service runs in one thread at a time and gets its mail in order.         *)
(*                                                                         *)
(* A step is what a thread does under one lock or with one atomic           *)
(* instruction.  A C function that goes on after its first such step is     *)
(* kept in call[t] (the function thread t is in) and then[t] (the function  *)
(* that called it, to be gone on with when call[t] returns).                *)
(***************************************************************************)
EXTENDS Integers, SequencesExt

CONSTANTS
  Service,   \* services; a handle is used for one service only
  Worker,    \* worker threads
  Feeder,    \* the timer and the socket thread, which only post mail
  None,      \* NULL, handle 0
  Started,   \* services that run at the start
  Mortal,    \* services that some service may end
  Priority,  \* services that called skynet.priority(true)
  MaxRounds, \* 65536: how often a priority service extends its turn
  MaxMail    \* bound of the model: mail in a queue that lets others post more

ASSUME MailboxAssumption ==
  /\ None \notin Service \cup Worker \cup Feeder
  /\ Worker \cap Feeder = {}
  /\ Started \subseteq Service
  /\ Mortal \subseteq Service
  /\ Priority \subseteq Service
  /\ MaxRounds \in Nat \ {0}
  /\ MaxMail \in Nat

VARIABLES
  table,    \* the services in the table of handles
  ref,      \* the counter of a context, as the set of the references counted
  box,      \* the queue of a service: "none", "made", "freed"
  mail,     \* what is in it, as the senders of the messages
  inGlobal, \* q->in_global
  release,  \* q->release
  globalMq, \* the global queue
  pc,       \* where a worker is in skynet_context_message_dispatch
  q,        \* the queue it carries
  nq,       \* the queue it will carry next
  left,     \* n - i of the dispatch loop
  rounds,   \* max of the dispatch loop
  call,
  then

vars == <<table, ref, box, mail, inGlobal, release, globalMq,
          pc, q, nq, left, rounds, call, then>>

Thread == Worker \cup Feeder

\* Who may hold a reference to a context: the table of handles, the thread
\* that makes it, one that dispatches its mail, one that posts to it.
TableRef == <<None, "table">>
NewRef(t) == <<t, "new">>
RunRef(t) == <<t, "run">>
SendRef(t) == <<t, "send">>

Owner == {TableRef} \cup UNION {{NewRef(t), RunRef(t), SendRef(t)} : t \in Thread}

NoCall == [op |-> "none", to |-> None, arg |-> None]
Pushing(s, m) == [op |-> "push", to |-> s, arg |-> m]
Releasing(s, o) == [op |-> "release", to |-> s, arg |-> o]
Marking(s) == [op |-> "mark", to |-> s, arg |-> None]

NoThen == [op |-> "none", box |-> None]
Going(op, s) == [op |-> op, box |-> s]

\* Thread t is in no function below the dispatch loop.
Free(t) == call[t].op = "none" /\ then[t].op = "none"

\* skynet_globalmq_push, or skynet_globalmq_push_head for a priority queue.
PushByRank(s, list) == IF s \in Priority THEN <<s>> \o list ELSE Append(list, s)

\* Mutant of Grab: the context is used without being counted.
GrabNothing(s, o) == ref' = [ref EXCEPT ![s] = @ \cup {}]

Grab(s, o) == ref' = [ref EXCEPT ![s] = @ \cup {o}]

dispatchVars == <<pc, q, nq, left, rounds>>

Init ==
  /\ table = Started
  /\ ref = [s \in Service |-> IF s \in Started THEN {TableRef} ELSE {}]
  /\ box = [s \in Service |-> IF s \in Started THEN "made" ELSE "none"]
  /\ mail = [s \in Service |-> <<>>]
  /\ inGlobal = [s \in Service |-> FALSE]
  /\ release = [s \in Service |-> FALSE]
  /\ globalMq = <<>>
  /\ pc = [w \in Worker |-> "next"]
  /\ q = [w \in Worker |-> None]
  /\ nq = [w \in Worker |-> None]
  /\ left = [w \in Worker |-> 0]
  /\ rounds = [w \in Worker |-> 0]
  /\ call = [t \in Thread |-> NoCall]
  /\ then = [t \in Thread |-> NoThen]

-----------------------------------------------------------------------------
(* skynet_context_message_dispatch *)

\* A worker that carries no queue takes the first of the global queue, or
\* goes to sleep.
TakeQueue(w) ==
  /\ pc[w] = "next" /\ Free(w) /\ q[w] = None
  /\ globalMq # <<>>
  /\ q' = [q EXCEPT ![w] = Head(globalMq)]
  /\ globalMq' = Tail(globalMq)
  /\ UNCHANGED <<table, ref, box, mail, inGlobal, release, pc, nq, left, rounds, call, then>>

Sleep(w) ==
  /\ pc[w] = "next" /\ Free(w) /\ q[w] = None
  /\ globalMq = <<>>
  /\ pc' = [pc EXCEPT ![w] = "asleep"]
  /\ UNCHANGED <<table, ref, box, mail, inGlobal, release, globalMq, q, nq, left, rounds, call, then>>

\* The service lives: its context is grabbed for a turn of the loop.
EnterLoop(w) ==
  /\ pc[w] = "next" /\ Free(w) /\ q[w] \in table
  /\ Grab(q[w], RunRef(w))
  /\ pc' = [pc EXCEPT ![w] = "loop"]
  /\ left' = [left EXCEPT ![w] = 1]
  /\ rounds' = [rounds EXCEPT ![w] = IF q[w] \in Priority THEN MaxRounds ELSE 1]
  /\ UNCHANGED <<table, box, mail, inGlobal, release, globalMq, q, nq, call, then>>

\* Mutant of MqRelease: the queue is emptied whether or not its context is deleted.
MqReleaseAtOnce(t, s) ==
  /\ then' = [then EXCEPT ![t] = Going("drop", s)]
  /\ UNCHANGED globalMq

\* skynet_mq_release: thread t gives up the queue s of a service that is not in
\* the table.  It is emptied when its context is deleted, and else put back.
MqRelease(t, s) ==
  IF release[s]
  THEN /\ then' = [then EXCEPT ![t] = Going("drop", s)]
       /\ UNCHANGED globalMq
  ELSE /\ then' = [then EXCEPT ![t] = NoThen]
       /\ globalMq' = Append(globalMq, s)

DeadQueue(w) ==
  /\ pc[w] = "next" /\ Free(w)
  /\ q[w] # None /\ q[w] \notin table
  /\ MqRelease(w, q[w])
  /\ q' = [q EXCEPT ![w] = None]
  /\ UNCHANGED <<table, ref, box, mail, inGlobal, release, pc, nq, left, rounds, call>>

\* skynet_mq_pop takes the first message.  At the last one of a turn the
\* turn grows by what waits, once, or as often as a priority service may.
PopMail(w) ==
  /\ pc[w] = "loop" /\ Free(w) /\ left[w] > 0
  /\ mail[q[w]] # <<>>
  /\ mail' = [mail EXCEPT ![q[w]] = Tail(@)]
  /\ pc' = [pc EXCEPT ![w] = "run"]
  /\ IF left[w] = 1 /\ rounds[w] > 0
     THEN /\ left' = [left EXCEPT ![w] = Len(mail[q[w]]) - 1]
          /\ rounds' = [rounds EXCEPT ![w] = @ - 1]
     ELSE /\ left' = [left EXCEPT ![w] = @ - 1]
          /\ UNCHANGED rounds
  /\ UNCHANGED <<table, ref, box, inGlobal, release, globalMq, q, nq, call, then>>

\* Mutant of PopNothing: the flag is left as it is.
PopNothingFlagged(w) ==
  /\ pc[w] = "loop" /\ Free(w) /\ left[w] > 0
  /\ mail[q[w]] = <<>>
  /\ call' = [call EXCEPT ![w] = Releasing(q[w], RunRef(w))]
  /\ q' = [q EXCEPT ![w] = None]
  /\ pc' = [pc EXCEPT ![w] = "next"]
  /\ left' = [left EXCEPT ![w] = 0]
  /\ rounds' = [rounds EXCEPT ![w] = 0]
  /\ UNCHANGED <<table, ref, box, mail, inGlobal, release, globalMq, nq, then>>

\* There is no message: the queue is out of the global queue until one comes.
PopNothing(w) ==
  /\ pc[w] = "loop" /\ Free(w) /\ left[w] > 0
  /\ mail[q[w]] = <<>>
  /\ inGlobal' = [inGlobal EXCEPT ![q[w]] = FALSE]
  /\ call' = [call EXCEPT ![w] = Releasing(q[w], RunRef(w))]
  /\ q' = [q EXCEPT ![w] = None]
  /\ pc' = [pc EXCEPT ![w] = "next"]
  /\ left' = [left EXCEPT ![w] = 0]
  /\ rounds' = [rounds EXCEPT ![w] = 0]
  /\ UNCHANGED <<table, ref, box, mail, release, globalMq, nq, then>>

\* The turn is over: the worker keeps the queue when no other one waits.
KeepQueue(w) ==
  /\ pc[w] = "loop" /\ Free(w) /\ left[w] = 0
  /\ globalMq = <<>>
  /\ call' = [call EXCEPT ![w] = Releasing(q[w], RunRef(w))]
  /\ pc' = [pc EXCEPT ![w] = "next"]
  /\ left' = [left EXCEPT ![w] = 0]
  /\ rounds' = [rounds EXCEPT ![w] = 0]
  /\ UNCHANGED <<table, ref, box, mail, inGlobal, release, globalMq, q, nq, then>>

NextQueue(w) ==
  /\ pc[w] = "loop" /\ Free(w) /\ left[w] = 0
  /\ globalMq # <<>>
  /\ nq' = [nq EXCEPT ![w] = Head(globalMq)]
  /\ globalMq' = Tail(globalMq)
  /\ pc' = [pc EXCEPT ![w] = "putback"]
  /\ UNCHANGED <<table, ref, box, mail, inGlobal, release, q, left, rounds, call, then>>

PutBack(w) ==
  /\ pc[w] = "putback"
  /\ globalMq' = PushByRank(q[w], globalMq)
  /\ call' = [call EXCEPT ![w] = Releasing(q[w], RunRef(w))]
  /\ q' = [q EXCEPT ![w] = nq[w]]
  /\ nq' = [nq EXCEPT ![w] = None]
  /\ pc' = [pc EXCEPT ![w] = "next"]
  /\ left' = [left EXCEPT ![w] = 0]
  /\ rounds' = [rounds EXCEPT ![w] = 0]
  /\ UNCHANGED <<table, ref, box, mail, inGlobal, release, then>>

-----------------------------------------------------------------------------
(* What a service does with a message.  One call stands for any number: the *)
(* thread does the same steps for each of them.                             *)

\* skynet_send: the context of the receiver is grabbed before the push.
Send(w, d) ==
  /\ pc[w] = "run" /\ d \in table /\ Len(mail[d]) < MaxMail
  /\ Grab(d, SendRef(w))
  /\ call' = [call EXCEPT ![w] = Pushing(d, q[w])]
  /\ pc' = [pc EXCEPT ![w] = "back"]
  /\ UNCHANGED <<table, box, mail, inGlobal, release, globalMq, q, nq, left, rounds, then>>

\* skynet_handle_retire, by EXIT, KILL or ABORT, of the service itself or of
\* another one.
Kill(w, d) ==
  /\ pc[w] = "run" /\ d \in table \cap Mortal
  /\ table' = table \ {d}
  /\ call' = [call EXCEPT ![w] = Releasing(d, TableRef)]
  /\ pc' = [pc EXCEPT ![w] = "back"]
  /\ UNCHANGED <<ref, box, mail, inGlobal, release, globalMq, q, nq, left, rounds, then>>

\* skynet_context_new, up to the service's init: the queue counts as being in
\* the global queue until it is published.
Launch(w, d) ==
  /\ pc[w] = "run" /\ box[d] = "none"
  /\ table' = table \cup {d}
  /\ ref' = [ref EXCEPT ![d] = {TableRef, NewRef(w)}]
  /\ box' = [box EXCEPT ![d] = "made"]
  /\ inGlobal' = [inGlobal EXCEPT ![d] = TRUE]
  /\ then' = [then EXCEPT ![w] = Going("init", d)]
  /\ pc' = [pc EXCEPT ![w] = "back"]
  /\ UNCHANGED <<mail, release, globalMq, q, nq, left, rounds, call>>

HandleOnly(w) ==
  /\ pc[w] = "run"
  /\ pc' = [pc EXCEPT ![w] = "back"]
  /\ UNCHANGED <<table, ref, box, mail, inGlobal, release, globalMq, q, nq, left, rounds, call, then>>

Return(w) ==
  /\ pc[w] = "back" /\ Free(w)
  /\ pc' = [pc EXCEPT ![w] = "loop"]
  /\ UNCHANGED <<table, ref, box, mail, inGlobal, release, globalMq, q, nq, left, rounds, call, then>>

\* The timer or the socket thread posts to a service.
Feed(f, d) ==
  /\ Free(f) /\ d \in table /\ Len(mail[d]) < MaxMail
  /\ Grab(d, SendRef(f))
  /\ call' = [call EXCEPT ![f] = Pushing(d, None)]
  /\ UNCHANGED <<table, box, mail, inGlobal, release, globalMq, pc, q, nq, left, rounds, then>>

\* Mutant of Wake: a worker is woken only when the global queue has two services.
WakeForMany(w) ==
  /\ pc[w] = "asleep" /\ Len(globalMq) > 1
  /\ pc' = [pc EXCEPT ![w] = "next"]
  /\ UNCHANGED <<table, ref, box, mail, inGlobal, release, globalMq, q, nq, left, rounds, call, then>>

\* thread_timer wakes a sleeping worker every 1.25 ms; the wakeup of the socket
\* thread is one at a time when all of them sleep.
Wake(w) ==
  /\ pc[w] = "asleep"
  /\ pc' = [pc EXCEPT ![w] = "next"]
  /\ UNCHANGED <<table, ref, box, mail, inGlobal, release, globalMq, q, nq, left, rounds, call, then>>

-----------------------------------------------------------------------------
(* The functions a thread may be in *)

\* skynet_mq_push
Push(t) ==
  /\ call[t].op = "push"
  /\ LET d == call[t].to IN
     /\ mail' = [mail EXCEPT ![d] = Append(@, call[t].arg)]
     /\ inGlobal' = [inGlobal EXCEPT ![d] = TRUE]
     /\ globalMq' = IF inGlobal[d] THEN globalMq ELSE PushByRank(d, globalMq)
     /\ call' = [call EXCEPT ![t] = Releasing(d, SendRef(t))]
  /\ UNCHANGED <<table, ref, box, release, pc, q, nq, left, rounds, then>>

\* skynet_context_release: the last reference deletes the context.
Release(t) ==
  /\ call[t].op = "release"
  /\ LET d == call[t].to
         rest == ref[d] \ {call[t].arg}
     IN /\ ref' = [ref EXCEPT ![d] = rest]
        /\ call' = [call EXCEPT ![t] = IF rest = {} THEN Marking(d) ELSE NoCall]
  /\ UNCHANGED <<table, box, mail, inGlobal, release, globalMq, pc, q, nq, left, rounds, then>>

\* Mutant of MarkRelease: the queue is pushed wherever it is.
MarkReleasePush(t) ==
  /\ call[t].op = "mark"
  /\ LET d == call[t].to IN
     /\ release' = [release EXCEPT ![d] = TRUE]
     /\ globalMq' = Append(globalMq, d)
  /\ call' = [call EXCEPT ![t] = NoCall]
  /\ UNCHANGED <<table, ref, box, mail, inGlobal, pc, q, nq, left, rounds, then>>

\* Mutant of MarkRelease: the queue is left where it is.
MarkReleaseStays(t) ==
  /\ call[t].op = "mark"
  /\ release' = [release EXCEPT ![call[t].to] = TRUE]
  /\ call' = [call EXCEPT ![t] = NoCall]
  /\ UNCHANGED <<table, ref, box, mail, inGlobal, globalMq, pc, q, nq, left, rounds, then>>

\* delete_context, skynet_mq_mark_release: some worker is to empty the queue.
MarkRelease(t) ==
  /\ call[t].op = "mark"
  /\ LET d == call[t].to IN
     /\ release' = [release EXCEPT ![d] = TRUE]
     /\ globalMq' = IF inGlobal[d] THEN globalMq ELSE Append(globalMq, d)
  /\ call' = [call EXCEPT ![t] = NoCall]
  /\ UNCHANGED <<table, ref, box, mail, inGlobal, pc, q, nq, left, rounds, then>>

\* The init of a new service: snlua posts its first message to itself.
InitService(t) ==
  /\ then[t].op = "init" /\ call[t].op = "none"
  /\ LET d == then[t].box IN
     /\ mail' = IF d \in table THEN [mail EXCEPT ![d] = Append(@, d)] ELSE mail
     /\ call' = [call EXCEPT ![t] = Releasing(d, NewRef(t))]
     /\ then' = [then EXCEPT ![t] = Going("publish", d)]
  /\ UNCHANGED <<table, ref, box, inGlobal, release, globalMq, pc, q, nq, left, rounds>>

InitFails(t) ==
  /\ then[t].op = "init" /\ call[t].op = "none"
  /\ call' = [call EXCEPT ![t] = Releasing(then[t].box, NewRef(t))]
  /\ then' = [then EXCEPT ![t] = Going("retire", then[t].box)]
  /\ UNCHANGED <<table, ref, box, mail, inGlobal, release, globalMq, pc, q, nq, left, rounds>>

Publish(t) ==
  /\ then[t].op = "publish" /\ call[t].op = "none"
  /\ globalMq' = Append(globalMq, then[t].box)
  /\ then' = [then EXCEPT ![t] = NoThen]
  /\ UNCHANGED <<table, ref, box, mail, inGlobal, release, pc, q, nq, left, rounds, call>>

RetireFailed(t) ==
  /\ then[t].op = "retire" /\ call[t].op = "none"
  /\ LET d == then[t].box IN
     /\ table' = table \ {d}
     /\ call' = IF d \in table THEN [call EXCEPT ![t] = Releasing(d, TableRef)] ELSE call
     /\ then' = [then EXCEPT ![t] = Going("giveup", d)]
  /\ UNCHANGED <<ref, box, mail, inGlobal, release, globalMq, pc, q, nq, left, rounds>>

GiveUp(t) ==
  /\ then[t].op = "giveup" /\ call[t].op = "none"
  /\ MqRelease(t, then[t].box)
  /\ UNCHANGED <<table, ref, box, mail, inGlobal, release, pc, q, nq, left, rounds, call>>

\* _drop_queue, drop_message: an error to the sender of what was never handled.
DropMail(t) ==
  /\ then[t].op = "drop" /\ call[t].op = "none"
  /\ LET d == then[t].box
         sender == Head(mail[d])
     IN /\ mail[d] # <<>>
        /\ mail' = [mail EXCEPT ![d] = Tail(@)]
        /\ IF sender \in table
           THEN /\ Grab(sender, SendRef(t))
                /\ call' = [call EXCEPT ![t] = Pushing(sender, d)]
           ELSE UNCHANGED <<ref, call>>
  /\ UNCHANGED <<table, box, inGlobal, release, globalMq, pc, q, nq, left, rounds, then>>

FreeQueue(t) ==
  /\ then[t].op = "drop" /\ call[t].op = "none"
  /\ LET d == then[t].box IN
     /\ mail[d] = <<>>
     /\ inGlobal' = [inGlobal EXCEPT ![d] = FALSE]
     /\ box' = [box EXCEPT ![d] = "freed"]
  /\ then' = [then EXCEPT ![t] = NoThen]
  /\ UNCHANGED <<table, ref, mail, release, globalMq, pc, q, nq, left, rounds, call>>

-----------------------------------------------------------------------------
InFunction(t) ==
  \/ Push(t) \/ Release(t) \/ MarkRelease(t)
  \/ InitService(t) \/ InitFails(t) \/ Publish(t)
  \/ RetireFailed(t) \/ GiveUp(t) \/ DropMail(t) \/ FreeQueue(t)

Dispatch(w) ==
  \/ TakeQueue(w) \/ Sleep(w) \/ EnterLoop(w) \/ DeadQueue(w)
  \/ PopMail(w) \/ PopNothing(w) \/ KeepQueue(w) \/ NextQueue(w) \/ PutBack(w)
  \/ HandleOnly(w) \/ Return(w)
  \/ \E d \in Service : Send(w, d) \/ Kill(w, d) \/ Launch(w, d)

Next ==
  \/ \E t \in Thread : InFunction(t)
  \/ \E w \in Worker : Dispatch(w) \/ Wake(w)
  \/ \E f \in Feeder, d \in Service : Feed(f, d)

Spec == Init /\ [][Next]_vars

\* Every thread is run by the system, a service returns from every message, and
\* the timer thread goes on waking some worker.
Fairness ==
  /\ \A t \in Thread : WF_vars(InFunction(t))
  /\ \A w \in Worker : WF_vars(Dispatch(w))
  /\ WF_vars(\E w \in Worker : Wake(w))

FairSpec == Spec /\ Fairness

-----------------------------------------------------------------------------
\* Thread t has the queue of s in its hands.
Holds(t, s) ==
  \/ t \in Worker /\ s \in {q[t], nq[t]}
  \/ then[t].op # "none" /\ then[t].box = s

Queued(s) == Contains(globalMq, s)

Placed(s) == Queued(s) \/ \E t \in Thread : Holds(t, s)

Busy == {q[w] : w \in {v \in Worker : pc[v] \in {"run", "back"}}}

TypeOK ==
  /\ table \subseteq Service
  /\ ref \in [Service -> SUBSET Owner]
  /\ box \in [Service -> {"none", "made", "freed"}]
  /\ mail \in [Service -> Seq(Service \cup {None})]
  /\ inGlobal \in [Service -> BOOLEAN]
  /\ release \in [Service -> BOOLEAN]
  /\ globalMq \in Seq(Service)
  /\ pc \in [Worker -> {"next", "asleep", "loop", "run", "back", "putback"}]
  /\ q \in [Worker -> Service \cup {None}]
  /\ nq \in [Worker -> Service \cup {None}]
  /\ left \in [Worker -> Nat]
  /\ rounds \in [Worker -> Nat]
  /\ call \in [Thread -> [op : {"none", "push", "release", "mark"},
                         to : Service \cup {None},
                         arg : Service \cup {None} \cup Owner]]
  /\ then \in [Thread -> [op : {"none", "init", "publish", "retire", "giveup", "drop"},
                         box : Service \cup {None}]]

\* A queue is at one place of the global queue or in the hands of one thread:
\* no two threads run the same service, whatever is sent and killed meanwhile.
OnePlace ==
  /\ IsInjective(globalMq)
  /\ \A s \in Service : \A t, u \in Thread : Holds(t, s) /\ Holds(u, s) => t = u
  /\ \A s \in Service : Queued(s) => \A t \in Thread : ~Holds(t, s)

\* A queue that has mail, or is to be emptied, is where a worker will find it.
NoLostQueue == \A s \in Service :
  box[s] = "made" /\ (mail[s] # <<>> \/ release[s]) => Placed(s)

\* Nothing leads to a queue that was freed, and a context is deleted only when
\* no thread runs the service or is about to post to it.
NoUseAfterFree == \A s \in Service :
  /\ box[s] = "freed" => ~Queued(s) /\ \A t \in Thread : ~Holds(t, s)
  /\ ref[s] = {} => /\ s \notin table
                    /\ s \notin Busy
                    /\ \A t \in Thread : call[t].op = "push" => call[t].to # s

-----------------------------------------------------------------------------
(* Why they hold: what a thread is in the middle of goes with the references *)
(* counted, and what the flags of a queue say goes with where it is.        *)

\* Where a worker is in the loop tells what it has in hand.
WorkerPlace == \A w \in Worker :
  /\ pc[w] \in {"asleep", "loop", "run", "putback"} => Free(w)
  /\ pc[w] = "asleep" => q[w] = None
  /\ pc[w] \in {"loop", "run", "back", "putback"} => q[w] # None /\ RunRef(w) \in ref[q[w]]
  /\ pc[w] = "putback" <=> nq[w] # None
  /\ q[w] # None => q[w] # nq[w]
  /\ then[w].op # "none" => then[w].box \notin {q[w], nq[w]}

\* A call goes with the reference it uses or is to drop.
CallPlace == \A t \in Thread :
  /\ call[t].op # "none" => call[t].to # None
  /\ call[t].op = "push" => /\ SendRef(t) \in ref[call[t].to]
                            /\ call[t].arg \in Service \cup {None}
  /\ call[t].op = "release" =>
       /\ call[t].arg \in ref[call[t].to]
       /\ \/ call[t].arg = TableRef /\ call[t].to \notin table
          \/ call[t].arg \in {NewRef(t), SendRef(t)}
          \/ t \in Worker /\ call[t].arg = RunRef(t) /\ pc[t] = "next"
  /\ call[t].op = "mark" =>
       ref[call[t].to] = {} /\ box[call[t].to] = "made" /\ ~release[call[t].to]
  /\ then[t].op = "none" <=> then[t].box = None
  /\ then[t].op = "init" => call[t].op = "none" /\ NewRef(t) \in ref[then[t].box]
  /\ then[t].op = "drop" => release[then[t].box]

\* The last reference, and that of the table, are dropped by one thread.
OneRelease == \A t, u \in Thread :
  t # u /\ call[t].op = call[u].op /\ call[t].to = call[u].to =>
    /\ call[t].op # "mark"
    /\ call[t].op = "release" => call[t].arg # TableRef \/ call[u].arg # TableRef

\* The life of a context and of its queue.
Lives == \A s \in Service :
  /\ s \in table => TableRef \in ref[s]
  /\ ref[s] # {} => box[s] = "made" /\ ~release[s]
  /\ box[s] = "none" => ~release[s]
  /\ box[s] = "made" /\ (inGlobal[s] \/ release[s]) <=> Placed(s)
  /\ mail[s] # <<>> => box[s] = "made" /\ inGlobal[s]

IInv == TypeOK /\ OnePlace /\ WorkerPlace /\ CallPlace /\ OneRelease /\ Lives

-----------------------------------------------------------------------------
\* The mailbox of s: it is closed when the last reference to its context is gone.
Phase == [s \in Service |->
  CASE box[s] = "none" -> "none"
    [] box[s] # "none" /\ s \in table -> "open"
    [] box[s] # "none" /\ s \notin table /\ ~release[s] -> "closing"
    [] box[s] # "none" /\ s \notin table /\ release[s] -> "closed"]

Promise == INSTANCE Mailboxes
  WITH Sender <- Service \cup {None}, phase <- Phase, busy <- Busy

\* The queues, the flags and the counters are a set of mailboxes: mail in
\* order, one piece at a time, nothing after the end.
KeepsPromise == Promise!Spec

\* Mail is taken in hand in the end, though priority services go first and
\* never run out of mail.
MailServed == \A s \in Service : []<>(mail[s] = <<>> \/ s \in Busy)

\* The queue of a dead service is emptied and freed in the end.
QueueFreed == \A s \in Service : []<>(box[s] = "made" => s \in table)
=============================================================================
