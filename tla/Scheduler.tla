------------------------------ MODULE Scheduler ------------------------------
(***************************************************************************)
(* The work-stealing thread pool of gtsam/base/Scheduler.h, with the two   *)
(* queue policies of TaskScheduler.h and PriorityScheduler.h.              *)
(*                                                                         *)
(* A thread is a worker (an index into queues_) or an external client.     *)
(* Clients and jobs execute scripts, sequences of calls on the scheduler;  *)
(* everything else a job does is invisible here.  Each access to a shared  *)
(* atomic, each critical section of a queue mutex and each operation on    *)
(* the condition variable is a step of its own.  A thread blocked in       *)
(* condition_.wait is a member of waitSet and re-evaluates its predicate   *)
(* when it is removed from it.                                             *)
(***************************************************************************)
EXTENDS Integers, Sequences, FiniteSets, SequencesExt

CONSTANTS
  NumWorkers,   \* numThreads of the constructor, after the zero check
  Clients,      \* threads outside the pool
  Tasks,        \* jobs handed to the scheduler
  Scripts,      \* the programs [Clients \cup Tasks -> Seq(Op)] to consider
  MayThrow,     \* the jobs that can end with an exception
  Policy,       \* "task": TaskSchedulerPolicy, "priority": PrioritySchedulerPolicy
  Priority,     \* the int metadata of each job under the priority policy
  SizeT,        \* 2^w for the w bits of size_t, the type of queuedTasks_
  Nobody        \* no thread, no code

Workers == 0 .. (NumWorkers - 1)
Threads == Workers \cup Clients
Codes   == Clients \cup Tasks
Submissions == {"schedule", "enqueue", "inline"}
Op == [op : Submissions \cup {"await"}, task : Tasks]
        \cup [op : {"waitAll", "destroy"}]

\* Each call site creates a job of its own; a job does not wait for the pool
\* it runs in, and only a client owns the scheduler object.
WellFormed(s) ==
  /\ s \in [Codes -> Seq(Op)]
  /\ \A t \in Tasks : \A i \in DOMAIN s[t] : s[t][i].op \notin {"waitAll", "destroy"}
  /\ \A c, d \in Codes : \A i \in DOMAIN s[c], j \in DOMAIN s[d] :
       /\ s[c][i].op \in Submissions
       /\ s[d][j].op \in Submissions
       /\ s[c][i].task = s[d][j].task
       => c = d /\ i = j

ASSUME WorkersAssumption == NumWorkers \in Nat \ {0}
ASSUME ThreadsAssumption ==
  /\ Workers \cap Codes = {}
  /\ Clients \cap Tasks = {}
  /\ Nobody \notin Threads \cup Tasks
  /\ IsFiniteSet(Clients)
ASSUME ScriptsAssumption == \A s \in Scripts : WellFormed(s)
ASSUME PolicyAssumption ==
  /\ MayThrow \subseteq Tasks
  /\ Policy \in {"task", "priority"}
  /\ Priority \in [Tasks -> Int]
ASSUME SizeTAssumption ==
  /\ IsFiniteSet(Tasks)
  /\ SizeT \in Nat
  /\ SizeT > 2 * Cardinality(Tasks)
-----------------------------------------------------------------------------
VARIABLES
  script,       \* the program of this behavior
  queue,        \* queues_[w]->queue
  queueLock,    \* owner of queues_[w]->mutex
  queuedTasks,  \* atomic<size_t>
  activeTasks,  \* atomic<int>
  stop,         \* stop_
  nextWorker,   \* nextWorker_ modulo the number of queues
  waitMutex,    \* owner of waitMutex_, where it is held across two steps
  waitSet,      \* the threads blocked on condition_
  pc,           \* where each thread is
  cur,          \* the code each thread executes
  caller,       \* the job whose frame lies under an inline job's on the stack
  ip,           \* the next call of each code
  target,       \* the queue a thread pushes to, steals from or holds
  outcome       \* what became of each job

control == <<pc, cur, caller, ip, target>>
cv      == <<waitMutex, waitSet>>
counts  == <<queuedTasks, activeTasks>>
queues  == <<queue, queueLock>>
vars    == <<script, queues, counts, stop, nextWorker, cv, control, outcome>>

Labels == {"pop", "steal", "popped", "check", "run", "push", "unlock",
           "addQueued", "addActive", "notify", "finished", "notifyAll",
           "readQueued", "setStop", "stopNotify", "join", "exit"}
Outcomes == {"pending", "value", "exception", "dropped"}

TypeOK ==
  /\ script \in [Codes -> Seq(Op)]
  /\ queue \in [Workers -> Seq(Tasks)]
  /\ queueLock \in [Workers -> Threads \cup {Nobody}]
  /\ queuedTasks \in 0 .. (SizeT - 1)
  /\ activeTasks \in Int
  /\ stop \in BOOLEAN
  /\ nextWorker \in Workers
  /\ waitMutex \in Clients \cup {Nobody}
  /\ waitSet \subseteq Threads
  /\ pc \in [Threads -> Labels]
  /\ cur \in [Threads -> Codes \cup {Nobody}]
  /\ caller \in [Tasks -> Tasks \cup {Nobody}]
  /\ ip \in [Codes -> Nat]
  /\ target \in [Threads -> Workers]
  /\ outcome \in [Tasks -> Outcomes]

Init ==
  /\ script \in Scripts
  /\ queue = [w \in Workers |-> <<>>]
  /\ queueLock = [w \in Workers |-> Nobody]
  /\ queuedTasks = 0
  /\ activeTasks = 0
  /\ stop = FALSE
  /\ nextWorker = 0
  /\ waitMutex = Nobody
  /\ waitSet = {}
  /\ pc = [th \in Threads |-> IF th \in Clients THEN "run" ELSE "pop"]
  /\ cur = [th \in Threads |-> IF th \in Clients THEN th ELSE Nobody]
  /\ caller = [t \in Tasks |-> Nobody]
  /\ ip = [c \in Codes |-> 1]
  /\ target = [th \in Threads |-> 0]
  /\ outcome = [t \in Tasks |-> "pending"]
-----------------------------------------------------------------------------
(* Operators named Faulty... are plausible errors in the code; no behavior of *)
(* Spec uses them.                                                           *)
\* Unsigned arithmetic of queuedTasks_: it wraps at zero and at SizeT.
Inc(n) == IF n = SizeT - 1 THEN 0 ELSE n + 1
FaultySignedDec(n) == n - 1
Dec(n) == IF n = 0 THEN SizeT - 1 ELSE n - 1

NextQueue(w) == IF w = NumWorkers - 1 THEN 0 ELSE w + 1

\* The positions popLocal and popSteal may take: back and front of the deque,
\* or any element of the heap that no other precedes.
HeapTop(q) == {i \in DOMAIN q : \A j \in DOMAIN q : Priority[q[i]] <= Priority[q[j]]}
PopLocal(q) == IF Policy = "task" THEN {Len(q)} \ {0} ELSE HeapTop(q)
PopSteal(q) == IF Policy = "task" THEN {1} \cap DOMAIN q ELSE HeapTop(q)

Goto(th, l) == pc' = [pc EXCEPT ![th] = l]

\* The call the thread is about to make.
Ready(th) == pc[th] = "run" /\ ip[cur[th]] <= Len(script[cur[th]])
Call(th)  == script[cur[th]][ip[cur[th]]]

\* The call returns and the code goes on.
Return(th) ==
  /\ Goto(th, "run")
  /\ ip' = [ip EXCEPT ![cur[th]] = @ + 1]
  /\ UNCHANGED <<cur, caller, target>>

\* The condition variable is not notified.
FaultyNotifyNobody == UNCHANGED waitSet

\* condition_.notify_one and notify_all
NotifyOne == \/ waitSet = {} /\ UNCHANGED waitSet
             \/ \E th \in waitSet : waitSet' = waitSet \ {th}
NotifyAll == waitSet' = {}
-----------------------------------------------------------------------------
(* enqueueImpl, and schedule and enqueue around it *)

\* The future of a refused job is left without a result.
FaultyRefuse(th) ==
  /\ Ready(th) /\ Call(th).op \in Submissions
  /\ stop
  /\ Return(th)
  /\ UNCHANGED <<script, queues, counts, stop, nextWorker, cv, outcome>>

\* stop_ is set: the job is refused; schedule's future gets an exception,
\* enqueue and scheduleOrRunInline only return.
Refuse(th) ==
  /\ Ready(th) /\ Call(th).op \in Submissions
  /\ stop
  /\ outcome' = [outcome EXCEPT ![Call(th).task] = "dropped"]
  /\ Return(th)
  /\ UNCHANGED <<script, queues, counts, stop, nextWorker, cv>>

\* A worker pushes to its own queue, a client to the next one in turn.
ChooseQueue(th) ==
  /\ Ready(th) /\ Call(th).op \in Submissions
  /\ ~stop
  /\ \/ /\ th \in Workers /\ Call(th).op # "inline"
        /\ target' = [target EXCEPT ![th] = th]
        /\ UNCHANGED nextWorker
     \/ /\ th \in Clients
        /\ target' = [target EXCEPT ![th] = nextWorker]
        /\ nextWorker' = NextQueue(nextWorker)
  /\ Goto(th, "push")
  /\ UNCHANGED <<script, queues, counts, stop, cv, cur, caller, ip, outcome>>

Push(th) ==
  /\ pc[th] = "push"
  /\ queueLock[target[th]] = Nobody
  /\ queueLock' = [queueLock EXCEPT ![target[th]] = th]
  /\ queue' = [queue EXCEPT ![target[th]] = Append(@, Call(th).task)]
  /\ Goto(th, "unlock")
  /\ UNCHANGED <<script, counts, stop, nextWorker, cv, cur, caller, ip, target, outcome>>

Unlock(th) ==
  /\ pc[th] = "unlock"
  /\ queueLock' = [queueLock EXCEPT ![target[th]] = Nobody]
  /\ Goto(th, "addQueued")
  /\ UNCHANGED <<script, queue, counts, stop, nextWorker, cv, cur, caller, ip, target, outcome>>

AddQueued(th) ==
  /\ pc[th] = "addQueued"
  /\ queuedTasks' = Inc(queuedTasks)
  /\ Goto(th, "addActive")
  /\ UNCHANGED <<script, queues, activeTasks, stop, nextWorker, cv, cur, caller, ip, target, outcome>>

AddActive(th) ==
  /\ pc[th] = "addActive"
  /\ activeTasks' = activeTasks + 1
  /\ Goto(th, "notify")
  /\ UNCHANGED <<script, queues, queuedTasks, stop, nextWorker, cv, cur, caller, ip, target, outcome>>

Notify(th) ==
  /\ pc[th] = "notify"
  /\ waitMutex = Nobody
  /\ NotifyOne
  /\ Return(th)
  /\ UNCHANGED <<script, queues, counts, stop, nextWorker, waitMutex, outcome>>

\* An inline job is not counted as active.
FaultyRunUncounted(w) ==
  /\ Ready(w) /\ Call(w).op = "inline"
  /\ ~stop
  /\ caller' = [caller EXCEPT ![Call(w).task] = cur[w]]
  /\ cur' = [cur EXCEPT ![w] = Call(w).task]
  /\ UNCHANGED <<script, queues, counts, stop, nextWorker, cv, pc, ip, target, outcome>>

\* scheduleOrRunInlineImpl on a worker thread: the job starts at once.
RunInline(w) ==
  /\ Ready(w) /\ Call(w).op = "inline"
  /\ ~stop
  /\ activeTasks' = activeTasks + 1
  /\ caller' = [caller EXCEPT ![Call(w).task] = cur[w]]
  /\ cur' = [cur EXCEPT ![w] = Call(w).task]
  /\ UNCHANGED <<script, queues, queuedTasks, stop, nextWorker, cv, pc, ip, target, outcome>>

\* future.get(): a client handles the exception of a job that failed, a job
\* is ended by it (JobEnds).
Await(th) ==
  /\ Ready(th) /\ Call(th).op = "await"
  /\ outcome[Call(th).task] \in (IF th \in Clients THEN Outcomes \ {"pending"} ELSE {"value"})
  /\ Return(th)
  /\ UNCHANGED <<script, queues, counts, stop, nextWorker, cv, outcome>>
-----------------------------------------------------------------------------
(* worker_thread *)

\* The job is read and stays in the queue.
FaultyTakeCopy(w, q, i) ==
  /\ queueLock' = [queueLock EXCEPT ![q] = w]
  /\ cur' = [cur EXCEPT ![w] = queue[q][i]]
  /\ target' = [target EXCEPT ![w] = q]
  /\ Goto(w, "popped")
  /\ UNCHANGED queue

\* Take position i of queue q, whose mutex stays locked until queuedTasks_ is
\* decremented.
Take(w, q, i) ==
  /\ queue' = [queue EXCEPT ![q] = RemoveAt(@, i)]
  /\ queueLock' = [queueLock EXCEPT ![q] = w]
  /\ cur' = [cur EXCEPT ![w] = queue[q][i]]
  /\ target' = [target EXCEPT ![w] = q]
  /\ Goto(w, "popped")

\* Look at queue q next, or wait for work once all of them have been tried.
TryNext(w, q) ==
  /\ target' = [target EXCEPT ![w] = q]
  /\ Goto(w, IF q = w THEN "check" ELSE "steal")
  /\ UNCHANGED <<queues, cur>>

\* The loop of worker_thread ends with stop_, and not with the work.
FaultyTryPopLocal(w) ==
  /\ pc[w] = "pop"
  /\ queueLock[w] = Nobody
  /\ \/ stop /\ Goto(w, "exit") /\ UNCHANGED <<queues, cur, target>>
     \/ ~stop /\ \E i \in PopLocal(queue[w]) : Take(w, w, i)
     \/ ~stop /\ queue[w] = <<>> /\ TryNext(w, NextQueue(w))
  /\ UNCHANGED <<script, counts, stop, nextWorker, cv, caller, ip, outcome>>

TryPopLocal(w) ==
  /\ pc[w] = "pop"
  /\ queueLock[w] = Nobody
  /\ \/ \E i \in PopLocal(queue[w]) : Take(w, w, i)
     \/ queue[w] = <<>> /\ TryNext(w, NextQueue(w))
  /\ UNCHANGED <<script, counts, stop, nextWorker, cv, caller, ip, outcome>>

\* A queue whose mutex is taken is skipped: the lock is only tried.
TrySteal(w) ==
  /\ pc[w] = "steal"
  /\ LET q == target[w] IN
     \/ queueLock[q] = Nobody /\ \E i \in PopSteal(queue[q]) : Take(w, q, i)
     \/ (queueLock[q] # Nobody \/ queue[q] = <<>>) /\ TryNext(w, NextQueue(q))
  /\ UNCHANGED <<script, counts, stop, nextWorker, cv, caller, ip, outcome>>

FinishPop(w) ==
  /\ pc[w] = "popped"
  /\ queuedTasks' = Dec(queuedTasks)
  /\ queueLock' = [queueLock EXCEPT ![target[w]] = Nobody]
  /\ Goto(w, "run")
  /\ UNCHANGED <<script, queue, activeTasks, stop, nextWorker, cv, cur, caller, ip, target, outcome>>

\* No task was found: evaluate the wait predicate under waitMutex_ and block,
\* go round the loop, or leave.
CheckForWork(w) ==
  /\ pc[w] = "check"
  /\ waitMutex = Nobody
  /\ \/ ~stop /\ queuedTasks = 0 /\ waitSet' = waitSet \cup {w} /\ UNCHANGED pc
     \/ queuedTasks # 0 /\ Goto(w, "pop") /\ UNCHANGED waitSet
     \/ stop /\ queuedTasks = 0 /\ Goto(w, "exit") /\ UNCHANGED waitSet
  /\ UNCHANGED <<script, queues, counts, stop, nextWorker, waitMutex, cur, caller, ip, target, outcome>>

\* The job waits for a future that holds an exception.
Rethrows(w) == /\ Ready(w) /\ Call(w).op = "await"
               /\ outcome[Call(w).task] \in {"exception", "dropped"}

\* The job returns, or throws before its next call.
JobEnds(w) ==
  /\ pc[w] = "run"
  /\ \/ /\ ip[cur[w]] > Len(script[cur[w]])
        /\ outcome' = [outcome EXCEPT ![cur[w]] = "value"]
     \/ /\ cur[w] \in MayThrow \/ Rethrows(w)
        /\ outcome' = [outcome EXCEPT ![cur[w]] = "exception"]
  /\ Goto(w, "finished")
  /\ UNCHANGED <<script, queues, counts, stop, nextWorker, cv, cur, caller, ip, target>>

\* Back to the job that ran this one inline, or to the worker loop.
Leave(w) ==
  LET up == caller[cur[w]] IN
  /\ cur' = [cur EXCEPT ![w] = up]
  /\ Goto(w, IF up = Nobody THEN "pop" ELSE "run")
  /\ caller' = [caller EXCEPT ![cur[w]] = Nobody]
  /\ ip' = IF up = Nobody THEN ip ELSE [ip EXCEPT ![up] = @ + 1]
  /\ UNCHANGED target

\* activeTasks_.fetch_sub(1) == 1 decides whether waiters are notified.
SubActive(w) ==
  /\ pc[w] = "finished"
  /\ activeTasks' = activeTasks - 1
  /\ \/ activeTasks = 1 /\ Goto(w, "notifyAll") /\ UNCHANGED <<cur, caller, ip, target>>
     \/ activeTasks # 1 /\ Leave(w)
  /\ UNCHANGED <<script, queues, queuedTasks, stop, nextWorker, cv, outcome>>

NotifyWaiters(w) ==
  /\ pc[w] = "notifyAll"
  /\ waitMutex = Nobody
  /\ NotifyAll
  /\ Leave(w)
  /\ UNCHANGED <<script, queues, counts, stop, nextWorker, waitMutex, outcome>>
-----------------------------------------------------------------------------
(* waitForAllTasks and ~Scheduler *)

\* ~Scheduler goes on to stop the workers; waitForAllTasks returns.
WaitReturns(c) ==
  IF Call(c).op = "destroy"
  THEN Goto(c, "setStop") /\ UNCHANGED <<cur, caller, ip, target>>
  ELSE Return(c)

Block(c) == waitSet' = waitSet \cup {c} /\ UNCHANGED <<control>>

\* The predicate forgets the jobs that run.
FaultyWaitForQueued(c) ==
  /\ Ready(c) /\ Call(c).op \in {"waitAll", "destroy"}
  /\ waitMutex = Nobody
  /\ \/ stop /\ WaitReturns(c) /\ UNCHANGED cv
     \/ ~stop /\ waitMutex' = c /\ Goto(c, "readQueued") /\ UNCHANGED <<waitSet, cur, caller, ip, target>>
  /\ UNCHANGED <<script, queues, counts, stop, nextWorker, outcome>>

\* The predicate reads stop_, activeTasks_ and queuedTasks_ in this order,
\* holding waitMutex_; the counters can change between the reads.
WaitForAllTasks(c) ==
  /\ Ready(c) /\ Call(c).op \in {"waitAll", "destroy"}
  /\ waitMutex = Nobody
  /\ \/ stop /\ WaitReturns(c) /\ UNCHANGED cv
     \/ ~stop /\ activeTasks # 0 /\ Block(c) /\ UNCHANGED waitMutex
     \/ /\ ~stop /\ activeTasks = 0 /\ waitMutex' = c /\ Goto(c, "readQueued")
        /\ UNCHANGED <<waitSet, cur, caller, ip, target>>
  /\ UNCHANGED <<script, queues, counts, stop, nextWorker, outcome>>

ReadQueued(c) ==
  /\ pc[c] = "readQueued"
  /\ waitMutex' = Nobody
  /\ \/ queuedTasks = 0 /\ WaitReturns(c) /\ UNCHANGED waitSet
     \/ /\ queuedTasks # 0 /\ waitSet' = waitSet \cup {c} /\ Goto(c, "run")
        /\ UNCHANGED <<cur, caller, ip, target>>
  /\ UNCHANGED <<script, queues, counts, stop, nextWorker, outcome>>

SetStop(c) ==
  /\ pc[c] = "setStop"
  /\ waitMutex = Nobody
  /\ stop' = TRUE
  /\ Goto(c, "stopNotify")
  /\ UNCHANGED <<script, queues, counts, nextWorker, cv, cur, caller, ip, target, outcome>>

StopNotify(c) ==
  /\ pc[c] = "stopNotify"
  /\ NotifyAll
  /\ Goto(c, "join")
  /\ UNCHANGED <<script, queues, counts, stop, nextWorker, waitMutex, cur, caller, ip, target, outcome>>

Join(c) ==
  /\ pc[c] = "join"
  /\ \A w \in Workers : pc[w] = "exit"
  /\ Return(c)
  /\ UNCHANGED <<script, queues, counts, stop, nextWorker, cv, outcome>>
-----------------------------------------------------------------------------
\* A condition variable may wake a thread that nobody notified.
SpuriousWakeup(th) ==
  /\ th \in waitSet
  /\ waitSet' = waitSet \ {th}
  /\ UNCHANGED <<script, queues, counts, stop, nextWorker, waitMutex, control, outcome>>

Submit(th) == \/ Refuse(th) \/ ChooseQueue(th) \/ Push(th) \/ Unlock(th)
              \/ AddQueued(th) \/ AddActive(th) \/ Notify(th) \/ Await(th)

WorkerStep(w) ==
  /\ w \notin waitSet
  /\ \/ Submit(w) \/ RunInline(w) \/ TryPopLocal(w) \/ TrySteal(w) \/ FinishPop(w)
     \/ CheckForWork(w) \/ JobEnds(w) \/ SubActive(w) \/ NotifyWaiters(w)

ClientStep(c) ==
  /\ c \notin waitSet
  /\ \/ Submit(c) \/ WaitForAllTasks(c) \/ ReadQueued(c)
     \/ SetStop(c) \/ StopNotify(c) \/ Join(c)

ClientDone(c) == pc[c] = "run" /\ ip[c] > Len(script[c])

\* Every client has made its calls.
Terminated ==
  /\ \A c \in Clients : ClientDone(c)
  /\ UNCHANGED vars

Next ==
  \/ \E w \in Workers : WorkerStep(w)
  \/ \E c \in Clients : ClientStep(c)
  \/ \E th \in Threads : SpuriousWakeup(th)
  \/ Terminated

Spec == Init /\ [][Next]_vars

\* The operating system runs every thread that can run, and grants a mutex to
\* a thread that keeps asking for it; jobs end.  Wakeups nobody asked for are
\* not promised.
FairSpec ==
  /\ Spec
  /\ \A w \in Workers : SF_vars(WorkerStep(w))
  /\ \A c \in Clients : SF_vars(ClientStep(c))
-----------------------------------------------------------------------------
(* Properties *)

\* A worker executes t, or a job that t started inline and waits for.
Running(t) == \/ \E w \in Workers : cur[w] = t
              \/ \E u \in Tasks : caller[u] = t
Queued(t) == \E w \in Workers : \E i \in DOMAIN queue[w] : queue[w][i] = t

\* A job is in one place: it never sits twice in the queues, is never queued
\* while it runs or after it ended, and never runs on two workers, although a
\* push, a local pop and a steal can meet at one deque (enqueueImpl,
\* tryPopLocal, trySteal).
ExactlyOnce ==
  /\ \A v, w \in Workers : \A i \in DOMAIN queue[v], j \in DOMAIN queue[w] :
       queue[v][i] = queue[w][j] => v = w /\ i = j
  /\ \A v, w \in Workers : cur[v] = cur[w] /\ cur[v] # Nobody => v = w
  /\ \A t \in Tasks : Queued(t) => ~Running(t) /\ outcome[t] = "pending"

\* A thread between two labels of enqueueImpl or tryPop has moved a job that
\* the counters do not know of yet.
At(labels) == {th \in Threads : pc[th] \in labels}
InFlight == {t \in Tasks : Queued(t) \/ Running(t)}
              \ {cur[w] : w \in At({"notifyAll"})}

\* The counters differ from the jobs they count by exactly the threads that
\* are inside an update: queuedTasks_ wraps below zero when a job is popped
\* before its enqueuer has counted it, activeTasks_ goes below the number of
\* jobs in flight for the same reason, and both drifts are repaid.
CountersExact ==
  /\ queuedTasks = (Cardinality({t \in Tasks : Queued(t)}) + Cardinality(At({"popped"}))
                     - Cardinality(At({"unlock", "addQueued"}))) % SizeT
  /\ activeTasks = Cardinality(InFlight)
                     - Cardinality(At({"unlock", "addQueued", "addActive"}))

\* While work is counted, not all workers sleep unless the thread that counted
\* it has yet to call notify_one: no wakeup is lost between the predicate of
\* worker_thread and the notification of enqueueImpl.
WorkIsAnnounced ==
  queuedTasks # 0 /\ Workers \subseteq waitSet => At({"addActive", "notify"}) # {}

\* The jobs client or job c has submitted so far.
SubmittedBy(c) == {t \in Tasks : \E i \in DOMAIN script[c] :
                     /\ i < ip[c]
                     /\ script[c][i].op \in Submissions
                     /\ script[c][i].task = t}

WaitEnds(c) ==
  /\ pc[c] \in {"run", "readQueued"}
  /\ ip[c] \in DOMAIN script[c] /\ Call(c).op \in {"waitAll", "destroy"}
  /\ ip'[c] # ip[c] \/ pc'[c] = "setStop"

\* When waitForAllTasks returns, every job its caller submitted has ended
\* (Scheduler.h: "Block until all queued and active tasks complete").
WaitIsComplete ==
  [][\A c \in Clients : WaitEnds(c) =>
       \A t \in SubmittedBy(c) : outcome[t] # "pending"]_vars

\* Every client gets through its calls: futures become ready, waitForAllTasks
\* returns and the destructor joins all workers.
ClientsFinish == <>(\A c \in Clients : ClientDone(c))

\* When the destructor has joined the workers, what was accepted around the moment stop_ was
\* set has been run, and what was refused knows it: no queue holds a job, and the future of
\* every schedule, a job's own included, holds a value, an exception, or that the "Scheduler
\* is stopping or stopped." (Scheduler.h:262, 288).
Destroyed == \E c \in Clients : \E i \in DOMAIN script[c] :
               i < ip[c] /\ script[c][i].op = "destroy"
NothingLeftBehind ==
  Destroyed => \A t \in Tasks :
    /\ ~Queued(t)
    /\ \A c \in Codes : t \in SubmittedBy(c) => outcome[t] # "pending"

\* Workers do not sleep for ever on a job in the queues (Scheduler.h: "A
\* condition variable parks workers when no work is available").
ParkedOnlyWhenIdle ==
  []<>~(Workers \subseteq waitSet /\ \E t \in Tasks : Queued(t))

\* How far a job has got, as the users of the scheduler see it.
Progress(t) ==
  CASE outcome[t] = "dropped" -> "refused"
    [] outcome[t] \in {"value", "exception"} -> "ended"
    [] outcome[t] = "pending" /\ Queued(t) -> "queued"
    [] outcome[t] = "pending" /\ ~Queued(t) /\ Running(t) -> "running"
    [] OTHER -> "new"

\* The scheduler implements the pool its users see.
Pool == INSTANCE TaskPool WITH job <- [t \in Tasks |-> Progress(t)], open <- ~stop
PoolSpec == Pool!Spec
=============================================================================
