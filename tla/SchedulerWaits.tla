----------------------------- MODULE SchedulerWaits -----------------------------
(***************************************************************************)
(* What waiting threads are promised, for the programs that may count on   *)
(* it: no wakeup is lost when no client waits while another one submits,   *)
(* and waitForAllTasks returns with everything done to the only submitter. *)
(* From the second follows, step by step, that the scheduler implements    *)
(* TaskPool.                                                               *)
(***************************************************************************)
EXTENDS SchedulerPlaces

LEMMA ScriptStays == [Next]_vars => script' = script
<1> USE DEF control, cv, counts, queues
<1>1. ASSUME NEW th, Submit(th)
      PROVE  script' = script
  BY <1>1 DEF Submit, Refuse, ChooseQueue, Push, Unlock, AddQueued, AddActive, Notify, Await
<1>2. ASSUME NEW w \in Workers, WorkerStep(w)
      PROVE  script' = script
  BY <1>1, <1>2 DEF WorkerStep, RunInline, TryPopLocal, TrySteal, FinishPop, CheckForWork, JobEnds,
                    SubActive, NotifyWaiters
<1>3. ASSUME NEW c \in Clients, ClientStep(c)
      PROVE  script' = script
  BY <1>1, <1>3 DEF ClientStep, WaitForAllTasks, ReadQueued, SetStop, StopNotify, Join
<1> QED BY <1>2, <1>3 DEF Next, Terminated, SpuriousWakeup, vars
-----------------------------------------------------------------------------
(* WorkIsAnnounced *)

Announcing == At({"addActive", "notify"})

\* A worker that takes a step is awake after it, unless it blocks on an empty pool.
LEMMA WorkerStaysAwake ==
  ASSUME Inv, NEW w \in Workers, WorkerStep(w)
  PROVE  w \notin waitSet' \/ (queuedTasks = 0 /\ queuedTasks' = 0)
<1> USE DEF control, cv, counts, queues
<1>1. CASE Submit(w)
  BY <1>1 DEF WorkerStep, Submit, Refuse, ChooseQueue, Push, Unlock, AddQueued, AddActive, Notify, NotifyOne, Await
<1>2. CASE ~Submit(w)
  BY <1>2 DEF WorkerStep, RunInline, TryPopLocal, TrySteal, FinishPop, CheckForWork, JobEnds,
              SubActive, NotifyWaiters, NotifyAll
<1> QED BY <1>1, <1>2, SMTT(30)

\* notify_one by a client reaches a worker: nobody else waits while it submits.
LEMMA ClientWakesWorker ==
  ASSUME Inv, BlockedInv, NoBystander(script), NEW c \in Clients, c \notin waitSet, Notify(c)
  PROVE  ~(Workers \subseteq waitSet')
<1>1. 0 \in Workers
  BY ConstantFacts
<1>2. CASE waitSet = {}
  BY <1>1, <1>2 DEF Notify, NotifyOne
<1>3. CASE waitSet # {}
  <2>1. PICK u \in waitSet : waitSet' = waitSet \ {u}
    BY <1>3 DEF Notify, NotifyOne
  <2>2. c \in Threads /\ cur[c] = c /\ script[c] \in Seq(Op) /\ ip[c] \in Nat \ {0}
    BY Disjointness, CurFacts DEF Inv, TypeOK, PlacesInv, ControlInv
  <2>3. ip[c] \in DOMAIN script[c] /\ script[c][ip[c]].op \in Submissions
    BY <2>2, Disjointness DEF Notify, Inv, PlacesInv, ControlInv, SubmitLabels, PushLabels, Call
  <2>4. u \notin Clients
    <3> SUFFICES ASSUME u \in Clients
                 PROVE  FALSE
      OBVIOUS
    <3>1. cur[u] = u /\ script[u] \in Seq(Op) /\ ip[u] \in Nat \ {0}
      BY Disjointness, CurFacts DEF Inv, TypeOK, PlacesInv, ControlInv
    <3>2. ip[u] \in DOMAIN script[u] /\ script[u][ip[u]].op \in {"waitAll", "destroy"}
      BY <2>1, <3>1 DEF BlockedInv, Call
    <3> QED BY <2>1, <2>3, <3>2 DEF NoBystander
  <2>5. u \in Workers
    BY <2>1, <2>4, TypeFacts, Disjointness
  <2> QED BY <2>1, <2>5
<1> QED BY <1>2, <1>3

LEMMA ClientKeepsAnnounced ==
  ASSUME Inv, BlockedInv, NoBystander(script), WorkIsAnnounced, NEW c \in Clients, ClientStep(c)
  PROVE  WorkIsAnnounced'
<1> USE DEF control, cv, counts, queues
<1>0. c \in Threads /\ c \notin Workers /\ c \notin waitSet
  BY Disjointness DEF ClientStep
\* Most steps leave the counter alone, and block or wake no worker for good.
<1>1. ASSUME queuedTasks' = queuedTasks, waitSet' \subseteq waitSet \cup {c}, pc[c] \notin {"addActive", "notify"},
             \A u \in Threads : u # c => pc'[u] = pc[u]
      PROVE  WorkIsAnnounced'
  BY <1>0, <1>1 DEF WorkIsAnnounced, At
<1>2. ASSUME NEW l, Goto(c, l)
      PROVE  pc'[c] = l /\ \A u \in Threads : u # c => pc'[u] = pc[u]
  BY <1>0, <1>2, TypeFacts DEF Goto
<1>3. CASE Notify(c)
  BY <1>0, <1>3, ClientWakesWorker DEF WorkIsAnnounced
<1>4. CASE AddQueued(c) \/ AddActive(c)
  BY <1>0, <1>2, <1>4 DEF AddQueued, AddActive, WorkIsAnnounced, At
<1>5. CASE Refuse(c) \/ ChooseQueue(c) \/ Push(c) \/ Unlock(c) \/ Await(c)
  BY <1>1, <1>2, <1>5 DEF Refuse, ChooseQueue, Push, Unlock, Await, Ready, Return
<1>6. ASSUME WaitReturns(c)
      PROVE  \A u \in Threads : u # c => pc'[u] = pc[u]
  BY <1>2, <1>6 DEF WaitReturns, Return
<1>7. CASE WaitForAllTasks(c) \/ ReadQueued(c)
  BY <1>1, <1>2, <1>6, <1>7 DEF WaitForAllTasks, ReadQueued, Block, Ready
<1>8. CASE SetStop(c) \/ StopNotify(c) \/ Join(c)
  BY <1>1, <1>2, <1>8 DEF SetStop, StopNotify, NotifyAll, Join, Return
<1> QED BY <1>3, <1>4, <1>5, <1>7, <1>8 DEF ClientStep, Submit

LEMMA StepAnnounced ==
  Inv /\ KeptInv /\ NoBystander(script) /\ WorkIsAnnounced /\ [Next]_vars
    => NoBystander(script)' /\ WorkIsAnnounced'
<1> SUFFICES ASSUME Inv, KeptInv, NoBystander(script), WorkIsAnnounced, [Next]_vars
             PROVE  NoBystander(script)' /\ WorkIsAnnounced'
  OBVIOUS
<1> USE DEF control, cv, counts, queues
<1>1. NoBystander(script)'
  BY ScriptStays DEF NoBystander
<1>2. ASSUME NEW w \in Workers, WorkerStep(w)
      PROVE  WorkIsAnnounced'
  BY <1>2, WorkerStaysAwake DEF WorkIsAnnounced
<1>3. ASSUME NEW c \in Clients, ClientStep(c)
      PROVE  WorkIsAnnounced'
  BY <1>3, ClientKeepsAnnounced DEF KeptInv
<1>4. ASSUME UNCHANGED <<queuedTasks, pc>>, waitSet' \subseteq waitSet
      PROVE  WorkIsAnnounced'
  BY <1>4 DEF WorkIsAnnounced, At
<1>5. CASE UNCHANGED vars \/ \E th \in Threads : SpuriousWakeup(th)
  BY <1>4, <1>5 DEF vars, SpuriousWakeup
<1> QED BY <1>1, <1>2, <1>3, <1>5 DEF Next, Terminated

\* In a program where no client waits for the pool while another one submits, all
\* workers sleep on a counted job only until its submitter has called notify_one:
\* no wakeup is lost between the predicate of worker_thread and enqueueImpl.
THEOREM WorkIsAlwaysAnnounced == Spec /\ NoBystander(script) => []WorkIsAnnounced
<1>1. Init => WorkIsAnnounced
  BY DEF Init, WorkIsAnnounced
<1> QED BY <1>1, StepAnnounced, Invariance, NothingIsLost, PTL DEF Spec
-----------------------------------------------------------------------------
(* QuietInv: what the only submitter has seen at zero stays at zero. *)

\* The labels a thread of the pool moves between when it does not submit.
LEMMA WorkersNeverSubmit ==
  ASSUME Inv, QuietInv, NEW w \in Workers, WorkerStep(w)
  PROVE  pc'[w] \notin SubmitLabels /\ ~Push(w) /\ ~ChooseQueue(w)
<1> USE DEF control, cv, counts, queues
<1>1. w \in Threads /\ pc[w] \notin SubmitLabels
  BY Disjointness DEF QuietInv
<1>2. ~ChooseQueue(w)
  <2> SUFFICES ASSUME ChooseQueue(w)
               PROVE  FALSE
    OBVIOUS
  <2>1. cur[w] \in Tasks /\ script[cur[w]] \in Seq(Op) /\ ip[cur[w]] \in Nat \ {0}
    BY <1>1, CurFacts, Disjointness DEF ChooseQueue, Ready, IdleLabels, Inv, TypeOK, PlacesInv, ControlInv
  <2>2. ip[cur[w]] \in DOMAIN script[cur[w]]
    BY <2>1 DEF ChooseQueue, Ready
  <2>3. Call(w).op \in {"schedule", "enqueue"}
    BY Disjointness DEF ChooseQueue, Submissions
  <2> QED BY <2>1, <2>2, <2>3 DEF QuietInv, OneSubmitter, Call
<1>3. ~Push(w) /\ ~Unlock(w) /\ ~AddQueued(w) /\ ~AddActive(w) /\ ~Notify(w)
  BY <1>1 DEF Push, Unlock, AddQueued, AddActive, Notify, SubmitLabels, PushLabels
<1>4. ASSUME NEW l, Goto(w, l)
      PROVE  pc'[w] = l
  BY <1>1, <1>4, TypeFacts DEF Goto
<1>5. pc'[w] \notin SubmitLabels
  <2>1. CASE Refuse(w) \/ Await(w)
    BY <1>4, <2>1 DEF Refuse, Await, Return, SubmitLabels, PushLabels
  <2>2. CASE RunInline(w) \/ FinishPop(w) \/ CheckForWork(w) \/ JobEnds(w)
    BY <1>1, <1>4, <2>2 DEF RunInline, FinishPop, CheckForWork, JobEnds, SubmitLabels, PushLabels
  <2>3. CASE TryPopLocal(w) \/ TrySteal(w)
    BY <1>4, <2>3 DEF TryPopLocal, TrySteal, Take, TryNext, SubmitLabels, PushLabels
  <2>4. CASE SubActive(w) \/ NotifyWaiters(w)
    BY <1>4, <2>4 DEF SubActive, NotifyWaiters, Leave, SubmitLabels, PushLabels
  <2> QED BY <1>2, <1>3, <2>1, <2>2, <2>3, <2>4 DEF WorkerStep, Submit
<1> QED BY <1>2, <1>3, <1>5

\* The pool is seen idle, or closed.
Seen == stop \/ \E c \in Clients : pc[c] \in WaitLabels

LEMMA NoInlineWhenQuiet ==
  ASSUME Inv, InFlight = {}, NEW w \in Workers
  PROVE  ~RunInline(w)
<1> SUFFICES ASSUME RunInline(w)
             PROVE  FALSE
  OBVIOUS
<1>1. w \in Threads /\ pc[w] = "run"
  BY Disjointness DEF RunInline, Ready
<1>2. cur[w] \in Tasks /\ Running(cur[w]) /\ \A u \in Threads : cur[u] = cur[w] => u = w
  BY <1>1, CurFacts, Disjointness DEF IdleLabels, Running
<1>3. cur[w] \in InFlight
  BY <1>1, <1>2, InFlightDef
<1> QED BY <1>3

LEMMA WorkerKeepsQuiet ==
  ASSUME Inv, CountersExact, QuietInv, NEW w \in Workers, WorkerStep(w)
  PROVE  QuietInv'
<1> USE DEF control, cv, counts, queues
<1>1. w \in Threads /\ script' = script
  BY Disjointness, ScriptStays, SMTT(30) DEF Next
<1>2. \A u \in Threads : u # w => pc'[u] = pc[u]
  BY <1>1, TypeFacts DEF WorkerStep, Submit, Refuse, ChooseQueue, Push, Unlock, AddQueued, AddActive, Notify,
     Await, RunInline, TryPopLocal, TrySteal, FinishPop, CheckForWork, JobEnds, SubActive, NotifyWaiters,
     Take, TryNext, Leave, Return, Goto
<1>3. stop' = stop
  BY DEF WorkerStep, Submit, Refuse, ChooseQueue, Push, Unlock, AddQueued, AddActive, Notify,
     Await, RunInline, TryPopLocal, TrySteal, FinishPop, CheckForWork, JobEnds, SubActive, NotifyWaiters
<1>4. \A c \in Clients : c \in Threads /\ pc'[c] = pc[c]
  BY <1>1, <1>2, Disjointness
<1>5. Seen => InFlight' = {}
  BY NoInlineWhenQuiet, WorkersNeverSubmit, WorkerKeepsCounts DEF QuietInv, Seen
<1>6. \A v \in Workers : pc'[v] \notin SubmitLabels
  BY <1>1, <1>2, WorkersNeverSubmit, Disjointness DEF QuietInv
<1>7. OneSubmitter(script)'
  BY <1>1 DEF QuietInv, OneSubmitter
<1> QED BY <1>3, <1>4, <1>5, <1>6, <1>7 DEF QuietInv, Seen

\* With every worker outside enqueueImpl and the one client waiting, no thread is
\* between the push and the count of a job: activeTasks_ is the number of jobs in flight.
LEMMA ZeroMeansIdle ==
  ASSUME Inv, CountersExact, QuietInv, activeTasks = 0, \A c \in Clients : pc[c] \notin SubmitLabels
  PROVE  InFlight = {}
<1>1. At(Pushing \cup {"addActive"}) = {}
  BY Disjointness DEF At, Pushing, QuietInv, SubmitLabels, PushLabels
<1>2. Debt = 0
  BY <1>1, FS_EmptySet DEF Debt
<1>3. Cardinality(InFlight) = 0
  BY <1>2, SumTypes, CountersExactDef
<1> QED BY <1>3, SumTypes, FS_Subset, FS_EmptySet

LEMMA ClientKeepsQuiet ==
  ASSUME Inv, CountersExact, QuietInv, NEW c \in Clients, ClientStep(c)
  PROVE  QuietInv'
<1> USE DEF control, cv, counts, queues
<1>1. c \in Threads /\ script' = script /\ Clients = {c}
  BY Disjointness, ScriptStays DEF Next, QuietInv, OneSubmitter
<1>2. ASSUME NEW l, Goto(c, l)
      PROVE  pc'[c] = l /\ \A u \in Threads : u # c => pc'[u] = pc[u]
  BY <1>1, <1>2, TypeFacts DEF Goto
<1>3. ASSUME WaitReturns(c)
      PROVE  pc'[c] \in {"setStop", "run"} /\ \A u \in Threads : u # c => pc'[u] = pc[u]
  BY <1>2, <1>3 DEF WaitReturns, Return
<1>4. \A w \in Workers : pc'[w] \notin SubmitLabels
  <2>1. \A w \in Workers : w \in Threads /\ w # c
    BY Disjointness
  <2>2. CASE Submit(c)
    BY <1>2, <2>1, <2>2 DEF QuietInv, Submit, Refuse, ChooseQueue, Push, Unlock, AddQueued, AddActive, Notify,
       Await, Return
  <2>3. CASE ~Submit(c)
    BY <1>2, <1>3, <2>1, <2>3 DEF QuietInv, ClientStep, WaitForAllTasks, Block, ReadQueued, SetStop, StopNotify,
       Join, Return
  <2> QED BY <2>2, <2>3
<1>5. ASSUME InFlight' = {}, pc'[c] \notin SubmitLabels
      PROVE  QuietInv'
  BY <1>1, <1>4, <1>5 DEF QuietInv, OneSubmitter
<1>6. ASSUME ~stop', pc'[c] \notin WaitLabels
      PROVE  QuietInv'
  BY <1>1, <1>4, <1>6 DEF QuietInv, OneSubmitter
<1>7. CASE ChooseQueue(c)
  <2>1. pc'[c] = "push" /\ ~stop'
    BY <1>2, <1>7 DEF ChooseQueue
  <2> QED BY <1>6, <2>1 DEF WaitLabels
<1>8. CASE Push(c) \/ Unlock(c) \/ AddQueued(c) \/ AddActive(c) \/ Notify(c)
  <2>1. pc[c] \in SubmitLabels
    BY <1>8 DEF Push, Unlock, AddQueued, AddActive, Notify, SubmitLabels, PushLabels
  <2>2. ~stop
    BY <1>1, <2>1 DEF QuietInv
  <2>3. ~stop' /\ pc'[c] \notin WaitLabels
    BY <1>2, <1>8, <2>2 DEF Push, Unlock, AddQueued, AddActive, Notify, Return, WaitLabels
  <2> QED BY <1>6, <2>3
<1>9. ASSUME ~Push(c), InFlight = {}, pc'[c] \notin SubmitLabels
      PROVE  QuietInv'
  BY <1>5, <1>9, ClientKeepsCounts
<1>10. CASE Refuse(c) \/ Await(c)
  <2>1. pc'[c] = "run" /\ stop' = stop /\ ~Push(c)
    BY <1>2, <1>10 DEF Refuse, Await, Return, Ready, Push
  <2>2. CASE stop
    BY <1>9, <2>1, <2>2 DEF QuietInv, SubmitLabels, PushLabels
  <2>3. CASE ~stop
    BY <1>6, <2>1, <2>3 DEF WaitLabels
  <2> QED BY <2>2, <2>3
<1>11. CASE WaitForAllTasks(c)
  <2>1. pc[c] = "run" /\ ~Push(c) /\ pc[c] \notin SubmitLabels
    BY <1>11 DEF WaitForAllTasks, Ready, Push, SubmitLabels, PushLabels
  <2>2. CASE stop
    <3>1. pc'[c] \notin SubmitLabels
      BY <1>3, <1>11, <2>2 DEF WaitForAllTasks, SubmitLabels, PushLabels
    <3> QED BY <1>9, <2>1, <2>2, <3>1 DEF QuietInv
  <2>3. CASE ~stop /\ Block(c)
    BY <1>6, <1>11, <2>1, <2>3 DEF WaitForAllTasks, Block, WaitLabels
  <2>4. CASE activeTasks = 0 /\ Goto(c, "readQueued")
    <3>1. InFlight = {}
      BY <1>1, <2>1, <2>4, ZeroMeansIdle
    <3>2. pc'[c] \notin SubmitLabels
      BY <1>2, <2>4 DEF SubmitLabels, PushLabels
    <3> QED BY <1>9, <2>1, <3>1, <3>2
  <2> QED BY <1>11, <2>2, <2>3, <2>4 DEF WaitForAllTasks
<1>12. CASE ReadQueued(c) \/ SetStop(c) \/ StopNotify(c) \/ Join(c)
  <2>1. pc[c] \in WaitLabels /\ ~Push(c)
    BY <1>12 DEF ReadQueued, SetStop, StopNotify, Join, WaitLabels, Push
  <2>2. pc'[c] \notin SubmitLabels
    BY <1>2, <1>3, <1>12 DEF ReadQueued, SetStop, StopNotify, Join, Return, SubmitLabels, PushLabels
  <2> QED BY <1>9, <2>1, <2>2 DEF QuietInv
<1> QED BY <1>7, <1>8, <1>10, <1>11, <1>12 DEF ClientStep, Submit

LEMMA StepQuiet == Inv /\ CountersExact /\ QuietInv /\ [Next]_vars => QuietInv'
<1> SUFFICES ASSUME Inv, CountersExact, QuietInv, [Next]_vars
             PROVE  QuietInv'
  OBVIOUS
<1>1. ASSUME UNCHANGED <<script, queue, stop, pc, cur, caller>>
      PROVE  QuietInv'
  BY <1>1 DEF QuietInv, OneSubmitter, InFlight, Queued, Running, At
<1>2. CASE UNCHANGED vars \/ \E th \in Threads : SpuriousWakeup(th)
  BY <1>1, <1>2 DEF vars, SpuriousWakeup, control, queues
<1> QED BY <1>2, WorkerKeepsQuiet, ClientKeepsQuiet DEF Next, Terminated
-----------------------------------------------------------------------------
(* WaitIsComplete *)

\* Nothing in flight: whatever was submitted has ended.
LEMMA IdleMeansDone ==
  ASSUME Inv, KeptInv, InFlight = {}, NEW t \in Tasks
  PROVE  ~Queued(t) /\ (Running(t) \/ Issued(t) => outcome[t] # "pending")
<1>1. ~Queued(t)
  <2>1. Queued(t) => ~Running(t)
    BY DEF Inv, PlacesInv, QueueInv
  <2> QED BY <2>1, NotOnAStack, InFlightDef
<1>2. ASSUME Running(t)
      PROVE  outcome[t] # "pending"
  <2>1. PICK u \in Threads : pc[u] = "notifyAll" /\ cur[u] = t
    BY <1>2, InFlightDef
  <2>2. u \in Workers
    BY <2>1, CurFacts, Disjointness
  <2>3. cur[u] # Nobody
    BY <2>1, Disjointness
  <2> QED BY <2>1, <2>2, <2>3 DEF KeptInv, OutcomeInv
<1>3. Issued(t) => Running(t) \/ outcome[t] # "pending"
  BY <1>1 DEF KeptInv, NoJobIsLost
<1> QED BY <1>1, <1>2, <1>3

LEMMA WaitEndsIdle ==
  ASSUME Inv, KeptInv, QuietInv, NEW c \in Clients, WaitEnds(c), [Next]_vars
  PROVE  InFlight = {}
<1> USE DEF control, cv, counts, queues
<1>0. c \in Threads /\ c \in Codes /\ cur[c] = c
  BY CurFacts, Disjointness
<1>1. ASSUME Undisturbed(c)
      PROVE  FALSE
  BY <1>1 DEF Undisturbed, WaitEnds
<1>2. ASSUME UNCHANGED <<pc, ip>>
      PROVE  FALSE
  BY <1>2 DEF WaitEnds
<1>3. ClientStep(c)
  <2>1. CASE \E w \in Workers : WorkerStep(w)
    BY <1>1, <2>1, WorkerLeavesOthers
  <2>2. CASE \E d \in Clients : d # c /\ ClientStep(d)
    BY <1>1, <2>2, ClientLeavesOthers
  <2>3. CASE UNCHANGED vars \/ \E th \in Threads : SpuriousWakeup(th)
    BY <1>2, <2>3 DEF vars, SpuriousWakeup
  <2> QED BY <2>1, <2>2, <2>3 DEF Next, Terminated
<1>4. pc'[c] \in Labels /\ \A l : Goto(c, l) => pc'[c] = l
  BY <1>0, TypeFacts, StepInv DEF Goto, Inv, TypeOK
<1>5. pc[c] \in {"run", "readQueued"} /\ Call(c).op \in {"waitAll", "destroy"}
  BY DEF WaitEnds
<1>6. ~Submit(c)
  BY <1>5 DEF Submit, Refuse, ChooseQueue, Push, Unlock, AddQueued, AddActive, Notify, Await, Submissions
<1>7. CASE WaitForAllTasks(c)
  <2>1. CASE stop
    BY <2>1 DEF QuietInv
  <2>2. CASE ~stop
    BY <1>4, <1>7, <2>2 DEF WaitForAllTasks, Block, Ready, WaitEnds
  <2> QED BY <2>1, <2>2
<1>8. CASE ReadQueued(c)
  BY <1>8 DEF ReadQueued, QuietInv, WaitLabels
<1> QED BY <1>3, <1>5, <1>6, <1>7, <1>8 DEF ClientStep, SetStop, StopNotify, Join

LEMMA StepWait ==
  ASSUME Inv, KeptInv, QuietInv, [Next]_vars
  PROVE  \A c \in Clients : WaitEnds(c) => \A t \in SubmittedBy(c) : outcome[t] # "pending"
<1> SUFFICES ASSUME NEW c \in Clients, WaitEnds(c), NEW t \in SubmittedBy(c)
             PROVE  outcome[t] # "pending"
  OBVIOUS
<1>1. t \in Tasks /\ Issued(t)
  BY Disjointness DEF SubmittedBy, Issued
<1> QED BY <1>1, WaitEndsIdle, IdleMeansDone

LEMMA InitQuiet == Init /\ OneSubmitter(script) => QuietInv
BY Disjointness DEF Init, QuietInv, SubmitLabels, PushLabels, WaitLabels

\* QuietInv holds for every program in which one client hands out the work.
LEMMA Quiet == Spec /\ OneSubmitter(script) => []QuietInv
BY InitQuiet, StepQuiet, Invariance, CountersAreExact, PTL DEF Spec

\* In a program whose work is handed out by one client (its jobs may start others
\* inline), waitForAllTasks and the wait of ~Scheduler return only when every job
\* submitted so far has its outcome, however the two counters are read.
THEOREM WaitingIsComplete == Spec /\ OneSubmitter(script) => WaitIsComplete
BY StepWait, Quiet, Invariance, NothingIsLost, PTL DEF Spec, WaitIsComplete
-----------------------------------------------------------------------------
(* The scheduler implements TaskPool, step by step, for every program whose  *)
(* work is handed out by one client.                                         *)

\* What the abstract pool sees stays the same.
LEMMA SameProgress ==
  ASSUME UNCHANGED outcome, stop' = stop,
         \A t \in Tasks : outcome[t] = "pending" => (Queued(t)' <=> Queued(t)) /\ (Running(t)' <=> Running(t))
  PROVE  UNCHANGED Pool!vars
<1>1. \A t \in Tasks : Progress(t)' = Progress(t)
  BY DEF Progress
<1> QED BY <1>1 DEF Pool!vars

\* One job gets on: the pool makes a step of its own.
LEMMA OneGetsOn ==
  ASSUME NEW s \in Tasks, NEW to, Progress(s)' = to,
         \A t \in Tasks : t # s => Progress(t)' = Progress(t)
  PROVE  Pool!Moves(s, Progress(s), to)
BY DEF Pool!Moves

LEMMA PushAccepts ==
  ASSUME Inv, QuietInv, NEW c \in Clients, Push(c)
  PROVE  [Pool!Next]_(Pool!vars)
<1> USE DEF control, cv, counts, queues
<1>1. c \in Threads
  BY Disjointness
<1>2. ~stop /\ stop' = stop
  BY DEF Push, QuietInv, SubmitLabels
<1>3. PICK s \in Tasks : /\ ~Queued(s) /\ ~Running(s) /\ outcome[s] = "pending"
                         /\ \A t \in Tasks : /\ Queued(t)' <=> Queued(t) \/ t = s
                                             /\ Running(t)' <=> Running(t)
  BY <1>1, PushPlaces DEF Touched
<1>4. UNCHANGED outcome
  BY DEF Push
<1>5. Progress(s) = "new" /\ Progress(s)' = "queued"
  BY <1>3, <1>4 DEF Progress
<1>6. \A t \in Tasks : t # s => Progress(t)' = Progress(t)
  BY <1>3, <1>4 DEF Progress
<1>7. Pool!Accept(s)
  BY <1>2, <1>5, <1>6, OneGetsOn DEF Pool!Accept
<1> QED BY <1>7 DEF Pool!Next

LEMMA InlineRunsAtOnce ==
  ASSUME Inv, NEW w \in Workers, RunInline(w)
  PROVE  [Pool!Next]_(Pool!vars)
<1> USE DEF control, cv, counts, queues
<1>1. ~stop /\ stop' = stop /\ UNCHANGED outcome
  BY DEF RunInline
<1>2. PICK s \in Tasks : /\ ~Queued(s) /\ ~Running(s) /\ outcome[s] = "pending"
                         /\ \A t \in Tasks : /\ Queued(t)' <=> Queued(t)
                                             /\ Running(t)' <=> Running(t) \/ t = s
  BY InlinePlaces DEF Touched
<1>3. Progress(s) = "new" /\ Progress(s)' = "running"
  BY <1>1, <1>2 DEF Progress
<1>4. \A t \in Tasks : t # s => Progress(t)' = Progress(t)
  BY <1>1, <1>2 DEF Progress
<1>5. Pool!RunAtOnce(s)
  BY <1>1, <1>3, <1>4, OneGetsOn DEF Pool!RunAtOnce
<1> QED BY <1>5 DEF Pool!Next

LEMMA RefuseRefuses ==
  ASSUME Inv, NEW th \in Threads, Refuse(th)
  PROVE  [Pool!Next]_(Pool!vars)
<1> USE DEF control, cv, counts, queues
<1>1. stop /\ stop' = stop
  BY DEF Refuse
<1>2. PICK s \in Tasks : s = Call(th).task /\ ~Touched(s)
  BY Fresh DEF Refuse, Ready
<1>3. ~Queued(s) /\ ~Running(s) /\ outcome[s] = "pending"
  BY <1>2 DEF Touched
<1>4. \A t \in Tasks : outcome'[t] = IF t = s THEN "dropped" ELSE outcome[t]
  BY <1>2, TypeFacts DEF Refuse
<1>5. \A t \in Tasks : (Queued(t)' <=> Queued(t)) /\ (Running(t)' <=> Running(t))
  BY SamePlaces DEF Refuse, Return
<1>6. Progress(s) = "new" /\ Progress(s)' = "refused"
  BY <1>3, <1>4 DEF Progress
<1>7. \A t \in Tasks : t # s => Progress(t)' = Progress(t)
  BY <1>4, <1>5 DEF Progress
<1>8. Pool!Refuse(s)
  BY <1>1, <1>6, <1>7, OneGetsOn DEF Pool!Refuse
<1> QED BY <1>8 DEF Pool!Next

LEMMA TakeStarts ==
  ASSUME Inv, NEW w \in Workers, NEW q \in Workers, NEW i \in DOMAIN queue[q],
         pc[w] \in {"pop", "steal"}, Take(w, q, i), UNCHANGED <<caller, outcome, stop>>
  PROVE  [Pool!Next]_(Pool!vars)
<1>1. PICK s \in Tasks : /\ Queued(s) /\ outcome[s] = "pending"
                         /\ \A t \in Tasks : /\ Queued(t)' <=> Queued(t) /\ t # s
                                             /\ Running(t)' <=> Running(t) \/ t = s
  BY TakePlaces
<1>2. Progress(s) = "queued" /\ Progress(s)' = "running"
  BY <1>1 DEF Progress
<1>3. \A t \in Tasks : t # s => Progress(t)' = Progress(t)
  BY <1>1 DEF Progress
<1>4. Pool!Start(s)
  BY <1>2, <1>3, OneGetsOn DEF Pool!Start
<1> QED BY <1>4 DEF Pool!Next

LEMMA EndEnds ==
  ASSUME Inv, KeptInv, NEW w \in Workers, JobEnds(w)
  PROVE  [Pool!Next]_(Pool!vars)
<1> USE DEF control, cv, counts, queues
<1>1. PICK s \in Tasks : s = cur[w]
  BY CurFacts, Disjointness DEF JobEnds, IdleLabels
<1>2. outcome[s] = "pending" /\ Running(s)
  BY <1>1, Disjointness DEF JobEnds, KeptInv, OutcomeInv, Running
<1>3. ~Queued(s)
  BY <1>2 DEF Inv, PlacesInv, QueueInv
<1>4. /\ outcome'[s] \in {"value", "exception"}
      /\ \A t \in Tasks : t # s => outcome'[t] = outcome[t]
  BY <1>1, TypeFacts DEF JobEnds
<1>5. \A t \in Tasks : (Queued(t)' <=> Queued(t)) /\ (Running(t)' <=> Running(t))
  BY SamePlaces DEF JobEnds
<1>6. Progress(s) = "running" /\ Progress(s)' = "ended"
  BY <1>2, <1>3, <1>4 DEF Progress
<1>7. \A t \in Tasks : t # s => Progress(t)' = Progress(t)
  BY <1>4, <1>5 DEF Progress
<1>8. Pool!End(s)
  BY <1>6, <1>7, OneGetsOn DEF Pool!End, JobEnds
<1> QED BY <1>8 DEF Pool!Next

\* A job leaves the stack after its outcome is known.
LEMMA LeaveStutters ==
  ASSUME Inv, KeptInv, NEW w \in Workers, pc[w] \in {"finished", "notifyAll"}, Leave(w),
         UNCHANGED <<queue, outcome, stop>>
  PROVE  UNCHANGED Pool!vars
<1>1. PICK s \in Tasks : /\ s = cur[w]
                         /\ \A t \in Tasks : /\ Queued(t)' <=> Queued(t)
                                             /\ Running(t)' <=> Running(t) /\ t # s
  BY LeavePlaces
<1>2. outcome[s] # "pending"
  BY <1>1, Disjointness DEF KeptInv, OutcomeInv
<1> QED BY <1>1, <1>2, SameProgress

LEMMA StopCloses ==
  ASSUME Inv, KeptInv, QuietInv, NEW c \in Clients, SetStop(c)
  PROVE  [Pool!Next]_(Pool!vars)
<1> USE DEF control, cv, counts, queues
<1>1. InFlight = {}
  BY DEF SetStop, QuietInv, WaitLabels
<1>2. \A t \in Tasks : Progress(t) \notin {"queued", "running"}
  BY <1>1, IdleMeansDone DEF Progress
<1>3. \A t \in Tasks : Progress(t)' = Progress(t)
  BY SamePlaces DEF SetStop, Progress
<1>4. stop' = TRUE
  BY DEF SetStop
<1>5. Pool!Close
  BY <1>2, <1>3, <1>4 DEF Pool!Close
<1> QED BY <1>5 DEF Pool!Next
-----------------------------------------------------------------------------
\* Steps that move no job.
LEMMA SameStutters ==
  ASSUME UNCHANGED <<queue, cur, caller, outcome, stop>>
  PROVE  [Pool!Next]_(Pool!vars)
BY SamePlaces, SameProgress

LEMMA WorkerImplementsPool ==
  ASSUME Inv, KeptInv, QuietInv, NEW w \in Workers, WorkerStep(w)
  PROVE  [Pool!Next]_(Pool!vars)
<1> USE DEF control, cv, counts, queues
<1>0. w \in Threads /\ ~Push(w)
  BY Disjointness, WorkersNeverSubmit
<1>1. CASE Refuse(w)
  BY <1>0, <1>1, RefuseRefuses
<1>2. CASE ChooseQueue(w) \/ Unlock(w) \/ AddQueued(w) \/ AddActive(w) \/ Notify(w) \/ Await(w)
  BY <1>2, SameStutters DEF ChooseQueue, Unlock, AddQueued, AddActive, Notify, Await, Return
<1>3. CASE RunInline(w)
  BY <1>3, InlineRunsAtOnce
<1>4. CASE TryPopLocal(w)
  <2>1. PopLocal(queue[w]) \subseteq DOMAIN queue[w]
    BY TypeFacts DEF PopLocal, HeapTop
  <2>2. CASE TryNext(w, NextQueue(w))
    BY <1>4, <2>2, SameStutters DEF TryPopLocal, TryNext
  <2> QED BY <1>4, <2>1, <2>2, TakeStarts DEF TryPopLocal
<1>5. CASE TrySteal(w)
  <2>1. target[w] \in Workers
    BY <1>0, TypeFacts
  <2>2. PopSteal(queue[target[w]]) \subseteq DOMAIN queue[target[w]]
    BY DEF PopSteal, HeapTop
  <2>3. CASE TryNext(w, NextQueue(target[w]))
    BY <1>5, <2>3, SameStutters DEF TrySteal, TryNext
  <2> QED BY <1>5, <2>1, <2>2, <2>3, TakeStarts DEF TrySteal
<1>6. CASE FinishPop(w) \/ CheckForWork(w)
  BY <1>6, SameStutters DEF FinishPop, CheckForWork
<1>7. CASE JobEnds(w)
  BY <1>7, EndEnds
<1>8. CASE SubActive(w)
  <2>1. CASE UNCHANGED <<cur, caller, ip, target>>
    BY <1>8, <2>1, SameStutters DEF SubActive
  <2>2. CASE Leave(w)
    BY <1>8, <2>2, LeaveStutters DEF SubActive
  <2> QED BY <1>8, <2>1, <2>2 DEF SubActive
<1>9. CASE NotifyWaiters(w)
  BY <1>9, LeaveStutters DEF NotifyWaiters
<1> QED BY <1>0, <1>1, <1>2, <1>3, <1>4, <1>5, <1>6, <1>7, <1>8, <1>9 DEF WorkerStep, Submit

LEMMA ClientImplementsPool ==
  ASSUME Inv, KeptInv, QuietInv, NEW c \in Clients, ClientStep(c)
  PROVE  [Pool!Next]_(Pool!vars)
<1> USE DEF control, cv, counts, queues
<1>1. CASE Refuse(c)
  BY <1>1, Disjointness, RefuseRefuses
<1>2. CASE Push(c)
  BY <1>2, PushAccepts
<1>3. CASE ChooseQueue(c) \/ Unlock(c) \/ AddQueued(c) \/ AddActive(c) \/ Notify(c) \/ Await(c)
  BY <1>3, SameStutters DEF ChooseQueue, Unlock, AddQueued, AddActive, Notify, Await, Return
<1>4. ASSUME WaitReturns(c)
      PROVE  UNCHANGED <<cur, caller>>
  BY <1>4 DEF WaitReturns, Return
<1>5. CASE WaitForAllTasks(c) \/ ReadQueued(c)
  BY <1>4, <1>5, SameStutters DEF WaitForAllTasks, ReadQueued, Block
<1>6. CASE SetStop(c)
  BY <1>6, StopCloses
<1>7. CASE StopNotify(c) \/ Join(c)
  BY <1>7, SameStutters DEF StopNotify, Join, Return
<1> QED BY <1>1, <1>2, <1>3, <1>5, <1>6, <1>7 DEF ClientStep, Submit

LEMMA StepImplementsPool ==
  Inv /\ KeptInv /\ QuietInv /\ [Next]_vars => [Pool!Next]_(Pool!vars)
<1>1. CASE UNCHANGED vars \/ \E th \in Threads : SpuriousWakeup(th)
  BY <1>1, SameStutters DEF vars, SpuriousWakeup, control, queues
<1> QED BY <1>1, WorkerImplementsPool, ClientImplementsPool DEF Next, Terminated

LEMMA InitImplementsPool == Init => Pool!Init
<1> SUFFICES ASSUME Init
             PROVE  Pool!Init
  OBVIOUS
<1>1. \A t \in Tasks : ~Queued(t) /\ ~Running(t) /\ outcome[t] = "pending"
  BY Disjointness DEF Init, Queued, Running
<1>2. \A t \in Tasks : Progress(t) = "new"
  BY <1>1 DEF Progress
<1> QED BY <1>2 DEF Init, Pool!Init

\* In a program whose work is handed out by one client, every step of the scheduler
\* is a step of the pool its users see, or invisible to them: a job is accepted only
\* while the pool is open, runs once and ends, and the pool closes only when idle.
THEOREM ImplementsPool ==
  Spec /\ OneSubmitter(script) => Pool!Init /\ [][Pool!Next]_(Pool!vars)
BY InitImplementsPool, StepImplementsPool, Quiet, Invariance, NothingIsLost, PTL DEF Spec
=============================================================================
