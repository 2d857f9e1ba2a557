---------------------------- MODULE ForestTraversal ----------------------------
(***************************************************************************)
(* ForestTraversal::runTopDown and runBottomUp on a TaskScheduler          *)
(* (gtsam/base/ForestTraversal.h, the build without TBB).                  *)
(*                                                                         *)
(* A thread's agenda is what is left of the nested calls and continuations *)
(* it is in: the first item is the next thing it does, and it may put      *)
(* others in front.  One item is one access to shared state, or a call of  *)
(* the visitor.  The scheduler is the pool of TaskPool: a bag of jobs from *)
(* which idle workers take any one.                                        *)
(*                                                                         *)
(* Memory is modelled by what C++ lets a thread rely on: view holds the    *)
(* writes that happen before a thread's next step, and sync the writes     *)
(* that an acquiring access of an object makes happen before it.           *)
(***************************************************************************)
EXTENDS Integers, Sequences, FiniteSets, Bags, SequencesExt

CONSTANTS
  Workers,  \* the threads of scheduler_
  Caller,   \* the thread that calls runTopDown or runBottomUp
  Nodes,    \* Node
  Runs,     \* the forests and arguments to consider
  Raised,   \* the write of hasException
  None      \* no node

Threads == Workers \cup {Caller}
Facts   == Nodes \cup {Raised}
Objects == {"raised", "claim", "done"}

\* A forest, the nodes whose visitor may throw, the direction, parallelThreshold
\* and leafAggregationProblemSize.
Run == [roots : Seq(Nodes), kids : [Nodes -> Seq(Nodes)], size : [Nodes -> Int],
        throws : SUBSET Nodes, mode : {"topDown", "bottomUp"}, threshold : Int, budget : Nat]

\* Every node is the root of a tree or the child of one node, once, and none is below itself.
IsForest(r) ==
  /\ r \in Run
  /\ LET Place == {<<None, i>> : i \in DOMAIN r.roots}
                    \cup UNION {{<<p, i>> : i \in DOMAIN r.kids[p]} : p \in Nodes}
         Sits(pl) == IF pl[1] = None THEN r.roots[pl[2]] ELSE r.kids[pl[1]][pl[2]]
     IN  /\ \A n \in Nodes : \E pl \in Place : Sits(pl) = n
         /\ \A pl, ql \in Place : Sits(pl) = Sits(ql) => pl = ql
  /\ \A S \in (SUBSET Nodes) \ {{}} : \E n \in S : \A p \in S : n \notin ToSet(r.kids[p])

\* Of the constants; Traversals assumes it.
Assumptions ==
  /\ Caller \notin Workers /\ Workers # {}
  /\ None \notin Nodes /\ Raised \notin Nodes /\ IsFiniteSet(Workers) /\ IsFiniteSet(Nodes)
  /\ (Nodes \cup {None}) \cap {"unset", "running", "value"} = {}
  /\ \A r \in Runs : IsForest(r)
-----------------------------------------------------------------------------
VARIABLES
  run,           \* the forest and the arguments of this call
  agenda,        \* what each thread has to do
  jobs,          \* the jobs in the queues of scheduler_, with the writes before them
  remaining,     \* the counter of children of each node
  pending,       \* State::pending
  claimed,       \* State::exceptionClaim
  hasException,  \* State::hasException
  exception,     \* State::exception, by the node that threw it
  done,          \* the result put into State::done
  result,        \* how the call ended
  visited,       \* the nodes whose visitor returned
  failed,        \* the nodes whose visitor threw
  view,          \* the writes that happen before a thread's next step
  sync           \* the writes released with an object

state  == <<pending, claimed, hasException, exception, done>>
visits == <<visited, failed>>
memory == <<view, sync>>
vars   == <<run, agenda, jobs, remaining, state, result, visits, memory>>

Kids(n)     == run.kids[n]
IsLeaf(n)   == Kids(n) = <<>>
Parents(n)  == {p \in Nodes : \E i \in DOMAIN Kids(p) : Kids(p)[i] = n}
Before(n)   == IF run.mode = "topDown" THEN Parents(n) ELSE ToSet(Kids(n))
Parallel(n) == run.threshold <= 0 \/ run.size[n] >= run.threshold

\* The sum of the problem sizes of the children of n from lo up to before hi.
Contribution(n) == IF run.size[n] > 0 THEN run.size[n] ELSE 1
Total(n, lo, hi) ==
  SumFunctionOnSet([i \in DOMAIN Kids(n) |-> Contribution(Kids(n)[i])], lo .. (hi - 1))

\* MUTANT: the budget is compared before the last leaf is added.
FaultyLeafBatchEnd(n, lo) ==
  Max({hi \in (lo + 1) .. (Len(Kids(n)) + 1) :
        /\ \A i \in lo .. (hi - 1) : IsLeaf(Kids(n)[i])
        /\ hi = lo + 1 \/ Total(n, lo, hi - 1) <= run.budget})
\* The largest batch of adjacent leaves that starts at lo and fits the budget.
LeafBatchEnd(n, lo) ==
  Max({hi \in (lo + 1) .. (Len(Kids(n)) + 1) :
        /\ \A i \in lo .. (hi - 1) : IsLeaf(Kids(n)[i])
        /\ hi = lo + 1 \/ Total(n, lo, hi) <= run.budget})
UnitEnd(n, lo) == IF IsLeaf(Kids(n)[lo]) THEN LeafBatchEnd(n, lo) ELSE lo + 1

Do(op, n) == [op |-> op, node |-> n]
Span(op, n, lo, hi) == [op |-> op, node |-> n, lo |-> lo, hi |-> hi]
Each(op, ns) == [i \in DOMAIN ns |-> Do(op, ns[i])]

\* What bottomUpAsync does next at the children of n from lo on: another unit, or
\* the release of the sentinel.
NextUnit(n, lo) ==
  IF lo <= Len(Kids(n)) THEN [op |-> "unit", node |-> n, lo |-> lo] ELSE Do("childDone", n)

\* The continuation onDone of n.
OnDone(n) == LET ps == Parents(n) IN IF ps = {} THEN <<>> ELSE <<Do("childDone", CHOOSE p \in ps : TRUE)>>

Init ==
  /\ run \in Runs
  /\ agenda = [th \in Threads |-> IF th # Caller THEN <<>> ELSE
       <<Do("seed", None)>>
         \o Each(IF run.mode = "topDown" THEN "dispatch" ELSE "visit", run.roots)
         \o <<Do("finish", None), Do("wait", None)>>]
  /\ jobs = EmptyBag
  /\ remaining = [n \in Nodes |-> 0]
  /\ pending = 0
  /\ claimed = FALSE
  /\ hasException = FALSE
  /\ exception = None
  /\ done = "unset"
  /\ result = "running"
  /\ visited = {}
  /\ failed = {}
  /\ view = [th \in Threads |-> {}]
  /\ sync = [o \in Objects |-> {}]
-----------------------------------------------------------------------------
At(th, op)     == agenda[th] # <<>> /\ Head(agenda[th]).op = op
Item(th)       == Head(agenda[th])
Replace(th, items) == agenda' = [agenda EXCEPT ![th] = items \o Tail(agenda[th])]

\* An access that acquires what was released with o and releases what th knows.
AcqRel(th, o) ==
  /\ view' = [view EXCEPT ![th] = @ \cup sync[o]]
  /\ sync' = [sync EXCEPT ![o] = @ \cup view[th]]
\* fetch_add and fetch_sub of pending and remaining are memory_order_relaxed: the
\* counts are exact, and nothing a thread wrote is ordered by them.
Relaxed == UNCHANGED memory

\* hasException.load(acquire): true once it was stored, unless the store need
\* not be visible to th yet.
Load(th, value) ==
  \/ /\ value /\ hasException
     /\ view' = [view EXCEPT ![th] = @ \cup sync["raised"]]
     /\ UNCHANGED sync
  \/ ~value /\ Raised \notin view[th] /\ UNCHANGED memory
-----------------------------------------------------------------------------
(* runTraversal and maybeFinish *)

\* MUTANT: the call itself is not counted.
FaultySeed(th) ==
  /\ At(th, "seed")
  /\ Relaxed
  /\ Replace(th, <<>>)
  /\ UNCHANGED <<run, jobs, remaining, state, result, visits>>
Seed(th) ==
  /\ At(th, "seed")
  /\ pending' = pending + 1
  /\ Relaxed
  /\ Replace(th, <<>>)
  /\ UNCHANGED <<run, jobs, remaining, claimed, hasException, exception, done, result, visits>>

\* Whoever decrements pending from 1 resolves the promise.
MaybeFinish(th) ==
  /\ At(th, "finish")
  /\ pending' = pending - 1
  /\ Relaxed
  /\ Replace(th, IF pending = 1 THEN <<Do("resolve", None)>> ELSE <<>>)
  /\ UNCHANGED <<run, jobs, remaining, claimed, hasException, exception, done, result, visits>>

Resolve(th) ==
  /\ At(th, "resolve")
  /\ \E raised \in BOOLEAN :
       /\ \/ raised /\ hasException
          \/ ~raised /\ Raised \notin view[th]
       /\ done' = IF raised THEN exception ELSE "value"
  /\ sync' = [sync EXCEPT !["done"] = view[th]]
  /\ Replace(th, <<>>)
  /\ UNCHANGED <<run, jobs, remaining, pending, claimed, hasException, exception, result, visits, view>>

\* future.get(), after which the State on the caller's stack is destroyed.
Wait(th) ==
  /\ At(th, "wait")
  /\ done # "unset"
  /\ result' = done
  /\ view' = [view EXCEPT ![th] = @ \cup sync["done"]]
  /\ Replace(th, <<>>)
  /\ UNCHANGED <<run, jobs, remaining, state, visits, sync>>
-----------------------------------------------------------------------------
(* The visitor and recordException *)

\* The visitor is called on n and returns, or throws.
Call(th, n, whenDone, whenThrown) ==
  \/ /\ visited' = visited \cup {n}
     /\ view' = [view EXCEPT ![th] = @ \cup {n}]
     /\ Replace(th, whenDone)
     /\ UNCHANGED failed
  \/ /\ n \in run.throws
     /\ failed' = failed \cup {n}
     /\ Replace(th, <<Do("claim", n)>> \o whenThrown)
     /\ UNCHANGED <<visited, view>>

\* MUTANT: the result of test_and_set is taken the wrong way round.
FaultyClaim(th) ==
  /\ At(th, "claim")
  /\ claimed' = TRUE
  /\ AcqRel(th, "claim")
  /\ Replace(th, IF ~claimed THEN <<>> ELSE <<Do("record", Item(th).node)>>)
  /\ UNCHANGED <<run, jobs, remaining, pending, hasException, exception, done, result, visits>>
Claim(th) ==
  /\ At(th, "claim")
  /\ claimed' = TRUE
  /\ AcqRel(th, "claim")
  /\ Replace(th, IF claimed THEN <<>> ELSE <<Do("record", Item(th).node)>>)
  /\ UNCHANGED <<run, jobs, remaining, pending, hasException, exception, done, result, visits>>

Record(th) ==
  /\ At(th, "record")
  /\ exception' = Item(th).node
  /\ hasException' = TRUE
  /\ view' = [view EXCEPT ![th] = @ \cup {Raised}]
  /\ sync' = [sync EXCEPT !["raised"] = view[th] \cup {Raised}]
  /\ Replace(th, <<>>)
  /\ UNCHANGED <<run, jobs, remaining, pending, claimed, done, result, visits>>
-----------------------------------------------------------------------------
(* Jobs *)

\* MUTANTS: the job is counted as finished before it runs; or not at all.
FaultyBodyEarly(job) ==
  <<Do("finish", None),
    CASE job.op = "node"    -> Do("again", job.node)
      [] job.op = "topDown" -> Do("enter", job.node)
      [] job.op = "batch"   -> job>>
FaultyBodyUnguarded(job) ==
  <<CASE job.op = "node"    -> Do("again", job.node)
      [] job.op = "topDown" -> Do("enter", job.node)
      [] job.op = "batch"   -> job>>
\* What a job runs, the MaybeFinish guard last.
Body(job) ==
  <<CASE job.op = "node"    -> Do("again", job.node)
      [] job.op = "topDown" -> Do("enter", job.node)
      [] job.op = "batch"   -> job,
    Do("finish", None)>>

\* incrementPending, then enqueue for top-down jobs and enqueueOrRunInline for
\* the others, which start at once on a worker.
Submit(th) ==
  /\ At(th, "submit")
  /\ pending' = pending + 1
  /\ Relaxed
  /\ LET job == Item(th).job IN
     Replace(th, IF th \in Workers /\ job.op # "topDown" THEN Body(job)
                 ELSE <<[op |-> "enqueue", job |-> job]>>)
  /\ UNCHANGED <<run, jobs, remaining, claimed, hasException, exception, done, result, visits>>

Enqueue(th) ==
  /\ At(th, "enqueue")
  /\ jobs' = jobs (+) SetToBag({[job |-> Item(th).job, seen |-> view[th]]})
  /\ Replace(th, <<>>)
  /\ UNCHANGED <<run, remaining, state, result, visits, memory>>

\* MUTANT: a job is taken without the lock of its queue.
FaultyStart(w) ==
  /\ agenda[w] = <<>>
  /\ \E j \in BagToSet(jobs) :
       /\ jobs' = jobs (-) SetToBag({j})
       /\ agenda' = [agenda EXCEPT ![w] = Body(j.job)]
  /\ UNCHANGED <<run, remaining, state, result, visits, memory>>
Start(w) ==
  /\ agenda[w] = <<>>
  /\ \E j \in BagToSet(jobs) :
       /\ jobs' = jobs (-) SetToBag({j})
       /\ agenda' = [agenda EXCEPT ![w] = Body(j.job)]
       /\ view' = [view EXCEPT ![w] = @ \cup j.seen]
  /\ UNCHANGED <<run, remaining, state, result, visits, sync>>

Schedule(job) == <<[op |-> "submit", job |-> job]>>
-----------------------------------------------------------------------------
(* Top-down *)

Dispatch(th) ==
  /\ At(th, "dispatch")
  /\ LET n == Item(th).node IN
     Replace(th, IF Parallel(n) THEN Schedule(Do("topDown", n)) ELSE <<Do("enter", n)>>)
  /\ UNCHANGED <<run, jobs, remaining, state, result, visits, memory>>

\* topDownTraverse: nothing is done once an exception is known.
Enter(th) ==
  /\ At(th, "enter")
  /\ \E raised \in BOOLEAN :
       /\ Load(th, raised)
       /\ Replace(th, IF raised THEN <<>> ELSE <<Do("touch", Item(th).node)>>)
  /\ UNCHANGED <<run, jobs, remaining, state, result, visits>>

Touch(th) ==
  /\ At(th, "touch")
  /\ Call(th, Item(th).node, <<Do("descend", Item(th).node)>>, <<>>)
  /\ UNCHANGED <<run, jobs, remaining, state, result, sync>>

Descend(th) ==
  /\ At(th, "descend")
  /\ \E raised \in BOOLEAN :
       /\ Load(th, raised)
       /\ Replace(th, IF raised THEN <<>> ELSE Each("dispatch", Kids(Item(th).node)))
  /\ UNCHANGED <<run, jobs, remaining, state, result, visits>>
-----------------------------------------------------------------------------
(* Bottom-up *)

\* MUTANT: there is no sentinel.
FaultyStartCount(n) == IF run.budget = 0 THEN Len(Kids(n)) ELSE 0
\* With aggregation the counter starts at 1 for the sentinel, which is released
\* after the last unit; without, at the number of children.
StartCount(n) == IF run.budget = 0 THEN Len(Kids(n)) ELSE 1

\* bottomUpAsync
BottomUp(th) ==
  /\ At(th, "visit")
  /\ LET n == Item(th).node IN
     \/ IsLeaf(n) /\ Replace(th, <<Do("complete", n)>>) /\ UNCHANGED remaining
     \/ /\ ~IsLeaf(n)
        /\ remaining' = [remaining EXCEPT ![n] = StartCount(n)]
        /\ Replace(th, IF run.budget = 0 THEN Each("visit", Kids(n))
                       ELSE <<NextUnit(n, 1)>>)
  /\ UNCHANGED <<run, jobs, state, result, visits, memory>>

Unit(th) ==
  /\ At(th, "unit")
  /\ LET u  == Item(th)
         hi == UnitEnd(u.node, u.lo)
     IN  /\ remaining' = [remaining EXCEPT ![u.node] = @ + 1]
         /\ Relaxed
         /\ Replace(th, (IF hi > u.lo + 1 THEN Schedule(Span("batch", u.node, u.lo, hi))
                         ELSE <<Do("visit", Kids(u.node)[u.lo])>>) \o <<NextUnit(u.node, hi)>>)
  /\ UNCHANGED <<run, jobs, state, result, visits>>

ChildDone(th) ==
  /\ At(th, "childDone")
  /\ LET n == Item(th).node IN
     /\ remaining' = [remaining EXCEPT ![n] = @ - 1]
     /\ Relaxed
     /\ Replace(th, IF remaining[n] = 1 THEN <<Do("complete", n)>> ELSE <<>>)
  /\ UNCHANGED <<run, jobs, state, result, visits>>

\* completeBottomUpNode: with an exception the node is skipped but reported.
Complete(th) ==
  /\ At(th, "complete")
  /\ LET n == Item(th).node IN
     \E raised \in BOOLEAN :
       /\ Load(th, raised)
       /\ Replace(th, IF raised THEN OnDone(n)
                      ELSE IF Parallel(n) THEN Schedule(Do("node", n))
                      ELSE <<Do("work", n)>>)
  /\ UNCHANGED <<run, jobs, remaining, state, result, visits>>

\* The job of scheduleBottomUpNode looks at hasException again.
Again(th) ==
  /\ At(th, "again")
  /\ LET n == Item(th).node IN
     \E raised \in BOOLEAN :
       /\ Load(th, raised)
       /\ Replace(th, IF raised THEN OnDone(n) ELSE <<Do("work", n)>>)
  /\ UNCHANGED <<run, jobs, remaining, state, result, visits>>

Work(th) ==
  /\ At(th, "work")
  /\ LET n == Item(th).node IN Call(th, n, OnDone(n), OnDone(n))
  /\ UNCHANGED <<run, jobs, remaining, state, result, sync>>

\* The job of scheduleLeafBatch: each leaf unless an exception is known.
Batch(th) ==
  /\ At(th, "batch")
  /\ LET b == Item(th) IN
     \/ b.lo = b.hi /\ Replace(th, <<Do("childDone", b.node)>>) /\ UNCHANGED memory
     \/ /\ b.lo < b.hi
        /\ \E raised \in BOOLEAN :
             /\ Load(th, raised)
             /\ Replace(th, IF raised THEN <<Do("childDone", b.node)>>
                            ELSE <<Span("leaf", b.node, b.lo, b.hi)>>)
  /\ UNCHANGED <<run, jobs, remaining, state, result, visits>>

Leaf(th) ==
  /\ At(th, "leaf")
  /\ LET b == Item(th) IN
     Call(th, Kids(b.node)[b.lo], <<Span("batch", b.node, b.lo + 1, b.hi)>>, <<Do("childDone", b.node)>>)
  /\ UNCHANGED <<run, jobs, remaining, state, result, sync>>
-----------------------------------------------------------------------------
Step(th) ==
  \/ Seed(th) \/ MaybeFinish(th) \/ Resolve(th) \/ Wait(th) \/ Claim(th) \/ Record(th)
  \/ Submit(th) \/ Enqueue(th) \/ Dispatch(th) \/ Enter(th) \/ Touch(th) \/ Descend(th)
  \/ BottomUp(th) \/ Unit(th) \/ ChildDone(th) \/ Complete(th) \/ Again(th) \/ Work(th)
  \/ Batch(th) \/ Leaf(th)

\* The call has returned and the pool is idle.
Returned ==
  /\ result # "running"
  /\ UNCHANGED vars

Next ==
  \/ \E th \in Threads : Step(th)
  \/ \E w \in Workers : Start(w)
  \/ Returned

Spec == Init /\ [][Next]_vars

\* Threads are run, visitors end, and the scheduler runs what was enqueued
\* (ClientsFinish and PoolSpec of Scheduler).
FairSpec == /\ Spec
            /\ \A th \in Threads : WF_vars(Step(th))
            /\ \A w \in Workers : WF_vars(Start(w))
-----------------------------------------------------------------------------
(* Properties *)

TypeOK ==
  /\ run \in Run
  /\ IsABag(jobs)
  /\ \A j \in BagToSet(jobs) :
                     /\ j.job.op \in {"node", "topDown", "batch"}
                     /\ j.job.node \in Nodes
                     /\ j.seen \subseteq Facts
  /\ remaining \in [Nodes -> Nat]
  /\ pending \in Nat
  /\ claimed \in BOOLEAN /\ hasException \in BOOLEAN
  /\ exception \in Nodes \cup {None}
  /\ {done, result} \subseteq {"unset", "running", "value"} \cup Nodes
  /\ visited \subseteq Nodes /\ failed \subseteq Nodes
  /\ view \in [Threads -> SUBSET Facts]
  /\ sync \in [Objects -> SUBSET Facts]

\* The State and the visitor live on the stack of the caller: when its call has
\* ended no job is left that would use them.
NothingOutlivesTheCall ==
  result # "running" => jobs = EmptyBag /\ \A w \in Workers : agenda[w] = <<>>

\* A batch holds adjacent leaves within the budget, or it is not a batch
\* (ForestTraversal.h:424).
BatchesFit ==
  \A job \in {j.job : j \in BagToSet(jobs)} : job.op = "batch" =>
    /\ \A i \in job.lo .. (job.hi - 1) : IsLeaf(Kids(job.node)[i])
    /\ Total(job.node, job.lo, job.hi) <= run.budget

\* pending counts the jobs that were submitted and have not finished, and the
\* call itself; so nobody resolves the promise early, or twice (ForestTraversal.h:213).
\* And every variable has its type, every batch its bounds.
Queued    == UNION {{j} \X (1 .. jobs[j]) : j \in BagToSet(jobs)}
Guards(th) == \* by their places from the end
  {i \in DOMAIN agenda[th] : agenda[th][Len(agenda[th]) + 1 - i].op = "finish"}
Guarded   == UNION {{th} \X Guards(th) : th \in Threads}
Enqueuing == {th \in Threads : At(th, "enqueue")}
Unseeded  == \E i \in DOMAIN agenda[Caller] : agenda[Caller][i].op = "seed"
PendingIsExact ==
  /\ TypeOK /\ BatchesFit
  /\ pending + (IF Unseeded THEN 1 ELSE 0)
      = Cardinality(Queued) + Cardinality(Guarded) + Cardinality(Enqueuing)

\* A call that no visitor failed returns when all nodes were visited, though the
\* counters order nothing: each decrement is one step (ForestTraversal.h:213, 354).
EveryNodeIsVisited ==
  result # "running" /\ failed = {} => result = "value" /\ visited = Nodes

\* When the promise is resolved the exception of one failed visitor is stored in
\* State (ForestTraversal.h:235), and it is the result unless whoever resolved had
\* not seen the store; without a failure there is no exception.
FailureIsRecorded ==
  /\ failed = {} => ~hasException /\ done \in {"unset", "value"}
  /\ done # "unset" /\ failed # {} =>
       /\ hasException /\ exception \in failed
       /\ done = exception \/ (done = "value" /\ Raised \notin sync["done"])

\* What the caller of runTopDown and runBottomUp can rely on (ForestTraversal.h:226).
OutcomeIsRight == EveryNodeIsVisited /\ FailureIsRecorded

\* Until a visitor throws, the visitor of a node runs only after it returned for all
\* nodes that come before: parents top-down, children bottom-up (ForestTraversal.h:337).
OrderUntilFailure ==
  [][failed = {} => \A n \in Nodes : n \in (visited' \cup failed') \ (visited \cup failed)
       => Before(n) \subseteq visited]_vars

\* Who calls the visitor on a node may rely on what the visitor wrote for the nodes
\* before it.  Top-down the queue orders the two (ForestTraversal.h:314).
Visits(th, n) == n \in visited' \ visited /\ agenda'[th] # agenda[th]
SeesWhatIsAbove ==
  [][run.mode = "topDown" =>
       \A th \in Threads, n \in Nodes : Visits(th, n) => Before(n) \subseteq view[th]]_vars

\* What a visitor can rely on, whichever threads run it (ForestTraversal.h:314, 337).
VisitsInOrder == OrderUntilFailure /\ SeesWhatIsAbove

\* Who counts a counter down to zero acts on what all threads did that counted before.
\* The visitor of a parent reads what was written for its children (testForestTraversal.cpp:65,
\* "Each node stores 1 plus the sum of its children's results"), at ForestTraversal.h:354;
\* the caller has blocked "until traversal resolves" (:226), at :213, and must see the results
\* of every visitor, and the exception of one (testForestTraversal.cpp:171).
LastSeesTheOthers ==
  [][/\ \A th \in Threads, n \in Nodes : Visits(th, n) => Before(n) \subseteq view[th]
     /\ result # "value" /\ result' = "value" =>
          failed = {} /\ Nodes \subseteq view'[Caller]]_vars

\* The visitor of a node runs only if it ran for all nodes that come before.
NoVisitAboveFailure ==
  [][\A n \in Nodes : n \in (visited' \cup failed') \ (visited \cup failed)
       => Before(n) \subseteq visited]_vars
=============================================================================
