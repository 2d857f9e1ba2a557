# TLA+ models of GTSAM

GTSAM is a C++ library for factor graphs. It builds a graph of factors on
variables, eliminates the variables one after the other, and gets a Bayes net or
a Bayes tree, which is solved, marginalized, or updated by new factors. Most of
its 5000 files are numerical: manifolds, factors, dense linear algebra. These
modules model what is left when the numbers are taken away: the work-stealing
scheduler, the parallel traversals of forests, locks and caches in a Bayes tree,
the slots and indices of a changing graph, the symbolic part of elimination, the
incremental update with and without relinearization, the moving window of a smoother, and
the protocol between a concurrent filter and smoother. That part is concurrent, or incremental, or both, and
unit tests reach few of its orders of events.

Every definition is translated from the source. `PROJECT.json` lists for each the
lines it stands for (`map`), the runs with their properties, the hazards of the
code, the findings, and for every checked property a plausible bug in a mapped
definition that the run detects (`mutants`; the operators named `Faulty...`, which
no specification uses).

## 1. Inventory

| component | source | state | operations | who uses it |
|---|---|---|---|---|
| work-stealing pool | `base/Scheduler.h`, `TaskScheduler.h`, `PriorityScheduler.h` | a queue and a mutex per worker; atomics `queuedTasks_`, `activeTasks_`, `stop_`, `nextWorker_`; one condition variable and its mutex | `schedule`, `enqueue`, `scheduleOrRunInline`, `waitForAllTasks`, constructor, destructor, worker loop | `ForestTraversal`, `PCGSolver`, `MultifrontalSolver` |
| forest traversal | `base/ForestTraversal.h` | `State` on the caller's stack: `pending`, `hasException`, `exceptionClaim`, a promise; a counter per inner node | `runTopDown`, `runBottomUp` | `MultifrontalSolver` |
| tree traversal | `base/treeTraversal-inst.h`, `treeTraversal/parallelTraversalTasks.h` | serial: a stack and a list of node data; oneTBB: task groups on stacks | `DepthFirstForest[Parallel]`, `PostOrderForest[Parallel]`, `CloneForest` | elimination, junction trees, `ISAM2`, `ForestTraversal` with oneTBB |
| separator marginals | `inference/BayesTreeCliqueBase` | per clique a cached marginal and a mutex | `separatorMarginal`, `cachedSeparatorMarginal`, `numCachedSeparatorMarginals`, `deleteCachedShortcuts` | marginals and joints of a Bayes tree |
| slots and variable index | `inference/FactorGraph-inst.h`, `VariableIndex*` | factors by slot, null where removed; for each key the slots of its factors; two counts | `add_factors`, `augment`, `augmentExistingFactor`, `remove`, `removeUnusedVariables` | `ISAM2`, elimination |
| elimination | `inference/EliminationTree`, `JunctionTree`, `ClusterTree` | trees under construction | constructors, `eliminate` | everything that eliminates |
| Bayes tree, ISAM | `inference/BayesTree`, `ISAM` | cliques with pointers both ways, roots, an index of frontal variables | `update`, `removeTop`, `removePath`, `removeSubtree`, `clear`, `marginalFactor`, `jointBayesNet` | `NonlinearISAM`, hybrid and discrete ISAM; `ISAM2` reuses the tree |
| ISAM2 | `nonlinear/ISAM2*` | the Bayes tree, linearization points, deltas and the mask of stale ones, nonlinear factors and cached linear ones by slot, fixed variables | `update`, `marginalizeLeaves`, `calculateEstimate` | fixed-lag smoothers, applications |
| fixed-lag smoothers | `nonlinear/*FixedLagSmoother*` | a graph or an ISAM2, timestamps in two maps, retained keys | `update` | applications |
| concurrent filter and smoother | `gtsam_unstable/nonlinear/Concurrent*` | a graph each with slots, summaries, a shortcut, separator values, what was moved | `update`, `presync`, `getSummarizedFactors`, `synchronize`, `postsync` | applications |
| optimizers | `nonlinear/*Optimizer*`, `constrained/` | damping or trust region, errors, iterations | `iterate`, `optimize` | applications |
| union-find, spanning trees | `base/DSF*`, `inference/graph-inl.h`, `kruskal-inl.h` | parents, ranks | `find`, `merge`, `kruskal` | subgraph solvers |
| keys, decision trees, hybrid | `inference/Symbol*`, `discrete/`, `hybrid/` | values | constructors, `apply`, `choose`, elimination | discrete and hybrid inference |
| numerical code | `linear/`, `geometry/`, `navigation/`, `slam/`, `sfm/`, `basis/` | values | algebra | everything |

How they meet. A client thread calls a traversal; the traversal enqueues jobs on the
pool or tasks on a oneTBB group; the jobs call the visitor of the algorithm and count
each other down through shared atomics. Elimination is such a visitor: it takes a
junction tree, which comes from an elimination tree, which comes from a variable
index of the graph, and leaves a Bayes tree. ISAM takes the top off that tree,
eliminates it again with the new factors, and puts the orphans back by means of
wrapper factors. Queries of the tree fill caches under per-clique mutexes, and
updates delete them. ISAM2 works on the same tree, but its top is made of nonlinear
factors linearized anew, of those cached, and of what the subtrees below have cached; a
fixed-lag smoother drives it and cuts leaves off. A concurrent filter and smoother have a
graph each and exchange marginal factors on the variables between them.

What is hard, and where:

* many threads and few locks (pool): a job is visible before it is counted, a
  notification can reach the wrong sleeper, a counter wraps, the pool stops while
  jobs submit others;
* memory order and exceptions (forest traversal): relaxed counters decide who reads
  the results of whom, two visitors fail at once, jobs refer to the stack of the call;
* unwinding (tree traversal): a visitor throws after some tasks of a group on the
  stack were spawned;
* lock order (separator marginals): from the leaf up in one function, from the root
  down in another;
* long sequences of legal calls (slots and index): reuse of a slot, factors that are
  null, variables that lose their last factor while a new one comes in;
* cliques where paths part (joints): one left out of a joint is counted twice or not at all;
* an invariant of a whole tree held by local surgery (ISAM): paths that start in an
  orphan of an earlier path, an index that ignores insertions of a key it has, caches
  below the removed top, orphans whose only trace is their separator;
* copies that must stay in step (ISAM2): a factor is in a slot, linearized in a second
  one, part of a conditional and of the cached factors above it, and each copy goes stale
  in its own way when a variable moves, leaves, or is cut off;
* a precondition that another module must establish (fixed-lag smoother): what it
  marginalizes has to be leaves by then, whichever way the update before it went;
* two actors that run on (concurrent filter and smoother): a summary is used for what the
  other has not answered yet, and the separator moves in the meantime.

What makes each component correct is stated by the properties of section 3, hazard by
hazard in `PROJECT.json`.

## 2. Plan

In this order; all of it is done.

1. `Scheduler`, its abstract specification `TaskPool`, and proofs about it.
2. `ForestTraversal` on top of `TaskPool`'s promise; the abstract specification
   `ForestVisit` of any traversal.
3. `TreeTraversal` (serial) and `TaskTraversal` (oneTBB), composed with `ForestTraversal`
   by `Traversals`, in which every build implements the same `ForestVisit`.
4. `SeparatorMarginals`.
5. `VariableIndex`; `Elimination` (operators only); `GraphElimination` composes the
   two and compares elimination with a definition by paths.
6. `BayesTree`, the surgery on trees; `ISAM` on top of it, `JointMarginals` on the trees
   it makes, and `Inference`, from a changing graph to an updated tree.
7. `ISAM2` on `BayesTree`: `update` and `marginalizeLeaves`.
8. `FixedLag` on `ISAM2`: timestamps, window, which keys leave.
9. `Concurrent`: two actors that exchange summaries and lose nothing.

Proofs, in this order: the places and counters of the Scheduler, what its waiting threads
are promised, its refinement of `TaskPool`; the caches of SeparatorMarginals; the end of a
ForestTraversal, its exceptions, the order of its top-down visits, the exact values of its
counters, the order of its visits and their completeness; the window of a fixed-lag smoother. All of that is done (section 4).
Worth proving next: for TaskTraversal `GroupsOutliveTasks`; for ISAM2 `MarginalsStayPut`.

None of the modules has a RECURSIVE operator: recursion is a recursive function or a
fold, so that all of them can be proved about.

## 3. Modules, runs and what they show

### Scheduler, TaskPool (MCScheduler)

Threads are workers and clients. Clients and jobs execute *scripts*, sequences of calls
on the scheduler; nothing else of a job matters here. `pc` says where a thread is in the
worker loop, in `enqueueImpl` or in `waitForAllTasks`; `cur` and `caller` are its call
stack, which is deeper than one where a job runs another inline. Each access to a shared
atomic, each critical section of a queue mutex and each operation on the condition
variable is one step. `stop_` changes only under `waitMutex_`, and the predicate of a
worker is evaluated under it, so that evaluation is one step. A thread in `waitSet` may
be woken by `notify_one` (any one of them), by `notify_all`, or spuriously.
`queuedTasks_` is arithmetic modulo `SizeT`. Whoever calls: a job has one call site, no
job waits for its own pool, and a client owns the pool (`WellFormed`); the scripts are
those of the tests, of `PCGSolver` and of `ForestTraversal`.

* `sched_safety`: three workers, one client, three jobs, no fairness. A job is in one
  place and runs once (`ExactlyOnce`). The counters differ from what they count by
  exactly the updates under way, through the wrap-around (`CountersExact`). While work
  is counted and all workers sleep, a notification is still to come (`WorkIsAnnounced`).
  In two of the workloads jobs call `schedule` while the client destroys the pool, which
  `sched_early_return` shows to go on too early: some of these calls are refused, others are
  accepted just before. When the workers have been joined no job is in a queue and every
  future is ready (`NothingLeftBehind`).
* `sched_use`: two workers with priority queues; jobs that only compute, that continue
  inline, that wait for others. `waitForAllTasks` returns only when all the caller's jobs
  have ended (`WaitIsComplete`), every client finishes (`ClientsFinish`), workers do not
  sleep for ever on queued jobs (`ParkedOnlyWhenIdle`), and the scheduler implements
  `TaskPool` (`PoolSpec`), fairness included. The refinement mapping is `Progress`: a job is
  accepted when it is pushed, it runs while it is on a call stack, and it has ended with its
  outcome; the pool is closed by `stop_`.
* `sched_early_return` (finding): a job that enqueues another. `enqueueImpl` publishes
  before it counts; if the new job runs to its end in between, `activeTasks_` falls to 0
  while the first job is active, and `waitForAllTasks` or the destructor goes on.
* `sched_lost_wakeup` (finding): two clients, one in `waitForAllTasks`. `notify_one`
  can wake that client, which goes back to sleep: the job of the other stays queued.

Bounds. Three jobs are enough for a job that submits another while a third is queued,
two workers for a steal, three for a steal that races a steal. `SizeT` is 8: the counter
drifts by less than the number of jobs, so a larger word adds nothing but distance.

Fairness. Strong fairness of each thread: the operating system runs every thread, and a
mutex that is released again and again is acquired. Spurious wakeups are allowed and
nothing relies on them.

With the priority policy only the order within one heap is kept: jobs are spread over
one heap per worker, so `PriorityScheduler.h:15` ("a lower numeric priority is executed
before a higher") holds for one worker.

### ForestTraversal, TreeTraversal, TaskTraversal, Traversals, ForestVisit (MCTraversals)

`ForestVisit` is what any traversal promises: each visit once, after those it depends on,
and the call ends with a value or an exception that was thrown.

`ForestTraversal` runs on the scheduler. A thread has an agenda, what is left of the nested
calls and continuations it is in; its first item is one access to shared state or one call
of the visitor. The pool is what `TaskPool` promises: a bag of jobs, each of which some
worker will take, in any order. `view` and
`sync` model what C++ lets a thread rely on: the writes that happen before its next step,
and those an acquiring access obtains. As in the code, `pending` and `remaining` are accessed
relaxed (`Relaxed`, `ForestTraversal.h:208`, 213, 354, 373, 391): their values are exact, and
they order nothing. What orders threads is the queue, `exceptionClaim`, `hasException` and the
promise. On x86-64 every read-modify-write is a full barrier, so that what the run
`forest_last_counter` finds needs another machine, or a compiler that uses the freedom it has.

`TreeTraversal` is the serial loop with its stack and data list, `PostOrderForest` and
`CloneForest`. `TaskTraversal` is the oneTBB build: tasks, task groups on the stacks of
tasks, continuations by resubmission to the group, leaf batches. oneTBB is external: a
thread that waits takes other tasks, a task that throws cancels its group and the groups
below it, the destructor of a group waits; cancellation is one step. `Traversals` is the
call that picks one of the three by how the library was built: it extends
`ForestTraversal` and has an instance of each of the others, with variables of its own.

* `traversals`: in every build `ForestVisit` (`VisitSpec`). With oneTBB, where a visitor
  throws before the children or after them, a group is not left while its tasks run,
  although an exception unwinds the stack it is on (`GroupsOutliveTasks`). In the serial
  build references on the stack are to live data, the list is empty at the end, post-order
  is that of `PostOrderForest`, and the clone equals the forest (`DataIsAlive`), for each of
  the 120 ordered forests of five numbered nodes. On the scheduler, with
  visitors that throw in one node bottom-up and in up to two top-down, `pending` counts the
  jobs at every moment, no counter of children falls below zero, and a batch is within its
  budget (`PendingIsExact`); until a visitor throws, each runs after those of the nodes before
  have returned (`OrderUntilFailure`), and top-down a visit sees what was written for the nodes
  above (`SeesWhatIsAbove`; the two are `VisitsInOrder`); a call without a failure visits all nodes
  (`EveryNodeIsVisited`), and after one an exception of a visitor is stored when the promise is
  resolved, whether or not who resolves it can see that (`FailureIsRecorded`; the two are
  `OutcomeIsRight`); and nothing of the call
  survives it (`NothingOutlivesTheCall`).
* `forest_last_counter` (finding, MCForestTraversal): who counts a relaxed counter down to zero
  is not ordered after those that counted before. `LastSeesTheOthers` asks for what rests on it:
  a visitor reads what was written for the nodes before its own, and a call that returns a
  value had no failure and lets the caller read all results. In the shortest behaviour a worker
  has stored an exception, the caller brings `pending` to 0, reads `hasException` as false and
  returns normally. With `Runs <- Peaceful` in the .cfg, where no visitor throws, the shortest
  one is a thread that counts down the last child of a node and calls the node's visitor without
  sight of a child that another thread visited.
* `forest_second_failure` (finding): two leaves fail at once. The one that loses
  `exceptionClaim` goes on before the winner has stored `hasException`, and the visitor of
  a node above runs although a child failed.

Bounds. Five nodes: a root with two adjacent leaves and an inner child, or two trees.
Thresholds that schedule all nodes, the large ones and none; leaf budgets of none, one
leaf and two. Two workers and the caller, who runs jobs inline; two threads of oneTBB.
Fairness: weak for every thread's next step, and for every worker taking a job, which is the
pool's promise.

### SeparatorMarginals (MCSeparatorMarginals)

Each lock, each fill and each unlock is a step. A marginal is known by the set of
ancestors whose conditionals it is the product of. `deleteCachedShortcuts` is not const,
so callers run it alone (`Exclusive`); the others are const, and the comment of the mutex
(`BayesTreeCliqueBase.h:105`) says that they may run at once.

* `separator_marginals`: three threads with a call each on a tree of three levels and a
  single clique, counts made alone too. What is cached is the marginal and lies below cached
  cliques, and who fills a cache holds its mutex and that of the parent, which it finds
  filled (`CacheIsRight`); every call ends (`EveryCallEnds`).
* `separator_marginals_deadlock` (finding): with `numCachedSeparatorMarginals`, which locks
  downwards, two threads wait for each other. Deadlock is not checked there, as the
  finding is the liveness property.

Fairness: strong, as a mutex that is free again and again is acquired.

### VariableIndex, Elimination, GraphElimination, BayesTree, ISAM, JointMarginals, Inference (MCInference)

`VariableIndex` has the actions of `ISAM2` that touch slots and index: an update (factors
added with or without reuse of slots, others removed), a factor that gains a key, and the
marginalization of a leaf. Only factors that are there are removed: the caller knows the
slots, as `ISAM2` hands them out. `Elimination` is a set of operators: elimination tree,
junction tree with its merges, and the elimination of the clusters. Densities are *contents*:
formal products of factors and messages with integer exponents. Eliminating a product of
content c makes a message m and a conditional of content c/m; so a factor lost, used twice
or given to the wrong clique changes the product of the tree. Lists of children are
sequences where the code depends on their order and sets elsewhere.

`BayesTree` has the state of a tree (conditionals, pointers up and down, roots, the index
`nodes_`, cached marginals) and the surgery that `ISAM` and `ISAM2` share: `removeTop`,
`removeSubtree`, wrappers of orphans, the new cliques below. `ISAM`'s `Update` is
`ISAM::updateInternal` whole: the paths of all affected keys removed (each may start in an
orphan of an earlier one), caches of orphans deleted, the conditionals eliminated with the
new factors and the wrappers. The ordering is any that puts the new keys last, in place of
ccolamd. `JointMarginals` adds `jointBayesNet`: what it multiplies before it marginalises is
a sequence of pieces, each with the variables it is a density of, those it is conditioned on
and the cliques whose conditionals are in it. `Inference` composes all of it: a graph
changes, is eliminated as a whole, and an ISAM starts from the result or from nothing.
`added` is a history variable, the product of all factors.

* `bayes_tree`: the index is the one a rebuild gives and `nFactors_` numbers new factors
  right (`VariableIndexIsExact`), a factor keeps its slot (`SlotsAreStable`). For every graph
  reached, the cliques are the maximal cliques of the filled graph (`CliquesAreMaximal`),
  although the code compares counts and never sets; every variable is frontal once, in order,
  with the separator that the definition by paths gives, below a parent that holds it
  (`TreeFollowsOrder`); no factor is lost or doubled (`EliminationKeepsProduct`). For every
  tree reached, pointers and index agree and the running intersection property holds
  (`TreeIsSound`), the tree is the product of all factors (`ProductIsKept`), cached marginals
  are those of the tree as it is (`CachesAreFresh`), and an update changes only the cliques
  between the affected keys and the roots (`OnlyTheTopChanges`). Whatever variables a joint
  is asked for, its pieces fit (`JointsAreDensities`): tails are known, heads are new, no
  conditional is counted twice and no variable is left out.

Bounds. Graphs: reuse with three slots and append with four, on three variables with null
factors and up to two removals; and all sequences of four factors of two keys (and one of
three) on five variables, which is where merges of more than one child occur. The order of
elimination is fixed there: as all graphs are considered, another order is another graph.
Trees: three updates on five variables. The first makes a tree, the second orphans part of
it, the third moves orphans of orphans; batches make chains, loops, pairs of trees, and a
clique that is not a root with two children, where the paths of a joint part below the
root. Joints are checked in every tree for every set of its variables. A second setup with
fewer batches mixes in marginals, deletion of caches, `removeSubtree` and `clear`; a third
starts from an eliminated graph. Graphs and trees may stop at their bounds, so deadlock is
not checked.

### ISAM2, FixedLag (MCISAM2)

A value is known by how often it was relinearized, so the linearization of a factor is its
name with the versions of its variables, and a factor linearized at an old point is another
factor. `Update` is `ISAM2::update`: factors into slots and others out, unused variables,
the variables to relinearize (all with a large correction, or only those found from the
roots), fluid variables, the cached linear factors, the top eliminated again from them and
from the cached factors of the orphans, or everything when 65 % of the variables are
affected, and the bookkeeping of `deltaReplacedMask_`. Which corrections are large, when
relinearization is due and whether fill-in asks for a new order are left open; the ordering
is any of four that respect the constraints. `MarginalizeLeaves` follows the loop of
`marginalizeLeaves` over the keys in order: how far it climbs, whole cliques, parts of
cliques, and marginals posted under the first key of a clique. `fits` records what the
asserted preconditions of the code come to. `renewed` is a history variable.

`FixedLag` is `IncrementalFixedLagSmoother::update` in three steps (`Begin`, `Reap`,
`Finish`), with the order constraints and the keys that `BayesTreeMarginalizationHelper`
has eliminated again.

* `isam2`: the tree is sound (`StateIsSound`), and it is the elimination of the current
  factors, each linearized at the current point (`TreeFollowsFactors`): whatever was reused,
  cached, left alone or marginalized, nothing is missing, stale or counted twice. A linear
  factor that may be reused is that of its slot (`LinearFactorsAreFresh`); the variables of a
  marginal stay where it was computed (`MarginalsStayPut`). The partial back-substitution of
  `optimizeWildfire` reaches every clique whose solution may have changed, even when it
  takes any cliques for unchanged that did not change (`EstimateReachesAll`). What the
  smoother marginalizes are leaves when it does (`MarginalizedAreLeaves`), its two maps
  agree, name values that exist, and hold nothing older than the lag that is not retained
  (`WindowIsKept`).

Bounds. Four changes (three with the rarer arguments) of a chain of three that is closed and
extended to five variables, with and without cached linear factors, with slots reused or
appended, with the full and the partial check. For the smoother a lag of two and seven
changes: closures of loops, a variable seen again later, one whose factor comes late or
never, one retained and released, factors removed, also the last one of a variable that
expires in the same call. That is enough for a marginal to be marginalized again,
for a clique to be split below one that was, and for a batch step in between. After the last
change only estimates are possible: deadlock is not checked.

Assumptions. The caller of a smoother hands in new values that are new and factors on keys with
values (`Proper`). The code does not check that: `ISAM2::update` throws then, in the middle of
its work and after the timestamps have changed, and what is left is not modelled. What the code
does check it checks first (`Acceptable`). A smoother is alone with the ISAM2 in it, which is a member of its own
(`CallsAssumption`). Every variable of a smoother has a timestamp: `createOrderingConstraints` knows
only those, and COLAMD puts a variable without group among the first, so that a variable to
be marginalized need not be a leaf otherwise. Leaves are asked for in `marginalizeLeaves` as its
documentation wants; `ISAM2.h:186` announces a `MarginalizeNonleafException`, the code has a
`runtime_error` in debug builds. With `cacheLinearizedFactors` false and
`findUnusedFactorSlots` false, `marginalizeLeaves` lets the two lists of factors differ in
length, which the assertion in `linearizeNewFactors` excludes; nothing reads the shorter one
then, so the model has that combination only with the other setting.

### Concurrent (MCConcurrent)

`filter` and `smoother` are records of their members. Factors are in slots, those removed
are available again in the order in which they became so. `Marginal` is
`calculateMarginalFactors`: one factor for each connected part of the variables that go,
with the product of what it was computed from and the values it was computed at; factors
that have none of them stay. A value is known by the number of steps that may have moved it.
`FilterUpdate` adds, optimizes, and moves the separator; `SmootherUpdate` adds, optimizes
and summarizes; `Synchronize` is the exchange, in which the filter brings the new summary to
the current separator by its shortcut. The two updates touch nothing of each other, so that
their interleaving is that of whole calls; the exchange needs both at rest.

* `concurrent`: every factor is in one place (`FactorsAreKept`); the filter uses each factor
  of the smoother exactly once through its summary, however far it has moved on
  (`FilterSeesAllOnce`), and so does the smoother after an exchange (`SmootherSeesAllOnce`);
  the summaries are on the same keys, as the filter asserts (`SummariesMatch`); and what a
  summary was computed at stays, on both sides (`SeparatorStays`).

Bounds. Five variables, steps up to the bound `MaxSteps` of the configuration: enough for
the filter to move its separator twice between exchanges, before and after the smoother has
a factor of its own. The bound ends every behaviour: deadlock is not checked.

Assumptions. The separator does not become empty, and the smoother is updated between two
exchanges, as `ConcurrentBatchFilter.cpp:213-218` wants the keys of the summaries to
agree: without an update it would send a summary on the old separator again.

## 4. What is proved

Each theorem holds for every value of the constants that the ASSUMEs of the module admit.
They are invariants, action properties and the safety half of a refinement.

### Scheduler

The ASSUMEs: a positive number of workers, threads and jobs disjoint and finitely many,
well-formed programs, a priority for each job, `SizeT` above twice the number of jobs.

`SchedulerProofs`: `Invariance`, `TypeCorrectness`, and `JobsRunOnce`
(`Spec => []ExactlyOnce`). `ExactlyOnce` is not inductive. From "no job is in two places"
alone it does not follow that a push leaves it so: the job that is pushed could be queued
already. `PlacesInv` (`SchedulerInv`) adds why it is not. `ControlInv` says what each label
implies of a thread (an idle worker has no job, a thread inside `enqueueImpl` is still at
the call that brought it there). `StackInv` says a job is on one call stack once. `QueueInv`
says queues are disjoint and hold jobs that have not run. `IssueInv` says that a job is
nowhere unless its one call site has been passed; so the job of the call being made is
nowhere. The proof has one lemma per action, with a step for each part the action can
disturb.

`SchedulerPlaces`: `NothingIsLost` (`Spec => []KeptInv`), the converse: a job whose
submission went through is in a queue, on a call stack, or has its outcome. Its lemmas say
exactly what each step does to places (`PushPlaces`, `TakePlaces`, `LeavePlaces`, ...); the
other proofs use those and not the actions.

In the same module, `CountersAreExact` (`Spec => []CountersExact`). The counters equal the
cardinalities of the jobs queued and in flight, less the threads that pushed and have not
counted yet, plus those that took a job and have not subtracted it, the first modulo
`SizeT`. It is inductive relative to the invariant above, because a step moves at most one
job across the border of each of the sets.

`SchedulerWaits`:

* `WorkIsAlwaysAnnounced` (`WorkIsAnnounced`) where no client waits for the pool while another
  submits (`NoBystander`). `sched_lost_wakeup` shows that it needs that.
* `WaitingIsComplete` (`WaitIsComplete`), where one client hands out the work and jobs start
  others only inline (`OneSubmitter`). `sched_early_return` shows that it needs that.
  `waitForAllTasks` reads two counters one after the other; `QuietInv` says that what the
  first read has seen still holds at the second: nothing is in flight and nobody submits.
* `ImplementsPool`, under the same condition: the initial states of the Scheduler are those
  of `TaskPool` under `Progress`, and every step is a step of `TaskPool` or a stutter. This is
  `PoolSpec` without its fairness.

### SeparatorMarginals

`SeparatorMarginalsProofs`, for every finite set of cliques with any parents, any threads and
any choice of what runs alone that has `deleteCachedShortcuts` in it: `Invariance` and
`CachesAreRight` (`Spec => []CacheIsRight`). The inductive invariant reads an agenda as a
promise. `LocksInv`: what is to be done under a mutex is done by its holder before the
unlock. `PathInv`: a clique that is to be filled has a filled and locked parent, or the item
before it will fill that. `ClearInv`: before a clique is cleared its children are, or will be.
`AloneInv`: a call that must be alone is, so nothing is filled below what is cleared. The set
of ancestors is defined as the least closed set, so that it needs no induction.

### ForestTraversal

For every finite set of workers, every finite set of nodes and every set of calls on forests
of them (`Assumptions`: each node is a root or the child of one node, once, none is below
itself, and names do not clash), any thresholds, budgets and sets of visitors that throw. The theorems are about `Spec` of `ForestTraversal`; `traversals`
checks the same definitions where `Traversals` picks that build.

`ForestTraversalProofs`:

* `Invariance` (`Spec => []Inv`). `AgendaInv`: whatever a thread has
  to do is followed by the release of a guard, what is urgent is its next step, and only the
  caller seeds and waits. `CountInv`: `pending` is the number of jobs in the queues, of
  guards in agendas and of jobs about to be enqueued. `SeedInv` and `EndInv`: the promise
  is resolved once, by the thread that brought `pending` to 0, which happens after the call
  was counted.
* `CallOutlivesItsJobs` (`NothingOutlivesTheCall`): with the result, the bag is empty and no
  worker has an item left, although jobs refer to the stack of the caller. By `EndInv`
  `pending` is 0 then; by `CountInv` nothing is queued or guarded; by `AgendaInv` there is
  no item without a guard.
* `BatchesAreWithinBudget` (`BatchesFit`).

`ForestOutcomeProofs`:

* `FailuresAreRecorded` (`FailureIsRecorded`), however many visitors throw at once. `FailureInv`:
  a visitor that threw is about to claim or another one has (`ClaimedInv`); who won records
  (`RecordedInv`), and its node is one whose visitor threw (`HeldInv`); and what is stored and
  resolved agrees (`StoredInv`). A thread that claims or records has a guard, so that `pending`
  cannot be 0 and the promise is resolved after the store. It is not ordered after it: that the
  caller gets the exception cannot be proved, and `forest_last_counter` refutes it.
* `ParentsComeFirst` (`SeesWhatIsAbove`, and `NoVisitAboveFailure` of a call that is top-down),
  whatever throws: what a thread or a job is about to visit lies
  below what it has seen (`TopDownInv`), and what is seen has been visited (`SeenInv`). Only the
  queue orders a visit after the one above; the counters play no part. Bottom-up
  `NoVisitAboveFailure` is false as soon as two visitors throw (`forest_second_failure`), and
  the visibility that `LastSeesTheOthers` asks for in both directions is false without any
  (`forest_last_counter`).

`ForestCountProofs`, in both directions:

* `BalanceIsKept` (`Spec => []BalanceInv`), whatever throws. What a thread or a job is about completes a node
  (`Completing`), will report to it (`Reporting`) or is to begin some of its children
  (`Covering`), and `BalanceInv` says how many of each there are: the counter of a node is the
  number of reports to come and of its children on their way (`Open`), a node is completed by
  one item at a time and not while its counter is above zero, and a child is begun by one.
  Nothing weaker is inductive, since the last report completes the node only if no other child
  is on its way. Items are counted in all agendas and in the bag together (`Number`);
  `NumberChange` says what a step does to each number, and the arithmetic of the tree is in
  lemmas about functions (`Balance`) that know nothing of agendas.
* `CountersStayExact` (`PendingIsExact`), whatever throws: no counter of children falls below zero, and `pending`
  is the number of jobs, at every moment.
* `OneCompletesANode`, whatever throws: no two threads or jobs complete the same node, and none completes one whose
  children have not all reported.
* `OrderIsKept` (`OrderUntilFailure`). Bottom-up, `BottomInv`, as long as no visitor threw: a
  child of a node whose counter is not zero is on its way or was visited (`ReachedInv`). The
  last report finds no child on its way, by `BalanceInv`, so that who completes the node does so
  after the visits of all of them (`FitInv`), which hold for all below too (`ClosedInv`).
  Top-down it follows from `ParentsComeFirst`'s invariant.
* `EveryNodeGetsVisited` (`EveryNodeIsVisited`): a call in which no visitor throws returns a
  value, and after all visits. Bottom-up each root is on its way or was visited (`RootsInv`), and all below it
  with it (`ClosedInv`). Top-down, so is each node whose parent was visited (`ComingInv`). When
  `pending` is back at 0 no thread has a guard or an item of a node, and no counter is left:
  each node with one has a child with one, which a finite forest cannot have of all of them
  (`NoneLeft`). So all were visited (`AllVisited`).
* `OutcomesAreRight` (`OutcomeIsRight`) and `VisitsKeepOrder` (`VisitsInOrder`) put
  `FailuresAreRecorded`, `EveryNodeGetsVisited`, `OrderIsKept` and `ParentsComeFirst` together.

`OrderIsKept` and `EveryNodeGetsVisited` say what the code's counters do achieve, an order of events in the one order that
read-modify-writes of an atomic have. They do not say that the writes of one visitor can be
read by the next, which is false (`forest_last_counter`).

### FixedLag

`FixedLagProofs`: `TheWindowIsKept` (`LagSpec => []WindowIsKept`), for every lag, every set of
calls and whatever ISAM2 does with factors and tree. The ASSUMEs: an integer lag of at least
zero, finitely many timestamps in a call, and nobody else who changes the ISAM2 of a smoother.
`WindowIsKept` says nothing of the steps inside a call, so it is not inductive. The invariant
says it there of all variables but those that the call is going to remove (`Going`): they may
have lost their values (`Reap`) or be about to (`Finish`), while their timestamps stay until
the end. Variables that ISAM2's update drops for want of factors leave both maps at once.

### Only model-checked

* `NothingLeftBehind`, whose workloads the refinement of `sched_use` excludes: it speaks of jobs that
  submit others, and the proofs of the waits of pools in which one thread submits all.
* Liveness (`ClientsFinish`, `ParkedOnlyWhenIdle`, `EveryCallEnds`) and the fairness in
  `PoolSpec` and `VisitSpec`: the prover has no rule for ENABLED.
* `TaskTraversal` and `TreeTraversal`: their groups and stacks are nested as deep as the tree,
  and what a task gives away is a recursive function of its children.
* The trees, the index, `ISAM2` and `Concurrent`: their properties are about products over sets,
  folds over sequences and recursive functions, which need induction over data.

## 5. Not modelled

* Numbers: linearization, errors, dense elimination, noise models, manifolds. Elimination is
  known by its contents, so singular systems and exceptions out of elimination are not
  reached; after such an exception ISAM has lost its top, for which the code promises nothing.
* Gradients, and the dogleg step that needs them. Reading `marginalizeLeaves` shows that a
  clique that is split keeps the `gradientContribution_` of all its former variables, while
  `addGradientAtZero` reads it by position from the first remaining one (`ISAM2Clique.cpp:342`;
  `ISAM2.h:324` promises the gradient of the current tree). The model has no arithmetic in
  which to state that; it is listed as a hazard.
* `predictUpdateInfo`, factors that gain keys inside ISAM2 (their slots are in
  `VariableIndex`), `BatchFixedLagSmoother`, and the incremental variants of the concurrent
  filter and smoother, which keep the protocol of the batch ones on top of ISAM2.
* Optimizers: their loops decide on floating-point errors alone. Union-find, Kruskal, keys
  and decision trees: pure sequential algorithms that unit tests cover.
* A job that waits for the pool it runs in, and pools smaller than the number of jobs that
  wait for others: both deadlock, and the callers avoid them (`testTaskScheduler.cpp:28`).
* `addClique`, `insertRoot`, used where trees are copied or read back; partial elimination.
* Printing, serialization, timing, wrappers, build files and vendored code.
