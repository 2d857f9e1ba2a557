------------------------------ MODULE Traversals ------------------------------
(***************************************************************************)
(* DepthFirstForestParallel, PostOrderForestParallel, and the traversals   *)
(* of ForestTraversal.h: whichever way the library was built, with the     *)
(* tasks of oneTBB, with the serial loops or on its own TaskScheduler, the *)
(* caller is promised the same (ForestVisit).                              *)
(***************************************************************************)
EXTENDS ForestTraversal

CONSTANTS
  TreeNodes, Root,                 \* for the other two traversals: Root is no node
  TbbThreads, TbbCaller, TaskRuns, \* for that with oneTBB
  Forests                          \* for the serial one

ASSUME PoolAssumption == Assumptions

VARIABLES
  build,  \* "tbb" (GTSAM_USE_TBB), "serial", or "scheduler"
  taskRun, taskAgenda, tasks, stopped, thrown, pre, post, taskFailed, taskResult,
  kids, stack, data, preOrder, postOrder, returned, clone

taskVars   == <<taskRun, taskAgenda, tasks, stopped, thrown, pre, post, taskFailed, taskResult>>
serialVars == <<kids, stack, data, preOrder, postOrder, returned, clone>>
allVars    == <<build, vars, taskVars, serialVars>>

Tbb == INSTANCE TaskTraversal WITH
  Nodes <- TreeNodes, Caller <- TbbCaller, Runs <- TaskRuns,
  run <- taskRun, agenda <- taskAgenda, failed <- taskFailed, result <- taskResult

ASSUME TbbAssumption == Tbb!Assumptions

Serial == INSTANCE TreeTraversal WITH Nodes <- TreeNodes, pre <- preOrder, post <- postOrder

\* The traversals that are not built stay as they are.
BuildInit ==
  /\ build \in {"tbb", "serial", "scheduler"}
  /\ Init        /\ (build # "scheduler" => run = CHOOSE any \in Runs : TRUE)
  /\ Tbb!Init    /\ (build # "tbb"       => taskRun = CHOOSE any \in TaskRuns : TRUE)
  /\ Serial!Init /\ (build # "serial"    => kids = CHOOSE any \in Forests : TRUE)

PoolStep(th)  == build = "scheduler" /\ Step(th) /\ UNCHANGED <<build, taskVars, serialVars>>
PoolStart(w)  == build = "scheduler" /\ Start(w) /\ UNCHANGED <<build, taskVars, serialVars>>
PoolReturned  == build = "scheduler" /\ Returned /\ UNCHANGED <<build, taskVars, serialVars>>
TaskStep(th)  == build = "tbb" /\ Tbb!Step(th) /\ UNCHANGED <<build, vars, serialVars>>
TaskReturned  == build = "tbb" /\ Tbb!Returned /\ UNCHANGED <<build, vars, serialVars>>
SerialStep    == build = "serial" /\ Serial!Next /\ UNCHANGED <<build, vars, taskVars>>

BuildNext ==
  \/ PoolReturned \/ TaskReturned \/ SerialStep
  \/ \E th \in Threads : PoolStep(th)
  \/ \E w \in Workers : PoolStart(w)
  \/ \E th \in TbbThreads : TaskStep(th)

\* The scheduler and TBB run their threads, the one thread of the serial traversal runs,
\* and the visitors end.
BuildSpec == /\ BuildInit /\ [][BuildNext]_allVars
             /\ \A th \in Threads : WF_allVars(PoolStep(th))
             /\ \A w \in Workers : WF_allVars(PoolStart(w))
             /\ \A th \in TbbThreads : WF_allVars(TaskStep(th))
             /\ WF_allVars(SerialStep)
-----------------------------------------------------------------------------
(* Properties, apart from those of ForestTraversal *)

\* The references on the stack of DepthFirstForest are to data still in dataList
\* (treeTraversal-inst.h:105), and no node is on the stack or visited twice. Then
\* dataList is empty (treeTraversal-inst.h:119), and the visits of PostOrderForest and
\* the result of CloneForest are as they should be (130, 242).
DataIsAlive == Serial!TypeOK /\ Serial!DataIsAlive /\ Serial!EndState

\* A task group is on the stack of a task until all its tasks have ended
\* (parallelTraversalTasks.h:77, 89).
GroupsOutliveTasks == Tbb!GroupsOutliveTasks

\* In all builds every visit happens once and in order, or an exception is raised
\* (treeTraversal-inst.h:51-62, ForestTraversal.h:320-337); on the scheduler, with its
\* relaxed counters, only until a visitor throws: then the call may still return, and
\* bottom-up the visitor still run above the failure.  Top-down it does not.
Visit == INSTANCE ForestVisit WITH
  overlooks <- CASE build # "scheduler"   -> {}
                 [] run.mode = "topDown"  -> {"caller"}
                 [] run.mode = "bottomUp" -> {"caller", "visitor"},
  Nodes   <- Nodes \cup Tbb!Visits,
  before  <- CASE build = "tbb"    -> [v \in Tbb!Due |-> Tbb!Before(v)]
               [] build = "serial" -> [v \in Tbb!Visits |-> Serial!Before(v)]
               [] OTHER            -> [n \in Nodes |-> Before(n)],
  visited <- CASE build = "tbb"    -> ({"pre"} \X pre) \cup ({"post"} \X post)
               [] build = "serial" -> ({"pre"} \X ToSet(preOrder)) \cup ({"post"} \X ToSet(postOrder))
               [] OTHER            -> visited,
  failed  <- CASE build = "tbb" -> taskFailed [] build = "serial" -> {} [] OTHER -> failed,
  result  <- CASE build = "tbb"    -> taskResult
               [] build = "serial" -> IF returned THEN <<"value">> ELSE <<"running">>
               [] OTHER            -> IF result \in Nodes THEN <<"raised", result>> ELSE <<result>>
VisitSpec == Visit!Spec
=============================================================================
