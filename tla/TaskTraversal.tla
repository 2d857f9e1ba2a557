----------------------------- MODULE TaskTraversal -----------------------------
(***************************************************************************)
(* The parallel traversals of gtsam/base/treeTraversal with oneTBB:        *)
(* PreOrderTask (a pre-order and a post-order visitor) and PostOrderTask   *)
(* (a post-order visitor, with batches of leaves).                         *)
(*                                                                         *)
(* Tasks belong to a task group: that of the whole call, or the one on the *)
(* stack of the task of a node (ctg), named after that node.  A thread's   *)
(* agenda is what is left of the tasks it is in, each up to its "end"; a   *)
(* thread that waits for a group runs other tasks meanwhile.               *)
(***************************************************************************)
EXTENDS Integers, Sequences, FiniteSets, SequencesExt

CONSTANTS
  TbbThreads,  \* the threads of TBB, the caller among them
  Caller,
  Nodes,
  Runs,        \* the forests and arguments to consider
  Root         \* the group of the whole call

\* A forest, the visits that may throw, which visitors there are, and the arguments.
Run == [roots : Seq(Nodes), kids : [Nodes -> Seq(Nodes)], size : [Nodes -> Int],
        throws : SUBSET ({"pre", "post"} \X Nodes), mode : {"prePost", "post"},
        threshold : Int, budget : Nat]

\* Of the constants; Traversals assumes it.
Assumptions == Caller \in TbbThreads /\ Root \notin Nodes /\ Runs \subseteq Run
-----------------------------------------------------------------------------
VARIABLES
  run,     \* the forest and the arguments
  agenda,  \* what each thread has to do
  tasks,   \* the tasks that were given to a group and not taken
  stopped, \* the groups that were cancelled
  thrown,  \* for each group the first visit of its tasks that threw, or none
  pre,     \* the nodes whose pre-order visitor returned
  post,    \* the nodes whose post-order visitor returned
  failed,  \* the visits that threw
  result   \* how the call ended

vars == <<run, agenda, tasks, stopped, thrown, pre, post, failed, result>>

Groups      == Nodes \cup {Root}
NoVisit     == <<"none", Root>>
Kids(n)     == run.kids[n]
IsLeaf(n)   == Kids(n) = <<>>
Threshold(n) == run.size[n] >= run.threshold
Contribution(n) == IF run.size[n] > 0 THEN run.size[n] ELSE 1
Total(n, lo, hi) ==
  SumFunctionOnSet([i \in DOMAIN Kids(n) |-> Contribution(Kids(n)[i])], lo .. (hi - 1))

\* The largest batch of adjacent leaves that starts at lo and fits the budget.
BatchEnd(n, lo) ==
  Max({hi \in (lo + 1) .. (Len(Kids(n)) + 1) :
        /\ \A i \in lo .. (hi - 1) : IsLeaf(Kids(n)[i])
        /\ hi = lo + 1 \/ Total(n, lo, hi) <= run.budget})

Do(op, n)           == [op |-> op, node |-> n]
NodeTask(n, g, new) == [op |-> "node", node |-> n, group |-> g, new |-> new]
PostTask(n, g)      == [op |-> "post", node |-> n, group |-> g]
BatchTask(n, lo, hi) == [op |-> "batch", node |-> n, group |-> n, lo |-> lo, hi |-> hi]
End(g)              == [op |-> "end", group |-> g]
Give(task)          == [op |-> "give", task |-> task]

\* The visits of n and its subtrees by one thread (processNodeRecursively).
Recursion(n) ==
  LET Visits[m \in Nodes] ==
        FlattenSeq([i \in DOMAIN Kids(m) |->
          (IF run.mode = "prePost" THEN <<Do("pre", Kids(m)[i])>> ELSE <<>>) \o Visits[Kids(m)[i]]])
        \o <<Do("visit", m)>>
  IN  Visits[n]

\* What the loops over roots and children give to the group g.
Spawn(n, g, new) ==
  (IF run.mode = "prePost" THEN <<Do("pre", n)>> ELSE <<>>) \o <<Give(NodeTask(n, g, new))>>
Children(n) ==
  LET From[lo \in 1 .. (Len(Kids(n)) + 1)] ==
        IF lo > Len(Kids(n)) THEN <<>>
        ELSE LET child == Kids(n)[lo]
                 batch == run.mode = "post" /\ run.budget > 0 /\ IsLeaf(child)
             IN  IF batch THEN <<Give(BatchTask(n, lo, BatchEnd(n, lo)))>> \o From[BatchEnd(n, lo)]
                 ELSE Spawn(child, n, Threshold(n)) \o From[lo + 1]
  IN  From[1]

\* The rest of the task of an inner node: it is given to its group again for
\* the visit when all its children have ended.
\* MUTANT: the children are not waited for.
FaultyContinue(n, g) == <<Give(PostTask(n, g)), Do("wait", n)>>
Continue(n, g) == <<Do("wait", n), Give(PostTask(n, g))>>

\* What a task does.
Body(task) ==
  LET n == task.node IN
  CASE task.op = "post"  -> <<Do("visit", n)>>
    [] task.op = "batch" -> [i \in 1 .. (task.hi - task.lo) |-> Do("visit", Kids(n)[task.lo + i - 1])]
    [] task.op = "node"  -> IF ~task.new THEN Recursion(n)
                            ELSE IF IsLeaf(n) THEN <<Do("visit", n)>>
                            ELSE Children(n) \o Continue(n, task.group)

\* CreateRootTask: run_and_wait, in the thread of the caller.
Init ==
  /\ run \in Runs
  /\ agenda = [th \in TbbThreads |-> IF th = Caller THEN
       FlattenSeq([i \in DOMAIN run.roots |-> Spawn(run.roots[i], Root, TRUE)])
         \o <<End(Root), Do("wait", Root), Do("return", Root)>> ELSE <<>>]
  /\ tasks = {}
  /\ stopped = {}
  /\ thrown = [g \in Groups |-> NoVisit]
  /\ pre = {}
  /\ post = {}
  /\ failed = {}
  /\ result = <<"running">>
-----------------------------------------------------------------------------
At(th, op)  == agenda[th] # <<>> /\ Head(agenda[th]).op = op
Item(th)    == Head(agenda[th])
Replace(th, items) == agenda' = [agenda EXCEPT ![th] = items \o Tail(agenda[th])]

\* Tasks of g have not ended.
Busy(g) ==
  \/ \E task \in tasks : task.group = g
  \/ \E th \in TbbThreads : End(g) \in ToSet(agenda[th])

\* A thread is out of work, or waits for tasks that have not ended.
Free(th) ==
  \/ agenda[th] = <<>>
  \/ /\ At(th, "wait") \/ At(th, "drain")
     /\ Busy(Item(th).node)

\* The group of the task that has the group n on its stack.
Owner(g, n) == \E th \in TbbThreads : \E i, j \in DOMAIN agenda[th] :
  /\ i < j /\ agenda[th][i] = Do("wait", n) /\ agenda[th][j] = End(g)
  /\ \A k \in (i + 1) .. (j - 1) : agenda[th][k].op # "end"

\* A group is cancelled with those above it.
Cancelled(g) ==
  LET Stops[h \in Groups] == h \in stopped \/ \E f \in Groups : Owner(f, h) /\ Stops[f]
  IN  Stops[g]
-----------------------------------------------------------------------------
\* A thread takes a task; those of a cancelled group end at once.
Take(th) ==
  /\ Free(th)
  /\ \E task \in tasks :
       /\ tasks' = tasks \ {task}
       /\ agenda' = [agenda EXCEPT ![th] =
            (IF Cancelled(task.group) THEN <<>> ELSE Body(task)) \o <<End(task.group)>> \o @]
  /\ UNCHANGED <<run, stopped, thrown, pre, post, failed, result>>

\* task_group::run
GiveTask(th) ==
  /\ At(th, "give")
  /\ tasks' = tasks \cup {Item(th).task}
  /\ Replace(th, <<>>)
  /\ UNCHANGED <<run, stopped, thrown, pre, post, failed, result>>

\* The items of the task th is in, and those after its end.
ToEnd(th) == Min({i \in DOMAIN agenda[th] : agenda[th][i].op = "end"})

\* MUTANT: the group is destroyed while its tasks run.
FaultyUnwind(groups) == <<>>
\* ~task_group for the group on the stack, if there is one
Unwind(groups) == IF groups = {} THEN <<>> ELSE <<Do("drain", CHOOSE n \in groups : TRUE)>>

\* An exception leaves the task th is in.  A group on its stack is cancelled and
\* its tasks are waited for; then the task's own group keeps the exception.
Throw(th, visit) ==
  /\ failed' = failed \cup {visit}
  /\ LET last == ToEnd(th)
         own  == {n \in Nodes : Do("wait", n) \in ToSet(SubSeq(agenda[th], 1, last))}
     IN  /\ stopped' = stopped \cup own
         /\ agenda' = [agenda EXCEPT ![th] =
              Unwind(own) \o <<[op |-> "raise", visit |-> visit]>> \o SubSeq(@, last, Len(@))]

PreVisit(th) ==
  /\ At(th, "pre")
  /\ LET n == Item(th).node IN
     \/ /\ pre' = pre \cup {n}
        /\ Replace(th, <<>>)
        /\ UNCHANGED <<failed, stopped>>
     \/ /\ <<"pre", n>> \in run.throws
        /\ Throw(th, <<"pre", n>>)
        /\ UNCHANGED pre
  /\ UNCHANGED <<run, tasks, thrown, post, result>>

PostVisit(th) ==
  /\ At(th, "visit")
  /\ LET n == Item(th).node IN
     \/ /\ post' = post \cup {n}
        /\ Replace(th, <<>>)
        /\ UNCHANGED <<failed, stopped>>
     \/ /\ <<"post", n>> \in run.throws
        /\ Throw(th, <<"post", n>>)
        /\ UNCHANGED post
  /\ UNCHANGED <<run, tasks, thrown, pre, result>>

\* The end of a task by an exception: the first is kept and cancels the group.
Raise(th) ==
  /\ At(th, "raise")
  /\ LET g == agenda[th][2].group IN
     IF Cancelled(g) THEN UNCHANGED <<stopped, thrown>>
     ELSE /\ stopped' = stopped \cup {g}
          /\ thrown' = [thrown EXCEPT ![g] = Item(th).visit]
  /\ Replace(th, <<>>)
  /\ UNCHANGED <<run, tasks, pre, post, failed, result>>

EndTask(th) ==
  /\ At(th, "end")
  /\ Replace(th, <<>>)
  /\ UNCHANGED <<run, tasks, stopped, thrown, pre, post, failed, result>>

\* task_group::wait returns, or throws what a task of the group threw.
Waited(th) ==
  /\ At(th, "wait")
  /\ LET g == Item(th).node IN
     /\ ~Busy(g)
     /\ IF thrown[g] = NoVisit \/ g = Root THEN Replace(th, <<>>)
        ELSE agenda' = [agenda EXCEPT ![th] =
               <<[op |-> "raise", visit |-> thrown[g]]>> \o SubSeq(@, ToEnd(th), Len(@))]
  /\ UNCHANGED <<run, tasks, stopped, thrown, pre, post, failed, result>>

\* ~task_group, when the stack is unwound
Drained(th) ==
  /\ At(th, "drain")
  /\ ~Busy(Item(th).node)
  /\ Replace(th, <<>>)
  /\ UNCHANGED <<run, tasks, stopped, thrown, pre, post, failed, result>>

Return(th) ==
  /\ At(th, "return")
  /\ result' = IF thrown[Root] = NoVisit THEN <<"value">> ELSE <<"raised", thrown[Root]>>
  /\ Replace(th, <<>>)
  /\ UNCHANGED <<run, tasks, stopped, thrown, pre, post, failed>>

Step(th) ==
  \/ Take(th) \/ GiveTask(th) \/ PreVisit(th) \/ PostVisit(th) \/ Raise(th)
  \/ EndTask(th) \/ Waited(th) \/ Drained(th) \/ Return(th)

\* The call has returned.
Returned == agenda[Caller] = <<>> /\ UNCHANGED vars

Next == Returned \/ \E th \in TbbThreads : Step(th)

Spec == Init /\ [][Next]_vars

\* TBB runs its threads, and the visitors end.
FairSpec == Spec /\ \A th \in TbbThreads : WF_vars(Step(th))
-----------------------------------------------------------------------------
(* Properties *)

Visits == {"pre", "post"} \X Nodes

TypeOK ==
  /\ run \in Run
  /\ \A task \in tasks : task.op \in {"node", "post", "batch"} /\ task.group \in Groups
  /\ \A task \in tasks : task.op = "batch" => 1 <= task.lo /\ task.lo < task.hi
                                             /\ task.hi <= Len(Kids(task.node)) + 1
  /\ stopped \subseteq Groups
  /\ thrown \in [Groups -> Visits \cup {NoVisit}]
  /\ pre \subseteq Nodes /\ post \subseteq Nodes
  /\ failed \subseteq Visits
  /\ result \in {<<"running">>, <<"value">>} \cup ({"raised"} \X Visits)

\* A task uses its group, and the arguments of the call: the group of an inner node
\* is on the stack of its task, so that task is there and waits, or will, while a
\* task is in the group; and no task is left when the call has ended.
GroupsOutliveTasks ==
  /\ TypeOK
  /\ \A n \in Nodes : Busy(n) =>
       \E th \in TbbThreads : {Do("wait", n), Do("drain", n)} \cap ToSet(agenda[th]) # {}
  /\ result # <<"running">> => tasks = {} /\ \A th \in TbbThreads : agenda[th] = <<>>

\* What must come before a visit: the parent's pre-order visit; the own one and
\* the children's post-order visits.
Parents(n) == {p \in Nodes : n \in ToSet(Kids(p))}
Before(v) ==
  LET n == v[2] IN
  IF v[1] = "pre" THEN {"pre"} \X Parents(n)
  ELSE ({"post"} \X ToSet(Kids(n))) \cup (IF run.mode = "prePost" THEN {<<"pre", n>>} ELSE {})
Due == IF run.mode = "prePost" THEN Visits ELSE {"post"} \X Nodes
=============================================================================
