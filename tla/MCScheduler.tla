----------------------------- MODULE MCScheduler -----------------------------
(* Small instances of Scheduler: the workloads of its tests and its callers. *)
EXTENDS SchedulerInv, TLC

CONSTANTS c1, c2, t1, t2, t3

Do(op, t) == [op |-> op, task |-> t]
WaitAll   == [op |-> "waitAll"]
Destroy   == [op |-> "destroy"]

\* The program in which the codes of f run their scripts and the others none.
Program(f) == [c \in Codes |-> IF c \in DOMAIN f THEN f[c] ELSE <<>>]

\* Jobs that only compute (EnqueueFireAndForget, PCGSolver).
Flat == Program(c1 :> <<Do("enqueue", t1), Do("enqueue", t2), Do("schedule", t3),
                        Do("await", t3), WaitAll, Destroy>>)
\* A job that continues inline (EnqueueOrRunInlineOnWorker, ForestTraversal).
Inline == Program(c1 :> <<Do("inline", t1), Do("enqueue", t2), WaitAll, Destroy>>
               @@ t1 :> <<Do("inline", t3)>>)
\* A job that waits for two others (ReturnValueComposition).
Compose == Program(c1 :> <<Do("schedule", t1), Do("schedule", t2), Do("schedule", t3),
                           Do("await", t3), Destroy>>
                @@ t3 :> <<Do("await", t1), Do("await", t2)>>)
\* A job that enqueues others (ForestTraversal's topDownAsync).
Nested == Program(c1 :> <<Do("enqueue", t1), WaitAll, Destroy>>
               @@ t1 :> <<Do("enqueue", t2), Do("enqueue", t3)>>)
\* Jobs whose submissions the destructor can overtake (SchedulerEarlyReturn.cfg
\* shows how).
Late == Program(c1 :> <<Do("enqueue", t1), Destroy>>
             @@ t1 :> <<Do("schedule", t2), Do("schedule", t3)>>)
Chained == Program(c1 :> <<Do("enqueue", t1), Destroy>>
                @@ t1 :> <<Do("schedule", t2)>>
                @@ t2 :> <<Do("inline", t3)>>)
\* Two clients, one of which waits for the pool.
TwoClients == Program(c1 :> <<Do("enqueue", t1), WaitAll>>
                   @@ c2 :> <<Do("schedule", t2), Do("await", t2)>>)

FlatScripts   == {Flat, Inline, Compose}
NestedScripts == {Nested}
StoppingScripts == {Late, Chained}
ClientScripts == {TwoClients}
AllScripts    == FlatScripts \cup NestedScripts \cup StoppingScripts

Priorities == (t1 :> 1 @@ t2 :> 0 @@ t3 :> 0)
=============================================================================
