----------------------------- MODULE SchedulerInv -----------------------------
(***************************************************************************)
(* The inductive invariant behind ExactlyOnce: where each job can be, as   *)
(* a function of how far the call that submits it has got.                 *)
(***************************************************************************)
EXTENDS Scheduler

IdleLabels   == {"pop", "steal", "check", "exit"}
PushLabels   == {"unlock", "addQueued", "addActive", "notify"}
SubmitLabels == {"push"} \cup PushLabels
WaitLabels   == {"readQueued", "setStop", "stopNotify", "join"}
WorkerLabels == IdleLabels \cup SubmitLabels \cup {"popped", "run", "finished", "notifyAll"}
ClientLabels == SubmitLabels \cup WaitLabels \cup {"run"}

\* Clients execute their own script and workers a job, unless they look for one;
\* a thread inside enqueueImpl still is at the call that brought it there.
ControlInv ==
  /\ WellFormed(script)
  /\ \A c \in Clients : cur[c] = c /\ pc[c] \in ClientLabels
  /\ \A w \in Workers : /\ pc[w] \in WorkerLabels
                        /\ IF pc[w] \in IdleLabels THEN cur[w] = Nobody ELSE cur[w] \in Tasks
  /\ \A c \in Codes : ip[c] \in Nat \ {0}
  /\ \A th \in Threads : pc[th] \in SubmitLabels =>
       ip[cur[th]] <= Len(script[cur[th]]) /\ Call(th).op \in Submissions

\* A job is on one call stack, once.
StackInv ==
  /\ \A v, w \in Workers : cur[v] = cur[w] /\ cur[v] # Nobody => v = w
  /\ \A t, u \in Tasks : caller[t] = caller[u] /\ caller[t] # Nobody => t = u
  /\ \A w \in Workers, t \in Tasks : cur[w] # Nobody => cur[w] # caller[t]

QueueInv ==
  /\ \A v, w \in Workers : \A i \in DOMAIN queue[v], j \in DOMAIN queue[w] :
       queue[v][i] = queue[w][j] => v = w /\ i = j
  /\ \A t \in Tasks : Queued(t) => ~Running(t) /\ outcome[t] = "pending"

\* The call that submits t has been made, at least up to the push or the inline
\* call: at c's i-th call, which c has left or in which it still is.
Issued(t) ==
  \E c \in Codes : \E i \in DOMAIN script[c] :
    /\ script[c][i].op \in Submissions /\ script[c][i].task = t
    /\ \/ i < ip[c]
       \/ i = ip[c] /\ caller[t] = c
       \/ i = ip[c] /\ \E th \in Threads : cur[th] = c /\ pc[th] \in PushLabels

Touched(t) == Queued(t) \/ Running(t) \/ outcome[t] # "pending" \/ caller[t] # Nobody

\* Nothing happens to a job before its submission: with one call site per job,
\* no job can be submitted again.
IssueInv == \A t \in Tasks : Touched(t) => Issued(t)

PlacesInv == ControlInv /\ StackInv /\ QueueInv /\ IssueInv
-----------------------------------------------------------------------------
(* The converse: a job that was submitted does not vanish. *)

\* A job with another one inline on top of it is at the call that started it.
CallerInv ==
  \A t, u \in Tasks : caller[t] = u =>
    /\ ip[u] <= Len(script[u])
    /\ script[u][ip[u]].op = "inline" /\ script[u][ip[u]].task = t
    /\ outcome[u] = "pending"

\* A job has an outcome from its end on, while its worker still has to count it.
OutcomeInv ==
  \A w \in Workers : cur[w] # Nobody =>
    (outcome[cur[w]] = "pending" <=> pc[w] \notin {"finished", "notifyAll"})

NoJobIsLost ==
  \A t \in Tasks : Issued(t) => Queued(t) \/ Running(t) \/ outcome[t] # "pending"

\* A client blocks in waitForAllTasks and in the destructor alone.
BlockedInv ==
  \A c \in Clients :
    /\ c \in waitSet \/ pc[c] \in WaitLabels =>
         ip[c] <= Len(script[c]) /\ Call(c).op \in {"waitAll", "destroy"}
    /\ c \in waitSet => pc[c] = "run"

KeptInv == BlockedInv /\ CallerInv /\ OutcomeInv /\ NoJobIsLost
-----------------------------------------------------------------------------
(* Programs for which waitForAllTasks and the wakeups keep their promises.     *)

\* One thread hands out all the work, apart from what jobs start inline: the
\* findings show why a second one matters.
OneSubmitter(s) ==
  /\ \A c, d \in Clients : c = d
  /\ \A t \in Tasks : \A i \in DOMAIN s[t] : s[t][i].op \notin {"schedule", "enqueue"}

\* No other thread waits for the pool while a client submits to it.
NoBystander(s) ==
  \A c, d \in Clients : \A i \in DOMAIN s[c], j \in DOMAIN s[d] :
    s[c][i].op \in {"waitAll", "destroy"} /\ s[d][j].op \in Submissions => c = d

\* What the one submitter knows once it has seen the counters at zero.
QuietInv ==
  /\ OneSubmitter(script)
  /\ \A w \in Workers : pc[w] \notin SubmitLabels
  /\ stop \/ (\E c \in Clients : pc[c] \in WaitLabels) =>
       /\ InFlight = {}
       /\ \A c \in Clients : pc[c] \notin SubmitLabels
=============================================================================
