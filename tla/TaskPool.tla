------------------------------- MODULE TaskPool -------------------------------
(***************************************************************************)
(* What a Scheduler promises its users, without queues, counters, locks or *)
(* threads: a job that is accepted runs once and ends, and the pool closes *)
(* only when it is idle (the comments of schedule, enqueue and ~Scheduler  *)
(* in gtsam/base/Scheduler.h).                                             *)
(***************************************************************************)
CONSTANT Tasks

VARIABLES job,   \* how far each job has got
          open   \* the pool accepts jobs

vars == <<job, open>>

TypeOK ==
  /\ job \in [Tasks -> {"new", "queued", "running", "ended", "refused"}]
  /\ open \in BOOLEAN

Init == job = [t \in Tasks |-> "new"] /\ open = TRUE

Moves(t, from, to) == job[t] = from /\ job' = [job EXCEPT ![t] = to]

Accept(t)    == open /\ Moves(t, "new", "queued") /\ UNCHANGED open
RunAtOnce(t) == open /\ Moves(t, "new", "running") /\ UNCHANGED open
Refuse(t)    == ~open /\ Moves(t, "new", "refused") /\ UNCHANGED open
Start(t)     == Moves(t, "queued", "running") /\ UNCHANGED open
End(t)       == Moves(t, "running", "ended") /\ UNCHANGED open

Close ==
  /\ \A t \in Tasks : job[t] \notin {"queued", "running"}
  /\ open' = FALSE
  /\ UNCHANGED job

Next ==
  \/ \E t \in Tasks : Accept(t) \/ RunAtOnce(t) \/ Refuse(t) \/ Start(t) \/ End(t)
  \/ Close

Spec == Init /\ [][Next]_vars /\ \A t \in Tasks : WF_vars(Start(t)) /\ WF_vars(End(t))
=============================================================================
