----------------------------- MODULE SchedulerPlaces -----------------------------
(***************************************************************************)
(* How each step of Scheduler moves the jobs between the queues and the    *)
(* call stacks, exactly; that none gets lost; and that the counters        *)
(* queuedTasks_ and activeTasks_ count the jobs in the queues and in       *)
(* flight, up to the threads that are inside an update.                    *)
(***************************************************************************)
EXTENDS SchedulerProofs

\* The steps that leave queues and stacks alone.
LEMMA SamePlaces ==
  ASSUME UNCHANGED <<queue, cur, caller>>
  PROVE  \A t \in Tasks : (Queued(t)' <=> Queued(t)) /\ (Running(t)' <=> Running(t))
BY DEF Queued, Running

LEMMA PushPlaces ==
  ASSUME Inv, NEW th \in Threads, Push(th)
  PROVE  /\ Call(th).task \in Tasks /\ ~Touched(Call(th).task)
         /\ \A t \in Tasks : /\ Queued(t)' <=> Queued(t) \/ t = Call(th).task
                             /\ Running(t)' <=> Running(t)
<1> DEFINE q == target[th]
<1>1. /\ q \in Workers
      /\ ip[cur[th]] <= Len(script[cur[th]]) /\ Call(th).op \in Submissions
  BY DEF Push, Inv, TypeOK, PlacesInv, ControlInv, SubmitLabels
<1>2. PICK s \in Tasks : s = Call(th).task /\ ~Touched(s)
  BY <1>1, Fresh DEF Push
<1>3. queue[q] \in Seq(Tasks)
  BY <1>1 DEF Inv, TypeOK
<1>4. \A w \in Workers : queue'[w] = IF w = q THEN Append(queue[q], s) ELSE queue[w]
  BY <1>1, <1>2 DEF Push, Inv, TypeOK
<1>5. /\ DOMAIN queue'[q] = DOMAIN queue[q] \cup {Len(queue[q]) + 1}
      /\ queue'[q][Len(queue[q]) + 1] = s
      /\ \A i \in DOMAIN queue[q] : queue'[q][i] = queue[q][i]
  <2>1. queue'[q] = Append(queue[q], s)
    BY <1>1, <1>4
  <2> QED BY <2>1, <1>2, <1>3, SMTT(30)
<1>6. \A t \in Tasks : Queued(t)' <=> Queued(t) \/ t = s
  BY <1>1, <1>4, <1>5 DEF Queued
<1>7. \A t \in Tasks : Running(t)' <=> Running(t)
  BY DEF Push, Running
<1> QED BY <1>2, <1>6, <1>7

LEMMA TakePlaces ==
  ASSUME Inv, NEW w \in Workers, NEW q \in Workers, NEW i \in DOMAIN queue[q],
         pc[w] \in {"pop", "steal"}, Take(w, q, i), UNCHANGED caller
  PROVE  \E s \in Tasks :
           /\ s = queue[q][i]
           /\ Queued(s) /\ ~Running(s) /\ outcome[s] = "pending" /\ cur[w] = Nobody
           /\ \A u \in Threads : cur'[u] = IF u = w THEN s ELSE cur[u]
           /\ \A t \in Tasks : /\ Queued(t)' <=> Queued(t) /\ t # s
                               /\ Running(t)' <=> Running(t) \/ t = s
<1>1. queue[q] \in Seq(Tasks) /\ w \in Threads
  BY Disjointness DEF Inv, TypeOK
<1>2. PICK s \in Tasks : s = queue[q][i]
  BY <1>1
<1>3. /\ Len(RemoveAt(queue[q], i)) = Len(queue[q]) - 1
      /\ RemoveAt(queue[q], i) \in Seq(Tasks)
      /\ \A j \in 1 .. (Len(queue[q]) - 1) :
           RemoveAt(queue[q], i)[j] = IF j < i THEN queue[q][j] ELSE queue[q][j + 1]
  BY <1>1, RemoveAtLemma
<1>4. \A v \in Workers : queue'[v] = IF v = q THEN RemoveAt(queue[q], i) ELSE queue[v]
  BY <1>3 DEF Take, Inv, TypeOK
<1>5. \A u \in Threads : cur'[u] = IF u = w THEN s ELSE cur[u]
  BY <1>1, <1>2, Disjointness DEF Take, Inv, TypeOK
<1>6. /\ cur[w] = Nobody
      /\ Queued(s) /\ ~Running(s) /\ outcome[s] = "pending"
  <2>1. Queued(s)
    BY <1>2 DEF Queued
  <2>2. cur[w] = Nobody
    BY <1>1, <1>5, CurFacts DEF IdleLabels
  <2> QED BY <2>1, <2>2 DEF Inv, PlacesInv, QueueInv
<1>7. \A v \in Workers : \A j \in DOMAIN queue[v] : queue[v][j] = s => v = q /\ j = i
  BY <1>2 DEF Inv, PlacesInv, QueueInv
<1>8. ASSUME NEW t \in Tasks, Queued(t)'
      PROVE  Queued(t) /\ t # s
  <2>1. PICK v \in Workers : \E j \in DOMAIN queue'[v] : queue'[v][j] = t
    BY <1>8 DEF Queued
  <2>2. PICK j \in DOMAIN queue'[v] : queue'[v][j] = t
    BY <2>1
  <2>3. CASE v # q
    BY <2>2, <2>3, <1>4, <1>7 DEF Queued
  <2>4. CASE v = q
    <3>1. queue'[v] = RemoveAt(queue[q], i) /\ j \in 1 .. (Len(queue[q]) - 1) /\ i \in 1 .. Len(queue[q])
      BY <2>2, <2>4, <1>1, <1>3, <1>4
    <3>2. CASE j < i
      BY <2>2, <2>4, <3>1, <3>2, <1>1, <1>3, <1>7, SMTT(30) DEF Queued
    <3>3. CASE ~(j < i)
      <4>1. queue[q][j + 1] = t /\ j + 1 \in DOMAIN queue[q] /\ j + 1 # i
        BY <2>2, <3>1, <3>3, <1>1, <1>3, SMTT(30)
      <4> QED BY <4>1, <1>7 DEF Queued
    <3> QED BY <3>2, <3>3
  <2> QED BY <2>3, <2>4
<1>9. ASSUME NEW t \in Tasks, Queued(t), t # s
      PROVE  Queued(t)'
  <2>1. PICK v \in Workers : \E j \in DOMAIN queue[v] : queue[v][j] = t
    BY <1>9 DEF Queued
  <2>2. PICK j \in DOMAIN queue[v] : queue[v][j] = t
    BY <2>1
  <2>3. CASE v # q
    BY <2>2, <2>3, <1>4 DEF Queued
  <2>4. CASE v = q
    <3>1. queue'[v] = RemoveAt(queue[q], i) /\ DOMAIN queue'[v] = 1 .. (Len(queue[q]) - 1)
          /\ j \in 1 .. Len(queue[q]) /\ i \in 1 .. Len(queue[q]) /\ j # i
      BY <2>2, <2>4, <1>1, <1>2, <1>3, <1>4, <1>9
    <3>2. CASE j < i
      BY <2>2, <2>4, <3>1, <3>2, <1>1, <1>3, SMTT(30) DEF Queued
    <3>3. CASE j > i
      <4>1. j - 1 \in DOMAIN queue'[v] /\ queue'[v][j - 1] = queue[q][(j - 1) + 1]
        BY <3>1, <3>3, <1>1, <1>3, SMTT(30)
      <4>2. (j - 1) + 1 = j
        BY <3>1
      <4> QED BY <2>2, <2>4, <4>1, <4>2 DEF Queued
    <3> QED BY <3>1, <3>2, <3>3, <1>1
  <2> QED BY <2>3, <2>4
<1>10. \A t \in Tasks : Running(t)' <=> Running(t) \/ t = s
  BY <1>1, <1>5, <1>6, Disjointness DEF Running
<1> QED BY <1>2, <1>5, <1>6, <1>8, <1>9, <1>10

LEMMA InlinePlaces ==
  ASSUME Inv, NEW w \in Workers, RunInline(w)
  PROVE  \E s, c \in Tasks :
           /\ s = Call(w).task /\ ~Issued(s) /\ ~Touched(s)
           /\ c = cur[w] /\ c # s /\ Running(c)
           /\ ip[c] \in DOMAIN script[c] /\ script[c][ip[c]] = Call(w)
           /\ \A u \in Threads : cur'[u] = IF u = w THEN s ELSE cur[u]
           /\ \A t \in Tasks : caller'[t] = IF t = s THEN c ELSE caller[t]
           /\ \A t \in Tasks : /\ Queued(t)' <=> Queued(t)
                               /\ Running(t)' <=> Running(t) \/ t = s
<1>1. PICK c \in Tasks : c = cur[w] /\ ip[c] <= Len(script[c]) /\ script[c][ip[c]] = Call(w)
  BY CurFacts, Disjointness DEF RunInline, Ready, IdleLabels, Call
<1>2. w \in Threads /\ pc[w] = "run" /\ Call(w).op \in Submissions
  BY Disjointness DEF RunInline, Ready, Submissions
<1>3. PICK s \in Tasks : s = Call(w).task /\ ~Issued(s) /\ ~Touched(s)
  BY <1>1, <1>2, Fresh
<1>4. /\ \A u \in Threads : cur'[u] = IF u = w THEN s ELSE cur[u]
      /\ \A t \in Tasks : caller'[t] = IF t = s THEN c ELSE caller[t]
      /\ UNCHANGED queue
  BY <1>1, <1>2, <1>3, Disjointness, ZenonT(60) DEF RunInline, Inv, TypeOK, queues
<1>5. Running(c) /\ c # s
  BY <1>1, <1>3, Disjointness DEF Running, Touched
<1>6. ip[c] \in DOMAIN script[c]
  BY <1>1, Disjointness DEF Inv, PlacesInv, ControlInv, TypeOK
<1>7. \A t \in Tasks : Queued(t)' <=> Queued(t)
  BY <1>4 DEF Queued
<1>8. \A t \in Tasks : Running(t)' <=> Running(t) \/ t = s
  <2>1. \A t \in Tasks : Running(t)' => Running(t) \/ t = s
    BY <1>1, <1>4, <1>5, Disjointness DEF Running
  <2>2. Running(s)'
    BY <1>2, <1>4, Disjointness DEF Running
  <2>3. Running(c)'
    BY <1>4 DEF Running
  <2>4. ASSUME NEW t \in Tasks, Running(t), t # c
        PROVE  Running(t)'
    <3>1. CASE \E v \in Workers : cur[v] = t
      <4>1. PICK v \in Workers : cur[v] = t
        BY <3>1
      <4>2. cur'[v] = t
        BY <4>1, <2>4, <1>1, <1>4, Disjointness
      <4> QED BY <4>2 DEF Running
    <3>2. CASE \E u \in Tasks : caller[u] = t
      <4>1. PICK u \in Tasks : caller[u] = t
        BY <3>2
      <4>2. u # s
        BY <4>1, <1>3, Disjointness DEF Touched
      <4> QED BY <4>1, <4>2, <1>4 DEF Running
    <3> QED BY <2>4, <3>1, <3>2 DEF Running
  <2> QED BY <2>1, <2>2, <2>3, <2>4
<1> QED BY <1>1, <1>3, <1>4, <1>5, <1>6, <1>7, <1>8

LEMMA LeavePlaces ==
  ASSUME Inv, NEW w \in Workers, pc[w] \in {"finished", "notifyAll"}, Leave(w), UNCHANGED queue
  PROVE  \E s \in Tasks, up \in Tasks \cup {Nobody} :
           /\ s = cur[w] /\ up = caller[s] /\ Running(s) /\ s # up
           /\ \A u \in Threads : cur'[u] = IF u = w THEN up ELSE cur[u]
           /\ \A t \in Tasks : caller'[t] = IF t = s THEN Nobody ELSE caller[t]
           /\ \A d \in Codes : ip'[d] = IF d = up THEN ip[d] + 1 ELSE ip[d]
           /\ \A u \in Threads : pc'[u] = IF u = w THEN (IF up = Nobody THEN "pop" ELSE "run") ELSE pc[u]
           /\ \A u \in Threads : cur[u] # Nobody => cur[u] # up
           /\ \A t \in Tasks : /\ Queued(t)' <=> Queued(t)
                               /\ Running(t)' <=> Running(t) /\ t # s
<1>1. PICK s \in Tasks : s = cur[w]
  BY CurFacts, Disjointness DEF IdleLabels
<1>2. PICK up \in Tasks \cup {Nobody} : up = caller[s]
  BY DEF Inv, TypeOK
<1>3. w \in Threads /\ Codes = Clients \cup Tasks
  BY Disjointness
<1>4. /\ \A u \in Threads : cur'[u] = IF u = w THEN up ELSE cur[u]
      /\ \A t \in Tasks : caller'[t] = IF t = s THEN Nobody ELSE caller[t]
      /\ \A d \in Codes : ip'[d] = IF d = up THEN ip[d] + 1 ELSE ip[d]
      /\ \A u \in Threads : pc'[u] = IF u = w THEN (IF up = Nobody THEN "pop" ELSE "run") ELSE pc[u]
  BY <1>1, <1>2, <1>3, Disjointness DEF Leave, Goto, Inv, TypeOK
<1>5. \A u \in Threads : cur[u] # Nobody => cur[u] # up
  BY <1>1, <1>2, Disjointness DEF Inv, PlacesInv, ControlInv, StackInv
<1>6. Running(s) /\ s # up
  BY <1>1, <1>3, <1>5, Disjointness DEF Running
<1>7. \A t \in Tasks : Queued(t)' <=> Queued(t)
  BY DEF Queued
<1>8. ASSUME NEW t \in Tasks, Running(t)'
      PROVE  Running(t) /\ t # s
  <2>1. Running(t)
    BY <1>8, <1>1, <1>2, <1>4, Disjointness DEF Running
  <2>2. \A v \in Workers : cur'[v] # s
    BY <1>1, <1>3, <1>4, <1>6, Disjointness DEF Inv, PlacesInv, StackInv
  <2>3. \A u \in Tasks : caller'[u] # s
    BY <1>1, <1>4, Disjointness DEF Inv, PlacesInv, StackInv
  <2> QED BY <1>8, <2>1, <2>2, <2>3 DEF Running
<1>9. ASSUME NEW t \in Tasks, Running(t), t # s
      PROVE  Running(t)'
  <2>1. CASE \E v \in Workers : cur[v] = t
    BY <2>1, <1>1, <1>4, <1>9, Disjointness DEF Running
  <2>2. CASE \E u \in Tasks : caller[u] = t
    <3>1. PICK u \in Tasks : caller[u] = t
      BY <2>2
    <3>2. CASE u = s
      <4>1. cur'[w] = t
        BY <3>1, <3>2, <1>2, <1>3, <1>4
      <4> QED BY <4>1 DEF Running
    <3>3. CASE u # s
      BY <3>1, <3>3, <1>4 DEF Running
    <3> QED BY <3>2, <3>3
  <2> QED BY <1>9, <2>1, <2>2 DEF Running
<1> QED BY <1>1, <1>2, <1>4, <1>5, <1>6, <1>7, <1>8, <1>9
-----------------------------------------------------------------------------
(* KeptInv: callers wait at their call, outcomes come with the end, nothing is lost. *)

Ended == {"finished", "notifyAll"}

\* A step that moves no code past a submission issues no job.
LEMMA NothingIssued ==
  ASSUME Inv, UNCHANGED <<script, ip>>,
         \A t, u \in Tasks : caller'[t] = u => caller[t] = u,
         \A t \in Tasks : caller'[t] = caller[t] \/ caller'[t] = Nobody,
         \A th \in Threads : pc'[th] \in PushLabels => pc[th] \in PushLabels /\ cur'[th] = cur[th]
  PROVE  \A t \in Tasks : Issued(t)' => Issued(t)
<1> SUFFICES ASSUME NEW t \in Tasks, Issued(t)'
             PROVE  Issued(t)
  OBVIOUS
<1>1. PICK d \in Codes : \E i \in DOMAIN script[d] :
        /\ script[d][i].op \in Submissions /\ script[d][i].task = t
        /\ \/ i < ip[d]
           \/ i = ip[d] /\ caller'[t] = d
           \/ i = ip[d] /\ \E u \in Threads : cur'[u] = d /\ pc'[u] \in PushLabels
  BY DEF Issued
<1>2. d # Nobody
  BY Disjointness
<1> QED BY <1>1, <1>2 DEF Issued

\* The parts of KeptInv that speak of jobs.
JobsKept == CallerInv /\ OutcomeInv /\ NoJobIsLost

LEMMA MoveKeepsKept ==
  ASSUME Inv, JobsKept, NEW th \in Threads, NEW l, Goto(th, l),
         l \in PushLabels => pc[th] \in PushLabels,
         th \in Workers => (l \in Ended <=> pc[th] \in Ended),
         UNCHANGED <<script, queue, cur, caller, ip, outcome>>
  PROVE  JobsKept'
<1>1. \A u \in Threads : pc'[u] = IF u = th THEN l ELSE pc[u]
  BY DEF Inv, TypeOK, Goto
<1>2. CallerInv'
  BY DEF JobsKept, CallerInv
<1>3. OutcomeInv'
  BY <1>1, Disjointness DEF JobsKept, OutcomeInv, Ended
<1>4. \A t \in Tasks : Issued(t)' => Issued(t)
  BY <1>1, NothingIssued
<1>5. NoJobIsLost'
  BY <1>4, SamePlaces DEF JobsKept, NoJobIsLost
<1> QED BY <1>2, <1>3, <1>5 DEF JobsKept

\* A call returns: it was no submission, its job is in a queue, or it was refused.
LEMMA ReturnKeepsKept ==
  ASSUME Inv, JobsKept, NEW th \in Threads, pc[th] \notin IdleLabels \cup Ended, Return(th),
         UNCHANGED <<script, queue>>,
         ip[cur[th]] <= Len(script[cur[th]]),
         \/ UNCHANGED outcome /\ (Call(th).op \notin Submissions \/ pc[th] \in PushLabels)
         \/ /\ Ready(th) /\ Call(th).op \in Submissions
            /\ outcome' = [outcome EXCEPT ![Call(th).task] = "dropped"]
  PROVE  JobsKept'
<1> DEFINE c == cur[th]
<1>1. /\ c \in Codes /\ c # Nobody /\ (th \in Workers => c \in Tasks)
      /\ \A u \in Threads : cur[u] = c => u = th
      /\ \A t \in Tasks : caller[t] # c
  BY CurFacts, Disjointness
<1>2. /\ \A u \in Threads : pc'[u] = IF u = th THEN "run" ELSE pc[u]
      /\ \A d \in Codes : ip'[d] = IF d = c THEN ip[d] + 1 ELSE ip[d]
      /\ cur' = cur /\ caller' = caller
  BY <1>1 DEF Inv, TypeOK, Return, Goto
<1>3. ip[c] \in DOMAIN script[c] /\ script[c][ip[c]] = Call(th) /\ \A d \in Codes : ip[d] \in Nat
  BY <1>1 DEF Inv, PlacesInv, ControlInv, TypeOK, Call
\* The only job whose submission may end here.
<1>4. ASSUME NEW t \in Tasks, Issued(t)', ~Issued(t)
      PROVE  Call(th).op \in Submissions /\ t = Call(th).task /\ pc[th] \notin PushLabels
  <2>1. PICK d \in Codes : \E i \in DOMAIN script[d] :
          /\ script[d][i].op \in Submissions /\ script[d][i].task = t
          /\ \/ i < ip'[d]
             \/ i = ip'[d] /\ caller[t] = d
             \/ i = ip'[d] /\ \E u \in Threads : cur[u] = d /\ pc'[u] \in PushLabels
    BY <1>2, <1>4 DEF Issued
  <2>2. PICK i \in DOMAIN script[d] :
          /\ script[d][i].op \in Submissions /\ script[d][i].task = t
          /\ \/ i < ip'[d]
             \/ i = ip'[d] /\ caller[t] = d
             \/ i = ip'[d] /\ \E u \in Threads : cur[u] = d /\ pc'[u] \in PushLabels
    BY <2>1
  <2>3. CASE d # c
    <3>1. ip'[d] = ip[d] /\ \A u \in Threads : cur[u] = d => pc'[u] = pc[u]
      BY <2>3, <1>2
    <3> QED BY <2>2, <3>1, <1>4 DEF Issued
  <2>4. CASE d = c
    <3>1. i < ip[c] + 1
      BY <2>2, <2>4, <1>1, <1>2 DEF PushLabels
    <3>2. i \in Nat
      BY <2>4, <1>1, <1>3 DEF Inv, TypeOK
    <3>3. i = ip[c]
      <4>1. ~(i < ip[c])
        BY <2>2, <2>4, <1>4 DEF Issued
      <4> QED BY <3>1, <3>2, <4>1, <1>1, <1>3
    <3>4. pc[th] \notin PushLabels
      BY <2>2, <2>4, <3>3, <1>4 DEF Issued
    <3> QED BY <2>2, <2>4, <3>3, <3>4, <1>3
  <2> QED BY <2>3, <2>4
<1>5. \A u \in Workers : cur[u] # Nobody => (pc'[u] \notin Ended <=> pc[u] \notin Ended)
  BY <1>2, Disjointness DEF Ended
<1>6. CASE UNCHANGED outcome /\ (Call(th).op \notin Submissions \/ pc[th] \in PushLabels)
  <2>1. CallerInv'
    <3> SUFFICES ASSUME NEW t \in Tasks, NEW u \in Tasks, caller[t] = u
                 PROVE  /\ ip'[u] <= Len(script[u])
                        /\ script[u][ip'[u]].op = "inline" /\ script[u][ip'[u]].task = t
                        /\ outcome'[u] = "pending"
      BY <1>2 DEF CallerInv
    <3>1. ip'[u] = ip[u]
      BY <1>1, <1>2, Disjointness
    <3> QED BY <3>1, <1>6 DEF JobsKept, CallerInv
  <2>2. OutcomeInv'
    BY <1>2, <1>5, <1>6 DEF JobsKept, OutcomeInv, Ended
  <2>3. NoJobIsLost'
    BY <1>2, <1>4, <1>6, SamePlaces DEF JobsKept, NoJobIsLost
  <2> QED BY <2>1, <2>2, <2>3 DEF JobsKept
<1>7. CASE /\ Ready(th) /\ Call(th).op \in Submissions
           /\ outcome' = [outcome EXCEPT ![Call(th).task] = "dropped"]
  <2>1. PICK s \in Tasks : s = Call(th).task /\ ~Touched(s)
    BY <1>7, Fresh DEF Ready
  <2>2. \A t \in Tasks : outcome'[t] = IF t = s THEN "dropped" ELSE outcome[t]
    BY <1>7, <2>1 DEF Inv, TypeOK
  <2>3. CallerInv'
    <3> SUFFICES ASSUME NEW t \in Tasks, NEW u \in Tasks, caller[t] = u
                 PROVE  /\ ip'[u] <= Len(script[u])
                        /\ script[u][ip'[u]].op = "inline" /\ script[u][ip'[u]].task = t
                        /\ outcome'[u] = "pending"
      BY <1>2 DEF CallerInv
    <3>1. ip'[u] = ip[u]
      BY <1>1, <1>2, Disjointness
    <3>2. u # s
      BY <2>1 DEF Touched, Running
    <3> QED BY <3>1, <3>2, <2>2 DEF JobsKept, CallerInv
  <2>4. OutcomeInv'
    <3> SUFFICES ASSUME NEW w \in Workers, cur[w] # Nobody
                 PROVE  outcome'[cur[w]] = "pending" <=> pc'[w] \notin Ended
      BY <1>2 DEF OutcomeInv, Ended
    <3>1. cur[w] \in Tasks /\ cur[w] # s
      BY <2>1 DEF Touched, Running, Inv, PlacesInv, ControlInv
    <3> QED BY <3>1, <1>5, <2>2 DEF JobsKept, OutcomeInv, Ended
  <2>5. NoJobIsLost'
    BY <1>2, <1>4, <2>1, <2>2, SamePlaces DEF JobsKept, NoJobIsLost
  <2> QED BY <2>3, <2>4, <2>5 DEF JobsKept
<1> QED BY <1>6, <1>7

LEMMA PushKeepsKept ==
  ASSUME Inv, JobsKept, NEW th \in Threads, Push(th)
  PROVE  JobsKept'
<1> DEFINE s == Call(th).task
           c == cur[th]
<1>1. /\ s \in Tasks /\ ~Touched(s)
      /\ \A t \in Tasks : (Queued(t)' <=> Queued(t) \/ t = s) /\ (Running(t)' <=> Running(t))
  BY PushPlaces
<1>2. /\ \A u \in Threads : pc'[u] = IF u = th THEN "unlock" ELSE pc[u]
      /\ UNCHANGED <<script, cur, caller, ip, outcome>>
  BY DEF Push, Goto, Inv, TypeOK
<1>3. CallerInv'
  BY <1>2 DEF JobsKept, CallerInv
<1>4. OutcomeInv'
  BY <1>2, Disjointness DEF JobsKept, OutcomeInv, Push
<1>5. ASSUME NEW t \in Tasks, Issued(t)'
      PROVE  Issued(t) \/ t = s
  <2>1. PICK d \in Codes : \E i \in DOMAIN script[d] :
          /\ script[d][i].op \in Submissions /\ script[d][i].task = t
          /\ \/ i < ip[d]
             \/ i = ip[d] /\ caller[t] = d
             \/ i = ip[d] /\ \E u \in Threads : cur[u] = d /\ pc'[u] \in PushLabels
    BY <1>2, <1>5 DEF Issued
  <2> QED BY <2>1, <1>2 DEF Issued, Call
<1>6. NoJobIsLost'
  BY <1>1, <1>2, <1>5 DEF JobsKept, NoJobIsLost
<1> QED BY <1>3, <1>4, <1>6 DEF JobsKept

LEMMA TakeKeepsKept ==
  ASSUME Inv, JobsKept, NEW w \in Workers, NEW q \in Workers, NEW i \in DOMAIN queue[q],
         pc[w] \in {"pop", "steal"}, Take(w, q, i),
         UNCHANGED <<script, caller, ip, outcome>>
  PROVE  JobsKept'
<1>1. PICK s \in Tasks :
        /\ outcome[s] = "pending"
        /\ \A u \in Threads : cur'[u] = IF u = w THEN s ELSE cur[u]
        /\ \A t \in Tasks : (Queued(t)' <=> Queued(t) /\ t # s) /\ (Running(t)' <=> Running(t) \/ t = s)
  BY TakePlaces
<1>2. w \in Threads /\ \A u \in Threads : pc'[u] = IF u = w THEN "popped" ELSE pc[u]
  BY Disjointness DEF Take, Goto, Inv, TypeOK
<1>3. CallerInv'
  BY DEF JobsKept, CallerInv
<1>4. OutcomeInv'
  BY <1>1, <1>2, Disjointness DEF JobsKept, OutcomeInv
<1>5. \A t \in Tasks : Issued(t)' => Issued(t)
  BY <1>1, <1>2, NothingIssued DEF PushLabels
<1>6. NoJobIsLost'
  BY <1>1, <1>5 DEF JobsKept, NoJobIsLost
<1> QED BY <1>3, <1>4, <1>6 DEF JobsKept

LEMMA InlineKeepsKept ==
  ASSUME Inv, JobsKept, NEW w \in Workers, RunInline(w)
  PROVE  JobsKept'
<1>1. PICK s, c \in Tasks :
        /\ s = Call(w).task /\ ~Issued(s) /\ ~Touched(s)
        /\ c = cur[w] /\ c # s
        /\ ip[c] \in DOMAIN script[c] /\ script[c][ip[c]] = Call(w)
        /\ \A u \in Threads : cur'[u] = IF u = w THEN s ELSE cur[u]
        /\ \A t \in Tasks : caller'[t] = IF t = s THEN c ELSE caller[t]
        /\ \A t \in Tasks : (Queued(t)' <=> Queued(t)) /\ (Running(t)' <=> Running(t) \/ t = s)
  BY InlinePlaces
<1>2. /\ w \in Threads /\ pc[w] = "run" /\ Call(w).op = "inline"
      /\ ip[c] <= Len(script[c])
      /\ UNCHANGED <<script, pc, ip, outcome>>
  BY <1>1, Disjointness DEF RunInline, Ready
<1>3. outcome[c] = "pending" /\ outcome[s] = "pending"
  BY <1>1, <1>2, Disjointness DEF JobsKept, OutcomeInv, Touched
<1>4. CallerInv'
  <2> SUFFICES ASSUME NEW t \in Tasks, NEW u \in Tasks, caller'[t] = u
               PROVE  /\ ip[u] <= Len(script[u])
                      /\ script[u][ip[u]].op = "inline" /\ script[u][ip[u]].task = t
                      /\ outcome[u] = "pending"
    BY <1>2 DEF CallerInv
  <2>1. CASE t = s
    BY <2>1, <1>1, <1>2, <1>3
  <2>2. CASE t # s
    BY <2>2, <1>1 DEF JobsKept, CallerInv
  <2> QED BY <2>1, <2>2
<1>5. OutcomeInv'
  BY <1>1, <1>2, <1>3, Disjointness DEF JobsKept, OutcomeInv
<1>6. ASSUME NEW t \in Tasks, Issued(t)', t # s
      PROVE  Issued(t)
  <2>1. \A u \in Threads : pc[u] \in PushLabels => cur'[u] = cur[u]
    BY <1>1, <1>2 DEF PushLabels
  <2>2. caller'[t] = caller[t]
    BY <1>1, <1>6
  <2> QED BY <2>1, <2>2, <1>2, <1>6 DEF Issued
<1>7. NoJobIsLost'
  BY <1>1, <1>2, <1>6 DEF JobsKept, NoJobIsLost
<1> QED BY <1>4, <1>5, <1>7 DEF JobsKept

LEMMA EndKeepsKept ==
  ASSUME Inv, JobsKept, NEW w \in Workers, JobEnds(w)
  PROVE  JobsKept'
<1>1. PICK s \in Tasks : s = cur[w]
  BY CurFacts, Disjointness DEF JobEnds, IdleLabels
<1>2. w \in Threads /\ pc[w] = "run"
  BY Disjointness DEF JobEnds
<1>3. /\ \A u \in Threads : pc'[u] = IF u = w THEN "finished" ELSE pc[u]
      /\ \A t \in Tasks : t # s => outcome'[t] = outcome[t]
      /\ outcome'[s] # "pending"
      /\ UNCHANGED <<script, queue, cur, caller, ip>>
  BY <1>1, <1>2 DEF JobEnds, Goto, Inv, TypeOK, queues, Outcomes
<1>4. CallerInv'
  <2>1. \A t \in Tasks : caller[t] # s
    BY <1>1, Disjointness DEF Inv, PlacesInv, StackInv
  <2> QED BY <2>1, <1>3 DEF JobsKept, CallerInv
<1>5. OutcomeInv'
  <2> SUFFICES ASSUME NEW v \in Workers, cur[v] # Nobody
               PROVE  outcome'[cur[v]] = "pending" <=> pc'[v] \notin Ended
    BY <1>3 DEF OutcomeInv, Ended
  <2>1. CASE v = w
    BY <2>1, <1>1, <1>2, <1>3 DEF Ended
  <2>2. CASE v # w
    <3>1. cur[v] \in Tasks /\ cur[v] # s
      BY <2>2, <1>1 DEF Inv, PlacesInv, ControlInv, StackInv
    <3> QED BY <2>2, <3>1, <1>3, Disjointness DEF JobsKept, OutcomeInv, Ended
  <2> QED BY <2>1, <2>2
<1>6. \A t \in Tasks : Issued(t)' => Issued(t)
  BY <1>3, NothingIssued DEF PushLabels
<1>7. NoJobIsLost'
  BY <1>3, <1>6, SamePlaces DEF JobsKept, NoJobIsLost
<1> QED BY <1>4, <1>5, <1>7 DEF JobsKept

LEMMA LeaveKeepsKept ==
  ASSUME Inv, JobsKept, NEW w \in Workers, pc[w] \in {"finished", "notifyAll"}, Leave(w),
         UNCHANGED <<script, queue, outcome>>
  PROVE  JobsKept'
<1>1. PICK s \in Tasks, up \in Tasks \cup {Nobody} :
        /\ s = cur[w] /\ up = caller[s] /\ s # up
        /\ \A u \in Threads : cur'[u] = IF u = w THEN up ELSE cur[u]
        /\ \A t \in Tasks : caller'[t] = IF t = s THEN Nobody ELSE caller[t]
        /\ \A d \in Codes : ip'[d] = IF d = up THEN ip[d] + 1 ELSE ip[d]
        /\ \A u \in Threads : pc'[u] = IF u = w THEN (IF up = Nobody THEN "pop" ELSE "run") ELSE pc[u]
        /\ \A u \in Threads : cur[u] # Nobody => cur[u] # up
        /\ \A t \in Tasks : (Queued(t)' <=> Queued(t)) /\ (Running(t)' <=> Running(t) /\ t # s)
  BY LeavePlaces
<1>2. w \in Threads /\ outcome[s] # "pending"
  BY <1>1, Disjointness DEF JobsKept, OutcomeInv
<1>3. \A t \in Tasks : t # s /\ caller[t] # Nobody => caller[t] # up
  BY <1>1 DEF Inv, PlacesInv, StackInv
<1>4. CallerInv'
  <2> SUFFICES ASSUME NEW t \in Tasks, NEW u \in Tasks, caller'[t] = u
               PROVE  /\ ip'[u] <= Len(script[u])
                      /\ script[u][ip'[u]].op = "inline" /\ script[u][ip'[u]].task = t
                      /\ outcome[u] = "pending"
    BY DEF CallerInv
  <2>1. t # s /\ caller[t] = u /\ u # up
    BY <1>1, <1>3, Disjointness
  <2>2. ip'[u] = ip[u]
    BY <2>1, <1>1, Disjointness
  <2> QED BY <2>1, <2>2 DEF JobsKept, CallerInv
<1>5. OutcomeInv'
  <2> SUFFICES ASSUME NEW v \in Workers, cur'[v] # Nobody
               PROVE  outcome[cur'[v]] = "pending" <=> pc'[v] \notin Ended
    BY DEF OutcomeInv, Ended
  <2>1. CASE v = w
    BY <2>1, <1>1, <1>2 DEF Ended, JobsKept, CallerInv
  <2>2. CASE v # w
    BY <2>2, <1>1, Disjointness DEF Ended, JobsKept, OutcomeInv
  <2> QED BY <2>1, <2>2
\* The frame below goes on after the call that started s.
<1>6. ASSUME NEW t \in Tasks, Issued(t)', t # s
      PROVE  Issued(t)
  <2>1. PICK d \in Codes : \E i \in DOMAIN script[d] :
          /\ script[d][i].op \in Submissions /\ script[d][i].task = t
          /\ \/ i < ip'[d]
             \/ i = ip'[d] /\ caller'[t] = d
             \/ i = ip'[d] /\ \E u \in Threads : cur'[u] = d /\ pc'[u] \in PushLabels
    BY <1>6 DEF Issued
  <2>2. PICK i \in DOMAIN script[d] :
          /\ script[d][i].op \in Submissions /\ script[d][i].task = t
          /\ \/ i < ip'[d]
             \/ i = ip'[d] /\ caller'[t] = d
             \/ i = ip'[d] /\ \E u \in Threads : cur'[u] = d /\ pc'[u] \in PushLabels
    BY <2>1
  <2>3. \A u \in Threads : pc'[u] \in PushLabels => cur'[u] = cur[u] /\ pc'[u] = pc[u]
    BY <1>1, <1>2 DEF PushLabels
  <2>4. CASE d # up
    <3>1. ip'[d] = ip[d] /\ caller'[t] = caller[t]
      BY <2>4, <1>1, <1>6
    <3> QED BY <2>2, <2>3, <3>1 DEF Issued
  <2>5. CASE d = up
    <3>1. up \in Tasks /\ up \in Codes /\ ip'[up] = ip[up] + 1 /\ ip[up] \in Nat /\ i \in Nat
      <4>1. up \in Codes /\ up \in Tasks
        BY <2>5, <1>1, Disjointness
      <4>2. script[up] \in Seq(Op) /\ ip[up] \in Nat
        BY <4>1 DEF Inv, TypeOK
      <4> QED BY <2>5, <4>1, <4>2, <1>1
    <3>2. script[up][ip[up]].task = s
      BY <3>1, <1>1 DEF JobsKept, CallerInv
    <3>3. caller'[t] # up
      BY <3>1, <1>1, <1>3, <1>6, Disjointness
    <3>4. \A u \in Threads : cur'[u] = up => pc'[u] \notin PushLabels
      BY <2>3, <3>1, <1>1, Disjointness
    <3>5. i < ip[up] + 1 /\ i # ip[up]
      BY <2>2, <2>5, <3>1, <3>2, <3>3, <3>4, <1>6
    <3>6. i < ip[up]
      BY <3>1, <3>5
    <3> QED BY <2>2, <2>5, <3>6 DEF Issued
  <2> QED BY <2>4, <2>5
<1>7. NoJobIsLost'
  BY <1>1, <1>2, <1>6 DEF JobsKept, NoJobIsLost
<1> QED BY <1>4, <1>5, <1>7 DEF JobsKept

LEMMA SubmitKeepsKept ==
  ASSUME Inv, JobsKept, NEW th \in Threads, Submit(th)
  PROVE  JobsKept'
<1> USE DEF control, cv, counts, queues
<1>1. CASE Refuse(th)
  BY <1>1, ReturnKeepsKept DEF Refuse, Ready, IdleLabels, Ended
<1>2. CASE ChooseQueue(th)
  BY <1>2, MoveKeepsKept DEF ChooseQueue, Ready, PushLabels, Ended
<1>3. CASE Push(th)
  BY <1>3, PushKeepsKept
<1>4. CASE Unlock(th)
  BY <1>4, MoveKeepsKept DEF Unlock, PushLabels, Ended
<1>5. CASE AddQueued(th)
  BY <1>5, MoveKeepsKept DEF AddQueued, PushLabels, Ended
<1>6. CASE AddActive(th)
  BY <1>6, MoveKeepsKept DEF AddActive, PushLabels, Ended
<1>7. CASE Notify(th)
  <2>1. ip[cur[th]] <= Len(script[cur[th]])
    BY <1>7 DEF Notify, Inv, PlacesInv, ControlInv, SubmitLabels, PushLabels
  <2> QED BY <1>7, <2>1, ReturnKeepsKept DEF Notify, IdleLabels, Ended, PushLabels
<1>8. CASE Await(th)
  BY <1>8, ReturnKeepsKept DEF Await, Ready, IdleLabels, Ended, Submissions
<1> QED BY <1>1, <1>2, <1>3, <1>4, <1>5, <1>6, <1>7, <1>8 DEF Submit

LEMMA WorkerKeepsKept ==
  ASSUME Inv, JobsKept, NEW w \in Workers, WorkerStep(w)
  PROVE  JobsKept'
<1> USE DEF control, cv, counts, queues
<1>0. w \in Threads
  BY Disjointness
<1>1. CASE Submit(w)
  BY <1>0, <1>1, SubmitKeepsKept
<1>2. CASE RunInline(w)
  BY <1>2, InlineKeepsKept
<1>3. ASSUME NEW q \in Workers, TryNext(w, q), pc[w] \in {"pop", "steal"},
             UNCHANGED <<script, caller, ip, outcome>>
      PROVE  JobsKept'
  BY <1>0, <1>3, MoveKeepsKept DEF TryNext, PushLabels, Ended
<1>4. CASE TryPopLocal(w)
  <2>1. PopLocal(queue[w]) \subseteq DOMAIN queue[w]
    BY TypeFacts DEF PopLocal, HeapTop
  <2>2. NextQueue(w) \in Workers
    BY ConstantFacts
  <2> QED BY <1>3, <1>4, <2>1, <2>2, TakeKeepsKept DEF TryPopLocal
<1>5. CASE TrySteal(w)
  <2>1. target[w] \in Workers /\ NextQueue(target[w]) \in Workers
    BY <1>0, TypeFacts, ConstantFacts
  <2>2. PopSteal(queue[target[w]]) \subseteq DOMAIN queue[target[w]]
    BY DEF PopSteal, HeapTop
  <2> QED BY <1>3, <1>5, <2>1, <2>2, TakeKeepsKept DEF TrySteal
<1>6. CASE FinishPop(w)
  BY <1>0, <1>6, MoveKeepsKept DEF FinishPop, PushLabels, Ended
<1>7. CASE CheckForWork(w)
  <2>1. PICK l \in {"check", "pop", "exit"} : Goto(w, l)
    BY <1>0, <1>7, TypeFacts DEF CheckForWork, Goto
  <2> QED BY <1>0, <1>7, <2>1, MoveKeepsKept DEF CheckForWork, PushLabels, Ended
<1>8. CASE JobEnds(w)
  BY <1>8, EndKeepsKept
<1>9. CASE SubActive(w)
  <2>1. CASE activeTasks = 1 /\ Goto(w, "notifyAll") /\ UNCHANGED <<cur, caller, ip, target>>
    BY <1>0, <1>9, <2>1, MoveKeepsKept DEF SubActive, PushLabels, Ended
  <2>2. CASE Leave(w)
    BY <1>9, <2>2, LeaveKeepsKept DEF SubActive
  <2> QED BY <1>9, <2>1, <2>2 DEF SubActive
<1>10. CASE NotifyWaiters(w)
  BY <1>10, LeaveKeepsKept DEF NotifyWaiters
<1> QED BY <1>1, <1>2, <1>4, <1>5, <1>6, <1>7, <1>8, <1>9, <1>10 DEF WorkerStep

LEMMA ClientKeepsKept ==
  ASSUME Inv, JobsKept, BlockedInv, NEW c \in Clients, ClientStep(c)
  PROVE  JobsKept'
<1> USE DEF control, cv, counts, queues
<1>0. c \in Threads /\ c \notin Workers /\ cur[c] = c
  BY Disjointness DEF Inv, PlacesInv, ControlInv
<1>1. CASE Submit(c)
  BY <1>0, <1>1, SubmitKeepsKept
<1>2. ASSUME NEW l \in WaitLabels \cup {"run"}, Goto(c, l),
             UNCHANGED <<script, queue, cur, caller, ip, outcome>>
      PROVE  JobsKept'
  BY <1>0, <1>2, MoveKeepsKept DEF PushLabels, WaitLabels
<1>3. ASSUME Return(c), pc[c] \in WaitLabels \cup {"run"}, UNCHANGED <<script, queue, outcome>>,
             ip[c] <= Len(script[c]), Call(c).op \in {"waitAll", "destroy"}
      PROVE  JobsKept'
  BY <1>0, <1>3, ReturnKeepsKept DEF WaitLabels, IdleLabels, Ended, Submissions
<1>4. ASSUME WaitReturns(c), pc[c] \in WaitLabels \cup {"run"}, UNCHANGED <<script, queue, outcome>>,
             ip[c] <= Len(script[c]), Call(c).op \in {"waitAll", "destroy"}
      PROVE  JobsKept'
  BY <1>2, <1>3, <1>4 DEF WaitReturns, WaitLabels
<1>5. CASE WaitForAllTasks(c)
  <2>1. CASE stop /\ WaitReturns(c) /\ UNCHANGED cv
    BY <1>0, <1>4, <1>5, <2>1 DEF WaitForAllTasks, Ready
  <2>2. CASE ~stop /\ activeTasks # 0 /\ Block(c) /\ UNCHANGED waitMutex
    <3>1. Goto(c, "run")
      BY <1>0, <1>5, <2>2, TypeFacts DEF WaitForAllTasks, Ready, Block, Goto
    <3> QED BY <1>2, <1>5, <2>2, <3>1 DEF WaitForAllTasks, Block
  <2>3. CASE /\ ~stop /\ activeTasks = 0 /\ waitMutex' = c /\ Goto(c, "readQueued")
             /\ UNCHANGED <<waitSet, cur, caller, ip, target>>
    BY <1>2, <1>5, <2>3 DEF WaitForAllTasks, WaitLabels
  <2> QED BY <1>5, <2>1, <2>2, <2>3 DEF WaitForAllTasks
<1>6. CASE ReadQueued(c)
  <2>0. ip[c] <= Len(script[c]) /\ Call(c).op \in {"waitAll", "destroy"}
    BY <1>6 DEF ReadQueued, BlockedInv, WaitLabels
  <2> QED BY <1>2, <1>4, <1>6, <2>0 DEF ReadQueued, WaitLabels
<1>7. CASE SetStop(c)
  BY <1>2, <1>7 DEF SetStop, WaitLabels
<1>8. CASE StopNotify(c)
  BY <1>2, <1>8 DEF StopNotify, WaitLabels
<1>9. CASE Join(c)
  <2>0. ip[c] <= Len(script[c]) /\ Call(c).op \in {"waitAll", "destroy"}
    BY <1>9 DEF Join, BlockedInv, WaitLabels
  <2> QED BY <1>3, <1>9, <2>0 DEF Join, WaitLabels
<1> QED BY <1>1, <1>5, <1>6, <1>7, <1>8, <1>9 DEF ClientStep
-----------------------------------------------------------------------------
(* BlockedInv: only the client itself starts and ends its waiting. *)

\* What a step of another thread leaves to a client.
Undisturbed(d) ==
  /\ script' = script /\ pc'[d] = pc[d] /\ ip'[d] = ip[d] /\ cur'[d] = cur[d]
  /\ d \in waitSet' => d \in waitSet

LEMMA SubmitLeavesOthers ==
  ASSUME Inv, NEW th \in Threads, Submit(th), NEW d \in Clients, d # th
  PROVE  Undisturbed(d) /\ (th \in waitSet' => th \in waitSet)
<1> USE DEF control, cv, counts, queues
<1>1. /\ d \in Threads /\ d \in Codes /\ cur[d] = d /\ cur[d] # Nobody
      /\ pc[th] \notin IdleLabels => cur[th] \in Codes
      /\ cur[th] # d
  BY CurFacts, Disjointness
<1>2. ASSUME Return(th)
      PROVE  pc'[d] = pc[d] /\ ip'[d] = ip[d] /\ cur'[d] = cur[d]
  BY <1>1, <1>2, TypeFacts DEF Return, Goto
<1>3. ASSUME NEW l, Goto(th, l)
      PROVE  pc'[d] = pc[d]
  BY <1>1, <1>3, TypeFacts DEF Goto
<1> QED BY <1>2, <1>3 DEF Submit, Undisturbed, Refuse, ChooseQueue, Push, Unlock, AddQueued, AddActive,
                          Notify, NotifyOne, Await

LEMMA WorkerLeavesOthers ==
  ASSUME Inv, NEW w \in Workers, WorkerStep(w), NEW d \in Clients
  PROVE  Undisturbed(d)
<1> USE DEF control, cv, counts, queues
<1>1. /\ w \in Threads /\ d \in Threads /\ d \in Codes /\ d # w /\ d \notin Tasks
      /\ cur[d] = d /\ d # Nobody
  BY CurFacts, Disjointness
<1>2. ASSUME NEW l, Goto(w, l)
      PROVE  pc'[d] = pc[d]
  BY <1>1, <1>2, TypeFacts DEF Goto
<1>3. ASSUME NEW q \in Workers, TryNext(w, q) \/ \E i \in DOMAIN queue[q] : Take(w, q, i)
      PROVE  pc'[d] = pc[d] /\ cur'[d] = cur[d]
  BY <1>1, <1>2, <1>3, TypeFacts DEF TryNext, Take
<1>4. ASSUME Leave(w), pc[w] \in {"finished", "notifyAll"}, UNCHANGED queue
      PROVE  pc'[d] = pc[d] /\ cur'[d] = cur[d] /\ ip'[d] = ip[d]
  BY <1>1, <1>4, LeavePlaces
<1>5. CASE Submit(w)
  BY <1>1, <1>5, SubmitLeavesOthers
<1>6. CASE RunInline(w)
  BY <1>1, <1>6, TypeFacts DEF RunInline, Undisturbed
<1>7. CASE TryPopLocal(w)
  <2>1. PopLocal(queue[w]) \subseteq DOMAIN queue[w]
    BY TypeFacts DEF PopLocal, HeapTop
  <2>2. NextQueue(w) \in Workers
    BY ConstantFacts
  <2> QED BY <1>3, <1>7, <2>1, <2>2 DEF TryPopLocal, Undisturbed
<1>8. CASE TrySteal(w)
  <2>1. target[w] \in Workers /\ NextQueue(target[w]) \in Workers
    BY <1>1, TypeFacts, ConstantFacts
  <2>2. PopSteal(queue[target[w]]) \subseteq DOMAIN queue[target[w]]
    BY DEF PopSteal, HeapTop
  <2> QED BY <1>3, <1>8, <2>1, <2>2 DEF TrySteal, Undisturbed
<1>9. CASE FinishPop(w)
  BY <1>2, <1>9 DEF FinishPop, Undisturbed
<1>10. CASE CheckForWork(w)
  BY <1>1, <1>2, <1>10 DEF CheckForWork, Undisturbed
<1>11. CASE JobEnds(w)
  BY <1>2, <1>11 DEF JobEnds, Undisturbed
<1>12. CASE SubActive(w)
  BY <1>2, <1>4, <1>12 DEF SubActive, Undisturbed
<1>13. CASE NotifyWaiters(w)
  BY <1>4, <1>13 DEF NotifyWaiters, NotifyAll, Undisturbed
<1> QED BY <1>5, <1>6, <1>7, <1>8, <1>9, <1>10, <1>11, <1>12, <1>13 DEF WorkerStep

LEMMA ClientLeavesOthers ==
  ASSUME Inv, NEW c \in Clients, ClientStep(c), NEW d \in Clients, d # c
  PROVE  Undisturbed(d)
<1> USE DEF control, cv, counts, queues
<1>1. /\ c \in Threads /\ d \in Threads /\ c \in Codes /\ d \in Codes
      /\ cur[c] = c /\ cur[d] = d
  BY CurFacts, Disjointness
<1>2. ASSUME NEW l, Goto(c, l)
      PROVE  pc'[d] = pc[d]
  BY <1>1, <1>2, TypeFacts DEF Goto
<1>3. ASSUME Return(c)
      PROVE  pc'[d] = pc[d] /\ ip'[d] = ip[d] /\ cur' = cur
  BY <1>1, <1>2, <1>3, TypeFacts DEF Return
<1>4. ASSUME WaitReturns(c)
      PROVE  pc'[d] = pc[d] /\ ip'[d] = ip[d] /\ cur' = cur
  BY <1>2, <1>3, <1>4 DEF WaitReturns
<1>5. CASE Submit(c)
  BY <1>1, <1>5, SubmitLeavesOthers
<1>6. CASE WaitForAllTasks(c)
  BY <1>2, <1>4, <1>6 DEF WaitForAllTasks, Block, Undisturbed
<1>7. CASE ReadQueued(c)
  BY <1>2, <1>4, <1>7 DEF ReadQueued, Undisturbed
<1>8. CASE SetStop(c) \/ StopNotify(c) \/ Join(c)
  BY <1>2, <1>3, <1>8 DEF SetStop, StopNotify, NotifyAll, Join, Undisturbed
<1> QED BY <1>5, <1>6, <1>7, <1>8 DEF ClientStep

\* What BlockedInv says of one client.
Blocked(c) ==
  /\ c \in waitSet \/ pc[c] \in WaitLabels =>
       ip[c] <= Len(script[c]) /\ Call(c).op \in {"waitAll", "destroy"}
  /\ c \in waitSet => pc[c] = "run"

LEMMA ClientKeepsOwn ==
  ASSUME Inv, BlockedInv, NEW c \in Clients, ClientStep(c)
  PROVE  Blocked(c)'
<1> USE DEF control, cv, counts, queues
<1>1. c \in Threads /\ c \in Codes /\ cur[c] = c /\ c \notin waitSet
  BY CurFacts, Disjointness DEF ClientStep
<1>2. ASSUME NEW l, Goto(c, l)
      PROVE  pc'[c] = l
  BY <1>1, <1>2, TypeFacts DEF Goto
<1>3. CASE Submit(c)
  <2>1. c \notin waitSet'
    BY <1>1, <1>3 DEF Submit, Refuse, ChooseQueue, Push, Unlock, AddQueued, AddActive, Notify, NotifyOne, Await
  <2>2. pc'[c] \notin WaitLabels
    BY <1>2, <1>3 DEF Submit, Refuse, ChooseQueue, Push, Unlock, AddQueued, AddActive, Notify, Return, Await,
                      WaitLabels
  <2> QED BY <2>1, <2>2 DEF Blocked
\* Either the client goes on, or it is at the same call.
<1>4. ASSUME UNCHANGED <<script, cur, ip>>, ip[c] <= Len(script[c]), Call(c).op \in {"waitAll", "destroy"},
             c \in waitSet' => pc'[c] = "run"
      PROVE  Blocked(c)'
  BY <1>4 DEF Blocked, Call
<1>5. ASSUME Return(c), UNCHANGED waitSet
      PROVE  Blocked(c)'
  BY <1>1, <1>2, <1>5 DEF Return, Blocked, WaitLabels
<1>6. ASSUME WaitReturns(c), UNCHANGED <<script, waitSet>>, ip[c] <= Len(script[c]),
             Call(c).op \in {"waitAll", "destroy"}
      PROVE  Blocked(c)'
  BY <1>1, <1>4, <1>5, <1>6 DEF WaitReturns
<1>7. CASE WaitForAllTasks(c)
  <2>1. ip[c] <= Len(script[c]) /\ pc[c] = "run"
    BY <1>1, <1>7 DEF WaitForAllTasks, Ready
  <2> QED BY <1>1, <1>4, <1>6, <1>7, <2>1 DEF WaitForAllTasks, Block
<1>8. CASE ReadQueued(c)
  <2>1. ip[c] <= Len(script[c]) /\ Call(c).op \in {"waitAll", "destroy"}
    BY <1>8 DEF ReadQueued, BlockedInv, WaitLabels
  <2> QED BY <1>2, <1>4, <1>6, <1>8, <2>1 DEF ReadQueued
<1>9. CASE SetStop(c) \/ StopNotify(c)
  <2>1. ip[c] <= Len(script[c]) /\ Call(c).op \in {"waitAll", "destroy"}
    BY <1>9 DEF SetStop, StopNotify, BlockedInv, WaitLabels
  <2> QED BY <1>1, <1>4, <1>9, <2>1 DEF SetStop, StopNotify, NotifyAll
<1>10. CASE Join(c)
  BY <1>5, <1>10 DEF Join
<1> QED BY <1>3, <1>7, <1>8, <1>9, <1>10 DEF ClientStep

LEMMA StepKept == Inv /\ KeptInv /\ [Next]_vars => KeptInv'
<1> SUFFICES ASSUME Inv, KeptInv, [Next]_vars
             PROVE  KeptInv'
  OBVIOUS
<1> USE DEF control, cv, counts, queues
<1>1. JobsKept /\ BlockedInv /\ \A c \in Clients : Blocked(c)
  BY DEF KeptInv, JobsKept, BlockedInv, Blocked
<1>2. ASSUME NEW d \in Clients, Undisturbed(d)
      PROVE  Blocked(d)'
  <2>1. cur[d] = d /\ Blocked(d)
    BY <1>1 DEF Inv, PlacesInv, ControlInv
  <2> QED BY <1>2, <2>1 DEF Undisturbed, Blocked, Call
<1>3. ASSUME JobsKept', \A d \in Clients : Blocked(d)'
      PROVE  KeptInv'
  BY <1>3 DEF KeptInv, JobsKept, BlockedInv, Blocked
<1>4. ASSUME NEW w \in Workers, WorkerStep(w)
      PROVE  KeptInv'
  <2>1. \A d \in Clients : Blocked(d)'
    BY <1>2, <1>4, WorkerLeavesOthers
  <2> QED BY <1>1, <1>3, <1>4, <2>1, WorkerKeepsKept
<1>5. ASSUME NEW c \in Clients, ClientStep(c)
      PROVE  KeptInv'
  <2>1. \A d \in Clients : Blocked(d)'
    BY <1>1, <1>2, <1>5, ClientLeavesOthers, ClientKeepsOwn
  <2> QED BY <1>1, <1>3, <1>5, <2>1, ClientKeepsKept
<1>6. ASSUME UNCHANGED <<script, queue, pc, cur, caller, ip, outcome>>, waitSet' \subseteq waitSet
      PROVE  KeptInv'
  <2>1. \A d \in Clients : Blocked(d)'
    BY <1>2, <1>6 DEF Undisturbed
  <2>2. CallerInv' /\ OutcomeInv'
    BY <1>1, <1>6 DEF JobsKept, CallerInv, OutcomeInv
  <2>3. NoJobIsLost'
    BY <1>1, <1>6, SamePlaces DEF JobsKept, NoJobIsLost, Issued
  <2> QED BY <1>3, <2>1, <2>2, <2>3 DEF JobsKept
<1>7. CASE UNCHANGED vars
  BY <1>6, <1>7 DEF vars
<1>8. CASE \E th \in Threads : SpuriousWakeup(th)
  BY <1>6, <1>8 DEF SpuriousWakeup
<1> QED BY <1>4, <1>5, <1>7, <1>8 DEF Next, Terminated

LEMMA InitKept == Init => KeptInv
<1> SUFFICES ASSUME Init
             PROVE  KeptInv
  OBVIOUS
<1>1. Inv
  BY InitInv
<1>2. BlockedInv
  BY Disjointness DEF Init, BlockedInv, WaitLabels
<1>3. CallerInv /\ OutcomeInv
  BY Disjointness DEF Init, CallerInv, OutcomeInv
<1>4. \A t \in Tasks : ~Issued(t)
  <2>1. \A c \in Codes : script[c] \in Seq(Op)
    BY <1>1 DEF Inv, TypeOK
  <2>2. \A c \in Codes : \A i \in DOMAIN script[c] : ~(i < 1)
    BY <2>1
  <2> QED BY <2>2, Disjointness DEF Init, Issued, PushLabels
<1> QED BY <1>2, <1>3, <1>4 DEF KeptInv, NoJobIsLost

\* Every job whose submission went through is in a queue, on a call stack, or has
\* its outcome: none is forgotten, whatever push, pop, steal and inline calls meet.
THEOREM NothingIsLost == Spec => []KeptInv
BY Invariance, InitKept, StepKept, PTL DEF Spec
-----------------------------------------------------------------------------
(* The counters *)

\* (a + 1) % n and (a - 1) % n, as the wrapping counter computes them.
LEMMA ModLemma ==
  ASSUME NEW a \in Int
  PROVE  /\ (a + 1) % SizeT = Inc(a % SizeT)
         /\ (a - 1) % SizeT = Dec(a % SizeT)
         /\ 0 % SizeT = 0
<1>1. SizeT \in Nat /\ SizeT > 0
  BY SizeTAssumption, FS_CardinalityType
<1> DEFINE r == a % SizeT
           k == a \div SizeT
<1>2. k \in Int /\ r \in 0 .. (SizeT - 1) /\ a = SizeT * k + r
  BY <1>1
<1>3. ASSUME NEW j \in Int, NEW x \in 0 .. (SizeT - 1)
      PROVE  (SizeT * j + x) % SizeT = x
  <2> DEFINE m == SizeT * j + x
  <2>1. PICK d \in Int : d = (m \div SizeT) - j
    BY <1>1
  <2>2. PICK y \in 0 .. (SizeT - 1) : y = m % SizeT
    BY <1>1
  <2>3. m = SizeT * (d + j) + y
    BY <1>1, <2>1, <2>2
  <2>4. SizeT * (d + j) = SizeT * d + SizeT * j
    BY <1>1
  <2>5. SizeT * d + y = x
    BY <1>1, <2>3, <2>4
  <2>6. ~(d >= 1)
    <3>1. d >= 1 => SizeT * d >= SizeT
      BY <1>1
    <3> QED BY <1>1, <2>5, <3>1
  <2>7. ~(d <= -1)
    <3>1. d <= -1 => SizeT * d <= -SizeT
      BY <1>1
    <3> QED BY <1>1, <2>5, <3>1
  <2>8. d = 0 /\ SizeT * d = 0
    BY <2>6, <2>7, <1>1
  <2> QED BY <2>2, <2>5, <2>8
<1> HIDE DEF k, r
<1>4. (a + 1) % SizeT = Inc(r)
  <2>1. CASE r = SizeT - 1
    <3>1. a + 1 = SizeT * (k + 1) + 0
      BY <1>1, <1>2, <2>1
    <3> QED BY <1>1, <1>2, <1>3, <2>1, <3>1 DEF Inc
  <2>2. CASE r # SizeT - 1
    <3>1. a + 1 = SizeT * k + (r + 1) /\ r + 1 \in 0 .. (SizeT - 1)
      BY <1>1, <1>2, <2>2
    <3> QED BY <1>2, <1>3, <2>2, <3>1 DEF Inc
  <2> QED BY <2>1, <2>2
<1>5. (a - 1) % SizeT = Dec(r)
  <2>1. CASE r = 0
    <3>1. a - 1 = SizeT * (k - 1) + (SizeT - 1)
      BY <1>1, <1>2, <2>1
    <3> QED BY <1>1, <1>2, <1>3, <2>1, <3>1 DEF Dec
  <2>2. CASE r # 0
    <3>1. a - 1 = SizeT * k + (r - 1) /\ r - 1 \in 0 .. (SizeT - 1)
      BY <1>1, <1>2, <2>2
    <3> QED BY <1>2, <1>3, <2>2, <3>1 DEF Dec
  <2> QED BY <2>1, <2>2
<1>6. 0 % SizeT = 0
  BY <1>1
<1> QED BY <1>4, <1>5, <1>6 DEF r
-----------------------------------------------------------------------------
(* Jobs and threads are finitely many, and a step moves one of each at a time. *)

LEMMA FiniteThreads == IsFiniteSet(Threads)
<1>1. IsFiniteSet(Workers)
  BY WorkersAssumption, FS_Interval DEF Workers
<1> QED BY <1>1, ThreadsAssumption, FS_Union DEF Threads

LEMMA OneMore ==
  ASSUME NEW T, IsFiniteSet(T), NEW S \in SUBSET T, NEW s \in T
  PROVE  /\ Cardinality(S) \in Nat
         /\ s \notin S => Cardinality(S \cup {s}) = Cardinality(S) + 1
         /\ s \in S => Cardinality(S \ {s}) = Cardinality(S) - 1
<1>1. IsFiniteSet(S)
  BY FS_Subset
<1> QED BY <1>1, FS_CardinalityType, FS_AddElement, FS_RemoveElement

\* The number of threads at labels follows the thread that moves.
LEMMA AtMoves ==
  ASSUME Inv, NEW th \in Threads, NEW l, Goto(th, l), NEW L
  PROVE  /\ Cardinality(At(L)) \in Nat
         /\ Cardinality(At(L))' = Cardinality(At(L)) + (IF l \in L THEN 1 ELSE 0)
                                                     - (IF pc[th] \in L THEN 1 ELSE 0)
<1>1. \A u \in Threads : pc'[u] = IF u = th THEN l ELSE pc[u]
  BY TypeFacts DEF Goto
<1>2. At(L) \in SUBSET Threads /\ (th \in At(L) <=> pc[th] \in L)
  BY DEF At
<1>3. Cardinality(At(L)) \in Nat
  BY <1>2, FiniteThreads, OneMore
<1>4. CASE l \in L /\ pc[th] \notin L
  <2>1. At(L)' = At(L) \cup {th}
    BY <1>1, <1>4 DEF At
  <2> QED BY <1>2, <1>3, <1>4, <2>1, FiniteThreads, OneMore
<1>5. CASE l \notin L /\ pc[th] \in L
  <2>1. At(L)' = At(L) \ {th}
    BY <1>1, <1>5 DEF At
  <2> QED BY <1>2, <1>3, <1>5, <2>1, FiniteThreads, OneMore
<1>6. CASE l \in L <=> pc[th] \in L
  <2>1. At(L)' = At(L)
    BY <1>1, <1>6 DEF At
  <2> QED BY <1>3, <1>6, <2>1
<1> QED BY <1>4, <1>5, <1>6
-----------------------------------------------------------------------------
(* The two sums of CountersExact, and what the steps make of them. *)

QueuedJobs == {t \in Tasks : Queued(t)}
Pushing    == {"unlock", "addQueued"}

\* What queuedTasks_ counts, before it wraps, and what activeTasks_ is behind.
Ahead == Cardinality(QueuedJobs) + Cardinality(At({"popped"})) - Cardinality(At(Pushing))
Debt  == Cardinality(At(Pushing \cup {"addActive"}))

LEMMA CountersExactDef ==
  /\ CountersExact <=> queuedTasks = Ahead % SizeT /\ activeTasks = Cardinality(InFlight) - Debt
  /\ CountersExact' <=> queuedTasks' = Ahead' % SizeT /\ activeTasks' = Cardinality(InFlight') - Debt'
<1>1. {"unlock", "addQueued"} \cup {"addActive"} = {"unlock", "addQueued", "addActive"}
  OBVIOUS
<1> QED BY <1>1 DEF CountersExact, Ahead, Debt, QueuedJobs, Pushing

LEMMA SumTypes ==
  /\ IsFiniteSet(Tasks)
  /\ QueuedJobs \in SUBSET Tasks /\ InFlight \in SUBSET Tasks
  /\ Cardinality(QueuedJobs) \in Nat /\ Cardinality(InFlight) \in Nat
  /\ \A L : Cardinality(At(L)) \in Nat
  /\ Ahead \in Int /\ Debt \in Nat
<1>1. QueuedJobs \in SUBSET Tasks /\ InFlight \in SUBSET Tasks
  BY DEF QueuedJobs, InFlight
<1>2. Cardinality(QueuedJobs) \in Nat /\ Cardinality(InFlight) \in Nat
  BY <1>1, SizeTAssumption, FS_Subset, FS_CardinalityType
<1>3. ASSUME NEW L
      PROVE  Cardinality(At(L)) \in Nat
  BY FiniteThreads, FS_Subset, FS_CardinalityType DEF At
<1> QED BY <1>1, <1>2, <1>3, SizeTAssumption DEF Ahead, Debt

\* The jobs in flight, one by one.
LEMMA InFlightDef ==
  \A t : t \in InFlight <=>
    /\ t \in Tasks /\ (Queued(t) \/ Running(t))
    /\ \A u \in Threads : pc[u] = "notifyAll" => cur[u] # t
BY DEF InFlight, At
-----------------------------------------------------------------------------
(* The steps *)

\* How the sums follow the queues and the thread that moves.
LEMMA SumsFollow ==
  ASSUME Inv, NEW th \in Threads, NEW l, Goto(th, l)
  PROVE  /\ Ahead' = Ahead + (Cardinality(QueuedJobs)' - Cardinality(QueuedJobs))
                      + (IF l = "popped" THEN 1 ELSE 0) - (IF pc[th] = "popped" THEN 1 ELSE 0)
                      - (IF l \in Pushing THEN 1 ELSE 0) + (IF pc[th] \in Pushing THEN 1 ELSE 0)
         /\ Debt' = Debt + (IF l \in Pushing \cup {"addActive"} THEN 1 ELSE 0)
                         - (IF pc[th] \in Pushing \cup {"addActive"} THEN 1 ELSE 0)
         /\ pc'[th] = l /\ \A u \in Threads : u # th => pc'[u] = pc[u]
<1>1. Cardinality(QueuedJobs) \in Nat /\ Cardinality(QueuedJobs') \in Nat
  <2>1. QueuedJobs' \in SUBSET Tasks
    BY DEF QueuedJobs
  <2> QED BY <2>1, SumTypes, FS_Subset, FS_CardinalityType
<1>2. /\ Cardinality(At({"popped"})) \in Nat
      /\ Cardinality(At({"popped"}))' = Cardinality(At({"popped"}))
           + (IF l = "popped" THEN 1 ELSE 0) - (IF pc[th] = "popped" THEN 1 ELSE 0)
  BY AtMoves
<1>3. /\ Cardinality(At(Pushing)) \in Nat
      /\ Cardinality(At(Pushing))' = Cardinality(At(Pushing))
           + (IF l \in Pushing THEN 1 ELSE 0) - (IF pc[th] \in Pushing THEN 1 ELSE 0)
  BY AtMoves DEF Pushing
<1>4. Debt' = Debt + (IF l \in Pushing \cup {"addActive"} THEN 1 ELSE 0)
                   - (IF pc[th] \in Pushing \cup {"addActive"} THEN 1 ELSE 0)
  BY AtMoves DEF Debt, Pushing
<1>5. pc'[th] = l /\ \A u \in Threads : u # th => pc'[u] = pc[u]
  BY TypeFacts DEF Goto
<1>6. Ahead' = Ahead + (Cardinality(QueuedJobs)' - Cardinality(QueuedJobs))
                 + (IF l = "popped" THEN 1 ELSE 0) - (IF pc[th] = "popped" THEN 1 ELSE 0)
                 - (IF l \in Pushing THEN 1 ELSE 0) + (IF pc[th] \in Pushing THEN 1 ELSE 0)
  BY <1>1, <1>2, <1>3 DEF Ahead
<1> QED BY <1>4, <1>5, <1>6

\* Queues and stacks stay, and nobody starts or ends notifying.
LEMMA SameSets ==
  ASSUME UNCHANGED <<queue, cur, caller>>,
         \A u \in Threads : pc'[u] = "notifyAll" <=> pc[u] = "notifyAll"
  PROVE  QueuedJobs' = QueuedJobs /\ InFlight' = InFlight
<1>1. QueuedJobs' = QueuedJobs
  BY SamePlaces DEF QueuedJobs
<1>2. \A t : t \in InFlight' <=> t \in InFlight
  BY SamePlaces DEF InFlight, At
<1> QED BY <1>1, <1>2


LEMMA NotOnAStack ==
  ASSUME Inv, NEW t \in Tasks, ~Running(t)
  PROVE  \A u \in Threads : cur[u] # t
BY Disjointness, CurFacts DEF Running

LEMMA QuietKeepsCounts ==
  ASSUME Inv, CountersExact, NEW th \in Threads, NEW l, Goto(th, l),
         UNCHANGED <<queue, cur, caller, queuedTasks, activeTasks>>,
         l \notin {"popped", "unlock", "addQueued", "addActive", "notifyAll"},
         pc[th] \notin {"popped", "unlock", "addQueued", "addActive", "notifyAll"}
  PROVE  CountersExact' /\ InFlight' = InFlight
<1>1. \A u \in Threads : pc'[u] = "notifyAll" <=> pc[u] = "notifyAll"
  BY SumsFollow
<1>2. QueuedJobs' = QueuedJobs /\ InFlight' = InFlight
  BY <1>1, SameSets
<1>3. Ahead' = Ahead
  BY <1>2, SumsFollow, SumTypes DEF Pushing
<1>4. Debt' = Debt
  BY <1>2, SumsFollow, SumTypes DEF Pushing
<1> QED BY <1>2, <1>3, <1>4, CountersExactDef

LEMMA PushKeepsCounts ==
  ASSUME Inv, CountersExact, NEW th \in Threads, Push(th)
  PROVE  CountersExact'
<1> USE DEF control, cv, counts, queues
<1>1. PICK s \in Tasks : /\ ~Queued(s) /\ ~Running(s)
                         /\ \A t \in Tasks : /\ Queued(t)' <=> Queued(t) \/ t = s
                                             /\ Running(t)' <=> Running(t)
  BY PushPlaces DEF Touched
<1>2. /\ Goto(th, "unlock") /\ pc[th] = "push"
      /\ UNCHANGED <<cur, caller, queuedTasks, activeTasks>>
  BY DEF Push
<1>3. pc'[th] = "unlock" /\ \A u \in Threads : u # th => pc'[u] = pc[u]
  BY <1>2, SumsFollow
<1>4. QueuedJobs' = QueuedJobs \cup {s} /\ s \notin QueuedJobs
  BY <1>1 DEF QueuedJobs
<1>5. InFlight' = InFlight \cup {s} /\ s \notin InFlight
  <2>1. \A u \in Threads : cur[u] # s
    BY <1>1, NotOnAStack
  <2>2. s \notin InFlight
    BY <1>1, InFlightDef
  <2>3. \A t : t \in InFlight' <=> t \in InFlight \cup {s}
    BY <1>1, <1>2, <1>3, <2>1 DEF InFlight, At
  <2> QED BY <2>2, <2>3
<1>6. /\ Cardinality(QueuedJobs') = Cardinality(QueuedJobs) + 1
      /\ Cardinality(InFlight') = Cardinality(InFlight) + 1
  BY <1>4, <1>5, OneMore, SumTypes
<1>7. Ahead' = Ahead
  BY <1>2, <1>6, SumsFollow, SumTypes DEF Pushing
<1>8. Debt' = Debt + 1
  BY <1>2, SumsFollow, SumTypes DEF Pushing
<1> QED BY <1>2, <1>6, <1>7, <1>8, SumTypes, CountersExactDef

LEMMA CountKeepsCounts ==
  ASSUME Inv, CountersExact, NEW th \in Threads, Unlock(th) \/ AddQueued(th) \/ AddActive(th)
  PROVE  CountersExact' /\ InFlight' = InFlight
<1> USE DEF control, cv, counts, queues
<1>1. UNCHANGED <<queue, cur, caller>>
  BY DEF Unlock, AddQueued, AddActive
<1>2. \A u \in Threads : pc'[u] = "notifyAll" <=> pc[u] = "notifyAll"
  BY SumsFollow DEF Unlock, AddQueued, AddActive
<1>3. QueuedJobs' = QueuedJobs /\ InFlight' = InFlight
  BY <1>1, <1>2, SameSets
<1>4. CASE Unlock(th)
  <2>1. Ahead' = Ahead
    BY <1>3, <1>4, SumsFollow, SumTypes DEF Unlock, Pushing
  <2>2. Debt' = Debt
    BY <1>4, SumsFollow, SumTypes DEF Unlock, Pushing
  <2> QED BY <1>3, <1>4, <2>1, <2>2, CountersExactDef DEF Unlock
<1>5. CASE AddQueued(th)
  <2>1. Ahead' = Ahead + 1
    BY <1>3, <1>5, SumsFollow, SumTypes DEF AddQueued, Pushing
  <2>3. Debt' = Debt
    BY <1>5, SumsFollow, SumTypes DEF AddQueued, Pushing
  <2>2. (Ahead + 1) % SizeT = Inc(Ahead % SizeT)
    BY ModLemma, SumTypes
  <2> QED BY <1>3, <1>5, <2>1, <2>2, <2>3, CountersExactDef DEF AddQueued
<1>6. CASE AddActive(th)
  <2>1. Ahead' = Ahead
    BY <1>3, <1>6, SumsFollow, SumTypes DEF AddActive, Pushing
  <2>2. Debt' = Debt - 1
    BY <1>6, SumsFollow, SumTypes DEF AddActive, Pushing
  <2> QED BY <1>3, <1>6, <2>1, <2>2, SumTypes, CountersExactDef DEF AddActive
<1> QED BY <1>4, <1>5, <1>6

LEMMA TakeKeepsCounts ==
  ASSUME Inv, CountersExact, NEW w \in Workers, NEW q \in Workers, NEW i \in DOMAIN queue[q],
         pc[w] \in {"pop", "steal"}, Take(w, q, i), UNCHANGED <<caller, queuedTasks, activeTasks>>
  PROVE  CountersExact' /\ InFlight' = InFlight
<1>0. w \in Threads /\ Goto(w, "popped")
  BY Disjointness DEF Take
<1>1. PICK s \in Tasks : /\ Queued(s)
                         /\ \A u \in Threads : cur'[u] = IF u = w THEN s ELSE cur[u]
                         /\ \A t \in Tasks : /\ Queued(t)' <=> Queued(t) /\ t # s
                                             /\ Running(t)' <=> Running(t) \/ t = s
  BY TakePlaces
<1>2. QueuedJobs' = QueuedJobs \ {s} /\ s \in QueuedJobs
  BY <1>1 DEF QueuedJobs
<1>3. InFlight' = InFlight
  <2>1. pc'[w] = "popped" /\ \A u \in Threads : u # w => pc'[u] = pc[u]
    BY <1>0, SumsFollow
  <2>2. \A t : t \in InFlight' <=> t \in InFlight
    BY <1>0, <1>1, <2>1 DEF InFlight, At
  <2> QED BY <2>2
<1>4. Cardinality(QueuedJobs') = Cardinality(QueuedJobs) - 1
  BY <1>2, OneMore, SumTypes
<1>5. Ahead' = Ahead
  BY <1>0, <1>4, SumsFollow, SumTypes DEF Pushing
<1>6. Debt' = Debt
  BY <1>0, SumsFollow, SumTypes DEF Pushing
<1> QED BY <1>3, <1>5, <1>6, CountersExactDef

LEMMA FinishKeepsCounts ==
  ASSUME Inv, CountersExact, NEW w \in Workers, FinishPop(w)
  PROVE  CountersExact' /\ InFlight' = InFlight
<1> USE DEF control, cv, counts, queues
<1>0. /\ w \in Threads /\ Goto(w, "run") /\ pc[w] = "popped"
      /\ UNCHANGED <<queue, cur, caller, activeTasks>> /\ queuedTasks' = Dec(queuedTasks)
  BY Disjointness DEF FinishPop
<1>1. QueuedJobs' = QueuedJobs /\ InFlight' = InFlight
  <2>1. \A u \in Threads : pc'[u] = "notifyAll" <=> pc[u] = "notifyAll"
    BY <1>0, SumsFollow
  <2> QED BY <1>0, <2>1, SameSets
<1>2. Ahead' = Ahead - 1
  BY <1>0, <1>1, SumsFollow, SumTypes DEF Pushing
<1>3. Debt' = Debt
  BY <1>0, SumsFollow, SumTypes DEF Pushing
<1>4. (Ahead - 1) % SizeT = Dec(Ahead % SizeT)
  BY ModLemma, SumTypes
<1> QED BY <1>0, <1>1, <1>2, <1>3, <1>4, CountersExactDef

LEMMA InlineKeepsCounts ==
  ASSUME Inv, CountersExact, NEW w \in Workers, RunInline(w)
  PROVE  CountersExact'
<1> USE DEF control, cv, counts, queues
<1>0. /\ w \in Threads /\ pc[w] = "run"
      /\ UNCHANGED <<queue, pc, queuedTasks>> /\ activeTasks' = activeTasks + 1
  BY Disjointness DEF RunInline, Ready
<1>1. PICK s \in Tasks : /\ ~Queued(s) /\ ~Running(s)
                         /\ \A u \in Threads : cur'[u] = IF u = w THEN s ELSE cur[u]
                         /\ \A t \in Tasks : /\ Queued(t)' <=> Queued(t)
                                             /\ Running(t)' <=> Running(t) \/ t = s
  BY InlinePlaces DEF Touched
<1>2. QueuedJobs' = QueuedJobs /\ Ahead' = Ahead /\ Debt' = Debt
  BY <1>0, <1>1 DEF QueuedJobs, Ahead, Debt, At
<1>3. InFlight' = InFlight \cup {s} /\ s \notin InFlight
  <2>1. \A u \in Threads : cur[u] # s
    BY <1>1, NotOnAStack
  <2>2. s \notin InFlight
    BY <1>1, InFlightDef
  <2>3. \A t : t \in InFlight' <=> t \in InFlight \cup {s}
    BY <1>0, <1>1, <2>1 DEF InFlight, At
  <2> QED BY <2>2, <2>3
<1>4. Cardinality(InFlight') = Cardinality(InFlight) + 1
  BY <1>3, OneMore, SumTypes
<1> QED BY <1>0, <1>2, <1>4, SumTypes, CountersExactDef

\* A worker that counts its job off, whether or not it goes on to notify.
LEMMA SubActiveKeepsCounts ==
  ASSUME Inv, CountersExact, NEW w \in Workers, SubActive(w)
  PROVE  CountersExact' /\ InFlight' = InFlight \ {cur[w]}
<1> USE DEF control, cv, counts, queues
<1>0. /\ w \in Threads /\ pc[w] = "finished" /\ UNCHANGED <<queue, queuedTasks>>
      /\ activeTasks' = activeTasks - 1
  BY Disjointness DEF SubActive
<1>1. PICK s \in Tasks : /\ s = cur[w] /\ Running(s)
                         /\ \A u \in Threads : cur[u] = s => u = w
  BY <1>0, CurFacts, Disjointness DEF IdleLabels, Running
<1>2. s \in InFlight
  BY <1>0, <1>1, InFlightDef
<1>3. PICK l \in {"notifyAll", "pop", "run"} : Goto(w, l)
  BY DEF SubActive, Leave
<1>4. pc'[w] = l /\ \A u \in Threads : u # w => pc'[u] = pc[u]
  BY <1>0, <1>3, SumsFollow
<1>5. QueuedJobs' = QueuedJobs /\ InFlight' = InFlight \ {s}
  <2>1. CASE Goto(w, "notifyAll") /\ UNCHANGED <<cur, caller>>
    <3>1. pc'[w] = "notifyAll"
      BY <1>0, <2>1, SumsFollow
    <3>2. \A t : t \in InFlight' <=> t \in InFlight \ {s}
      BY <1>0, <1>1, <1>4, <2>1, <3>1, SamePlaces DEF InFlight, At
    <3> QED BY <1>0, <2>1, <3>2, SamePlaces DEF QueuedJobs
  <2>2. CASE Leave(w)
    <3>1. /\ \A u \in Threads : u # w => cur'[u] = cur[u]
          /\ pc'[w] # "notifyAll"
          /\ \A t \in Tasks : /\ Queued(t)' <=> Queued(t)
                              /\ Running(t)' <=> Running(t) /\ t # s
      BY <1>0, <1>1, <2>2, LeavePlaces
    <3>2. ~Queued(s)
      BY <1>1 DEF Inv, PlacesInv, QueueInv
    <3>3. \A t : t \in InFlight' <=> t \in InFlight \ {s}
      BY <1>0, <1>1, <1>4, <3>1, <3>2 DEF InFlight, At
    <3> QED BY <3>1, <3>3 DEF QueuedJobs
  <2> QED BY <2>1, <2>2 DEF SubActive
<1>6. Cardinality(InFlight') = Cardinality(InFlight) - 1
  BY <1>2, <1>5, OneMore, SumTypes
<1>7. Ahead' = Ahead
  BY <1>0, <1>3, <1>5, SumsFollow, SumTypes DEF Pushing
<1>8. Debt' = Debt
  BY <1>0, <1>3, SumsFollow, SumTypes DEF Pushing
<1> QED BY <1>0, <1>1, <1>5, <1>6, <1>7, <1>8, SumTypes, CountersExactDef

LEMMA NotifyKeepsCounts ==
  ASSUME Inv, CountersExact, NEW w \in Workers, NotifyWaiters(w)
  PROVE  CountersExact' /\ InFlight' = InFlight
<1> USE DEF control, cv, counts, queues
<1>0. /\ w \in Threads /\ pc[w] = "notifyAll" /\ Leave(w) /\ UNCHANGED <<queue, queuedTasks, activeTasks>>
  BY Disjointness DEF NotifyWaiters
<1>1. PICK s \in Tasks : /\ s = cur[w] /\ Running(s)
                         /\ \A u \in Threads : u # w => cur'[u] = cur[u]
                         /\ \A t \in Tasks : /\ Queued(t)' <=> Queued(t)
                                             /\ Running(t)' <=> Running(t) /\ t # s
  BY <1>0, LeavePlaces
<1>2. PICK l \in {"pop", "run"} : Goto(w, l)
  BY <1>0 DEF Leave
<1>3. pc'[w] = l /\ \A u \in Threads : u # w => pc'[u] = pc[u]
  BY <1>0, <1>2, SumsFollow
<1>4. QueuedJobs' = QueuedJobs
  BY <1>1 DEF QueuedJobs
<1>5. InFlight' = InFlight
  <2>1. ~Queued(s)
    BY <1>1 DEF Inv, PlacesInv, QueueInv
  <2>2. \A t : t \in InFlight' <=> t \in InFlight
    BY <1>0, <1>1, <1>3, <2>1 DEF InFlight, At
  <2> QED BY <2>2
<1>6. Ahead' = Ahead
  BY <1>0, <1>2, <1>4, SumsFollow, SumTypes DEF Pushing
<1>7. Debt' = Debt
  BY <1>0, <1>2, SumsFollow, SumTypes DEF Pushing
<1> QED BY <1>0, <1>5, <1>6, <1>7, CountersExactDef
-----------------------------------------------------------------------------
LEMMA SubmitKeepsCounts ==
  ASSUME Inv, CountersExact, NEW th \in Threads, Submit(th)
  PROVE  CountersExact' /\ (~Push(th) => InFlight' \subseteq InFlight)
<1> USE DEF control, cv, counts, queues
<1>1. CASE Refuse(th) \/ ChooseQueue(th) \/ Await(th)
  BY <1>1, QuietKeepsCounts DEF Refuse, ChooseQueue, Await, Ready, Return
<1>2. CASE Push(th)
  BY <1>2, PushKeepsCounts
<1>3. CASE Unlock(th) \/ AddQueued(th) \/ AddActive(th)
  BY <1>3, CountKeepsCounts
<1>4. CASE Notify(th)
  BY <1>4, QuietKeepsCounts DEF Notify, Return
<1> QED BY <1>1, <1>2, <1>3, <1>4 DEF Submit

LEMMA WorkerKeepsCounts ==
  ASSUME Inv, CountersExact, NEW w \in Workers, WorkerStep(w)
  PROVE  CountersExact' /\ (~Push(w) /\ ~RunInline(w) => InFlight' \subseteq InFlight)
<1> USE DEF control, cv, counts, queues
<1>0. w \in Threads
  BY Disjointness
<1>1. CASE Submit(w)
  BY <1>0, <1>1, SubmitKeepsCounts
<1>2. CASE RunInline(w)
  BY <1>2, InlineKeepsCounts
<1>3. ASSUME NEW q \in Workers, TryNext(w, q), pc[w] \in {"pop", "steal"},
             UNCHANGED <<caller, queuedTasks, activeTasks>>
      PROVE  CountersExact' /\ InFlight' = InFlight
  BY <1>0, <1>3, QuietKeepsCounts DEF TryNext
<1>4. CASE TryPopLocal(w)
  <2>1. PopLocal(queue[w]) \subseteq DOMAIN queue[w]
    BY TypeFacts DEF PopLocal, HeapTop
  <2>2. NextQueue(w) \in Workers
    BY ConstantFacts
  <2> QED BY <1>3, <1>4, <2>1, <2>2, TakeKeepsCounts DEF TryPopLocal
<1>5. CASE TrySteal(w)
  <2>1. target[w] \in Workers /\ NextQueue(target[w]) \in Workers
    BY <1>0, TypeFacts, ConstantFacts
  <2>2. PopSteal(queue[target[w]]) \subseteq DOMAIN queue[target[w]]
    BY DEF PopSteal, HeapTop
  <2> QED BY <1>3, <1>5, <2>1, <2>2, TakeKeepsCounts DEF TrySteal
<1>6. CASE FinishPop(w)
  BY <1>6, FinishKeepsCounts
<1>7. CASE CheckForWork(w)
  <2>1. PICK l \in {"check", "pop", "exit"} : Goto(w, l)
    BY <1>0, <1>7, TypeFacts DEF CheckForWork, Goto
  <2> QED BY <1>0, <1>7, <2>1, QuietKeepsCounts DEF CheckForWork
<1>8. CASE JobEnds(w)
  BY <1>0, <1>8, QuietKeepsCounts DEF JobEnds
<1>9. CASE SubActive(w)
  BY <1>9, SubActiveKeepsCounts
<1>10. CASE NotifyWaiters(w)
  BY <1>10, NotifyKeepsCounts
<1> QED BY <1>1, <1>2, <1>4, <1>5, <1>6, <1>7, <1>8, <1>9, <1>10 DEF WorkerStep

LEMMA ClientKeepsCounts ==
  ASSUME Inv, CountersExact, NEW c \in Clients, ClientStep(c)
  PROVE  CountersExact' /\ (~Push(c) => InFlight' \subseteq InFlight)
<1> USE DEF control, cv, counts, queues
<1>0. c \in Threads
  BY Disjointness
<1>1. CASE Submit(c)
  BY <1>0, <1>1, SubmitKeepsCounts
<1>2. ASSUME NEW l \in WaitLabels \cup {"run"}, Goto(c, l), pc[c] \in WaitLabels \cup {"run"},
             UNCHANGED <<queue, cur, caller, queuedTasks, activeTasks>>
      PROVE  CountersExact' /\ InFlight' = InFlight
  BY <1>0, <1>2, QuietKeepsCounts DEF WaitLabels
<1>3. ASSUME WaitReturns(c), pc[c] \in WaitLabels \cup {"run"}, UNCHANGED <<queue, queuedTasks, activeTasks>>
      PROVE  CountersExact' /\ InFlight' = InFlight
  BY <1>2, <1>3 DEF WaitReturns, Return, WaitLabels
<1>4. CASE WaitForAllTasks(c)
  <2>1. CASE Block(c)
    <3>1. Goto(c, "run")
      BY <1>0, <1>4, <2>1, TypeFacts DEF WaitForAllTasks, Ready, Block, Goto
    <3> QED BY <1>2, <1>4, <2>1, <3>1 DEF WaitForAllTasks, Block, Ready
  <2> QED BY <1>2, <1>3, <1>4, <2>1 DEF WaitForAllTasks, Ready, WaitLabels
<1>5. CASE ReadQueued(c)
  BY <1>2, <1>3, <1>5 DEF ReadQueued, WaitLabels
<1>6. CASE SetStop(c) \/ StopNotify(c) \/ Join(c)
  BY <1>2, <1>6 DEF SetStop, StopNotify, Join, Return, WaitLabels
<1> QED BY <1>1, <1>4, <1>5, <1>6 DEF ClientStep

LEMMA StepCounts == Inv /\ CountersExact /\ [Next]_vars => CountersExact'
<1> SUFFICES ASSUME Inv, CountersExact, [Next]_vars
             PROVE  CountersExact'
  OBVIOUS
<1>1. ASSUME UNCHANGED <<queue, pc, cur, caller, queuedTasks, activeTasks>>
      PROVE  CountersExact'
  BY <1>1 DEF CountersExact, InFlight, Queued, Running, At
<1>2. CASE UNCHANGED vars
  BY <1>1, <1>2 DEF vars, control, queues, counts
<1>3. CASE \E th \in Threads : SpuriousWakeup(th)
  BY <1>1, <1>3 DEF SpuriousWakeup, control, queues, counts
<1> QED BY <1>2, <1>3, WorkerKeepsCounts, ClientKeepsCounts DEF Next, Terminated

LEMMA InitCounts == Init => CountersExact
<1> SUFFICES ASSUME Init
             PROVE  CountersExact
  OBVIOUS
<1>1. \A t \in Tasks : ~Queued(t) /\ ~Running(t)
  BY Disjointness DEF Init, Queued, Running
<1>2. QueuedJobs = {} /\ InFlight = {}
  BY <1>1 DEF QueuedJobs, InFlight
<1>3. At({"popped"}) = {} /\ At(Pushing) = {} /\ At(Pushing \cup {"addActive"}) = {}
  BY DEF Init, At, Pushing
<1>4. Ahead = 0 /\ Debt = 0 /\ Cardinality(InFlight) = 0
  BY <1>2, <1>3, FS_EmptySet DEF Ahead, Debt
<1> QED BY <1>4, CountersExactDef, ModLemma DEF Init

\* queuedTasks_ and activeTasks_ drift from the jobs they count by the threads that
\* are inside an update and by no more, for any number of threads and jobs: what
\* wraps below zero comes back, and no update is lost or made twice.
THEOREM CountersAreExact == Spec => []CountersExact
BY Invariance, InitCounts, StepCounts, PTL DEF Spec
=============================================================================
