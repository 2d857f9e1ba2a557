---------------------------- MODULE SchedulerProofs ----------------------------
(***************************************************************************)
(* Theorems about Scheduler, for every pool size, set of clients and set   *)
(* of well-formed programs.                                                *)
(***************************************************************************)
EXTENDS SchedulerInv, FiniteSetTheorems, SequenceTheorems, TLAPS

\* What RemoveAt, with which popLocal and popSteal take a job, does to a queue.
LEMMA RemoveAtLemma ==
  ASSUME NEW S, NEW q \in Seq(S), NEW i \in DOMAIN q
  PROVE  /\ RemoveAt(q, i) \in Seq(S)
         /\ Len(RemoveAt(q, i)) = Len(q) - 1
         /\ \A j \in 1 .. (Len(q) - 1) :
              RemoveAt(q, i)[j] = IF j < i THEN q[j] ELSE q[j + 1]
<1> DEFINE p == SubSeq(q, 1, i - 1)
           r == SubSeq(q, i + 1, Len(q))
<1>1. /\ Len(q) \in Nat
      /\ i \in 1 .. Len(q)
      /\ \A j \in 1 .. Len(q) : q[j] \in S
  OBVIOUS
<1>2. /\ p \in Seq(S)
      /\ Len(p) = i - 1
      /\ \A j \in 1 .. (i - 1) : p[j] = q[j]
  <2>1. \A j \in 1 .. (i - 1) : q[j] \in S
    BY <1>1
  <2>2. /\ p \in Seq(S)
        /\ Len(p) = IF 1 <= i - 1 THEN (i - 1) - 1 + 1 ELSE 0
        /\ \A j \in 1 .. ((i - 1) - 1 + 1) : p[j] = q[1 + j - 1]
    <3> HIDE DEF p
    <3>1. 1 \in Int /\ i - 1 \in Int
      BY <1>1
    <3> QED BY <2>1, <3>1, SubSeqProperties DEF p
  <2> HIDE DEF p
  <2> QED BY <1>1, <2>2
<1>3. /\ r \in Seq(S)
      /\ Len(r) = Len(q) - i
      /\ \A j \in 1 .. (Len(q) - i) : r[j] = q[i + j]
  <2>1. \A j \in (i + 1) .. Len(q) : q[j] \in S
    BY <1>1
  <2>2. /\ r \in Seq(S)
        /\ Len(r) = IF i + 1 <= Len(q) THEN Len(q) - (i + 1) + 1 ELSE 0
        /\ \A j \in 1 .. (Len(q) - (i + 1) + 1) : r[j] = q[(i + 1) + j - 1]
    <3> HIDE DEF r
    <3>1. i + 1 \in Int /\ Len(q) \in Int
      BY <1>1
    <3> QED BY <2>1, <3>1, SubSeqProperties DEF r
  <2> HIDE DEF r
  <2> QED BY <1>1, <2>2
<1>4. RemoveAt(q, i) = p \o r
  BY DEF RemoveAt
<1> HIDE DEF p, r
<1>5. /\ p \o r \in Seq(S)
      /\ Len(p \o r) = Len(p) + Len(r)
      /\ \A j \in 1 .. Len(p) + Len(r) : (p \o r)[j] = IF j <= Len(p) THEN p[j] ELSE r[j - Len(p)]
  BY <1>2, <1>3, ConcatProperties
<1>6. Len(p) + Len(r) = Len(q) - 1
  BY <1>1, <1>2, <1>3
<1>7. ASSUME NEW j \in 1 .. (Len(q) - 1)
      PROVE  (p \o r)[j] = IF j < i THEN q[j] ELSE q[j + 1]
  <2>1. CASE j < i
    BY <2>1, <1>1, <1>2, <1>5, <1>6, SMTT(30)
  <2>2. CASE ~(j < i)
    <3>1. ~(j <= Len(p)) /\ j - Len(p) = j - i + 1
      BY <2>2, <1>1, <1>2
    <3>2. (p \o r)[j] = r[j - i + 1]
      BY <3>1, <1>5, <1>6
    <3>3. r[j - i + 1] = q[i + (j - i + 1)]
      BY <2>2, <1>1, <1>3, SMTT(30)
    <3>4. i + (j - i + 1) = j + 1
      BY <1>1
    <3> QED BY <2>2, <3>2, <3>3, <3>4
  <2> QED BY <2>1, <2>2
<1> QED BY <1>4, <1>5, <1>6, <1>7

LEMMA ConstantFacts ==
  /\ 0 \in Workers
  /\ \A w \in Workers : NextQueue(w) \in Workers
  /\ 0 \in 0 .. (SizeT - 1)
  /\ \A n \in 0 .. (SizeT - 1) : Inc(n) \in 0 .. (SizeT - 1) /\ Dec(n) \in 0 .. (SizeT - 1)
BY WorkersAssumption, SizeTAssumption, FS_CardinalityType DEF Workers, NextQueue, Inc, Dec
-----------------------------------------------------------------------------
Inv == TypeOK /\ PlacesInv

LEMMA Disjointness ==
  /\ Threads = Workers \cup Clients
  /\ Codes = Clients \cup Tasks
  /\ Workers \cap Codes = {} /\ Clients \cap Tasks = {} /\ Workers \cap Clients = {}
  /\ Nobody \notin Tasks /\ Nobody \notin Clients /\ Nobody \notin Workers /\ Nobody \notin Codes
BY ThreadsAssumption DEF Threads, Codes

\* A thread that is in one of its calls executes a code.
LEMMA CurFacts ==
  ASSUME Inv, NEW th \in Threads
  PROVE  /\ th \in Clients => cur[th] = th
         /\ th \in Workers => cur[th] \in Tasks \cup {Nobody}
         /\ pc[th] \notin IdleLabels => cur[th] \in Codes
         /\ th \in Workers /\ pc[th] \notin IdleLabels => cur[th] \in Tasks
         /\ th \in Workers /\ pc[th] \in IdleLabels => cur[th] = Nobody
         /\ th \in Clients => pc[th] \notin IdleLabels
         /\ \A u \in Threads : cur[u] = cur[th] /\ cur[th] # Nobody => u = th
         /\ \A t \in Tasks : cur[th] # Nobody => caller[t] # cur[th]
<1>1. CASE th \in Clients
  <2>1. cur[th] = th /\ pc[th] \notin IdleLabels /\ th \in Codes
    BY <1>1, Disjointness DEF Inv, PlacesInv, ControlInv, IdleLabels, ClientLabels, WaitLabels, SubmitLabels, PushLabels
  <2>2. \A u \in Workers : cur[u] \in Tasks \cup {Nobody}
    BY DEF Inv, PlacesInv, ControlInv
  <2>3. \A u \in Threads : cur[u] = cur[th] => u = th
    BY <1>1, <2>1, <2>2, Disjointness DEF Inv, PlacesInv, ControlInv
  <2>4. \A t \in Tasks : caller[t] # th
    BY <1>1, Disjointness DEF Inv, TypeOK
  <2> QED BY <1>1, <2>1, <2>3, <2>4, Disjointness
<1>2. CASE th \in Workers
  <2>1. /\ cur[th] \in Tasks \cup {Nobody}
        /\ pc[th] \notin IdleLabels => cur[th] \in Tasks
        /\ pc[th] \in IdleLabels => cur[th] = Nobody
    BY <1>2 DEF Inv, PlacesInv, ControlInv
  <2>2. \A u \in Threads : cur[u] = cur[th] /\ cur[th] # Nobody => u = th
    BY <1>2, <2>1, Disjointness DEF Inv, PlacesInv, ControlInv, StackInv
  <2>3. \A t \in Tasks : cur[th] # Nobody => caller[t] # cur[th]
    BY <1>2 DEF Inv, PlacesInv, StackInv
  <2> QED BY <1>2, <2>1, <2>2, <2>3, Disjointness
<1> QED BY <1>1, <1>2, Disjointness

\* A job whose submission is about to be made has not been touched.
LEMMA Fresh ==
  ASSUME Inv, NEW th \in Threads, pc[th] \in {"run", "push"},
         ip[cur[th]] <= Len(script[cur[th]]), Call(th).op \in Submissions
  PROVE  Call(th).task \in Tasks /\ ~Issued(Call(th).task) /\ ~Touched(Call(th).task)
<1> DEFINE c == cur[th]
           t == script[c][ip[c]].task
<1>1. /\ c \in Codes /\ c # Nobody
      /\ \A u \in Threads : cur[u] = c => u = th
      /\ \A u \in Tasks : caller[u] # c
  BY CurFacts, Disjointness DEF IdleLabels
<1>2. /\ WellFormed(script)
      /\ script \in [Codes -> Seq(Op)]
      /\ ip[c] \in Nat \ {0}
      /\ \A u \in Tasks : Touched(u) => Issued(u)
  BY <1>1 DEF Inv, PlacesInv, ControlInv, IssueInv, TypeOK
<1>3. script[c] \in Seq(Op) /\ ip[c] \in DOMAIN script[c]
  <2>1. script[c] \in Seq(Op)
    BY <1>1, <1>2
  <2> QED BY <1>2, <2>1
<1>4. script[c][ip[c]] \in Op /\ script[c][ip[c]].op \in Submissions
  BY <1>3 DEF Call
<1>5. t \in Tasks
  BY <1>4 DEF Op, Submissions
<1>6. ~Issued(t)
  <2> SUFFICES ASSUME NEW d \in Codes, NEW i \in DOMAIN script[d],
                      script[d][i].op \in Submissions, script[d][i].task = t,
                      \/ i < ip[d]
                      \/ i = ip[d] /\ caller[t] = d
                      \/ i = ip[d] /\ \E u \in Threads : cur[u] = d /\ pc[u] \in PushLabels
               PROVE  FALSE
    BY DEF Issued
  <2>1. d = c /\ i = ip[c]
    BY <1>1, <1>2, <1>3, <1>4 DEF WellFormed
  <2> QED BY <1>1, <1>2, <1>5, <2>1 DEF PushLabels
<1> QED BY <1>2, <1>5, <1>6 DEF Call

LEMMA InitInv == Init => Inv
<1> SUFFICES ASSUME Init PROVE Inv
  OBVIOUS
<1>1. WellFormed(script) /\ script \in [Codes -> Seq(Op)]
  BY ScriptsAssumption DEF Init, WellFormed
<1>2. TypeOK
  <2>1. /\ queue \in [Workers -> Seq(Tasks)]
        /\ queueLock \in [Workers -> Threads \cup {Nobody}]
        /\ queuedTasks \in 0 .. (SizeT - 1) /\ activeTasks \in Int
        /\ stop \in BOOLEAN /\ nextWorker \in Workers
        /\ waitMutex \in Clients \cup {Nobody} /\ waitSet \subseteq Threads
    <3>1. <<>> \in Seq(Tasks)
      OBVIOUS
    <3>2. queue \in [Workers -> Seq(Tasks)]
      BY <3>1 DEF Init
    <3>3. queueLock \in [Workers -> Threads \cup {Nobody}]
      BY DEF Init
    <3>4. queuedTasks \in 0 .. (SizeT - 1)
      BY ConstantFacts DEF Init
    <3>6. activeTasks \in Int
      BY DEF Init
    <3>7. stop \in BOOLEAN
      BY DEF Init
    <3>5. nextWorker \in Workers /\ waitMutex \in Clients \cup {Nobody} /\ waitSet \subseteq Threads
      BY ConstantFacts DEF Init
    <3> QED BY <3>2, <3>3, <3>4, <3>5, <3>6, <3>7
  <2>2. /\ pc \in [Threads -> Labels]
        /\ cur \in [Threads -> Codes \cup {Nobody}]
        /\ target \in [Threads -> Workers]
    BY ConstantFacts, Disjointness DEF Init, Labels
  <2>3. /\ caller \in [Tasks -> Tasks \cup {Nobody}]
        /\ ip \in [Codes -> Nat]
        /\ outcome \in [Tasks -> Outcomes]
    BY DEF Init, Outcomes
  <2> QED BY <1>1, <2>1, <2>2, <2>3 DEF TypeOK
<1>3. ControlInv
  BY <1>1, Disjointness DEF Init, ControlInv, IdleLabels, WorkerLabels, ClientLabels, WaitLabels, SubmitLabels, PushLabels
<1>4. StackInv
  BY Disjointness DEF Init, StackInv
<1>5. \A t \in Tasks : ~Touched(t)
  BY Disjointness DEF Init, Touched, Queued, Running
<1>6. QueueInv /\ IssueInv
  BY <1>5 DEF QueueInv, IssueInv, Touched, Init
<1> QED BY <1>2, <1>3, <1>4, <1>6 DEF Inv, PlacesInv
-----------------------------------------------------------------------------
(* The steps.  Most move one thread from one label to the next and leave the *)
(* queues, the stacks and the outcomes alone.                                *)

\* The moves of a thread that keep what the labels say of it true.
Moves(th, l) ==
  /\ IF th \in Workers
     THEN l \in WorkerLabels /\ (pc[th] \in IdleLabels <=> l \in IdleLabels)
     ELSE l \in ClientLabels
  /\ l \in SubmitLabels =>
       \/ pc[th] \in SubmitLabels
       \/ Ready(th) /\ Call(th).op \in Submissions
  /\ pc[th] \in PushLabels => l \in PushLabels

LEMMA MoveKeepsPlaces ==
  ASSUME Inv, NEW th \in Threads, NEW l, Moves(th, l), Goto(th, l),
         UNCHANGED <<script, queue, cur, caller, ip, outcome>>
  PROVE  PlacesInv'
<1>1. \A u \in Threads : pc'[u] = IF u = th THEN l ELSE pc[u]
  BY DEF Inv, TypeOK, Goto
<1>2. ControlInv'
  <2>1. \A u \in Threads : pc'[u] \in SubmitLabels =>
          ip[cur[u]] <= Len(script[cur[u]]) /\ Call(u).op \in Submissions
    BY <1>1 DEF Inv, PlacesInv, ControlInv, Moves, Ready
  <2>2. \A w \in Workers : /\ pc'[w] \in WorkerLabels
                           /\ IF pc'[w] \in IdleLabels THEN cur[w] = Nobody ELSE cur[w] \in Tasks
    BY <1>1, Disjointness DEF Inv, PlacesInv, ControlInv, Moves
  <2>3. \A c \in Clients : cur[c] = c /\ pc'[c] \in ClientLabels
    BY <1>1, Disjointness DEF Inv, PlacesInv, ControlInv, Moves
  <2> QED BY <2>1, <2>2, <2>3 DEF Inv, PlacesInv, ControlInv, Call
<1>3. StackInv' /\ QueueInv'
  BY DEF Inv, PlacesInv, StackInv, QueueInv, Queued, Running
<1>4. ASSUME NEW t \in Tasks, Touched(t)'
      PROVE  Issued(t)'
  <2>1. Issued(t)
    BY <1>4 DEF Inv, PlacesInv, IssueInv, Touched, Queued, Running
  <2> QED BY <1>1, <2>1 DEF Issued, Moves
<1> QED BY <1>2, <1>3, <1>4 DEF PlacesInv, IssueInv

\* A call returns, and perhaps it refused its job.
LEMMA ReturnKeepsPlaces ==
  ASSUME Inv, NEW th \in Threads, pc[th] \notin IdleLabels, Return(th),
         UNCHANGED <<script, queue>>,
         \/ UNCHANGED outcome
         \/ /\ Ready(th) /\ Call(th).op \in Submissions
            /\ outcome' = [outcome EXCEPT ![Call(th).task] = "dropped"]
  PROVE  PlacesInv' /\ ip' \in [Codes -> Nat]
<1> DEFINE c == cur[th]
<1>1. c \in Codes /\ (th \in Workers => c \in Tasks)
      /\ (\A u \in Threads : cur[u] = c => u = th)
      /\ (\A t \in Tasks : caller[t] # c)
  BY CurFacts, Disjointness
<1>2. /\ \A u \in Threads : pc'[u] = IF u = th THEN "run" ELSE pc[u]
      /\ \A d \in Codes : ip'[d] = IF d = c THEN ip[d] + 1 ELSE ip[d]
      /\ ip' \in [Codes -> Nat]
      /\ cur' = cur /\ caller' = caller
  BY <1>1 DEF Inv, TypeOK, Return, Goto
<1>3. ControlInv'
  <2>1. ASSUME NEW u \in Threads, pc'[u] \in SubmitLabels
        PROVE  ip'[cur[u]] <= Len(script[cur[u]]) /\ Call(u)'.op \in Submissions
    <3>1. u # th /\ pc[u] \in SubmitLabels
      BY <2>1, <1>2 DEF SubmitLabels, PushLabels
    <3>2. cur[u] \in Codes /\ cur[u] # c
      BY <3>1, <1>1, CurFacts DEF SubmitLabels, PushLabels, IdleLabels
    <3> QED BY <3>1, <3>2, <1>2 DEF Inv, PlacesInv, ControlInv, Call
  <2>2. \A w \in Workers : /\ pc'[w] \in WorkerLabels
                           /\ IF pc'[w] \in IdleLabels THEN cur[w] = Nobody ELSE cur[w] \in Tasks
    BY <1>1, <1>2, Disjointness DEF Inv, PlacesInv, ControlInv, WorkerLabels, IdleLabels
  <2>3. \A d \in Clients : cur[d] = d /\ pc'[d] \in ClientLabels
    BY <1>2, Disjointness DEF Inv, PlacesInv, ControlInv, ClientLabels, WaitLabels
  <2>4. \A d \in Codes : ip'[d] \in Nat \ {0}
    BY <1>2 DEF Inv, PlacesInv, ControlInv
  <2> QED BY <2>1, <2>2, <2>3, <2>4, <1>2, SMTT(30) DEF Inv, PlacesInv, ControlInv
<1>4. StackInv'
  BY <1>2 DEF Inv, PlacesInv, StackInv
<1>5. ASSUME NEW t \in Tasks, Issued(t)
      PROVE  Issued(t)'
  <2>0. PICK d \in Codes : \E i \in DOMAIN script[d] :
          /\ script[d][i].op \in Submissions /\ script[d][i].task = t
          /\ \/ i < ip[d]
             \/ i = ip[d] /\ caller[t] = d
             \/ i = ip[d] /\ \E u \in Threads : cur[u] = d /\ pc[u] \in PushLabels
    BY <1>5 DEF Issued
  <2>1. PICK i \in DOMAIN script[d] :
          /\ script[d][i].op \in Submissions /\ script[d][i].task = t
          /\ \/ i < ip[d]
             \/ i = ip[d] /\ caller[t] = d
             \/ i = ip[d] /\ \E u \in Threads : cur[u] = d /\ pc[u] \in PushLabels
    BY <2>0
  <2>2. CASE d = c
    <3>1. i < ip'[d]
      BY <2>1, <2>2, <1>1, <1>2 DEF Inv, TypeOK
    <3> QED BY <2>1, <3>1 DEF Issued
  <2>3. CASE d # c
    <3>1. ip'[d] = ip[d] /\ \A u \in Threads : cur[u] = d => pc'[u] = pc[u]
      BY <2>3, <1>2
    <3> QED BY <2>1, <3>1, <1>2 DEF Issued
  <2> QED BY <2>2, <2>3
<1>6. CASE UNCHANGED outcome
  <2>1. QueueInv'
    BY <1>2, <1>6 DEF Inv, PlacesInv, QueueInv, Queued, Running
  <2>2. \A t \in Tasks : Touched(t)' => Issued(t)'
    BY <1>2, <1>5, <1>6 DEF Inv, PlacesInv, IssueInv, Touched, Queued, Running
  <2> QED BY <1>2, <1>3, <1>4, <2>1, <2>2 DEF PlacesInv, IssueInv
<1>7. CASE /\ Ready(th) /\ Call(th).op \in Submissions
           /\ outcome' = [outcome EXCEPT ![Call(th).task] = "dropped"]
  <2>1. PICK s \in Tasks : s = Call(th).task /\ ~Touched(s)
    BY <1>7, Fresh DEF Ready
  <2>2. \A t \in Tasks : outcome'[t] = IF t = s THEN "dropped" ELSE outcome[t]
    BY <1>7, <2>1 DEF Inv, TypeOK
  <2>3. Issued(s)'
    <3>1. ip[c] \in DOMAIN script[c]
      BY <1>1, <1>7 DEF Ready, Inv, PlacesInv, ControlInv, TypeOK
    <3>2. ip[c] < ip'[c]
      BY <1>1, <1>2 DEF Inv, TypeOK
    <3>3. script'[c][ip[c]].op \in Submissions /\ script'[c][ip[c]].task = s
      BY <1>7, <2>1 DEF Call
    <3>4. ip[c] \in DOMAIN script'[c]
      BY <3>1
    <3> QED BY <1>1, <3>2, <3>3, <3>4 DEF Issued
  <2>4. QueueInv'
    BY <1>2, <2>1, <2>2 DEF Inv, PlacesInv, QueueInv, Queued, Running, Touched
  <2>5. \A t \in Tasks : Touched(t)' => Issued(t)'
    <3>1. \A t \in Tasks \ {s} : Touched(t)' => Touched(t)
      BY <1>2, <2>2 DEF Touched, Queued, Running
    <3> QED BY <1>5, <2>3, <3>1 DEF Inv, PlacesInv, IssueInv
  <2> QED BY <1>2, <1>3, <1>4, <2>4, <2>5 DEF PlacesInv, IssueInv
<1> QED BY <1>6, <1>7

\* A job enters a queue.
LEMMA PushKeepsPlaces ==
  ASSUME Inv, NEW th \in Threads, Push(th)
  PROVE  PlacesInv' /\ queue' \in [Workers -> Seq(Tasks)]
<1> DEFINE c == cur[th]
           q == target[th]
<1>1. /\ c \in Codes
      /\ q \in Workers
      /\ ip[c] <= Len(script[c]) /\ Call(th).op \in Submissions
      /\ (\A u \in Threads : cur[u] = c => u = th)
  BY CurFacts, Disjointness DEF Push, Inv, TypeOK, PlacesInv, ControlInv, SubmitLabels, IdleLabels
<1>2. PICK s \in Tasks : s = Call(th).task /\ ~Issued(s) /\ ~Touched(s)
  BY <1>1, Fresh DEF Push
<1>3. queue[q] \in Seq(Tasks) /\ Append(queue[q], s) \in Seq(Tasks)
  BY <1>1, <1>2 DEF Inv, TypeOK
<1>4. /\ queue' \in [Workers -> Seq(Tasks)]
      /\ \A w \in Workers : queue'[w] = IF w = q THEN Append(queue[q], s) ELSE queue[w]
  BY <1>1, <1>2, <1>3 DEF Push, Inv, TypeOK
<1>5. /\ \A u \in Threads : pc'[u] = IF u = th THEN "unlock" ELSE pc[u]
      /\ UNCHANGED <<script, cur, caller, ip, outcome>>
  BY DEF Push, Goto, Inv, TypeOK
<1>6. ControlInv'
  <2>1. \A u \in Threads : pc'[u] \in SubmitLabels =>
          ip[cur[u]] <= Len(script[cur[u]]) /\ Call(u)'.op \in Submissions
    BY <1>1, <1>5 DEF Inv, PlacesInv, ControlInv, Call
  <2>2. \A w \in Workers : /\ pc'[w] \in WorkerLabels
                           /\ IF pc'[w] \in IdleLabels THEN cur[w] = Nobody ELSE cur[w] \in Tasks
    <3>1. th \in Workers => c \in Tasks
      BY CurFacts DEF Push, IdleLabels
    <3>2. "unlock" \in WorkerLabels \ IdleLabels
      BY DEF WorkerLabels, IdleLabels, SubmitLabels, PushLabels
    <3> QED BY <1>5, <3>1, <3>2, Disjointness DEF Inv, PlacesInv, ControlInv
  <2>3. \A d \in Clients : cur[d] = d /\ pc'[d] \in ClientLabels
    BY <1>5, Disjointness DEF Inv, PlacesInv, ControlInv, ClientLabels, WaitLabels, SubmitLabels, PushLabels
  <2> QED BY <2>1, <2>2, <2>3, <1>5 DEF Inv, PlacesInv, ControlInv
<1>7. StackInv'
  BY <1>5 DEF Inv, PlacesInv, StackInv
<1>8. ASSUME NEW w \in Workers, NEW i \in DOMAIN queue'[w]
      PROVE  \/ w = q /\ i = Len(queue[q]) + 1 /\ queue'[w][i] = s
             \/ i \in DOMAIN queue[w] /\ queue'[w][i] = queue[w][i] /\ queue[w][i] # s
  <2>1. CASE w # q
    BY <2>1, <1>2, <1>4 DEF Touched, Queued
  <2>2. CASE w = q /\ i = Len(queue[q]) + 1
    BY <2>2, <1>3, <1>4
  <2>3. CASE w = q /\ i # Len(queue[q]) + 1
    <3>1. queue'[w] = Append(queue[q], s)
      BY <2>3, <1>1, <1>4
    <3>2. i \in DOMAIN queue[w] /\ queue'[w][i] = queue[w][i]
      BY <2>3, <3>1, <1>2, <1>3
    <3> QED BY <3>2, <1>2 DEF Touched, Queued
  <2> QED BY <2>1, <2>2, <2>3
<1>9. \A t \in Tasks : Queued(t)' => t = s \/ Queued(t)
  BY <1>8 DEF Queued
<1>10. QueueInv'
  <2>1. \A v, w \in Workers : \A i \in DOMAIN queue'[v], j \in DOMAIN queue'[w] :
          queue'[v][i] = queue'[w][j] => v = w /\ i = j
    BY <1>8 DEF Inv, PlacesInv, QueueInv
  <2>2. \A t \in Tasks : Queued(t)' => ~Running(t)' /\ outcome'[t] = "pending"
    BY <1>2, <1>5, <1>9 DEF Inv, PlacesInv, QueueInv, Touched, Running
  <2> QED BY <2>1, <2>2 DEF QueueInv
<1>11. ASSUME NEW t \in Tasks, Issued(t)
       PROVE  Issued(t)'
  BY <1>5, <1>11 DEF Issued, PushLabels
<1>12. Issued(s)'
  <2>1. ip[c] \in DOMAIN script[c]
    BY <1>1 DEF Inv, PlacesInv, ControlInv, TypeOK
  <2>2. script'[c][ip[c]].op \in Submissions /\ script'[c][ip[c]].task = s /\ ip' = ip
    BY <1>1, <1>2, <1>5 DEF Call
  <2>3. cur'[th] = c /\ pc'[th] \in PushLabels
    BY <1>5 DEF PushLabels
  <2> QED BY <1>1, <1>5, <2>1, <2>2, <2>3 DEF Issued
<1>13. \A t \in Tasks : Touched(t)' => t = s \/ Touched(t)
  BY <1>5, <1>9 DEF Touched, Running
<1> QED BY <1>4, <1>6, <1>7, <1>10, <1>11, <1>12, <1>13 DEF PlacesInv, IssueInv, Inv

\* A worker takes a job out of a queue.
LEMMA TakeKeepsPlaces ==
  ASSUME Inv, NEW w \in Workers, NEW q \in Workers, NEW i \in DOMAIN queue[q],
         pc[w] \in {"pop", "steal"}, Take(w, q, i),
         UNCHANGED <<script, caller, ip, outcome>>
  PROVE  /\ PlacesInv'
         /\ queue' \in [Workers -> Seq(Tasks)]
         /\ cur' \in [Threads -> Codes \cup {Nobody}]
<1>1. queue[q] \in Seq(Tasks) /\ w \in Threads
  BY Disjointness DEF Inv, TypeOK
<1>2. PICK s \in Tasks : s = queue[q][i]
  BY <1>1
<1>3. /\ RemoveAt(queue[q], i) \in Seq(Tasks)
      /\ Len(RemoveAt(queue[q], i)) = Len(queue[q]) - 1
      /\ \A j \in 1 .. (Len(queue[q]) - 1) :
           RemoveAt(queue[q], i)[j] = IF j < i THEN queue[q][j] ELSE queue[q][j + 1]
  BY <1>1, RemoveAtLemma
<1>4. /\ queue' \in [Workers -> Seq(Tasks)]
      /\ \A v \in Workers : queue'[v] = IF v = q THEN RemoveAt(queue[q], i) ELSE queue[v]
  BY <1>3 DEF Take, Inv, TypeOK
<1>5. /\ \A u \in Threads : pc'[u] = IF u = w THEN "popped" ELSE pc[u]
      /\ \A u \in Threads : cur'[u] = IF u = w THEN s ELSE cur[u]
      /\ cur' \in [Threads -> Codes \cup {Nobody}]
      /\ UNCHANGED <<script, caller, ip, outcome>>
  BY <1>1, <1>2, Disjointness DEF Take, Goto, Inv, TypeOK
<1>6. /\ cur[w] = Nobody
      /\ Queued(s) /\ ~Running(s) /\ outcome[s] = "pending" /\ Issued(s)
  <2>1. Queued(s)
    BY <1>2 DEF Queued
  <2>2. cur[w] = Nobody
    BY <1>1, CurFacts DEF IdleLabels
  <2> QED BY <2>1, <2>2 DEF Inv, PlacesInv, QueueInv, IssueInv, Touched
\* Where an element of a queue was before.
<1> DEFINE Old(v, j) == IF v = q /\ j >= i THEN j + 1 ELSE j
<1>7. ASSUME NEW v \in Workers, NEW j \in DOMAIN queue'[v]
      PROVE  /\ Old(v, j) \in DOMAIN queue[v]
             /\ queue'[v][j] = queue[v][Old(v, j)]
             /\ v = q => Old(v, j) # i
             /\ j \in Int
  <2>1. CASE v # q
    BY <2>1, <1>4 DEF Inv, TypeOK
  <2>2. CASE v = q
    <3>1. queue'[v] = RemoveAt(queue[q], i)
      BY <2>2, <1>4
    <3>2. j \in 1 .. (Len(queue[q]) - 1) /\ i \in 1 .. Len(queue[q]) /\ Len(queue[q]) \in Nat
      BY <3>1, <1>1, <1>3
    <3> QED BY <2>2, <3>1, <3>2, <1>1, <1>3, SMTT(30)
  <2> QED BY <2>1, <2>2
<1>8. \A v \in Workers : \A j, k \in DOMAIN queue'[v] : Old(v, j) = Old(v, k) => j = k
  BY <1>7, <1>1
<1> HIDE DEF Old
<1>9. \A t \in Tasks : Queued(t)' => Queued(t) /\ t # s
  <2> SUFFICES ASSUME NEW v \in Workers, NEW j \in DOMAIN queue'[v], queue'[v][j] \in Tasks
               PROVE  Queued(queue'[v][j]) /\ queue'[v][j] # s
    BY DEF Queued
  <2>1. queue'[v][j] = queue[v][Old(v, j)] /\ Old(v, j) \in DOMAIN queue[v]
    BY <1>7
  <2>2. queue[v][Old(v, j)] # queue[q][i]
    BY <2>1, <1>7 DEF Inv, PlacesInv, QueueInv
  <2> QED BY <2>1, <2>2, <1>2 DEF Queued
<1>10. \A t \in Tasks : Running(t)' => t = s \/ Running(t)
  BY <1>5, Disjointness DEF Running
<1>11. ControlInv'
  <2>1. ASSUME NEW u \in Threads, pc'[u] \in SubmitLabels
        PROVE  ip[cur'[u]] <= Len(script[cur'[u]]) /\ Call(u)'.op \in Submissions
    <3>1. u # w /\ pc[u] \in SubmitLabels /\ cur'[u] = cur[u]
      BY <2>1, <1>5 DEF SubmitLabels, PushLabels
    <3> QED BY <3>1, <1>5 DEF Inv, PlacesInv, ControlInv, Call
  <2>2. \A v \in Workers : /\ pc'[v] \in WorkerLabels
                           /\ IF pc'[v] \in IdleLabels THEN cur'[v] = Nobody ELSE cur'[v] \in Tasks
    <3>1. "popped" \in WorkerLabels \ IdleLabels
      BY DEF WorkerLabels, IdleLabels, SubmitLabels, PushLabels
    <3> QED BY <3>1, <1>5, Disjointness DEF Inv, PlacesInv, ControlInv
  <2>3. \A d \in Clients : cur'[d] = d /\ pc'[d] \in ClientLabels
    BY <1>5, Disjointness DEF Inv, PlacesInv, ControlInv
  <2> QED BY <2>1, <2>2, <2>3, <1>5 DEF Inv, PlacesInv, ControlInv
<1>12. StackInv'
  <2>1. \A u, v \in Workers : cur'[v] = cur'[u] /\ cur'[v] # Nobody => v = u
    BY <1>5, <1>6, Disjointness DEF Inv, PlacesInv, StackInv, Running
  <2>2. \A v \in Workers, t \in Tasks : cur'[v] # Nobody => cur'[v] # caller[t]
    BY <1>5, <1>6, Disjointness DEF Inv, PlacesInv, StackInv, Running
  <2> QED BY <2>1, <2>2, <1>5 DEF Inv, PlacesInv, StackInv
<1>13. QueueInv'
  <2>1. ASSUME NEW u \in Workers, NEW v \in Workers,
               NEW j \in DOMAIN queue'[u], NEW k \in DOMAIN queue'[v], queue'[u][j] = queue'[v][k]
        PROVE  u = v /\ j = k
    <3>1. u = v /\ Old(u, j) = Old(v, k)
      BY <2>1, <1>7 DEF Inv, PlacesInv, QueueInv
    <3> QED BY <3>1, <1>8
  <2>2. \A t \in Tasks : Queued(t)' => ~Running(t)' /\ outcome'[t] = "pending"
    BY <1>5, <1>9, <1>10 DEF Inv, PlacesInv, QueueInv
  <2> QED BY <2>1, <2>2 DEF QueueInv
<1>14. \A t \in Tasks : Issued(t) => Issued(t)'
  <2> SUFFICES ASSUME NEW t \in Tasks, NEW d \in Codes, NEW j \in DOMAIN script[d],
                      script[d][j].op \in Submissions, script[d][j].task = t,
                      \/ j < ip[d]
                      \/ j = ip[d] /\ caller[t] = d
                      \/ j = ip[d] /\ \E u \in Threads : cur[u] = d /\ pc[u] \in PushLabels
               PROVE  Issued(t)'
    BY DEF Issued
  <2>1. (\E u \in Threads : cur[u] = d /\ pc[u] \in PushLabels)
          => (\E u \in Threads : cur'[u] = d /\ pc'[u] \in PushLabels)
    BY <1>5 DEF PushLabels
  <2> QED BY <1>5, <2>1 DEF Issued
<1>15. \A t \in Tasks : Touched(t)' => t = s \/ Touched(t)
  BY <1>5, <1>9, <1>10 DEF Touched
<1> QED BY <1>4, <1>5, <1>6, <1>11, <1>12, <1>13, <1>14, <1>15 DEF PlacesInv, IssueInv, Inv

\* A job starts inline on top of the one that calls it.
LEMMA RunInlineKeepsPlaces ==
  ASSUME Inv, NEW w \in Workers, RunInline(w)
  PROVE  /\ PlacesInv'
         /\ cur' \in [Threads -> Codes \cup {Nobody}]
         /\ caller' \in [Tasks -> Tasks \cup {Nobody}]
<1>1. PICK c \in Tasks : /\ c = cur[w]
                        /\ ip[c] <= Len(script[c])
                        /\ script[c][ip[c]] = Call(w)
  BY CurFacts, Disjointness DEF RunInline, Ready, IdleLabels, Call
<1>2. w \in Threads /\ pc[w] = "run" /\ Call(w).op \in Submissions
  BY Disjointness DEF RunInline, Ready, Submissions
<1>3. PICK s \in Tasks : s = Call(w).task /\ ~Issued(s) /\ ~Touched(s)
  BY <1>1, <1>2, Fresh
<1>4. /\ \A u \in Threads : cur'[u] = IF u = w THEN s ELSE cur[u]
      /\ \A t \in Tasks : caller'[t] = IF t = s THEN c ELSE caller[t]
      /\ cur' \in [Threads -> Codes \cup {Nobody}]
      /\ caller' \in [Tasks -> Tasks \cup {Nobody}]
      /\ UNCHANGED <<script, queue, pc, ip, outcome>>
  BY <1>1, <1>2, <1>3, Disjointness, ZenonT(60) DEF RunInline, Inv, TypeOK, queues
<1>5. \A v \in Workers : cur[v] # s /\ (cur[v] = c => v = w)
  BY <1>1, <1>3, Disjointness DEF Touched, Running, Inv, PlacesInv, StackInv
<1>6. /\ caller[s] = Nobody
      /\ \A t \in Tasks : caller[t] # s /\ caller[t] # c
  BY <1>1, <1>3, Disjointness DEF Touched, Running, Inv, PlacesInv, StackInv
<1>7. s # c
  BY <1>1, <1>5
<1>8. ControlInv'
  <2>1. ASSUME NEW u \in Threads, pc'[u] \in SubmitLabels
        PROVE  ip[cur'[u]] <= Len(script[cur'[u]]) /\ Call(u)'.op \in Submissions
    <3>1. u # w /\ pc[u] \in SubmitLabels /\ cur'[u] = cur[u]
      BY <2>1, <1>2, <1>4 DEF SubmitLabels, PushLabels
    <3> QED BY <3>1, <1>4 DEF Inv, PlacesInv, ControlInv, Call
  <2>2. \A v \in Workers : /\ pc'[v] \in WorkerLabels
                           /\ IF pc'[v] \in IdleLabels THEN cur'[v] = Nobody ELSE cur'[v] \in Tasks
    BY <1>2, <1>4, Disjointness DEF Inv, PlacesInv, ControlInv, IdleLabels
  <2>3. \A d \in Clients : cur'[d] = d /\ pc'[d] \in ClientLabels
    BY <1>4, Disjointness DEF Inv, PlacesInv, ControlInv
  <2> QED BY <2>1, <2>2, <2>3, <1>4 DEF Inv, PlacesInv, ControlInv
<1>9. StackInv'
  <2>1. \A u, v \in Workers : cur'[v] = cur'[u] /\ cur'[v] # Nobody => v = u
    BY <1>4, <1>5, Disjointness DEF Inv, PlacesInv, StackInv
  <2>2. \A t, u \in Tasks : caller'[t] = caller'[u] /\ caller'[t] # Nobody => t = u
    BY <1>4, <1>6 DEF Inv, PlacesInv, StackInv
  <2>3. \A v \in Workers, t \in Tasks : cur'[v] # Nobody => cur'[v] # caller'[t]
    BY <1>4, <1>5, <1>6, <1>7, Disjointness DEF Inv, PlacesInv, StackInv
  <2> QED BY <2>1, <2>2, <2>3 DEF StackInv
<1>10. \A t \in Tasks : Running(t)' => t = s \/ Running(t)
  BY <1>1, <1>4, Disjointness DEF Running
<1>11. \A t \in Tasks : Queued(t)' <=> Queued(t)
  BY <1>4 DEF Queued
<1>12. QueueInv'
  <2>1. \A t \in Tasks : Queued(t)' => ~Running(t)' /\ outcome'[t] = "pending"
    BY <1>3, <1>4, <1>10, <1>11 DEF Inv, PlacesInv, QueueInv, Touched
  <2> QED BY <1>4, <2>1 DEF Inv, PlacesInv, QueueInv
<1>13. ASSUME NEW t \in Tasks, Issued(t)
       PROVE  Issued(t)'
  <2>1. t # s
    BY <1>3, <1>13
  <2>2. \A u \in Threads : pc[u] \in PushLabels => cur'[u] = cur[u]
    BY <1>2, <1>4 DEF PushLabels
  <2> QED BY <1>4, <1>13, <2>1, <2>2 DEF Issued
<1>14. Issued(s)'
  <2>1. ip[c] \in DOMAIN script[c]
    BY <1>1, Disjointness DEF Inv, PlacesInv, ControlInv, TypeOK
  <2>2. script'[c][ip'[c]].op \in Submissions /\ script'[c][ip'[c]].task = s /\ caller'[s] = c
    BY <1>1, <1>2, <1>3, <1>4
  <2>3. c \in Codes /\ ip'[c] \in DOMAIN script'[c]
    BY <1>4, <2>1, Disjointness
  <2> QED BY <2>2, <2>3 DEF Issued
<1>15. \A t \in Tasks : Touched(t)' => t = s \/ Touched(t)
  BY <1>4, <1>10, <1>11 DEF Touched
<1> QED BY <1>4, <1>8, <1>9, <1>12, <1>13, <1>14, <1>15 DEF PlacesInv, IssueInv, Inv

\* A job ends.
LEMMA EndKeepsPlaces ==
  ASSUME Inv, NEW w \in Workers, JobEnds(w)
  PROVE  PlacesInv' /\ outcome' \in [Tasks -> Outcomes]
<1>1. PICK s \in Tasks : s = cur[w]
  BY CurFacts, Disjointness DEF JobEnds, IdleLabels
<1>2. w \in Threads /\ pc[w] = "run" /\ Running(s) /\ ~Queued(s) /\ Issued(s)
  BY <1>1, Disjointness DEF JobEnds, Running, Inv, PlacesInv, QueueInv, IssueInv, Touched
<1>3. /\ \A u \in Threads : pc'[u] = IF u = w THEN "finished" ELSE pc[u]
      /\ \A t \in Tasks : t # s => outcome'[t] = outcome[t]
      /\ outcome' \in [Tasks -> Outcomes]
      /\ UNCHANGED <<script, queue, cur, caller, ip>>
  BY <1>1, <1>2 DEF JobEnds, Goto, Inv, TypeOK, queues, Outcomes
<1>4. ControlInv'
  <2>1. \A u \in Threads : pc'[u] \in SubmitLabels =>
          ip[cur[u]] <= Len(script[cur[u]]) /\ Call(u)'.op \in Submissions
    BY <1>3 DEF Inv, PlacesInv, ControlInv, Call, SubmitLabels, PushLabels
  <2>2. \A v \in Workers : /\ pc'[v] \in WorkerLabels
                           /\ IF pc'[v] \in IdleLabels THEN cur[v] = Nobody ELSE cur[v] \in Tasks
    <3>1. "finished" \in WorkerLabels \ IdleLabels
      BY DEF WorkerLabels, IdleLabels, SubmitLabels, PushLabels
    <3> QED BY <1>1, <1>3, <3>1, Disjointness DEF Inv, PlacesInv, ControlInv
  <2>3. \A d \in Clients : cur[d] = d /\ pc'[d] \in ClientLabels
    BY <1>3, Disjointness DEF Inv, PlacesInv, ControlInv
  <2> QED BY <2>1, <2>2, <2>3, <1>3 DEF Inv, PlacesInv, ControlInv
<1>5. StackInv'
  BY <1>3 DEF Inv, PlacesInv, StackInv
<1>6. QueueInv'
  BY <1>2, <1>3 DEF Inv, PlacesInv, QueueInv, Queued, Running
<1>7. \A t \in Tasks : Issued(t) => Issued(t)'
  BY <1>2, <1>3 DEF Issued, PushLabels
<1>8. \A t \in Tasks : Touched(t)' => t = s \/ Touched(t)
  BY <1>3 DEF Touched, Queued, Running
<1> QED BY <1>2, <1>3, <1>4, <1>5, <1>6, <1>7, <1>8 DEF PlacesInv, IssueInv, Inv

\* A job is left: its frame goes, and the one below it, if any, goes on.
LEMMA LeaveKeepsPlaces ==
  ASSUME Inv, NEW w \in Workers, pc[w] \in {"finished", "notifyAll"}, Leave(w),
         UNCHANGED <<script, queue, outcome>>
  PROVE  /\ PlacesInv'
         /\ cur' \in [Threads -> Codes \cup {Nobody}]
         /\ caller' \in [Tasks -> Tasks \cup {Nobody}]
         /\ ip' \in [Codes -> Nat]
<1>1. PICK s \in Tasks : s = cur[w]
  BY CurFacts, Disjointness DEF IdleLabels
<1>2. PICK up \in Tasks \cup {Nobody} : up = caller[s]
  BY DEF Inv, TypeOK
<1>3. w \in Threads /\ Codes = Clients \cup Tasks
  BY Disjointness
<1>4. /\ \A u \in Threads : cur'[u] = IF u = w THEN up ELSE cur[u]
      /\ \A t \in Tasks : caller'[t] = IF t = s THEN Nobody ELSE caller[t]
      /\ \A d \in Codes : ip'[d] = IF d = up THEN ip[d] + 1 ELSE ip[d]
      /\ \A u \in Threads : pc'[u] = IF u = w THEN (IF up = Nobody THEN "pop" ELSE "run") ELSE pc[u]
  BY <1>1, <1>2, <1>3, Disjointness DEF Leave, Goto, Inv, TypeOK
<1>5. /\ cur' \in [Threads -> Codes \cup {Nobody}]
      /\ caller' \in [Tasks -> Tasks \cup {Nobody}]
      /\ ip' \in [Codes -> Nat]
  BY <1>1, <1>2, <1>3 DEF Leave, Inv, TypeOK
<1>6. \A u \in Threads : cur[u] # Nobody => cur[u] # up
  BY <1>1, <1>2, Disjointness DEF Inv, PlacesInv, ControlInv, StackInv
<1>7. ControlInv'
  <2>1. ASSUME NEW u \in Threads, pc'[u] \in SubmitLabels
        PROVE  ip'[cur'[u]] <= Len(script[cur'[u]]) /\ Call(u)'.op \in Submissions
    <3>1. u # w /\ pc[u] \in SubmitLabels /\ cur'[u] = cur[u]
      BY <2>1, <1>4 DEF SubmitLabels, PushLabels
    <3>2. cur[u] \in Codes /\ cur[u] # Nobody
      BY <3>1, CurFacts, Disjointness DEF SubmitLabels, PushLabels, IdleLabels
    <3>3. ip'[cur[u]] = ip[cur[u]]
      BY <3>2, <1>4, <1>6
    <3> QED BY <3>1, <3>3 DEF Inv, PlacesInv, ControlInv, Call
  <2>2. \A v \in Workers : /\ pc'[v] \in WorkerLabels
                           /\ IF pc'[v] \in IdleLabels THEN cur'[v] = Nobody ELSE cur'[v] \in Tasks
    <3>1. /\ "pop" \in WorkerLabels /\ "pop" \in IdleLabels
          /\ "run" \in WorkerLabels /\ "run" \notin IdleLabels
      BY DEF WorkerLabels, IdleLabels, SubmitLabels, PushLabels
    <3> QED BY <1>2, <1>4, <3>1, Disjointness DEF Inv, PlacesInv, ControlInv
  <2>3. \A d \in Clients : cur'[d] = d /\ pc'[d] \in ClientLabels
    BY <1>4, Disjointness DEF Inv, PlacesInv, ControlInv
  <2>4. \A d \in Codes : ip'[d] \in Nat \ {0}
    BY <1>4 DEF Inv, PlacesInv, ControlInv
  <2> QED BY <2>1, <2>2, <2>3, <2>4 DEF Inv, PlacesInv, ControlInv
<1>8. StackInv'
  <2>1. \A u, v \in Workers : cur'[v] = cur'[u] /\ cur'[v] # Nobody => v = u
    BY <1>4, <1>6, Disjointness DEF Inv, PlacesInv, StackInv
  <2>2. \A t, u \in Tasks : caller'[t] = caller'[u] /\ caller'[t] # Nobody => t = u
    BY <1>4 DEF Inv, PlacesInv, StackInv
  <2>3. \A v \in Workers, t \in Tasks : cur'[v] # Nobody => cur'[v] # caller'[t]
    BY <1>1, <1>2, <1>4, Disjointness DEF Inv, PlacesInv, StackInv
  <2> QED BY <2>1, <2>2, <2>3 DEF StackInv
<1>9. \A t \in Tasks : Running(t)' => Running(t)
  BY <1>1, <1>2, <1>4, Disjointness DEF Running
<1>10. \A t \in Tasks : Queued(t)' <=> Queued(t)
  BY DEF Queued
<1>11. QueueInv'
  BY <1>9, <1>10 DEF Inv, PlacesInv, QueueInv
<1>12. ASSUME NEW t \in Tasks, Issued(t)
       PROVE  Issued(t)'
  <2>1. PICK d \in Codes : \E i \in DOMAIN script[d] :
          /\ script[d][i].op \in Submissions /\ script[d][i].task = t
          /\ \/ i < ip[d]
             \/ i = ip[d] /\ caller[t] = d
             \/ i = ip[d] /\ \E u \in Threads : cur[u] = d /\ pc[u] \in PushLabels
    BY <1>12 DEF Issued
  <2>2. PICK i \in DOMAIN script[d] :
          /\ script[d][i].op \in Submissions /\ script[d][i].task = t
          /\ \/ i < ip[d]
             \/ i = ip[d] /\ caller[t] = d
             \/ i = ip[d] /\ \E u \in Threads : cur[u] = d /\ pc[u] \in PushLabels
    BY <2>1
  <2>3. CASE d = up
    <3>1. i < ip'[d]
      BY <2>2, <2>3, <1>4 DEF Inv, TypeOK
    <3> QED BY <2>2, <3>1 DEF Issued
  <2>4. CASE d # up
    <3>1. ip'[d] = ip[d]
      BY <2>4, <1>4
    <3>2. caller[t] = d => caller'[t] = d
      BY <2>4, <1>2, <1>4
    <3>3. \A u \in Threads : pc[u] \in PushLabels => cur'[u] = cur[u] /\ pc'[u] = pc[u]
      BY <1>4 DEF PushLabels
    <3> QED BY <2>2, <3>1, <3>2, <3>3 DEF Issued
  <2> QED BY <2>3, <2>4
<1>13. \A t \in Tasks : Touched(t)' => Touched(t)
  BY <1>4, <1>9, <1>10 DEF Touched
<1> QED BY <1>5, <1>7, <1>8, <1>11, <1>12, <1>13 DEF PlacesInv, IssueInv, Inv
-----------------------------------------------------------------------------
(* Every step keeps the invariant. *)

LEMMA TypeFacts ==
  ASSUME Inv
  PROVE  /\ script \in [Codes -> Seq(Op)] /\ queue \in [Workers -> Seq(Tasks)]
         /\ queueLock \in [Workers -> Threads \cup {Nobody}]
         /\ queuedTasks \in 0 .. (SizeT - 1) /\ activeTasks \in Int
         /\ Inc(queuedTasks) \in 0 .. (SizeT - 1) /\ Dec(queuedTasks) \in 0 .. (SizeT - 1)
         /\ nextWorker \in Workers /\ waitMutex \in Clients \cup {Nobody} /\ waitSet \subseteq Threads
         /\ pc \in [Threads -> Labels] /\ cur \in [Threads -> Codes \cup {Nobody}]
         /\ caller \in [Tasks -> Tasks \cup {Nobody}] /\ ip \in [Codes -> Nat]
         /\ target \in [Threads -> Workers] /\ outcome \in [Tasks -> Outcomes]
BY ConstantFacts DEF Inv, TypeOK

LEMMA SubmitKeepsInv ==
  ASSUME Inv, NEW th \in Threads, Submit(th)
  PROVE  Inv'
<1> USE DEF control, cv, counts, queues
<1>1. CASE Refuse(th)
  <2>1. PlacesInv' /\ ip' \in [Codes -> Nat]
    BY <1>1, ReturnKeepsPlaces DEF Refuse, Ready, IdleLabels
  <2>2. outcome' \in [Tasks -> Outcomes] /\ pc' \in [Threads -> Labels]
    BY <1>1, TypeFacts DEF Refuse, Return, Goto, Labels, Outcomes
  <2> QED BY <1>1, <2>1, <2>2 DEF Refuse, Return, Inv, TypeOK
<1>2. CASE ChooseQueue(th)
  <2>1. Moves(th, "push")
    BY <1>2, Disjointness, CurFacts DEF ChooseQueue, Ready, Moves, WorkerLabels, ClientLabels, WaitLabels, SubmitLabels, PushLabels, IdleLabels
  <2>2. PlacesInv'
    BY <1>2, <2>1, MoveKeepsPlaces DEF ChooseQueue
  <2>3. pc' \in [Threads -> Labels] /\ target' \in [Threads -> Workers] /\ nextWorker' \in Workers
    BY <1>2, TypeFacts, ConstantFacts DEF ChooseQueue, Goto, Labels
  <2> QED BY <1>2, <2>2, <2>3 DEF ChooseQueue, Inv, TypeOK
<1>3. CASE Push(th)
  <2>1. PlacesInv' /\ queue' \in [Workers -> Seq(Tasks)]
    BY <1>3, PushKeepsPlaces
  <2>2. pc' \in [Threads -> Labels] /\ queueLock' \in [Workers -> Threads \cup {Nobody}]
    BY <1>3, TypeFacts DEF Push, Goto, Labels
  <2> QED BY <1>3, <2>1, <2>2 DEF Push, Inv, TypeOK
<1>4. CASE Unlock(th)
  <2>1. Moves(th, "addQueued")
    BY <1>4, Disjointness DEF Unlock, Moves, WorkerLabels, ClientLabels, WaitLabels, SubmitLabels, PushLabels, IdleLabels
  <2>2. PlacesInv'
    BY <1>4, <2>1, MoveKeepsPlaces DEF Unlock
  <2>3. pc' \in [Threads -> Labels] /\ queueLock' \in [Workers -> Threads \cup {Nobody}]
    BY <1>4, TypeFacts DEF Unlock, Goto, Labels
  <2> QED BY <1>4, <2>2, <2>3 DEF Unlock, Inv, TypeOK
<1>5. CASE AddQueued(th)
  <2>1. Moves(th, "addActive")
    BY <1>5, Disjointness DEF AddQueued, Moves, WorkerLabels, ClientLabels, WaitLabels, SubmitLabels, PushLabels, IdleLabels
  <2>2. PlacesInv'
    BY <1>5, <2>1, MoveKeepsPlaces DEF AddQueued
  <2>3. pc' \in [Threads -> Labels] /\ queuedTasks' \in 0 .. (SizeT - 1)
    BY <1>5, TypeFacts DEF AddQueued, Goto, Labels
  <2> QED BY <1>5, <2>2, <2>3 DEF AddQueued, Inv, TypeOK
<1>6. CASE AddActive(th)
  <2>1. Moves(th, "notify")
    BY <1>6, Disjointness DEF AddActive, Moves, WorkerLabels, ClientLabels, WaitLabels, SubmitLabels, PushLabels, IdleLabels
  <2>2. PlacesInv'
    BY <1>6, <2>1, MoveKeepsPlaces DEF AddActive
  <2>3. pc' \in [Threads -> Labels] /\ activeTasks' \in Int
    BY <1>6, TypeFacts DEF AddActive, Goto, Labels
  <2> QED BY <1>6, <2>2, <2>3 DEF AddActive, Inv, TypeOK
<1>7. CASE Notify(th)
  <2>1. PlacesInv' /\ ip' \in [Codes -> Nat]
    BY <1>7, ReturnKeepsPlaces DEF Notify, IdleLabels
  <2>2. pc' \in [Threads -> Labels] /\ waitSet' \subseteq Threads
    BY <1>7, TypeFacts DEF Notify, NotifyOne, Return, Goto, Labels
  <2> QED BY <1>7, <2>1, <2>2 DEF Notify, Return, Inv, TypeOK
<1>8. CASE Await(th)
  <2>1. PlacesInv' /\ ip' \in [Codes -> Nat]
    BY <1>8, ReturnKeepsPlaces DEF Await, Ready, IdleLabels
  <2>2. pc' \in [Threads -> Labels]
    BY <1>8, TypeFacts DEF Await, Return, Goto, Labels
  <2> QED BY <1>8, <2>1, <2>2 DEF Await, Return, Inv, TypeOK
<1> QED BY <1>1, <1>2, <1>3, <1>4, <1>5, <1>6, <1>7, <1>8 DEF Submit

LEMMA WorkerKeepsInv ==
  ASSUME Inv, NEW w \in Workers, WorkerStep(w)
  PROVE  Inv'
<1> USE DEF control, cv, counts, queues
<1>0. w \in Threads
  BY Disjointness
<1>1. CASE Submit(w)
  BY <1>0, <1>1, SubmitKeepsInv
<1>2. CASE RunInline(w)
  <2>1. /\ PlacesInv'
        /\ cur' \in [Threads -> Codes \cup {Nobody}]
        /\ caller' \in [Tasks -> Tasks \cup {Nobody}]
    BY <1>2, RunInlineKeepsPlaces
  <2>2. activeTasks' \in Int
    BY <1>2, TypeFacts DEF RunInline
  <2> QED BY <1>2, <2>1, <2>2 DEF RunInline, Inv, TypeOK
<1>3. ASSUME NEW q \in Workers, TryNext(w, q), pc[w] \in {"pop", "steal"},
             UNCHANGED <<script, counts, stop, nextWorker, cv, caller, ip, outcome>>
      PROVE  Inv'
  <2> DEFINE l == IF q = w THEN "check" ELSE "steal"
  <2>1. Moves(w, l)
    BY <1>3 DEF Moves, WorkerLabels, SubmitLabels, PushLabels, IdleLabels
  <2>2. PlacesInv'
    BY <1>0, <1>3, <2>1, MoveKeepsPlaces DEF TryNext
  <2>3. pc' \in [Threads -> Labels] /\ target' \in [Threads -> Workers]
    BY <1>0, <1>3, TypeFacts DEF TryNext, Goto, Labels
  <2> QED BY <1>3, <2>2, <2>3 DEF TryNext, Inv, TypeOK
<1>4. ASSUME NEW q \in Workers, NEW i \in DOMAIN queue[q], Take(w, q, i), pc[w] \in {"pop", "steal"},
             UNCHANGED <<script, counts, stop, nextWorker, cv, caller, ip, outcome>>
      PROVE  Inv'
  <2>1. /\ PlacesInv'
        /\ queue' \in [Workers -> Seq(Tasks)]
        /\ cur' \in [Threads -> Codes \cup {Nobody}]
    BY <1>4, TakeKeepsPlaces
  <2>2. /\ pc' \in [Threads -> Labels] /\ target' \in [Threads -> Workers]
        /\ queueLock' \in [Workers -> Threads \cup {Nobody}]
    BY <1>0, <1>4, TypeFacts DEF Take, Goto, Labels
  <2> QED BY <1>4, <2>1, <2>2 DEF Inv, TypeOK
<1>5. CASE TryPopLocal(w)
  <2>1. PopLocal(queue[w]) \subseteq DOMAIN queue[w]
    BY TypeFacts DEF PopLocal, HeapTop
  <2>2. NextQueue(w) \in Workers
    BY ConstantFacts
  <2> QED BY <1>3, <1>4, <1>5, <2>1, <2>2 DEF TryPopLocal
<1>6. CASE TrySteal(w)
  <2>1. target[w] \in Workers /\ NextQueue(target[w]) \in Workers
    BY <1>0, TypeFacts, ConstantFacts
  <2>2. PopSteal(queue[target[w]]) \subseteq DOMAIN queue[target[w]]
    BY DEF PopSteal, HeapTop
  <2> QED BY <1>3, <1>4, <1>6, <2>1, <2>2 DEF TrySteal
<1>7. CASE FinishPop(w)
  <2>1. Moves(w, "run")
    BY <1>7 DEF FinishPop, Moves, WorkerLabels, SubmitLabels, PushLabels, IdleLabels
  <2>2. PlacesInv'
    BY <1>0, <1>7, <2>1, MoveKeepsPlaces DEF FinishPop
  <2>3. /\ pc' \in [Threads -> Labels] /\ queuedTasks' \in 0 .. (SizeT - 1)
        /\ queueLock' \in [Workers -> Threads \cup {Nobody}]
    BY <1>0, <1>7, TypeFacts DEF FinishPop, Goto, Labels
  <2> QED BY <1>7, <2>2, <2>3 DEF FinishPop, Inv, TypeOK
<1>8. CASE CheckForWork(w)
  <2>1. PICK l \in {"check", "pop", "exit"} : Goto(w, l)
    BY <1>0, <1>8, TypeFacts DEF CheckForWork, Goto
  <2>2. Moves(w, l)
    BY <1>8, <2>1 DEF CheckForWork, Moves, WorkerLabels, SubmitLabels, PushLabels, IdleLabels
  <2>3. PlacesInv'
    BY <1>0, <1>8, <2>1, <2>2, MoveKeepsPlaces DEF CheckForWork
  <2>4. pc' \in [Threads -> Labels] /\ waitSet' \subseteq Threads
    BY <1>0, <1>8, TypeFacts DEF CheckForWork, Goto, Labels
  <2> QED BY <1>8, <2>3, <2>4 DEF CheckForWork, Inv, TypeOK
<1>9. CASE JobEnds(w)
  <2>1. PlacesInv' /\ outcome' \in [Tasks -> Outcomes]
    BY <1>9, EndKeepsPlaces
  <2>2. pc' \in [Threads -> Labels]
    BY <1>0, <1>9, TypeFacts DEF JobEnds, Goto, Labels
  <2> QED BY <1>9, <2>1, <2>2 DEF JobEnds, Inv, TypeOK
<1>10. ASSUME Leave(w), pc[w] \in {"finished", "notifyAll"},
              UNCHANGED <<script, queue, outcome>>
       PROVE  /\ PlacesInv' /\ pc' \in [Threads -> Labels] /\ target' = target
              /\ cur' \in [Threads -> Codes \cup {Nobody}]
              /\ caller' \in [Tasks -> Tasks \cup {Nobody}]
              /\ ip' \in [Codes -> Nat]
  <2>1. pc' \in [Threads -> Labels] /\ target' = target
    BY <1>0, <1>10, TypeFacts DEF Leave, Goto, Labels
  <2> QED BY <1>10, <2>1, LeaveKeepsPlaces
<1>11. CASE SubActive(w)
  <2>1. activeTasks' \in Int
    BY <1>11, TypeFacts DEF SubActive
  <2>2. CASE activeTasks = 1 /\ Goto(w, "notifyAll") /\ UNCHANGED <<cur, caller, ip, target>>
    <3>1. Moves(w, "notifyAll")
      BY <1>11 DEF SubActive, Moves, WorkerLabels, SubmitLabels, PushLabels, IdleLabels
    <3>2. PlacesInv'
      BY <1>0, <1>11, <2>2, <3>1, MoveKeepsPlaces DEF SubActive
    <3>3. pc' \in [Threads -> Labels]
      BY <1>0, <2>2, TypeFacts DEF Goto, Labels
    <3> QED BY <1>11, <2>1, <2>2, <3>2, <3>3 DEF SubActive, Inv, TypeOK
  <2>3. CASE Leave(w)
    <3>1. /\ PlacesInv' /\ pc' \in [Threads -> Labels] /\ target' = target
          /\ cur' \in [Threads -> Codes \cup {Nobody}]
          /\ caller' \in [Tasks -> Tasks \cup {Nobody}]
          /\ ip' \in [Codes -> Nat]
      BY <1>10, <1>11, <2>3 DEF SubActive
    <3> QED BY <1>11, <2>1, <3>1 DEF SubActive, Inv, TypeOK
  <2> QED BY <1>11, <2>2, <2>3 DEF SubActive
<1>12. CASE NotifyWaiters(w)
  <2>1. /\ PlacesInv' /\ pc' \in [Threads -> Labels] /\ target' = target
        /\ cur' \in [Threads -> Codes \cup {Nobody}]
        /\ caller' \in [Tasks -> Tasks \cup {Nobody}]
        /\ ip' \in [Codes -> Nat]
    BY <1>10, <1>12 DEF NotifyWaiters
  <2> QED BY <1>12, <2>1 DEF NotifyWaiters, NotifyAll, Inv, TypeOK
<1> QED BY <1>1, <1>2, <1>5, <1>6, <1>7, <1>8, <1>9, <1>11, <1>12 DEF WorkerStep

LEMMA ClientKeepsInv ==
  ASSUME Inv, NEW c \in Clients, ClientStep(c)
  PROVE  Inv'
<1> USE DEF control, cv, counts, queues
<1>0. c \in Threads /\ c \notin Workers
  BY Disjointness
<1>1. CASE Submit(c)
  BY <1>0, <1>1, SubmitKeepsInv
\* The two things WaitReturns, Block and the other steps do to control.
<1>2. ASSUME NEW l \in {"run", "readQueued", "setStop", "stopNotify", "join"}, Goto(c, l),
             pc[c] \notin PushLabels, UNCHANGED <<script, queue, cur, caller, ip, outcome>>
      PROVE  PlacesInv' /\ pc' \in [Threads -> Labels]
  <2>1. Moves(c, l)
    BY <1>0, <1>2 DEF Moves, ClientLabels, WaitLabels, SubmitLabels, PushLabels
  <2>2. PlacesInv'
    BY <1>0, <1>2, <2>1, MoveKeepsPlaces
  <2>3. pc' \in [Threads -> Labels]
    BY <1>0, <1>2, TypeFacts DEF Goto, Labels
  <2> QED BY <2>2, <2>3
<1>3. ASSUME Return(c), pc[c] \notin PushLabels, UNCHANGED <<script, queue, outcome>>
      PROVE  PlacesInv' /\ pc' \in [Threads -> Labels] /\ ip' \in [Codes -> Nat]
  <2>1. PlacesInv' /\ ip' \in [Codes -> Nat]
    BY <1>0, <1>3, CurFacts, ReturnKeepsPlaces
  <2>2. pc' \in [Threads -> Labels]
    BY <1>0, <1>3, TypeFacts DEF Return, Goto, Labels
  <2> QED BY <2>1, <2>2
<1>4. ASSUME WaitReturns(c), pc[c] \in {"run", "readQueued"}, UNCHANGED <<script, queue, outcome>>
      PROVE  /\ PlacesInv' /\ pc' \in [Threads -> Labels] /\ ip' \in [Codes -> Nat]
             /\ UNCHANGED <<cur, caller, target>>
  <2>1. pc[c] \notin PushLabels
    BY <1>4 DEF PushLabels
  <2>2. CASE Call(c).op = "destroy"
    BY <1>2, <1>4, <2>1, <2>2, TypeFacts DEF WaitReturns
  <2>3. CASE Call(c).op # "destroy"
    BY <1>3, <1>4, <2>1, <2>3 DEF WaitReturns, Return
  <2> QED BY <2>2, <2>3
<1>5. CASE WaitForAllTasks(c)
  <2>1. pc[c] = "run" /\ "run" \notin PushLabels /\ UNCHANGED <<script, queue, outcome>>
    BY <1>5 DEF WaitForAllTasks, Ready, PushLabels
  <2>2. CASE stop /\ WaitReturns(c) /\ UNCHANGED cv
    BY <1>4, <1>5, <2>1, <2>2 DEF WaitForAllTasks, Inv, TypeOK
  <2>3. CASE ~stop /\ activeTasks # 0 /\ Block(c) /\ UNCHANGED waitMutex
    <3>1. Goto(c, "run")
      BY <1>0, <2>1, <2>3, TypeFacts DEF Block, Goto
    <3>2. PlacesInv'
      BY <1>2, <2>1, <2>3, <3>1 DEF Block
    <3>3. waitSet' \subseteq Threads
      BY <1>0, <2>3, TypeFacts DEF Block
    <3> QED BY <1>5, <2>3, <3>2, <3>3 DEF WaitForAllTasks, Block, Inv, TypeOK
  <2>4. CASE /\ ~stop /\ activeTasks = 0 /\ waitMutex' = c /\ Goto(c, "readQueued")
             /\ UNCHANGED <<waitSet, cur, caller, ip, target>>
    <3>1. PlacesInv' /\ pc' \in [Threads -> Labels]
      BY <1>2, <2>1, <2>4
    <3> QED BY <1>5, <2>4, <3>1 DEF WaitForAllTasks, Inv, TypeOK
  <2> QED BY <1>5, <2>2, <2>3, <2>4 DEF WaitForAllTasks
<1>6. CASE ReadQueued(c)
  <2>1. pc[c] = "readQueued" /\ "readQueued" \notin PushLabels /\ UNCHANGED <<script, queue, outcome>>
    BY <1>6 DEF ReadQueued, PushLabels
  <2>2. CASE queuedTasks = 0 /\ WaitReturns(c) /\ UNCHANGED waitSet
    BY <1>4, <1>6, <2>1, <2>2 DEF ReadQueued, Inv, TypeOK
  <2>3. CASE /\ queuedTasks # 0 /\ waitSet' = waitSet \cup {c} /\ Goto(c, "run")
             /\ UNCHANGED <<cur, caller, ip, target>>
    <3>1. PlacesInv' /\ pc' \in [Threads -> Labels]
      BY <1>2, <2>1, <2>3
    <3>2. waitSet' \subseteq Threads
      BY <1>0, <2>3, TypeFacts
    <3> QED BY <1>6, <2>3, <3>1, <3>2 DEF ReadQueued, Inv, TypeOK
  <2> QED BY <1>6, <2>2, <2>3 DEF ReadQueued
<1>7. CASE SetStop(c)
  <2>1. PlacesInv' /\ pc' \in [Threads -> Labels]
    BY <1>2, <1>7 DEF SetStop, PushLabels
  <2> QED BY <1>7, <2>1 DEF SetStop, Inv, TypeOK
<1>8. CASE StopNotify(c)
  <2>1. PlacesInv' /\ pc' \in [Threads -> Labels]
    BY <1>2, <1>8 DEF StopNotify, PushLabels
  <2> QED BY <1>8, <2>1 DEF StopNotify, NotifyAll, Inv, TypeOK
<1>9. CASE Join(c)
  <2>1. PlacesInv' /\ pc' \in [Threads -> Labels] /\ ip' \in [Codes -> Nat]
    BY <1>3, <1>9 DEF Join, PushLabels
  <2> QED BY <1>9, <2>1 DEF Join, Return, Inv, TypeOK
<1> QED BY <1>1, <1>5, <1>6, <1>7, <1>8, <1>9 DEF ClientStep

\* Nothing the properties speak of changes.
LEMMA IdleKeepsInv ==
  ASSUME Inv, UNCHANGED <<script, queue, pc, cur, caller, ip, outcome>>
  PROVE  PlacesInv'
BY DEF Inv, PlacesInv, ControlInv, StackInv, QueueInv, IssueInv, Touched, Issued, Queued, Running, Call

LEMMA StepInv == Inv /\ [Next]_vars => Inv'
<1> SUFFICES ASSUME Inv, [Next]_vars PROVE Inv'
  OBVIOUS
<1> USE DEF control, cv, counts, queues
<1>1. CASE UNCHANGED vars
  BY <1>1, IdleKeepsInv DEF vars, Inv, TypeOK
<1>2. CASE \E w \in Workers : WorkerStep(w)
  BY <1>2, WorkerKeepsInv
<1>3. CASE \E c \in Clients : ClientStep(c)
  BY <1>3, ClientKeepsInv
<1>4. CASE \E th \in Threads : SpuriousWakeup(th)
  <2>1. UNCHANGED <<script, queues, counts, stop, nextWorker, waitMutex, control, outcome>>
    BY <1>4 DEF SpuriousWakeup
  <2>2. waitSet' \subseteq Threads
    BY <1>4, TypeFacts DEF SpuriousWakeup
  <2> QED BY <2>1, <2>2, IdleKeepsInv DEF Inv, TypeOK
<1> QED BY <1>1, <1>2, <1>3, <1>4 DEF Next, Terminated

\* The invariant holds in every reachable state of every instance.
THEOREM Invariance == Spec => []Inv
BY InitInv, StepInv, PTL DEF Spec

\* Every variable keeps its type, queuedTasks_ with the width of size_t.
THEOREM TypeCorrectness == Spec => []TypeOK
BY Invariance, PTL DEF Inv

LEMMA PlacesImplyExactlyOnce == Inv => ExactlyOnce
BY DEF Inv, PlacesInv, StackInv, QueueInv, ExactlyOnce

\* No job is lost into two places or run twice, whatever the number of
\* workers, of clients and of jobs, and under both queue policies.
THEOREM JobsRunOnce == Spec => []ExactlyOnce
BY Invariance, PlacesImplyExactlyOnce, PTL
=============================================================================
