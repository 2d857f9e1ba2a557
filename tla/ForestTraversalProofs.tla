------------------------ MODULE ForestTraversalProofs ------------------------
(***************************************************************************)
(* Proofs about ForestTraversal, for every forest, number of workers and   *)
(* set of arguments.                                                       *)
(***************************************************************************)
EXTENDS ForestTraversal, FiniteSetTheorems, SequenceTheorems, TLAPS

Plain == {"dispatch", "visit", "enter", "touch", "descend", "childDone", "complete",
          "again", "work", "claim", "record"}
\* The items an agenda is made of, and the jobs they submit.
Jobs  == [op : {"node", "topDown"}, node : Nodes]
           \cup [op : {"batch"}, node : Nodes, lo : Nat, hi : Nat]
Items == [op : Plain, node : Nodes]
           \cup [op : {"seed", "finish", "wait", "resolve"}, node : {None}]
           \cup [op : {"unit"}, node : Nodes, lo : Nat]
           \cup [op : {"batch", "leaf"}, node : Nodes, lo : Nat, hi : Nat]
           \cup [op : {"submit", "enqueue"}, job : Jobs]

DataInv ==
  /\ remaining \in [Nodes -> Int]
  /\ claimed \in BOOLEAN /\ hasException \in BOOLEAN
  /\ exception \in Nodes \cup {None} /\ (hasException => exception \in Nodes)
  /\ visited \subseteq Nodes /\ failed \subseteq Nodes
  /\ view \in [Threads -> SUBSET Facts]
  /\ sync \in [Objects -> SUBSET Facts]
TypeInv ==
  /\ run \in Runs
  /\ agenda \in [Threads -> Seq(Items)]
  /\ IsABag(jobs) /\ DOMAIN jobs \subseteq [job : Jobs, seen : SUBSET Facts]
  /\ pending \in Nat
  /\ done \in {"unset", "value"} \cup Nodes
  /\ result \in {"running", "value"} \cup Nodes
  /\ DataInv

\* A batch of adjacent leaves within the budget.
Fits(b) ==
  /\ b.lo \in Nat \ {0} /\ b.lo < b.hi /\ b.hi <= Len(Kids(b.node)) + 1
  /\ \A i \in b.lo .. (b.hi - 1) : IsLeaf(Kids(b.node)[i])
  /\ Total(b.node, b.lo, b.hi) <= run.budget

\* The children an item is about exist.
Within(it) ==
  /\ it.op = "unit" => it.lo \in 1 .. Len(Kids(it.node))
  /\ it.op \in {"batch", "leaf"} =>
       it.lo \in Nat \ {0} /\ it.lo <= it.hi /\ it.hi <= Len(Kids(it.node)) + 1
  /\ it.op = "leaf" => it.lo < it.hi
  /\ it.op \in {"submit", "enqueue"} /\ it.job.op = "batch" => Fits(it.job)

\* What a thread has to do it does before it finishes a job, or the call; some items
\* are only ever the next one; and only the caller begins and waits.
Ending  == {"finish", "resolve", "wait"}
Urgent == {"seed", "enqueue", "claim", "record", "resolve"}
AgendaInv(th) ==
  \A i \in DOMAIN agenda[th] :
    /\ Within(agenda[th][i])
    /\ agenda[th][i].op \notin Ending =>
         \E j \in DOMAIN agenda[th] : j > i /\ agenda[th][j].op = "finish"
    /\ agenda[th][i].op \in Urgent => i = 1
    /\ agenda[th][i].op \in {"seed", "wait"} => th = Caller

BatchInv == \A j \in DOMAIN jobs : j.job.op = "batch" => Fits(j.job)

\* pending counts the guards, and the jobs that have not got theirs.
CountInv ==
  /\ IsFiniteSet(Queued) /\ IsFiniteSet(Guarded)
  /\ pending + (IF Unseeded THEN 1 ELSE 0)
       = Cardinality(Queued) + Cardinality(Guarded) + Cardinality(Enqueuing)

\* Nothing happens before the call is counted.
SeedInv == Unseeded => pending = 0 /\ jobs = EmptyBag /\ \A w \in Workers : agenda[w] = <<>>

\* The promise is resolved once, by who brought pending back to zero.
EndInv ==
  /\ \A th \in Threads : At(th, "resolve") =>
       /\ pending = 0 /\ ~Unseeded /\ done = "unset"
       /\ \A u \in Threads : At(u, "resolve") => u = th
  /\ done # "unset" => pending = 0 /\ ~Unseeded /\ \A th \in Threads : ~At(th, "resolve")
  /\ result # "running" => result = done

Inv == /\ TypeInv /\ (\A th \in Threads : AgendaInv(th))
       /\ BatchInv /\ CountInv /\ SeedInv /\ EndInv
-----------------------------------------------------------------------------
(* Sequences *)

\* What becomes of a sequence whose first item is replaced.
LEMMA Spliced ==
  ASSUME NEW S, NEW pre \in Seq(S), NEW s \in Seq(S), s # <<>>, NEW q, q = pre \o Tail(s)
  PROVE  /\ q \in Seq(S)
         /\ Len(pre) \in Nat /\ Len(s) \in Nat \ {0} /\ Len(q) = Len(pre) + (Len(s) - 1)
         /\ \A i \in 1 .. Len(q) : q[i] = IF i <= Len(pre) THEN pre[i] ELSE s[i - Len(pre) + 1]
<1> DEFINE t == Tail(s)
<1>1. Len(s) \in Nat \ {0} /\ Len(pre) \in Nat
  BY EmptySeq, LenProperties
<1>2. t \in Seq(S) /\ Len(t) = Len(s) - 1 /\ \A i \in 1 .. Len(t) : t[i] = s[i + 1]
  BY <1>1, HeadTailProperties
<1>3. q = pre \o t
  OBVIOUS
<1> HIDE DEF t
<1>4. t \in Seq(S)
  BY <1>2
<1>5. /\ pre \o t \in Seq(S) /\ Len(pre \o t) = Len(pre) + Len(t)
      /\ \A i \in 1 .. Len(pre) + Len(t) : (pre \o t)[i] = IF i <= Len(pre) THEN pre[i] ELSE t[i - Len(pre)]
  BY <1>4, ConcatProperties
<1>6. ASSUME NEW i \in 1 .. Len(q)
      PROVE  q[i] = IF i <= Len(pre) THEN pre[i] ELSE s[i - Len(pre) + 1]
  <2>1. i \in 1 .. Len(pre) + Len(t) /\ q[i] = IF i <= Len(pre) THEN pre[i] ELSE t[i - Len(pre)]
    BY <1>3, <1>5
  <2>2. ~(i <= Len(pre)) => i - Len(pre) \in 1 .. Len(t)
    BY <1>1, <1>2, <2>1
  <2> QED BY <1>1, <1>2, <2>1, <2>2
<1> QED BY <1>1, <1>2, <1>3, <1>5, <1>6

\* The items of a sequence of one or two.
LEMMA Singles ==
  ASSUME NEW S, NEW x \in S, NEW y \in S
  PROVE  /\ <<>> \in Seq(S) /\ Len(<<>>) = 0 /\ DOMAIN <<>> = {}
         /\ <<x>> \in Seq(S) /\ Len(<<x>>) = 1 /\ DOMAIN <<x>> = {1} /\ <<x>>[1] = x
         /\ <<x, y>> \in Seq(S) /\ Len(<<x, y>>) = 2 /\ DOMAIN <<x, y>> = {1, 2}
         /\ <<x, y>>[1] = x /\ <<x, y>>[2] = y
OBVIOUS

LEMMA EachFacts ==
  ASSUME NEW op \in {"dispatch", "visit"}, NEW ns \in Seq(Nodes)
  PROVE  /\ Each(op, ns) \in Seq(Items) /\ Len(Each(op, ns)) = Len(ns) /\ Len(ns) \in Nat
         /\ \A i \in 1 .. Len(ns) : ns[i] \in Nodes /\ Each(op, ns)[i] = Do(op, ns[i])
<1>1. Len(ns) \in Nat /\ DOMAIN ns = 1 .. Len(ns) /\ \A i \in 1 .. Len(ns) : ns[i] \in Nodes
  BY LenProperties, ElementOfSeq
<1>2. \A i \in 1 .. Len(ns) : Do(op, ns[i]) \in Items
  BY <1>1 DEF Do, Items, Plain
<1>3. Each(op, ns) = [i \in 1 .. Len(ns) |-> Do(op, ns[i])]
  BY <1>1 DEF Each
<1>4. Each(op, ns) \in Seq(Items)
  BY <1>1, <1>2, <1>3, IsASeq
<1>5. Len(Each(op, ns)) = Len(ns)
  BY <1>1, <1>3, <1>4, LenProperties
<1> QED BY <1>1, <1>3, <1>4, <1>5
-----------------------------------------------------------------------------
(* What a step makes of an agenda *)

\* Items that may take the place of an item: those that something ends, or that end
\* something, or that what the item belonged to ends.
Proper(items, end) ==
  \A i \in DOMAIN items :
    /\ Within(items[i])
    /\ items[i].op \notin Ending => end \/ \E j \in DOMAIN items : j > i /\ items[j].op = "finish"
    /\ items[i].op \in Urgent => i = 1
    /\ items[i].op \notin {"seed", "wait"}

\* A thread goes on with such items.
Goes(th) == \E items \in Seq(Items) : Proper(items, Item(th).op \notin Ending) /\ Replace(th, items)

LEMMA Replaced ==
  ASSUME agenda \in [Threads -> Seq(Items)], run' = run,
         NEW th \in Threads, AgendaInv(th), agenda[th] # <<>>,
         NEW items \in Seq(Items), Proper(items, Item(th).op \notin Ending), Replace(th, items)
  PROVE  /\ agenda' \in [Threads -> Seq(Items)]
         /\ AgendaInv(th)'
         /\ \A u \in Threads : u # th => agenda'[u] = agenda[u]
         /\ Len(items) \in Nat /\ Len(agenda[th]) \in Nat \ {0}
         /\ Len(agenda'[th]) = Len(items) + (Len(agenda[th]) - 1)
         /\ \A i \in 1 .. Len(agenda'[th]) :
              agenda'[th][i] = IF i <= Len(items) THEN items[i] ELSE agenda[th][i - Len(items) + 1]
<1> DEFINE s == agenda[th]
           q == items \o Tail(s)
<1>1. s \in Seq(Items) /\ s # <<>>
  OBVIOUS
<1>2. agenda' = [agenda EXCEPT ![th] = q]
  BY DEF Replace
<1>3. /\ q \in Seq(Items)
      /\ Len(items) \in Nat /\ Len(s) \in Nat \ {0} /\ Len(q) = Len(items) + (Len(s) - 1)
      /\ \A i \in 1 .. Len(q) : q[i] = IF i <= Len(items) THEN items[i] ELSE s[i - Len(items) + 1]
  <2> HIDE DEF q, s
  <2>1. q = items \o Tail(s)
    BY DEF q
  <2> QED BY <1>1, <2>1, Spliced
<1>4. /\ agenda' \in [Threads -> Seq(Items)] /\ agenda'[th] = q
      /\ \A u \in Threads : u # th => agenda'[u] = agenda[u]
  <2> HIDE DEF q
  <2> QED BY <1>2, <1>3
<1>5. /\ DOMAIN items = 1 .. Len(items) /\ DOMAIN s = 1 .. Len(s) /\ DOMAIN q = 1 .. Len(q)
      /\ Item(th) = s[1]
  <2> HIDE DEF q, s
  <2>1. Head(s) = s[1]
    BY <1>1
  <2> QED BY <1>1, <1>3, <2>1, LenProperties DEF Item, s
<1> DEFINE old(i) == i - Len(items) + 1
<1>6. AgendaInv(th)'
  <2> HIDE DEF q, s
  <2>1. AgendaInv(th) => \A i \in 1 .. Len(s) :
          /\ Within(s[i])
          /\ s[i].op \notin Ending => \E j \in 1 .. Len(s) : j > i /\ s[j].op = "finish"
          /\ s[i].op \in Urgent => i = 1
          /\ s[i].op \in {"seed", "wait"} => th = Caller
    BY <1>5 DEF AgendaInv, s
  <2>2. \A it : Within(it)' <=> Within(it)
    BY DEF Within, Fits, Kids, IsLeaf, Total, Contribution
  <2>3. ASSUME NEW i \in 1 .. Len(q)
        PROVE  /\ Within(q[i])
               /\ q[i].op \notin Ending => \E j \in 1 .. Len(q) : j > i /\ q[j].op = "finish"
               /\ q[i].op \in Urgent => i = 1
               /\ q[i].op \in {"seed", "wait"} => th = Caller
    <3>1. CASE i <= Len(items)
      <4>1. i \in 1 .. Len(items) /\ q[i] = items[i]
        BY <1>3, <3>1
      <4>2. /\ Within(items[i])
            /\ items[i].op \notin Ending =>
                 \/ s[1].op \notin Ending
                 \/ \E j \in 1 .. Len(items) : j > i /\ items[j].op = "finish"
            /\ items[i].op \in Urgent => i = 1
            /\ items[i].op \notin {"seed", "wait"}
        BY <1>5, <4>1 DEF Proper
      <4>3. ASSUME items[i].op \notin Ending
            PROVE  \E j \in 1 .. Len(q) : j > i /\ q[j].op = "finish"
        <5>1. CASE s[1].op \notin Ending
          <6>1. PICK j \in 1 .. Len(s) : j > 1 /\ s[j].op = "finish"
            BY <1>3, <2>1, <5>1
          <6>2. /\ j + Len(items) - 1 \in 1 .. Len(q) /\ j + Len(items) - 1 > i
                /\ ~(j + Len(items) - 1 <= Len(items)) /\ old(j + Len(items) - 1) = j
            <7>1. Len(items) \in Nat /\ Len(s) \in Nat /\ Len(q) = Len(items) + (Len(s) - 1)
              BY <1>3
            <7>2. j \in Nat /\ j > 1 /\ j <= Len(s) /\ i \in Nat /\ i <= Len(items)
              BY <3>1, <6>1, <7>1
            <7> QED BY <7>1, <7>2
          <6>3. q[j + Len(items) - 1] = s[j]
            BY <1>3, <6>2
          <6> QED BY <6>1, <6>2, <6>3
        <5>2. CASE \E j \in 1 .. Len(items) : j > i /\ items[j].op = "finish"
          <6>1. PICK j \in 1 .. Len(items) : j > i /\ items[j].op = "finish"
            BY <5>2
          <6>2. j \in 1 .. Len(q) /\ q[j] = items[j]
            <7>1. Len(items) \in Nat /\ Len(s) \in Nat \ {0} /\ Len(q) = Len(items) + (Len(s) - 1)
              BY <1>3
            <7>2. j \in 1 .. Len(q) /\ j <= Len(items)
              BY <6>1, <7>1
            <7> QED BY <1>3, <7>2
          <6> QED BY <6>1, <6>2
        <5> QED BY <4>2, <4>3, <5>1, <5>2
      <4> QED BY <4>1, <4>2, <4>3
    <3>2. CASE ~(i <= Len(items))
      <4>0. old(i) \in 1 .. Len(s) /\ old(i) # 1
        <5>1. i \in Nat /\ i <= Len(items) + (Len(s) - 1) /\ i > Len(items)
          BY <1>3, <3>2
        <5> QED BY <1>3, <5>1
      <4>1. q[i] = s[old(i)] /\ old(i) \in 1 .. Len(s) /\ old(i) # 1
        BY <1>3, <3>2, <4>0
      <4>2. ASSUME s[old(i)].op \notin Ending
            PROVE  \E j \in 1 .. Len(q) : j > i /\ q[j].op = "finish"
        <5>1. PICK j \in 1 .. Len(s) : j > old(i) /\ s[j].op = "finish"
          BY <2>1, <4>1, <4>2
        <5>2. /\ j + Len(items) - 1 \in 1 .. Len(q) /\ j + Len(items) - 1 > i
              /\ ~(j + Len(items) - 1 <= Len(items)) /\ old(j + Len(items) - 1) = j
          BY <1>3, <3>2, <5>1, SMTT(30)
        <5>3. q[j + Len(items) - 1] = s[j]
          BY <1>3, <5>2
        <5> QED BY <5>1, <5>2, <5>3
      <4> QED BY <2>1, <4>1, <4>2
    <3> QED BY <3>1, <3>2
  <2> QED BY <1>4, <1>5, <2>2, <2>3 DEF AgendaInv
<1> QED BY <1>3, <1>4, <1>6

\* The guards of an agenda whose first item is replaced.
LEMMA GuardsReplaced ==
  ASSUME agenda \in [Threads -> Seq(Items)], run' = run,
         NEW th \in Threads, AgendaInv(th), agenda[th] # <<>>,
         NEW items \in Seq(Items), Proper(items, Item(th).op \notin Ending), Replace(th, items)
  PROVE  LET l == Len(agenda[th]) - 1 IN
         /\ l \in Nat /\ Len(items) \in Nat
         /\ \A u \in Threads : u # th => Guards(u)' = Guards(u)
         /\ Guards(th) \subseteq 1 .. l + 1
         /\ Guards(th)' \subseteq 1 .. l + Len(items)
         /\ \A k \in 1 .. l : k \in Guards(th)' <=> k \in Guards(th)
         /\ l + 1 \in Guards(th) <=> Item(th).op = "finish"
         /\ \A i \in 1 .. Len(items) : l + Len(items) + 1 - i \in Guards(th)' <=> items[i].op = "finish"
<1> DEFINE l == Len(agenda[th]) - 1
           s == agenda[th]
           q == agenda'[th]
<1>1. /\ agenda' \in [Threads -> Seq(Items)]
      /\ \A u \in Threads : u # th => agenda'[u] = agenda[u]
      /\ Len(items) \in Nat /\ Len(s) \in Nat \ {0} /\ l \in Nat
      /\ Len(q) = Len(items) + l
      /\ \A i \in 1 .. Len(q) : q[i] = IF i <= Len(items) THEN items[i] ELSE s[i - Len(items) + 1]
  <2>1. Len(s) \in Nat \ {0} => l \in Nat
    OBVIOUS
  <2> QED BY <2>1, Replaced
<1>2. /\ DOMAIN s = 1 .. l + 1 /\ DOMAIN q = 1 .. Len(q) /\ Len(s) = l + 1
      /\ Item(th) = s[1]
  <2>1. s \in Seq(Items) /\ q \in Seq(Items) /\ s # <<>>
    BY <1>1
  <2>2. Len(s) = l + 1
    BY <1>1
  <2>3. Head(s) = s[1]
    BY <2>1
  <2> QED BY <2>1, <2>2, <2>3, LenProperties DEF Item
<1>3. /\ Guards(th) = {i \in 1 .. l + 1 : s[l + 2 - i].op = "finish"}
      /\ Guards(th)' = {i \in 1 .. l + Len(items) : q[l + Len(items) + 1 - i].op = "finish"}
  <2>1. \A i \in 1 .. l + 1 : Len(s) + 1 - i = l + 2 - i
    BY <1>1, <1>2
  <2>2. Len(q) = l + Len(items)
    BY <1>1
  <2> HIDE DEF l
  <2> QED BY <1>2, <2>1, <2>2 DEF Guards
<1> HIDE DEF l, s, q
<1>4. ASSUME NEW k \in 1 .. l
      PROVE  k \in Guards(th)' <=> k \in Guards(th)
  <2>1. /\ l + Len(items) + 1 - k \in 1 .. Len(q)
        /\ ~(l + Len(items) + 1 - k <= Len(items))
        /\ (l + Len(items) + 1 - k) - Len(items) + 1 = l + 2 - k
        /\ k \in 1 .. l + 1 /\ k \in 1 .. l + Len(items)
    <3>1. l \in Nat /\ Len(items) \in Nat /\ Len(q) = Len(items) + l
      BY <1>1
    <3>2. k \in Nat \ {0} /\ k <= l
      BY <3>1
    <3> QED BY <3>1, <3>2
  <2>2. q[l + Len(items) + 1 - k] = s[l + 2 - k]
    BY <1>1, <2>1
  <2> QED BY <1>3, <2>1, <2>2
<1>5. l + 1 \in Guards(th) <=> Item(th).op = "finish"
  <2>1. l + 1 \in 1 .. l + 1 /\ l + 2 - (l + 1) = 1
    BY <1>1
  <2> QED BY <1>2, <1>3, <2>1
<1>6. ASSUME NEW i \in 1 .. Len(items)
      PROVE  l + Len(items) + 1 - i \in Guards(th)' <=> items[i].op = "finish"
  <2>1. /\ l + Len(items) + 1 - i \in 1 .. l + Len(items)
        /\ l + Len(items) + 1 - (l + Len(items) + 1 - i) = i
        /\ i \in 1 .. Len(q) /\ i <= Len(items)
    BY <1>1
  <2>2. q[i] = items[i]
    BY <1>1, <2>1
  <2> QED BY <1>3, <2>1, <2>2
<1>7. ASSUME NEW u \in Threads, u # th
      PROVE  Guards(u)' = Guards(u)
  BY <1>1, <1>7 DEF Guards
<1>8. Guards(th) \subseteq 1 .. l + 1 /\ Guards(th)' \subseteq 1 .. l + Len(items)
  BY <1>3
<1> QED BY <1>1, <1>4, <1>5, <1>6, <1>7, <1>8 DEF l

\* The same of all guards.
LEMMA GuardedReplaced ==
  ASSUME agenda \in [Threads -> Seq(Items)], run' = run,
         NEW th \in Threads, AgendaInv(th), agenda[th] # <<>>,
         NEW items \in Seq(Items), Proper(items, Item(th).op \notin Ending), Replace(th, items),
         NEW place, place = <<th, Len(agenda[th])>>
  PROVE  /\ Item(th).op # "finish" /\ (\A i \in DOMAIN items : items[i].op # "finish") =>
              Guarded' = Guarded
         /\ Item(th).op = "finish" /\ (\A i \in DOMAIN items : items[i].op # "finish") =>
              place \in Guarded /\ Guarded' = Guarded \ {place}
         /\ Item(th).op # "finish" /\ Len(items) = 2 /\ items[1].op # "finish" /\ items[2].op = "finish" =>
              place \notin Guarded /\ Guarded' = Guarded \cup {place}
<1> DEFINE l == Len(agenda[th]) - 1
           n == Len(items)
<1>1. /\ l \in Nat /\ n \in Nat
      /\ \A u \in Threads : u # th => Guards(u)' = Guards(u)
      /\ Guards(th) \subseteq 1 .. l + 1
      /\ Guards(th)' \subseteq 1 .. l + n
      /\ \A k \in 1 .. l : k \in Guards(th)' <=> k \in Guards(th)
      /\ l + 1 \in Guards(th) <=> Item(th).op = "finish"
      /\ \A i \in 1 .. n : l + n + 1 - i \in Guards(th)' <=> items[i].op = "finish"
  BY GuardsReplaced
<1>2. /\ \A g : g \in Guarded <=> \E u \in Threads : \E k \in Guards(u) : g = <<u, k>>
      /\ \A g : g \in Guarded' <=> \E u \in Threads : \E k \in Guards(u)' : g = <<u, k>>
  BY DEF Guarded
<1>3. DOMAIN items = 1 .. n
  BY LenProperties
<1>4. l + 1 = Len(agenda[th])
  <2>1. agenda[th] \in Seq(Items)
    OBVIOUS
  <2>2. Len(agenda[th]) \in Nat
    BY <2>1, LenProperties
  <2> QED BY <2>2
<1>0. place = <<th, l + 1>>
  BY <1>4
<1> HIDE DEF l, n
<1>5. ASSUME \A i \in DOMAIN items : items[i].op # "finish"
      PROVE  Guards(th)' = Guards(th) \ {l + 1}
  <2>1. ASSUME NEW k \in Guards(th)'
        PROVE  k \in 1 .. l
    <3>1. k \in 1 .. l + n
      BY <1>1
    <3>2. CASE k > l
      <4>1. l + n + 1 - k \in 1 .. n /\ l + n + 1 - (l + n + 1 - k) = k
        <5>1. l \in Nat /\ n \in Nat
          BY <1>1
        <5> QED BY <5>1, <3>1, <3>2
      <4> QED BY <1>1, <1>3, <1>5, <2>1, <4>1
    <3> QED BY <1>1, <3>1, <3>2
  <2>2. ASSUME NEW k \in Guards(th), k # l + 1
        PROVE  k \in 1 .. l
    BY <1>1, <2>2
  <2>3. l + 1 \notin 1 .. l
    BY <1>1
  <2> QED BY <1>1, <2>1, <2>2, <2>3
<1>6. ASSUME n = 2, items[1].op # "finish", items[2].op = "finish", Item(th).op # "finish"
      PROVE  Guards(th)' = Guards(th) \cup {l + 1} /\ l + 1 \notin Guards(th)
  <2>1. /\ l + n + 1 - 1 = l + 2 /\ l + n + 1 - 2 = l + 1 /\ 1 \in 1 .. n /\ 2 \in 1 .. n
        /\ l + n = l + 2
    BY <1>1, <1>6
  <2>2. l + 2 \notin Guards(th)' /\ l + 1 \in Guards(th)' /\ l + 1 \notin Guards(th)
    BY <1>1, <1>6, <2>1
  <2>3. ASSUME NEW k \in Guards(th)', k # l + 1
        PROVE  k \in 1 .. l
    <3>1. k \in 1 .. l + n
      BY <1>1
    <3>2. k \in 1 .. l + 2 /\ k # l + 2
      BY <2>1, <2>2, <3>1
    <3>3. l \in Nat
      BY <1>1
    <3> QED BY <2>3, <3>2, <3>3
  <2>4. ASSUME NEW k \in Guards(th)
        PROVE  k \in 1 .. l
    <3>1. k \in 1 .. l + 1 /\ k # l + 1
      BY <1>1, <2>2
    <3> QED BY <1>1, <3>1
  <2> QED BY <1>1, <2>2, <2>3, <2>4
<1>7. Item(th).op # "finish" /\ (\A i \in DOMAIN items : items[i].op # "finish") => Guarded' = Guarded
  <2> SUFFICES ASSUME Item(th).op # "finish", \A i \in DOMAIN items : items[i].op # "finish"
               PROVE  Guarded' = Guarded
    OBVIOUS
  <2>1. \A u \in Threads : Guards(u)' = Guards(u)
    BY <1>1, <1>5
  <2> QED BY <2>1 DEF Guarded
<1>8. ASSUME Item(th).op = "finish", \A i \in DOMAIN items : items[i].op # "finish"
      PROVE  place \in Guarded /\ Guarded' = Guarded \ {place}
  <2>1. Guards(th)' = Guards(th) \ {l + 1} /\ l + 1 \in Guards(th)
    BY <1>1, <1>5, <1>8
  <2> QED BY <1>0, <1>1, <1>2, <2>1
<1>9. ASSUME Item(th).op # "finish", n = 2, items[1].op # "finish", items[2].op = "finish"
      PROVE  place \notin Guarded /\ Guarded' = Guarded \cup {place}
  <2>1. Guards(th)' = Guards(th) \cup {l + 1} /\ l + 1 \notin Guards(th)
    BY <1>6, <1>9
  <2>2. place \in Guarded' /\ place \notin Guarded
    <3>1. \A u, k : place = <<u, k>> => u = th /\ k = l + 1
      BY <1>0
    <3> QED BY <1>0, <1>2, <2>1, <3>1
  <2>3. \A g : g \in Guarded' => g \in Guarded \/ g = place
    BY <1>0, <1>1, <1>2, <2>1
  <2>4. \A g : g \in Guarded => g \in Guarded'
    <3>1. \A u \in Threads : Guards(u) \subseteq Guards(u)'
      BY <1>1, <2>1
    <3> QED BY <1>2, <3>1
  <2>5. \A g : g \in Guarded' <=> g \in Guarded \cup {place}
    BY <2>2, <2>3, <2>4
  <2>6. Guarded' = Guarded \cup {place}
    BY <2>5
  <2> QED BY <2>2, <2>6
<1> QED BY <1>7, <1>8, <1>9 DEF n
-----------------------------------------------------------------------------
(* Queues *)

LEMMA QueuedFacts ==
  /\ \A q : q \in Queued <=> \E j \in DOMAIN jobs : \E i \in 1 .. jobs[j] : q = <<j, i>>
  /\ \A q : q \in Queued' <=> \E j \in DOMAIN jobs' : \E i \in 1 .. jobs'[j] : q = <<j, i>>
BY DEF Queued, BagToSet

LEMMA QueueGrows ==
  ASSUME IsABag(jobs), NEW j, jobs' = jobs (+) SetToBag({j})
  PROVE  /\ IsABag(jobs)' /\ DOMAIN jobs' = DOMAIN jobs \cup {j}
         /\ \E q : q[1] = j /\ q \notin Queued /\ Queued' = Queued \cup {q}
<1> DEFINE c == IF j \in DOMAIN jobs THEN jobs[j] ELSE 0
<1>1. jobs \in [DOMAIN jobs -> {n \in Nat : n > 0}]
  BY DEF IsABag
<1>2. c \in Nat
  BY <1>1
<1>3. /\ DOMAIN SetToBag({j}) = {j} /\ SetToBag({j})[j] = 1
  BY DEF SetToBag
<1>4. jobs' = [e \in DOMAIN jobs \cup {j} |->
                 (IF e \in DOMAIN jobs THEN jobs[e] ELSE 0) + (IF e \in {j} THEN SetToBag({j})[e] ELSE 0)]
  BY <1>3 DEF (+)
<1>5. /\ DOMAIN jobs' = DOMAIN jobs \cup {j}
      /\ jobs'[j] = c + 1
      /\ \A e \in DOMAIN jobs : e # j => jobs'[e] = jobs[e]
  <2>1. DOMAIN jobs' = DOMAIN jobs \cup {j}
    BY <1>4
  <2>2. jobs'[j] = c + 1
    BY <1>3, <1>4
  <2>3. ASSUME NEW e \in DOMAIN jobs, e # j
        PROVE  jobs'[e] = jobs[e]
    <3>1. jobs'[e] = jobs[e] + 0
      BY <1>4, <2>3
    <3> QED BY <1>1, <3>1
  <2> QED BY <2>1, <2>2, <2>3
<1> HIDE DEF c
<1>6. IsABag(jobs)'
  <2>1. \A e \in DOMAIN jobs' : jobs'[e] \in {n \in Nat : n > 0}
    BY <1>1, <1>2, <1>5
  <2>2. jobs' = [e \in DOMAIN jobs' |-> jobs'[e]]
    BY <1>4
  <2> QED BY <2>1, <2>2 DEF IsABag
<1>7. (j \in DOMAIN jobs => c = jobs[j]) /\ (j \notin DOMAIN jobs => c = 0)
  BY DEF c
<1>8. 1 .. (c + 1) = (1 .. c) \cup {c + 1} /\ c + 1 \notin 1 .. c
  BY <1>2
<1> DEFINE q == <<j, c + 1>>
<1>9. q \notin Queued
  <2> SUFFICES ASSUME q \in Queued PROVE FALSE
    OBVIOUS
  <2>1. PICK k \in DOMAIN jobs : \E i \in 1 .. jobs[k] : q = <<k, i>>
    BY QueuedFacts
  <2>2. k = j /\ c + 1 \in 1 .. jobs[j]
    BY <2>1
  <2> QED BY <1>7, <1>8, <2>1, <2>2
<1>10. ASSUME NEW p \in Queued'
       PROVE  p \in Queued \/ p = q
  <2>1. PICK k \in DOMAIN jobs' : \E i \in 1 .. jobs'[k] : p = <<k, i>>
    BY QueuedFacts, SMTT(30)
  <2>2. PICK i \in 1 .. jobs'[k] : p = <<k, i>>
    BY <2>1
  <2>3. CASE k # j
    BY <1>5, <2>2, <2>3, QueuedFacts
  <2>4. CASE k = j /\ i # c + 1
    <3>1. i \in 1 .. c
      BY <1>5, <1>8, <2>2, <2>4
    <3>2. j \in DOMAIN jobs
      <4> SUFFICES ASSUME j \notin DOMAIN jobs PROVE FALSE
        OBVIOUS
      <4>1. i \in 1 .. 0
        BY <1>7, <3>1
      <4> QED BY <4>1
    <3> QED BY <1>7, <2>2, <2>4, <3>1, <3>2, QueuedFacts
  <2> QED BY <2>2, <2>3, <2>4
<1>11. ASSUME NEW p \in Queued
       PROVE  p \in Queued'
  <2>1. PICK k \in DOMAIN jobs : \E i \in 1 .. jobs[k] : p = <<k, i>>
    BY QueuedFacts
  <2>2. PICK i \in 1 .. jobs[k] : p = <<k, i>>
    BY <2>1
  <2>3. k \in DOMAIN jobs' /\ i \in 1 .. jobs'[k]
    <3>1. CASE k # j
      BY <1>5, <3>1
    <3>2. CASE k = j
      <4>1. i \in 1 .. c
        BY <1>7, <3>2
      <4> QED BY <1>5, <1>8, <3>2, <4>1
    <3> QED BY <3>1, <3>2
  <2> QED BY <2>2, <2>3, QueuedFacts
<1>12. q \in Queued'
  <2>1. j \in DOMAIN jobs' /\ c + 1 \in 1 .. jobs'[j]
    BY <1>5, <1>8
  <2> QED BY <2>1, QueuedFacts
<1>13. Queued' = Queued \cup {q}
  <2> HIDE DEF q
  <2>1. \A p : p \in Queued' <=> p \in Queued \cup {q}
    BY <1>10, <1>11, <1>12
  <2> QED BY <2>1
<1> QED BY <1>5, <1>6, <1>9, <1>13

LEMMA QueueShrinks ==
  ASSUME IsABag(jobs), NEW j \in DOMAIN jobs, jobs' = jobs (-) SetToBag({j})
  PROVE  /\ IsABag(jobs)' /\ DOMAIN jobs' \subseteq DOMAIN jobs
         /\ \E q \in Queued : q[1] = j /\ Queued' = Queued \ {q}
<1> DEFINE c == jobs[j]
           b == [e \in DOMAIN jobs |-> IF e \in {j} THEN jobs[e] - SetToBag({j})[e] ELSE jobs[e]]
           d == {e \in DOMAIN jobs : b[e] > 0}
<1>1. jobs \in [DOMAIN jobs -> {n \in Nat : n > 0}]
  BY DEF IsABag
<1>2. c \in Nat /\ c > 0
  BY <1>1
<1>3. DOMAIN SetToBag({j}) = {j} /\ SetToBag({j})[j] = 1
  BY DEF SetToBag
<1>4. jobs' = [e \in d |-> b[e]]
  BY <1>3 DEF (-)
<1>5. b[j] = c - 1 /\ \A e \in DOMAIN jobs : e # j => b[e] = jobs[e]
  BY <1>3
<1>6. /\ DOMAIN jobs' = d /\ d \subseteq DOMAIN jobs
      /\ \A e \in DOMAIN jobs' : e \in DOMAIN jobs /\ b[e] > 0 /\ jobs'[e] = b[e]
      /\ \A e \in DOMAIN jobs : b[e] > 0 => e \in DOMAIN jobs'
  <2> HIDE DEF b
  <2> QED BY <1>4
<1> HIDE DEF b, d, c
<1>7. /\ \A e \in DOMAIN jobs : e # j => e \in DOMAIN jobs' /\ jobs'[e] = jobs[e]
      /\ j \in DOMAIN jobs' => jobs'[j] = c - 1 /\ c - 1 > 0
      /\ c - 1 > 0 => j \in DOMAIN jobs'
  BY <1>1, <1>5, <1>6
<1>8. IsABag(jobs)'
  <2>1. ASSUME NEW e \in DOMAIN jobs'
        PROVE  jobs'[e] \in {n \in Nat : n > 0}
    <3>1. CASE e # j
      BY <1>1, <1>6, <1>7, <3>1
    <3>2. CASE e = j
      BY <1>2, <1>7, <3>2
    <3> QED BY <3>1, <3>2
  <2>2. jobs' = [e \in DOMAIN jobs' |-> jobs'[e]]
    BY <1>4
  <2> QED BY <2>1, <2>2 DEF IsABag
<1>9. 1 .. c = (1 .. (c - 1)) \cup {c} /\ c \notin 1 .. (c - 1) /\ (1 .. (c - 1) # {} => c - 1 > 0)
  BY <1>2
<1> DEFINE q == <<j, c>>
<1>10. q \in Queued
  <2>1. c \in 1 .. jobs[j]
    BY <1>9 DEF c
  <2> QED BY <2>1, QueuedFacts
<1>11. ASSUME NEW p \in Queued'
       PROVE  p \in Queued /\ p # q
  <2>1. PICK k \in DOMAIN jobs' : \E i \in 1 .. jobs'[k] : p = <<k, i>>
    BY QueuedFacts
  <2>2. PICK i \in 1 .. jobs'[k] : p = <<k, i>>
    BY <2>1
  <2>3. CASE k # j
    <3>1. k \in DOMAIN jobs /\ i \in 1 .. jobs[k]
      BY <1>6, <1>7, <2>2, <2>3
    <3> QED BY <2>2, <2>3, <3>1, QueuedFacts
  <2>4. CASE k = j
    <3>1. i \in 1 .. c /\ i # c
      BY <1>7, <1>9, <2>2, <2>4
    <3> QED BY <2>2, <2>4, <3>1, QueuedFacts DEF c
  <2> QED BY <2>3, <2>4
<1>12. ASSUME NEW p \in Queued, p # q
       PROVE  p \in Queued'
  <2>1. PICK k \in DOMAIN jobs : \E i \in 1 .. jobs[k] : p = <<k, i>>
    BY QueuedFacts
  <2>2. PICK i \in 1 .. jobs[k] : p = <<k, i>>
    BY <2>1
  <2>3. CASE k # j
    BY <1>7, <2>2, <2>3, QueuedFacts
  <2>4. CASE k = j
    <3>1. i \in 1 .. (c - 1)
      BY <1>9, <1>12, <2>2, <2>4 DEF c
    <3>2. k \in DOMAIN jobs' /\ i \in 1 .. jobs'[k]
      BY <1>7, <1>9, <2>4, <3>1
    <3> QED BY <2>2, <3>2, QueuedFacts
  <2> QED BY <2>3, <2>4
<1>13. Queued' = Queued \ {q}
  <2> HIDE DEF q
  <2>1. \A p : p \in Queued' <=> p \in Queued \ {q}
    BY <1>11, <1>12
  <2> QED BY <2>1
<1> QED BY <1>6, <1>8, <1>10, <1>13
-----------------------------------------------------------------------------
(* Batches *)

\* A set of numbers up to a bound has a largest one.
LEMMA MaxExists ==
  ASSUME NEW n \in Nat, NEW S \in SUBSET (0 .. n), S # {}
  PROVE  Max(S) \in S
<1> DEFINE above(x) == {y \in S : y > x}
           T == {above(x) : x \in S}
<1>1. IsFiniteSet(S)
  <2>1. IsFiniteSet(0 .. n)
    BY FS_Interval
  <2> QED BY <2>1, FS_Subset
<1>2. IsWellFoundedOn(StrictSubsetOrdering(S), FiniteSubsetsOf(S))
  BY <1>1, FS_StrictSubsetOrderingWellFounded
<1>3. T \subseteq FiniteSubsetsOf(S) /\ T # {}
  <2>1. \A x \in S : above(x) \in SUBSET S /\ IsFiniteSet(above(x))
    BY <1>1, FS_Subset
  <2> QED BY <2>1 DEF FiniteSubsetsOf
<1>4. \E x \in T : \A y \in T : ~ (<<y, x>> \in StrictSubsetOrdering(S))
  <2> HIDE DEF T
  <2> QED BY <1>2, <1>3, WFMin
<1>5. PICK x \in S : \A y \in S : ~ (<<above(y), above(x)>> \in StrictSubsetOrdering(S))
  BY <1>4
<1>6. ASSUME NEW y \in S, ~(x >= y)
      PROVE  FALSE
  <2>1. S \subseteq Int /\ x \in Int /\ y \in Int /\ y > x
    BY <1>6
  <2>2. \A z \in S : z > y => z > x
    BY <2>1
  <2>3. y \in above(x) /\ y \notin above(y) /\ above(y) \subseteq above(x)
    <3>1. ~ (y > y)
      BY <2>1
    <3> QED BY <2>1, <2>2, <3>1
  <2>4. <<above(y), above(x)>> \in StrictSubsetOrdering(S)
    BY <2>3 DEF StrictSubsetOrdering
  <2> QED BY <1>5, <2>4
<1> QED BY <1>6 DEF Max

LEMMA Basics ==
  ASSUME Assumptions, TypeInv
  PROVE  /\ run \in Run /\ Caller \in Threads /\ Workers \subseteq Threads /\ IsFiniteSet(Threads)
         /\ run.roots \in Seq(Nodes) /\ \A n \in Nodes : Kids(n) \in Seq(Nodes)
         /\ \A n \in Nodes : Len(Kids(n)) \in Nat /\ \A i \in 1 .. Len(Kids(n)) : Kids(n)[i] \in Nodes
<1>1. run \in Run
  BY DEF Assumptions, TypeInv, IsForest
<1>2. run.roots \in Seq(Nodes) /\ \A n \in Nodes : Kids(n) \in Seq(Nodes)
  BY <1>1 DEF Run, Kids
<1>3. ASSUME NEW n \in Nodes
      PROVE  Len(Kids(n)) \in Nat /\ \A i \in 1 .. Len(Kids(n)) : Kids(n)[i] \in Nodes
  BY <1>2, LenProperties, ElementOfSeq
<1>4. IsFiniteSet(Threads)
  BY FS_AddElement DEF Assumptions, Threads
<1> QED BY <1>1, <1>2, <1>3, <1>4 DEF Threads

\* A unit of adjacent children begins where it is said to, is not empty, and if it has
\* more than one child it is a batch.
LEMMA UnitFacts ==
  ASSUME Assumptions, TypeInv, NEW n \in Nodes, NEW lo \in 1 .. Len(Kids(n)), NEW hi, hi = UnitEnd(n, lo)
  PROVE  /\ hi \in lo + 1 .. Len(Kids(n)) + 1
         /\ hi > lo + 1 => Fits(Span("batch", n, lo, hi))
<1> DEFINE S == {h \in (lo + 1) .. (Len(Kids(n)) + 1) :
                   /\ \A i \in lo .. (h - 1) : IsLeaf(Kids(n)[i])
                   /\ h = lo + 1 \/ Total(n, lo, h) <= run.budget}
<1>1. Len(Kids(n)) \in Nat /\ lo \in Nat \ {0} /\ lo <= Len(Kids(n))
  BY Basics
<1>2. CASE ~IsLeaf(Kids(n)[lo])
  <2>1. hi = lo + 1
    BY <1>2 DEF UnitEnd
  <2> QED BY <1>1, <2>1
<1>3. CASE IsLeaf(Kids(n)[lo])
  <2>1. hi = Max(S)
    BY <1>3 DEF UnitEnd, LeafBatchEnd
  <2>2. lo + 1 \in S
    <3>1. lo + 1 \in (lo + 1) .. (Len(Kids(n)) + 1) /\ \A i \in lo .. (lo + 1 - 1) : i = lo
      BY <1>1
    <3> QED BY <1>3, <3>1
  <2>3. S \in SUBSET (0 .. (Len(Kids(n)) + 1)) /\ Len(Kids(n)) + 1 \in Nat
    BY <1>1
  <2>4. hi \in S
    <3> HIDE DEF S
    <3> QED BY <2>1, <2>2, <2>3, MaxExists
  <2>5. /\ hi \in (lo + 1) .. (Len(Kids(n)) + 1)
        /\ \A i \in lo .. (hi - 1) : IsLeaf(Kids(n)[i])
        /\ hi = lo + 1 \/ Total(n, lo, hi) <= run.budget
    BY <2>4
  <2>6. ASSUME hi > lo + 1
        PROVE  Fits(Span("batch", n, lo, hi))
    <3> DEFINE b == Span("batch", n, lo, hi)
    <3>1. b.node = n /\ b.lo = lo /\ b.hi = hi
      BY DEF Span
    <3>2. hi # lo + 1 /\ lo < hi /\ hi <= Len(Kids(n)) + 1
      BY <1>1, <2>5, <2>6
    <3> HIDE DEF b
    <3>3. Fits(b)
      BY <1>1, <2>5, <3>1, <3>2 DEF Fits
    <3> QED BY <3>3 DEF b
  <2> QED BY <2>5, <2>6
<1> QED BY <1>2, <1>3
-----------------------------------------------------------------------------
(* Steps *)

\* What is next after a step, and what was next elsewhere.
LEMMA NextItem ==
  ASSUME agenda \in [Threads -> Seq(Items)], run' = run, Caller \in Threads,
         NEW th \in Threads, AgendaInv(th), agenda[th] # <<>>,
         NEW items \in Seq(Items), Proper(items, Item(th).op \notin Ending), Replace(th, items)
  PROVE  /\ items # <<>> => agenda'[th] # <<>> /\ Item(th)' = items[1]
         /\ \A op \in Urgent : At(th, op)' => items # <<>> /\ items[1].op = op
         /\ \A u \in Threads : u # th => \A op : At(u, op)' <=> At(u, op)
         /\ IF th = Caller THEN ~Unseeded' ELSE Unseeded' = Unseeded
<1> DEFINE s == agenda[th]
           q == agenda'[th]
<1>1. /\ agenda' \in [Threads -> Seq(Items)]
      /\ \A u \in Threads : u # th => agenda'[u] = agenda[u]
      /\ AgendaInv(th)'
      /\ Len(items) \in Nat /\ Len(s) \in Nat \ {0}
      /\ Len(q) = Len(items) + (Len(s) - 1)
      /\ \A i \in 1 .. Len(q) : q[i] = IF i <= Len(items) THEN items[i] ELSE s[i - Len(items) + 1]
  BY Replaced
<1>2. s \in Seq(Items) /\ q \in Seq(Items)
  BY <1>1
<1>3. DOMAIN s = 1 .. Len(s) /\ DOMAIN q = 1 .. Len(q) /\ (q # <<>> => Len(q) # 0 /\ Item(th)' = q[1])
  <2>1. q # <<>> => Len(q) # 0 /\ Head(q) = q[1]
    BY <1>2, EmptySeq
  <2> QED BY <1>2, <2>1, LenProperties DEF Item
<1>4. ASSUME items # <<>>
      PROVE  q # <<>> /\ Item(th)' = items[1]
  <2>1. Len(items) # 0
    BY <1>4, EmptySeq
  <2>2. Len(q) # 0 /\ 1 \in 1 .. Len(q) /\ 1 <= Len(items)
    BY <1>1, <2>1
  <2>3. q # <<>> /\ q[1] = items[1]
    BY <1>1, <2>2
  <2> QED BY <1>3, <2>3
<1>5. ASSUME NEW op \in Urgent, At(th, op)'
      PROVE  items # <<>> /\ items[1].op = op
  <2>1. q # <<>> /\ Item(th)'.op = op
    BY <1>5 DEF At, Item
  <2>2. CASE items = <<>>
    <3>1. Len(items) = 0 /\ Len(q) # 0 /\ q[1].op = op
      BY <1>3, <2>1, <2>2
    <3>2. 1 \in 1 .. Len(q) /\ ~(1 <= Len(items)) /\ 1 - Len(items) + 1 = 2 /\ 2 \in 1 .. Len(s)
      BY <1>1, <3>1
    <3>3. s[2].op = op
      BY <1>1, <3>1, <3>2
    <3> QED BY <1>3, <1>5, <3>2, <3>3 DEF AgendaInv
  <2> QED BY <1>4, <2>1, <2>2
<1>6. ASSUME NEW u \in Threads, u # th
      PROVE  \A op : At(u, op)' <=> At(u, op)
  BY <1>1, <1>6 DEF At
<1>7. ASSUME th = Caller
      PROVE  ~Unseeded'
  <2> SUFFICES ASSUME Unseeded' PROVE FALSE
    OBVIOUS
  <2>1. PICK i \in DOMAIN q : q[i].op = "seed"
    BY <1>7 DEF Unseeded
  <2>2. i = 1
    BY <1>1, <2>1 DEF AgendaInv, Urgent
  <2>3. At(th, "seed")'
    <3>1. q # <<>>
      BY <1>3, <2>1
    <3> QED BY <1>3, <2>1, <2>2, <3>1 DEF At, Item
  <2>4. "seed" \in Urgent
    BY DEF Urgent
  <2>5. items # <<>> /\ items[1].op = "seed"
    BY <1>5, <2>3, <2>4
  <2>6. 1 \in DOMAIN items
    <3>1. Len(items) # 0 /\ DOMAIN items = 1 .. Len(items)
      BY <2>5, EmptySeq, LenProperties
    <3> QED BY <1>1, <3>1
  <2> QED BY <2>5, <2>6 DEF Proper
<1>8. ASSUME th # Caller
      PROVE  Unseeded' = Unseeded
  BY <1>1, <1>8 DEF Unseeded
<1> QED BY <1>4, <1>5, <1>6, <1>7, <1>8

LEMMA GuardedFacts == \A g : g \in Guarded <=> \E th \in Threads : \E k \in Guards(th) : g = <<th, k>>
BY DEF Guarded

\* Until the call is counted there is nothing else to do.
LEMMA Started ==
  ASSUME Inv, NEW th \in Threads, agenda[th] # <<>>, Item(th).op # "seed"
  PROVE  ~Unseeded
<1> DEFINE s == agenda[th]
<1> SUFFICES ASSUME Unseeded PROVE FALSE
  OBVIOUS
<1>1. s \in Seq(Items) /\ s # <<>> /\ AgendaInv(th)
  BY DEF Inv, TypeInv
<1>2. Item(th) = s[1]
  <2>1. Head(s) = s[1]
    BY <1>1
  <2> QED BY <2>1 DEF Item
<1>3. th = Caller
  BY DEF Inv, SeedInv, Threads
<1>4. PICK i \in DOMAIN s : s[i].op = "seed"
  BY <1>3 DEF Unseeded
<1>5. i = 1
  BY <1>1, <1>4 DEF AgendaInv, Urgent
<1> QED BY <1>2, <1>4, <1>5

\* Who does anything else than to end a job or the call keeps the call from ending.
LEMMA Busy ==
  ASSUME Assumptions, Inv, NEW th \in Threads, agenda[th] # <<>>,
         Item(th).op \notin Ending, Item(th).op # "seed"
  PROVE  /\ ~Unseeded /\ pending > 0 /\ done = "unset" /\ result = "running"
         /\ \A u \in Threads : ~At(u, "resolve")
<1> DEFINE s == agenda[th]
<1>1. s \in Seq(Items) /\ s # <<>> /\ AgendaInv(th)
  BY DEF Inv, TypeInv
<1>2. DOMAIN s = 1 .. Len(s) /\ Len(s) \in Nat \ {0} /\ Item(th) = s[1] /\ 1 \in DOMAIN s
  <2>1. Len(s) \in Nat \ {0} /\ Head(s) = s[1]
    BY <1>1, EmptySeq
  <2> QED BY <1>1, <2>1, LenProperties DEF Item
<1>3. ~Unseeded
  BY Started
<1>4. Guarded # {}
  <2>1. PICK j \in DOMAIN s : s[j].op = "finish"
    BY <1>1, <1>2 DEF AgendaInv
  <2>2. Len(s) + 1 - j \in DOMAIN s /\ Len(s) + 1 - (Len(s) + 1 - j) = j
    BY <1>2
  <2>3. Len(s) + 1 - j \in Guards(th)
    BY <2>1, <2>2 DEF Guards
  <2>4. <<th, Len(s) + 1 - j>> \in Guarded
    BY <2>3, GuardedFacts
  <2> QED BY <2>4
<1>5. pending > 0
  <2>1. /\ Cardinality(Queued) \in Nat /\ Cardinality(Guarded) \in Nat /\ Cardinality(Guarded) # 0
        /\ Cardinality(Enqueuing) \in Nat
    <3>1. IsFiniteSet(Enqueuing) /\ IsFiniteSet(Queued) /\ IsFiniteSet(Guarded)
      BY Basics, FS_Subset DEF Inv, CountInv, Enqueuing
    <3> QED BY <1>4, <3>1, FS_CardinalityType, FS_EmptySet
  <2>2. pending + 0 = Cardinality(Queued) + Cardinality(Guarded) + Cardinality(Enqueuing)
    BY <1>3 DEF Inv, CountInv
  <2>3. pending \in Nat
    BY DEF Inv, TypeInv
  <2> QED BY <2>1, <2>2, <2>3
<1>6. done = "unset" /\ \A u \in Threads : ~At(u, "resolve")
  BY <1>5 DEF Inv, EndInv, TypeInv
<1>7. result = "running"
  <2>1. done # "running" /\ result # "unset"
    BY <1>6 DEF Inv, TypeInv, Assumptions
  <2> QED BY <1>6, <2>1 DEF Inv, EndInv
<1> QED BY <1>3, <1>5, <1>6, <1>7

\* When pending is zero nobody does anything but end the call.
LEMMA Quiet ==
  ASSUME Assumptions, Inv, pending = 0, ~Unseeded
  PROVE  jobs = EmptyBag /\ \A th \in Threads : agenda[th] # <<>> => Item(th).op \in {"resolve", "wait"}
<1>1. ASSUME NEW th \in Threads, agenda[th] # <<>>, Item(th).op \notin {"resolve", "wait"}
      PROVE  FALSE
  <2>1. 1 \in DOMAIN agenda[th] /\ Item(th) = agenda[th][1] /\ agenda[th] \in Seq(Items)
    <3>1. agenda[th] \in Seq(Items)
      BY DEF Inv, TypeInv
    <3>2. Len(agenda[th]) \in Nat \ {0} /\ Head(agenda[th]) = agenda[th][1]
      BY <1>1, <3>1, EmptySeq
    <3> QED BY <3>1, <3>2, LenProperties DEF Item
  <2>2. CASE Item(th).op = "seed"
    <3>1. th = Caller
      BY <2>1, <2>2 DEF Inv, AgendaInv
    <3> QED BY <2>1, <2>2, <3>1 DEF Unseeded
  <2>3. CASE Item(th).op = "finish"
    <3>1. DOMAIN agenda[th] = 1 .. Len(agenda[th]) /\ Len(agenda[th]) \in Nat \ {0}
      BY <1>1, <2>1, LenProperties, EmptySeq
    <3>2. Len(agenda[th]) \in DOMAIN agenda[th] /\ Len(agenda[th]) + 1 - Len(agenda[th]) = 1
      BY <3>1
    <3>3. Guarded # {}
      <4>1. Len(agenda[th]) \in Guards(th)
        BY <2>1, <2>3, <3>2 DEF Guards
      <4>2. <<th, Len(agenda[th])>> \in Guarded
        BY <4>1, GuardedFacts
      <4> QED BY <4>2
    <3>4. IsFiniteSet(Enqueuing) /\ IsFiniteSet(Queued) /\ IsFiniteSet(Guarded)
      BY Basics, FS_Subset DEF Inv, CountInv, Enqueuing
    <3>5. Cardinality(Enqueuing) \in Nat /\ Cardinality(Queued) \in Nat
          /\ Cardinality(Guarded) \in Nat /\ Cardinality(Guarded) # 0
      BY <3>3, <3>4, FS_CardinalityType, FS_EmptySet
    <3>6. 0 + 0 = Cardinality(Queued) + Cardinality(Guarded) + Cardinality(Enqueuing)
      BY DEF Inv, CountInv
    <3> QED BY <3>5, <3>6
  <2>4. CASE Item(th).op \notin Ending /\ Item(th).op # "seed"
    <3>1. pending > 0
      BY <1>1, <2>4, Busy
    <3> QED BY <3>1
  <2> QED BY <1>1, <2>2, <2>3, <2>4 DEF Ending
<1>2. Queued = {}
  <2>1. IsFiniteSet(Enqueuing) /\ IsFiniteSet(Queued) /\ IsFiniteSet(Guarded)
    BY Basics, FS_Subset DEF Inv, CountInv, Enqueuing
  <2>2. Cardinality(Enqueuing) \in Nat /\ Cardinality(Queued) \in Nat /\ Cardinality(Guarded) \in Nat
    BY <2>1, FS_CardinalityType
  <2>3. 0 + 0 = Cardinality(Queued) + Cardinality(Guarded) + Cardinality(Enqueuing)
    BY DEF Inv, CountInv
  <2>4. Cardinality(Queued) = 0
    BY <2>2, <2>3
  <2> QED BY <2>1, <2>4, FS_EmptySet
<1>3. DOMAIN jobs = {}
  <2>1. ASSUME NEW j \in DOMAIN jobs
        PROVE  FALSE
    <3>1. jobs[j] \in Nat /\ jobs[j] > 0
      BY DEF Inv, TypeInv, IsABag
    <3>2. 1 \in 1 .. jobs[j]
      BY <3>1
    <3> QED BY <1>2, <3>2, QueuedFacts
  <2> QED BY <2>1
<1>4. jobs = EmptyBag
  <2>1. jobs = [j \in DOMAIN jobs |-> jobs[j]]
    BY DEF Inv, TypeInv, IsABag
  <2> QED BY <1>3, <2>1 DEF EmptyBag, SetToBag
<1> QED BY <1>1, <1>4

\* Items that stand for work, of which none is about to be queued.
Working(items) ==
  \A i \in DOMAIN items :
    /\ Within(items[i])
    /\ items[i].op \in Urgent => i = 1
    /\ items[i].op \notin Ending /\ items[i].op \notin {"seed", "enqueue"}

\* What all steps that only go on with their work have in common.
LEMMA WorkStep ==
  ASSUME Assumptions, Inv, NEW th \in Threads, agenda[th] # <<>>,
         Item(th).op \notin Ending, Item(th).op \notin {"seed", "enqueue"},
         NEW items \in Seq(Items), Working(items), Replace(th, items),
         UNCHANGED <<run, jobs, pending, done, result>>, DataInv'
  PROVE  Inv' /\ Goes(th)
<1>1. ~Unseeded /\ pending > 0 /\ done = "unset" /\ result = "running"
      /\ \A u \in Threads : ~At(u, "resolve")
  BY Busy
<1>2. Proper(items, Item(th).op \notin Ending)
  BY DEF Proper, Working, Ending
<1>3. /\ agenda \in [Threads -> Seq(Items)] /\ run' = run /\ Caller \in Threads
      /\ AgendaInv(th)
  BY Basics DEF Inv, TypeInv
<1>4. /\ agenda' \in [Threads -> Seq(Items)]
      /\ AgendaInv(th)'
      /\ \A u \in Threads : u # th => agenda'[u] = agenda[u]
  BY <1>2, <1>3, Replaced
<1>5. TypeInv'
  BY <1>4 DEF Inv, TypeInv
<1>6. \A it : Within(it)' <=> Within(it)
  BY DEF Within, Fits, Kids, IsLeaf, Total, Contribution
<1>7. ASSUME NEW u \in Threads
      PROVE  AgendaInv(u)'
  <2>1. CASE u = th
    BY <1>4, <2>1
  <2>2. CASE u # th
    <3>1. AgendaInv(u)
      BY Zenon DEF Inv
    <3>2. agenda'[u] = agenda[u]
      BY <1>4, <2>2, SMTT(30)
    <3> QED BY <1>6, <3>1, <3>2 DEF AgendaInv
  <2> QED BY <2>1, <2>2
<1>8. BatchInv'
  BY DEF Inv, BatchInv, Fits, Kids, IsLeaf, Total, Contribution
<1>9. /\ \A op \in Urgent : At(th, op)' => items # <<>> /\ items[1].op = op
      /\ \A u \in Threads : u # th => \A op : At(u, op)' <=> At(u, op)
      /\ ~Unseeded'
  BY <1>1, <1>2, <1>3, NextItem
<1>10. items # <<>> => 1 \in DOMAIN items
  <2>1. items # <<>> => Len(items) \in Nat \ {0}
    BY EmptySeq, LenProperties
  <2>2. items # <<>> => 1 \in 1 .. Len(items)
    BY <2>1
  <2> QED BY <2>2, LenProperties
<1>11. /\ ~At(th, "enqueue")' /\ ~At(th, "enqueue")
       /\ ~At(th, "resolve")'
  BY <1>9, <1>10 DEF Working, Urgent, Ending, At, Item
<1>12. CountInv'
  <2>1. Guarded' = Guarded
    <3>1. Item(th).op # "finish" /\ \A i \in DOMAIN items : items[i].op # "finish"
      BY DEF Working, Ending
    <3> QED BY <1>2, <1>3, <3>1, GuardedReplaced
  <2>2. Queued' = Queued
    BY DEF Queued
  <2>3. Enqueuing' = Enqueuing
    BY <1>9, <1>11 DEF Enqueuing
  <2> QED BY <1>1, <1>9, <2>1, <2>2, <2>3 DEF Inv, CountInv
<1>13. SeedInv' /\ EndInv'
  BY <1>1, <1>9, <1>11 DEF SeedInv, EndInv
<1>14. Goes(th)
  BY <1>2 DEF Goes
<1> QED BY <1>5, <1>7, <1>8, <1>12, <1>13, <1>14 DEF Inv

LEMMA ItemFacts ==
  ASSUME Assumptions, Inv, NEW th \in Threads, agenda[th] # <<>>
  PROVE  Item(th) \in Items /\ Within(Item(th))
<1>1. agenda[th] \in Seq(Items) /\ AgendaInv(th)
  BY DEF Inv, TypeInv
<1>2. Len(agenda[th]) \in Nat \ {0} /\ Head(agenda[th]) = agenda[th][1]
  BY <1>1, EmptySeq
<1>3. 1 \in DOMAIN agenda[th] /\ agenda[th][1] \in Items
  BY <1>1, <1>2, LenProperties, ElementOfSeq
<1> QED BY <1>1, <1>2, <1>3 DEF AgendaInv, Item

LEMMA DoFacts ==
  /\ \A op \in Plain, n \in Nodes : Do(op, n) \in Items
  /\ \A op \in {"seed", "finish", "wait", "resolve"} : Do(op, None) \in Items
  /\ \A op, n : op \in Plain \cup {"seed", "finish", "wait", "resolve"} => Within(Do(op, n))
  /\ \A op, n : Do(op, n).op = op /\ Do(op, n).node = n
BY DEF Do, Items, Plain, Within

LEMMA WorkingFacts ==
  ASSUME NEW x \in Items, Within(x), x.op \notin Ending, x.op \notin {"seed", "enqueue"},
         NEW y \in Items, Within(y), y.op \notin Ending, y.op \notin Urgent
  PROVE  Working(<<>>) /\ Working(<<x>>) /\ Working(<<x, y>>)
<1>1. "seed" \in Urgent /\ "enqueue" \in Urgent
  BY DEF Urgent
<1>2. Working(<<>>) /\ Working(<<x>>)
  BY Singles DEF Working
<1>3. Working(<<x, y>>)
  <2>1. ASSUME NEW i \in DOMAIN <<x, y>>
        PROVE  i = 1 \/ i = 2
    BY Singles
  <2> QED BY <1>1, <2>1, Singles DEF Working
<1> QED BY <1>2, <1>3

\* What a thread goes on with: nothing, one item of work, or one after another.
LEMMA PlainFacts ==
  ASSUME NEW op \in Plain, NEW n \in Nodes
  PROVE  /\ <<>> \in Seq(Items) /\ Working(<<>>)
         /\ <<Do(op, n)>> \in Seq(Items) /\ Working(<<Do(op, n)>>)
<1>1. Do(op, n) \in Items /\ Within(Do(op, n)) /\ Do(op, n).op = op
  BY DoFacts
<1>2. op \notin Ending /\ op \notin {"seed", "enqueue"}
  BY DEF Plain, Ending
<1>3. \E y \in Items : Within(y) /\ y.op \notin Ending /\ y.op \notin Urgent
  <2>1. "visit" \in Plain /\ "visit" \notin Ending /\ "visit" \notin Urgent
    BY DEF Plain, Ending, Urgent
  <2>2. Do("visit", n) \in Items /\ Within(Do("visit", n)) /\ Do("visit", n).op = "visit"
    BY <2>1, DoFacts
  <2> QED BY <2>1, <2>2
<1>4. Working(<<>>) /\ Working(<<Do(op, n)>>)
  BY <1>1, <1>2, <1>3, WorkingFacts
<1>5. <<>> \in Seq(Items) /\ <<Do(op, n)>> \in Seq(Items)
  BY <1>1, Singles
<1> QED BY <1>4, <1>5

LEMMA EachWorking ==
  ASSUME NEW op \in {"dispatch", "visit"}, NEW ns \in Seq(Nodes)
  PROVE  Each(op, ns) \in Seq(Items) /\ Working(Each(op, ns))
<1>1. Each(op, ns) \in Seq(Items) /\ DOMAIN Each(op, ns) = 1 .. Len(ns)
      /\ \A i \in 1 .. Len(ns) : ns[i] \in Nodes /\ Each(op, ns)[i] = Do(op, ns[i])
  BY EachFacts, LenProperties
<1>2. op \in Plain /\ op \notin Ending /\ op \notin {"seed", "enqueue"} /\ op \notin Urgent
  BY DEF Plain, Ending, Urgent
<1> QED BY <1>1, <1>2, DoFacts DEF Working

LEMMA OnDoneFacts ==
  ASSUME NEW n \in Nodes
  PROVE  OnDone(n) \in Seq(Items) /\ Working(OnDone(n))
<1>1. CASE Parents(n) = {}
  BY <1>1, PlainFacts DEF OnDone, Plain
<1>2. CASE Parents(n) # {}
  <2>1. PICK p \in Nodes : OnDone(n) = <<Do("childDone", p)>>
    BY <1>2 DEF OnDone, Parents
  <2>2. "childDone" \in Plain
    BY DEF Plain
  <2> QED BY <2>1, <2>2, PlainFacts
<1> QED BY <1>1, <1>2

LEMMA ScheduleFacts ==
  ASSUME NEW job \in Jobs, job.op = "batch" => Fits(job)
  PROVE  Schedule(job) \in Seq(Items) /\ Working(Schedule(job))
<1> DEFINE x == [op |-> "submit", job |-> job]
<1>1. x \in Items /\ x.op = "submit" /\ Within(x)
  BY DEF Items, Within
<1>2. x.op \notin Ending /\ x.op \notin {"seed", "enqueue"} /\ x.op \notin Urgent
  BY <1>1 DEF Ending, Urgent
<1> HIDE DEF x
<1>3. <<x>> \in Seq(Items) /\ Working(<<x>>)
  BY <1>1, <1>2, Singles, WorkingFacts
<1> QED BY <1>3 DEF Schedule, x

LEMMA MemoryTyped ==
  ASSUME DataInv, NEW th \in Threads, NEW o \in Objects,
         AcqRel(th, o) \/ Load(th, TRUE) \/ Load(th, FALSE)
  PROVE  view' \in [Threads -> SUBSET Facts] /\ sync' \in [Objects -> SUBSET Facts]
<1>1. CASE AcqRel(th, o)
  BY <1>1 DEF AcqRel, DataInv
<1>2. CASE Load(th, TRUE) \/ Load(th, FALSE)
  <2>1. "raised" \in Objects
    BY DEF Objects
  <2> QED BY <1>2, <2>1 DEF Load, memory, DataInv
<1> QED BY <1>1, <1>2
-----------------------------------------------------------------------------
(* Each action keeps the invariant *)

LEMMA DispatchKeepsInv ==
  ASSUME Assumptions, Inv, NEW th \in Threads, Dispatch(th)
  PROVE  Inv' /\ Goes(th)
<1> USE DEF state, visits, memory
<1> DEFINE n == Item(th).node
<1>1. agenda[th] # <<>> /\ Item(th).op = "dispatch"
  BY DEF Dispatch, At, Item
<1>2. n \in Nodes
  BY <1>1, ItemFacts DEF Items
<1>3. Item(th).op \notin Ending /\ Item(th).op \notin {"seed", "enqueue"}
  BY <1>1 DEF Ending
<1>4. DataInv'
  BY DEF Dispatch, Inv, TypeInv, DataInv
<1>5. UNCHANGED <<run, jobs, pending, done, result>>
  BY DEF Dispatch
<1>6. PICK items : Replace(th, items) /\ items \in Seq(Items) /\ Working(items)
  <2>1. Do("topDown", n) \in Jobs /\ Do("topDown", n).op = "topDown"
    BY <1>2 DEF Do, Jobs
  <2>2. /\ Schedule(Do("topDown", n)) \in Seq(Items) /\ Working(Schedule(Do("topDown", n)))
        /\ <<Do("enter", n)>> \in Seq(Items) /\ Working(<<Do("enter", n)>>)
    <3>1. "enter" \in Plain
      BY DEF Plain
    <3> QED BY <1>2, <2>1, <3>1, ScheduleFacts, PlainFacts
  <2>3. Replace(th, Schedule(Do("topDown", n))) \/ Replace(th, <<Do("enter", n)>>)
    BY DEF Dispatch
  <2> QED BY <2>2, <2>3
<1> QED BY <1>1, <1>3, <1>4, <1>5, <1>6, WorkStep

LEMMA EnterKeepsInv ==
  ASSUME Assumptions, Inv, NEW th \in Threads, Enter(th) \/ Descend(th)
  PROVE  Inv' /\ Goes(th)
<1> USE DEF state, visits, memory
<1> DEFINE n == Item(th).node
<1>1. agenda[th] # <<>> /\ Item(th).op \in {"enter", "descend"}
  BY DEF Enter, Descend, At, Item
<1>2. n \in Nodes
  BY <1>1, ItemFacts DEF Items
<1>3. Item(th).op \notin Ending /\ Item(th).op \notin {"seed", "enqueue"}
  BY <1>1 DEF Ending
<1>4. PICK raised \in BOOLEAN :
        /\ Load(th, raised)
        /\ Replace(th, IF raised THEN <<>> ELSE <<Do("touch", n)>>)
             \/ Replace(th, IF raised THEN <<>> ELSE Each("dispatch", Kids(n)))
  BY DEF Enter, Descend
<1>5. DataInv'
  <2>1. "raised" \in Objects
    BY DEF Objects
  <2>2. DataInv
    BY DEF Inv, TypeInv
  <2>3. view' \in [Threads -> SUBSET Facts] /\ sync' \in [Objects -> SUBSET Facts]
    BY <1>4, <2>1, <2>2, MemoryTyped
  <2> QED BY <2>2, <2>3 DEF Enter, Descend, DataInv
<1>6. UNCHANGED <<run, jobs, pending, done, result>>
  BY DEF Enter, Descend
<1>7. PICK items : Replace(th, items) /\ items \in Seq(Items) /\ Working(items)
  <2>1. "touch" \in Plain /\ Kids(n) \in Seq(Nodes)
    BY <1>2, Basics DEF Plain, Inv
  <2>2. /\ <<>> \in Seq(Items) /\ Working(<<>>)
        /\ <<Do("touch", n)>> \in Seq(Items) /\ Working(<<Do("touch", n)>>)
        /\ Each("dispatch", Kids(n)) \in Seq(Items) /\ Working(Each("dispatch", Kids(n)))
    BY <1>2, <2>1, PlainFacts, EachWorking
  <2> QED BY <1>4, <2>2
<1> QED BY <1>1, <1>3, <1>5, <1>6, <1>7, WorkStep

LEMMA CompleteKeepsInv ==
  ASSUME Assumptions, Inv, NEW th \in Threads, Complete(th) \/ Again(th)
  PROVE  Inv' /\ Goes(th)
<1> USE DEF state, visits, memory
<1> DEFINE n == Item(th).node
<1>1. agenda[th] # <<>> /\ Item(th).op \in {"complete", "again"}
  BY DEF Complete, Again, At, Item
<1>2. n \in Nodes
  BY <1>1, ItemFacts DEF Items
<1>3. Item(th).op \notin Ending /\ Item(th).op \notin {"seed", "enqueue"}
  BY <1>1 DEF Ending
<1>4. PICK raised \in BOOLEAN :
        /\ Load(th, raised)
        /\ \/ Replace(th, OnDone(n))
           \/ Replace(th, Schedule(Do("node", n)))
           \/ Replace(th, <<Do("work", n)>>)
  BY DEF Complete, Again
<1>5. DataInv'
  <2>1. "raised" \in Objects
    BY DEF Objects
  <2>2. DataInv
    BY DEF Inv, TypeInv
  <2>3. view' \in [Threads -> SUBSET Facts] /\ sync' \in [Objects -> SUBSET Facts]
    BY <1>4, <2>1, <2>2, MemoryTyped
  <2> QED BY <2>2, <2>3 DEF Complete, Again, DataInv
<1>6. UNCHANGED <<run, jobs, pending, done, result>>
  BY DEF Complete, Again
<1>7. PICK items : Replace(th, items) /\ items \in Seq(Items) /\ Working(items)
  <2>1. "work" \in Plain
    BY DEF Plain
  <2>2. Do("node", n) \in Jobs /\ Do("node", n).op = "node"
    BY <1>2 DEF Do, Jobs
  <2>3. OnDone(n) \in Seq(Items) /\ Working(OnDone(n))
    BY <1>2, OnDoneFacts
  <2>4. Schedule(Do("node", n)) \in Seq(Items) /\ Working(Schedule(Do("node", n)))
    BY <2>2, ScheduleFacts
  <2>5. <<Do("work", n)>> \in Seq(Items) /\ Working(<<Do("work", n)>>)
    BY <1>2, <2>1, PlainFacts
  <2> QED BY <1>4, <2>3, <2>4, <2>5
<1> QED BY <1>1, <1>3, <1>5, <1>6, <1>7, WorkStep

LEMMA BottomUpKeepsInv ==
  ASSUME Assumptions, Inv, NEW th \in Threads, BottomUp(th)
  PROVE  Inv' /\ Goes(th)
<1> USE DEF state, visits, memory
<1> DEFINE n == Item(th).node
<1>1. agenda[th] # <<>> /\ Item(th).op = "visit"
  BY DEF BottomUp, At, Item
<1>2. n \in Nodes /\ Kids(n) \in Seq(Nodes) /\ Len(Kids(n)) \in Nat
  <2>1. n \in Nodes
    BY <1>1, ItemFacts DEF Items
  <2> QED BY <2>1, Basics DEF Inv
<1>3. Item(th).op \notin Ending /\ Item(th).op \notin {"seed", "enqueue"}
  BY <1>1 DEF Ending
<1>4. DataInv'
  <2>1. StartCount(n) \in Int
    BY <1>2 DEF StartCount
  <2>2. remaining' = remaining \/ remaining' = [remaining EXCEPT ![n] = StartCount(n)]
    BY DEF BottomUp
  <2>3. UNCHANGED <<claimed, hasException, exception, visited, failed, view, sync>>
    BY DEF BottomUp
  <2> QED BY <2>1, <2>2, <2>3 DEF Inv, TypeInv, DataInv
<1>5. UNCHANGED <<run, jobs, pending, done, result>>
  BY DEF BottomUp
<1>6. PICK items : Replace(th, items) /\ items \in Seq(Items) /\ Working(items)
  <2>1. CASE Replace(th, <<Do("complete", n)>>)
    <3>1. "complete" \in Plain
      BY DEF Plain
    <3> QED BY <1>2, <2>1, <3>1, PlainFacts
  <2>2. CASE Replace(th, Each("visit", Kids(n)))
    BY <1>2, <2>2, EachWorking
  <2>3. CASE ~IsLeaf(n) /\ Replace(th, <<NextUnit(n, 1)>>)
    <3>1. 1 \in 1 .. Len(Kids(n))
      BY <1>2, <2>3, EmptySeq DEF IsLeaf
    <3>2. NextUnit(n, 1) \in Items /\ NextUnit(n, 1).op = "unit" /\ Within(NextUnit(n, 1))
      <4>1. NextUnit(n, 1) = [op |-> "unit", node |-> n, lo |-> 1]
        BY <1>2, <3>1 DEF NextUnit
      <4> QED BY <1>2, <3>1, <4>1 DEF Items, Within
    <3>3. "unit" \notin Ending /\ "unit" \notin Urgent
      BY DEF Ending, Urgent
    <3>4. <<NextUnit(n, 1)>> \in Seq(Items) /\ Working(<<NextUnit(n, 1)>>)
      BY <3>2, <3>3, Singles, WorkingFacts
    <3> QED BY <2>3, <3>4
  <2> QED BY <2>1, <2>2, <2>3 DEF BottomUp
<1> QED BY <1>1, <1>3, <1>4, <1>5, <1>6, WorkStep

\* The rest of the units, or the release of the sentinel.
LEMMA NextUnitFacts ==
  ASSUME Assumptions, TypeInv, NEW n \in Nodes, NEW lo \in 1 .. Len(Kids(n)) + 1
  PROVE  /\ NextUnit(n, lo) \in Items /\ Within(NextUnit(n, lo))
         /\ NextUnit(n, lo).op \in {"unit", "childDone"} /\ NextUnit(n, lo).node = n
<1>1. Len(Kids(n)) \in Nat
  BY Basics
<1>2. CASE lo <= Len(Kids(n))
  <2>1. NextUnit(n, lo) = [op |-> "unit", node |-> n, lo |-> lo] /\ lo \in 1 .. Len(Kids(n))
    BY <1>1, <1>2 DEF NextUnit
  <2> QED BY <1>1, <2>1 DEF Items, Within
<1>3. CASE ~(lo <= Len(Kids(n)))
  <2>1. NextUnit(n, lo) = Do("childDone", n)
    BY <1>3 DEF NextUnit
  <2>2. "childDone" \in Plain
    BY DEF Plain
  <2> QED BY <2>1, <2>2, DoFacts
<1> QED BY <1>2, <1>3

LEMMA TwoItems == ASSUME NEW x, NEW y PROVE <<x>> \o <<y>> = <<x, y>>
<1> DEFINE S == {x, y}
           p == <<x>>
           q == <<y>>
           r == <<x, y>>
<1>1. p \in Seq(S) /\ q \in Seq(S) /\ r \in Seq(S) /\ Len(p) = 1 /\ Len(q) = 1 /\ Len(r) = 2
      /\ p[1] = x /\ q[1] = y /\ r[1] = x /\ r[2] = y
  OBVIOUS
<1> HIDE DEF p, q, r
<1>2. /\ p \o q \in Seq(S) /\ Len(p \o q) = Len(p) + Len(q)
      /\ \A i \in 1 .. Len(p) + Len(q) : (p \o q)[i] = IF i <= Len(p) THEN p[i] ELSE q[i - Len(p)]
  BY <1>1, ConcatProperties
<1>3. Len(p \o q) = 2 /\ (p \o q)[1] = x /\ (p \o q)[2] = y
  BY <1>1, <1>2
<1>4. p \o q = r
  BY <1>1, <1>2, <1>3, SeqEqual
<1> QED BY <1>4 DEF p, q, r

LEMMA UnitKeepsInv ==
  ASSUME Assumptions, Inv, NEW th \in Threads, Unit(th)
  PROVE  Inv' /\ Goes(th)
<1> USE DEF state, visits, memory
<1> DEFINE n  == Item(th).node
           lo == Item(th).lo
           hi == UnitEnd(n, lo)
           x  == [op |-> "submit", job |-> Span("batch", n, lo, hi)]
           y  == Do("visit", Kids(n)[lo])
           z  == NextUnit(n, hi)
<1>1. agenda[th] # <<>> /\ Item(th).op = "unit"
  BY DEF Unit, At, Item
<1>2. n \in Nodes /\ lo \in 1 .. Len(Kids(n))
  BY <1>1, ItemFacts DEF Items, Within
<1>3. Item(th).op \notin Ending /\ Item(th).op \notin {"seed", "enqueue"}
  BY <1>1 DEF Ending
<1>4. /\ remaining' = [remaining EXCEPT ![n] = @ + 1]
      /\ UNCHANGED memory
      /\ UNCHANGED <<run, jobs, state, result, visits>>
  BY DEF Unit, Relaxed
<1>5. IF hi > lo + 1 THEN Replace(th, <<x>> \o <<z>>) ELSE Replace(th, <<y>> \o <<z>>)
  BY DEF Unit, Schedule
<1>6. DataInv'
  <2>1. DataInv
    BY DEF Inv, TypeInv
  <2> QED BY <1>2, <1>4, <2>1 DEF DataInv
<1>7. TypeInv /\ Len(Kids(n)) \in Nat /\ Kids(n)[lo] \in Nodes
  BY <1>2, Basics DEF Inv
<1>8. hi \in lo + 1 .. Len(Kids(n)) + 1 /\ (hi > lo + 1 => Fits(Span("batch", n, lo, hi)))
  BY <1>2, <1>7, UnitFacts
<1>9. z \in Items /\ Within(z) /\ z.op \notin Ending /\ z.op \notin Urgent
  <2>1. hi \in 1 .. Len(Kids(n)) + 1
    BY <1>2, <1>7, <1>8
  <2>2. z \in Items /\ Within(z) /\ z.op \in {"unit", "childDone"}
    <3> HIDE DEF hi
    <3> QED BY <1>2, <1>7, <2>1, NextUnitFacts
  <2> QED BY <2>2 DEF Ending, Urgent
<1>10. PICK items : Replace(th, items) /\ items \in Seq(Items) /\ Working(items)
  <2>1. CASE hi > lo + 1
    <3>1. x \in Items /\ Within(x) /\ x.op = "submit"
      <4>1. Span("batch", n, lo, hi) \in Jobs
        BY <1>2, <1>7, <1>8 DEF Span, Jobs
      <4>2. Fits(Span("batch", n, lo, hi))
        BY <1>8, <2>1
      <4>3. \A b \in Jobs : Fits(b) => LET it == [op |-> "submit", job |-> b] IN it \in Items /\ Within(it)
        BY DEF Items, Within
      <4> HIDE DEF hi
      <4> QED BY <4>1, <4>2, <4>3
    <3>2. x.op \notin Ending /\ x.op \notin {"seed", "enqueue"}
      BY <3>1 DEF Ending
    <3>3. Replace(th, <<x>> \o <<z>>) /\ <<x>> \o <<z>> = <<x, z>>
      BY <1>5, <2>1, TwoItems
    <3> HIDE DEF x, z, hi
    <3>4. <<x, z>> \in Seq(Items) /\ Working(<<x, z>>)
      BY <1>9, <3>1, <3>2, Singles, WorkingFacts
    <3> QED BY <3>3, <3>4
  <2>2. CASE ~(hi > lo + 1)
    <3>1. y \in Items /\ Within(y) /\ y.op \notin Ending /\ y.op \notin {"seed", "enqueue"}
      <4>1. "visit" \in Plain /\ "visit" \notin Ending
        BY DEF Plain, Ending
      <4> QED BY <1>7, <4>1, DoFacts
    <3>2. Replace(th, <<y>> \o <<z>>) /\ <<y>> \o <<z>> = <<y, z>>
      BY <1>5, <2>2, TwoItems
    <3> HIDE DEF y, z, hi
    <3>3. <<y, z>> \in Seq(Items) /\ Working(<<y, z>>)
      BY <1>9, <3>1, Singles, WorkingFacts
    <3> QED BY <3>2, <3>3
  <2> QED BY <2>1, <2>2
<1>11. UNCHANGED <<run, jobs, pending, done, result>>
  BY <1>4
<1> QED BY <1>1, <1>3, <1>6, <1>10, <1>11, WorkStep

LEMMA ChildDoneKeepsInv ==
  ASSUME Assumptions, Inv, NEW th \in Threads, ChildDone(th)
  PROVE  Inv' /\ Goes(th)
<1> USE DEF state, visits, memory
<1> DEFINE n == Item(th).node
<1>1. agenda[th] # <<>> /\ Item(th).op = "childDone"
  BY DEF ChildDone, At, Item
<1>2. n \in Nodes
  BY <1>1, ItemFacts DEF Items
<1>3. Item(th).op \notin Ending /\ Item(th).op \notin {"seed", "enqueue"}
  BY <1>1 DEF Ending
<1>4. /\ remaining' = [remaining EXCEPT ![n] = @ - 1]
      /\ UNCHANGED memory
      /\ Replace(th, <<Do("complete", n)>>) \/ Replace(th, <<>>)
      /\ UNCHANGED <<run, jobs, state, result, visits>>
  BY DEF ChildDone, Relaxed
<1>5. DataInv'
  <2>1. DataInv
    BY DEF Inv, TypeInv
  <2> QED BY <1>2, <1>4, <2>1 DEF DataInv
<1>6. PICK items : Replace(th, items) /\ items \in Seq(Items) /\ Working(items)
  <2>1. "complete" \in Plain
    BY DEF Plain
  <2> QED BY <1>2, <1>4, <2>1, PlainFacts
<1>7. UNCHANGED <<run, jobs, pending, done, result>>
  BY <1>4
<1> QED BY <1>1, <1>3, <1>5, <1>6, <1>7, WorkStep

LEMMA ClaimKeepsInv ==
  ASSUME Assumptions, Inv, NEW th \in Threads, Claim(th) \/ Record(th)
  PROVE  Inv' /\ Goes(th)
<1> USE DEF state, visits, memory
<1> DEFINE n == Item(th).node
<1>1. agenda[th] # <<>> /\ Item(th).op \in {"claim", "record"}
  BY DEF Claim, Record, At, Item
<1>2. n \in Nodes
  BY <1>1, ItemFacts DEF Items
<1>3. Item(th).op \notin Ending /\ Item(th).op \notin {"seed", "enqueue"}
  BY <1>1 DEF Ending
<1>4. DataInv'
  <2>1. {"claim", "raised"} \subseteq Objects /\ Raised \in Facts /\ DataInv
    BY DEF Objects, Facts, Inv, TypeInv
  <2>2. CASE Claim(th)
    <3>1. view' \in [Threads -> SUBSET Facts] /\ sync' \in [Objects -> SUBSET Facts]
      BY <2>1, <2>2, MemoryTyped DEF Claim
    <3> QED BY <2>1, <2>2, <3>1 DEF Claim, DataInv
  <2>3. CASE Record(th)
    BY <1>2, <2>1, <2>3 DEF Record, DataInv
  <2> QED BY <2>2, <2>3
<1>5. UNCHANGED <<run, jobs, pending, done, result>>
  BY DEF Claim, Record
<1>6. PICK items : Replace(th, items) /\ items \in Seq(Items) /\ Working(items)
  <2>1. Replace(th, <<Do("record", n)>>) \/ Replace(th, <<>>)
    BY DEF Claim, Record
  <2>2. "record" \in Plain
    BY DEF Plain
  <2> QED BY <1>2, <2>1, <2>2, PlainFacts
<1> QED BY <1>1, <1>3, <1>4, <1>5, <1>6, WorkStep

\* What follows when a visitor throws: at most a report to the node above.
Reports == {<<>>} \cup {<<Do("childDone", p)>> : p \in Nodes}

LEMMA ReportFacts ==
  ASSUME NEW w \in Reports, NEW n \in Nodes
  PROVE  /\ w \in Seq(Items) /\ Working(w)
         /\ <<Do("claim", n)>> \o w \in Seq(Items) /\ Working(<<Do("claim", n)>> \o w)
<1> DEFINE x == Do("claim", n)
<1>0. "claim" \in Plain /\ "childDone" \in Plain
  BY DEF Plain
<1>1. x \in Items /\ Within(x) /\ x.op \notin Ending /\ x.op \notin {"seed", "enqueue"}
  BY <1>0, DoFacts DEF Ending
<1>2. <<x>> \in Seq(Items) /\ Working(<<x>>)
  BY <1>0, PlainFacts
<1>3. CASE w = <<>>
  <2>1. <<x>> \o w = <<x>>
    <3> HIDE DEF x
    <3>1. <<x>> \in Seq(Items)
      BY <1>2
    <3> QED BY <1>3, <3>1, ConcatEmptySeq
  <2> QED BY <1>0, <1>2, <1>3, <2>1, PlainFacts
<1>4. CASE w # <<>>
  <2>1. PICK p \in Nodes : w = <<Do("childDone", p)>>
    BY <1>4 DEF Reports
  <2> DEFINE y == Do("childDone", p)
  <2>2. y \in Items /\ Within(y) /\ y.op \notin Ending /\ y.op \notin Urgent
    BY <1>0, DoFacts DEF Ending, Urgent
  <2>3. <<x>> \o w = <<x, y>>
    BY <2>1, TwoItems
  <2>4. <<x, y>> \in Seq(Items) /\ Working(<<x, y>>)
    <3> HIDE DEF x, y
    <3> QED BY <1>1, <2>2, Singles, WorkingFacts
  <2> QED BY <1>0, <2>1, <2>3, <2>4, PlainFacts
<1> QED BY <1>3, <1>4

LEMMA OnDoneReports == ASSUME NEW n \in Nodes PROVE OnDone(n) \in Reports
BY DEF OnDone, Reports, Parents

\* What a call of the visitor leaves.
LEMMA CallFacts ==
  ASSUME DataInv, NEW th \in Threads, NEW n \in Nodes,
         NEW d \in Seq(Items), Working(d), NEW w \in Reports, Call(th, n, d, w),
         UNCHANGED <<run, jobs, remaining, state, result, sync>>
  PROVE  /\ DataInv'
         /\ \E items : Replace(th, items) /\ items \in Seq(Items) /\ Working(items)
<1>1. DataInv'
  <2>1. n \in Facts
    BY DEF Facts
  <2> QED BY <2>1 DEF Call, DataInv, state
<1>2. Replace(th, d) \/ Replace(th, <<Do("claim", n)>> \o w)
  BY DEF Call
<1> QED BY <1>1, <1>2, ReportFacts

LEMMA TouchKeepsInv ==
  ASSUME Assumptions, Inv, NEW th \in Threads, Touch(th) \/ Work(th)
  PROVE  Inv' /\ Goes(th)
<1> DEFINE n == Item(th).node
<1>1. agenda[th] # <<>> /\ Item(th).op \in {"touch", "work"}
  BY DEF Touch, Work, At, Item
<1>2. n \in Nodes
  BY <1>1, ItemFacts DEF Items
<1>3. Item(th).op \notin Ending /\ Item(th).op \notin {"seed", "enqueue"}
  BY <1>1 DEF Ending
<1>4. UNCHANGED <<run, jobs, remaining, state, result, sync>>
  BY DEF Touch, Work
<1>5. PICK d \in Seq(Items), w \in Reports : Working(d) /\ Call(th, n, d, w)
  <2>1. "descend" \in Plain
    BY DEF Plain
  <2>2. <<Do("descend", n)>> \in Seq(Items) /\ Working(<<Do("descend", n)>>) /\ <<>> \in Reports
    BY <1>2, <2>1, PlainFacts DEF Reports
  <2>3. OnDone(n) \in Seq(Items) /\ Working(OnDone(n)) /\ OnDone(n) \in Reports
    BY <1>2, OnDoneFacts, OnDoneReports
  <2>4. Call(th, n, <<Do("descend", n)>>, <<>>) \/ Call(th, n, OnDone(n), OnDone(n))
    BY DEF Touch, Work
  <2> HIDE DEF n
  <2> QED BY <2>2, <2>3, <2>4
<1>6. DataInv
  BY DEF Inv, TypeInv
<1>7. DataInv' /\ \E items : Replace(th, items) /\ items \in Seq(Items) /\ Working(items)
  BY <1>2, <1>4, <1>5, <1>6, CallFacts
<1>8. UNCHANGED <<run, jobs, pending, done, result>>
  BY <1>4 DEF state
<1> QED BY <1>1, <1>3, <1>7, <1>8, WorkStep

LEMMA SpanFacts ==
  ASSUME NEW op \in {"batch", "leaf"}, NEW n \in Nodes, NEW lo \in Nat, NEW hi \in Nat
  PROVE  LET x == Span(op, n, lo, hi) IN
         x \in Items /\ x.op = op /\ x.node = n /\ x.lo = lo /\ x.hi = hi
BY DEF Span, Items

LEMMA LeafKeepsInv ==
  ASSUME Assumptions, Inv, NEW th \in Threads, Leaf(th)
  PROVE  Inv' /\ Goes(th)
<1> DEFINE b == Item(th)
           n == Kids(b.node)[b.lo]
           x == Span("batch", b.node, b.lo + 1, b.hi)
<1>1. agenda[th] # <<>> /\ b.op = "leaf"
  BY DEF Leaf, At, Item
<1>2. /\ b \in [op : {"batch", "leaf"}, node : Nodes, lo : Nat, hi : Nat]
      /\ b.lo \in Nat \ {0} /\ b.lo < b.hi /\ b.hi <= Len(Kids(b.node)) + 1 /\ b.hi \in Nat
      /\ b.node \in Nodes /\ Len(Kids(b.node)) \in Nat
  <2>1. b \in [op : {"batch", "leaf"}, node : Nodes, lo : Nat, hi : Nat]
    <3>1. b \in Items
      BY <1>1, ItemFacts
    <3> HIDE DEF b
    <3> QED BY <1>1, <3>1 DEF Items, Plain
  <2>2. Within(b)
    BY <1>1, ItemFacts
  <2> HIDE DEF b
  <2>3. b.node \in Nodes /\ b.hi \in Nat
    BY <2>1
  <2> QED BY <1>1, <2>1, <2>2, <2>3, Basics DEF Within, Inv
<1>3. Item(th).op \notin Ending /\ Item(th).op \notin {"seed", "enqueue"}
  BY <1>1 DEF Ending
<1>4. UNCHANGED <<run, jobs, remaining, state, result, sync>>
  BY DEF Leaf
<1>5. n \in Nodes
  <2>1. b.lo \in 1 .. Len(Kids(b.node))
    <3> HIDE DEF b
    <3> QED BY <1>2
  <2> QED BY <1>2, <2>1, Basics DEF Inv
<1>6. x \in Items /\ Within(x) /\ x.op = "batch"
  <2> HIDE DEF b
  <2>1. /\ x \in Items
        /\ x.op = "batch" /\ x.lo = b.lo + 1 /\ x.hi = b.hi /\ x.node = b.node
    <3>1. b.lo + 1 \in Nat
      BY <1>2
    <3> QED BY <1>2, <3>1, SpanFacts
  <2>2. x.lo \in Nat \ {0} /\ x.lo <= x.hi /\ x.hi <= Len(Kids(x.node)) + 1
    BY <1>2, <2>1
  <2> HIDE DEF x
  <2> QED BY <2>1, <2>2 DEF Within
<1>7. <<x>> \in Seq(Items) /\ Working(<<x>>)
  <2>1. "batch" \notin Ending /\ "batch" \notin {"seed", "enqueue"} /\ "batch" \notin Urgent
    BY DEF Ending, Urgent
  <2> HIDE DEF x
  <2>2. Working(<<x>>)
    BY <1>6, <2>1, WorkingFacts
  <2>3. <<x>> \in Seq(Items)
    BY <1>6, Singles
  <2> QED BY <2>2, <2>3
<1>8. <<Do("childDone", b.node)>> \in Reports
  BY <1>2 DEF Reports
<1>9. Call(th, n, <<x>>, <<Do("childDone", b.node)>>)
  BY DEF Leaf
<1>10. DataInv
  BY DEF Inv, TypeInv
<1>11. DataInv' /\ \E items : Replace(th, items) /\ items \in Seq(Items) /\ Working(items)
  <2> HIDE DEF n, x, b
  <2> QED BY <1>4, <1>5, <1>7, <1>8, <1>9, <1>10, CallFacts
<1>12. UNCHANGED <<run, jobs, pending, done, result>>
  BY <1>4 DEF state
<1> QED BY <1>1, <1>3, <1>11, <1>12, WorkStep

LEMMA BatchKeepsInv ==
  ASSUME Assumptions, Inv, NEW th \in Threads, Batch(th)
  PROVE  Inv' /\ Goes(th)
<1> USE DEF state, visits, memory
<1> DEFINE b == Item(th)
           x == Span("leaf", b.node, b.lo, b.hi)
<1>1. agenda[th] # <<>> /\ b.op = "batch"
  BY DEF Batch, At, Item
<1>2. /\ b \in [op : {"batch", "leaf"}, node : Nodes, lo : Nat, hi : Nat]
      /\ b.lo \in Nat \ {0} /\ b.lo <= b.hi /\ b.hi <= Len(Kids(b.node)) + 1
      /\ b.node \in Nodes
  <2>1. b \in [op : {"batch", "leaf"}, node : Nodes, lo : Nat, hi : Nat]
    <3>1. b \in Items
      BY <1>1, ItemFacts
    <3> HIDE DEF b
    <3> QED BY <1>1, <3>1 DEF Items, Plain
  <2>2. Within(b)
    BY <1>1, ItemFacts
  <2> HIDE DEF b
  <2>3. b.node \in Nodes
    BY <2>1
  <2> QED BY <1>1, <2>1, <2>2, <2>3 DEF Within
<1>3. Item(th).op \notin Ending /\ Item(th).op \notin {"seed", "enqueue"}
  BY <1>1 DEF Ending
<1>4. UNCHANGED <<run, jobs, remaining, state, result, visits>>
  BY DEF Batch
<1>5. \/ Replace(th, <<Do("childDone", b.node)>>) /\ UNCHANGED memory
      \/ \E raised \in BOOLEAN :
           /\ Load(th, raised)
           /\ Replace(th, <<Do("childDone", b.node)>>) \/ (b.lo < b.hi /\ Replace(th, <<x>>))
  BY DEF Batch
<1>6. DataInv'
  <2>1. "raised" \in Objects /\ DataInv
    BY DEF Objects, Inv, TypeInv
  <2>2. view' \in [Threads -> SUBSET Facts] /\ sync' \in [Objects -> SUBSET Facts]
    <3>1. CASE UNCHANGED memory
      BY <2>1, <3>1 DEF DataInv
    <3>2. CASE \E raised \in BOOLEAN : Load(th, raised)
      BY <2>1, <3>2, MemoryTyped
    <3> QED BY <1>5, <3>1, <3>2
  <2> QED BY <1>4, <2>1, <2>2 DEF DataInv
<1>7. PICK items : Replace(th, items) /\ items \in Seq(Items) /\ Working(items)
  <2>1. <<Do("childDone", b.node)>> \in Seq(Items) /\ Working(<<Do("childDone", b.node)>>)
    <3>1. "childDone" \in Plain
      BY DEF Plain
    <3> QED BY <1>2, <3>1, PlainFacts
  <2>2. ASSUME b.lo < b.hi
        PROVE  <<x>> \in Seq(Items) /\ Working(<<x>>)
    <3>1. x \in Items /\ Within(x) /\ x.op = "leaf"
      <4> HIDE DEF b
      <4>1. /\ x \in Items
            /\ x.op = "leaf" /\ x.lo = b.lo /\ x.hi = b.hi /\ x.node = b.node
        <5>1. b.lo \in Nat /\ b.hi \in Nat
          BY <1>2
        <5> QED BY <1>2, <5>1, SpanFacts
      <4> HIDE DEF x
      <4> QED BY <1>2, <2>2, <4>1 DEF Within
    <3>2. "leaf" \notin Ending /\ "leaf" \notin {"seed", "enqueue"} /\ "leaf" \notin Urgent
      BY DEF Ending, Urgent
    <3> HIDE DEF x
    <3>3. Working(<<x>>)
      BY <3>1, <3>2, WorkingFacts
    <3>4. <<x>> \in Seq(Items)
      BY <3>1, Singles
    <3> QED BY <3>3, <3>4
  <2> HIDE DEF x
  <2> QED BY <1>5, <2>1, <2>2
<1>8. UNCHANGED <<run, jobs, pending, done, result>>
  BY <1>4
<1> QED BY <1>1, <1>3, <1>6, <1>7, <1>8, WorkStep

LEMMA Kept ==
  ASSUME Assumptions, Inv, NEW th \in Threads, agenda[th] # <<>>,
         NEW items \in Seq(Items), Proper(items, Item(th).op \notin Ending), Replace(th, items), run' = run
  PROVE  /\ agenda' \in [Threads -> Seq(Items)]
         /\ \A u \in Threads : AgendaInv(u)'
         /\ items # <<>> => agenda'[th] # <<>> /\ Item(th)' = items[1]
         /\ \A op \in Urgent : At(th, op)' => items # <<>> /\ items[1].op = op
         /\ \A u \in Threads : u # th => \A op : At(u, op)' <=> At(u, op)
         /\ IF th = Caller THEN ~Unseeded' ELSE Unseeded' = Unseeded
         /\ \A b : Fits(b)' <=> Fits(b)
<1>1. /\ agenda \in [Threads -> Seq(Items)] /\ Caller \in Threads
      /\ AgendaInv(th)
  BY Basics DEF Inv, TypeInv
<1>2. /\ agenda' \in [Threads -> Seq(Items)]
      /\ AgendaInv(th)'
      /\ \A u \in Threads : u # th => agenda'[u] = agenda[u]
  BY <1>1, Replaced
<1>3. \A it : Within(it)' <=> Within(it)
  BY DEF Within, Fits, Kids, IsLeaf, Total, Contribution
<1>4. ASSUME NEW u \in Threads
      PROVE  AgendaInv(u)'
  <2>1. CASE u = th
    BY <1>2, <2>1
  <2>2. CASE u # th
    <3>1. AgendaInv(u) /\ agenda'[u] = agenda[u]
      BY <1>2, <2>2 DEF Inv
    <3> QED BY <1>3, <3>1 DEF AgendaInv
  <2> QED BY <2>1, <2>2
<1>5. \A b : Fits(b)' <=> Fits(b)
  BY DEF Fits, Kids, IsLeaf, Total, Contribution
<1>6. /\ items # <<>> => agenda'[th] # <<>> /\ Item(th)' = items[1]
      /\ \A op \in Urgent : At(th, op)' => items # <<>> /\ items[1].op = op
      /\ \A u \in Threads : u # th => \A op : At(u, op)' <=> At(u, op)
      /\ IF th = Caller THEN ~Unseeded' ELSE Unseeded' = Unseeded
  BY <1>1, NextItem
<1> QED BY <1>2, <1>4, <1>5, <1>6

\* The numbers of things that pending counts.
LEMMA Counts ==
  ASSUME Assumptions, Inv
  PROVE  /\ IsFiniteSet(Queued) /\ IsFiniteSet(Guarded) /\ IsFiniteSet(Enqueuing)
         /\ Cardinality(Queued) \in Nat /\ Cardinality(Guarded) \in Nat /\ Cardinality(Enqueuing) \in Nat
         /\ pending \in Nat
         /\ Unseeded => pending + 1 = Cardinality(Queued) + Cardinality(Guarded) + Cardinality(Enqueuing)
         /\ ~Unseeded => pending = Cardinality(Queued) + Cardinality(Guarded) + Cardinality(Enqueuing)
<1>1. IsFiniteSet(Queued) /\ IsFiniteSet(Guarded) /\ IsFiniteSet(Enqueuing) /\ pending \in Nat
  BY Basics, FS_Subset DEF Inv, TypeInv, CountInv, Enqueuing
<1> QED BY <1>1, FS_CardinalityType DEF Inv, CountInv

LEMMA NothingFacts ==
  ASSUME NEW e \in BOOLEAN
  PROVE  <<>> \in Seq(Items) /\ Proper(<<>>, e) /\ DOMAIN <<>> = {}
BY DEF Proper

LEMMA SeedKeepsInv ==
  ASSUME Assumptions, Inv, NEW th \in Threads, Seed(th)
  PROVE  Inv' /\ Goes(th)
<1> USE DEF state, visits, memory
<1>1. agenda[th] # <<>> /\ Item(th).op = "seed" /\ Item(th) = agenda[th][1] /\ 1 \in DOMAIN agenda[th]
  <2>1. agenda[th] # <<>> /\ Item(th).op = "seed" /\ agenda[th] \in Seq(Items)
    BY DEF Seed, At, Item, Inv, TypeInv
  <2>2. Len(agenda[th]) \in Nat \ {0} /\ Head(agenda[th]) = agenda[th][1]
    BY <2>1, EmptySeq
  <2> QED BY <2>1, <2>2, LenProperties DEF Item
<1>2. th = Caller /\ Unseeded
  BY <1>1 DEF Inv, AgendaInv, Unseeded
<1>3. /\ pending' = pending + 1 /\ UNCHANGED memory /\ Replace(th, <<>>)
      /\ UNCHANGED <<run, jobs, remaining, claimed, hasException, exception, done, result, visits>>
  BY DEF Seed, Relaxed
<1>4. <<>> \in Seq(Items) /\ Proper(<<>>, Item(th).op \notin Ending) /\ DOMAIN <<>> = {}
  BY NothingFacts
<1>5. /\ agenda' \in [Threads -> Seq(Items)]
      /\ \A u \in Threads : AgendaInv(u)'
      /\ \A op \in Urgent : ~At(th, op)'
      /\ \A u \in Threads : u # th => \A op : At(u, op)' <=> At(u, op)
      /\ ~Unseeded'
      /\ \A b : Fits(b)' <=> Fits(b)
  BY <1>1, <1>2, <1>3, <1>4, Kept
<1>6. TypeInv' /\ BatchInv'
  <2>1. DataInv
    BY DEF Inv, TypeInv
  <2>2. DataInv'
    BY <1>3, <2>1 DEF DataInv
  <2> QED BY <1>3, <1>5, <2>2 DEF Inv, TypeInv, BatchInv
<1>7. CountInv'
  <2>1. Guarded' = Guarded
    <3>1. agenda \in [Threads -> Seq(Items)] /\ AgendaInv(th) /\ Item(th).op # "finish"
      BY <1>1 DEF Inv, TypeInv
    <3> QED BY <1>1, <1>3, <1>4, <3>1, GuardedReplaced
  <2>2. Queued' = Queued
    BY <1>3 DEF Queued
  <2>3. Enqueuing' = Enqueuing
    <3>1. ~At(th, "enqueue") /\ ~At(th, "enqueue")'
      BY <1>1, <1>5 DEF At, Item, Urgent
    <3> QED BY <1>5, <3>1 DEF Enqueuing
  <2>4. pending' + 0 = Cardinality(Queued) + Cardinality(Guarded) + Cardinality(Enqueuing)
    BY <1>2, <1>3, Counts
  <2> QED BY <1>5, <2>1, <2>2, <2>3, <2>4, Counts DEF CountInv
<1>8. SeedInv'
  BY <1>5 DEF SeedInv
<1>9. EndInv'
  <2>1. done = "unset" /\ \A u \in Threads : ~At(u, "resolve")
    BY <1>2 DEF Inv, EndInv
  <2>2. "resolve" \in Urgent
    BY DEF Urgent
  <2>3. \A u \in Threads : ~At(u, "resolve")'
    BY <1>5, <2>1, <2>2
  <2> QED BY <1>3, <2>1, <2>3 DEF Inv, EndInv
<1>10. Goes(th)
  BY <1>3, <1>4 DEF Goes
<1> QED BY <1>5, <1>6, <1>7, <1>8, <1>9, <1>10 DEF Inv

LEMMA FinishKeepsInv ==
  ASSUME Assumptions, Inv, NEW th \in Threads, MaybeFinish(th)
  PROVE  Inv' /\ Goes(th)
<1> USE DEF state, visits, memory
<1> DEFINE items == IF pending = 1 THEN <<Do("resolve", None)>> ELSE <<>>
<1>1. agenda[th] # <<>> /\ Item(th).op = "finish"
  BY DEF MaybeFinish, At, Item
<1>2. ~Unseeded
  BY <1>1, Started
<1>3. /\ pending' = pending - 1 /\ UNCHANGED memory /\ Replace(th, items)
      /\ UNCHANGED <<run, jobs, remaining, claimed, hasException, exception, done, result, visits>>
  BY DEF MaybeFinish, Relaxed
<1>4. /\ items \in Seq(Items) /\ Proper(items, Item(th).op \notin Ending)
      /\ \A i \in DOMAIN items : items[i].op # "finish"
      /\ items # <<>> => pending = 1 /\ items[1].op = "resolve"
  <2>1. CASE pending = 1
    <3> DEFINE x == Do("resolve", None)
    <3>1. x \in Items /\ x.op = "resolve" /\ Within(x) /\ items = <<x>>
      BY <2>1, DoFacts
    <3>2. "resolve" \in Ending
      BY DEF Ending
    <3> HIDE DEF x, items
    <3>3. items \in Seq(Items) /\ DOMAIN items = {1} /\ items[1] = x
      BY <3>1, Singles
    <3> QED BY <2>1, <3>1, <3>2, <3>3 DEF Proper
  <2>2. CASE pending # 1
    BY <2>2, NothingFacts
  <2> QED BY <2>1, <2>2
<1> HIDE DEF items
<1>5. /\ agenda' \in [Threads -> Seq(Items)]
      /\ \A u \in Threads : AgendaInv(u)'
      /\ \A op \in Urgent : At(th, op)' => items # <<>> /\ items[1].op = op
      /\ \A u \in Threads : u # th => \A op : At(u, op)' <=> At(u, op)
      /\ IF th = Caller THEN ~Unseeded' ELSE Unseeded' = Unseeded
      /\ \A b : Fits(b)' <=> Fits(b)
  BY <1>1, <1>3, <1>4, Kept
<1>6. ~Unseeded'
  BY <1>2, <1>5
<1>7. PICK g \in Guarded : Guarded' = Guarded \ {g}
  <2>1. agenda \in [Threads -> Seq(Items)] /\ AgendaInv(th)
    BY DEF Inv, TypeInv
  <2> QED BY <1>1, <1>3, <1>4, <2>1, GuardedReplaced
<1>8. /\ IsFiniteSet(Guarded') /\ Cardinality(Guarded') = Cardinality(Guarded) - 1
      /\ Cardinality(Guarded) - 1 \in Nat
  <2>1. IsFiniteSet(Guarded') /\ Cardinality(Guarded') = Cardinality(Guarded) - 1
    BY <1>7, Counts, FS_RemoveElement
  <2> QED BY <2>1, FS_CardinalityType
<1>9. Queued' = Queued /\ Enqueuing' = Enqueuing
  <2>1. Queued' = Queued
    BY <1>3 DEF Queued
  <2>2. ~At(th, "enqueue") /\ ~At(th, "enqueue")'
    <3>1. "enqueue" \in Urgent
      BY DEF Urgent
    <3>2. ~At(th, "enqueue")
      BY <1>1 DEF At, Item
    <3>3. ~At(th, "enqueue")'
      BY <1>4, <1>5, <3>1
    <3> QED BY <3>2, <3>3
  <2> QED BY <1>5, <2>1, <2>2 DEF Enqueuing
<1>10. /\ pending' \in Nat /\ pending \in Nat /\ pending # 0
       /\ pending' = Cardinality(Queued') + Cardinality(Guarded') + Cardinality(Enqueuing')
  BY <1>2, <1>3, <1>8, <1>9, Counts
<1>11. CountInv'
  <2>1. pending' + 0 = pending'
    BY <1>10
  <2>2. IsFiniteSet(Queued')
    BY <1>9, Counts
  <2> QED BY <1>6, <1>8, <1>10, <2>1, <2>2 DEF CountInv
<1>12. TypeInv' /\ BatchInv'
  <2>1. DataInv
    BY DEF Inv, TypeInv
  <2>2. DataInv'
    BY <1>3, <2>1 DEF DataInv
  <2> QED BY <1>3, <1>5, <1>10, <2>2 DEF Inv, TypeInv, BatchInv
<1>13. SeedInv'
  BY <1>6 DEF SeedInv
<1>14. EndInv'
  <2>1. done = "unset" /\ \A u \in Threads : ~At(u, "resolve")
    BY <1>10 DEF Inv, EndInv
  <2>2. ASSUME NEW u \in Threads, At(u, "resolve")'
        PROVE  u = th /\ pending' = 0
    <3>1. "resolve" \in Urgent
      BY DEF Urgent
    <3>2. u = th
      BY <1>5, <2>1, <2>2
    <3>3. pending = 1
      BY <1>4, <1>5, <2>2, <3>1, <3>2
    <3> QED BY <1>3, <3>2, <3>3
  <2> QED BY <1>3, <1>6, <2>1, <2>2 DEF Inv, EndInv
<1>15. Goes(th)
  BY <1>3, <1>4 DEF Goes
<1> QED BY <1>5, <1>11, <1>12, <1>13, <1>14, <1>15 DEF Inv

LEMMA ResolveKeepsInv ==
  ASSUME Assumptions, Inv, NEW th \in Threads, Resolve(th)
  PROVE  Inv' /\ Goes(th)
<1> USE DEF state, visits, memory
<1>1. agenda[th] # <<>> /\ Item(th).op = "resolve" /\ At(th, "resolve")
  BY DEF Resolve, At, Item
<1>2. pending = 0 /\ ~Unseeded /\ done = "unset" /\ \A u \in Threads : At(u, "resolve") => u = th
  BY <1>1 DEF Inv, EndInv
<1>3. /\ Replace(th, <<>>) /\ sync' = [sync EXCEPT !["done"] = view[th]]
      /\ UNCHANGED <<run, jobs, remaining, pending, claimed, hasException, exception, result, visits, view>>
  BY DEF Resolve
<1>4. done' \in {"value"} \cup Nodes
  <2>1. PICK raised \in BOOLEAN : (raised => hasException) /\ done' = IF raised THEN exception ELSE "value"
    BY DEF Resolve
  <2>2. hasException => exception \in Nodes
    BY DEF Inv, TypeInv, DataInv
  <2> QED BY <2>1, <2>2
<1>5. <<>> \in Seq(Items) /\ Proper(<<>>, Item(th).op \notin Ending) /\ DOMAIN <<>> = {}
  BY NothingFacts
<1>6. /\ agenda' \in [Threads -> Seq(Items)]
      /\ \A u \in Threads : AgendaInv(u)'
      /\ \A op \in Urgent : ~At(th, op)'
      /\ \A u \in Threads : u # th => \A op : At(u, op)' <=> At(u, op)
      /\ IF th = Caller THEN ~Unseeded' ELSE Unseeded' = Unseeded
      /\ \A b : Fits(b)' <=> Fits(b)
  BY <1>1, <1>3, <1>5, Kept
<1>7. ~Unseeded'
  BY <1>2, <1>6
<1>8. TypeInv' /\ BatchInv'
  <2>1. DataInv /\ view[th] \in SUBSET Facts
    BY DEF Inv, TypeInv, DataInv
  <2>2. DataInv'
    BY <1>3, <2>1 DEF DataInv
  <2> QED BY <1>3, <1>4, <1>6, <2>2 DEF Inv, TypeInv, BatchInv
<1>9. CountInv'
  <2>1. Guarded' = Guarded
    <3>1. agenda \in [Threads -> Seq(Items)] /\ AgendaInv(th) /\ Item(th).op # "finish"
      BY <1>1 DEF Inv, TypeInv
    <3> QED BY <1>1, <1>3, <1>5, <3>1, GuardedReplaced
  <2>2. Queued' = Queued
    BY <1>3 DEF Queued
  <2>3. Enqueuing' = Enqueuing
    <3>1. ~At(th, "enqueue") /\ ~At(th, "enqueue")'
      BY <1>1, <1>6 DEF At, Item, Urgent
    <3> QED BY <1>6, <3>1 DEF Enqueuing
  <2> QED BY <1>2, <1>3, <1>7, <2>1, <2>2, <2>3 DEF Inv, CountInv
<1>10. SeedInv'
  BY <1>7 DEF SeedInv
<1>11. EndInv'
  <2>1. "resolve" \in Urgent
    BY DEF Urgent
  <2>2. \A u \in Threads : ~At(u, "resolve")'
    BY <1>2, <1>6, <2>1
  <2>3. result = "running"
    <3>1. done # "running" /\ result # "unset"
      BY <1>2 DEF Inv, TypeInv, Assumptions
    <3> QED BY <1>2, <3>1 DEF Inv, EndInv
  <2> QED BY <1>2, <1>3, <1>7, <2>2, <2>3 DEF EndInv
<1>12. Goes(th)
  BY <1>3, <1>5 DEF Goes
<1> QED BY <1>6, <1>8, <1>9, <1>10, <1>11, <1>12 DEF Inv

LEMMA WaitKeepsInv ==
  ASSUME Assumptions, Inv, NEW th \in Threads, Wait(th)
  PROVE  Inv' /\ Goes(th)
<1> USE DEF state, visits, memory
<1>1. agenda[th] # <<>> /\ Item(th).op = "wait"
  BY DEF Wait, At, Item
<1>2. /\ done # "unset" /\ result' = done /\ view' = [view EXCEPT ![th] = @ \cup sync["done"]]
      /\ Replace(th, <<>>)
      /\ UNCHANGED <<run, jobs, remaining, state, visits, sync>>
  BY DEF Wait
<1>3. pending = 0 /\ ~Unseeded /\ \A u \in Threads : ~At(u, "resolve")
  BY <1>2 DEF Inv, EndInv
<1>4. <<>> \in Seq(Items) /\ Proper(<<>>, Item(th).op \notin Ending) /\ DOMAIN <<>> = {}
  BY NothingFacts
<1>5. /\ agenda' \in [Threads -> Seq(Items)]
      /\ \A u \in Threads : AgendaInv(u)'
      /\ \A op \in Urgent : ~At(th, op)'
      /\ \A u \in Threads : u # th => \A op : At(u, op)' <=> At(u, op)
      /\ IF th = Caller THEN ~Unseeded' ELSE Unseeded' = Unseeded
      /\ \A b : Fits(b)' <=> Fits(b)
  BY <1>1, <1>2, <1>4, Kept
<1>6. ~Unseeded'
  BY <1>3, <1>5
<1>7. TypeInv' /\ BatchInv'
  <2>1. DataInv /\ sync["done"] \in SUBSET Facts
    BY DEF Inv, TypeInv, DataInv, Objects
  <2>2. DataInv'
    BY <1>2, <2>1 DEF DataInv
  <2>3. done \in {"value"} \cup Nodes
    BY <1>2 DEF Inv, TypeInv
  <2> QED BY <1>2, <1>5, <2>2, <2>3 DEF Inv, TypeInv, BatchInv
<1>8. CountInv'
  <2>1. Guarded' = Guarded
    <3>1. agenda \in [Threads -> Seq(Items)] /\ AgendaInv(th) /\ Item(th).op # "finish"
      BY <1>1 DEF Inv, TypeInv
    <3> QED BY <1>1, <1>2, <1>4, <3>1, GuardedReplaced
  <2>2. Queued' = Queued
    BY <1>2 DEF Queued
  <2>3. Enqueuing' = Enqueuing
    <3>1. ~At(th, "enqueue") /\ ~At(th, "enqueue")'
      BY <1>1, <1>5 DEF At, Item, Urgent
    <3> QED BY <1>5, <3>1 DEF Enqueuing
  <2> QED BY <1>2, <1>3, <1>6, <2>1, <2>2, <2>3 DEF Inv, CountInv
<1>9. SeedInv'
  BY <1>6 DEF SeedInv
<1>10. EndInv'
  <2>1. "resolve" \in Urgent
    BY DEF Urgent
  <2>2. \A u \in Threads : ~At(u, "resolve")'
    BY <1>3, <1>5, <2>1
  <2> QED BY <1>2, <1>3, <1>6, <2>2 DEF EndInv
<1>11. Goes(th)
  BY <1>2, <1>4 DEF Goes
<1> QED BY <1>5, <1>7, <1>8, <1>9, <1>10, <1>11 DEF Inv
-----------------------------------------------------------------------------
(* Jobs begin *)

LEMMA BodyFacts ==
  ASSUME NEW job \in Jobs, job.op = "batch" => Fits(job)
  PROVE  \E x \in Items : /\ Body(job) = <<x, Do("finish", None)>>
                          /\ x.op \in {"again", "enter", "batch"} /\ Within(x)
<1>1. CASE job.op = "node"
  <2>1. Body(job) = <<Do("again", job.node), Do("finish", None)>>
    BY <1>1, Zenon DEF Body
  <2>2. job.node \in Nodes /\ "again" \in Plain
    BY <1>1 DEF Jobs, Plain
  <2> QED BY <2>1, <2>2, DoFacts
<1>2. CASE job.op = "topDown"
  <2>1. "topDown" # "node"
    OBVIOUS
  <2>2. Body(job) = <<Do("enter", job.node), Do("finish", None)>>
    BY <1>2, <2>1, Zenon DEF Body
  <2>3. job.node \in Nodes /\ "enter" \in Plain
    BY <1>2 DEF Jobs, Plain
  <2> QED BY <2>2, <2>3, DoFacts
<1>3. CASE job.op = "batch"
  <2>1. "batch" # "node" /\ "batch" # "topDown"
    OBVIOUS
  <2>2. Body(job) = <<job, Do("finish", None)>>
    BY <1>3, <2>1, Zenon DEF Body
  <2>3. job \in Items
    BY <1>3 DEF Jobs, Items
  <2>4. Within(job)
    <3>1. Fits(job)
      BY <1>3
    <3>2. job.lo \in Nat /\ job.hi \in Nat
      BY <1>3 DEF Jobs
    <3> QED BY <1>3, <3>1, <3>2 DEF Within, Fits
  <2> QED BY <1>3, <2>2, <2>3, <2>4
<1>4. job.op \in {"node", "topDown", "batch"}
  BY DEF Jobs
<1> QED BY <1>1, <1>2, <1>3, <1>4

\* The body of a job as the items of an agenda.
LEMMA BodyProper ==
  ASSUME NEW job \in Jobs, job.op = "batch" => Fits(job), NEW e \in BOOLEAN
  PROVE  /\ Body(job) \in Seq(Items) /\ Len(Body(job)) = 2 /\ Body(job) # <<>>
         /\ Body(job)[1].op \in {"again", "enter", "batch"} /\ Body(job)[2].op = "finish"
         /\ Within(Body(job)[1]) /\ Within(Body(job)[2])
         /\ Proper(Body(job), e)
<1> DEFINE y == Do("finish", None)
<1>1. PICK x \in Items : /\ Body(job) = <<x, y>>
                         /\ x.op \in {"again", "enter", "batch"} /\ Within(x)
  BY BodyFacts
<1>2. y \in Items /\ Within(y) /\ y.op = "finish"
  BY DoFacts
<1> DEFINE b == Body(job)
<1> HIDE DEF y, b
<1>3. /\ b \in Seq(Items) /\ Len(b) = 2 /\ DOMAIN b = {1, 2}
      /\ b[1] = x /\ b[2] = y
  BY <1>1, <1>2, Singles DEF b
<1>4. b # <<>>
  BY <1>3
<1>5. Proper(b, e)
  <2>1. x.op \notin Urgent \cup {"seed", "wait"} /\ y.op \notin Urgent \cup {"seed", "wait"} /\ y.op \in Ending
    BY <1>1, <1>2 DEF Urgent, Ending
  <2>2. 2 \in DOMAIN b /\ 2 > 1
    BY <1>3
  <2>3. ASSUME NEW i \in DOMAIN b
        PROVE  i = 1 \/ i = 2
    BY <1>3
  <2> QED BY <1>1, <1>2, <1>3, <2>1, <2>2, <2>3 DEF Proper
<1> QED BY <1>1, <1>2, <1>3, <1>4, <1>5 DEF b

LEMMA JobFacts == \A it \in Items : it.op \in {"submit", "enqueue"} => it.job \in Jobs
BY DEF Items, Plain

\* Nobody is about to resolve the promise after a step of who has not been.
LEMMA NobodyResolves ==
  ASSUME NEW th \in Threads, \A u \in Threads : ~At(u, "resolve"),
         \A u \in Threads : u # th => \A op : At(u, op)' <=> At(u, op),
         ~At(th, "resolve")', done = "unset", result = "running", done' = done, result' = result
  PROVE  EndInv'
BY DEF EndInv

LEMMA SubmitKeepsInv ==
  ASSUME Assumptions, Inv, NEW th \in Threads, Submit(th)
  PROVE  Inv' /\ Goes(th)
<1> USE DEF state, visits, memory
<1> DEFINE job == Item(th).job
           x   == [op |-> "enqueue", job |-> job]
<1>1. agenda[th] # <<>> /\ Item(th).op = "submit"
  BY DEF Submit, At, Item
<1>2. job \in Jobs /\ (job.op = "batch" => Fits(job))
  BY <1>1, ItemFacts, JobFacts DEF Within
<1>3. Item(th).op \notin Ending /\ Item(th).op # "seed" /\ Item(th).op # "finish"
  BY <1>1 DEF Ending
<1>4. /\ ~Unseeded /\ pending > 0 /\ done = "unset" /\ result = "running"
      /\ \A u \in Threads : ~At(u, "resolve")
  BY <1>1, <1>3, Busy
<1>5. /\ pending' = pending + 1 /\ UNCHANGED memory
      /\ UNCHANGED <<run, jobs, remaining, claimed, hasException, exception, done, result, visits>>
  BY DEF Submit, Relaxed
<1>6. Replace(th, Body(job)) \/ Replace(th, <<x>>)
  BY DEF Submit
<1>7. x \in Items /\ Within(x) /\ x.op = "enqueue"
  <2>1. \A b \in Jobs : (b.op = "batch" => Fits(b)) =>
          LET it == [op |-> "enqueue", job |-> b] IN it \in Items /\ Within(it) /\ it.op = "enqueue"
    BY DEF Items, Within
  <2> HIDE DEF job
  <2> QED BY <1>2, <2>1
<1>8. ~At(th, "enqueue")
  BY <1>1 DEF At, Item
<1> HIDE DEF job, x
<1>9. TypeInv' \/ agenda' \notin [Threads -> Seq(Items)]
  <2>1. DataInv
    BY DEF Inv, TypeInv
  <2>2. DataInv'
    BY <1>5, <2>1 DEF DataInv
  <2>3. pending' \in Nat
    BY <1>5 DEF Inv, TypeInv
  <2> QED BY <1>5, <2>2, <2>3 DEF Inv, TypeInv
<1>10. Queued' = Queued
  BY <1>5 DEF Queued
<1>11. /\ agenda \in [Threads -> Seq(Items)] /\ AgendaInv(th)
  BY DEF Inv, TypeInv
<1>12. CASE Replace(th, Body(job))
  <2>1. /\ Body(job) \in Seq(Items) /\ Len(Body(job)) = 2 /\ Body(job) # <<>>
        /\ Body(job)[1].op \in {"again", "enter", "batch"} /\ Body(job)[2].op = "finish"
        /\ Proper(Body(job), Item(th).op \notin Ending)
    BY <1>2, BodyProper
  <2>2. /\ agenda' \in [Threads -> Seq(Items)]
        /\ \A u \in Threads : AgendaInv(u)'
        /\ \A op \in Urgent : At(th, op)' => Body(job)[1].op = op
        /\ \A u \in Threads : u # th => \A op : At(u, op)' <=> At(u, op)
        /\ IF th = Caller THEN ~Unseeded' ELSE Unseeded' = Unseeded
        /\ \A b : Fits(b)' <=> Fits(b)
    BY <1>1, <1>5, <1>12, <2>1, Kept
  <2>3. ~At(th, "enqueue")' /\ ~At(th, "resolve")'
    BY <2>1, <2>2 DEF Urgent
  <2>4. ~Unseeded'
    BY <1>4, <2>2
  <2>5. PICK g : g \notin Guarded /\ Guarded' = Guarded \cup {g}
    <3>1. Body(job)[1].op # "finish"
      BY <2>1
    <3> QED BY <1>1, <1>3, <1>5, <1>11, <1>12, <2>1, <3>1, GuardedReplaced
  <2>6. Enqueuing' = Enqueuing
    BY <1>8, <2>2, <2>3 DEF Enqueuing
  <2>7. IsFiniteSet(Guarded') /\ Cardinality(Guarded') = Cardinality(Guarded) + 1
    BY <2>5, Counts, FS_AddElement
  <2>8. CountInv'
    <3>1. pending' + 0 = Cardinality(Queued') + Cardinality(Guarded') + Cardinality(Enqueuing')
      BY <1>4, <1>5, <1>10, <2>6, <2>7, Counts
    <3>2. IsFiniteSet(Queued')
      BY <1>10, Counts
    <3> QED BY <2>4, <2>7, <3>1, <3>2 DEF CountInv
  <2>9. BatchInv' /\ SeedInv'
    BY <1>5, <2>2, <2>4 DEF Inv, BatchInv, SeedInv
  <2>10. EndInv'
    BY <1>4, <1>5, <2>2, <2>3, NobodyResolves
  <2>11. Goes(th)
    BY <1>12, <2>1 DEF Goes
  <2> QED BY <1>9, <2>2, <2>8, <2>9, <2>10, <2>11 DEF Inv
<1>13. CASE Replace(th, <<x>>)
  <2>1. <<x>> \in Seq(Items) /\ DOMAIN <<x>> = {1} /\ <<x>>[1] = x /\ <<x>> # <<>>
    BY <1>7, Singles
  <2>2. Proper(<<x>>, Item(th).op \notin Ending)
    BY <1>3, <1>7, <2>1 DEF Proper
  <2>3. /\ agenda' \in [Threads -> Seq(Items)]
        /\ \A u \in Threads : AgendaInv(u)'
        /\ agenda'[th] # <<>> /\ Item(th)' = x
        /\ \A op \in Urgent : At(th, op)' => x.op = op
        /\ \A u \in Threads : u # th => \A op : At(u, op)' <=> At(u, op)
        /\ IF th = Caller THEN ~Unseeded' ELSE Unseeded' = Unseeded
        /\ \A b : Fits(b)' <=> Fits(b)
    BY <1>1, <1>5, <1>13, <2>1, <2>2, Kept
  <2>4. At(th, "enqueue")' /\ ~At(th, "resolve")'
    BY <1>7, <2>3 DEF At, Item
  <2>5. ~Unseeded'
    BY <1>4, <2>3
  <2>6. Guarded' = Guarded
    <3>1. \A i \in DOMAIN <<x>> : <<x>>[i].op # "finish"
      BY <1>7, <2>1
    <3> QED BY <1>1, <1>3, <1>5, <1>11, <1>13, <2>1, <2>2, <3>1, GuardedReplaced
  <2>7. th \notin Enqueuing /\ Enqueuing' = Enqueuing \cup {th}
    BY <1>8, <2>3, <2>4 DEF Enqueuing
  <2>8. IsFiniteSet(Enqueuing') /\ Cardinality(Enqueuing') = Cardinality(Enqueuing) + 1
    BY <2>7, Counts, FS_AddElement
  <2>9. CountInv'
    <3>1. pending' + 0 = Cardinality(Queued') + Cardinality(Guarded') + Cardinality(Enqueuing')
      BY <1>4, <1>5, <1>10, <2>6, <2>8, Counts
    <3>2. IsFiniteSet(Queued') /\ IsFiniteSet(Guarded')
      BY <1>10, <2>6, Counts
    <3> QED BY <2>5, <3>1, <3>2 DEF CountInv
  <2>10. BatchInv' /\ SeedInv'
    BY <1>5, <2>3, <2>5 DEF Inv, BatchInv, SeedInv
  <2>11. EndInv'
    BY <1>4, <1>5, <2>3, <2>4, NobodyResolves
  <2>12. Goes(th)
    BY <1>13, <2>1, <2>2 DEF Goes
  <2> QED BY <1>9, <2>3, <2>9, <2>10, <2>11, <2>12 DEF Inv
<1> QED BY <1>6, <1>12, <1>13

LEMMA EnqueueKeepsInv ==
  ASSUME Assumptions, Inv, NEW th \in Threads, Enqueue(th)
  PROVE  Inv' /\ Goes(th)
<1> USE DEF state, visits, memory
<1> DEFINE j == [job |-> Item(th).job, seen |-> view[th]]
<1>1. agenda[th] # <<>> /\ Item(th).op = "enqueue" /\ At(th, "enqueue")
  BY DEF Enqueue, At, Item
<1>2. Item(th).job \in Jobs /\ (Item(th).job.op = "batch" => Fits(Item(th).job))
  BY <1>1, ItemFacts, JobFacts DEF Within
<1>3. Item(th).op \notin Ending /\ Item(th).op # "seed" /\ Item(th).op # "finish"
  BY <1>1 DEF Ending
<1>4. /\ ~Unseeded /\ pending > 0 /\ done = "unset" /\ result = "running"
      /\ \A u \in Threads : ~At(u, "resolve")
  BY <1>1, <1>3, Busy
<1>5. /\ jobs' = jobs (+) SetToBag({j}) /\ Replace(th, <<>>)
      /\ UNCHANGED <<run, remaining, state, result, visits, memory>>
  BY DEF Enqueue
<1>6. j \in [job : Jobs, seen : SUBSET Facts] /\ (j.job.op = "batch" => Fits(j.job))
  BY <1>2 DEF Inv, TypeInv, DataInv
<1> HIDE DEF j
<1>7. <<>> \in Seq(Items) /\ Proper(<<>>, Item(th).op \notin Ending) /\ DOMAIN <<>> = {}
  BY NothingFacts
<1>8. /\ agenda' \in [Threads -> Seq(Items)]
      /\ \A u \in Threads : AgendaInv(u)'
      /\ \A op \in Urgent : ~At(th, op)'
      /\ \A u \in Threads : u # th => \A op : At(u, op)' <=> At(u, op)
      /\ IF th = Caller THEN ~Unseeded' ELSE Unseeded' = Unseeded
      /\ \A b : Fits(b)' <=> Fits(b)
  BY <1>1, <1>5, <1>7, Kept
<1>9. ~Unseeded' /\ ~At(th, "enqueue")' /\ ~At(th, "resolve")'
  BY <1>4, <1>8 DEF Urgent
<1>10. PICK q : /\ q \notin Queued /\ Queued' = Queued \cup {q}
                /\ IsABag(jobs)' /\ DOMAIN jobs' = DOMAIN jobs \cup {j}
  <2>1. IsABag(jobs)
    BY DEF Inv, TypeInv
  <2> QED BY <1>5, <2>1, QueueGrows
<1>11. TypeInv' /\ BatchInv'
  <2>1. DataInv'
    BY <1>5 DEF Inv, TypeInv, DataInv
  <2>2. DOMAIN jobs' \subseteq [job : Jobs, seen : SUBSET Facts]
    BY <1>6, <1>10 DEF Inv, TypeInv
  <2>3. BatchInv'
    BY <1>6, <1>8, <1>10 DEF Inv, BatchInv
  <2> QED BY <1>5, <1>8, <1>10, <2>1, <2>2, <2>3 DEF Inv, TypeInv
<1>12. CountInv'
  <2>1. Guarded' = Guarded
    <3>1. agenda \in [Threads -> Seq(Items)] /\ AgendaInv(th)
      BY DEF Inv, TypeInv
    <3> QED BY <1>1, <1>3, <1>5, <1>7, <3>1, GuardedReplaced
  <2>2. th \in Enqueuing /\ Enqueuing' = Enqueuing \ {th}
    BY <1>1, <1>8, <1>9 DEF Enqueuing
  <2>3. IsFiniteSet(Enqueuing') /\ Cardinality(Enqueuing') = Cardinality(Enqueuing) - 1
    BY <2>2, Counts, FS_RemoveElement
  <2>4. IsFiniteSet(Queued') /\ Cardinality(Queued') = Cardinality(Queued) + 1
    BY <1>10, Counts, FS_AddElement
  <2>5. pending' + 0 = Cardinality(Queued') + Cardinality(Guarded') + Cardinality(Enqueuing')
    BY <1>4, <1>5, <2>1, <2>3, <2>4, Counts
  <2>6. IsFiniteSet(Guarded')
    BY <2>1, Counts
  <2> QED BY <1>9, <2>4, <2>5, <2>6 DEF CountInv
<1>13. SeedInv'
  BY <1>9 DEF SeedInv
<1>14. EndInv'
  BY <1>4, <1>5, <1>8, <1>9, NobodyResolves
<1>15. Goes(th)
  BY <1>5, <1>7 DEF Goes
<1> QED BY <1>8, <1>11, <1>12, <1>13, <1>14, <1>15 DEF Inv

LEMMA BagFacts == DOMAIN EmptyBag = {}
BY DEF EmptyBag, SetToBag

LEMMA StartKeepsInv ==
  ASSUME Assumptions, Inv, NEW w \in Workers, Start(w)
  PROVE  Inv'
<1> USE DEF state, visits, memory
<1>1. PICK j \in DOMAIN jobs : /\ jobs' = jobs (-) SetToBag({j})
                               /\ agenda' = [agenda EXCEPT ![w] = Body(j.job)]
                               /\ view' = [view EXCEPT ![w] = @ \cup j.seen]
  BY DEF Start, BagToSet
<1>2. agenda[w] = <<>> /\ UNCHANGED <<run, remaining, state, result, visits, sync>>
  BY DEF Start
<1>3. /\ w \in Threads /\ w # Caller /\ Caller \in Threads
      /\ agenda \in [Threads -> Seq(Items)]
      /\ IsABag(jobs) /\ DOMAIN jobs \subseteq [job : Jobs, seen : SUBSET Facts]
      /\ \A u \in Threads : AgendaInv(u)
  BY DEF Assumptions, Threads, Inv, TypeInv
<1>4. j.job \in Jobs /\ j.seen \in SUBSET Facts /\ (j.job.op = "batch" => Fits(j.job))
  BY <1>3 DEF Inv, BatchInv
<1> DEFINE b == Body(j.job)
<1>5. /\ b \in Seq(Items) /\ Len(b) = 2 /\ b # <<>>
      /\ b[1].op \in {"again", "enter", "batch"} /\ b[2].op = "finish"
      /\ Within(b[1]) /\ Within(b[2])
  BY <1>4, BodyProper
<1> HIDE DEF b
<1>6. agenda' = [agenda EXCEPT ![w] = b]
  BY <1>1 DEF b
<1>7. /\ agenda' \in [Threads -> Seq(Items)] /\ agenda'[w] = b
      /\ \A u \in Threads : u # w => agenda'[u] = agenda[u]
  BY <1>3, <1>5, <1>6
<1>8. DOMAIN b = {1, 2} /\ Head(b) = b[1]
  <2>1. DOMAIN b = 1 .. 2
    BY <1>5, LenProperties
  <2> QED BY <1>5, <2>1
<1>9. ~Unseeded /\ ~Unseeded'
  <2>1. jobs # EmptyBag
    BY BagFacts
  <2>2. ~Unseeded
    BY <2>1 DEF Inv, SeedInv
  <2>3. Unseeded' = Unseeded
    BY <1>3, <1>7 DEF Unseeded
  <2> QED BY <2>2, <2>3
<1>10. \A it : Within(it)' <=> Within(it)
  BY <1>2 DEF Within, Fits, Kids, IsLeaf, Total, Contribution
<1>11. \A u \in Threads : AgendaInv(u)'
  <2>1. ASSUME NEW u \in Threads, u # w
        PROVE  AgendaInv(u)'
    <3>1. AgendaInv(u) /\ agenda'[u] = agenda[u]
      BY <1>3, <1>7, <2>1
    <3> QED BY <1>10, <3>1 DEF AgendaInv
  <2>2. AgendaInv(w)'
    <3>1. /\ b[1].op \notin Urgent \cup {"seed", "wait"} /\ b[2].op \notin Urgent \cup {"seed", "wait"}
          /\ b[2].op \in Ending
      BY <1>5 DEF Urgent, Ending
    <3>2. 2 > 1
      OBVIOUS
    <3>3. ASSUME NEW i \in DOMAIN b
          PROVE  /\ Within(b[i])
                 /\ b[i].op \notin Ending => \E k \in DOMAIN b : k > i /\ b[k].op = "finish"
                 /\ b[i].op \notin Urgent \cup {"seed", "wait"}
      <4>1. CASE i = 1
        BY <1>5, <1>8, <3>1, <3>2, <4>1
      <4>2. CASE i = 2
        BY <1>5, <3>1, <4>2
      <4> QED BY <1>8, <4>1, <4>2
    <3> QED BY <1>7, <1>10, <3>3 DEF AgendaInv
  <2> QED BY <2>1, <2>2
<1>12. PICK q \in Queued : Queued' = Queued \ {q} /\ IsABag(jobs)' /\ DOMAIN jobs' \subseteq DOMAIN jobs
  BY <1>1, <1>3, QueueShrinks
<1>13. /\ IsFiniteSet(Queued') /\ Cardinality(Queued') = Cardinality(Queued) - 1
       /\ Cardinality(Queued') \in Nat
  <2>1. IsFiniteSet(Queued') /\ Cardinality(Queued') = Cardinality(Queued) - 1
    BY <1>12, Counts, FS_RemoveElement
  <2> QED BY <2>1, FS_CardinalityType
<1>14. pending > 0 /\ done = "unset" /\ result = "running" /\ \A u \in Threads : ~At(u, "resolve")
  <2>1. pending > 0
    BY <1>9, <1>13, Counts
  <2>2. done = "unset" /\ \A u \in Threads : ~At(u, "resolve")
    <3>1. pending # 0
      BY <2>1, Counts
    <3> QED BY <3>1 DEF Inv, EndInv, TypeInv
  <2>3. result = "running"
    <3>1. done # "running" /\ result # "unset"
      BY <2>2 DEF Inv, TypeInv, Assumptions
    <3> QED BY <2>2, <3>1 DEF Inv, EndInv
  <2> QED BY <2>1, <2>2, <2>3
<1>15. PICK g : g \notin Guarded /\ Guarded' = Guarded \cup {g}
  <2>1. Guards(w) = {}
    <3>1. DOMAIN agenda[w] = {}
      BY <1>2
    <3> QED BY <3>1 DEF Guards
  <2>2. Guards(w)' = {1}
    <3>1. \A i \in {1, 2} : 2 + 1 - i = IF i = 1 THEN 2 ELSE 1
      OBVIOUS
    <3>2. Guards(w)' = {i \in {1, 2} : b[2 + 1 - i].op = "finish"}
      BY <1>5, <1>7, <1>8 DEF Guards
    <3>3. b[1].op # "finish" /\ b[2].op = "finish"
      BY <1>5
    <3>4. \A i \in {1, 2} : b[2 + 1 - i].op = "finish" <=> i = 1
      BY <3>1, <3>3
    <3> QED BY <3>2, <3>4
  <2>3. \A u \in Threads : u # w => Guards(u)' = Guards(u)
    BY <1>7 DEF Guards
  <2>4. <<w, 1>> \notin Guarded
    BY <2>1, GuardedFacts
  <2>5. \A h : h \in Guarded' <=> \E u \in Threads : \E k \in Guards(u)' : h = <<u, k>>
    BY DEF Guarded
  <2>6. Guarded' = Guarded \cup {<<w, 1>>}
    <3>1. ASSUME NEW h \in Guarded'
          PROVE  h \in Guarded \cup {<<w, 1>>}
      <4>1. PICK u \in Threads : \E k \in Guards(u)' : h = <<u, k>>
        BY <2>5
      <4>2. CASE u = w
        BY <2>2, <4>1, <4>2
      <4>3. CASE u # w
        BY <2>3, <4>1, <4>3, GuardedFacts
      <4> QED BY <4>2, <4>3
    <3>2. ASSUME NEW h \in Guarded
          PROVE  h \in Guarded'
      <4>1. PICK u \in Threads : \E k \in Guards(u) : h = <<u, k>>
        BY GuardedFacts
      <4>2. u # w
        BY <2>1, <4>1
      <4> QED BY <2>3, <2>5, <4>1, <4>2
    <3>3. <<w, 1>> \in Guarded'
      BY <1>3, <2>2, <2>5
    <3> QED BY <3>1, <3>2, <3>3
  <2> QED BY <2>4, <2>6
<1>16. IsFiniteSet(Guarded') /\ Cardinality(Guarded') = Cardinality(Guarded) + 1
  BY <1>15, Counts, FS_AddElement
<1>17. \A u \in Threads : u # w => \A op : At(u, op)' <=> At(u, op)
  BY <1>7 DEF At
<1>18. ~At(w, "enqueue") /\ ~At(w, "enqueue")' /\ ~At(w, "resolve")'
  <2>1. \A op : At(w, op)' => b[1].op = op
    BY <1>7, <1>8 DEF At
  <2> QED BY <1>2, <1>5, <2>1 DEF At
<1>19. CountInv'
  <2>1. Enqueuing' = Enqueuing
    BY <1>17, <1>18 DEF Enqueuing
  <2>2. pending' + 0 = Cardinality(Queued') + Cardinality(Guarded') + Cardinality(Enqueuing')
    BY <1>2, <1>9, <1>13, <1>16, <2>1, Counts
  <2> QED BY <1>9, <1>13, <1>16, <2>2 DEF CountInv
<1>20. TypeInv'
  <2>1. DataInv'
    <3>1. view' \in [Threads -> SUBSET Facts]
      BY <1>1, <1>3, <1>4 DEF Inv, TypeInv, DataInv
    <3> QED BY <1>2, <3>1 DEF Inv, TypeInv, DataInv
  <2> QED BY <1>2, <1>3, <1>7, <1>12, <2>1 DEF Inv, TypeInv
<1>21. BatchInv'
  <2>1. \A c : Fits(c)' <=> Fits(c)
    BY <1>2 DEF Fits, Kids, IsLeaf, Total, Contribution
  <2> QED BY <1>12, <2>1 DEF Inv, BatchInv
<1>22. SeedInv'
  BY <1>9 DEF SeedInv
<1>23. EndInv'
  BY <1>2, <1>3, <1>14, <1>17, <1>18, NobodyResolves
<1> QED BY <1>11, <1>19, <1>20, <1>21, <1>22, <1>23 DEF Inv
-----------------------------------------------------------------------------
(* The invariant *)

LEMMA ReturnedKeepsInv ==
  ASSUME Inv, UNCHANGED vars
  PROVE  Inv'
<1> USE DEF vars, state, visits, memory
<1>1. UNCHANGED <<run, agenda, jobs, remaining, pending, claimed, hasException, exception, done,
                  result, visited, failed, view, sync>>
  BY DEF vars
<1>2. TypeInv'
  BY <1>1 DEF Inv, TypeInv, DataInv
<1>3. \A it : Within(it)' <=> Within(it)
  BY <1>1 DEF Within, Fits, Kids, IsLeaf, Total, Contribution
<1>4. ASSUME NEW th \in Threads
      PROVE  AgendaInv(th)'
  <2>1. AgendaInv(th)
    BY Zenon DEF Inv
  <2>2. agenda'[th] = agenda[th]
    BY <1>1, SMTT(30)
  <2> QED BY <1>3, <2>1, <2>2 DEF AgendaInv
<1>5. BatchInv'
  BY <1>1 DEF Inv, BatchInv, Fits, Kids, IsLeaf, Total, Contribution
<1>6. CountInv'
  BY <1>1 DEF Inv, CountInv, Queued, Guarded, Guards, Enqueuing, At, Unseeded
<1>7. SeedInv' /\ EndInv'
  BY <1>1 DEF Inv, SeedInv, EndInv, Unseeded, At
<1> QED BY <1>2, <1>4, <1>5, <1>6, <1>7 DEF Inv

LEMMA StepKeepsInv ==
  ASSUME Assumptions, Inv, NEW th \in Threads, Step(th)
  PROVE  Inv' /\ Goes(th)
BY SeedKeepsInv, FinishKeepsInv, ResolveKeepsInv, WaitKeepsInv, ClaimKeepsInv, SubmitKeepsInv,
   EnqueueKeepsInv, DispatchKeepsInv, EnterKeepsInv, TouchKeepsInv, BottomUpKeepsInv, UnitKeepsInv,
   ChildDoneKeepsInv, CompleteKeepsInv, BatchKeepsInv, LeafKeepsInv DEF Step

LEMMA NextKeepsInv ==
  ASSUME Assumptions, Inv, [Next]_vars
  PROVE  Inv'
<1>1. ASSUME NEW th \in Threads, Step(th)
      PROVE  Inv'
  BY <1>1, StepKeepsInv
<1>2. ASSUME NEW w \in Workers, Start(w)
      PROVE  Inv'
  BY <1>2, StartKeepsInv
<1> QED BY <1>1, <1>2, ReturnedKeepsInv DEF Next, Returned

LEMMA InitInv ==
  ASSUME Assumptions, Init
  PROVE  Inv
<1> DEFINE op == IF run.mode = "topDown" THEN "dispatch" ELSE "visit"
           e  == Each(op, run.roots)
           n  == Len(run.roots)
           x  == Do("seed", None)
           y  == Do("finish", None)
           z  == Do("wait", None)
           s  == (<<x>> \o e) \o <<y, z>>
<1>1. run \in Runs /\ run \in Run /\ run.roots \in Seq(Nodes)
  BY DEF Init, Assumptions, IsForest, Run
<1>2. /\ e \in Seq(Items) /\ Len(e) = n /\ n \in Nat
      /\ \A i \in 1 .. n : run.roots[i] \in Nodes /\ e[i] = Do(op, run.roots[i])
  BY <1>1, EachFacts
<1>3. /\ x \in Items /\ Within(x) /\ x.op = "seed"
      /\ y \in Items /\ Within(y) /\ y.op = "finish"
      /\ z \in Items /\ Within(z) /\ z.op = "wait"
  BY DoFacts
<1>4. Caller \in Threads /\ \A th \in Threads : agenda[th] = IF th # Caller THEN <<>> ELSE s
  BY DEF Init, Threads
<1>5. agenda = [th \in Threads |-> IF th # Caller THEN <<>> ELSE s]
  BY DEF Init
<1>6. op \in Plain /\ op \notin Ending /\ op \notin Urgent \cup {"seed", "wait", "finish"}
  BY DEF Plain, Ending, Urgent
<1>7. \A i \in 1 .. n : e[i] \in Items /\ Within(e[i]) /\ e[i].op = op
  BY <1>2, <1>6, DoFacts
<1> HIDE DEF op, e, n, x, y, z
<1>8. /\ s \in Seq(Items) /\ Len(s) = n + 3
      /\ s[1] = x /\ s[n + 2] = y /\ s[n + 3] = z
      /\ \A i \in 1 .. n : s[i + 1] = e[i]
  <2> DEFINE a == <<x>> \o e
             p == <<x>>
             q == <<y, z>>
  <2>1. p \in Seq(Items) /\ Len(p) = 1 /\ p[1] = x /\ q \in Seq(Items) /\ Len(q) = 2 /\ q[1] = y /\ q[2] = z
    BY <1>3, Singles
  <2> HIDE DEF p, q
  <2>2. /\ p \o e \in Seq(Items) /\ Len(p \o e) = Len(p) + Len(e)
        /\ \A i \in 1 .. Len(p) + Len(e) : (p \o e)[i] = IF i <= Len(p) THEN p[i] ELSE e[i - Len(p)]
    BY <1>2, <2>1, ConcatProperties
  <2>3. a = p \o e
    BY DEF p
  <2> HIDE DEF a
  <2>4. /\ a \in Seq(Items) /\ Len(a) = n + 1 /\ a[1] = x /\ \A i \in 1 .. n : a[i + 1] = e[i]
    <3>1. ASSUME NEW i \in 1 .. n
          PROVE  a[i + 1] = e[i]
      <4>1. i + 1 \in 1 .. 1 + n /\ ~(i + 1 <= 1) /\ i + 1 - 1 = i
        BY <1>2
      <4> QED BY <1>2, <2>1, <2>2, <2>3, <4>1
    <3>2. 1 \in 1 .. 1 + n /\ 1 + n = n + 1
      BY <1>2
    <3> QED BY <1>2, <2>1, <2>2, <2>3, <3>1, <3>2
  <2>5. /\ a \o q \in Seq(Items) /\ Len(a \o q) = Len(a) + Len(q)
        /\ \A i \in 1 .. Len(a) + Len(q) : (a \o q)[i] = IF i <= Len(a) THEN a[i] ELSE q[i - Len(a)]
    BY <2>1, <2>4, ConcatProperties
  <2>6. s = a \o q
    BY DEF a, q
  <2> HIDE DEF s
  <2>7. s \in Seq(Items) /\ Len(s) = n + 3
    BY <1>2, <2>1, <2>4, <2>5, <2>6
  <2>8. s[1] = x
    <3>1. 1 \in 1 .. n + 1 + 2 /\ 1 <= n + 1
      BY <1>2
    <3> QED BY <2>1, <2>4, <2>5, <2>6, <3>1
  <2>9. s[n + 2] = y /\ s[n + 3] = z
    <3>1. /\ n + 2 \in 1 .. n + 1 + 2 /\ ~(n + 2 <= n + 1) /\ (n + 2) - (n + 1) = 1
          /\ n + 3 \in 1 .. n + 1 + 2 /\ ~(n + 3 <= n + 1) /\ (n + 3) - (n + 1) = 2
      BY <1>2
    <3>2. \A i \in 1 .. n + 1 + 2 : s[i] = IF i <= n + 1 THEN a[i] ELSE q[i - (n + 1)]
      BY <2>1, <2>4, <2>5, <2>6
    <3>3. s[n + 2] = q[(n + 2) - (n + 1)]
      BY <3>1, <3>2
    <3>4. s[n + 3] = q[(n + 3) - (n + 1)]
      BY <3>1, <3>2
    <3> QED BY <2>1, <3>1, <3>3, <3>4
  <2>10. ASSUME NEW i \in 1 .. n
         PROVE  s[i + 1] = e[i]
    <3>1. i + 1 \in 1 .. n + 1 + 2 /\ i + 1 <= n + 1
      BY <1>2
    <3> QED BY <2>1, <2>4, <2>5, <2>6, <3>1
  <2> QED BY <2>7, <2>8, <2>9, <2>10
<1>9. agenda \in [Threads -> Seq(Items)]
  BY <1>5, <1>8
<1> HIDE DEF s
<1>10. DOMAIN s = 1 .. n + 3
  BY <1>8, LenProperties
<1>11. ASSUME NEW i \in 1 .. n + 3
       PROVE  \/ i = 1
              \/ i = n + 2
              \/ i = n + 3
              \/ i - 1 \in 1 .. n /\ s[i] = e[i - 1]
  <2>1. i # 1 /\ i # n + 2 /\ i # n + 3 => i - 1 \in 1 .. n /\ (i - 1) + 1 = i
    BY <1>2
  <2> QED BY <1>8, <2>1
<1>12. ASSUME NEW th \in Threads
       PROVE  AgendaInv(th)
  <2>1. CASE th # Caller
    <3>1. DOMAIN agenda[th] = {}
      BY <1>4, <2>1
    <3> QED BY <3>1 DEF AgendaInv
  <2>2. CASE th = Caller
    <3>1. n + 2 \in 1 .. n + 3 /\ s[n + 2].op = "finish"
      BY <1>2, <1>3, <1>8
    <3>2. "finish" \in Ending /\ "wait" \in Ending /\ "finish" \notin Urgent \cup {"seed", "wait"} /\ "wait" \notin Urgent
      BY DEF Ending, Urgent
    <3>3. ASSUME NEW i \in 1 .. n + 3
          PROVE  /\ Within(s[i])
                 /\ s[i].op \notin Ending => n + 2 > i
                 /\ s[i].op \in Urgent => i = 1
      <4>1. CASE i = 1
        BY <1>2, <1>3, <1>8, <4>1
      <4>2. CASE i = n + 2
        BY <1>3, <1>8, <3>2, <4>2
      <4>3. CASE i = n + 3
        BY <1>3, <1>8, <3>2, <4>3
      <4>4. CASE i - 1 \in 1 .. n /\ s[i] = e[i - 1]
        <5>1. n + 2 > i
          BY <1>2, <4>4
        <5> QED BY <1>6, <1>7, <4>4, <5>1
      <4> QED BY <1>11, <4>1, <4>2, <4>3, <4>4
    <3> QED BY <1>4, <1>10, <2>2, <3>1, <3>3 DEF AgendaInv
  <2> QED BY <2>1, <2>2
<1>13. TypeInv /\ BatchInv
  <2>1. IsABag(jobs) /\ DOMAIN jobs = {}
    BY BagFacts DEF Init, IsABag, EmptyBag, SetToBag
  <2>2. DataInv
    <3>1. ~claimed /\ ~hasException
      BY DEF Init
    <3>2. claimed \in BOOLEAN /\ hasException \in BOOLEAN
      BY DEF Init
    <3> QED BY <3>1, <3>2 DEF Init, DataInv
  <2>3. TypeInv
    BY <1>1, <1>9, <2>1, <2>2 DEF Init, TypeInv
  <2> QED BY <2>1, <2>3 DEF BatchInv
<1>14. Unseeded
  <2>1. 1 \in 1 .. n + 3 /\ s[1].op = "seed"
    BY <1>2, <1>3, <1>8
  <2> QED BY <1>4, <1>10, <2>1 DEF Unseeded
<1>15. \A th \in Threads : \A o : At(th, o) => th = Caller /\ o = "seed"
  <2>1. Head(s) = x
    BY <1>8
  <2> QED BY <1>3, <1>4, <2>1 DEF At
<1>16. CountInv
  <2>1. Queued = {}
    BY BagFacts, QueuedFacts DEF Init
  <2>2. \A th \in Threads : th # Caller => Guards(th) = {}
    BY <1>4 DEF Guards
  <2>3. Guards(Caller) = {2}
    <3>1. Guards(Caller) = {i \in 1 .. n + 3 : s[n + 3 + 1 - i].op = "finish"}
      BY <1>4, <1>8, <1>10 DEF Guards
    <3>2. ASSUME NEW i \in 1 .. n + 3
          PROVE  s[n + 3 + 1 - i].op = "finish" <=> i = 2
      <4>1. n + 3 + 1 - i \in 1 .. n + 3 /\ (n + 3 + 1 - i = n + 2 <=> i = 2)
        BY <1>2
      <4> DEFINE k == n + 3 + 1 - i
      <4> HIDE DEF k
      <4>2. k \in 1 .. n + 3 /\ (k = n + 2 <=> i = 2)
        BY <4>1 DEF k
      <4>3. s[k].op = "finish" <=> k = n + 2
        <5>1. CASE k = 1
          <6>1. k # n + 2
            BY <1>2, <5>1
          <6> QED BY <1>3, <1>8, <5>1, <6>1
        <5>2. CASE k = n + 2
          BY <1>3, <1>8, <5>2
        <5>3. CASE k = n + 3
          <6>1. k # n + 2
            BY <1>2, <5>3
          <6> QED BY <1>3, <1>8, <5>3, <6>1
        <5>4. CASE k - 1 \in 1 .. n /\ s[k] = e[k - 1]
          <6>1. k # n + 2
            BY <1>2, <5>4
          <6> QED BY <1>6, <1>7, <5>4, <6>1
        <5> QED BY <1>11, <4>2, <5>1, <5>2, <5>3, <5>4
      <4> QED BY <4>2, <4>3 DEF k
    <3>3. 2 \in 1 .. n + 3
      BY <1>2
    <3> QED BY <3>1, <3>2, <3>3
  <2>4. Guarded = {<<Caller, 2>>}
    BY <1>4, <2>2, <2>3, GuardedFacts
  <2>5. Enqueuing = {}
    BY <1>15 DEF Enqueuing
  <2>6. Cardinality(Queued) = 0 /\ Cardinality(Enqueuing) = 0 /\ Cardinality(Guarded) = 1
        /\ IsFiniteSet(Queued) /\ IsFiniteSet(Guarded)
    BY <2>1, <2>4, <2>5, FS_EmptySet, FS_Singleton
  <2> QED BY <1>14, <2>6 DEF CountInv, Init
<1>17. SeedInv
  <2>1. \A w \in Workers : w \in Threads /\ w # Caller
    BY DEF Assumptions, Threads
  <2> QED BY <1>4, <2>1 DEF SeedInv, Init
<1>18. EndInv
  <2>1. \A th \in Threads : ~At(th, "resolve")
    BY <1>15
  <2> QED BY <2>1 DEF EndInv, Init
<1> QED BY <1>12, <1>13, <1>16, <1>17, <1>18 DEF Inv

\* For every forest, and every interleaving of the threads: an agenda is work that something
\* ends, pending counts what was submitted and has not ended, and the promise is resolved
\* once, after that (ForestTraversal.h:213).
THEOREM Invariance == ASSUME Assumptions PROVE Spec => []Inv
<1>1. Init => Inv
  BY InitInv
<1>2. Inv /\ [Next]_vars => Inv'
  BY NextKeepsInv
<1> QED BY <1>1, <1>2, PTL DEF Spec

\* When the call has ended no job is left that would use the State and the visitor on the
\* stack of the caller (ForestTraversal.h:152).
THEOREM CallOutlivesItsJobs == ASSUME Assumptions PROVE Spec => []NothingOutlivesTheCall
<1>1. Inv => NothingOutlivesTheCall
  <2> SUFFICES ASSUME Inv, result # "running"
               PROVE  jobs = EmptyBag /\ \A w \in Workers : agenda[w] = <<>>
    BY DEF NothingOutlivesTheCall
  <2>1. done # "unset"
    BY DEF Inv, EndInv, TypeInv, Assumptions
  <2>2. pending = 0 /\ ~Unseeded /\ \A th \in Threads : ~At(th, "resolve")
    BY <2>1 DEF Inv, EndInv
  <2>3. jobs = EmptyBag /\ \A th \in Threads : agenda[th] # <<>> => Item(th).op \in {"resolve", "wait"}
    BY <2>2, Quiet
  <2>4. ASSUME NEW w \in Workers, agenda[w] # <<>>
        PROVE  FALSE
    <3>1. w \in Threads /\ w # Caller
      BY DEF Threads, Assumptions
    <3>2. Item(w).op = "wait"
      BY <2>2, <2>3, <2>4, <3>1 DEF At, Item
    <3>3. /\ 1 \in DOMAIN agenda[w] /\ Item(w) = agenda[w][1]
          /\ AgendaInv(w)
      <4>1. agenda[w] \in Seq(Items)
        BY <3>1 DEF Inv, TypeInv
      <4>2. Len(agenda[w]) \in Nat \ {0} /\ Head(agenda[w]) = agenda[w][1]
        BY <2>4, <4>1, EmptySeq
      <4> QED BY <3>1, <4>1, <4>2, LenProperties DEF Inv, Item
    <3> QED BY <3>1, <3>2, <3>3 DEF AgendaInv
  <2> QED BY <2>3, <2>4
<1> QED BY <1>1, Invariance, PTL

\* A job for a batch of leaves is one that the budget allows (ForestTraversal.h:424).
THEOREM BatchesAreWithinBudget == ASSUME Assumptions PROVE Spec => []BatchesFit
<1>1. Inv => BatchesFit
  BY DEF Inv, BatchInv, Fits, BatchesFit, BagToSet
<1> QED BY <1>1, Invariance, PTL
=============================================================================
