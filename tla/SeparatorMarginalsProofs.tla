----------------------- MODULE SeparatorMarginalsProofs -----------------------
(***************************************************************************)
(* Proofs about SeparatorMarginals, for every tree, number of threads and  *)
(* choice of what runs alone.                                              *)
(***************************************************************************)
EXTENDS SeparatorMarginals, FiniteSetTheorems, SequenceTheorems, TLAPS

\* What is to be done with the mutex of a clique held.
Holds(item) == item.op \in {"fill", "clear", "unlock"}

\* Mutexes: what a thread still has to do under a mutex it does as its holder, and
\* before it releases the mutex.
LocksInv(th) ==
  \A i \in DOMAIN agenda[th] :
    /\ Holds(agenda[th][i]) => lock[agenda[th][i].clique] = th
    /\ agenda[th][i].op = "unlock" =>
         \A j \in DOMAIN agenda[th] :
           j > i /\ Holds(agenda[th][j]) => agenda[th][j].clique # agenda[th][i].clique

\* A clique that is to be filled has its filled parent above it in the path, or waits
\* for the item before it to fill the parent.
PathInv(th) ==
  \A i \in DOMAIN agenda[th] :
    LET c == agenda[th][i].clique
        p == Parent[c]
    IN  agenda[th][i].op = "fill" /\ cached[c] = Absent /\ p # None =>
          IF i = 1 THEN lock[p] = th /\ cached[p] # Absent
          ELSE agenda[th][i - 1].op \in {"marginal", "fill"} /\ agenda[th][i - 1].clique = p

\* Before a clique is cleared all its children are.
ClearInv(th) ==
  \A i \in DOMAIN agenda[th] : agenda[th][i].op = "clear" =>
    \A c \in Children(agenda[th][i].clique) : cached[c] # Absent =>
      \E j \in 1 .. i - 1 : agenda[th][j].op \in {"delete", "clear"} /\ agenda[th][j].clique = c

\* An agenda holds what its call is made of, and a call that must be alone is.
Belongs(op, called) ==
  CASE op = "unlock" -> TRUE
    [] op = "fill"   -> called = "marginal"
    [] op = "clear"  -> called = "delete"
    [] OTHER         -> called = op
AloneInv(th) ==
  agenda[th] # <<>> =>
    /\ call[th].op \in Exclusive => Alone(th)
    /\ \A i \in DOMAIN agenda[th] : Belongs(agenda[th][i].op, call[th].op)

AgendaInv(th) == LocksInv(th) /\ PathInv(th) /\ ClearInv(th) /\ AloneInv(th)

\* What is cached is right, and hangs below what is cached.
CacheInv ==
  \A c \in Cliques : cached[c] # Absent =>
    /\ cached[c] = Ancestors[c]
    /\ Parent[c] # None => cached[Parent[c]] # Absent

Inv == TypeOK /\ (\A th \in Threads : AgendaInv(th)) /\ CacheInv
-----------------------------------------------------------------------------
(* Sequences *)

\* What becomes of an agenda whose first item is replaced, and that is extended.
LEMMA Splice ==
  ASSUME NEW S, NEW pre \in Seq(S), NEW s \in Seq(S), s # <<>>, NEW post \in Seq(S),
         NEW r, r = pre \o Tail(s) \o post
  PROVE  /\ r \in Seq(S)
         /\ Len(r) = Len(pre) + (Len(s) - 1) + Len(post)
         /\ \A i \in 1 .. Len(r) : r[i] =
              IF i <= Len(pre) THEN pre[i]
              ELSE IF i <= Len(pre) + (Len(s) - 1) THEN s[i - Len(pre) + 1]
              ELSE post[i - Len(pre) - (Len(s) - 1)]
<1> DEFINE t == Tail(s)
           q == pre \o t
<1>1. /\ Len(s) \in Nat \ {0} /\ Len(pre) \in Nat /\ Len(post) \in Nat
      /\ \A i \in 1 .. Len(s) : s[i] \in S
  BY EmptySeq, LenProperties
<1>2. t \in Seq(S) /\ Len(t) = Len(s) - 1 /\ \A i \in 1 .. Len(t) : t[i] = s[i + 1]
  BY <1>1, HeadTailProperties
<1> HIDE DEF t
<1>3. /\ q \in Seq(S) /\ Len(q) = Len(pre) + Len(t)
      /\ \A i \in 1 .. Len(pre) + Len(t) : q[i] = IF i <= Len(pre) THEN pre[i] ELSE t[i - Len(pre)]
  BY <1>2, ConcatProperties
<1>4. r = q \o post
  BY DEF t
<1> HIDE DEF q
<1>5. /\ r \in Seq(S) /\ Len(r) = Len(q) + Len(post)
      /\ \A i \in 1 .. Len(q) + Len(post) : r[i] = IF i <= Len(q) THEN q[i] ELSE post[i - Len(q)]
  <2>0. q \in Seq(S)
    BY <1>3
  <2>1. /\ q \o post \in Seq(S) /\ Len(q \o post) = Len(q) + Len(post)
        /\ \A i \in 1 .. Len(q) + Len(post) :
             (q \o post)[i] = IF i <= Len(q) THEN q[i] ELSE post[i - Len(q)]
    BY <2>0, ConcatProperties
  <2> QED BY <2>1, <1>4
<1>6. Len(r) = Len(pre) + (Len(s) - 1) + Len(post)
  BY <1>2, <1>3, <1>5
<1>7. ASSUME NEW i \in 1 .. Len(r)
      PROVE  r[i] = IF i <= Len(pre) THEN pre[i]
                    ELSE IF i <= Len(pre) + (Len(s) - 1) THEN s[i - Len(pre) + 1]
                    ELSE post[i - Len(pre) - (Len(s) - 1)]
  <2>1. CASE i <= Len(pre)
    BY <2>1, <1>1, <1>2, <1>3, <1>5
  <2>2. CASE ~(i <= Len(pre)) /\ i <= Len(pre) + (Len(s) - 1)
    <3>1. i \in 1 .. Len(q) /\ i - Len(pre) \in 1 .. Len(t)
      BY <2>2, <1>1, <1>2, <1>3
    <3>2. r[i] = t[i - Len(pre)]
      BY <2>2, <3>1, <1>1, <1>2, <1>3, <1>5
    <3> QED BY <2>2, <3>1, <3>2, <1>2
  <2>3. CASE ~(i <= Len(pre) + (Len(s) - 1))
    BY <2>3, <1>1, <1>2, <1>3, <1>5
  <2> QED BY <1>1, <2>1, <2>2, <2>3
<1> QED BY <1>5, <1>6, <1>7

\* Every finite set of cliques can be listed.
LEMMA ListedFacts ==
  ASSUME NEW S \in SUBSET Cliques
  PROVE  Listed(S) \in Seq(Cliques) /\ \A c \in S : \E i \in DOMAIN Listed(S) : Listed(S)[i] = c
<1> DEFINE n == Cardinality(S)
<1>1. IsFiniteSet(S)
  BY ParentAssumption, FS_Subset
<1>2. n \in Nat /\ ExistsBijection(1 .. n, S)
  BY <1>1, FS_CardinalityType
<1> HIDE DEF n
<1>3. \E s \in [1 .. n -> S] : IsInjective(s)
  BY <1>2 DEF ExistsBijection, Bijection, Injection
<1>4. Listed(S) \in [1 .. n -> S] /\ IsInjective(Listed(S))
  BY <1>3 DEF Listed, n
<1> DEFINE l == Listed(S)
<1> HIDE DEF l
<1>5. l \in Injection(1 .. n, S)
  BY <1>4 DEF Injection, l
<1>6. IsFiniteSet(1 .. n) /\ Cardinality(1 .. n) = n
  BY <1>2, FS_Interval
<1>7. l \in Surjection(1 .. n, S)
  BY <1>1, <1>5, <1>6, FS_Injection DEF n
<1>8. l \in Seq(Cliques)
  BY <1>2, <1>4 DEF l
<1> QED BY <1>7, <1>8 DEF Surjection, l

LEMMA EachFacts ==
  ASSUME NEW op \in {"count", "delete", "marginal", "peek"}, NEW cs \in Seq(Cliques)
  PROVE  /\ Each(op, cs) \in Seq(Item)
         /\ Len(Each(op, cs)) = Len(cs)
         /\ \A i \in 1 .. Len(cs) : Each(op, cs)[i] = Do(op, cs[i])
<1>1. /\ Len(cs) \in Nat /\ DOMAIN cs = 1 .. Len(cs)
      /\ \A i \in 1 .. Len(cs) : cs[i] \in Cliques
  BY LenProperties
<1>2. Each(op, cs) = [i \in 1 .. Len(cs) |-> Do(op, cs[i])]
  BY <1>1 DEF Each
<1>3. \A i \in 1 .. Len(cs) : Do(op, cs[i]) \in Item
  BY <1>1 DEF Do, Item
<1>4. Each(op, cs) \in [1 .. Len(cs) -> Item]
  BY <1>2, <1>3
<1>5. Each(op, cs) \in Seq(Item)
  BY <1>1, <1>4, SeqDef
<1>6. Len(Each(op, cs)) = Len(cs)
  <2> DEFINE e == Each(op, cs)
             n == Len(cs)
  <2>1. n \in Nat /\ e \in Seq(Item) /\ e \in [1 .. n -> Item]
    BY <1>1, <1>4, <1>5
  <2> HIDE DEF e, n
  <2>2. Len(e) \in Nat /\ DOMAIN e = 1 .. Len(e)
    BY <2>1, LenProperties
  <2>3. 1 .. Len(e) = 1 .. n
    BY <2>1, <2>2
  <2>4. Len(e) = n
    BY <2>1, <2>2, <2>3
  <2> QED BY <2>4 DEF e, n
<1> QED BY <1>2, <1>5, <1>6
-----------------------------------------------------------------------------
(* Agendas *)

LEMMA AncestorsFacts ==
  ASSUME NEW c \in Cliques
  PROVE  /\ Absent # Ancestors[c] /\ Ancestors[c] \subseteq Cliques
         /\ Ancestors[c] = IF Parent[c] = None THEN {} ELSE Ancestors[Parent[c]] \cup {Parent[c]}
<1>1. Ancestors[c] \subseteq Cliques
  BY DEF Ancestors
<1>2. Absent # Ancestors[c]
  BY <1>1, ParentAssumption DEF Absent
<1>3. CASE Parent[c] = None
  <2>1. {} \in Above(c)
    BY <1>3 DEF Above, HoldsParent
  <2> QED BY <1>1, <1>2, <1>3, <2>1 DEF Ancestors
<1>4. CASE Parent[c] # None
  <2> DEFINE p == Parent[c]
             A == Ancestors[p]
  <2>1. p \in Cliques /\ p # None
    BY <1>4, ParentAssumption
  <2>2. A \subseteq Cliques /\ \A d \in Cliques : d \in A <=> \A S \in Above(p) : d \in S
    BY <2>1 DEF Ancestors
  <2> HIDE DEF p, A
  <2>3. \A S \in Above(c) : p \in S /\ S \in Above(p)
    BY <2>1 DEF Above, HoldsParent, p
  <2>4. \A d \in Cliques : d \in A \cup {p} => \A S \in Above(c) : d \in S
    BY <2>2, <2>3
  <2>5. \A d \in A \cup {p} : HoldsParent(A \cup {p}, d)
    <3> SUFFICES ASSUME NEW d \in A \cup {p}, Parent[d] # None
                 PROVE  Parent[d] \in A
      BY DEF HoldsParent
    <3>1. d \in Cliques /\ Parent[d] \in Cliques
      BY <2>1, <2>2, ParentAssumption
    <3>2. \A S \in Above(p) : Parent[d] \in S
      BY <2>1, <2>2 DEF Above, HoldsParent
    <3> QED BY <2>2, <3>1, <3>2
  <2>6. A \cup {p} \in Above(c)
    BY <2>1, <2>2, <2>5 DEF Above, HoldsParent, p
  <2>7. \A d \in Cliques : (\A S \in Above(c) : d \in S) => d \in A \cup {p}
    BY <2>6
  <2>8. Ancestors[c] = A \cup {p}
    BY <1>1, <2>1, <2>2, <2>4, <2>7 DEF Ancestors
  <2> QED BY <1>1, <1>2, <1>4, <2>8 DEF p, A
<1> QED BY <1>3, <1>4

LEMMA AgendaFacts ==
  ASSUME TypeOK, NEW th \in Threads
  PROVE  /\ agenda[th] \in Seq(Item) /\ Len(agenda[th]) \in Nat
         /\ DOMAIN agenda[th] = 1 .. Len(agenda[th])
         /\ \A i \in DOMAIN agenda[th] :
              /\ agenda[th][i] \in Item
              /\ agenda[th][i].clique \in Cliques
         /\ agenda[th] # <<>> => 1 \in DOMAIN agenda[th] /\ Head(agenda[th]) = agenda[th][1]
<1>1. agenda[th] \in Seq(Item)
  BY DEF TypeOK, Item
<1> DEFINE a == agenda[th]
<1> HIDE DEF a
<1>2. a \in Seq(Item)
  BY <1>1 DEF a
<1>3. /\ Len(a) \in Nat /\ DOMAIN a = 1 .. Len(a) /\ \A i \in DOMAIN a : a[i] \in Item
      /\ a # <<>> => 1 \in DOMAIN a /\ Head(a) = a[1]
  BY <1>2
<1> QED BY <1>2, <1>3 DEF a, Item

\* The agenda of th after a step that replaces its first item and appends to it.
Rewritten(th, pre, post) == agenda' = [agenda EXCEPT ![th] = pre \o Tail(agenda[th]) \o post]

LEMMA RewrittenFacts ==
  ASSUME TypeOK, NEW th \in Threads, agenda[th] # <<>>,
         NEW pre \in Seq(Item), NEW post \in Seq(Item), Rewritten(th, pre, post)
  PROVE  /\ agenda' \in [Threads -> Seq(Item)]
         /\ \A u \in Threads \ {th} : agenda'[u] = agenda[u]
         /\ Len(agenda'[th]) = Len(pre) + (Len(agenda[th]) - 1) + Len(post)
         /\ DOMAIN agenda'[th] = 1 .. Len(agenda'[th])
         /\ Len(pre) \in Nat /\ Len(post) \in Nat /\ Len(agenda[th]) \in Nat \ {0}
         /\ \A i \in DOMAIN agenda'[th] : agenda'[th][i] =
              IF i <= Len(pre) THEN pre[i]
              ELSE IF i <= Len(pre) + (Len(agenda[th]) - 1) THEN agenda[th][i - Len(pre) + 1]
              ELSE post[i - Len(pre) - (Len(agenda[th]) - 1)]
<1> DEFINE r == pre \o Tail(agenda[th]) \o post
<1>1. agenda[th] \in Seq(Item) /\ agenda \in [Threads -> Seq(Item)]
  BY DEF TypeOK, Item
<1>2. /\ r \in Seq(Item) /\ Len(r) = Len(pre) + (Len(agenda[th]) - 1) + Len(post)
      /\ \A i \in 1 .. Len(r) : r[i] =
           IF i <= Len(pre) THEN pre[i]
           ELSE IF i <= Len(pre) + (Len(agenda[th]) - 1) THEN agenda[th][i - Len(pre) + 1]
           ELSE post[i - Len(pre) - (Len(agenda[th]) - 1)]
  BY <1>1, Splice
<1> HIDE DEF r
<1>3. agenda' = [agenda EXCEPT ![th] = r]
  BY DEF Rewritten, r
<1>4. agenda'[th] = r /\ \A u \in Threads \ {th} : agenda'[u] = agenda[u]
  BY <1>1, <1>3
<1>5. agenda' \in [Threads -> Seq(Item)]
  BY <1>1, <1>2, <1>3
<1>6. DOMAIN r = 1 .. Len(r)
  BY <1>2, LenProperties
<1>7. Len(pre) \in Nat /\ Len(post) \in Nat /\ Len(agenda[th]) \in Nat \ {0}
  BY <1>1, LenProperties, EmptySeq
<1> QED BY <1>2, <1>4, <1>5, <1>6, <1>7
\* What the step of a thread does to the others: nothing, since it has only its own
\* mutexes to release, and deletes only when it is alone.
LEMMA Others ==
  ASSUME Inv, NEW th \in Threads, agenda[th] # <<>>, call' = call,
         \A v \in Threads \ {th} : agenda'[v] = agenda[v],
         \A c \in Cliques : lock[c] \notin {th, None} => lock'[c] = lock[c],
         (\E c \in Cliques : cached[c] # Absent /\ cached'[c] = Absent) => call[th].op = "delete",
         NEW u \in Threads \ {th}
  PROVE  AgendaInv(u)'
<1>1. agenda'[u] = agenda[u] /\ DOMAIN agenda[u] = 1 .. Len(agenda[u])
  BY AgendaFacts DEF Inv
<1>2. CASE agenda[u] = <<>>
  BY <1>1, <1>2 DEF AgendaInv, LocksInv, PathInv, ClearInv, AloneInv
<1>3. CASE agenda[u] # <<>>
  <2>1. call[th].op \notin Exclusive /\ call[u].op \notin Exclusive
    BY <1>3 DEF Inv, AgendaInv, AloneInv, Alone
  <2>2. call[th].op # "delete" /\ call[u].op # "delete"
    BY <2>1, OperationsAssumption
  <2>3. \A i \in DOMAIN agenda[u] : agenda[u][i] \in Item
    BY AgendaFacts DEF Inv
  <2>4. LocksInv(u)'
    <3>1. \A i \in DOMAIN agenda[u] :
            Holds(agenda[u][i]) => lock'[agenda[u][i].clique] = u
      BY <2>3, ThreadsAssumption DEF Inv, AgendaInv, LocksInv, Item
    <3> QED BY <1>1, <3>1 DEF Inv, AgendaInv, LocksInv
  <2>5. PathInv(u)'
    <3>1. \A c \in Cliques : cached'[c] = Absent => cached[c] = Absent
      BY <2>2
    <3>2. \A p \in Cliques : cached[p] # Absent => cached'[p] # Absent
      BY <2>2
    <3>3. \A p \in Cliques : lock[p] = u => lock'[p] = u
      BY ThreadsAssumption
    <3>4. ASSUME NEW i \in DOMAIN agenda[u], agenda[u][i].op = "fill",
                 cached'[agenda[u][i].clique] = Absent, Parent[agenda[u][i].clique] # None
          PROVE  LET p == Parent[agenda[u][i].clique] IN
                 IF i = 1 THEN lock'[p] = u /\ cached'[p] # Absent
                 ELSE agenda[u][i - 1].op \in {"marginal", "fill"} /\ agenda[u][i - 1].clique = p
      <4>1. agenda[u][i].clique \in Cliques /\ Parent[agenda[u][i].clique] \in Cliques
        BY <2>3, <3>4, ParentAssumption DEF Item
      <4> QED BY <3>1, <3>2, <3>3, <3>4, <4>1 DEF Inv, AgendaInv, PathInv
    <3> QED BY <1>1, <3>4 DEF PathInv
  <2>6. AloneInv(u)'
    BY <1>1, <2>1 DEF Inv, AgendaInv, AloneInv
  <2>7. ClearInv(u)'
    <3>1. \A i \in DOMAIN agenda[u] : agenda[u][i].op # "clear"
      BY <1>3, <2>2 DEF Inv, AgendaInv, AloneInv, Belongs
    <3> QED BY <1>1, <3>1 DEF ClearInv
  <2> QED BY <2>4, <2>5, <2>6, <2>7 DEF AgendaInv
<1> QED BY <1>2, <1>3

\* A thread that acquires a mutex has nothing under it on its agenda before.
LEMMA AcquireKeepsLocks ==
  ASSUME Inv, NEW th \in Threads, agenda[th] # <<>>, NEW c \in Cliques, Acquire(th, c),
         NEW pre \in Seq(Item), NEW post \in Seq(Item), Rewritten(th, pre, post),
         \A i \in DOMAIN pre : Holds(pre[i]) => pre[i].clique = c,
         \A i \in DOMAIN pre : pre[i].op = "unlock" => i = Len(pre) /\ post = <<>>,
         post = <<>> \/ post = <<Do("unlock", c)>>
  PROVE  LocksInv(th)'
<1> DEFINE a == agenda[th]
           b == agenda'[th]
           m == Len(pre)
           n == Len(agenda[th]) - 1
<1>1. /\ DOMAIN b = 1 .. m + n + Len(post) /\ DOMAIN a = 1 .. n + 1
      /\ m \in Nat /\ n \in Nat /\ Len(post) \in Nat /\ DOMAIN pre = 1 .. m
      /\ \A i \in DOMAIN b : b[i] =
           IF i <= m THEN pre[i] ELSE IF i <= m + n THEN a[i - m + 1] ELSE post[i - m - n]
  <2>1. /\ DOMAIN b = 1 .. Len(b) /\ Len(b) = m + n + Len(post)
        /\ m \in Nat /\ n \in Nat /\ Len(post) \in Nat
        /\ \A i \in DOMAIN b : b[i] =
             IF i <= m THEN pre[i] ELSE IF i <= m + n THEN a[i - m + 1] ELSE post[i - m - n]
    BY RewrittenFacts DEF Inv
  <2>2. DOMAIN a = 1 .. n + 1 /\ DOMAIN pre = 1 .. m
    BY AgendaFacts DEF Inv
  <2> QED BY <2>1, <2>2
<1>2. /\ lock[c] = None /\ lock'[c] = th
      /\ \A d \in Cliques : lock[d] = th => lock'[d] = th
  BY ThreadsAssumption DEF Acquire, Inv, TypeOK
<1>3. \A i \in DOMAIN a : Holds(a[i]) => a[i].clique # c /\ lock'[a[i].clique] = th
  <2> TAKE i \in DOMAIN a
  <2>1. a[i].clique \in Cliques
    BY AgendaFacts DEF Inv
  <2> QED BY <1>2, <2>1, ThreadsAssumption DEF Inv, AgendaInv, LocksInv
<1>4. /\ post # <<>> => Len(post) = 1 /\ post[1] = Do("unlock", c)
      /\ post = <<>> => Len(post) = 0
  <2>1. CASE post = <<>>
    BY <2>1
  <2>2. CASE post = <<Do("unlock", c)>>
    <3> DEFINE it == Do("unlock", c)
    <3> HIDE DEF it
    <3>1. post = <<it>>
      BY <2>2 DEF it
    <3> QED BY <3>1 DEF it
  <2> QED BY <2>1, <2>2
<1>5. \A i, j \in DOMAIN a : 
        a[i].op = "unlock" /\ j > i /\ Holds(a[j]) => a[j].clique # a[i].clique
  BY DEF Inv, AgendaInv, LocksInv
<1> HIDE DEF a, b, m, n
<1>6. \A i \in DOMAIN b :
        IF i <= m THEN i \in DOMAIN pre /\ b[i] = pre[i]
        ELSE IF i <= m + n THEN i - m + 1 \in DOMAIN a /\ b[i] = a[i - m + 1]
        ELSE i = m + n + 1 /\ b[i] = Do("unlock", c)
  <2> TAKE i \in DOMAIN b
  <2>1. m \in Nat /\ n \in Nat /\ i \in Nat /\ i <= m + n + Len(post) /\ i >= 1
    BY <1>1
  <2>2. CASE i <= m + n
    BY <2>1, <2>2, <1>1
  <2>3. CASE ~(i <= m + n)
    <3>1. Len(post) = 1 /\ post[1] = Do("unlock", c)
      <4>1. Len(post) # 0
        BY <2>1, <2>3, <1>1
      <4>2. post # <<>>
        BY <4>1, <1>4
      <4> QED BY <4>2, <1>4
    <3>2. i = m + n + 1 /\ ~(i <= m) /\ i - m - n = 1
      BY <2>1, <2>3, <3>1
    <3>3. b[i] = post[i - m - n]
      BY <2>3, <3>2, <1>1
    <3> QED BY <2>3, <3>1, <3>2, <3>3
  <2> QED BY <2>2, <2>3
<1>7. \A i \in DOMAIN b : Holds(b[i]) => lock'[b[i].clique] = th
  BY <1>2, <1>3, <1>6 DEF Do
<1>8. ASSUME NEW i \in DOMAIN b, NEW j \in DOMAIN b, b[i].op = "unlock", j > i, Holds(b[j])
      PROVE  b[j].clique # b[i].clique
  <2>0. i \in Nat /\ j \in Nat
    BY <1>1
  <2>1. CASE i <= m
    <3>1. i = m /\ b[i].clique = c /\ post = <<>>
      BY <2>1, <1>6, <1>8 DEF m, Holds
    <3>2. ~(j <= m) /\ j <= m + n
      BY <2>0, <3>1, <1>1, <1>4, <1>8
    <3> QED BY <3>1, <3>2, <1>3, <1>6, <1>8
  <2>2. CASE ~(i <= m) /\ i <= m + n
    <3>1. i - m + 1 \in DOMAIN a /\ b[i] = a[i - m + 1] /\ ~(j <= m)
      BY <2>0, <2>2, <1>1, <1>6, <1>8
    <3>2. CASE j <= m + n
      <4>1. j - m + 1 \in DOMAIN a /\ b[j] = a[j - m + 1] /\ j - m + 1 > i - m + 1
        BY <2>0, <3>1, <3>2, <1>1, <1>6, <1>8, SMTT(30)
      <4> QED BY <3>1, <4>1, <1>5, <1>8
    <3>3. CASE ~(j <= m + n)
      <4>1. b[j].clique = c
        BY <3>1, <3>3, <1>6 DEF Do
      <4> QED BY <3>1, <4>1, <1>3, <1>8 DEF Holds
    <3> QED BY <3>2, <3>3
  <2>3. CASE ~(i <= m + n)
    BY <2>0, <2>3, <1>1, <1>4, <1>8, SMTT(30)
  <2> QED BY <2>1, <2>2, <2>3
<1> QED BY <1>7, <1>8 DEF LocksInv, b
\* An agenda of items of the same call leaves who runs alone alone.
LEMMA CallStaysAlone ==
  ASSUME Inv, NEW th \in Threads, agenda[th] # <<>>, call' = call,
         NEW pre \in Seq(Item), NEW post \in Seq(Item), Rewritten(th, pre, post),
         \A i \in DOMAIN pre : Belongs(pre[i].op, call[th].op),
         \A i \in DOMAIN post : Belongs(post[i].op, call[th].op)
  PROVE  AloneInv(th)'
<1>1. \A v \in Threads \ {th} : agenda'[v] = agenda[v]
  BY RewrittenFacts DEF Inv
<1>2. call[th].op \in Exclusive => \A v \in Threads \ {th} : agenda'[v] = <<>>
  BY <1>1 DEF Inv, AgendaInv, AloneInv, Alone
<1>3. ASSUME NEW i \in DOMAIN agenda'[th]
      PROVE  Belongs(agenda'[th][i].op, call[th].op)
  <2> DEFINE m == Len(pre)
             n == Len(agenda[th]) - 1
  <2>1. /\ m \in Nat /\ n \in Nat /\ Len(post) \in Nat /\ i \in 1 .. m + n + Len(post)
        /\ agenda'[th][i] = IF i <= m THEN pre[i]
             ELSE IF i <= m + n THEN agenda[th][i - m + 1] ELSE post[i - m - n]
    BY RewrittenFacts DEF Inv
  <2>2. DOMAIN pre = 1 .. m /\ DOMAIN post = 1 .. Len(post) /\ DOMAIN agenda[th] = 1 .. n + 1
    BY AgendaFacts DEF Inv
  <2>3. \A j \in DOMAIN agenda[th] : Belongs(agenda[th][j].op, call[th].op)
    BY DEF Inv, AgendaInv, AloneInv
  <2> HIDE DEF m, n
  <2>4. CASE i <= m
    BY <2>1, <2>2, <2>4
  <2>5. CASE ~(i <= m) /\ i <= m + n
    <3>1. i - m + 1 \in 1 .. n + 1
      BY <2>1, <2>5
    <3> QED BY <2>1, <2>2, <2>3, <2>5, <3>1
  <2>6. CASE ~(i <= m + n)
    <3>1. i - m - n \in 1 .. Len(post) /\ ~(i <= m)
      BY <2>1, <2>6
    <3> QED BY <2>1, <2>2, <2>6, <3>1
  <2> QED BY <2>4, <2>5, <2>6
<1> QED BY <1>2, <1>3 DEF AloneInv, Alone

LEMMA OnlyInItsCall ==
  ASSUME NEW th \in Threads, AloneInv(th)', call' = call
  PROVE  /\ call[th].op # "marginal" => PathInv(th)'
         /\ call[th].op # "delete" => ClearInv(th)'
<1>1. \A i \in DOMAIN agenda'[th] : agenda'[th] # <<>>
  OBVIOUS
<1>2. \A i \in DOMAIN agenda'[th] :
        /\ agenda'[th][i].op = "fill" => call[th].op = "marginal"
        /\ agenda'[th][i].op = "clear" => call[th].op = "delete"
  BY <1>1 DEF AloneInv, Belongs
<1> QED BY <1>2 DEF PathInv, ClearInv

\* The steps that acquire a mutex: they write no cache.
LEMMA AcquireStep ==
  ASSUME Inv, NEW th \in Threads, agenda[th] # <<>>, NEW c \in Cliques, Acquire(th, c),
         NEW pre \in Seq(Item), NEW post \in Seq(Item), Rewritten(th, pre, post),
         \A i \in DOMAIN pre : Belongs(pre[i].op, call[th].op),
         \A i \in DOMAIN pre : Holds(pre[i]) => pre[i].clique = c,
         \A i \in DOMAIN pre : pre[i].op = "unlock" => i = Len(pre) /\ post = <<>>,
         post = <<>> \/ post = <<Do("unlock", c)>>,
         cached' = cached, call' = call, calls' = calls,
         call[th].op = "marginal" => PathInv(th)',
         call[th].op = "delete" => ClearInv(th)'
  PROVE  Inv'
<1>1. TypeOK'
  <2>1. agenda' \in [Threads -> Seq(Item)]
    BY RewrittenFacts DEF Inv
  <2> QED BY <2>1 DEF Inv, TypeOK, Acquire, Item
<1>2. ASSUME NEW u \in Threads \ {th}
      PROVE  AgendaInv(u)'
  <2>1. \A v \in Threads \ {th} : agenda'[v] = agenda[v]
    BY RewrittenFacts DEF Inv
  <2>2. \A d \in Cliques : lock[d] \notin {th, None} => lock'[d] = lock[d]
    BY DEF Acquire, Inv, TypeOK
  <2> QED BY <2>1, <2>2, Others
<1>3. LocksInv(th)'
  BY AcquireKeepsLocks
<1>4. \A i \in DOMAIN post : Belongs(post[i].op, call[th].op)
  <2>1. CASE post = <<>>
    BY <2>1
  <2>2. CASE post = <<Do("unlock", c)>>
    BY <2>2 DEF Do, Belongs
  <2> QED BY <2>1, <2>2
<1>5. AloneInv(th)'
  BY <1>4, CallStaysAlone
<1>6. PathInv(th)' /\ ClearInv(th)'
  BY <1>5, OnlyInItsCall
<1>7. CacheInv'
  BY DEF Inv, CacheInv
<1> QED BY <1>1, <1>2, <1>3, <1>5, <1>6, <1>7 DEF Inv, AgendaInv

LEMMA ThenRewrites ==
  ASSUME TypeOK, NEW th \in Threads, agenda[th] # <<>>, NEW items \in Seq(Item), Then(th, items)
  PROVE  Rewritten(th, items, <<>>)
<1>1. agenda[th] \in Seq(Item)
  BY DEF TypeOK, Item
<1>2. Tail(agenda[th]) \in Seq(Item)
  BY <1>1, HeadTailProperties
<1>3. items \o Tail(agenda[th]) \in Seq(Item)
  BY <1>2, ConcatProperties
<1>4. items \o Tail(agenda[th]) \o <<>> = items \o Tail(agenda[th])
  BY <1>3, ConcatEmptySeq
<1> QED BY <1>4 DEF Then, Rewritten
LEMMA BelongsFacts ==
  ASSUME NEW called
  PROVE  /\ Belongs("unlock", called)
         /\ Belongs("fill", called) <=> called = "marginal"
         /\ Belongs("clear", called) <=> called = "delete"
         /\ Belongs("marginal", called) <=> called = "marginal"
         /\ Belongs("delete", called) <=> called = "delete"
         /\ Belongs("count", called) <=> called = "count"
         /\ Belongs("peek", called) <=> called = "peek"
BY DEF Belongs

LEMMA HeadFacts ==
  ASSUME Inv, NEW th \in Threads, NEW op, At(th, op)
  PROVE  /\ agenda[th] # <<>> /\ 1 \in DOMAIN agenda[th]
         /\ agenda[th][1] = Do(op, Clique(th)) /\ Clique(th) \in Cliques
         /\ Belongs(op, call[th].op)
<1>1. /\ agenda[th] # <<>> /\ 1 \in DOMAIN agenda[th] /\ Head(agenda[th]) = agenda[th][1]
      /\ agenda[th][1] \in Item
  BY AgendaFacts DEF At, Inv
<1>2. agenda[th][1] = Do(op, Clique(th)) /\ Clique(th) \in Cliques
  BY <1>1 DEF At, Clique, Do, Item
<1> QED BY <1>1, <1>2 DEF Inv, AgendaInv, AloneInv, At, Do

LEMMA DropFacts ==
  ASSUME TypeOK, NEW th \in Threads, agenda[th] # <<>>, Then(th, <<>>)
  PROVE  /\ Rewritten(th, <<>>, <<>>) /\ <<>> \in Seq(Item)
         /\ agenda' \in [Threads -> Seq(Item)]
         /\ \A v \in Threads \ {th} : agenda'[v] = agenda[v]
         /\ \A i \in DOMAIN agenda'[th] :
              i \in Nat \ {0} /\ i + 1 \in DOMAIN agenda[th] /\ agenda'[th][i] = agenda[th][i + 1]
         /\ \A i \in DOMAIN agenda[th] :
              i # 1 => i - 1 \in DOMAIN agenda'[th] /\ agenda'[th][i - 1] = agenda[th][i]
<1>1. <<>> \in Seq(Item) /\ Len(<<>>) = 0
  OBVIOUS
<1>2. Rewritten(th, <<>>, <<>>)
  BY <1>1, ThenRewrites
<1> DEFINE n == Len(agenda[th])
           b == agenda'[th]
           e == <<>>
<1> HIDE DEF e
<1>3. /\ agenda' \in [Threads -> Seq(Item)]
      /\ \A v \in Threads \ {th} : agenda'[v] = agenda[v]
      /\ DOMAIN b = 1 .. Len(e) + (n - 1) + Len(e) /\ n \in Nat \ {0}
      /\ \A i \in DOMAIN b : b[i] = IF i <= Len(e) THEN e[i]
           ELSE IF i <= Len(e) + (n - 1) THEN agenda[th][i - Len(e) + 1] ELSE e[i - Len(e) - (n - 1)]
  <2>1. e \in Seq(Item) /\ Rewritten(th, e, e)
    BY <1>1, <1>2 DEF e
  <2>2. /\ agenda' \in [Threads -> Seq(Item)]
        /\ \A v \in Threads \ {th} : agenda'[v] = agenda[v]
        /\ DOMAIN b = 1 .. Len(b) /\ Len(b) = Len(e) + (n - 1) + Len(e) /\ n \in Nat \ {0}
        /\ \A i \in DOMAIN b : b[i] = IF i <= Len(e) THEN e[i]
             ELSE IF i <= Len(e) + (n - 1) THEN agenda[th][i - Len(e) + 1] ELSE e[i - Len(e) - (n - 1)]
    BY <2>1, RewrittenFacts
  <2> QED BY <2>2
<1>4. DOMAIN agenda[th] = 1 .. n
  BY AgendaFacts
<1>5. Len(e) = 0
  BY <1>1 DEF e
<1> HIDE DEF n, b
<1>6. DOMAIN b = 1 .. n - 1
  BY <1>3, <1>5
<1>7. \A i \in DOMAIN b : b[i] = agenda[th][i + 1]
  <2> TAKE i \in DOMAIN b
  <2>1. ~(i <= Len(e)) /\ i <= Len(e) + (n - 1) /\ i - Len(e) + 1 = i + 1
    BY <1>3, <1>5
  <2> QED BY <2>1, <1>3
<1>8. \A i \in DOMAIN b :
        i \in Nat \ {0} /\ i + 1 \in DOMAIN agenda[th] /\ b[i] = agenda[th][i + 1]
  BY <1>3, <1>4, <1>6, <1>7
<1>9. \A i \in DOMAIN agenda[th] : i # 1 => i - 1 \in DOMAIN b /\ b[i - 1] = agenda[th][i]
  <2> TAKE i \in DOMAIN agenda[th]
  <2>1. i \in Nat /\ i >= 1 /\ i <= n /\ (i - 1) + 1 = i
    BY <1>3, <1>4
  <2>2. i # 1 => i - 1 \in 1 .. n - 1
    BY <2>1, <1>3
  <2> QED BY <2>1, <2>2, <1>6, <1>7
<1> QED BY <1>1, <1>2, <1>3, <1>8, <1>9 DEF b

\* The steps under a mutex, or that release one.
LEMMA DropStep ==
  ASSUME Inv, NEW th \in Threads, agenda[th] # <<>>, Then(th, <<>>),
         cached' \in [Cliques -> SUBSET (Cliques \cup {None})],
         lock' \in [Cliques -> Threads \cup {None}],
         call' = call, calls' = calls,
         \A c \in Cliques : lock[c] \notin {th, None} => lock'[c] = lock[c],
         \A i \in DOMAIN agenda[th] : 
           i # 1 /\ Holds(agenda[th][i]) => lock'[agenda[th][i].clique] = th,
         (\E c \in Cliques : cached[c] # Absent /\ cached'[c] = Absent) => call[th].op = "delete",
         call[th].op = "marginal" => PathInv(th)',
         call[th].op = "delete" => ClearInv(th)',
         CacheInv'
  PROVE  Inv'
<1>1. /\ Rewritten(th, <<>>, <<>>) /\ <<>> \in Seq(Item)
      /\ agenda' \in [Threads -> Seq(Item)]
      /\ \A v \in Threads \ {th} : agenda'[v] = agenda[v]
      /\ \A i \in DOMAIN agenda'[th] :
           i \in Nat \ {0} /\ i + 1 \in DOMAIN agenda[th] /\ agenda'[th][i] = agenda[th][i + 1]
  BY DropFacts DEF Inv
<1>2. TypeOK'
  BY <1>1 DEF Inv, TypeOK, Item
<1>3. \A u \in Threads \ {th} : AgendaInv(u)'
  BY <1>1, Others
<1>4. AloneInv(th)'
  <2> DEFINE e == <<>>
  <2>1. DOMAIN e = {}
    OBVIOUS
  <2> HIDE DEF e
  <2>2. e \in Seq(Item) /\ Rewritten(th, e, e)
    BY <1>1 DEF e
  <2> QED BY <2>1, <2>2, CallStaysAlone
<1>5. PathInv(th)' /\ ClearInv(th)'
  BY <1>4, OnlyInItsCall
<1>6. LocksInv(th)'
  <2>1. ASSUME NEW i \in DOMAIN agenda'[th], Holds(agenda'[th][i])
        PROVE  lock'[agenda'[th][i].clique] = th
    <3>1. /\ i + 1 # 1 /\ i + 1 \in DOMAIN agenda[th]
          /\ agenda'[th][i] = agenda[th][i + 1]
      BY <1>1
    <3> QED BY <2>1, <3>1
  <2>2. ASSUME NEW i \in DOMAIN agenda'[th], NEW j \in DOMAIN agenda'[th],
               agenda'[th][i].op = "unlock", j > i, Holds(agenda'[th][j])
        PROVE  agenda'[th][j].clique # agenda'[th][i].clique
    <3>1. /\ i + 1 \in DOMAIN agenda[th] /\ agenda'[th][i] = agenda[th][i + 1]
          /\ j + 1 \in DOMAIN agenda[th] /\ agenda'[th][j] = agenda[th][j + 1]
          /\ j + 1 > i + 1
      BY <1>1, <2>2
    <3> QED BY <2>2, <3>1 DEF Inv, AgendaInv, LocksInv
  <2> QED BY <2>1, <2>2 DEF LocksInv
<1> QED BY <1>2, <1>3, <1>4, <1>5, <1>6 DEF Inv, AgendaInv
-----------------------------------------------------------------------------
(* Steps *)

LEMMA FillStep ==
  ASSUME Inv, NEW th \in Threads, Fill(th)
  PROVE  Inv'
<1> DEFINE c == Clique(th)
           a == agenda[th]
<1>1. /\ a # <<>> /\ 1 \in DOMAIN a /\ a[1] = Do("fill", c) /\ c \in Cliques
      /\ call[th].op = "marginal"
  <2>1. At(th, "fill")
    BY DEF Fill
  <2>2. /\ a # <<>> /\ 1 \in DOMAIN a /\ a[1] = Do("fill", c) /\ c \in Cliques
        /\ Belongs("fill", call[th].op)
    BY <2>1, HeadFacts
  <2> QED BY <2>2, BelongsFacts
<1>2. /\ cached' = (IF cached[c] = Absent THEN [cached EXCEPT ![c] = Marginal(c)] ELSE cached)
      /\ Then(th, <<>>) /\ lock' = lock /\ call' = call /\ calls' = calls
  BY DEF Fill
<1>3. lock[c] = th
  BY <1>1 DEF Inv, AgendaInv, LocksInv, Do, Holds
<1>4. cached[c] = Absent /\ Parent[c] # None => cached[Parent[c]] # Absent
  BY <1>1 DEF Inv, AgendaInv, PathInv, Do
<1>5. cached[c] = Absent => Marginal(c) = Ancestors[c]
  <2>1. Parent[c] # None => Parent[c] \in Cliques
    BY <1>1, ParentAssumption
  <2> QED BY <1>1, <1>4, <2>1, AncestorsFacts DEF Marginal, Inv, CacheInv
<1> HIDE DEF c
<1>6. /\ cached' \in [Cliques -> SUBSET (Cliques \cup {None})]
      /\ cached'[c] # Absent
      /\ \A d \in Cliques \ {c} : cached'[d] = cached[d]
      /\ cached[c] # Absent => cached'[c] = cached[c]
      /\ cached[c] = Absent => cached'[c] = Ancestors[c]
  BY <1>1, <1>2, <1>5, AncestorsFacts DEF Inv, TypeOK
<1>7. CacheInv'
  <2> SUFFICES ASSUME NEW d \in Cliques, cached'[d] # Absent
               PROVE  /\ cached'[d] = Ancestors[d]
                      /\ Parent[d] # None => cached'[Parent[d]] # Absent
    BY DEF CacheInv
  <2>1. Parent[d] # None => Parent[d] \in Cliques
    BY ParentAssumption
  <2>2. \A e \in Cliques : cached[e] # Absent => cached'[e] # Absent
    BY <1>6
  <2>3. CASE d = c /\ cached[c] = Absent
    BY <2>1, <2>2, <2>3, <1>4, <1>6
  <2>4. CASE ~(d = c /\ cached[c] = Absent)
    <3>1. cached'[d] = cached[d]
      BY <2>4, <1>1, <1>6
    <3> QED BY <2>1, <2>2, <3>1 DEF Inv, CacheInv
  <2> QED BY <2>3, <2>4
<1>8. PathInv(th)'
  <2> DEFINE b == agenda'[th]
  <2>0. /\ \A i \in DOMAIN b : i \in Nat \ {0} /\ i + 1 \in DOMAIN a /\ b[i] = a[i + 1]
        /\ \A i \in DOMAIN a : i # 1 => i - 1 \in DOMAIN b /\ b[i - 1] = a[i]
        /\ DOMAIN a = 1 .. Len(a)
    BY <1>1, <1>2, DropFacts, AgendaFacts DEF Inv
  <2> HIDE DEF b
  <2>1. ASSUME NEW i \in DOMAIN b, b[i].op = "fill",
               cached'[b[i].clique] = Absent, Parent[b[i].clique] # None
        PROVE  LET p == Parent[b[i].clique] IN
               IF i = 1 THEN lock'[p] = th /\ cached'[p] # Absent
               ELSE b[i - 1].op \in {"marginal", "fill"} /\ b[i - 1].clique = p
    <3>1. i \in Nat \ {0} /\ i + 1 \in DOMAIN a /\ b[i] = a[i + 1] /\ i + 1 # 1 /\ (i + 1) - 1 = i
      BY <2>0
    <3>2. b[i].clique \in Cliques
      BY <3>1, AgendaFacts DEF Inv
    <3>3. cached[b[i].clique] = Absent
      BY <2>1, <3>2, <1>6
    <3>4. a[i].op \in {"marginal", "fill"} /\ a[i].clique = Parent[b[i].clique]
      BY <2>1, <3>1, <3>3 DEF Inv, AgendaInv, PathInv
    <3>5. CASE i = 1
      BY <3>4, <3>5, <1>1, <1>2, <1>3, <1>6 DEF Do
    <3>6. CASE i # 1
      <4>1. i \in DOMAIN a
        BY <2>0, <3>1
      <4> QED BY <2>0, <3>4, <3>6, <4>1
    <3> QED BY <3>5, <3>6
  <2> QED BY <2>1 DEF PathInv, b
<1>9. \A i \in DOMAIN a : Holds(a[i]) => lock[a[i].clique] = th
  BY DEF Inv, AgendaInv, LocksInv
<1>10. \A d \in Cliques : cached[d] # Absent => cached'[d] # Absent
  BY <1>6
<1>11. lock' \in [Cliques -> Threads \cup {None}]
  BY <1>2 DEF Inv, TypeOK
<1> QED BY <1>1, <1>2, <1>6, <1>7, <1>8, <1>9, <1>10, <1>11, DropStep

LEMMA ClearStep ==
  ASSUME Inv, NEW th \in Threads, Clear(th)
  PROVE  Inv'
<1> DEFINE c == Clique(th)
           a == agenda[th]
<1>1. /\ a # <<>> /\ 1 \in DOMAIN a /\ a[1] = Do("clear", c) /\ c \in Cliques
      /\ call[th].op = "delete"
  <2>1. At(th, "clear")
    BY DEF Clear
  <2>2. /\ a # <<>> /\ 1 \in DOMAIN a /\ a[1] = Do("clear", c) /\ c \in Cliques
        /\ Belongs("clear", call[th].op)
    BY <2>1, HeadFacts
  <2> QED BY <2>2, BelongsFacts
<1>2. /\ cached' = [cached EXCEPT ![c] = Absent]
      /\ Then(th, <<>>) /\ lock' = lock /\ call' = call /\ calls' = calls
  BY DEF Clear
<1> HIDE DEF c
<1>3. /\ cached' \in [Cliques -> SUBSET (Cliques \cup {None})]
      /\ cached'[c] = Absent
      /\ \A d \in Cliques \ {c} : cached'[d] = cached[d]
  BY <1>1, <1>2 DEF Inv, TypeOK, Absent
<1>4. \A d \in Cliques : Parent[d] = c => cached[d] = Absent
  <2>1. \A d \in Children(c) : cached[d] # Absent => \E j \in 1 .. 1 - 1 : TRUE
    BY <1>1 DEF Inv, AgendaInv, ClearInv, Do
  <2> QED BY <2>1 DEF Children
<1>5. CacheInv'
  BY <1>1, <1>3, <1>4, ParentAssumption DEF Inv, CacheInv
<1>6. ClearInv(th)'
  <2> DEFINE b == agenda'[th]
  <2>0. /\ \A i \in DOMAIN b : i \in Nat \ {0} /\ i + 1 \in DOMAIN a /\ b[i] = a[i + 1]
        /\ \A i \in DOMAIN a : i # 1 => i - 1 \in DOMAIN b /\ b[i - 1] = a[i]
        /\ DOMAIN a = 1 .. Len(a)
    BY <1>1, <1>2, DropFacts, AgendaFacts DEF Inv
  <2> HIDE DEF b
  <2> SUFFICES ASSUME NEW i \in DOMAIN b, b[i].op = "clear",
                      NEW d \in Children(b[i].clique), cached'[d] # Absent
               PROVE  \E j \in 1 .. i - 1 : b[j].op \in {"delete", "clear"} /\ b[j].clique = d
    BY DEF ClearInv, b, Children
  <2>1. i \in Nat \ {0} /\ i + 1 \in DOMAIN a /\ b[i] = a[i + 1] /\ (i + 1) - 1 = i
    BY <2>0
  <2>2. d \in Cliques /\ d # c /\ cached[d] # Absent
    BY <1>3 DEF Children
  <2>3. PICK j \in 1 .. i : a[j].op \in {"delete", "clear"} /\ a[j].clique = d
    BY <2>1, <2>2 DEF Inv, AgendaInv, ClearInv
  <2>4. j # 1
    BY <2>2, <2>3, <1>1 DEF Do
  <2>5. j \in DOMAIN a /\ j - 1 \in 1 .. i - 1
    BY <2>0, <2>1, <2>3, <2>4
  <2>6. b[j - 1] = a[j]
    BY <2>0, <2>4, <2>5
  <2> QED BY <2>3, <2>5, <2>6
<1>7. \A i \in DOMAIN a : Holds(a[i]) => lock[a[i].clique] = th
  BY DEF Inv, AgendaInv, LocksInv
<1>8. lock' \in [Cliques -> Threads \cup {None}]
  BY <1>2 DEF Inv, TypeOK
<1> QED BY <1>1, <1>2, <1>3, <1>5, <1>6, <1>7, <1>8, DropStep
LEMMA UnlockStep ==
  ASSUME Inv, NEW th \in Threads, Unlock(th)
  PROVE  Inv'
<1> DEFINE c == Clique(th)
           a == agenda[th]
<1>1. a # <<>> /\ 1 \in DOMAIN a /\ a[1] = Do("unlock", c) /\ c \in Cliques
  <2>1. At(th, "unlock")
    BY DEF Unlock
  <2> QED BY <2>1, HeadFacts
<1>2. /\ lock' = [lock EXCEPT ![c] = None]
      /\ Then(th, <<>>) /\ cached' = cached /\ call' = call /\ calls' = calls
  BY DEF Unlock
<1> HIDE DEF c
<1>3. lock[c] = th
  BY <1>1 DEF Inv, AgendaInv, LocksInv, Do, Holds
<1>4. /\ lock' \in [Cliques -> Threads \cup {None}]
      /\ \A d \in Cliques \ {c} : lock'[d] = lock[d]
  BY <1>1, <1>2 DEF Inv, TypeOK
<1>5. \A i \in DOMAIN a : i # 1 /\ Holds(a[i]) => lock'[a[i].clique] = th
  <2> TAKE i \in DOMAIN a
  <2>1. i # 1 => i > 1
    BY AgendaFacts DEF Inv
  <2>2. a[i].clique \in Cliques
    BY AgendaFacts DEF Inv
  <2>3. i # 1 /\ Holds(a[i]) => a[i].clique # c /\ lock[a[i].clique] = th
    BY <1>1, <2>1 DEF Inv, AgendaInv, LocksInv, Do
  <2> QED BY <1>4, <2>2, <2>3
<1> DEFINE b == agenda'[th]
<1>6. /\ \A i \in DOMAIN b : i \in Nat \ {0} /\ i + 1 \in DOMAIN a /\ b[i] = a[i + 1]
      /\ \A i \in DOMAIN a : i # 1 => i - 1 \in DOMAIN b /\ b[i - 1] = a[i]
      /\ DOMAIN a = 1 .. Len(a)
  BY <1>1, <1>2, DropFacts, AgendaFacts DEF Inv
<1> HIDE DEF b
<1>7. PathInv(th)'
  <2> SUFFICES ASSUME NEW i \in DOMAIN b, b[i].op = "fill",
                      cached[b[i].clique] = Absent, Parent[b[i].clique] # None
               PROVE  /\ i # 1 
                      /\ b[i - 1].op \in {"marginal", "fill"}
                      /\ b[i - 1].clique = Parent[b[i].clique]
    BY <1>2 DEF PathInv, b
  <2>1. i \in Nat \ {0} /\ i + 1 \in DOMAIN a /\ b[i] = a[i + 1] /\ i + 1 # 1 /\ (i + 1) - 1 = i
    BY <1>6
  <2>2. a[i].op \in {"marginal", "fill"} /\ a[i].clique = Parent[b[i].clique]
    BY <2>1 DEF Inv, AgendaInv, PathInv
  <2>3. i # 1
    BY <2>2, <1>1 DEF Do
  <2>4. i \in DOMAIN a
    BY <2>1, <1>6
  <2> QED BY <1>6, <2>2, <2>3, <2>4
<1>8. ClearInv(th)'
  <2> SUFFICES ASSUME NEW i \in DOMAIN b, b[i].op = "clear",
                      NEW d \in Children(b[i].clique), cached[d] # Absent
               PROVE  \E j \in 1 .. i - 1 : b[j].op \in {"delete", "clear"} /\ b[j].clique = d
    BY <1>2 DEF ClearInv, b, Children
  <2>1. i \in Nat \ {0} /\ i + 1 \in DOMAIN a /\ b[i] = a[i + 1] /\ (i + 1) - 1 = i
    BY <1>6
  <2>2. PICK j \in 1 .. i : a[j].op \in {"delete", "clear"} /\ a[j].clique = d
    BY <2>1 DEF Inv, AgendaInv, ClearInv
  <2>3. j # 1
    BY <2>2, <1>1 DEF Do
  <2>4. j \in DOMAIN a /\ j - 1 \in 1 .. i - 1
    BY <1>6, <2>1, <2>2, <2>3
  <2>5. b[j - 1] = a[j]
    BY <1>6, <2>3, <2>4
  <2> QED BY <2>2, <2>4, <2>5
<1>9. CacheInv'
  BY <1>2 DEF Inv, CacheInv
<1>10. \A d \in Cliques : lock[d] \notin {th, None} => lock'[d] = lock[d]
  BY <1>3, <1>4
<1>11. cached' \in [Cliques -> SUBSET (Cliques \cup {None})]
  BY <1>2 DEF Inv, TypeOK
<1> QED BY <1>1, <1>2, <1>4, <1>5, <1>7, <1>8, <1>9, <1>10, <1>11, DropStep

LEMMA ExtendFacts ==
  ASSUME NEW l \in Seq(Item), NEW it \in Item
  PROVE  /\ l \o <<it>> \in Seq(Item) /\ Len(l) \in Nat
         /\ DOMAIN l = 1 .. Len(l) /\ DOMAIN (l \o <<it>>) = 1 .. Len(l) + 1
         /\ Len(l \o <<it>>) = Len(l) + 1
         /\ \A i \in 1 .. Len(l) : (l \o <<it>>)[i] = l[i]
         /\ (l \o <<it>>)[Len(l) + 1] = it
<1> DEFINE q == <<it>>
           n == Len(l)
           r == l \o q
<1>1. q \in Seq(Item) /\ Len(q) = 1 /\ q[1] = it
  OBVIOUS
<1> HIDE DEF q
<1>2. n \in Nat /\ DOMAIN l = 1 .. n
  BY LenProperties
<1>3. /\ r \in Seq(Item) /\ Len(r) = Len(l) + Len(q)
      /\ \A i \in 1 .. Len(l) + Len(q) : r[i] = IF i <= Len(l) THEN l[i] ELSE q[i - Len(l)]
  BY <1>1, ConcatProperties
<1>4. DOMAIN r = 1 .. Len(r)
  BY <1>3, LenProperties
<1> HIDE DEF r, n
<1>5. Len(r) = n + 1 /\ \A i \in 1 .. n + 1 : r[i] = IF i <= n THEN l[i] ELSE q[i - n]
  BY <1>1, <1>3 DEF n
<1>6. (n + 1) - n = 1 /\ ~(n + 1 <= n) /\ n + 1 \in 1 .. n + 1
  BY <1>2
<1>7. r[n + 1] = it
  BY <1>1, <1>5, <1>6
<1>8. \A i \in 1 .. n : r[i] = l[i]
  BY <1>2, <1>5
<1> QED BY <1>2, <1>3, <1>4, <1>5, <1>7, <1>8 DEF q, r, n

LEMMA EmptyAgenda == <<>> \in Seq(Item) /\ Len(<<>>) = 0 /\ DOMAIN <<>> = {}
OBVIOUS

LEMMA EachChild ==
  ASSUME NEW c \in Cliques, NEW op \in {"count", "delete"}
  PROVE  /\ Each(op, Listed(Children(c))) \in Seq(Item)
         /\ \A i \in DOMAIN Each(op, Listed(Children(c))) : Each(op, Listed(Children(c)))[i].op = op
         /\ \A d \in Children(c) :
              \E i \in DOMAIN Each(op, Listed(Children(c))) : 
                Each(op, Listed(Children(c)))[i] = Do(op, d)
<1> DEFINE l == Listed(Children(c))
           k == Each(op, l)
<1>1. Children(c) \in SUBSET Cliques
  BY DEF Children
<1>2. l \in Seq(Cliques) /\ \A d \in Children(c) : \E i \in DOMAIN l : l[i] = d
  BY <1>1, ListedFacts
<1> HIDE DEF l
<1>3. k \in Seq(Item) /\ Len(k) = Len(l) /\ \A i \in 1 .. Len(l) : k[i] = Do(op, l[i])
  BY <1>2, EachFacts
<1> HIDE DEF k
<1>4. DOMAIN k = 1 .. Len(l) /\ DOMAIN l = 1 .. Len(l)
  BY <1>2, <1>3, LenProperties
<1>5. \A i \in DOMAIN k : k[i].op = op
  BY <1>3, <1>4 DEF Do
<1>6. \A d \in Children(c) : \E i \in DOMAIN k : k[i] = Do(op, d)
  BY <1>2, <1>3, <1>4
<1> QED BY <1>3, <1>5, <1>6 DEF k, l

LEMMA PeekStep ==
  ASSUME Inv, NEW th \in Threads, Peek(th)
  PROVE  Inv'
<1> DEFINE c == Clique(th)
           it == Do("unlock", c)
           pre == <<it>>
<1>1. agenda[th] # <<>> /\ c \in Cliques /\ call[th].op = "peek"
  <2>1. At(th, "peek")
    BY DEF Peek
  <2>2. agenda[th] # <<>> /\ c \in Cliques /\ Belongs("peek", call[th].op)
    BY <2>1, HeadFacts
  <2> QED BY <2>2, BelongsFacts
<1>2. it \in Item /\ it.op = "unlock" /\ it.clique = c
  BY <1>1 DEF Do, Item
<1>3. Acquire(th, c) /\ Then(th, pre) /\ cached' = cached /\ call' = call /\ calls' = calls
  BY DEF Peek
<1> HIDE DEF c, it
<1>4. pre \in Seq(Item) /\ Len(pre) = 1 /\ \A i \in DOMAIN pre : i = 1 /\ pre[i] = it
  BY <1>2
<1> HIDE DEF pre
<1>5. Rewritten(th, pre, <<>>)
  BY <1>1, <1>3, <1>4, ThenRewrites DEF Inv
<1>6. \A i \in DOMAIN pre :
        /\ Belongs(pre[i].op, call[th].op)
        /\ Holds(pre[i]) => pre[i].clique = c
        /\ pre[i].op = "unlock" => i = Len(pre)
  BY <1>2, <1>4, BelongsFacts
<1> DEFINE e == <<>>
<1>7. e \in Seq(Item) /\ Rewritten(th, pre, e) /\ e = <<>>
  BY <1>5, EmptyAgenda
<1> HIDE DEF e
<1> QED BY <1>1, <1>3, <1>4, <1>6, <1>7, AcquireStep, ZenonT(60)

LEMMA CountStep ==
  ASSUME Inv, NEW th \in Threads, Count(th)
  PROVE  Inv'
<1> DEFINE c == Clique(th)
           it == Do("unlock", c)
           l == IF cached[c] = Absent THEN <<>> ELSE Each("count", Listed(Children(c)))
           pre == l \o <<it>>
<1>1. agenda[th] # <<>> /\ c \in Cliques /\ call[th].op = "count"
  <2>1. At(th, "count")
    BY DEF Count
  <2>2. agenda[th] # <<>> /\ c \in Cliques /\ Belongs("count", call[th].op)
    BY <2>1, HeadFacts
  <2> QED BY <2>2, BelongsFacts
<1>2. it \in Item /\ it.op = "unlock" /\ it.clique = c
  BY <1>1 DEF Do, Item
<1>3. Acquire(th, c) /\ Then(th, pre) /\ cached' = cached /\ call' = call /\ calls' = calls
  BY DEF Count
<1>4. l \in Seq(Item) /\ \A i \in DOMAIN l : l[i].op = "count"
  <2> DEFINE k == Each("count", Listed(Children(c)))
  <2>2. k \in Seq(Item) /\ \A i \in DOMAIN k : k[i].op = "count"
    BY <1>1, EachChild
  <2> HIDE DEF k
  <2>4. l = <<>> \/ l = k
    BY DEF k
  <2> HIDE DEF l
  <2> QED BY <2>2, <2>4, EmptyAgenda
<1> HIDE DEF c, it, l
<1>5. /\ pre \in Seq(Item) /\ Len(pre) = Len(l) + 1 /\ Len(l) \in Nat
      /\ DOMAIN l = 1 .. Len(l) /\ DOMAIN pre = 1 .. Len(l) + 1
      /\ \A i \in 1 .. Len(l) : pre[i] = l[i]
      /\ pre[Len(l) + 1] = it
  BY <1>2, <1>4, ExtendFacts
<1> HIDE DEF pre
<1>6. Rewritten(th, pre, <<>>)
  BY <1>1, <1>3, <1>5, ThenRewrites DEF Inv
<1>7. \A i \in DOMAIN pre : pre[i].op = "count" \/ (i = Len(pre) /\ pre[i] = it)
  <2> TAKE i \in DOMAIN pre
  <2>1. i \in 1 .. Len(l) \/ i = Len(l) + 1
    <3>1. i \in 1 .. Len(l) + 1 /\ Len(l) \in Nat
      BY <1>5
    <3> QED BY <3>1
  <2>2. CASE i \in 1 .. Len(l)
    BY <2>2, <1>4, <1>5
  <2>3. CASE i = Len(l) + 1
    BY <2>3, <1>5
  <2> QED BY <2>1, <2>2, <2>3
<1>8. \A i \in DOMAIN pre :
        /\ Belongs(pre[i].op, call[th].op)
        /\ Holds(pre[i]) => pre[i].clique = c
        /\ pre[i].op = "unlock" => i = Len(pre)
  BY <1>1, <1>2, <1>7, BelongsFacts DEF Holds
<1> DEFINE e == <<>>
<1>9. e \in Seq(Item) /\ Rewritten(th, pre, e) /\ e = <<>>
  BY <1>6, EmptyAgenda
<1> HIDE DEF e
<1> QED BY <1>1, <1>3, <1>5, <1>8, <1>9, AcquireStep, ZenonT(60)
LEMMA DeletionFacts ==
  ASSUME NEW c \in Cliques
  PROVE  /\ Deletion(c) \in Seq(Item)
         /\ \A i \in DOMAIN Deletion(c) : Deletion(c)[i].op \in {"delete", "clear"}
         /\ \A i \in DOMAIN Deletion(c) : Deletion(c)[i].op = "clear" =>
              /\ Deletion(c)[i].clique = c
              /\ \A d \in Children(c) : \E j \in 1 .. i - 1 : Deletion(c)[j] = Do("delete", d)
         /\ \E i \in DOMAIN Deletion(c) : Deletion(c)[i] = Do("clear", c)
<1> DEFINE k == Each("delete", Listed(Children(c)))
           it == Do("clear", c)
           l == k \o <<it>>
<1>1. /\ k \in Seq(Item) /\ \A i \in DOMAIN k : k[i].op = "delete"
      /\ \A d \in Children(c) : \E i \in DOMAIN k : k[i] = Do("delete", d)
  BY EachChild
<1>2. it \in Item /\ it.op = "clear" /\ it.clique = c
  BY DEF Do, Item
<1>3. l = Deletion(c)
  BY DEF Deletion
<1> HIDE DEF k, it
<1>4. /\ l \in Seq(Item) /\ Len(k) \in Nat
      /\ DOMAIN k = 1 .. Len(k) /\ DOMAIN l = 1 .. Len(k) + 1
      /\ \A i \in 1 .. Len(k) : l[i] = k[i]
      /\ l[Len(k) + 1] = it
  BY <1>1, <1>2, ExtendFacts
<1> HIDE DEF l
<1>5. \A i \in DOMAIN l : i \in 1 .. Len(k) \/ i = Len(k) + 1
  <2> TAKE i \in DOMAIN l
  <2>1. i \in 1 .. Len(k) + 1 /\ Len(k) \in Nat
    BY <1>4
  <2> QED BY <2>1
<1>6. ASSUME NEW i \in DOMAIN l
      PROVE  /\ l[i].op \in {"delete", "clear"}
             /\ l[i].op = "clear" => i = Len(k) + 1
  <2>1. CASE i \in 1 .. Len(k)
    BY <2>1, <1>1, <1>4
  <2>2. CASE i = Len(k) + 1
    BY <2>2, <1>2, <1>4
  <2> QED BY <2>1, <2>2, <1>5
<1>7. \A d \in Children(c) : \E j \in 1 .. (Len(k) + 1) - 1 : l[j] = Do("delete", d)
  <2>1. (Len(k) + 1) - 1 = Len(k)
    BY <1>4
  <2> QED BY <2>1, <1>1, <1>4
<1>8. Len(k) + 1 \in DOMAIN l
  <2>1. Len(k) \in Nat /\ DOMAIN l = 1 .. Len(k) + 1
    BY <1>4
  <2> QED BY <2>1
<1>9. \E i \in DOMAIN l : l[i] = Do("clear", c)
  BY <1>4, <1>8 DEF it
<1>10. \A i \in DOMAIN l : l[i].op = "clear" =>
         l[i].clique = c /\ \A d \in Children(c) : \E j \in 1 .. i - 1 : l[j] = Do("delete", d)
  BY <1>2, <1>4, <1>6, <1>7
<1> QED BY <1>3, <1>4, <1>6, <1>9, <1>10

LEMMA DeleteStep ==
  ASSUME Inv, NEW th \in Threads, Delete(th)
  PROVE  Inv'
<1> DEFINE a == agenda[th]
           c == Clique(th)
           it == Do("unlock", c)
           l == IF cached[c] = Absent THEN <<>> ELSE Deletion(c)
           pre == l \o <<it>>
<1>1. a # <<>> /\ 1 \in DOMAIN a /\ a[1] = Do("delete", c) /\ c \in Cliques /\ call[th].op = "delete"
  <2>1. At(th, "delete")
    BY DEF Delete
  <2>2. /\ a # <<>> /\ 1 \in DOMAIN a /\ a[1] = Do("delete", c) /\ c \in Cliques
        /\ Belongs("delete", call[th].op)
    BY <2>1, HeadFacts
  <2> QED BY <2>2, BelongsFacts
<1>2. it \in Item /\ it.op = "unlock" /\ it.clique = c
  BY <1>1 DEF Do, Item
<1>3. Acquire(th, c) /\ Then(th, pre) /\ cached' = cached /\ call' = call /\ calls' = calls
  BY DEF Delete
<1>4. /\ l \in Seq(Item)
      /\ \A i \in DOMAIN l : l[i].op \in {"delete", "clear"}
      /\ \A i \in DOMAIN l : l[i].op = "clear" =>
           /\ l[i].clique = c
           /\ \A d \in Children(c) : \E j \in 1 .. i - 1 : l[j] = Do("delete", d)
      /\ cached[c] # Absent => \E i \in DOMAIN l : l[i] = Do("clear", c)
  <2>1. CASE cached[c] = Absent
    BY <2>1, EmptyAgenda
  <2>2. CASE cached[c] # Absent
    <3>1. l = Deletion(c)
      BY <2>2
    <3> HIDE DEF l
    <3> QED BY <1>1, <3>1, DeletionFacts
  <2> QED BY <2>1, <2>2
<1> HIDE DEF c, it, l
<1>5. /\ pre \in Seq(Item) /\ Len(pre) = Len(l) + 1 /\ Len(l) \in Nat
      /\ DOMAIN l = 1 .. Len(l) /\ DOMAIN pre = 1 .. Len(l) + 1
      /\ \A i \in 1 .. Len(l) : pre[i] = l[i]
      /\ pre[Len(l) + 1] = it
  BY <1>2, <1>4, ExtendFacts
<1> HIDE DEF pre
<1>6. Rewritten(th, pre, <<>>)
  BY <1>1, <1>3, <1>5, ThenRewrites DEF Inv
<1>7. \A i \in DOMAIN pre : (i \in DOMAIN l /\ pre[i] = l[i]) \/ (i = Len(pre) /\ pre[i] = it)
  <2> TAKE i \in DOMAIN pre
  <2>1. i \in 1 .. Len(l) + 1 /\ Len(l) \in Nat
    BY <1>5
  <2>2. i \in 1 .. Len(l) \/ i = Len(l) + 1
    BY <2>1
  <2> QED BY <2>2, <1>5
<1>8. \A i \in DOMAIN pre :
        /\ Belongs(pre[i].op, call[th].op)
        /\ Holds(pre[i]) => pre[i].clique = c
        /\ pre[i].op = "unlock" => i = Len(pre)
  <2> TAKE i \in DOMAIN pre
  <2>1. CASE i \in DOMAIN l /\ pre[i] = l[i]
    <3>1. pre[i].op \in {"delete", "clear"} /\ (pre[i].op = "clear" => pre[i].clique = c)
      BY <2>1, <1>4
    <3>2. Belongs(pre[i].op, call[th].op)
      BY <3>1, <1>1, BelongsFacts
    <3> QED BY <3>1, <3>2 DEF Holds
  <2>2. CASE i = Len(pre) /\ pre[i] = it
    BY <2>2, <1>2, BelongsFacts
  <2> QED BY <2>1, <2>2, <1>7
<1> DEFINE e == <<>>
<1>9. e \in Seq(Item) /\ Rewritten(th, pre, e) /\ e = <<>> /\ Len(e) = 0
  BY <1>6, EmptyAgenda
<1> HIDE DEF e
<1> DEFINE b == agenda'[th]
           m == Len(pre)
           n == Len(a) - 1
<1>10. /\ m \in Nat /\ n \in Nat /\ DOMAIN b = 1 .. m + n /\ DOMAIN a = 1 .. n + 1
       /\ DOMAIN pre = 1 .. m
       /\ \A i \in 1 .. m : i \in DOMAIN b /\ b[i] = pre[i]
       /\ \A i \in m + 1 .. m + n : b[i] = a[i - m + 1]
  <2>1. /\ DOMAIN b = 1 .. Len(b) /\ Len(b) = m + n + Len(e) /\ m \in Nat /\ n \in Nat
        /\ \A i \in DOMAIN b : b[i] =
              IF i <= m THEN pre[i] ELSE IF i <= m + n THEN a[i - m + 1] ELSE e[i - m - n]
    <3>1. TypeOK /\ pre \in Seq(Item) /\ e \in Seq(Item) /\ a # <<>> /\ Rewritten(th, pre, e)
      BY <1>1, <1>5, <1>9 DEF Inv
    <3> HIDE DEF e
    <3> QED BY <3>1, RewrittenFacts
  <2>2. DOMAIN a = 1 .. n + 1 /\ DOMAIN pre = 1 .. m
    BY <1>5, AgendaFacts DEF Inv
  <2> HIDE DEF b, m, n
  <2>3. DOMAIN b = 1 .. m + n
    BY <2>1, <1>9
  <2>4. \A i \in 1 .. m : i \in DOMAIN b /\ b[i] = pre[i]
    BY <2>1, <2>3
  <2>5. \A i \in m + 1 .. m + n : i \in DOMAIN b /\ ~(i <= m) /\ i <= m + n
    BY <2>1, <2>3
  <2> QED BY <2>1, <2>2, <2>3, <2>4, <2>5
<1> HIDE DEF b, n
<1>11. ClearInv(th)'
  <2> SUFFICES ASSUME NEW i \in DOMAIN b, b[i].op = "clear",
                      NEW d \in Children(b[i].clique), cached[d] # Absent
               PROVE  \E j \in 1 .. i - 1 : b[j].op \in {"delete", "clear"} /\ b[j].clique = d
    BY <1>3 DEF ClearInv, b, Children
  <2>0. i \in Nat \ {0} /\ i <= m + n /\ m \in Nat /\ n \in Nat
    BY <1>10
  <2>1. CASE i <= m
    <3>1. i \in DOMAIN pre /\ b[i] = pre[i]
      BY <2>0, <2>1, <1>10
    <3>2. i \in DOMAIN l /\ pre[i] = l[i]
      BY <3>1, <1>2, <1>7
    <3>3. l[i].clique = c /\ d \in Children(c)
      BY <3>1, <3>2, <1>4
    <3>4. PICK j \in 1 .. i - 1 : l[j] = Do("delete", d)
      BY <3>1, <3>2, <3>3, <1>4
    <3>5. j \in 1 .. Len(l) /\ j \in 1 .. m
      <4>1. i \in 1 .. Len(l) /\ Len(l) \in Nat
        BY <3>2, <1>5
      <4> QED BY <4>1, <2>0, <2>1, <3>4
    <3>6. b[j] = Do("delete", d)
      BY <3>4, <3>5, <1>5, <1>10
    <3> QED BY <3>4, <3>6 DEF Do
  <2>2. CASE ~(i <= m)
    <3>1. /\ i \in m + 1 .. m + n /\ b[i] = a[i - m + 1]
          /\ i - m + 1 \in 1 .. n + 1 /\ (i - m + 1) - 1 = i - m
      <4>1. i \in m + 1 .. m + n /\ i - m + 1 \in 1 .. n + 1 /\ (i - m + 1) - 1 = i - m
        BY <2>0, <2>2
      <4> QED BY <4>1, <1>10
    <3>2. PICK k \in 1 .. i - m : a[k].op \in {"delete", "clear"} /\ a[k].clique = d
      <4> DEFINE o == i - m + 1
      <4>1. o \in DOMAIN a /\ b[i] = a[o] /\ o - 1 = i - m
        BY <3>1, <1>10
      <4> HIDE DEF o
      <4>2. \E k \in 1 .. o - 1 : a[k].op \in {"delete", "clear"} /\ a[k].clique = d
        BY <4>1 DEF Inv, AgendaInv, ClearInv
      <4> QED BY <4>1, <4>2
    <3>3. CASE k = 1
      <4>1. d = c /\ cached[c] # Absent
        BY <3>2, <3>3, <1>1 DEF Do
      <4>2. PICK j \in DOMAIN l : l[j] = Do("clear", c)
        BY <4>1, <1>4
      <4>3. j \in 1 .. m /\ j \in 1 .. i - 1
        <5>1. j \in 1 .. Len(l) /\ Len(l) \in Nat /\ m = Len(l) + 1
          BY <4>2, <1>5
        <5> QED BY <5>1, <2>0, <2>2
      <4>4. b[j] = Do("clear", c)
        BY <4>2, <4>3, <1>5, <1>10
      <4> QED BY <4>1, <4>3, <4>4 DEF Do
    <3>4. CASE k # 1
      <4>1. /\ k + m - 1 \in 1 .. i - 1 /\ k + m - 1 \in m + 1 .. m + n
            /\ (k + m - 1) - m + 1 = k
        BY <2>0, <2>2, <3>2, <3>4
      <4>2. b[k + m - 1] = a[k]
        BY <4>1, <1>10
      <4> QED BY <3>2, <4>1, <4>2
    <3> QED BY <3>3, <3>4
  <2> QED BY <2>1, <2>2
<1> QED BY <1>1, <1>3, <1>5, <1>8, <1>9, <1>11, AcquireStep, ZenonT(60)
LEMMA ClimbStep ==
  ASSUME Inv, NEW th \in Threads, Climb(th)
  PROVE  Inv'
<1> DEFINE a == agenda[th]
           c == Clique(th)
           it == Do("fill", c)
           up == Do("marginal", Parent[c])
           last == Do("unlock", c)
           l == IF GoesOn(c) THEN <<up>> ELSE <<>>
           pre == l \o <<it>>
           post == <<last>>
<1>1. /\ a # <<>> /\ 1 \in DOMAIN a /\ a[1] = Do("marginal", c) /\ c \in Cliques
      /\ call[th].op = "marginal"
  <2>1. At(th, "marginal")
    BY DEF Climb
  <2>2. /\ a # <<>> /\ 1 \in DOMAIN a /\ a[1] = Do("marginal", c) /\ c \in Cliques
        /\ Belongs("marginal", call[th].op)
    BY <2>1, HeadFacts
  <2> QED BY <2>2, BelongsFacts
<1>2. /\ it \in Item /\ it.op = "fill" /\ it.clique = c
      /\ last \in Item /\ last.op = "unlock" /\ last.clique = c
      /\ up.op = "marginal" /\ up.clique = Parent[c]
  BY <1>1 DEF Do, Item
<1>3. GoesOn(c) => up \in Item
  BY <1>1, ParentAssumption DEF GoesOn, Do, Item
<1>4. /\ Acquire(th, c) /\ cached' = cached /\ call' = call /\ calls' = calls
      /\ Rewritten(th, pre, post)
  BY <1>1 DEF Climb, Rewritten, Inv, TypeOK
<1>5. c \in Cliques /\ cached[c] = Absent /\ Parent[c] # None => GoesOn(c)
  BY DEF GoesOn
<1> HIDE DEF c, it, up, last
<1>6. /\ l \in Seq(Item)
      /\ \A i \in DOMAIN l : i = 1 /\ l[i] = up
      /\ Len(l) \in {0, 1}
  BY <1>3
<1>7. post \in Seq(Item) /\ Len(post) = 1 /\ post[1] = last /\ post # <<>>
  BY <1>2
<1>8. post = <<Do("unlock", c)>>
  BY DEF last
<1> HIDE DEF l, post
<1>9. /\ pre \in Seq(Item) /\ Len(pre) = Len(l) + 1 /\ Len(l) \in Nat
      /\ DOMAIN l = 1 .. Len(l) /\ DOMAIN pre = 1 .. Len(l) + 1
      /\ \A i \in 1 .. Len(l) : pre[i] = l[i]
      /\ pre[Len(l) + 1] = it
  BY <1>2, <1>6, ExtendFacts
<1> HIDE DEF pre
<1>10. \A i \in DOMAIN pre : 
         (i = 1 /\ i # Len(pre) /\ pre[i] = up) \/ (i = Len(pre) /\ pre[i] = it)
  <2> TAKE i \in DOMAIN pre
  <2>1. i \in 1 .. Len(l) + 1 /\ Len(l) \in Nat
    BY <1>9
  <2>2. CASE i \in 1 .. Len(l)
    <3>1. i # Len(l) + 1
      BY <2>1, <2>2
    <3> QED BY <2>2, <3>1, <1>6, <1>9
  <2>3. CASE i = Len(l) + 1
    BY <2>3, <1>9
  <2> QED BY <2>1, <2>2, <2>3
<1>11. \A i \in DOMAIN pre : 
         /\ Belongs(pre[i].op, call[th].op)
         /\ Holds(pre[i]) => pre[i].clique = c
         /\ pre[i].op # "unlock"
  <2> TAKE i \in DOMAIN pre
  <2>1. CASE pre[i] = up
    BY <2>1, <1>1, <1>2, BelongsFacts DEF Holds
  <2>2. CASE pre[i] = it
    BY <2>2, <1>1, <1>2, BelongsFacts
  <2> QED BY <2>1, <2>2, <1>10
<1> DEFINE b == agenda'[th]
           m == Len(pre)
           n == Len(a) - 1
<1>12. /\ m \in Nat \ {0} /\ n \in Nat /\ DOMAIN b = 1 .. m + n + 1 /\ DOMAIN a = 1 .. n + 1
       /\ DOMAIN pre = 1 .. m
       /\ \A i \in 1 .. m : b[i] = pre[i]
       /\ \A i \in m + 1 .. m + n : b[i] = a[i - m + 1]
       /\ b[m + n + 1] = last
  <2>1. /\ DOMAIN b = 1 .. Len(b) /\ Len(b) = m + n + Len(post) /\ m \in Nat /\ n \in Nat
        /\ \A i \in DOMAIN b : b[i] =
              IF i <= m THEN pre[i] ELSE IF i <= m + n THEN a[i - m + 1] ELSE post[i - m - n]
    <3>1. TypeOK /\ pre \in Seq(Item) /\ post \in Seq(Item) /\ a # <<>> /\ Rewritten(th, pre, post)
      BY <1>1, <1>4, <1>7, <1>9 DEF Inv
    <3> QED BY <3>1, RewrittenFacts
  <2>2. DOMAIN a = 1 .. n + 1
    BY AgendaFacts DEF Inv
  <2>3. DOMAIN pre = 1 .. m /\ m # 0
    BY <1>9
  <2> HIDE DEF b, m, n
  <2>4. DOMAIN b = 1 .. m + n + 1
    BY <2>1, <1>7
  <2>5. \A i \in 1 .. m : i \in DOMAIN b /\ i <= m
    BY <2>1, <2>4
  <2>6. \A i \in m + 1 .. m + n : i \in DOMAIN b /\ ~(i <= m) /\ i <= m + n
    BY <2>1, <2>4
  <2>7. /\ m + n + 1 \in DOMAIN b /\ ~(m + n + 1 <= m) /\ ~(m + n + 1 <= m + n)
        /\ m + n + 1 - m - n = 1
    BY <2>1, <2>4
  <2>8. b[m + n + 1] = last
    BY <2>1, <2>7, <1>7
  <2> QED BY <2>1, <2>2, <2>3, <2>4, <2>5, <2>6, <2>8
<1> HIDE DEF b, n
<1>13. PathInv(th)'
  <2> SUFFICES ASSUME NEW i \in DOMAIN b, b[i].op = "fill",
                      cached[b[i].clique] = Absent, Parent[b[i].clique] # None
               PROVE  /\ i # 1
                      /\ b[i - 1].op \in {"marginal", "fill"}
                      /\ b[i - 1].clique = Parent[b[i].clique]
    BY <1>4 DEF PathInv, b
  <2>0. i \in 1 .. m + n + 1 /\ m \in Nat \ {0} /\ n \in Nat
    BY <1>12
  <2>1. CASE i <= m
    <3>1. i \in 1 .. m /\ i \in DOMAIN pre /\ b[i] = pre[i]
      BY <2>0, <2>1, <1>12
    <3>2. i = m /\ b[i] = it
      BY <3>1, <1>2, <1>10
    <3>3. GoesOn(c)
      BY <3>2, <1>1, <1>2, <1>5
    <3>4. Len(l) = 1
      BY <3>3, <1>3 DEF l
    <3>5. m = 2 /\ i - 1 = 1 /\ 1 \in 1 .. m /\ 1 \in DOMAIN pre /\ 1 # m
      BY <3>2, <3>4, <1>9, <1>12
    <3>6. b[1] = up
      BY <3>5, <1>10, <1>12
    <3> QED BY <3>2, <3>5, <3>6, <1>2
  <2>2. CASE ~(i <= m) /\ i <= m + n
    <3> DEFINE k == i - m + 1
    <3>1. /\ i \in m + 1 .. m + n /\ k \in 1 .. n + 1 /\ k # 1 /\ k - 1 = i - m
          /\ i # 1 /\ (i = m + 1 <=> k = 2)
      BY <2>0, <2>2
    <3>2. b[i] = a[k] /\ k \in DOMAIN a
      BY <3>1, <1>12
    <3> HIDE DEF k
    <3>3. a[k - 1].op \in {"marginal", "fill"} /\ a[k - 1].clique = Parent[b[i].clique]
      BY <3>1, <3>2 DEF Inv, AgendaInv, PathInv
    <3>4. CASE i = m + 1
      <4>1. i - 1 = m /\ m \in 1 .. m /\ k - 1 = 1
        BY <2>0, <3>1, <3>4
      <4>2. b[m] = it
        BY <4>1, <1>10, <1>12
      <4>3. Parent[b[i].clique] = c
        BY <3>3, <4>1, <1>1 DEF Do
      <4> QED BY <3>1, <4>1, <4>2, <4>3, <1>2
    <3>5. CASE i # m + 1
      <4>1. i - 1 \in m + 1 .. m + n /\ (i - 1) - m + 1 = k - 1
        BY <2>0, <2>2, <3>1, <3>5
      <4>2. b[i - 1] = a[k - 1]
        BY <4>1, <1>12
      <4> QED BY <3>1, <3>3, <4>2
    <3> QED BY <3>4, <3>5
  <2>3. CASE ~(i <= m + n)
    <3>1. i = m + n + 1
      BY <2>0, <2>3
    <3> QED BY <3>1, <1>2, <1>12
  <2> QED BY <2>1, <2>2, <2>3
<1>14. \A i \in DOMAIN pre : pre[i].op = "unlock" => i = Len(pre) /\ post = <<>>
  BY <1>11
<1>15. call[th].op = "delete" => ClearInv(th)'
  BY <1>1
<1> QED BY <1>1, <1>4, <1>7, <1>8, <1>9, <1>11, <1>13, <1>14, <1>15, AcquireStep

LEMMA CallStep ==
  ASSUME Inv, NEW th \in Threads, Call(th)
  PROVE  Inv'
<1>1. /\ agenda[th] = <<>>
      /\ \A u \in Threads : call[u].op \in Exclusive => agenda[u] = <<>>
      /\ calls' = [calls EXCEPT ![th] = @ + 1] /\ calls[th] < MaxCalls
      /\ cached' = cached /\ lock' = lock
  BY DEF Call
<1>2. PICK op \in Operations, c \in Cliques \cup {None} :
        /\ op \in Exclusive => Alone(th)
        /\ op \in {"marginal", "peek"} <=> c # None
        /\ agenda' = [agenda EXCEPT ![th] =
             IF c = None THEN Each(op, Listed(Roots)) ELSE <<Do(op, c)>>]
        /\ call' = [call EXCEPT ![th] = Do(op, c)]
  BY ParentAssumption DEF Call
<1> DEFINE b == IF c = None THEN Each(op, Listed(Roots)) ELSE <<Do(op, c)>>
<1>3. op \in {"marginal", "peek", "count", "delete"}
  BY OperationsAssumption
<1>4. b \in Seq(Item) /\ \A i \in DOMAIN b : b[i].op = op
  <2>1. CASE c = None
    <3> DEFINE k == Listed(Roots)
               e == Each(op, k)
    <3>1. k \in Seq(Cliques)
      BY ListedFacts DEF Roots
    <3> HIDE DEF k
    <3>2. e \in Seq(Item) /\ Len(e) = Len(k) /\ \A i \in 1 .. Len(k) : e[i] = Do(op, k[i])
      BY <3>1, <1>3, EachFacts
    <3> HIDE DEF e
    <3>3. DOMAIN e = 1 .. Len(k)
      BY <3>2, LenProperties
    <3>4. \A i \in DOMAIN e : e[i].op = op
      BY <3>2, <3>3 DEF Do
    <3> QED BY <2>1, <3>2, <3>4 DEF e, k
  <2>2. CASE c # None
    <3> DEFINE it == Do(op, c)
    <3>1. it \in Item /\ it.op = op
      BY <2>2, <1>3 DEF Do, Item
    <3> HIDE DEF it
    <3>2. b = <<it>>
      BY <2>2 DEF it
    <3> HIDE DEF b
    <3> QED BY <3>1, <3>2
  <2> QED BY <2>1, <2>2
<1> HIDE DEF b
<1>5. /\ agenda' \in [Threads -> Seq(Item)] /\ agenda'[th] = b
      /\ \A u \in Threads \ {th} : agenda'[u] = agenda[u]
      /\ call'[th] = Do(op, c) /\ call'[th].op = op
      /\ \A u \in Threads \ {th} : call'[u] = call[u]
      /\ call' \in [Threads -> [op : Operations \cup {"none"}, clique : Cliques \cup {None}]]
  BY <1>2, <1>4 DEF Inv, TypeOK, Do, b
<1>6. TypeOK'
  <2>1. calls' \in [Threads -> 0 .. MaxCalls]
    BY <1>1, ThreadsAssumption DEF Inv, TypeOK
  <2> QED BY <1>1, <1>5, <2>1 DEF Inv, TypeOK
<1>7. AgendaInv(th)'
  <2>1. AloneInv(th)'
    <3>1. \A i \in DOMAIN b : Belongs(b[i].op, op)
      BY <1>3, <1>4, BelongsFacts
    <3>2. op \in Exclusive => \A u \in Threads \ {th} : agenda'[u] = <<>>
      BY <1>2, <1>5 DEF Alone
    <3> QED BY <1>5, <3>1, <3>2 DEF AloneInv, Alone
  <2>2. \A i \in DOMAIN agenda'[th] : agenda'[th][i].op \notin {"fill", "clear", "unlock"}
    BY <1>3, <1>4, <1>5
  <2>3. LocksInv(th)' /\ PathInv(th)' /\ ClearInv(th)'
    BY <2>2 DEF LocksInv, PathInv, ClearInv, Holds
  <2> QED BY <2>1, <2>3 DEF AgendaInv
<1>8. ASSUME NEW u \in Threads \ {th}
      PROVE  AgendaInv(u)'
  <2>1. CASE agenda[u] = <<>>
    BY <2>1, <1>5 DEF AgendaInv, LocksInv, PathInv, ClearInv, AloneInv
  <2>2. CASE agenda[u] # <<>>
    <3>1. call[u].op \notin Exclusive
      BY <2>2, <1>1
    <3>2. AloneInv(u)'
      BY <3>1, <1>5 DEF Inv, AgendaInv, AloneInv
    <3>3. agenda'[u] = agenda[u] /\ lock' = lock /\ cached' = cached
      BY <1>1, <1>5
    <3>4. LocksInv(u)'
      BY <3>3 DEF Inv, AgendaInv, LocksInv
    <3>5. PathInv(u)'
      BY <3>3 DEF Inv, AgendaInv, PathInv
    <3>6. ClearInv(u)'
      BY <3>3 DEF Inv, AgendaInv, ClearInv
    <3> QED BY <3>2, <3>4, <3>5, <3>6 DEF AgendaInv
  <2> QED BY <2>1, <2>2
<1>9. CacheInv'
  BY <1>1 DEF Inv, CacheInv
<1> QED BY <1>6, <1>7, <1>8, <1>9 DEF Inv
-----------------------------------------------------------------------------
(* Theorems *)

LEMMA InitInv == Init => Inv
<1> SUFFICES ASSUME Init PROVE Inv
  OBVIOUS
<1>1. TypeOK
  BY ThreadsAssumption, EmptyAgenda DEF Init, TypeOK, Absent, NoCall, Do
<1>2. \A th \in Threads : AgendaInv(th)
  BY DEF Init, AgendaInv, LocksInv, PathInv, ClearInv, AloneInv
<1>3. CacheInv
  BY DEF Init, CacheInv
<1> QED BY <1>1, <1>2, <1>3 DEF Inv

LEMMA StepInv == Inv /\ [Next]_vars => Inv'
<1> SUFFICES ASSUME Inv, [Next]_vars PROVE Inv'
  OBVIOUS
<1>1. CASE UNCHANGED vars
  BY <1>1 DEF vars, Inv, TypeOK, AgendaInv, LocksInv, PathInv, ClearInv, AloneInv, Alone, CacheInv
<1>2. ASSUME NEW th \in Threads, Call(th) \/ Work(th)
      PROVE  Inv'
  BY <1>2, CallStep, ClimbStep, FillStep, PeekStep, CountStep, DeleteStep, ClearStep, UnlockStep
     DEF Work
<1> QED BY <1>1, <1>2 DEF Next, Done

\* The inductive invariant: mutexes are held by those who still need them, paths are
\* filled from the top, subtrees are cleared from the bottom, and a deletion is alone.
THEOREM Invariance == Spec => []Inv
BY InitInv, StepInv, PTL DEF Spec

LEMMA InvImpliesCacheIsRight == Inv => CacheIsRight
<1> SUFFICES ASSUME Inv PROVE CacheIsRight
  OBVIOUS
<1>1. FillsUnderLocks
  <2> SUFFICES ASSUME NEW th \in Threads, At(th, "fill")
               PROVE  LET c == Clique(th) IN
                      /\ lock[c] = th
                      /\ Parent[c] # None /\ cached[c] = Absent =>
                           lock[Parent[c]] = th /\ cached[Parent[c]] # Absent
    BY DEF FillsUnderLocks
  <2>1. 1 \in DOMAIN agenda[th] /\ agenda[th][1] = Do("fill", Clique(th))
    BY HeadFacts
  <2> QED BY <2>1 DEF Inv, AgendaInv, LocksInv, PathInv, Do, Holds
<1> QED BY <1>1 DEF Inv, CacheInv, CacheIsRight

\* In every tree, for every number of threads and whatever else may run with what: a
\* cached marginal is right and lies below cached ones, and who fills a cache holds its
\* mutex and that of the filled parent.
THEOREM CachesAreRight == Spec => []CacheIsRight
BY Invariance, InvImpliesCacheIsRight, PTL
=============================================================================
