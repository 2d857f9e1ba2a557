--------------------------- MODULE ForestCountProofs ---------------------------
(***************************************************************************)
(* Proofs about ForestTraversal: what is left to do of a bottom-up         *)
(* traversal, counted.  The counter of a node is the number of children    *)
(* that have not been reported and of calls and jobs that have not reported*)
(* yet; so it never falls below zero, and one only completes a node.       *)
(*                                                                         *)
(* And what follows for a call in which no visitor throws: it visits every *)
(* node, each after the nodes that come before it.                         *)
(***************************************************************************)
EXTENDS ForestOutcomeProofs

(* Where items are *)

\* The places of a sequence that hold an item of S; the places of all agendas and the
\* entries of the queues that do; and how many these are.
Hits(s, S)  == {i \in DOMAIN s : s[i] \in S}
Places(S)   == UNION {{th} \X Hits(agenda[th], S) : th \in Threads}
Posted(S)   == {q \in Queued : q[1].job \in S}
Number(S)   == Cardinality(Places(S)) + Cardinality(Posted(S))
One(x, S)   == IF x \in S THEN 1 ELSE 0

\* A set of numbers that is moved along.
LEMMA Moved ==
  ASSUME NEW A \in SUBSET Int, IsFiniteSet(A), NEW d \in Int, NEW B, B = {i + d : i \in A}
  PROVE  IsFiniteSet(B) /\ Cardinality(B) = Cardinality(A)
<1> DEFINE f == [i \in A |-> i + d]
<1>0. \A i \in A : i + d \in B /\ \A j \in A : i + d = j + d => i = j
  OBVIOUS
<1>1. f \in [A -> B] /\ (\A i, j \in A : f[i] = f[j] => i = j) /\ \A t \in B : \E i \in A : f[i] = t
  BY <1>0
<1> HIDE DEF f
<1>2. f \in Bijection(A, B)
  BY <1>1 DEF Bijection, Injection, Surjection, IsInjective
<1>3. ExistsBijection(A, B)
  BY <1>2 DEF ExistsBijection
<1> QED BY <1>3, FS_Bijection

\* A set whose members are given a name in common.
LEMMA Named ==
  ASSUME NEW A, IsFiniteSet(A), NEW x, NEW B, B = {x} \X A
  PROVE  IsFiniteSet(B) /\ Cardinality(B) = Cardinality(A)
<1> DEFINE f == [i \in A |-> <<x, i>>]
<1>1. f \in [A -> B] /\ (\A i, j \in A : f[i] = f[j] => i = j) /\ \A t \in B : \E i \in A : f[i] = t
  OBVIOUS
<1> HIDE DEF f
<1>2. f \in Bijection(A, B)
  BY <1>1 DEF Bijection, Injection, Surjection, IsInjective
<1>3. ExistsBijection(A, B)
  BY <1>2 DEF ExistsBijection
<1> QED BY <1>3, FS_Bijection

\* Two sets that have nothing in common.
LEMMA Apart ==
  ASSUME NEW A, NEW B, IsFiniteSet(A), IsFiniteSet(B), A \cap B = {}
  PROVE  /\ IsFiniteSet(A \cup B) /\ Cardinality(A \cup B) = Cardinality(A) + Cardinality(B)
         /\ Cardinality(A) \in Nat /\ Cardinality(B) \in Nat
<1>1. IsFiniteSet(A \cup B) /\ Cardinality(A \cup B) = Cardinality(A) + Cardinality(B) - Cardinality(A \cap B)
  BY FS_Union
<1>2. Cardinality(A \cap B) = 0
  BY FS_EmptySet
<1>3. Cardinality(A) \in Nat /\ Cardinality(B) \in Nat
  BY FS_CardinalityType
<1> QED BY <1>1, <1>2, <1>3

LEMMA HitsFinite ==
  ASSUME NEW s \in Seq(Items), NEW S
  PROVE  IsFiniteSet(Hits(s, S)) /\ Cardinality(Hits(s, S)) \in Nat /\ Hits(s, S) \subseteq 1 .. Len(s)
<1>1. DOMAIN s = 1 .. Len(s) /\ Len(s) \in Nat
  BY LenProperties
<1>2. IsFiniteSet(1 .. Len(s))
  BY <1>1, FS_Interval
<1>3. Hits(s, S) \subseteq 1 .. Len(s)
  BY <1>1 DEF Hits
<1> QED BY <1>2, <1>3, FS_Subset, FS_CardinalityType

\* The items of a sequence whose first one is replaced.
LEMMA HitsSpliced ==
  ASSUME NEW pre \in Seq(Items), NEW s \in Seq(Items), s # <<>>, NEW S
  PROVE  Cardinality(Hits(pre \o Tail(s), S)) + One(s[1], S) = Cardinality(Hits(pre, S)) + Cardinality(Hits(s, S))
<1> DEFINE q == pre \o Tail(s)
<1>1. /\ q \in Seq(Items)
      /\ Len(pre) \in Nat /\ Len(s) \in Nat \ {0} /\ Len(q) = Len(pre) + (Len(s) - 1)
      /\ \A i \in 1 .. Len(q) : q[i] = IF i <= Len(pre) THEN pre[i] ELSE s[i - Len(pre) + 1]
  BY Spliced
<1> HIDE DEF q
<1>2. DOMAIN s = 1 .. Len(s) /\ DOMAIN q = 1 .. Len(q) /\ DOMAIN pre = 1 .. Len(pre)
  BY <1>1, LenProperties
<1> DEFINE rest == Hits(s, S) \ {1}
           tail == {i + (Len(pre) - 1) : i \in rest}
<1>3. /\ IsFiniteSet(rest) /\ rest \subseteq 2 .. Len(s)
      /\ Cardinality(rest) + One(s[1], S) = Cardinality(Hits(s, S))
  <2>1. IsFiniteSet(Hits(s, S)) /\ Cardinality(Hits(s, S)) \in Nat /\ Hits(s, S) \subseteq 1 .. Len(s)
    BY HitsFinite
  <2>2. /\ IsFiniteSet(rest)
        /\ Cardinality(rest) = IF 1 \in Hits(s, S) THEN Cardinality(Hits(s, S)) - 1 ELSE Cardinality(Hits(s, S))
    BY <2>1, FS_RemoveElement
  <2>3. 1 \in Hits(s, S) <=> s[1] \in S
    <3>1. 1 \in 1 .. Len(s)
      BY <1>1
    <3> QED BY <1>2, <3>1 DEF Hits
  <2>4. \A i \in rest : i \in 2 .. Len(s)
    BY <1>1, <2>1
  <2> HIDE DEF rest
  <2> QED BY <2>1, <2>2, <2>3, <2>4 DEF One
<1>4. IsFiniteSet(tail) /\ Cardinality(tail) = Cardinality(rest)
  <2>1. rest \in SUBSET Int /\ Len(pre) - 1 \in Int
    BY <1>1, <1>3
  <2> HIDE DEF rest
  <2> QED BY <1>3, <2>1, Moved, ZenonT(60)
<1>5. Hits(q, S) = Hits(pre, S) \cup tail /\ Hits(pre, S) \cap tail = {}
  <2>1. ASSUME NEW i \in Hits(q, S)
        PROVE  i \in Hits(pre, S) \/ i \in tail
    <3>1. i \in 1 .. Len(q) /\ q[i] \in S
      BY <1>2, <2>1 DEF Hits
    <3>2. CASE i <= Len(pre)
      <4>1. i \in 1 .. Len(pre) /\ q[i] = pre[i]
        BY <1>1, <3>1, <3>2
      <4> QED BY <1>2, <3>1, <4>1 DEF Hits
    <3>3. CASE ~(i <= Len(pre))
      <4>1. /\ i - Len(pre) + 1 \in 1 .. Len(s) /\ i - Len(pre) + 1 # 1
            /\ i = (i - Len(pre) + 1) + (Len(pre) - 1)
        BY <1>1, <3>1, <3>3
      <4>2. q[i] = s[i - Len(pre) + 1]
        BY <1>1, <3>1, <3>3
      <4>3. i - Len(pre) + 1 \in rest
        BY <1>2, <3>1, <4>1, <4>2 DEF Hits
      <4> QED BY <4>1, <4>3
    <3> QED BY <3>2, <3>3
  <2>2. ASSUME NEW i \in Hits(pre, S)
        PROVE  i \in Hits(q, S) /\ i <= Len(pre)
    <3>1. i \in 1 .. Len(pre) /\ pre[i] \in S
      BY <1>2, <2>2 DEF Hits
    <3>2. i \in 1 .. Len(q) /\ i <= Len(pre)
      BY <1>1, <3>1
    <3> QED BY <1>1, <1>2, <3>1, <3>2 DEF Hits
  <2>3. ASSUME NEW i \in tail
        PROVE  i \in Hits(q, S) /\ ~(i <= Len(pre))
    <3>1. PICK j \in rest : i = j + (Len(pre) - 1)
      BY <2>3
    <3>2. j \in 2 .. Len(s) /\ s[j] \in S
      BY <1>3, <3>1 DEF Hits
    <3>3. i \in 1 .. Len(q) /\ ~(i <= Len(pre)) /\ i - Len(pre) + 1 = j
      <4> HIDE DEF rest, tail
      <4> QED BY <1>1, <3>1, <3>2
    <3>4. q[i] = s[j]
      BY <1>1, <3>3
    <3> QED BY <1>2, <3>2, <3>3, <3>4 DEF Hits
  <2> HIDE DEF rest, tail
  <2> QED BY <2>1, <2>2, <2>3
<1>6. IsFiniteSet(Hits(pre, S)) /\ Cardinality(Hits(pre, S)) \in Nat
  BY HitsFinite
<1>7. Cardinality(Hits(q, S)) = Cardinality(Hits(pre, S)) + Cardinality(tail)
  <2> HIDE DEF tail
  <2> QED BY <1>4, <1>5, <1>6, Apart
<1>8. Cardinality(rest) \in Nat /\ One(s[1], S) \in Nat
  BY <1>3, FS_CardinalityType DEF One
<1> HIDE DEF rest, tail
<1>9. Cardinality(Hits(q, S)) + One(s[1], S) = Cardinality(Hits(pre, S)) + Cardinality(Hits(s, S))
  BY <1>1, <1>3, <1>4, <1>6, <1>7, <1>8
<1> QED BY <1>9 DEF q

LEMMA PlacesAre ==
  ASSUME NEW S
  PROVE  /\ \A pl : pl \in Places(S) <=> \E u \in Threads : \E i \in Hits(agenda[u], S) : pl = <<u, i>>
         /\ \A pl : pl \in Places(S)' <=> \E u \in Threads : \E i \in Hits(agenda'[u], S) : pl = <<u, i>>
<1>1. \A pl : pl \in Places(S) <=> \E u \in Threads : \E i \in Hits(agenda[u], S) : pl = <<u, i>>
  BY DEF Places
<1>2. Places(S)' = UNION {{u} \X Hits(agenda'[u], S) : u \in Threads}
  BY DEF Places, Hits
<1>3. \A pl : pl \in Places(S)' <=> \E u \in Threads : \E i \in Hits(agenda'[u], S) : pl = <<u, i>>
  BY <1>2
<1> QED BY <1>1, <1>3

LEMMA PlacesFinite ==
  ASSUME agenda \in [Threads -> Seq(Items)], IsFiniteSet(Threads), NEW S
  PROVE  IsFiniteSet(Places(S))
<1> DEFINE f == [u \in Threads |-> {u} \X Hits(agenda[u], S)]
           T == {f[u] : u \in Threads}
<1>1. f \in Surjection(Threads, T)
  BY DEF Surjection
<1>2. IsFiniteSet(T)
  <2> HIDE DEF f, T
  <2> QED BY <1>1, FS_Surjection
<1>3. ASSUME NEW P \in T
      PROVE  IsFiniteSet(P)
  <2>1. PICK u \in Threads : P = {u} \X Hits(agenda[u], S)
    BY <1>3
  <2>2. IsFiniteSet(Hits(agenda[u], S))
    BY HitsFinite
  <2> QED BY <2>1, <2>2, Named
<1>4. IsFiniteSet(UNION T)
  <2> HIDE DEF T
  <2> QED BY <1>2, <1>3, FS_UNION
<1>5. Places(S) = UNION T
  BY DEF Places
<1> QED BY <1>4, <1>5

\* One agenda changes.
LEMMA PlacesChange ==
  ASSUME agenda \in [Threads -> Seq(Items)], IsFiniteSet(Threads),
         NEW th \in Threads, NEW q \in Seq(Items), agenda' = [agenda EXCEPT ![th] = q], NEW S
  PROVE  /\ IsFiniteSet(Places(S)) /\ IsFiniteSet(Places(S)')
         /\ Cardinality(Places(S)') + Cardinality(Hits(agenda[th], S))
              = Cardinality(Hits(q, S)) + Cardinality(Places(S))
<1> DEFINE s == agenda[th]
           here == {th} \X Hits(s, S)
           now  == {th} \X Hits(q, S)
           others == Places(S) \ here
<1>1. s \in Seq(Items)
  OBVIOUS
<1>2. agenda'[th] = q /\ \A u \in Threads : u # th => agenda'[u] = agenda[u]
  OBVIOUS
<1>3. /\ \A pl : pl \in Places(S) <=> \E u \in Threads : \E i \in Hits(agenda[u], S) : pl = <<u, i>>
      /\ \A pl : pl \in Places(S)' <=> \E u \in Threads : \E i \in Hits(agenda'[u], S) : pl = <<u, i>>
      /\ \A pl : pl \in here <=> \E i \in Hits(s, S) : pl = <<th, i>>
      /\ \A pl : pl \in now <=> \E i \in Hits(q, S) : pl = <<th, i>>
  <2>1. \A pl : pl \in here <=> \E i \in Hits(s, S) : pl = <<th, i>>
    OBVIOUS
  <2>2. \A pl : pl \in now <=> \E i \in Hits(q, S) : pl = <<th, i>>
    OBVIOUS
  <2> QED BY <2>1, <2>2, PlacesAre
<1>4. IsFiniteSet(Places(S))
  BY PlacesFinite
<1> HIDE DEF here, now
<1>5. Places(S) = others \cup here /\ others \cap here = {}
  <2>1. ASSUME NEW pl \in here
        PROVE  pl \in Places(S)
    BY <1>3, <2>1
  <2> QED BY <2>1
<1> HIDE DEF s
<1>6. Places(S)' = others \cup now /\ others \cap now = {}
  <2>1. ASSUME NEW pl \in Places(S)'
        PROVE  pl \in others \cup now
    <3>1. PICK u \in Threads : \E i \in Hits(agenda'[u], S) : pl = <<u, i>>
      BY <1>3, <2>1
    <3>2. CASE u = th
      BY <1>2, <1>3, <3>1, <3>2
    <3>3. CASE u # th
      <4>1. pl \in Places(S)
        BY <1>2, <1>3, <3>1, <3>3
      <4>2. pl \notin here
        BY <1>3, <3>1, <3>3
      <4> QED BY <4>1, <4>2
    <3> QED BY <3>2, <3>3
  <2>2. ASSUME NEW pl \in others
        PROVE  pl \in Places(S)' /\ pl \notin now
    <3>1. PICK u \in Threads : \E i \in Hits(agenda[u], S) : pl = <<u, i>>
      BY <1>3, <2>2
    <3>2. u # th
      BY <1>3, <2>2, <3>1 DEF s
    <3> QED BY <1>2, <1>3, <3>1, <3>2
  <2>3. ASSUME NEW pl \in now
        PROVE  pl \in Places(S)'
    BY <1>2, <1>3, <2>3
  <2> HIDE DEF others
  <2> QED BY <2>1, <2>2, <2>3
<1>7. /\ IsFiniteSet(here) /\ Cardinality(here) = Cardinality(Hits(s, S))
      /\ IsFiniteSet(now) /\ Cardinality(now) = Cardinality(Hits(q, S))
  <2>1. IsFiniteSet(Hits(s, S)) /\ IsFiniteSet(Hits(q, S))
    BY <1>1, HitsFinite
  <2> QED BY <2>1, Named DEF here, now
<1>8. IsFiniteSet(others) /\ Cardinality(others) \in Nat
  <2>1. others \subseteq Places(S)
    BY DEF others
  <2> QED BY <1>4, <2>1, FS_Subset, FS_CardinalityType
<1> HIDE DEF others
<1>9. /\ Cardinality(Places(S)) = Cardinality(others) + Cardinality(here)
      /\ IsFiniteSet(Places(S)') /\ Cardinality(Places(S)') = Cardinality(others) + Cardinality(now)
  <2>1. IsFiniteSet(others \cup here) /\ Cardinality(others \cup here) = Cardinality(others) + Cardinality(here)
    BY <1>5, <1>7, <1>8, Apart
  <2>2. IsFiniteSet(others \cup now) /\ Cardinality(others \cup now) = Cardinality(others) + Cardinality(now)
    BY <1>6, <1>7, <1>8, Apart
  <2> QED BY <1>5, <1>6, <2>1, <2>2
<1>10. Cardinality(Hits(s, S)) \in Nat /\ Cardinality(Hits(q, S)) \in Nat
  BY <1>1, HitsFinite
<1>11. PICK a, b, c, d, e : /\ a = Cardinality(Places(S)') /\ b = Cardinality(Places(S)) /\ c = Cardinality(Hits(q, S))
                            /\ d = Cardinality(Hits(s, S)) /\ e = Cardinality(others)
  OBVIOUS
<1>12. d \in Nat /\ c \in Nat /\ e \in Nat /\ b = e + d /\ a = e + c
  BY <1>7, <1>8, <1>9, <1>10, <1>11
<1>13. a + d = c + b
  BY <1>12
<1> QED BY <1>4, <1>9, <1>11, <1>13 DEF s

\* How the number of items of S changes with a step that puts items in front of an agenda.
LEMMA NumberReplaced ==
  ASSUME Assumptions, Inv, NEW th \in Threads, agenda[th] # <<>>,
         NEW items \in Seq(Items), Replace(th, items), jobs' = jobs, NEW S
  PROVE  /\ Number(S) \in Nat /\ Number(S)' \in Nat /\ Cardinality(Hits(items, S)) \in Nat
         /\ Number(S)' + One(Item(th), S) = Cardinality(Hits(items, S)) + Number(S)
<1> DEFINE s == agenda[th]
           q == items \o Tail(s)
<1>1. agenda \in [Threads -> Seq(Items)] /\ IsFiniteSet(Threads) /\ s \in Seq(Items) /\ s # <<>>
  BY Basics DEF Inv, TypeInv
<1>2. Item(th) = s[1]
  <2>1. Head(s) = s[1]
    BY <1>1
  <2> QED BY <2>1 DEF Item
<1>3. agenda' = [agenda EXCEPT ![th] = q]
  BY DEF Replace
<1>4. q \in Seq(Items)
  <2> HIDE DEF s
  <2> QED BY <1>1, Spliced
<1>5. Cardinality(Hits(q, S)) + One(s[1], S) = Cardinality(Hits(items, S)) + Cardinality(Hits(s, S))
  <2> HIDE DEF s
  <2> QED BY <1>1, HitsSpliced
<1> HIDE DEF q
<1>6. /\ IsFiniteSet(Places(S)) /\ IsFiniteSet(Places(S)')
      /\ Cardinality(Places(S)') + Cardinality(Hits(agenda[th], S)) = Cardinality(Hits(q, S)) + Cardinality(Places(S))
  BY <1>1, <1>3, <1>4, PlacesChange
<1>7. IsFiniteSet(Posted(S)) /\ Posted(S)' = Posted(S)
  <2>1. IsFiniteSet(Queued) /\ Posted(S) \subseteq Queued
    BY DEF Inv, CountInv, Posted
  <2>2. Queued' = Queued
    BY DEF Queued
  <2> QED BY <2>1, <2>2, FS_Subset DEF Posted
<1>8. /\ Cardinality(Places(S)) \in Nat /\ Cardinality(Places(S)') \in Nat /\ Cardinality(Posted(S)) \in Nat
      /\ Cardinality(Hits(items, S)) \in Nat /\ Cardinality(Hits(s, S)) \in Nat /\ Cardinality(Hits(q, S)) \in Nat
      /\ One(s[1], S) \in Nat
  BY <1>1, <1>4, <1>6, <1>7, FS_CardinalityType, HitsFinite DEF One
<1> HIDE DEF s
<1>9. PICK a, b, c, d, e, h, o : /\ a = Cardinality(Places(S)') /\ b = Cardinality(Places(S)) /\ c = Cardinality(Hits(q, S))
                                 /\ d = Cardinality(Hits(s, S)) /\ e = Cardinality(Posted(S)) /\ h = Cardinality(Hits(items, S))
                                 /\ o = One(s[1], S)
  OBVIOUS
<1>10. /\ a \in Nat /\ b \in Nat /\ c \in Nat /\ d \in Nat /\ e \in Nat /\ h \in Nat /\ o \in Nat
       /\ c + o = h + d /\ a + d = c + b
  BY <1>5, <1>6, <1>8, <1>9 DEF s
<1>11. a + e \in Nat /\ b + e \in Nat /\ a + e + o = h + (b + e)
  BY <1>10
<1>12. Number(S) = b + e /\ Number(S)' = a + e /\ One(Item(th), S) = o
  BY <1>2, <1>7, <1>9 DEF Number
<1> QED BY <1>9, <1>10, <1>11, <1>12

\* The items of short sequences.
LEMMA HitsOfFew ==
  ASSUME NEW S
  PROVE  /\ Hits(<<>>, S) = {} /\ Cardinality(Hits(<<>>, S)) = 0
         /\ \A x : Cardinality(Hits(<<x>>, S)) = One(x, S)
         /\ \A x, y : Cardinality(Hits(<<x, y>>, S)) = One(x, S) + One(y, S)
<1>1. Hits(<<>>, S) = {}
  BY DEF Hits
<1>2. ASSUME NEW x
      PROVE  Cardinality(Hits(<<x>>, S)) = One(x, S)
  <2>1. Hits(<<x>>, S) = IF x \in S THEN {1} ELSE {}
    BY Singles DEF Hits
  <2> QED BY <2>1, FS_Singleton, FS_EmptySet DEF One
<1>3. ASSUME NEW x, NEW y
      PROVE  Cardinality(Hits(<<x, y>>, S)) = One(x, S) + One(y, S)
  <2> DEFINE a == IF x \in S THEN {1} ELSE {}
             b == IF y \in S THEN {2} ELSE {}
  <2>1. Hits(<<x, y>>, S) = a \cup b /\ a \cap b = {}
    BY Singles DEF Hits
  <2>2. IsFiniteSet(a) /\ Cardinality(a) = One(x, S) /\ IsFiniteSet(b) /\ Cardinality(b) = One(y, S)
    BY FS_Singleton, FS_EmptySet DEF One
  <2> HIDE DEF a, b
  <2> QED BY <2>1, <2>2, Apart
<1> QED BY <1>1, <1>2, <1>3, FS_EmptySet

\* A set of items that does not tell a job from its submission and its first step.
Uniform(S) ==
  /\ Do("finish", None) \notin S
  /\ \A job \in Jobs :
       /\ [op |-> "submit", job |-> job] \in S <=> job \in S
       /\ [op |-> "enqueue", job |-> job] \in S <=> job \in S
       /\ Body(job)[1] \in S <=> job \in S

LEMMA NumberEnqueued ==
  ASSUME Assumptions, Inv, NEW th \in Threads, Enqueue(th), NEW S, Uniform(S)
  PROVE  Number(S) \in Nat /\ Number(S)' = Number(S)
<1>1. agenda \in [Threads -> Seq(Items)] /\ IsFiniteSet(Threads) /\ agenda[th] \in Seq(Items) /\ agenda[th] # <<>>
  BY Basics DEF Inv, TypeInv, Enqueue, At
<1>2. Item(th) \in Items /\ Item(th).op = "enqueue" /\ Item(th).job \in Jobs
  BY <1>1, ItemFacts, JobFacts DEF Enqueue, At, Item
<1>3. Item(th) = [op |-> "enqueue", job |-> Item(th).job]
  BY <1>2 DEF Items, Plain
<1>4. agenda' = [agenda EXCEPT ![th] = Tail(agenda[th])]
  <2>1. <<>> \o Tail(agenda[th]) = Tail(agenda[th])
    BY <1>1
  <2> QED BY <2>1 DEF Enqueue, Replace
<1>5. /\ Tail(agenda[th]) \in Seq(Items)
      /\ Cardinality(Hits(Tail(agenda[th]), S)) + One(Item(th), S) = Cardinality(Hits(agenda[th], S))
  <2>1. Item(th) = agenda[th][1]
    <3>1. Head(agenda[th]) = agenda[th][1]
      BY <1>1
    <3> QED BY <3>1 DEF Item
  <2>2. <<>> \in Seq(Items) /\ <<>> \o Tail(agenda[th]) = Tail(agenda[th])
    BY <1>1
  <2>3. Tail(agenda[th]) \in Seq(Items)
    BY <1>1
  <2>4. Cardinality(Hits(Tail(agenda[th]), S)) + One(agenda[th][1], S) = 0 + Cardinality(Hits(agenda[th], S))
    <3>1. Cardinality(Hits(<<>> \o Tail(agenda[th]), S)) + One(agenda[th][1], S)
            = Cardinality(Hits(<<>>, S)) + Cardinality(Hits(agenda[th], S))
      BY <1>1, <2>2, HitsSpliced
    <3>2. Cardinality(Hits(<<>>, S)) = 0
      BY HitsOfFew
    <3> QED BY <2>2, <3>1, <3>2
  <2>5. Cardinality(Hits(agenda[th], S)) \in Nat
    BY <1>1, HitsFinite
  <2> QED BY <2>1, <2>3, <2>4, <2>5
<1>6. /\ IsFiniteSet(Places(S)) /\ IsFiniteSet(Places(S)')
      /\ Cardinality(Places(S)') + Cardinality(Hits(agenda[th], S))
           = Cardinality(Hits(Tail(agenda[th]), S)) + Cardinality(Places(S))
  BY <1>1, <1>4, <1>5, PlacesChange
<1> DEFINE j == [job |-> Item(th).job, seen |-> view[th]]
<1>7. IsFiniteSet(Posted(S)) /\ Cardinality(Posted(S)') = Cardinality(Posted(S)) + One(Item(th), S)
  <2>1. IsFiniteSet(Queued) /\ Posted(S) \subseteq Queued
    BY DEF Inv, CountInv, Posted
  <2>2. IsFiniteSet(Posted(S))
    BY <2>1, FS_Subset
  <2>3. PICK p : p[1] = j /\ p \notin Queued /\ Queued' = Queued \cup {p}
    <3>1. IsABag(jobs) /\ jobs' = jobs (+) SetToBag({j})
      BY DEF Inv, TypeInv, Enqueue
    <3> HIDE DEF j
    <3> QED BY <3>1, QueueGrows
  <2>4. p[1].job = Item(th).job
    BY <2>3
  <2>5. Item(th) \in S <=> p[1].job \in S
    <3> DEFINE it == [op |-> "enqueue", job |-> Item(th).job]
    <3>1. it \in S <=> Item(th).job \in S
      BY <1>2 DEF Uniform
    <3>2. Item(th) = it
      BY <1>3
    <3> HIDE DEF it
    <3> QED BY <2>4, <3>1, <3>2
  <2>6. Posted(S)' = (IF Item(th) \in S THEN Posted(S) \cup {p} ELSE Posted(S)) /\ p \notin Posted(S)
    BY <2>3, <2>5 DEF Posted
  <2>7. Cardinality(Posted(S) \cup {p}) = Cardinality(Posted(S)) + 1 /\ Cardinality(Posted(S)) \in Nat
    BY <2>2, <2>6, FS_AddElement, FS_CardinalityType
  <2> QED BY <2>2, <2>6, <2>7 DEF One
<1> HIDE DEF j
<1>8. PICK a, b, c, d, e, f, o : /\ a = Cardinality(Places(S)') /\ b = Cardinality(Places(S)) /\ c = Cardinality(Hits(Tail(agenda[th]), S))
                                 /\ d = Cardinality(Hits(agenda[th], S)) /\ e = Cardinality(Posted(S)) /\ f = Cardinality(Posted(S)')
                                 /\ o = One(Item(th), S)
  OBVIOUS
<1>9. /\ a \in Nat /\ b \in Nat /\ c \in Nat /\ d \in Nat /\ e \in Nat /\ o \in Nat
      /\ c + o = d /\ a + d = c + b /\ f = e + o
  BY <1>1, <1>5, <1>6, <1>7, <1>8, FS_CardinalityType, HitsFinite DEF One
<1>10. a + f = b + e /\ b + e \in Nat
  BY <1>9
<1> QED BY <1>8, <1>10 DEF Number

LEMMA NumberStarted ==
  ASSUME Assumptions, Inv, NEW w \in Workers, Start(w), NEW S, Uniform(S)
  PROVE  Number(S) \in Nat /\ Number(S)' = Number(S)
<1>1. agenda \in [Threads -> Seq(Items)] /\ IsFiniteSet(Threads) /\ w \in Threads
  BY Basics DEF Inv, TypeInv
<1>2. PICK j \in DOMAIN jobs : jobs' = jobs (-) SetToBag({j}) /\ agenda' = [agenda EXCEPT ![w] = Body(j.job)]
  BY DEF Start, BagToSet
<1>3. j.job \in Jobs /\ (j.job.op = "batch" => Fits(j.job))
  BY DEF Inv, TypeInv, BatchInv
<1>4. Body(j.job) \in Seq(Items) /\ Cardinality(Hits(Body(j.job), S)) = One(j.job, S)
  <2>1. Body(j.job) \in Seq(Items)
    <3>1. TRUE \in BOOLEAN
      OBVIOUS
    <3> QED BY <1>3, <3>1, BodyProper
  <2>2. PICK x : Body(j.job) = <<x, Do("finish", None)>>
    BY DEF Body
  <2>3. x \in S <=> j.job \in S
    <3>1. Body(j.job)[1] = x
      BY <2>2
    <3> QED BY <1>3, <3>1 DEF Uniform
  <2>4. Cardinality(Hits(Body(j.job), S)) = One(x, S) + One(Do("finish", None), S)
    BY <2>2, HitsOfFew
  <2>5. One(Do("finish", None), S) = 0 /\ One(x, S) = One(j.job, S) /\ One(x, S) \in Nat
    BY <2>3 DEF One, Uniform
  <2> QED BY <2>1, <2>4, <2>5
<1>5. Cardinality(Hits(agenda[w], S)) = 0
  BY HitsOfFew DEF Start
<1>6. /\ IsFiniteSet(Places(S)) /\ IsFiniteSet(Places(S)')
      /\ Cardinality(Places(S)') + 0 = One(j.job, S) + Cardinality(Places(S))
  BY <1>1, <1>2, <1>4, <1>5, PlacesChange
<1>7. /\ IsFiniteSet(Posted(S)) /\ Cardinality(Posted(S)') + One(j.job, S) = Cardinality(Posted(S))
      /\ Cardinality(Posted(S)') \in Nat
  <2>1. IsFiniteSet(Queued) /\ Posted(S) \subseteq Queued
    BY DEF Inv, CountInv, Posted
  <2>2. IsFiniteSet(Posted(S)) /\ Cardinality(Posted(S)) \in Nat
    BY <2>1, FS_Subset, FS_CardinalityType
  <2>3. PICK p \in Queued : p[1] = j /\ Queued' = Queued \ {p}
    <3>1. IsABag(jobs)
      BY DEF Inv, TypeInv
    <3> QED BY <1>2, <3>1, QueueShrinks
  <2>4. Posted(S)' = Posted(S) \ {p} /\ (p \in Posted(S) <=> j.job \in S)
    BY <2>3 DEF Posted
  <2>5. /\ IsFiniteSet(Posted(S) \ {p})
        /\ Cardinality(Posted(S) \ {p}) = IF p \in Posted(S) THEN Cardinality(Posted(S)) - 1 ELSE Cardinality(Posted(S))
    BY <2>2, FS_RemoveElement
  <2>6. Cardinality(Posted(S) \ {p}) \in Nat
    BY <2>5, FS_CardinalityType
  <2> QED BY <2>2, <2>4, <2>5, <2>6 DEF One
<1>8. PICK a, b, e, f, o : /\ a = Cardinality(Places(S)') /\ b = Cardinality(Places(S))
                           /\ e = Cardinality(Posted(S)) /\ f = Cardinality(Posted(S)') /\ o = One(j.job, S)
  OBVIOUS
<1>9. a \in Nat /\ b \in Nat /\ e \in Nat /\ f \in Nat /\ o \in Nat /\ a + 0 = o + b /\ f + o = e
  BY <1>6, <1>7, <1>8, FS_CardinalityType DEF One
<1>10. a + f = b + e /\ b + e \in Nat
  BY <1>9
<1> QED BY <1>8, <1>10 DEF Number
-----------------------------------------------------------------------------
(* What items are about *)

\* What an item is, or submits; whether it will complete node k; whether it will be
\* reported to n; and whether it covers child i of n.
Subject(it) == IF it.op \in {"submit", "enqueue"} THEN it.job ELSE it
Things      == Items \cup Jobs
Completing(k)  == {it \in Things : /\ Subject(it).op \in {"visit", "complete", "again", "work", "node"}
                                   /\ Subject(it).node = k}
Reporting(n)   == {it \in Things : /\ Subject(it).op \in {"childDone", "unit", "batch", "leaf"}
                                   /\ Subject(it).node = n}
Covering(n, i) == {it \in Things : /\ Subject(it).node = n
                                   /\ \/ Subject(it).op = "unit" /\ Subject(it).lo <= i
                                      \/ /\ Subject(it).op \in {"batch", "leaf"}
                                         /\ Subject(it).lo <= i /\ i < Subject(it).hi}

LEMMA SubmitFacts ==
  ASSUME NEW job \in Jobs
  PROVE  /\ job \in Things /\ Subject(job) = job
         /\ [op |-> "submit", job |-> job] \in Things /\ Subject([op |-> "submit", job |-> job]) = job
         /\ [op |-> "enqueue", job |-> job] \in Things /\ Subject([op |-> "enqueue", job |-> job]) = job
<1>1. job.op \in {"node", "topDown", "batch"}
  BY DEF Jobs
<1>2. [op |-> "submit", job |-> job] \in Items /\ [op |-> "enqueue", job |-> job] \in Items
  BY DEF Items
<1> QED BY <1>1, <1>2 DEF Things, Subject

LEMMA AreUniform ==
  ASSUME NEW n, NEW i
  PROVE  Uniform(Completing(n)) /\ Uniform(Reporting(n)) /\ Uniform(Covering(n, i))
<1> DEFINE fin == Do("finish", None)
<1>1. fin.op = "finish"
  BY DoFacts
<1>2. Subject(fin) = fin
  BY <1>1 DEF Subject
<1>3. fin \notin Completing(n) /\ fin \notin Reporting(n) /\ fin \notin Covering(n, i)
  <2> HIDE DEF fin
  <2> QED BY <1>1, <1>2 DEF Completing, Reporting, Covering
<1>4. ASSUME NEW job \in Jobs, NEW it \in Things, Subject(it) = job
      PROVE  /\ it \in Completing(n) <=> job \in Completing(n)
             /\ it \in Reporting(n) <=> job \in Reporting(n)
             /\ it \in Covering(n, i) <=> job \in Covering(n, i)
  BY <1>4, SubmitFacts DEF Completing, Reporting, Covering
<1>5. ASSUME NEW job \in Jobs
      PROVE  /\ Body(job)[1] \in Completing(n) <=> job \in Completing(n)
             /\ Body(job)[1] \in Reporting(n) <=> job \in Reporting(n)
             /\ Body(job)[1] \in Covering(n, i) <=> job \in Covering(n, i)
  <2> DEFINE x == Body(job)[1]
  <2>1. Subject(job) = job /\ job \in Things
    BY SubmitFacts
  <2>2. CASE job.op = "node"
    <3>1. Body(job) = <<Do("again", job.node), Do("finish", None)>>
      BY <2>2, Zenon DEF Body
    <3>2. job.node \in Nodes /\ "again" \in Plain
      BY <2>2 DEF Jobs, Plain
    <3>3. x = Do("again", job.node)
      BY <3>1
    <3>4. x \in Things /\ x.op = "again" /\ x.node = job.node
      BY <3>2, <3>3, DoFacts DEF Things
    <3> HIDE DEF x
    <3>5. Subject(x) = x
      BY <3>4 DEF Subject
    <3>6. /\ x \in Completing(n) <=> job \in Completing(n)
          /\ x \in Reporting(n) <=> job \in Reporting(n)
          /\ x \in Covering(n, i) <=> job \in Covering(n, i)
      BY <2>1, <2>2, <3>4, <3>5 DEF Completing, Reporting, Covering
    <3> QED BY <3>6 DEF x
  <2>3. CASE job.op = "topDown"
    <3>0. "topDown" # "node"
      OBVIOUS
    <3>1. Body(job) = <<Do("enter", job.node), Do("finish", None)>>
      BY <2>3, <3>0, Zenon DEF Body
    <3>2. job.node \in Nodes /\ "enter" \in Plain
      BY <2>3 DEF Jobs, Plain
    <3>3. x = Do("enter", job.node)
      BY <3>1
    <3>4. x \in Things /\ x.op = "enter" /\ x.node = job.node
      BY <3>2, <3>3, DoFacts DEF Things
    <3> HIDE DEF x
    <3>5. Subject(x) = x
      BY <3>4 DEF Subject
    <3>6. /\ x \in Completing(n) <=> job \in Completing(n)
          /\ x \in Reporting(n) <=> job \in Reporting(n)
          /\ x \in Covering(n, i) <=> job \in Covering(n, i)
      BY <2>1, <2>3, <3>4, <3>5 DEF Completing, Reporting, Covering
    <3> QED BY <3>6 DEF x
  <2>4. CASE job.op = "batch"
    <3>0. "batch" # "node" /\ "batch" # "topDown"
      OBVIOUS
    <3>1. Body(job) = <<job, Do("finish", None)>>
      BY <2>4, <3>0, Zenon DEF Body
    <3> QED BY <3>1
  <2>5. job.op \in {"node", "topDown", "batch"}
    BY DEF Jobs
  <2> QED BY <2>2, <2>3, <2>4, <2>5
<1>6. ASSUME NEW job \in Jobs
      PROVE  /\ [op |-> "submit", job |-> job] \in Completing(n) <=> job \in Completing(n)
             /\ [op |-> "enqueue", job |-> job] \in Completing(n) <=> job \in Completing(n)
             /\ [op |-> "submit", job |-> job] \in Reporting(n) <=> job \in Reporting(n)
             /\ [op |-> "enqueue", job |-> job] \in Reporting(n) <=> job \in Reporting(n)
             /\ [op |-> "submit", job |-> job] \in Covering(n, i) <=> job \in Covering(n, i)
             /\ [op |-> "enqueue", job |-> job] \in Covering(n, i) <=> job \in Covering(n, i)
  BY <1>4, SubmitFacts
<1> HIDE DEF fin
<1>7. fin = Do("finish", None)
  BY DEF fin
<1> QED BY <1>3, <1>5, <1>6, <1>7 DEF Uniform
-----------------------------------------------------------------------------
(* The balance *)

\* K: the children of each node; T: how many items will complete it; F: how many will be
\* reported to it; C: how many cover its i-th child; r: its counter.
Tree(K) ==
  /\ K \in [Nodes -> Seq(Nodes)]
  /\ \A n, m \in Nodes : \A i \in DOMAIN K[n], j \in DOMAIN K[m] : K[n][i] = K[m][j] => n = m /\ i = j
  /\ \A n \in Nodes : \A i \in DOMAIN K[n] : K[n][i] # n

\* The children of n that are on their way.
Open(K, T, r, n) == {i \in DOMAIN K[n] : T[K[n][i]] # 0 \/ r[K[n][i]] # 0}
Backed(C, F)     == \A n \in Nodes, i \in Nat : C[<<n, i>>] <= F[n]
Fewer(D, C)      == \A n \in Nodes, i \in Nat : D[<<n, i>>] <= C[<<n, i>>]

\* A counter is what is still to be reported and the children on their way; a node is
\* completed once, and not before its children; and a child is begun once.
Numbers(T, F, C, r) ==
  /\ T \in [Nodes -> Nat] /\ F \in [Nodes -> Nat] /\ C \in [Nodes \X Nat -> Nat] /\ r \in [Nodes -> Nat]
Balance(K, T, F, C, r) ==
  /\ \A n \in Nodes : r[n] = F[n] + Cardinality(Open(K, T, r, n))
  /\ \A n \in Nodes : T[n] <= 1 /\ (T[n] = 0 \/ r[n] = 0)
  /\ \A n \in Nodes : \A i \in DOMAIN K[n] :
       /\ C[<<n, i>>] <= 1
       /\ C[<<n, i>>] # 0 => T[K[n][i]] = 0 /\ r[K[n][i]] = 0

LEMMA TreeFacts ==
  ASSUME NEW K, Tree(K), NEW n \in Nodes
  PROVE  /\ Len(K[n]) \in Nat /\ DOMAIN K[n] = 1 .. Len(K[n]) /\ IsFiniteSet(DOMAIN K[n])
         /\ \A i \in DOMAIN K[n] : i \in Nat /\ K[n][i] \in Nodes
<1>1. K[n] \in Seq(Nodes)
  BY DEF Tree
<1>2. Len(K[n]) \in Nat /\ DOMAIN K[n] = 1 .. Len(K[n]) /\ \A i \in 1 .. Len(K[n]) : K[n][i] \in Nodes
  BY <1>1, LenProperties, ElementOfSeq
<1>3. IsFiniteSet(DOMAIN K[n])
  BY <1>2, FS_Interval
<1> QED BY <1>2, <1>3

LEMMA OpenFinite ==
  ASSUME NEW K, Tree(K), NEW T, NEW r, NEW n \in Nodes
  PROVE  /\ IsFiniteSet(Open(K, T, r, n)) /\ Cardinality(Open(K, T, r, n)) \in Nat
         /\ Open(K, T, r, n) \subseteq DOMAIN K[n]
<1>1. Open(K, T, r, n) \subseteq DOMAIN K[n]
  BY DEF Open
<1> QED BY <1>1, TreeFacts, FS_Subset, FS_CardinalityType

LEMMA ShedBalance ==
  ASSUME NEW K, Tree(K), NEW T, NEW F, NEW C, NEW r, Numbers(T, F, C, r), Balance(K, T, F, C, r),
         NEW D, Numbers(T, F, D, r), Fewer(D, C)
  PROVE  Balance(K, T, F, D, r)
<1>1. ASSUME NEW n \in Nodes, NEW i \in DOMAIN K[n]
      PROVE  D[<<n, i>>] <= 1 /\ (D[<<n, i>>] # 0 => C[<<n, i>>] # 0)
  <2>1. i \in Nat
    BY <1>1, TreeFacts
  <2>2. D[<<n, i>>] \in Nat /\ C[<<n, i>>] \in Nat /\ D[<<n, i>>] <= C[<<n, i>>] /\ C[<<n, i>>] <= 1
    BY <2>1 DEF Numbers, Fewer, Balance
  <2> QED BY <2>2
<1> QED BY <1>1 DEF Balance

Put(f, n, v, g)  == g = [f EXCEPT ![n] = v]
Told(K, F, n, G) == \/ /\ G = F
                       /\ \A p \in Nodes : \A i \in DOMAIN K[p] : K[p][i] # n
                    \/ \E p \in Nodes : /\ G = [F EXCEPT ![p] = F[p] + 1]
                                        /\ \E i \in DOMAIN K[p] : K[p][i] = n

\* A node is done with: it is reported to its parent, if there is one.
LEMMA DoneBalance ==
  ASSUME NEW K, Tree(K), NEW T, NEW F, NEW C, NEW r, Numbers(T, F, C, r), Balance(K, T, F, C, r),
         NEW n \in Nodes, T[n] # 0, NEW U, Put(T, n, T[n] - 1, U), NEW G, Told(K, F, n, G)
  PROVE  Numbers(U, G, C, r) /\ Balance(K, U, G, C, r)
<1> USE DEF Put, Told
<1>1. T[n] = 1 /\ r[n] = 0 /\ U[n] = 0 /\ U \in [Nodes -> Nat] /\ \A m \in Nodes : m # n => U[m] = T[m]
  <2>1. T[n] \in Nat /\ T[n] <= 1 /\ (T[n] = 0 \/ r[n] = 0) /\ T \in [Nodes -> Nat]
    BY DEF Numbers, Balance
  <2> QED BY <2>1
<1>2. G \in [Nodes -> Nat]
  BY DEF Numbers
<1>3. Numbers(U, G, C, r)
  BY <1>1, <1>2 DEF Numbers
<1>4. \A m \in Nodes : U[m] \in Nat /\ U[m] <= 1 /\ (U[m] = 0 \/ r[m] = 0) /\ (T[m] = 0 => U[m] = 0)
  BY <1>1 DEF Numbers, Balance
<1>5. ASSUME NEW m \in Nodes
      PROVE  r[m] = G[m] + Cardinality(Open(K, U, r, m))
  <2>1. r[m] = F[m] + Cardinality(Open(K, T, r, m)) /\ F[m] \in Nat /\ r[m] \in Nat
    BY DEF Balance, Numbers
  <2>2. CASE \A i \in DOMAIN K[m] : K[m][i] # n
    <3>1. Open(K, U, r, m) = Open(K, T, r, m)
      BY <1>1, <2>2, TreeFacts DEF Open
    <3>2. G[m] = F[m]
      BY <2>2 DEF Numbers
    <3> QED BY <2>1, <3>1, <3>2
  <2>3. CASE \E i \in DOMAIN K[m] : K[m][i] = n
    <3>1. PICK i \in DOMAIN K[m] : K[m][i] = n
      BY <2>3
    <3>2. \A p \in Nodes : \A j \in DOMAIN K[p] : K[p][j] = n => p = m /\ j = i
      BY <3>1 DEF Tree
    <3>3. G[m] = F[m] + 1
      BY <3>1, <3>2 DEF Numbers
    <3>4. Open(K, U, r, m) = Open(K, T, r, m) \ {i} /\ i \in Open(K, T, r, m)
      <4>1. ASSUME NEW j \in DOMAIN K[m], j # i
            PROVE  j \in Open(K, U, r, m) <=> j \in Open(K, T, r, m)
        <5>1. K[m][j] # n /\ K[m][j] \in Nodes
          BY <3>2, <4>1, TreeFacts
        <5> QED BY <1>1, <5>1 DEF Open
      <4>2. i \notin Open(K, U, r, m) /\ i \in Open(K, T, r, m)
        BY <1>1, <3>1 DEF Open
      <4>3. Open(K, U, r, m) \subseteq DOMAIN K[m] /\ Open(K, T, r, m) \subseteq DOMAIN K[m]
        BY DEF Open
      <4> QED BY <4>1, <4>2, <4>3
    <3>5. IsFiniteSet(Open(K, T, r, m)) /\ Cardinality(Open(K, T, r, m)) \in Nat
      BY OpenFinite
    <3>6. Cardinality(Open(K, U, r, m)) = Cardinality(Open(K, T, r, m)) - 1
      <4>1. PICK V, W : V = Open(K, U, r, m) /\ W = Open(K, T, r, m)
        OBVIOUS
      <4>2. V = W \ {i} /\ i \in W /\ IsFiniteSet(W)
        BY <3>4, <3>5, <4>1
      <4>3. Cardinality(V) = Cardinality(W) - 1
        BY <4>2, FS_RemoveElement, Zenon
      <4> QED BY <4>1, <4>3
    <3>7. PICK a, b : a = Cardinality(Open(K, T, r, m)) /\ b = Cardinality(Open(K, U, r, m))
      OBVIOUS
    <3>8. a \in Nat /\ b = a - 1 /\ r[m] = F[m] + a
      BY <2>1, <3>5, <3>6, <3>7
    <3>9. r[m] = F[m] + 1 + b
      BY <2>1, <3>8
    <3> QED BY <3>3, <3>7, <3>9
  <2> QED BY <2>2, <2>3
<1>6. ASSUME NEW m \in Nodes, NEW i \in DOMAIN K[m]
      PROVE  C[<<m, i>>] <= 1 /\ (C[<<m, i>>] # 0 => U[K[m][i]] = 0 /\ r[K[m][i]] = 0)
  BY <1>4, TreeFacts DEF Balance
<1> QED BY <1>3, <1>4, <1>5, <1>6 DEF Balance

\* Node n stays on its way, and its counter and its reports change alike.
Steady(n, T, F, r, U, G, s) ==
  /\ T[n] # 0 \/ r[n] # 0
  /\ U[n] # 0 \/ s[n] # 0
  /\ U[n] <= 1 /\ (U[n] = 0 \/ s[n] = 0)
  /\ s[n] - G[n] = r[n] - F[n]
  /\ \A m \in Nodes : m # n => U[m] = T[m] /\ G[m] = F[m] /\ s[m] = r[m]

\* A step that changes the counter and the reports of one node alike and leaves it on its way.
LEMMA CountedBalance ==
  ASSUME NEW K, Tree(K), NEW T, NEW F, NEW C, NEW r, Numbers(T, F, C, r), Balance(K, T, F, C, r),
         NEW n \in Nodes, NEW U, NEW G, NEW s, Numbers(U, G, C, s), Steady(n, T, F, r, U, G, s)
  PROVE  Balance(K, U, G, C, s)
<1>0. /\ T[n] # 0 \/ r[n] # 0
      /\ U[n] # 0 \/ s[n] # 0
      /\ U[n] <= 1 /\ (U[n] = 0 \/ s[n] = 0)
      /\ s[n] - G[n] = r[n] - F[n]
      /\ \A m \in Nodes : m # n => U[m] = T[m] /\ G[m] = F[m] /\ s[m] = r[m]
  BY DEF Steady
<1>1. ASSUME NEW m \in Nodes
      PROVE  /\ U[m] # 0 \/ s[m] # 0 <=> T[m] # 0 \/ r[m] # 0
             /\ U[m] <= 1 /\ (U[m] = 0 \/ s[m] = 0)
  <2>1. CASE m = n
    BY <1>0, <2>1
  <2>2. CASE m # n
    BY <1>0, <2>2 DEF Balance
  <2> QED BY <2>1, <2>2
<1>2. ASSUME NEW m \in Nodes
      PROVE  s[m] = G[m] + Cardinality(Open(K, U, s, m))
  <2>1. Open(K, U, s, m) = Open(K, T, r, m)
    BY <1>1, TreeFacts DEF Open
  <2>2. PICK a : a = Cardinality(Open(K, T, r, m))
    OBVIOUS
  <2>3. a \in Nat /\ r[m] = F[m] + a /\ F[m] \in Nat /\ G[m] \in Nat /\ s[m] \in Nat /\ r[m] \in Nat
    BY <2>2, OpenFinite DEF Balance, Numbers
  <2>4. s[m] - G[m] = r[m] - F[m]
    BY <1>0, <2>3
  <2>5. s[m] = G[m] + a
    BY <2>3, <2>4
  <2> QED BY <2>1, <2>2, <2>5
<1>3. ASSUME NEW m \in Nodes, NEW i \in DOMAIN K[m]
      PROVE  C[<<m, i>>] <= 1 /\ (C[<<m, i>>] # 0 => U[K[m][i]] = 0 /\ s[K[m][i]] = 0)
  <2>1. K[m][i] \in Nodes
    BY TreeFacts
  <2>2. C[<<m, i>>] <= 1 /\ (C[<<m, i>>] # 0 => T[K[m][i]] = 0 /\ r[K[m][i]] = 0)
    BY DEF Balance
  <2>3. CASE K[m][i] = n
    BY <1>0, <2>2, <2>3
  <2>4. CASE K[m][i] # n
    BY <1>0, <2>1, <2>2, <2>4
  <2> QED BY <2>3, <2>4
<1> QED BY <1>1, <1>2, <1>3 DEF Balance

\* A unit of several children becomes a job.
LEMMA BatchBalance ==
  ASSUME NEW K, Tree(K), NEW T, NEW F, NEW C, NEW r, Numbers(T, F, C, r), Balance(K, T, F, C, r),
         NEW n \in Nodes, F[n] # 0, NEW G, Put(F, n, F[n] + 1, G), NEW s, Put(r, n, r[n] + 1, s)
  PROVE  Numbers(T, G, C, s) /\ Balance(K, T, G, C, s)
<1> USE DEF Put
<1>1. PICK a : a = Cardinality(Open(K, T, r, n))
  OBVIOUS
<1>2. a \in Nat /\ r[n] = F[n] + a /\ F[n] \in Nat /\ T[n] \in Nat /\ T[n] <= 1 /\ (T[n] = 0 \/ r[n] = 0)
  BY <1>1, OpenFinite DEF Numbers, Balance
<1>3. r[n] \in Nat \ {0} /\ T[n] = 0
  BY <1>2
<1>4. Numbers(T, G, C, s) /\ G[n] = F[n] + 1 /\ s[n] = r[n] + 1
  BY <1>2, <1>3 DEF Numbers
<1>5. \A m \in Nodes : m # n => T[m] = T[m] /\ G[m] = F[m] /\ s[m] = r[m]
  BY DEF Numbers
<1>6. s[n] # 0 /\ s[n] - G[n] = r[n] - F[n]
  BY <1>2, <1>3, <1>4
<1>7. Steady(n, T, F, r, T, G, s)
  BY <1>2, <1>3, <1>5, <1>6 DEF Steady
<1> QED BY <1>4, <1>7, CountedBalance

\* A child is reported; the last report completes the node.
LEMMA ReportBalance ==
  ASSUME NEW K, Tree(K), NEW T, NEW F, NEW C, NEW r, Numbers(T, F, C, r), Balance(K, T, F, C, r),
         NEW n \in Nodes, F[n] # 0, NEW G, Put(F, n, F[n] - 1, G), NEW s, Put(r, n, r[n] - 1, s),
         NEW U, Put(T, n, IF r[n] = 1 THEN T[n] + 1 ELSE T[n], U)
  PROVE  Numbers(U, G, C, s) /\ Balance(K, U, G, C, s)
<1> USE DEF Put
<1>1. PICK a : a = Cardinality(Open(K, T, r, n))
  OBVIOUS
<1>2. a \in Nat /\ r[n] = F[n] + a /\ F[n] \in Nat /\ T[n] \in Nat /\ T[n] <= 1 /\ (T[n] = 0 \/ r[n] = 0)
  BY <1>1, OpenFinite DEF Numbers, Balance
<1>3. r[n] \in Nat \ {0} /\ F[n] \in Nat \ {0} /\ T[n] = 0
  BY <1>2
<1>4. /\ G[n] = F[n] - 1 /\ s[n] = r[n] - 1 /\ U[n] = IF r[n] = 1 THEN 1 ELSE 0
      /\ \A m \in Nodes : m # n => U[m] = T[m] /\ G[m] = F[m] /\ s[m] = r[m]
  BY <1>3 DEF Numbers
<1>5. Numbers(U, G, C, s)
  <2>1. G[n] \in Nat /\ s[n] \in Nat /\ U[n] \in Nat
    BY <1>3, <1>4
  <2>2. \A m \in Nodes : G[m] \in Nat /\ s[m] \in Nat /\ U[m] \in Nat
    BY <1>4, <2>1 DEF Numbers
  <2> QED BY <2>2 DEF Numbers
<1>6. /\ U[n] # 0 \/ s[n] # 0
      /\ U[n] <= 1 /\ (U[n] = 0 \/ s[n] = 0)
      /\ s[n] - G[n] = r[n] - F[n]
  BY <1>2, <1>3, <1>4
<1>7. Steady(n, T, F, r, U, G, s)
  BY <1>3, <1>4, <1>6 DEF Steady
<1> QED BY <1>5, <1>7, CountedBalance

\* A child of n may be covered once more.
OneMore(D, C, n) == \A m \in Nodes, i \in Nat : D[<<m, i>>] <= C[<<m, i>>] + (IF m = n THEN 1 ELSE 0)

\* The units of a node are begun.
LEMMA UnitsBalance ==
  ASSUME NEW K, Tree(K), NEW T, NEW F, NEW C, NEW r, Numbers(T, F, C, r), Balance(K, T, F, C, r), Backed(C, F),
         NEW n \in Nodes, T[n] # 0, NEW U, Put(T, n, T[n] - 1, U),
         NEW G, Put(F, n, F[n] + 1, G), NEW s, Put(r, n, 1, s),
         NEW D, D \in [Nodes \X Nat -> Nat], OneMore(D, C, n)
  PROVE  Numbers(U, G, D, s) /\ Balance(K, U, G, D, s)
<1> USE DEF Put, OneMore
<1>1. PICK a : a = Cardinality(Open(K, T, r, n))
  OBVIOUS
<1>2. a \in Nat /\ r[n] = F[n] + a /\ F[n] \in Nat /\ T[n] \in Nat /\ T[n] <= 1 /\ (T[n] = 0 \/ r[n] = 0)
  BY <1>1, OpenFinite DEF Numbers, Balance
<1>3. T[n] = 1 /\ r[n] = 0 /\ F[n] = 0 /\ a = 0
  BY <1>2
<1>4. /\ G[n] = 1 /\ s[n] = 1 /\ U[n] = 0
      /\ \A m \in Nodes : m # n => U[m] = T[m] /\ G[m] = F[m] /\ s[m] = r[m]
  BY <1>3 DEF Numbers
<1>5. /\ Numbers(U, G, C, s) /\ Numbers(U, G, D, s)
  <2>1. \A m \in Nodes : G[m] \in Nat /\ s[m] \in Nat /\ U[m] \in Nat
    BY <1>4 DEF Numbers
  <2> QED BY <2>1 DEF Numbers
<1>6. U[n] <= 1 /\ s[n] # 0 /\ s[n] - G[n] = r[n] - F[n]
  BY <1>3, <1>4
<1>7. Balance(K, U, G, C, s)
  <2>1. Steady(n, T, F, r, U, G, s)
    BY <1>3, <1>4, <1>6 DEF Steady
  <2> QED BY <1>5, <2>1, CountedBalance
<1>8. ASSUME NEW m \in Nodes, NEW i \in DOMAIN K[m]
      PROVE  D[<<m, i>>] <= 1 /\ (D[<<m, i>>] # 0 => U[K[m][i]] = 0 /\ s[K[m][i]] = 0)
  <2>1. i \in Nat /\ K[m][i] \in Nodes
    BY TreeFacts
  <2>2. D[<<m, i>>] \in Nat /\ C[<<m, i>>] \in Nat
    BY <2>1 DEF Numbers
  <2>3. CASE m # n
    <3>1. D[<<m, i>>] <= C[<<m, i>>]
      BY <2>1, <2>2, <2>3
    <3>2. C[<<m, i>>] <= 1 /\ (C[<<m, i>>] # 0 => U[K[m][i]] = 0 /\ s[K[m][i]] = 0)
      BY <1>7 DEF Balance
    <3> QED BY <2>2, <3>1, <3>2
  <2>4. CASE m = n
    <3>1. C[<<m, i>>] <= 0
      BY <1>3, <2>1, <2>4 DEF Backed
    <3>2. D[<<m, i>>] <= 1
      BY <2>1, <2>2, <2>4, <3>1
    <3>3. Open(K, T, r, m) = {}
      BY <1>1, <1>3, <2>4, OpenFinite, FS_EmptySet
    <3>4. T[K[m][i]] = 0 /\ r[K[m][i]] = 0 /\ K[m][i] # n
      BY <2>1, <2>4, <3>3 DEF Open, Tree
    <3> QED BY <1>4, <2>1, <3>2, <3>4
  <2> QED BY <2>3, <2>4
<1>9. /\ \A m \in Nodes : s[m] = G[m] + Cardinality(Open(K, U, s, m))
      /\ \A m \in Nodes : U[m] <= 1 /\ (U[m] = 0 \/ s[m] = 0)
  BY <1>7 DEF Balance
<1> QED BY <1>5, <1>8, <1>9 DEF Balance

\* The children of a node are all begun at once.
LEMMA ChildrenBalance ==
  ASSUME NEW K, Tree(K), NEW T, NEW F, NEW C, NEW r, Numbers(T, F, C, r), Balance(K, T, F, C, r), Backed(C, F),
         NEW n \in Nodes, T[n] # 0, K[n] # <<>>, NEW s, Put(r, n, Len(K[n]), s),
         NEW U, U \in [Nodes -> Nat], U[n] = T[n] - 1,
         \A m \in Nodes : m # n =>
           U[m] = T[m] + (IF \E i \in DOMAIN K[n] : K[n][i] = m THEN 1 ELSE 0)
  PROVE  Numbers(U, F, C, s) /\ Balance(K, U, F, C, s)
<1> USE DEF Put
<1>1. PICK a : a = Cardinality(Open(K, T, r, n))
  OBVIOUS
<1>2. a \in Nat /\ r[n] = F[n] + a /\ F[n] \in Nat /\ T[n] \in Nat /\ T[n] <= 1 /\ (T[n] = 0 \/ r[n] = 0)
  BY <1>1, OpenFinite DEF Numbers, Balance
<1>3. T[n] = 1 /\ r[n] = 0 /\ F[n] = 0 /\ a = 0
  BY <1>2
<1>4. Len(K[n]) \in Nat \ {0} /\ DOMAIN K[n] = 1 .. Len(K[n]) /\ \A i \in DOMAIN K[n] : K[n][i] \in Nodes /\ K[n][i] # n
  <2>1. K[n] \in Seq(Nodes)
    BY DEF Tree
  <2>2. Len(K[n]) # 0
    BY <2>1, EmptySeq
  <2> QED BY <2>2, TreeFacts DEF Tree
<1>5. U[n] = 0 /\ s[n] = Len(K[n]) /\ s[n] # 0 /\ s \in [Nodes -> Nat] /\ \A m \in Nodes : m # n => s[m] = r[m]
  <2>1. r \in [Nodes -> Nat]
    BY DEF Numbers
  <2> QED BY <1>3, <1>4, <2>1
<1>6. Numbers(U, F, C, s)
  BY <1>5 DEF Numbers
<1>7. ASSUME NEW i \in DOMAIN K[n]
      PROVE  /\ T[K[n][i]] = 0 /\ r[K[n][i]] = 0 /\ C[<<n, i>>] = 0
             /\ U[K[n][i]] = 1 /\ s[K[n][i]] = 0
  <2>1. Open(K, T, r, n) = {}
    BY <1>1, <1>3, OpenFinite, FS_EmptySet
  <2>2. T[K[n][i]] = 0 /\ r[K[n][i]] = 0
    BY <2>1 DEF Open
  <2>3. C[<<n, i>>] <= 0 /\ C[<<n, i>>] \in Nat
    BY <1>3, TreeFacts DEF Backed, Numbers
  <2>4. U[K[n][i]] = T[K[n][i]] + 1
    BY <1>4
  <2> QED BY <1>4, <1>5, <2>2, <2>3, <2>4
<1>8. ASSUME NEW m \in Nodes, m # n, \A i \in DOMAIN K[n] : K[n][i] # m
      PROVE  U[m] = T[m] /\ s[m] = r[m]
  <2>1. U[m] = T[m] + 0 /\ T[m] \in Nat
    BY <1>8 DEF Numbers
  <2> QED BY <1>5, <1>8, <2>1
<1>9. ASSUME NEW m \in Nodes
      PROVE  U[m] <= 1 /\ (U[m] = 0 \/ s[m] = 0)
  <2>1. CASE m = n
    <3>1. U[n] = 0
      BY <1>5
    <3> QED BY <2>1, <3>1
  <2>2. CASE \E i \in DOMAIN K[n] : K[n][i] = m
    <3>1. PICK i \in DOMAIN K[n] : K[n][i] = m
      BY <2>2
    <3>2. U[K[n][i]] = 1 /\ s[K[n][i]] = 0
      BY <1>7
    <3> QED BY <3>1, <3>2
  <2>3. CASE m # n /\ \A i \in DOMAIN K[n] : K[n][i] # m
    BY <1>8, <2>3 DEF Balance
  <2> QED BY <2>1, <2>2, <2>3
<1>10. ASSUME NEW m \in Nodes
       PROVE  s[m] = F[m] + Cardinality(Open(K, U, s, m))
  <2>1. CASE m = n
    <3>1. Open(K, U, s, n) = DOMAIN K[n]
      <4>1. ASSUME NEW i \in DOMAIN K[n]
            PROVE  U[K[n][i]] # 0
        <5>1. U[K[n][i]] = 1
          BY <1>7
        <5> QED BY <5>1
      <4> QED BY <4>1 DEF Open
    <3>2. Cardinality(Open(K, U, s, n)) = Len(K[n])
      <4>1. 1 \in Int /\ Len(K[n]) \in Int /\ ~(1 > Len(K[n])) /\ Len(K[n]) - 1 + 1 = Len(K[n])
        BY <1>4
      <4>2. Cardinality(1 .. Len(K[n])) = IF 1 > Len(K[n]) THEN 0 ELSE Len(K[n]) - 1 + 1
        BY <4>1, FS_Interval
      <4> QED BY <1>4, <3>1, <4>1, <4>2
    <3> QED BY <1>3, <1>4, <1>5, <2>1, <3>2
  <2>2. CASE m # n
    <3>1. ASSUME NEW i \in DOMAIN K[m]
          PROVE  U[K[m][i]] # 0 \/ s[K[m][i]] # 0 <=> T[K[m][i]] # 0 \/ r[K[m][i]] # 0
      <4>1. K[m][i] \in Nodes /\ \A j \in DOMAIN K[n] : K[n][j] # K[m][i]
        BY <2>2, TreeFacts DEF Tree
      <4>2. CASE K[m][i] = n
        BY <1>3, <1>5, <4>2
      <4>3. CASE K[m][i] # n
        BY <1>8, <4>1, <4>3
      <4> QED BY <4>2, <4>3
    <3>2. Open(K, U, s, m) = Open(K, T, r, m)
      BY <3>1 DEF Open
    <3>3. r[m] = F[m] + Cardinality(Open(K, T, r, m))
      BY DEF Balance
    <3> QED BY <1>5, <2>2, <3>2, <3>3
  <2> QED BY <2>1, <2>2
<1>11. ASSUME NEW m \in Nodes, NEW i \in DOMAIN K[m]
       PROVE  C[<<m, i>>] <= 1 /\ (C[<<m, i>>] # 0 => U[K[m][i]] = 0 /\ s[K[m][i]] = 0)
  <2>1. CASE m = n
    BY <1>7, <2>1
  <2>2. CASE m # n
    <3>1. K[m][i] \in Nodes /\ \A j \in DOMAIN K[n] : K[n][j] # K[m][i]
      BY <2>2, TreeFacts DEF Tree
    <3>2. C[<<m, i>>] <= 1 /\ (C[<<m, i>>] # 0 => T[K[m][i]] = 0 /\ r[K[m][i]] = 0)
      BY DEF Balance
    <3>3. CASE K[m][i] = n
      BY <1>3, <3>2, <3>3
    <3>4. CASE K[m][i] # n
      BY <1>8, <3>1, <3>2, <3>4
    <3> QED BY <3>3, <3>4
  <2> QED BY <2>1, <2>2
<1> QED BY <1>6, <1>9, <1>10, <1>11 DEF Balance

\* A child is begun as a unit of its own.
LEMMA ChildBalance ==
  ASSUME NEW K, Tree(K), NEW T, NEW F, NEW C, NEW r, Numbers(T, F, C, r), Balance(K, T, F, C, r), Backed(C, F),
         NEW n \in Nodes, NEW i \in DOMAIN K[n], C[<<n, i>>] # 0, NEW k, k = K[n][i],
         NEW U, Put(T, k, T[k] + 1, U), NEW s, Put(r, n, r[n] + 1, s),
         NEW D, D \in [Nodes \X Nat -> Nat], Fewer(D, C), D[<<n, i>>] = 0
  PROVE  Numbers(U, F, D, s) /\ Balance(K, U, F, D, s)
<1> USE DEF Put
<1>1. i \in Nat /\ k \in Nodes /\ k # n
  BY TreeFacts DEF Tree
<1>2. T[k] = 0 /\ r[k] = 0
  BY DEF Balance
<1>3. PICK a : a = Cardinality(Open(K, T, r, n))
  OBVIOUS
<1>4. r[n] \in Nat \ {0} /\ T[n] = 0 /\ r[n] = F[n] + a /\ a \in Nat /\ F[n] \in Nat
  <2>1. C[<<n, i>>] \in Nat /\ C[<<n, i>>] <= F[n] /\ F[n] \in Nat
    BY <1>1 DEF Backed, Numbers
  <2>2. r[n] = F[n] + a /\ a \in Nat /\ (T[n] = 0 \/ r[n] = 0)
    BY <1>3, OpenFinite DEF Balance
  <2>3. F[n] # 0
    BY <2>1
  <2> QED BY <2>1, <2>2, <2>3
<1>5. /\ U[k] = 1 /\ \A m \in Nodes : m # k => U[m] = T[m]
      /\ s[n] = r[n] + 1 /\ \A m \in Nodes : m # n => s[m] = r[m]
      /\ Numbers(U, F, D, s)
  <2>1. T \in [Nodes -> Nat] /\ r \in [Nodes -> Nat]
    BY DEF Numbers
  <2>2. U[k] = 1 /\ U \in [Nodes -> Nat] /\ \A m \in Nodes : m # k => U[m] = T[m]
    BY <1>1, <1>2, <2>1
  <2>3. s[n] = r[n] + 1 /\ s \in [Nodes -> Nat] /\ \A m \in Nodes : m # n => s[m] = r[m]
    BY <1>4, <2>1
  <2> QED BY <2>2, <2>3 DEF Numbers
<1>6. \A m \in Nodes : \A j \in DOMAIN K[m] : K[m][j] = k => m = n /\ j = i
  BY DEF Tree
<1>7. ASSUME NEW m \in Nodes
      PROVE  U[m] <= 1 /\ (U[m] = 0 \/ s[m] = 0)
  <2>1. CASE m = k
    BY <1>1, <1>2, <1>5, <2>1
  <2>2. CASE m = n
    BY <1>1, <1>4, <1>5, <2>2
  <2>3. CASE m # k /\ m # n
    BY <1>5, <2>3 DEF Balance
  <2> QED BY <2>1, <2>2, <2>3
<1>8. ASSUME NEW m \in Nodes, m # k
      PROVE  U[m] # 0 \/ s[m] # 0 <=> T[m] # 0 \/ r[m] # 0
  <2>1. CASE m = n
    <3>1. r[n] + 1 # 0
      BY <1>4
    <3> QED BY <1>4, <1>5, <2>1, <3>1
  <2>2. CASE m # n
    BY <1>5, <1>8, <2>2
  <2> QED BY <2>1, <2>2
<1>9. ASSUME NEW m \in Nodes
      PROVE  s[m] = F[m] + Cardinality(Open(K, U, s, m))
  <2>1. CASE m # n
    <3>1. \A j \in DOMAIN K[m] : K[m][j] # k /\ K[m][j] \in Nodes
      BY <1>6, <2>1, TreeFacts
    <3>2. Open(K, U, s, m) = Open(K, T, r, m)
      BY <1>8, <3>1 DEF Open
    <3>3. r[m] = F[m] + Cardinality(Open(K, T, r, m))
      BY DEF Balance
    <3> QED BY <1>5, <2>1, <3>2, <3>3
  <2>2. CASE m = n
    <3>1. Open(K, U, s, n) = Open(K, T, r, n) \cup {i} /\ i \notin Open(K, T, r, n)
      <4>1. ASSUME NEW j \in DOMAIN K[n], j # i
            PROVE  j \in Open(K, U, s, n) <=> j \in Open(K, T, r, n)
        <5>1. K[n][j] # k /\ K[n][j] \in Nodes
          BY <1>6, <4>1, TreeFacts
        <5> QED BY <1>8, <5>1 DEF Open
      <4>2. i \in Open(K, U, s, n) /\ i \notin Open(K, T, r, n)
        BY <1>2, <1>5 DEF Open
      <4>3. Open(K, U, s, n) \subseteq DOMAIN K[n] /\ Open(K, T, r, n) \subseteq DOMAIN K[n]
        BY DEF Open
      <4> QED BY <4>1, <4>2, <4>3
    <3>2. IsFiniteSet(Open(K, T, r, n))
      BY OpenFinite
    <3>3. Cardinality(Open(K, U, s, n)) = a + 1
      <4>1. Cardinality(Open(K, T, r, n) \cup {i}) = Cardinality(Open(K, T, r, n)) + 1
        BY <3>1, <3>2, FS_AddElement
      <4> QED BY <1>3, <3>1, <4>1
    <3>4. r[n] + 1 = F[n] + (a + 1)
      BY <1>4
    <3> QED BY <1>5, <2>2, <3>3, <3>4
  <2> QED BY <2>1, <2>2
<1>10. ASSUME NEW m \in Nodes, NEW j \in DOMAIN K[m]
       PROVE  D[<<m, j>>] <= 1 /\ (D[<<m, j>>] # 0 => U[K[m][j]] = 0 /\ s[K[m][j]] = 0)
  <2>1. j \in Nat /\ K[m][j] \in Nodes
    BY TreeFacts
  <2>2. D[<<m, j>>] \in Nat /\ C[<<m, j>>] \in Nat /\ D[<<m, j>>] <= C[<<m, j>>] /\ C[<<m, j>>] <= 1
    BY <2>1 DEF Fewer, Numbers, Balance
  <2>3. D[<<m, j>>] <= 1 /\ (D[<<m, j>>] # 0 => C[<<m, j>>] # 0)
    BY <2>2
  <2>4. C[<<m, j>>] # 0 => T[K[m][j]] = 0 /\ r[K[m][j]] = 0
    BY DEF Balance
  <2>5. CASE K[m][j] = k
    BY <1>6, <2>3, <2>5
  <2>6. CASE K[m][j] # k
    <3>1. CASE K[m][j] = n
      BY <1>4, <2>3, <2>4, <3>1
    <3>2. CASE K[m][j] # n
      BY <1>5, <2>1, <2>3, <2>4, <2>6, <3>2
    <3> QED BY <3>1, <3>2
  <2> QED BY <2>5, <2>6
<1> QED BY <1>5, <1>7, <1>9, <1>10 DEF Balance
-----------------------------------------------------------------------------
(* The balance of a state *)

Completions == [n \in Nodes |-> Number(Completing(n))]
Reported    == [n \in Nodes |-> Number(Reporting(n))]
Covers      == [p \in Nodes \X Nat |-> Number(Covering(p[1], p[2]))]
BalanceInv ==
  /\ Numbers(Completions, Reported, Covers, remaining)
  /\ Balance(run.kids, Completions, Reported, Covers, remaining)

LEMMA IsTree ==
  ASSUME Assumptions, Inv
  PROVE  Tree(run.kids) /\ \A n \in Nodes : Kids(n) = run.kids[n]
<1>1. run.kids \in [Nodes -> Seq(Nodes)] /\ run \in Runs /\ IsForest(run) /\ TypeInv
  BY Basics DEF Inv, TypeInv, Assumptions, Run
<1>2. \A n \in Nodes : \A i \in DOMAIN run.kids[n] : Parents(run.kids[n][i]) = {n}
  BY <1>1, OneParent DEF Kids
<1>3. ASSUME NEW n \in Nodes, NEW m \in Nodes, NEW i \in DOMAIN run.kids[n], NEW j \in DOMAIN run.kids[m],
             run.kids[n][i] = run.kids[m][j]
      PROVE  n = m /\ i = j
  <2> DEFINE Place == {<<None, h>> : h \in DOMAIN run.roots} \cup UNION {{<<p, h>> : h \in DOMAIN run.kids[p]} : p \in Nodes}
             Sits(pl) == IF pl[1] = None THEN run.roots[pl[2]] ELSE run.kids[pl[1]][pl[2]]
  <2>1. \A pl, ql \in Place : Sits(pl) = Sits(ql) => pl = ql
    BY <1>1 DEF IsForest
  <2>2. n # None /\ m # None
    BY DEF Assumptions
  <2>3. /\ <<n, i>> \in Place /\ Sits(<<n, i>>) = run.kids[n][i]
        /\ <<m, j>> \in Place /\ Sits(<<m, j>>) = run.kids[m][j]
    BY <2>2
  <2> HIDE DEF Place, Sits
  <2>4. <<n, i>> = <<m, j>>
    BY <1>3, <2>1, <2>3
  <2> QED BY <2>4
<1>4. ASSUME NEW n \in Nodes, NEW i \in DOMAIN run.kids[n]
      PROVE  run.kids[n][i] # n
  <2>1. {n} \in (SUBSET Nodes) \ {{}}
    OBVIOUS
  <2>2. \E k \in {n} : \A p \in {n} : k \notin ToSet(run.kids[p])
    BY <1>1, <2>1 DEF IsForest
  <2>3. n \notin {run.kids[n][j] : j \in DOMAIN run.kids[n]}
    BY <2>2 DEF ToSet
  <2> QED BY <2>3
<1> QED BY <1>1, <1>3, <1>4 DEF Tree, Kids

LEMMA NumberBelow ==
  ASSUME Assumptions, Inv, NEW S, NEW R, S \subseteq R
  PROVE  Number(S) \in Nat /\ Number(R) \in Nat /\ Number(S) <= Number(R)
<1>1. agenda \in [Threads -> Seq(Items)] /\ IsFiniteSet(Threads) /\ IsFiniteSet(Queued)
  BY Basics DEF Inv, TypeInv, CountInv
<1>2. Places(S) \subseteq Places(R)
  <2>1. ASSUME NEW u \in Threads
        PROVE  Hits(agenda[u], S) \subseteq Hits(agenda[u], R)
    BY DEF Hits
  <2> QED BY <2>1, PlacesAre
<1>3. Posted(S) \subseteq Posted(R) /\ Posted(R) \subseteq Queued
  BY DEF Posted
<1>4. IsFiniteSet(Places(R)) /\ IsFiniteSet(Posted(R))
  BY <1>1, <1>3, PlacesFinite, FS_Subset
<1>5. /\ IsFiniteSet(Places(S)) /\ Cardinality(Places(S)) <= Cardinality(Places(R))
      /\ IsFiniteSet(Posted(S)) /\ Cardinality(Posted(S)) <= Cardinality(Posted(R))
  BY <1>2, <1>3, <1>4, FS_Subset
<1>6. PICK a, b, c, d : /\ a = Cardinality(Places(S)) /\ b = Cardinality(Places(R))
                        /\ c = Cardinality(Posted(S)) /\ d = Cardinality(Posted(R))
  OBVIOUS
<1>7. a \in Nat /\ b \in Nat /\ c \in Nat /\ d \in Nat /\ a <= b /\ c <= d
  BY <1>4, <1>5, <1>6, FS_CardinalityType
<1>8. a + c \in Nat /\ b + d \in Nat /\ a + c <= b + d
  BY <1>7
<1> QED BY <1>6, <1>8 DEF Number

LEMMA NumbersAre ==
  ASSUME Assumptions, Inv
  PROVE  /\ Completions \in [Nodes -> Nat] /\ Reported \in [Nodes -> Nat] /\ Covers \in [Nodes \X Nat -> Nat]
         /\ Backed(Covers, Reported)
<1>1. \A S : Number(S) \in Nat
  BY NumberBelow
<1>2. \A n, i : Covering(n, i) \subseteq Reporting(n)
  BY DEF Covering, Reporting
<1>3. \A n \in Nodes, i \in Nat : Covers[<<n, i>>] = Number(Covering(n, i)) /\ Reported[n] = Number(Reporting(n))
  BY DEF Covers, Reported
<1> QED BY <1>1, <1>2, <1>3, NumberBelow DEF Completions, Reported, Covers, Backed

\* What an item is about is one thing.
LEMMA Kinds ==
  ASSUME NEW it, NEW n
  PROVE  /\ it \in Completing(n) => \A m : /\ it \in Completing(m) <=> m = n
                                           /\ it \notin Reporting(m) /\ \A i : it \notin Covering(m, i)
         /\ it \in Reporting(n) => \A m : /\ it \in Reporting(m) <=> m = n
                                          /\ it \notin Completing(m) /\ \A i : it \in Covering(m, i) => m = n
BY DEF Completing, Reporting, Covering

\* The change of a number of items, by how many a step puts in the place of one.
LEMMA NumberChange ==
  ASSUME Assumptions, Inv, NEW th \in Threads, agenda[th] # <<>>,
         NEW items \in Seq(Items), Replace(th, items), jobs' = jobs, NEW S
  PROVE  /\ Number(S) \in Nat /\ Number(S)' \in Nat
         /\ Cardinality(Hits(items, S)) = One(Item(th), S) => Number(S)' = Number(S)
         /\ Cardinality(Hits(items, S)) = One(Item(th), S) + 1 => Number(S)' = Number(S) + 1
         /\ Cardinality(Hits(items, S)) = 0 /\ Item(th) \in S => Number(S)' = Number(S) - 1 /\ Number(S) # 0
         /\ Cardinality(Hits(items, S)) <= One(Item(th), S) => Number(S)' <= Number(S)
         /\ Cardinality(Hits(items, S)) <= One(Item(th), S) + 1 => Number(S)' <= Number(S) + 1
         /\ Item(th) \in S => Number(S) # 0
<1>1. PICK a, b, c, o : a = Number(S)' /\ b = Number(S) /\ c = Cardinality(Hits(items, S)) /\ o = One(Item(th), S)
  OBVIOUS
<1>2. a \in Nat /\ b \in Nat /\ c \in Nat /\ a + o = c + b
  BY <1>1, NumberReplaced
<1>3. o \in Nat /\ (Item(th) \in S => o = 1)
  BY <1>1 DEF One
<1>4. Item(th) \in S => Number(S) # 0
  <2> SUFFICES ASSUME Item(th) \in S PROVE Number(S) # 0
    OBVIOUS
  <2>1. agenda[th] \in Seq(Items) /\ Item(th) = agenda[th][1] /\ 1 \in DOMAIN agenda[th]
    <3>1. agenda[th] \in Seq(Items)
      BY DEF Inv, TypeInv
    <3>2. Len(agenda[th]) \in Nat \ {0} /\ Head(agenda[th]) = agenda[th][1]
      BY <3>1, EmptySeq
    <3> QED BY <3>1, <3>2, LenProperties DEF Item
  <2>2. 1 \in Hits(agenda[th], S)
    BY <2>1 DEF Hits
  <2>3. <<th, 1>> \in Places(S)
    BY <2>2, PlacesAre
  <2>4. IsFiniteSet(Places(S)) /\ IsFiniteSet(Posted(S))
    <3>1. agenda \in [Threads -> Seq(Items)] /\ IsFiniteSet(Threads) /\ IsFiniteSet(Queued) /\ Posted(S) \subseteq Queued
      BY Basics DEF Inv, TypeInv, CountInv, Posted
    <3> QED BY <3>1, PlacesFinite, FS_Subset
  <2>5. PICK d, e : d = Cardinality(Places(S)) /\ e = Cardinality(Posted(S))
    OBVIOUS
  <2>6. d \in Nat /\ d # 0 /\ e \in Nat
    BY <2>3, <2>4, <2>5, FS_CardinalityType, FS_EmptySet
  <2>7. d + e # 0
    BY <2>6
  <2> QED BY <2>5, <2>7 DEF Number
<1>5. /\ c = o => a = b
      /\ c = o + 1 => a = b + 1
      /\ c = 0 /\ o = 1 => a = b - 1
      /\ c <= o => a <= b
      /\ c <= o + 1 => a <= b + 1
  BY <1>2, <1>3
<1> QED BY <1>1, <1>2, <1>3, <1>4, <1>5

\* Steps that put as many items of each kind in the place of one, and cover no more.
LEMMA ShedKeeps ==
  ASSUME Assumptions, Inv, BalanceInv, NEW th \in Threads, agenda[th] # <<>>,
         NEW items \in Seq(Items), Replace(th, items), UNCHANGED <<run, jobs, remaining>>,
         \A n \in Nodes : /\ Cardinality(Hits(items, Completing(n))) = One(Item(th), Completing(n))
                          /\ Cardinality(Hits(items, Reporting(n))) = One(Item(th), Reporting(n))
                          /\ \A i \in Nat : Cardinality(Hits(items, Covering(n, i))) <= One(Item(th), Covering(n, i))
  PROVE  BalanceInv'
<1>1. Completions' = Completions /\ Reported' = Reported
  <2>1. \A n \in Nodes : Number(Completing(n))' = Number(Completing(n)) /\ Number(Reporting(n))' = Number(Reporting(n))
    BY NumberChange
  <2> QED BY <2>1 DEF Completions, Reported
<1>2. Covers' \in [Nodes \X Nat -> Nat] /\ Fewer(Covers', Covers)
  <2>1. \A n \in Nodes, i \in Nat : Number(Covering(n, i))' \in Nat /\ Number(Covering(n, i))' <= Number(Covering(n, i))
    BY NumberChange
  <2>2. Covers' = [p \in Nodes \X Nat |-> Number(Covering(p[1], p[2]))']
    BY DEF Covers
  <2>3. \A n \in Nodes, i \in Nat : /\ Covers'[<<n, i>>] = Number(Covering(n, i))'
                                    /\ Covers[<<n, i>>] = Number(Covering(n, i))
    BY <2>2 DEF Covers
  <2> QED BY <2>1, <2>2, <2>3 DEF Fewer
<1>3. Numbers(Completions, Reported, Covers', remaining)
  BY <1>2 DEF BalanceInv, Numbers
<1>4. Balance(run.kids, Completions, Reported, Covers', remaining)
  BY <1>2, <1>3, IsTree, ShedBalance DEF BalanceInv
<1> QED BY <1>1, <1>3, <1>4 DEF BalanceInv

\* Items that have nothing to do with completing nodes.
Idle(it) == Subject(it).op \notin {"visit", "complete", "again", "work", "node", "childDone", "unit", "batch", "leaf"}

LEMMA IdleFacts ==
  ASSUME NEW it, Idle(it), NEW n, NEW i
  PROVE  it \notin Completing(n) /\ it \notin Reporting(n) /\ it \notin Covering(n, i)
BY DEF Idle, Completing, Reporting, Covering

LEMMA HitsOfNone ==
  ASSUME NEW items, NEW S, \A i \in DOMAIN items : items[i] \notin S
  PROVE  Cardinality(Hits(items, S)) = 0
<1>1. Hits(items, S) = {}
  BY DEF Hits
<1> QED BY <1>1, FS_EmptySet

LEMMA IdleKeeps ==
  ASSUME Assumptions, Inv, BalanceInv, NEW th \in Threads, agenda[th] # <<>>, Idle(Item(th)),
         NEW items \in Seq(Items), \A i \in DOMAIN items : Idle(items[i]),
         Replace(th, items), UNCHANGED <<run, jobs, remaining>>
  PROVE  BalanceInv'
<1>1. \A n, j : /\ Cardinality(Hits(items, Completing(n))) = 0 /\ One(Item(th), Completing(n)) = 0
                /\ Cardinality(Hits(items, Reporting(n))) = 0 /\ One(Item(th), Reporting(n)) = 0
                /\ Cardinality(Hits(items, Covering(n, j))) = 0 /\ One(Item(th), Covering(n, j)) = 0
  BY IdleFacts, HitsOfNone DEF One
<1>2. 0 <= 0
  OBVIOUS
<1> QED BY <1>1, <1>2, ShedKeeps

\* An item is replaced by one that is about the same.
LEMMA SameKeeps ==
  ASSUME Assumptions, Inv, BalanceInv, NEW th \in Threads, agenda[th] # <<>>,
         NEW x \in Items, Replace(th, <<x>>), UNCHANGED <<run, jobs, remaining>>,
         \A n \in Nodes : /\ x \in Completing(n) <=> Item(th) \in Completing(n)
                          /\ x \in Reporting(n) <=> Item(th) \in Reporting(n)
                          /\ \A i \in Nat : x \in Covering(n, i) => Item(th) \in Covering(n, i)
  PROVE  BalanceInv'
<1>1. <<x>> \in Seq(Items)
  BY Singles
<1>2. \A n \in Nodes : /\ Cardinality(Hits(<<x>>, Completing(n))) = One(Item(th), Completing(n))
                       /\ Cardinality(Hits(<<x>>, Reporting(n))) = One(Item(th), Reporting(n))
                       /\ \A i \in Nat : Cardinality(Hits(<<x>>, Covering(n, i))) <= One(Item(th), Covering(n, i))
  <2>1. \A S : Cardinality(Hits(<<x>>, S)) = One(x, S)
    BY HitsOfFew
  <2>2. \A n \in Nodes : /\ One(x, Completing(n)) = One(Item(th), Completing(n))
                         /\ One(x, Reporting(n)) = One(Item(th), Reporting(n))
    BY DEF One
  <2>3. \A n \in Nodes, i \in Nat : One(x, Covering(n, i)) <= One(Item(th), Covering(n, i))
    BY DEF One
  <2> QED BY <2>1, <2>2, <2>3
<1> QED BY <1>1, <1>2, ShedKeeps

\* A node is done with.
LEMMA DoneKeeps ==
  ASSUME Assumptions, Inv, BalanceInv, NEW th \in Threads, agenda[th] # <<>>,
         NEW n \in Nodes, Item(th) \in Completing(n), NEW pre, pre = <<>> \/ \E x \in Items : Idle(x) /\ pre = <<x>>,
         Replace(th, pre \o OnDone(n)), UNCHANGED <<run, jobs, remaining>>
  PROVE  BalanceInv'
<1> DEFINE items == pre \o OnDone(n)
<1>1. /\ run \in Run /\ \A m \in Nodes : \A i \in DOMAIN Kids(m) : Kids(m)[i] \in Nodes /\ Parents(Kids(m)[i]) = {m}
      /\ \A m \in Nodes : Kids(m) = run.kids[m]
  BY Basics, OneParent, IsTree, TreeFacts DEF Inv
<1>2. \A m : /\ One(Item(th), Completing(m)) = IF m = n THEN 1 ELSE 0
             /\ One(Item(th), Reporting(m)) = 0 /\ \A i : One(Item(th), Covering(m, i)) = 0
  BY Kinds DEF One
<1>3. ASSUME items \in Seq(Items), \A m \in Nodes : Cardinality(Hits(items, Completing(m))) = 0,
             \A m \in Nodes : \A i \in Nat : Cardinality(Hits(items, Covering(m, i))) = 0
      PROVE  /\ Completions' = [Completions EXCEPT ![n] = Completions[n] - 1] /\ Completions[n] # 0
             /\ Covers' = Covers
  <2>1. \A m \in Nodes : \A i \in Nat : Number(Covering(m, i))' = Number(Covering(m, i))
    BY <1>2, <1>3, NumberChange
  <2>2. Covers' = Covers
    BY <2>1 DEF Covers
  <2>3. \A m \in Nodes : m # n => Number(Completing(m))' = Number(Completing(m))
    BY <1>2, <1>3, NumberChange
  <2>4. Number(Completing(n))' = Number(Completing(n)) - 1 /\ Number(Completing(n)) # 0
    BY <1>2, <1>3, NumberChange
  <2>5. Completions' = [m \in Nodes |-> Number(Completing(m))']
    BY DEF Completions
  <2> QED BY <2>2, <2>3, <2>4, <2>5 DEF Completions
<1>4. CASE Parents(n) = {}
  <2>1. items = pre
    BY <1>4, Singles DEF OnDone
  <2>2. items \in Seq(Items) /\ \A i \in DOMAIN items : Idle(items[i])
    BY <2>1, Singles
  <2> HIDE DEF items
  <2>3. \A m, i : /\ Cardinality(Hits(items, Completing(m))) = 0 /\ Cardinality(Hits(items, Reporting(m))) = 0
                  /\ Cardinality(Hits(items, Covering(m, i))) = 0
    BY <2>2, IdleFacts, HitsOfNone
  <2>4. Replace(th, items)
    BY DEF items
  <2>5. Reported' = Reported
    <3>1. \A m \in Nodes : Number(Reporting(m))' = Number(Reporting(m))
      BY <1>2, <2>2, <2>3, <2>4, NumberChange
    <3> QED BY <3>1 DEF Reported
  <2>6. \A p \in Nodes : \A i \in DOMAIN run.kids[p] : run.kids[p][i] # n
    BY <1>1, <1>4 DEF Kids
  <2>7. Numbers(Completions', Reported, Covers, remaining) /\ Balance(run.kids, Completions', Reported, Covers, remaining)
    <3>1. Put(Completions, n, Completions[n] - 1, Completions') /\ Completions[n] # 0 /\ Told(run.kids, Reported, n, Reported)
      BY <1>3, <2>2, <2>3, <2>6 DEF Put, Told
    <3> QED BY <3>1, IsTree, DoneBalance DEF BalanceInv
  <2> QED BY <1>3, <2>2, <2>3, <2>5, <2>7 DEF BalanceInv
<1>5. CASE Parents(n) # {}
  <2>1. PICK p \in Nodes : p \in Parents(n) /\ OnDone(n) = <<Do("childDone", p)>>
    BY <1>5 DEF OnDone, Parents
  <2>2. PICK i \in DOMAIN Kids(p) : Kids(p)[i] = n
    BY <2>1 DEF Parents
  <2> DEFINE y == Do("childDone", p)
  <2>3. y \in Items /\ y \in Reporting(p) /\ \A m, j : y \notin Covering(m, j)
    <3>1. y \in Items /\ y.op = "childDone" /\ y.node = p
      BY DoFacts DEF Plain
    <3> HIDE DEF y
    <3>2. Subject(y) = y
      BY <3>1 DEF Subject
    <3> QED BY <3>1, <3>2 DEF Reporting, Covering, Things
  <2> HIDE DEF y
  <2>4. OnDone(n) = <<y>>
    BY <2>1 DEF y
  <2>5. /\ items \in Seq(Items)
        /\ \A m, j : /\ Cardinality(Hits(items, Completing(m))) = 0
                     /\ Cardinality(Hits(items, Reporting(m))) = IF m = p THEN 1 ELSE 0
                     /\ Cardinality(Hits(items, Covering(m, j))) = 0
    <3>1. \A m, j : One(y, Completing(m)) = 0 /\ One(y, Reporting(m)) = (IF m = p THEN 1 ELSE 0) /\ One(y, Covering(m, j)) = 0
      BY <2>3, Kinds DEF One
    <3>2. CASE pre = <<>>
      <4>1. items = <<y>>
        BY <2>4, <3>2, Singles
      <4> HIDE DEF items
      <4>2. items \in Seq(Items)
        BY <2>3, <4>1, Singles
      <4>3. \A S : Cardinality(Hits(<<y>>, S)) = One(y, S)
        BY HitsOfFew
      <4>4. \A S : Cardinality(Hits(items, S)) = One(y, S)
        BY <4>1, <4>3, Zenon
      <4> QED BY <3>1, <4>2, <4>4
    <3>3. CASE \E x \in Items : Idle(x) /\ pre = <<x>>
      <4>1. PICK x \in Items : Idle(x) /\ pre = <<x>>
        BY <3>3
      <4>2. items = <<x, y>>
        BY <2>4, <4>1, TwoItems
      <4>3. \A m, j : One(x, Completing(m)) = 0 /\ One(x, Reporting(m)) = 0 /\ One(x, Covering(m, j)) = 0
        BY <4>1, IdleFacts DEF One
      <4> HIDE DEF items
      <4>4. items \in Seq(Items)
        BY <2>3, <4>2, Singles
      <4>5. ASSUME NEW S, One(x, S) = 0, One(y, S) \in Nat
            PROVE  Cardinality(Hits(items, S)) = One(y, S)
        <5>1. Cardinality(Hits(<<x, y>>, S)) = One(x, S) + One(y, S)
          BY HitsOfFew
        <5>2. Cardinality(Hits(<<x, y>>, S)) = One(y, S)
          BY <4>5, <5>1
        <5> QED BY <4>2, <5>2, Zenon
      <4> QED BY <3>1, <4>3, <4>4, <4>5
    <3> QED BY <3>2, <3>3
  <2> HIDE DEF items
  <2>6. Replace(th, items)
    BY DEF items
  <2>7. Reported' = [Reported EXCEPT ![p] = Reported[p] + 1]
    <3>1. \A m \in Nodes : m # p => Number(Reporting(m))' = Number(Reporting(m))
      BY <1>2, <2>5, <2>6, NumberChange
    <3>2. Number(Reporting(p))' = Number(Reporting(p)) + 1
      <4>1. Cardinality(Hits(items, Reporting(p))) = One(Item(th), Reporting(p)) + 1
        BY <1>2, <2>5
      <4> QED BY <2>5, <2>6, <4>1, NumberChange
    <3>3. Reported' = [m \in Nodes |-> Number(Reporting(m))']
      BY DEF Reported
    <3> QED BY <3>1, <3>2, <3>3 DEF Reported
  <2>8. \E j \in DOMAIN run.kids[p] : run.kids[p][j] = n
    BY <1>1, <2>2
  <2>9. Numbers(Completions', Reported', Covers, remaining) /\ Balance(run.kids, Completions', Reported', Covers, remaining)
    <3>1. /\ Completions' = [Completions EXCEPT ![n] = Completions[n] - 1] /\ Completions[n] # 0
      BY <1>3, <2>5
    <3>2. Put(Completions, n, Completions[n] - 1, Completions') /\ Told(run.kids, Reported, n, Reported')
      BY <2>7, <2>8, <3>1 DEF Put, Told
    <3>3. /\ Tree(run.kids) /\ Numbers(Completions, Reported, Covers, remaining)
          /\ Balance(run.kids, Completions, Reported, Covers, remaining)
      BY IsTree DEF BalanceInv
    <3> QED BY <3>1, <3>2, <3>3, DoneBalance
  <2> QED BY <1>3, <2>5, <2>9 DEF BalanceInv
<1> QED BY <1>4, <1>5
-----------------------------------------------------------------------------
(* The balance is kept *)

LEMMA AtHead ==
  ASSUME Assumptions, Inv, NEW th \in Threads, NEW op, At(th, op), op \notin {"submit", "enqueue"}
  PROVE  /\ agenda[th] # <<>> /\ Item(th) \in Items /\ Item(th).op = op /\ Within(Item(th))
         /\ Item(th) \in Things /\ Subject(Item(th)) = Item(th)
BY ItemFacts DEF At, Item, Things, Subject

LEMMA IdleOne ==
  /\ \A op \in {"dispatch", "enter", "touch", "descend", "claim", "record"}, n \in Nodes :
       Do(op, n) \in Items /\ Idle(Do(op, n))
  /\ \A op \in {"seed", "finish", "wait", "resolve"} : Do(op, None) \in Items /\ Idle(Do(op, None))
<1>1. ASSUME NEW op \in {"dispatch", "enter", "touch", "descend", "claim", "record"}, NEW n \in Nodes
      PROVE  Do(op, n) \in Items /\ Idle(Do(op, n))
  <2>1. op \in Plain
    BY DEF Plain
  <2>2. Do(op, n) \in Items /\ Do(op, n).op = op
    BY <2>1, DoFacts
  <2> QED BY <2>2 DEF Idle, Subject
<1>2. ASSUME NEW op \in {"seed", "finish", "wait", "resolve"}
      PROVE  Do(op, None) \in Items /\ Idle(Do(op, None))
  <2>1. Do(op, None) \in Items /\ Do(op, None).op = op
    BY DoFacts
  <2> QED BY <2>1 DEF Idle, Subject
<1> QED BY <1>1, <1>2

\* An idle item is replaced by another, or taken away.
LEMMA IdleStep ==
  ASSUME Assumptions, Inv, BalanceInv, NEW th \in Threads, agenda[th] # <<>>, Idle(Item(th)),
         Replace(th, <<>>) \/ \E x \in Items : Idle(x) /\ Replace(th, <<x>>),
         UNCHANGED <<run, jobs, remaining>>
  PROVE  BalanceInv'
<1>1. CASE Replace(th, <<>>)
  <2>1. <<>> \in Seq(Items) /\ \A i \in DOMAIN <<>> : Idle(<<>>[i])
    OBVIOUS
  <2> QED BY <1>1, <2>1, IdleKeeps
<1>2. CASE \E x \in Items : Idle(x) /\ Replace(th, <<x>>)
  <2>1. PICK x \in Items : Idle(x) /\ Replace(th, <<x>>)
    BY <1>2
  <2>2. <<x>> \in Seq(Items) /\ \A i \in DOMAIN <<x>> : Idle(<<x>>[i])
    BY <2>1, Singles
  <2> QED BY <2>1, <2>2, IdleKeeps
<1> QED BY <1>1, <1>2

LEMMA IdleStepsKeepBalance ==
  ASSUME Assumptions, Inv, BalanceInv, NEW th \in Threads,
         \/ Seed(th) \/ MaybeFinish(th) \/ Resolve(th) \/ Wait(th) \/ Claim(th) \/ Record(th)
         \/ Dispatch(th) \/ Enter(th) \/ Touch(th) \/ Descend(th)
  PROVE  BalanceInv'
<1> USE DEF state, visits, memory
<1>1. \E op \in {"seed", "finish", "resolve", "wait", "claim", "record", "dispatch", "enter", "touch", "descend"} :
        At(th, op)
  BY DEF Seed, MaybeFinish, Resolve, Wait, Claim, Record, Dispatch, Enter, Touch, Descend
<1>2. agenda[th] # <<>> /\ Item(th) \in Items /\ Idle(Item(th)) /\ UNCHANGED <<run, jobs, remaining>>
  <2>1. agenda[th] # <<>> /\ Item(th) \in Items /\ Idle(Item(th))
    BY <1>1, AtHead DEF Idle
  <2>2. UNCHANGED <<run, jobs, remaining>>
    BY DEF Seed, MaybeFinish, Resolve, Wait, Claim, Record, Dispatch, Enter, Touch, Descend
  <2> QED BY <2>1, <2>2
<1>3. CASE Seed(th) \/ Wait(th) \/ Record(th) \/ Resolve(th)
  BY <1>2, <1>3, IdleStep DEF Seed, Wait, Record, Resolve
<1>4. CASE MaybeFinish(th)
  <2>1. Replace(th, <<>>) \/ Replace(th, <<Do("resolve", None)>>)
    BY <1>4 DEF MaybeFinish
  <2> QED BY <1>2, <2>1, IdleOne, IdleStep
<1>5. CASE \E op \in {"claim", "dispatch", "enter", "touch", "descend"} : At(th, op)
  <2> DEFINE n == Item(th).node
  <2>1. n \in Nodes
    <3>1. PICK op \in {"claim", "dispatch", "enter", "touch", "descend"} : At(th, op)
      BY <1>5
    <3>2. Item(th) \in Items /\ Item(th).op = op
      BY <1>2, <3>1 DEF At, Item
    <3> QED BY <3>2 DEF Items
  <2> HIDE DEF n
  <2>2. \A op \in {"dispatch", "enter", "touch", "descend", "claim", "record"} : Do(op, n) \in Items /\ Idle(Do(op, n))
    BY <2>1, IdleOne
  <2>3. CASE Claim(th)
    <3>1. Replace(th, <<>>) \/ Replace(th, <<Do("record", n)>>)
      BY <2>3 DEF Claim, n
    <3> QED BY <1>2, <2>2, <3>1, IdleStep
  <2>4. CASE Dispatch(th)
    <3> DEFINE x == [op |-> "submit", job |-> Do("topDown", n)]
    <3>1. Replace(th, <<x>>) \/ Replace(th, <<Do("enter", n)>>)
      BY <2>4 DEF Dispatch, Schedule, n
    <3>2. x \in Items /\ Idle(x)
      <4>1. Do("topDown", n) \in Jobs /\ Do("topDown", n).op = "topDown"
        BY <2>1 DEF Jobs, Do
      <4>2. Subject(x) = Do("topDown", n) /\ x \in Items
        BY <4>1, SubmitFacts DEF Items
      <4> HIDE DEF x
      <4> QED BY <4>1, <4>2 DEF Idle
    <3> HIDE DEF x
    <3> QED BY <1>2, <2>2, <3>1, <3>2, IdleStep
  <2>5. CASE Enter(th)
    <3>1. Replace(th, <<>>) \/ Replace(th, <<Do("touch", n)>>)
      BY <2>5 DEF Enter, n
    <3> QED BY <1>2, <2>2, <3>1, IdleStep
  <2>6. CASE Touch(th)
    <3>1. <<Do("claim", n)>> \o <<>> = <<Do("claim", n)>>
      OBVIOUS
    <3>2. Replace(th, <<Do("descend", n)>>) \/ Replace(th, <<Do("claim", n)>>)
      BY <2>6, <3>1 DEF Touch, Call, n
    <3> QED BY <1>2, <2>2, <3>2, IdleStep
  <2>7. CASE Descend(th)
    <3>1. Replace(th, <<>>) \/ Replace(th, Each("dispatch", Kids(n)))
      BY <2>7 DEF Descend, n
    <3>2. CASE Replace(th, <<>>)
      BY <1>2, <3>2, IdleStep
    <3>3. CASE Replace(th, Each("dispatch", Kids(n)))
      <4> DEFINE items == Each("dispatch", Kids(n))
      <4>1. Kids(n) \in Seq(Nodes)
        BY <2>1, Basics DEF Inv
      <4>2. items \in Seq(Items) /\ \A i \in DOMAIN items : Idle(items[i])
        <5>1. /\ items \in Seq(Items) /\ Len(items) = Len(Kids(n)) /\ Len(Kids(n)) \in Nat
              /\ \A i \in 1 .. Len(Kids(n)) : Kids(n)[i] \in Nodes /\ items[i] = Do("dispatch", Kids(n)[i])
          BY <4>1, EachFacts
        <5>2. DOMAIN items = 1 .. Len(Kids(n))
          BY <5>1, LenProperties
        <5> HIDE DEF items
        <5> QED BY <5>1, <5>2, IdleOne
      <4> HIDE DEF items
      <4>3. Replace(th, items)
        BY <3>3 DEF items
      <4> QED BY <1>2, <4>2, <4>3, IdleKeeps
    <3> QED BY <3>1, <3>2, <3>3
  <2>8. Claim(th) \/ Dispatch(th) \/ Enter(th) \/ Touch(th) \/ Descend(th)
    BY <1>5 DEF Seed, MaybeFinish, Resolve, Wait, Record, At
  <2> QED BY <2>3, <2>4, <2>5, <2>6, <2>7, <2>8
<1>6. CASE \A op \in {"claim", "dispatch", "enter", "touch", "descend"} : ~At(th, op)
  BY <1>3, <1>4, <1>6 DEF Claim, Dispatch, Enter, Touch, Descend
<1> QED BY <1>5, <1>6

LEMMA BodyHits ==
  ASSUME NEW job \in Jobs, job.op = "batch" => Fits(job), NEW S, Uniform(S)
  PROVE  Body(job) \in Seq(Items) /\ Cardinality(Hits(Body(job), S)) = One(job, S)
<1>1. Body(job) \in Seq(Items)
  <2>1. TRUE \in BOOLEAN
    OBVIOUS
  <2> QED BY <2>1, BodyProper
<1>2. PICK x : Body(job) = <<x, Do("finish", None)>>
  BY DEF Body
<1>3. x \in S <=> job \in S
  <2>1. Body(job)[1] = x
    BY <1>2
  <2> QED BY <2>1 DEF Uniform
<1>4. Cardinality(Hits(Body(job), S)) = One(x, S) + One(Do("finish", None), S)
  BY <1>2, HitsOfFew
<1>5. One(Do("finish", None), S) = 0 /\ One(x, S) = One(job, S) /\ One(x, S) \in Nat
  BY <1>3 DEF One, Uniform
<1> QED BY <1>1, <1>4, <1>5

LEMMA SubmitKeepsBalance ==
  ASSUME Assumptions, Inv, BalanceInv, NEW th \in Threads, Submit(th)
  PROVE  BalanceInv'
<1> USE DEF state, visits, memory
<1> DEFINE job == Item(th).job
           y   == [op |-> "enqueue", job |-> job]
<1>1. agenda[th] # <<>> /\ Item(th).op = "submit"
  BY DEF Submit, At, Item
<1>2. Item(th) \in Items /\ Within(Item(th)) /\ job \in Jobs /\ Item(th) = [op |-> "submit", job |-> job]
  <2>1. Item(th) \in Items /\ Within(Item(th))
    BY <1>1, ItemFacts
  <2> QED BY <1>1, <2>1 DEF Items, Plain
<1>3. job.op = "batch" => Fits(job)
  BY <1>1, <1>2 DEF Within
<1>4. Replace(th, Body(job)) \/ Replace(th, <<y>>)
  BY DEF Submit
<1>5. UNCHANGED <<run, jobs, remaining>>
  BY DEF Submit
<1>6. y \in Items
  BY <1>2 DEF Items
<1> DEFINE x == [op |-> "submit", job |-> job]
<1>7. ASSUME NEW S, Uniform(S)
      PROVE  One(Item(th), S) = One(job, S) /\ One(y, S) = One(job, S) /\ One(job, S) \in Nat
  <2>1. (x \in S <=> job \in S) /\ (y \in S <=> job \in S)
    BY <1>2, <1>7 DEF Uniform
  <2>2. Item(th) = x
    BY <1>2
  <2> HIDE DEF x, y, job
  <2> QED BY <2>1, <2>2 DEF One
<1> HIDE DEF x, y, job
<1>8. CASE Replace(th, Body(job))
  <2>1. Body(job) \in Seq(Items) /\ \A S : Uniform(S) => /\ Cardinality(Hits(Body(job), S)) = One(Item(th), S)
                                                         /\ Cardinality(Hits(Body(job), S)) <= One(Item(th), S)
    <3>1. Body(job) \in Seq(Items)
      <4>1. Uniform({})
        BY DEF Uniform
      <4> QED BY <1>2, <1>3, <4>1, BodyHits
    <3>2. ASSUME NEW S, Uniform(S)
          PROVE  /\ Cardinality(Hits(Body(job), S)) = One(Item(th), S)
                 /\ Cardinality(Hits(Body(job), S)) <= One(Item(th), S)
      <4>1. Cardinality(Hits(Body(job), S)) = One(job, S) /\ One(Item(th), S) = One(job, S) /\ One(job, S) \in Nat
        BY <1>2, <1>3, <1>7, <3>2, BodyHits
      <4> QED BY <4>1
    <3> QED BY <3>1, <3>2
  <2> QED BY <1>1, <1>5, <1>8, <2>1, AreUniform, ShedKeeps
<1>9. CASE Replace(th, <<y>>)
  <2>1. \A S : Uniform(S) => (y \in S <=> Item(th) \in S)
    BY <1>7 DEF One
  <2> QED BY <1>1, <1>5, <1>6, <1>9, <2>1, AreUniform, SameKeeps
<1> QED BY <1>4, <1>8, <1>9

LEMMA QueueKeepsBalance ==
  ASSUME Assumptions, Inv, BalanceInv,
         (\E th \in Threads : Enqueue(th)) \/ (\E w \in Workers : Start(w))
  PROVE  BalanceInv'
<1>1. \A S : Uniform(S) => Number(S)' = Number(S)
  BY NumberEnqueued, NumberStarted
<1>2. \A n, i : /\ Number(Completing(n))' = Number(Completing(n)) /\ Number(Reporting(n))' = Number(Reporting(n))
                /\ Number(Covering(n, i))' = Number(Covering(n, i))
  BY <1>1, AreUniform
<1>3. Completions' = Completions /\ Reported' = Reported /\ Covers' = Covers
  BY <1>2 DEF Completions, Reported, Covers
<1>4. run' = run /\ remaining' = remaining
  BY DEF Enqueue, Start
<1> QED BY <1>3, <1>4 DEF BalanceInv

LEMMA CompleteKeepsBalance ==
  ASSUME Assumptions, Inv, BalanceInv, NEW th \in Threads, Complete(th) \/ Again(th) \/ Work(th)
  PROVE  BalanceInv'
<1> USE DEF state, visits, memory
<1> DEFINE n == Item(th).node
           x == [op |-> "submit", job |-> Do("node", n)]
<1>1. PICK op \in {"complete", "again", "work"} : At(th, op)
  BY DEF Complete, Again, Work
<1>2. /\ agenda[th] # <<>> /\ Item(th) \in Items /\ Item(th).op = op /\ n \in Nodes
      /\ Item(th) \in Completing(n) /\ UNCHANGED <<run, jobs, remaining>>
  <2>1. /\ agenda[th] # <<>> /\ Item(th) \in Items /\ Item(th).op = op
        /\ Item(th) \in Things /\ Subject(Item(th)) = Item(th)
    BY <1>1, AtHead
  <2>2. n \in Nodes
    BY <2>1 DEF Items
  <2>3. Item(th) \in Completing(n)
    BY <2>1 DEF Completing
  <2>4. UNCHANGED <<run, jobs, remaining>>
    BY DEF Complete, Again, Work
  <2> QED BY <2>1, <2>2, <2>3, <2>4
<1>3. /\ x \in Items /\ x \in Completing(n)
      /\ Do("work", n) \in Items /\ Do("work", n) \in Completing(n)
      /\ Do("claim", n) \in Items /\ Idle(Do("claim", n))
  <2>1. Do("node", n) \in Jobs /\ Do("node", n).op = "node" /\ Do("node", n).node = n
    BY <1>2 DEF Jobs, Do
  <2>2. x \in Items /\ x \in Things /\ Subject(x) = Do("node", n)
    BY <2>1, SubmitFacts DEF Items
  <2> DEFINE w == Do("work", n)
  <2>3. w \in Items /\ w.op = "work" /\ w.node = n
    BY <1>2, DoFacts DEF Plain
  <2> HIDE DEF x, w
  <2>4. x \in Completing(n)
    BY <2>1, <2>2 DEF Completing
  <2>5. w \in Completing(n)
    BY <2>3 DEF Completing, Subject, Things
  <2> QED BY <1>2, <2>2, <2>3, <2>4, <2>5, IdleOne DEF w
<1>4. \/ Replace(th, OnDone(n)) \/ Replace(th, <<Do("claim", n)>> \o OnDone(n))
      \/ Replace(th, <<x>>) \/ Replace(th, <<Do("work", n)>>)
  BY DEF Complete, Again, Work, Call, Schedule
<1> HIDE DEF x, n
<1>5. ASSUME NEW y \in Items, y \in Completing(n), Replace(th, <<y>>)
      PROVE  BalanceInv'
  <2>1. \A m : /\ y \in Completing(m) <=> Item(th) \in Completing(m)
               /\ y \in Reporting(m) <=> Item(th) \in Reporting(m)
               /\ \A i : y \in Covering(m, i) => Item(th) \in Covering(m, i)
    BY <1>2, <1>5, Kinds
  <2> QED BY <1>2, <1>5, <2>1, SameKeeps
<1>6. CASE Replace(th, OnDone(n))
  <2>1. <<>> \o OnDone(n) = OnDone(n)
    BY <1>2, OnDoneFacts
  <2> QED BY <1>2, <1>6, <2>1, DoneKeeps
<1>7. CASE Replace(th, <<Do("claim", n)>> \o OnDone(n))
  <2>1. \E c \in Items : Idle(c) /\ <<Do("claim", n)>> = <<c>>
    BY <1>3
  <2> QED BY <1>2, <1>7, <2>1, DoneKeeps
<1> QED BY <1>3, <1>4, <1>5, <1>6, <1>7

LEMMA LeavesKeepBalance ==
  ASSUME Assumptions, Inv, BalanceInv, NEW th \in Threads, Batch(th) \/ Leaf(th)
  PROVE  BalanceInv'
<1> USE DEF state, visits, memory
<1> DEFINE b == Item(th)
           n == b.node
           c == Do("childDone", n)
           e == Do("claim", Kids(n)[b.lo])
<1>1. PICK op \in {"batch", "leaf"} : At(th, op)
  BY DEF Batch, Leaf
<1>2. /\ agenda[th] # <<>> /\ b \in Items /\ b.op = op /\ Within(b) /\ n \in Nodes
      /\ b.lo \in Nat \ {0} /\ b.hi \in Nat /\ Subject(b) = b /\ b \in Things
      /\ UNCHANGED <<run, jobs, remaining>>
  <2>1. agenda[th] # <<>> /\ b \in Items /\ b.op = op /\ Within(b) /\ Subject(b) = b /\ b \in Things
    BY <1>1, AtHead
  <2>2. n \in Nodes /\ b.lo \in Nat /\ b.hi \in Nat
    BY <2>1 DEF Items, Plain
  <2>3. b.lo \in Nat \ {0}
    BY <2>1 DEF Within
  <2>4. UNCHANGED <<run, jobs, remaining>>
    BY DEF Batch, Leaf
  <2> QED BY <2>1, <2>2, <2>3, <2>4
<1>3. c \in Items /\ c.op = "childDone" /\ c.node = n
  BY <1>2, DoFacts DEF Plain
<1>4. /\ \A m : b \in Reporting(m) <=> m = n
      /\ \A m : c \in Reporting(m) <=> m = n
      /\ \A m : b \notin Completing(m) /\ c \notin Completing(m)
      /\ \A m, i : c \notin Covering(m, i)
      /\ \A m, i : b \in Covering(m, i) <=> m = n /\ b.lo <= i /\ i < b.hi
  <2> HIDE DEF b, c
  <2>1. Subject(c) = c /\ c \in Things
    BY <1>3 DEF Subject, Things
  <2>2. \A m : b \in Reporting(m) <=> m = n
    BY <1>2 DEF Reporting
  <2>3. \A m : c \in Reporting(m) <=> m = n
    BY <1>3, <2>1 DEF Reporting
  <2>4. \A m : b \notin Completing(m) /\ c \notin Completing(m)
    BY <1>2, <1>3, <2>1 DEF Completing
  <2>5. \A m, i : c \notin Covering(m, i)
    BY <1>3, <2>1 DEF Covering
  <2>6. \A m, i : b \in Covering(m, i) <=> m = n /\ b.lo <= i /\ i < b.hi
    BY <1>2 DEF Covering
  <2> QED BY <2>2, <2>3, <2>4, <2>5, <2>6
<1>5. ASSUME NEW o \in {"batch", "leaf"}, NEW lo \in Nat, lo >= b.lo, Replace(th, <<Span(o, n, lo, b.hi)>>)
      PROVE  BalanceInv'
  <2> DEFINE x == Span(o, n, lo, b.hi)
  <2>1. x \in Items /\ x.op = o /\ x.node = n /\ x.lo = lo /\ x.hi = b.hi
    BY <1>2, SpanFacts
  <2>2. Replace(th, <<x>>)
    BY <1>5
  <2> HIDE DEF x, b
  <2>3. Subject(x) = x /\ x \in Things
    BY <2>1 DEF Subject, Things
  <2>4. \A m : (x \in Reporting(m) <=> m = n) /\ x \notin Completing(m)
    BY <2>1, <2>3 DEF Reporting, Completing
  <2>5. \A m : \A i \in Nat : x \in Covering(m, i) => b \in Covering(m, i)
    <3>1. ASSUME NEW m, NEW i \in Nat, x \in Covering(m, i)
          PROVE  m = n /\ lo <= i /\ i < b.hi
      BY <2>1, <2>3, <3>1 DEF Covering
    <3>2. \A i \in Nat : lo <= i => b.lo <= i
      BY <1>2, <1>5
    <3> QED BY <1>4, <3>1, <3>2
  <2> QED BY <1>2, <1>4, <2>1, <2>2, <2>4, <2>5, SameKeeps DEF b
<1>6. CASE Replace(th, <<c>>)
  BY <1>2, <1>3, <1>4, <1>6, SameKeeps
<1>7. CASE Leaf(th) /\ Replace(th, <<e>> \o <<c>>)
  <2>1. e \in Items /\ Idle(e)
    <3>0. b.op = "leaf"
      BY <1>7 DEF Leaf, At, Item
    <3>1. b.lo < b.hi /\ b.hi <= Len(Kids(n)) + 1
      BY <1>2, <3>0 DEF Within
    <3>2. b.lo \in 1 .. Len(Kids(n))
      BY <1>2, <3>1, Basics DEF Inv
    <3>3. Kids(n)[b.lo] \in Nodes
      BY <1>2, <3>2, Basics DEF Inv
    <3> QED BY <3>3, IdleOne
  <2> HIDE DEF e, c, b
  <2>2. <<e>> \o <<c>> = <<e, c>>
    BY TwoItems
  <2>3. <<e, c>> \in Seq(Items) /\ Replace(th, <<e, c>>)
    BY <1>3, <1>7, <2>1, <2>2, Singles
  <2>4. \A m, i : /\ One(e, Completing(m)) = 0 /\ One(e, Reporting(m)) = 0 /\ One(e, Covering(m, i)) = 0
                  /\ One(c, Completing(m)) = One(b, Completing(m)) /\ One(c, Reporting(m)) = One(b, Reporting(m))
                  /\ One(c, Covering(m, i)) = 0
    BY <1>4, <2>1, IdleFacts DEF One
  <2>5. \A S : Cardinality(Hits(<<e, c>>, S)) = One(e, S) + One(c, S) /\ One(c, S) \in Nat /\ One(b, S) \in Nat
    BY HitsOfFew DEF One
  <2>6. ASSUME NEW S, One(e, S) = 0
        PROVE  Cardinality(Hits(<<e, c>>, S)) = One(c, S)
    BY <2>5, <2>6
  <2>7. ASSUME NEW S, One(e, S) = 0, One(c, S) = 0
        PROVE  Cardinality(Hits(<<e, c>>, S)) <= One(b, S)
    BY <2>5, <2>7
  <2>8. \A m \in Nodes : /\ Cardinality(Hits(<<e, c>>, Completing(m))) = One(b, Completing(m))
                         /\ Cardinality(Hits(<<e, c>>, Reporting(m))) = One(b, Reporting(m))
                         /\ \A i \in Nat : Cardinality(Hits(<<e, c>>, Covering(m, i))) <= One(b, Covering(m, i))
    BY <2>4, <2>6, <2>7
  <2> QED BY <1>2, <2>3, <2>8, ShedKeeps DEF b
<1>8. CASE Batch(th)
  <2>1. Replace(th, <<c>>) \/ Replace(th, <<Span("leaf", n, b.lo, b.hi)>>)
    BY <1>8 DEF Batch
  <2>2. b.lo \in Nat /\ b.lo >= b.lo
    BY <1>2
  <2> QED BY <1>5, <1>6, <2>1, <2>2
<1>9. CASE Leaf(th)
  <2>1. Replace(th, <<Span("batch", n, b.lo + 1, b.hi)>>) \/ Replace(th, <<e>> \o <<c>>)
    BY <1>9 DEF Leaf, Call
  <2>2. b.lo + 1 \in Nat /\ b.lo + 1 >= b.lo
    BY <1>2
  <2> QED BY <1>5, <1>7, <1>9, <2>1, <2>2
<1> QED BY <1>8, <1>9

\* What the next state counts.
LEMMA NumbersChange ==
  ASSUME Assumptions, Inv, NEW th \in Threads, agenda[th] # <<>>,
         NEW items \in Seq(Items), Replace(th, items), jobs' = jobs
  PROVE  /\ Completions' \in [Nodes -> Nat] /\ Reported' \in [Nodes -> Nat] /\ Covers' \in [Nodes \X Nat -> Nat]
         /\ \A m \in Nodes : Completions'[m] = Number(Completing(m))' /\ Completions[m] = Number(Completing(m))
         /\ \A m \in Nodes : Reported'[m] = Number(Reporting(m))' /\ Reported[m] = Number(Reporting(m))
         /\ \A m \in Nodes, i \in Nat : /\ Covers'[<<m, i>>] = Number(Covering(m, i))'
                                        /\ Covers[<<m, i>>] = Number(Covering(m, i))
<1>1. \A S : Number(S)' \in Nat
  BY NumberChange
<1>2. /\ Completions' = [m \in Nodes |-> Number(Completing(m))'] /\ Reported' = [m \in Nodes |-> Number(Reporting(m))']
      /\ Covers' = [p \in Nodes \X Nat |-> Number(Covering(p[1], p[2]))']
  BY DEF Completions, Reported, Covers
<1> QED BY <1>1, <1>2 DEF Completions, Reported, Covers

LEMMA IsPut ==
  ASSUME NEW n \in Nodes, NEW f \in [Nodes -> Nat], NEW g \in [Nodes -> Nat], NEW v, g[n] = v,
         \A m \in Nodes : m # n => g[m] = f[m]
  PROVE  Put(f, n, v, g)
BY DEF Put

LEMMA BottomUpKeepsBalance ==
  ASSUME Assumptions, Inv, BalanceInv, NEW th \in Threads, BottomUp(th)
  PROVE  BalanceInv'
<1> USE DEF state, visits, memory
<1> DEFINE n == Item(th).node
           c == Do("complete", n)
<1>1. /\ agenda[th] # <<>> /\ Item(th) \in Items /\ Item(th).op = "visit" /\ n \in Nodes
      /\ Item(th) \in Completing(n) /\ UNCHANGED <<run, jobs>>
  <2>1. /\ agenda[th] # <<>> /\ Item(th) \in Items /\ Item(th).op = "visit"
        /\ Item(th) \in Things /\ Subject(Item(th)) = Item(th)
    BY AtHead DEF BottomUp
  <2>2. n \in Nodes
    BY <2>1 DEF Items
  <2>3. Item(th) \in Completing(n)
    BY <2>1 DEF Completing
  <2>4. UNCHANGED <<run, jobs>>
    BY DEF BottomUp
  <2> QED BY <2>1, <2>2, <2>3, <2>4
<1>2. \/ IsLeaf(n) /\ Replace(th, <<c>>) /\ UNCHANGED remaining
      \/ /\ ~IsLeaf(n) /\ remaining' = [remaining EXCEPT ![n] = StartCount(n)]
         /\ Replace(th, IF run.budget = 0 THEN Each("visit", Kids(n)) ELSE <<NextUnit(n, 1)>>)
  BY DEF BottomUp
<1> HIDE DEF n
<1>3. \A m : /\ One(Item(th), Completing(m)) = (IF m = n THEN 1 ELSE 0)
             /\ One(Item(th), Reporting(m)) = 0 /\ \A i : One(Item(th), Covering(m, i)) = 0
  BY <1>1, Kinds DEF One
<1>4. /\ Tree(run.kids) /\ Kids(n) = run.kids[n] /\ run.kids' = run.kids
      /\ Numbers(Completions, Reported, Covers, remaining)
      /\ Balance(run.kids, Completions, Reported, Covers, remaining) /\ Backed(Covers, Reported)
  BY <1>1, IsTree, NumbersAre DEF BalanceInv
<1>5. CASE IsLeaf(n) /\ Replace(th, <<c>>) /\ UNCHANGED remaining
  <2>1. c \in Items /\ c \in Completing(n)
    <3>1. c \in Items /\ c.op = "complete" /\ c.node = n
      BY <1>1, DoFacts DEF Plain
    <3> HIDE DEF c
    <3> QED BY <3>1 DEF Completing, Subject, Things
  <2> HIDE DEF c
  <2>2. \A m : /\ c \in Completing(m) <=> Item(th) \in Completing(m)
               /\ c \in Reporting(m) <=> Item(th) \in Reporting(m)
               /\ \A i : c \in Covering(m, i) => Item(th) \in Covering(m, i)
    BY <1>1, <2>1, Kinds
  <2> QED BY <1>1, <1>5, <2>1, <2>2, SameKeeps
<1>6. CASE /\ ~IsLeaf(n) /\ run.budget = 0 /\ remaining' = [remaining EXCEPT ![n] = Len(Kids(n))]
           /\ Replace(th, Each("visit", Kids(n)))
  <2> DEFINE items == Each("visit", Kids(n))
  <2>1. /\ items \in Seq(Items) /\ DOMAIN items = DOMAIN Kids(n)
        /\ \A i \in DOMAIN Kids(n) : Kids(n)[i] \in Nodes /\ items[i] = Do("visit", Kids(n)[i])
    <3>1. Kids(n) \in Seq(Nodes)
      BY <1>1, Basics DEF Inv
    <3>2. DOMAIN items = DOMAIN Kids(n)
      BY <3>1 DEF Each
    <3>3. DOMAIN Kids(n) = 1 .. Len(Kids(n))
      BY <3>1, LenProperties
    <3>4. /\ items \in Seq(Items) /\ \A i \in 1 .. Len(Kids(n)) : Kids(n)[i] \in Nodes /\ items[i] = Do("visit", Kids(n)[i])
      BY <3>1, EachFacts
    <3> QED BY <3>2, <3>3, <3>4
  <2> HIDE DEF items
  <2>2. \A i \in DOMAIN items : items[i] \in Completing(run.kids[n][i])
    <3>1. ASSUME NEW k \in Nodes
          PROVE  Do("visit", k) \in Completing(k)
      <4> DEFINE v == Do("visit", k)
      <4>1. v \in Items /\ v.op = "visit" /\ v.node = k
        BY DoFacts DEF Plain
      <4> HIDE DEF v
      <4>2. v \in Completing(k)
        BY <4>1 DEF Completing, Subject, Things
      <4> QED BY <4>2 DEF v
    <3> QED BY <1>4, <2>1, <3>1
  <2>3. ASSUME NEW m \in Nodes
        PROVE  /\ (\E i \in DOMAIN run.kids[n] : run.kids[n][i] = m) => Cardinality(Hits(items, Completing(m))) = 1
               /\ (\A i \in DOMAIN run.kids[n] : run.kids[n][i] # m) => Cardinality(Hits(items, Completing(m))) = 0
               /\ Cardinality(Hits(items, Reporting(m))) = 0
               /\ \A i : Cardinality(Hits(items, Covering(m, i))) = 0
    <3>1. \A j \in DOMAIN items : /\ items[j] \in Completing(m) <=> run.kids[n][j] = m
                                  /\ items[j] \notin Reporting(m) /\ \A i : items[j] \notin Covering(m, i)
      BY <2>2, Kinds
    <3>2. DOMAIN items = DOMAIN run.kids[n]
      BY <1>4, <2>1
    <3>3. ASSUME NEW i \in DOMAIN run.kids[n], run.kids[n][i] = m
          PROVE  Cardinality(Hits(items, Completing(m))) = 1
      <4>1. \A j \in DOMAIN run.kids[n] : run.kids[n][j] = m <=> j = i
        BY <1>1, <1>4, <3>3 DEF Tree
      <4>2. Hits(items, Completing(m)) = {i}
        BY <3>1, <3>2, <4>1 DEF Hits
      <4> QED BY <4>2, FS_Singleton
    <3>4. /\ (\A i \in DOMAIN run.kids[n] : run.kids[n][i] # m) => Cardinality(Hits(items, Completing(m))) = 0
          /\ Cardinality(Hits(items, Reporting(m))) = 0
          /\ \A i : Cardinality(Hits(items, Covering(m, i))) = 0
      BY <3>1, <3>2, HitsOfNone
    <3> QED BY <3>3, <3>4
  <2>4. Replace(th, items)
    BY <1>6 DEF items
  <2>5. Reported' = Reported /\ Covers' = Covers
    <3>1. \A m \in Nodes : /\ Number(Reporting(m))' = Number(Reporting(m))
                           /\ \A i \in Nat : Number(Covering(m, i))' = Number(Covering(m, i))
      BY <1>1, <1>3, <2>1, <2>3, <2>4, NumberChange
    <3> QED BY <3>1 DEF Reported, Covers
  <2>6. ASSUME NEW m \in Nodes
        PROVE  /\ (\E i \in DOMAIN run.kids[n] : run.kids[n][i] = m) /\ m # n => Number(Completing(m))' = Number(Completing(m)) + 1
               /\ (\A i \in DOMAIN run.kids[n] : run.kids[n][i] # m) /\ m # n => Number(Completing(m))' = Number(Completing(m))
               /\ m = n => Number(Completing(m))' = Number(Completing(m)) - 1 /\ Number(Completing(m)) # 0
    <3>1. m # n => One(Item(th), Completing(m)) = 0
      BY <1>3
    <3>2. (\E i \in DOMAIN run.kids[n] : run.kids[n][i] = m) /\ m # n => Cardinality(Hits(items, Completing(m))) = One(Item(th), Completing(m)) + 1
      BY <2>3, <3>1
    <3>3. (\A i \in DOMAIN run.kids[n] : run.kids[n][i] # m) /\ m # n => Cardinality(Hits(items, Completing(m))) = One(Item(th), Completing(m))
      BY <2>3, <3>1
    <3>4. m = n => Cardinality(Hits(items, Completing(m))) = 0 /\ Item(th) \in Completing(m)
      BY <1>1, <1>4, <2>3 DEF Tree
    <3> QED BY <1>1, <2>1, <2>4, <3>2, <3>3, <3>4, NumberChange
  <2>7. /\ Completions' \in [Nodes -> Nat] /\ Completions \in [Nodes -> Nat]
        /\ Completions'[n] = Completions[n] - 1 /\ Completions[n] # 0
        /\ \A m \in Nodes : m # n =>
             Completions'[m] = Completions[m] + (IF \E i \in DOMAIN run.kids[n] : run.kids[n][i] = m THEN 1 ELSE 0)
    <3>1. Completions \in [Nodes -> Nat] /\ Completions' \in [Nodes -> Nat]
      BY <1>1, <2>1, <2>4, NumbersChange DEF BalanceInv, Numbers
    <3>2. \A m \in Nodes : Completions'[m] = Number(Completing(m))' /\ Completions[m] = Number(Completing(m))
      BY <1>1, <2>1, <2>4, NumbersChange
    <3> QED BY <1>1, <2>6, <3>1, <3>2
  <2>8. /\ Numbers(Completions', Reported, Covers, remaining')
        /\ Balance(run.kids, Completions', Reported, Covers, remaining')
    <3>1. Put(remaining, n, Len(run.kids[n]), remaining') /\ run.kids[n] # <<>>
      BY <1>4, <1>6 DEF Put, IsLeaf
    <3> QED BY <1>1, <1>4, <2>7, <3>1, ChildrenBalance, SMTT(30)
  <2> QED BY <1>4, <2>5, <2>8 DEF BalanceInv
<1>7. CASE /\ ~IsLeaf(n) /\ run.budget # 0 /\ remaining' = [remaining EXCEPT ![n] = 1]
           /\ Replace(th, <<NextUnit(n, 1)>>)
  <2> DEFINE u == NextUnit(n, 1)
  <2>1. u \in Items /\ u.op = "unit" /\ u.node = n
    <3>1. Len(Kids(n)) \in Nat \ {0}
      <4>1. Kids(n) \in Seq(Nodes)
        BY <1>1, Basics DEF Inv
      <4> QED BY <1>7, <4>1, EmptySeq DEF IsLeaf
    <3>2. 1 \in 1 .. Len(Kids(n)) + 1 /\ 1 <= Len(Kids(n))
      BY <3>1
    <3>3. u \in Items
      BY <1>1, <3>2, NextUnitFacts DEF Inv
    <3>4. u = [op |-> "unit", node |-> n, lo |-> 1]
      BY <3>2 DEF NextUnit
    <3> QED BY <3>3, <3>4
  <2> HIDE DEF u
  <2>2. /\ u \in Reporting(n) /\ \A m : u \notin Completing(m)
        /\ \A m, i : m # n => u \notin Covering(m, i)
    BY <2>1 DEF Reporting, Completing, Covering, Subject, Things
  <2>3. \A m : /\ Cardinality(Hits(<<u>>, Completing(m))) = 0
               /\ Cardinality(Hits(<<u>>, Reporting(m))) = (IF m = n THEN 1 ELSE 0)
               /\ \A i : /\ Cardinality(Hits(<<u>>, Covering(m, i))) <= 1
                         /\ m # n => Cardinality(Hits(<<u>>, Covering(m, i))) <= 0
    <3>1. \A S : Cardinality(Hits(<<u>>, S)) = One(u, S)
      BY HitsOfFew
    <3>2. \A m : /\ One(u, Completing(m)) = 0 /\ One(u, Reporting(m)) = (IF m = n THEN 1 ELSE 0)
                 /\ \A i : One(u, Covering(m, i)) <= 1 /\ (m # n => One(u, Covering(m, i)) <= 0)
      BY <2>2, Kinds DEF One
    <3> QED BY <3>1, <3>2
  <2>4. <<u>> \in Seq(Items) /\ Replace(th, <<u>>)
    BY <1>7, <2>1, Singles DEF u
  <2>5. ASSUME NEW m \in Nodes
        PROVE  /\ m = n => /\ Number(Completing(m))' = Number(Completing(m)) - 1 /\ Number(Completing(m)) # 0
                           /\ Number(Reporting(m))' = Number(Reporting(m)) + 1
                           /\ \A i : Number(Covering(m, i))' <= Number(Covering(m, i)) + 1
               /\ m # n => /\ Number(Completing(m))' = Number(Completing(m)) /\ Number(Reporting(m))' = Number(Reporting(m))
                           /\ \A i : Number(Covering(m, i))' <= Number(Covering(m, i))
    <3>1. CASE m = n
      <4>1. /\ Cardinality(Hits(<<u>>, Completing(m))) = 0 /\ Item(th) \in Completing(m)
            /\ Cardinality(Hits(<<u>>, Reporting(m))) = One(Item(th), Reporting(m)) + 1
            /\ \A i : Cardinality(Hits(<<u>>, Covering(m, i))) <= One(Item(th), Covering(m, i)) + 1
        BY <1>1, <1>3, <2>3, <3>1
      <4> QED BY <1>1, <2>4, <3>1, <4>1, NumberChange
    <3>2. CASE m # n
      <4>1. /\ Cardinality(Hits(<<u>>, Completing(m))) = One(Item(th), Completing(m))
            /\ Cardinality(Hits(<<u>>, Reporting(m))) = One(Item(th), Reporting(m))
            /\ \A i : Cardinality(Hits(<<u>>, Covering(m, i))) <= One(Item(th), Covering(m, i))
        BY <1>3, <2>3, <3>2
      <4> QED BY <1>1, <2>4, <3>2, <4>1, NumberChange
    <3> QED BY <3>1, <3>2
  <2>6. /\ Completions \in [Nodes -> Nat] /\ Completions' \in [Nodes -> Nat]
        /\ Reported \in [Nodes -> Nat] /\ Reported' \in [Nodes -> Nat]
        /\ Covers \in [Nodes \X Nat -> Nat] /\ Covers' \in [Nodes \X Nat -> Nat]
    BY <1>1, <2>4, NumbersChange DEF BalanceInv, Numbers
  <2>7. /\ \A m \in Nodes : Completions'[m] = Number(Completing(m))' /\ Completions[m] = Number(Completing(m))
        /\ \A m \in Nodes : Reported'[m] = Number(Reporting(m))' /\ Reported[m] = Number(Reporting(m))
        /\ \A m \in Nodes, i \in Nat : /\ Covers'[<<m, i>>] = Number(Covering(m, i))'
                                       /\ Covers[<<m, i>>] = Number(Covering(m, i))
    BY <1>1, <2>4, NumbersChange
  <2>8. /\ Put(Completions, n, Completions[n] - 1, Completions') /\ Completions[n] # 0
        /\ Put(Reported, n, Reported[n] + 1, Reported')
    BY <1>1, <2>5, <2>6, <2>7, IsPut
  <2>9. OneMore(Covers', Covers, n)
    <3>1. ASSUME NEW m \in Nodes, NEW i \in Nat
          PROVE  Covers'[<<m, i>>] <= Covers[<<m, i>>] + (IF m = n THEN 1 ELSE 0)
      <4>1. /\ m = n => Covers'[<<m, i>>] <= Covers[<<m, i>>] + 1
            /\ m # n => Covers'[<<m, i>>] <= Covers[<<m, i>>]
        BY <2>5, <2>7
      <4>2. Covers[<<m, i>>] \in Nat
        BY <2>6
      <4> QED BY <4>1, <4>2
    <3> QED BY <3>1 DEF OneMore
  <2>10. Put(remaining, n, 1, remaining')
    BY <1>7 DEF Put
  <2>11. /\ Numbers(Completions', Reported', Covers', remaining')
         /\ Balance(run.kids, Completions', Reported', Covers', remaining')
    BY <1>1, <1>4, <2>6, <2>8, <2>9, <2>10, UnitsBalance, Zenon
  <2> QED BY <1>4, <2>11 DEF BalanceInv
<1>8. CASE run.budget = 0
  <2>1. StartCount(n) = Len(Kids(n))
    BY <1>8 DEF StartCount
  <2>2. \/ IsLeaf(n) /\ Replace(th, <<c>>) /\ UNCHANGED remaining
        \/ /\ ~IsLeaf(n) /\ remaining' = [remaining EXCEPT ![n] = Len(Kids(n))]
           /\ Replace(th, Each("visit", Kids(n)))
    BY <1>2, <1>8, <2>1, Zenon
  <2> QED BY <1>5, <1>6, <1>8, <2>2
<1>9. CASE run.budget # 0
  <2>1. StartCount(n) = 1
    BY <1>9 DEF StartCount
  <2>2. \/ IsLeaf(n) /\ Replace(th, <<c>>) /\ UNCHANGED remaining
        \/ /\ ~IsLeaf(n) /\ remaining' = [remaining EXCEPT ![n] = 1]
           /\ Replace(th, <<NextUnit(n, 1)>>)
    BY <1>2, <1>9, <2>1, Zenon
  <2> QED BY <1>5, <1>7, <1>9, <2>2
<1> QED BY <1>8, <1>9

\* A child is reported.
LEMMA ChildDoneKeepsBalance ==
  ASSUME Assumptions, Inv, BalanceInv, NEW th \in Threads, ChildDone(th)
  PROVE  BalanceInv'
<1> USE DEF state, visits, memory
<1> DEFINE n == Item(th).node
           c == Do("complete", n)
<1>1. /\ agenda[th] # <<>> /\ n \in Nodes /\ Item(th) \in Reporting(n) /\ UNCHANGED <<run, jobs>>
      /\ \A m, i : Item(th) \notin Covering(m, i)
  <2>1. /\ agenda[th] # <<>> /\ Item(th) \in Items /\ Item(th).op = "childDone"
        /\ Item(th) \in Things /\ Subject(Item(th)) = Item(th)
    BY AtHead DEF ChildDone
  <2>2. n \in Nodes
    BY <2>1 DEF Items, Plain
  <2>3. Item(th) \in Reporting(n) /\ \A m, i : Item(th) \notin Covering(m, i)
    BY <2>1 DEF Reporting, Covering
  <2>4. UNCHANGED <<run, jobs>>
    BY DEF ChildDone
  <2> QED BY <2>1, <2>2, <2>3, <2>4
<1>2. /\ remaining' = [remaining EXCEPT ![n] = remaining[n] - 1]
      /\ Replace(th, IF remaining[n] = 1 THEN <<c>> ELSE <<>>)
  BY DEF ChildDone
<1> HIDE DEF n
<1>3. \A m : /\ One(Item(th), Completing(m)) = 0
             /\ One(Item(th), Reporting(m)) = (IF m = n THEN 1 ELSE 0) /\ \A i : One(Item(th), Covering(m, i)) = 0
  BY <1>1, Kinds DEF One
<1>4. /\ Tree(run.kids) /\ run.kids' = run.kids
      /\ Numbers(Completions, Reported, Covers, remaining)
      /\ Balance(run.kids, Completions, Reported, Covers, remaining)
  BY <1>1, IsTree DEF BalanceInv
<1>5. c \in Items /\ c \in Completing(n)
  <2>1. c \in Items /\ c.op = "complete" /\ c.node = n
    BY <1>1, DoFacts DEF Plain
  <2> HIDE DEF c
  <2> QED BY <2>1 DEF Completing, Subject, Things
<1> DEFINE items == IF remaining[n] = 1 THEN <<c>> ELSE <<>>
<1>6. /\ items \in Seq(Items) /\ Replace(th, items)
      /\ \A S : Cardinality(Hits(items, S)) = IF remaining[n] = 1 THEN One(c, S) ELSE 0
  <2> HIDE DEF c
  <2>1. <<c>> \in Seq(Items) /\ <<>> \in Seq(Items)
    BY <1>5, Singles
  <2>2. \A S : Cardinality(Hits(<<c>>, S)) = One(c, S) /\ Cardinality(Hits(<<>>, S)) = 0
    BY HitsOfFew
  <2> QED BY <1>2, <2>1, <2>2, Zenon
<1> HIDE DEF c, items
<1>7. \A m : /\ One(c, Completing(m)) = (IF m = n THEN 1 ELSE 0)
             /\ One(c, Reporting(m)) = 0 /\ \A i : One(c, Covering(m, i)) = 0
  BY <1>5, Kinds DEF One
<1>8. ASSUME NEW m \in Nodes
      PROVE  /\ Number(Completing(m))' = IF remaining[n] = 1 /\ m = n THEN Number(Completing(m)) + 1 ELSE Number(Completing(m))
             /\ m = n => Number(Reporting(m))' = Number(Reporting(m)) - 1 /\ Number(Reporting(m)) # 0
             /\ m # n => Number(Reporting(m))' = Number(Reporting(m))
             /\ \A i \in Nat : Number(Covering(m, i))' = Number(Covering(m, i))
  <2>1. /\ ~(remaining[n] = 1 /\ m = n) => Cardinality(Hits(items, Completing(m))) = One(Item(th), Completing(m))
        /\ remaining[n] = 1 /\ m = n => Cardinality(Hits(items, Completing(m))) = One(Item(th), Completing(m)) + 1
        /\ m = n => Cardinality(Hits(items, Reporting(m))) = 0 /\ Item(th) \in Reporting(m)
        /\ m # n => Cardinality(Hits(items, Reporting(m))) = One(Item(th), Reporting(m))
        /\ \A i : Cardinality(Hits(items, Covering(m, i))) = One(Item(th), Covering(m, i))
    BY <1>1, <1>3, <1>6, <1>7
  <2> QED BY <1>1, <1>6, <2>1, NumberChange
<1>9. /\ Completions \in [Nodes -> Nat] /\ Completions' \in [Nodes -> Nat]
      /\ Reported \in [Nodes -> Nat] /\ Reported' \in [Nodes -> Nat]
  BY <1>1, <1>6, NumbersChange DEF BalanceInv, Numbers
<1>10. /\ \A m \in Nodes : Completions'[m] = Number(Completing(m))' /\ Completions[m] = Number(Completing(m))
       /\ \A m \in Nodes : Reported'[m] = Number(Reporting(m))' /\ Reported[m] = Number(Reporting(m))
  BY <1>1, <1>6, NumbersChange
<1>11. /\ Put(Completions, n, IF remaining[n] = 1 THEN Completions[n] + 1 ELSE Completions[n], Completions')
       /\ Put(Reported, n, Reported[n] - 1, Reported') /\ Reported[n] # 0
  <2>1. \A m \in Nodes : Completions'[m] = IF m = n THEN IF remaining[n] = 1 THEN Completions[n] + 1 ELSE Completions[n]
                                                  ELSE Completions[m]
    BY <1>8, <1>10
  <2>2. \A m \in Nodes : Reported'[m] = IF m = n THEN Reported[n] - 1 ELSE Reported[m]
    BY <1>8, <1>10
  <2>3. Reported[n] # 0
    BY <1>1, <1>8, <1>10
  <2>4. Put(Completions, n, IF remaining[n] = 1 THEN Completions[n] + 1 ELSE Completions[n], Completions')
    BY <1>1, <1>9, <2>1, IsPut
  <2>5. Put(Reported, n, Reported[n] - 1, Reported')
    BY <1>1, <1>9, <2>2, IsPut
  <2> QED BY <2>3, <2>4, <2>5
<1>12. Covers' = Covers
  BY <1>8 DEF Covers
<1>13. Put(remaining, n, remaining[n] - 1, remaining')
  BY <1>2 DEF Put
<1>14. /\ Numbers(Completions', Reported', Covers, remaining')
       /\ Balance(run.kids, Completions', Reported', Covers, remaining')
  BY <1>1, <1>4, <1>11, <1>13, ReportBalance
<1> QED BY <1>4, <1>12, <1>14 DEF BalanceInv

\* A unit is begun, and the next one remains.
LEMMA UnitKeepsBalance ==
  ASSUME Assumptions, Inv, BalanceInv, NEW th \in Threads, Unit(th)
  PROVE  BalanceInv'
<1> USE DEF state, visits, memory
<1> DEFINE u  == Item(th)
           n  == u.node
           lo == u.lo
           hi == UnitEnd(n, lo)
           y  == NextUnit(n, hi)
           b  == Span("batch", n, lo, hi)
           x  == [op |-> "submit", job |-> b]
           k  == Kids(n)[lo]
           v  == Do("visit", k)
<1>1. /\ agenda[th] # <<>> /\ u \in Items /\ u.op = "unit" /\ n \in Nodes /\ lo \in 1 .. Len(Kids(n)) /\ lo \in Nat
      /\ u \in Things /\ Subject(u) = u /\ UNCHANGED <<run, jobs>>
  <2>1. /\ agenda[th] # <<>> /\ u \in Items /\ u.op = "unit" /\ Within(u)
        /\ u \in Things /\ Subject(u) = u
    BY AtHead DEF Unit
  <2>2. n \in Nodes /\ lo \in Nat
    BY <2>1 DEF Items, Plain
  <2>3. lo \in 1 .. Len(Kids(n))
    BY <2>1 DEF Within
  <2>4. UNCHANGED <<run, jobs>>
    BY DEF Unit
  <2> QED BY <2>1, <2>2, <2>3, <2>4
<1>2. /\ remaining' = [remaining EXCEPT ![n] = remaining[n] + 1]
      /\ hi > lo + 1 => Replace(th, <<x>> \o <<y>>)
      /\ ~(hi > lo + 1) => Replace(th, <<v>> \o <<y>>)
  BY Zenon DEF Unit, Schedule
<1>3. hi \in lo + 1 .. Len(Kids(n)) + 1 /\ (hi > lo + 1 => Fits(b)) /\ hi \in Nat /\ lo < hi /\ Len(Kids(n)) \in Nat
  <2>1. hi \in lo + 1 .. Len(Kids(n)) + 1 /\ (hi > lo + 1 => Fits(b))
    BY <1>1, UnitFacts DEF Inv
  <2>2. Len(Kids(n)) \in Nat
    BY <1>1, Basics DEF Inv
  <2> HIDE DEF hi, b, n, lo, u
  <2> QED BY <1>1, <2>1, <2>2
<1> HIDE DEF u, n, lo, hi
<1>4. /\ u \in Reporting(n) /\ (\A m : u \notin Completing(m)) /\ \A m, i : u \in Covering(m, i) <=> m = n /\ lo <= i
  BY <1>1 DEF Reporting, Completing, Covering, n, lo
<1>5. /\ y \in Items /\ y \in Reporting(n) /\ (\A m : y \notin Completing(m))
      /\ \A m : \A i \in Nat : y \in Covering(m, i) => m = n /\ hi <= i
  <2>1. hi \in 1 .. Len(Kids(n)) + 1
    BY <1>1, <1>3
  <2>2. y \in Items /\ y.op \in {"unit", "childDone"} /\ y.node = n
    BY <1>1, <2>1, NextUnitFacts DEF Inv
  <2>3. y.op = "unit" => y.lo = hi
    BY <2>2 DEF NextUnit, Do
  <2> HIDE DEF y
  <2>4. Subject(y) = y /\ y \in Things
    BY <2>2 DEF Subject, Things
  <2> QED BY <2>2, <2>3, <2>4 DEF Reporting, Completing, Covering
<1>6. /\ Tree(run.kids) /\ Kids(n) = run.kids[n] /\ run.kids' = run.kids
      /\ Numbers(Completions, Reported, Covers, remaining)
      /\ Balance(run.kids, Completions, Reported, Covers, remaining) /\ Backed(Covers, Reported)
  BY <1>1, IsTree, NumbersAre DEF BalanceInv
<1>7. Put(remaining, n, remaining[n] + 1, remaining')
  BY <1>2 DEF Put
<1>8. CASE hi > lo + 1
  <2>1. /\ x \in Items /\ x \in Reporting(n) /\ (\A m : x \notin Completing(m))
        /\ \A m : \A i \in Nat : x \in Covering(m, i) => m = n /\ lo <= i /\ i < hi
    <3>1. b \in Jobs /\ b.op = "batch" /\ b.node = n /\ b.lo = lo /\ b.hi = hi
      BY <1>1, <1>3 DEF Span, Jobs
    <3> HIDE DEF b
    <3>2. x \in Items /\ x \in Things /\ Subject(x) = b
      BY <3>1, SubmitFacts DEF Items
    <3> HIDE DEF x
    <3> QED BY <3>1, <3>2 DEF Reporting, Completing, Covering
  <2>2. Replace(th, <<x, y>>)
    BY <1>2, <1>8, TwoItems
  <2> HIDE DEF x, y
  <2>3. <<x, y>> \in Seq(Items)
    BY <1>5, <2>1, Singles
  <2>4. \A S : Cardinality(Hits(<<x, y>>, S)) = One(x, S) + One(y, S)
    BY HitsOfFew
  <2>5. ASSUME NEW m \in Nodes
        PROVE  /\ Cardinality(Hits(<<x, y>>, Completing(m))) = One(u, Completing(m))
               /\ m = n => Cardinality(Hits(<<x, y>>, Reporting(m))) = One(u, Reporting(m)) + 1
               /\ m # n => Cardinality(Hits(<<x, y>>, Reporting(m))) = One(u, Reporting(m))
               /\ \A i \in Nat : Cardinality(Hits(<<x, y>>, Covering(m, i))) <= One(u, Covering(m, i))
    <3>1. /\ One(u, Completing(m)) = 0 /\ One(x, Completing(m)) = 0 /\ One(y, Completing(m)) = 0
          /\ m = n => One(u, Reporting(m)) = 1 /\ One(x, Reporting(m)) = 1 /\ One(y, Reporting(m)) = 1
          /\ m # n => One(u, Reporting(m)) = 0 /\ One(x, Reporting(m)) = 0 /\ One(y, Reporting(m)) = 0
      BY <1>4, <1>5, <2>1, Kinds DEF One
    <3>2. ASSUME NEW i \in Nat
          PROVE  One(x, Covering(m, i)) + One(y, Covering(m, i)) <= One(u, Covering(m, i))
      <4>1. x \in Covering(m, i) => u \in Covering(m, i) /\ y \notin Covering(m, i)
        BY <1>3, <1>4, <1>5, <2>1
      <4>2. y \in Covering(m, i) => u \in Covering(m, i)
        <5>1. hi <= i => lo <= i
          BY <1>1, <1>3
        <5> QED BY <1>4, <1>5, <5>1
      <4> QED BY <4>1, <4>2 DEF One
    <3> QED BY <2>4, <3>1, <3>2
  <2>6. ASSUME NEW m \in Nodes
        PROVE  /\ Number(Completing(m))' = Number(Completing(m))
               /\ m = n => Number(Reporting(m))' = Number(Reporting(m)) + 1 /\ Number(Reporting(m)) # 0
               /\ m # n => Number(Reporting(m))' = Number(Reporting(m))
               /\ \A i \in Nat : Number(Covering(m, i))' <= Number(Covering(m, i))
    BY <1>1, <1>4, <2>2, <2>3, <2>5, NumberChange DEF u
  <2>7. /\ Completions \in [Nodes -> Nat] /\ Completions' \in [Nodes -> Nat]
        /\ Reported \in [Nodes -> Nat] /\ Reported' \in [Nodes -> Nat]
        /\ Covers \in [Nodes \X Nat -> Nat] /\ Covers' \in [Nodes \X Nat -> Nat]
    BY <1>1, <2>2, <2>3, NumbersChange DEF BalanceInv, Numbers
  <2>8. /\ \A m \in Nodes : Completions'[m] = Number(Completing(m))' /\ Completions[m] = Number(Completing(m))
        /\ \A m \in Nodes : Reported'[m] = Number(Reporting(m))' /\ Reported[m] = Number(Reporting(m))
        /\ \A m \in Nodes, i \in Nat : /\ Covers'[<<m, i>>] = Number(Covering(m, i))'
                                       /\ Covers[<<m, i>>] = Number(Covering(m, i))
    BY <1>1, <2>2, <2>3, NumbersChange
  <2>9. Completions' = Completions
    BY <2>6, <2>7, <2>8
  <2>10. Put(Reported, n, Reported[n] + 1, Reported') /\ Reported[n] # 0
    BY <1>1, <2>6, <2>7, <2>8, IsPut
  <2>11. Fewer(Covers', Covers)
    BY <2>6, <2>8 DEF Fewer
  <2>12. /\ Numbers(Completions, Reported', Covers, remaining')
         /\ Balance(run.kids, Completions, Reported', Covers, remaining')
    BY <1>1, <1>6, <1>7, <2>10, BatchBalance
  <2>13. Numbers(Completions, Reported', Covers', remaining')
    BY <2>7, <2>12 DEF Numbers
  <2>14. Balance(run.kids, Completions, Reported', Covers', remaining')
    BY <1>6, <2>11, <2>12, <2>13, ShedBalance
  <2> QED BY <1>6, <2>9, <2>13, <2>14 DEF BalanceInv
<1>9. CASE ~(hi > lo + 1)
  <2>1. k \in Nodes /\ lo \in DOMAIN run.kids[n] /\ k = run.kids[n][lo]
    BY <1>1, <1>6, Basics, TreeFacts DEF Inv
  <2> HIDE DEF k
  <2>2. v \in Items /\ v \in Completing(k)
    <3>1. v \in Items /\ v.op = "visit" /\ v.node = k
      BY <2>1, DoFacts DEF Plain
    <3> HIDE DEF v
    <3> QED BY <3>1 DEF Completing, Subject, Things
  <2>3. Replace(th, <<v, y>>)
    BY <1>2, <1>9, TwoItems
  <2> HIDE DEF v, y
  <2>4. <<v, y>> \in Seq(Items)
    BY <1>5, <2>2, Singles
  <2>5. \A S : Cardinality(Hits(<<v, y>>, S)) = One(v, S) + One(y, S)
    BY HitsOfFew
  <2>6. ASSUME NEW m \in Nodes
        PROVE  /\ m = k => Cardinality(Hits(<<v, y>>, Completing(m))) = One(u, Completing(m)) + 1
               /\ m # k => Cardinality(Hits(<<v, y>>, Completing(m))) = One(u, Completing(m))
               /\ Cardinality(Hits(<<v, y>>, Reporting(m))) = One(u, Reporting(m))
               /\ \A i \in Nat : /\ Cardinality(Hits(<<v, y>>, Covering(m, i))) <= One(u, Covering(m, i))
                                 /\ m = n /\ i = lo => Cardinality(Hits(<<v, y>>, Covering(m, i))) = 0
    <3>1. /\ One(u, Completing(m)) = 0 /\ One(y, Completing(m)) = 0
          /\ One(v, Completing(m)) = (IF m = k THEN 1 ELSE 0) /\ One(v, Reporting(m)) = 0
          /\ m = n => One(u, Reporting(m)) = 1 /\ One(y, Reporting(m)) = 1
          /\ m # n => One(u, Reporting(m)) = 0 /\ One(y, Reporting(m)) = 0
      BY <1>4, <1>5, <2>2, Kinds DEF One
    <3>2. ASSUME NEW i \in Nat
          PROVE  /\ One(v, Covering(m, i)) = 0 /\ One(y, Covering(m, i)) <= One(u, Covering(m, i))
                 /\ m = n /\ i = lo => One(y, Covering(m, i)) = 0
                 /\ One(y, Covering(m, i)) \in Nat
      <4>1. v \notin Covering(m, i)
        BY <2>2, Kinds
      <4>2. y \in Covering(m, i) => u \in Covering(m, i) /\ ~(m = n /\ i = lo)
        <5>1. hi <= i => lo <= i /\ i # lo
          BY <1>1, <1>3
        <5> QED BY <1>4, <1>5, <5>1
      <4> QED BY <4>1, <4>2 DEF One
    <3>3. \A i \in Nat : One(v, Covering(m, i)) + One(y, Covering(m, i)) = One(y, Covering(m, i))
      BY <3>2
    <3>4. \A i \in Nat : Cardinality(Hits(<<v, y>>, Covering(m, i))) = One(y, Covering(m, i))
      BY <2>5, <3>3
    <3> QED BY <2>5, <3>1, <3>2, <3>4
  <2>7. ASSUME NEW m \in Nodes
        PROVE  /\ m = k => Number(Completing(m))' = Number(Completing(m)) + 1
               /\ m # k => Number(Completing(m))' = Number(Completing(m))
               /\ Number(Reporting(m))' = Number(Reporting(m))
               /\ \A i \in Nat : Number(Covering(m, i))' <= Number(Covering(m, i))
    BY <1>1, <2>3, <2>4, <2>6, NumberChange DEF u
  <2>8. ASSUME NEW m \in Nodes, NEW i \in Nat, m = n, i = lo
        PROVE  Number(Covering(m, i))' = Number(Covering(m, i)) - 1 /\ Number(Covering(m, i)) # 0
    <3>1. Cardinality(Hits(<<v, y>>, Covering(m, i))) = 0 /\ u \in Covering(m, i)
      <4>1. lo \in Nat /\ lo <= lo
        BY <1>1
      <4> QED BY <1>4, <2>6, <2>8, <4>1
    <3>2. Item(th) \in Covering(m, i)
      BY <3>1 DEF u
    <3> QED BY <1>1, <2>3, <2>4, <3>1, <3>2, NumberChange
  <2>9. /\ Completions \in [Nodes -> Nat] /\ Completions' \in [Nodes -> Nat]
        /\ Reported \in [Nodes -> Nat] /\ Reported' \in [Nodes -> Nat]
        /\ Covers \in [Nodes \X Nat -> Nat] /\ Covers' \in [Nodes \X Nat -> Nat]
    BY <1>1, <2>3, <2>4, NumbersChange DEF BalanceInv, Numbers
  <2>10. /\ \A m \in Nodes : Completions'[m] = Number(Completing(m))' /\ Completions[m] = Number(Completing(m))
         /\ \A m \in Nodes : Reported'[m] = Number(Reporting(m))' /\ Reported[m] = Number(Reporting(m))
         /\ \A m \in Nodes, i \in Nat : /\ Covers'[<<m, i>>] = Number(Covering(m, i))'
                                        /\ Covers[<<m, i>>] = Number(Covering(m, i))
    BY <1>1, <2>3, <2>4, NumbersChange
  <2>11. Put(Completions, k, Completions[k] + 1, Completions')
    <3>1. Completions'[k] = Completions[k] + 1 /\ \A m \in Nodes : m # k => Completions'[m] = Completions[m]
      BY <2>1, <2>7, <2>10
    <3> QED BY <2>1, <2>9, <3>1, IsPut
  <2>12. Reported' = Reported
    BY <2>7, <2>9, <2>10
  <2>13. Fewer(Covers', Covers)
    BY <2>7, <2>10 DEF Fewer
  <2>14. Covers[<<n, lo>>] # 0 /\ Covers'[<<n, lo>>] = 0
    <3>1. Covers[<<n, lo>>] # 0 /\ Covers'[<<n, lo>>] = Covers[<<n, lo>>] - 1 /\ Covers[<<n, lo>>] \in Nat
      <4>1. \A m \in Nodes, i \in Nat : m = n /\ i = lo =>
              /\ Covers[<<m, i>>] # 0 /\ Covers'[<<m, i>>] = Covers[<<m, i>>] - 1
              /\ Covers[<<m, i>>] \in Nat
        BY <2>8, <2>9, <2>10
      <4> QED BY <1>1, <4>1
    <3>2. Covers[<<n, lo>>] <= 1
      BY <1>1, <1>6, <2>1 DEF Balance
    <3> QED BY <3>1, <3>2
  <2>15. /\ Numbers(Completions', Reported, Covers', remaining')
         /\ Balance(run.kids, Completions', Reported, Covers', remaining')
    BY <1>1, <1>6, <1>7, <2>1, <2>9, <2>11, <2>13, <2>14, ChildBalance
  <2> QED BY <1>6, <2>12, <2>15 DEF BalanceInv
<1> QED BY <1>8, <1>9
-----------------------------------------------------------------------------
(* The balance of a traversal *)

\* The first agenda of the caller: an item, those of the roots, and two more.
LEMMA Bracketed ==
  ASSUME NEW S, NEW x \in S, NEW y \in S, NEW z \in S, NEW e \in Seq(S), NEW s, s = (<<x>> \o e) \o <<y, z>>
  PROVE  /\ Len(e) \in Nat /\ DOMAIN s = 1 .. Len(e) + 3
         /\ \A i \in DOMAIN s : \/ s[i] \in {x, y, z} /\ ~(i - 1 \in 1 .. Len(e))
                                \/ i - 1 \in 1 .. Len(e) /\ s[i] = e[i - 1]
<1> DEFINE p == <<x>>
           q == <<y, z>>
           a == p \o e
<1>1. p \in Seq(S) /\ Len(p) = 1 /\ p[1] = x /\ q \in Seq(S) /\ Len(q) = 2 /\ q[1] = y /\ q[2] = z
  BY Singles
<1> HIDE DEF p, q
<1>2. /\ a \in Seq(S) /\ Len(a) = Len(p) + Len(e) /\ Len(e) \in Nat
      /\ \A k \in 1 .. Len(p) + Len(e) : a[k] = IF k <= Len(p) THEN p[k] ELSE e[k - Len(p)]
  BY <1>1, ConcatProperties, LenProperties
<1>3. s = a \o q
  BY DEF p, q
<1> HIDE DEF a
<1>4. /\ a \o q \in Seq(S) /\ Len(a \o q) = Len(a) + Len(q)
      /\ \A k \in 1 .. Len(a) + Len(q) : (a \o q)[k] = IF k <= Len(a) THEN a[k] ELSE q[k - Len(a)]
  <2>1. a \in Seq(S) /\ q \in Seq(S)
    BY <1>1, <1>2
  <2> QED BY <2>1, ConcatProperties
<1>5. s \in Seq(S) /\ Len(s) = Len(e) + 3 /\ DOMAIN s = 1 .. Len(e) + 3
  <2>1. Len(s) = Len(e) + 3 /\ s \in Seq(S)
    BY <1>1, <1>2, <1>3, <1>4
  <2> QED BY <2>1, LenProperties
<1>6. \A i \in 1 .. Len(e) + 3 : s[i] = IF i <= Len(e) + 1 THEN a[i] ELSE q[i - (Len(e) + 1)]
  BY <1>1, <1>2, <1>3, <1>4
<1>7. ASSUME NEW i \in DOMAIN s
      PROVE  \/ s[i] \in {x, y, z} /\ ~(i - 1 \in 1 .. Len(e))
             \/ i - 1 \in 1 .. Len(e) /\ s[i] = e[i - 1]
  <2>1. i \in 1 .. Len(e) + 3
    BY <1>5
  <2>2. CASE i = 1
    <3>1. s[i] = x
      BY <1>1, <1>2, <1>6, <2>1, <2>2
    <3> QED BY <2>2, <3>1
  <2>3. CASE i # 1 /\ i <= Len(e) + 1
    <3>1. i - 1 \in 1 .. Len(e) /\ i \in 1 .. Len(p) + Len(e) /\ ~(i <= Len(p)) /\ i - Len(p) = i - 1
      BY <1>1, <1>2, <2>1, <2>3
    <3>2. s[i] = a[i]
      BY <1>6, <2>1, <2>3
    <3>3. a[i] = e[i - Len(p)]
      BY <1>2, <3>1
    <3> QED BY <3>1, <3>2, <3>3
  <2>4. CASE ~(i <= Len(e) + 1)
    <3>1. i - (Len(e) + 1) \in {1, 2} /\ ~(i - 1 \in 1 .. Len(e))
      BY <1>2, <2>1, <2>4
    <3>2. s[i] = q[i - (Len(e) + 1)]
      BY <1>6, <2>1, <2>4
    <3>3. \A d \in {1, 2} : q[d] \in {y, z}
      BY <1>1
    <3> QED BY <3>1, <3>2, <3>3
  <2> QED BY <2>2, <2>3, <2>4
<1> QED BY <1>2, <1>5, <1>7

\* A root is one once, and no child.
LEMMA RootsApart ==
  ASSUME Assumptions, Inv
  PROVE  /\ \A i, j \in DOMAIN run.roots : run.roots[i] = run.roots[j] => i = j
         /\ \A i \in DOMAIN run.roots, n \in Nodes : \A j \in DOMAIN run.kids[n] : run.kids[n][j] # run.roots[i]
<1>1. IsForest(run)
  BY DEF Inv, TypeInv, Assumptions
<1> DEFINE Place == {<<None, h>> : h \in DOMAIN run.roots} \cup UNION {{<<p, h>> : h \in DOMAIN run.kids[p]} : p \in Nodes}
           Sits(pl) == IF pl[1] = None THEN run.roots[pl[2]] ELSE run.kids[pl[1]][pl[2]]
<1>2. \A pl, ql \in Place : Sits(pl) = Sits(ql) => pl = ql
  BY <1>1 DEF IsForest
<1>3. \A i \in DOMAIN run.roots : <<None, i>> \in Place /\ Sits(<<None, i>>) = run.roots[i]
  OBVIOUS
<1>4. ASSUME NEW n \in Nodes, NEW j \in DOMAIN run.kids[n]
      PROVE  <<n, j>> \in Place /\ Sits(<<n, j>>) = run.kids[n][j] /\ n # None
  BY DEF Assumptions
<1> HIDE DEF Place, Sits
<1>5. ASSUME NEW i \in DOMAIN run.roots, NEW j \in DOMAIN run.roots, run.roots[i] = run.roots[j]
      PROVE  i = j
  <2>1. <<None, i>> = <<None, j>>
    BY <1>2, <1>3, <1>5
  <2> QED BY <2>1
<1>6. ASSUME NEW i \in DOMAIN run.roots, NEW n \in Nodes, NEW j \in DOMAIN run.kids[n], run.kids[n][j] = run.roots[i]
      PROVE  FALSE
  <2>1. <<n, j>> \in Place /\ Sits(<<n, j>>) = run.kids[n][j] /\ n # None
    BY <1>4
  <2>2. <<None, i>> \in Place /\ Sits(<<None, i>>) = Sits(<<n, j>>)
    BY <1>3, <1>6, <2>1
  <2>3. <<None, i>> = <<n, j>>
    BY <1>2, <2>1, <2>2
  <2> QED BY <2>1, <2>3
<1> QED BY <1>5, <1>6

LEMMA InitBalance ==
  ASSUME Assumptions, Init
  PROVE  BalanceInv
<1> DEFINE op == IF run.mode = "topDown" THEN "dispatch" ELSE "visit"
           e  == Each(op, run.roots)
           n  == Len(run.roots)
           x  == Do("seed", None)
           y  == Do("finish", None)
           z  == Do("wait", None)
           s  == (<<x>> \o e) \o <<y, z>>
<1>1. /\ Inv /\ run.roots \in Seq(Nodes) /\ jobs = EmptyBag /\ remaining = [m \in Nodes |-> 0]
      /\ Caller \in Threads /\ agenda[Caller] = s /\ \A th \in Threads : th # Caller => agenda[th] = <<>>
  <2>1. Inv
    BY InitInv
  <2>2. run.roots \in Seq(Nodes) /\ Caller \in Threads
    BY <2>1, Basics DEF Inv
  <2> QED BY <2>1, <2>2 DEF Init
<1>2. /\ e \in Seq(Items) /\ Len(e) = n /\ DOMAIN run.roots = 1 .. n
      /\ \A i \in 1 .. n : run.roots[i] \in Nodes /\ e[i] = Do(op, run.roots[i])
  <2>1. DOMAIN run.roots = 1 .. n
    BY <1>1, LenProperties
  <2>2. op \in {"dispatch", "visit"}
    OBVIOUS
  <2> HIDE DEF op
  <2> QED BY <1>1, <2>1, <2>2, EachFacts
<1>3. x \in Items /\ Idle(x) /\ y \in Items /\ Idle(y) /\ z \in Items /\ Idle(z)
  BY IdleOne
<1>4. \A i \in 1 .. n : \/ Idle(e[i])
                        \/ e[i] \in Completing(run.roots[i])
  <2>1. ASSUME NEW k \in Nodes
        PROVE  Do("visit", k) \in Completing(k)
    <3> DEFINE v == Do("visit", k)
    <3>1. v \in Items /\ v.op = "visit" /\ v.node = k
      BY DoFacts DEF Plain
    <3> HIDE DEF v
    <3>2. v \in Completing(k)
      BY <3>1 DEF Completing, Subject, Things
    <3> QED BY <3>2 DEF v
  <2>2. op = "dispatch" \/ op = "visit"
    OBVIOUS
  <2> HIDE DEF op, e, n
  <2> QED BY <1>2, <2>1, <2>2, IdleOne
<1> HIDE DEF op, e, n, x, y, z
<1>5. /\ DOMAIN s = 1 .. n + 3
      /\ \A i \in DOMAIN s : \/ Idle(s[i])
                             \/ i - 1 \in 1 .. n /\ s[i] \in Completing(run.roots[i - 1])
  <2>1. /\ DOMAIN s = 1 .. Len(e) + 3
        /\ \A i \in DOMAIN s : \/ s[i] \in {x, y, z} /\ ~(i - 1 \in 1 .. Len(e))
                               \/ i - 1 \in 1 .. Len(e) /\ s[i] = e[i - 1]
    BY <1>2, <1>3, Bracketed
  <2> HIDE DEF s
  <2> QED BY <1>2, <1>3, <1>4, <2>1
<1> HIDE DEF s
<1>6. ASSUME NEW S
      PROVE  Number(S) = Cardinality(Hits(s, S)) /\ IsFiniteSet(Hits(s, S))
  <2>1. Posted(S) = {}
    BY <1>1, BagFacts DEF Posted, Queued, BagToSet
  <2>2. Places(S) = {Caller} \X Hits(s, S)
    <3>1. Hits(<<>>, S) = {}
      BY DEF Hits
    <3> QED BY <1>1, <3>1 DEF Places
  <2>3. IsFiniteSet(Hits(s, S))
    <3>1. s \in Seq(Items)
      BY <1>1 DEF Inv, TypeInv
    <3> QED BY <3>1, HitsFinite
  <2>4. Cardinality(Places(S)) = Cardinality(Hits(s, S)) /\ Cardinality(Hits(s, S)) \in Nat
    BY <2>2, <2>3, Named, FS_CardinalityType
  <2>5. Cardinality(Posted(S)) = 0
    BY <2>1, FS_EmptySet
  <2> QED BY <2>3, <2>4, <2>5 DEF Number
<1>7. ASSUME NEW m
      PROVE  Number(Reporting(m)) = 0 /\ \A i : Number(Covering(m, i)) = 0
  <2>1. \A j \in DOMAIN s : s[j] \notin Reporting(m) /\ \A i : s[j] \notin Covering(m, i)
    <3>1. ASSUME NEW j \in DOMAIN s
          PROVE  s[j] \notin Reporting(m) /\ \A i : s[j] \notin Covering(m, i)
      <4>1. CASE Idle(s[j])
        BY <4>1, IdleFacts
      <4>2. CASE s[j] \in Completing(run.roots[j - 1])
        BY <4>2, Kinds, SMTT(30)
      <4> QED BY <1>5, <4>1, <4>2
    <3> QED BY <3>1
  <2> QED BY <1>6, <2>1, HitsOfNone
<1>8. ASSUME NEW m \in Nodes
      PROVE  \/ Number(Completing(m)) = 0
             \/ Number(Completing(m)) = 1 /\ \E i \in DOMAIN run.roots : run.roots[i] = m
  <2>1. \A j \in DOMAIN s : s[j] \in Completing(m) => j - 1 \in DOMAIN run.roots /\ run.roots[j - 1] = m
    BY <1>2, <1>5, IdleFacts, Kinds
  <2>2. CASE Hits(s, Completing(m)) = {}
    BY <1>6, <2>2, FS_EmptySet
  <2>3. CASE Hits(s, Completing(m)) # {}
    <3>1. PICK j \in DOMAIN s : s[j] \in Completing(m)
      BY <2>3 DEF Hits
    <3>2. ASSUME NEW h \in DOMAIN s, s[h] \in Completing(m)
          PROVE  h = j
      <4>1. h - 1 = j - 1
        BY <1>1, <2>1, <3>1, <3>2, RootsApart
      <4>2. h \in Int /\ j \in Int
        BY <1>5
      <4> QED BY <4>1, <4>2
    <3>3. Hits(s, Completing(m)) = {j}
      BY <3>1, <3>2 DEF Hits
    <3>4. Number(Completing(m)) = 1
      BY <1>6, <3>3, FS_Singleton
    <3> QED BY <2>1, <3>1, <3>4
  <2> QED BY <2>2, <2>3
<1>9. /\ \A m \in Nodes : Completions[m] = Number(Completing(m)) /\ Reported[m] = 0 /\ remaining[m] = 0
      /\ \A m \in Nodes, i \in Nat : Covers[<<m, i>>] = 0
  BY <1>1, <1>7 DEF Completions, Reported, Covers
<1>10. Tree(run.kids)
  BY <1>1, IsTree
<1>11. Numbers(Completions, Reported, Covers, remaining)
  <2>1. remaining \in [Nodes -> Nat]
    BY <1>1
  <2> QED BY <1>1, <2>1, NumbersAre DEF Numbers
<1>12. ASSUME NEW m \in Nodes
       PROVE  remaining[m] = Reported[m] + Cardinality(Open(run.kids, Completions, remaining, m))
  <2>1. ASSUME NEW i \in DOMAIN run.kids[m]
        PROVE  Completions[run.kids[m][i]] = 0 /\ remaining[run.kids[m][i]] = 0
    <3>1. run.kids[m][i] \in Nodes
      BY <1>10, TreeFacts
    <3>2. \A j \in DOMAIN run.roots : run.roots[j] # run.kids[m][i]
      BY <1>1, RootsApart
    <3> QED BY <1>8, <1>9, <3>1, <3>2
  <2>2. Open(run.kids, Completions, remaining, m) = {}
    BY <2>1 DEF Open
  <2>3. Cardinality(Open(run.kids, Completions, remaining, m)) = 0
    BY <2>2, FS_EmptySet
  <2> QED BY <1>9, <2>3
<1>13. ASSUME NEW m \in Nodes
       PROVE  /\ Completions[m] <= 1 /\ (Completions[m] = 0 \/ remaining[m] = 0)
              /\ \A i \in DOMAIN run.kids[m] : Covers[<<m, i>>] = 0
  <2>1. \A i \in DOMAIN run.kids[m] : i \in Nat
    BY <1>10, TreeFacts
  <2> QED BY <1>8, <1>9, <2>1
<1>14. Balance(run.kids, Completions, Reported, Covers, remaining)
  <2>1. \A m \in Nodes : \A i \in DOMAIN run.kids[m] : Covers[<<m, i>>] <= 1 /\ ~(Covers[<<m, i>>] # 0)
    <3>1. ASSUME NEW m \in Nodes, NEW i \in DOMAIN run.kids[m]
          PROVE  Covers[<<m, i>>] <= 1 /\ ~(Covers[<<m, i>>] # 0)
      <4>1. Covers[<<m, i>>] = 0
        BY <1>13
      <4> QED BY <4>1
    <3> QED BY <3>1
  <2> QED BY <1>12, <1>13, <2>1 DEF Balance
<1> QED BY <1>11, <1>14 DEF BalanceInv

LEMMA NextKeepsBalance ==
  ASSUME Assumptions, Inv, BalanceInv, [Next]_vars
  PROVE  BalanceInv'
<1>1. ASSUME NEW th \in Threads, Step(th)
      PROVE  BalanceInv'
  BY <1>1, IdleStepsKeepBalance, SubmitKeepsBalance, QueueKeepsBalance, CompleteKeepsBalance, LeavesKeepBalance,
     BottomUpKeepsBalance, UnitKeepsBalance, ChildDoneKeepsBalance DEF Step
<1>2. ASSUME NEW w \in Workers, Start(w)
      PROVE  BalanceInv'
  BY <1>2, QueueKeepsBalance
<1>3. CASE UNCHANGED vars
  <2>1. agenda' = agenda /\ jobs' = jobs /\ run' = run /\ remaining' = remaining
    BY <1>3 DEF vars
  <2>2. \A S : Number(S)' = Number(S)
    <3>1. ASSUME NEW S
          PROVE  Places(S)' = Places(S) /\ Posted(S)' = Posted(S)
      BY <2>1 DEF Places, Hits, Posted, Queued
    <3> QED BY <3>1 DEF Number
  <2>3. Completions' = Completions /\ Reported' = Reported /\ Covers' = Covers
    BY <2>2 DEF Completions, Reported, Covers
  <2> QED BY <2>1, <2>3 DEF BalanceInv
<1> QED BY <1>1, <1>2, <1>3 DEF Next, Returned

\* What is left to do of a traversal is in balance with its counters, whoever takes the next
\* step: the fetch_add and fetch_sub of remaining (ForestTraversal.h:385) match the calls and jobs.
THEOREM BalanceIsKept == ASSUME Assumptions PROVE Spec => []BalanceInv
<1>1. Init => BalanceInv
  BY InitBalance
<1>2. Inv /\ BalanceInv /\ [Next]_vars => BalanceInv'
  BY NextKeepsBalance
<1> QED BY <1>1, <1>2, Invariance, PTL DEF Spec

\* pending counts the jobs that were submitted and have not finished, and the call itself
\* (ForestTraversal.h:213); no counter falls below zero, whoever decrements it.
THEOREM CountersStayExact == ASSUME Assumptions PROVE Spec => []PendingIsExact
<1>1. Inv /\ BalanceInv => PendingIsExact
  <2> SUFFICES ASSUME Inv, BalanceInv
               PROVE  PendingIsExact
    OBVIOUS
  <2>1. BatchesFit
    BY DEF Inv, BatchInv, Fits, BatchesFit, BagToSet
  <2>2. pending + (IF Unseeded THEN 1 ELSE 0) = Cardinality(Queued) + Cardinality(Guarded) + Cardinality(Enqueuing)
    BY DEF Inv, CountInv
  <2>3. TypeOK
    <3>1. run \in Run
      BY Basics DEF Inv
    <3>2. ASSUME NEW j \in BagToSet(jobs)
          PROVE  j.job.op \in {"node", "topDown", "batch"} /\ j.job.node \in Nodes /\ j.seen \subseteq Facts
      <4>1. j.job \in Jobs /\ j.seen \subseteq Facts
        BY <3>2 DEF Inv, TypeInv, BagToSet
      <4> QED BY <4>1 DEF Jobs
    <3>3. remaining \in [Nodes -> Nat]
      BY DEF BalanceInv, Numbers
    <3>4. {done, result} \subseteq {"unset", "running", "value"} \cup Nodes
      BY DEF Inv, TypeInv
    <3> QED BY <3>1, <3>2, <3>3, <3>4 DEF TypeOK, Inv, TypeInv, DataInv
  <2> QED BY <2>1, <2>2, <2>3 DEF PendingIsExact
<1> QED BY <1>1, Invariance, BalanceIsKept, PTL

\* A node is completed after its last child was reported (ForestTraversal.h:337): at any time
\* at most one call or job will complete it, and none while its counter is not zero.
OneCompletes ==
  \A n \in Nodes : Completions[n] <= 1 /\ (Completions[n] = 0 \/ remaining[n] = 0)
THEOREM OneCompletesANode == ASSUME Assumptions PROVE Spec => []OneCompletes
<1>1. BalanceInv => OneCompletes
  BY DEF BalanceInv, Balance, OneCompletes
<1> QED BY <1>1, BalanceIsKept, PTL
-----------------------------------------------------------------------------
(* Where an item is *)

Has(items, S) == \E i \in DOMAIN items : items[i] \in S
\* A thread or the queue has an item of S.
Present(S) == (\E u \in Threads : Has(agenda[u], S)) \/ \E j \in DOMAIN jobs : j.job \in S

\* What an agenda holds after its first item is replaced.
LEMMA HasReplaced ==
  ASSUME Inv, NEW th \in Threads, agenda[th] # <<>>, NEW items \in Seq(Items), Replace(th, items)
  PROVE  /\ \A u \in Threads : u # th => agenda'[u] = agenda[u]
         /\ \A S : /\ Has(items, S) => Has(agenda'[th], S)
                   /\ Has(agenda[th], S) /\ Item(th) \notin S => Has(agenda'[th], S)
         /\ \A j \in DOMAIN agenda'[th] : \/ \E i \in DOMAIN items : agenda'[th][j] = items[i]
                                          \/ \E i \in DOMAIN agenda[th] : agenda'[th][j] = agenda[th][i]
<1> DEFINE s == agenda[th]
           q == items \o Tail(s)
<1>1. agenda \in [Threads -> Seq(Items)] /\ s \in Seq(Items) /\ s # <<>>
  BY DEF Inv, TypeInv
<1>2. agenda'[th] = q /\ \A u \in Threads : u # th => agenda'[u] = agenda[u]
  BY <1>1 DEF Replace
<1>3. Item(th) = s[1]
  BY <1>1 DEF Item
<1>4. q = items \o Tail(s)
  OBVIOUS
<1> HIDE DEF s, q
<1>5. /\ q \in Seq(Items)
      /\ Len(items) \in Nat /\ Len(s) \in Nat \ {0} /\ Len(q) = Len(items) + (Len(s) - 1)
      /\ \A i \in 1 .. Len(q) : q[i] = IF i <= Len(items) THEN items[i] ELSE s[i - Len(items) + 1]
  BY <1>1, <1>4, Spliced
<1>6. DOMAIN q = 1 .. Len(q) /\ DOMAIN s = 1 .. Len(s) /\ DOMAIN items = 1 .. Len(items)
  BY <1>1, <1>5, LenProperties
<1>7. ASSUME NEW i \in DOMAIN items
      PROVE  i \in DOMAIN q /\ q[i] = items[i]
  BY <1>5, <1>6
<1>8. ASSUME NEW i \in DOMAIN s, i # 1
      PROVE  \E j \in DOMAIN q : q[j] = s[i]
  <2> DEFINE j == i + Len(items) - 1
  <2>1. j \in 1 .. Len(q) /\ ~(j <= Len(items)) /\ j - Len(items) + 1 = i
    BY <1>5, <1>6, <1>8
  <2>2. q[j] = s[i]
    BY <1>5, <2>1
  <2> QED BY <1>6, <2>1, <2>2
<1>9. ASSUME NEW j \in DOMAIN q
      PROVE  (\E i \in DOMAIN items : q[j] = items[i]) \/ \E i \in DOMAIN s : q[j] = s[i]
  <2>1. CASE j <= Len(items)
    <3>1. j \in DOMAIN items /\ q[j] = items[j]
      BY <1>5, <1>6, <2>1
    <3> QED BY <3>1
  <2>2. CASE ~(j <= Len(items))
    <3>1. j - Len(items) + 1 \in 1 .. Len(s)
      <4>1. j \in Nat /\ j <= Len(items) + (Len(s) - 1) /\ j > Len(items)
        BY <1>5, <1>6, <2>2
      <4> QED BY <1>5, <4>1
    <3>2. q[j] = s[j - Len(items) + 1]
      BY <1>5, <1>6, <2>2
    <3> QED BY <1>6, <3>1, <3>2
  <2> QED BY <2>1, <2>2
<1>10. \A S : (Has(items, S) => Has(q, S)) /\ (Has(s, S) /\ Item(th) \notin S => Has(q, S))
  BY <1>3, <1>7, <1>8 DEF Has
<1> QED BY <1>2, <1>9, <1>10 DEF s

LEMMA PresentReplaced ==
  ASSUME Inv, NEW th \in Threads, agenda[th] # <<>>, NEW items \in Seq(Items), Replace(th, items),
         jobs' = jobs, NEW S
  PROVE  /\ Has(items, S) => Present(S)'
         /\ Present(S) /\ Item(th) \notin S => Present(S)'
<1>1. /\ \A u \in Threads : u # th => agenda'[u] = agenda[u]
      /\ Has(items, S) => Has(agenda'[th], S)
      /\ Has(agenda[th], S) /\ Item(th) \notin S => Has(agenda'[th], S)
  BY HasReplaced
<1>2. Present(S)' <=> (\E u \in Threads : Has(agenda'[u], S)) \/ \E j \in DOMAIN jobs : j.job \in S
  BY DEF Present, Has
<1>3. ASSUME NEW u \in Threads, Has(agenda[u], S), Item(th) \notin S
      PROVE  Has(agenda'[u], S)
  BY <1>1, <1>3
<1> QED BY <1>1, <1>2, <1>3 DEF Present

\* What is present is counted.
LEMMA PresentCounts ==
  ASSUME Assumptions, Inv, NEW S, Number(S) = 0
  PROVE  ~Present(S)
<1>1. agenda \in [Threads -> Seq(Items)] /\ IsFiniteSet(Threads) /\ IsFiniteSet(Queued) /\ IsABag(jobs)
  BY Basics DEF Inv, TypeInv, CountInv
<1>2. IsFiniteSet(Places(S)) /\ IsFiniteSet(Posted(S))
  BY <1>1, PlacesFinite, FS_Subset DEF Posted
<1>3. PICK a, b : a = Cardinality(Places(S)) /\ b = Cardinality(Posted(S))
  OBVIOUS
<1>4. a = 0 /\ b = 0
  <2>1. a \in Nat /\ b \in Nat /\ a + b = 0
    BY <1>2, <1>3, FS_CardinalityType DEF Number
  <2> QED BY <2>1
<1>5. Places(S) = {} /\ Posted(S) = {}
  BY <1>2, <1>3, <1>4, FS_EmptySet
<1>6. ASSUME NEW u \in Threads, NEW i \in DOMAIN agenda[u], agenda[u][i] \in S
      PROVE  FALSE
  <2>1. <<u, i>> \in Places(S)
    BY <1>6, PlacesAre DEF Hits
  <2> QED BY <1>5, <2>1
<1>7. ASSUME NEW j \in DOMAIN jobs, j.job \in S
      PROVE  FALSE
  <2>1. jobs[j] \in Nat /\ jobs[j] > 0
    BY <1>1 DEF IsABag
  <2>2. 1 \in 1 .. jobs[j]
    BY <2>1
  <2>3. <<j, 1>> \in Queued
    BY <2>2, QueuedFacts
  <2>4. <<j, 1>> \in Posted(S)
    BY <1>7, <2>3 DEF Posted
  <2> QED BY <1>5, <2>4
<1> QED BY <1>6, <1>7 DEF Present, Has

\* A job that is queued is found there, with what was known.
LEMMA Queues ==
  ASSUME Assumptions, Inv, NEW th \in Threads, Enqueue(th)
  PROVE  /\ agenda[th] # <<>> /\ Item(th).job \in Jobs /\ Item(th) = [op |-> "enqueue", job |-> Item(th).job]
         /\ Replace(th, <<>>) /\ <<>> \in Seq(Items) /\ Within(Item(th)) /\ run' = run
         /\ DOMAIN jobs' = DOMAIN jobs \cup {[job |-> Item(th).job, seen |-> view[th]]}
<1>1. agenda[th] # <<>> /\ Item(th).op = "enqueue" /\ Replace(th, <<>>) /\ run' = run
  BY DEF Enqueue, At, Item
<1>2. Item(th) \in Items /\ Within(Item(th)) /\ Item(th).job \in Jobs
  BY <1>1, ItemFacts, JobFacts
<1>3. Item(th) = [op |-> "enqueue", job |-> Item(th).job]
  BY <1>1, <1>2 DEF Items, Plain
<1> DEFINE j == [job |-> Item(th).job, seen |-> view[th]]
<1>4. IsABag(jobs) /\ jobs' = jobs (+) SetToBag({j})
  BY DEF Enqueue, Inv, TypeInv
<1> HIDE DEF j
<1>5. DOMAIN jobs' = DOMAIN jobs \cup {j}
  BY <1>4, QueueGrows
<1> QED BY <1>1, <1>2, <1>3, <1>5 DEF j

\* A worker that starts a job had nothing to do and has its body then.
LEMMA Starts ==
  ASSUME Assumptions, Inv, NEW w \in Workers, Start(w)
  PROVE  /\ w \in Threads /\ agenda[w] = <<>> /\ run' = run /\ UNCHANGED <<remaining, failed, visited, hasException, sync, done, result>>
         /\ \A u \in Threads : u # w => agenda'[u] = agenda[u] /\ view'[u] = view[u]
         /\ \E j \in DOMAIN jobs : /\ j.job \in Jobs /\ (j.job.op = "batch" => Fits(j.job)) /\ j.seen \subseteq Facts
                                   /\ DOMAIN jobs' \subseteq DOMAIN jobs /\ DOMAIN jobs \subseteq DOMAIN jobs' \cup {j}
                                   /\ agenda'[w] = Body(j.job) /\ view'[w] = view[w] \cup j.seen
<1> USE DEF state, visits, memory
<1>1. PICK j \in DOMAIN jobs : /\ jobs' = jobs (-) SetToBag({j}) /\ agenda' = [agenda EXCEPT ![w] = Body(j.job)]
                               /\ view' = [view EXCEPT ![w] = @ \cup j.seen]
  BY DEF Start, BagToSet
<1>2. agenda \in [Threads -> Seq(Items)] /\ view \in [Threads -> SUBSET Facts] /\ w \in Threads /\ IsABag(jobs)
  BY DEF Inv, TypeInv, DataInv, Threads
<1>3. j.job \in Jobs /\ (j.job.op = "batch" => Fits(j.job)) /\ j.seen \subseteq Facts
  BY DEF Inv, TypeInv, BatchInv
<1>4. DOMAIN jobs' \subseteq DOMAIN jobs /\ \E q \in Queued : q[1] = j /\ Queued' = Queued \ {q}
  BY <1>1, <1>2, QueueShrinks
<1>5. ASSUME NEW k \in DOMAIN jobs, k # j
      PROVE  k \in DOMAIN jobs'
  <2>1. jobs[k] \in Nat /\ jobs[k] > 0
    BY <1>2 DEF IsABag
  <2>2. 1 \in 1 .. jobs[k]
    BY <2>1
  <2>3. <<k, 1>> \in Queued
    BY <2>2, QueuedFacts
  <2>4. <<k, 1>> \in Queued'
    BY <1>4, <1>5, <2>3
  <2>5. PICK e \in DOMAIN jobs' : \E i \in 1 .. jobs'[e] : <<k, 1>> = <<e, i>>
    BY <2>4, QueuedFacts
  <2> QED BY <2>5
<1>6. /\ agenda'[w] = Body(j.job) /\ view'[w] = view[w] \cup j.seen
      /\ \A u \in Threads : u # w => agenda'[u] = agenda[u] /\ view'[u] = view[u]
  BY <1>1, <1>2
<1>7. agenda[w] = <<>> /\ run' = run /\ UNCHANGED <<remaining, failed, visited, hasException, sync, done, result>>
  BY DEF Start
<1> QED BY <1>2, <1>3, <1>4, <1>5, <1>6, <1>7

LEMMA PresentQueued ==
  ASSUME Assumptions, Inv, (\E th \in Threads : Enqueue(th)) \/ (\E w \in Workers : Start(w)),
         NEW S, Uniform(S), Present(S)
  PROVE  Present(S)'
<1>0. Present(S)' <=> (\E u \in Threads : Has(agenda'[u], S)) \/ \E j \in DOMAIN jobs' : j.job \in S
  BY DEF Present, Has
<1>1. ASSUME NEW th \in Threads, Enqueue(th)
      PROVE  Present(S)'
  <2> DEFINE k == [job |-> Item(th).job, seen |-> view[th]]
  <2>1. /\ agenda[th] # <<>> /\ Item(th).job \in Jobs /\ Item(th) = [op |-> "enqueue", job |-> Item(th).job]
        /\ Replace(th, <<>>) /\ <<>> \in Seq(Items) /\ DOMAIN jobs' = DOMAIN jobs \cup {k} /\ k.job = Item(th).job
    BY <1>1, Queues
  <2> HIDE DEF k
  <2>2. Item(th) \in S <=> Item(th).job \in S
    <3>1. \A job \in Jobs : [op |-> "enqueue", job |-> job] \in S <=> job \in S
      BY DEF Uniform
    <3>2. PICK job \in Jobs : job = Item(th).job
      BY <2>1
    <3> DEFINE y == [op |-> "enqueue", job |-> job]
    <3>3. Item(th) = y /\ (y \in S <=> job \in S)
      BY <2>1, <3>1, <3>2
    <3> HIDE DEF y
    <3> QED BY <3>2, <3>3
  <2>3. ASSUME Item(th) \in S
        PROVE  Present(S)'
    BY <1>0, <2>1, <2>2, <2>3
  <2>4. ASSUME NEW u \in Threads, Has(agenda[u], S), Item(th) \notin S
        PROVE  Has(agenda'[u], S)
    BY <2>1, <2>4, HasReplaced
  <2> QED BY <1>0, <2>1, <2>3, <2>4 DEF Present
<1>2. ASSUME NEW w \in Workers, Start(w)
      PROVE  Present(S)'
  <2>1. PICK j \in DOMAIN jobs : /\ j.job \in Jobs /\ (j.job.op = "batch" => Fits(j.job))
                                 /\ DOMAIN jobs \subseteq DOMAIN jobs' \cup {j} /\ agenda'[w] = Body(j.job)
    BY <1>2, Starts
  <2>2. w \in Threads /\ agenda[w] = <<>> /\ \A u \in Threads : u # w => agenda'[u] = agenda[u]
    BY <1>2, Starts
  <2>3. j.job \in S => Has(agenda'[w], S)
    <3>1. Body(j.job)[1] \in S <=> j.job \in S
      BY <2>1 DEF Uniform
    <3>2. Body(j.job) \in Seq(Items) /\ Len(Body(j.job)) = 2
      <4>1. TRUE \in BOOLEAN
        OBVIOUS
      <4> QED BY <2>1, <4>1, BodyProper
    <3>3. 1 \in DOMAIN Body(j.job)
      BY <3>2, LenProperties
    <3> QED BY <2>1, <3>1, <3>3 DEF Has
  <2>4. ~Has(agenda[w], S)
    BY <2>2 DEF Has
  <2>5. \A u \in Threads : Has(agenda[u], S) => Has(agenda'[u], S)
    BY <2>2, <2>4
  <2> QED BY <1>0, <2>1, <2>2, <2>3, <2>5 DEF Present
<1>3. CASE \E th \in Threads : Enqueue(th)
  BY <1>1, <1>3, Zenon
<1>4. CASE \E w \in Workers : Start(w)
  BY <1>2, <1>4, Zenon
<1> QED BY <1>3, <1>4
-----------------------------------------------------------------------------
(* A bottom-up traversal in which no visitor throws: what becomes of each node *)

\* k, child i of n, is on its way, or it was visited.
Accounted(n, i, k) ==
  Present(Completing(k)) \/ remaining[k] # 0 \/ Present(Covering(n, i)) \/ k \in visited
ReachedInv ==
  \A n \in Nodes : remaining[n] # 0 => \A i \in DOMAIN Kids(n) : Accounted(n, i, Kids(n)[i])

\* What may be about to be done when these nodes were visited.
Fit(it, seen) ==
  LET s == Subject(it) IN
  /\ s.op \in {"complete", "again", "work", "node"} => ToSet(Kids(s.node)) \subseteq seen
  /\ s.op \in {"batch", "leaf"} => \A i \in s.lo .. (s.hi - 1) : IsLeaf(Kids(s.node)[i])
  /\ s.op \notin {"dispatch", "enter", "touch", "descend", "topDown", "claim", "record"}
FitInv ==
  /\ \A u \in Threads : \A i \in DOMAIN agenda[u] : Fit(agenda[u][i], visited)
  /\ \A j \in DOMAIN jobs : Fit(j.job, visited)

\* The children of what was visited were visited.
ClosedInv == \A n \in visited : ToSet(Kids(n)) \subseteq visited
RootsInv == \A i \in DOMAIN run.roots : \/ Present(Completing(run.roots[i])) \/ remaining[run.roots[i]] # 0
                                        \/ run.roots[i] \in visited

\* Of a bottom-up traversal in which nobody threw.
Fulfilled == ~hasException /\ FitInv /\ ReachedInv /\ ClosedInv /\ RootsInv
BottomInv == run.mode = "bottomUp" /\ (failed = {} => Fulfilled)
\* What a step makes of the first item of an agenda, so that no child is lost.
Turn(th, items) ==
  /\ items \in Seq(Items) /\ Replace(th, items) /\ jobs' = jobs /\ visited \subseteq visited'
  /\ \A k \in Nodes : remaining[k] # 0 => remaining'[k] # 0 \/ Has(items, Completing(k))
  /\ \A k \in Nodes : Item(th) \in Completing(k) =>
       Has(items, Completing(k)) \/ remaining'[k] # 0 \/ k \in visited'
  /\ \A n \in Nodes : \A i \in DOMAIN Kids(n) : Item(th) \in Covering(n, i) =>
       Has(items, Covering(n, i)) \/ Has(items, Completing(Kids(n)[i])) \/ Kids(n)[i] \in visited'
  /\ \A n \in Nodes : remaining'[n] # 0 /\ remaining[n] = 0 =>
       \A i \in DOMAIN Kids(n) : Has(items, Covering(n, i)) \/ Has(items, Completing(Kids(n)[i]))

LEMMA TurnKeepsChild ==
  ASSUME Assumptions, Inv, NEW th \in Threads, agenda[th] # <<>>, NEW items, Turn(th, items),
         NEW n \in Nodes, NEW i \in DOMAIN Kids(n), NEW k, k = Kids(n)[i],
         Accounted(n, i, k) \/ (remaining[n] = 0 /\ remaining'[n] # 0)
  PROVE  Accounted(n, i, k)'
<1>1. items \in Seq(Items) /\ Replace(th, items) /\ jobs' = jobs /\ k \in Nodes
  <2>1. k \in Nodes
    <3>1. Kids(n) \in Seq(Nodes)
      BY Basics DEF Inv
    <3>2. \A j \in 1 .. Len(Kids(n)) : Kids(n)[j] \in Nodes
      BY <3>1, ElementOfSeq
    <3> QED BY <3>1, <3>2, LenProperties
  <2> QED BY <2>1 DEF Turn
<1>2. \A S : /\ Has(items, S) => Present(S)'
             /\ Present(S) /\ Item(th) \notin S => Present(S)'
  BY <1>1, PresentReplaced
<1>3. Accounted(n, i, k)' <=> \/ Present(Completing(k))' \/ remaining'[k] # 0 \/ Present(Covering(n, i))'
                              \/ k \in visited'
  BY DEF Accounted
<1>4. ASSUME Present(Completing(k))
      PROVE  Accounted(n, i, k)'
  <2>1. CASE Item(th) \in Completing(k)
    <3>1. Has(items, Completing(k)) \/ remaining'[k] # 0 \/ k \in visited'
      BY <1>1, <2>1 DEF Turn
    <3> QED BY <1>2, <1>3, <3>1
  <2> QED BY <1>2, <1>3, <1>4, <2>1
<1>5. ASSUME remaining[k] # 0
      PROVE  Accounted(n, i, k)'
  <2>1. remaining'[k] # 0 \/ Has(items, Completing(k))
    BY <1>1, <1>5 DEF Turn
  <2> QED BY <1>2, <1>3, <2>1
<1>6. ASSUME Present(Covering(n, i))
      PROVE  Accounted(n, i, k)'
  <2>1. CASE Item(th) \in Covering(n, i)
    <3>1. Has(items, Covering(n, i)) \/ Has(items, Completing(k)) \/ k \in visited'
      BY <2>1 DEF Turn
    <3> QED BY <1>2, <1>3, <3>1
  <2> QED BY <1>2, <1>3, <1>6, <2>1
<1>7. ASSUME k \in visited
      PROVE  Accounted(n, i, k)'
  BY <1>3, <1>7 DEF Turn
<1>8. CASE remaining[n] = 0 /\ remaining'[n] # 0
  <2>1. Has(items, Covering(n, i)) \/ Has(items, Completing(k))
    BY <1>8 DEF Turn
  <2> QED BY <1>2, <1>3, <2>1
<1>9. CASE Accounted(n, i, k)
  BY <1>4, <1>5, <1>6, <1>7, <1>9 DEF Accounted
<1> QED BY <1>8, <1>9

LEMMA TurnKeepsReached ==
  ASSUME Assumptions, Inv, ReachedInv, NEW th \in Threads, agenda[th] # <<>>, NEW items, Turn(th, items),
         run' = run
  PROVE  ReachedInv'
<1>1. ASSUME NEW n \in Nodes, remaining'[n] # 0, NEW i \in DOMAIN Kids(n)
      PROVE  \A k : k = Kids(n)[i] => Accounted(n, i, k)'
  <2>1. ASSUME NEW k, k = Kids(n)[i]
        PROVE  Accounted(n, i, k)'
    <3>1. Accounted(n, i, k) \/ (remaining[n] = 0 /\ remaining'[n] # 0)
      BY <1>1, <2>1 DEF ReachedInv
    <3> QED BY <2>1, <3>1, TurnKeepsChild
  <2> QED BY <2>1
<1>2. \A n : Kids(n)' = Kids(n)
  BY DEF Kids
<1> SUFFICES ASSUME NEW n \in Nodes, remaining'[n] # 0, NEW i \in DOMAIN Kids(n)'
             PROVE  Accounted(n, i, Kids(n)[i])'
  BY DEF ReachedInv
<1>3. i \in DOMAIN Kids(n)
  BY <1>2
<1>4. PICK k : k = Kids(n)[i]
  OBVIOUS
<1>5. Accounted(n, i, k)'
  BY <1>1, <1>3, <1>4
<1>6. (Kids(n)[i])' = k
  BY <1>2, <1>4
<1> QED BY <1>5, <1>6 DEF Accounted

LEMMA VisitsGrow ==
  ASSUME Assumptions, Inv, [Next]_vars
  PROVE  run' = run /\ failed \subseteq failed' /\ visited \subseteq visited'
<1> USE DEF visits
<1>1. ASSUME NEW th \in Threads, Step(th)
      PROVE  run' = run /\ failed \subseteq failed' /\ visited \subseteq visited'
  <2>1. run' = run
    BY <1>1, StepKeeps
  <2>2. failed \subseteq failed' /\ visited \subseteq visited'
    BY <1>1 DEF Step, Seed, MaybeFinish, Resolve, Wait, Claim, Record, Submit, Enqueue, Dispatch, Enter, Touch,
         Descend, BottomUp, Unit, ChildDone, Complete, Again, Work, Batch, Leaf, Call
  <2> QED BY <2>1, <2>2
<1> QED BY <1>1 DEF Next, Start, Returned, vars

LEMMA TurnKeepsRoots ==
  ASSUME Assumptions, Inv, RootsInv, NEW th \in Threads, agenda[th] # <<>>, NEW items, Turn(th, items), run' = run
  PROVE  RootsInv'
<1>1. \A S : /\ Has(items, S) => Present(S)'
             /\ Present(S) /\ Item(th) \notin S => Present(S)'
  BY PresentReplaced DEF Turn
<1>2. run.roots \in Seq(Nodes)
  BY Basics DEF Inv
<1>3. ASSUME NEW i \in DOMAIN run.roots, NEW k, k = run.roots[i]
      PROVE  Present(Completing(k))' \/ remaining'[k] # 0 \/ k \in visited'
  <2>1. k \in Nodes
    <3>1. \A j \in 1 .. Len(run.roots) : run.roots[j] \in Nodes
      BY <1>2, ElementOfSeq
    <3> QED BY <1>2, <1>3, <3>1, LenProperties
  <2>2. Present(Completing(k)) \/ remaining[k] # 0 \/ k \in visited
    BY <1>3 DEF RootsInv
  <2>3. CASE Item(th) \in Completing(k)
    <3>1. Has(items, Completing(k)) \/ remaining'[k] # 0 \/ k \in visited'
      BY <2>1, <2>3 DEF Turn
    <3> QED BY <1>1, <3>1
  <2>4. CASE remaining[k] # 0
    <3>1. remaining'[k] # 0 \/ Has(items, Completing(k))
      BY <2>1, <2>4 DEF Turn
    <3> QED BY <1>1, <3>1
  <2>5. CASE k \in visited
    BY <2>5 DEF Turn
  <2> QED BY <1>1, <2>2, <2>3, <2>4, <2>5
<1>4. run'.roots = run.roots
  OBVIOUS
<1>5. ASSUME NEW i \in DOMAIN run'.roots
      PROVE  Present(Completing(run.roots[i]))' \/ remaining'[run'.roots[i]] # 0 \/ run'.roots[i] \in visited'
  <2>1. PICK k : k = run.roots[i]
    OBVIOUS
  <2>2. Present(Completing(k))' \/ remaining'[k] # 0 \/ k \in visited'
    BY <1>3, <1>4, <1>5, <2>1
  <2>3. run'.roots[i] = k
    BY <1>4, <2>1
  <2> QED BY <2>2, <2>3
<1> QED BY <1>5 DEF RootsInv

LEMMA FitFacts ==
  ASSUME run' = run
  PROVE  /\ \A it, seen : Fit(it, seen)' <=> Fit(it, seen)
         /\ \A it, seen, more : Fit(it, seen) /\ seen \subseteq more => Fit(it, more)
BY DEF Fit, Kids, IsLeaf, Subject

LEMMA TurnKeepsFit ==
  ASSUME Assumptions, Inv, FitInv, NEW th \in Threads, agenda[th] # <<>>, NEW items \in Seq(Items), Replace(th, items),
         run' = run, jobs' = jobs, visited \subseteq visited', \A i \in DOMAIN items : Fit(items[i], visited')
  PROVE  FitInv'
<1>1. /\ \A u \in Threads : u # th => agenda'[u] = agenda[u]
      /\ \A j \in DOMAIN agenda'[th] : \/ \E i \in DOMAIN items : agenda'[th][j] = items[i]
                                       \/ \E i \in DOMAIN agenda[th] : agenda'[th][j] = agenda[th][i]
  BY HasReplaced
<1>2. /\ \A it, seen : Fit(it, seen)' <=> Fit(it, seen)
      /\ \A it, seen, more : Fit(it, seen) /\ seen \subseteq more => Fit(it, more)
  BY FitFacts
<1>3. ASSUME NEW u \in Threads, NEW j \in DOMAIN agenda'[u]
      PROVE  Fit(agenda'[u][j], visited')
  <2>1. ASSUME NEW i \in DOMAIN agenda[u], agenda'[u][j] = agenda[u][i]
        PROVE  Fit(agenda'[u][j], visited')
    <3>1. Fit(agenda[u][i], visited)
      BY DEF FitInv
    <3> QED BY <1>2, <2>1, <3>1
  <2>2. CASE u # th
    <3>1. j \in DOMAIN agenda[u] /\ agenda'[u][j] = agenda[u][j]
      BY <1>1, <1>3, <2>2
    <3> QED BY <2>1, <3>1
  <2>3. CASE u = th
    <3>1. CASE \E i \in DOMAIN items : agenda'[th][j] = items[i]
      BY <2>3, <3>1
    <3>2. CASE \E i \in DOMAIN agenda[th] : agenda'[th][j] = agenda[th][i]
      BY <2>1, <2>3, <3>2
    <3> QED BY <1>1, <1>3, <2>3, <3>1, <3>2
  <2> QED BY <2>2, <2>3
<1>4. \A j \in DOMAIN jobs : Fit(j.job, visited')
  BY <1>2 DEF FitInv
<1> QED BY <1>3, <1>4 DEF FitInv, Fit, Kids, IsLeaf

\* What a thread does next is fit.
LEMMA NextFits ==
  ASSUME Inv, FitInv, NEW th \in Threads, agenda[th] # <<>>
  PROVE  Fit(Item(th), visited)
<1>1. agenda[th] \in Seq(Items)
  BY DEF Inv, TypeInv
<1>2. 1 \in DOMAIN agenda[th] /\ Item(th) = agenda[th][1]
  <2>1. Len(agenda[th]) \in Nat \ {0} /\ Head(agenda[th]) = agenda[th][1]
    BY <1>1, EmptySeq
  <2> QED BY <1>1, <2>1, LenProperties DEF Item
<1> QED BY <1>2 DEF FitInv

\* A step of who has not thrown.
Turns(th) == \E items : Turn(th, items) /\ \A i \in DOMAIN items : Fit(items[i], visited')

LEMMA FewHave ==
  ASSUME NEW x, NEW y, NEW S
  PROVE  /\ ~Has(<<>>, S)
         /\ Has(<<x>>, S) <=> x \in S
         /\ Has(<<x, y>>, S) <=> (x \in S \/ y \in S)
<1>1. DOMAIN <<>> = {} /\ DOMAIN <<x>> = {1} /\ DOMAIN <<x, y>> = {1, 2}
  OBVIOUS
<1>2. <<x>>[1] = x /\ <<x, y>>[1] = x /\ <<x, y>>[2] = y
  OBVIOUS
<1> QED BY <1>1, <1>2, Zenon DEF Has

LEMMA FitEasily ==
  ASSUME NEW it, it.op \in {"visit", "childDone", "unit", "seed", "finish", "wait", "resolve"}, NEW seen
  PROVE  Fit(it, seen)
BY DEF Fit, Subject

\* Steps that are not about a node.
LEMMA RestTurns ==
  ASSUME Assumptions, Inv, NEW th \in Threads, Seed(th) \/ MaybeFinish(th) \/ Resolve(th) \/ Wait(th)
  PROVE  Turns(th)
<1> USE DEF state, visits, memory
<1>1. PICK op \in {"seed", "finish", "resolve", "wait"} : At(th, op)
  BY DEF Seed, MaybeFinish, Resolve, Wait
<1>2. agenda[th] # <<>> /\ Item(th).op = op /\ Idle(Item(th))
  BY <1>1, AtHead DEF Idle
<1>3. jobs' = jobs /\ remaining' = remaining /\ visited' = visited
  BY DEF Seed, MaybeFinish, Resolve, Wait
<1> DEFINE z == Do("resolve", None)
<1>4. PICK items : Replace(th, items) /\ (items = <<>> \/ items = <<z>>)
  BY DEF Seed, MaybeFinish, Resolve, Wait
<1>5. z \in Items /\ z.op = "resolve"
  BY DoFacts
<1> HIDE DEF z
<1>6. items \in Seq(Items) /\ \A i \in DOMAIN items : items[i] = z
  <2>1. /\ <<>> \in Seq(Items) /\ DOMAIN <<>> = {}
        /\ <<z>> \in Seq(Items) /\ DOMAIN <<z>> = {1} /\ <<z>>[1] = z
    BY <1>5, Singles
  <2>2. CASE items = <<>>
    BY <2>1, <2>2, Zenon
  <2>3. CASE items = <<z>>
    <3>1. items \in Seq(Items) /\ DOMAIN items = {1} /\ items[1] = z
      BY <2>1, <2>3, Zenon
    <3> QED BY <3>1
  <2> QED BY <1>4, <2>2, <2>3
<1>7. \A i \in DOMAIN items : Fit(items[i], visited')
  BY <1>5, <1>6, FitEasily
<1>8. \A k, i : Item(th) \notin Completing(k) /\ Item(th) \notin Covering(k, i)
  BY <1>2, IdleFacts
<1>9. Turn(th, items)
  BY <1>2, <1>3, <1>4, <1>6, <1>8 DEF Turn
<1> QED BY <1>7, <1>9 DEF Turns

LEMMA BodyFits ==
  ASSUME NEW job \in Jobs, NEW seen, Fit(job, seen)
  PROVE  Fit(Body(job)[1], seen)
<1> DEFINE fin == Do("finish", None)
           x   == Do("again", job.node)
<1>1. Subject(job) = job /\ job.op \in {"node", "batch"}
  <2>1. Subject(job) = job /\ job.op \in {"node", "topDown", "batch"}
    BY SubmitFacts DEF Jobs
  <2> QED BY <2>1 DEF Fit
<1>2. CASE job.op = "node"
  <2>1. Body(job) = <<x, fin>>
    BY <1>2, Zenon DEF Body
  <2>2. Body(job)[1] = x
    BY <2>1
  <2>3. x.op = "again" /\ x.node = job.node
    BY DoFacts
  <2> HIDE DEF x
  <2>4. Subject(x) = x
    BY <2>3 DEF Subject
  <2>5. Fit(x, seen)
    BY <1>1, <1>2, <2>3, <2>4 DEF Fit
  <2> QED BY <2>2, <2>5
<1>3. CASE job.op = "batch"
  <2>0. "batch" # "node" /\ "batch" # "topDown"
    OBVIOUS
  <2>1. Body(job) = <<job, fin>>
    BY <1>3, <2>0, Zenon DEF Body
  <2>2. Body(job)[1] = job
    BY <2>1
  <2> QED BY <2>2
<1> QED BY <1>1, <1>2, <1>3

\* What a job does first, and its submission, are about the same.
LEMMA SubmitTurns ==
  ASSUME Assumptions, Inv, FitInv, NEW th \in Threads, Submit(th)
  PROVE  Turns(th)
<1> USE DEF state, visits, memory
<1> DEFINE job == Item(th).job
           y   == [op |-> "enqueue", job |-> job]
           fin == Do("finish", None)
<1>1. agenda[th] # <<>> /\ Item(th).op = "submit" /\ Item(th) \in Items /\ Within(Item(th)) /\ job \in Jobs
  <2>1. agenda[th] # <<>> /\ Item(th).op = "submit"
    BY DEF Submit, At, Item
  <2> QED BY <2>1, ItemFacts, JobFacts
<1>2. Item(th) = [op |-> "submit", job |-> job]
  BY <1>1 DEF Items, Plain
<1>3. job.op = "batch" => Fits(job)
  BY <1>1 DEF Within
<1>4. UNCHANGED <<jobs, remaining, run, visited>> /\ (Replace(th, Body(job)) \/ Replace(th, <<y>>))
  BY DEF Submit
<1>5. y \in Items /\ fin.op = "finish" /\ Subject(y) = job /\ Subject(Item(th)) = job /\ Subject(job) = job
  BY <1>1, SubmitFacts, DoFacts DEF Items, Subject
<1>6. Fit(job, visited') /\ Fit(y, visited')
  <2>1. Fit(Item(th), visited')
    BY <1>1, <1>4, NextFits
  <2> HIDE DEF job, y
  <2> QED BY <1>5, <2>1 DEF Fit
<1>7. ASSUME NEW S, Uniform(S)
      PROVE  (Item(th) \in S <=> job \in S) /\ (y \in S <=> job \in S) /\ (Body(job)[1] \in S <=> job \in S)
  <2>1. \A j \in Jobs : /\ [op |-> "submit", job |-> j] \in S <=> j \in S
                        /\ [op |-> "enqueue", job |-> j] \in S <=> j \in S
                        /\ Body(j)[1] \in S <=> j \in S
    BY <1>7 DEF Uniform
  <2> DEFINE x == [op |-> "submit", job |-> job]
  <2>2. (x \in S <=> job \in S) /\ (y \in S <=> job \in S) /\ (Body(job)[1] \in S <=> job \in S)
    BY <1>1, <2>1
  <2>3. Item(th) = x
    BY <1>2
  <2> HIDE DEF x, y, job
  <2> QED BY <2>2, <2>3
<1>8. \A n, i : Uniform(Completing(n)) /\ Uniform(Covering(n, i))
  BY AreUniform
<1> HIDE DEF job, y
<1>9. ASSUME NEW items \in Seq(Items), Replace(th, items), \A S : Uniform(S) /\ job \in S => Has(items, S)
      PROVE  Turn(th, items)
  <2>1. \A n, i : /\ Item(th) \in Completing(n) => Has(items, Completing(n))
                  /\ Item(th) \in Covering(n, i) => Has(items, Covering(n, i))
    BY <1>7, <1>8, <1>9
  <2> QED BY <1>4, <1>9, <2>1 DEF Turn
<1>10. CASE Replace(th, <<y>>)
  <2>1. <<y>> \in Seq(Items) /\ DOMAIN <<y>> = {1} /\ <<y>>[1] = y
    BY <1>5, Singles
  <2>2. \A S : Uniform(S) /\ job \in S => Has(<<y>>, S)
    BY <1>7, FewHave
  <2>3. Turn(th, <<y>>)
    BY <1>9, <1>10, <2>1, <2>2
  <2>4. \A i \in DOMAIN <<y>> : Fit(<<y>>[i], visited')
    BY <1>6, <2>1
  <2> QED BY <2>3, <2>4, Zenon DEF Turns
<1>11. CASE Replace(th, Body(job))
  <2>1. PICK x : Body(job) = <<x, fin>>
    BY DEF Body
  <2>2. /\ Body(job) \in Seq(Items) /\ DOMAIN Body(job) = {1, 2} /\ Body(job)[1] = x /\ Body(job)[2] = fin
        /\ x.op \in {"again", "enter", "batch"}
    <3>1. DOMAIN <<x, fin>> = {1, 2} /\ <<x, fin>>[1] = x /\ <<x, fin>>[2] = fin
      OBVIOUS
    <3>2. Body(job) \in Seq(Items) /\ Body(job)[1].op \in {"again", "enter", "batch"}
      <4>1. TRUE \in BOOLEAN
        OBVIOUS
      <4> QED BY <1>1, <1>3, <4>1, BodyProper
    <3> HIDE DEF fin
    <3>3. DOMAIN Body(job) = {1, 2} /\ Body(job)[1] = x /\ Body(job)[2] = fin
      BY <2>1, <3>1, Zenon
    <3> QED BY <3>2, <3>3
  <2> HIDE DEF fin
  <2>3. \A S : Uniform(S) /\ job \in S => Has(Body(job), S)
    BY <1>7, <2>2 DEF Has
  <2>4. Turn(th, Body(job))
    BY <1>9, <1>11, <2>2, <2>3
  <2>5. Fit(x, visited')
    BY <1>1, <1>3, <1>6, <2>2, BodyFits
  <2>6. \A i \in DOMAIN Body(job) : Fit(Body(job)[i], visited')
    BY <1>5, <2>2, <2>5, FitEasily
  <2> QED BY <2>4, <2>6 DEF Turns
<1> QED BY <1>4, <1>10, <1>11

\* A step of who completes a node.
LEMMA CompletingTurn ==
  ASSUME NEW th \in Threads, NEW n \in Nodes, Item(th) \in Completing(n),
         NEW items \in Seq(Items), Replace(th, items), jobs' = jobs, visited \subseteq visited',
         \A k \in Nodes : remaining[k] # 0 => remaining'[k] # 0,
         \A m \in Nodes : remaining'[m] # 0 /\ remaining[m] = 0 =>
           \A i \in DOMAIN Kids(m) : Has(items, Covering(m, i)) \/ Has(items, Completing(Kids(m)[i])),
         Has(items, Completing(n)) \/ remaining'[n] # 0 \/ n \in visited'
  PROVE  Turn(th, items)
<1>1. \A k \in Nodes : Item(th) \in Completing(k) => k = n
  BY Kinds
<1>2. \A k \in Nodes : \A i : Item(th) \notin Covering(k, i)
  BY Kinds
<1> QED BY <1>1, <1>2 DEF Turn

LEMMA OnDoneIs ==
  ASSUME Assumptions, Inv, NEW n \in Nodes
  PROVE  \/ Parents(n) = {} /\ OnDone(n) = <<>>
         \/ \E p \in Nodes : Parents(n) = {p} /\ OnDone(n) = <<Do("childDone", p)>>
<1>1. CASE Parents(n) = {}
  BY <1>1 DEF OnDone
<1>2. CASE Parents(n) # {}
  <2>1. PICK p \in Parents(n) : p = CHOOSE q \in Parents(n) : TRUE
    BY <1>2
  <2>2. OnDone(n) = <<Do("childDone", p)>>
    BY <1>2, <2>1 DEF OnDone
  <2>3. p \in Nodes /\ \E i \in DOMAIN Kids(p) : Kids(p)[i] = n
    BY <2>1 DEF Parents
  <2>4. Parents(n) = {p}
    BY <2>3, OneParent DEF Inv
  <2> QED BY <2>2, <2>3, <2>4
<1> QED BY <1>1, <1>2

LEMMA CompleteTurns ==
  ASSUME Assumptions, Inv, FitInv, ~hasException, NEW th \in Threads, Complete(th) \/ Again(th)
  PROVE  Turns(th)
<1> USE DEF state, visits, memory
<1> DEFINE n == Item(th).node
           w == Do("work", n)
           j == Do("node", n)
           x == [op |-> "submit", job |-> j]
<1>1. PICK op \in {"complete", "again"} : At(th, op)
  BY DEF Complete, Again
<1>2. /\ agenda[th] # <<>> /\ Item(th) \in Items /\ Item(th).op = op /\ n \in Nodes
      /\ Item(th) \in Completing(n) /\ Subject(Item(th)) = Item(th)
  <2>1. /\ agenda[th] # <<>> /\ Item(th) \in Items /\ Item(th).op = op
        /\ Item(th) \in Things /\ Subject(Item(th)) = Item(th)
    BY <1>1, AtHead
  <2> QED BY <2>1 DEF Items, Completing
<1>3. UNCHANGED <<run, jobs, remaining, visited>> /\ (Replace(th, <<w>>) \/ Replace(th, <<x>>))
  BY DEF Complete, Again, Load, Schedule
<1>4. ToSet(Kids(n)) \subseteq visited'
  <2>1. Fit(Item(th), visited)
    BY <1>2, NextFits
  <2> HIDE DEF n
  <2>2. ToSet(Kids(Item(th).node)) \subseteq visited
    BY <1>2, <2>1 DEF Fit
  <2> QED BY <1>3, <2>2 DEF n
<1> HIDE DEF n
<1>5. j \in Jobs /\ j.op = "node" /\ j.node = n
  BY <1>2 DEF Jobs, Do
<1>6. w \in Items /\ w.op = "work" /\ w.node = n
  BY <1>2, DoFacts DEF Plain
<1> HIDE DEF w, j
<1>7. x \in Items /\ x \in Things /\ Subject(x) = j
  BY <1>5, SubmitFacts DEF Items
<1>8. Subject(w) = w /\ w \in Things
  BY <1>6 DEF Subject, Things
<1> HIDE DEF x
<1>9. PICK it : /\ Replace(th, <<it>>) /\ it \in Items /\ it \in Completing(n) /\ Fit(it, visited')
  <2>1. w \in Completing(n) /\ Fit(w, visited')
    BY <1>4, <1>6, <1>8 DEF Completing, Fit
  <2>2. x \in Completing(n) /\ Fit(x, visited')
    BY <1>4, <1>5, <1>7 DEF Completing, Fit
  <2> QED BY <1>3, <1>6, <1>7, <2>1, <2>2
<1>10. <<it>> \in Seq(Items) /\ DOMAIN <<it>> = {1} /\ <<it>>[1] = it /\ Has(<<it>>, Completing(n))
  BY <1>9, Singles, FewHave
<1>11. Turn(th, <<it>>)
  BY <1>2, <1>3, <1>9, <1>10, CompletingTurn
<1>12. \A i \in DOMAIN <<it>> : Fit(<<it>>[i], visited')
  BY <1>9, <1>10
<1> QED BY <1>11, <1>12, Zenon DEF Turns

LEMMA WorkTurns ==
  ASSUME Assumptions, Inv, FitInv, failed' = failed, NEW th \in Threads, Work(th), Item(th).node \notin failed
  PROVE  Turns(th) /\ visited' = visited \cup {Item(th).node}
<1> USE DEF state, visits, memory
<1> DEFINE n == Item(th).node
<1>1. /\ agenda[th] # <<>> /\ Item(th) \in Items /\ Item(th).op = "work" /\ n \in Nodes
      /\ Item(th) \in Completing(n)
  <2>1. /\ agenda[th] # <<>> /\ Item(th) \in Items /\ Item(th).op = "work"
        /\ Item(th) \in Things /\ Subject(Item(th)) = Item(th)
    BY AtHead DEF Work
  <2> QED BY <2>1 DEF Items, Completing
<1>2. UNCHANGED <<run, jobs, remaining>> /\ Replace(th, OnDone(n)) /\ visited' = visited \cup {n}
  <2>1. Call(th, n, OnDone(n), OnDone(n)) /\ UNCHANGED <<run, jobs, remaining>>
    BY DEF Work
  <2> HIDE DEF n
  <2>2. n \notin failed
    BY DEF n
  <2> QED BY <2>1, <2>2 DEF Call
<1> HIDE DEF n
<1>3. OnDone(n) \in Seq(Items) /\ \A i \in DOMAIN OnDone(n) : Fit(OnDone(n)[i], visited')
  <2>1. CASE OnDone(n) = <<>>
    <3>1. <<>> \in Seq(Items) /\ DOMAIN <<>> = {}
      BY <1>1, Singles
    <3>2. OnDone(n) \in Seq(Items) /\ DOMAIN OnDone(n) = {}
      BY <2>1, <3>1, Zenon
    <3> QED BY <3>2
  <2>2. ASSUME NEW p \in Nodes, OnDone(n) = <<Do("childDone", p)>>
        PROVE  OnDone(n) \in Seq(Items) /\ \A i \in DOMAIN OnDone(n) : Fit(OnDone(n)[i], visited')
    <3> DEFINE c == Do("childDone", p)
    <3>1. c \in Items /\ c.op = "childDone"
      BY DoFacts DEF Plain
    <3> HIDE DEF c
    <3>2. <<c>> \in Seq(Items) /\ DOMAIN <<c>> = {1} /\ <<c>>[1] = c /\ Fit(c, visited')
      BY <3>1, Singles, FitEasily
    <3>3. OnDone(n) = <<c>>
      BY <2>2 DEF c
    <3>4. OnDone(n) \in Seq(Items) /\ DOMAIN OnDone(n) = {1} /\ OnDone(n)[1] = c
      BY <3>2, <3>3, Zenon
    <3> QED BY <3>2, <3>4
  <2> QED BY <1>1, <2>1, <2>2, OnDoneIs
<1>4. Turn(th, OnDone(n))
  BY <1>1, <1>2, <1>3, CompletingTurn
<1> QED BY <1>2, <1>3, <1>4 DEF Turns, n

LEMMA SpanKinds ==
  ASSUME NEW op \in {"batch", "leaf"}, NEW b \in Items, b.op = op
  PROVE  /\ \A m : b \notin Completing(m)
         /\ \A m, i : b \in Covering(m, i) <=> m = b.node /\ b.lo <= i /\ i < b.hi
         /\ \A seen : Fit(b, seen) <=> \A i \in b.lo .. (b.hi - 1) : IsLeaf(Kids(b.node)[i])
<1>1. Subject(b) = b /\ b \in Things
  BY DEF Subject, Things
<1>2. \A m : b \notin Completing(m)
  BY <1>1 DEF Completing
<1>3. \A m, i : b \in Covering(m, i) <=> m = b.node /\ b.lo <= i /\ i < b.hi
  BY <1>1 DEF Covering
<1>4. \A seen : Fit(b, seen) <=> \A i \in b.lo .. (b.hi - 1) : IsLeaf(Kids(b.node)[i])
  BY <1>1 DEF Fit
<1> QED BY <1>2, <1>3, <1>4

\* What a step of a batch of leaves puts in its place.
LEMMA SpanTurn ==
  ASSUME NEW th \in Threads, NEW b, b = Item(th), NEW op \in {"batch", "leaf"}, b \in Items, b.op = op,
         NEW x \in Items, Replace(th, <<x>>), jobs' = jobs, remaining' = remaining, visited \subseteq visited',
         Fit(x, visited'),
         \A i \in DOMAIN Kids(b.node) : b \in Covering(b.node, i) =>
           x \in Covering(b.node, i) \/ Kids(b.node)[i] \in visited'
  PROVE  Turns(th)
<1>1. <<x>> \in Seq(Items) /\ DOMAIN <<x>> = {1} /\ <<x>>[1] = x
  BY Singles
<1>2. \A S : Has(<<x>>, S) <=> x \in S
  BY FewHave
<1>3. /\ \A m : b \notin Completing(m)
      /\ \A m, i : b \in Covering(m, i) => m = b.node
  BY SpanKinds
<1>4. Turn(th, <<x>>)
  BY <1>1, <1>2, <1>3 DEF Turn
<1>5. \A i \in DOMAIN <<x>> : Fit(<<x>>[i], visited')
  BY <1>1
<1> QED BY <1>4, <1>5, Zenon DEF Turns

LEMMA BatchTurns ==
  ASSUME Assumptions, Inv, FitInv, ~hasException, NEW th \in Threads, Batch(th)
  PROVE  Turns(th)
<1> USE DEF state, visits, memory
<1> DEFINE b == Item(th)
           c == Do("childDone", b.node)
           l == Span("leaf", b.node, b.lo, b.hi)
<1>1. /\ agenda[th] # <<>> /\ b \in Items /\ b.op = "batch" /\ b.node \in Nodes /\ b.lo \in Nat /\ b.hi \in Nat
  <2>1. agenda[th] # <<>> /\ b \in Items /\ b.op = "batch"
    BY AtHead DEF Batch
  <2> QED BY <2>1 DEF Items, Plain
<1>2. /\ jobs' = jobs /\ remaining' = remaining /\ visited' = visited
      /\ (b.lo = b.hi /\ Replace(th, <<c>>)) \/ Replace(th, <<l>>)
  BY DEF Batch, Load
<1>3. Fit(b, visited)
  BY <1>1, NextFits
<1>4. c \in Items /\ c.op = "childDone" /\ c.node = b.node
  BY <1>1, DoFacts DEF Plain
<1>5. l \in Items /\ l.op = "leaf" /\ l.node = b.node /\ l.lo = b.lo /\ l.hi = b.hi
  <2>1. "leaf" \in {"batch", "leaf"}
    OBVIOUS
  <2> QED BY <1>1, <2>1, SpanFacts
<1>6. "batch" \in {"batch", "leaf"} /\ "leaf" \in {"batch", "leaf"}
  OBVIOUS
<1> HIDE DEF b, c, l
<1>7. \A m, i : b \in Covering(m, i) <=> m = b.node /\ b.lo <= i /\ i < b.hi
  BY <1>1, <1>6, SpanKinds
<1>8. CASE b.lo = b.hi /\ Replace(th, <<c>>)
  <2>1. Fit(c, visited')
    BY <1>4, FitEasily
  <2>2. Kids(b.node) \in Seq(Nodes)
    BY <1>1, Basics DEF Inv
  <2>3. \A i \in DOMAIN Kids(b.node) : b \notin Covering(b.node, i)
    <3>1. ASSUME NEW i \in 1 .. Len(Kids(b.node))
          PROVE  ~(b.lo <= i /\ i < b.hi)
      <4>1. Len(Kids(b.node)) \in Nat
        BY <2>2, LenProperties
      <4> QED BY <1>1, <1>8, <4>1
    <3>2. DOMAIN Kids(b.node) = 1 .. Len(Kids(b.node))
      BY <2>2, LenProperties
    <3> QED BY <1>7, <3>1, <3>2
  <2> QED BY <1>1, <1>2, <1>4, <1>6, <1>8, <2>1, <2>3, SpanTurn DEF b
<1>9. CASE Replace(th, <<l>>)
  <2>1. /\ \A m, i : l \in Covering(m, i) <=> m = b.node /\ b.lo <= i /\ i < b.hi
        /\ \A seen : Fit(l, seen) <=> \A i \in b.lo .. (b.hi - 1) : IsLeaf(Kids(b.node)[i])
    BY <1>5, <1>6, SpanKinds
  <2>2. Fit(l, visited')
    <3>1. \A seen : Fit(b, seen) <=> \A i \in b.lo .. (b.hi - 1) : IsLeaf(Kids(b.node)[i])
      BY <1>1, <1>6, SpanKinds
    <3> QED BY <1>3, <2>1, <3>1
  <2>3. \A i : b \in Covering(b.node, i) => l \in Covering(b.node, i)
    BY <1>7, <2>1
  <2> QED BY <1>1, <1>2, <1>5, <1>6, <1>9, <2>1, <2>2, <2>3, SpanTurn DEF b
<1> QED BY <1>2, <1>8, <1>9

LEMMA LeafTurns ==
  ASSUME Assumptions, Inv, FitInv, failed = {}, failed' = {}, NEW th \in Threads, Leaf(th)
  PROVE  /\ Turns(th)
         /\ \E k \in Nodes : IsLeaf(k) /\ visited' = visited \cup {k}
<1> USE DEF state, visits, memory
<1> DEFINE b == Item(th)
           k == Kids(b.node)[b.lo]
           d == Span("batch", b.node, b.lo + 1, b.hi)
<1>1. /\ agenda[th] # <<>> /\ b \in Items /\ b.op = "leaf" /\ b.node \in Nodes /\ b.lo \in Nat \ {0} /\ b.hi \in Nat
      /\ b.lo < b.hi /\ b.hi <= Len(Kids(b.node)) + 1
  <2>1. agenda[th] # <<>> /\ b \in Items /\ b.op = "leaf" /\ Within(b)
    BY AtHead DEF Leaf
  <2>2. b.node \in Nodes /\ b.lo \in Nat /\ b.hi \in Nat
    BY <2>1 DEF Items, Plain
  <2> HIDE DEF b
  <2> QED BY <2>1, <2>2 DEF Within
<1>2. /\ jobs' = jobs /\ remaining' = remaining /\ Replace(th, <<d>>)
      /\ visited' = visited \cup {k}
  <2>1. Call(th, k, <<d>>, <<Do("childDone", b.node)>>) /\ jobs' = jobs /\ remaining' = remaining
    BY DEF Leaf
  <2> HIDE DEF k, d
  <2> QED BY <2>1 DEF Call
<1>3. Fit(b, visited)
  BY <1>1, NextFits
<1>4. d \in Items /\ d.op = "batch" /\ d.node = b.node /\ d.lo = b.lo + 1 /\ d.hi = b.hi
  <2>1. "batch" \in {"batch", "leaf"} /\ b.lo + 1 \in Nat
    BY <1>1
  <2> QED BY <1>1, <2>1, SpanFacts
<1>5. "batch" \in {"batch", "leaf"} /\ "leaf" \in {"batch", "leaf"}
  OBVIOUS
<1> HIDE DEF b, d
<1>6. /\ \A m, i : b \in Covering(m, i) <=> m = b.node /\ b.lo <= i /\ i < b.hi
      /\ \A seen : Fit(b, seen) <=> \A i \in b.lo .. (b.hi - 1) : IsLeaf(Kids(b.node)[i])
  BY <1>1, <1>5, SpanKinds
<1>7. /\ \A m, i : d \in Covering(m, i) <=> m = b.node /\ b.lo + 1 <= i /\ i < b.hi
      /\ \A seen : Fit(d, seen) <=> \A i \in b.lo + 1 .. (b.hi - 1) : IsLeaf(Kids(b.node)[i])
  BY <1>4, <1>5, SpanKinds
<1>8. /\ k \in Nodes /\ IsLeaf(k)
      /\ \A i \in b.lo + 1 .. (b.hi - 1) : IsLeaf(Kids(b.node)[i])
  <2>1. Len(Kids(b.node)) \in Nat /\ \A i \in 1 .. Len(Kids(b.node)) : Kids(b.node)[i] \in Nodes
    BY <1>1, Basics DEF Inv
  <2>2. b.lo \in 1 .. Len(Kids(b.node)) /\ b.lo \in b.lo .. (b.hi - 1)
    BY <1>1, <2>1
  <2>3. b.lo + 1 .. (b.hi - 1) \subseteq b.lo .. (b.hi - 1)
    BY <1>1
  <2> QED BY <1>3, <1>6, <2>1, <2>2, <2>3
<1>9. Fit(d, visited')
  BY <1>7, <1>8
<1>10. k \in visited' /\ visited \subseteq visited'
  <2> HIDE DEF k
  <2> QED BY <1>2
<1>11. ASSUME NEW i \in DOMAIN Kids(b.node), b \in Covering(b.node, i)
       PROVE  d \in Covering(b.node, i) \/ Kids(b.node)[i] \in visited'
  <2>1. Kids(b.node) \in Seq(Nodes)
    BY <1>1, Basics DEF Inv
  <2>2. i \in Nat
    BY <2>1, LenProperties
  <2>3. b.lo <= i /\ i < b.hi
    BY <1>6, <1>11
  <2>4. CASE i = b.lo
    BY <1>10, <2>4
  <2>5. CASE i # b.lo
    <3>1. b.lo + 1 <= i
      BY <1>1, <2>2, <2>3, <2>5
    <3> QED BY <1>7, <2>3, <3>1
  <2> QED BY <2>4, <2>5
<1>12. Turns(th)
  BY <1>1, <1>2, <1>4, <1>5, <1>9, <1>10, <1>11, SpanTurn DEF b
<1> QED BY <1>2, <1>8, <1>12

LEMMA BottomUpTurns ==
  ASSUME Assumptions, Inv, NEW th \in Threads, BottomUp(th)
  PROVE  Turns(th)
<1> USE DEF state, visits, memory
<1> DEFINE n == Item(th).node
           c == Do("complete", n)
           u == NextUnit(n, 1)
<1>1. /\ agenda[th] # <<>> /\ Item(th) \in Items /\ Item(th).op = "visit" /\ n \in Nodes
      /\ Item(th) \in Completing(n) /\ jobs' = jobs /\ visited' = visited
  <2>1. /\ agenda[th] # <<>> /\ Item(th) \in Items /\ Item(th).op = "visit"
        /\ Item(th) \in Things /\ Subject(Item(th)) = Item(th)
    BY AtHead DEF BottomUp
  <2> QED BY <2>1 DEF Items, Completing, BottomUp
<1>2. \/ IsLeaf(n) /\ Replace(th, <<c>>) /\ UNCHANGED remaining
      \/ /\ ~IsLeaf(n) /\ remaining' = [remaining EXCEPT ![n] = StartCount(n)]
         /\ \/ run.budget = 0 /\ Replace(th, Each("visit", Kids(n)))
            \/ run.budget # 0 /\ Replace(th, <<u>>)
  BY DEF BottomUp
<1> HIDE DEF n
<1>3. Kids(n) \in Seq(Nodes) /\ DOMAIN Kids(n) = 1 .. Len(Kids(n)) /\ Len(Kids(n)) \in Nat
  <2>1. Kids(n) \in Seq(Nodes)
    BY <1>1, Basics DEF Inv
  <2> QED BY <2>1, LenProperties
<1>4. CASE IsLeaf(n) /\ Replace(th, <<c>>) /\ UNCHANGED remaining
  <2>1. c \in Items /\ c.op = "complete" /\ c.node = n
    BY <1>1, DoFacts DEF Plain
  <2> HIDE DEF c
  <2>2. Subject(c) = c /\ c \in Things
    BY <2>1 DEF Subject, Things
  <2>3. ToSet(Kids(n)) = {}
    <3>1. DOMAIN Kids(n) = {}
      BY <1>4 DEF IsLeaf
    <3> QED BY <3>1 DEF ToSet
  <2>4. c \in Completing(n) /\ Fit(c, visited')
    BY <2>1, <2>2, <2>3 DEF Completing, Fit
  <2>5. <<c>> \in Seq(Items) /\ DOMAIN <<c>> = {1} /\ <<c>>[1] = c /\ Has(<<c>>, Completing(n))
    BY <2>1, <2>4, Singles, FewHave
  <2>6. Turn(th, <<c>>)
    BY <1>1, <1>4, <2>5, CompletingTurn
  <2>7. \A i \in DOMAIN <<c>> : Fit(<<c>>[i], visited')
    BY <2>4, <2>5
  <2> QED BY <2>6, <2>7, Zenon DEF Turns
<1>5. CASE ~IsLeaf(n)
  <2>1. remaining' = [remaining EXCEPT ![n] = StartCount(n)]
    BY <1>2, <1>5
  <2>2. Len(Kids(n)) # 0
    BY <1>3, <1>5, EmptySeq DEF IsLeaf
  <2>3. remaining \in [Nodes -> Int]
    BY DEF Inv, TypeInv, DataInv
  <2>4. remaining'[n] = StartCount(n) /\ \A m \in Nodes : m # n => remaining'[m] = remaining[m]
    BY <1>1, <2>1, <2>3
  <2>5. StartCount(n) # 0
    BY <2>2 DEF StartCount
  <2>6. ASSUME NEW items \in Seq(Items), Replace(th, items),
               \A i \in DOMAIN Kids(n) : Has(items, Covering(n, i)) \/ Has(items, Completing(Kids(n)[i]))
        PROVE  Turn(th, items)
    BY <1>1, <2>4, <2>5, <2>6, CompletingTurn
  <2>7. CASE run.budget = 0 /\ Replace(th, Each("visit", Kids(n)))
    <3> DEFINE items == Each("visit", Kids(n))
    <3>1. /\ items \in Seq(Items) /\ DOMAIN items = DOMAIN Kids(n)
          /\ \A i \in DOMAIN Kids(n) : Kids(n)[i] \in Nodes /\ items[i] = Do("visit", Kids(n)[i])
      <4>1. DOMAIN items = DOMAIN Kids(n)
        BY <1>3 DEF Each
      <4>2. /\ items \in Seq(Items) /\ \A i \in 1 .. Len(Kids(n)) : Kids(n)[i] \in Nodes /\ items[i] = Do("visit", Kids(n)[i])
        BY <1>3, EachFacts
      <4> QED BY <1>3, <4>1, <4>2
    <3>2. Replace(th, items)
      BY <2>7
    <3> HIDE DEF items
    <3>3. ASSUME NEW i \in DOMAIN Kids(n), NEW k, k = Kids(n)[i]
          PROVE  Has(items, Completing(k)) /\ Fit(items[i], visited')
      <4> DEFINE v == Do("visit", k)
      <4>1. v \in Items /\ v.op = "visit" /\ v.node = k /\ items[i] = v
        BY <3>1, <3>3, DoFacts DEF Plain
      <4> HIDE DEF v
      <4>2. v \in Completing(k) /\ Fit(v, visited')
        BY <4>1, FitEasily DEF Completing, Subject, Things
      <4> QED BY <3>1, <4>1, <4>2 DEF Has
    <3>4. Turn(th, items)
      BY <2>6, <3>1, <3>2, <3>3
    <3>5. \A i \in DOMAIN items : Fit(items[i], visited')
      BY <3>1, <3>3
    <3> QED BY <3>4, <3>5 DEF Turns
  <2>8. CASE run.budget # 0 /\ Replace(th, <<u>>)
    <3>1. u \in Items /\ u.op = "unit" /\ u.node = n /\ u.lo = 1
      <4>1. 1 \in 1 .. Len(Kids(n)) + 1 /\ 1 <= Len(Kids(n))
        BY <1>3, <2>2
      <4>2. u \in Items
        BY <1>1, <4>1, NextUnitFacts DEF Inv
      <4> QED BY <4>1, <4>2 DEF NextUnit
    <3> HIDE DEF u
    <3>2. Subject(u) = u /\ u \in Things /\ Fit(u, visited')
      BY <3>1, FitEasily DEF Subject, Things
    <3>3. ASSUME NEW i \in DOMAIN Kids(n)
          PROVE  u \in Covering(n, i)
      <4>1. u.lo <= i
        BY <1>3, <3>1
      <4> QED BY <3>1, <3>2, <4>1 DEF Covering
    <3>4. <<u>> \in Seq(Items) /\ DOMAIN <<u>> = {1} /\ <<u>>[1] = u
      BY <3>1, Singles
    <3>5. \A S : u \in S => Has(<<u>>, S)
      BY FewHave
    <3>6. Turn(th, <<u>>)
      BY <2>6, <2>8, <3>3, <3>4, <3>5
    <3>7. \A i \in DOMAIN <<u>> : Fit(<<u>>[i], visited')
      BY <3>2, <3>4
    <3> QED BY <3>6, <3>7, Zenon DEF Turns
  <2> QED BY <1>2, <1>5, <2>7, <2>8
<1> QED BY <1>2, <1>4, <1>5

\* The counter of a node that something will report to is not zero.
LEMMA ReportsCount ==
  ASSUME Assumptions, Inv, BalanceInv, NEW n \in Nodes, Number(Reporting(n)) # 0
  PROVE  remaining[n] # 0
<1>1. remaining[n] = Reported[n] + Cardinality(Open(run.kids, Completions, remaining, n)) /\ Reported[n] \in Nat /\ Reported[n] # 0
  <2>1. Reported[n] = Number(Reporting(n)) /\ Reported[n] \in Nat
    BY NumbersAre DEF Reported
  <2> QED BY <2>1 DEF BalanceInv, Balance
<1>2. Cardinality(Open(run.kids, Completions, remaining, n)) \in Nat
  <2>1. Open(run.kids, Completions, remaining, n) \subseteq DOMAIN run.kids[n]
    BY DEF Open
  <2>2. run.kids[n] \in Seq(Nodes)
    <3>1. Kids(n) \in Seq(Nodes)
      BY Basics DEF Inv
    <3> QED BY <3>1 DEF Kids
  <2>3. Len(run.kids[n]) \in Nat /\ DOMAIN run.kids[n] = 1 .. Len(run.kids[n])
    BY <2>2, LenProperties
  <2>4. IsFiniteSet(1 .. Len(run.kids[n]))
    BY <2>3, FS_Interval
  <2> QED BY <2>1, <2>3, <2>4, FS_Subset, FS_CardinalityType
<1>3. PICK a, b : a = Reported[n] /\ b = Cardinality(Open(run.kids, Completions, remaining, n))
  OBVIOUS
<1>4. a \in Nat /\ b \in Nat /\ a # 0 /\ remaining[n] = a + b
  BY <1>1, <1>2, <1>3
<1> QED BY <1>4

LEMMA HeadIsHad ==
  ASSUME Inv, NEW th \in Threads, agenda[th] # <<>>, NEW S, Item(th) \in S
  PROVE  Has(agenda[th], S)
<1>1. agenda[th] \in Seq(Items)
  BY DEF Inv, TypeInv
<1>2. Len(agenda[th]) \in Nat \ {0} /\ Head(agenda[th]) = agenda[th][1]
  BY <1>1, EmptySeq
<1>3. 1 \in DOMAIN agenda[th]
  BY <1>1, <1>2, LenProperties
<1> QED BY <1>2, <1>3 DEF Has, Item

\* When the counter of a node is zero no child of it is on its way.
LEMMA Arrived ==
  Assumptions /\ Inv /\ BalanceInv =>
    \A n \in Nodes : remaining[n] = 0 =>
      \A i \in DOMAIN Kids(n) : \A k : k = Kids(n)[i] /\ Accounted(n, i, k) => k \in visited
<1> SUFFICES ASSUME Assumptions, Inv, BalanceInv, NEW n \in Nodes, remaining[n] = 0, NEW i \in DOMAIN Kids(n),
                    NEW k, k = Kids(n)[i], Accounted(n, i, k)
             PROVE  k \in visited
  OBVIOUS
<1>1. Number(Reporting(n)) = 0
  BY ReportsCount
<1>2. Kids(n) \in Seq(Nodes) /\ i \in Nat /\ k \in Nodes /\ Kids(n) = run.kids[n]
  <2>1. Kids(n) \in Seq(Nodes) /\ DOMAIN Kids(n) = 1 .. Len(Kids(n))
    <3>1. Kids(n) \in Seq(Nodes)
      BY Basics DEF Inv
    <3> QED BY <3>1, LenProperties
  <2>2. \A j \in 1 .. Len(Kids(n)) : Kids(n)[j] \in Nodes
    BY <2>1, ElementOfSeq
  <2> QED BY <2>1, <2>2 DEF Kids
<1>3. ~Present(Covering(n, i))
  <2>1. /\ Covers[<<n, i>>] <= Reported[n] /\ Reported[n] = 0 /\ Covers[<<n, i>>] \in Nat
        /\ Covers[<<n, i>>] = Number(Covering(n, i))
    BY <1>1, <1>2, NumbersAre DEF Backed, Reported, Covers
  <2>2. Number(Covering(n, i)) = 0
    BY <2>1
  <2> QED BY <2>2, PresentCounts
<1>4. Completions[k] = 0 /\ remaining[k] = 0
  <2> DEFINE O == Open(run.kids, Completions, remaining, n)
  <2>1. IsFiniteSet(O)
    <3>1. O \subseteq DOMAIN run.kids[n]
      BY DEF Open
    <3>2. Len(run.kids[n]) \in Nat /\ DOMAIN run.kids[n] = 1 .. Len(run.kids[n])
      BY <1>2, LenProperties
    <3>3. IsFiniteSet(1 .. Len(run.kids[n]))
      BY <3>2, FS_Interval
    <3> QED BY <3>1, <3>2, <3>3, FS_Subset
  <2>2. remaining[n] = Reported[n] + Cardinality(O) /\ Reported[n] = Number(Reporting(n))
    BY DEF BalanceInv, Balance, Reported
  <2>3. PICK c : c = Cardinality(O)
    OBVIOUS
  <2>4. c \in Nat
    BY <2>1, <2>3, FS_CardinalityType
  <2>5. c = 0
    BY <1>1, <2>2, <2>3, <2>4
  <2>6. O = {}
    BY <2>1, <2>3, <2>5, FS_EmptySet
  <2>7. i \notin O /\ i \in DOMAIN run.kids[n]
    BY <1>2, <2>6
  <2> QED BY <1>2, <2>7 DEF Open
<1>5. ~Present(Completing(k))
  <2>1. Number(Completing(k)) = 0
    BY <1>2, <1>4 DEF Completions
  <2> QED BY <2>1, PresentCounts
<1> QED BY <1>3, <1>4, <1>5 DEF Accounted

LEMMA ArrivedNext ==
  ASSUME Assumptions, Inv', BalanceInv'
  PROVE  (\A n \in Nodes : remaining[n] = 0 =>
           \A i \in DOMAIN Kids(n) : \A k : k = Kids(n)[i] /\ Accounted(n, i, k) => k \in visited)'
<1>1. Assumptions'
  OBVIOUS
<1> QED BY <1>1, Arrived, PTL

LEMMA ChildDoneTurns ==
  ASSUME Assumptions, Inv, BalanceInv, FitInv, ReachedInv, NEW th \in Threads, ChildDone(th)
  PROVE  Turns(th)
<1> USE DEF state, visits, memory
<1>0. PICK n : n = Item(th).node
  OBVIOUS
<1> DEFINE c == Do("complete", n)
<1>1. /\ agenda[th] # <<>> /\ Item(th) \in Items /\ Item(th).op = "childDone" /\ n \in Nodes
      /\ Item(th) \in Reporting(n)
  <2>1. /\ agenda[th] # <<>> /\ Item(th) \in Items /\ Item(th).op = "childDone"
        /\ Item(th) \in Things /\ Subject(Item(th)) = Item(th)
    BY AtHead DEF ChildDone
  <2> QED BY <1>0, <2>1 DEF Items, Plain, Reporting
<1>2. /\ remaining' = [remaining EXCEPT ![n] = remaining[n] - 1] /\ jobs' = jobs /\ run' = run /\ visited' = visited
      /\ (remaining[n] = 1 /\ Replace(th, <<c>>)) \/ (remaining[n] # 1 /\ Replace(th, <<>>))
  BY <1>0 DEF ChildDone
<1>3. \A m, i : Item(th) \notin Completing(m) /\ Item(th) \notin Covering(m, i)
  BY <1>0, <1>1, Kinds DEF Covering, Subject
<1>4. c \in Items /\ c.op = "complete" /\ c.node = n /\ c \in Completing(n)
  <2>1. c \in Items /\ c.op = "complete" /\ c.node = n
    BY <1>1, DoFacts DEF Plain
  <2> HIDE DEF c
  <2> QED BY <2>1 DEF Completing, Subject, Things
<1> HIDE DEF c
<1>5. /\ remaining'[n] = remaining[n] - 1 /\ remaining[n] # 0 /\ remaining[n] \in Int
      /\ \A m \in Nodes : m # n => remaining'[m] = remaining[m]
  <2>1. remaining \in [Nodes -> Int]
    BY DEF Inv, TypeInv, DataInv
  <2>2. Number(Reporting(n)) # 0
    <3>1. PICK items \in Seq(Items) : Replace(th, items)
      <4>1. <<>> \in Seq(Items) /\ <<c>> \in Seq(Items)
        BY <1>4, Singles
      <4> QED BY <1>2, <4>1
    <3> QED BY <1>1, <1>2, <3>1, NumberChange
  <2> QED BY <1>1, <1>2, <2>1, <2>2, ReportsCount
<1>6. ASSUME NEW items \in Seq(Items), Replace(th, items), remaining[n] = 1 => Has(items, Completing(n))
      PROVE  Turn(th, items)
  <2>1. \A k \in Nodes : remaining[k] # 0 => remaining'[k] # 0 \/ Has(items, Completing(k))
    BY <1>5, <1>6
  <2> QED BY <1>2, <1>3, <1>5, <1>6, <2>1 DEF Turn
<1>7. CASE remaining[n] # 1 /\ Replace(th, <<>>)
  <2>1. <<>> \in Seq(Items) /\ DOMAIN <<>> = {}
    BY <1>4, Singles
  <2>2. Turn(th, <<>>)
    BY <1>6, <1>7, <2>1
  <2>3. \A i \in DOMAIN <<>> : Fit(<<>>[i], visited')
    BY <2>1
  <2> QED BY <2>2, <2>3, Zenon DEF Turns
<1>8. CASE remaining[n] = 1 /\ Replace(th, <<c>>)
  <2>1. <<c>> \in Seq(Items) /\ DOMAIN <<c>> = {1} /\ <<c>>[1] = c /\ Has(<<c>>, Completing(n))
    BY <1>4, Singles, FewHave
  <2>2. Turn(th, <<c>>)
    BY <1>6, <1>8, <2>1
  <2>3. Inv' /\ BalanceInv'
    BY StepKeepsInv, ChildDoneKeepsBalance DEF Step
  <2>4. ASSUME NEW i \in DOMAIN Kids(n), NEW k, k = Kids(n)[i]
        PROVE  k \in visited'
    <3>1. Accounted(n, i, k)
      BY <1>1, <1>5, <2>4 DEF ReachedInv
    <3>2. Accounted(n, i, k)'
      BY <1>1, <2>2, <2>3, <2>4, <3>1, TurnKeepsChild
    <3>3. Kids(n)' = Kids(n) /\ remaining'[n] = 0
      <4>1. remaining'[n] = 0
        BY <1>5, <1>8
      <4> QED BY <1>2, <4>1 DEF Kids
    <3> QED BY <1>1, <2>3, <2>4, <3>2, <3>3, ArrivedNext
  <2>5. Fit(c, visited')
    <3>1. ToSet(Kids(n)) \subseteq visited'
      BY <2>4 DEF ToSet
    <3> QED BY <1>4, <3>1 DEF Fit, Subject
  <2>6. \A i \in DOMAIN <<c>> : Fit(<<c>>[i], visited')
    BY <2>1, <2>5
  <2> QED BY <2>2, <2>6, Zenon DEF Turns
<1> QED BY <1>2, <1>7, <1>8

LEMMA UnitTurns ==
  ASSUME Assumptions, Inv, BalanceInv, NEW th \in Threads, Unit(th)
  PROVE  Turns(th)
<1> USE DEF state, visits, memory
<1>0. PICK n, lo, hi : n = Item(th).node /\ lo = Item(th).lo /\ hi = UnitEnd(n, lo)
  OBVIOUS
<1> DEFINE y == NextUnit(n, hi)
           b == Span("batch", n, lo, hi)
           k == Kids(n)[lo]
           v == Do("visit", k)
           s == [op |-> "submit", job |-> b]
<1>1. /\ agenda[th] # <<>> /\ Item(th) \in Items /\ Item(th).op = "unit" /\ n \in Nodes /\ lo \in 1 .. Len(Kids(n)) /\ lo \in Nat
      /\ Item(th) \in Things /\ Subject(Item(th)) = Item(th) /\ Item(th) \in Reporting(n)
  <2>1. /\ agenda[th] # <<>> /\ Item(th) \in Items /\ Item(th).op = "unit" /\ Within(Item(th))
        /\ Item(th) \in Things /\ Subject(Item(th)) = Item(th)
    BY AtHead DEF Unit
  <2>2. n \in Nodes /\ lo \in Nat
    BY <1>0, <2>1 DEF Items, Plain
  <2>3. lo \in 1 .. Len(Kids(n))
    BY <1>0, <2>1 DEF Within
  <2> QED BY <1>0, <2>1, <2>2, <2>3 DEF Reporting
<1>2. /\ remaining' = [remaining EXCEPT ![n] = remaining[n] + 1] /\ jobs' = jobs /\ visited' = visited
      /\ hi > lo + 1 => Replace(th, <<s>> \o <<y>>)
      /\ ~(hi > lo + 1) => Replace(th, <<v>> \o <<y>>)
  BY <1>0, Zenon DEF Unit, Schedule
<1>3. hi \in lo + 1 .. Len(Kids(n)) + 1 /\ (hi > lo + 1 => Fits(b)) /\ hi \in Nat /\ Len(Kids(n)) \in Nat /\ k \in Nodes
  <2>1. hi \in lo + 1 .. Len(Kids(n)) + 1 /\ (hi > lo + 1 => Fits(b))
    BY <1>0, <1>1, UnitFacts DEF Inv
  <2>2. Len(Kids(n)) \in Nat /\ k \in Nodes
    BY <1>1, Basics DEF Inv
  <2> HIDE DEF b, k
  <2> QED BY <1>1, <2>1, <2>2
<1>4. /\ \A m, i : Item(th) \in Covering(m, i) => m = n /\ lo <= i
      /\ \A m : Item(th) \notin Completing(m)
  BY <1>0, <1>1 DEF Covering, Completing
<1>5. remaining'[n] # 0 /\ remaining[n] # 0 /\ \A m \in Nodes : m # n => remaining'[m] = remaining[m]
  <2>1. remaining[n] \in Nat /\ remaining \in [Nodes -> Nat]
    BY <1>1 DEF BalanceInv, Numbers
  <2>2. remaining'[n] = remaining[n] + 1 /\ \A m \in Nodes : m # n => remaining'[m] = remaining[m]
    BY <1>1, <1>2, <2>1
  <2>3. Number(Reporting(n)) # 0
    <3>1. ASSUME Number(Reporting(n)) = 0
          PROVE  FALSE
      <4>1. ~Present(Reporting(n))
        BY <3>1, PresentCounts
      <4>2. Has(agenda[th], Reporting(n))
        BY <1>1, HeadIsHad
      <4> QED BY <4>1, <4>2 DEF Present
    <3> QED BY <3>1
  <2> QED BY <1>1, <2>1, <2>2, <2>3, ReportsCount
<1>6. /\ y \in Items /\ y.op \in {"unit", "childDone"}
      /\ \A i \in 1 .. Len(Kids(n)) : hi <= i => y \in Covering(n, i)
  <2>1. hi \in 1 .. Len(Kids(n)) + 1
    BY <1>1, <1>3
  <2>2. y \in Items /\ y.op \in {"unit", "childDone"} /\ y.node = n
    BY <1>1, <2>1, NextUnitFacts DEF Inv
  <2>3. hi <= Len(Kids(n)) => y.op = "unit" /\ y.lo = hi
    BY DEF NextUnit
  <2> HIDE DEF y
  <2>4. Subject(y) = y /\ y \in Things
    BY <2>2 DEF Subject, Things
  <2>5. ASSUME NEW i \in 1 .. Len(Kids(n)), hi <= i
        PROVE  y \in Covering(n, i)
    <3>1. hi <= Len(Kids(n))
      BY <1>3, <2>5
    <3> QED BY <2>2, <2>3, <2>4, <2>5, <3>1 DEF Covering
  <2> QED BY <2>2, <2>5
<1> HIDE DEF y
<1>7. Fit(y, visited')
  BY <1>6, FitEasily
<1>8. DOMAIN Kids(n) = 1 .. Len(Kids(n))
  <2>1. Kids(n) \in Seq(Nodes)
    BY <1>1, Basics DEF Inv
  <2> QED BY <2>1, LenProperties
<1>9. ASSUME NEW x \in Items, Replace(th, <<x, y>>), Fit(x, visited'),
             \A i \in 1 .. Len(Kids(n)) : lo <= i /\ i < hi => x \in Covering(n, i) \/ x \in Completing(Kids(n)[i])
      PROVE  Turns(th)
  <2>1. <<x, y>> \in Seq(Items) /\ DOMAIN <<x, y>> = {1, 2} /\ <<x, y>>[1] = x /\ <<x, y>>[2] = y
    BY <1>6, <1>9, Singles
  <2>2. \A S : x \in S \/ y \in S => Has(<<x, y>>, S)
    BY FewHave
  <2>3. ASSUME NEW m \in Nodes, NEW i \in DOMAIN Kids(m), Item(th) \in Covering(m, i)
        PROVE  Has(<<x, y>>, Covering(m, i)) \/ Has(<<x, y>>, Completing(Kids(m)[i]))
    <3>1. m = n /\ lo <= i /\ i \in 1 .. Len(Kids(n))
      BY <1>4, <1>8, <2>3
    <3>2. CASE hi <= i
      BY <1>6, <2>2, <3>1, <3>2
    <3>3. CASE ~(hi <= i)
      <4>1. i < hi
        BY <1>3, <3>1, <3>3
      <4>2. x \in Covering(n, i) \/ x \in Completing(Kids(n)[i])
        BY <1>9, <3>1, <4>1
      <4> QED BY <2>2, <3>1, <4>2
    <3> QED BY <3>2, <3>3
  <2>4. \A m \in Nodes : (remaining[m] # 0 => remaining'[m] # 0) /\ ~(remaining'[m] # 0 /\ remaining[m] = 0)
    BY <1>5
  <2>5. Turn(th, <<x, y>>)
    BY <1>2, <1>4, <1>9, <2>1, <2>3, <2>4 DEF Turn
  <2>6. \A i \in DOMAIN <<x, y>> : Fit(<<x, y>>[i], visited')
    BY <1>7, <1>9, <2>1
  <2> QED BY <2>5, <2>6, Zenon DEF Turns
<1>10. CASE hi > lo + 1
  <2>1. b \in Jobs /\ b.op = "batch" /\ b.node = n /\ b.lo = lo /\ b.hi = hi
    BY <1>1, <1>3 DEF Span, Jobs
  <2>2. \A i \in b.lo .. (b.hi - 1) : IsLeaf(Kids(b.node)[i])
    BY <1>3, <1>10 DEF Fits
  <2> HIDE DEF b
  <2>3. s \in Items /\ s \in Things /\ Subject(s) = b
    BY <2>1, SubmitFacts DEF Items
  <2>4. Replace(th, <<s, y>>)
    BY <1>2, <1>10, TwoItems
  <2> HIDE DEF s
  <2>5. Fit(s, visited')
    BY <2>1, <2>2, <2>3 DEF Fit
  <2>6. \A i : lo <= i /\ i < hi => s \in Covering(n, i)
    BY <2>1, <2>3 DEF Covering
  <2> QED BY <1>9, <2>3, <2>4, <2>5, <2>6
<1>11. CASE ~(hi > lo + 1)
  <2>1. v \in Items /\ v.op = "visit" /\ v.node = k
    BY <1>3, DoFacts DEF Plain
  <2>2. Replace(th, <<v, y>>)
    BY <1>2, <1>11, TwoItems
  <2>3. \A i \in 1 .. Len(Kids(n)) : lo <= i /\ i < hi => i = lo
    BY <1>1, <1>3, <1>11
  <2> HIDE DEF v
  <2>4. v \in Completing(k) /\ Fit(v, visited')
    BY <2>1, FitEasily DEF Completing, Subject, Things
  <2> QED BY <1>9, <2>1, <2>2, <2>3, <2>4
<1> QED BY <1>10, <1>11

\* Of the steps that a bottom-up traversal does not take.
LEMMA NotBelow ==
  ASSUME Inv, FitInv, NEW th \in Threads
  PROVE  ~(Dispatch(th) \/ Enter(th) \/ Touch(th) \/ Descend(th) \/ Claim(th) \/ Record(th))
<1> SUFFICES ASSUME Dispatch(th) \/ Enter(th) \/ Touch(th) \/ Descend(th) \/ Claim(th) \/ Record(th) PROVE FALSE
  OBVIOUS
<1>1. agenda[th] # <<>> /\ Item(th).op \in {"dispatch", "enter", "touch", "descend", "claim", "record"}
  BY DEF Dispatch, Enter, Touch, Descend, Claim, Record, At, Item
<1>2. Fit(Item(th), visited)
  BY <1>1, NextFits
<1> QED BY <1>1, <1>2 DEF Fit, Subject

\* Each step of a traversal in which nobody throws loses no child.
LEMMA StepTurns ==
  ASSUME Assumptions, Inv, BalanceInv, FitInv, ReachedInv, ~hasException,
         failed = {}, failed' = {}, NEW th \in Threads, Step(th), ~Enqueue(th)
  PROVE  Turns(th)
<1>1. CASE Seed(th) \/ MaybeFinish(th) \/ Resolve(th) \/ Wait(th)
  BY <1>1, RestTurns
<1>2. CASE Submit(th)
  BY <1>2, SubmitTurns
<1>3. CASE BottomUp(th)
  BY <1>3, BottomUpTurns
<1>4. CASE Unit(th)
  BY <1>4, UnitTurns
<1>5. CASE ChildDone(th)
  BY <1>5, ChildDoneTurns
<1>6. CASE Complete(th) \/ Again(th)
  BY <1>6, CompleteTurns
<1>7. CASE Work(th)
  BY <1>7, WorkTurns
<1>8. CASE Batch(th)
  BY <1>8, BatchTurns
<1>9. CASE Leaf(th)
  BY <1>9, LeafTurns
<1> QED BY <1>1, <1>2, <1>3, <1>4, <1>5, <1>6, <1>7, <1>8, <1>9, NotBelow DEF Step

LEMMA StepKeepsClosed ==
  ASSUME Assumptions, Inv, FitInv, ClosedInv,
         failed = {}, failed' = {}, NEW th \in Threads, Step(th), ~Enqueue(th)
  PROVE  ClosedInv'
<1>1. agenda[th] # <<>> /\ run' = run
  BY StepKeeps
<1>2. \A n : Kids(n)' = Kids(n)
  BY <1>1 DEF Kids
<1>3. ASSUME NEW k, visited' = visited \cup {k}, ToSet(Kids(k)) \subseteq visited
      PROVE  ClosedInv'
  BY <1>2, <1>3 DEF ClosedInv, ToSet
<1>4. CASE Work(th)
  <2>1. visited' = visited \cup {Item(th).node}
    BY <1>4, WorkTurns
  <2>2. ToSet(Kids(Item(th).node)) \subseteq visited
    <3>1. Fit(Item(th), visited) /\ Item(th).op = "work"
      BY <1>1, <1>4, NextFits DEF Work, At, Item
    <3>2. Subject(Item(th)) = Item(th)
      BY <3>1 DEF Subject
    <3> QED BY <3>1, <3>2 DEF Fit
  <2> QED BY <1>3, <2>1, <2>2
<1>5. CASE Leaf(th)
  <2>1. PICK k \in Nodes : IsLeaf(k) /\ visited' = visited \cup {k}
    BY <1>5, LeafTurns
  <2>2. ToSet(Kids(k)) \subseteq visited
    <3>1. Kids(k) = <<>> /\ ToSet(<<>>) = {}
      BY <2>1 DEF IsLeaf, ToSet
    <3> QED BY <3>1
  <2> QED BY <1>3, <2>1, <2>2
<1>6. CASE ~Work(th) /\ ~Leaf(th)
  <2>1. visited' = visited
    BY <1>6, NotBelow DEF Step, Seed, MaybeFinish, Resolve, Wait, Submit, BottomUp, Unit, ChildDone, Complete,
       Again, Batch, visits
  <2> QED BY <1>2, <2>1 DEF ClosedInv, ToSet
<1> QED BY <1>4, <1>5, <1>6

LEMMA TurnKeepsFulfilled ==
  ASSUME Assumptions, Inv, BalanceInv, Fulfilled,
         failed = {}, failed' = {}, NEW th \in Threads, Step(th), ~Enqueue(th)
  PROVE  Fulfilled'
<1>1. PICK items : Turn(th, items) /\ \A i \in DOMAIN items : Fit(items[i], visited')
  BY StepTurns DEF Turns, Fulfilled
<1>2. agenda[th] # <<>> /\ run' = run
  BY StepKeeps
<1>3. items \in Seq(Items) /\ Replace(th, items) /\ jobs' = jobs /\ visited \subseteq visited'
  BY <1>1 DEF Turn
<1>4. FitInv'
  BY <1>1, <1>2, <1>3, TurnKeepsFit DEF Fulfilled
<1>5. ReachedInv' /\ RootsInv'
  BY <1>1, <1>2, TurnKeepsReached, TurnKeepsRoots DEF Fulfilled
<1>6. ClosedInv'
  BY StepKeepsClosed DEF Fulfilled
<1>7. ~hasException'
  BY NotBelow DEF Step, Seed, MaybeFinish, Resolve, Wait, Submit,
     BottomUp, Unit, ChildDone, Complete, Again, Work, Batch, Leaf, state, Fulfilled
<1> QED BY <1>4, <1>5, <1>6, <1>7 DEF Fulfilled

\* The queue loses no child.
LEMMA QueueKeepsReached ==
  ASSUME Assumptions, Inv, ReachedInv, RootsInv, (\E th \in Threads : Enqueue(th)) \/ (\E w \in Workers : Start(w)),
         UNCHANGED <<run, remaining, visited>>
  PROVE  ReachedInv' /\ RootsInv'
<1>1. /\ \A k : Present(Completing(k)) => Present(Completing(k))'
      /\ \A n, i : Present(Covering(n, i)) => Present(Covering(n, i))'
  <2>1. ASSUME NEW k, Present(Completing(k))
        PROVE  Present(Completing(k))'
    <3>1. Uniform(Completing(k))
      BY AreUniform
    <3>2. PICK S : S = Completing(k)
      OBVIOUS
    <3>3. Present(S)'
      BY <2>1, <3>1, <3>2, PresentQueued
    <3> QED BY <3>2, <3>3 DEF Present, Has, Completing
  <2>2. ASSUME NEW n, NEW i, Present(Covering(n, i))
        PROVE  Present(Covering(n, i))'
    <3>1. Uniform(Covering(n, i))
      BY AreUniform
    <3>2. PICK S : S = Covering(n, i)
      OBVIOUS
    <3>3. Present(S)'
      BY <2>2, <3>1, <3>2, PresentQueued
    <3> QED BY <3>2, <3>3 DEF Present, Has, Covering
  <2> QED BY <2>1, <2>2
<1>2. \A n : Kids(n)' = Kids(n)
  BY DEF Kids
<1>3. ASSUME NEW n \in Nodes, remaining[n] # 0, NEW i \in DOMAIN Kids(n), NEW k, k = Kids(n)[i]
      PROVE  Accounted(n, i, k)'
  <2>1. Accounted(n, i, k)
    BY <1>3 DEF ReachedInv
  <2>2. Accounted(n, i, k)' <=> \/ Present(Completing(k))' \/ remaining'[k] # 0 \/ Present(Covering(n, i))'
                                \/ k \in visited'
    BY DEF Accounted
  <2> QED BY <1>1, <2>1, <2>2 DEF Accounted
<1>4. ReachedInv'
  <2> SUFFICES ASSUME NEW n \in Nodes, remaining'[n] # 0, NEW i \in DOMAIN Kids(n)'
               PROVE  Accounted(n, i, Kids(n)[i])'
    BY DEF ReachedInv
  <2>1. i \in DOMAIN Kids(n) /\ remaining[n] # 0
    BY <1>2
  <2>2. PICK k : k = Kids(n)[i]
    OBVIOUS
  <2>3. Accounted(n, i, k)'
    BY <1>3, <2>1, <2>2
  <2>4. (Kids(n)[i])' = k
    BY <1>2, <2>2
  <2> QED BY <2>3, <2>4 DEF Accounted
<1>5. ASSUME NEW i \in DOMAIN run.roots, NEW k, k = run.roots[i]
      PROVE  Present(Completing(k))' \/ remaining'[k] # 0 \/ k \in visited'
  <2>1. Present(Completing(k)) \/ remaining[k] # 0 \/ k \in visited
    BY <1>5 DEF RootsInv
  <2> QED BY <1>1, <2>1
<1>6. RootsInv'
  <2>1. run'.roots = run.roots
    OBVIOUS
  <2>2. \A i \in DOMAIN run.roots : \A k : k = run.roots[i] => Present(Completing(k))' \/ remaining'[k] # 0 \/ k \in visited'
    BY <1>5
  <2>3. ASSUME NEW i \in DOMAIN run'.roots
        PROVE  Present(Completing(run.roots[i]))' \/ remaining'[run'.roots[i]] # 0 \/ run'.roots[i] \in visited'
    <3>1. PICK k : k = run.roots[i]
      OBVIOUS
    <3>2. Present(Completing(k))' \/ remaining'[k] # 0 \/ k \in visited'
      BY <2>1, <2>2, <2>3, <3>1
    <3>3. run'.roots[i] = k
      BY <2>1, <3>1
    <3> QED BY <3>2, <3>3
  <2> QED BY <2>3 DEF RootsInv
<1> QED BY <1>4, <1>6

LEMMA EnqueueKeepsFulfilled ==
  ASSUME Assumptions, Inv, Fulfilled, NEW th \in Threads, Enqueue(th)
  PROVE  Fulfilled'
<1> USE DEF visits
<1> DEFINE k == [job |-> Item(th).job, seen |-> view[th]]
<1>1. /\ agenda[th] # <<>> /\ Item(th).job \in Jobs /\ Item(th) = [op |-> "enqueue", job |-> Item(th).job]
      /\ Replace(th, <<>>) /\ <<>> \in Seq(Items) /\ run' = run /\ Item(th).op = "enqueue"
      /\ DOMAIN jobs' = DOMAIN jobs \cup {k} /\ k.job = Item(th).job /\ k.seen = view[th]
  BY Queues DEF Enqueue, At, Item
<1> HIDE DEF k
<1>2. UNCHANGED <<run, remaining, visited>>
  BY DEF Enqueue
<1>3. /\ \A u \in Threads : u # th => agenda'[u] = agenda[u]
      /\ \A S : Has(agenda[th], S) /\ Item(th) \notin S => Has(agenda'[th], S)
      /\ \A j \in DOMAIN agenda'[th] : \E i \in DOMAIN agenda[th] : agenda'[th][j] = agenda[th][i]
  <2>1. DOMAIN <<>> = {}
    OBVIOUS
  <2> QED BY <1>1, <2>1, HasReplaced
<1>4. \A it, seen : Fit(it, seen)' <=> Fit(it, seen)
  BY <1>1, FitFacts
<1>5. FitInv'
  <2>1. ASSUME NEW u \in Threads, NEW j \in DOMAIN agenda'[u]
        PROVE  Fit(agenda'[u][j], visited)
    BY <1>3, <2>1 DEF FitInv, Fulfilled
  <2>2. Fit(k.job, visited)
    <3>1. Fit(Item(th), visited)
      BY <1>1, NextFits DEF Fulfilled
    <3>2. Subject(Item(th)) = Item(th).job /\ Subject(Item(th).job) = Item(th).job
      BY <1>1, SubmitFacts DEF Subject
    <3> QED BY <1>1, <3>1, <3>2 DEF Fit
  <2>3. \A j \in DOMAIN jobs' : Fit(j.job, visited)
    BY <1>1, <2>2 DEF FitInv, Fulfilled
  <2> QED BY <1>2, <2>1, <2>3 DEF FitInv, Fit, Kids, IsLeaf
<1>6. ClosedInv'
  BY <1>2 DEF ClosedInv, Fulfilled, Kids, ToSet
<1>7. ReachedInv' /\ RootsInv'
  BY <1>2, QueueKeepsReached DEF Fulfilled
<1>8. hasException' = hasException
  BY DEF Enqueue, state
<1> QED BY <1>5, <1>6, <1>7, <1>8 DEF Fulfilled

LEMMA StartKeepsFulfilled ==
  ASSUME Assumptions, Inv, Fulfilled, NEW w \in Workers, Start(w)
  PROVE  Fulfilled'
<1>1. /\ w \in Threads /\ UNCHANGED <<run, remaining, visited, hasException>>
      /\ \A u \in Threads : u # w => agenda'[u] = agenda[u]
  BY Starts
<1>2. PICK j \in DOMAIN jobs : /\ j.job \in Jobs /\ (j.job.op = "batch" => Fits(j.job))
                               /\ DOMAIN jobs' \subseteq DOMAIN jobs /\ agenda'[w] = Body(j.job)
  BY Starts
<1>3. FitInv'
  <2>1. \A it, seen : Fit(it, seen)' <=> Fit(it, seen)
    BY <1>1, FitFacts
  <2>2. Fit(Body(j.job)[1], visited)
    <3>1. Fit(j.job, visited)
      BY DEF FitInv, Fulfilled
    <3> QED BY <1>2, <3>1, BodyFits
  <2>3. DOMAIN Body(j.job) = {1, 2} /\ Body(j.job)[2].op = "finish"
    <3>1. Body(j.job) \in Seq(Items) /\ Len(Body(j.job)) = 2 /\ Body(j.job)[2].op = "finish"
      BY <1>2, BodyProper
    <3>2. DOMAIN Body(j.job) = 1 .. 2
      BY <3>1, LenProperties
    <3> QED BY <3>1, <3>2
  <2>4. \A i \in DOMAIN Body(j.job) : Fit(Body(j.job)[i], visited)
    BY <2>2, <2>3, FitEasily
  <2>5. \A u \in Threads : \A i \in DOMAIN agenda'[u] : Fit(agenda'[u][i], visited)
    BY <1>1, <1>2, <2>4 DEF FitInv, Fulfilled
  <2>6. \A i \in DOMAIN jobs' : Fit(i.job, visited)
    BY <1>2 DEF FitInv, Fulfilled
  <2> QED BY <1>1, <2>5, <2>6 DEF FitInv, Fit, Kids, IsLeaf
<1>4. ClosedInv'
  BY <1>1 DEF ClosedInv, Fulfilled, Kids, ToSet
<1>5. ReachedInv' /\ RootsInv'
  BY <1>1, QueueKeepsReached DEF Fulfilled
<1> QED BY <1>1, <1>3, <1>4, <1>5 DEF Fulfilled

LEMMA NextKeepsBottom ==
  ASSUME Assumptions, Inv, BalanceInv, BottomInv, [Next]_vars
  PROVE  BottomInv'
<1> USE DEF visits, state, memory
<1>1. run' = run /\ failed \subseteq failed'
  BY VisitsGrow
<1> SUFFICES ASSUME failed' = {} PROVE Fulfilled'
  BY <1>1 DEF BottomInv
<1>3. failed = {} /\ Fulfilled
  BY <1>1 DEF BottomInv
<1>4. ASSUME NEW th \in Threads, Step(th)
      PROVE  Fulfilled'
  <2>1. CASE Enqueue(th)
    BY <1>3, <2>1, EnqueueKeepsFulfilled
  <2>2. CASE ~Enqueue(th)
    BY <1>3, <1>4, <2>2, TurnKeepsFulfilled
  <2> QED BY <2>1, <2>2
<1>5. ASSUME NEW w \in Workers, Start(w)
      PROVE  Fulfilled'
  BY <1>3, <1>5, StartKeepsFulfilled
<1>6. CASE UNCHANGED vars
  <2>1. Fulfilled' <=> Fulfilled
    BY <1>6 DEF vars, Fulfilled, FitInv, Fit, Kids, IsLeaf, ReachedInv, Accounted, Present, Has, Completing, Covering,
       ClosedInv, RootsInv
  <2> QED BY <1>3, <2>1
<1> QED BY <1>4, <1>5, <1>6 DEF Next, Returned

LEMMA InitBottom ==
  ASSUME Assumptions, Init, run.mode = "bottomUp"
  PROVE  BottomInv
<1> DEFINE x == Do("seed", None)
           y == Do("finish", None)
           z == Do("wait", None)
           e == Each("visit", run.roots)
           s == (<<x>> \o e) \o <<y, z>>
<1>1. Caller \in Threads /\ run.roots \in Seq(Nodes)
  BY DEF Threads, Init, Assumptions, IsForest, Run
<1>2. e \in Seq(Items) /\ \A i \in 1 .. Len(run.roots) : e[i] = Do("visit", run.roots[i])
  BY <1>1, EachFacts
<1>3. Len(e) = Len(run.roots) /\ DOMAIN run.roots = 1 .. Len(run.roots)
  BY <1>1, EachFacts, LenProperties
<1>4. x \in Items /\ y \in Items /\ z \in Items /\ x.op = "seed" /\ y.op = "finish" /\ z.op = "wait"
  BY DoFacts
<1>5. /\ \A th \in Threads \ {Caller} : agenda[th] = <<>>
      /\ agenda[Caller] = <<x>> \o e \o <<y, z>>
  BY <1>1 DEF Init
<1>6. s = <<x>> \o e \o <<y, z>>
  OBVIOUS
<1> HIDE DEF e, s, x, y, z
<1>7. /\ Len(e) \in Nat /\ DOMAIN s = 1 .. Len(e) + 3
      /\ \A i \in DOMAIN s : \/ s[i] \in {x, y, z} /\ ~(i - 1 \in 1 .. Len(e))
                             \/ i - 1 \in 1 .. Len(e) /\ s[i] = e[i - 1]
  BY <1>2, <1>4, Bracketed DEF s
<1>8. agenda[Caller] = s
  BY <1>5, <1>6
<1>9. /\ \A n \in Nodes : remaining[n] = 0
      /\ failed = {} /\ ~hasException /\ DOMAIN jobs = {}
      /\ visited = {}
  BY BagFacts DEF Init
<1>10. FitInv
  <2>1. \A op, n : Do(op, n).op = op /\ Do(op, n).node = n
    BY DoFacts
  <2>2. \A i \in DOMAIN s : s[i].op \in {"seed", "finish", "wait", "visit"}
    BY <1>2, <1>3, <1>4, <1>7, <2>1
  <2>3. \A i \in DOMAIN s : Fit(s[i], visited)
    BY <2>2, FitEasily
  <2>4. DOMAIN <<>> = {}
    OBVIOUS
  <2> QED BY <1>5, <1>8, <1>9, <2>3, <2>4 DEF FitInv
<1>11. ReachedInv
  BY <1>9 DEF ReachedInv
<1>12. ClosedInv
  BY <1>9 DEF ClosedInv
<1>13. RootsInv
  <2> SUFFICES ASSUME NEW i \in DOMAIN run.roots PROVE Present(Completing(run.roots[i]))
    BY DEF RootsInv
  <2>1. i + 1 \in DOMAIN s /\ (i + 1) - 1 \in 1 .. Len(e) /\ (i + 1) - 1 = i
    BY <1>3, <1>7
  <2>2. s[i + 1] = Do("visit", run.roots[i])
    BY <1>2, <1>3, <1>7, <2>1
  <2>3. run.roots[i] \in Nodes
    BY <1>1, <1>3, ElementOfSeq
  <2>4. Do("visit", run.roots[i]) \in Completing(run.roots[i])
    <3>1. PICK n \in Nodes : n = run.roots[i]
      BY <2>3
    <3>2. PICK d \in Items : d = Do("visit", n) /\ d.op = "visit" /\ d.node = n
      BY DoFacts DEF Plain
    <3>3. Subject(d) = d /\ d \in Things
      BY <3>2 DEF Subject, Things
    <3>4. d \in Completing(n)
      BY <3>2, <3>3 DEF Completing
    <3> QED BY <3>1, <3>2, <3>4
  <2> QED BY <1>1, <1>8, <2>1, <2>2, <2>4 DEF Present, Has
<1> QED BY <1>9, <1>10, <1>11, <1>12, <1>13 DEF BottomInv, Fulfilled

\* Until a visitor throws: it runs after it ran on the children.
LEMMA BottomUpVisits ==
  ASSUME Assumptions, Inv, FitInv, [Next]_vars
  PROVE  \A n \in (visited' \ visited) \cup (failed' \ failed) : ToSet(Kids(n)) \subseteq visited
<1> USE DEF visits
<1> SUFFICES ASSUME NEW n \in (visited' \ visited) \cup (failed' \ failed)
             PROVE  ToSet(Kids(n)) \subseteq visited
  OBVIOUS
<1>1. ~UNCHANGED vars /\ ~Returned /\ \A w \in Workers : ~Start(w)
  BY DEF vars, Returned, Start
<1>2. PICK th \in Threads : Step(th)
  BY <1>1 DEF Next
<1>3. Work(th) \/ Leaf(th)
  BY <1>2, NotBelow DEF Step, Seed, MaybeFinish, Resolve, Wait, Submit, Enqueue,
     BottomUp, Unit, ChildDone, Complete, Again, Batch
<1>4. agenda[th] # <<>> /\ Item(th).op \in {"work", "leaf"} /\ Item(th) \in Items /\ Within(Item(th))
  <2>1. agenda[th] # <<>> /\ Item(th).op \in {"work", "leaf"}
    BY <1>3 DEF Work, Leaf, At, Item
  <2> QED BY <2>1, ItemFacts
<1>5. Fit(Item(th), visited) /\ Subject(Item(th)) = Item(th)
  BY <1>4, NextFits DEF Subject
<1>6. CASE Work(th)
  <2>1. n = Item(th).node /\ Item(th).op = "work"
    BY <1>6 DEF Work, Call, At, Item
  <2> QED BY <1>5, <2>1 DEF Fit
<1>7. CASE Leaf(th)
  <2> DEFINE b == Item(th)
  <2>1. n = Kids(b.node)[b.lo] /\ b.op = "leaf"
    BY <1>7 DEF Leaf, Call, At, Item
  <2>2. b.lo \in Nat /\ b.hi \in Nat /\ b.lo < b.hi
    <3>1. b.lo \in Nat /\ b.hi \in Nat
      BY <1>4, <2>1 DEF Items, Plain
    <3> QED BY <1>4, <2>1, <3>1 DEF Within
  <2> HIDE DEF b
  <2>3. b.lo \in b.lo .. (b.hi - 1)
    BY <2>2
  <2>4. IsLeaf(n)
    BY <1>5, <2>1, <2>3 DEF Fit, b
  <2>5. Kids(n) = <<>> /\ ToSet(<<>>) = {}
    BY <2>4 DEF IsLeaf, ToSet
  <2> QED BY <2>5
<1> QED BY <1>3, <1>6, <1>7

\* For every forest and however the threads interleave, though the counters order no memory: as long
\* as no visitor has thrown, the visitor of a node runs after it returned for the nodes that come
\* before, the parent top-down and the children bottom-up (ForestTraversal.h:317-332, 337-356).
THEOREM OrderIsKept == ASSUME Assumptions PROVE Spec => OrderUntilFailure
<1> DEFINE Above == failed = {} => \A n \in Nodes :
                      n \in (visited' \cup failed') \ (visited \cup failed) => Before(n) \subseteq visited
           Known == BottomInv \/ TopDownInv
<1>1. Init => Known /\ SeenInv
  <2>1. Init => SeenInv
    BY BagFacts DEF Init, SeenInv
  <2>2. Init => run.mode \in {"topDown", "bottomUp"}
    BY DEF Init, Assumptions, IsForest, Run
  <2> QED BY <2>1, <2>2, InitBottom, InitTopDown
<1>2. Inv /\ BalanceInv /\ Known /\ SeenInv /\ [Next]_vars => Known' /\ SeenInv'
  BY NextKeepsBottom, NextKeepsTopDown, NextKeepsSeen
<1>3. Inv /\ Known /\ SeenInv /\ [Next]_vars => [Above]_vars
  <2> SUFFICES ASSUME Inv, Known, SeenInv, [Next]_vars, failed = {}, NEW n \in Nodes,
                      n \in (visited' \cup failed') \ (visited \cup failed)
               PROVE  Before(n) \subseteq visited
    OBVIOUS
  <2>1. CASE BottomInv
    <3>1. FitInv /\ Before(n) = ToSet(Kids(n))
      BY <2>1 DEF BottomInv, Fulfilled, Before
    <3> QED BY <3>1, BottomUpVisits
  <2>2. CASE TopDownInv
    <3>1. PICK th \in Threads : Before(n) \subseteq view[th]
      BY <2>2, TopDownVisits
    <3>2. Before(n) \subseteq Nodes
      BY <2>2 DEF Before, TopDownInv, Parents
    <3> QED BY <3>1, <3>2 DEF SeenInv
  <2> QED BY <2>1, <2>2
<1> HIDE DEF Known
<1> QED BY <1>1, <1>2, <1>3, Invariance, BalanceIsKept, PTL DEF Spec, OrderUntilFailure
-----------------------------------------------------------------------------
(* A top-down traversal in which no visitor throws: every node below what was visited is on its *)
(* way, or was visited itself                                                                   *)

\* The items that lead to the visit of k.
Own(k) == {it \in Things :
  \/ Subject(it).op \in {"dispatch", "enter", "touch", "topDown"} /\ Subject(it).node = k
  \/ Subject(it).op = "descend" /\ \E i \in DOMAIN Kids(Subject(it).node) : Kids(Subject(it).node)[i] = k}
CalmInv   == \A u \in Threads : \A i \in DOMAIN agenda[u] : agenda[u][i].op \notin {"claim", "record"}
ComingInv == \A k \in Nodes : Parents(k) \subseteq visited => Present(Own(k)) \/ k \in visited
\* Of a top-down traversal in which nobody threw.
Followed  == ~hasException /\ CalmInv /\ ComingInv

LEMMA FirstOfBody ==
  ASSUME NEW job \in Jobs
  PROVE  LET x == Body(job)[1] IN
         /\ x \in Things /\ Subject(x) = x
         /\ \/ job.op = "node" /\ x.op = "again" /\ x.node = job.node
            \/ job.op = "topDown" /\ x.op = "enter" /\ x.node = job.node
            \/ job.op = "batch" /\ x = job
<1> DEFINE x == Body(job)[1]
<1>1. Subject(job) = job /\ job \in Things /\ job.op \in {"node", "topDown", "batch"} /\ job.node \in Nodes
  BY SubmitFacts DEF Jobs
<1>2. CASE job.op \in {"node", "topDown"}
  <2>1. PICK op \in {"again", "enter"} : x = Do(op, job.node) /\ op = IF job.op = "node" THEN "again" ELSE "enter"
    <3>1. CASE job.op = "node"
      <4>1. Body(job) = <<Do("again", job.node), Do("finish", None)>>
        BY <3>1, Zenon DEF Body
      <4>2. x = Do("again", job.node)
        BY <4>1
      <4> QED BY <3>1, <4>2
    <3>2. CASE job.op = "topDown"
      <4>0. "topDown" # "node"
        OBVIOUS
      <4>1. Body(job) = <<Do("enter", job.node), Do("finish", None)>>
        BY <3>2, <4>0, Zenon DEF Body
      <4>2. x = Do("enter", job.node)
        BY <4>1
      <4> QED BY <3>2, <4>0, <4>2
    <3> QED BY <1>2, <3>1, <3>2
  <2>2. x \in Things /\ x.op = op /\ x.node = job.node
    BY <1>1, <2>1, DoFacts DEF Things, Plain
  <2> HIDE DEF x
  <2>3. Subject(x) = x
    BY <2>1, <2>2 DEF Subject
  <2> QED BY <1>2, <2>1, <2>2, <2>3 DEF x
<1>3. CASE job.op = "batch"
  <2>0. "batch" # "node" /\ "batch" # "topDown"
    OBVIOUS
  <2>1. Body(job) = <<job, Do("finish", None)>>
    BY <1>3, <2>0, Zenon DEF Body
  <2>2. x = job
    BY <2>1
  <2> QED BY <1>1, <1>3, <2>2
<1> QED BY <1>1, <1>2, <1>3

LEMMA OwnIsUniform == ASSUME NEW k PROVE Uniform(Own(k))
<1>1. Do("finish", None) \notin Own(k)
  <2> DEFINE fin == Do("finish", None)
  <2>1. fin.op = "finish"
    BY DoFacts
  <2> HIDE DEF fin
  <2> QED BY <2>1 DEF Own, Subject, fin
<1>2. ASSUME NEW job \in Jobs, NEW it \in Things, Subject(it) = job
      PROVE  it \in Own(k) <=> job \in Own(k)
  BY <1>2, SubmitFacts DEF Own
<1>3. ASSUME NEW job \in Jobs
      PROVE  Body(job)[1] \in Own(k) <=> job \in Own(k)
  <2>1. PICK x : x = Body(job)[1]
    OBVIOUS
  <2>2. /\ x \in Things /\ Subject(x) = x
        /\ \/ job.op = "node" /\ x.op = "again" /\ x.node = job.node
           \/ job.op = "topDown" /\ x.op = "enter" /\ x.node = job.node
           \/ job.op = "batch" /\ x = job
    BY <2>1, FirstOfBody
  <2>3. job \in Things /\ Subject(job) = job
    BY SubmitFacts
  <2>4. x \in Own(k) <=> job \in Own(k)
    BY <2>2, <2>3 DEF Own
  <2> QED BY <2>1, <2>4
<1>4. ASSUME NEW job \in Jobs
      PROVE  /\ [op |-> "submit", job |-> job] \in Own(k) <=> job \in Own(k)
             /\ [op |-> "enqueue", job |-> job] \in Own(k) <=> job \in Own(k)
  BY <1>2, SubmitFacts
<1> QED BY <1>1, <1>3, <1>4 DEF Uniform

\* What a step makes of the first item of an agenda, so that no node is lost.
Leads(th, items) ==
  /\ items \in Seq(Items) /\ Replace(th, items) /\ jobs' = jobs /\ visited \subseteq visited'
  /\ \A i \in DOMAIN items : items[i].op \notin {"claim", "record"}
  /\ \A k \in Nodes : Parents(k) \subseteq visited' =>
       \/ Has(items, Own(k))
       \/ Parents(k) \subseteq visited /\ (Item(th) \in Own(k) => k \in visited')

LEMMA LeadsKeepsFollowed ==
  ASSUME Assumptions, Inv, Followed, NEW th \in Threads, Step(th), ~hasException', NEW items, Leads(th, items)
  PROVE  Followed'
<1>1. /\ items \in Seq(Items) /\ Replace(th, items) /\ jobs' = jobs
      /\ \A i \in DOMAIN items : items[i].op \notin {"claim", "record"}
      /\ run' = run /\ agenda[th] # <<>>
  BY StepKeeps DEF Leads
<1>2. CalmInv'
  <2>1. /\ \A u \in Threads : u # th => agenda'[u] = agenda[u]
        /\ \A j \in DOMAIN agenda'[th] : \/ \E i \in DOMAIN items : agenda'[th][j] = items[i]
                                         \/ \E i \in DOMAIN agenda[th] : agenda'[th][j] = agenda[th][i]
    BY <1>1, HasReplaced
  <2>2. \A u \in Threads : \A i \in DOMAIN agenda[u] : agenda[u][i].op \notin {"claim", "record"}
    BY DEF Followed, CalmInv
  <2>3. \A j \in DOMAIN agenda'[th] : agenda'[th][j].op \notin {"claim", "record"}
    BY <1>1, <2>1, <2>2
  <2>4. \A u \in Threads : \A i \in DOMAIN agenda'[u] : agenda'[u][i].op \notin {"claim", "record"}
    BY <2>1, <2>2, <2>3
  <2> QED BY <2>4 DEF CalmInv
<1>3. ASSUME NEW k \in Nodes, Parents(k) \subseteq visited', NEW S, S = Own(k)
      PROVE  Present(S)' \/ k \in visited'
  <2>1. /\ Has(items, S) => Present(S)'
        /\ Present(S) /\ Item(th) \notin S => Present(S)'
    BY <1>1, PresentReplaced
  <2>2. CASE Has(items, S)
    BY <2>1, <2>2
  <2>3. CASE Parents(k) \subseteq visited /\ (Item(th) \in S => k \in visited')
    <3>1. Present(S) \/ k \in visited
      BY <1>3, <2>3 DEF Followed, ComingInv
    <3> QED BY <2>1, <2>3, <3>1 DEF Leads
  <2> QED BY <1>3, <2>2, <2>3 DEF Leads
<1>4. ComingInv'
  <2> SUFFICES ASSUME NEW k \in Nodes, Parents(k)' \subseteq visited'
               PROVE  Present(Own(k))' \/ k \in visited'
    BY DEF ComingInv
  <2>1. Parents(k)' = Parents(k)
    BY <1>1 DEF Parents, Kids
  <2>2. PICK S : S = Own(k)
    OBVIOUS
  <2>3. Present(S)' \/ k \in visited'
    BY <1>3, <2>1, <2>2
  <2>4. Own(k)' = S
    BY <1>1, <2>2 DEF Own, Kids
  <2> QED BY <2>3, <2>4 DEF Present, Has
<1> QED BY <1>2, <1>4 DEF Followed

\* An item goes on as another, which leads to the same visits.
LEMMA LeadsOn ==
  ASSUME NEW th \in Threads, NEW x \in Items, Replace(th, <<x>>), jobs' = jobs, visited' = visited,
         x.op \notin {"claim", "record"}, \A k \in Nodes : Item(th) \in Own(k) => x \in Own(k)
  PROVE  \E items : Leads(th, items)
<1>1. <<x>> \in Seq(Items) /\ DOMAIN <<x>> = {1} /\ <<x>>[1] = x
  BY Singles
<1>2. \A k \in Nodes : Item(th) \in Own(k) => Has(<<x>>, Own(k))
  BY FewHave
<1>3. PICK items : items = <<x>>
  OBVIOUS
<1>4. items \in Seq(Items) /\ Replace(th, items) /\ \A i \in DOMAIN items : items[i] = x
  BY <1>1, <1>3, Zenon
<1>5. \A k \in Nodes : Item(th) \in Own(k) => Has(items, Own(k))
  BY <1>2, <1>3, Zenon
<1>6. Leads(th, items)
  BY <1>4, <1>5 DEF Leads
<1> QED BY <1>6

LEMMA DirectOwn ==
  ASSUME NEW x \in Items, x.op \in {"dispatch", "enter", "touch"}, NEW k
  PROVE  x \in Own(k) <=> x.node = k
<1>1. Subject(x) = x /\ x \in Things
  BY DEF Subject, Things
<1> QED BY <1>1 DEF Own

\* Each step of a top-down traversal in which nobody throws loses no node.
LEMMA StepLeads ==
  ASSUME Assumptions, Inv, TopDownInv, Followed, failed = {}, failed' = {}, NEW th \in Threads, Step(th), ~Enqueue(th)
  PROVE  (\E items : Leads(th, items)) /\ ~hasException'
<1> USE DEF state, visits, memory
<1> DEFINE n == Item(th).node
<1>1. agenda[th] # <<>> /\ Item(th) \in Items /\ Below(Item(th), view[th]) /\ ~hasException
  <2>1. agenda[th] # <<>>
    BY StepKeeps
  <2> QED BY <2>1, ItemFacts, BelowOps DEF Followed
<1>2. Item(th).op \notin {"claim", "record"}
  <2>1. agenda[th] \in Seq(Items)
    BY DEF Inv, TypeInv
  <2>2. 1 \in DOMAIN agenda[th] /\ Item(th) = agenda[th][1]
    <3>1. Len(agenda[th]) \in Nat \ {0} /\ Head(agenda[th]) = agenda[th][1]
      BY <1>1, <2>1, EmptySeq
    <3> QED BY <2>1, <3>1, LenProperties DEF Item
  <2> QED BY <2>2 DEF Followed, CalmInv
<1>3. ~(Claim(th) \/ Record(th) \/ BottomUp(th) \/ Unit(th) \/ ChildDone(th) \/ Complete(th) \/ Again(th) \/ Work(th)
        \/ Batch(th) \/ Leaf(th))
  BY <1>1, <1>2 DEF BottomUp, Unit, ChildDone, Complete, Again, Work, Batch, Leaf, Claim, Record, At, Item, Below
<1>4. CASE Seed(th) \/ MaybeFinish(th) \/ Resolve(th) \/ Wait(th)
  <2> DEFINE z == Do("resolve", None)
  <2>1. PICK items : Replace(th, items) /\ (items = <<>> \/ items = <<z>>)
    BY <1>4 DEF Seed, MaybeFinish, Resolve, Wait
  <2>2. z \in Items /\ z.op = "resolve"
    BY DoFacts
  <2> HIDE DEF z
  <2>3. items \in Seq(Items) /\ \A i \in DOMAIN items : items[i] = z
    <3>1. /\ <<>> \in Seq(Items) /\ DOMAIN <<>> = {}
          /\ <<z>> \in Seq(Items) /\ DOMAIN <<z>> = {1} /\ <<z>>[1] = z
      BY <2>2, Singles
    <3>2. CASE items = <<>>
      BY <3>1, <3>2, Zenon
    <3>3. CASE items = <<z>>
      <4>1. items \in Seq(Items) /\ DOMAIN items = {1} /\ items[1] = z
        BY <3>1, <3>3, Zenon
      <4> QED BY <4>1
    <3> QED BY <2>1, <3>2, <3>3
  <2>4. \A k : Item(th) \notin Own(k)
    <3>1. Item(th).op \in {"seed", "finish", "resolve", "wait"}
      BY <1>4 DEF Seed, MaybeFinish, Resolve, Wait, At, Item
    <3> QED BY <3>1 DEF Own, Subject
  <2>5. jobs' = jobs /\ visited' = visited /\ hasException' = hasException
    BY <1>4 DEF Seed, MaybeFinish, Resolve, Wait
  <2>6. Leads(th, items)
    BY <2>1, <2>2, <2>3, <2>4, <2>5 DEF Leads
  <2> QED BY <1>1, <2>5, <2>6
<1>5. CASE Submit(th)
  <2>1. PICK job \in Jobs : job = Item(th).job /\ job.op = "topDown" /\ Item(th).op = "submit"
    <3>1. Item(th).op = "submit"
      BY <1>5 DEF Submit, At, Item
    <3> QED BY <1>1, <3>1, JobFacts DEF Below
  <2> DEFINE x == [op |-> "enqueue", job |-> job]
  <2>2. Replace(th, <<x>>) /\ jobs' = jobs /\ visited' = visited /\ hasException' = hasException
    BY <1>5, <2>1 DEF Submit
  <2>3. x \in Items /\ x.op = "enqueue" /\ Subject(x) = job /\ Subject(Item(th)) = job /\ x \in Things
    BY <2>1, SubmitFacts DEF Items, Subject
  <2> HIDE DEF x
  <2>4. \A k : Item(th) \in Own(k) => x \in Own(k)
    BY <2>3 DEF Own
  <2> QED BY <1>1, <2>2, <2>3, <2>4, LeadsOn
<1>6. CASE Dispatch(th) \/ Enter(th)
  <2>1. Item(th).op \in {"dispatch", "enter"} /\ n \in Nodes
    <3>1. Item(th).op \in {"dispatch", "enter"}
      BY <1>6 DEF Dispatch, Enter, At, Item
    <3> QED BY <1>1, <3>1 DEF Items, Plain
  <2>2. jobs' = jobs /\ visited' = visited /\ hasException' = hasException
    BY <1>6 DEF Dispatch, Enter
  <2>3. \A k : Item(th) \in Own(k) => k = n
    BY <1>1, <2>1, DirectOwn
  <2>4. \/ Replace(th, Schedule(Do("topDown", n)))
        \/ Replace(th, <<Do("enter", n)>>) \/ Replace(th, <<Do("touch", n)>>)
    BY <1>1, <1>6 DEF Dispatch, Enter, Load
  <2> HIDE DEF n
  <2>5. CASE Replace(th, Schedule(Do("topDown", n)))
    <3> DEFINE job == Do("topDown", n)
               x   == [op |-> "submit", job |-> job]
    <3>1. job \in Jobs /\ job.op = "topDown" /\ job.node = n
      BY <2>1 DEF Do, Jobs
    <3>2. Replace(th, <<x>>)
      BY <2>5 DEF Schedule
    <3> HIDE DEF job
    <3>3. x \in Items /\ x.op = "submit" /\ Subject(x) = job /\ x \in Things
      BY <3>1, SubmitFacts DEF Items
    <3> HIDE DEF x
    <3>4. x \in Own(n)
      BY <3>1, <3>3 DEF Own
    <3> QED BY <1>1, <2>2, <2>3, <3>2, <3>3, <3>4, LeadsOn
  <2>6. ASSUME NEW op \in {"enter", "touch"}, Replace(th, <<Do(op, n)>>)
        PROVE  \E items : Leads(th, items)
    <3> DEFINE x == Do(op, n)
    <3>1. x \in Items /\ x.op = op /\ x.node = n
      BY <2>1, DoFacts DEF Plain
    <3> HIDE DEF x
    <3>2. x \in Own(n)
      BY <3>1, DirectOwn
    <3>3. Replace(th, <<x>>)
      BY <2>6 DEF x
    <3> QED BY <2>2, <2>3, <3>1, <3>2, <3>3, LeadsOn
  <2>7. "enter" \in {"enter", "touch"} /\ "touch" \in {"enter", "touch"}
    OBVIOUS
  <2> QED BY <1>1, <2>2, <2>4, <2>5, <2>6, <2>7
<1>7. CASE Touch(th)
  <2>1. Item(th).op = "touch" /\ n \in Nodes
    BY <1>1, <1>7 DEF Touch, At, Item, Items, Plain
  <2> DEFINE x == Do("descend", n)
  <2>2. /\ Replace(th, <<x>>) /\ visited' = visited \cup {n}
        /\ jobs' = jobs /\ hasException' = hasException
    <3>1. Call(th, n, <<x>>, <<>>) /\ jobs' = jobs /\ hasException' = hasException
      BY <1>7 DEF Touch
    <3> HIDE DEF n, x
    <3> QED BY <3>1 DEF Call
  <2>3. n \in visited' /\ visited \subseteq visited'
    BY <2>2
  <2>4. \A k : Item(th) \in Own(k) => k = n
    BY <1>1, <2>1, DirectOwn
  <2>5. x \in Items /\ x.op = "descend" /\ x.node = n
    BY <2>1, DoFacts DEF Plain
  <2> HIDE DEF x, n
  <2>6. <<x>> \in Seq(Items) /\ DOMAIN <<x>> = {1} /\ <<x>>[1] = x /\ \A S : Has(<<x>>, S) <=> x \in S
    BY <2>5, Singles, FewHave
  <2>7. PICK items : items = <<x>>
    OBVIOUS
  <2>8. items \in Seq(Items) /\ Replace(th, items) /\ \A i \in DOMAIN items : items[i] = x
    BY <2>2, <2>6, <2>7, Zenon
  <2>9. \A S : Has(items, S) <=> x \in S
    BY <2>6, <2>7, Zenon
  <2>10. ASSUME NEW k \in Nodes, Parents(k) \subseteq visited', ~(Parents(k) \subseteq visited)
         PROVE  Has(items, Own(k))
    <3>1. n \in Parents(k)
      BY <2>2, <2>10
    <3>2. Subject(x) = x /\ x \in Things
      BY <2>5 DEF Subject, Things
    <3>3. x \in Own(k)
      BY <2>5, <3>1, <3>2 DEF Own, Parents
    <3> QED BY <2>9, <3>3
  <2>11. Leads(th, items)
    BY <2>2, <2>3, <2>4, <2>5, <2>8, <2>10 DEF Leads
  <2> QED BY <1>1, <2>2, <2>11
<1>8. CASE Descend(th)
  <2>1. n \in Nodes /\ Item(th).op = "descend" /\ Subject(Item(th)) = Item(th)
    <3>1. Item(th).op = "descend"
      BY <1>8 DEF Descend, At, Item
    <3> QED BY <1>1, <3>1 DEF Items, Plain, Subject
  <2>2. jobs' = jobs /\ visited' = visited /\ hasException' = hasException
    BY <1>8 DEF Descend
  <2> DEFINE items == Each("dispatch", Kids(n))
  <2>3. Replace(th, items)
    BY <1>1, <1>8 DEF Descend, Load
  <2>4. Kids(n) \in Seq(Nodes)
    BY <2>1, Basics DEF Inv
  <2>5. /\ items \in Seq(Items) /\ DOMAIN items = 1 .. Len(Kids(n)) /\ DOMAIN Kids(n) = 1 .. Len(Kids(n))
        /\ \A i \in 1 .. Len(Kids(n)) : Kids(n)[i] \in Nodes /\ items[i] = Do("dispatch", Kids(n)[i])
    BY <2>4, EachFacts, LenProperties
  <2>6. \A i \in DOMAIN items : items[i] \in Items /\ items[i].op = "dispatch" /\ items[i].node = Kids(n)[i]
    BY <2>5, DoFacts DEF Plain
  <2>7. ASSUME NEW k \in Nodes, Item(th) \in Own(k)
        PROVE  Has(items, Own(k))
    <3>1. PICK i \in DOMAIN Kids(n) : Kids(n)[i] = k
      BY <2>1, <2>7 DEF Own
    <3>2. i \in DOMAIN items /\ items[i] \in Items /\ items[i].op = "dispatch" /\ items[i].node = k
      BY <2>5, <2>6, <3>1
    <3> HIDE DEF items
    <3>3. items[i] \in Own(k)
      BY <3>2, DirectOwn
    <3> QED BY <3>2, <3>3 DEF Has
  <2> HIDE DEF items, n
  <2>8. Leads(th, items)
    BY <2>2, <2>3, <2>5, <2>6, <2>7 DEF Leads
  <2> QED BY <1>1, <2>2, <2>8
<1> QED BY <1>3, <1>4, <1>5, <1>6, <1>7, <1>8 DEF Step

LEMMA QueueKeepsFollowed ==
  ASSUME Assumptions, Inv, Followed, (\E th \in Threads : Enqueue(th)) \/ (\E w \in Workers : Start(w))
  PROVE  Followed'
<1> USE DEF state, visits
<1>1. UNCHANGED <<run, hasException, visited>> /\ CalmInv'
  <2>1. ASSUME NEW th \in Threads, Enqueue(th)
        PROVE  UNCHANGED <<run, hasException, visited>> /\ CalmInv'
    <3>1. /\ agenda[th] # <<>> /\ Replace(th, <<>>) /\ <<>> \in Seq(Items)
      BY <2>1, Queues
    <3>2. UNCHANGED <<run, hasException, visited>>
      BY <2>1 DEF Enqueue
    <3>3. /\ \A u \in Threads : u # th => agenda'[u] = agenda[u]
          /\ \A j \in DOMAIN agenda'[th] : \E i \in DOMAIN agenda[th] : agenda'[th][j] = agenda[th][i]
      <4>1. DOMAIN <<>> = {}
        OBVIOUS
      <4> QED BY <3>1, <4>1, HasReplaced
    <3>4. \A u \in Threads : \A i \in DOMAIN agenda'[u] : agenda'[u][i].op \notin {"claim", "record"}
      BY <3>3 DEF Followed, CalmInv
    <3> QED BY <3>2, <3>4 DEF CalmInv
  <2>2. ASSUME NEW w \in Workers, Start(w)
        PROVE  UNCHANGED <<run, hasException, visited>> /\ CalmInv'
    <3>1. /\ w \in Threads /\ UNCHANGED <<run, hasException, visited>>
          /\ \A u \in Threads : u # w => agenda'[u] = agenda[u]
      BY <2>2, Starts
    <3>2. PICK j \in DOMAIN jobs : /\ j.job \in Jobs /\ (j.job.op = "batch" => Fits(j.job))
                                   /\ agenda'[w] = Body(j.job)
      BY <2>2, Starts
    <3>3. \A i \in DOMAIN Body(j.job) : Body(j.job)[i].op \notin {"claim", "record"}
      <4>1. /\ Body(j.job) \in Seq(Items) /\ Len(Body(j.job)) = 2
            /\ Body(j.job)[1].op \in {"again", "enter", "batch"} /\ Body(j.job)[2].op = "finish"
        BY <3>2, BodyProper
      <4>2. DOMAIN Body(j.job) = 1 .. 2
        BY <4>1, LenProperties
      <4>3. \A i \in 1 .. 2 : i = 1 \/ i = 2
        OBVIOUS
      <4> QED BY <4>1, <4>2, <4>3
    <3>4. \A u \in Threads : \A i \in DOMAIN agenda'[u] : agenda'[u][i].op \notin {"claim", "record"}
      BY <3>1, <3>2, <3>3 DEF Followed, CalmInv
    <3> QED BY <3>1, <3>4 DEF CalmInv
  <2> QED BY <2>1, <2>2
<1>2. ComingInv'
  <2> SUFFICES ASSUME NEW k \in Nodes, Parents(k)' \subseteq visited'
               PROVE  Present(Own(k))' \/ k \in visited'
    BY DEF ComingInv
  <2>1. Parents(k)' = Parents(k)
    BY <1>1 DEF Parents, Kids
  <2>2. PICK S : S = Own(k)
    OBVIOUS
  <2>3. Present(S) \/ k \in visited'
    BY <1>1, <2>1, <2>2 DEF Followed, ComingInv
  <2>4. Present(S) => Present(S)'
    <3>1. Uniform(S)
      BY <2>2, OwnIsUniform
    <3> QED BY <3>1, PresentQueued
  <2>5. Own(k)' = S
    BY <1>1, <2>2 DEF Own, Kids
  <2>6. Present(S)' => Present(Own(k))'
    BY <2>5 DEF Present, Has
  <2> QED BY <2>3, <2>4, <2>6
<1> QED BY <1>1, <1>2 DEF Followed

TopInv == TopDownInv /\ (failed = {} => Followed)

LEMMA NextKeepsTop ==
  ASSUME Assumptions, Inv, TopInv, [Next]_vars
  PROVE  TopInv'
<1> USE DEF visits, state, memory
<1>1. TopDownInv'
  BY NextKeepsTopDown DEF TopInv
<1>2. failed \subseteq failed'
  BY VisitsGrow
<1> SUFFICES ASSUME failed' = {} PROVE Followed'
  BY <1>1 DEF TopInv
<1>3. failed = {} /\ Followed /\ TopDownInv
  BY <1>2 DEF TopInv
<1>4. ASSUME NEW th \in Threads, Step(th), ~Enqueue(th)
      PROVE  Followed'
  <2>1. PICK items : Leads(th, items) /\ ~hasException'
    BY <1>3, <1>4, StepLeads
  <2> QED BY <1>3, <1>4, <2>1, LeadsKeepsFollowed
<1>5. ASSUME (\E th \in Threads : Enqueue(th)) \/ (\E w \in Workers : Start(w))
      PROVE  Followed'
  BY <1>3, <1>5, QueueKeepsFollowed
<1>6. CASE UNCHANGED vars
  <2>1. Followed' <=> Followed
    BY <1>6 DEF vars, Followed, CalmInv, ComingInv, Parents, Kids, Present, Has, Own
  <2> QED BY <1>3, <2>1
<1> QED BY <1>4, <1>5, <1>6 DEF Next, Returned

\* A node that is no root is the child of one.
LEMMA EachSits ==
  ASSUME Assumptions, TypeInv, NEW k \in Nodes
  PROVE  (\E i \in DOMAIN run.roots : run.roots[i] = k) \/ \E p \in Nodes : \E i \in DOMAIN Kids(p) : Kids(p)[i] = k
<1> DEFINE Place == {<<None, i>> : i \in DOMAIN run.roots} \cup UNION {{<<p, i>> : i \in DOMAIN run.kids[p]} : p \in Nodes}
           Sits(pl) == IF pl[1] = None THEN run.roots[pl[2]] ELSE run.kids[pl[1]][pl[2]]
<1>1. PICK pl \in Place : Sits(pl) = k
  <2>1. IsForest(run)
    BY DEF Assumptions, TypeInv
  <2> QED BY <2>1 DEF IsForest
<1>2. CASE \E i \in DOMAIN run.roots : pl = <<None, i>>
  <2>1. PICK i \in DOMAIN run.roots : pl = <<None, i>>
    BY <1>2
  <2>2. pl[1] = None /\ pl[2] = i
    BY <2>1
  <2> QED BY <1>1, <2>2
<1>3. CASE \E p \in Nodes : \E i \in DOMAIN run.kids[p] : pl = <<p, i>>
  <2>1. PICK p \in Nodes : \E i \in DOMAIN run.kids[p] : pl = <<p, i>>
    BY <1>3
  <2>2. PICK i \in DOMAIN run.kids[p] : pl = <<p, i>>
    BY <2>1
  <2>3. pl[1] = p /\ pl[2] = i /\ p # None
    BY <2>2 DEF Assumptions
  <2> QED BY <1>1, <2>1, <2>2, <2>3 DEF Kids
<1>4. (\E i \in DOMAIN run.roots : pl = <<None, i>>) \/ \E p \in Nodes : \E i \in DOMAIN run.kids[p] : pl = <<p, i>>
  <2>1. pl \in {<<None, i>> : i \in DOMAIN run.roots} \/ \E p \in Nodes : pl \in {<<p, i>> : i \in DOMAIN run.kids[p]}
    BY <1>1
  <2> QED BY <2>1
<1> QED BY <1>2, <1>3, <1>4

LEMMA InitTop ==
  ASSUME Assumptions, Init, run.mode = "topDown"
  PROVE  TopInv
<1> DEFINE x == Do("seed", None)
           y == Do("finish", None)
           z == Do("wait", None)
           e == Each("dispatch", run.roots)
           s == (<<x>> \o e) \o <<y, z>>
<1>1. Caller \in Threads /\ run.roots \in Seq(Nodes) /\ Inv
  BY InitInv DEF Threads, Init, Assumptions, IsForest, Run
<1>2. e \in Seq(Items) /\ \A i \in 1 .. Len(run.roots) : e[i] = Do("dispatch", run.roots[i])
  BY <1>1, EachFacts
<1>3. Len(e) = Len(run.roots) /\ DOMAIN run.roots = 1 .. Len(run.roots)
  BY <1>1, EachFacts, LenProperties
<1>4. x \in Items /\ y \in Items /\ z \in Items /\ x.op = "seed" /\ y.op = "finish" /\ z.op = "wait"
  BY DoFacts
<1>5. /\ \A th \in Threads \ {Caller} : agenda[th] = <<>>
      /\ agenda[Caller] = <<x>> \o e \o <<y, z>>
  BY <1>1 DEF Init
<1>6. s = <<x>> \o e \o <<y, z>>
  OBVIOUS
<1> HIDE DEF e, s, x, y, z
<1>7. /\ Len(e) \in Nat /\ DOMAIN s = 1 .. Len(e) + 3
      /\ \A i \in DOMAIN s : \/ s[i] \in {x, y, z} /\ ~(i - 1 \in 1 .. Len(e))
                             \/ i - 1 \in 1 .. Len(e) /\ s[i] = e[i - 1]
  BY <1>2, <1>4, Bracketed DEF s
<1>8. agenda[Caller] = s
  BY <1>5, <1>6
<1>9. visited = {} /\ ~hasException
  BY DEF Init
<1>10. CalmInv
  <2>1. \A op, n : Do(op, n).op = op /\ Do(op, n).node = n
    BY DoFacts
  <2>2. \A i \in DOMAIN s : s[i].op \in {"seed", "finish", "wait", "dispatch"}
    BY <1>2, <1>3, <1>4, <1>7, <2>1
  <2>3. DOMAIN <<>> = {}
    OBVIOUS
  <2> QED BY <1>5, <1>8, <2>2, <2>3 DEF CalmInv
<1>11. ComingInv
  <2> SUFFICES ASSUME NEW k \in Nodes, Parents(k) \subseteq visited PROVE Present(Own(k))
    BY DEF ComingInv
  <2>1. PICK i \in DOMAIN run.roots : run.roots[i] = k
    BY <1>1, <1>9, EachSits DEF Parents, Inv
  <2>2. i + 1 \in DOMAIN s /\ (i + 1) - 1 \in 1 .. Len(e) /\ (i + 1) - 1 = i
    BY <1>3, <1>7
  <2>3. s[i + 1] = Do("dispatch", k)
    BY <1>2, <1>3, <1>7, <2>1, <2>2
  <2>4. Do("dispatch", k) \in Own(k)
    <3>1. PICK d \in Items : d = Do("dispatch", k) /\ d.op = "dispatch" /\ d.node = k
      BY DoFacts DEF Plain
    <3>2. d \in Own(k)
      BY <3>1, DirectOwn
    <3> QED BY <3>1, <3>2
  <2> QED BY <1>1, <1>8, <2>2, <2>3, <2>4 DEF Present, Has
<1>12. TopDownInv
  BY InitTopDown
<1> QED BY <1>9, <1>10, <1>11, <1>12 DEF TopInv, Followed
-----------------------------------------------------------------------------
(* The end of a call *)

\* When pending is zero nothing is left to do.
LEMMA Settled ==
  ASSUME Assumptions, Inv, pending = 0, ~Unseeded
  PROVE  /\ DOMAIN jobs = {} /\ Queued = {} /\ \A u \in Threads : Guards(u) = {}
         /\ \A u \in Threads : \A i \in DOMAIN agenda[u] : agenda[u][i].op \in {"resolve", "wait"}
<1>1. DOMAIN jobs = {} /\ Queued = {}
  <2>1. jobs = EmptyBag
    BY Quiet
  <2>2. DOMAIN jobs = {}
    BY <2>1, BagFacts
  <2> QED BY <2>2 DEF Queued, BagToSet
<1>2. Guarded = {}
  <2>1. PICK a, b, c : a = Cardinality(Queued) /\ b = Cardinality(Guarded) /\ c = Cardinality(Enqueuing)
    OBVIOUS
  <2>2. a \in Nat /\ b \in Nat /\ c \in Nat /\ 0 = a + b + c
    BY <2>1, Counts
  <2>3. b = 0
    BY <2>2
  <2> QED BY <2>1, <2>3, Counts, FS_EmptySet
<1>3. \A u \in Threads : Guards(u) = {}
  BY <1>2, GuardedFacts
<1>4. ASSUME NEW u \in Threads, NEW i \in DOMAIN agenda[u]
      PROVE  agenda[u][i].op \in {"resolve", "wait"}
  <2>1. agenda[u] \in Seq(Items) /\ AgendaInv(u)
    BY DEF Inv, TypeInv
  <2>2. Len(agenda[u]) \in Nat /\ DOMAIN agenda[u] = 1 .. Len(agenda[u])
    BY <2>1, LenProperties
  <2>3. ASSUME NEW j \in DOMAIN agenda[u]
        PROVE  agenda[u][j].op # "finish"
    <3>1. /\ Len(agenda[u]) + 1 - j \in DOMAIN agenda[u]
          /\ Len(agenda[u]) + 1 - (Len(agenda[u]) + 1 - j) = j
      BY <2>2
    <3>2. Len(agenda[u]) + 1 - j \notin Guards(u)
      BY <1>3
    <3> QED BY <3>1, <3>2 DEF Guards
  <2> QED BY <2>1, <2>3 DEF AgendaInv, Ending
<1> QED BY <1>1, <1>3, <1>4

\* Then no item about a node is anywhere.
LEMMA NoneAbout ==
  ASSUME Assumptions, Inv, pending = 0, ~Unseeded, NEW S, \A it \in S : it.op \notin {"resolve", "wait"}
  PROVE  ~Present(S) /\ Number(S) = 0
<1>1. /\ DOMAIN jobs = {} /\ Queued = {}
      /\ \A u \in Threads : \A i \in DOMAIN agenda[u] : agenda[u][i].op \in {"resolve", "wait"}
  BY Settled
<1>2. ~Present(S)
  BY <1>1 DEF Present, Has
<1>3. Places(S) = {} /\ Posted(S) = {}
  BY <1>1, PlacesAre DEF Hits, Posted
<1>4. Cardinality(Places(S)) = 0 /\ Cardinality(Posted(S)) = 0
  BY <1>3, FS_EmptySet
<1> QED BY <1>2, <1>4 DEF Number

\* The kinds of items that are about a node.
LEMMA AboutNodes ==
  ASSUME NEW k
  PROVE  /\ \A it \in Completing(k) : it.op \notin {"resolve", "wait"}
         /\ \A it \in Reporting(k) : it.op \notin {"resolve", "wait"}
         /\ \A it \in Own(k) : it.op \notin {"resolve", "wait"}
BY DEF Completing, Reporting, Own, Subject

\* And no counter is left: a node whose counter is not zero waits for a child of the same kind,
\* and nobody is below everybody.
LEMMA NoneLeft ==
  ASSUME Assumptions, Inv, BalanceInv, pending = 0, ~Unseeded
  PROVE  \A n \in Nodes : remaining[n] = 0
<1> DEFINE S == {n \in Nodes : remaining[n] # 0}
<1>1. Tree(run.kids) /\ IsForest(run) /\ IsFiniteSet(Nodes)
  BY IsTree DEF Inv, TypeInv, Assumptions
<1>2. \A n \in Nodes : Completions[n] = 0 /\ Reported[n] = 0
  BY NoneAbout, AboutNodes DEF Completions, Reported
<1>3. ASSUME NEW n \in S
      PROVE  \E k \in S : \E i \in DOMAIN run.kids[n] : run.kids[n][i] = k
  <2>1. PICK O : O = Open(run.kids, Completions, remaining, n)
    OBVIOUS
  <2>2. remaining[n] = Reported[n] + Cardinality(O)
    BY <2>1 DEF BalanceInv, Balance
  <2>3. O # {}
    <3>1. O = {} => Cardinality(O) = 0
      BY FS_EmptySet
    <3> QED BY <1>2, <2>2, <3>1
  <2>4. PICK i \in DOMAIN run.kids[n] : Completions[run.kids[n][i]] # 0 \/ remaining[run.kids[n][i]] # 0
    BY <2>1, <2>3 DEF Open
  <2>5. run.kids[n][i] \in Nodes
    BY <1>1, TreeFacts
  <2> QED BY <1>2, <2>4, <2>5
<1> DEFINE c == [n \in S |-> CHOOSE k \in S : \E i \in DOMAIN run.kids[n] : run.kids[n][i] = k]
<1>4. \A n \in S : c[n] \in S /\ \E i \in DOMAIN run.kids[n] : run.kids[n][i] = c[n]
  <2> SUFFICES ASSUME NEW n \in S
               PROVE  c[n] \in S /\ \E i \in DOMAIN run.kids[n] : run.kids[n][i] = c[n]
    OBVIOUS
  <2>1. c[n] = CHOOSE k \in S : \E i \in DOMAIN run.kids[n] : run.kids[n][i] = k
    OBVIOUS
  <2> HIDE DEF S, c
  <2> QED BY <1>3, <2>1
<1>5. c \in [S -> S]
  <2>1. \A n \in S : (CHOOSE k \in S : \E i \in DOMAIN run.kids[n] : run.kids[n][i] = k) \in S
    BY <1>4
  <2> HIDE DEF S
  <2> QED BY <2>1
<1>6. IsFiniteSet(S) /\ S \subseteq Nodes
  BY <1>1, FS_Subset
<1> HIDE DEF S, c
<1>7. \A n, m \in S : c[n] = c[m] => n = m
  <2> SUFFICES ASSUME NEW n \in S, NEW m \in S, c[n] = c[m] PROVE n = m
    OBVIOUS
  <2>1. PICK i \in DOMAIN run.kids[n] : run.kids[n][i] = c[n]
    BY <1>4
  <2>2. PICK j \in DOMAIN run.kids[m] : run.kids[m][j] = c[m]
    BY <1>4
  <2> QED BY <1>1, <1>6, <2>1, <2>2 DEF Tree
<1>8. c \in Injection(S, S)
  BY <1>5, <1>7 DEF Injection, IsInjective
<1>9. c \in Surjection(S, S)
  BY <1>6, <1>8, FS_Injection
<1>10. \A k \in S : \E n \in S : k \in ToSet(run.kids[n])
  <2> SUFFICES ASSUME NEW k \in S PROVE \E n \in S : k \in ToSet(run.kids[n])
    OBVIOUS
  <2>1. PICK n \in S : c[n] = k
    BY <1>9 DEF Surjection
  <2> QED BY <1>4, <2>1 DEF ToSet
<1>11. S = {}
  BY <1>1, <1>6, <1>10 DEF IsForest
<1> QED BY <1>11 DEF S

ModeInv == BottomInv \/ TopInv
Over    == pending = 0 /\ ~Unseeded /\ failed = {}

\* When pending is zero, and nobody threw, all nodes were visited.
LEMMA AllVisited ==
  ASSUME Assumptions, Inv, BalanceInv, ModeInv, Over
  PROVE  visited = Nodes
<1> DEFINE S == Nodes \ visited
<1>1. pending = 0 /\ ~Unseeded /\ failed = {} /\ visited \subseteq Nodes /\ IsForest(run)
  BY DEF Over, Inv, TypeInv, DataInv, Assumptions
<1> SUFFICES ASSUME S # {} PROVE FALSE
  BY <1>1
<1>2. PICK n \in S : \A p \in S : n \notin ToSet(run.kids[p])
  BY <1>1 DEF IsForest
<1>3. \A p \in Nodes : \A i \in DOMAIN Kids(p) : Kids(p)[i] = n => p \in visited
  BY <1>2 DEF Kids, ToSet
<1>4. CASE BottomInv
  <2>1. ClosedInv /\ RootsInv
    BY <1>1, <1>4 DEF BottomInv, Fulfilled
  <2>2. ASSUME NEW i \in DOMAIN run.roots, run.roots[i] = n
        PROVE  FALSE
    <3>1. ~Present(Completing(n)) /\ remaining[n] = 0
      BY <1>1, NoneAbout, AboutNodes, NoneLeft
    <3> QED BY <2>1, <2>2, <3>1 DEF RootsInv
  <2>3. ASSUME NEW p \in Nodes, NEW i \in DOMAIN Kids(p), Kids(p)[i] = n
        PROVE  FALSE
    <3>1. p \in visited
      BY <1>3, <2>3
    <3>2. n \in ToSet(Kids(p))
      BY <2>3 DEF ToSet
    <3> QED BY <2>1, <3>1, <3>2 DEF ClosedInv
  <2> QED BY <2>2, <2>3, EachSits DEF Inv
<1>5. CASE TopInv
  <2>1. Parents(n) \subseteq visited
    BY <1>3 DEF Parents
  <2>2. Present(Own(n))
    BY <1>1, <1>5, <2>1 DEF TopInv, Followed, ComingInv
  <2> QED BY <1>1, <2>2, NoneAbout, AboutNodes
<1> QED BY <1>4, <1>5 DEF ModeInv

LEMMA NextKeepsMode ==
  ASSUME Assumptions, Inv, BalanceInv, ModeInv, [Next]_vars
  PROVE  ModeInv'
BY NextKeepsBottom, NextKeepsTop DEF ModeInv

\* For every forest, in either direction and however the threads interleave: a call in which no
\* visitor throws returns normally, after the visitor returned for every node
\* (ForestTraversal.h:212-219, 354); the relaxed counters lose none.
THEOREM EveryNodeGetsVisited == ASSUME Assumptions PROVE Spec => []EveryNodeIsVisited
<1> DEFINE Given == result # "unset"
<1>1. Init => ModeInv /\ FailureInv /\ Given
  <2>1. Init => run.mode \in {"topDown", "bottomUp"}
    BY DEF Init, Assumptions, IsForest, Run
  <2> QED BY <2>1, InitBottom, InitTop, InitFailure DEF ModeInv, Init
<1>2. Inv /\ BalanceInv /\ ModeInv /\ FailureInv /\ [Next]_vars => ModeInv' /\ FailureInv'
  BY NextKeepsMode, NextKeepsFailure
<1>3. Given /\ [Next]_vars => Given'
  BY DEF Next, Returned, Start, Step, Seed, MaybeFinish, Resolve, Wait, Claim, Record, Submit, Enqueue, Dispatch,
     Enter, Touch, Descend, BottomUp, Unit, ChildDone, Complete, Again, Work, Batch, Leaf, vars
<1>4. Inv /\ BalanceInv /\ ModeInv /\ FailureInv /\ Given => EveryNodeIsVisited
  <2> SUFFICES ASSUME Inv, BalanceInv, ModeInv, FailureInv, Given, result # "running", failed = {}
               PROVE  result = "value" /\ visited = Nodes
    BY DEF EveryNodeIsVisited
  <2>1. result = done /\ done # "unset" /\ pending = 0 /\ ~Unseeded
    BY DEF Inv, EndInv
  <2>2. visited = Nodes
    BY <2>1, AllVisited DEF Over
  <2>3. done \notin Nodes /\ done # "running"
    BY <2>1 DEF FailureInv, StoredInv
  <2> QED BY <2>1, <2>2, <2>3 DEF Inv, TypeInv
<1> HIDE DEF Given
<1> QED BY <1>1, <1>2, <1>3, <1>4, Invariance, BalanceIsKept, PTL DEF Spec

\* What the caller relies on (OutcomeIsRight): without a failure all nodes were visited, and
\* after one an exception of a visitor is stored (maybeFinish and recordException).
THEOREM OutcomesAreRight == ASSUME Assumptions PROVE Spec => []OutcomeIsRight
BY FailuresAreRecorded, EveryNodeGetsVisited, PTL DEF OutcomeIsRight

\* What a visitor relies on (VisitsInOrder): it runs after those of the nodes before its own
\* until one throws, and top-down it sees what they wrote (topDownAsync and bottomUpAsync).
THEOREM VisitsKeepOrder == ASSUME Assumptions PROVE Spec => VisitsInOrder
BY OrderIsKept, ParentsComeFirst, PTL DEF VisitsInOrder
=============================================================================
