-------------------------- MODULE SeparatorMarginals --------------------------
(***************************************************************************)
(* The separator marginals that the cliques of a Bayes tree cache, and the *)
(* mutex of each clique that protects its cache, when several threads ask  *)
(* for marginals of one tree (gtsam/inference/BayesTreeCliqueBase).        *)
(*                                                                         *)
(* The marginal of a clique is the product of the conditionals of its      *)
(* ancestors, marginalized: it is modelled by the set of those ancestors.  *)
(***************************************************************************)
EXTENDS Integers, Sequences, FiniteSets, SequencesExt

CONSTANTS
  Threads,
  Cliques,
  Parent,      \* parent_ of each clique, None for roots
  Operations,  \* what threads may call: "marginal", "peek", "count", "delete"
  Exclusive,   \* those that the callers let run alone
  MaxCalls,    \* how many calls a thread makes
  None

ASSUME ParentAssumption ==
  /\ IsFiniteSet(Cliques) /\ None \notin Cliques
  /\ Parent \in [Cliques -> Cliques \cup {None}]
ASSUME ThreadsAssumption == None \notin Threads /\ MaxCalls \in Nat
ASSUME OperationsAssumption == 
  /\ Operations \subseteq {"marginal", "peek", "count", "delete"}
  /\ "delete" \in Exclusive  \* deleteCachedShortcuts is not const

VARIABLES
  cached,  \* cachedSeparatorMarginal_ of each clique
  lock,    \* the thread that holds its cachedSeparatorMarginalMutex_
  agenda,  \* what is left of the call each thread is in
  call,    \* that call
  calls    \* how many calls each thread made

vars == <<cached, lock, agenda, call, calls>>

Absent      == {None}   \* no cached marginal
Children(c) == {d \in Cliques : Parent[d] = c}
Listed(S)   == CHOOSE s \in [1 .. Cardinality(S) -> S] : IsInjective(s)
Roots       == {c \in Cliques : Parent[c] = None}

Do(op, c)    == [op |-> op, clique |-> c]
Each(op, cs) == [i \in DOMAIN cs |-> Do(op, cs[i])]
NoCall       == Do("none", None)

Init ==
  /\ cached = [c \in Cliques |-> Absent]
  /\ lock = [c \in Cliques |-> None]
  /\ agenda = [th \in Threads |-> <<>>]
  /\ call = [th \in Threads |-> NoCall]
  /\ calls = [th \in Threads |-> 0]
-----------------------------------------------------------------------------
At(th, op) == agenda[th] # <<>> /\ Head(agenda[th]).op = op
Clique(th) == Head(agenda[th]).clique
Then(th, items) == agenda' = [agenda EXCEPT ![th] = items \o Tail(agenda[th])]
Acquire(th, c)  == lock[c] = None /\ lock' = [lock EXCEPT ![c] = th]

\* A call; while an exclusive one runs the callers let no other run.
Alone(th) == \A other \in Threads \ {th} : agenda[other] = <<>>
Call(th) ==
  /\ agenda[th] = <<>> /\ calls[th] < MaxCalls
  /\ \A other \in Threads : call[other].op \in Exclusive => agenda[other] = <<>>
  /\ \E op \in Operations :
       /\ op \in Exclusive => Alone(th)
       /\ \E c \in IF op \in {"marginal", "peek"} THEN Cliques ELSE {None} :
            /\ agenda' = [agenda EXCEPT ![th] =
                 IF c = None THEN Each(op, Listed(Roots)) ELSE <<Do(op, c)>>]
            /\ call' = [call EXCEPT ![th] = Do(op, c)]
  /\ calls' = [calls EXCEPT ![th] = @ + 1]
  /\ UNCHANGED <<cached, lock>>

\* The path goes on above c.
GoesOn(c) == cached[c] = Absent /\ Parent[c] # None

\* separatorMarginal: the loop that locks the path from the clique up to the
\* nearest cached one, or the root.
\* MUTANT: the cached clique at the end of the path is not kept locked.
FaultyClimb(th) ==
  /\ At(th, "marginal")
  /\ LET c == Clique(th) IN
     \/ cached[c] # Absent /\ lock[c] = None /\ Then(th, <<>>) /\ UNCHANGED lock
     \/ /\ cached[c] = Absent /\ Acquire(th, c)
        /\ agenda' = [agenda EXCEPT ![th] =
             (IF GoesOn(c) THEN <<Do("marginal", Parent[c])>> ELSE <<>>)
               \o <<Do("fill", c)>> \o Tail(@) \o <<Do("unlock", c)>>]
  /\ UNCHANGED <<cached, call, calls>>
Climb(th) ==
  /\ At(th, "marginal")
  /\ LET c == Clique(th) IN
     /\ Acquire(th, c)
     /\ agenda' = [agenda EXCEPT ![th] =
          (IF GoesOn(c) THEN <<Do("marginal", Parent[c])>> ELSE <<>>)
            \o <<Do("fill", c)>> \o Tail(@) \o <<Do("unlock", c)>>]
  /\ UNCHANGED <<cached, call, calls>>

\* The marginal of c from that of its parent.
\* MUTANT: the conditional of the parent is left out.
FaultyMarginal(c) == IF Parent[c] = None THEN {} ELSE cached[Parent[c]]
Marginal(c) == IF Parent[c] = None THEN {} ELSE cached[Parent[c]] \cup {Parent[c]}

\* Then the missing marginals are filled in, from the top down.
\* MUTANT: the loop does not go on after a cached clique.
FaultyFill(th) ==
  /\ At(th, "fill")
  /\ LET c == Clique(th) IN
     IF cached[c] # Absent THEN UNCHANGED <<cached, agenda>>
     ELSE cached' = [cached EXCEPT ![c] = Marginal(c)] /\ Then(th, <<>>)
  /\ UNCHANGED <<lock, call, calls>>
Fill(th) ==
  /\ At(th, "fill")
  /\ LET c == Clique(th) IN
     cached' = IF cached[c] = Absent THEN [cached EXCEPT ![c] = Marginal(c)] ELSE cached
  /\ Then(th, <<>>)
  /\ UNCHANGED <<lock, call, calls>>

\* cachedSeparatorMarginal
Peek(th) ==
  /\ At(th, "peek")
  /\ Acquire(th, Clique(th))
  /\ Then(th, <<Do("unlock", Clique(th))>>)
  /\ UNCHANGED <<cached, call, calls>>

\* numCachedSeparatorMarginals, called by its parent with the parent's mutex held.
Count(th) ==
  /\ At(th, "count")
  /\ LET c == Clique(th) IN
     /\ Acquire(th, c)
     /\ Then(th, (IF cached[c] = Absent THEN <<>> ELSE Each("count", Listed(Children(c))))
                   \o <<Do("unlock", c)>>)
  /\ UNCHANGED <<cached, call, calls>>

\* What deleteCachedShortcuts does in a cached clique.
\* MUTANT: the subtrees are left alone.
FaultyDeletion(c) == <<Do("clear", c)>>
Deletion(c) == Each("delete", Listed(Children(c))) \o <<Do("clear", c)>>

\* deleteCachedShortcuts
Delete(th) ==
  /\ At(th, "delete")
  /\ LET c == Clique(th) IN
     /\ Acquire(th, c)
     /\ Then(th, (IF cached[c] = Absent THEN <<>> ELSE Deletion(c)) \o <<Do("unlock", c)>>)
  /\ UNCHANGED <<cached, call, calls>>

Clear(th) ==
  /\ At(th, "clear")
  /\ cached' = [cached EXCEPT ![Clique(th)] = Absent]
  /\ Then(th, <<>>)
  /\ UNCHANGED <<lock, call, calls>>

Unlock(th) ==
  /\ At(th, "unlock")
  /\ lock' = [lock EXCEPT ![Clique(th)] = None]
  /\ Then(th, <<>>)
  /\ UNCHANGED <<cached, call, calls>>

Work(th) ==
  \/ Climb(th) \/ Fill(th) \/ Peek(th) \/ Count(th) \/ Delete(th) \/ Clear(th) \/ Unlock(th)

Done ==
  /\ \A th \in Threads : agenda[th] = <<>> /\ calls[th] = MaxCalls
  /\ UNCHANGED vars

Next == Done \/ \E th \in Threads : Call(th) \/ Work(th)

Spec == Init /\ [][Next]_vars

\* Threads are run, and a mutex that is free again and again is acquired.
FairSpec == Spec /\ \A th \in Threads : SF_vars(Work(th))
-----------------------------------------------------------------------------
(* Properties *)

Item == [op : {"marginal", "peek", "count", "delete", "fill", "clear", "unlock"}, clique : Cliques]

TypeOK ==
  /\ cached \in [Cliques -> SUBSET (Cliques \cup {None})]
  /\ lock \in [Cliques -> Threads \cup {None}]
  /\ calls \in [Threads -> 0 .. MaxCalls]
  /\ agenda \in [Threads -> Seq(Item)]
  /\ call \in [Threads -> [op : Operations \cup {"none"}, clique : Cliques \cup {None}]]

\* The ancestors of c: what is in every set that holds its parent and the parents of
\* its own members.
HoldsParent(S, c) == Parent[c] # None => Parent[c] \in S
Above(c)  == {S \in SUBSET Cliques : HoldsParent(S, c) /\ \A d \in S : HoldsParent(S, d)}
Ancestors == [c \in Cliques |-> {d \in Cliques : \A S \in Above(c) : d \in S}]

\* Who fills a cache holds its mutex and that of the parent, whose cache it reads,
\* and finds it filled.
FillsUnderLocks ==
  \A th \in Threads : At(th, "fill") => LET c == Clique(th) IN
    /\ lock[c] = th
    /\ Parent[c] # None /\ cached[c] = Absent =>
         lock[Parent[c]] = th /\ cached[Parent[c]] # Absent

\* A cached marginal is the marginal, and those above it are cached, also when others
\* are being filled or deleted: "when a shortcut is requested, all of the shortcuts
\* between it and the root are also generated" (BayesTreeCliqueBase-inst.h:226).
CacheIsRight ==
  /\ TypeOK
  /\ FillsUnderLocks
  /\ \A c \in Cliques : cached[c] # Absent =>
       /\ cached[c] = Ancestors[c]
       /\ Parent[c] # None => cached[Parent[c]] # Absent

\* Every call ends: "this is fixed by applying this mutex"
\* (BayesTreeCliqueBase.h:108).
EveryCallEnds == \A th \in Threads : agenda[th] # <<>> ~> agenda[th] = <<>>
=============================================================================
