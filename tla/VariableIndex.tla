---------------------------- MODULE VariableIndex ----------------------------
(***************************************************************************)
(* A factor graph that changes while a VariableIndex of it is kept up to   *)
(* date, as an ISAM2 keeps them: FactorGraph::add_factors with or without  *)
(* the reuse of empty slots, VariableIndex::augment, remove and            *)
(* removeUnusedVariables.                                                  *)
(***************************************************************************)
EXTENDS Integers, Sequences, FiniteSets, FiniteSetsExt, SequencesExt

CONSTANT Setups  \* records of findUnusedFactorSlots (reuse), the
                 \* sequences of factors that may be added at once (batches),
                 \* and bounds on the factors removed at once (removed) and on
                 \* the size of the graph (slots)

Null == {}   \* a null pointer; a factor is the set of its keys

\* Of the constant; Inference assumes it.
Assumptions ==
  \A s \in Setups : /\ DOMAIN s = {"reuse", "batches", "removed", "slots"}
                    /\ s.reuse \in BOOLEAN /\ s.removed \in Nat /\ s.slots \in Nat
                    /\ s.batches \subseteq Seq(SUBSET Nat) \ {<<>>}

VARIABLES
  setup,     \* does not change
  graph,     \* the factors by slot
  index,     \* index_: the slots of the factors of each key
  nFactors,  \* nFactors_
  nEntries   \* nEntries_

vars == <<setup, graph, index, nFactors, nEntries>>

KeysIn(factors) == UNION ToSet(factors)

Init == setup \in Setups /\ graph = <<>> /\ index = [k \in {} |-> <<>>] /\ nFactors = 0 /\ nEntries = 0
-----------------------------------------------------------------------------
(* FactorGraph::add_factors *)

Resized(g, n) == g \o [i \in 1 .. n |-> Null]

\* The first empty slot from slot i on, or the one past the end.
\* MUTANT: whatever slot comes next.
FaultyEmptySlot(g, i) == i
EmptySlot(g, i) == Min({n \in i .. Len(g) : g[n] = Null} \cup {Len(g) + 1})

\* The loop that puts each factor in the next empty slot; the slot of a null
\* factor stays empty and is the next one's.
Placed(g, factors) ==
  FoldLeftDomain(LAMBDA t, j :
    LET i     == EmptySlot(t.graph, t.next)
        grown == IF i > Len(t.graph) THEN Resized(t.graph, Len(factors) - j + 1) ELSE t.graph
    IN  [graph |-> [grown EXCEPT ![i] = factors[j]], slots |-> Append(t.slots, i), next |-> i],
    [graph |-> g, slots |-> <<>>, next |-> 1], factors)

AddFactors(g, factors) ==
  IF setup.reuse THEN Placed(g, factors)
  ELSE [graph |-> g \o factors, slots |-> [i \in DOMAIN factors |-> Len(g) + i]]
-----------------------------------------------------------------------------
(* VariableIndex *)

Entries(ix, k) == IF k \in DOMAIN ix THEN ix[k] ELSE <<>>

\* augment
Augmented(ix, factors, slots) ==
  FoldLeftDomain(LAMBDA t, i :
    [k \in DOMAIN t \cup factors[i] |->
       IF k \in factors[i] THEN Append(Entries(t, k), slots[i]) ELSE t[k]],
    ix, factors)

\* MUTANT: null factors are not counted.
FaultyAugmentedCount(n, factors, slots) ==
  Max({n} \cup {slots[i] : i \in {x \in DOMAIN factors : factors[x] # Null}})
AugmentedCount(n, factors, slots) == Max({n} \cup ToSet(slots))

\* Without slots to reuse the index numbers the new factors itself.
OwnNumbers(n, factors) == [i \in DOMAIN factors |-> n + i]

EntryCount(factors) == FoldLeft(LAMBDA n, f : n + Cardinality(f), 0, factors)

\* remove: every entry of the removed factors is found and erased.
\* MUTANT: the first entry of the variable is erased.
FaultyRemovedFrom(ix, factors, slots) ==
  FoldLeftDomain(LAMBDA t, i :
    [k \in DOMAIN t |-> IF k \in factors[i] /\ t[k] # <<>> THEN Tail(t[k]) ELSE t[k]],
    ix, factors)
RemovedFrom(ix, factors, slots) ==
  FoldLeftDomain(LAMBDA t, i :
    [k \in DOMAIN t |-> IF k \in factors[i] THEN RemoveFirst(t[k], slots[i]) ELSE t[k]],
    ix, factors)

\* computeUnusedKeys: the keys of removed factors that no factor has now.
\* MUTANT: the new factors are not looked at.
FaultyUnusedKeys(ix, removed, new) == {k \in KeysIn(removed) : Entries(ix, k) = <<>>}
UnusedKeys(ix, removed, new) == {k \in KeysIn(removed) : Entries(ix, k) = <<>>} \ KeysIn(new)

Without(g, gone) == [i \in DOMAIN g |-> IF i \in gone THEN Null ELSE g[i]]

\* The bookkeeping of ISAM2::update: new factors take their slots, the removed
\* ones leave graph and index, and then the new ones enter the index.
Update ==
  \E factors \in setup.batches : \E gone \in SUBSET {i \in DOMAIN graph : graph[i] # Null} :
    LET added   == AddFactors(graph, factors)
        slots   == SetToSortSeq(gone, <)
        removed == [i \in DOMAIN slots |-> added.graph[slots[i]]]
        kept    == RemovedFrom(index, removed, slots)
        numbers == IF setup.reuse THEN added.slots ELSE OwnNumbers(nFactors, factors)
        full    == Augmented(kept, factors, numbers)
    IN
    /\ Cardinality(gone) <= setup.removed
    /\ Len(added.graph) <= setup.slots
    /\ graph' = Without(added.graph, gone)
    /\ index' = [k \in DOMAIN full \ UnusedKeys(kept, removed, factors) |-> full[k]]
    /\ nFactors' = AugmentedCount(nFactors, factors, numbers)
    /\ nEntries' = nEntries - EntryCount(removed) + EntryCount(factors)
    /\ UNCHANGED setup

\* An update whose newAffectedKeys say that a factor now has more keys.
Grow ==
  \E i \in DOMAIN graph : \E k \in DOMAIN index \ graph[i] :
    /\ setup.removed > 0 /\ graph[i] # Null
    /\ graph' = [graph EXCEPT ![i] = @ \cup {k}]
    /\ index' = [index EXCEPT ![k] = Append(@, i)]
    /\ nEntries' = nEntries + 1
    /\ UNCHANGED <<setup, nFactors>>

\* What ISAM2::marginalizeLeaves does for a leaf: its factors are removed and a
\* factor on the other keys of the clique, if there are any, takes a slot.
Marginalize ==
  \E k \in DOMAIN index :
    LET gone    == ToSet(index[k])
        slots   == SetToSortSeq(gone, <)
        removed == [i \in DOMAIN slots |-> graph[slots[i]]]
        rest    == KeysIn(removed) \ {k}
        factors == IF rest = {} THEN <<>> ELSE <<rest>>
        added   == AddFactors(Without(graph, gone), factors)
        full    == Augmented(RemovedFrom(index, removed, slots), factors, added.slots)
    IN
    /\ setup.removed > 0 /\ Len(added.graph) <= setup.slots
    /\ graph' = added.graph
    /\ index' = [j \in DOMAIN full \ {k} |-> full[j]]
    /\ nFactors' = AugmentedCount(nFactors, factors, added.slots)
    /\ nEntries' = nEntries - EntryCount(removed) + EntryCount(factors)
    /\ UNCHANGED setup

Next == Update \/ Grow \/ Marginalize

Spec == Init /\ [][Next]_vars
-----------------------------------------------------------------------------
(* Properties *)

TypeOK ==
  /\ graph \in Seq(SUBSET Nat) /\ Len(graph) <= setup.slots
  /\ \A k \in DOMAIN index : k \in Nat /\ index[k] \in Seq(DOMAIN graph)
  /\ nFactors \in Nat /\ nEntries \in Nat

\* nFactors_ is beyond the highest slot in use, but not beyond the graph
\* ("we keep nFactors_ one greater than the highest-numbered factor referenced in
\* a VariableIndex", VariableIndex.h:142), and numbers new factors right.
CountIsRight ==
  /\ \A i \in DOMAIN graph : graph[i] # Null => i <= nFactors
  /\ nFactors <= Len(graph)
  /\ ~setup.reuse => nFactors = Len(graph)

\* The index that was kept up to date is the one a rebuild would make, but for
\* the order of the slots (VariableIndex.h:64-71), and so are its counts.
IndexIsExact ==
  /\ TypeOK /\ CountIsRight
  /\ DOMAIN index = KeysIn(graph)
  /\ \A k \in DOMAIN index :
       IsInjective(index[k]) /\ ToSet(index[k]) = {i \in DOMAIN graph : k \in graph[i]}
  /\ nEntries = EntryCount(graph)

\* A factor keeps its slot until it is removed or one of its variables is
\* marginalized ("removing factors from a factor graph does not shift the indices
\* of other factors", VariableIndex.h:141).
SlotsAreStable ==
  [][\A i \in DOMAIN graph : graph[i] \subseteq DOMAIN index' =>
       i \in DOMAIN graph' /\ (graph'[i] = Null \/ graph[i] \subseteq graph'[i])]_vars
=============================================================================
