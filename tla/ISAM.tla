--------------------------------- MODULE ISAM ---------------------------------
(***************************************************************************)
(* A Bayes tree that is updated by new factors (gtsam/inference: ISAM,     *)
(* BayesTree). An update eliminates the conditionals of the top that it    *)
(* removes again with the new factors, and hangs the orphaned subtrees     *)
(* below the new cliques.                                                  *)
(***************************************************************************)
EXTENDS BayesTree

CONSTANT
  Setups  \* records of the sequences of new factors, each the set of its keys (batches), of
          \* what else may be called (calls): "marginal" (and joints), "forget", "subtree",
          \* "clear", and of a bound on the number of updates (bound)

ASSUME SetupAssumption ==
  \A s \in Setups : \A b \in s.batches : b # <<>> /\ \A i \in DOMAIN b : b[i] # {}

VARIABLES
  setup,  \* does not change
  added   \* history: the factors added and not thrown away since

vars == <<setup, tree, updates, added>>

Init == setup \in Setups /\ NoTree /\ added = One
-----------------------------------------------------------------------------
(* ISAM::update *)

Conditional(c) == [keys |-> Variables(c), content |-> clique[c].content, orphan |-> None]

NewFactor(f, i) == [keys |-> f, content |-> Of(<<updates + 1, i, "factor">>), orphan |-> None]

\* The graph to eliminate.
\* MUTANT: the removed conditionals are not in it.
FaultyContaminated(top, new) ==
  LET orphans == SetToSeq(top.orphans)
  IN  new \o [i \in DOMAIN orphans |-> Wrapper(orphans[i])]
Contaminated(top, new) ==
  LET orphans == SetToSeq(top.orphans)
  IN  [i \in DOMAIN top.bn |-> Conditional(top.bn[i])] \o new
        \o [i \in DOMAIN orphans |-> Wrapper(orphans[i])]

Eliminate(top, graph, last) ==
  \E order \in Orderings(KeysOf(graph), last) :
    LET result == EliminateMultifrontal(graph, order, updates + 1)
    IN  Rebuilt(top, ToSet(top.bn), result.clique, result.roots)

UpdateBy(batch, keys, top) ==
  LET new == [i \in DOMAIN batch |-> NewFactor(batch[i], i)] IN
  /\ Eliminate(top, Contaminated(top, new), keys)
  /\ added' = Times(added, Product([i \in DOMAIN new |-> new[i].content]))
  /\ updates' = updates + 1
  /\ UNCHANGED setup

Update ==
  /\ updates < setup.bound
  /\ \E batch \in setup.batches :
       LET keys == UNION ToSet(batch) IN UpdateBy(batch, keys, Top(keys))
-----------------------------------------------------------------------------
(* The other operations of a Bayes tree *)

\* marginalFactor
Marginal ==
  /\ "marginal" \in setup.calls
  /\ \E j \in DOMAIN nodes : cached' = MarginalOf(nodes[j])
  /\ UNCHANGED <<setup, clique, parent, children, roots, nodes, updates, added>>

\* deleteCachedShortcuts
Forget ==
  /\ "forget" \in setup.calls /\ cached # Empty
  /\ cached' = Without(cached, Forgotten(roots, parent))
  /\ UNCHANGED <<setup, clique, parent, children, roots, nodes, updates, added>>

\* removeSubtree: the caller gets the cliques.
RemoveSubtree ==
  /\ "subtree" \in setup.calls
  /\ \E c \in Cliques :
       LET gone == BelowIn(parent, c)
           t    == Pruned(Links, c)
       IN
       /\ clique' = t.clique /\ parent' = t.parent /\ children' = t.children
       /\ roots' = t.roots /\ nodes' = t.nodes
       /\ cached' = Without(cached, gone)
       /\ added' = Over(added, ProductOver(gone, LAMBDA d : clique[d].content))
  /\ UNCHANGED <<setup, updates>>

Clear ==
  /\ "clear" \in setup.calls /\ roots # {}
  /\ clique' = Empty /\ parent' = Empty /\ children' = Empty /\ roots' = {}
  /\ nodes' = Empty /\ cached' = Empty /\ added' = One
  /\ UNCHANGED <<setup, updates>>

Next == Update \/ Marginal \/ Forget \/ RemoveSubtree \/ Clear

Spec == Init /\ [][Next]_vars
-----------------------------------------------------------------------------
(* Properties *)

\* The product of the conditionals is that of all factors added.
ProductIsKept == ProductOver(Cliques, LAMBDA c : clique[c].content) = added

\* A cached separator marginal is that of the tree as it is now, and those above
\* it are cached.
CachesAreFresh ==
  \A c \in DOMAIN cached :
    /\ cached[c] = ProductOver(ToSet(Tail(PathUp(c, parent))), LAMBDA d : clique[d].content)
    /\ parent[c] # None => parent[c] \in DOMAIN cached

\* collectAffectedKeys: the keys of the cliques between those of the keys and the
\* roots.
AffectedKeys(keys) ==
  UNION {UNION {Frontals(d) : d \in ToSet(PathUp(nodes[j], parent))} : j \in keys \cap DOMAIN nodes}

\* An update of a tree with factors on some keys leaves every clique alone that has none of
\* the affected keys, with its content and the subtree below it, and makes new
\* cliques of all affected keys.
OnlyTheTopChanges ==
  [][updates' > updates /\ roots # {} => \E batch \in setup.batches :
       LET affected == AffectedKeys(UNION ToSet(batch))
           alone    == {c \in Cliques : Frontals(c) \cap affected = {}}
       IN  /\ alone = Cliques \cap DOMAIN clique'
           /\ \A c \in alone : clique'[c] = clique[c] /\ children'[c] = children[c]
           /\ UNION ToSet(batch) \cup affected
                = UNION {ToSet(clique'[c].frontals) : c \in DOMAIN clique' \ Cliques}]_vars
=============================================================================
