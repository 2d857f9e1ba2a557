--------------------------- MODULE GraphElimination ---------------------------
(***************************************************************************)
(* What the elimination of every graph that VariableIndex reaches gives,   *)
(* against a definition of it by paths in the graph. Orders and graphs are *)
(* symmetric, so the keys are eliminated in increasing order.              *)
(***************************************************************************)
EXTENDS VariableIndex, Elimination

Keys  == DOMAIN index
Order == SetToSortSeq(Keys, <)

\* The graph as factors whose content is their slot.
FactorGraph ==
  [i \in DOMAIN graph |->
     [keys |-> graph[i], content |-> IF graph[i] = Null THEN One ELSE Of(<<i>>), orphan |-> None]]

BayesTree == EliminateMultifrontal(FactorGraph, Order, 1)
-----------------------------------------------------------------------------
(* The reference definition *)

Neighbors(j) == UNION {graph[i] : i \in {x \in DOMAIN graph : j \in graph[x]}} \ {j}

\* The later keys that a path through earlier keys joins to j.
LaterNeighbors(j) ==
  LET Reached[n \in Nat] ==
        IF n = 0 THEN {j}
        ELSE LET R == Reached[n - 1] IN R \cup UNION {Neighbors(k) : k \in {x \in R : x <= j}}
  IN  {k \in Reached[Cardinality(Keys)] : k > j}

\* The maximal cliques of the filled graph.
Cliques        == {{j} \cup LaterNeighbors(j) : j \in Keys}
MaximalCliques == {C \in Cliques : \A D \in Cliques : C \subseteq D => C = D}
-----------------------------------------------------------------------------
(* Properties; B is the Bayes tree and C its cliques. *)

Variables(clique) == ToSet(clique.frontals) \cup clique.parents

AreExactly(C, maximal) ==
  /\ {Variables(C[c]) : c \in DOMAIN C} = maximal
  /\ Cardinality(DOMAIN C) = Cardinality(maximal)

\* The cliques of the Bayes tree are the maximal cliques of the filled graph: no
\* clique has variables that elimination does not connect, and those that can be
\* merged are (JunctionTree-inst.h:68-75).
CliquesAreMaximal == AreExactly(BayesTree.clique, MaximalCliques)

FollowOrder(C) ==
  /\ \A j \in Keys : Cardinality({c \in DOMAIN C : j \in ToSet(C[c].frontals)}) = 1
  /\ \A c \in DOMAIN C : LET f == C[c].frontals IN
       /\ \A i \in 1 .. Len(f) - 1 : f[i] < f[i + 1]
       /\ C[c].parents = LaterNeighbors(Last(f))

FollowsSeparators(C, roots) ==
  \A c \in DOMAIN C :
    LET above == {p \in DOMAIN C : c \in C[p].children} IN
    IF c \in roots THEN above = {} /\ C[c].parents = {}
    ELSE \E p \in DOMAIN C :
           above = {p} /\ C[c].parents # {} /\ C[c].parents \subseteq Variables(C[p])
             /\ Min(C[c].parents) \in ToSet(C[p].frontals)

\* Every variable is a frontal variable of one clique, in the order of elimination, and
\* the separator of a clique is what its last one is left with. A clique other than a
\* root has one parent, that of the first variable of its separator, and its separator
\* is in the parent.
TreeFollowsOrder ==
  LET B == BayesTree IN FollowOrder(B.clique) /\ FollowsSeparators(B.clique, B.roots)

ProductOf(C) == ProductOver(DOMAIN C, LAMBDA c : C[c].content)

\* The product of the conditionals is the product of the factors: no factor and
\* no message is lost or used twice.
ProductIsKept ==
  ProductOf(BayesTree.clique) = Product([i \in DOMAIN graph |-> FactorGraph[i].content])
=============================================================================
