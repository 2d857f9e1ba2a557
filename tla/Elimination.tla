----------------------------- MODULE Elimination -----------------------------
(***************************************************************************)
(* Multifrontal variable elimination of a factor graph in a given order    *)
(* (gtsam/inference: EliminationTree, JunctionTree, ClusterTree).          *)
(*                                                                         *)
(* A factor is a record of its keys, its content and, for the wrapper of   *)
(* an orphan, the clique of the orphan. A density is known by its content: *)
(* the factors and messages it is the product of, a function from them to  *)
(* their exponents. Eliminating a product of content c makes a conditional *)
(* and a message m with conditional * m = c, so that the conditional has   *)
(* content c - m.                                                          *)
(***************************************************************************)
EXTENDS Integers, Sequences, FiniteSets, FiniteSetsExt, SequencesExt, TLC

None == <<>>

(* Contents *)

One        == [x \in {} |-> 0]   \* the empty product
Of(x)      == x :> 1
Power(a, x) == IF x \in DOMAIN a THEN a[x] ELSE 0

Combined(a, b, sign) ==
  LET both == DOMAIN a \cup DOMAIN b
      exponent(x) == Power(a, x) + sign * Power(b, x)
  IN  [x \in {y \in both : exponent(y) # 0} |-> exponent(x)]

Times(a, b) == Combined(a, b, 1)
Over(a, b)  == Combined(a, b, -1)

Product(contents)  == FoldLeft(Times, One, contents)          \* of a sequence
ProductOver(S, f(_)) == FoldSet(LAMBDA x, a : Times(a, f(x)), One, S)

\* The members of a set of keys or indices in their order.
Ascending(S) == SelectSeq([i \in 1 .. Max(S \cup {0}) |-> i], LAMBDA i : i \in S)

KeysOf(factors) == UNION {factors[i].keys : i \in DOMAIN factors}
-----------------------------------------------------------------------------
(* The elimination tree *)

Involving(graph, j) == {i \in DOMAIN graph : j \in graph[i].keys}

\* The root of the tree that holds k, found by walking up.
\* MUTANT: one step up.
FaultyRootOf(parent, k) == IF parent[k] = None THEN k ELSE Head(parent[k])
RootOf(parent, k) ==
  LET Up[n \in Nat, x \in DOMAIN parent] ==
        IF n = 0 \/ parent[x] = None THEN x ELSE Up[n - 1, Head(parent[x])]
  IN  Up[Cardinality(DOMAIN parent), k]

\* Column j of the elimination tree: the trees that hold the previous column of
\* a factor of j become children of j, and the factors without one belong to j.
Column(graph, t, j) ==
  LET rows  == Ascending(Involving(graph, j))
      again == SelectSeq(rows, LAMBDA i : t.prevCol[i] # None)
      kids  == FoldLeft(LAMBDA s, i : LET r == RootOf(t.parent, Head(t.prevCol[i]))
                                      IN  IF r \in ToSet(s) THEN s ELSE Append(s, r), <<>>, again)
  IN [parent   |-> [k \in DOMAIN t.parent |-> IF k \in ToSet(kids) THEN <<j>> ELSE t.parent[k]],
      children |-> [t.children EXCEPT ![j] = kids],
      factors  |-> [t.factors EXCEPT ![j] = SelectSeq(rows, LAMBDA i : t.prevCol[i] = None)],
      prevCol  |-> [i \in DOMAIN graph |-> IF j \in graph[i].keys THEN <<j>> ELSE t.prevCol[i]]]

EliminationTree(graph, order) ==
  LET keys == ToSet(order)
  IN  FoldLeft(LAMBDA t, j : Column(graph, t, j),
               [parent |-> [k \in keys |-> None], children |-> [k \in keys |-> <<>>],
                factors |-> [k \in keys |-> <<>>], prevCol |-> [i \in DOMAIN graph |-> None]],
               order)
-----------------------------------------------------------------------------
(* The junction tree *)

\* EliminateSymbolic: the separator of a column, from its factors and those of
\* its children.
Separator(graph, t, done, j) ==
  (UNION {graph[t.factors[j][i]].keys : i \in DOMAIN t.factors[j]}
     \cup UNION {done[c].separator : c \in ToSet(t.children[j])}) \ {j}

\* The children that merge with j: those with as many parents as j and the
\* frontals of the cluster so far have together.
\* MUTANT: j itself is not counted.
FaultyMerged(done, children, nrParents) ==
  SelectSeq(children, LAMBDA c : Cardinality(done[c].separator) = nrParents)
Merged(done, children, nrParents) ==
  FoldLeft(LAMBDA m, c :
             IF Cardinality(done[c].separator) = nrParents + m.nrFrontals
             THEN [chosen |-> Append(m.chosen, c), nrFrontals |-> m.nrFrontals + Len(done[c].frontals)]
             ELSE m,
           [chosen |-> <<>>, nrFrontals |-> 1], children).chosen

\* The keys of the merged clusters, in their order, and then j.
\* MUTANT: in the order in which merge() appends them.
FaultyMergedKeys(done, merged, j) ==
  <<j>> \o FlattenSeq([i \in DOMAIN merged |-> Reverse(done[merged[i]].frontals)])
MergedKeys(done, merged, j) ==
  Reverse(<<j>> \o FlattenSeq([i \in DOMAIN merged |-> Reverse(done[merged[i]].frontals)]))

\* The factors of j and of the clusters merged into it.
\* MUTANT: those of the merged clusters are lost.
FaultyMergedFactors(done, merged, own) == own
MergedFactors(done, merged, own) ==
  own \o FlattenSeq([i \in DOMAIN merged |-> done[merged[i]].factors])

\* The cluster of j with the children it merges.
Cluster(graph, t, done, j) ==
  LET separator == Separator(graph, t, done, j)
      children  == t.children[j]
      merged    == Merged(done, children, Cardinality(separator))
  IN [separator |-> separator,
      frontals  |-> MergedKeys(done, merged, j),
      factors   |-> MergedFactors(done, merged, t.factors[j]),
      children  |-> FlattenSeq([i \in DOMAIN children |->
                       IF children[i] \in ToSet(merged) THEN done[children[i]].children
                                                        ELSE <<children[i]>>])]

\* The clusters with the children they merge, and those that are left: the ones
\* that are still reached from the roots.
Clusters(graph, order, t) ==
  FoldLeft(LAMBDA done, j : (j :> Cluster(graph, t, done, j)) @@ done, <<>>, order)
Left(clusters, roots) ==
  LET Below[n \in Nat, S \in SUBSET DOMAIN clusters] ==
        IF n = 0 THEN S ELSE S \cup Below[n - 1, UNION {ToSet(clusters[j].children) : j \in S}]
  IN [cluster |-> [j \in Below[Cardinality(DOMAIN clusters), roots] |-> clusters[j]],
      roots   |-> roots]

JunctionTreeOf(graph, order, t) ==
  Left(Clusters(graph, order, t), {j \in ToSet(order) : t.parent[j] = None})
JunctionTree(graph, order) == JunctionTreeOf(graph, order, EliminationTree(graph, order))
-----------------------------------------------------------------------------
(* Elimination of the junction tree into a Bayes tree *)

\* The orphans whose wrappers are among the factors of a cluster.
\* MUTANT: they are not adopted.
FaultyOrphansOf(factors) == {}
OrphansOf(factors) == {factors[i].orphan : i \in {x \in DOMAIN factors : factors[x].orphan # None}}

\* What is left for the parent: nothing without keys.
Message(keys, name) ==
  [keys |-> keys, content |-> IF keys = {} THEN One ELSE Of(name), orphan |-> None]

\* The elimination of cluster j: a clique, named by a stamp and the last of its
\* keys, whose children are those of the cluster and the orphans it gathered.
Eliminated(graph, cluster, done, stamp, j) ==
  LET own      == [i \in DOMAIN cluster[j].factors |-> graph[cluster[j].factors[i]]]
      gathered == own \o [i \in DOMAIN cluster[j].children |-> done[cluster[j].children[i]].message]
      parents  == KeysOf(gathered) \ ToSet(cluster[j].frontals)
  IN [frontals |-> cluster[j].frontals,
      parents  |-> parents,
      content  |-> Over(Product([i \in DOMAIN gathered |-> gathered[i].content]),
                        IF parents = {} THEN One ELSE Of(<<stamp, j>>)),
      message  |-> Message(parents, <<stamp, j>>),
      children |-> {<<stamp, c>> : c \in ToSet(cluster[j].children)} \cup OrphansOf(own)]

\* The order of elimination is a post-order of the clusters.
EliminatedClusters(graph, order, stamp, tree) ==
  FoldLeft(LAMBDA done, j : (j :> Eliminated(graph, tree.cluster, done, stamp, j)) @@ done,
           <<>>, SelectSeq(order, LAMBDA j : j \in DOMAIN tree.cluster))

\* eliminateMultifrontal: the cliques by name, and the roots.
Named(done, roots, stamp) ==
  [clique |-> [c \in {<<stamp, j>> : j \in DOMAIN done} |-> done[c[2]]],
   roots  |-> {<<stamp, j>> : j \in roots}]
EliminateTree(graph, order, stamp, tree) ==
  Named(EliminatedClusters(graph, order, stamp, tree), tree.roots, stamp)
EliminateMultifrontal(graph, order, stamp) ==
  EliminateTree(graph, order, stamp, JunctionTree(graph, order))

\* Orderings of the keys in which those of last come last.
Orderings(keys, last) ==
  {p \o q : p \in SetToSeqs(keys \ last), q \in SetToSeqs(keys \cap last)}
=============================================================================
