------------------------------- MODULE BayesTree -------------------------------
(***************************************************************************)
(* A Bayes tree: its cliques, pointers and index, and what an incremental  *)
(* update does to them (gtsam/inference: BayesTree, BayesTreeCliqueBase).  *)
(* An update removes the cliques between those of the affected keys and    *)
(* the root, and hangs the orphaned subtrees below the cliques that it     *)
(* makes instead.                                                          *)
(*                                                                         *)
(* Lists of cliques are sets: their order has no meaning. A clique is      *)
(* named as Elimination names it, by the update that made it.              *)
(***************************************************************************)
EXTENDS Elimination

VARIABLES
  clique,    \* the conditional of each clique: frontals, parents, content
  parent,    \* parent_ of each clique, None without one
  children,  \* children of each clique
  roots,     \* roots_
  nodes,     \* nodes_: the clique of each frontal variable
  cached,    \* cachedSeparatorMarginal_ of the cliques that have one: its content
  updates    \* how many changes there were: the name of the next cliques

tree == <<clique, parent, children, roots, nodes, cached>>

Empty == [x \in {} |-> None]

NoTree ==
  /\ clique = Empty /\ parent = Empty /\ children = Empty /\ roots = {}
  /\ nodes = Empty /\ cached = Empty /\ updates = 0
-----------------------------------------------------------------------------
(* Cliques *)

Cliques      == DOMAIN clique
Frontals(c)  == ToSet(clique[c].frontals)
Variables(c) == Frontals(c) \cup clique[c].parents
Without(f, S) == [x \in DOMAIN f \ S |-> f[x]]

\* A clique and those above it, up to one without a parent.
PathUp(c, above) ==
  LET Up[n \in Nat, d \in DOMAIN above] ==
        IF n = 0 \/ above[d] = None THEN <<d>> ELSE <<d>> \o Up[n - 1, above[d]]
  IN  Up[Cardinality(DOMAIN above), c]

BelowIn(above, c) == {d \in DOMAIN above : c \in ToSet(PathUp(d, above))}   \* with c itself

\* The tree without its marginals, as the operations below rework it.
Links == [clique |-> clique, parent |-> parent, children |-> children, roots |-> roots,
          nodes |-> nodes]
-----------------------------------------------------------------------------
(* removeTop *)

\* The entries of a clique in the index.
\* MUTANT: only that of its first key.
FaultyEntries(c) == {Head(clique[c].frontals)}
Entries(c) == Frontals(c)

\* removeClique: out of the roots or of its parent's children, its children
\* without parent, its keys out of the index.
RemoveClique(t, c) ==
  [t EXCEPT
     !.roots    = IF t.parent[c] = None THEN @ \ {c} ELSE @,
     !.children = IF t.parent[c] = None THEN @ ELSE [@ EXCEPT ![t.parent[c]] = @ \ {c}],
     !.parent   = [d \in DOMAIN @ |-> IF d \in t.children[c] THEN None ELSE @[d]],
     !.nodes    = Without(@, Entries(c))]

\* removePath, on the way up: it was perhaps an orphan of an earlier path.
Unhook(t, c) == RemoveClique([t EXCEPT !.orphans = @ \ {c}], c)

\* removePath, on the way back: its other children are orphans now.
Collect(t, c) ==
  [t EXCEPT !.orphans = @ \cup t.children[c], !.children = [@ EXCEPT ![c] = {}],
            !.bn = Append(@, c)]

\* MUTANT: the clique alone.
FaultyRemovePath(t, c) == Collect(Unhook(t, c), c)
RemovePath(t, c) ==
  LET path == PathUp(c, t.parent)
  IN  FoldLeft(Collect, FoldLeft(Unhook, t, path), Reverse(path))

\* The paths of all affected keys that the tree knows.
Top(keys) ==
  FoldLeft(LAMBDA t, j : IF j \in DOMAIN t.nodes THEN RemovePath(t, t.nodes[j]) ELSE t,
           [parent |-> parent, children |-> children, roots |-> roots, nodes |-> nodes,
            orphans |-> {}, bn |-> <<>>],
           Ascending(keys))

\* deleteCachedShortcuts of a clique goes down as long as there is something
\* cached.
\* MUTANT: the cliques below the first are left alone.
FaultyForgotten(starts, above) == starts
Forgotten(starts, above) ==
  {d \in DOMAIN cached :
     LET path == PathUp(d, above) IN
     \E i \in DOMAIN path : path[i] \in starts /\ \A x \in 1 .. i : path[x] \in DOMAIN cached}
\* removeSubtree
Pruned(t, c) ==
  LET gone == BelowIn(t.parent, c) IN
  [t EXCEPT !.clique   = Without(@, gone),
            !.parent   = Without(@, gone),
            !.children = [d \in DOMAIN @ \ gone |-> @[d] \ {c}],
            !.roots    = @ \ {c},
            !.nodes    = Without(@, UNION {ToSet(t.clique[d].frontals) : d \in gone})]
-----------------------------------------------------------------------------
(* New cliques below the top *)

\* BayesTreeOrphanWrapper: the separator of an orphan, and no density.
\* MUTANT: the first key of the separator.
FaultyWrapper(c) == [keys |-> {Min(clique[c].parents)}, content |-> One, orphan |-> c]
Wrapper(c) == [keys |-> clique[c].parents, content |-> One, orphan |-> c]

ParentIn(made, c) ==
  IF \E p \in DOMAIN made : c \in made[p].children
  THEN CHOOSE p \in DOMAIN made : c \in made[p].children ELSE None

\* What remains below the removed top, and the cliques made, with the orphans among
\* their children.
Rebuilt(top, removed, made, newRoots) ==
  LET kept == Cliques \ removed
      all  == kept \cup DOMAIN made
  IN
  /\ clique' = [c \in all |->
       IF c \in kept THEN clique[c]
       ELSE [frontals |-> made[c].frontals, parents |-> made[c].parents, content |-> made[c].content]]
  /\ parent' = [c \in all |->
       IF c \in kept /\ c \notin top.orphans THEN top.parent[c] ELSE ParentIn(made, c)]
  /\ children' = [c \in all |-> IF c \in kept THEN top.children[c] ELSE made[c].children]
  /\ roots' = top.roots \cup newRoots
  /\ nodes' = top.nodes @@ [j \in UNION {ToSet(made[c].frontals) : c \in DOMAIN made} |->
                              CHOOSE c \in DOMAIN made : j \in ToSet(made[c].frontals)]
  /\ cached' = Without(cached, removed \cup Forgotten(top.orphans, top.parent))

-----------------------------------------------------------------------------
(* Marginals *)

\* separatorMarginal fills the path from the nearest cached clique down: the
\* marginal of a root is one, that of another that of its parent times the
\* conditional of the parent.
MarginalOf(c) ==
  FoldLeft(LAMBDA m, d :
             IF d \in DOMAIN m THEN m
             ELSE m @@ (d :> IF parent[d] = None THEN One
                             ELSE Times(m[parent[d]], clique[parent[d]].content)),
           cached, Reverse(PathUp(c, parent)))

-----------------------------------------------------------------------------
(* Properties *)

TreeTypeOK ==
  /\ \A c \in Cliques : clique[c].frontals # <<>> /\ clique[c].parents \cap Frontals(c) = {}
  /\ parent \in [Cliques -> Cliques \cup {None}]
  /\ children \in [Cliques -> SUBSET Cliques]
  /\ roots \subseteq Cliques
  /\ DOMAIN cached \subseteq Cliques
  /\ updates \in Nat

\* Every variable is in the index, under the one clique that has it as frontal
\* variable: nodes_.insert does not replace what an update forgot to remove.
IndexIsExact ==
  /\ DOMAIN nodes = UNION {Frontals(c) : c \in Cliques}
  /\ \A j \in DOMAIN nodes : nodes[j] \in Cliques
  /\ \A c \in Cliques : \A j \in Frontals(c) : nodes[j] = c

\* The cliques form trees below the roots, every pointer up has its pointer down,
\* and the index finds the clique of every variable.
TreesAreWellFormed ==
  /\ TreeTypeOK
  /\ \A c, p \in Cliques : parent[c] = p <=> c \in children[p]
  /\ \A c \in Cliques : c \in roots <=> parent[c] = None
  /\ \A c \in Cliques : Last(PathUp(c, parent)) \in roots
  /\ IndexIsExact

\* The separator of a clique is the part of its variables that its parent has,
\* and the variables that any two cliques share are in all the cliques between.
RunningIntersection ==
  /\ \A c \in Cliques :
       IF parent[c] = None THEN clique[c].parents = {}
       ELSE /\ clique[c].parents = Variables(c) \cap Variables(parent[c])
            /\ clique[c].parents \cap Frontals(parent[c]) # {}
  /\ \A c, d \in Cliques : Variables(c) \cap Variables(d) # {} =>
       Last(PathUp(c, parent)) = Last(PathUp(d, parent))

\* After any operations there are trees of cliques that the index finds, with the running
\* intersection property that makes their densities one (BayesTree-inst.h:699-806).
TreeIsSound == TreesAreWellFormed /\ RunningIntersection
=============================================================================
