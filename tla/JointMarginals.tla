---------------------------- MODULE JointMarginals ----------------------------
(***************************************************************************)
(* Joint marginals of a Bayes tree (gtsam/inference: BayesTree::           *)
(* jointBayesNet, BayesTreeCliqueBase::shortcut and marginal2). The joint  *)
(* of some variables is put together from the marginal of a clique above   *)
(* all of them and, on the way down, conditionals of the cliques that      *)
(* matter and shortcuts over those between.                                *)
(*                                                                         *)
(* A density of the sum is a piece: the variables it is a density of       *)
(* (heads), those it is conditioned on (tails), and the cliques whose      *)
(* conditionals were multiplied into it (used).                            *)
(***************************************************************************)
EXTENDS ISAM

Piece(heads, tails, used) == [heads |-> heads, tails |-> tails, used |-> used]
Nothing == Piece({}, {}, {})

Ancestors(c) == ToSet(PathUp(c, parent))   \* with c itself
RootAbove(c) == Last(PathUp(c, parent))
-----------------------------------------------------------------------------
(* BayesTreeCliqueBase *)

\* separator_setminus_B
Beyond(c, b) == clique[c].parents \ Variables(b)

\* shortcut: P(S\B | B), from that of the parent and the parent's conditional;
\* all but S and B is integrated out.
\* MUTANT: the parent's conditional is left out.
FaultyLengthened(up, c, b) ==
  LET known == up.heads \cup up.tails
  IN  Piece(Beyond(c, b) \cap known, Variables(b) \cap known, up.used)
Lengthened(up, c, b) ==
  LET known == up.heads \cup up.tails \cup Variables(parent[c])
  IN  Piece(Beyond(c, b) \cap known, Variables(b) \cap known, up.used \cup {parent[c]})

Shortcut(c, b) ==
  LET Cut[n \in Nat, d \in Cliques] ==
        IF n = 0 \/ parent[d] = None \/ Beyond(d, b) = {} THEN Nothing
        ELSE Lengthened(Cut[n - 1, parent[d]], d, b)
  IN  Cut[Cardinality(Cliques), c]

ConditionalPiece(c) == Piece(Frontals(c), clique[c].parents, {c})

\* marginal2: the separator marginal, of all above, and the conditional.
Marginal2(c) == Piece(Variables(c), {}, Ancestors(c))
-----------------------------------------------------------------------------
(* BayesTree::jointBayesNet *)

\* findLowestCommonAncestor
Meet(c, d) ==
  LET common == SelectSeq(PathUp(d, parent), LAMBDA e : e \in Ancestors(c))
  IN  IF common = <<>> THEN None ELSE Head(common)

\* Two keys: both cliques below the first clique they have in common, or, without
\* one, both marginals.
Arm(c, b) == <<Shortcut(c, b)>> \o (IF c = b THEN <<>> ELSE <<ConditionalPiece(c)>>)
JointOfTwo(c, d, b) ==
  IF b = None THEN <<Marginal2(c), Marginal2(d)>>
  ELSE <<Marginal2(b)>> \o Arm(c, b) \o Arm(d, b)

\* collectSupportCliques
Support(query, root) == {root} \cup (UNION {Ancestors(c) : c \in query} \ Ancestors(root))

\* countSupportChildren, collectEssentialCliques
\* MUTANT: a clique where paths part is not essential.
FaultyEssential(query, support, root) == {root} \cup query
Essential(query, support, root) ==
  {root} \cup query
    \cup {c \in support : Cardinality({d \in support \ {root} : parent[d] = c}) > 1}

\* descendToNextEssentialClique
Descend(c, support, essential) ==
  LET Down[n \in Nat, d \in Cliques] ==
        IF d \in essential THEN d
        ELSE IF n = 0 \/ children[d] \cap support = {} THEN None
        ELSE Down[n - 1, CHOOSE e \in children[d] \cap support : TRUE]
  IN  Down[Cardinality(Cliques), c]

\* appendCompressedSupport
CompressedSupport(root, support, essential) ==
  LET Pieces[n \in Nat, a \in Cliques] ==
        LET next == {Descend(c, support, essential) : c \in children[a] \cap support} \ {None}
        IN  IF n = 0 THEN <<>>
            ELSE FlattenSeq([i \in 1 .. Cardinality(next) |->
                   LET e == SetToSeq(next)[i]
                   IN  <<Shortcut(e, a), ConditionalPiece(e)>> \o Pieces[n - 1, e]])
  IN  Pieces[Cardinality(Cliques), root]

Reduced(query, root) ==
  LET support == Support(query, root)
  IN  <<Marginal2(root)>> \o CompressedSupport(root, support, Essential(query, support, root))

\* The lowest common ancestor of cliques of one tree.
MeetOf(query) == LET q == SetToSeq(query) IN FoldLeft(Meet, Head(q), Tail(q))

\* The joint of keys of one tree.
JointInTree(keys) ==
  LET query == {nodes[j] : j \in keys} IN
  CASE Cardinality(keys) = 1 -> <<Marginal2(MeetOf(query))>>
    [] Cardinality(keys) = 2 ->
         LET j == SetToSeq(keys) IN JointOfTwo(nodes[j[1]], nodes[j[2]], Meet(nodes[j[1]], nodes[j[2]]))
    [] OTHER -> Reduced(query, MeetOf(query))

\* keysByRoot: a joint for each tree; but two keys are looked at first.
InTree(keys, r) == {j \in keys : RootAbove(nodes[j]) = r}
TreesOf(keys)   == {RootAbove(nodes[j]) : j \in keys}
Joint(keys) ==
  IF Cardinality(keys) = 2 THEN JointInTree(keys)
  ELSE LET trees == SetToSeq(TreesOf(keys))
       IN  FlattenSeq([i \in DOMAIN trees |-> JointInTree(InTree(keys, trees[i]))])

\* The cliques whose marginals are asked for on the way.
Bases(keys) == {MeetOf({nodes[j] : j \in InTree(keys, r)}) : r \in TreesOf(keys)}

\* jointBayesNet, joint: all that the tree keeps are separator marginals.
JointMarginal ==
  /\ "marginal" \in setup.calls
  /\ \E keys \in SUBSET DOMAIN nodes :
       /\ Cardinality(keys) > 1
       /\ cached' = FoldSet(LAMBDA c, m : m @@ MarginalOf(c), cached, Bases(keys))
  /\ UNCHANGED <<setup, clique, parent, children, roots, nodes, updates, added>>

JointSpec == Init /\ [][Next \/ JointMarginal]_vars
-----------------------------------------------------------------------------
(* Properties *)

\* A sequence of densities multiplies to one density of all their variables: each
\* is conditioned on variables that came before and is of new ones, and no
\* conditional is counted twice.
IsDensity(pieces) ==
  \A i \in DOMAIN pieces :
    LET before == {pieces[x] : x \in 1 .. (i - 1)}
        known  == UNION {p.heads : p \in before}
    IN  /\ pieces[i].tails \subseteq known
        /\ pieces[i].heads \cap known = {}
        /\ pieces[i].used \cap UNION {p.used : p \in before} = {}

\* Whatever variables are asked for, together or in different trees, what
\* jointBayesNet multiplies before it marginalises is a density of variables that
\* include them: the shortcuts meet at every clique where the paths to them part,
\* and no clique is left out or counted on two of them.
JointsAreDensities ==
  \A keys \in SUBSET DOMAIN nodes : keys # {} =>
    LET joint == Joint(keys)
    IN  IsDensity(joint) /\ keys \subseteq UNION {joint[i].heads : i \in DOMAIN joint}
=============================================================================
