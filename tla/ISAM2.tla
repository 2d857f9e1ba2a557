-------------------------------- MODULE ISAM2 --------------------------------
(***************************************************************************)
(* Incremental smoothing with relinearization on a Bayes tree              *)
(* (gtsam/nonlinear: ISAM2, ISAM2-impl, ISAM2Clique). An update adds and   *)
(* removes nonlinear factors, moves the linearization points of variables  *)
(* whose correction has grown, and eliminates the factors of the affected  *)
(* top again, with the cached factors of the subtrees below it;            *)
(* marginalizeLeaves cuts variables off at the bottom and leaves linear    *)
(* factors in their place.                                                 *)
(*                                                                         *)
(* A value is known by the number of times it was relinearized. A null     *)
(* pointer in a list of factors is a factor without keys. How large the    *)
(* corrections are, and COLAMD's choice of an ordering, are left open.     *)
(***************************************************************************)
EXTENDS BayesTree

CONSTANT
  Setups  \* records: the new factors and values an update may bring (batches), the
          \* sets of variables whose correction may be large (large), those that may be
          \* marginalized together (leaves), what else may be asked of an update
          \* (asks: "remove", "keep", "extra", "reorder"), the parameters
          \* cacheLinearizedFactors (cache), findUnusedFactorSlots (reuse) and
          \* enablePartialRelinearizationCheck (partial), and a bound on the number of
          \* changes (bound)

ASSUME BatchAssumption ==
  \A s \in Setups : \A b \in s.batches : \A i \in DOMAIN b.factors : b.factors[i] # {}

VARIABLES
  setup,     \* does not change
  factors,   \* nonlinearFactors_
  linear,    \* linearFactors_: the content of each
  theta,     \* theta_: the version of each variable's linearization point
  fixed,     \* fixedVariables_
  mask,      \* deltaReplacedMask_
  renewed    \* history: the variables eliminated again since delta_ was last computed

vars == <<setup, tree, updates, factors, linear, theta, fixed, mask, renewed>>

Init ==
  /\ setup \in Setups /\ NoTree
  /\ factors = <<>> /\ linear = <<>> /\ theta = Empty
  /\ fixed = {} /\ mask = {} /\ renewed = {}
-----------------------------------------------------------------------------
(* Factors *)

Gap == [keys |-> {}, name |-> None, at |-> Empty]

NewFactor(keys, i) == [keys |-> keys, name |-> <<updates + 1, i, 0>>, at |-> Empty]

Involved(fs, keys) == {s \in DOMAIN fs : fs[s].keys \cap keys # {}}

At(th, keys) == [j \in keys |-> th[j]]

\* linearize: what a LinearContainerFactor made of values at stays the same.
Linearized(f, th) ==
  CASE f.keys = {}    -> One
    [] f.at # Empty   -> Of(f.name)
    [] OTHER          -> LET order == Ascending(f.keys)
                         IN  Of(f.name \o [i \in DOMAIN order |-> th[order[i]]])

AsLinear(keys, content) == [keys |-> keys, content |-> content, orphan |-> None]

\* add_factors: slots for n factors, the empty ones first if they are looked for.
FreeSlots(fs, n) ==
  LET empty == IF setup.reuse
               THEN Ascending({s \in DOMAIN fs : fs[s].keys = {}}) ELSE <<>>
  IN  [i \in 1 .. n |-> IF i <= Len(empty) THEN empty[i] ELSE Len(fs) + i - Len(empty)]

Placed(seq, slots, new, gap) ==
  [s \in 1 .. Max({Len(seq)} \cup ToSet(slots)) |->
     IF s \in ToSet(slots) THEN new[CHOOSE i \in DOMAIN slots : slots[i] = s]
     ELSE IF s \in DOMAIN seq THEN seq[s] ELSE gap]

Emptied(seq, slots, gap) == [s \in DOMAIN seq |-> IF s \in slots THEN gap ELSE seq[s]]

\* The orders COLAMD may choose, here ascending or descending among those that come
\* first and among those that come last.
Sorted(S) == {Ascending(S), Reverse(Ascending(S))}
SortedOrders(keys, last) == {p \o q : p \in Sorted(keys \ last), q \in Sorted(keys \cap last)}
-----------------------------------------------------------------------------
(* What an update relinearizes *)

\* CheckRelinearizationPartial: a clique is looked at if all above it had a large
\* correction.
Checked(large) ==
  {c \in Cliques : LET above == ToSet(Tail(PathUp(c, parent)))
                   IN  \A d \in above : Variables(d) \cap large # {}}

\* gatherRelinearizeKeys
\* MUTANT: the variables with linear factors move as well.
FaultyRelinKeys(u) == u.large \ u.keep
RelinKeys(u) ==
  (IF setup.partial THEN u.large \cap UNION {Variables(c) : c \in Checked(u.large)} ELSE u.large)
    \ (fixed \cup u.keep)

\* findFluid, findAll: the cliques that are conditioned on them.
\* MUTANT: only the variables that move, and no clique below theirs.
FaultyFluid(relin) == relin
Fluid(relin) == UNION {Frontals(c) : c \in {d \in Cliques : clique[d].parents \cap relin # {}}}
-----------------------------------------------------------------------------
(* recalculate *)

\* relinearizeAffectedFactors: the slots of the factors inside, and what each gives.
\* MUTANT: the cached linear factor is used in any case.
FaultyReused(f, content, relin) == setup.cache /\ content # One
Reused(f, content, relin) == setup.cache /\ content # One /\ f.keys \cap relin = {}

Inside(fs, keys) ==
  Ascending({s \in DOMAIN fs : fs[s].keys # {} /\ fs[s].keys \subseteq keys})

Relinearized(fs, lin, th, relin, slots) ==
  [s \in DOMAIN lin |-> IF s \in ToSet(slots) /\ ~Reused(fs[s], lin[s], relin)
                        THEN Linearized(fs[s], th) ELSE lin[s]]

Boundary(c) == AsLinear(clique[c].parents, Of(c))   \* cachedFactor_

\* The graph of the top: its factors, the cached ones of the orphans, and their
\* wrappers.
\* MUTANT: without the cached ones.
FaultyTopGraph(fs, contents, slots, orphans) ==
  [i \in DOMAIN slots |-> AsLinear(fs[slots[i]].keys, contents[slots[i]])]
    \o [i \in DOMAIN orphans |-> Wrapper(orphans[i])]
TopGraph(fs, contents, slots, orphans) ==
  [i \in DOMAIN slots |-> AsLinear(fs[slots[i]].keys, contents[slots[i]])]
    \o [i \in DOMAIN orphans |-> Boundary(orphans[i])]
    \o [i \in DOMAIN orphans |-> Wrapper(orphans[i])]

\* The keys to come last: those that were asked for or the observed ones.
ComeLast(u, observed) == IF u.last = None THEN observed ELSE Head(u.last)

\* The variables whose entries of delta_ are replaced.
\* MUTANT: new variables are not among them.
FaultyReplaced(affected, marked) == affected
Replaced(affected, marked) == affected \cup marked

NewCliques(top, removed, graph, last, unused, m, r) ==
  \E order \in SortedOrders(KeysOf(graph), last) :
    LET result == EliminateMultifrontal(graph, order, updates + 1)
        renewal == UNION {ToSet(result.clique[c].frontals) : c \in DOMAIN result.clique}
    IN  /\ Rebuilt(top, removed, result.clique, result.roots)
        /\ mask' = m \ unused
        /\ renewed' = (r \cup renewal) \ unused

\* recalculateBatch
RecalculateBatch(u, fs, lin, th, observed, unused, m, r) ==
  LET slots == SelectSeq([s \in DOMAIN fs |-> s], LAMBDA s : fs[s].keys # {})
      keys  == KeysOf(fs) \ unused
      all   == [s \in DOMAIN fs |-> Linearized(fs[s], th)]
  IN  /\ linear' = IF setup.cache THEN all ELSE lin
      /\ NewCliques([parent |-> Empty, children |-> Empty, roots |-> {}, nodes |-> Empty,
                     orphans |-> {}], Cliques,
                    [i \in DOMAIN slots |-> AsLinear(fs[slots[i]].keys, all[slots[i]])],
                    ComeLast(u, observed), unused, m \cup keys, r)

\* recalculateIncremental
RecalculateTop(u, fs, lin, th, relin, marked, observed, unused, m, r, top, affected) ==
  LET slots    == Inside(fs, affected \cup observed)
      contents == [s \in DOMAIN fs |->
                     IF s \in DOMAIN lin /\ Reused(fs[s], lin[s], relin) THEN lin[s]
                     ELSE Linearized(fs[s], th)]
  IN  /\ linear' = IF setup.cache THEN Relinearized(fs, lin, th, relin, slots) ELSE lin
      /\ NewCliques(top, ToSet(top.bn), TopGraph(fs, contents, slots, SetToSeq(top.orphans)),
                    (ComeLast(u, observed) \cap (marked \cup affected)) \ unused,
                    unused, m \cup Replaced(affected, marked), r)

\* A batch step when 65 % of the variables are affected.
Recalculate(u, fs, lin, th, relin, marked, observed, unused, m, r, top) ==
  LET affected == UNION {Frontals(c) : c \in ToSet(top.bn)} IN
  IF 20 * Cardinality(affected) >= 13 * Cardinality(DOMAIN th)
  THEN RecalculateBatch(u, fs, lin, th, observed, unused, m, r)
  ELSE RecalculateTop(u, fs, lin, th, relin, marked, observed, unused, m, r, top, affected)
-----------------------------------------------------------------------------
(* update *)

\* linearizeNewFactors: with slots looked for, in those; or else at the end.
LinearWith(lin, fs, new, slots, th) ==
  LET contents == [i \in DOMAIN new |-> Linearized(new[i], th)]
  IN  IF setup.reuse
      THEN [s \in DOMAIN fs |-> IF s \in ToSet(slots) THEN contents[CHOOSE i \in DOMAIN slots : slots[i] = s]
                                ELSE IF s \in DOMAIN lin THEN lin[s] ELSE One]
      ELSE lin \o contents

\* From the marked variables on. delta_ is computed before it is compared.
UpdateMarked(u, new, slots, fs, involved, unused, relin) ==
  LET fluid    == IF relin = {} THEN {} ELSE Fluid(relin)
      marked   == involved \cup relin \cup fluid \cup (IF u.reorder THEN KeysOf(fs) ELSE {})
      th       == [j \in DOMAIN theta \cup u.values |->
                     (IF j \in DOMAIN theta THEN theta[j] ELSE 0) + (IF j \in relin THEN 1 ELSE 0)]
      lin      == LinearWith(IF setup.cache THEN Emptied(linear, u.remove, One) ELSE linear,
                             fs, new, slots, th)
      m        == IF u.relinearize THEN {} ELSE mask
      r        == IF u.relinearize THEN {} ELSE renewed
  IN  /\ factors' = fs
      /\ theta' = Without(th, unused) /\ fixed' = fixed \ unused
      /\ IF marked = {}
         THEN linear' = lin /\ mask' = m /\ renewed' = r /\ UNCHANGED tree
         ELSE Recalculate(u, fs, lin, th, relin, marked, involved \ unused, unused, m, r, Top(marked))

\* pushBackFactors: the new factors are added before others are removed.
\* computeUnusedKeys: the variables that are left without a factor.
Update(u) ==
  LET new     == [i \in DOMAIN u.factors |-> NewFactor(u.factors[i], i)]
      slots   == FreeSlots(factors, Len(new))
      fs      == Emptied(Placed(factors, slots, new, Gap), u.remove, Gap)
      touched == UNION {factors[s].keys : s \in u.remove}
      unused  == {j \in touched : Involved(fs, {j}) = {}}
  IN  /\ UpdateMarked(u, new, slots, fs, UNION ToSet(u.factors) \cup touched \cup u.extra, unused,
                      IF u.relinearize THEN RelinKeys(u) ELSE {})
      /\ updates' = updates + 1
      /\ UNCHANGED setup
-----------------------------------------------------------------------------
(* marginalizeLeaves *)

FrontOf(c, cliques) == Head(cliques[c].frontals)

\* The clique whose removal or split also takes care of c.
Climb(t, c, leaves) ==
  LET Up[n \in Nat, d \in DOMAIN t.clique] ==
        IF n = 0 \/ t.parent[d] = None \/ t.clique[d].parents \cap leaves = {} THEN d
        ELSE IF FrontOf(t.parent[d], t.clique) \notin leaves THEN d ELSE Up[n - 1, t.parent[d]]
  IN  Up[Cardinality(DOMAIN t.clique), c]

\* marginalFactors[front].push_back
Posted(t, front, m) ==
  IF m.keys = {} THEN t
  ELSE [t EXCEPT !.marginals =
          (front :> Append(IF front \in DOMAIN @ THEN @[front] ELSE <<>>, m)) @@ @]

\* trackingRemoveSubtree
Summarized(t, c, leaves) ==
  LET gone == BelowIn(t.parent, c)
      keys == UNION {ToSet(t.clique[d].frontals) : d \in gone}
  IN  [Pruned(t, c) EXCEPT
         !.marginals = Without(@, {FrontOf(d, t.clique) : d \in gone}),
         !.gone      = @ \cup keys,
         !.slots     = @ \cup Involved(factors, keys),
         !.fits      = @ /\ keys \subseteq leaves]

\* The whole clique: what it passed to its parent stays.
WholeClique(t, c, leaves) ==
  LET p == t.parent[c]
      m == [keys |-> t.clique[c].parents, name |-> c]
  IN  Summarized(IF p = None THEN t ELSE Posted(t, FrontOf(p, t.clique), m), c, leaves)

\* Part of a clique: its leaves are eliminated from their factors and from what the
\* children passed that depend on them.
\* MUTANT: the factors of removed children are eliminated once more.
FaultyOwnFactors(front, below) == Involved(factors, front)
OwnFactors(front, below) == Involved(factors, front) \ Involved(factors, below)

Split(t, c, leaves, own, kids) ==
  LET frontals == t.clique[c].frontals
      drop     == ToSet(frontals) \cap leaves
      lead     == Max({n \in 0 .. Len(frontals) : \A i \in 1 .. n : frontals[i] \in leaves})
      keys     == (UNION {factors[s].keys : s \in own} \cup UNION {clique[d].parents : d \in kids}) \ drop
      m        == [keys |-> keys, name |-> <<updates + 1, Head(frontals)>>]
      graph    == Times(ProductOver(own, LAMBDA s : Linearized(factors[s], theta)),
                        ProductOver(kids, LAMBDA d : Of(d)))
      cut      == Over(graph, IF keys = {} THEN One ELSE Of(m.name))
  IN  [Posted(t, Head(frontals), m) EXCEPT
         !.clique[c] = [frontals |-> SubSeq(frontals, lead + 1, Len(frontals)),
                        parents  |-> @.parents, content |-> Over(@.content, cut)],
         !.gone      = @ \cup drop,
         !.slots     = @ \cup Involved(factors, drop),
         !.fits      = @ /\ drop = ToSet(SubSeq(frontals, 1, lead))]

PartOfClique(t, c, leaves) ==
  LET kids  == {d \in t.children[c] : t.clique[d].parents \cap leaves # {}}
      below == UNION {ToSet(t.clique[d].frontals) : d \in UNION {BelowIn(t.parent, k) : k \in kids}}
      own   == OwnFactors(ToSet(t.clique[c].frontals) \cap leaves, below)
  IN  Split(FoldLeft(LAMBDA s, d : Summarized(s, d, leaves), t, SetToSeq(kids)), c, leaves, own, kids)

Cut(t, c, leaves) ==
  IF ToSet(t.clique[c].frontals) \subseteq leaves THEN WholeClique(t, c, leaves)
  ELSE PartOfClique(t, c, leaves)

\* The tree without the leaves, the slots of the factors that go and the marginals
\* that come; fits if all that goes was asked for and asked for in the right order.
Marginalized(leaves) ==
  FoldLeft(LAMBDA t, j : IF j \in t.gone THEN t ELSE Cut(t, Climb(t, t.nodes[j], leaves), leaves),
           [clique |-> clique, parent |-> parent, children |-> children, roots |-> roots,
            nodes |-> nodes, gone |-> {}, slots |-> {}, marginals |-> Empty, fits |-> TRUE],
           Ascending(leaves))

\* MUTANT: the variables of the marginals may be relinearized.
FaultyFixedWith(new) == fixed
FixedWith(new) == fixed \cup KeysOf(new)

Marginalize(leaves, t) ==
  LET order == Ascending(DOMAIN t.marginals)
      new   == FlattenSeq([i \in DOMAIN order |-> t.marginals[order[i]]])
      fs    == Emptied(factors, t.slots, Gap)
      slots == FreeSlots(fs, Len(new))
  IN  /\ factors' = Placed(fs, slots, [i \in DOMAIN new |-> [keys |-> new[i].keys, name |-> new[i].name,
                                                             at |-> At(theta, new[i].keys)]], Gap)
      /\ linear' = IF setup.cache
                   THEN Placed(Emptied(linear, t.slots, One), slots,
                               [i \in DOMAIN new |-> Of(new[i].name)], One)
                   ELSE linear
      /\ clique' = t.clique /\ parent' = t.parent /\ children' = t.children /\ roots' = t.roots
      /\ nodes' = Without(t.nodes, leaves)
      /\ cached' = Without(cached, Cliques \ DOMAIN t.clique)
      /\ theta' = Without(theta, leaves)
      /\ fixed' = FixedWith(new) \ leaves
      /\ mask' = mask \ leaves /\ renewed' = renewed \ leaves
      /\ updates' = updates + 1
      /\ UNCHANGED setup

MarginalizeLeaves(leaves) == Marginalize(leaves, Marginalized(leaves))
-----------------------------------------------------------------------------
\* getDelta, calculateEstimate
Estimate ==
  /\ mask # {}
  /\ mask' = {} /\ renewed' = {}
  /\ UNCHANGED <<setup, tree, updates, factors, linear, theta, fixed>>

\* An update with one batch of the setup, and at most one of the other things: a
\* factor removed, a variable kept or marked in addition, a new order.
Batches == {b \in setup.batches : b.values \cap DOMAIN theta = {}
                                 /\ UNION ToSet(b.factors) \subseteq DOMAIN theta \cup b.values}
Plain ==
  {[factors |-> b.factors, values |-> b.values, remove |-> {}, extra |-> {}, keep |-> {},
    large |-> large, relinearize |-> large # {}, reorder |-> FALSE, last |-> None] :
     b \in Batches, large \in {{}} \cup {S \in setup.large : S \subseteq DOMAIN theta}}

Asked(what, S) == IF what \in setup.asks THEN {{x} : x \in S} ELSE {}
Removable == Asked("remove", {s \in DOMAIN factors : factors[s].keys # {}})
Calls ==
  Plain \cup {[u EXCEPT !.remove = S] : u \in Plain, S \in Removable}
        \cup {[u EXCEPT !.keep = S]   : u \in Plain, S \in Asked("keep", DOMAIN theta)}
        \cup {[u EXCEPT !.extra = S]  : u \in Plain, S \in Asked("extra", DOMAIN nodes)}
        \cup {[u EXCEPT !.reorder = TRUE] : u \in {x \in Plain : "reorder" \in setup.asks /\ roots # {}}}

UpdateSome == updates < setup.bound /\ \E u \in Calls : Update(u)

MarginalizeSome ==
  /\ updates < setup.bound
  /\ \E leaves \in setup.leaves :
       /\ leaves \subseteq DOMAIN nodes /\ Marginalized(leaves).fits
       /\ MarginalizeLeaves(leaves)

Next == UpdateSome \/ MarginalizeSome \/ Estimate

Spec == Init /\ [][Next]_vars
-----------------------------------------------------------------------------
(* Properties *)

TypeOK ==
  /\ TreeTypeOK
  /\ \A s \in DOMAIN factors : factors[s].keys \subseteq DOMAIN theta
  /\ fixed \cup mask \cup renewed \subseteq DOMAIN theta
  /\ theta \in [DOMAIN theta -> Nat]

\* The tree is one, and factors, corrections and fixed variables have values.
StateIsSound == TypeOK /\ TreeIsSound

\* The tree is the elimination of the factors there are, each linearized at the
\* current linearization point: whatever was cached, reused, marginalized or left
\* alone, nothing is missing, stale or counted twice.
Conditionals == ProductOver(Cliques, LAMBDA c : clique[c].content)
Linearizations == Product([s \in DOMAIN factors |-> Linearized(factors[s], theta)])
TreeFollowsFactors ==
  /\ Conditionals = Linearizations
  /\ DOMAIN nodes = KeysOf(factors)

\* A linear factor that may be reused is the linearization of the factor in its slot.
LinearFactorsAreFresh ==
  setup.cache =>
    /\ Len(linear) = Len(factors)
    /\ \A s \in DOMAIN factors : linear[s] = Linearized(factors[s], theta)

\* A marginal is only right where it was linearized: its variables do not move.
MarginalsStayPut ==
  \A s \in DOMAIN factors : factors[s].at # Empty =>
    factors[s].keys \subseteq fixed /\ factors[s].at = At(theta, factors[s].keys)

\* optimizeWildfire goes down while it meets replaced cliques or changed variables;
\* changed are the cliques of X, and those it takes for replaced.
Visited(X) ==
  LET V[c \in Cliques] ==
        /\ parent[c] # None => V[parent[c]]
        /\ \/ Head(clique[c].frontals) \in mask
           \/ \E d \in ToSet(Tail(PathUp(c, parent))) :
                /\ V[d] /\ (d \in X \/ Head(clique[d].frontals) \in mask)
                /\ Frontals(d) \cap clique[c].parents # {}
  IN  {c \in Cliques : V[c]}

\* It reaches every clique that was eliminated again since, and every one whose
\* solution changes because one that it is conditioned on did.
EstimateReachesAll ==
  \A X \in SUBSET Cliques :
    (\A c \in X : \/ Frontals(c) \cap renewed # {}
                  \/ \E d \in X : Frontals(d) \cap clique[c].parents # {})
      => X \subseteq Visited(X)
=============================================================================
