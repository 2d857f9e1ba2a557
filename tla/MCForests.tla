------------------------------ MODULE MCForests ------------------------------
(* Small forests for ForestTraversal. *)
EXTENDS Integers, Sequences, TLC

CONSTANTS r, p, x, y, z

Members == {r, p, x, y, z}
Size == r :> 3 @@ p :> 2 @@ x :> 1 @@ y :> 1 @@ z :> 1

Traversal(roots, kids, mode, threshold, budget, throws) ==
  [roots |-> roots, size |-> Size, mode |-> mode, threshold |-> threshold, budget |-> budget,
   kids |-> [n \in Members |-> IF n \in DOMAIN kids THEN kids[n] ELSE <<>>], throws |-> throws]

\* One tree of three levels whose root has two adjacent leaves, and two trees.
Tree(mode, threshold, budget, throws) ==
  Traversal(<<r>>, r :> <<x, y, p>> @@ p :> <<z>>, mode, threshold, budget, throws)
Grove(mode, threshold, budget, throws) ==
  Traversal(<<p, r>>, r :> <<x, y>> @@ p :> <<z>>, mode, threshold, budget, throws)

\* Everything scheduled, the larger nodes only, and nothing; batches of two.
BottomUps(throws) ==
  {Tree("bottomUp", 0, 0, throws), Tree("bottomUp", 2, 2, throws),
   Tree("bottomUp", 9, 0, throws), Grove("bottomUp", 2, 1, throws)}
TopDowns(throws) ==
  {Tree("topDown", 0, 0, throws), Tree("topDown", 2, 0, throws), Grove("topDown", 9, 0, throws)}

OneFailure  == UNION {BottomUps({n}) \cup TopDowns({n}) : n \in {x, p, z}}
TwoFailures == OneFailure \cup TopDowns({x, p})
Peaceful    == BottomUps({})
AnyOutcome  == OneFailure \cup Peaceful
Concurrent  == {Tree("bottomUp", 0, 0, {x, z})}
=============================================================================
