----------------------------- MODULE MCTraversals -----------------------------
(* Small forests for Traversals. *)
EXTENDS Traversals, TLC

CONSTANTS t1, t2, w1, w2, caller, r, p, x, y, z, none

OnPool == INSTANCE MCForests
AllRuns == OnPool!TwoFailures

Size == 1 :> 3 @@ 2 :> 2 @@ 3 :> 1 @@ 4 :> 1 @@ 5 :> 1

Case(roots, kidsOf, mode, threshold, budget, throws) ==
  [roots |-> roots, size |-> Size, mode |-> mode, threshold |-> threshold, budget |-> budget,
   kids |-> [n \in TreeNodes |-> IF n \in DOMAIN kidsOf THEN kidsOf[n] ELSE <<>>], throws |-> throws]

Tree(mode, threshold, budget, throws) ==
  Case(<<1>>, 1 :> <<3, 4, 2>> @@ 2 :> <<5>>, mode, threshold, budget, throws)
Grove(mode, threshold, budget, throws) ==
  Case(<<2, 1>>, 1 :> <<3, 4>> @@ 2 :> <<5>>, mode, threshold, budget, throws)

\* Tasks for all nodes, for the children of 1 alone, and for no more than the
\* roots; batches of two leaves and of one.
Shapes(throws) ==
  {Tree("prePost", 0, 0, throws), Tree("prePost", 3, 0, throws), Grove("prePost", 0, 0, throws),
   Tree("post", 0, 0, throws), Tree("post", 3, 2, throws), Grove("post", 9, 1, throws)}
AllTaskRuns == Shapes({<<"post", 3>>, <<"post", 5>>}) \cup Shapes({<<"pre", 2>>, <<"post", 4>>})

\* All ordered forests on TreeNodes: each node but Root has a parent with a smaller
\* number, and the children of a node are in the order of their numbers.
AllForests ==
  {[m \in TreeNodes \cup {0} |-> SetToSortSeq({n \in TreeNodes : parent[n] = m}, <)] :
     parent \in {f \in [TreeNodes -> 0 .. 4] : \A n \in TreeNodes : f[n] < n}}
=============================================================================
