----------------------------- MODULE TreeTraversal -----------------------------
(***************************************************************************)
(* The serial traversals of gtsam/base/treeTraversal-inst.h:               *)
(* DepthFirstForest with its explicit stack and list of node data, the     *)
(* recursion of PostOrderForest, and CloneForest, whose pre-order visitor  *)
(* puts a copy of a node under the copy of its parent.                     *)
(***************************************************************************)
EXTENDS Integers, Sequences, FiniteSets, SequencesExt

CONSTANTS Nodes,    \* the nodes of the forest
          Forests,  \* the forests to consider, functions from Nodes and Root to Seq(Nodes)
          Root      \* not a node: stands for rootData, and for rootContainer in CloneForest

VARIABLES
  kids,    \* the children of each node, and of Root the roots
  stack,   \* the nodes to process, each with the node whose data it is given
  data,    \* the nodes whose data is in dataList
  pre,     \* the nodes for which visitorPre was called, in order
  post,    \* the same for visitorPost
  returned,
  clone    \* the children of the clones

vars == <<kids, stack, data, pre, post, clone, returned>>

\* PostOrderForest
PostOrder(n) ==
  LET visit[m \in Nodes \cup {Root}] ==
        FlattenSeq([i \in DOMAIN kids[m] |-> visit[kids[m][i]]])
          \o (IF m = Root THEN <<>> ELSE <<m>>)
  IN  visit[n]

Item(n, parent) == [node |-> n, parent |-> parent, expanded |-> FALSE]
\* MUTANT: the children are put in front one by one.
FaultyItems(n) == Reverse([i \in DOMAIN kids[n] |-> Item(kids[n][i], n)])
Items(n) == [i \in DOMAIN kids[n] |-> Item(kids[n][i], n)]

Init ==
  /\ kids \in Forests
  /\ stack = Items(Root)
  /\ data = {}
  /\ pre = <<>>
  /\ post = <<>>
  /\ returned = FALSE
  /\ clone = [n \in Nodes \cup {Root} |-> <<>>]

\* Where the children of the expanded node go.
\* MUTANT: behind it.
FaultyPush(items) == <<[Head(stack) EXCEPT !.expanded = TRUE]>> \o items \o Tail(stack)
Push(items) == items \o <<[Head(stack) EXCEPT !.expanded = TRUE]>> \o Tail(stack)

\* CloneForestVisitorPre: a copy of n is the last child of the copy of its parent.
CloneNode(n, parent) == clone' = [clone EXCEPT ![parent] = Append(@, n)]

\* visitorPre for the front node
Expand ==
  /\ stack # <<>> /\ ~Head(stack).expanded
  /\ LET n == Head(stack).node IN
     /\ pre' = Append(pre, n)
     /\ CloneNode(n, Head(stack).parent)
     /\ data' = data \cup {n}
     /\ stack' = Push(Items(n))
  /\ UNCHANGED <<kids, post, returned>>

\* visitorPost for the front node, whose data is then erased
Finish ==
  /\ stack # <<>> /\ Head(stack).expanded
  /\ LET n == Head(stack).node IN
     /\ post' = Append(post, n)
     /\ data' = data \ {n}
     /\ stack' = Tail(stack)
  /\ UNCHANGED <<kids, pre, clone, returned>>

Return ==
  /\ stack = <<>>
  /\ returned' = TRUE
  /\ UNCHANGED <<kids, stack, data, pre, post, clone>>

Next == Expand \/ Finish \/ Return
Spec == Init /\ [][Next]_vars /\ WF_vars(Next)
-----------------------------------------------------------------------------
\* No node is on the stack twice or visited twice.
TypeOK ==
  /\ \A i, j \in DOMAIN stack : stack[i].node = stack[j].node => i = j
  /\ stack \in Seq([node : Nodes, parent : Nodes \cup {Root}, expanded : BOOLEAN])
  /\ data \subseteq Nodes
  /\ pre \in Seq(Nodes) /\ post \in Seq(Nodes)
  /\ IsInjective(pre) /\ IsInjective(post)
  /\ returned \in BOOLEAN
  /\ clone \in [Nodes \cup {Root} -> Seq(Nodes)]

\* The references to parentData and dataPointer on the stack are to data that is
\* still in dataList.
DataIsAlive ==
  \A i \in DOMAIN stack :
    /\ stack[i].parent \in data \cup {Root}
    /\ stack[i].expanded => stack[i].node \in data

\* dataList is empty at the end (treeTraversal-inst.h:119), the post-order visits
\* are in the order of PostOrderForest, and the clone is a copy of the forest.
EndState == returned => data = {} /\ post = PostOrder(Root) /\ clone = kids

Parents(n) == {p \in Nodes : n \in ToSet(kids[p])}
\* What comes before a visit.
Before(v) ==
  IF v[1] = "pre" THEN {"pre"} \X Parents(v[2])
  ELSE {<<"pre", v[2]>>} \cup ({"post"} \X ToSet(kids[v[2]]))
=============================================================================
