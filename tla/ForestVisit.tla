------------------------------ MODULE ForestVisit ------------------------------
(***************************************************************************)
(* What a traversal of a forest promises its caller, however it is carried *)
(* out: every node is visited once, after the nodes it depends on, and the *)
(* call returns when all were visited, or raises the exception of a node   *)
(* whose visitor failed (the comments of gtsam/base/ForestTraversal.h and  *)
(* gtsam/base/treeTraversal-inst.h).  What may be overlooked weakens it:   *)
(* those in overlooks may go on as if a failure had not happened.          *)
(***************************************************************************)
CONSTANT Nodes

VARIABLES overlooks, \* of "visitor", "caller" those to whom a failure may stay unknown
          before,    \* for each node to visit those that must be visited before
          visited,   \* the nodes visited with success
          failed,    \* the nodes whose visitor threw
          result     \* <<"running">>, <<"value">>, or <<"raised", n>> with the exception of n

vars == <<overlooks, before, visited, failed, result>>

Init ==
  /\ overlooks \subseteq {"visitor", "caller"}
  /\ DOMAIN before \subseteq Nodes
  /\ \A n \in DOMAIN before : before[n] \subseteq DOMAIN before
  /\ visited = {}
  /\ failed = {}
  /\ result = <<"running">>

\* A node failed, and who need not know it.
Unknown(who) == failed # {} /\ who \in overlooks

Enter(n) ==
  /\ result = <<"running">>
  /\ n \in DOMAIN before \ (visited \cup failed)
  /\ before[n] \subseteq visited \/ Unknown("visitor")

Visit(n) == Enter(n) /\ visited' = visited \cup {n} /\ UNCHANGED <<overlooks, before, failed, result>>
Fail(n)  == Enter(n) /\ failed' = failed \cup {n} /\ UNCHANGED <<overlooks, before, visited, result>>

Return ==
  /\ result = <<"running">>
  /\ visited = DOMAIN before \/ Unknown("caller")
  /\ result' = <<"value">>
  /\ UNCHANGED <<overlooks, before, visited, failed>>

Raise(n) ==
  /\ result = <<"running">> /\ n \in failed
  /\ result' = <<"raised", n>>
  /\ UNCHANGED <<overlooks, before, visited, failed>>

Next == Return \/ \E n \in Nodes : Visit(n) \/ Fail(n) \/ Raise(n)

Spec == Init /\ [][Next]_vars /\ WF_vars(Next)
=============================================================================
