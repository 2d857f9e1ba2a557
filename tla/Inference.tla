------------------------------- MODULE Inference -------------------------------
(***************************************************************************)
(* From a factor graph to a Bayes tree that is updated (gtsam/inference):  *)
(* a graph changes with its index, is eliminated as a whole, and           *)
(* ISAM(bayesTree) takes the result, whose marginals are asked for and     *)
(* which is updated by more factors.                                       *)
(***************************************************************************)
EXTENDS JointMarginals

\* The setups of ISAM have a setup of the graph (graph): without batches the tree
\* starts empty.
VARIABLES graph, index, nFactors, nEntries

Kept == INSTANCE GraphElimination WITH Setups <- {s.graph : s \in Setups}, setup <- setup.graph

ASSUME GraphAssumption == Kept!Assumptions

graphVars == <<graph, index, nFactors, nEntries>>
FromGraph == setup.graph.batches # {}

InferenceInit == Init /\ graph = <<>> /\ index = <<>> /\ nFactors = 0 /\ nEntries = 0

GraphStep == FromGraph /\ updates = 0 /\ UNCHANGED vars /\ Kept!Next

\* eliminateMultifrontal of the graph, and the constructor of ISAM from the result.
Batch ==
  /\ FromGraph /\ updates < setup.bound /\ updates = 0 /\ graph # <<>>
  /\ LET B == Kept!BayesTree
     IN  Rebuilt([parent |-> Empty, children |-> Empty, roots |-> {}, nodes |-> Empty, orphans |-> {}],
                 {}, B.clique, B.roots)
  /\ added' = Product([i \in DOMAIN graph |-> Kept!FactorGraph[i].content])
  /\ updates' = 1
  /\ UNCHANGED <<setup, graphVars>>

TreeStep == (FromGraph => updates > 0) /\ (Next \/ JointMarginal) /\ UNCHANGED graphVars

InferenceNext == GraphStep \/ Batch \/ TreeStep

InferenceSpec == InferenceInit /\ [][InferenceNext]_<<vars, graphVars>>
-----------------------------------------------------------------------------
(* Properties of the graph and its elimination; see VariableIndex and               *)
(* GraphElimination.                                                                *)

\* The index of the factors is exact after any changes (VariableIndex.h:64-71).
VariableIndexIsExact == updates = 0 => Kept!IndexIsExact

\* Factors keep their slots (VariableIndex.h:141).
SlotsAreStable == Kept!SlotsAreStable

\* The cliques are the maximal cliques of the filled graph (JunctionTree-inst.h:68-75).
CliquesAreMaximal == updates = 0 => Kept!CliquesAreMaximal

\* Frontal variables, separators and parents follow the order of elimination
\* (ClusterTree-inst.h:284-345).
TreeFollowsOrder == updates = 0 => Kept!TreeFollowsOrder

\* No factor or message is lost or used twice in an elimination
\* (ClusterTree-inst.h:318-345).
EliminationKeepsProduct == updates = 0 => Kept!ProductIsKept
=============================================================================
