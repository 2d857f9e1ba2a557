------------------------------ MODULE MCInference ------------------------------
(* Small setups for Inference: of the graph, and of the tree. *)
EXTENDS Inference

Graph(reuse, batches, removed, slots) ==
  [reuse |-> reuse, batches |-> batches, removed |-> removed, slots |-> slots]
NoGraph == Graph(TRUE, {}, 0, 0)

\* Up to three factors at once on three variables, with null ones among them.
Few == {<<{1}>>, <<{1, 2}>>, <<{2, 3}>>, <<{1, 2}, {}, {2, 3}>>, <<{}, {1}>>, <<{1}, {}>>,
        <<{2, 3}, {1, 2}>>}
\* One factor on two or three of five variables.
Many == {<<f>> : f \in {s \in SUBSET (1 .. 5) : Cardinality(s) = 2} \cup {{1, 3, 5}}}

\* Graphs whose every elimination is looked at, and graphs that a tree starts from.
Eliminations ==
  {[batches |-> {}, calls |-> {}, bound |-> 0, graph |-> g] :
     g \in {Graph(TRUE, Few, 2, 3), Graph(FALSE, Few, 2, 4), Graph(FALSE, Many, 0, 4)}}
Starts ==
  {[batches |-> {<<{1, 4}>>, <<{2}, {5}>>, <<{3, 6}>>}, calls |-> {"marginal", "subtree"}, bound |-> 2,
    graph |-> Graph(FALSE, {<<{1, 2}, {2, 3}>>, <<{2, 4}>>, <<{3, 4, 5}>>}, 0, 5)]}

\* Chains, loops and pairs of trees on five variables, one to three factors at a time;
\* and fewer, with the other calls.
Trees ==
  {[batches |-> {<<{1}, {1, 2}, {2, 3}>>, <<{3, 4}, {4, 5}>>, <<{1, 4}>>, <<{2}, {5}>>, <<{2, 4}>>,
                 <<{2, 5}>>, <<{1, 3, 5}>>},
    calls |-> {}, bound |-> 3, graph |-> NoGraph],
   [batches |-> {<<{1, 2}, {2, 3}>>, <<{3, 4}>>, <<{1}, {4}>>},
    calls |-> {"marginal", "forget", "subtree", "clear"}, bound |-> 3, graph |-> NoGraph]}

MCSetups == Eliminations \cup Starts \cup Trees
=============================================================================
