-------------------------- MODULE MCForestTraversal --------------------------
(* ForestTraversal alone on the small forests. *)
EXTENDS ForestTraversal, MCForests

CONSTANTS w1, w2, caller, none
=============================================================================
