------------------------- MODULE MCSeparatorMarginals -------------------------
(* Small Bayes trees for SeparatorMarginals: r is above p and q, and p above x; *)
(* s is alone.                                                                  *)
EXTENDS SeparatorMarginals, TLC
CONSTANTS r, p, q, x, s
Tree == r :> None @@ p :> r @@ q :> r @@ x :> p @@ s :> None
=============================================================================
