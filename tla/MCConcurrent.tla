----------------------------- MODULE MCConcurrent -----------------------------
(* A small instance of Concurrent. *)
EXTENDS Concurrent

Request(values, fs, move) == [values |-> values, factors |-> fs, move |-> move]

\* A chain, with closures over one variable, and a window that moves on with new
\* variables or without.
Begins == {Request({1, 2, 3}, <<{1}, {1, 2}, {2, 3}>>, move) : move \in {{}, {1}, {1, 2}}}
Grows  == {Request({4}, <<{3, 4}>>, move) : move \in {{}, {1}, {2}, {1, 2}}}
Closes == {Request({5}, <<{3, 5}, {4, 5}>>, move) : move \in {{}, {2}, {3}}}
Moves  == {Request({}, <<>>, move) : move \in {{1}, {2, 3}}}

MCRequests == Begins \cup Grows \cup Closes \cup Moves
MCLoops    == {{1, 2}}
=============================================================================
