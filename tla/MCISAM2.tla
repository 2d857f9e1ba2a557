-------------------------------- MODULE MCISAM2 --------------------------------
(* Small setups for ISAM2 and FixedLag. *)
EXTENDS FixedLag

Batch(values, fs) == [factors |-> fs, values |-> values]
Call(values, fs, times, retain, release) ==
  [values |-> values, factors |-> fs, times |-> times, retain |-> retain, release |-> release]

Setup == [batches |-> {}, large |-> {}, leaves |-> {}, asks |-> {}, calls |-> {},
          cache |-> TRUE, reuse |-> TRUE, partial |-> FALSE, bound |-> 4]

\* ISAM2 alone: a chain of three variables, then closures and extensions.
Chain == Batch({1, 2, 3}, <<{1}, {1, 2}, {2, 3}>>)
Grown ==
  {Chain, Batch({4}, <<{3, 4}>>), Batch({4, 5}, <<{3, 4}, {4, 5}>>), Batch({}, <<{1, 3}>>),
   Batch({5}, <<{2, 5}>>)}

Alone ==
  {[Setup EXCEPT !.batches = Grown, !.large = {{1}, {2, 3}}, !.leaves = {{1}, {2}, {1, 2}},
                 !.cache = cache] : cache \in BOOLEAN}
  \cup
  \* Factors removed, variables kept, marked in addition, or ordered anew.
  {[Setup EXCEPT !.batches = {Chain, Batch({4}, <<{3, 4}>>), Batch({}, <<>>)}, !.large = {{2, 3}},
                 !.leaves = {{1}}, !.asks = {"remove", "keep", "extra", "reorder"}, !.reuse = reuse,
                 !.bound = 3] : reuse \in BOOLEAN}
  \cup
  {[Setup EXCEPT !.batches = {Chain, Batch({4, 5}, <<{3, 4}, {4, 5}>>), Batch({}, <<>>)},
                 !.large = {{1}, {3}, {2, 4}, {4, 5}}, !.partial = TRUE]}

\* A smoother: the window moves over a chain with closures and a variable that is seen
\* again.
Start   == Call({1, 2}, <<{1}, {1, 2}>>, 1 :> 1 @@ 2 :> 2, {}, {})
Third   == Call({3}, <<{2, 3}>>, 3 :> 3, {}, {})
Window ==
  {Start, Third, Call({3}, <<{1, 3}, {2, 3}>>, 3 :> 3, {}, {}),
   Call({4}, <<{3, 4}>>, 4 :> 4, {}, {}), Call({4}, <<{1, 4}>>, 1 :> 4 @@ 4 :> 4, {}, {}),
   Call({5}, <<{4, 5}, {3, 5}>>, 5 :> 5, {}, {})}

\* A variable whose factor is late or does not come, and one that is retained for a
\* while.
Late ==
  {Start, Third, Call({4}, <<{2, 4}>>, 4 :> 4, {}, {}), Call({5}, <<{4, 5}>>, 5 :> 5, {}, {}),
   Call({6}, <<>>, 6 :> 2, {}, {}), Call({}, <<{3, 6}>>, Empty, {}, {}),
   Call({}, <<>>, Empty, {1}, {}), Call({}, <<>>, Empty, {}, {1})}

\* Factors are removed, which may leave a variable without any: one that expires in the
\* same call, one that is retained, or one that has a timestamp ahead.
Removing ==
  {Start, Third, Call({4}, <<{3, 4}>>, 4 :> 4, {}, {}), Call({5}, <<{3, 5}>>, 5 :> 5, {1}, {}),
   Call({}, <<>>, Empty, {}, {1})}

Smoothers ==
  {[Setup EXCEPT !.calls = Window, !.large = {{2, 3}}, !.bound = 7],
   [Setup EXCEPT !.calls = Late, !.bound = 7],
   [Setup EXCEPT !.calls = Removing, !.asks = {"remove"}, !.bound = 6]}

MCSetups == Alone \cup Smoothers
=============================================================================
