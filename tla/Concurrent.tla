------------------------------ MODULE Concurrent ------------------------------
(***************************************************************************)
(* A concurrent filter and smoother (gtsam_unstable/nonlinear:             *)
(* ConcurrentFilteringAndSmoothing, ConcurrentBatchFilter,                 *)
(* ConcurrentBatchSmoother). The filter has the recent variables, the      *)
(* smoother those it moved out; each knows of the other's factors only by  *)
(* a summary on the separator between them. Both are updated on their own, *)
(* and synchronize exchanges what was moved and the summaries.             *)
(*                                                                         *)
(* A summary is marginal factors: each stands for the factors it was       *)
(* computed from (its content, as in Elimination) and holds for the        *)
(* linearization point of its keys (at). A value is known by the number of *)
(* steps that may have changed it.                                         *)
(***************************************************************************)
EXTENDS Elimination

CONSTANTS
  Requests,  \* what an update of the filter may bring: new values and factors, and the keys
             \* to move to the smoother (move)
  Loops,     \* the keys of factors an update of the smoother may bring
  MaxSteps   \* bound on the number of steps

ASSUME RequestAssumption ==
  \A r \in Requests : r.values \subseteq UNION ToSet(r.factors) /\ {} \notin ToSet(r.factors)

VARIABLES
  filter,    \* its members, see Init
  smoother,
  steps,
  since,     \* history: who was updated since the last synchronization
  held,      \* history: the factors added and not removed
  news       \* history: of these, those of the smoother that the filter cannot know of

vars == <<filter, smoother, steps, since, held, news>>

Empty == [k \in {} |-> 0]

\* factors_, availableSlots_, theta_, separatorValues_ and the slots of the summary of
\* the other.
Nobody == [factors |-> <<>>, available |-> <<>>, theta |-> Empty, separator |-> Empty, slots |-> <<>>,
           summary |-> <<>>]

\* summary is smootherSummarization_, with the filter as the smoother sent it and
\* brought to the separator; own is filterSummarization_, shortcut smootherShortcut_,
\* moved and values smootherFactors_ and smootherValues_.
Init ==
  /\ filter = [own |-> <<>>, shortcut |-> <<>>, moved |-> <<>>, values |-> Empty] @@ Nobody
  /\ smoother = Nobody
  /\ steps = 0 /\ since = {} /\ held = One /\ news = One
-----------------------------------------------------------------------------
(* Factors in slots *)

Gap == [keys |-> {}, content |-> One, at |-> Empty]
NewFactor(keys, i) == [keys |-> keys, content |-> Of(<<steps + 1, i>>), at |-> Empty]
NewFactors(keySets) == [i \in DOMAIN keySets |-> NewFactor(keySets[i], i)]
Contents(fs) == Product([i \in DOMAIN fs |-> fs[i].content])

At(th, keys) == [k \in keys |-> th[k]]
Without(f, S) == [k \in DOMAIN f \ S |-> f[k]]

\* insertFactors: the available slots first.
SlotsFor(h, n) ==
  LET m == Len(h.available)
  IN  [i \in 1 .. n |-> IF i <= m THEN h.available[i] ELSE Len(h.factors) + i - m]
Inserted(h, fs) ==
  LET slots == SlotsFor(h, Len(fs)) IN
  [h EXCEPT
     !.factors   = [s \in 1 .. Max({Len(@)} \cup ToSet(slots)) |->
                      IF s \in ToSet(slots) THEN fs[Max({i \in DOMAIN slots : slots[i] = s})] ELSE @[s]],
     !.available = SubSeq(@, Len(fs) + 1, Len(@))]

\* removeFactors
Removed(h, slots) ==
  [h EXCEPT !.factors   = [s \in DOMAIN @ |-> IF s \in ToSet(slots) THEN Gap ELSE @[s]],
            !.available = @ \o slots]

\* The summary of the other is replaced.
Summed(h, sum) ==
  LET g == Removed(h, h.slots)
  IN  [Inserted(g, sum) EXCEPT !.slots = SlotsFor(g, Len(sum))]

\* The factors but those of the summary of the other: without them, or with gaps.
OwnSlots(h) == {s \in DOMAIN h.factors : h.factors[s].keys # {}} \ ToSet(h.slots)
Listed(h, slots) == LET order == Ascending(slots) IN [i \in DOMAIN order |-> h.factors[order[i]]]
WithGaps(h) == [s \in DOMAIN h.factors |-> IF s \in ToSet(h.slots) THEN Gap ELSE h.factors[s]]
-----------------------------------------------------------------------------
(* calculateMarginalFactors *)

\* The smallest sets of keys that the factors do not tie to others of drop.
Components(graph, drop) ==
  LET closed == {S \in (SUBSET drop) \ {{}} :
                   \A i \in DOMAIN graph : \/ graph[i].keys \cap S = {}
                                           \/ graph[i].keys \cap drop \subseteq S}
  IN  {S \in closed : \A T \in closed : T \subseteq S => T = S}

\* A factor for each component of the keys that go, if keys are left.
Untouched(graph, drop) == {i \in DOMAIN graph : graph[i].keys # {} /\ graph[i].keys \cap drop = {}}

Marginal(graph, th, keep) ==
  LET drop  == KeysOf(graph) \ keep
      of(S) == SelectSeq(graph, LAMBDA f : f.keys \cap S # {})
      sum   == [i \in DOMAIN graph |-> [graph[i] EXCEPT !.at = At(th, graph[i].keys)]]
      same  == Ascending(Untouched(graph, drop))
      comps == SetToSeq({S \in Components(graph, drop) : ~(KeysOf(of(S)) \subseteq drop)})
  IN  IF drop = {} THEN graph
      ELSE [i \in DOMAIN same |-> sum[same[i]]]
           \o [i \in DOMAIN comps |->
                 LET keys == KeysOf(of(comps[i])) \ drop
                 IN  [keys |-> keys, content |-> Contents(of(comps[i])), at |-> At(th, keys)]]
-----------------------------------------------------------------------------
(* Updates *)

\* optimize: every value may move, and those of the separator are put back.
\* MUTANT: they are not.
FaultyOptimized(h) ==
  IF h.factors = <<>> THEN h
  ELSE [h EXCEPT !.theta = [k \in DOMAIN @ |-> @[k] + 1]]
Optimized(h) ==
  IF h.factors = <<>> THEN h
  ELSE [h EXCEPT !.theta = h.separator @@ [k \in DOMAIN @ |-> @[k] + 1]]

Added(h, values, keySets, remove) ==
  Removed(Inserted([h EXCEPT !.theta = [k \in values |-> 0] @@ @], NewFactors(keySets)), remove)

\* moveSeparator: the factors of the keys go, but not those of the summary.
Leaving(h, keys) == {s \in OwnSlots(h) : h.factors[s].keys \cap keys # {}}
NewSeparator(h, keys) ==
  (KeysOf(Listed(h, Leaving(h, keys))) \cup DOMAIN h.separator) \ keys

\* The shortcut ties the separator that the smoother knows to the new one.
\* MUTANT: what it was is not part of it.
FaultyShortcut(h, keys) ==
  Marginal(Listed(h, Leaving(h, keys)), h.values @@ h.theta,
           NewSeparator(h, keys) \cup KeysOf(h.summary))
Shortcut(h, keys) ==
  Marginal(Listed(h, Leaving(h, keys)) \o h.shortcut, h.values @@ h.theta,
           NewSeparator(h, keys) \cup KeysOf(h.summary))

MoveSeparator(h, keys) ==
  IF keys = {} THEN h
  ELSE
  LET shortcut == Shortcut(h, keys)
      sum == Marginal(h.summary \o shortcut, h.values @@ h.theta, NewSeparator(h, keys))
      g   == Summed(h, sum)
  IN  [Removed(g, Ascending(Leaving(h, keys))) EXCEPT
         !.shortcut  = shortcut,
         !.separator = At(h.theta, KeysOf(sum)),
         !.moved     = @ \o Listed(h, Leaving(h, keys)),
         !.values    = At(h.theta, keys) @@ @,
         !.theta     = Without(@, keys)]

\* updateSmootherSummarization
Summarized(h) ==
  IF DOMAIN h.separator = {} THEN h
  ELSE [h EXCEPT !.summary = Marginal(WithGaps(h), h.theta, DOMAIN h.separator)]

\* The factors of both, without the summaries: all that there is.
Everything == Listed(filter, OwnSlots(filter)) \o filter.moved \o Listed(smoother, OwnSlots(smoother))

\* What may be removed: nothing, or one factor of a filter or smoother when there is
\* another one on its keys.
Removable(h) ==
  {<<>>} \cup {<<s>> : s \in {x \in OwnSlots(h) :
                 \E y \in OwnSlots(h) \ {x} : h.factors[x].keys \subseteq h.factors[y].keys}}

FilterUpdate ==
  /\ steps < MaxSteps
  /\ \E r \in Requests, remove \in Removable(filter) :
       LET h == Optimized(Added(filter, r.values, r.factors, remove)) IN
       /\ r.values \cap (DOMAIN filter.theta \cup DOMAIN filter.values \cup DOMAIN smoother.theta) = {}
       \* The keys are known, and the separator does not become empty.
       /\ r.move \cup UNION ToSet(r.factors) \subseteq DOMAIN h.theta
       /\ r.move # {} => NewSeparator(h, r.move) # {}
       /\ filter' = MoveSeparator(h, r.move)
       /\ held' = Over(Times(held, Contents(NewFactors(r.factors))),
                       Contents([i \in DOMAIN remove |-> filter.factors[remove[i]]]))
  /\ steps' = steps + 1 /\ since' = since \cup {"filter"}
  /\ UNCHANGED <<smoother, news>>

SmootherUpdate ==
  /\ steps < MaxSteps
  /\ \E loops \in {<<>>} \cup {<<keys>> : keys \in Loops}, remove \in Removable(smoother) :
       LET change == Over(Contents(NewFactors(loops)),
                          Contents([i \in DOMAIN remove |-> smoother.factors[remove[i]]]))
       IN  /\ UNION ToSet(loops) \subseteq DOMAIN smoother.theta
           /\ smoother' = Summarized(Optimized(Added(smoother, {}, loops, remove)))
           /\ held' = Times(held, change)
           /\ news' = Times(news, change)
  /\ steps' = steps + 1 /\ since' = since \cup {"smoother"}
  /\ UNCHANGED filter
-----------------------------------------------------------------------------
(* synchronize *)

\* The filter takes the new summary of the smoother: on the separator as the smoother
\* knows it, brought to the current one by the shortcut.
\* MUTANT: without the shortcut.
FaultyFilterTakes(h, summary, separator) ==
  LET g == Summed(h, summary)
  IN  [g EXCEPT !.summary = summary, !.shortcut = <<>>,
                !.own = Marginal(Listed(g, OwnSlots(g)), g.theta, DOMAIN g.separator)]
FilterTakes(h, summary, separator) ==
  LET sum == Marginal(summary \o h.shortcut, separator @@ h.separator, DOMAIN h.separator)
      g   == Summed(h, sum)
  IN  [g EXCEPT !.summary = sum, !.shortcut = <<>>,
                !.own = Marginal(Listed(g, OwnSlots(g)), g.theta, DOMAIN g.separator)]

\* The smoother takes the moved factors and the new summary of the filter.
\* MUTANT: its old summary stays.
FaultySmootherTakes(h, moved, values, own, separator) ==
  LET g == Inserted([h EXCEPT !.theta = separator @@ values @@ @], moved)
  IN  [Inserted(g, own) EXCEPT !.slots = SlotsFor(g, Len(own)), !.separator = separator]
SmootherTakes(h, moved, values, own, separator) ==
  LET g == Inserted([Removed(h, h.slots) EXCEPT !.theta = separator @@ values @@ @], moved)
  IN  [Inserted(g, own) EXCEPT !.slots = SlotsFor(g, Len(own)), !.separator = separator]

\* postsync
\* MUTANT: the factors are sent again.
FaultyPostsync(h) == h
Postsync(h) == [h EXCEPT !.moved = <<>>, !.values = Empty]

\* The smoother was updated since the last time: it calls when its update is done.
Synchronize ==
  /\ steps < MaxSteps /\ "smoother" \in since
  /\ LET h == FilterTakes(filter, smoother.summary, smoother.separator)
     IN  /\ smoother' = SmootherTakes(smoother, h.moved, h.values, h.own, h.separator)
         /\ filter' = Postsync(h)
  /\ steps' = steps + 1 /\ since' = {} /\ news' = One
  /\ UNCHANGED held

Next == FilterUpdate \/ SmootherUpdate \/ Synchronize

Spec == Init /\ [][Next]_vars
-----------------------------------------------------------------------------
(* Properties *)

\* Every factor is in one place: in the filter, on its way, or in the smoother; and an
\* available slot is empty and available once.
SlotsAreFree(h) ==
  /\ Cardinality(ToSet(h.available)) = Len(h.available)
  /\ \A s \in DOMAIN h.factors : s \in ToSet(h.available) => h.factors[s] = Gap /\ s \notin ToSet(h.slots)
FactorsAreKept ==
  /\ Contents(Everything) = held
  /\ SlotsAreFree(filter) /\ SlotsAreFree(smoother)

\* With its own factors and the summary, the filter uses each of the others exactly
\* once, however far it has moved on, except for what the smoother alone did since.
FilterSeesAllOnce == Contents(filter.factors) = Over(held, news)

\* And so does the smoother, until the filter is updated.
SmootherSeesAllOnce ==
  "filter" \notin since /\ DOMAIN smoother.separator # {} => Contents(smoother.factors) = held

\* When they synchronize the new summary has the keys of the old one ("assert(...)",
\* ConcurrentBatchFilter.cpp:213-218).
SummariesMatch == "smoother" \in since => KeysOf(smoother.summary) = KeysOf(filter.summary)

\* What a summary was computed at stays: both have the same values for the separator
\* the smoother knows, and no value of a marginal factor has changed.
SeparatorStays ==
  /\ \A k \in DOMAIN smoother.separator :
       smoother.theta[k] = (filter.theta @@ filter.values)[k]
  /\ \A i \in DOMAIN filter.factors :
       \A k \in DOMAIN filter.factors[i].at : filter.theta[k] = filter.factors[i].at[k]
  /\ \A i \in DOMAIN smoother.factors :
       \A k \in DOMAIN smoother.factors[i].at : smoother.theta[k] = smoother.factors[i].at[k]
=============================================================================
