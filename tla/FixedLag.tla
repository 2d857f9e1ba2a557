------------------------------- MODULE FixedLag -------------------------------
(***************************************************************************)
(* The incremental fixed-lag smoother on top of ISAM2 (gtsam/nonlinear:    *)
(* IncrementalFixedLagSmoother, FixedLagSmoother,                          *)
(* BayesTreeMarginalizationHelper). Each update moves the window on: the   *)
(* variables that fall out of it are ordered first, and what stands in     *)
(* their way is eliminated again, so that they are leaves when they are    *)
(* marginalized.                                                           *)
(*                                                                         *)
(* The steps of a call are actions of their own: ISAM2::update,            *)
(* removeVariables and marginalizeLeaves.                                  *)
(***************************************************************************)
EXTENDS ISAM2

CONSTANT Lag  \* smootherLag_

ASSUME LagAssumption == Lag \in Nat

\* The timestamps of a call are a finite map, and who has a smoother leaves the ISAM2 in
\* it (isam_) alone.
ASSUME CallsAssumption ==
  \A s \in Setups :
    /\ s.calls # {} => s.batches = {} /\ s.leaves = {}
    /\ \A call \in s.calls :
         IsFiniteSet(DOMAIN call.times) /\ call.times \in [DOMAIN call.times -> Int]

VARIABLES
  timestamps,  \* keyTimestampMap_
  byTime,      \* timestampKeyMap_: pairs of a time and a key
  retained,    \* retainedKeys_
  pc,          \* the step of the call: "idle", "reap" or "marginalize"
  leaving      \* the variables the call removes: to marginalize, and pending

lagVars == <<timestamps, byTime, retained, pc, leaving>>
Nobody  == [leaves |-> {}, pending |-> {}]

LagInit == Init /\ timestamps = Empty /\ byTime = {} /\ retained = {} /\ pc = "idle" /\ leaving = Nobody
-----------------------------------------------------------------------------
(* FixedLagSmoother *)

\* updateKeyTimestampMap: the entry of a known key changes, and moves in the other map.
Stamped(times) ==
  [k \in DOMAIN times \cup DOMAIN timestamps |-> IF k \in DOMAIN times THEN times[k] ELSE timestamps[k]]
\* MUTANT: its old entry stays.
FaultyMoved(times) == byTime
Moved(times) == byTime \ {<<timestamps[k], k>> : k \in DOMAIN times \cap DOMAIN timestamps}

\* eraseKeyTimestampMap
Erased(keys) ==
  /\ timestamps' = Without(timestamps, keys)
  /\ byTime' = {e \in byTime : e[2] \in keys /\ e[2] \in DOMAIN timestamps => e[1] # timestamps[e[2]]}
  /\ retained' = retained \ keys

\* findKeysBefore the lag
KeysBefore(pairs, kept) ==
  {e[2] : e \in {x \in pairs : x[1] < Max({y[1] : y \in pairs}) - Lag}} \ kept
-----------------------------------------------------------------------------
(* BayesTreeMarginalizationHelper *)

WholeSubtree(c, keys) == \A d \in BelowIn(parent, c) : Frontals(d) \subseteq keys

\* needsReelimination: a variable that stays is ahead of one that goes, or a child
\* depends on one that goes and has some below that stay.
\* MUTANT: only the first.
FaultyNeeds(c, keys) ==
  \E i \in DOMAIN clique[c].frontals :
    clique[c].frontals[i] \in keys /\ \E x \in 1 .. (i - 1) : clique[c].frontals[x] \notin keys
NeedsReelimination(c, keys) ==
  \E i \in DOMAIN clique[c].frontals :
    LET j == clique[c].frontals[i] IN
    /\ j \in keys
    /\ \/ \E x \in 1 .. (i - 1) : clique[c].frontals[x] \notin keys
       \/ \E d \in children[c] : j \in clique[d].parents /\ ~WholeSubtree(d, keys)

\* gatherDependentCliques: down from the children that depend on one that goes, as
\* long as the subtree has some that stay.
Dependent(c, keys, seen) ==
  {d \in BelowIn(parent, c) \ {c} :
     LET path == PathUp(d, parent)
         way  == SubSeq(path, 1, CHOOSE i \in DOMAIN path : path[i + 1] = c)
     IN  /\ \A e \in ToSet(way) : e \notin seen /\ ~WholeSubtree(e, keys)
         /\ clique[Last(way)].parents \cap keys # {}}

\* gatherAdditionalCliquesToReEliminate: in any order of the cliques, as their set
\* is unordered.
AdditionalKeys(keys, order) ==
  UNION {Frontals(c) : c \in
    FoldLeft(LAMBDA seen, c :
               IF c \in seen \/ ~NeedsReelimination(c, keys) THEN seen
               ELSE seen \cup {c} \cup Dependent(c, keys, seen),
             {}, order)}

CliqueOrders(keys) == SetToSeqs({nodes[j] : j \in keys})
-----------------------------------------------------------------------------
(* IncrementalFixedLagSmoother::update *)

\* A call is rejected, before anything changes, for timestamps and retained keys without a
\* value (and for slots that there are not, which no call here removes).
Acceptable(call) == DOMAIN call.times \cup call.retain \subseteq DOMAIN theta \cup call.values

\* What the code leaves to the caller: new values are new and the keys of factors have values.
\* Otherwise ISAM2::update throws when the timestamps have changed already, and the state
\* it leaves is not modelled.
Proper(call) ==
  /\ call.values \cap DOMAIN theta = {}
  /\ (UNION ToSet(call.factors)) \subseteq DOMAIN theta \cup call.values

\* createOrderingConstraints: group 1 for the timestamped variables with factors
\* that stay.
OrderingConstraints(leaves, pairs, active) ==
  IF leaves = {} THEN None ELSE <<({e[2] : e \in pairs} \cap active) \ leaves>>

\* MUTANT: ISAM2 orders as it likes.
FaultyRequest(call, remove, large, last, extra) ==
  [factors |-> call.factors, values |-> call.values, remove |-> remove, extra |-> extra,
   keep |-> {}, large |-> large, relinearize |-> large # {}, reorder |-> FALSE, last |-> None]
Request(call, remove, large, last, extra) ==
  [factors |-> call.factors, values |-> call.values, remove |-> remove, extra |-> extra,
   keep |-> {}, large |-> large, relinearize |-> large # {}, reorder |-> FALSE, last |-> last]

\* unusedKeys of ISAM2's result: the variables that are gone, as no factor is left.
\* MUTANT: nobody asks.
FaultyUnused(call) == {}
Unused(call) == (DOMAIN theta \cup call.values) \ DOMAIN theta'

\* The first part of a call, with ISAM2's update.
BeginBy(call, remove, large, pairs, old, active) ==
  /\ \E order \in CliqueOrders(old \cap KeysOf(factors)) :
       Update(Request(call, remove, large, OrderingConstraints(old \cap active, pairs, active),
                      AdditionalKeys(old \cap KeysOf(factors), order)))
  /\ LET times  == Stamped(call.times)
         unused == Unused(call)
     IN  /\ timestamps' = Without(times, unused)
         /\ byTime' = {e \in pairs : e[2] \notin unused}
         /\ retained' = ((retained \cup call.retain) \ call.release) \ unused
         /\ leaving' = [leaves |-> (old \cap active) \ unused, pending |-> old \ active]
  /\ pc' = IF old \subseteq active THEN "marginalize" ELSE "reap"

Begin ==
  /\ pc = "idle" /\ updates < setup.bound
  /\ \E call \in setup.calls : \E remove \in {{}} \cup Removable :
     \E large \in {{}} \cup {S \in setup.large : S \subseteq DOMAIN theta} :
       LET pairs == Moved(call.times) \cup {<<call.times[k], k>> : k \in DOMAIN call.times}
       IN  /\ Acceptable(call) /\ Proper(call)
           /\ BeginBy(call, remove, large, pairs,
                      KeysBefore(pairs, (retained \cup call.retain) \ call.release),
                      (UNION ToSet(call.factors)) \cup KeysOf(factors))

\* removeVariables of expired values that no factor has.
Reap ==
  /\ pc = "reap"
  /\ theta' = Without(theta, leaving.pending)
  /\ fixed' = fixed \ leaving.pending
  /\ mask' = mask \ leaving.pending /\ renewed' = renewed \ leaving.pending
  /\ pc' = "marginalize"
  /\ UNCHANGED <<setup, tree, updates, factors, linear, timestamps, byTime, retained, leaving>>

Finish ==
  /\ pc = "marginalize"
  /\ IF leaving.leaves = {} THEN UNCHANGED vars ELSE MarginalizeLeaves(leaving.leaves)
  /\ Erased(leaving.leaves \cup leaving.pending)
  /\ pc' = "idle" /\ leaving' = Nobody

LagNext ==
  \/ Begin \/ Reap \/ Finish
  \/ pc = "idle" /\ Next /\ UNCHANGED lagVars

LagSpec == LagInit /\ [][LagNext]_<<vars, lagVars>>
-----------------------------------------------------------------------------
(* Properties *)

\* What the smoother hands to marginalizeLeaves are leaves ("These keys must be
\* leaves in the BayesTree", ISAM2.h:185): they have cliques, all that goes with
\* them was to go, and they come first in the cliques that they share with others.
MarginalizedAreLeaves ==
  pc = "marginalize" => leaving.leaves \subseteq DOMAIN nodes /\ Marginalized(leaving.leaves).fits

\* The two maps agree; between calls they name values that there are, and nothing that
\* is not retained is older than the lag.
WindowIsKept ==
  /\ byTime = {<<timestamps[k], k>> : k \in DOMAIN timestamps}
  /\ pc = "idle" =>
       /\ DOMAIN timestamps \cup retained \subseteq DOMAIN theta
       /\ \A k \in DOMAIN timestamps \ retained, e \in byTime : timestamps[k] >= e[1] - Lag
=============================================================================
