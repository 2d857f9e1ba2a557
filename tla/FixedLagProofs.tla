---------------------------- MODULE FixedLagProofs ----------------------------
(***************************************************************************)
(* Proofs about FixedLag, for every lag, setup of ISAM2 and sequence of    *)
(* calls: the window is kept.                                              *)
(***************************************************************************)
EXTENDS FixedLag, FiniteSetTheorems, WellFoundedInduction, TLAPS

allVars == <<vars, lagVars>>

\* The variables that the call will have removed when it returns.
Going == leaving.leaves \cup leaving.pending

StampsInv ==
  /\ setup \in Setups
  /\ IsFiniteSet(DOMAIN timestamps) /\ \A k \in DOMAIN timestamps : timestamps[k] \in Int
  /\ byTime = {<<timestamps[k], k>> : k \in DOMAIN timestamps}

\* Between calls nothing is going; without calls there is nothing at all.
CallInv ==
  /\ pc = "idle" => leaving = Nobody
  /\ setup.calls = {} => pc = "idle" /\ DOMAIN timestamps = {} /\ retained = {}

\* What is not going has a value, and is young enough or retained.
WindowInv ==
  /\ (DOMAIN timestamps \cup retained) \ Going \subseteq DOMAIN theta \ leaving.leaves
  /\ \A k \in DOMAIN timestamps \ (retained \cup Going), j \in DOMAIN timestamps :
       timestamps[k] >= timestamps[j] - Lag

Inv == StampsInv /\ CallInv /\ WindowInv
-----------------------------------------------------------------------------
\* A finite set of integers has a largest one.
LEMMA LatestExists ==
  ASSUME NEW S \in SUBSET Int, IsFiniteSet(S), S # {}
  PROVE  Max(S) \in S /\ \A y \in S : Max(S) >= y
<1> DEFINE above(x) == {y \in S : y > x}
           T == {above(x) : x \in S}
<1>1. IsWellFoundedOn(StrictSubsetOrdering(S), FiniteSubsetsOf(S))
  BY FS_StrictSubsetOrderingWellFounded
<1>2. T \subseteq FiniteSubsetsOf(S) /\ T # {}
  <2>1. \A x \in S : above(x) \in SUBSET S /\ IsFiniteSet(above(x))
    BY FS_Subset
  <2> QED BY <2>1 DEF FiniteSubsetsOf
<1>3. \E x \in T : \A y \in T : ~ (<<y, x>> \in StrictSubsetOrdering(S))
  <2> HIDE DEF T
  <2> QED BY <1>1, <1>2, WFMin
<1>4. PICK x \in S : \A y \in S : ~ (<<above(y), above(x)>> \in StrictSubsetOrdering(S))
  BY <1>3
<1>5. ASSUME NEW y \in S, ~(x >= y)
      PROVE  FALSE
  <2>1. x \in Int /\ y \in Int /\ y > x
    BY <1>5
  <2>2. \A z \in S : z > y => z > x
    BY <2>1
  <2>3. y \in above(x) /\ y \notin above(y) /\ above(y) \subseteq above(x)
    <3>1. ~ (y > y)
      BY <2>1
    <3> QED BY <2>1, <2>2, <3>1
  <2>4. <<above(y), above(x)>> \in StrictSubsetOrdering(S)
    BY <2>3 DEF StrictSubsetOrdering
  <2> QED BY <1>4, <2>4
<1> QED BY <1>5 DEF Max

\* What findKeysBefore leaves is within the lag of everything.
LEMMA WhatStaysIsYoung ==
  ASSUME NEW stamps, IsFiniteSet(DOMAIN stamps), \A k \in DOMAIN stamps : stamps[k] \in Int,
         NEW kept,
         NEW k \in DOMAIN stamps, k \notin kept,
         k \notin KeysBefore({<<stamps[j], j>> : j \in DOMAIN stamps}, kept),
         NEW j \in DOMAIN stamps
  PROVE  stamps[k] >= stamps[j] - Lag
<1> DEFINE pairs == {<<stamps[i], i>> : i \in DOMAIN stamps}
           S     == {stamps[i] : i \in DOMAIN stamps}
<1>1. IsFiniteSet(S) /\ S \subseteq Int /\ S # {} /\ stamps[j] \in S
  <2> DEFINE f == [i \in DOMAIN stamps |-> stamps[i]]
  <2>1. f \in Surjection(DOMAIN stamps, S)
    BY DEF Surjection
  <2>2. IsFiniteSet(S)
    <3> HIDE DEF f, S
    <3> QED BY <2>1, FS_Surjection
  <2> QED BY <2>2
<1>2. S = {y[1] : y \in pairs}
  <2>1. ASSUME NEW x \in S PROVE x \in {y[1] : y \in pairs}
    <3>1. PICK i \in DOMAIN stamps : x = stamps[i]
      BY <2>1
    <3>2. <<stamps[i], i>> \in pairs /\ <<stamps[i], i>>[1] = x
      BY <3>1
    <3> QED BY <3>2
  <2>2. ASSUME NEW x \in {y[1] : y \in pairs} PROVE x \in S
    BY <2>2
  <2> QED BY <2>1, <2>2
<1>3. PICK m \in Int : m = Max(S) /\ m >= stamps[j]
  <2> HIDE DEF S
  <2> QED BY <1>1, LatestExists
<1>4. <<stamps[k], k>> \in pairs /\ <<stamps[k], k>>[1] = stamps[k] /\ <<stamps[k], k>>[2] = k
  OBVIOUS
<1>5. ~(stamps[k] < m - Lag)
  <2> SUFFICES ASSUME stamps[k] < m - Lag PROVE FALSE
    OBVIOUS
  <2>1. <<stamps[k], k>> \in {x \in pairs : x[1] < Max({y[1] : y \in pairs}) - Lag}
    <3> HIDE DEF pairs, S
    <3> QED BY <1>2, <1>3, <1>4
  <2>2. k \in {e[2] : e \in {x \in pairs : x[1] < Max({y[1] : y \in pairs}) - Lag}}
    <3> HIDE DEF pairs
    <3> QED BY <1>4, <2>1
  <2> QED BY <2>2 DEF KeysBefore
<1> QED BY <1>3, <1>5, LagAssumption
-----------------------------------------------------------------------------
(* The parts of a call *)

\* An update gives values to the new variables and takes them from some, and that is
\* all it does to them.
LEMMA UpdateTheta ==
  ASSUME NEW u, Update(u)
  PROVE  DOMAIN theta' \subseteq DOMAIN theta \cup u.values /\ setup' = setup
BY DEF Update, UpdateMarked, Without

\* The maps after updateKeyTimestampMap.
LEMMA StampsMerge ==
  ASSUME StampsInv, NEW call \in setup.calls
  PROVE  LET times == Stamped(call.times)
             pairs == Moved(call.times) \cup {<<call.times[k], k>> : k \in DOMAIN call.times}
         IN  /\ DOMAIN times = DOMAIN call.times \cup DOMAIN timestamps
             /\ IsFiniteSet(DOMAIN times) /\ \A k \in DOMAIN times : times[k] \in Int
             /\ pairs = {<<times[k], k>> : k \in DOMAIN times}
<1> DEFINE times == Stamped(call.times)
           moved == DOMAIN call.times
           pairs == Moved(call.times) \cup {<<call.times[k], k>> : k \in moved}
<1>1. IsFiniteSet(moved) /\ \A k \in moved : call.times[k] \in Int
  BY CallsAssumption DEF StampsInv
<1>2. /\ DOMAIN times = moved \cup DOMAIN timestamps
      /\ \A k \in DOMAIN times : times[k] = IF k \in moved THEN call.times[k] ELSE timestamps[k]
  BY DEF Stamped
<1>3. IsFiniteSet(DOMAIN times)
  <2>1. IsFiniteSet(moved \cup DOMAIN timestamps)
    <3> HIDE DEF moved
    <3> QED BY <1>1, FS_Union DEF StampsInv
  <2> QED BY <1>2, <2>1
<1>4. \A k \in DOMAIN times : times[k] \in Int
  BY <1>1, <1>2 DEF StampsInv
<1>5. Moved(call.times) = {<<timestamps[k], k>> : k \in DOMAIN timestamps \ moved}
  BY DEF Moved, StampsInv
<1>6. pairs = {<<times[k], k>> : k \in DOMAIN times}
  <2> HIDE DEF times, moved
  <2> QED BY <1>2, <1>5
<1> QED BY <1>2, <1>3, <1>4, <1>6

LEMMA BeginKeepsInv == Inv /\ Begin => Inv'
<1> SUFFICES ASSUME Inv, Begin PROVE Inv'
  OBVIOUS
<1>1. pc = "idle" /\ leaving = Nobody /\ Going = {} /\ leaving.leaves = {}
  BY DEF Begin, Inv, CallInv, Going, Nobody
<1>2. PICK call \in setup.calls, remove \in {{}} \cup Removable,
           large \in {{}} \cup {S \in setup.large : S \subseteq DOMAIN theta} :
        LET pairs == Moved(call.times) \cup {<<call.times[k], k>> : k \in DOMAIN call.times}
        IN  /\ Acceptable(call) /\ Proper(call)
            /\ BeginBy(call, remove, large, pairs,
                       KeysBefore(pairs, (retained \cup call.retain) \ call.release),
                       (UNION ToSet(call.factors)) \cup KeysOf(factors))
  BY DEF Begin
<1> DEFINE times == Stamped(call.times)
           pairs == Moved(call.times) \cup {<<call.times[k], k>> : k \in DOMAIN call.times}
           kept  == (retained \cup call.retain) \ call.release
           old   == KeysBefore(pairs, kept)
           active == (UNION ToSet(call.factors)) \cup KeysOf(factors)
           unused == Unused(call)
<1>3. /\ DOMAIN times = DOMAIN call.times \cup DOMAIN timestamps
      /\ IsFiniteSet(DOMAIN times) /\ \A k \in DOMAIN times : times[k] \in Int
      /\ pairs = {<<times[k], k>> : k \in DOMAIN times}
  BY StampsMerge DEF Inv
<1>4. /\ DOMAIN theta' \subseteq DOMAIN theta \cup call.values /\ setup' = setup
  <2>1. PICK order \in CliqueOrders(old \cap KeysOf(factors)) :
          Update(Request(call, remove, large, OrderingConstraints(old \cap active, pairs, active),
                         AdditionalKeys(old \cap KeysOf(factors), order)))
    BY <1>2 DEF BeginBy
  <2>2. PICK u : u = Request(call, remove, large, OrderingConstraints(old \cap active, pairs, active),
                             AdditionalKeys(old \cap KeysOf(factors), order))
    OBVIOUS
  <2>3. u.values = call.values
    BY <2>2 DEF Request
  <2> QED BY <2>1, <2>2, <2>3, UpdateTheta
<1>5. /\ timestamps' = Without(times, unused)
      /\ byTime' = {e \in pairs : e[2] \notin unused}
      /\ retained' = kept \ unused
      /\ leaving' = [leaves |-> (old \cap active) \ unused, pending |-> old \ active]
      /\ pc' = IF old \subseteq active THEN "marginalize" ELSE "reap"
  BY <1>2 DEF BeginBy
<1>6. DOMAIN call.times \cup call.retain \subseteq DOMAIN theta \cup call.values
  BY <1>2 DEF Acceptable
<1>7. DOMAIN timestamps \cup retained \subseteq DOMAIN theta
  BY <1>1 DEF Inv, WindowInv
<1> HIDE DEF times, pairs, kept, old, active, unused
<1>8. /\ DOMAIN timestamps' = DOMAIN times \ unused
      /\ \A k \in DOMAIN timestamps' : timestamps'[k] = times[k]
  BY <1>5 DEF Without
<1>9. StampsInv'
  <2>1. IsFiniteSet(DOMAIN timestamps') /\ \A k \in DOMAIN timestamps' : timestamps'[k] \in Int
    BY <1>3, <1>8, FS_Subset
  <2>2. byTime' = {<<timestamps'[k], k>> : k \in DOMAIN timestamps'}
    BY <1>3, <1>5, <1>8
  <2> QED BY <1>4, <2>1, <2>2 DEF StampsInv, Inv
<1>10. CallInv'
  BY <1>4, <1>5 DEF CallInv
<1>11. Going' = ((old \cap active) \ unused) \cup (old \ active) /\ leaving'.leaves = (old \cap active) \ unused
  BY <1>5 DEF Going
<1>12. ASSUME NEW k \in (DOMAIN timestamps' \cup retained') \ Going'
       PROVE  k \in DOMAIN theta' \ leaving'.leaves
  <2>1. k \in DOMAIN theta \cup call.values /\ k \notin unused
    BY <1>3, <1>5, <1>6, <1>7, <1>8, <1>12 DEF kept
  <2>2. k \in DOMAIN theta'
    BY <2>1 DEF unused, Unused
  <2> QED BY <2>2, <1>11, <1>12
<1>13. ASSUME NEW k \in DOMAIN timestamps' \ (retained' \cup Going'), NEW j \in DOMAIN timestamps'
       PROVE  timestamps'[k] >= timestamps'[j] - Lag
  <2>1. k \in DOMAIN times /\ k \notin unused /\ k \notin kept /\ j \in DOMAIN times
    BY <1>5, <1>8, <1>13
  <2>2. k \notin old
    BY <2>1, <1>11, <1>13
  <2>3. times[k] >= times[j] - Lag
    BY <1>3, <2>1, <2>2, WhatStaysIsYoung DEF old
  <2> QED BY <1>8, <2>3
<1>14. WindowInv'
  BY <1>12, <1>13 DEF WindowInv
<1> QED BY <1>9, <1>10, <1>14 DEF Inv

LEMMA ReapKeepsInv == Inv /\ Reap => Inv'
<1> SUFFICES ASSUME Inv, Reap PROVE Inv'
  OBVIOUS
<1>1. /\ pc = "reap" /\ pc' = "marginalize" /\ DOMAIN theta' = DOMAIN theta \ leaving.pending
      /\ UNCHANGED <<setup, timestamps, byTime, retained, leaving>>
  BY DEF Reap, Without
<1>2. Going' = Going
  BY <1>1 DEF Going
<1>3. StampsInv' /\ CallInv'
  BY <1>1 DEF Inv, StampsInv, CallInv
<1>4. WindowInv'
  BY <1>1, <1>2 DEF Inv, WindowInv, Going
<1> QED BY <1>3, <1>4 DEF Inv

LEMMA FinishKeepsInv == Inv /\ Finish => Inv'
<1> SUFFICES ASSUME Inv, Finish PROVE Inv'
  OBVIOUS
<1>1. pc = "marginalize" /\ pc' = "idle" /\ leaving' = Nobody /\ Erased(Going)
  BY DEF Finish, Going
<1>2. DOMAIN theta \ leaving.leaves \subseteq DOMAIN theta' /\ setup' = setup
  <2>1. CASE leaving.leaves = {}
    <3>1. UNCHANGED vars
      BY <2>1 DEF Finish
    <3>2. theta' = theta /\ setup' = setup
      BY <3>1, SMTT(30) DEF vars
    <3> QED BY <3>2
  <2>2. CASE leaving.leaves # {}
    BY <2>2 DEF Finish, MarginalizeLeaves, Marginalize, Without
  <2> QED BY <2>1, <2>2
<1>3. Going' = {} /\ leaving'.leaves = {}
  BY <1>1 DEF Going, Nobody
<1>4. /\ DOMAIN timestamps' = DOMAIN timestamps \ Going
      /\ \A k \in DOMAIN timestamps' : timestamps'[k] = timestamps[k]
      /\ retained' = retained \ Going
  BY <1>1 DEF Erased, Without
<1>5. byTime' = {<<timestamps'[k], k>> : k \in DOMAIN timestamps'}
  <2>1. byTime' = {e \in byTime : e[2] \in Going /\ e[2] \in DOMAIN timestamps => e[1] # timestamps[e[2]]}
    BY <1>1 DEF Erased
  <2>2. byTime = {<<timestamps[k], k>> : k \in DOMAIN timestamps}
    BY DEF Inv, StampsInv
  <2> QED BY <1>4, <2>1, <2>2
<1>6. StampsInv'
  BY <1>2, <1>4, <1>5, FS_Subset DEF Inv, StampsInv
<1>7. CallInv'
  BY <1>1, <1>2, <1>4 DEF Inv, CallInv
<1>8. WindowInv'
  BY <1>2, <1>3, <1>4 DEF Inv, WindowInv
<1> QED BY <1>6, <1>7, <1>8 DEF Inv

\* A smoother is alone with its ISAM2, so that estimates are all that comes in between.
LEMMA IdleKeepsInv == Inv /\ pc = "idle" /\ Next /\ UNCHANGED lagVars => Inv'
<1> SUFFICES ASSUME Inv, pc = "idle", Next, UNCHANGED lagVars PROVE Inv'
  OBVIOUS
<1>1. setup' = setup /\ (setup.calls # {} => theta' = theta)
  <2>1. CASE Estimate
    BY <2>1 DEF Estimate
  <2>2. CASE UpdateSome
    <3>1. PICK u \in Calls : Update(u)
      BY <2>2 DEF UpdateSome
    <3>2. setup.calls = {}
      <4> SUFFICES ASSUME setup.calls # {} PROVE FALSE
        OBVIOUS
      <4>1. Plain = {}
        <5>1. setup.batches = {}
          BY CallsAssumption DEF Inv, StampsInv
        <5>2. Batches = {}
          BY <5>1, SMTT(30) DEF Batches
        <5> QED BY <5>2 DEF Plain
      <4> QED BY <3>1, <4>1 DEF Calls
    <3> QED BY <3>1, <3>2, UpdateTheta
  <2>3. CASE MarginalizeSome
    BY <2>3, CallsAssumption DEF MarginalizeSome, MarginalizeLeaves, Marginalize, Inv, StampsInv
  <2> QED BY <2>1, <2>2, <2>3 DEF Next
<1>2. StampsInv' /\ CallInv' /\ Going' = Going
  BY <1>1 DEF Inv, StampsInv, CallInv, lagVars, Going
<1>3. WindowInv'
  <2>1. CASE setup.calls # {}
    BY <1>1, <1>2, <2>1 DEF Inv, WindowInv, lagVars
  <2>2. CASE setup.calls = {}
    BY <1>2, <2>2 DEF Inv, WindowInv, CallInv, lagVars
  <2> QED BY <2>1, <2>2
<1> QED BY <1>2, <1>3 DEF Inv

LEMMA InitInv == LagInit => Inv
<1> SUFFICES ASSUME LagInit PROVE Inv
  OBVIOUS
<1>1. setup \in Setups /\ DOMAIN timestamps = {} /\ byTime = {} /\ retained = {} /\ pc = "idle" /\ leaving = Nobody
  BY DEF LagInit, Init, Empty
<1>2. StampsInv
  BY <1>1, FS_EmptySet DEF StampsInv
<1> QED BY <1>1, <1>2 DEF Inv, CallInv, WindowInv, Going, Nobody

LEMMA StepInv == Inv /\ [LagNext]_allVars => Inv'
<1> SUFFICES ASSUME Inv, [LagNext]_allVars PROVE Inv'
  OBVIOUS
<1>1. CASE UNCHANGED allVars
  BY <1>1 DEF allVars, vars, lagVars, Inv, StampsInv, CallInv, WindowInv, Going
<1> QED BY <1>1, BeginKeepsInv, ReapKeepsInv, FinishKeepsInv, IdleKeepsInv DEF LagNext

\* In every sequence of calls, whatever ISAM2 drops meanwhile: the two maps name the same
\* timestamps (FixedLagSmoother.h:142), between calls each has a value, and no key that is
\* not retained is older than the lag (IncrementalFixedLagSmoother.cpp:132).
THEOREM TheWindowIsKept == LagSpec => []WindowIsKept
<1>1. Inv => WindowIsKept
  <2> SUFFICES ASSUME Inv PROVE WindowIsKept
    OBVIOUS
  <2>1. byTime = {<<timestamps[k], k>> : k \in DOMAIN timestamps}
    BY DEF Inv, StampsInv
  <2>2. ASSUME pc = "idle"
        PROVE  /\ DOMAIN timestamps \cup retained \subseteq DOMAIN theta
               /\ \A k \in DOMAIN timestamps \ retained, e \in byTime : timestamps[k] >= e[1] - Lag
    <3>1. Going = {} /\ leaving.leaves = {}
      BY <2>2 DEF Inv, CallInv, Going, Nobody
    <3> QED BY <2>1, <3>1 DEF Inv, WindowInv
  <2> QED BY <2>1, <2>2 DEF WindowIsKept
<1> QED BY <1>1, InitInv, StepInv, PTL DEF LagSpec, allVars
=============================================================================
