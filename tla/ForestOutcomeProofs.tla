----------------------- MODULE ForestOutcomeProofs -----------------------
(***************************************************************************)
(* What the calls of ForestTraversal promise, for every forest: that an    *)
(* exception is recorded and, where it is seen, raised; and that a         *)
(* top-down traversal visits a node after the one above it.                *)
(***************************************************************************)
EXTENDS ForestTraversalProofs

(* What every step does to the agendas and to memory *)

\* Nobody knows less than before.
Grow == \A u \in Threads : view[u] \subseteq view'[u]

LEMMA AccessGrows ==
  ASSUME DataInv, NEW th \in Threads, NEW o \in Objects,
         AcqRel(th, o) \/ Load(th, TRUE) \/ Load(th, FALSE) \/ UNCHANGED memory
  PROVE  Grow
<1>1. CASE AcqRel(th, o)
  BY <1>1 DEF AcqRel, DataInv, Grow
<1>2. CASE UNCHANGED memory
  BY <1>2 DEF memory, Grow
<1>3. CASE Load(th, TRUE) \/ Load(th, FALSE)
  <2>1. \/ UNCHANGED memory
        \/ view' = [view EXCEPT ![th] = @ \cup sync["raised"]] /\ sync' = sync
    BY <1>3 DEF Load
  <2>2. CASE view' = [view EXCEPT ![th] = @ \cup sync["raised"]] /\ sync' = sync
    BY <2>2 DEF DataInv, Grow
  <2> QED BY <1>2, <2>1, <2>2
<1> QED BY <1>1, <1>2, <1>3

LEMMA SetGrows ==
  ASSUME DataInv, NEW th \in Threads, NEW new, view' = [view EXCEPT ![th] = @ \cup new]
  PROVE  \A u \in Threads : view[u] \subseteq view'[u]
BY DEF DataInv

LEMMA StepGrows ==
  ASSUME Assumptions, Inv, NEW th \in Threads, Step(th)
  PROVE  Grow
<1> USE DEF memory
<1>1. DataInv /\ "claim" \in Objects
  BY DEF Inv, TypeInv, Objects
<1>2. CASE Seed(th) \/ MaybeFinish(th) \/ Submit(th) \/ Unit(th) \/ ChildDone(th)
           \/ Enqueue(th) \/ Dispatch(th) \/ BottomUp(th) \/ Resolve(th)
  <2>1. view' = view
    BY <1>2 DEF Seed, MaybeFinish, Submit, Unit, ChildDone, Enqueue, Dispatch, BottomUp, Resolve, Relaxed
  <2> QED BY <2>1 DEF Grow
<1>3. CASE Enter(th) \/ Descend(th) \/ Complete(th) \/ Again(th) \/ Batch(th)
  <2>1. Load(th, TRUE) \/ Load(th, FALSE) \/ UNCHANGED memory
    BY <1>3 DEF Enter, Descend, Complete, Again, Batch
  <2> QED BY <1>1, <2>1, AccessGrows
<1>4. CASE Touch(th) \/ Work(th) \/ Leaf(th)
  <2>1. \E new : view' = [view EXCEPT ![th] = @ \cup new] \/ view' = view
    BY <1>4 DEF Touch, Work, Leaf, Call
  <2> QED BY <1>1, <2>1, SetGrows DEF Grow
<1>5. CASE Claim(th)
  BY <1>1, <1>5, AccessGrows DEF Claim
<1>6. CASE Record(th) \/ Wait(th)
  <2>1. \E new : view' = [view EXCEPT ![th] = @ \cup new]
    BY <1>6 DEF Record, Wait
  <2> QED BY <1>1, <2>1, SetGrows DEF Grow
<1> QED BY <1>2, <1>3, <1>4, <1>5, <1>6 DEF Step

\* A step keeps the agendas of the others.
LEMMA StepKeeps ==
  ASSUME Assumptions, Inv, NEW th \in Threads, Step(th)
  PROVE  /\ agenda[th] # <<>> /\ run' = run
         /\ \A u \in Threads : u # th => \A op : At(u, op)' <=> At(u, op)
<1>1. agenda[th] # <<>> /\ run' = run
  BY DEF Step, Seed, MaybeFinish, Resolve, Wait, Claim, Record, Submit, Enqueue, Dispatch, Enter, Touch,
         Descend, BottomUp, Unit, ChildDone, Complete, Again, Work, Batch, Leaf, At
<1>2. PICK items \in Seq(Items) : Replace(th, items)
  BY StepKeepsInv DEF Goes
<1>3. agenda \in [Threads -> Seq(Items)]
  BY DEF Inv, TypeInv
<1> QED BY <1>1, <1>2, <1>3 DEF Replace, At

\* Whose first item is replaced by others has the first of these next, or one that is not urgent.
LEMMA NextIs ==
  ASSUME Inv, NEW th \in Threads, agenda[th] # <<>>,
         NEW S, Items \subseteq S, NEW items \in Seq(S), Replace(th, items)
  PROVE  /\ items # <<>> => At(th, items[1].op)' /\ Item(th)' = items[1]
         /\ items = <<>> => \A op \in Urgent : ~At(th, op)'
<1> DEFINE s == agenda[th]
           q == items \o Tail(s)
<1>1. s \in Seq(Items) /\ AgendaInv(th)
  BY DEF Inv, TypeInv
<1>2. s \in Seq(S)
  <2>1. Len(s) \in Nat /\ s \in [1 .. Len(s) -> Items]
    BY <1>1, LenProperties
  <2>2. s \in [1 .. Len(s) -> S]
    BY <2>1
  <2> HIDE DEF s
  <2> QED BY <2>1, <2>2, SeqDef
<1>3. agenda'[th] = q
  BY DEF Replace, Inv, TypeInv
<1>4. q = items \o Tail(s) /\ s # <<>>
  OBVIOUS
<1> HIDE DEF s, q
<1>5. /\ q \in Seq(S) /\ Len(items) \in Nat /\ Len(s) \in Nat \ {0} /\ Len(q) = Len(items) + (Len(s) - 1)
      /\ \A i \in 1 .. Len(q) : q[i] = IF i <= Len(items) THEN items[i] ELSE s[i - Len(items) + 1]
  BY <1>2, <1>4, Spliced
<1>6. ASSUME items # <<>>
      PROVE  At(th, items[1].op)' /\ Item(th)' = items[1]
  <2>1. Len(items) # 0
    BY <1>6, EmptySeq
  <2>2. 1 \in 1 .. Len(q) /\ 1 <= Len(items) /\ Len(q) # 0
    BY <1>5, <2>1
  <2>3. q[1] = items[1] /\ q # <<>>
    BY <1>5, <2>2, EmptySeq
  <2>4. Head(q) = q[1]
    BY <1>5, <2>3
  <2> QED BY <1>3, <2>3, <2>4 DEF At, Item
<1>7. ASSUME items = <<>>, NEW op \in Urgent, At(th, op)'
      PROVE  FALSE
  <2>1. Len(items) = 0
    BY <1>7, EmptySeq
  <2>2. q # <<>> /\ Head(q).op = op
    BY <1>3, <1>7 DEF At
  <2>3. Len(q) \in Nat \ {0} /\ Head(q) = q[1]
    BY <1>5, <2>2, EmptySeq
  <2>4. 1 \in 1 .. Len(q) /\ 2 \in 1 .. Len(s) /\ q[1] = s[2]
    BY <1>5, <2>1, <2>3
  <2>5. DOMAIN s = 1 .. Len(s)
    BY <1>1, LenProperties
  <2> QED BY <1>1, <1>7, <2>2, <2>3, <2>4, <2>5 DEF AgendaInv, s
<1> QED BY <1>6, <1>7

-----------------------------------------------------------------------------
(* Exceptions *)

\* The exception of a visitor that threw is being recorded, or was; what is being recorded
\* is of a node whose visitor threw.
ClaimedInv  == failed # {} /\ ~claimed => \E th \in Threads : At(th, "claim")
RecordedInv == claimed /\ ~hasException => \E th \in Threads : At(th, "record")
HeldInv     == \A th \in Threads : At(th, "claim") \/ At(th, "record") => Item(th).node \in failed
\* What was recorded, and what the promise got.
StoredInv ==
  /\ hasException => exception \in failed
  /\ done \in Nodes => hasException /\ done = exception
  /\ done = "value" => Raised \notin sync["done"]
  /\ done # "unset" /\ failed # {} => hasException
FailureInv == ClaimedInv /\ RecordedInv /\ HeldInv /\ StoredInv

\* Items that do not begin with one that claims or records.
Harmless(th, items) ==
  \E S : Items \subseteq S /\ items \in Seq(S) /\ (items # <<>> => items[1].op \notin {"claim", "record"})

LEMMA AfterHarmless ==
  ASSUME Inv, NEW th \in Threads, agenda[th] # <<>>, NEW items, Harmless(th, items), Replace(th, items)
  PROVE  ~At(th, "claim")' /\ ~At(th, "record")'
<1>1. PICK S : Items \subseteq S /\ items \in Seq(S) /\ (items # <<>> => items[1].op \notin {"claim", "record"})
  BY DEF Harmless
<1>2. /\ items # <<>> => At(th, items[1].op)'
      /\ items = <<>> => \A op \in Urgent : ~At(th, op)'
  BY <1>1, NextIs
<1> QED BY <1>1, <1>2 DEF At, Urgent

LEMMA HarmlessFew ==
  ASSUME NEW th
  PROVE  /\ Harmless(th, <<>>)
         /\ \A x : x.op \notin {"claim", "record"} =>
              Harmless(th, <<x>>) /\ \A y : Harmless(th, <<x, y>>) /\ Harmless(th, <<x>> \o <<y>>)
<1>1. Harmless(th, <<>>)
  <2>1. <<>> \in Seq(Items)
    OBVIOUS
  <2> QED BY <2>1 DEF Harmless
<1>2. ASSUME NEW x, x.op \notin {"claim", "record"}, NEW y
      PROVE  Harmless(th, <<x>>) /\ Harmless(th, <<x, y>>) /\ Harmless(th, <<x>> \o <<y>>)
  <2> DEFINE S == Items \cup {x, y}
  <2>1. Items \subseteq S /\ x \in S /\ y \in S
    OBVIOUS
  <2> HIDE DEF S
  <2>2. <<x>> \in Seq(S) /\ <<x, y>> \in Seq(S) /\ <<x>>[1] = x /\ <<x, y>>[1] = x
    BY <2>1, Singles
  <2>3. Harmless(th, <<x>>)
    BY <1>2, <2>1, <2>2 DEF Harmless
  <2>4. Harmless(th, <<x, y>>)
    BY <1>2, <2>1, <2>2 DEF Harmless
  <2> QED BY <2>3, <2>4, TwoItems
<1> QED BY <1>1, <1>2

LEMMA HarmlessOthers ==
  ASSUME NEW th
  PROVE  /\ \A op \in {"dispatch", "visit"}, ns \in Seq(Nodes) : Harmless(th, Each(op, ns))
         /\ \A n \in Nodes : Harmless(th, OnDone(n))
<1>1. ASSUME NEW op \in {"dispatch", "visit"}, NEW ns \in Seq(Nodes)
      PROVE  Harmless(th, Each(op, ns))
  <2> DEFINE items == Each(op, ns)
  <2>1. items \in Seq(Items) /\ Len(items) = Len(ns) /\ \A i \in 1 .. Len(ns) : items[i] = Do(op, ns[i])
    BY EachFacts
  <2> HIDE DEF items
  <2>2. ASSUME items # <<>>
        PROVE  items[1].op = op
    <3>1. 1 \in 1 .. Len(ns)
      BY <2>1, <2>2, EmptySeq
    <3> QED BY <2>1, <3>1, DoFacts
  <2> QED BY <2>1, <2>2 DEF Harmless, items
<1>2. ASSUME NEW n \in Nodes
      PROVE  Harmless(th, OnDone(n))
  <2>1. OnDone(n) = <<>> \/ \E p : OnDone(n) = <<Do("childDone", p)>>
    BY DEF OnDone
  <2>2. Harmless(th, <<>>)
    BY HarmlessFew
  <2>3. ASSUME NEW p
        PROVE  Harmless(th, <<Do("childDone", p)>>)
    <3> DEFINE x == Do("childDone", p)
    <3>1. x.op = "childDone"
      BY DoFacts
    <3> HIDE DEF x
    <3>2. Harmless(th, <<x>>)
      BY <3>1, HarmlessFew
    <3> QED BY <3>2 DEF x
  <2> QED BY <2>1, <2>2, <2>3
<1> QED BY <1>1, <1>2

\* Only who called the visitor goes on to claim, and only who claims to record.
LEMMA StepIsHarmless ==
  ASSUME Assumptions, Inv, NEW th \in Threads, Step(th), ~Claim(th), Item(th).op \notin {"touch", "work", "leaf"}
  PROVE  ~At(th, "claim")' /\ ~At(th, "record")'
<1>1. agenda[th] # <<>> /\ Item(th) \in Items
  BY StepKeeps, ItemFacts
<1> SUFFICES \E items : Replace(th, items) /\ Harmless(th, items)
  BY <1>1, AfterHarmless
<1> DEFINE n == Item(th).node
<1>2. \A op, m : Do(op, m).op = op
  BY DoFacts
<1>3. Item(th).op \in Plain \cup {"unit", "batch"} => n \in Nodes
  BY <1>1 DEF Items, Plain
<1>4. CASE Seed(th) \/ Wait(th) \/ Resolve(th) \/ Record(th) \/ Enqueue(th) \/ MaybeFinish(th)
  <2>1. Replace(th, <<>>) \/ Replace(th, <<Do("resolve", None)>>)
    BY <1>4 DEF Seed, Wait, Resolve, Record, Enqueue, MaybeFinish
  <2> DEFINE x == Do("resolve", None)
  <2>2. x.op = "resolve" /\ (Replace(th, <<>>) \/ Replace(th, <<x>>))
    BY <1>2, <2>1
  <2> HIDE DEF x
  <2> QED BY <2>2, HarmlessFew
<1>5. CASE Submit(th)
  <2>1. Item(th).op = "submit"
    BY <1>5 DEF Submit, At, Item
  <2>2. Item(th).job \in Jobs /\ (Item(th).job.op = "batch" => Fits(Item(th).job))
    BY <1>1, <2>1, JobFacts, ItemFacts DEF Within
  <2> DEFINE job == Item(th).job
             x   == [op |-> "enqueue", job |-> job]
  <2>3. Replace(th, Body(job)) \/ Replace(th, <<x>>)
    BY <1>5 DEF Submit
  <2>4. PICK y : Body(job) = <<y, Do("finish", None)>> /\ y.op \in {"again", "enter", "batch"}
    BY <2>2, BodyFacts
  <2>5. x.op = "enqueue"
    OBVIOUS
  <2> HIDE DEF job, x
  <2> QED BY <2>3, <2>4, <2>5, HarmlessFew
<1>6. CASE Dispatch(th) \/ Enter(th)
  <2> DEFINE x == [op |-> "submit", job |-> Do("topDown", n)]
             y == Do("enter", n)
             z == Do("touch", n)
  <2>1. Replace(th, <<>>) \/ Replace(th, <<x>>) \/ Replace(th, <<y>>) \/ Replace(th, <<z>>)
    BY <1>6 DEF Dispatch, Enter, Schedule
  <2>2. x.op = "submit" /\ y.op = "enter" /\ z.op = "touch"
    BY <1>2
  <2> HIDE DEF x, y, z
  <2> QED BY <2>1, <2>2, HarmlessFew
<1>7. CASE Descend(th)
  <2>1. n \in Nodes
    BY <1>3, <1>7 DEF Descend, At, Item, Plain
  <2>2. Kids(n) \in Seq(Nodes)
    BY <2>1, Basics DEF Inv
  <2>3. Replace(th, <<>>) \/ Replace(th, Each("dispatch", Kids(n)))
    BY <1>7 DEF Descend
  <2>4. Harmless(th, <<>>) /\ Harmless(th, Each("dispatch", Kids(n)))
    BY <2>2, HarmlessFew, HarmlessOthers
  <2> QED BY <2>3, <2>4
<1>8. CASE BottomUp(th)
  <2>1. n \in Nodes
    BY <1>3, <1>8 DEF BottomUp, At, Item, Plain
  <2>2. Kids(n) \in Seq(Nodes)
    BY <2>1, Basics DEF Inv
  <2> DEFINE x == Do("complete", n)
             y == NextUnit(n, 1)
  <2>3. Replace(th, <<x>>) \/ Replace(th, Each("visit", Kids(n))) \/ Replace(th, <<y>>)
    BY <1>8 DEF BottomUp
  <2>4. x.op = "complete" /\ y.op \in {"unit", "childDone"}
    BY <1>2 DEF NextUnit
  <2> HIDE DEF x, y
  <2> QED BY <2>2, <2>3, <2>4, HarmlessFew, HarmlessOthers
<1>9. CASE Unit(th)
  <2> DEFINE hi == UnitEnd(n, Item(th).lo)
             x  == [op |-> "submit", job |-> Span("batch", n, Item(th).lo, hi)]
             y  == Do("visit", Kids(n)[Item(th).lo])
             z  == NextUnit(n, hi)
  <2>1. Replace(th, <<x>> \o <<z>>) \/ Replace(th, <<y>> \o <<z>>)
    BY <1>9 DEF Unit, Schedule
  <2>2. x.op = "submit" /\ y.op = "visit"
    BY <1>2
  <2> HIDE DEF x, y, z
  <2> QED BY <2>1, <2>2, HarmlessFew
<1>10. CASE ChildDone(th) \/ Batch(th)
  <2> DEFINE x == Span("leaf", n, Item(th).lo, Item(th).hi)
             y == Do("complete", n)
             z == Do("childDone", n)
  <2>1. Replace(th, <<>>) \/ Replace(th, <<x>>) \/ Replace(th, <<y>>) \/ Replace(th, <<z>>)
    BY <1>10 DEF ChildDone, Batch
  <2>2. x.op = "leaf" /\ y.op = "complete" /\ z.op = "childDone"
    BY <1>2 DEF Span
  <2> HIDE DEF x, y, z
  <2> QED BY <2>1, <2>2, HarmlessFew
<1>11. CASE Complete(th) \/ Again(th)
  <2> DEFINE x == [op |-> "submit", job |-> Do("node", n)]
             y == Do("work", n)
  <2>1. n \in Nodes
    BY <1>3, <1>11 DEF Complete, Again, At, Item, Plain
  <2>2. Replace(th, OnDone(n)) \/ Replace(th, <<x>>) \/ Replace(th, <<y>>)
    BY <1>11 DEF Complete, Again, Schedule
  <2>3. x.op = "submit" /\ y.op = "work"
    BY <1>2
  <2> HIDE DEF x, y
  <2> QED BY <2>1, <2>2, <2>3, HarmlessFew, HarmlessOthers
<1>12. ~Touch(th) /\ ~Work(th) /\ ~Leaf(th)
  BY DEF Touch, Work, Leaf, At, Item
<1> QED BY <1>4, <1>5, <1>6, <1>7, <1>8, <1>9, <1>10, <1>11, <1>12 DEF Step

\* What a step leaves of the other agendas.
LEMMA OthersKept ==
  ASSUME Assumptions, Inv, NEW th \in Threads, Step(th)
  PROVE  /\ agenda[th] # <<>>
         /\ \A u \in Threads : u # th => agenda'[u] = agenda[u]
         /\ \A u \in Threads : u # th => Item(u)' = Item(u) /\ \A op : At(u, op)' <=> At(u, op)
<1>1. PICK items : Replace(th, items)
  BY StepKeepsInv DEF Goes
<1>2. \A u \in Threads : u # th => agenda'[u] = agenda[u]
  BY <1>1 DEF Replace, Inv, TypeInv
<1> QED BY <1>2, StepKeeps DEF At, Item

\* Steps that neither throw, claim, record nor resolve.
LEMMA Carries ==
  ASSUME Assumptions, Inv, FailureInv, NEW th \in Threads, Step(th), ~At(th, "claim"), ~At(th, "record"),
         UNCHANGED <<claimed, hasException, exception, failed>>, done' = done, sync' = sync,
         ~At(th, "claim")' /\ ~At(th, "record")'
  PROVE  FailureInv'
<1>1. \A u \in Threads : u # th => Item(u)' = Item(u) /\ \A op : At(u, op)' <=> At(u, op)
  BY OthersKept
<1>2. ClaimedInv' /\ RecordedInv' /\ HeldInv'
  BY <1>1 DEF FailureInv, ClaimedInv, RecordedInv, HeldInv
<1> QED BY <1>2 DEF FailureInv, StoredInv

LEMMA ResolveKeepsFailure ==
  ASSUME Assumptions, Inv, FailureInv, NEW th \in Threads, Resolve(th)
  PROVE  FailureInv'
<1> USE DEF visits
<1>1. /\ UNCHANGED <<claimed, hasException, exception, failed, view>> /\ At(th, "resolve") /\ Step(th)
      /\ sync' = [sync EXCEPT !["done"] = view[th]]
  BY DEF Resolve, Step
<1>2. \A u \in Threads : u # th => Item(u)' = Item(u) /\ \A op : At(u, op)' <=> At(u, op)
  BY <1>1, OthersKept
<1>3. ~At(th, "claim") /\ ~At(th, "record") /\ ~At(th, "claim")' /\ ~At(th, "record")'
  <2>1. ~Claim(th) /\ Item(th).op = "resolve"
    BY <1>1 DEF Claim, At, Item
  <2> QED BY <1>1, <2>1, StepIsHarmless DEF At, Item
<1>4. ClaimedInv' /\ RecordedInv' /\ HeldInv'
  BY <1>1, <1>2, <1>3 DEF FailureInv, ClaimedInv, RecordedInv, HeldInv
<1>5. PICK raised \in BOOLEAN : /\ (raised /\ hasException) \/ (~raised /\ Raised \notin view[th])
                                /\ done' = IF raised THEN exception ELSE "value"
  BY DEF Resolve
<1>6. sync'["done"] = view[th] /\ "value" \notin Nodes /\ (hasException => exception \in Nodes)
  <2>1. DataInv /\ "done" \in Objects
    BY DEF Inv, TypeInv, Objects
  <2> QED BY <1>1, <2>1 DEF DataInv, Assumptions
<1>7. \A u \in Threads : ~At(u, "claim") /\ ~At(u, "record")
  <2>1. ASSUME NEW u \in Threads, At(u, "claim") \/ At(u, "record")
        PROVE  FALSE
    <3>1. agenda[u] # <<>> /\ Item(u).op \in {"claim", "record"}
      BY <2>1 DEF At, Item
    <3>2. Item(u).op \notin Ending /\ Item(u).op # "seed"
      BY <3>1 DEF Ending
    <3> QED BY <1>1, <3>1, <3>2, Busy
  <2> QED BY <2>1
<1>8. failed # {} => hasException
  BY <1>7 DEF FailureInv, ClaimedInv, RecordedInv
<1>9. StoredInv'
  BY <1>1, <1>5, <1>6, <1>8 DEF FailureInv, StoredInv
<1> QED BY <1>4, <1>9 DEF FailureInv

LEMMA ClaimKeepsFailure ==
  ASSUME Assumptions, Inv, FailureInv, NEW th \in Threads, Claim(th)
  PROVE  FailureInv'
<1> USE DEF visits
<1>1. /\ claimed' = TRUE /\ UNCHANGED <<hasException, exception, failed, done>>
      /\ At(th, "claim") /\ Step(th) /\ AcqRel(th, "claim")
      /\ Replace(th, IF claimed THEN <<>> ELSE <<Do("record", Item(th).node)>>)
  BY DEF Claim, Step
<1>2. /\ agenda[th] # <<>> /\ Item(th).op = "claim" /\ Item(th).node \in failed
      /\ \A u \in Threads : u # th => Item(u)' = Item(u) /\ \A op : At(u, op)' <=> At(u, op)
  BY <1>1, OthersKept DEF At, Item, FailureInv, HeldInv
<1>3. /\ ~claimed => At(th, "record")' /\ ~At(th, "claim")' /\ Item(th)'.node = Item(th).node
      /\ claimed => ~At(th, "claim")' /\ ~At(th, "record")'
  <2>1. CASE claimed
    BY <1>1, <1>2, <2>1, HarmlessFew, AfterHarmless
  <2>2. CASE ~claimed
    <3> DEFINE x == Do("record", Item(th).node)
               S == Items \cup {x}
    <3>1. x.op = "record" /\ x.node = Item(th).node /\ x \in S /\ Items \subseteq S
      BY DoFacts
    <3>2. Replace(th, <<x>>)
      BY <1>1, <2>2
    <3> HIDE DEF x, S
    <3>3. <<x>> \in Seq(S) /\ <<x>> # <<>> /\ <<x>>[1] = x
      BY <3>1, Singles
    <3>4. At(th, "record")' /\ Item(th)' = x
      BY <1>2, <3>1, <3>2, <3>3, NextIs, ZenonT(60)
    <3> QED BY <2>2, <3>1, <3>4 DEF At
  <2> QED BY <2>1, <2>2
<1>4. RecordedInv'
  <2> SUFFICES ASSUME ~hasException PROVE \E u \in Threads : At(u, "record")'
    BY <1>1 DEF RecordedInv
  <2>1. CASE claimed
    <3>1. PICK u \in Threads : At(u, "record")
      BY <2>1 DEF FailureInv, RecordedInv
    <3> QED BY <1>1, <1>2, <3>1 DEF At
  <2> QED BY <1>3, <2>1
<1>5. ClaimedInv'
  BY <1>1 DEF ClaimedInv
<1>6. HeldInv'
  BY <1>1, <1>2, <1>3 DEF FailureInv, HeldInv
<1>7. StoredInv'
  <2>1. sync'["done"] = sync["done"]
    BY <1>1 DEF AcqRel, Inv, TypeInv, DataInv, Objects
  <2> QED BY <1>1, <2>1 DEF FailureInv, StoredInv
<1> QED BY <1>4, <1>5, <1>6, <1>7 DEF FailureInv

LEMMA RecordKeepsFailure ==
  ASSUME Assumptions, Inv, FailureInv, NEW th \in Threads, Record(th)
  PROVE  FailureInv'
<1> USE DEF visits
<1>1. /\ hasException' = TRUE /\ exception' = Item(th).node
      /\ UNCHANGED <<claimed, failed, done>> /\ At(th, "record") /\ Step(th)
  BY DEF Record, Step
<1>2. /\ agenda[th] # <<>> /\ Item(th).op = "record" /\ Item(th).node \in failed
      /\ \A u \in Threads : u # th => Item(u)' = Item(u) /\ \A op : At(u, op)' <=> At(u, op)
  BY <1>1, OthersKept DEF At, Item, FailureInv, HeldInv
<1>3. ~At(th, "claim") /\ ~At(th, "claim")' /\ ~At(th, "record")'
  <2>1. ~Claim(th)
    BY <1>2 DEF Claim, At, Item
  <2> QED BY <1>1, <1>2, <2>1, StepIsHarmless DEF At, Item
<1>4. ClaimedInv' /\ RecordedInv' /\ HeldInv'
  BY <1>1, <1>2, <1>3 DEF FailureInv, ClaimedInv, RecordedInv, HeldInv
<1>5. done' = "unset"
  <2>1. Item(th).op \notin Ending /\ Item(th).op # "seed"
    BY <1>2 DEF Ending
  <2> QED BY <1>1, <1>2, <2>1, Busy
<1>6. StoredInv'
  BY <1>1, <1>2, <1>5 DEF StoredInv, Assumptions
<1> QED BY <1>4, <1>6 DEF FailureInv

\* A visitor throws.
LEMMA ThrowKeepsFailure ==
  ASSUME Assumptions, Inv, FailureInv, NEW th \in Threads, Step(th),
         agenda[th] # <<>>, Item(th).op \in {"touch", "work", "leaf"},
         NEW n \in Nodes, NEW w \in Reports, Replace(th, <<Do("claim", n)>> \o w),
         UNCHANGED <<claimed, hasException, exception, done>>, failed' = failed \cup {n}
  PROVE  FailureInv'
<1>1. \A u \in Threads : u # th => Item(u)' = Item(u) /\ \A op : At(u, op)' <=> At(u, op)
  BY OthersKept
<1>2. ~At(th, "claim") /\ ~At(th, "record")
  BY DEF At, Item
<1>3. At(th, "claim")' /\ Item(th)'.node = n
  <2> DEFINE x     == Do("claim", n)
             items == <<x>> \o w
  <2>1. items \in Seq(Items) /\ <<x>> \in Seq(Items)
    <3>1. Do("claim", n) \in Items
      BY DoFacts DEF Plain
    <3> QED BY <3>1, ReportFacts, Singles
  <2>2. x.op = "claim" /\ x.node = n
    BY DoFacts
  <2>3. items # <<>> /\ items[1] = x
    <3> HIDE DEF x
    <3>1. w \in Seq(Items) /\ <<x>> \in Seq(Items)
      BY <2>1, ReportFacts
    <3>2. Len(<<x>>) = 1 /\ <<x>>[1] = x
      OBVIOUS
    <3> DEFINE p == <<x>>
    <3> HIDE DEF p
    <3>3. p \in Seq(Items) /\ Len(p) = 1 /\ p[1] = x /\ Len(w) \in Nat
      BY <3>1, <3>2, LenProperties DEF p
    <3>4. /\ p \o w \in Seq(Items) /\ Len(p \o w) = Len(p) + Len(w)
          /\ \A i \in 1 .. Len(p) + Len(w) : (p \o w)[i] = IF i <= Len(p) THEN p[i] ELSE w[i - Len(p)]
      BY <3>1, <3>3, ConcatProperties
    <3>5. 1 \in 1 .. Len(p) + Len(w) /\ 1 <= Len(p) /\ Len(p) + Len(w) # 0
      BY <3>3
    <3>6. p \o w # <<>> /\ (p \o w)[1] = x
      BY <3>3, <3>4, <3>5, EmptySeq
    <3> QED BY <3>6 DEF p
  <2>4. At(th, items[1].op)' /\ Item(th)' = items[1]
    <3>1. Replace(th, items)
      OBVIOUS
    <3> HIDE DEF items
    <3> QED BY <2>1, <2>3, <3>1, NextIs
  <2> HIDE DEF x, items
  <2> QED BY <2>2, <2>3, <2>4
<1>4. ClaimedInv' /\ RecordedInv' /\ HeldInv'
  BY <1>1, <1>2, <1>3, ZenonT(60) DEF FailureInv, ClaimedInv, RecordedInv, HeldInv, At
<1>5. done' = "unset"
  <2>1. Item(th).op \notin Ending /\ Item(th).op # "seed"
    BY DEF Ending
  <2> QED BY <2>1, Busy
<1>6. StoredInv'
  BY <1>5 DEF FailureInv, StoredInv, Assumptions
<1> QED BY <1>4, <1>6 DEF FailureInv

LEMMA CallKeepsFailure ==
  ASSUME Assumptions, Inv, FailureInv, NEW th \in Threads, Touch(th) \/ Work(th) \/ Leaf(th)
  PROVE  FailureInv'
<1> USE DEF state
<1> DEFINE it == Item(th)
<1>1. /\ agenda[th] # <<>> /\ it.op \in {"touch", "work", "leaf"} /\ Step(th)
      /\ UNCHANGED <<claimed, hasException, exception, done, sync>>
  BY DEF Touch, Work, Leaf, Step, At, Item
<1>2. it \in Items /\ Within(it) /\ it.node \in Nodes
  <2>1. it \in Items /\ Within(it)
    BY <1>1, ItemFacts
  <2> QED BY <1>1, <2>1 DEF Items, Plain
<1>3. ASSUME NEW items, Replace(th, items), Harmless(th, items), failed' = failed
      PROVE  FailureInv'
  <2>1. ~At(th, "claim") /\ ~At(th, "record")
    BY <1>1 DEF At, Item
  <2>2. ~At(th, "claim")' /\ ~At(th, "record")'
    BY <1>1, <1>3, AfterHarmless
  <2> QED BY <1>1, <1>3, <2>1, <2>2, Carries
<1>4. CASE Touch(th)
  <2>1. CASE Replace(th, <<Do("descend", it.node)>>) /\ failed' = failed
    <3> DEFINE x == Do("descend", it.node)
    <3>1. x.op = "descend" /\ Replace(th, <<x>>)
      BY <2>1, DoFacts
    <3> HIDE DEF x
    <3>2. Harmless(th, <<x>>)
      BY <3>1, HarmlessFew
    <3> QED BY <1>3, <2>1, <3>1, <3>2
  <2>2. CASE Replace(th, <<Do("claim", it.node)>> \o <<>>) /\ failed' = failed \cup {it.node}
    BY <1>1, <1>2, <2>2, ThrowKeepsFailure DEF Reports
  <2> QED BY <1>4, <2>1, <2>2 DEF Touch, Call
<1>5. CASE Work(th)
  <2>1. CASE Replace(th, OnDone(it.node)) /\ failed' = failed
    BY <1>2, <1>3, <2>1, HarmlessOthers
  <2>2. CASE Replace(th, <<Do("claim", it.node)>> \o OnDone(it.node)) /\ failed' = failed \cup {it.node}
    BY <1>1, <1>2, <2>2, ThrowKeepsFailure, OnDoneReports
  <2> QED BY <1>5, <2>1, <2>2 DEF Work, Call
<1>6. CASE Leaf(th)
  <2> DEFINE x == Span("batch", it.node, it.lo + 1, it.hi)
             m == Kids(it.node)[it.lo]
  <2>1. CASE Replace(th, <<x>>) /\ failed' = failed
    <3>1. x.op = "batch"
      BY DEF Span
    <3> HIDE DEF x
    <3> QED BY <1>3, <2>1, <3>1, HarmlessFew
  <2>2. CASE Replace(th, <<Do("claim", m)>> \o <<Do("childDone", it.node)>>) /\ failed' = failed \cup {m}
    <3>1. it.lo \in 1 .. Len(Kids(it.node))
      <4>1. Len(Kids(it.node)) \in Nat /\ it.op = "leaf"
        BY <1>2, <1>6, Basics DEF Inv, Leaf, At, Item
      <4>2. it.lo \in Nat \ {0} /\ it.lo < it.hi /\ it.hi <= Len(Kids(it.node)) + 1 /\ it.hi \in Nat
        BY <1>2, <4>1 DEF Within, Items, Plain
      <4> HIDE DEF it
      <4> QED BY <4>1, <4>2
    <3>2. m \in Nodes
      BY <1>2, <3>1, Basics DEF Inv
    <3> HIDE DEF m
    <3> QED BY <1>1, <1>2, <2>2, <3>2, ThrowKeepsFailure DEF Reports
  <2> QED BY <1>6, <2>1, <2>2 DEF Leaf, Call
<1> QED BY <1>4, <1>5, <1>6

LEMMA StartKeepsFailure ==
  ASSUME Assumptions, Inv, FailureInv, NEW w \in Workers, Start(w)
  PROVE  FailureInv'
<1> USE DEF state, visits
<1>1. /\ agenda[w] = <<>> /\ UNCHANGED <<claimed, hasException, exception, failed, done, sync>> /\ w \in Threads
  BY DEF Start, Threads
<1>2. PICK j \in DOMAIN jobs : agenda' = [agenda EXCEPT ![w] = Body(j.job)]
  BY DEF Start, BagToSet
<1>3. \A u \in Threads : u # w => Item(u)' = Item(u) /\ \A op : At(u, op)' <=> At(u, op)
  BY <1>2 DEF At, Item, Inv, TypeInv
<1>4. ~At(w, "claim") /\ ~At(w, "record") /\ ~At(w, "claim")' /\ ~At(w, "record")'
  <2>1. j.job \in Jobs /\ (j.job.op = "batch" => Fits(j.job))
    BY DEF Inv, TypeInv, BatchInv
  <2>2. Body(j.job) \in Seq(Items) /\ Body(j.job) # <<>> /\ Body(j.job)[1].op \in {"again", "enter", "batch"}
    BY <2>1, BodyProper
  <2>3. agenda'[w] = Body(j.job) /\ Head(Body(j.job)) = Body(j.job)[1]
    BY <1>1, <1>2, <2>2 DEF Inv, TypeInv
  <2> QED BY <1>1, <2>2, <2>3 DEF At
<1>5. ClaimedInv' /\ RecordedInv' /\ HeldInv'
  BY <1>1, <1>3, <1>4 DEF FailureInv, ClaimedInv, RecordedInv, HeldInv
<1> QED BY <1>1, <1>5 DEF FailureInv, StoredInv

LEMMA NextKeepsFailure ==
  ASSUME Assumptions, Inv, FailureInv, [Next]_vars
  PROVE  FailureInv'
<1>1. ASSUME NEW th \in Threads, Step(th)
      PROVE  FailureInv'
  <2>1. CASE Resolve(th)
    BY <2>1, ResolveKeepsFailure
  <2>2. CASE Claim(th)
    BY <2>2, ClaimKeepsFailure
  <2>3. CASE Record(th)
    BY <2>3, RecordKeepsFailure
  <2>4. CASE Touch(th) \/ Work(th) \/ Leaf(th)
    BY <2>4, CallKeepsFailure
  <2>5. CASE \/ Seed(th) \/ MaybeFinish(th) \/ Wait(th) \/ Submit(th) \/ Enqueue(th) \/ Dispatch(th) \/ Enter(th)
             \/ Descend(th) \/ BottomUp(th) \/ Unit(th) \/ ChildDone(th) \/ Complete(th) \/ Again(th) \/ Batch(th)
    <3>1. /\ ~At(th, "claim") /\ ~At(th, "record") /\ Item(th).op \notin {"touch", "work", "leaf"}
          /\ UNCHANGED <<claimed, hasException, exception, failed>> /\ done' = done /\ sync' = sync
      BY <2>5 DEF Seed, MaybeFinish, Wait, Submit, Enqueue, Dispatch, Enter, Descend, BottomUp, Unit, ChildDone,
         Complete, Again, Batch, At, Item, state, visits, memory, Load, Relaxed
    <3>2. ~Claim(th)
      BY <3>1 DEF Claim
    <3>3. ~At(th, "claim")' /\ ~At(th, "record")'
      BY <1>1, <3>1, <3>2, StepIsHarmless
    <3> QED BY <1>1, <3>1, <3>3, Carries, SMTT(30)
  <2> QED BY <1>1, <2>1, <2>2, <2>3, <2>4, <2>5 DEF Step
<1>2. ASSUME NEW w \in Workers, Start(w)
      PROVE  FailureInv'
  BY <1>2, StartKeepsFailure
<1>3. CASE UNCHANGED vars
  BY <1>3 DEF vars, state, visits, memory, FailureInv, ClaimedInv, RecordedInv, HeldInv, StoredInv, At, Item
<1> QED BY <1>1, <1>2, <1>3 DEF Next, Returned

LEMMA InitFailure ==
  ASSUME Assumptions, Init
  PROVE  FailureInv
<1>1. \A th \in Threads : ~At(th, "claim") /\ ~At(th, "record")
  <2>1. Inv
    BY InitInv
  <2>2. ASSUME NEW th \in Threads, NEW op \in {"claim", "record"}, At(th, op)
        PROVE  FALSE
    <3>1. agenda[th] # <<>> /\ Item(th).op = op
      BY <2>2 DEF At, Item
    <3>2. Item(th).op \notin Ending /\ Item(th).op # "seed"
      BY <3>1 DEF Ending
    <3>3. ~Unseeded /\ pending > 0
      BY <2>1, <3>1, <3>2, Busy
    <3> QED BY <3>3 DEF Init
  <2> QED BY <2>2
<1> QED BY <1>1 DEF Init, FailureInv, ClaimedInv, RecordedInv, HeldInv, StoredInv, Assumptions

\* For every forest and however the threads interleave: when a call resolves its promise after
\* visitors threw, the exception of one of them is stored, and is what the promise gets unless
\* the store was not visible to who resolved (ForestTraversal.h:233-254); and no exception comes
\* from nowhere.
THEOREM FailuresAreRecorded == ASSUME Assumptions PROVE Spec => []FailureIsRecorded
<1>1. Init => FailureInv
  BY InitFailure
<1>2. Inv /\ FailureInv /\ [Next]_vars => FailureInv'
  BY NextKeepsFailure
<1>3. Inv /\ FailureInv => FailureIsRecorded
  BY DEF Inv, TypeInv, FailureInv, StoredInv, FailureIsRecorded
<1> QED BY <1>1, <1>2, <1>3, Invariance, PTL DEF Spec
-----------------------------------------------------------------------------
(* Top-down traversals *)

\* What a thread that has seen what is in seen may do: what it is about to visit, or to have
\* visited by a job, lies below what was visited.
Below(it, seen) ==
  \/ it.op \in {"seed", "finish", "wait", "resolve", "claim", "record"}
  \/ it.op \in {"dispatch", "enter", "touch", "topDown"} /\ Parents(it.node) \subseteq seen
  \/ it.op = "descend" /\ it.node \in seen
  \/ it.op \in {"submit", "enqueue"} /\ it.job.op = "topDown" /\ Parents(it.job.node) \subseteq seen

TopDownInv ==
  /\ run.mode = "topDown"
  /\ \A th \in Threads : \A i \in DOMAIN agenda[th] : Below(agenda[th][i], view[th])
  /\ \A j \in DOMAIN jobs : Below(j.job, j.seen)
\* Nobody has seen the visit of a node that was not visited.
SeenInv ==
  /\ \A th \in Threads : view[th] \cap Nodes \subseteq visited
  /\ \A o \in Objects : sync[o] \cap Nodes \subseteq visited
  /\ \A j \in DOMAIN jobs : j.seen \cap Nodes \subseteq visited

\* In a forest a root has no parent, and a child has one.
LEMMA OneParent ==
  ASSUME Assumptions, TypeInv
  PROVE  /\ \A i \in DOMAIN run.roots : Parents(run.roots[i]) = {}
         /\ \A n \in Nodes : \A i \in DOMAIN Kids(n) : Parents(Kids(n)[i]) = {n}
<1> DEFINE Place == {<<None, i>> : i \in DOMAIN run.roots} \cup UNION {{<<p, i>> : i \in DOMAIN run.kids[p]} : p \in Nodes}
           Sits(pl) == IF pl[1] = None THEN run.roots[pl[2]] ELSE run.kids[pl[1]][pl[2]]
<1>1. \A pl, ql \in Place : Sits(pl) = Sits(ql) => pl = ql
  <2>1. IsForest(run)
    BY DEF Assumptions, TypeInv
  <2> QED BY <2>1 DEF IsForest
<1>2. /\ \A i \in DOMAIN run.roots : <<None, i>> \in Place /\ Sits(<<None, i>>) = run.roots[i]
      /\ \A p \in Nodes : p # None
      /\ \A p \in Nodes : \A i \in DOMAIN Kids(p) : <<p, i>> \in Place /\ Sits(<<p, i>>) = Kids(p)[i]
  <2>1. \A p \in Nodes : p # None
    BY DEF Assumptions
  <2> QED BY <2>1 DEF Kids
<1> HIDE DEF Place, Sits
<1>3. ASSUME NEW i \in DOMAIN run.roots
      PROVE  Parents(run.roots[i]) = {}
  <2> SUFFICES ASSUME NEW p \in Parents(run.roots[i]) PROVE FALSE
    OBVIOUS
  <2>1. p \in Nodes
    BY DEF Parents
  <2>2. PICK k \in DOMAIN Kids(p) : Kids(p)[k] = run.roots[i]
    BY DEF Parents
  <2>3. <<None, i>> \in Place /\ <<p, k>> \in Place /\ Sits(<<None, i>>) = Sits(<<p, k>>)
    BY <1>2, <2>1, <2>2
  <2>4. <<None, i>> = <<p, k>>
    BY <1>1, <2>3
  <2> QED BY <1>2, <2>1, <2>4
<1>4. ASSUME NEW n \in Nodes, NEW i \in DOMAIN Kids(n)
      PROVE  Parents(Kids(n)[i]) = {n}
  <2>1. n \in Parents(Kids(n)[i])
    BY DEF Parents
  <2>2. ASSUME NEW p \in Parents(Kids(n)[i])
        PROVE  p = n
    <3>1. p \in Nodes
      BY DEF Parents
    <3>2. PICK k \in DOMAIN Kids(p) : Kids(p)[k] = Kids(n)[i]
      BY DEF Parents
    <3>3. <<n, i>> \in Place /\ <<p, k>> \in Place /\ Sits(<<n, i>>) = Sits(<<p, k>>)
      BY <1>2, <3>1, <3>2
    <3>4. <<n, i>> = <<p, k>>
      BY <1>1, <3>3
    <3> QED BY <3>4
  <2> QED BY <2>1, <2>2
<1> QED BY <1>3, <1>4

LEMMA BelowGrows ==
  ASSUME NEW it, NEW seen, NEW more, seen \subseteq more, Below(it, seen)
  PROVE  Below(it, more)
BY DEF Below, Parents, Kids

\* The first item of an agenda is replaced by items that are below what the thread sees then.
LEMMA GoesBelow ==
  ASSUME Assumptions, Inv, TopDownInv, NEW th \in Threads, agenda[th] # <<>>, run' = run, jobs' = jobs,
         \A u \in Threads : view[u] \subseteq view'[u],
         NEW items \in Seq(Items), Replace(th, items),
         \A i \in DOMAIN items : Below(items[i], view'[th])
  PROVE  TopDownInv'
<1> DEFINE s == agenda[th]
           q == items \o Tail(s)
<1>0. agenda \in [Threads -> Seq(Items)]
  BY DEF Inv, TypeInv
<1>1. s \in Seq(Items)
  BY <1>0
<1>2. s # <<>>
  OBVIOUS
<1>3. agenda' = [agenda EXCEPT ![th] = q]
  BY DEF Replace
<1>4. q = items \o Tail(s)
  OBVIOUS
<1> HIDE DEF q
<1>5. agenda'[th] = q /\ \A u \in Threads : u # th => agenda'[u] = agenda[u]
  BY <1>0, <1>3
<1> HIDE DEF s
<1>6. /\ q \in Seq(Items) /\ Len(items) \in Nat /\ Len(s) \in Nat \ {0} /\ Len(q) = Len(items) + (Len(s) - 1)
      /\ \A i \in 1 .. Len(q) : q[i] = IF i <= Len(items) THEN items[i] ELSE s[i - Len(items) + 1]
  BY <1>1, <1>2, <1>4, Spliced
<1>7. DOMAIN q = 1 .. Len(q) /\ DOMAIN s = 1 .. Len(s) /\ DOMAIN items = 1 .. Len(items)
  BY <1>1, <1>6, LenProperties
<1>8. ASSUME NEW i \in DOMAIN q
      PROVE  Below(q[i], view'[th])
  <2>1. CASE i <= Len(items)
    BY <1>6, <1>7, <2>1
  <2>2. CASE ~(i <= Len(items))
    <3>1. i - Len(items) + 1 \in 1 .. Len(s)
      <4>1. i \in Nat /\ i <= Len(items) + (Len(s) - 1) /\ i > Len(items)
        BY <1>6, <1>7, <2>2
      <4> QED BY <1>6, <4>1
    <3>2. q[i] = s[i - Len(items) + 1]
      BY <1>6, <1>7, <2>2
    <3>3. Below(q[i], view[th])
      BY <1>7, <3>1, <3>2 DEF TopDownInv, s
    <3> QED BY <3>3, BelowGrows
  <2> QED BY <2>1, <2>2
<1>9. ASSUME NEW u \in Threads, NEW i \in DOMAIN agenda'[u]
       PROVE  Below(agenda'[u][i], view'[u])
  <2>1. CASE u = th
    BY <1>5, <1>8, <2>1
  <2>2. CASE u # th
    <3>1. agenda'[u] = agenda[u] /\ i \in DOMAIN agenda[u]
      BY <1>5, <2>2
    <3>2. Below(agenda[u][i], view[u])
      BY <3>1 DEF TopDownInv
    <3> QED BY <3>1, <3>2, BelowGrows
  <2> QED BY <2>1, <2>2
<1> QED BY <1>9 DEF TopDownInv, Below, Parents, Kids

\* Of the steps that a top-down traversal does not take.
LEMMA BelowOps ==
  ASSUME TopDownInv, NEW th \in Threads, Inv, agenda[th] # <<>>
  PROVE  Below(Item(th), view[th])
<1>1. agenda[th] \in Seq(Items)
  BY DEF Inv, TypeInv
<1>2. Len(agenda[th]) \in Nat \ {0} /\ Head(agenda[th]) = agenda[th][1] /\ DOMAIN agenda[th] = 1 .. Len(agenda[th])
  BY <1>1, EmptySeq, LenProperties
<1>3. 1 \in DOMAIN agenda[th]
  BY <1>2
<1> QED BY <1>2, <1>3 DEF TopDownInv, Item

LEMMA OneItem ==
  ASSUME NEW x \in Items, NEW seen, Below(x, seen)
  PROVE  /\ <<>> \in Seq(Items) /\ \A i \in DOMAIN <<>> : Below(<<>>[i], seen)
         /\ <<x>> \in Seq(Items) /\ \A i \in DOMAIN <<x>> : Below(<<x>>[i], seen)
BY Singles

LEMMA StepKeepsTopDown ==
  ASSUME Assumptions, Inv, TopDownInv, NEW th \in Threads, Step(th), ~Enqueue(th)
  PROVE  TopDownInv'
<1> USE DEF state, visits, memory
<1> DEFINE n == Item(th).node
<1>1. agenda[th] # <<>> /\ run' = run /\ \A u \in Threads : view[u] \subseteq view'[u]
  BY StepKeeps, StepGrows DEF Grow
<1>2. Below(Item(th), view[th])
  BY <1>1, BelowOps
<1>3. jobs' = jobs
  BY DEF Step, Seed, MaybeFinish, Resolve, Wait, Claim, Record, Submit, Dispatch, Enter, Touch, Descend,
     BottomUp, Unit, ChildDone, Complete, Again, Work, Batch, Leaf
<1>4. Item(th) \in Items
  BY <1>1, ItemFacts
<1>5. ASSUME NEW x \in Items, Below(x, view'[th]), Replace(th, <<>>) \/ Replace(th, <<x>>)
      PROVE  TopDownInv'
  BY <1>1, <1>3, <1>5, OneItem, GoesBelow
<1>6. CASE Seed(th) \/ MaybeFinish(th) \/ Resolve(th) \/ Wait(th) \/ Record(th)
  <2>1. Replace(th, <<>>) \/ Replace(th, <<Do("resolve", None)>>)
    BY <1>6 DEF Seed, MaybeFinish, Resolve, Wait, Record
  <2>2. Do("resolve", None) \in Items /\ Do("resolve", None).op = "resolve"
    BY DoFacts
  <2>3. Below(Do("resolve", None), view'[th])
    BY <2>2 DEF Below
  <2> QED BY <1>5, <2>1, <2>2, <2>3
<1>7. CASE Claim(th)
  <2>1. Replace(th, <<>>) \/ Replace(th, <<Do("record", n)>>)
    BY <1>7 DEF Claim
  <2>2. n \in Nodes /\ "record" \in Plain
    BY <1>4, <1>7 DEF Claim, At, Item, Items, Plain
  <2>3. Do("record", n) \in Items /\ Do("record", n).op = "record"
    BY <2>2, DoFacts
  <2>4. Below(Do("record", n), view'[th])
    BY <2>3 DEF Below
  <2> HIDE DEF n
  <2> QED BY <1>5, <2>1, <2>3, <2>4
<1>8. CASE Dispatch(th) \/ Enter(th)
  <2>1. Item(th).op \in {"dispatch", "enter"} /\ n \in Nodes /\ Parents(n) \subseteq view[th]
    <3>1. Item(th).op \in {"dispatch", "enter"}
      BY <1>8 DEF Dispatch, Enter, At, Item
    <3> QED BY <1>2, <1>4, <3>1 DEF Below, Items, Plain
  <2>2. PICK x : /\ Replace(th, <<>>) \/ Replace(th, <<x>>)
                 /\ x \in {[op |-> "submit", job |-> Do("topDown", n)], Do("enter", n), Do("touch", n)}
    BY <1>8 DEF Dispatch, Enter, Schedule
  <2>3. x \in Items
    <3>1. Do("topDown", n) \in Jobs
      BY <2>1 DEF Do, Jobs
    <3>2. [op |-> "submit", job |-> Do("topDown", n)] \in Items
      BY <3>1 DEF Items
    <3>3. "enter" \in Plain /\ "touch" \in Plain
      BY DEF Plain
    <3> QED BY <2>1, <2>2, <3>2, <3>3, DoFacts
  <2>4. Below(x, view'[th])
    <3>1. Parents(n) \subseteq view'[th]
      BY <1>1, <2>1
    <3>2. \A op : Do(op, n).op = op /\ Do(op, n).node = n
      BY DoFacts
    <3>3. CASE x = [op |-> "submit", job |-> Do("topDown", n)]
      <4>1. x.op = "submit" /\ x.job = Do("topDown", n)
        BY <3>3
      <4> QED BY <3>1, <3>2, <4>1 DEF Below
    <3>4. CASE x \in {Do("enter", n), Do("touch", n)}
      <4>1. x.op \in {"enter", "touch"} /\ x.node = n
        BY <3>2, <3>4
      <4> QED BY <3>1, <4>1 DEF Below
    <3> QED BY <2>2, <3>3, <3>4
  <2> QED BY <1>5, <2>2, <2>3, <2>4
<1>9. CASE Touch(th)
  <2>1. Item(th).op = "touch" /\ n \in Nodes
    BY <1>4, <1>9 DEF Touch, At, Item, Items, Plain
  <2>2. CASE Replace(th, <<Do("claim", n)>> \o <<>>)
    <3>1. Do("claim", n) \in Items /\ Do("claim", n).op = "claim"
      BY <2>1, DoFacts DEF Plain
    <3>2. <<Do("claim", n)>> \o <<>> = <<Do("claim", n)>>
      BY <3>1, ConcatEmptySeq
    <3>3. Below(Do("claim", n), view'[th])
      BY <3>1 DEF Below
    <3> HIDE DEF n
    <3> QED BY <1>5, <2>2, <3>1, <3>2, <3>3
  <2>3. CASE Replace(th, <<Do("descend", n)>>) /\ view' = [view EXCEPT ![th] = @ \cup {n}]
    <3>1. Do("descend", n) \in Items /\ Do("descend", n).op = "descend" /\ Do("descend", n).node = n
      BY <2>1, DoFacts DEF Plain
    <3>2. n \in view'[th]
      BY <2>3 DEF Inv, TypeInv, DataInv
    <3>3. Below(Do("descend", n), view'[th])
      BY <3>1, <3>2 DEF Below
    <3> HIDE DEF n
    <3> QED BY <1>5, <2>3, <3>1, <3>3
  <2> QED BY <1>9, <2>2, <2>3 DEF Touch, Call
<1>10. CASE Descend(th)
  <2>1. n \in Nodes /\ n \in view[th]
    <3>1. Item(th).op = "descend"
      BY <1>10 DEF Descend, At, Item
    <3> QED BY <1>2, <1>4, <3>1 DEF Below, Items, Plain
  <2>2. Kids(n) \in Seq(Nodes) /\ Assumptions /\ TypeInv
    BY <2>1, Basics DEF Inv
  <2> DEFINE items == Each("dispatch", Kids(n))
  <2>3. /\ items \in Seq(Items) /\ DOMAIN items = 1 .. Len(Kids(n)) /\ DOMAIN Kids(n) = 1 .. Len(Kids(n))
        /\ \A i \in 1 .. Len(Kids(n)) : items[i] = Do("dispatch", Kids(n)[i])
    BY <2>2, EachFacts, LenProperties
  <2>4. \A i \in DOMAIN Kids(n) : Parents(Kids(n)[i]) = {n}
    BY <2>1, <2>2, OneParent
  <2>5. ASSUME NEW i \in DOMAIN items
        PROVE  Below(items[i], view'[th])
    <3>1. items[i].op = "dispatch" /\ items[i].node = Kids(n)[i] /\ Parents(Kids(n)[i]) = {n}
      <4>1. i \in DOMAIN Kids(n) /\ items[i] = Do("dispatch", Kids(n)[i])
        BY <2>3
      <4>2. Parents(Kids(n)[i]) = {n}
        BY <2>4, <4>1
      <4> HIDE DEF n, items
      <4> QED BY <4>1, <4>2, DoFacts
    <3>2. {n} \subseteq view'[th]
      BY <1>1, <2>1
    <3> QED BY <3>1, <3>2 DEF Below
  <2>6. CASE Replace(th, <<>>)
    BY <1>1, <1>3, <2>6, NothingFacts, GoesBelow
  <2>7. CASE Replace(th, items)
    <3> HIDE DEF items, n
    <3> QED BY <1>1, <1>3, <2>3, <2>5, <2>7, GoesBelow
  <2> QED BY <1>10, <2>6, <2>7 DEF Descend
<1>11. CASE Submit(th)
  <2> DEFINE job == Item(th).job
  <2>1. job \in Jobs /\ job.op = "topDown" /\ Parents(job.node) \subseteq view[th]
    <3>1. Item(th).op = "submit"
      BY <1>11 DEF Submit, At, Item
    <3> QED BY <1>2, <1>4, <3>1, JobFacts DEF Below
  <2> DEFINE x == [op |-> "enqueue", job |-> job]
  <2>2. Replace(th, <<x>>)
    BY <1>11, <2>1 DEF Submit
  <2>3. x \in Items /\ x.op = "enqueue" /\ x.job = job
    BY <2>1 DEF Items
  <2>4. Below(x, view'[th])
    BY <1>1, <2>1, <2>3 DEF Below
  <2> HIDE DEF x
  <2> QED BY <1>5, <2>2, <2>3, <2>4
<1>12. CASE \/ BottomUp(th) \/ Unit(th) \/ ChildDone(th) \/ Complete(th) \/ Again(th) \/ Work(th)
            \/ Batch(th) \/ Leaf(th)
  <2>1. Item(th).op \in {"visit", "unit", "childDone", "complete", "again", "work", "batch", "leaf"}
    BY <1>12 DEF BottomUp, Unit, ChildDone, Complete, Again, Work, Batch, Leaf, At, Item
  <2> QED BY <1>2, <2>1, SMTT(30) DEF Below
<1> QED BY <1>6, <1>7, <1>8, <1>9, <1>10, <1>11, <1>12 DEF Step

LEMMA EnqueueKeepsTopDown ==
  ASSUME Assumptions, Inv, TopDownInv, NEW th \in Threads, Enqueue(th)
  PROVE  TopDownInv'
<1> USE DEF memory
<1> DEFINE j == [job |-> Item(th).job, seen |-> view[th]]
<1>1. /\ agenda[th] # <<>> /\ Item(th).op = "enqueue" /\ jobs' = jobs (+) SetToBag({j})
      /\ Replace(th, <<>>) /\ UNCHANGED <<run, view>>
  BY DEF Enqueue, At, Item
<1>2. DOMAIN jobs' = DOMAIN jobs \cup {j}
  <2>1. IsABag(jobs)
    BY DEF Inv, TypeInv
  <2> HIDE DEF j
  <2> QED BY <1>1, <2>1, QueueGrows
<1>3. Below(j.job, j.seen)
  <2>1. Item(th).job.op = "topDown" /\ Parents(Item(th).job.node) \subseteq view[th]
    BY <1>1, BelowOps DEF Below
  <2> QED BY <2>1 DEF Below
<1>4. \A k \in DOMAIN jobs' : Below(k.job, k.seen)
  <2> HIDE DEF j
  <2> QED BY <1>2, <1>3 DEF TopDownInv
<1>5. \A u \in Threads : u # th => agenda'[u] = agenda[u]
  BY <1>1 DEF Replace, Inv, TypeInv
<1>6. agenda'[th] = Tail(agenda[th])
  <2>1. agenda[th] \in Seq(Items)
    BY DEF Inv, TypeInv
  <2>2. Tail(agenda[th]) \in Seq(Items)
    BY <1>1, <2>1, HeadTailProperties
  <2>3. agenda'[th] = <<>> \o Tail(agenda[th])
    BY <1>1 DEF Replace, Inv, TypeInv
  <2> QED BY <2>2, <2>3, ConcatEmptySeq
<1>7. ASSUME NEW i \in DOMAIN agenda'[th]
      PROVE  Below(agenda'[th][i], view[th])
  <2>1. agenda[th] \in Seq(Items)
    BY DEF Inv, TypeInv
  <2>2. Len(agenda[th]) \in Nat \ {0} /\ DOMAIN agenda[th] = 1 .. Len(agenda[th])
    BY <1>1, <2>1, EmptySeq, LenProperties
  <2>3. /\ Tail(agenda[th]) \in Seq(Items) /\ Len(Tail(agenda[th])) = Len(agenda[th]) - 1
        /\ \A k \in 1 .. Len(Tail(agenda[th])) : Tail(agenda[th])[k] = agenda[th][k + 1]
    BY <1>1, <2>1, HeadTailProperties
  <2>4. i \in 1 .. Len(agenda[th]) - 1
    BY <1>6, <2>3, LenProperties
  <2>5. i + 1 \in DOMAIN agenda[th] /\ agenda'[th][i] = agenda[th][i + 1]
    BY <1>6, <2>2, <2>3, <2>4
  <2> QED BY <2>5 DEF TopDownInv
<1>8. \A u \in Threads : \A i \in DOMAIN agenda'[u] : Below(agenda'[u][i], view[u])
  BY <1>5, <1>7 DEF TopDownInv
<1>9. \A u \in Threads : \A i \in DOMAIN agenda'[u] : Below(agenda'[u][i], view'[u])
  BY <1>1, <1>8
<1>10. run' = run
  BY <1>1
<1> QED BY <1>4, <1>9, <1>10 DEF TopDownInv, Below, Parents, Kids

LEMMA StartKeepsTopDown ==
  ASSUME Assumptions, Inv, TopDownInv, NEW w \in Workers, Start(w)
  PROVE  TopDownInv'
<1>1. PICK j \in DOMAIN jobs : /\ jobs' = jobs (-) SetToBag({j})
                               /\ agenda' = [agenda EXCEPT ![w] = Body(j.job)]
                               /\ view' = [view EXCEPT ![w] = @ \cup j.seen]
  BY DEF Start, BagToSet
<1>2. run' = run /\ w \in Threads /\ agenda \in [Threads -> Seq(Items)] /\ DataInv
  BY DEF Start, Threads, Inv, TypeInv
<1>3. DOMAIN jobs' \subseteq DOMAIN jobs
  <2>1. IsABag(jobs)
    BY DEF Inv, TypeInv
  <2> QED BY <1>1, <2>1, QueueShrinks
<1>4. j.job \in Jobs /\ j.job.op = "topDown" /\ Parents(j.job.node) \subseteq j.seen
  <2>1. j.job \in Jobs /\ Below(j.job, j.seen)
    BY DEF Inv, TypeInv, TopDownInv
  <2> QED BY <2>1 DEF Below, Jobs
<1>5. /\ \A u \in Threads : u # w => agenda'[u] = agenda[u] /\ view'[u] = view[u]
      /\ agenda'[w] = Body(j.job) /\ view'[w] = view[w] \cup j.seen
  BY <1>1, <1>2 DEF DataInv
<1>6. Body(j.job) = <<Do("enter", j.job.node), Do("finish", None)>>
  <2>1. "topDown" # "node"
    OBVIOUS
  <2> QED BY <1>4, <2>1, Zenon DEF Body
<1>7. \A i \in DOMAIN agenda'[w] : Below(agenda'[w][i], view'[w])
  <2> DEFINE x == Do("enter", j.job.node)
             y == Do("finish", None)
  <2>1. x.op = "enter" /\ x.node = j.job.node /\ y.op = "finish"
    BY DoFacts
  <2>2. Below(x, view'[w]) /\ Below(y, view'[w])
    <3>1. Parents(x.node) \subseteq view'[w]
      BY <1>4, <1>5, <2>1
    <3> HIDE DEF x, y
    <3> QED BY <2>1, <3>1 DEF Below
  <2>3. DOMAIN <<x, y>> = {1, 2} /\ <<x, y>>[1] = x /\ <<x, y>>[2] = y
    OBVIOUS
  <2> HIDE DEF x, y
  <2> QED BY <1>5, <1>6, <2>2, <2>3 DEF x, y
<1>8. \A u \in Threads : \A i \in DOMAIN agenda'[u] : Below(agenda'[u][i], view'[u])
  BY <1>5, <1>7 DEF TopDownInv
<1>9. \A k \in DOMAIN jobs' : Below(k.job, k.seen)
  BY <1>3 DEF TopDownInv
<1> QED BY <1>2, <1>8, <1>9 DEF TopDownInv, Below, Parents, Kids

LEMMA NextKeepsTopDown ==
  ASSUME Assumptions, Inv, TopDownInv, [Next]_vars
  PROVE  TopDownInv'
<1>1. ASSUME NEW th \in Threads, Step(th)
      PROVE  TopDownInv'
  BY <1>1, StepKeepsTopDown, EnqueueKeepsTopDown
<1>2. ASSUME NEW w \in Workers, Start(w)
      PROVE  TopDownInv'
  BY <1>2, StartKeepsTopDown
<1>3. CASE UNCHANGED vars
  BY <1>3 DEF vars, state, visits, memory, TopDownInv, Below, Parents, Kids
<1> QED BY <1>1, <1>2, <1>3 DEF Next, Returned

LEMMA InitTopDown ==
  ASSUME Assumptions, Init, run.mode = "topDown"
  PROVE  TopDownInv
<1> DEFINE e == Each("dispatch", run.roots)
           n == Len(run.roots)
           x == Do("seed", None)
           y == Do("finish", None)
           z == Do("wait", None)
           s == (<<x>> \o e) \o <<y, z>>
<1>1. Inv /\ run.roots \in Seq(Nodes) /\ agenda[Caller] = s
  <2>1. Inv
    BY InitInv
  <2>2. run.roots \in Seq(Nodes)
    BY <2>1, Basics DEF Inv
  <2> QED BY <2>1, <2>2 DEF Init, Threads
<1>2. /\ e \in Seq(Items) /\ Len(e) = n /\ n \in Nat /\ DOMAIN run.roots = 1 .. n
      /\ \A i \in 1 .. n : e[i] = Do("dispatch", run.roots[i])
  <2>1. DOMAIN run.roots = 1 .. n
    BY <1>1, LenProperties
  <2>2. "dispatch" \in {"dispatch", "visit"}
    OBVIOUS
  <2> QED BY <1>1, <2>1, <2>2, EachFacts
<1>3. \A i \in 1 .. n : Parents(run.roots[i]) = {}
  BY <1>1, <1>2, OneParent DEF Inv
<1>4. \A i \in 1 .. n : Below(e[i], {})
  <2>1. ASSUME NEW i \in 1 .. n
        PROVE  Below(e[i], {})
    <3>1. e[i].op = "dispatch" /\ e[i].node = run.roots[i]
      BY <1>2, DoFacts
    <3>2. Parents(e[i].node) \subseteq {}
      BY <1>3, <3>1
    <3> HIDE DEF e
    <3> QED BY <3>1, <3>2 DEF Below
  <2> QED BY <2>1
<1>5. Below(x, {}) /\ Below(y, {}) /\ Below(z, {}) /\ x \in Items /\ y \in Items /\ z \in Items
  BY DoFacts DEF Below
<1> HIDE DEF e, n, x, y, z
<1>6. ASSUME NEW i \in DOMAIN s
      PROVE  Below(s[i], {})
  <2> DEFINE p == <<x>>
             q == <<y, z>>
  <2>1. p \in Seq(Items) /\ Len(p) = 1 /\ p[1] = x /\ q \in Seq(Items) /\ Len(q) = 2 /\ q[1] = y /\ q[2] = z
    BY <1>5, Singles
  <2> HIDE DEF p, q
  <2> DEFINE a == p \o e
  <2>2. /\ a \in Seq(Items) /\ Len(a) = Len(p) + Len(e)
        /\ \A k \in 1 .. Len(p) + Len(e) : a[k] = IF k <= Len(p) THEN p[k] ELSE e[k - Len(p)]
    BY <1>2, <2>1, ConcatProperties
  <2> HIDE DEF a
  <2>3. /\ a \o q \in Seq(Items) /\ Len(a \o q) = Len(a) + Len(q)
        /\ \A k \in 1 .. Len(a) + Len(q) : (a \o q)[k] = IF k <= Len(a) THEN a[k] ELSE q[k - Len(a)]
    <3>1. a \in Seq(Items)
      BY <2>2
    <3>2. q \in Seq(Items)
      BY <2>1
    <3> QED BY <3>1, <3>2, ConcatProperties
  <2>4. s = a \o q
    BY DEF a, p, q
  <2>5. i \in 1 .. 1 + n + 2
    BY <1>2, <2>1, <2>2, <2>3, <2>4, LenProperties
  <2>6. s[i] = IF i <= 1 + n THEN a[i] ELSE q[i - (1 + n)]
    BY <1>2, <2>1, <2>2, <2>3, <2>4, <2>5
  <2>7. CASE i <= 1 + n
    <3>1. i \in 1 .. 1 + n
      BY <1>2, <2>5, <2>7
    <3>2. a[i] = IF i <= 1 THEN p[i] ELSE e[i - 1]
      BY <1>2, <2>1, <2>2, <3>1
    <3>3. i <= 1 => i = 1
      BY <3>1
    <3>4. ~(i <= 1) => i - 1 \in 1 .. n
      BY <1>2, <3>1
    <3> QED BY <1>4, <1>5, <2>1, <2>6, <2>7, <3>2, <3>3, <3>4
  <2>8. CASE ~(i <= 1 + n)
    <3>1. i - (1 + n) \in {1, 2}
      BY <1>2, <2>5, <2>8
    <3> QED BY <1>5, <2>1, <2>6, <2>8, <3>1
  <2> QED BY <2>7, <2>8
<1>7. \A th \in Threads : view[th] = {} /\ (th # Caller => DOMAIN agenda[th] = {})
  BY DEF Init
<1>8. DOMAIN jobs = {}
  BY BagFacts DEF Init
<1>9. ASSUME NEW th \in Threads, NEW i \in DOMAIN agenda[th]
      PROVE  Below(agenda[th][i], view[th])
  <2> HIDE DEF s
  <2>1. th = Caller
    BY <1>7
  <2> QED BY <1>1, <1>6, <1>7, <2>1
<1> QED BY <1>8, <1>9 DEF TopDownInv

\* What is known of visits, of steps that make nothing known.
LEMMA SeenAccess ==
  ASSUME Inv, SeenInv, NEW th \in Threads, NEW o \in Objects,
         AcqRel(th, o) \/ Load(th, TRUE) \/ Load(th, FALSE) \/ UNCHANGED memory,
         visited' = visited, jobs' = jobs
  PROVE  SeenInv'
<1>1. DataInv /\ "raised" \in Objects
  BY DEF Inv, TypeInv, Objects
<1>2. CASE AcqRel(th, o)
  <2>1. \A u \in Threads : view'[u] \subseteq view[u] \cup sync[o]
    BY <1>1, <1>2 DEF DataInv, AcqRel
  <2>2. \A p \in Objects : sync'[p] \subseteq sync[p] \cup view[th]
    BY <1>1, <1>2 DEF DataInv, AcqRel
  <2> QED BY <2>1, <2>2 DEF SeenInv
<1>3. CASE UNCHANGED memory
  BY <1>3 DEF SeenInv, memory
<1>4. CASE (Load(th, TRUE) \/ Load(th, FALSE)) /\ ~UNCHANGED memory
  <2>1. view' = [view EXCEPT ![th] = @ \cup sync["raised"]] /\ sync' = sync
    BY <1>4 DEF Load
  <2>2. \A u \in Threads : view'[u] \subseteq view[u] \cup sync["raised"]
    BY <1>1, <2>1 DEF DataInv
  <2> QED BY <1>1, <2>1, <2>2 DEF SeenInv
<1> QED BY <1>2, <1>3, <1>4

LEMMA StepKeepsSeen ==
  ASSUME Assumptions, Inv, SeenInv, NEW th \in Threads, Step(th)
  PROVE  SeenInv'
<1> USE DEF memory, visits
<1>1. DataInv /\ "claim" \in Objects /\ "raised" \in Objects /\ "done" \in Objects
  BY DEF Inv, TypeInv, Objects
<1>2. CASE Seed(th) \/ MaybeFinish(th) \/ Submit(th) \/ Unit(th) \/ ChildDone(th)
  <2>1. UNCHANGED memory /\ visited' = visited /\ jobs' = jobs
    BY <1>2 DEF Seed, MaybeFinish, Submit, Unit, ChildDone, Relaxed
  <2> QED BY <1>1, <2>1, SeenAccess
<1>3. CASE Enter(th) \/ Descend(th) \/ Complete(th) \/ Again(th) \/ Batch(th) \/ Dispatch(th) \/ BottomUp(th)
  <2>1. (Load(th, TRUE) \/ Load(th, FALSE) \/ UNCHANGED memory) /\ visited' = visited /\ jobs' = jobs
    BY <1>3 DEF Enter, Descend, Complete, Again, Batch, Dispatch, BottomUp
  <2> QED BY <1>1, <2>1, SeenAccess
<1>4. CASE Touch(th) \/ Work(th) \/ Leaf(th)
  <2>1. /\ sync' = sync /\ jobs' = jobs
        /\ \/ visited' = visited /\ view' = view
           \/ \E n : visited' = visited \cup {n} /\ view' = [view EXCEPT ![th] = @ \cup {n}]
    BY <1>4 DEF Touch, Work, Leaf, Call
  <2>2. CASE visited' = visited /\ view' = view
    BY <2>1, <2>2 DEF SeenInv
  <2>3. ASSUME NEW n, visited' = visited \cup {n}, view' = [view EXCEPT ![th] = @ \cup {n}]
        PROVE  SeenInv'
    <3>1. \A u \in Threads : view'[u] \subseteq view[u] \cup {n}
      BY <1>1, <2>3 DEF DataInv
    <3> QED BY <2>1, <2>3, <3>1 DEF SeenInv
  <2> QED BY <2>1, <2>2, <2>3
<1>5. CASE Claim(th)
  <2>1. AcqRel(th, "claim") /\ visited' = visited /\ jobs' = jobs
    BY <1>5 DEF Claim
  <2> QED BY <1>1, <2>1, SeenAccess
<1>6. CASE Record(th) \/ Resolve(th)
  <2>1. PICK o \in Objects : \E add \in SUBSET {Raised} :
          view' = [view EXCEPT ![th] = @ \cup add] /\ sync' = [sync EXCEPT ![o] = view[th] \cup add]
    <3>1. CASE Record(th)
      BY <1>1, <3>1 DEF Record
    <3>2. CASE Resolve(th)
      <4>1. view' = [view EXCEPT ![th] = @ \cup {}] /\ sync' = [sync EXCEPT !["done"] = view[th] \cup {}]
        BY <1>1, <3>2 DEF Resolve, DataInv
      <4> QED BY <1>1, <4>1
    <3> QED BY <1>6, <3>1, <3>2
  <2>2. /\ \A u \in Threads : view'[u] \subseteq view[u] \cup {Raised}
        /\ \A p \in Objects : sync'[p] \subseteq sync[p] \cup view[th] \cup {Raised}
    BY <1>1, <2>1 DEF DataInv
  <2>3. Raised \notin Nodes /\ visited' = visited /\ jobs' = jobs
    BY <1>6 DEF Assumptions, Record, Resolve
  <2> QED BY <2>2, <2>3 DEF SeenInv
<1>7. CASE Wait(th)
  <2>1. sync' = sync /\ view' = [view EXCEPT ![th] = @ \cup sync["done"]] /\ visited' = visited /\ jobs' = jobs
    BY <1>7 DEF Wait
  <2>2. \A u \in Threads : view'[u] \subseteq view[u] \cup sync["done"]
    BY <1>1, <2>1 DEF DataInv
  <2> QED BY <1>1, <2>1, <2>2 DEF SeenInv
<1>8. CASE Enqueue(th)
  <2> DEFINE j == [job |-> Item(th).job, seen |-> view[th]]
  <2>1. UNCHANGED <<view, sync, visited>> /\ jobs' = jobs (+) SetToBag({j}) /\ j.seen = view[th]
    BY <1>8 DEF Enqueue
  <2>2. DOMAIN jobs' = DOMAIN jobs \cup {j}
    <3>1. IsABag(jobs)
      BY DEF Inv, TypeInv
    <3> HIDE DEF j
    <3> QED BY <2>1, <3>1, QueueGrows
  <2> HIDE DEF j
  <2> QED BY <2>1, <2>2 DEF SeenInv
<1> QED BY <1>2, <1>3, <1>4, <1>5, <1>6, <1>7, <1>8 DEF Step

LEMMA NextKeepsSeen ==
  ASSUME Assumptions, Inv, SeenInv, [Next]_vars
  PROVE  SeenInv'
<1>1. ASSUME NEW th \in Threads, Step(th)
      PROVE  SeenInv'
  BY <1>1, StepKeepsSeen
<1>2. ASSUME NEW w \in Workers, Start(w)
      PROVE  SeenInv'
  <2>1. PICK j \in DOMAIN jobs : /\ jobs' = jobs (-) SetToBag({j})
                                 /\ view' = [view EXCEPT ![w] = @ \cup j.seen]
    BY <1>2 DEF Start, BagToSet
  <2>2. w \in Threads /\ UNCHANGED <<sync, visited>>
    BY <1>2 DEF Threads, Start, visits
  <2>3. DOMAIN jobs' \subseteq DOMAIN jobs
    <3>1. IsABag(jobs)
      BY DEF Inv, TypeInv
    <3> QED BY <2>1, <3>1, QueueShrinks
  <2>4. \A u \in Threads : view'[u] \subseteq view[u] \cup j.seen
    BY <2>1, <2>2 DEF Inv, TypeInv, DataInv
  <2> QED BY <2>2, <2>3, <2>4 DEF SeenInv
<1>3. CASE UNCHANGED vars
  BY <1>3 DEF vars, visits, memory, SeenInv
<1> QED BY <1>1, <1>2, <1>3 DEF Next, Returned

\* A visit of a top-down traversal is that of a node all of whose parents the thread has seen.
LEMMA TopDownVisits ==
  ASSUME Assumptions, Inv, TopDownInv, SeenInv, [Next]_vars
  PROVE  \A n \in (visited' \ visited) \cup (failed' \ failed) : \E th \in Threads :
           Before(n) \subseteq view[th] /\ Touch(th) /\ n = Item(th).node
<1> USE DEF visits
<1> SUFFICES ASSUME NEW n \in (visited' \ visited) \cup (failed' \ failed)
             PROVE  \E th \in Threads : Before(n) \subseteq view[th] /\ Touch(th) /\ n = Item(th).node
  OBVIOUS
<1>1. ~UNCHANGED vars
  BY DEF vars
<1>2. ~Returned
  BY <1>1 DEF Returned
<1>3. \A w \in Workers : ~Start(w)
  BY DEF Start
<1>4. PICK th \in Threads : Step(th)
  BY <1>1, <1>2, <1>3 DEF Next
<1>5. Touch(th) \/ Work(th) \/ Leaf(th)
  BY <1>4 DEF Step, Seed, MaybeFinish, Resolve, Wait, Claim, Record, Submit, Enqueue, Dispatch, Enter,
     Descend, BottomUp, Unit, ChildDone, Complete, Again, Batch
<1>6. agenda[th] # <<>> /\ Item(th).op \in {"touch", "work", "leaf"}
  BY <1>5 DEF Touch, Work, Leaf, At, Item
<1>7. Item(th).op = "touch" /\ Parents(Item(th).node) \subseteq view[th]
  BY <1>6, BelowOps DEF Below
<1>8. Touch(th)
  BY <1>5, <1>7 DEF Work, Leaf, At, Item
<1>9. n = Item(th).node
  BY <1>8 DEF Touch, Call
<1>10. Before(n) = Parents(n)
  BY DEF Before, TopDownInv
<1> QED BY <1>7, <1>8, <1>9, <1>10

\* Whatever the visitors throw: on a node below another the visitor runs after it ran there, and
\* may rely on what it wrote there (ForestTraversal.h:317-332).
THEOREM ParentsComeFirst ==
  ASSUME Assumptions
  PROVE  Spec => SeesWhatIsAbove /\ (run.mode = "topDown" => NoVisitAboveFailure)
<1> DEFINE Sees  == run.mode = "topDown" =>
                      \A th \in Threads, n \in Nodes : Visits(th, n) => Before(n) \subseteq view[th]
           Above == \A n \in Nodes : n \in (visited' \cup failed') \ (visited \cup failed) => Before(n) \subseteq visited
           Down  == run.mode = "topDown"
           Known == Down => TopDownInv
<1>1. Init => Known /\ SeenInv
  <2>1. Init => SeenInv
    BY BagFacts DEF Init, SeenInv
  <2> QED BY <2>1, InitTopDown
<1>2. Inv /\ [Next]_vars => run' = run
  <2>1. ASSUME Inv, NEW th \in Threads, Step(th) PROVE run' = run
    BY <2>1, StepKeeps
  <2> QED BY <2>1 DEF Next, Start, Returned, vars
<1>3. Inv /\ Known /\ SeenInv /\ [Next]_vars => Known' /\ SeenInv' /\ (Down' <=> Down)
  BY <1>2, NextKeepsTopDown, NextKeepsSeen
<1>4. Inv /\ Known /\ SeenInv /\ [Next]_vars => [Sees]_vars
  <2> SUFFICES ASSUME Inv, TopDownInv, SeenInv, [Next]_vars, NEW th \in Threads, NEW n \in Nodes, Visits(th, n)
               PROVE  Before(n) \subseteq view[th]
    OBVIOUS
  <2>1. n \in visited' \ visited /\ agenda'[th] # agenda[th]
    BY DEF Visits
  <2>2. PICK u \in Threads : Before(n) \subseteq view[u] /\ Touch(u)
    BY <2>1, TopDownVisits
  <2>3. u = th
    BY <2>1, <2>2, StepKeeps DEF Touch, Call, Replace, Inv, TypeInv
  <2> QED BY <2>2, <2>3
<1>5. Inv /\ Known /\ Down /\ SeenInv /\ [Next]_vars => [Above]_vars
  <2> SUFFICES ASSUME Inv, TopDownInv, SeenInv, [Next]_vars, NEW n \in Nodes,
                      n \in (visited' \cup failed') \ (visited \cup failed)
               PROVE  Before(n) \subseteq visited
    OBVIOUS
  <2>1. PICK th \in Threads : Before(n) \subseteq view[th]
    BY TopDownVisits
  <2>2. Before(n) \subseteq Nodes
    BY DEF Before, Parents, TopDownInv
  <2> QED BY <2>1, <2>2 DEF SeenInv
<1> HIDE DEF Known, Down
<1>6. Down <=> run.mode = "topDown"
  BY DEF Down
<1> QED BY <1>1, <1>3, <1>4, <1>5, <1>6, Invariance, PTL DEF Spec, SeesWhatIsAbove, NoVisitAboveFailure
=============================================================================
