---------------------- MODULE ModelServing_proofs ----------------------
(***************************************************************************)
(* Proofs about ModelServing and the modules it is built from.             *)
(*                                                                         *)
(* The folds (PurgedFolds): whatever the sizes of the parts, the embargo   *)
(* and the events, nothing in a fold is learnt from the future, no event   *)
(* is tested twice, and purging drops only what it must.                   *)
(*                                                                         *)
(* The policies (ThresholdSelection, FoldScoring): whatever the samples    *)
(* are and whatever the models say of them, a policy that asks for a       *)
(* profit earned one where it was chosen, and trades no group that had its *)
(* chance and did not earn its keep.                                       *)
(*                                                                         *)
(* The artifact: for any number of folds, a live run approves nothing that *)
(* the folds had not approved of.                                          *)
(***************************************************************************)
EXTENDS ModelServing, NumberLemmas, SequenceTheorems, FiniteSetTheorems, TLAPS

\* While the events are being put in order there is no fold yet, and all that
\* has been tested lies before the test part of the window.
Progress ==
    /\ pc = "sample" => folds = <<>> /\ tuned = {}
    /\ \A k \in DOMAIN folds : \A i \in folds[k].test : i < FirstTest

\* The folds together: TestedOnce holds because Progress does.
IInv == TypeOK /\ Progress /\ NoLeak /\ TestedOnce

-----------------------------------------------------------------------------

\* The sizes are positive integers.
LEMMA Sizes ==
    /\ TrainSize \in Nat \ {0} /\ CalSize \in Nat \ {0} /\ TestSize \in Nat \ {0}
    /\ Embargo \in Nat /\ MaxEvents \in Nat
    /\ Gaps \subseteq Nat /\ Durations \subseteq Nat
  BY PurgedFoldsAssumption DEF PurgedFoldsAssumption

\* What the events hold, and their order.
LEMMA EventEntries ==
    ASSUME TypeOK
    PROVE  /\ Len(events) \in Nat /\ DOMAIN events = 1..Len(events)
           /\ \A i \in 1..Len(events) :
                 /\ events[i].at \in Nat /\ events[i].t1 \in Nat
                 /\ events[i].at <= events[i].t1
           /\ \A i, j \in 1..Len(events) : i <= j => events[i].at <= events[j].at
<1>1. events \in Seq(Event)
  BY DEF TypeOK
<1>2. Len(events) \in Nat /\ DOMAIN events = 1..Len(events)
  BY <1>1
<1>3. \A i \in 1..Len(events) : events[i] \in Event
  BY <1>1, <1>2
<1> QED  BY <1>2, <1>3 DEF Event, TypeOK

\* What purging keeps of events that precede the protected interval had ended
\* before everything in it began.
LEMMA PurgedEnded ==
    ASSUME TypeOK,
           NEW ids, ids \subseteq 1..Len(events),
           NEW first \in 1..Len(events), NEW end \in Nat,
           events[first].t1 <= end,
           \A i \in ids : i < first
    PROVE  /\ Purged(ids, events[first].at, end) \subseteq ids
           /\ \A i \in Purged(ids, events[first].at, end) :
              \A j \in first..Len(events) : events[i].t1 < events[j].at
<1>1. Purged(ids, events[first].at, end) \subseteq ids
  BY DEF Purged
<1>2. ASSUME NEW i \in Purged(ids, events[first].at, end),
             NEW j \in first..Len(events)
      PROVE  events[i].t1 < events[j].at
  <2>1. i \in 1..Len(events) /\ i < first /\ j \in 1..Len(events) /\ first <= j
    <3>1. i \in ids
      BY <1>1
    <3>2. Len(events) \in Nat
      BY EventEntries
    <3>3. first \in Int /\ first >= 1 /\ j \in Int /\ j >= first /\ j <= Len(events)
      BY <3>2
    <3> QED  BY <3>1, <3>2, <3>3
  <2>2. /\ events[i].at <= events[first].at /\ events[first].at <= events[j].at
        /\ events[first].at <= events[first].t1
    BY <2>1, EventEntries
  <2>3. ~ (events[i].at <= end /\ events[i].t1 >= events[first].at)
    BY DEF Purged
  <2>4. /\ events[i].at \in Nat /\ events[i].t1 \in Nat
        /\ events[first].at \in Nat /\ events[first].t1 \in Nat
        /\ events[j].at \in Nat
    BY <2>1, EventEntries
  <2> QED  BY <2>2, <2>3, <2>4
<1> QED  BY <1>1, <1>2

-----------------------------------------------------------------------------
(* The steps *)

\* The parts of a window that fits.
LEMMA WindowParts ==
    ASSUME TypeOK, start + WindowSize <= Len(events)
    PROVE  /\ FirstCal \in 1..Len(events) /\ FirstTest \in 1..Len(events)
           /\ TrainPart \subseteq 1..Len(events)
           /\ CalPart \subseteq 1..Len(events)
           /\ TestPart \subseteq 1..Len(events)
           /\ \A i \in TrainPart : i < FirstCal
           /\ \A i \in CalPart : i < FirstTest /\ FirstCal <= i
           /\ \A i \in TestPart : FirstTest <= i /\ FirstCal <= i
           /\ FirstCal \in CalPart /\ FirstTest \in TestPart
           /\ \A i \in TestPart : i < FirstTest + TestSize
<1>1. start \in Nat /\ Len(events) \in Nat
  BY EventEntries DEF TypeOK
<1> QED  BY <1>1, Sizes DEF WindowSize, FirstCal, FirstTest, TrainPart, CalPart, TestPart

\* What a new fold is made of, and that nothing in it leaks.
LEMMA NewFold ==
    ASSUME TypeOK, start + WindowSize <= Len(events),
           NEW calTestEnd \in {events[i].t1 : i \in CalPart \cup TestPart},
           NEW testEnd \in {events[i].t1 : i \in CalPart \cup TestPart},
           LatestEnd(CalPart \cup TestPart, calTestEnd),
           LatestEnd(TestPart, testEnd)
    PROVE  /\ PurgedTrain(calTestEnd) \subseteq TrainPart
           /\ PurgedCal(testEnd) \subseteq CalPart
           /\ KnownBefore(PurgedTrain(calTestEnd), PurgedCal(testEnd) \cup TestPart)
           /\ KnownBefore(PurgedCal(testEnd), TestPart)
<1>1. /\ FirstCal \in 1..Len(events) /\ FirstTest \in 1..Len(events)
      /\ TrainPart \subseteq 1..Len(events) /\ CalPart \subseteq 1..Len(events)
      /\ TestPart \subseteq 1..Len(events)
      /\ \A i \in TrainPart : i < FirstCal
      /\ \A i \in CalPart : i < FirstTest /\ FirstCal <= i
      /\ \A i \in TestPart : FirstTest <= i /\ FirstCal <= i
      /\ FirstCal \in CalPart /\ FirstTest \in TestPart
  BY WindowParts
<1>2. calTestEnd \in Nat /\ testEnd \in Nat
  BY <1>1, EventEntries
<1>3. events[FirstCal].t1 <= calTestEnd /\ events[FirstTest].t1 <= testEnd
  BY <1>1 DEF LatestEnd
<1>4. /\ CalPart \cup TestPart \subseteq FirstCal..Len(events)
      /\ TestPart \subseteq FirstTest..Len(events)
  <2>1. Len(events) \in Nat
    BY EventEntries
  <2> QED  BY <1>1, <2>1
<1>5. /\ PurgedTrain(calTestEnd) \subseteq TrainPart
      /\ \A i \in PurgedTrain(calTestEnd) :
         \A j \in FirstCal..Len(events) : events[i].t1 < events[j].at
  BY <1>1, <1>2, <1>3, PurgedEnded DEF PurgedTrain
<1>6. /\ PurgedCal(testEnd) \subseteq CalPart
      /\ \A i \in PurgedCal(testEnd) :
         \A j \in FirstTest..Len(events) : events[i].t1 < events[j].at
  BY <1>1, <1>2, <1>3, PurgedEnded DEF PurgedCal
<1> QED  BY <1>4, <1>5, <1>6 DEF KnownBefore

(* Types *)

\* A window that is a fold adds this one, and one that is not adds none.
LEMMA FoldStep ==
    ASSUME IInv, NextFold
    PROVE  \/ folds' = folds
           \/ \E f \in Fold :
                 /\ folds' = Append(folds, f)
                 /\ f.train \cup f.cal \cup f.test \subseteq 1..Len(events)
                 /\ KnownBefore(f.train, f.cal \cup f.test)
                 /\ KnownBefore(f.cal, f.test)
                 /\ \A i \in f.test : FirstTest <= i /\ i < FirstTest + TestSize
<1>1. PICK calTestEnd \in {events[i].t1 : i \in CalPart \cup TestPart},
           testEnd \in {events[i].t1 : i \in CalPart \cup TestPart} :
         /\ LatestEnd(CalPart \cup TestPart, calTestEnd)
         /\ LatestEnd(TestPart, testEnd)
         /\ folds' = IF PurgedTrain(calTestEnd) = {} \/ PurgedCal(testEnd) = {}
                     THEN folds
                     ELSE Append(folds, [train |-> PurgedTrain(calTestEnd),
                                         cal   |-> PurgedCal(testEnd),
                                         test  |-> TestPart])
  BY DEF NextFold
<1>2. TypeOK /\ start + WindowSize <= Len(events)
  BY DEF IInv, NextFold
<1> DEFINE f == [train |-> PurgedTrain(calTestEnd),
                 cal   |-> PurgedCal(testEnd), test |-> TestPart]
<1>3. CASE folds' = Append(folds, f)
  <2>1. /\ f.train = PurgedTrain(calTestEnd) /\ f.cal = PurgedCal(testEnd)
        /\ f.test = TestPart
    OBVIOUS
  <2>2. /\ f.train \subseteq TrainPart /\ f.cal \subseteq CalPart
        /\ KnownBefore(f.train, f.cal \cup f.test)
        /\ KnownBefore(f.cal, f.test)
    BY <1>1, <1>2, <2>1, NewFold
  <2>3. /\ f.train \cup f.cal \cup f.test \subseteq 1..Len(events)
        /\ \A i \in f.test : FirstTest <= i /\ i < FirstTest + TestSize
    BY <1>2, <2>1, <2>2, WindowParts
  <2>4. f \in Fold
    <3>1. Len(events) \in Nat
      BY <1>2, EventEntries
    <3>2. f.train \subseteq Nat /\ f.cal \subseteq Nat /\ f.test \subseteq Nat
      BY <2>3, <3>1
    <3> QED  BY <3>2 DEF Fold
  <2> HIDE DEF f
  <2> QED  BY <1>3, <2>2, <2>3, <2>4
<1> QED  BY <1>1, <1>3

\* A tuned fold adds a split of its training events that does not leak.
LEMMA TuneStep ==
    ASSUME IInv, NEW k \in DOMAIN folds, Tune(k)
    PROVE  \E s \in Split :
              tuned' = tuned \cup {s} /\ KnownBefore(s.inner, s.validation)
<1> DEFINE V(m) == {i \in folds[k].train : i >= m}
<1>1. PICK m \in folds[k].train : \E end \in {events[i].t1 : i \in V(m)} :
         /\ LatestEnd(V(m), end)
         /\ tuned' = tuned \cup
               {[inner |-> InnerTrain(folds[k].train, m, end), validation |-> V(m)]}
  BY DEF Tune
<1>2. PICK end \in {events[i].t1 : i \in V(m)} :
         /\ LatestEnd(V(m), end)
         /\ tuned' = tuned \cup
               {[inner |-> InnerTrain(folds[k].train, m, end), validation |-> V(m)]}
  BY <1>1
<1>3. TypeOK /\ Len(events) \in Nat
  BY EventEntries DEF IInv
<1>4. folds[k].train \subseteq 1..Len(events)
  BY <1>3 DEF TypeOK
<1>5. m \in 1..Len(events) /\ m \in V(m) /\ V(m) \subseteq 1..Len(events)
  BY <1>1, <1>3, <1>4
<1>6. end \in Nat /\ events[m].t1 <= end
  <2>1. events[m].t1 <= end
    BY <1>2, <1>5 DEF LatestEnd
  <2>2. \A i \in V(m) : events[i].t1 \in Nat
    BY <1>3, <1>5, EventEntries
  <2> QED  BY <1>2, <2>1, <2>2
<1>7. V(m) \subseteq m..Len(events)
  BY <1>3, <1>5
<1> DEFINE before == {i \in folds[k].train : i < m}
           inner == InnerTrain(folds[k].train, m, end)
<1>8. /\ inner \subseteq before
      /\ \A i \in inner : \A j \in m..Len(events) : events[i].t1 < events[j].at
  <2>1. before \subseteq 1..Len(events) /\ \A i \in before : i < m
    BY <1>4
  <2>2. inner = Purged(before, events[m].at, end)
    BY DEF InnerTrain
  <2> HIDE DEF before, inner
  <2> QED  BY <1>3, <1>5, <1>6, <2>1, <2>2, PurgedEnded
<1>9. KnownBefore(inner, V(m))
  BY <1>7, <1>8 DEF KnownBefore
<1>10. inner \subseteq Nat /\ V(m) \subseteq Nat
  BY <1>3, <1>4, <1>5, <1>8
<1>11. tuned' = tuned \cup {[inner |-> inner, validation |-> V(m)]}
  BY <1>2
<1>12. [inner |-> inner, validation |-> V(m)] \in Split
  BY <1>10 DEF Split
<1> HIDE DEF inner, V
<1> QED  BY <1>9, <1>11, <1>12

-----------------------------------------------------------------------------
(* The invariant *)

\* Nothing has happened at the start.
LEMMA InitIInv == Init => IInv
<1> SUFFICES ASSUME Init PROVE IInv
  OBVIOUS
<1>1. Progress /\ NoLeak /\ TestedOnce
  BY DEF Init, Progress, NoLeak, TestedOnce
<1>2. TypeOK
  BY DEF Init, TypeOK
<1> QED  BY <1>1, <1>2 DEF IInv

\* An event is added to those in order.
LEMMA NextEventIInv == IInv /\ NextEvent => IInv'
<1> SUFFICES ASSUME IInv, NextEvent PROVE IInv'
  OBVIOUS
<1>1. TypeOK /\ Len(events) \in Nat /\ events \in Seq(Event)
  BY EventEntries DEF IInv, TypeOK
<1>2. folds = <<>> /\ tuned = {} /\ folds' = <<>> /\ tuned' = {}
  BY DEF IInv, Progress, NextEvent
<1>3. PICK gap \in Gaps, duration \in Durations :
         LET at == gap + (IF events = <<>> THEN 0 ELSE events[Len(events)].at)
         IN events' = Append(events, [at |-> at, t1 |-> at + duration])
  BY DEF NextEvent
<1> DEFINE last == IF events = <<>> THEN 0 ELSE events[Len(events)].at
           new == [at |-> gap + last, t1 |-> gap + last + duration]
<1>4. gap \in Nat /\ duration \in Nat
  BY Sizes
<1>5. last \in Nat /\ \A i \in 1..Len(events) : events[i].at <= last
  <2>1. CASE events = <<>>
    BY <2>1
  <2>2. CASE events # <<>>
    <3>1. Len(events) \in 1..Len(events)
      BY <1>1, <2>2
    <3> QED  BY <1>1, <2>2, <3>1, EventEntries
  <2> QED  BY <2>1, <2>2
<1> HIDE DEF last
<1>6. /\ new \in Event /\ new.at = gap + last /\ new.t1 = new.at + duration
      /\ new.at \in Nat /\ new.t1 \in Nat
  BY <1>4, <1>5 DEF Event
<1>7. events' = Append(events, new)
  BY <1>3 DEF last
<1>8. new.at <= new.t1 /\ \A i \in 1..Len(events) : events[i].at <= new.at
  <2>1. \A i \in 1..Len(events) : events[i].at \in Nat
    BY <1>1, EventEntries
  <2> QED  BY <1>4, <1>5, <1>6, <2>1
<1> HIDE DEF new
<1>9. /\ events' \in Seq(Event) /\ Len(events') = Len(events) + 1
      /\ \A i \in 1..Len(events) : events'[i] = events[i]
      /\ events'[Len(events) + 1] = new
  BY <1>1, <1>6, <1>7
<1>10. DOMAIN events' = 1..(Len(events) + 1)
  BY <1>9
<1>11. \A i \in DOMAIN events' : i \in 1..Len(events) \/ i = Len(events) + 1
  BY <1>1, <1>10
<1>12. \A i \in DOMAIN events' : events'[i].at <= events'[i].t1
  BY <1>1, <1>8, <1>9, <1>11, EventEntries
<1>13. \A i, j \in DOMAIN events' : i <= j => events'[i].at <= events'[j].at
  <2> SUFFICES ASSUME NEW i \in DOMAIN events', NEW j \in DOMAIN events', i <= j
               PROVE  events'[i].at <= events'[j].at
    OBVIOUS
  <2>1. CASE j \in 1..Len(events)
    <3>1. i \in 1..Len(events)
      BY <1>1, <1>10, <2>1
    <3> QED  BY <1>1, <1>9, <2>1, <3>1, EventEntries
  <2>2. CASE j = Len(events) + 1
    BY <1>6, <1>8, <1>9, <1>11, <2>2
  <2> QED  BY <1>11, <2>1, <2>2
<1>14. TypeOK'
  BY <1>1, <1>2, <1>9, <1>12, <1>13 DEF TypeOK, NextEvent
<1> QED  BY <1>2, <1>14 DEF IInv, Progress, NoLeak, TestedOnce

\* A window: its test part lies behind all tested events, and the next
\* window's test part behind it.
LEMMA NextFoldIInv == IInv /\ NextFold => IInv'
<1> SUFFICES ASSUME IInv, NextFold PROVE IInv'
  OBVIOUS
<1>1. /\ TypeOK /\ Progress /\ NoLeak /\ TestedOnce
      /\ start \in Nat /\ folds \in Seq(Fold)
  BY DEF IInv, TypeOK
<1>2. /\ pc = "fold" /\ pc' = pc /\ events' = events /\ tuned' = tuned
      /\ start' = start + TestSize
  BY DEF NextFold, Slide
<1>3. /\ start' \in Nat /\ FirstTest \in Nat
      /\ FirstTest' = FirstTest + TestSize /\ FirstTest < FirstTest'
  BY <1>1, <1>2, Sizes DEF FirstTest
<1>4. \A k \in DOMAIN folds : folds[k].test \subseteq Nat
  <2>1. \A k \in DOMAIN folds : folds[k] \in Fold
    BY <1>1
  <2> QED  BY <2>1 DEF Fold
<1>5. CASE folds' = folds
  <2>1. TypeOK'
    BY <1>1, <1>2, <1>3, <1>5 DEF TypeOK
  <2>2. Progress'
    <3>1. \A k \in DOMAIN folds : \A i \in folds[k].test : i < FirstTest'
      BY <1>1, <1>3, <1>4 DEF Progress
    <3> QED  BY <1>2, <1>5, <3>1 DEF Progress
  <2>3. NoLeak' /\ TestedOnce'
    BY <1>1, <1>2, <1>5 DEF NoLeak, TestedOnce, KnownBefore
  <2> QED  BY <2>1, <2>2, <2>3 DEF IInv
<1>6. ASSUME NEW f \in Fold,
             folds' = Append(folds, f),
             f.train \cup f.cal \cup f.test \subseteq 1..Len(events),
             KnownBefore(f.train, f.cal \cup f.test),
             KnownBefore(f.cal, f.test),
             \A i \in f.test : FirstTest <= i /\ i < FirstTest + TestSize
      PROVE  IInv'
  <2>1. /\ folds' \in Seq(Fold) /\ DOMAIN folds' = DOMAIN folds \cup {Len(folds) + 1}
        /\ DOMAIN folds = 1..Len(folds) /\ Len(folds) \in Nat
        /\ \A k \in DOMAIN folds : folds'[k] = folds[k]
        /\ folds'[Len(folds) + 1] = f
    BY <1>1, <1>6
  <2>2. TypeOK'
    BY <1>1, <1>2, <1>3, <1>6, <2>1 DEF TypeOK
  <2>3. Progress'
    <3>1. \A k \in DOMAIN folds : \A i \in folds[k].test : i < FirstTest'
      BY <1>1, <1>3, <1>4 DEF Progress
    <3>2. \A i \in f.test : i < FirstTest'
      BY <1>3, <1>6
    <3> QED  BY <1>2, <2>1, <3>1, <3>2 DEF Progress
  <2>4. NoLeak'
    BY <1>1, <1>2, <1>6, <2>1 DEF NoLeak, KnownBefore
  <2>5. TestedOnce'
    <3> SUFFICES ASSUME NEW j \in DOMAIN folds', NEW k \in DOMAIN folds', j < k,
                        NEW a \in folds'[j].test, NEW b \in folds'[k].test
                 PROVE  a < b
      BY DEF TestedOnce
    <3>1. j \in DOMAIN folds
      BY <2>1
    <3>2. CASE k \in DOMAIN folds
      BY <1>1, <2>1, <3>1, <3>2 DEF TestedOnce
    <3>3. CASE k = Len(folds) + 1
      <4>1. a < FirstTest /\ a \in Nat
        BY <1>1, <1>4, <2>1, <3>1 DEF Progress
      <4>2. FirstTest <= b /\ b \in Nat
        BY <1>6, <2>1, <3>3 DEF Fold
      <4> QED  BY <1>3, <4>1, <4>2
    <3> QED  BY <2>1, <3>2, <3>3
  <2> QED  BY <2>2, <2>3, <2>4, <2>5 DEF IInv
<1> QED  BY <1>5, <1>6, FoldStep

\* The split of a tuned fold joins the others.
LEMMA TuneIInv == ASSUME IInv, NEW k \in DOMAIN folds, Tune(k) PROVE IInv'
<1>1. PICK s \in Split :
         tuned' = tuned \cup {s} /\ KnownBefore(s.inner, s.validation)
  BY TuneStep
<1>2. pc' = pc /\ pc = "fold" /\ events' = events /\ start' = start /\ folds' = folds
  BY DEF Tune
<1>3. TypeOK'
  BY <1>1, <1>2 DEF IInv, TypeOK
<1>4. Progress' /\ TestedOnce'
  BY <1>2 DEF IInv, Progress, TestedOnce, FirstTest
<1>5. NoLeak'
  BY <1>1, <1>2 DEF IInv, NoLeak, KnownBefore
<1> QED  BY <1>3, <1>4, <1>5 DEF IInv

\* All that changes is pc, and it does not become "sample".
LEMMA MoveIInv ==
    ASSUME IInv, UNCHANGED <<events, start, folds, tuned>>,
           pc' = pc \/ pc' \in {"fold", "done"}
    PROVE  IInv'
<1>1. TypeOK' /\ Progress'
  BY DEF IInv, TypeOK, Progress, FirstTest
<1>2. NoLeak' /\ TestedOnce'
  BY DEF IInv, NoLeak, TestedOnce, KnownBefore
<1> QED  BY <1>1, <1>2 DEF IInv

\* Every step keeps the invariant.
LEMMA NextIInv == IInv /\ [Next]_vars => IInv'
<1> SUFFICES ASSUME IInv, [Next]_vars PROVE IInv'
  OBVIOUS
<1>1. CASE NextEvent
  BY <1>1, NextEventIInv
<1>2. CASE DatasetComplete
  BY <1>2, MoveIInv DEF DatasetComplete
<1>3. CASE NextFold
  BY <1>3, NextFoldIInv
<1>4. ASSUME NEW k \in DOMAIN folds, Tune(k) PROVE IInv'
  BY <1>4, TuneIInv
<1>5. CASE NoMoreFolds
  BY <1>5, MoveIInv DEF NoMoreFolds
<1>6. CASE Finished \/ UNCHANGED vars
  BY <1>6, MoveIInv DEF Finished, vars
<1> QED  BY <1>1, <1>2, <1>3, <1>4, <1>5, <1>6 DEF Next

\* Always, everything the invariant says.
LEMMA Inductive == Spec => []IInv
  BY InitIInv, NextIInv, PTL DEF Spec

-----------------------------------------------------------------------------

\* The events stay in order, and folds name only events that exist
\* (walk_forward_folds, purge_overlapping_train).
THEOREM TypeCorrect == Spec => []TypeOK
<1>1. IInv => TypeOK
  BY DEF IInv
<1> QED  BY <1>1, Inductive, PTL

\* For parts of any size, any embargo and any events, also ones that share a
\* time: all labels that training, calibration and tuning learn from were known
\* before the first event they are judged on (purge_overlapping_train).
THEOREM NothingFromTheFuture == Spec => []NoLeak
<1>1. IInv => NoLeak
  BY DEF IInv
<1> QED  BY <1>1, Inductive, PTL

\* No event is tested in two folds, and the folds are in time order, because
\* the window slides by its test part even where purging leaves no fold
\* (walk_forward_folds).
THEOREM TestsDisjoint == Spec => []TestedOnce
<1>1. IInv => TestedOnce
  BY DEF IInv
<1> QED  BY <1>1, Inductive, PTL

\* What purging drops of events that precede the protected interval had a label
\* that reached into it; none of them lies behind it, where the embargo is.
LEMMA DroppedForCause ==
    ASSUME TypeOK,
           NEW ids, ids \subseteq 1..Len(events),
           NEW first \in 1..Len(events), NEW end \in Nat,
           events[first].t1 <= end,
           \A i \in ids : i < first,
           NEW i \in ids \ Purged(ids, events[first].at, end)
    PROVE  events[i].t1 >= events[first].at
<1>1. i \in ids /\ i \in 1..Len(events) /\ i < first /\ Len(events) \in Nat
  BY EventEntries
<1>2. i <= first
  BY <1>1
<1>3. /\ events[i].at <= events[first].at /\ events[first].at <= events[first].t1
      /\ events[i].at \in Nat /\ events[i].t1 \in Nat
      /\ events[first].at \in Nat /\ events[first].t1 \in Nat
  BY <1>1, <1>2, EventEntries
<1>4. ~ (end < events[i].at)
  BY <1>3
<1>5. \/ events[i].at <= end /\ events[i].t1 >= events[first].at
      \/ end < events[i].at /\ events[i].at <= end + Embargo
  BY <1>1 DEF Purged
<1> QED  BY <1>4, <1>5

\* A new fold lacks only what had to be purged.
LEMMA FoldForCause ==
    ASSUME TypeOK, NextFold, Len(folds') > Len(folds)
    PROVE  LET f == folds'[Len(folds')] IN
           /\ \A i \in TrainPart \ f.train : events[i].t1 >= events[FirstCal].at
           /\ \A i \in CalPart \ f.cal : events[i].t1 >= events[FirstTest].at
<1>1. PICK calTestEnd \in {events[i].t1 : i \in CalPart \cup TestPart},
           testEnd \in {events[i].t1 : i \in CalPart \cup TestPart} :
         /\ LatestEnd(CalPart \cup TestPart, calTestEnd)
         /\ LatestEnd(TestPart, testEnd)
         /\ folds' = IF PurgedTrain(calTestEnd) = {} \/ PurgedCal(testEnd) = {}
                     THEN folds
                     ELSE Append(folds, [train |-> PurgedTrain(calTestEnd),
                                         cal   |-> PurgedCal(testEnd),
                                         test  |-> TestPart])
  BY DEF NextFold
<1> DEFINE f == [train |-> PurgedTrain(calTestEnd),
                 cal   |-> PurgedCal(testEnd), test |-> TestPart]
<1>2. folds \in Seq(Fold) /\ Len(folds) \in Nat
  BY DEF TypeOK
<1>3. folds' = Append(folds, f)
  BY <1>1, <1>2
<1>4. f.train = PurgedTrain(calTestEnd) /\ f.cal = PurgedCal(testEnd)
  OBVIOUS
<1>5. folds'[Len(folds')] = f
  <2> HIDE DEF f
  <2>1. Len(folds') = Len(folds) + 1 /\ folds'[Len(folds) + 1] = f
    BY <1>2, <1>3
  <2> QED  BY <2>1
<1>6. /\ FirstCal \in 1..Len(events) /\ FirstTest \in 1..Len(events)
      /\ TrainPart \subseteq 1..Len(events) /\ CalPart \subseteq 1..Len(events)
      /\ TestPart \subseteq 1..Len(events)
      /\ \A i \in TrainPart : i < FirstCal
      /\ \A i \in CalPart : i < FirstTest
      /\ FirstCal \in CalPart /\ FirstTest \in TestPart
  BY WindowParts DEF NextFold
<1>7. calTestEnd \in Nat /\ testEnd \in Nat
  BY <1>6, EventEntries
<1>8. events[FirstCal].t1 <= calTestEnd /\ events[FirstTest].t1 <= testEnd
  BY <1>1, <1>6 DEF LatestEnd
<1>9. \A i \in TrainPart \ PurgedTrain(calTestEnd) : events[i].t1 >= events[FirstCal].at
  BY <1>6, <1>7, <1>8, DroppedForCause DEF PurgedTrain
<1>10. \A i \in CalPart \ PurgedCal(testEnd) : events[i].t1 >= events[FirstTest].at
  BY <1>6, <1>7, <1>8, DroppedForCause DEF PurgedCal
<1> HIDE DEF f
<1> QED  BY <1>4, <1>5, <1>9, <1>10

\* Purging costs no more than it must: whatever the embargo, an event left out
\* of a fold had a label that was not yet known when what follows began
\* (purge_overlapping_train as walk_forward_folds calls it).
THEOREM NoNeedlessPurge == Spec => PurgedForCause
<1> DEFINE Cause ==
       NextFold /\ Len(folds') > Len(folds) =>
        LET f == folds'[Len(folds')] IN
        /\ \A i \in TrainPart \ f.train : events[i].t1 >= events[FirstCal].at
        /\ \A i \in CalPart \ f.cal : events[i].t1 >= events[FirstTest].at
<1>1. TypeOK => [Cause]_vars
  BY FoldForCause
<1>2. []TypeOK => [][Cause]_vars
  BY <1>1, PTL
<1> QED  BY <1>2, TypeCorrect DEF PurgedForCause

-----------------------------------------------------------------------------
(* Sums, rows and their order *)

\* Finitely many samples whose gains are numbers.
Gains(S) == IsFiniteSet(S) /\ \A s \in S : s.gain \in Int

\* Samples of which a model has said something as well.
Samples(S) ==
    /\ Gains(S)
    /\ \A s \in S : s.at \in Nat /\ s.p \in 0..Levels /\ s.r \in Int

\* A row of numbers.
Numbers(row) ==
    /\ row.trades \in Nat
    /\ row.threshold \in Int /\ row.pnl \in Int /\ row.average \in Int /\ row.hit \in Int

\* The parameters of the selection are naturals.
LEMMA SelectionParameters ==
    /\ Levels \in Nat \ {0} /\ MinTrades \in Nat \ {0} /\ Target \in Nat \ {0}
    /\ Stop \in Nat \ {0} /\ Day \in Nat \ {0} /\ Day \div 24 \in Int
    /\ MinThreshold \in Nat /\ MinProbability \in Nat /\ MinEV \in Nat
    /\ LeastUtility \in Nat /\ BucketLeast \in Nat
  BY ThresholdAssumption DEF ThresholdAssumption

\* A part of the samples are samples.
LEMMA Parts ==
    ASSUME NEW S, NEW T \in SUBSET S
    PROVE  /\ Gains(S) => Gains(T)
           /\ Samples(S) => Samples(T)
<1>1. IsFiniteSet(S) => IsFiniteSet(T)
  BY FS_Subset
<1> QED  BY <1>1 DEF Gains, Samples

\* A sum of gains is a number.
LEMMA TotalType == ASSUME NEW S, Gains(S) PROVE Total(S) \in Int
<1> DEFINE f == [s \in S |-> s.gain]
<1>1. IsFiniteSet(S) /\ \A x \in S : f[x] \in Int
  BY DEF Gains
<1> HIDE DEF f
<1>2. SumFunctionOnSet(f, S) \in Int
  BY <1>1, SumType
<1> QED  BY <1>2 DEF Total, f

\* So is a mean.
LEMMA MeanType == ASSUME NEW S, Gains(S) PROVE Mean(S) \in Int
<1>1. CASE S = {}
  BY <1>1 DEF Mean
<1>2. CASE S # {}
  <2>1. Cardinality(S) \in Nat /\ Cardinality(S) # 0
    BY <1>2, FS_CardinalityType, FS_EmptySet DEF Gains
  <2>2. Total(S) \in Int /\ Cardinality(S) > 0
    BY <2>1, TotalType
  <2>3. Mean(S) = Total(S) \div Cardinality(S)
    BY <1>2 DEF Mean
  <2> QED  BY <2>1, <2>2, <2>3
<1> QED  BY <1>1, <1>2

\* What a row says of the samples it was made of.
LEMMA RowType ==
    ASSUME NEW t \in Int, NEW T, Gains(T)
    PROVE  /\ Numbers(Row(t, T))
           /\ Row(t, T).threshold = t /\ Row(t, T).trades = Cardinality(T)
           /\ Row(t, T).pnl = Total(T) /\ Row(t, T).average = Mean(T)
<1> DEFINE hit == IF T = {} THEN 0
                  ELSE (60 * Cardinality({s \in T : s.label = 1})) \div Cardinality(T)
<1>1. Cardinality(T) \in Nat /\ (T # {} => Cardinality(T) > 0)
  BY FS_CardinalityType, FS_EmptySet DEF Gains
<1>2. hit \in Int
  <2>1. Cardinality({s \in T : s.label = 1}) \in Nat
    BY FS_Subset, FS_CardinalityType DEF Gains
  <2> QED  BY <1>1, <2>1
<1>3. Total(T) \in Int /\ Mean(T) \in Int
  BY TotalType, MeanType
<1>4. Row(t, T) = [threshold |-> t, trades |-> Cardinality(T), pnl |-> Total(T),
                   average |-> Mean(T), hit |-> hit]
  BY DEF Row
<1> HIDE DEF hit
<1> QED  BY <1>1, <1>2, <1>3, <1>4 DEF Numbers

\* Of two rows of numbers neither of which comes before the other, none differs.
LEMMA Lexicographic ==
    ASSUME NEW x \in Seq(Int), NEW y \in Seq(Int), Len(x) = Len(y),
           ~ Above(x, y), ~ Above(y, x)
    PROVE  x = y
<1> DEFINE Differ == {k \in 1..Len(x) : x[k] # y[k]}
<1>1. Len(x) \in Nat /\ DOMAIN x = 1..Len(x) /\ DOMAIN y = 1..Len(x)
  OBVIOUS
<1>2. ASSUME Differ # {} PROVE FALSE
  <2>1. Differ \in SUBSET Nat
    BY <1>1
  <2>2. PICK k \in Differ : \A j \in Differ : k <= j
    BY <1>2, <2>1, LeastElement
  <2>3. k \in 1..Len(x) /\ x[k] # y[k] /\ x[k] \in Int /\ y[k] \in Int
    BY <1>1
  <2>4. \A j \in 1..(k - 1) : x[j] = y[j]
    <3> SUFFICES ASSUME NEW j \in 1..(k - 1) PROVE x[j] = y[j]
      OBVIOUS
    <3>1. j \in 1..Len(x) /\ ~ (k <= j)
      BY <1>1, <2>3
    <3>2. j \notin Differ
      BY <2>2, <3>1
    <3> QED  BY <3>1, <3>2
  <2>5. x[k] > y[k] \/ y[k] > x[k]
    BY <2>3
  <2> HIDE DEF Differ
  <2>6. CASE x[k] > y[k]
    BY <1>1, <2>3, <2>4, <2>6 DEF Above
  <2>7. CASE y[k] > x[k]
    <3>1. \A j \in 1..(k - 1) : y[j] = x[j]
      BY <2>4
    <3> QED  BY <1>1, <2>3, <3>1, <2>7 DEF Above
  <2> QED  BY <2>5, <2>6, <2>7
<1>3. \A k \in 1..Len(x) : x[k] = y[k]
  BY <1>2
<1> QED  BY <1>1, <1>3

\* Five numbers are a sequence of numbers.
LEMMA FiveNumbers ==
    ASSUME NEW a \in Int, NEW b \in Int, NEW c \in Int, NEW d \in Int, NEW e \in Int
    PROVE  /\ <<a, b, c, d, e>> \in Seq(Int)
           /\ Len(<<a, b, c, d, e>>) = 5 /\ <<a, b, c, d, e>>[5] = e
<1> DEFINE x == <<a, b, c, d, e>>
<1>1. DOMAIN x = 1..5 /\ x[1] = a /\ x[2] = b /\ x[3] = c /\ x[4] = d /\ x[5] = e
  OBVIOUS
<1>2. x = [k \in 1..5 |-> x[k]]
  OBVIOUS
<1> HIDE DEF x
<1>3. \A k \in 1..5 : x[k] \in Int
  BY <1>1
<1>4. x \in [1..5 -> Int]
  BY <1>2, <1>3
<1> QED  BY <1>1, <1>4 DEF x

\* The key of an objective is a sequence of numbers, as long for every row,
\* that ends in the threshold.
LEMMA ObjectiveType ==
    ASSUME NEW row, Numbers(row), NEW metric
    PROVE  /\ ObjectiveKey(row, metric) \in Seq(Int)
           /\ Len(ObjectiveKey(row, metric)) =
                 IF metric \in {"net_pnl", "calmar"} THEN 5 ELSE 4
           /\ ObjectiveKey(row, metric)[Len(ObjectiveKey(row, metric))] = row.threshold
<1> DEFINE risk == RiskAdjusted(row)
<1>1. risk \in Int
  <2> DEFINE over == Larger(row.trades, 1)
             product == row.pnl * row.pnl * 60
             square == product \div over
  <2>1. over \in Nat /\ over > 0
    BY DEF Larger, Numbers
  <2>2. product \in Int
    BY DEF Numbers
  <2> HIDE DEF over, product
  <2>3. square \in Int
    BY <2>1, <2>2
  <2>4. risk = IF row.pnl < 0 THEN -square ELSE square
    BY DEF RiskAdjusted, over, product
  <2> QED  BY <2>3, <2>4
<1> HIDE DEF risk
<1> DEFINE pnl == row.pnl
           average == row.average
           hit == row.hit
           threshold == row.threshold
<1>2. pnl \in Int /\ average \in Int /\ hit \in Int /\ threshold \in Int
  BY DEF Numbers
<1> DEFINE key == ObjectiveKey(row, metric)
<1>3. CASE metric = "net_pnl"
  <2>1. key = <<pnl, risk, average, hit, threshold>>
    BY <1>3 DEF ObjectiveKey, risk
  <2> HIDE DEF key, pnl, average, hit, threshold
  <2>2. key \in Seq(Int) /\ Len(key) = 5 /\ key[5] = threshold
    BY <1>1, <1>2, <2>1, FiveNumbers
  <2> QED  BY <1>3, <2>2 DEF key, threshold
<1>4. CASE metric = "calmar"
  <2>1. key = <<risk, pnl, average, hit, threshold>>
    BY <1>4 DEF ObjectiveKey, risk
  <2> HIDE DEF key, pnl, average, hit, threshold
  <2>2. key \in Seq(Int) /\ Len(key) = 5 /\ key[5] = threshold
    BY <1>1, <1>2, <2>1, FiveNumbers
  <2> QED  BY <1>4, <2>2 DEF key, threshold
<1>5. CASE metric \notin {"net_pnl", "calmar"}
  <2>1. key = <<average, risk, hit, threshold>>
    BY <1>5 DEF ObjectiveKey, risk
  <2> HIDE DEF pnl, average, hit
  <2> QED  BY <1>1, <1>5, <1>2, <2>1
<1> QED  BY <1>3, <1>4, <1>5

\* Two rows neither of which has the better key have the same threshold.
LEMMA EquallyGood ==
    ASSUME NEW q, Numbers(q), NEW r, Numbers(r), NEW metric,
           ~ Above(ObjectiveKey(q, metric), ObjectiveKey(r, metric)),
           ~ Above(ObjectiveKey(r, metric), ObjectiveKey(q, metric))
    PROVE  q.threshold = r.threshold
<1> DEFINE x == ObjectiveKey(q, metric)
           y == ObjectiveKey(r, metric)
<1>1. /\ x \in Seq(Int) /\ y \in Seq(Int) /\ Len(x) = Len(y)
      /\ x[Len(x)] = q.threshold /\ y[Len(y)] = r.threshold
  BY ObjectiveType
<1>2. ~ Above(x, y) /\ ~ Above(y, x)
  OBVIOUS
<1> HIDE DEF x, y
<1>3. x = y
  BY <1>1, <1>2, Lexicographic
<1> QED  BY <1>1, <1>3

\* So have two that are equally close to the target besides.
LEMMA EquallyClose ==
    ASSUME NEW q, Numbers(q), NEW r, Numbers(r), NEW metric,
           NEW a \in Int, NEW b \in Int, NEW c \in Int, NEW d \in Int,
           ~ Above(<<a, b>> \o ObjectiveKey(q, metric), <<c, d>> \o ObjectiveKey(r, metric)),
           ~ Above(<<c, d>> \o ObjectiveKey(r, metric), <<a, b>> \o ObjectiveKey(q, metric))
    PROVE  q.threshold = r.threshold
<1> DEFINE x == ObjectiveKey(q, metric)
           y == ObjectiveKey(r, metric)
           u == <<a, b>> \o x
           v == <<c, d>> \o y
<1>1. /\ x \in Seq(Int) /\ y \in Seq(Int) /\ Len(x) = Len(y) /\ Len(x) \in Nat \ {0}
      /\ x[Len(x)] = q.threshold /\ y[Len(x)] = r.threshold
  <2>1. /\ x \in Seq(Int) /\ y \in Seq(Int) /\ Len(x) = Len(y)
        /\ Len(x) = IF metric \in {"net_pnl", "calmar"} THEN 5 ELSE 4
        /\ x[Len(x)] = q.threshold /\ y[Len(y)] = r.threshold
    BY ObjectiveType
  <2> HIDE DEF x, y
  <2> QED  BY <2>1
<1>2. ~ Above(u, v) /\ ~ Above(v, u)
  OBVIOUS
<1> HIDE DEF x, y
<1>3. /\ u \in Seq(Int) /\ v \in Seq(Int) /\ Len(u) = Len(x) + 2 /\ Len(v) = Len(x) + 2
      /\ u[Len(x) + 2] = x[Len(x)] /\ v[Len(x) + 2] = y[Len(x)]
  <2>1. <<a, b>> \in Seq(Int) /\ <<c, d>> \in Seq(Int)
        /\ Len(<<a, b>>) = 2 /\ Len(<<c, d>>) = 2
    OBVIOUS
  <2> QED  BY <1>1, <2>1
<1> HIDE DEF u, v
<1>4. u = v
  BY <1>2, <1>3, Lexicographic
<1> QED  BY <1>1, <1>3, <1>4

-----------------------------------------------------------------------------
(* Scores *)

\* A policy that has what a score is made of.
Scores(policy) ==
    /\ policy.sign \in Int /\ policy.mode \in Modes /\ policy.rate \in Nat
    /\ Gains(policy.losses)
    /\ \A k \in DOMAIN policy.payoffs :
          policy.payoffs[k].one \in Int /\ policy.payoffs[k].zero \in Int

\* The element of an option is one of its elements.
LEMMA TheElement ==
    ASSUME NEW option, NEW default
    PROVE  /\ option = {} => The(option, default) = default
           /\ option # {} => The(option, default) \in option
  BY Zenon DEF The

\* Estimates of the gain and of the loss are numbers.
LEMMA ExpectedType ==
    ASSUME NEW policy, Scores(policy), NEW s, s.p \in 0..Levels
    PROVE  ExpectedValue(policy, s) \in Int
<1> DEFINE known == {e \in At(policy.payoffs, PayoffKey(s)) : e.known}
           one   == {e.one : e \in {e \in known : e.ones}}
           zero  == {e.zero : e \in {e \in known : e.zeros}}
           gain  == The(one, Target)
           loss  == The(zero, -Stop)
<1>1. \A e \in known : e.one \in Int /\ e.zero \in Int
  BY DEF At, Scores
<1>2. one \subseteq Int /\ zero \subseteq Int
  BY <1>1
<1> HIDE DEF known, one, zero
<1>3. gain \in Int /\ loss \in Int
  <2>1. Target \in Int /\ -Stop \in Int
    BY SelectionParameters
  <2> QED  BY <1>2, <2>1, TheElement
<1>4. ExpectedValue(policy, s) = s.p * gain + (Levels - s.p) * loss
  BY DEF ExpectedValue, known, one, zero
<1> HIDE DEF gain, loss
<1> DEFINE p == s.p
           q == Levels - s.p
<1>5. p \in Int /\ q \in Int
  BY SelectionParameters
<1> HIDE DEF p, q
<1>6. p * gain \in Int /\ q * loss \in Int
  BY <1>3, <1>5
<1> QED  BY <1>4, <1>6 DEF p, q

\* The estimate of what a loss costs is a number.
LEMMA EstimateType == ASSUME NEW S, Gains(S) PROVE Estimate(S) \in Int
<1>1. Gains(Losses(S))
  BY Parts DEF Losses
<1>2. Mean(Losses(S)) \in Int
  BY <1>1, MeanType
<1> QED  BY <1>2 DEF Estimate

\* So is the downside of a sample.
LEMMA DownsideType == ASSUME NEW S, Gains(S), NEW s PROVE Downside(S, s) \in Int
<1> DEFINE ofGroup  == {c \in S : SetupGroup(c) = SetupGroup(s)}
           ofRegime == {c \in ofGroup : c.regime = s.regime}
<1>1. Gains(ofGroup) /\ Gains(ofRegime)
  BY Parts
<1>2. Estimate(ofGroup) \in Int /\ Estimate(ofRegime) \in Int
  BY <1>1, EstimateType
<1> QED  BY <1>2 DEF Downside

\* A score is a number, in each mode.
LEMMA ScoreType ==
    ASSUME NEW policy, Scores(policy), NEW s, s.p \in 0..Levels, s.r \in Int
    PROVE  Score(policy, s) \in Int
<1> DEFINE ev    == ExpectedValue(policy, s)
           down  == Downside(policy.losses, s)
           L     == Levels
           r     == s.r
           value == CASE policy.mode = "probability"      -> s.p
                      [] policy.mode = "expected_value"   -> ev
                      [] policy.mode = "predicted_return" -> r
                      [] policy.mode = "expected_utility" -> 4 * L * r + ev - L * down
                      [] policy.mode = "return_first"     -> 20 * L * r + 2 * ev - 5 * L * down
<1>1. ev \in Int /\ down \in Int /\ L \in Int /\ r \in Int /\ s.p \in Int
  BY ExpectedType, DownsideType, SelectionParameters DEF Scores
<1>2. Score(policy, s) = policy.sign * value
  BY DEF Score
<1> HIDE DEF ev, down, L, r
<1>3. 4 * L * r + ev - L * down \in Int /\ 20 * L * r + 2 * ev - 5 * L * down \in Int
  BY <1>1
<1>4. value \in Int
  BY <1>1, <1>3 DEF Scores, Modes
<1> HIDE DEF value
<1> QED  BY <1>2, <1>4 DEF Scores

\* The days a selection spans are a number of units.
LEMMA SpanType == ASSUME NEW S, Samples(S) PROVE Span(S) \in Int
<1> DEFINE times == {s.at : s \in S}
<1>1. CASE Cardinality(S) < 2
  BY <1>1, SelectionParameters DEF Span
<1>2. CASE ~ (Cardinality(S) < 2)
  <2>1. IsFiniteSet(times)
    <3> DEFINE f == [s \in S |-> s.at]
    <3>1. IsFiniteSet(S)
      BY DEF Samples, Gains
    <3>2. times = {f[s] : s \in S}
      OBVIOUS
    <3> HIDE DEF f, times
    <3> QED  BY <3>1, <3>2, FiniteImage
  <2>2. S # {}
    BY <1>2, FS_EmptySet
  <2>3. times \subseteq Int /\ times # {}
    BY <2>2 DEF Samples
  <2> HIDE DEF times
  <2>4. Max(times) \in Int /\ Min(times) \in Int
    BY <2>1, <2>3, FiniteGreatest, FiniteLeast
  <2>5. Span(S) = Larger(Max(times) - Min(times), Day \div 24)
    BY <1>2 DEF Span, times
  <2> QED  BY <2>4, <2>5, SelectionParameters DEF Larger
<1> QED  BY <1>1, <1>2

-----------------------------------------------------------------------------
(* What a policy is chosen for *)

\* What is chosen is chosen from among what there is, and passed.
LEMMA ChosenPass ==
    ASSUME NEW S, NEW policy
    PROVE  \A s \in Chosen(S, policy) : s \in S /\ Passes(policy, s)
<1> DEFINE passing == {s \in S : Passes(policy, s)}
           rank == [s \in passing |-> Rank(policy, s)]
<1>1. Chosen(S, policy) = Ranked(passing, rank, policy)
  BY DEF Chosen
<1> HIDE DEF rank
<1>2. Chosen(S, policy) \subseteq passing
  BY <1>1 DEF Ranked
<1> QED  BY <1>2

\* What is chosen of samples are samples.
LEMMA ChosenPart ==
    ASSUME NEW S, Samples(S), NEW policy
    PROVE  Gains(Chosen(S, policy))
<1>1. Chosen(S, policy) \in SUBSET S
  BY ChosenPass
<1> QED  BY <1>1, Parts DEF Samples

\* A row that is best, of those that have to earn, has earned.
LEMMA BestHasEarned ==
    ASSUME NEW rows, NEW policy, NEW span
    PROVE  \A row \in BestEarned(rows, policy, span) : row \in rows /\ Earned(row)
  BY DEF BestEarned, Closest, Best

\* Two rows that are best have the same threshold.
LEMMA BestIsOne ==
    ASSUME NEW rows, \A row \in rows : Numbers(row),
           NEW policy, policy.rate \in Nat, NEW span \in Int,
           NEW q \in BestEarned(rows, policy, span),
           NEW r \in BestEarned(rows, policy, span)
    PROVE  q.threshold = r.threshold
<1> DEFINE earned == {row \in rows : row.trades > 0 /\ Earned(row)}
           met == {row \in earned : Met(row, policy.rate, span)}
<1>1. q \in rows /\ r \in rows /\ Numbers(q) /\ Numbers(r)
  BY BestHasEarned
<1>2. CASE met # {}
  <2>1. BestEarned(rows, policy, span) =
           Best(met, LAMBDA row : ObjectiveKey(row, policy.metric))
    BY <1>2 DEF BestEarned
  <2>2. /\ q \in met /\ r \in met
        /\ ~ Above(ObjectiveKey(q, policy.metric), ObjectiveKey(r, policy.metric))
        /\ ~ Above(ObjectiveKey(r, policy.metric), ObjectiveKey(q, policy.metric))
    BY <2>1 DEF Best
  <2> QED  BY <1>1, <2>2, EquallyGood
<1>3. CASE met = {}
  <2> DEFINE near(row) == -Off(row, policy.rate, span)
             enough(row) == IF Met(row, policy.rate, span) THEN 1 ELSE 0
  <2>1. BestEarned(rows, policy, span) = Closest(earned, policy, span)
    BY <1>3 DEF BestEarned
  <2>2. /\ ~ Above(<<near(q), enough(q)>> \o ObjectiveKey(q, policy.metric),
                   <<near(r), enough(r)>> \o ObjectiveKey(r, policy.metric))
        /\ ~ Above(<<near(r), enough(r)>> \o ObjectiveKey(r, policy.metric),
                   <<near(q), enough(q)>> \o ObjectiveKey(q, policy.metric))
    BY <2>1 DEF Closest, Best
  <2>3. ASSUME NEW row, Numbers(row) PROVE near(row) \in Int /\ enough(row) \in Int
    <3> DEFINE have == 2 * row.trades * Day
               want == policy.rate * span
    <3>1. have \in Int /\ want \in Int
      BY SelectionParameters, <2>3 DEF Numbers
    <3>2. Off(row, policy.rate, span) = LET d == have - want IN IF d < 0 THEN -d ELSE d
      BY DEF Off
    <3> HIDE DEF have, want
    <3>3. Off(row, policy.rate, span) \in Int
      BY <3>1, <3>2
    <3> QED  BY <3>3
  <2>4. near(q) \in Int /\ enough(q) \in Int /\ near(r) \in Int /\ enough(r) \in Int
    BY <1>1, <2>3
  <2> HIDE DEF near, enough
  <2> QED  BY <1>1, <2>2, <2>4, EquallyClose
<1> QED  BY <1>2, <1>3

-----------------------------------------------------------------------------
(* The report of a fold *)

\* The policy with these parts, under a setting.
PolicyOf(s, threshold, floor, sign, types, payoffs, losses) ==
    [threshold |-> threshold, floor |-> floor, sign |-> sign, types |-> types,
     payoffs |-> payoffs, losses |-> losses, mode |-> s.mode, frequency |-> s.frequency,
     rate |-> s.rate, metric |-> s.metric, negativeEV |-> s.negativeEV,
     calibrated |-> s.calibrated]

\* the parts of what is estimated
SignOf(s, slice) ==
    LET known == [Given(s) EXCEPT !.payoffs = IF s.empirical THEN Payoffs(slice) ELSE <<>>,
                                  !.losses = slice]
    IN IF s.directed THEN Direction(slice, known) ELSE 1
TypesOf(s, cal, slice) == IF s.typed THEN TypeRows(slice, cal) ELSE <<>>
PayoffsOf(s, slice) == IF s.empirical THEN Payoffs(slice) ELSE <<>>

\* What is estimated, part by part, before a threshold and a floor are sought.
LEMMA EstimatedParts ==
    ASSUME NEW s, NEW cal, NEW slice
    PROVE  Estimated(s, cal, slice) =
              PolicyOf(s, MinProbability, {}, SignOf(s, slice), TypesOf(s, cal, slice),
                       PayoffsOf(s, slice), slice)
<1> DEFINE payoffs == PayoffsOf(s, slice)
           sign == SignOf(s, slice)
           types == TypesOf(s, cal, slice)
           known == [Given(s) EXCEPT !.payoffs = payoffs, !.losses = slice]
<1> DEFINE empty == <<>>
<1>1. known = PolicyOf(s, MinProbability, {}, 1, empty, payoffs, slice)
  <2> DEFINE given == PolicyOf(s, MinProbability, {}, 1, empty, empty, {})
             first == [given EXCEPT !.payoffs = payoffs]
  <2>1. Given(s) = given
    BY DEF Given, PolicyOf
  <2> HIDE DEF payoffs, empty
  <2>2. first = PolicyOf(s, MinProbability, {}, 1, empty, payoffs, {})
    BY DEF PolicyOf
  <2> HIDE DEF given
  <2>3. known = [first EXCEPT !.losses = slice]
    BY <2>1, Zenon
  <2> HIDE DEF first, known
  <2> QED  BY <2>2, <2>3 DEF PolicyOf
<1>2. Estimated(s, cal, slice) = [known EXCEPT !.sign = sign, !.types = types]
  BY Zenon DEF Estimated, PayoffsOf, SignOf, TypesOf
<1> HIDE DEF known, payoffs, sign, types, empty
<1>3. [known EXCEPT !.sign = sign, !.types = types]
        = PolicyOf(s, MinProbability, {}, sign, types, payoffs, slice)
  <2> DEFINE first == [known EXCEPT !.sign = sign]
             both == [known EXCEPT !.sign = sign, !.types = types]
  <2>1. first = PolicyOf(s, MinProbability, {}, sign, empty, payoffs, slice)
    BY <1>1 DEF PolicyOf
  <2>2. both = [first EXCEPT !.types = types]
    BY Zenon
  <2> HIDE DEF first, both
  <2>3. both = PolicyOf(s, MinProbability, {}, sign, types, payoffs, slice)
    BY <2>1, <2>2 DEF PolicyOf
  <2> QED  BY <2>3 DEF both
<1> QED  BY <1>2, <1>3 DEF payoffs, sign, types

\* The threshold that is found, if any.
FoundRow(s, cal, slice) == Found(s, slice, Estimated(s, cal, slice))
ThresholdOf(s, cal, slice) ==
    The({row.threshold : row \in FoundRow(s, cal, slice)}, MinProbability)

\* The policy before a floor is sought, and the floor.
Unfloored(s, cal, slice) ==
    PolicyOf(s, ThresholdOf(s, cal, slice), {}, SignOf(s, slice), TypesOf(s, cal, slice),
             PayoffsOf(s, slice), slice)
FloorFound(s, cal, slice) ==
    IF s.floored /\ s.frequency # "none" THEN ScoreFloor(slice, Unfloored(s, cal, slice)) ELSE {}
FullPolicy(s, cal, slice) ==
    PolicyOf(s, ThresholdOf(s, cal, slice), {row.threshold : row \in FloorFound(s, cal, slice)},
             SignOf(s, slice), TypesOf(s, cal, slice), PayoffsOf(s, slice), slice)

\* What a report holds.
LEMMA ReportParts ==
    ASSUME NEW s, NEW cal, NEW slice, NEW test, NEW report,
           report = ScoredFold(s, cal, slice, test)
    PROVE  /\ report.cal = cal /\ report.slice = slice
           /\ report.found = FoundRow(s, cal, slice)
           /\ report.floorFound = FloorFound(s, cal, slice)
           /\ report.policy = FullPolicy(s, cal, slice)
           /\ report.traded = Traded(FullPolicy(s, cal, slice), test)
<1> DEFINE estimated == Estimated(s, cal, slice)
           found == FoundRow(s, cal, slice)
           threshold == ThresholdOf(s, cal, slice)
           before == Unfloored(s, cal, slice)
           floor == FloorFound(s, cal, slice)
           full == FullPolicy(s, cal, slice)
<1>1. [estimated EXCEPT !.threshold = threshold] = before
  <2>1. estimated = PolicyOf(s, MinProbability, {}, SignOf(s, slice), TypesOf(s, cal, slice),
                             PayoffsOf(s, slice), slice)
    BY EstimatedParts
  <2> HIDE DEF estimated, threshold
  <2> QED  BY <2>1 DEF PolicyOf, Unfloored, threshold
<1>2. [before EXCEPT !.floor = {row.threshold : row \in floor}] = full
  <2> DEFINE floors == {row.threshold : row \in floor}
             sign == SignOf(s, slice)
             types == TypesOf(s, cal, slice)
             payoffs == PayoffsOf(s, slice)
  <2>1. before = PolicyOf(s, threshold, {}, sign, types, payoffs, slice)
    BY DEF Unfloored
  <2>2. full = PolicyOf(s, threshold, floors, sign, types, payoffs, slice)
    BY DEF FullPolicy
  <2> HIDE DEF floors, sign, types, payoffs, threshold, before, full
  <2>3. [before EXCEPT !.floor = floors] = full
    BY <2>1, <2>2 DEF PolicyOf
  <2> QED  BY <2>3 DEF floors
<1>3. WithFloor(s, slice, before, found)
        = [policy |-> full, found |-> found, floorFound |-> floor]
  BY <1>2 DEF WithFloor, FloorFound
<1>4. Policy(s, cal, slice) = [policy |-> full, found |-> found, floorFound |-> floor]
  BY <1>1, <1>3 DEF Policy, Learnt, WithThreshold, FoundRow, ThresholdOf
<1> HIDE DEF found, full, floor
<1>5. report = [cal |-> cal, slice |-> slice, traded |-> Traded(full, test),
                policy |-> full, found |-> found, floorFound |-> floor]
  BY <1>4 DEF ScoredFold, Report
<1> QED  BY <1>5 DEF found, full, floor

\* What is estimated is all that a score needs, whatever the thresholds.
LEMMA PolicyScores ==
    ASSUME NEW s \in Setting, NEW slice, Samples(slice),
           NEW threshold, NEW floor, NEW types
    PROVE  Scores(PolicyOf(s, threshold, floor, SignOf(s, slice), types,
                           PayoffsOf(s, slice), slice))
<1> DEFINE sign == SignOf(s, slice)
           payoffs == PayoffsOf(s, slice)
           policy == PolicyOf(s, threshold, floor, sign, types, payoffs, slice)
<1>1. sign \in Int
  <2> DEFINE known == [Given(s) EXCEPT !.payoffs = payoffs, !.losses = slice]
  <2>1. sign = IF s.directed THEN Direction(slice, known) ELSE 1
    BY Zenon DEF SignOf, PayoffsOf
  <2> HIDE DEF known
  <2>2. Direction(slice, known) = -1 \/ Direction(slice, known) = 1
    BY Zenon DEF Direction
  <2> QED  BY <2>1, <2>2
<1>2. \A k \in DOMAIN payoffs : payoffs[k].one \in Int /\ payoffs[k].zero \in Int
  <2>1. CASE ~ s.empirical
    BY <2>1 DEF PayoffsOf
  <2>2. CASE s.empirical
    <3> DEFINE Of(k) == {x \in slice : PayoffKey(x) = k}
    <3>1. payoffs = [k \in {PayoffKey(x) : x \in slice} |-> Payoff(Of(k))]
      BY <2>2 DEF PayoffsOf, Payoffs
    <3>2. ASSUME NEW k PROVE Payoff(Of(k)).one \in Int /\ Payoff(Of(k)).zero \in Int
      <4>1. Gains(With(Of(k), 1)) /\ Gains(With(Of(k), 0))
        BY Parts DEF With, Samples
      <4> HIDE DEF Of
      <4> DEFINE one == Mean(With(Of(k), 1))
                 zero == Mean(With(Of(k), 0))
      <4>2. one \in Int /\ zero \in Int
        BY <4>1, MeanType
      <4> QED  BY <4>2 DEF Payoff
    <3> HIDE DEF payoffs, Of
    <3> QED  BY <3>1, <3>2
  <2> QED  BY <2>1, <2>2
<1> HIDE DEF sign, payoffs
<1>3. s.mode \in Modes /\ s.rate \in Nat
  BY DEF Setting
<1>4. /\ policy.sign = sign /\ policy.payoffs = payoffs /\ policy.losses = slice
      /\ policy.mode = s.mode /\ policy.rate = s.rate
  BY DEF PolicyOf
<1> HIDE DEF policy
<1>5. Scores(policy)
  BY <1>1, <1>2, <1>3, <1>4 DEF Scores, Samples
<1> QED  BY <1>5 DEF policy, sign, payoffs

\* A floor that was found makes the policy one that earned.
LEMMA FloorEarns ==
    ASSUME NEW s \in Setting, NEW cal, NEW slice, Samples(slice),
           FloorFound(s, cal, slice) # {}, ~ s.negativeEV
    PROVE  Total(Chosen(slice, FullPolicy(s, cal, slice))) > 0
<1> DEFINE before == Unfloored(s, cal, slice)
           With1(f) == [before EXCEPT !.floor = {f}]
           scores == {Score(before, x) : x \in slice}
           rows == {Row(f, Chosen(slice, With1(f))) : f \in scores}
           traded == {row \in rows : row.trades > 0}
           found == FloorFound(s, cal, slice)
<1>1. /\ Scores(before) /\ before.negativeEV = s.negativeEV
      /\ \A f : With1(f) = PolicyOf(s, ThresholdOf(s, cal, slice), {f}, SignOf(s, slice),
                                    TypesOf(s, cal, slice), PayoffsOf(s, slice), slice)
  <2>1. before.negativeEV = s.negativeEV
    BY DEF Unfloored, PolicyOf
  <2>2. Scores(before)
    BY PolicyScores DEF Unfloored
  <2>3. \A f : With1(f) = PolicyOf(s, ThresholdOf(s, cal, slice), {f}, SignOf(s, slice),
                                    TypesOf(s, cal, slice), PayoffsOf(s, slice), slice)
    <3> DEFINE threshold == ThresholdOf(s, cal, slice)
               sign == SignOf(s, slice)
               types == TypesOf(s, cal, slice)
               payoffs == PayoffsOf(s, slice)
    <3>1. before = PolicyOf(s, threshold, {}, sign, types, payoffs, slice)
      BY DEF Unfloored
    <3> HIDE DEF before, threshold, sign, types, payoffs
    <3>2. ASSUME NEW f PROVE With1(f) = PolicyOf(s, threshold, {f}, sign, types, payoffs, slice)
      BY <3>1 DEF PolicyOf
    <3> QED  BY <3>2 DEF threshold, sign, types, payoffs
  <2> QED  BY <2>1, <2>2, <2>3
<1>2. found = BestEarned(traded, before, Span(slice))
  <2>1. found = ScoreFloor(slice, before)
    BY DEF FloorFound
  <2>2. ScoreFloor(slice, before) = FloorRow(traded, before, Span(slice))
    BY Zenon DEF ScoreFloor
  <2>3. ~ before.negativeEV
    BY <1>1
  <2> HIDE DEF before, traded
  <2> QED  BY <2>1, <2>2, <2>3 DEF FloorRow
<1>3. \A f \in scores : f \in Int
  BY <1>1, ScoreType DEF Samples
<1>4. \A f : Gains(Chosen(slice, With1(f)))
  BY ChosenPart
<1> HIDE DEF before, With1, scores
<1>5. \A row \in traded : Numbers(row)
  BY <1>3, <1>4, RowType
<1>6. PICK row \in found : TRUE
  OBVIOUS
<1>7. row \in traded /\ Earned(row)
  BY <1>2, BestHasEarned
<1>8. PICK f \in scores : row = Row(f, Chosen(slice, With1(f)))
  BY <1>7
<1>9. row.threshold = f /\ Total(Chosen(slice, With1(f))) > 0
  BY <1>3, <1>4, <1>7, <1>8, RowType DEF Earned
<1>10. before.rate \in Nat /\ Span(slice) \in Int
  BY <1>1, SpanType DEF Scores
<1>11. \A q \in found : q.threshold = row.threshold
  BY <1>2, <1>5, <1>10, BestIsOne
<1>12. {q.threshold : q \in found} = {f}
  BY <1>6, <1>9, <1>11
<1>13. FullPolicy(s, cal, slice) = With1(f)
  BY <1>1, <1>12, Zenon DEF FullPolicy
<1> QED  BY <1>9, <1>13

\* So does a threshold that was found, if no floor was.
LEMMA ThresholdEarns ==
    ASSUME NEW s \in Setting, NEW cal, NEW slice, Samples(slice),
           FloorFound(s, cal, slice) = {}, FoundRow(s, cal, slice) # {},
           ~ s.negativeEV, s.frequency # "none"
    PROVE  Total(Chosen(slice, FullPolicy(s, cal, slice))) > 0
<1> DEFINE before == Estimated(s, cal, slice)
           With1(t) == [before EXCEPT !.threshold = t]
           rows == {Row(t, Chosen(slice, With1(t))) : t \in 0..Levels}
           found == FoundRow(s, cal, slice)
           best == BestEarned(rows, before, Span(slice))
<1>1. /\ before.negativeEV = s.negativeEV
      /\ \A t : With1(t) = PolicyOf(s, t, {}, SignOf(s, slice),
                                    TypesOf(s, cal, slice), PayoffsOf(s, slice), slice)
  <2> DEFINE sign == SignOf(s, slice)
             types == TypesOf(s, cal, slice)
             payoffs == PayoffsOf(s, slice)
  <2>1. before = PolicyOf(s, MinProbability, {}, sign, types, payoffs, slice)
    BY EstimatedParts
  <2> HIDE DEF before, sign, types, payoffs
  <2>2. before.negativeEV = s.negativeEV
    BY <2>1 DEF PolicyOf
  <2>3. ASSUME NEW t PROVE With1(t) = PolicyOf(s, t, {}, sign, types, payoffs, slice)
    BY <2>1 DEF PolicyOf
  <2> QED  BY <2>2, <2>3 DEF sign, types, payoffs
<1>2. found = {Softened(before, row) : row \in best}
  <2>1. found = FrequencyThreshold(slice, before)
    <3> HIDE DEF before
    <3>1. found = Found(s, slice, before)
      BY DEF FoundRow, before
    <3> HIDE DEF found
    <3>2. found # {}
      BY DEF found
    <3> QED  BY <3>1, <3>2, Zenon DEF Found
  <2>2. FrequencyThreshold(slice, before) = ThresholdRow(rows, before, Span(slice))
    BY Zenon DEF FrequencyThreshold
  <2>3. ~ before.negativeEV
    BY <1>1
  <2> HIDE DEF before, rows, found
  <2> QED  BY <2>1, <2>2, <2>3 DEF ThresholdRow
<1>3. \A t : Gains(Chosen(slice, With1(t)))
  BY ChosenPart
<1>4. ~ before.negativeEV
  BY <1>1
<1> HIDE DEF before, With1
<1>5. \A row : Softened(before, row) = row
  BY <1>4 DEF Softened
<1>6. found = best
  BY <1>2, <1>5
<1>7. ThresholdOf(s, cal, slice) \in {row.threshold : row \in found}
  <2> DEFINE thresholds == {row.threshold : row \in found}
  <2>1. thresholds # {}
    OBVIOUS
  <2>2. ThresholdOf(s, cal, slice) = The(thresholds, MinProbability)
    BY DEF ThresholdOf
  <2> HIDE DEF thresholds
  <2>3. ThresholdOf(s, cal, slice) \in thresholds
    BY <2>1, <2>2, TheElement
  <2> QED  BY <2>3 DEF thresholds
<1>8. PICK row \in best : ThresholdOf(s, cal, slice) = row.threshold
  BY <1>6, <1>7
<1>9. row \in rows /\ Earned(row)
  BY BestHasEarned
<1>10. PICK t \in 0..Levels : row = Row(t, Chosen(slice, With1(t)))
  BY <1>9
<1>11. row.threshold = t /\ Total(Chosen(slice, With1(t))) > 0
  BY <1>3, <1>9, <1>10, RowType DEF Earned
<1>12. FullPolicy(s, cal, slice) = With1(t)
  <2>1. {row1.threshold : row1 \in FloorFound(s, cal, slice)} = {}
    OBVIOUS
  <2>2. ThresholdOf(s, cal, slice) = t
    BY <1>8, <1>11
  <2> QED  BY <1>1, <2>1, <2>2, Zenon DEF FullPolicy
<1> QED  BY <1>11, <1>12

-----------------------------------------------------------------------------
(* Thresholds by type *)

\* Finitely many rows with keys of three numbers have a best one.
LEMMA HasBest ==
    ASSUME NEW rows, IsFiniteSet(rows), rows # {},
           \A row \in rows : row.average \in Int /\ row.threshold \in Int /\ row.pnl \in Int
    PROVE  Best(rows, LAMBDA row : <<row.average, row.threshold, row.pnl>>) # {}
<1> DEFINE averages == {row.average : row \in rows}
           a == Max(averages)
           rows1 == {row \in rows : row.average = a}
           thresholds == {row.threshold : row \in rows1}
           t == Max(thresholds)
           rows2 == {row \in rows1 : row.threshold = t}
           pnls == {row.pnl : row \in rows2}
           p == Max(pnls)
<1>1. a \in averages /\ \A x \in averages : x <= a
  <2> DEFINE f == [row \in rows |-> row.average]
  <2>1. averages = {f[row] : row \in rows}
    OBVIOUS
  <2>2. averages \in SUBSET Int /\ averages # {}
    OBVIOUS
  <2> HIDE DEF averages, f
  <2>3. IsFiniteSet(averages)
    BY <2>1, FiniteImage
  <2> QED  BY <2>2, <2>3, FiniteGreatest
<1>2. rows1 # {} /\ IsFiniteSet(rows1) /\ a \in Int
  BY <1>1, FS_Subset
<1>3. \A row \in rows : row.average <= a
  BY <1>1
<1> HIDE DEF a
<1>4. t \in thresholds /\ \A x \in thresholds : x <= t
  <2> DEFINE f == [row \in rows1 |-> row.threshold]
  <2>1. thresholds = {f[row] : row \in rows1}
    OBVIOUS
  <2>2. thresholds \in SUBSET Int /\ thresholds # {}
    BY <1>2
  <2> HIDE DEF thresholds, f, rows1
  <2>3. IsFiniteSet(thresholds)
    BY <1>2, <2>1, FiniteImage
  <2> QED  BY <2>2, <2>3, FiniteGreatest
<1>5. rows2 # {} /\ IsFiniteSet(rows2) /\ t \in Int
  BY <1>2, <1>4, FS_Subset
<1>6. \A row \in rows1 : row.threshold <= t
  BY <1>4
<1> HIDE DEF t
<1>7. p \in pnls /\ \A x \in pnls : x <= p
  <2> DEFINE f == [row \in rows2 |-> row.pnl]
  <2>1. pnls = {f[row] : row \in rows2}
    OBVIOUS
  <2>2. pnls \in SUBSET Int /\ pnls # {}
    BY <1>5
  <2> HIDE DEF pnls, f, rows2
  <2>3. IsFiniteSet(pnls)
    BY <1>5, <2>1, FiniteImage
  <2> QED  BY <2>2, <2>3, FiniteGreatest
<1>8. PICK best \in rows2 : best.pnl = p /\ \A row \in rows2 : row.pnl <= best.pnl
  BY <1>7
<1>9. best \in rows /\ best.average = a /\ best.threshold = t
  OBVIOUS
<1>10. ASSUME NEW q \in rows,
              Above(<<q.average, q.threshold, q.pnl>>,
                    <<best.average, best.threshold, best.pnl>>)
       PROVE  FALSE
  <2> DEFINE x == <<q.average, q.threshold, q.pnl>>
             y == <<best.average, best.threshold, best.pnl>>
  <2>1. /\ x[1] = q.average /\ x[2] = q.threshold /\ x[3] = q.pnl
        /\ y[1] = best.average /\ y[2] = best.threshold /\ y[3] = best.pnl
        /\ DOMAIN x = 1..3
    OBVIOUS
  <2> HIDE DEF x, y
  <2>2. PICK k \in 1..3 : x[k] > y[k] /\ \A j \in 1..(k - 1) : x[j] = y[j]
    BY <1>10, <2>1 DEF Above, x, y
  <2>3. CASE k = 1
    BY <1>3, <1>9, <2>1, <2>2, <2>3, <1>2
  <2>4. CASE k = 2
    <3>1. q.average = a
      BY <1>9, <2>1, <2>2, <2>4
    <3>2. q \in rows1
      BY <3>1
    <3> QED  BY <1>6, <1>9, <3>2, <2>1, <2>2, <2>4, <1>5
  <2>5. CASE k = 3
    <3>1. q.average = a /\ q.threshold = t
      BY <1>9, <2>1, <2>2, <2>5
    <3>2. q \in rows2
      BY <3>1
    <3>3. q.pnl <= best.pnl /\ q.pnl \in Int /\ best.pnl \in Int
      BY <1>8, <1>9, <3>2
    <3> QED  BY <3>3, <2>1, <2>2, <2>5
  <2> QED  BY <2>2, <2>3, <2>4, <2>5
<1>11. best \in Best(rows, LAMBDA row : <<row.average, row.threshold, row.pnl>>)
  BY <1>9, <1>10 DEF Best
<1> QED  BY <1>11

\* What a row by type holds.
LEMMA TypeRowParts ==
    ASSUME NEW source, NEW threshold, NEW average, NEW row,
           row = TypeRow(source, threshold, average)
    PROVE  /\ row.source = source /\ row.threshold = threshold
           /\ row.abstain <=>
                 source \in {"negative_calibration_utility", "negative_family_prior_utility"}
<1> DEFINE given(b) == [source |-> source, threshold |-> threshold, average |-> average,
                        abstain |-> b]
           b == source \in {"negative_calibration_utility", "negative_family_prior_utility"}
<1>1. row = given(b)
  BY Zenon DEF TypeRow
<1>2. \A c : /\ given(c).source = source /\ given(c).threshold = threshold
            /\ given(c).abstain = c
  OBVIOUS
<1> HIDE DEF given
<1>3. row.source = source /\ row.threshold = threshold /\ row.abstain = b
  BY <1>1, <1>2, Zenon
<1> QED  BY <1>3, Zenon

\* A group with a fair chance has a threshold from which on it earned its keep,
\* or it abstains; one without has neither.
LEMMA GroupRows ==
    ASSUME NEW G, Samples(G), NEW row, row = GroupRow(G)
    PROVE  \/ /\ row.source = "candidate_type_calibration" /\ ~ row.abstain
              /\ row.threshold \in 0..Levels /\ row.threshold >= MinThreshold
              /\ Cardinality(G) >= MinTrades
              /\ Cardinality({s \in G : s.p >= row.threshold}) >= MinTrades
              /\ Mean({s \in G : s.p >= row.threshold}) >= UtilityFloor
           \/ /\ row.source = "negative_calibration_utility" /\ row.abstain
              /\ row.threshold = Unset /\ Cardinality(G) >= MinTrades
           \/ /\ row.source = "insufficient_calibration" /\ ~ row.abstain
              /\ row.threshold = Unset /\ ~ (Cardinality(G) >= MinTrades)
<1> DEFINE From(t) == {s \in G : s.p >= t}
           useful == {r \in Sweep(G) : /\ r.trades >= MinTrades
                                       /\ r.threshold >= MinThreshold
                                       /\ r.pnl > 0 /\ r.average >= UtilityFloor}
           bests == Best(useful, LAMBDA r : <<r.average, r.threshold, r.pnl>>)
           best == The(bests, {})
           seen == The(Best(Sweep(G), LAMBDA r : <<r.pnl, r.average, r.threshold>>), {})
<1>1. row = IF useful # {}
            THEN TypeRow("candidate_type_calibration", best.threshold, best.average)
            ELSE IF Cardinality(G) >= MinTrades
            THEN TypeRow("negative_calibration_utility", Unset, seen.average)
            ELSE TypeRow("insufficient_calibration", Unset, 0)
  BY Zenon DEF GroupRow
<1> HIDE DEF seen, best
<1>2. CASE useful # {}
  <2>1. Sweep(G) = {Row(t, From(t)) : t \in 0..Levels}
    BY DEF Sweep
  <2>2. \A t : Gains(From(t))
    BY Parts DEF Samples
  <2>3. ASSUME NEW r \in Sweep(G)
        PROVE  /\ r.threshold \in 0..Levels /\ Numbers(r)
               /\ r.trades = Cardinality(From(r.threshold))
               /\ r.average = Mean(From(r.threshold))
    <3>1. PICK t \in 0..Levels : r = Row(t, From(t))
      BY <2>1
    <3> HIDE DEF From
    <3> QED  BY <2>2, <3>1, RowType
  <2>4. IsFiniteSet(useful)
    <3> DEFINE f == [t \in 0..Levels |-> Row(t, From(t))]
    <3>1. IsFiniteSet(0..Levels)
      BY FS_Interval, SelectionParameters
    <3>2. Sweep(G) = {f[t] : t \in 0..Levels}
      BY <2>1
    <3> HIDE DEF f
    <3>3. IsFiniteSet(Sweep(G))
      <4> DEFINE levels == 0..Levels
      <4>1. IsFiniteSet(levels)
        BY <3>1
      <4> HIDE DEF levels
      <4>2. IsFiniteSet({f[t] : t \in levels})
        BY <4>1, FiniteImage
      <4> QED  BY <3>2, <4>2 DEF levels
    <3>4. useful \in SUBSET Sweep(G)
      OBVIOUS
    <3> QED  BY <3>3, <3>4, FS_Subset
  <2>5. \A r \in useful : r.average \in Int /\ r.threshold \in Int /\ r.pnl \in Int
    BY <2>3 DEF Numbers
  <2>6. bests # {}
    <3> HIDE DEF useful
    <3> QED  BY <1>2, <2>4, <2>5, HasBest
  <2>7. best \in bests
    BY <2>6, TheElement DEF best
  <2>8. best \in useful
    BY <2>7 DEF Best
  <2>9. /\ best.threshold \in 0..Levels /\ best.threshold >= MinThreshold
        /\ Cardinality(From(best.threshold)) >= MinTrades
        /\ Mean(From(best.threshold)) >= UtilityFloor
    BY <2>3, <2>8
  <2>10. row = TypeRow("candidate_type_calibration", best.threshold, best.average)
    BY <1>1, <1>2
  <2>11. /\ row.source = "candidate_type_calibration" /\ ~ row.abstain
         /\ row.threshold = best.threshold
    BY <2>10, TypeRowParts
  <2>12. Cardinality(G) >= MinTrades
    <3> DEFINE G1 == From(best.threshold)
    <3>1. G1 \in SUBSET G /\ IsFiniteSet(G)
      BY DEF Samples, Gains
    <3>2. Cardinality(G1) >= MinTrades
      BY <2>9
    <3> HIDE DEF G1
    <3>3. /\ Cardinality(G1) <= Cardinality(G)
          /\ Cardinality(G1) \in Nat /\ Cardinality(G) \in Nat
      BY <3>1, FS_Subset, FS_CardinalityType
    <3> QED  BY <3>2, <3>3, SelectionParameters
  <2> QED  BY <2>9, <2>11, <2>12
<1>3. CASE useful = {} /\ Cardinality(G) >= MinTrades
  <2>1. row = TypeRow("negative_calibration_utility", Unset, seen.average)
    BY <1>1, <1>3
  <2> HIDE DEF useful
  <2> QED  BY <1>3, <2>1, TypeRowParts
<1>4. CASE useful = {} /\ ~ (Cardinality(G) >= MinTrades)
  <2>1. row = TypeRow("insufficient_calibration", Unset, 0)
    BY <1>1, <1>4
  <2> HIDE DEF useful
  <2> QED  BY <1>4, <2>1, TypeRowParts
<1> QED  BY <1>2, <1>3, <1>4

\* A family that does not abstain earned its keep.
LEMMA FamilyRows ==
    ASSUME NEW F, Gains(F), NEW row, row = FamilyRow(F)
    PROVE  /\ row.source # "insufficient_calibration" /\ row.threshold = Unset
           /\ ~ row.abstain => Mean(F) >= UtilityFloor
<1>1. Mean(F) \in Int /\ UtilityFloor \in Int
  BY MeanType, SelectionParameters DEF UtilityFloor, Larger
<1> DEFINE mean == Mean(F)
<1>2. CASE mean < UtilityFloor
  <2>1. row = TypeRow("negative_family_prior_utility", Unset, mean)
    BY <1>2 DEF FamilyRow
  <2> QED  BY <2>1, TypeRowParts
<1>3. CASE ~ (mean < UtilityFloor)
  <2>1. row = TypeRow("family_prior", Unset, mean)
    BY <1>3 DEF FamilyRow
  <2> QED  BY <1>1, <1>3, <2>1, TypeRowParts
<1> QED  BY <1>2, <1>3

\* The key of a family is no key of a smaller group, unless it is its own.
LEMMA Keys ==
    ASSUME NEW x, NEW c
    PROVE  /\ FamilyKey(c) = FamilyKey(x) <=> c.type = x.type
           /\ SideKey(x) = FamilyKey(x) \/ FamilyKey(c) # SideKey(x)
           /\ FamilyKey(c) = GroupKey(x) => FamilyKey(c) = FamilyKey(x)
<1> DEFINE t == x.type
           r == x.regime
<1>1. FamilyKey(c) = <<c.type>> /\ FamilyKey(x) = <<t>>
  BY DEF FamilyKey
<1>2. SideKey(x) = <<t, "SELL">> \/ SideKey(x) = <<t>>
  BY DEF SideKey
<1>3. GroupKey(x) = SideKey(x) \/ Len(GroupKey(x)) \in {2, 3}
  <2>1. ASSUME NEW a, NEW d
        PROVE  Len(Append(<<a>>, d)) = 2 /\ Len(Append(<<a, "SELL">>, d)) = 3
    <3> DEFINE S == {a, "SELL", d}
    <3>1. /\ <<a>> \in Seq(S) /\ Len(<<a>>) = 1
          /\ <<a, "SELL">> \in Seq(S) /\ Len(<<a, "SELL">>) = 2 /\ d \in S
      OBVIOUS
    <3> HIDE DEF S
    <3> QED  BY <3>1
  <2> HIDE DEF t, r
  <2>2. Len(Append(SideKey(x), r)) \in {2, 3}
    BY <1>2, <2>1
  <2> QED  BY <2>2 DEF GroupKey, r
<1>4. \A y : <<y>> # <<t, "SELL">> /\ Len(<<y>>) = 1
  <2> SUFFICES ASSUME NEW y PROVE <<y>> # <<t, "SELL">> /\ Len(<<y>>) = 1
    OBVIOUS
  <2>1. Len(<<y>>) = 1 /\ Len(<<t, "SELL">>) = 2
    OBVIOUS
  <2> HIDE DEF t
  <2> QED  BY <2>1
<1>5. c.type = t <=> <<c.type>> = <<t>>
  OBVIOUS
<1> HIDE DEF t, r
<1> QED  BY <1>1, <1>2, <1>3, <1>4, <1>5 DEF t

\* The samples of a group, and those of a family.
GroupOf(slice, key) == {g \in slice : GroupKey(g) = key}
FamilyOf(cal, key) == {c \in cal : FamilyKey(c) = key}

\* What is known by type: of the groups of the slice, and of the families of
\* the calibration samples that are large enough and whose key is not taken.
LEMMA TypeRowsAre ==
    ASSUME NEW slice, NEW cal, NEW types, types = TypeRows(slice, cal), NEW key
    PROVE  /\ GroupOf(slice, key) # {} =>
                 key \in DOMAIN types /\ types[key] = GroupRow(GroupOf(slice, key))
           /\ GroupOf(slice, key) = {} =>
                 /\ key \in DOMAIN types <=>
                       /\ FamilyOf(cal, key) # {}
                       /\ Cardinality(FamilyOf(cal, key)) >= MinTrades
                 /\ key \in DOMAIN types => types[key] = FamilyRow(FamilyOf(cal, key))
<1> DEFINE groups == {GroupKey(s) : s \in slice}
           Family(k) == {s \in cal : FamilyKey(s) = k}
           families == {k \in {FamilyKey(s) : s \in cal} \ groups :
                           Cardinality(Family(k)) >= MinTrades}
           RowFor(k) == IF k \in groups THEN GroupRow({s \in slice : GroupKey(s) = k})
                        ELSE FamilyRow(Family(k))
<1>1. types = [k \in groups \cup families |-> RowFor(k)]
  BY Zenon DEF TypeRows
<1>2. key \in DOMAIN types <=> key \in groups \/ key \in families
  <2> HIDE DEF groups, families, RowFor
  <2> QED  BY <1>1
<1>3. key \in DOMAIN types => types[key] = RowFor(key)
  <2> HIDE DEF groups, families, RowFor
  <2> QED  BY <1>1
<1>4. key \in groups <=> GroupOf(slice, key) # {}
  BY DEF GroupOf
<1>5. Family(key) = FamilyOf(cal, key)
  BY DEF FamilyOf
<1>6. key \in families <=>
         /\ key \notin groups /\ Family(key) # {}
         /\ Cardinality(Family(key)) >= MinTrades
  OBVIOUS
<1>7. /\ key \in groups => RowFor(key) = GroupRow(GroupOf(slice, key))
      /\ key \notin groups => RowFor(key) = FamilyRow(Family(key))
  BY DEF GroupOf
<1> HIDE DEF groups, families, RowFor, Family
<1> QED  BY <1>2, <1>3, <1>4, <1>5, <1>6, <1>7

\* The thresholds of the types are levels, or none.
LEMMA TypeThresholds ==
    ASSUME NEW slice, Samples(slice), NEW cal, Gains(cal),
           NEW types, types = TypeRows(slice, cal), NEW key \in DOMAIN types
    PROVE  types[key].threshold \in 0..Levels \cup {Unset}
<1> DEFINE row == types[key]
           G == GroupOf(slice, key)
           F == FamilyOf(cal, key)
<1>1. Samples(G) /\ Gains(F)
  BY Parts DEF GroupOf, FamilyOf
<1>2. row = GroupRow(G) \/ row = FamilyRow(F)
  BY TypeRowsAre
<1> HIDE DEF row, G, F
<1>3. row.threshold \in 0..Levels \cup {Unset}
  BY <1>1, <1>2, GroupRows, FamilyRows
<1> QED  BY <1>3 DEF row

\* What is found for a sample is one of the rows, at most.
LEMMA LookedUp ==
    ASSUME NEW types, NEW x
    PROVE  \/ Lookup(types, x) = {}
           \/ \E key \in DOMAIN types : Lookup(types, x) = {types[key]}
<1> DEFINE rows(k) == At(types, k)
<1>1. \A k : rows(k) = {} \/ \E key \in DOMAIN types : rows(k) = {types[key]}
  BY DEF At
<1>2. \E k : Lookup(types, x) = rows(k)
  BY Zenon DEF Lookup
<1> QED  BY <1>1, <1>2

\* A sample that reaches the least that is asked of it reaches every threshold.
LEMMA LeastReached ==
    ASSUME NEW policy, policy.threshold \in Int,
           \A key \in DOMAIN policy.types : policy.types[key].threshold \in Int,
           NEW x, x.p \in Int,
           x.p >= Least(policy, Lookup(policy.types, x))
    PROVE  \A row \in Lookup(policy.types, x) : x.p >= row.threshold
<1> DEFINE rows == Lookup(policy.types, x)
           T == {policy.threshold} \cup {row.threshold : row \in rows}
<1>1. Least(policy, rows) = Max(T)
  BY DEF Least
<1>2. CASE rows = {}
  BY <1>2
<1>3. CASE \E key \in DOMAIN policy.types : rows = {policy.types[key]}
  <2>1. PICK key \in DOMAIN policy.types : rows = {policy.types[key]}
    BY <1>3
  <2> DEFINE a == policy.threshold
             b == policy.types[key].threshold
  <2>2. T = {a} \cup {b} /\ a \in Int /\ b \in Int
    BY <2>1
  <2>3. x.p >= Max(T)
    BY <1>1
  <2> HIDE DEF T, rows, a, b
  <2>4. IsFiniteSet(T)
    BY <2>2, FS_Singleton, FS_AddElement
  <2>5. T \in SUBSET Int /\ T # {} /\ b \in T
    BY <2>2
  <2>6. Max(T) \in Int /\ b <= Max(T)
    BY <2>4, <2>5, FiniteGreatest
  <2>7. x.p >= b
    BY <2>2, <2>3, <2>6
  <2> QED  BY <2>1, <2>7 DEF b, rows
<1> QED  BY <1>2, <1>3, LookedUp

\* A group with a fair chance of its own is traded from where it earned its
\* keep.
LEMMA GroupTraded ==
    ASSUME NEW slice, Samples(slice), NEW cal, Gains(cal),
           NEW types, types = TypeRows(slice, cal), NEW x, x.p \in Int,
           \A row \in Lookup(types, x) : ~ row.abstain /\ x.p >= row.threshold,
           NEW group, group = GroupOf(slice, GroupKey(x)),
           Cardinality(group) >= MinTrades
    PROVE  \E t \in MinThreshold..x.p :
              /\ Cardinality({g \in group : g.p >= t}) >= MinTrades
              /\ Mean({g \in group : g.p >= t}) >= UtilityFloor
<1> DEFINE key == GroupKey(x)
           row == types[key]
<1>1. Samples(group)
  BY Parts DEF GroupOf
<1>2. group # {}
  BY FS_EmptySet, SelectionParameters
<1>3. key \in DOMAIN types /\ row = GroupRow(group)
  BY <1>2, TypeRowsAre
<1> HIDE DEF row
<1>4. \/ /\ row.source = "candidate_type_calibration"
         /\ row.threshold \in 0..Levels /\ row.threshold >= MinThreshold
         /\ Cardinality({s \in group : s.p >= row.threshold}) >= MinTrades
         /\ Mean({s \in group : s.p >= row.threshold}) >= UtilityFloor
      \/ row.source = "negative_calibration_utility" /\ row.abstain
  BY <1>1, <1>3, GroupRows
<1>5. Lookup(types, x) = {row}
  <2>1. At(types, key) = {row}
    BY <1>3 DEF At, row
  <2>2. row.source # "insufficient_calibration"
    BY <1>4
  <2> HIDE DEF key
  <2> DEFINE family == IF At(types, SideKey(x)) # {} THEN At(types, SideKey(x))
                       ELSE At(types, FamilyKey(x))
             local == At(types, key)
             overruled == \E l \in local, f \in family :
                             l.source = "insufficient_calibration" /\ f.abstain
  <2>3. Lookup(types, x) = IF local = {} \/ overruled THEN family ELSE local
    BY Zenon DEF Lookup, key
  <2> HIDE DEF family
  <2>4. ~ overruled /\ local # {}
    BY <2>1, <2>2
  <2> QED  BY <2>1, <2>3, <2>4
<1>6. ~ row.abstain /\ x.p >= row.threshold
  BY <1>5
<1>7. row.threshold \in MinThreshold..x.p
  BY <1>4, <1>6, SelectionParameters
<1> QED  BY <1>4, <1>6, <1>7

\* A sample of a thin or unseen group is traded only if its family earned its
\* keep, where that was known and its key not taken.
LEMMA FamilyTraded ==
    ASSUME NEW slice, Samples(slice), NEW cal, Gains(cal),
           NEW types, types = TypeRows(slice, cal), NEW x,
           \A row \in Lookup(types, x) : ~ row.abstain,
           NEW group, group = GroupOf(slice, GroupKey(x)),
           ~ (Cardinality(group) >= MinTrades),
           GroupOf(slice, FamilyKey(x)) = {}, GroupOf(slice, SideKey(x)) = {},
           NEW family, family = FamilyOf(cal, FamilyKey(x)),
           Cardinality(family) >= MinTrades
    PROVE  Mean(family) >= UtilityFloor
<1> DEFINE key == FamilyKey(x)
           row == types[key]
           side == SideKey(x)
           own == GroupKey(x)
           wider == IF At(types, side) # {} THEN At(types, side) ELSE At(types, key)
           local == At(types, own)
           overruled == \E l \in local, f \in wider :
                           l.source = "insufficient_calibration" /\ f.abstain
<1>1. Gains(family) /\ Samples(group)
  BY Parts DEF GroupOf, FamilyOf
<1>2. family # {}
  BY FS_EmptySet, SelectionParameters
<1>3. key \in DOMAIN types /\ row = FamilyRow(family)
  BY <1>2, TypeRowsAre
<1>4. /\ row.source # "insufficient_calibration"
      /\ ~ row.abstain => Mean(family) >= UtilityFloor
  BY <1>1, <1>3, FamilyRows
<1>5. At(types, key) = {row}
  BY <1>3 DEF At
<1>6. wider = {row}
  <2>1. CASE side = key
    BY <1>5, <2>1
  <2>2. CASE side # key
    <3>1. FamilyOf(cal, side) = {}
      BY <2>2, Keys DEF FamilyOf
    <3>2. side \notin DOMAIN types
      BY <3>1, TypeRowsAre
    <3>3. At(types, side) = {}
      BY <3>2 DEF At
    <3> QED  BY <1>5, <3>3
  <2> QED  BY <2>1, <2>2
<1>7. Lookup(types, x) = IF local = {} \/ overruled THEN wider ELSE local
  BY Zenon DEF Lookup
<1>8. ASSUME row.abstain PROVE Lookup(types, x) = {row}
  <2>1. CASE own \notin DOMAIN types
    <3>1. local = {}
      BY <2>1 DEF At
    <3> HIDE DEF wider, local
    <3> QED  BY <1>6, <1>7, <3>1
  <2>2. CASE own \in DOMAIN types /\ group # {}
    <3>1. types[own] = GroupRow(group)
      BY <2>2, TypeRowsAre
    <3>2. types[own].source = "insufficient_calibration"
      <4> DEFINE q == types[own]
      <4>1. q = GroupRow(group)
        BY <3>1
      <4> HIDE DEF q
      <4>2. q.source = "insufficient_calibration"
        BY <1>1, <4>1, GroupRows
      <4> QED  BY <4>2 DEF q
    <3>3. local = {types[own]}
      BY <2>2 DEF At
    <3> HIDE DEF wider, local, row
    <3>4. overruled
      BY <1>6, <1>8, <3>2, <3>3
    <3> HIDE DEF overruled
    <3> QED  BY <1>6, <1>7, <3>4
  <2>3. CASE own \in DOMAIN types /\ group = {}
    <3>1. FamilyOf(cal, own) # {}
      BY <2>3, TypeRowsAre
    <3>2. own = key
      BY <3>1, Keys DEF FamilyOf
    <3>3. local = {row}
      BY <1>5, <3>2
    <3> HIDE DEF wider, local, overruled
    <3> QED  BY <1>6, <1>7, <3>3
  <2> QED  BY <2>1, <2>2, <2>3
<1>9. ~ row.abstain
  <2>1. CASE row.abstain
    <3>1. row \in Lookup(types, x)
      BY <1>8, <2>1
    <3> QED  BY <3>1
  <2> QED  BY <2>1
<1> QED  BY <1>4, <1>9

-----------------------------------------------------------------------------
(* What a report shows *)

\* PolicyEarned and TradedGroupsEarned of one report.
PolicyEarnedIn(report) ==
    (report.found # {} \/ report.floorFound # {}) /\ report.policy.frequency # "none"
        /\ ~ report.policy.negativeEV
    => Total(Chosen(report.slice, report.policy)) > 0

Fair(S) == Cardinality(S) >= MinTrades
GroupsEarnedIn(report) ==
    DOMAIN report.policy.types # {} /\ report.policy.frequency # "quota" =>
       \A s \in report.traded :
          LET group == {g \in report.slice : GroupKey(g) = GroupKey(s)}
              family == {c \in report.cal : c.type = s.type}
              named == {g \in report.slice : GroupKey(g) \in {FamilyKey(s), SideKey(s)}}
          IN /\ Fair(group) =>
                    \E t \in MinThreshold..s.p :
                        LET T == {g \in group : g.p >= t}
                        IN Fair(T) /\ Mean(T) >= UtilityFloor
             /\ ~ Fair(group) /\ named = {} /\ Fair(family) => Mean(family) >= UtilityFloor

\* The policy of a report has thresholds.
ThresholdsIn(report) ==
    /\ report.policy.threshold \in Int
    /\ \A key \in DOMAIN report.policy.types :
          report.policy.types[key].threshold \in 0..Levels \cup {Unset}

\* A threshold that is found is a level.
LEMMA FoundThresholds ==
    ASSUME NEW s \in Setting, NEW cal, NEW slice, Samples(slice)
    PROVE  \A row \in FoundRow(s, cal, slice) : row.threshold \in Int
<1> DEFINE policy == Estimated(s, cal, slice)
           T(t) == Chosen(slice, [policy EXCEPT !.threshold = t])
           rows == {Row(t, T(t)) : t \in 0..Levels}
<1>1. ASSUME NEW t \in 0..Levels, NEW C
      PROVE  Row(t, C).threshold \in Int /\ Softened(policy, Row(t, C)).threshold \in Int
  <2> DEFINE row == Row(t, C)
             zero == [row EXCEPT !.threshold = 0]
  <2>1. row.threshold = t /\ zero.threshold = 0
    BY DEF Row
  <2> HIDE DEF row, zero, policy
  <2>2. Softened(policy, row) = row \/ Softened(policy, row) = zero
    BY Zenon DEF Softened, zero
  <2> QED  BY <2>1, <2>2 DEF row
<1>2. FoundRow(s, cal, slice) = Found(s, slice, policy)
  BY DEF FoundRow
<1>3. \A row \in CalibratedThreshold(slice) : row.threshold \in Int
  <2>1. CalibratedThreshold(slice) \subseteq Sweep(slice)
    BY DEF CalibratedThreshold, Best
  <2> QED  BY <1>1, <2>1 DEF Sweep
<1>4. \A row \in FrequencyThreshold(slice, policy) : row.threshold \in Int
  <2>1. FrequencyThreshold(slice, policy) = ThresholdRow(rows, policy, Span(slice))
    BY Zenon DEF FrequencyThreshold
  <2>2. ASSUME NEW row \in FrequencyThreshold(slice, policy) PROVE row.threshold \in Int
    <3> HIDE DEF policy, T, rows
    <3> DEFINE span == Span(slice)
               met == {r \in rows : Met(r, policy.rate, span)}
               earned == BestEarned(rows, policy, span)
               near == Closest({r \in rows : r.trades > 0}, policy, span)
               best == Best(met, LAMBDA r : ObjectiveKey(r, policy.metric))
               most == Best(met, LAMBDA r : <<r.threshold, r.average, r.pnl>>)
               found == IF ~ policy.negativeEV THEN earned
                        ELSE IF met = {} THEN near
                        ELSE IF policy.metric # "sharpe" THEN best ELSE most
    <3>1. earned \subseteq rows
      BY BestHasEarned
    <3>2. near \subseteq rows
      BY DEF Closest, Best
    <3>3. best \subseteq rows /\ most \subseteq rows
      BY DEF Best
    <3>4. ThresholdRow(rows, policy, span) = {Softened(policy, q) : q \in found}
      BY Zenon DEF ThresholdRow
    <3> HIDE DEF earned, near, best, most, met
    <3>5. found \subseteq rows
      BY <3>1, <3>2, <3>3
    <3> HIDE DEF found
    <3>6. \E q \in rows : row = Softened(policy, q)
      BY <2>1, <3>4, <3>5
    <3> QED  BY <1>1, <3>6 DEF rows
  <2> QED  BY <2>2
<1> HIDE DEF policy
<1>5. \/ Found(s, slice, policy) = FrequencyThreshold(slice, policy)
      \/ Found(s, slice, policy) = CalibratedThreshold(slice)
      \/ Found(s, slice, policy) = {}
  BY DEF Found
<1> QED  BY <1>2, <1>3, <1>4, <1>5

\* What a report of a fold shows, whatever its samples are.
LEMMA NewReport ==
    ASSUME NEW s \in Setting, NEW cal, Gains(cal), NEW slice, Samples(slice),
           NEW test, Samples(test), NEW report, report = ScoredFold(s, cal, slice, test)
    PROVE  PolicyEarnedIn(report) /\ GroupsEarnedIn(report) /\ ThresholdsIn(report)
<1> DEFINE policy == FullPolicy(s, cal, slice)
           threshold == ThresholdOf(s, cal, slice)
           types == TypesOf(s, cal, slice)
<1>1. /\ report.cal = cal /\ report.slice = slice /\ report.policy = policy
      /\ report.found = FoundRow(s, cal, slice) /\ report.floorFound = FloorFound(s, cal, slice)
      /\ report.traded = Traded(policy, test)
  BY ReportParts
<1>2. /\ policy.threshold = threshold /\ policy.types = types
      /\ policy.frequency = s.frequency /\ policy.negativeEV = s.negativeEV
  BY DEF FullPolicy, PolicyOf
<1>3. threshold \in Int
  <2> DEFINE found == {row.threshold : row \in FoundRow(s, cal, slice)}
  <2>1. found \subseteq Int
    BY FoundThresholds
  <2>2. threshold = The(found, MinProbability)
    BY DEF ThresholdOf
  <2> HIDE DEF found, threshold
  <2>3. threshold \in found \/ threshold = MinProbability
    BY <2>2, TheElement, Zenon
  <2>4. ASSUME threshold \in found PROVE threshold \in Int
    BY <2>1, <2>4
  <2>5. MinProbability \in Int
    BY SelectionParameters
  <2> QED  BY <2>3, <2>4, <2>5, Zenon
<1>4. /\ types = TypeRows(slice, cal) \/ DOMAIN types = {}
      /\ \A key \in DOMAIN types : types[key].threshold \in 0..Levels \cup {Unset}
  <2>1. CASE s.typed
    <3>1. types = TypeRows(slice, cal)
      BY <2>1 DEF TypesOf
    <3> HIDE DEF types
    <3> QED  BY <3>1, TypeThresholds
  <2>2. CASE ~ s.typed
    BY <2>2 DEF TypesOf
  <2> QED  BY <2>1, <2>2
<1> HIDE DEF policy, threshold, types
<1>5. PolicyEarnedIn(report)
  <2> SUFFICES ASSUME FoundRow(s, cal, slice) # {} \/ FloorFound(s, cal, slice) # {},
                      s.frequency # "none", ~ s.negativeEV
               PROVE  Total(Chosen(slice, policy)) > 0
    BY <1>1, <1>2 DEF PolicyEarnedIn
  <2>1. CASE FloorFound(s, cal, slice) # {}
    BY <2>1, FloorEarns DEF policy
  <2>2. CASE FloorFound(s, cal, slice) = {}
    BY <2>2, ThresholdEarns DEF policy
  <2> QED  BY <2>1, <2>2
<1>6. ThresholdsIn(report)
  BY <1>1, <1>2, <1>3, <1>4 DEF ThresholdsIn
<1>7. GroupsEarnedIn(report)
  <2> SUFFICES ASSUME DOMAIN types # {}, s.frequency # "quota", NEW x \in Traded(policy, test)
               PROVE  LET group == {g \in slice : GroupKey(g) = GroupKey(x)}
                          family == {c \in cal : c.type = x.type}
                          named == {g \in slice : GroupKey(g) \in {FamilyKey(x), SideKey(x)}}
                      IN /\ Fair(group) =>
                                \E t \in MinThreshold..x.p :
                                    LET T == {g \in group : g.p >= t}
                                    IN Fair(T) /\ Mean(T) >= UtilityFloor
                         /\ ~ Fair(group) /\ named = {} /\ Fair(family) =>
                                Mean(family) >= UtilityFloor
    BY <1>1, <1>2 DEF GroupsEarnedIn
  <2> DEFINE rows == Lookup(types, x)
  <2>1. types = TypeRows(slice, cal)
    BY <1>4
  <2>2. x \in test /\ (\A row \in rows : ~ row.abstain) /\ x.p >= Least(policy, rows)
    <3>1. CASE s.frequency = "none"
      <4>1. x \in {y \in test : TradesAlone(policy, y)}
        BY <1>2, <3>1 DEF Traded
      <4> QED  BY <1>2, <4>1 DEF TradesAlone
    <3>2. CASE s.frequency # "none"
      <4>1. x \in Chosen(test, policy)
        BY <1>2, <3>2 DEF Traded
      <4>2. x \in test /\ Passes(policy, x)
        BY <4>1, ChosenPass
      <4> QED  BY <1>2, <4>2 DEF Passes
    <3> QED  BY <3>1, <3>2
  <2>3. x.p \in Int
    BY <2>2, SelectionParameters DEF Samples
  <2>4. \A row \in rows : x.p >= row.threshold
    <3>1. \A key \in DOMAIN types : types[key].threshold \in Int
      BY <1>4, SelectionParameters DEF Unset
    <3> QED  BY <1>2, <1>3, <2>2, <2>3, <3>1, LeastReached
  <2> DEFINE group == GroupOf(slice, GroupKey(x))
             family == FamilyOf(cal, FamilyKey(x))
             named == {g \in slice : GroupKey(g) \in {FamilyKey(x), SideKey(x)}}
  <2>5. /\ group = {g \in slice : GroupKey(g) = GroupKey(x)}
        /\ family = {c \in cal : c.type = x.type}
    BY Keys DEF GroupOf, FamilyOf
  <2>6. Fair(group) => \E t \in MinThreshold..x.p :
           /\ Cardinality({g \in group : g.p >= t}) >= MinTrades
           /\ Mean({g \in group : g.p >= t}) >= UtilityFloor
    <3> HIDE DEF group
    <3> SUFFICES ASSUME Fair(group)
                 PROVE \E t \in MinThreshold..x.p :
                          /\ Cardinality({g \in group : g.p >= t}) >= MinTrades
                          /\ Mean({g \in group : g.p >= t}) >= UtilityFloor
      OBVIOUS
    <3>1. Cardinality(group) >= MinTrades
      BY DEF Fair
    <3> QED  BY <2>1, <2>2, <2>3, <2>4, <3>1, GroupTraded DEF group
  <2>7. ~ Fair(group) /\ named = {} /\ Fair(family) => Mean(family) >= UtilityFloor
    <3> SUFFICES ASSUME ~ Fair(group), named = {}, Fair(family)
                 PROVE  Mean(family) >= UtilityFloor
      OBVIOUS
    <3>1. GroupOf(slice, FamilyKey(x)) = {} /\ GroupOf(slice, SideKey(x)) = {}
      BY DEF GroupOf
    <3>2. ~ (Cardinality(group) >= MinTrades) /\ Cardinality(family) >= MinTrades
      BY DEF Fair
    <3> QED  BY <2>1, <2>2, <3>1, <3>2, FamilyTraded
  <2> HIDE DEF rows, group, family, named
  <2> QED  BY <2>5, <2>6, <2>7 DEF Fair, named
<1> QED  BY <1>5, <1>6, <1>7

-----------------------------------------------------------------------------
(* The median *)

\* A number that is no smaller than the median is no smaller than at least
\* half of the values; the median of numbers from zero on is one.
LEMMA MedianHalf ==
    ASSUME NEW K \in SUBSET Nat, IsFiniteSet(K), K # {}, NEW value \in [K -> Int]
    PROVE  /\ Median(value) \in Int
           /\ \A p \in Int : p >= Median(value) =>
                 2 * Cardinality({k \in K : value[k] <= p}) >= Cardinality(K)
           /\ (\A k \in K : value[k] >= 0) => Median(value) >= 0
<1> DEFINE n == Cardinality(K)
           Below(k) == {j \in K : value[j] < value[k] \/ (value[j] = value[k] /\ j < k)}
           Position(k) == Cardinality(Below(k))
           Place(m) == CHOOSE k \in K : Position(k) = m - 1
           Nth(m) == value[Place(m)]
<1>1. n \in Nat /\ n > 0 /\ \A k \in K : value[k] \in Int /\ k \in Nat
  BY FS_CardinalityType, FS_EmptySet
<1>2. ASSUME NEW k \in K PROVE IsFiniteSet(Below(k)) /\ Position(k) \in 0..(n - 1)
  <2>1. Below(k) \in SUBSET (K \ {k})
    BY <1>1
  <2> HIDE DEF Below
  <2>2. IsFiniteSet(K \ {k}) /\ Cardinality(K \ {k}) = n - 1
    BY FS_RemoveElement
  <2>3. IsFiniteSet(Below(k)) /\ Position(k) <= n - 1
    BY <2>1, <2>2, FS_Subset
  <2>4. Position(k) \in Nat
    BY <2>3, FS_CardinalityType
  <2> QED  BY <1>1, <2>3, <2>4
<1>3. ASSUME NEW j \in K, NEW k \in K,
             value[j] < value[k] \/ (value[j] = value[k] /\ j < k)
      PROVE  Position(j) < Position(k)
  <2>1. j \notin Below(j) /\ Below(j) \cup {j} \in SUBSET Below(k)
    <3>1. j \notin Below(j) /\ j \in Below(k)
      BY <1>1, <1>3
    <3>2. ASSUME NEW i \in Below(j) PROVE i \in Below(k)
      <4>1. i \in K /\ (value[i] < value[j] \/ (value[i] = value[j] /\ i < j))
        OBVIOUS
      <4>2. /\ value[i] \in Int /\ value[j] \in Int /\ value[k] \in Int
            /\ i \in Nat /\ j \in Nat /\ k \in Nat
        BY <1>1, <4>1
      <4>3. value[i] < value[k] \/ (value[i] = value[k] /\ i < k)
        BY <1>3, <4>1, <4>2
      <4> QED  BY <4>1, <4>3
    <3> HIDE DEF Below
    <3> QED  BY <3>1, <3>2
  <2>2. IsFiniteSet(Below(j)) /\ IsFiniteSet(Below(k)) /\ Position(j) \in Nat /\ Position(k) \in Nat
    BY <1>1, <1>2
  <2> HIDE DEF Below
  <2>3. /\ Cardinality(Below(j) \cup {j}) = Position(j) + 1
        /\ Cardinality(Below(j) \cup {j}) <= Position(k)
    BY <2>1, <2>2, FS_AddElement, FS_Subset
  <2> QED  BY <2>2, <2>3
<1> HIDE DEF Below
<1>4. \A m \in 1..n : Place(m) \in K /\ Position(Place(m)) = m - 1
  <2> DEFINE f == [k \in K |-> Position(k)]
             T == 0..(n - 1)
  <2>1. f \in Injection(K, T)
    <3>1. f \in [K -> T]
      BY <1>2
    <3>2. \A j, k \in K : j # k => f[j] # f[k]
      <4> SUFFICES ASSUME NEW j \in K, NEW k \in K, j # k PROVE Position(j) # Position(k)
        OBVIOUS
      <4>1. value[j] \in Int /\ value[k] \in Int /\ j \in Nat /\ k \in Nat
        BY <1>1
      <4>2. \/ value[j] < value[k] \/ (value[j] = value[k] /\ j < k)
            \/ value[k] < value[j] \/ (value[k] = value[j] /\ k < j)
        BY <4>1
      <4>3. Position(j) < Position(k) \/ Position(k) < Position(j)
        BY <1>3, <4>2
      <4>4. Position(j) \in Int /\ Position(k) \in Int
        BY <1>1, <1>2
      <4> HIDE DEF Position
      <4> QED  BY <4>3, <4>4
    <3> HIDE DEF f, T
    <3> QED  BY <3>1, <3>2 DEF Injection, IsInjective
  <2>2. IsFiniteSet(T) /\ Cardinality(T) = n
    BY <1>1, FS_Interval
  <2>3. f \in Surjection(K, T)
    <3> HIDE DEF f, T
    <3> QED  BY <2>1, <2>2, FS_Injection
  <2>4. \A t \in T : \E k \in K : Position(k) = t
    BY <2>3 DEF Surjection
  <2> HIDE DEF Position
  <2>5. ASSUME NEW m \in 1..n PROVE \E k \in K : Position(k) = m - 1
    <3>1. m - 1 \in T
      BY <1>1
    <3> QED  BY <2>4, <3>1
  <2> QED  BY <2>5
<1> DEFINE m1 == (n + 1) \div 2
           m2 == n \div 2 + 1
<1>5. m1 \in 1..n /\ m2 \in 1..n /\ m1 <= m2 /\ 2 * m1 >= n
  <2> HIDE DEF n
  <2> QED  BY <1>1
<1>6. Median(value) = -((-(Nth(m1) + Nth(m2))) \div 2)
  <2>1. DOMAIN value = K
    OBVIOUS
  <2> QED  BY <2>1, Zenon DEF Median, Below
<1> DEFINE k1 == Place(m1)
           k2 == Place(m2)
<1>7. k1 \in K /\ k2 \in K /\ Position(k1) = m1 - 1 /\ Position(k2) = m2 - 1
  <2> HIDE DEF m1, m2, n, Position, Place
  <2> QED  BY <1>4, <1>5
<1>8. Nth(m1) = value[k1] /\ Nth(m2) = value[k2]
  OBVIOUS
<1> HIDE DEF k1, k2, Nth, Place, m1, m2, Position, n
<1> DEFINE a == value[k1]
           b == value[k2]
<1>9. a \in Int /\ b \in Int /\ a <= b
  <2>1. CASE b < a
    <3>1. Position(k2) < Position(k1)
      BY <1>3, <1>7, <2>1
    <3> QED  BY <1>1, <1>5, <1>7, <3>1
  <2> QED  BY <1>1, <1>7, <2>1
<1> HIDE DEF a, b
<1>10. Median(value) = -((-(a + b)) \div 2)
  BY <1>6, <1>8 DEF a, b
<1>11. Median(value) \in Int /\ Median(value) >= a
  <2> DEFINE q == (-(a + b)) \div 2
  <2>1. q \in Int /\ 2 * q <= -(a + b)
    BY <1>9
  <2> HIDE DEF q
  <2>2. -q >= a
    BY <1>9, <2>1
  <2> QED  BY <1>10, <2>1, <2>2 DEF q
<1>12. ASSUME NEW p \in Int, p >= Median(value)
       PROVE  2 * Cardinality({k \in K : value[k] <= p}) >= n
  <2> DEFINE S == {k \in K : value[k] <= p}
             B == Below(k1)
  <2>1. p >= a
    BY <1>9, <1>11, <1>12
  <2>2. B \cup {k1} \in SUBSET S /\ k1 \notin B
    <3>1. \A j \in B : j \in K /\ j # k1 /\ value[j] <= a
      <4> SUFFICES ASSUME NEW j \in B PROVE j \in K /\ j # k1 /\ value[j] <= a
        OBVIOUS
      <4>1. j \in K /\ (value[j] < a \/ (value[j] = a /\ j < k1))
        BY DEF Below, a
      <4>2. value[j] \in Int /\ j \in Nat /\ k1 \in Nat
        BY <1>1, <1>7, <4>1
      <4>3. j # k1
        <5>1. CASE j = k1
          BY <4>1, <4>2, <5>1, <1>9 DEF a
        <5> QED  BY <5>1
      <4> QED  BY <1>9, <4>1, <4>2, <4>3
    <3> HIDE DEF B
    <3>2. \A j \in B : value[j] \in Int
      BY <1>1, <3>1
    <3>3. \A j \in B : value[j] <= p
      BY <1>9, <2>1, <3>1, <3>2
    <3> QED  BY <1>7, <2>1, <3>1, <3>3 DEF a
  <2>3. IsFiniteSet(S)
    BY FS_Subset
  <2>4. IsFiniteSet(B) /\ Cardinality(B) = m1 - 1
    BY <1>2, <1>7 DEF Position
  <2> HIDE DEF S, B
  <2>5. Cardinality(B \cup {k1}) = m1
    <3>1. Cardinality(B \cup {k1}) = Cardinality(B) + 1
      BY <2>2, <2>4, FS_AddElement
    <3>2. m1 \in Int
      BY <1>1, <1>5
    <3> QED  BY <2>4, <3>1, <3>2
  <2>6. Cardinality(S) \in Nat /\ m1 <= Cardinality(S)
    BY <2>2, <2>3, <2>5, FS_Subset, FS_CardinalityType
  <2>7. 2 * Cardinality(S) >= n
    BY <1>1, <1>5, <2>6
  <2> QED  BY <2>7 DEF S
<1>13. (\A k \in K : value[k] >= 0) => Median(value) >= 0
  BY <1>7, <1>9, <1>11 DEF a
<1> QED  BY <1>11, <1>12, <1>13 DEF n

-----------------------------------------------------------------------------
(* The artifact *)

\* All reports hold thresholds that are numbers.
Reported ==
    /\ reports \in Seq(Range(reports))
    /\ Len(reports) <= Len(folds)
    /\ setting = {} => reports = <<>>
    /\ \A k \in DOMAIN reports : ThresholdsIn(reports[k])

\* The folds that have a threshold for a key.
FoldsSet(key) == {k \in FoldsWith(key) : TypeRowOf(k, key).threshold # Unset}

\* Indices of the reports are finitely many numbers.
LEMMA ReportIndices ==
    ASSUME Reported
    PROVE  /\ DOMAIN reports = 1..Len(reports) /\ Len(reports) \in Nat
           /\ DOMAIN reports \in SUBSET Nat /\ IsFiniteSet(DOMAIN reports)
           /\ \A key : /\ FoldsSet(key) \in SUBSET Nat /\ IsFiniteSet(FoldsSet(key))
                       /\ FoldsSet(key) \in SUBSET (DOMAIN reports)
<1>1. DOMAIN reports = 1..Len(reports) /\ Len(reports) \in Nat
  BY DEF Reported
<1>2. IsFiniteSet(1..Len(reports))
  BY <1>1, FS_Interval
<1>3. IsFiniteSet(DOMAIN reports) /\ DOMAIN reports \in SUBSET Nat
  BY <1>1, <1>2
<1>4. \A key : FoldsSet(key) \in SUBSET (DOMAIN reports)
  BY DEF FoldsSet, FoldsWith
<1>5. \A key : IsFiniteSet(FoldsSet(key))
  BY <1>3, <1>4, FS_Subset
<1> QED  BY <1>1, <1>3, <1>4, <1>5

\* The row of the artifact for a key that some fold knew.
LEMMA ArtifactRow ==
    ASSUME Reported, NEW key, NEW k \in DOMAIN reports,
           key \in DOMAIN reports[k].policy.types
    PROVE  /\ key \in DOMAIN ArtifactTypes
           /\ ArtifactTypes[key].source = "artifact_fold_median"
           /\ ArtifactTypes[key].abstain <=> Abstained(key)
           /\ ArtifactTypes[key].threshold =
                 IF FoldsSet(key) = {} THEN Unset
                 ELSE Median([j \in FoldsSet(key) |-> TypeRowOf(j, key).threshold])
<1> DEFINE keys == UNION {DOMAIN reports[j].policy.types : j \in DOMAIN reports}
           given(q, b, c, d) == [source |-> "artifact_fold_median", abstain |-> b,
                                 threshold |-> c, average |-> d]
           threshold(q) == IF FoldsSet(q) = {} THEN Unset
                           ELSE Median([j \in FoldsSet(q) |-> TypeRowOf(j, q).threshold])
           average(q) == Median([j \in FoldsWith(q) |-> TypeRowOf(j, q).average])
<1>1. ArtifactTypes = [q \in keys |-> given(q, Abstained(q), threshold(q), average(q))]
  BY Zenon DEF ArtifactTypes, FoldsSet
<1>3. key \in keys
  OBVIOUS
<1> HIDE DEF keys, given, threshold, average
<1>4. key \in DOMAIN ArtifactTypes
      /\ ArtifactTypes[key] = given(key, Abstained(key), threshold(key), average(key))
  BY <1>1, <1>3, Zenon
<1>5. /\ ArtifactTypes[key].source = "artifact_fold_median"
      /\ ArtifactTypes[key].threshold = threshold(key)
      /\ ArtifactTypes[key].abstain = Abstained(key)
  <2> DEFINE b == Abstained(key)
             c == threshold(key)
             d == average(key)
  <2>1. ArtifactTypes[key] = given(key, b, c, d)
    BY <1>4
  <2> HIDE DEF b, c, d
  <2> DEFINE row == ArtifactTypes[key]
  <2>2. row = [source |-> "artifact_fold_median", abstain |-> b, threshold |-> c, average |-> d]
    BY <2>1 DEF given
  <2> HIDE DEF row
  <2>3. row.source = "artifact_fold_median" /\ row.threshold = c /\ row.abstain = b
    BY <2>2
  <2> QED  BY <2>3 DEF b, c, row
<1> QED  BY <1>4, <1>5 DEF threshold

\* The keys of the artifact are those of its folds.
LEMMA ArtifactKeys ==
    ASSUME NEW key \in DOMAIN ArtifactTypes
    PROVE  \E k \in DOMAIN reports : key \in DOMAIN reports[k].policy.types
<1> DEFINE keys == UNION {DOMAIN reports[j].policy.types : j \in DOMAIN reports}
<1>1. DOMAIN ArtifactTypes = keys
  BY Zenon DEF ArtifactTypes
<1> QED  BY <1>1

\* Its thresholds are numbers, which a number reaches only if it reaches half of
\* what the folds asked for.
LEMMA ArtifactAsks ==
    ASSUME Reported, NEW key
    PROVE  /\ FoldsSet(key) # {} =>
                LET value == [j \in FoldsSet(key) |-> TypeRowOf(j, key).threshold] IN
                /\ Median(value) \in Nat
                /\ \A p \in Int : p >= Median(value) =>
                      2 * Cardinality({j \in FoldsSet(key) : value[j] <= p})
                         >= Cardinality(FoldsSet(key))
           /\ key \in DOMAIN ArtifactTypes => ArtifactTypes[key].threshold \in Int
<1> DEFINE K == FoldsSet(key)
           value == [j \in K |-> TypeRowOf(j, key).threshold]
<1>1. K \in SUBSET Nat /\ IsFiniteSet(K)
  BY ReportIndices
<1>2. \A j \in K : TypeRowOf(j, key).threshold \in Nat
  <2> SUFFICES ASSUME NEW j \in K PROVE TypeRowOf(j, key).threshold \in Nat
    OBVIOUS
  <2>1. /\ j \in DOMAIN reports /\ key \in DOMAIN reports[j].policy.types
        /\ reports[j].policy.types[key].threshold # Unset
    BY DEF FoldsSet, FoldsWith, TypeRowOf
  <2>2. reports[j].policy.types[key].threshold \in 0..Levels \cup {Unset}
    BY <2>1 DEF Reported, ThresholdsIn
  <2>3. 0..Levels \subseteq Nat
    BY SelectionParameters
  <2> QED  BY <2>1, <2>2, <2>3 DEF TypeRowOf
<1>3. value \in [K -> Int] /\ \A j \in K : value[j] >= 0
  BY <1>2
<1>4. ASSUME K # {}
      PROVE  /\ Median(value) \in Nat
             /\ \A p \in Int : p >= Median(value) =>
                   2 * Cardinality({j \in K : value[j] <= p}) >= Cardinality(K)
  <2> HIDE DEF K, value
  <2>1. /\ Median(value) \in Int /\ Median(value) >= 0
        /\ \A p \in Int : p >= Median(value) =>
              2 * Cardinality({j \in K : value[j] <= p}) >= Cardinality(K)
    BY <1>1, <1>3, <1>4, MedianHalf
  <2> QED  BY <2>1
<1>5. ASSUME key \in DOMAIN ArtifactTypes PROVE ArtifactTypes[key].threshold \in Int
  <2>1. PICK k \in DOMAIN reports : key \in DOMAIN reports[k].policy.types
    BY <1>5, ArtifactKeys
  <2>2. ArtifactTypes[key].threshold = IF K = {} THEN Unset ELSE Median(value)
    BY <2>1, ArtifactRow
  <2> HIDE DEF K, value
  <2>3. CASE K = {}
    BY <2>2, <2>3 DEF Unset
  <2>4. CASE K # {}
    BY <1>4, <2>2, <2>4
  <2> QED  BY <2>3, <2>4
<1> QED  BY <1>4, <1>5

\* The parts of the policy of an artifact.
LEMMA ArtifactParts ==
    ASSUME NEW s
    PROVE  /\ ArtifactPolicy(s).threshold = ArtifactThreshold
           /\ ArtifactPolicy(s).types = ArtifactTypes
           /\ ArtifactPolicy(s).mode = s.mode
<1> DEFINE empty == <<>>
           given == PolicyOf(s, MinProbability, {}, 1, empty, empty, {})
           threshold == ArtifactThreshold
           floor == ArtifactFloor(s)
           sign == ArtifactSign(s)
           types == ArtifactTypes
           payoffs == ArtifactPayoffs
           held == Held
<1>1. Given(s) = given
  BY DEF Given, PolicyOf
<1> DEFINE p1 == [given EXCEPT !.threshold = threshold]
           p2 == [p1 EXCEPT !.floor = floor]
           p3 == [p2 EXCEPT !.sign = sign]
           p4 == [p3 EXCEPT !.types = types]
           p5 == [p4 EXCEPT !.payoffs = payoffs]
           p6 == [p5 EXCEPT !.losses = held]
<1>2. ArtifactPolicy(s) = p6
  BY <1>1, Zenon DEF ArtifactPolicy
<1> HIDE DEF empty, threshold, floor, sign, types, payoffs, held
<1>3. p1 = PolicyOf(s, threshold, {}, 1, empty, empty, {})
  BY DEF PolicyOf
<1> HIDE DEF given, p1
<1>4. p2 = PolicyOf(s, threshold, floor, 1, empty, empty, {})
  BY <1>3 DEF PolicyOf
<1> HIDE DEF p2
<1>5. p3 = PolicyOf(s, threshold, floor, sign, empty, empty, {})
  BY <1>4 DEF PolicyOf
<1> HIDE DEF p3
<1>6. p4 = PolicyOf(s, threshold, floor, sign, types, empty, {})
  BY <1>5 DEF PolicyOf
<1> HIDE DEF p4
<1>7. p5 = PolicyOf(s, threshold, floor, sign, types, payoffs, {})
  BY <1>6 DEF PolicyOf
<1> HIDE DEF p5
<1>8. p6 = PolicyOf(s, threshold, floor, sign, types, payoffs, held)
  BY <1>7 DEF PolicyOf
<1> HIDE DEF p6
<1>9. p6.threshold = threshold /\ p6.types = types /\ p6.mode = s.mode
  BY <1>8 DEF PolicyOf
<1> QED  BY <1>2, <1>9 DEF threshold, types


-----------------------------------------------------------------------------
(* A live decision *)

\* An artifact has the policies of the reports it was made from.
Fitted ==
    /\ artifact # {} =>
          /\ Len(reports) = Len(folds) /\ reports # <<>>
          /\ artifact = {ArtifactPolicy(s) : s \in setting}
    /\ verdict # {} => artifact # {}

RowsOf(k, key) == At(reports[k].policy.types, key)
Chose(k, key) == CHOOSE row \in RowsOf(k, key) : TRUE

\* LiveFollowsFolds of a sample that was approved.
FollowsFolds(x, override) ==
    LET own == {k \in DOMAIN reports : \E row \in RowsOf(k, GroupKey(x)) : row.threshold # Unset} IN
    /\ \A k \in DOMAIN reports : \A row \in RowsOf(k, GroupKey(x)) : ~ row.abstain
    /\ 2 * Cardinality({k \in own : Chose(k, GroupKey(x)).threshold <= x.p}) >= Cardinality(own)
    /\ override = {} /\ (\A s \in setting : s.mode # "return_first") =>
          2 * Cardinality({k \in DOMAIN reports : reports[k].policy.threshold <= x.p})
             >= Cardinality(DOMAIN reports)

\* The rows of a fold under a key: its own one, if it has one.
LEMMA RowsOfFold ==
    ASSUME NEW k \in DOMAIN reports, NEW key
    PROVE  /\ RowsOf(k, key) # {} <=> k \in FoldsWith(key)
           /\ k \in FoldsWith(key) =>
                 RowsOf(k, key) = {TypeRowOf(k, key)} /\ Chose(k, key) = TypeRowOf(k, key)
<1>1. RowsOf(k, key) = IF k \in FoldsWith(key) THEN {TypeRowOf(k, key)} ELSE {}
  BY DEF RowsOf, At, FoldsWith, TypeRowOf
<1>2. Chose(k, key) = CHOOSE row \in RowsOf(k, key) : TRUE
  BY DEF Chose
<1> DEFINE row == TypeRowOf(k, key)
<1> HIDE DEF row
<1>3. ASSUME RowsOf(k, key) = {row} PROVE Chose(k, key) = row
  <2>1. \E r \in {row} : TRUE
    OBVIOUS
  <2> QED  BY <1>2, <1>3, <2>1
<1> QED  BY <1>1, <1>3 DEF row

\* The own folds of a key are those with a threshold for it.
LEMMA OwnFolds ==
    ASSUME NEW key
    PROVE  /\ {k \in DOMAIN reports : \E row \in RowsOf(k, key) : row.threshold # Unset}
                 = FoldsSet(key)
           /\ \A k \in FoldsSet(key) : Chose(k, key) = TypeRowOf(k, key)
<1>1. \A k \in DOMAIN reports :
         (\E row \in RowsOf(k, key) : row.threshold # Unset) <=> k \in FoldsSet(key)
  <2> SUFFICES ASSUME NEW k \in DOMAIN reports
               PROVE (\E row \in RowsOf(k, key) : row.threshold # Unset) <=> k \in FoldsSet(key)
    OBVIOUS
  <2>1. CASE k \in FoldsWith(key)
    BY <2>1, RowsOfFold DEF FoldsSet
  <2>2. CASE k \notin FoldsWith(key)
    BY <2>2, RowsOfFold DEF FoldsSet
  <2> QED  BY <2>1, <2>2
<1>2. FoldsSet(key) \subseteq FoldsWith(key) /\ FoldsWith(key) \subseteq DOMAIN reports
  BY DEF FoldsSet, FoldsWith
<1> QED  BY <1>1, <1>2, RowsOfFold

\* A live sample that reaches the greatest threshold asked of it reaches each.
LEMMA AskedOf ==
    ASSUME NEW given \in Int, NEW own, own \subseteq Int, IsFiniteSet(own),
           NEW p \in Int, p >= Max({given} \cup own)
    PROVE  p >= given /\ \A t \in own : p >= t
<1> DEFINE T == {given} \cup own
<1>1. T \in SUBSET Int /\ T # {} /\ given \in T /\ own \subseteq T
  OBVIOUS
<1>2. IsFiniteSet(T)
  <2>1. T = own \cup {given}
    OBVIOUS
  <2> HIDE DEF T
  <2> QED  BY <2>1, FS_AddElement
<1>3. p >= Max(T)
  OBVIOUS
<1> HIDE DEF T
<1>4. Max(T) \in T /\ \A t \in T : t <= Max(T)
  BY <1>1, <1>2, FiniteGreatest
<1>5. Max(T) \in Int
  BY <1>1, <1>4
<1>6. ASSUME NEW t \in T PROVE p >= t
  <2>1. t \in Int /\ t <= Max(T)
    BY <1>1, <1>4
  <2> QED  BY <1>3, <1>5, <2>1
<1> QED  BY <1>1, <1>6

\* So is the threshold that asks it of all samples.
LEMMA ArtifactAsksAll ==
    ASSUME Reported, reports # <<>>
    PROVE  /\ ArtifactThreshold \in Int
           /\ \A p \in Int : p >= ArtifactThreshold =>
                 2 * Cardinality({k \in DOMAIN reports : reports[k].policy.threshold <= p})
                    >= Cardinality(DOMAIN reports)
<1> DEFINE K == DOMAIN reports
           value == [k \in K |-> reports[k].policy.threshold]
<1>1. K \in SUBSET Nat /\ IsFiniteSet(K) /\ K # {}
  BY ReportIndices
<1>2. value \in [K -> Int]
  BY DEF Reported, ThresholdsIn
<1>3. ArtifactThreshold = Median(value) /\ \A k \in K : value[k] = reports[k].policy.threshold
  BY DEF ArtifactThreshold
<1>4. /\ Median(value) \in Int
      /\ \A p \in Int : p >= Median(value) =>
            2 * Cardinality({k \in K : value[k] <= p}) >= Cardinality(K)
  <2> HIDE DEF K, value
  <2> QED  BY <1>1, <1>2, MedianHalf
<1>5. \A p : {k \in K : value[k] <= p} = {k \in K : reports[k].policy.threshold <= p}
  BY <1>3
<1> HIDE DEF K, value
<1>6. \A p \in Int : p >= ArtifactThreshold =>
         2 * Cardinality({k \in K : reports[k].policy.threshold <= p}) >= Cardinality(K)
  BY <1>3, <1>4, <1>5
<1> QED  BY <1>3, <1>4, <1>6 DEF K

\* What Approves looks at, of an artifact of these reports.
LEMMA ApprovedAsks ==
    ASSUME Reported, reports # <<>>, NEW s \in setting, NEW x, x.p \in Int,
           NEW override \in Overrides, Approves(ArtifactPolicy(s), x, override)
    PROVE  /\ \A row \in Lookup(ArtifactTypes, x) : ~ row.abstain
           /\ \A row \in Lookup(ArtifactTypes, x) : row.threshold # Unset => x.p >= row.threshold
           /\ override = {} /\ s.mode # "return_first" => x.p >= ArtifactThreshold
<1> DEFINE policy == ArtifactPolicy(s)
           rows == Lookup(ArtifactTypes, x)
           own == {row.threshold : row \in rows} \ {Unset}
           given == The(override, ArtifactThreshold)
<1>1. policy.types = ArtifactTypes /\ policy.threshold = ArtifactThreshold /\ policy.mode = s.mode
  BY ArtifactParts
<1> HIDE DEF policy
<1>2. /\ \A row \in rows : ~ row.abstain
      /\ IF override = {} /\ s.mode = "return_first"
         THEN \A t \in own : x.p >= t
         ELSE x.p >= Max({given} \cup own)
  BY <1>1 DEF Approves, policy
<1>3. own \subseteq Int /\ IsFiniteSet(own)
  <2>1. CASE rows = {}
    <3>1. own = {}
      BY <2>1
    <3> QED  BY <3>1, FS_EmptySet
  <2>2. CASE \E key \in DOMAIN ArtifactTypes : rows = {ArtifactTypes[key]}
    <3>1. PICK key \in DOMAIN ArtifactTypes : rows = {ArtifactTypes[key]}
      BY <2>2
    <3> DEFINE t == ArtifactTypes[key].threshold
    <3>2. own \subseteq {t} /\ t \in Int
      BY <3>1, ArtifactAsks
    <3> HIDE DEF own, t
    <3>3. own \in SUBSET {t} /\ IsFiniteSet({t})
      BY <3>2, FS_Singleton
    <3> QED  BY <3>2, <3>3, FS_Subset
  <2> QED  BY <2>1, <2>2, LookedUp
<1>4. override = {} => given = ArtifactThreshold
  BY TheElement
<1>5. override # {} => given \in Int
  <2> SUFFICES ASSUME override # {} PROVE given \in Int
    OBVIOUS
  <2>1. given \in override
    BY TheElement
  <2>2. \E t \in 0..Levels : override = {t}
    BY ServingAssumption DEF ServingAssumption
  <2>3. given \in 0..Levels
    BY <2>1, <2>2
  <2> QED  BY <2>3, SelectionParameters
<1> HIDE DEF rows, own, given
<1>6. ArtifactThreshold \in Int => \A t \in own : x.p >= t
  <2> SUFFICES ASSUME ArtifactThreshold \in Int PROVE \A t \in own : x.p >= t
    OBVIOUS
  <2>1. given \in Int
    BY <1>4, <1>5
  <2> QED  BY <1>2, <1>3, <2>1, AskedOf
<1>7. override = {} /\ s.mode # "return_first" /\ ArtifactThreshold \in Int
         => x.p >= ArtifactThreshold
  BY <1>2, <1>3, <1>4, AskedOf
<1> QED  BY <1>2, <1>6, <1>7, ArtifactAsksAll DEF rows, own

\* What an artifact approves was approved of by the folds.
LEMMA LiveApproved ==
    ASSUME Reported, reports # <<>>, NEW s \in setting, NEW x, x.p \in Int,
           NEW override \in Overrides, Approves(ArtifactPolicy(s), x, override)
    PROVE  FollowsFolds(x, override)
<1> DEFINE key == GroupKey(x)
           own == FoldsSet(key)
           rows == Lookup(ArtifactTypes, x)
<1>1. /\ \A row \in rows : ~ row.abstain
      /\ \A row \in rows : row.threshold # Unset => x.p >= row.threshold
      /\ override = {} /\ s.mode # "return_first" => x.p >= ArtifactThreshold
  BY ApprovedAsks
<1>2. ASSUME FoldsWith(key) # {} PROVE rows = {ArtifactTypes[key]}
  <2>1. PICK k \in DOMAIN reports : key \in DOMAIN reports[k].policy.types
    BY <1>2 DEF FoldsWith
  <2>2. key \in DOMAIN ArtifactTypes /\ ArtifactTypes[key].source = "artifact_fold_median"
    BY <2>1, ArtifactRow
  <2>3. At(ArtifactTypes, key) = {ArtifactTypes[key]}
    BY <2>2 DEF At
  <2>4. "artifact_fold_median" # "insufficient_calibration"
    OBVIOUS
  <2> DEFINE local == At(ArtifactTypes, GroupKey(x))
             family == IF At(ArtifactTypes, SideKey(x)) # {} THEN At(ArtifactTypes, SideKey(x))
                       ELSE At(ArtifactTypes, FamilyKey(x))
             overruled == \E l \in local, f \in family :
                             l.source = "insufficient_calibration" /\ f.abstain
  <2>5. rows = IF local = {} \/ overruled THEN family ELSE local
    BY Zenon DEF Lookup
  <2>6. local = {ArtifactTypes[key]} /\ \A l \in local : l.source = "artifact_fold_median"
    BY <2>2, <2>3
  <2>7. ~ overruled /\ local # {}
    BY <2>4, <2>6
  <2> HIDE DEF local, overruled, family, rows
  <2> QED  BY <2>5, <2>6, <2>7
<1>3. \A k \in DOMAIN reports : \A row \in RowsOf(k, key) : ~ row.abstain
  <2> SUFFICES ASSUME NEW k \in FoldsWith(key) PROVE ~ TypeRowOf(k, key).abstain
    BY RowsOfFold
  <2>1. k \in DOMAIN reports /\ key \in DOMAIN reports[k].policy.types
    BY DEF FoldsWith
  <2>2. ArtifactTypes[key].abstain <=> Abstained(key)
    BY <2>1, ArtifactRow
  <2>3. ~ ArtifactTypes[key].abstain
    BY <1>1, <1>2
  <2> QED  BY <2>2, <2>3 DEF Abstained
<1> DEFINE reached == {j \in own : TypeRowOf(j, key).threshold <= x.p}
<1>4. 2 * Cardinality(reached) >= Cardinality(own)
  <2>1. CASE own = {}
    <3>1. reached = {}
      BY <2>1
    <3>2. Cardinality({}) = 0
      BY FS_EmptySet
    <3> HIDE DEF own, reached
    <3> QED  BY <2>1, <3>1, <3>2
  <2>2. CASE own # {}
    <3> DEFINE value == [j \in own |-> TypeRowOf(j, key).threshold]
    <3>1. /\ Median(value) \in Nat
          /\ \A p \in Int : p >= Median(value) =>
                2 * Cardinality({j \in own : value[j] <= p}) >= Cardinality(own)
      BY <2>2, ArtifactAsks
    <3>2. PICK k \in own : TRUE
      BY <2>2
    <3>3. k \in DOMAIN reports /\ key \in DOMAIN reports[k].policy.types /\ FoldsWith(key) # {}
      BY <3>2 DEF FoldsSet, FoldsWith
    <3>4. ArtifactTypes[key].threshold = IF own = {} THEN Unset ELSE Median(value)
      BY <3>3, ArtifactRow
    <3>5. {j \in own : value[j] <= x.p} = reached
      OBVIOUS
    <3> HIDE DEF own, value, reached, rows
    <3>6. ArtifactTypes[key].threshold = Median(value) /\ Median(value) # Unset
      BY <2>2, <3>1, <3>4 DEF Unset
    <3>7. x.p >= Median(value)
      BY <1>1, <1>2, <3>3, <3>6
    <3> QED  BY <3>1, <3>5, <3>7
  <2> QED  BY <2>1, <2>2
<1>5. override = {} /\ (\A t \in setting : t.mode # "return_first") =>
         2 * Cardinality({k \in DOMAIN reports : reports[k].policy.threshold <= x.p})
            >= Cardinality(DOMAIN reports)
  BY <1>1, ArtifactAsksAll
<1>6. /\ {k \in DOMAIN reports : \E row \in RowsOf(k, key) : row.threshold # Unset} = own
      /\ {k \in own : Chose(k, key).threshold <= x.p} = reached
  BY OwnFolds
<1> HIDE DEF own, reached, rows
<1> QED  BY <1>3, <1>4, <1>5, <1>6, Zenon DEF FollowsFolds, key

-----------------------------------------------------------------------------
(* The invariant of a study and of the live run that follows it *)

\* A setting is chosen when the folds are complete; from then on the samples
\* are those of the events.
Sampled ==
    /\ Len(events) <= MaxEvents
    /\ setting \subseteq Settings
    /\ setting # {} =>
          /\ pc = "done" /\ DOMAIN samples = DOMAIN events
          /\ \A i \in DOMAIN samples : samples[i] \in Kind

\* Every report was right when it was made, which Reported and Fitted carry on
\* to the artifact and to what it approves.
Earning == \A k \in DOMAIN reports : PolicyEarnedIn(reports[k]) /\ GroupsEarnedIn(reports[k])
Following == \A v \in verdict : v.approved => FollowsFolds(v.sample, v.override)
SInv == IInv /\ Sampled /\ Reported /\ Earning /\ Fitted /\ Following

\* The parts of the invariant are the properties.
LEMMA SInvMeans ==
    /\ Earning => PolicyEarned /\ TradedGroupsEarned
    /\ Following => LiveFollowsFolds
<1>1. Earning => PolicyEarned
  BY DEF Earning, PolicyEarned, PolicyEarnedIn
<1>2. Earning => TradedGroupsEarned
  BY DEF Earning, TradedGroupsEarned, GroupsEarnedIn, Fair
<1>3. Following => LiveFollowsFolds
  BY DEF Following, LiveFollowsFolds, FollowsFolds, RowsOf, Chose
<1> QED  BY <1>1, <1>2, <1>3

\* What a study does to the folds is a step of theirs, or none.
LEMMA ServingFolds ==
    /\ ServingInit => Init
    /\ [ServingNext]_servingVars => [Next]_vars
<1>1. ServingInit => Init
  BY DEF ServingInit, ScoringInit
<1>2. ASSUME [ServingNext]_servingVars PROVE [Next]_vars
  <2>1. CASE MakeFolds
    BY <2>1 DEF MakeFolds, Next
  <2>2. CASE Study \/ ScoreFold \/ FitArtifact \/ Serve
    BY <2>2 DEF Study, ScoreFold, FitArtifact, Serve, scoringVars
  <2>3. CASE UNCHANGED servingVars
    BY <2>3 DEF servingVars, scoringVars
  <2> QED  BY <1>2, <2>1, <2>2, <2>3 DEF ServingNext
<1> QED  BY <1>1, <1>2

\* What is known of some events, and what a model says of them.
LEMMA KnownSamples ==
    ASSUME NEW ids \in SUBSET DOMAIN samples, IsFiniteSet(ids),
           \A i \in DOMAIN samples : samples[i] \in Kind
    PROVE  /\ Gains(Known(ids)) /\ \A c \in Known(ids) : c.id \in ids
           /\ \A c \in Known(ids) : c.at = events[c.id].at /\ c.gain = samples[c.id].gain
<1> DEFINE given(i) == [id |-> i, at |-> events[i].at, type |-> samples[i].type,
                        setup |-> samples[i].setup, side |-> samples[i].side,
                        regime |-> samples[i].regime, label |-> samples[i].label,
                        gain |-> samples[i].gain]
           f == [i \in ids |-> given(i)]
<1>1. Known(ids) = {f[i] : i \in ids}
  BY DEF Known
<1>2. \A i \in ids : f[i].id = i /\ f[i].at = events[i].at /\ f[i].gain = samples[i].gain
  OBVIOUS
<1> HIDE DEF f
<1>3. IsFiniteSet(Known(ids))
  BY <1>1, FiniteImage
<1>4. \A i \in ids : samples[i].gain \in Int
  BY DEF Kind
<1> QED  BY <1>1, <1>2, <1>3, <1>4 DEF Gains

\* With what a model says of them they are samples a selection can be made from.
LEMMA SeenSamples ==
    ASSUME TypeOK, NEW ids \in SUBSET DOMAIN samples, IsFiniteSet(ids),
           DOMAIN samples = DOMAIN events,
           \A i \in DOMAIN samples : samples[i] \in Kind,
           NEW said, \A i \in ids : said[i] \in Saying
    PROVE  Samples(Seen(ids, said))
<1> DEFINE K == Known(ids)
           saying(c) == [id |-> c.id, at |-> c.at, type |-> c.type,
                         setup |-> c.setup, side |-> c.side, regime |-> c.regime,
                         label |-> c.label, gain |-> c.gain,
                         p |-> said[c.id].p, r |-> said[c.id].r]
           f == [c \in K |-> saying(c)]
<1>1. Seen(ids, said) = {f[c] : c \in K}
  BY DEF Seen
<1>2. \A c \in K : f[c].at = c.at /\ f[c].gain = c.gain /\ f[c].p = said[c.id].p
                   /\ f[c].r = said[c.id].r
  OBVIOUS
<1> HIDE DEF f
<1>3. /\ IsFiniteSet(K) /\ \A c \in K : c.gain \in Int
      /\ \A c \in K : c.id \in ids /\ c.at = events[c.id].at
  BY KnownSamples DEF Gains
<1> HIDE DEF K
<1>4. IsFiniteSet(Seen(ids, said))
  BY <1>1, <1>3, FiniteImage
<1>5. \A i \in ids : events[i].at \in Nat /\ said[i].p \in 0..Levels /\ said[i].r \in Int
  BY EventEntries DEF Saying
<1> QED  BY <1>1, <1>2, <1>3, <1>4, <1>5 DEF Samples, Gains

\* Nothing is scored at the start.
LEMMA ServingInitSInv == ServingInit => SInv
<1> SUFFICES ASSUME ServingInit PROVE SInv
  OBVIOUS
<1>1. IInv
  BY ServingFolds, InitIInv
<1>2. /\ events = <<>> /\ folds = <<>> /\ setting = {} /\ samples = <<>> /\ reports = <<>>
      /\ artifact = {} /\ verdict = {}
  BY DEF ServingInit, ScoringInit, Init
<1>3. Sampled
  BY <1>2, Sizes DEF Sampled
<1>4. Reported
  BY <1>2 DEF Reported, Range
<1>5. Earning /\ Fitted /\ Following
  BY <1>2 DEF Earning, Fitted, Following
<1> QED  BY <1>1, <1>3, <1>4, <1>5 DEF SInv

\* Before there is a setting, nothing has come of the folds.
LEMMA Unscored ==
    ASSUME SInv, setting = {}
    PROVE  reports = <<>> /\ artifact = {} /\ verdict = {}
  BY DEF SInv, Reported, Fitted

\* While a fold is missing there is no artifact.
LEMMA Unfitted ==
    ASSUME SInv, Len(reports) < Len(folds)
    PROVE  artifact = {} /\ verdict = {}
<1>1. Len(reports) # Len(folds)
  <2>1. Len(reports) \in Int /\ Len(folds) \in Int
    BY ReportIndices DEF SInv, IInv, TypeOK
  <2> QED  BY <2>1
<1> QED  BY <1>1 DEF SInv, Fitted

\* The folds are made before anything is scored.
LEMMA MakeFoldsSInv ==
    ASSUME SInv, MakeFolds, UNCHANGED <<artifact, verdict>>
    PROVE  Sampled' /\ Reported' /\ Earning' /\ Fitted' /\ Following'
<1>1. pc # "done" /\ UNCHANGED <<setting, samples, reports, artifact, verdict>>
  BY DEF MakeFolds, NextEvent, DatasetComplete, NextFold, Tune, NoMoreFolds, scoring
<1>2. setting = {}
  BY <1>1 DEF SInv, Sampled
<1>3. /\ reports = <<>> /\ artifact = {} /\ verdict = {} /\ setting' = {}
      /\ reports' = <<>> /\ artifact' = {} /\ verdict' = {}
  BY <1>1, <1>2, Unscored
<1>4. TypeOK /\ TypeOK'
  <2>1. IInv /\ [Next]_vars
    BY DEF SInv, MakeFolds, Next
  <2>2. IInv'
    BY <2>1, NextIInv
  <2> QED  BY <2>1, <2>2 DEF IInv
<1>5. Len(events') <= MaxEvents
  <2>1. events \in Seq(Event) /\ Len(events) \in Nat /\ Len(events) <= MaxEvents
    BY <1>4 DEF SInv, Sampled, TypeOK
  <2>2. CASE NextEvent
    <3>1. /\ Len(events) < MaxEvents
          /\ \E e : events' = Append(events, e)
      BY <2>2 DEF NextEvent
    <3>2. Len(events') = Len(events) + 1
      BY <2>1, <3>1
    <3> QED  BY <2>1, <3>1, <3>2, Sizes
  <2>3. CASE ~ NextEvent
    <3>1. events' = events
      BY <2>3 DEF MakeFolds, DatasetComplete, NextFold, Tune, NoMoreFolds
    <3> QED  BY <2>1, <3>1
  <2> QED  BY <2>2, <2>3
<1>6. Sampled'
  BY <1>3, <1>5 DEF Sampled
<1>7. Reported'
  <2>1. folds' \in Seq(Fold)
    BY <1>4 DEF TypeOK
  <2>2. Len(folds') \in Nat
    BY <2>1
  <2> QED  BY <1>3, <2>2 DEF Reported, Range
<1>8. Earning' /\ Fitted' /\ Following'
  BY <1>3 DEF Earning, Fitted, Following
<1> QED  BY <1>6, <1>7, <1>8

\* A study begins.
LEMMA StudySInv ==
    ASSUME SInv, Study, UNCHANGED <<artifact, verdict>>
    PROVE  Sampled' /\ Reported' /\ Earning' /\ Fitted' /\ Following'
<1>1. /\ pc = "done" /\ setting = {} /\ pc' = pc /\ events' = events /\ folds' = folds
      /\ reports' = reports
  BY DEF Study, vars
<1>2. PICK s \in Settings : /\ setting' = {s}
                            /\ \E kinds \in Kinds[s] : samples' = [i \in DOMAIN events |-> kinds[i]]
  BY DEF Study
<1>3. PICK kinds \in Kinds[s] : samples' = [i \in DOMAIN events |-> kinds[i]]
  BY <1>2
<1>4. reports = <<>> /\ artifact' = {} /\ verdict' = {}
  BY <1>1, Unscored
<1>5. kinds \in [1..MaxEvents -> Kind]
  BY FoldScoringAssumption DEF FoldScoringAssumption
<1>6. DOMAIN events \subseteq 1..MaxEvents
  <2>1. DOMAIN events = 1..Len(events) /\ Len(events) \in Nat /\ Len(events) <= MaxEvents
    BY EventEntries DEF SInv, IInv, Sampled
  <2> QED  BY <2>1, Sizes
<1>7. DOMAIN samples' = DOMAIN events /\ \A i \in DOMAIN samples' : samples'[i] \in Kind
  BY <1>3, <1>5, <1>6
<1>8. Sampled'
  BY <1>1, <1>2, <1>7 DEF SInv, Sampled
<1>9. Reported'
  BY <1>1, <1>4 DEF SInv, Reported
<1>10. Earning' /\ Fitted' /\ Following'
  BY <1>1, <1>4 DEF Earning, Fitted, Following
<1> QED  BY <1>8, <1>9, <1>10

\* The slice that a fold learns its threshold from is a part of its samples.
LEMMA SlicePart == ASSUME NEW S PROVE Slices(S).threshold \subseteq S
<1> DEFINE n == Cardinality(S)
           Place(s) == Cardinality({q \in S : q.id <= s.id})
           first == Larger(SliceLeast, n \div 3)
           second == Smaller(Larger(first + SliceLeast, (2 * n) \div 3), n - SliceLeast)
           base == {s \in S : Place(s) <= first}
           ensemble == {s \in S : first < Place(s) /\ Place(s) <= second}
           threshold == {s \in S : second < Place(s)}
           few == n < SliceFrom \/ \E T \in {base, ensemble, threshold} :
                                      Cardinality({s.label : s \in T}) < 2
<1>1. Slices(S) = IF few THEN [base |-> S, ensemble |-> S, threshold |-> S]
                  ELSE [base |-> base, ensemble |-> ensemble, threshold |-> threshold]
  BY Zenon DEF Slices
<1>2. threshold \subseteq S
  OBVIOUS
<1> HIDE DEF few, base, ensemble, threshold
<1>3. Slices(S).threshold = S \/ Slices(S).threshold = threshold
  BY <1>1
<1> QED  BY <1>2, <1>3

\* A report joins the others.
LEMMA ReportAppended ==
    ASSUME Reported, Earning, Len(reports) < Len(folds), Len(folds) \in Nat, setting # {},
           NEW report, ThresholdsIn(report), PolicyEarnedIn(report), GroupsEarnedIn(report),
           reports' = Append(reports, report), UNCHANGED <<folds, setting>>
    PROVE  Reported' /\ Earning'
<1> DEFINE R == Range(reports)
           R2 == R \cup {report}
<1>1. /\ reports \in Seq(R) /\ Len(reports) \in Nat /\ DOMAIN reports = 1..Len(reports)
      /\ \A k \in DOMAIN reports : reports[k] \in R
  BY ReportIndices DEF Reported, Range
<1>2. reports \in Seq(R2)
  <2> HIDE DEF R
  <2>1. reports \in [1..Len(reports) -> R2]
    BY <1>1
  <2> QED  BY <1>1, <2>1
<1> HIDE DEF R
<1>3. /\ reports' \in Seq(R2) /\ Len(reports') = Len(reports) + 1
      /\ DOMAIN reports' = 1..(Len(reports) + 1)
      /\ \A k \in 1..Len(reports) : reports'[k] = reports[k]
      /\ reports'[Len(reports) + 1] = report
  BY <1>2
<1>4. \A k \in DOMAIN reports' : k \in DOMAIN reports \/ k = Len(reports) + 1
  BY <1>1, <1>3
<1>5. R2 \subseteq Range(reports')
  <2>1. \A x \in R : \E k \in DOMAIN reports : x = reports[k]
    BY DEF R, Range
  <2>2. \A x \in R2 : \E k \in DOMAIN reports' : x = reports'[k]
    BY <1>1, <1>3, <2>1
  <2> QED  BY <2>2 DEF Range
<1>6. reports' \in Seq(Range(reports'))
  <2> DEFINE now == reports'
             Q == Range(reports')
  <2>1. now \in Seq(R2) /\ R2 \subseteq Q
    BY <1>3, <1>5
  <2> HIDE DEF now, Q, R2
  <2>2. Len(now) \in Nat /\ now \in [1..Len(now) -> R2]
    BY <2>1
  <2>3. now \in [1..Len(now) -> Q]
    BY <2>1, <2>2
  <2>4. now \in Seq(Q)
    BY <2>2, <2>3
  <2> QED  BY <2>4 DEF Q, now
<1>7. \A k \in DOMAIN reports' : /\ ThresholdsIn(reports'[k])
                                 /\ PolicyEarnedIn(reports'[k]) /\ GroupsEarnedIn(reports'[k])
  <2>1. \A k \in DOMAIN reports : /\ ThresholdsIn(reports[k])
                                  /\ PolicyEarnedIn(reports[k]) /\ GroupsEarnedIn(reports[k])
    BY DEF Reported, Earning
  <2> QED  BY <1>1, <1>3, <1>4, <2>1
<1>8. Len(reports') <= Len(folds')
  BY <1>1, <1>3
<1>9. Reported'
  BY <1>6, <1>7, <1>8 DEF Reported
<1>10. Earning'
  BY <1>7 DEF Earning
<1> QED  BY <1>9, <1>10

\* The next fold is scored.
LEMMA ScoreFoldSInv ==
    ASSUME SInv, ScoreFold, UNCHANGED <<artifact, verdict>>
    PROVE  Sampled' /\ Reported' /\ Earning' /\ Fitted' /\ Following'
<1> DEFINE fold == folds[Len(reports) + 1]
           cal == Known(fold.cal)
           slice == {c.id : c \in Slices(cal).threshold}
<1>1. /\ Len(reports) < Len(folds) /\ setting' = setting /\ samples' = samples
      /\ pc' = pc /\ events' = events /\ folds' = folds
  BY DEF ScoreFold, vars
<1>2. PICK s \in setting :
         \E said \in {[i \in slice \cup fold.test |-> f[i]] : f \in Predictions[s]} :
            reports' = Append(reports, ScoredFold(s, cal, Seen(slice, said),
                                                  Seen(fold.test, said)))
  BY DEF ScoreFold
<1>3. PICK f \in Predictions[s] :
         LET said == [i \in slice \cup fold.test |-> f[i]] IN
         reports' = Append(reports, ScoredFold(s, cal, Seen(slice, said),
                                               Seen(fold.test, said)))
  BY <1>2
<1> DEFINE said == [i \in slice \cup fold.test |-> f[i]]
           report == ScoredFold(s, cal, Seen(slice, said), Seen(fold.test, said))
<1>4. /\ TypeOK /\ Sampled /\ Reported /\ Earning /\ setting # {}
      /\ DOMAIN samples = 1..Len(events) /\ DOMAIN samples = DOMAIN events
      /\ Len(events) \in Nat /\ Len(events) <= MaxEvents
      /\ \A i \in DOMAIN samples : samples[i] \in Kind
  BY EventEntries DEF SInv, IInv, Sampled
<1>5. /\ Len(folds) \in Nat /\ Len(reports) + 1 \in DOMAIN folds
  <2>1. folds \in Seq(Fold) /\ Len(reports) \in Nat
    BY <1>4, ReportIndices DEF TypeOK
  <2> QED  BY <1>1, <2>1
<1>6. fold.cal \subseteq 1..Len(events) /\ fold.test \subseteq 1..Len(events)
  BY <1>4, <1>5 DEF TypeOK
<1>7. s \in Setting /\ f \in [1..MaxEvents -> Saying]
  BY <1>4, FoldScoringAssumption DEF FoldScoringAssumption, Sampled
<1> HIDE DEF fold
<1>8. IsFiniteSet(fold.cal) /\ IsFiniteSet(fold.test)
  <2>1. IsFiniteSet(1..Len(events))
    BY <1>4, FS_Interval
  <2> QED  BY <1>6, <2>1, FS_Subset
<1>9. Gains(cal) /\ \A c \in cal : c.id \in fold.cal
  BY <1>4, <1>6, <1>8, KnownSamples
<1>10. slice \subseteq fold.cal
  <2> HIDE DEF cal
  <2>1. Slices(cal).threshold \subseteq cal
    BY SlicePart
  <2> QED  BY <1>9, <2>1
<1> HIDE DEF slice, cal
<1>11. slice \subseteq 1..Len(events) /\ IsFiniteSet(slice)
  BY <1>6, <1>8, <1>10, FS_Subset
<1>12. \A i \in slice \cup fold.test : said[i] \in Saying
  <2>1. \A i \in 1..Len(events) : i \in 1..MaxEvents
    BY <1>4, Sizes
  <2> QED  BY <1>6, <1>7, <1>11, <2>1
<1> HIDE DEF said
<1>13. Samples(Seen(slice, said)) /\ Samples(Seen(fold.test, said))
  BY <1>4, <1>6, <1>8, <1>11, <1>12, SeenSamples
<1>14. PolicyEarnedIn(report) /\ GroupsEarnedIn(report) /\ ThresholdsIn(report)
  BY <1>7, <1>9, <1>13, NewReport
<1>15. reports' = Append(reports, report)
  BY <1>3 DEF said
<1> HIDE DEF report
<1>16. Reported' /\ Earning'
  BY <1>1, <1>4, <1>5, <1>14, <1>15, ReportAppended
<1>17. artifact' = {} /\ verdict' = {}
  BY <1>1, Unfitted
<1>18. Sampled'
  BY <1>1, <1>4 DEF Sampled
<1>19. Fitted' /\ Following'
  BY <1>17 DEF Fitted, Following
<1> QED  BY <1>16, <1>18, <1>19

\* What the reports say stays as they do.
LEMMA ReportsStay ==
    ASSUME SInv, UNCHANGED scoringVars
    PROVE  /\ Sampled' /\ Reported' /\ Earning'
           /\ \A s : ArtifactPolicy(s)' = ArtifactPolicy(s)
           /\ \A x, override : FollowsFolds(x, override)' <=> FollowsFolds(x, override)
<1>1. UNCHANGED <<pc, events, folds, setting, samples, reports>>
  BY DEF scoringVars, vars, scoring
<1>2. Sampled' /\ Reported' /\ Earning'
  BY <1>1 DEF SInv, Sampled, Reported, Earning
<1>3. \A s : ArtifactPolicy(s)' = ArtifactPolicy(s)
  <2>1. ArtifactThreshold' = ArtifactThreshold
    BY <1>1, Zenon DEF ArtifactThreshold
  <2>2. \A s : ArtifactFloor(s)' = ArtifactFloor(s) /\ ArtifactSign(s)' = ArtifactSign(s)
    BY <1>1, Zenon DEF ArtifactFloor, ArtifactSign
  <2>3. ArtifactTypes' = ArtifactTypes
    BY <1>1, Zenon DEF ArtifactTypes, FoldsWith, TypeRowOf, Abstained
  <2>4. ArtifactPayoffs' = ArtifactPayoffs
    BY <1>1, Zenon DEF ArtifactPayoffs
  <2>5. Held' = Held
    BY <1>1, Zenon DEF Held, Known
  <2> QED  BY <2>1, <2>2, <2>3, <2>4, <2>5, Zenon DEF ArtifactPolicy
<1>4. \A x, override : FollowsFolds(x, override)' <=> FollowsFolds(x, override)
  BY <1>1, Zenon DEF FollowsFolds, RowsOf, Chose
<1> QED  BY <1>2, <1>3, <1>4

\* The artifact is made of the reports there are.
LEMMA FitArtifactSInv ==
    ASSUME SInv, FitArtifact
    PROVE  Sampled' /\ Reported' /\ Earning' /\ Fitted' /\ Following'
<1>1. /\ reports # <<>> /\ Len(reports) = Len(folds) /\ artifact = {}
      /\ artifact' = {ArtifactPolicy(s) : s \in setting}
      /\ UNCHANGED scoringVars /\ verdict' = verdict
  BY DEF FitArtifact
<1>2. /\ Sampled' /\ Reported' /\ Earning' /\ \A s : ArtifactPolicy(s)' = ArtifactPolicy(s)
  BY <1>1, ReportsStay
<1>3. reports' = reports /\ folds' = folds /\ setting' = setting
  BY <1>1 DEF scoringVars, vars, scoring
<1>4. verdict = {}
  BY <1>1 DEF SInv, Fitted
<1>5. Fitted'
  BY <1>1, <1>2, <1>3, <1>4 DEF Fitted
<1>6. Following'
  BY <1>1, <1>4 DEF Following
<1> QED  BY <1>2, <1>5, <1>6

\* Nothing of what the invariant is about changes but the verdict.
LEMMA ServedSInv ==
    ASSUME SInv, UNCHANGED <<scoringVars, artifact>>, verdict' # {} => artifact # {}
    PROVE  Sampled' /\ Reported' /\ Earning' /\ Fitted'
<1>1. /\ Sampled' /\ Reported' /\ Earning' /\ \A s : ArtifactPolicy(s)' = ArtifactPolicy(s)
  BY ReportsStay
<1>2. reports' = reports /\ folds' = folds /\ setting' = setting /\ artifact' = artifact
  BY DEF scoringVars, vars, scoring
<1>3. Fitted'
  BY <1>1, <1>2 DEF SInv, Fitted
<1> QED  BY <1>1, <1>3

\* A live sample is scored.
LEMMA ServeSInv ==
    ASSUME SInv, Serve
    PROVE  Sampled' /\ Reported' /\ Earning' /\ Fitted' /\ Following'
<1>1. PICK s \in setting, policy \in artifact :
         \E x \in Live[s], override \in Overrides :
            verdict' = {[sample |-> x, override |-> override,
                         approved |-> Approves(policy, x, override)]}
  BY DEF Serve
<1>2. PICK x \in Live[s], override \in Overrides :
         verdict' = {[sample |-> x, override |-> override,
                      approved |-> Approves(policy, x, override)]}
  BY <1>1
<1>3. UNCHANGED <<scoringVars, artifact>> /\ artifact # {}
  BY <1>1 DEF Serve
<1>4. Sampled' /\ Reported' /\ Earning' /\ Fitted'
  BY <1>3, ServedSInv
<1>5. Reported /\ reports # <<>> /\ artifact = {ArtifactPolicy(t) : t \in setting}
  BY <1>3 DEF SInv, Fitted
<1>6. x.p \in Int
  <2>1. s \in Settings
    BY DEF SInv, Sampled
  <2>2. x.p \in 0..Levels
    BY <2>1, ServingAssumption DEF ServingAssumption
  <2> QED  BY <2>2, SelectionParameters
<1>7. Approves(policy, x, override) => FollowsFolds(x, override)
  <2> SUFFICES ASSUME Approves(policy, x, override) PROVE FollowsFolds(x, override)
    OBVIOUS
  <2>1. PICK t \in setting : policy = ArtifactPolicy(t)
    BY <1>5
  <2> QED  BY <1>5, <1>6, <2>1, LiveApproved
<1>8. FollowsFolds(x, override)' <=> FollowsFolds(x, override)
  BY <1>3, ReportsStay
<1>9. Following'
  <2> DEFINE approved == Approves(policy, x, override)
             v == [sample |-> x, override |-> override, approved |-> approved]
             now == verdict'
  <2>1. now = {v}
    BY <1>2
  <2>2. v.sample = x /\ v.override = override /\ v.approved = approved
    OBVIOUS
  <2> HIDE DEF v, now
  <2>3. \A w \in now : w.sample = x /\ w.override = override /\ (w.approved => approved)
    BY <2>1, <2>2
  <2>4. approved => FollowsFolds(x, override)'
    BY <1>7, <1>8
  <2> HIDE DEF approved
  <2>5. \A w \in verdict' : w.approved => FollowsFolds(w.sample, w.override)'
    BY <2>3, <2>4 DEF now
  <2> QED  BY <2>5 DEF Following
<1> QED  BY <1>4, <1>9

\* Every step of a study or of what follows it keeps the invariant.
LEMMA ServingNextSInv == SInv /\ [ServingNext]_servingVars => SInv'
<1> SUFFICES ASSUME SInv, [ServingNext]_servingVars PROVE SInv'
  OBVIOUS
<1>1. IInv'
  BY ServingFolds, NextIInv DEF SInv
<1> SUFFICES Sampled' /\ Reported' /\ Earning' /\ Fitted' /\ Following'
  BY <1>1 DEF SInv
<1>2. CASE MakeFolds /\ UNCHANGED <<artifact, verdict>>
  BY <1>2, MakeFoldsSInv
<1>3. CASE Study /\ UNCHANGED <<artifact, verdict>>
  BY <1>3, StudySInv
<1>4. CASE ScoreFold /\ UNCHANGED <<artifact, verdict>>
  BY <1>4, ScoreFoldSInv
<1>5. CASE FitArtifact
  BY <1>5, FitArtifactSInv
<1>6. CASE Serve
  BY <1>6, ServeSInv
<1>7. CASE UNCHANGED servingVars
  <2>1. UNCHANGED <<scoringVars, artifact, verdict>>
    BY <1>7 DEF servingVars
  <2>2. verdict' # {} => artifact # {}
    BY <2>1 DEF SInv, Fitted
  <2>3. Sampled' /\ Reported' /\ Earning' /\ Fitted'
    BY <2>1, <2>2, ServedSInv
  <2>4. \A x, override : FollowsFolds(x, override)' <=> FollowsFolds(x, override)
    BY <2>1, ReportsStay
  <2>5. Following'
    BY <2>1, <2>4 DEF SInv, Following
  <2> QED  BY <2>3, <2>5
<1> QED  BY <1>2, <1>3, <1>4, <1>5, <1>6, <1>7 DEF ServingNext

\* Always, everything the invariant says.
LEMMA ServingInductive == ServingSpec => []SInv
  BY ServingInitSInv, ServingNextSInv, PTL DEF ServingSpec

-----------------------------------------------------------------------------

\* A study and the live run after it do nothing to the folds that making them
\* does not: what is proved of the folds above holds of all that is scored
\* (run_meta_label_walk_forward, fit_production_model_artifact).
THEOREM FoldsInside == ServingSpec => Spec
  BY ServingFolds, PTL DEF ServingSpec, Spec

\* Whatever the configuration, the samples and what the models say of them, a
\* policy sought at a target frequency that asks for a profit traded at a
\* profit where its threshold and its floor were found
\* (_select_threshold_for_target_frequency and its floor in _score_fold).
THEOREM PoliciesEarned == ServingSpec => []PolicyEarned
<1>1. SInv => PolicyEarned
  BY SInvMeans DEF SInv
<1> QED  BY <1>1, ServingInductive, PTL

\* Whatever the samples, under thresholds by type none is traded whose group,
\* or for a thin group whose family, had its chance and did not earn its keep
\* (_select_candidate_type_thresholds, _threshold_lookup).
THEOREM GroupsEarned == ServingSpec => []TradedGroupsEarned
<1>1. SInv => TradedGroupsEarned
  BY SInvMeans DEF SInv
<1> QED  BY <1>1, ServingInductive, PTL

\* For any number of folds, what a live run approves no fold abstained from,
\* and half of the folds asked for no more than it has
\* (fit_production_model_artifact, score_production_artifact).
THEOREM LiveFollows == ServingSpec => []LiveFollowsFolds
<1>1. SInv => LiveFollowsFolds
  BY SInvMeans DEF SInv
<1> QED  BY <1>1, ServingInductive, PTL
=============================================================================
