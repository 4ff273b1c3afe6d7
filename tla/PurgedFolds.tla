----------------------------- MODULE PurgedFolds -----------------------------
(***************************************************************************)
(* validation/purged.py: the folds of the walk-forward evaluation.  A      *)
(* window of training, calibration and test events slides over the events  *)
(* in time order.  The label of an event is known only at its t1, so the   *)
(* training events whose label reaches into the calibration and test part, *)
(* and the calibration events whose label reaches into the test part, are  *)
(* purged.  The same purge separates the inner training events from the    *)
(* validation events when the models of a fold are tuned                   *)
(* (models/ensemble.py).                                                   *)
(***************************************************************************)
EXTENDS Integers, Sequences

CONSTANTS
    TrainSize, CalSize, TestSize,   \* sizes of the three parts
    Embargo,       \* embargo, by default the holding time of the labels
    Gaps,          \* bound: times from one event to the next
    Durations,     \* bound: times from an event to its t1
    MaxEvents      \* bound: number of events

ASSUME PurgedFoldsAssumption ==
    /\ {TrainSize, CalSize, TestSize} \subseteq Nat \ {0}
    /\ {Embargo, MaxEvents} \subseteq Nat
    /\ Gaps \subseteq Nat
    /\ Durations \subseteq Nat

VARIABLES
    pc,         \* "sample", "fold" or "done"
    events,     \* events[i]: time and t1 of the i-th event
    start,      \* events before the window
    folds,      \* the folds found
    tuned       \* inner splits made of their training events

vars == <<pc, events, start, folds, tuned>>

Event == [at : Nat, t1 : Nat]
Fold  == [train : SUBSET Nat, cal : SUBSET Nat, test : SUBSET Nat]
Split == [inner : SUBSET Nat, validation : SUBSET Nat]

WindowSize == TrainSize + CalSize + TestSize

Init ==
    /\ pc = "sample"
    /\ events = <<>>
    /\ start = 0
    /\ folds = <<>>
    /\ tuned = {}

\* The events of the dataset, in time order; several may share a time.
NextEvent ==
    /\ pc = "sample"
    /\ Len(events) < MaxEvents
    /\ \E gap \in Gaps, duration \in Durations :
          LET at == gap + (IF events = <<>> THEN 0 ELSE events[Len(events)].at)
          IN events' = Append(events, [at |-> at, t1 |-> at + duration])
    /\ UNCHANGED <<pc, start, folds, tuned>>

DatasetComplete ==
    /\ pc = "sample"
    /\ pc' = "fold"
    /\ UNCHANGED <<events, start, folds, tuned>>

-----------------------------------------------------------------------------

\* e is the latest t1 of a set of events.
LatestEnd(ids, e) ==
    /\ \E i \in ids : events[i].t1 = e
    /\ \A i \in ids : events[i].t1 <= e

\* Plausible bug: only events that begin inside the interval overlap it.
PurgedByStart(ids, from, to) ==
    {i \in ids : ~ (from <= events[i].at /\ events[i].at <= to + Embargo)}

\* Plausible bug: the embargo is applied before the interval.
PurgedWithMargin(ids, from, to) ==
    {i \in ids : ~ (events[i].at <= to /\ events[i].t1 + Embargo >= from)}

\* purge_overlapping_train: neither overlapping the protected interval nor
\* beginning within the embargo after it.
Purged(ids, from, to) ==
    {i \in ids :
        /\ ~ (events[i].at <= to /\ events[i].t1 >= from)
        /\ ~ (to < events[i].at /\ events[i].at <= to + Embargo)}

FirstCal  == start + TrainSize + 1
FirstTest == start + TrainSize + CalSize + 1

TrainPart == (start + 1)..(start + TrainSize)
CalPart   == FirstCal..(start + TrainSize + CalSize)
TestPart  == FirstTest..(start + WindowSize)

\* Training events are purged against calibration and test part together,
\* calibration events against the test part.
PurgedTrain(calTestEnd) == Purged(TrainPart, events[FirstCal].at, calTestEnd)
PurgedCal(testEnd)      == Purged(CalPart, events[FirstTest].at, testEnd)

Slide == start' = start + TestSize

\* One window: a fold, unless purging leaves one of its parts empty.
NextFold ==
    /\ pc = "fold"
    /\ start + WindowSize <= Len(events)
    /\ \E calTestEnd, testEnd \in {events[i].t1 : i \in CalPart \cup TestPart} :
          /\ LatestEnd(CalPart \cup TestPart, calTestEnd)
          /\ LatestEnd(TestPart, testEnd)
          /\ folds' = IF PurgedTrain(calTestEnd) = {} \/ PurgedCal(testEnd) = {}
                      THEN folds
                      ELSE Append(folds, [train |-> PurgedTrain(calTestEnd),
                                          cal   |-> PurgedCal(testEnd),
                                          test  |-> TestPart])
    /\ Slide
    /\ UNCHANGED <<pc, events, tuned>>

\* _purged_hpo_inner_training_indices, its validation part beginning at m
InnerTrain(train, m, end) == Purged({i \in train : i < m}, events[m].at, end)

\* A fold's models are tuned: its last training events serve as validation.
\* Without inner training events there is no tuning.
Tune(k) ==
    /\ pc = "fold"
    /\ \E m \in folds[k].train :
          LET validation == {i \in folds[k].train : i >= m} IN
          \E end \in {events[i].t1 : i \in validation} :
             /\ LatestEnd(validation, end)
             /\ InnerTrain(folds[k].train, m, end) # {}
             /\ tuned' = tuned \cup
                   {[inner |-> InnerTrain(folds[k].train, m, end),
                     validation |-> validation]}
    /\ UNCHANGED <<pc, events, start, folds>>

\* while start + window <= len(ordered_indices)
NoMoreFolds ==
    /\ pc = "fold"
    /\ start + WindowSize > Len(events)
    /\ pc' = "done"
    /\ UNCHANGED <<events, start, folds, tuned>>

Finished == pc = "done" /\ UNCHANGED vars

Next ==
    \/ NextEvent \/ DatasetComplete
    \/ NextFold
    \/ \E k \in DOMAIN folds : Tune(k)
    \/ NoMoreFolds
    \/ Finished

Spec == Init /\ [][Next]_vars

-----------------------------------------------------------------------------

\* Every variable keeps its type; the events are in order, and no fold names an
\* event that does not exist.
TypeOK ==
    /\ pc \in {"sample", "fold", "done"}
    /\ events \in Seq(Event)
    /\ \A i \in DOMAIN events : events[i].at <= events[i].t1
    /\ \A i, j \in DOMAIN events : i <= j => events[i].at <= events[j].at
    /\ start \in Nat
    /\ folds \in Seq(Fold)
    /\ \A k \in DOMAIN folds :
          folds[k].train \cup folds[k].cal \cup folds[k].test \subseteq 1..Len(events)
    /\ tuned \subseteq Split

\* The labels of these were known before the first of those began.
KnownBefore(these, those) ==
    \A i \in these, j \in those : events[i].t1 < events[j].at

\* Nothing is learnt from the future, events that share a time included: the
\* training labels of a fold were known before its calibration and test events,
\* its calibration labels before its test events, and the labels a model is
\* tuned on before the events it is validated on.
NoLeak ==
    /\ \A k \in DOMAIN folds :
          /\ KnownBefore(folds[k].train, folds[k].cal \cup folds[k].test)
          /\ KnownBefore(folds[k].cal, folds[k].test)
    /\ \A s \in tuned : KnownBefore(s.inner, s.validation)

\* The out-of-sample report holds at most one prediction of an event, and the
\* folds come in time order: all tested events of a fold precede those of a
\* later one, whatever purging did to the folds between them.
TestedOnce ==
    \A j, k \in DOMAIN folds :
        j < k => \A a \in folds[j].test, b \in folds[k].test : a < b

\* Purging gives up no more than it must: an event dropped from the training
\* or calibration part of a fold had a label that reached into what follows,
\* and the embargo never takes part (what it would protect against, training
\* on what comes after the test, does not occur here).
PurgedForCause ==
    [][ NextFold /\ Len(folds') > Len(folds) =>
        LET f == folds'[Len(folds')] IN
        /\ \A i \in TrainPart \ f.train : events[i].t1 >= events[FirstCal].at
        /\ \A i \in CalPart \ f.cal : events[i].t1 >= events[FirstTest].at ]_vars

=============================================================================
