----------------------------- MODULE FoldScoring -----------------------------
(***************************************************************************)
(* models/ensemble.py, run_meta_label_walk_forward: once the folds are     *)
(* found, each is scored in turn.  Its models and its policy are fitted on *)
(* its training and calibration samples, and its policy then decides which *)
(* of its test samples are traded.  What the models predict is open; the   *)
(* policy is computed from it.                                             *)
(***************************************************************************)
EXTENDS PurgedFolds, ThresholdSelection

CONSTANTS
    Settings,      \* configurations of a study
    Kinds,         \* bound: what the events may be, per setting
    Predictions,   \* bound: what a model may say of them, per setting
    UsualGap, UsualDuration, Irregular,   \* bound: events out of the usual pace
    ScoredIrregular   \* bound: those in a dataset that is scored

VARIABLES
    setting,     \* the configuration, an option
    samples,     \* samples[i]: what the i-th event turned out to be
    reports      \* one for each fold scored

scoring == <<setting, samples, reports>>
scoringVars == <<vars, scoring>>

Frequencies == {"none", "strict", "online", "quota"}
Modes == {"probability", "expected_value", "predicted_return", "expected_utility", "return_first"}
Setting ==
    [frequency : Frequencies, rate : Nat, mode : Modes, metric : {"sharpe", "net_pnl", "calmar"},
     negativeEV : BOOLEAN, typed : BOOLEAN, calibrated : BOOLEAN, empirical : BOOLEAN,
     adaptive : BOOLEAN, floored : BOOLEAN, directed : BOOLEAN, long : BOOLEAN]

\* what an event may turn out to be, and what a model says of it
Kind == [type : STRING, setup : STRING, side : {"BUY", "SELL"}, regime : STRING,
         label : {0, 1}, gain : Int]
Saying == [p : 0..Levels, r : Int]

ASSUME FoldScoringAssumption ==
    /\ Settings \subseteq Setting
    /\ \A s \in Settings :
          /\ s.frequency # "none" => s.rate > 0
          /\ Kinds[s] \subseteq [1..MaxEvents -> Kind]
          /\ Predictions[s] \subseteq [1..MaxEvents -> Saying]
    /\ {UsualGap, UsualDuration, Irregular, ScoredIrregular} \subseteq Nat

-----------------------------------------------------------------------------
(* The policy of a fold *)

\* what is given before anything is learnt
Given(s) ==
    [threshold |-> MinProbability, floor |-> {}, sign |-> 1, types |-> <<>>,
     payoffs |-> <<>>, losses |-> {}, mode |-> s.mode, frequency |-> s.frequency,
     rate |-> s.rate, metric |-> s.metric, negativeEV |-> s.negativeEV,
     calibrated |-> s.calibrated]

\* payoffs, downsides, the sign of the score and the rows by type
Estimated(s, cal, slice) ==
    LET known == [Given(s) EXCEPT !.payoffs = IF s.empirical THEN Payoffs(slice) ELSE <<>>,
                                  !.losses = slice]
    IN [known EXCEPT !.sign = IF s.directed THEN Direction(slice, known) ELSE 1,
                     !.types = IF s.typed THEN TypeRows(slice, cal) ELSE <<>>]

\* the row of the threshold, if one was found
Found(s, slice, policy) ==
    CASE s.frequency \in {"strict", "online"} -> FrequencyThreshold(slice, policy)
      [] s.frequency = "none" /\ s.adaptive   -> CalibratedThreshold(slice)
      [] OTHER -> {}

\* The floor is sought under the threshold that was found.
WithFloor(s, slice, policy, found) ==
    LET floor == IF s.floored /\ s.frequency # "none" THEN ScoreFloor(slice, policy) ELSE {}
    IN [policy |-> [policy EXCEPT !.floor = {row.threshold : row \in floor}],
        found |-> found, floorFound |-> floor]

WithThreshold(s, slice, policy, found) ==
    WithFloor(s, slice, [policy EXCEPT !.threshold =
                            The({row.threshold : row \in found}, MinProbability)], found)

\* Everything _score_fold learns from its calibration samples and, of the
\* slice set apart for it, from what the models say of them.
Learnt(s, slice, estimated) == WithThreshold(s, slice, estimated, Found(s, slice, estimated))
Policy(s, cal, slice) == Learnt(s, slice, Estimated(s, cal, slice))

\* The decision on a test sample without a target frequency: a row of its type
\* adds its threshold or its veto.
TradesAlone(policy, s) ==
    LET rows == Lookup(policy.types, s) IN
    /\ \A row \in rows : ~ row.abstain
    /\ s.p >= Least(policy, rows)
    /\ Gate(policy, s, rows)

Traded(policy, test) ==
    IF policy.frequency # "none" THEN Chosen(test, policy)
    ELSE {s \in test : TradesAlone(policy, s)}

\* The report of a fold.
Report(cal, slice, learnt, test) ==
    [cal |-> cal, slice |-> slice, traded |-> Traded(learnt.policy, test),
     policy |-> learnt.policy, found |-> learnt.found, floorFound |-> learnt.floorFound]
ScoredFold(s, cal, slice, test) == Report(cal, slice, Policy(s, cal, slice), test)

-----------------------------------------------------------------------------
(* Behaviour *)

ScoringInit == Init /\ setting = {} /\ samples = <<>> /\ reports = <<>>

Irregularities(es) ==
    Cardinality({i \in DOMAIN es :
        \/ es[i].at # UsualGap + (IF i = 1 THEN 0 ELSE es[i - 1].at)
        \/ es[i].t1 # es[i].at + UsualDuration})

\* The folds, with few events out of the usual pace.
MakeFolds ==
    /\ \/ NextEvent /\ Irregularities(events') <= Irregular
       \/ DatasetComplete
       \/ NextFold
       \/ \E k \in DOMAIN folds : Tune(k)
       \/ NoMoreFolds
    /\ UNCHANGED scoring

\* A study of the samples: what they are does not depend on the folds.
Study ==
    /\ pc = "done" /\ folds # <<>> /\ tuned = {} /\ setting = {}
    /\ Irregularities(events) <= ScoredIrregular
    /\ \E s \in Settings :
          /\ setting' = {s}
          /\ \E kinds \in Kinds[s] : samples' = [i \in DOMAIN events |-> kinds[i]]
    /\ UNCHANGED <<vars, reports>>

\* The samples of some events, and what the models of a fold say of them.
Known(ids) ==
    {[id |-> i, at |-> events[i].at, type |-> samples[i].type, setup |-> samples[i].setup,
      side |-> samples[i].side, regime |-> samples[i].regime, label |-> samples[i].label,
      gain |-> samples[i].gain] : i \in ids}
Seen(ids, said) ==
    {[id |-> c.id, at |-> c.at, type |-> c.type, setup |-> c.setup, side |-> c.side,
      regime |-> c.regime, label |-> c.label, gain |-> c.gain, p |-> said[c.id].p, r |-> said[c.id].r] : c \in Known(ids)}

\* _score_fold, fold after fold
ScoreFold ==
    /\ Len(reports) < Len(folds)
    /\ LET fold == folds[Len(reports) + 1]
           slice == {c.id : c \in Slices(Known(fold.cal)).threshold}
       IN \E s \in setting :
          \E said \in {[i \in slice \cup fold.test |-> f[i]] : f \in Predictions[s]} :
             reports' = Append(reports, ScoredFold(s, Known(fold.cal), Seen(slice, said),
                                                   Seen(fold.test, said)))
    /\ UNCHANGED <<vars, setting, samples>>

=============================================================================
