------------------------- MODULE ThresholdSelection -------------------------
(***************************************************************************)
(* models/ensemble.py: what a fold learns from its calibration samples     *)
(* beside its models, and how its policy then picks the samples to trade.  *)
(*                                                                         *)
(* A sample is a record.  p is the probability its fold gave it, in levels *)
(* of 0..Levels, and r the return it predicted; label and gain (in tenths  *)
(* of a basis point) are what the trade gave, and setup is its family of   *)
(* setups, or the one its type stands for.  All positions are of one size, *)
(* so that a profit is a sum of gains; the capacity rules of a selection   *)
(* are those of SignalSelection and not repeated.  An option is a set of   *)
(* at most one element.                                                    *)
(***************************************************************************)
EXTENDS Integers, Sequences, FiniteSets, FiniteSetsExt, Functions

CONSTANTS
    Levels,          \* probabilities and thresholds are levels, 100 in the code
    ProbeLevel,      \* _LOW_NEGATIVE_EV_PROBE_THRESHOLD
    MinTrades,       \* min_calibration_trades
    MinThreshold,    \* adaptive_minimum_threshold
    MinProbability, MinEV,   \* config.model
    LeastUtility,    \* ten basis points
    Target, Stop,    \* net profit target and net stop loss of a sample
    Day,             \* units of time in a day, 24 of them
    SliceFrom,       \* calibration samples worth slicing, 18
    SliceLeast,      \* least samples of a slice, 4
    DirectionFrom, BucketLeast   \* 6 and 3

ASSUME ThresholdAssumption ==
    /\ {Levels, MinTrades, Target, Stop, Day, SliceLeast, BucketLeast} \subseteq Nat \ {0}
    /\ {ProbeLevel, MinThreshold, MinProbability, MinEV, LeastUtility, SliceFrom, DirectionFrom} \subseteq Nat
    /\ Day % 24 = 0

Larger(a, b)  == IF a >= b THEN a ELSE b
Smaller(a, b) == IF a <= b THEN a ELSE b

Total(S)  == SumFunctionOnSet([s \in S |-> s.gain], S)
Mean(S)   == IF S = {} THEN 0 ELSE Total(S) \div Cardinality(S)
Earned(row) == row.pnl > 0 /\ row.average > 0

\* x comes before y in lexicographic order, from the largest down.
Above(x, y) ==
    \E k \in DOMAIN x : x[k] > y[k] /\ \A j \in 1..(k - 1) : x[j] = y[j]
Best(rows, Key(_)) == {r \in rows : \A q \in rows : ~ Above(Key(q), Key(r))}

\* the element of an option
The(option, default) == IF option = {} THEN default ELSE CHOOSE x \in option : TRUE

-----------------------------------------------------------------------------
(* Rows of a sweep *)

\* what came of trading T under threshold t
Row(t, T) ==
    [threshold |-> t, trades |-> Cardinality(T), pnl |-> Total(T), average |-> Mean(T),
     hit |-> IF T = {} THEN 0
             ELSE (60 * Cardinality({s \in T : s.label = 1})) \div Cardinality(T)]

\* _threshold_sweep
Sweep(S) == {Row(t, {s \in S : s.p >= t}) : t \in 0..Levels}

\* pnl over the root of the trades, by its square
RiskAdjusted(row) ==
    LET square == (row.pnl * row.pnl * 60) \div Larger(row.trades, 1)
    IN IF row.pnl < 0 THEN -square ELSE square

\* _threshold_objective_key
ObjectiveKey(row, metric) ==
    CASE metric = "net_pnl" -> <<row.pnl, RiskAdjusted(row), row.average, row.hit, row.threshold>>
      [] metric = "calmar"  -> <<RiskAdjusted(row), row.pnl, row.average, row.hit, row.threshold>>
      [] OTHER              -> <<row.average, RiskAdjusted(row), row.hit, row.threshold>>

\* _select_threshold_from_calibration
CalibratedThreshold(S) ==
    LET positive == {row \in Sweep(S) : /\ row.trades >= MinTrades
                                        /\ row.threshold >= MinThreshold
                                        /\ Earned(row)}
    IN Best(positive, LAMBDA row : <<row.average, row.threshold, row.pnl>>)

-----------------------------------------------------------------------------
(* Rows by candidate type *)

\* _threshold_group_key, and the keys of the families it falls back to
FamilyKey(s) == <<s.type>>
SideKey(s)   == IF s.side = "SELL" THEN <<s.type, "SELL">> ELSE <<s.type>>
GroupKey(s)  == IF s.regime = "unknown" THEN SideKey(s) ELSE Append(SideKey(s), s.regime)

At(f, key) == IF key \in DOMAIN f THEN {f[key]} ELSE {}

\* _threshold_lookup: a thin group is overruled by a family that abstains.
Lookup(types, s) ==
    LET local == At(types, GroupKey(s))
        family == IF At(types, SideKey(s)) # {} THEN At(types, SideKey(s))
                  ELSE At(types, FamilyKey(s))
        overruled == \E l \in local, f \in family :
                        l.source = "insufficient_calibration" /\ f.abstain
    IN IF local = {} \/ overruled THEN family ELSE local

Unset == -1    \* no threshold of its own
UtilityFloor == Larger(LeastUtility, (15 * Target) \div 100)

TypeRow(source, threshold, average) ==
    [source |-> source, threshold |-> threshold, average |-> average,
     abstain |-> source \in {"negative_calibration_utility", "negative_family_prior_utility"}]

\* Plausible bug: any profit will do, however few trades made it.
GroupRowUnguarded(G) ==
    LET useful == {row \in Sweep(G) : row.pnl > 0}
        best == The(Best(useful, LAMBDA row : <<row.average, row.threshold, row.pnl>>), {})
    IN IF useful # {} THEN TypeRow("candidate_type_calibration", best.threshold, best.average)
       ELSE TypeRow("insufficient_calibration", Unset, 0)

\* A group of the slice: its best threshold if one was useful.
GroupRow(G) ==
    LET useful == {row \in Sweep(G) : /\ row.trades >= MinTrades
                                      /\ row.threshold >= MinThreshold
                                      /\ row.pnl > 0 /\ row.average >= UtilityFloor}
        best == The(Best(useful, LAMBDA row : <<row.average, row.threshold, row.pnl>>), {})
        seen == The(Best(Sweep(G), LAMBDA row : <<row.pnl, row.average, row.threshold>>), {})
    IN IF useful # {} THEN TypeRow("candidate_type_calibration", best.threshold, best.average)
       ELSE IF Cardinality(G) >= MinTrades
            THEN TypeRow("negative_calibration_utility", Unset, seen.average)
       ELSE TypeRow("insufficient_calibration", Unset, 0)

\* A family known from the whole calibration part.
FamilyRow(F) ==
    IF Mean(F) < UtilityFloor THEN TypeRow("negative_family_prior_utility", Unset, Mean(F))
    ELSE TypeRow("family_prior", Unset, Mean(F))

\* _select_candidate_type_thresholds: groups first; a family whose key no group
\* has taken gets its own row if it has enough samples.
TypeRows(slice, calibration) ==
    LET groups == {GroupKey(s) : s \in slice}
        Family(k) == {s \in calibration : FamilyKey(s) = k}
        families == {k \in {FamilyKey(s) : s \in calibration} \ groups :
                        Cardinality(Family(k)) >= MinTrades}
    IN [k \in groups \cup families |->
            IF k \in groups THEN GroupRow({s \in slice : GroupKey(s) = k})
            ELSE FamilyRow(Family(k))]

-----------------------------------------------------------------------------
(* Payoff, score, gate *)

PayoffKey(s) == <<s.type, s.side>>
With(S, label) == {s \in S : s.label = label}

\* _payoff_estimate: what each label gave; nothing is known of few samples, or
\* without a profit.
Payoff(S) ==
    LET known == Cardinality(S) >= MinTrades /\ With(S, 1) # {} IN
    [known |-> known, ones |-> With(S, 1) # {}, zeros |-> With(S, 0) # {},
     one  |-> IF known THEN Mean(With(S, 1)) ELSE 0,
     zero |-> IF known THEN Mean(With(S, 0)) ELSE 0]

\* _payoff_estimates_by_type_and_side
Payoffs(S) ==
    [k \in {PayoffKey(s) : s \in S} |-> Payoff({s \in S : PayoffKey(s) = k})]

\* _sample_group: not the type but the family of setups it belongs to
SetupGroup(s) == <<s.side, s.setup>>

\* _downside_estimates_by_group, _predicted_downside: a regime without losses,
\* or too thin, is estimated by its group.
Losses(S) == {s \in S : s.gain < 0}
Estimate(S) == IF Cardinality(S) >= MinTrades THEN -Mean(Losses(S)) ELSE 0
Downside(S, s) ==
    LET ofGroup == {c \in S : SetupGroup(c) = SetupGroup(s)}
        ofRegime == {c \in ofGroup : c.regime = s.regime}
    IN IF Estimate(ofRegime) # 0 THEN Estimate(ofRegime) ELSE Estimate(ofGroup)

\* _expected_value, times Levels
ExpectedValue(policy, s) ==
    LET known == {e \in At(policy.payoffs, PayoffKey(s)) : e.known}
        one  == {e.one : e \in {e \in known : e.ones}}
        zero == {e.zero : e \in {e \in known : e.zeros}}
    IN s.p * The(one, Target) + (Levels - s.p) * The(zero, -Stop)

\* _selection_score, each mode in units of its own.  The modes that weigh the
\* same parts differently (risk_adjusted_return, blended_rank,
\* capital_efficiency) are left out.
Score(policy, s) ==
    policy.sign *
    CASE policy.mode = "probability"      -> s.p
      [] policy.mode = "expected_value"   -> ExpectedValue(policy, s)
      [] policy.mode = "predicted_return" -> s.r
      [] policy.mode = "expected_utility" ->
            4 * Levels * s.r + ExpectedValue(policy, s) - Levels * Downside(policy.losses, s)
      [] policy.mode = "return_first"     ->
            20 * Levels * s.r + 2 * ExpectedValue(policy, s) - 5 * Levels * Downside(policy.losses, s)

\* _type_threshold_allows_ev, _passes_selection_and_ev_gate
Gate(policy, s, rows) ==
    LET ev == ExpectedValue(policy, s)
        allowed == \/ ev >= Levels * MinEV
                   \/ \E row \in rows : /\ row.source = "candidate_type_calibration"
                                        /\ row.average > 0 /\ ev > 0
    IN CASE policy.mode = "return_first" -> Score(policy, s) > 20 * Levels * MinEV
         [] policy.mode \in {"predicted_return", "expected_utility"} ->
                Score(policy, s) > 0 /\ allowed
         [] OTHER -> allowed

-----------------------------------------------------------------------------
(* Selection at a target frequency *)

\* rate: trades of two days
\* _days_spanned, in units of time
Span(S) ==
    IF Cardinality(S) < 2 THEN Day
    ELSE Larger(Max({s.at : s \in S}) - Min({s.at : s \in S}), Day \div 24)
Met(row, rate, span) == 2 * row.trades * Day >= rate * span
Off(row, rate, span) ==
    LET d == 2 * row.trades * Day - rate * span IN IF d < 0 THEN -d ELSE d

\* the threshold a sample has to reach
Least(policy, rows) == Max({policy.threshold} \cup {row.threshold : row \in rows})

\* the filter of _select_target_frequency_events
Passes(policy, s) ==
    LET rows == Lookup(policy.types, s) IN
    /\ DOMAIN policy.types # {} =>
          /\ policy.calibrated => \E row \in rows : row.source = "candidate_type_calibration"
          /\ \A row \in rows : ~ row.abstain
    /\ policy.frequency # "quota" => s.p >= Least(policy, rows)
    /\ \A f \in policy.floor : Score(policy, s) >= f
    /\ ~ policy.negativeEV => Gate(policy, s, rows)

\* The k-th day with candidates may take as many as the rate has added up to.
Quota(policy, k) == (k * policy.rate) \div 2 - ((k - 1) * policy.rate) \div 2

Rank(policy, s) ==
    LET own == {row.average : row \in {row \in Lookup(policy.types, s) : row.threshold # Unset}}
    IN <<IF policy.frequency = "online" THEN -s.at ELSE 0, Score(policy, s), The(own, 0),
         ExpectedValue(policy, s), s.p, -s.id>>

\* the first of each day in order of rank
Ranked(S, rank, policy) ==
    LET days == {s.at \div Day : s \in S}
        Nth(d) == Cardinality({e \in days : e <= d})
        Before(s) == {q \in S : q.at \div Day = s.at \div Day /\ Above(rank[q], rank[s])}
    IN {s \in S : Cardinality(Before(s)) < Quota(policy, Nth(s.at \div Day))}

\* _select_target_frequency_events
Chosen(S, policy) ==
    LET passing == {s \in S : Passes(policy, s)}
    IN Ranked(passing, [s \in passing |-> Rank(policy, s)], policy)

\* _closest_to_target_row
Closest(rows, policy, span) ==
    Best(rows, LAMBDA row : <<-Off(row, policy.rate, span),
                              IF Met(row, policy.rate, span) THEN 1 ELSE 0>>
                            \o ObjectiveKey(row, policy.metric))

\* _soften_low_negative_ev_probe_threshold
Softened(policy, row) ==
    IF policy.negativeEV /\ 0 < row.threshold /\ row.threshold <= ProbeLevel
    THEN [row EXCEPT !.threshold = 0] ELSE row

\* Plausible bug: the frequency decides, whatever it earned.
BestUnearned(rows, policy, span) ==
    Closest({row \in rows : row.trades > 0}, policy, span)

\* The best of what met the target, else the closest to it, of what earned.
BestEarned(rows, policy, span) ==
    LET earned == {row \in rows : row.trades > 0 /\ Earned(row)}
        met == {row \in earned : Met(row, policy.rate, span)}
    IN IF met # {} THEN Best(met, LAMBDA row : ObjectiveKey(row, policy.metric))
       ELSE Closest(earned, policy, span)

\* _select_threshold_for_target_frequency, of the rows of all thresholds
ThresholdRow(rows, policy, span) ==
    LET met == {row \in rows : Met(row, policy.rate, span)}
        found == IF ~ policy.negativeEV THEN BestEarned(rows, policy, span)
                 ELSE IF met = {} THEN Closest({row \in rows : row.trades > 0}, policy, span)
                 ELSE IF policy.metric # "sharpe"
                      THEN Best(met, LAMBDA row : ObjectiveKey(row, policy.metric))
                 ELSE Best(met, LAMBDA row : <<row.threshold, row.average, row.pnl>>)
    IN {Softened(policy, row) : row \in found}

FrequencyThreshold(S, policy) ==
    ThresholdRow({Row(t, Chosen(S, [policy EXCEPT !.threshold = t])) : t \in 0..Levels},
                 policy, Span(S))

\* _select_selection_score_floor_for_target_frequency: the scores seen are the
\* floors tried.
FloorRow(traded, policy, span) ==
    LET met == {row \in traded : Met(row, policy.rate, span)}
    IN IF ~ policy.negativeEV \/ \E row \in met : Earned(row)
       THEN BestEarned(traded, policy, span)
       ELSE IF met # {} THEN Best(met, LAMBDA row : ObjectiveKey(row, policy.metric))
       ELSE Closest(traded, policy, span)

ScoreFloor(S, policy) ==
    LET rows == {Row(f, Chosen(S, [policy EXCEPT !.floor = {f}])) : f \in {Score(policy, s) : s \in S}}
    IN FloorRow({row \in rows : row.trades > 0}, policy, Span(S))

\* _adaptive_selection_score_direction: the sign under which high scores win.
Direction(S, policy) ==
    LET n == Cardinality(S)
        bucket == Larger(BucketLeast, Smaller(n \div 4, 20))
        Lower(s) == {q \in S : Above(<<Score(policy, s), s.id>>, <<Score(policy, q), q.id>>)}
        low  == {s \in S : Cardinality(Lower(s)) < bucket}
        high == {s \in S : Cardinality(Lower(s)) >= n - bucket}
    IN IF n >= Larger(DirectionFrom, MinTrades) /\ Mean(low) > Mean(high) /\ Mean(low) > 0
       THEN -1 ELSE 1

-----------------------------------------------------------------------------

\* _split_calibration_samples: thirds in time order; all of them for each
\* purpose if they are few, or a third holds a single label.
Slices(S) ==
    LET n == Cardinality(S)
        Place(s) == Cardinality({q \in S : q.id <= s.id})
        first  == Larger(SliceLeast, n \div 3)
        second == Smaller(Larger(first + SliceLeast, (2 * n) \div 3), n - SliceLeast)
        base      == {s \in S : Place(s) <= first}
        ensemble  == {s \in S : first < Place(s) /\ Place(s) <= second}
        threshold == {s \in S : second < Place(s)}
    IN IF n < SliceFrom \/ \E T \in {base, ensemble, threshold} :
                              Cardinality({s.label : s \in T}) < 2
       THEN [base |-> S, ensemble |-> S, threshold |-> S]
       ELSE [base |-> base, ensemble |-> ensemble, threshold |-> threshold]
=============================================================================
