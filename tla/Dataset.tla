------------------------------ MODULE Dataset ------------------------------
(***************************************************************************)
(* models/dataset.py: samples made of candidate events.  The same events   *)
(* are met twice.  In research all bars are at hand, and a sample carries  *)
(* the label its future gave it; in a live run the bars end at the present *)
(* and the history is cut to what the run keeps.  A model trained on the   *)
(* first can only be used on the second if both say the same of an event.  *)
(*                                                                         *)
(* Of a feature the model keeps what it was computed from: the bars and    *)
(* the outside observations it read, by their times.  Observations are     *)
(* quotes (of the spot and of the future, by the time they were received), *)
(* bars of other instruments (context) and prediction-market snapshots.    *)
(***************************************************************************)
EXTENDS CandidateRules

CONSTANTS
    FeatureAsof,       \* feature_asof: "signal" or "entry"; the choice per mode
    ExternalLatency,   \* external_feature_latency_seconds
    FeatureWindow,     \* feature_window_bars
    MinBars,           \* bars a dataset needs, 300 in the code
    HistoryMax,        \* bars a live run keeps
    MaxSamples,        \* max_samples of a scoring
    IndexBudget,       \* bars a scoring looks back over
    QuoteLookbacks, ContextLookbacks,  \* seconds
    ContextPeriods,                    \* observations
    MarketAge, MarketLength,           \* _prediction_market_max_age, a window
    NetTarget, NetStop, LeastProfit, LeastStop, RoundTripCost,   \* ten-thousandths
    ProfitMultiplier, StopMultiplier, VolatilityLookback,
    ConservativeBar,   \* labels.conservative_same_bar
    EarlySeconds, EarlyLoss,   \* early adverse: within 60 s, at least five bps
    Shapes, Gaps,      \* bounds: the bars and gaps that may come, per mode
    ObservedModes,     \* bound: modes with outside observations
    MaxBars, MaxObservations,  \* bounds
    ObservedFrom       \* bound: bars before the first observation

ASSUME DatasetAssumption ==
    /\ \A m \in CandidateModes : FeatureAsof[m] \subseteq {"signal", "entry"}
    /\ {ExternalLatency, NetTarget, NetStop, LeastProfit, LeastStop, RoundTripCost,
        ProfitMultiplier, StopMultiplier, MarketAge, EarlySeconds, EarlyLoss,
        MaxBars, MaxObservations, ObservedFrom} \subseteq Nat
    /\ {FeatureWindow, MinBars, HistoryMax, MaxSamples, IndexBudget,
        MarketLength, VolatilityLookback} \subseteq Nat \ {0}
    /\ \A m \in CandidateModes :
          /\ Gaps[m] \subseteq Nat
          /\ \A i \in 1..(MaxBars + 1) : Shapes[m][i] \subseteq
                [open : Int, high : Int, low : Int, close : Int, volume : Nat]
    /\ QuoteLookbacks \cup ContextLookbacks \cup ContextPeriods \subseteq Nat
    \* AppConfig.validate raises otherwise
    /\ VolatilityLookback > 1
    \* so does build_meta_label_samples
    /\ Larger(NetStop - RoundTripCost, LeastStop) > 0
    /\ FeatureWindow >= WindowSize
    /\ IndexBudget = Larger(MaxSamples * 8, Larger(MaxSamples + 8, 16))

VARIABLES
    mode, asof,   \* the configuration of a study
    bars,         \* the bars of the instrument so far
    feeds,        \* the observations so far, by family
    trained,      \* the samples of the last dataset built
    served        \* the samples of the last scoring

dataVars == <<mode, asof, bars, feeds, trained, served>>

Families == {"quotes", "futures", "spot_context", "futures_context", "markets"}

-----------------------------------------------------------------------------
(* As-of joins: bisect_right(timestamps, t) - 1 *)

\* Plausible bug: bisect_right without the step back.
UpToNext(S, t) == {s \in S : Cardinality({r \in S : t < r /\ r < s}) = 0}

UpTo(S, t)   == {s \in S : s <= t}
Newest(S, t) == IF UpTo(S, t) = {} THEN {} ELSE {Max(UpTo(S, t))}

\* the newest and n before it
NewestWith(S, t, n) == {s \in UpTo(S, t) : Cardinality({r \in UpTo(S, t) : r > s}) <= n}

\* from the newest at the beginning of the lookback
Since(S, t, lookback) ==
    {s \in UpTo(S, t) : \A b \in Newest(S, t - lookback) : s >= b}

\* _add_market_quote_features: the quote of the moment, and that of each
\* lookback if it is an older one.
QuoteReads(S, t) == Newest(S, t) \cup UNION {Newest(S, t - l) : l \in QuoteLookbacks}

\* _add_cross_asset_features: returns and changes over periods and lookbacks,
\* and means of volume, trades and taker flow over what lies between.
ContextReads(S, t) ==
    (UNION {NewestWith(S, t, n) : n \in ContextPeriods})
        \cup (UNION {Since(S, t, l) : l \in ContextLookbacks})

\* _basis_values_since, _add_cross_context_pair_features: each context value of
\* the lookback against the close of the other series then.
BasisReads(S, other, t) ==
    (UNION {Newest(other, s) : s \in ContextReads(S, t)})
        \cup (UNION {Newest(other, t - l) : l \in ContextLookbacks})

\* latest_active_before: the newest snapshot of a market that is open, unless
\* it is too old.
Active(S, t, age) ==
    LET open == {s \in S : /\ s.at <= t /\ t - s.at <= age
                           /\ s.from <= t /\ t <= s.from + MarketLength}
    IN {s \in open : \A r \in open : r.at <= s.at}

\* _add_prediction_market_change_features: against the snapshot before it, for
\* which three times the age is allowed.
ChangeReads(S, s) == Active(S, s.at - 1, 3 * MarketAge)

\* _add_prediction_market_features
MarketReads(S, t) ==
    UNION {{s} \cup ChangeReads(S, s) : s \in Active(S, t, MarketAge)}

\* _add_prediction_market_lead_features: the close now and at its opening.
MarketBarReads(S, closes, t) ==
    UNION {Newest(closes, t) \cup Newest(closes, s.from) : s \in Active(S, t, MarketAge)}

-----------------------------------------------------------------------------
(* What is said of an event *)

\* bar_start_timestamp_utc: every source stamps a bar with its close
BarStart(bar) == bar.at - Interval
TimesOf(series) == {series[i].at : i \in DOMAIN series}

\* Plausible bug: features from the bars there are now.
HistoryOfSeries(series, i) == SubSeq(series, Larger(1, Len(series) + 1 - FeatureWindow), Len(series))

\* history = ordered[max(0, idx + 1 - feature_window_bars) : idx + 1]
HistoryAt(series, i) == SubSeq(series, Larger(1, i + 1 - FeatureWindow), i)

\* The outside observations of an event; only the context is read as of the
\* signal, the others with the latency, and as of the entry if so configured.
Reads(event, external, history, known) ==
    LET closes == TimesOf(history)
        spot == known["spot_context"]
        future == known["futures_context"]
    IN [bars    |-> closes,
        quotes  |-> QuoteReads(known["quotes"], external)
                        \cup QuoteReads(known["futures"], external),
        context |-> ContextReads(spot, event.at) \cup ContextReads(future, event.at)
                        \cup BasisReads(future, spot, event.at),
        basis   |-> BasisReads(spot, closes, event.at)
                        \cup BasisReads(future, closes, event.at)
                        \cup MarketBarReads(known["markets"], closes, external),
        markets |-> MarketReads(known["markets"], external)]

\* _event_label_geometry, in ten-thousandths
HorizonVolatility(history, horizon) ==
    LET n == Smaller(VolatilityLookback, Len(history) - 1)
        steps == Larger(1, horizon \div Interval)
    IN IF Len(history) < 3 THEN 0 ELSE Root(Variance(history, n) * steps) \div n

Geometry(event, history) ==
    LET volatility == HorizonVolatility(history, event.horizon) IN
    [volatility |-> volatility,
     target |-> Max({1, NetTarget, LeastProfit - RoundTripCost,
                     ProfitMultiplier * volatility - RoundTripCost}),
     stop   |-> Max({1, NetStop, RoundTripCost + LeastStop,
                     RoundTripCost + StopMultiplier * volatility})]

\* label_event, its barriers in ticks of the entry price
InTicks(price, bps) == (price * bps) \div 10000
Labels(target, stop, cost) ==
    INSTANCE TripleBarrier WITH
        Target <- target, Stop <- stop, Cost <- cost, MinHold <- MinHolding,
        Horizon <- MaxHours, Conservative <- ConservativeBar, EntryTimeout <- 0,
        Latency <- 0, TradeThrough <- 0, LimitOffset <- 0

AsPath(bar) == [start |-> BarStart(bar), at |-> bar.at,
                path |-> <<bar.open, bar.high, bar.low, bar.close>>]

\* _label_path_targets: the worst and the best the trade saw, and whether it
\* lost at once, over the bars that begin within it.
PathTargets(side, entry, entryAt, exitAt, future) ==
    LET S == {i \in DOMAIN future :
                 BarStart(future[i]) >= entryAt /\ BarStart(future[i]) <= exitAt}
        best(i) == IF side = "BUY" THEN Beyond(future[i].high, entry)
                   ELSE (10000 * (entry - future[i].low)) \div entry
        worst(i) == IF side = "BUY" THEN -Beyond(future[i].low, entry)
                    ELSE (10000 * (future[i].high - entry)) \div entry
    IN [adverse   |-> Max({0} \cup {worst(i) : i \in S}),
        favorable |-> Max({0} \cup {best(i) : i \in S}),
        early     |-> \E i \in S : /\ BarStart(future[i]) <= entryAt + EarlySeconds
                                   /\ worst(i) >= Larger(RoundTripCost, EarlyLoss)]

-----------------------------------------------------------------------------
(* Samples *)

\* bisect_right: how many bars of a series there are up to a time
BarsUpTo(series, t) == Cardinality({i \in DOMAIN series : series[i].at <= t})

\* the bars after the event up to its vertical barrier
FutureOf(series, event) ==
    SubSeq(series, BarsUpTo(series, event.at) + 1,
                   BarsUpTo(series, event.at + event.horizon))

\* The columns both builders write whatever the event, and those only one does.
EventColumns ==
    {"max_holding_seconds", "net_profit_target", "net_stop_loss", "horizon_volatility",
     "point_signal_delay_seconds", "feature_asof_is_entry", "round_trip_cost_bps",
     "gross_profit_move", "gross_stop_distance"}
IntervalColumns == {"label_bar_interval_seconds", "feature_bar_interval_seconds"}

\* One sample of build_meta_label_samples: entry at the open of the first bar
\* after the event, a bar that began before it counting from the event on.
Labelled(series, i, event, known) ==
    LET history == HistoryAt(series, i)
        future == FutureOf(series, event)
        entry == future[1].open
        entryAt == Larger(BarStart(future[1]), event.at)
        geometry == Geometry(event, history)
        outcome == Labels(InTicks(entry, geometry.target), InTicks(entry, geometry.stop),
                          InTicks(entry, RoundTripCost))!Label(
                       event.side, entry, entryAt,
                       [k \in DOMAIN future |-> AsPath(future[k])])
        pointInTime == IF asof = "entry" THEN entryAt ELSE event.at
    IN [event |-> event, at |-> pointInTime, t1 |-> outcome.at,
        kind |-> outcome.kind, gain |-> outcome.gain,
        path |-> PathTargets(event.side, entry, entryAt, outcome.at, future),
        volatility |-> geometry.volatility,
        delay |-> Larger(0, entryAt - event.at),
        external |-> pointInTime - ExternalLatency,
        columns |-> EventColumns \cup IntervalColumns,
        reads |-> Reads(event, pointInTime - ExternalLatency, history, known)]

IndexOf(series, event) == CHOOSE i \in DOMAIN series : series[i].at = event.at

\* build_meta_label_samples: events on the last bar, or without a bar before
\* their vertical barrier, have no sample.
MetaLabelSamples(series, known) ==
    LET Labellable(event) == IndexOf(series, event) < Len(series) /\ FutureOf(series, event) # <<>>
    IN {Labelled(series, IndexOf(series, event), event, known) :
            event \in {e \in EventsOf(series, mode) : Labellable(e)}}

\* Plausible bug: samples[:max_samples] of the candidates.
FirstOfSeq(s, n) == SubSeq(s, 1, Smaller(n, Len(s)))

LastOfSeq(s, n) == SubSeq(s, Larger(1, Len(s) - n + 1), Len(s))

\* Plausible bug: features of every candidate as of the newest bar.
ScoredOnNewestBar(series, event) ==
    LET history == HistoryAt(series, Len(series)) IN
    [event |-> event, at |-> event.at, bars |-> TimesOf(history),
     volatility |-> Geometry(event, history).volatility,
     delay |-> IF asof = "entry" THEN Interval ELSE 0,
     columns |-> EventColumns]

\* One sample of build_scoring_samples.  Of the outside observations a live
\* run has only the context, read once when it began, which is left out here.
Scored(series, event) ==
    LET history == HistoryAt(series, IndexOf(series, event)) IN
    [event |-> event, at |-> event.at, bars |-> TimesOf(history),
     volatility |-> Geometry(event, history).volatility,
     delay |-> IF asof = "entry" THEN Interval ELSE 0,
     columns |-> EventColumns]

\* build_scoring_samples: the newest candidates of the newest bars; one bar
\* is not enough to take features of.
ScoringSamples(series) ==
    LET onStride == {i \in DOMAIN series : OnStride(i)}
        recent == {i \in onStride :
                      Cardinality({j \in onStride : j > i}) < IndexBudget}
        events == FlattenSeq([i \in DOMAIN series |->
                      IF i \in recent THEN CandidatesAt(series, i, mode) ELSE <<>>])
    IN IF Len(series) < 2 THEN {}
       ELSE {Scored(series, event) : event \in
                {e \in ToSet(LastOfSeq(LastOfSeq(events, 4 * MaxSamples), MaxSamples)) :
                    IndexOf(series, e) > 1}}

-----------------------------------------------------------------------------
(* Behaviour *)

DataInit ==
    /\ mode \in CandidateModes
    /\ asof \in FeatureAsof[mode]
    /\ bars = <<>>
    /\ feeds = [f \in Families |-> {}]
    /\ trained = {}
    /\ served = {}

Now == IF bars = <<>> THEN 0 ELSE bars[Len(bars)].at

\* The next bar, its prices relative to the close before and never as low as
\* zero.  Seconds without a trade have no bar; one gap is let pass, so that the
\* median step stays what it is.
Arrive(shape, gap) ==
    LET last == IF bars = <<>> THEN 10000 ELSE bars[Len(bars)].close IN
    /\ Len(bars) < MaxBars
    /\ gap > 0 => Now = Len(bars) * Interval
    /\ \A p \in {shape.open, shape.high, shape.low, shape.close} : last + p > 0
    /\ bars' = Append(bars,
          [at |-> Now + gap + Interval, open |-> last + shape.open,
           high |-> last + shape.high, low |-> last + shape.low,
           close |-> last + shape.close, volume |-> shape.volume])
    /\ UNCHANGED <<mode, asof, feeds, trained, served>>

\* Scoring, as modelled, reads no observation: behaviours have one or the other.
Unobserved == \A f \in Families : feeds[f] = {}

\* An observation of a family comes in, with the bar or between two bars.
Stamps(f) == IF f = "markets" THEN {s.at : s \in feeds[f]} ELSE feeds[f]
Observe(f, offset) ==
    /\ served = {} /\ mode \in ObservedModes
    /\ Len(bars) \in ObservedFrom..(MaxBars - 1)
    /\ SumOf(LAMBDA g : Cardinality(feeds[g]), Families) < MaxObservations
    /\ \A s \in Stamps(f) : s < Now + offset
    /\ IF f = "markets"
       THEN \E from \in {k * MarketLength : k \in 0..MaxBars} :
               /\ from + MarketLength >= Now + offset
               /\ from <= Now + offset + MarketLength
               /\ feeds' = [feeds EXCEPT ![f] = @ \cup {[at |-> Now + offset, from |-> from]}]
       ELSE feeds' = [feeds EXCEPT ![f] = @ \cup {Now + offset}]
    /\ UNCHANGED <<mode, asof, bars, trained, served>>

BuildMetaLabelSamples ==
    /\ Len(bars) >= MinBars
    /\ trained' = MetaLabelSamples(bars, feeds)
    /\ UNCHANGED <<mode, asof, bars, feeds, served>>

\* A trade run scores the bars it kept.
Kept == LastOfSeq(bars, HistoryMax)
BuildScoringSamples ==
    /\ Unobserved /\ Len(bars) >= FirstIndex
    /\ served' = ScoringSamples(Kept)
    /\ UNCHANGED <<mode, asof, bars, feeds, trained>>

DataNext ==
    \/ \E shape \in Shapes[mode][Len(bars) + 1], gap \in Gaps[mode] : Arrive(shape, gap)
    \/ \E f \in Families, offset \in {0, Interval \div 2} : Observe(f, offset)
    \/ BuildMetaLabelSamples
    \/ BuildScoringSamples

DataSpec == DataInit /\ [][DataNext]_dataVars

-----------------------------------------------------------------------------
(* Properties *)

SameEvent(e, f) == e.type = f.type /\ e.side = f.side /\ e.at = f.at

\* The window the rules are shown is enough for them: what they say of a bar
\* does not depend on where the series began, whatever came before.
WindowSuffices ==
    [][ Len(bars') > Len(bars) /\ Len(bars') >= MinHistory =>
        CandidatesAt(bars', Len(bars'), mode) = CandidatesOf(bars', mode) ]_dataVars

\* A sample knows nothing of its future: bars and context up to the signal,
\* and quotes and prediction markets up to its time less the latency; its own
\* outcome lies after it.
NoLookahead ==
    \A s \in trained :
        /\ \A t \in s.reads.bars \cup s.reads.context \cup s.reads.basis : t <= s.event.at
        /\ \A t \in s.reads.quotes : t <= s.at - ExternalLatency
        /\ \A m \in s.reads.markets : m.at <= s.at - ExternalLatency
        /\ s.event.at <= s.at /\ s.at < s.t1 /\ s.t1 <= s.event.at + s.event.horizon

\* A dataset built later says the same of an event as the one built before: all
\* its features, and its label unless that still stood open.
PointInTime ==
    [][ \A s \in trained, r \in trained' :
          SameEvent(s.event, r.event) =>
              /\ s.event = r.event /\ s.reads = r.reads /\ s.volatility = r.volatility
              /\ s.at = r.at /\ s.delay = r.delay
              /\ s.t1 <= r.t1
              /\ s.kind # "vertical" => s.t1 = r.t1 /\ s.kind = r.kind ]_dataVars

\* What a live run makes of an event is what the model was trained on.  It has
\* no more bars behind a feature, and the same if it kept as many as features
\* use; the horizon is the same already if it kept as many as the rules see, and
\* the barriers if these are as many as the volatility is taken of.
ServedAsTrained ==
    \A s \in trained, v \in served :
        SameEvent(s.event, v.event) =>
            LET kept == Cardinality(v.bars) IN
            /\ v.bars \subseteq s.reads.bars
            /\ kept = FeatureWindow => v.bars = s.reads.bars
            /\ kept >= WindowSize => s.event = v.event
            /\ kept >= WindowSize /\ kept > VolatilityLookback =>
                    s.volatility = v.volatility

\* No candidate of the bars that are looked at is passed over for an older one.
NewestServed ==
    [][ served' # served =>
        \A v \in served', i \in DOMAIN Kept :
            OnStride(i) /\ Kept[i].at > v.at =>
                LET events == CandidatesAt(Kept, i, mode) IN
                \A k \in DOMAIN events : \E u \in served' : SameEvent(events[k], u.event)
      ]_dataVars

\* Feature-contract checks (README.md): FeatureEncoder.fit makes a column of
\* every number of a training sample, and a trade run by default approves no
\* signal that misses one.
Encoder == UNION {s.columns : s \in trained}
NothingMissing == \A v \in served : Encoder \subseteq v.columns

=============================================================================
