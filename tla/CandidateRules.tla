--------------------------- MODULE CandidateRules ---------------------------
(***************************************************************************)
(* Which bars are candidates for a trade: the rules of candidates/rules.py *)
(* and their use in candidates/events.py.  Everything here is a function   *)
(* of a history h, the bars up to and including the one that is judged.    *)
(*                                                                         *)
(* W shortens the windows of the code together: W[72] is the number of     *)
(* bars that stand for 72.  Prices are whole ticks, fractions are compared *)
(* in thousandths, bar ranges and returns in ten-thousandths, and means    *)
(* are rounded down.  Trade counts are taken as missing, as they are on    *)
(* the bars of some sources; volumes stand for both.                       *)
(***************************************************************************)
EXTENDS Integers, Sequences, FiniteSets, FiniteSetsExt, SequencesExt

CONSTANTS
    W,              \* the windows of the rules
    CandidateModes, \* CandidateGenerationConfig.mode is one of these
    SideMode,       \* side_mode
    Lookback,       \* lookback
    MinHistory,     \* min_history_bars
    Rolling,        \* rolling_window_bars
    Stride,         \* dense_stride_bars
    Adaptive,       \* adaptive_horizon
    MinHolding,     \* min_holding_seconds
    MaxHolding,     \* max_holding_seconds, 0 when it is not set
    MaxHours, Hour, \* max_holding_hours, and the seconds of an hour
    HorizonCap,     \* adaptive_horizon_max_seconds, 0 when it is not set
    Granularity,    \* adaptive_horizon_granularity_seconds, 0 when it is not set
    TargetMove,     \* adaptive_horizon_target_move_bps
    Interval        \* seconds from one bar to the next

Windows ==
    {3, 4, 5, 8, 12, 16, 21, 24, 32, 48, 64, 72, 96, 120, 168, 240, 300}

\* validate_candidate_generation_config
ValidConfig ==
    /\ CandidateModes \subseteq {"rules", "aggressive_rules",
                                 "dense_research", "active_research"}
    /\ SideMode \in {"long", "short", "long_short"}
    /\ {Lookback, Stride, MinHolding, TargetMove} \subseteq Nat \ {0}
    /\ {MinHistory, Rolling, MaxHolding, MaxHours, HorizonCap, Granularity} \subseteq Nat
    /\ (IF MaxHolding > 0 THEN MaxHolding ELSE MaxHours * Hour) >= MinHolding

ASSUME CandidateRulesAssumption ==
    /\ ValidConfig
    /\ W \in [Windows -> Nat \ {0}]
    /\ \A m, n \in Windows : m <= n => W[m] <= W[n]
    /\ Interval \in Nat \ {0} /\ Hour \in Nat
    /\ Adaptive \in BOOLEAN

Smaller(a, b) == IF a <= b THEN a ELSE b
Larger(a, b)  == IF a >= b THEN a ELSE b

-----------------------------------------------------------------------------
(* Measures of a history *)

Latest(h)   == h[Len(h)]
Previous(h) == h[Len(h) - 1]

\* bars[-n:], and bars[-n - 1:-1], as positions
Recent(h, n) == {i \in DOMAIN h : i > Len(h) - n}
Prior(h, n)  == {i \in DOMAIN h : i >= Len(h) - n /\ i < Len(h)}

SumOf(Value(_), S)  == SumFunctionOnSet([i \in S |-> Value(i)], S)
MeanOf(Value(_), S) == SumOf(Value, S) \div Cardinality(S)

Sma(h, n)     == MeanOf(LAMBDA i : h[i].close, Recent(h, n))
HighOf(h, S)  == Max({h[i].high : i \in S})
LowOf(h, S)   == Min({h[i].low : i \in S})
RangeAt(h, i) == (10000 * (h[i].high - h[i].low)) \div h[i].close
Return(h, i)  == (10000 * (h[i].close - h[i - 1].close)) \div h[i - 1].close
MeanRange(h, S) == MeanOf(LAMBDA i : RangeAt(h, i), S)

\* a is at least (more than) so many thousandths of b.
AtLeast(a, b, permille)  == a * 1000 >= b * permille
MoreThan(a, b, permille) == a * 1000 > b * permille

\* _volume_ratio, _trade_count_ratio: in thousandths, 0 without a baseline.
VolumeRatio(h, n) ==
    LET base == SumOf(LAMBDA i : h[i].volume, Prior(h, n)) IN
    IF Len(h) < n + 1 \/ base = 0 THEN 0 ELSE (Latest(h).volume * n * 1000) \div base

\* _efficiency_ratio: distance covered over length of the path, in thousandths
Abs(x) == IF x < 0 THEN -x ELSE x
Efficiency(h, n) ==
    LET path == SumOf(LAMBDA i : Abs(h[i].close - h[i - 1].close), Recent(h, n)) IN
    IF Len(h) < n + 1 \/ path = 0 THEN 0
    ELSE (Abs(Latest(h).close - h[Len(h) - n].close) * 1000) \div path

\* _volatility_percentile: the share of the last ranges no wider than the
\* recent ones, one half while the history is too short to tell
PercentileReach == W[240] + W[24] + 1
VolatilityPercentile(h) ==
    IF Len(h) < PercentileReach THEN 500
    ELSE LET now == MeanRange(h, Recent(h, W[24])) IN
         (1000 * Cardinality({i \in Recent(h, W[240]) : RangeAt(h, i) <= now}))
            \div W[240]

\* pstdev of the last n returns, squared and times n^2
Variance(h, n) ==
    LET S == Recent(h, n) \ {1} IN
    Cardinality(S) * SumOf(LAMBDA i : Return(h, i) * Return(h, i), S)
        - SumOf(LAMBDA i : Return(h, i), S) * SumOf(LAMBDA i : Return(h, i), S)

\* _higher_timeframe_trend_ok, _higher_timeframe_downtrend_ok: a short history
\* has any trend.
TrendOk(h) ==
    Len(h) < W[168] \/ ( /\ Latest(h).close > Sma(h, W[72])
                         /\ AtLeast(Sma(h, W[72]), Sma(h, W[168]), 985) )
DowntrendOk(h) ==
    Len(h) < W[168] \/ ( /\ Latest(h).close < Sma(h, W[72])
                         /\ Sma(h, W[168]) * 1015 >= Sma(h, W[72]) * 1000 )

\* sorted(ranges)[rank]
Ranked(h, S, rank) ==
    CHOOSE r \in {RangeAt(h, i) : i \in S} :
        /\ Cardinality({i \in S : RangeAt(h, i) < r}) <= rank
        /\ Cardinality({i \in S : RangeAt(h, i) <= r}) > rank
MedianRange(h, S) == Ranked(h, S, Cardinality(S) \div 2)
Quantile(h, S, permille) ==
    Ranked(h, S, ((Cardinality(S) - 1) * permille) \div 1000)

\* where the close lies between low and high, in thousandths
ClosePosition(b) ==
    IF b.high = b.low THEN 500 ELSE ((b.close - b.low) * 1000) \div (b.high - b.low)
LowerWick(b) == Smaller(b.open, b.close) - b.low
UpperWick(b) == b.high - Larger(b.open, b.close)

\* the close beyond a level, in ten-thousandths of it
Beyond(price, level) == (10000 * (price - level)) \div level

-----------------------------------------------------------------------------
(* The rules.  Each reads the history and says whether its last bar is a    *)
(* candidate.                                                               *)

trend_pullback_reclaim(h) ==
    /\ Len(h) >= W[168]
    /\ LET mean21 == Sma(h, W[21])
           mean72 == Sma(h, W[72])
           low == LowOf(h, Recent(h, W[8])) IN
       /\ Latest(h).close > mean72 /\ MoreThan(mean72, Sma(h, W[168]), 1005)
       /\ Previous(h).close <= mean21 /\ Latest(h).close > mean21
       /\ low * 1000 <= mean21 * 1010 /\ AtLeast(low, mean72, 965)
    /\ VolatilityPercentile(h) \in 120..750
    /\ VolumeRatio(h, W[24]) >= 900 /\ Efficiency(h, W[24]) >= 160

trend_continuation(h) ==
    /\ Len(h) >= Larger(Lookback + 1, W[72])
    /\ LET high == HighOf(h, Prior(h, Lookback)) IN
       Latest(h).close > high /\ Beyond(Latest(h).close, high) <= 180
    /\ Latest(h).close > h[Len(h) - W[8] + 1].close
    /\ Latest(h).close > h[Len(h) - W[21] + 1].close
    /\ TrendOk(h)
    /\ VolatilityPercentile(h) \in 180..800
    /\ VolumeRatio(h, W[24]) >= 1000 /\ Efficiency(h, W[24]) >= 250

\* The return over four bars is an event when it is large by itself and
\* against the volatility of the bars of late.
Surge(h, direction) ==
    LET four == (direction * 10000 * (Latest(h).close - h[Len(h) - W[4]].close))
                    \div h[Len(h) - W[4]].close IN
    /\ four >= 60
    /\ 4 * four * four * Lookback * Lookback >= 25 * Variance(h, Lookback)

information_momentum(h) ==
    /\ Len(h) >= Larger(Lookback + W[4], W[168])
    /\ Surge(h, 1)
    /\ AtLeast(Latest(h).close, HighOf(h, Prior(h, Lookback)), 995)
    /\ TrendOk(h)
    /\ VolatilityPercentile(h) \in 100..900
    /\ VolumeRatio(h, W[24]) >= 750 /\ Efficiency(h, W[24]) >= 220

short_information_momentum(h) ==
    /\ Len(h) >= Larger(Lookback + W[4], W[168])
    /\ Surge(h, -1)
    /\ Latest(h).close * 1000 <= LowOf(h, Prior(h, Lookback)) * 1005
    /\ DowntrendOk(h)
    /\ VolatilityPercentile(h) \in 100..950
    /\ VolumeRatio(h, W[24]) >= 750 /\ Efficiency(h, W[24]) >= 220

\* The ranges of the last W[8] of the bars at S are narrow among all of S.
LastOf(S, n) == {i \in S : Cardinality({j \in S : j >= i}) <= n}
Compressed(h, S, quantile) ==
    MeanRange(h, LastOf(S, W[8])) <= Quantile(h, S, quantile)

volatility_breakout(h) ==
    /\ Len(h) >= Larger(Lookback + 1, W[96])
    /\ Compressed(h, Prior(h, Lookback), 350)
    /\ Latest(h).close > HighOf(h, LastOf(Prior(h, Lookback), W[8]))
    /\ TrendOk(h)
    /\ VolumeRatio(h, W[24]) >= 1100 /\ VolatilityPercentile(h) <= 750

volatility_breakout_retest(h) ==
    /\ Len(h) >= Larger(Lookback + W[3], W[120])
    /\ LET prior == {i \in Recent(h, Lookback + W[3]) : i <= Len(h) - W[3]}
           high == HighOf(h, LastOf(prior, W[8])) IN
       /\ Compressed(h, prior, 400)
       /\ Previous(h).close > high
       /\ AtLeast(Latest(h).low, high, 992) /\ Latest(h).close > high
    /\ TrendOk(h)
    /\ VolumeRatio(h, W[24]) >= 950 /\ Efficiency(h, W[24]) >= 200
    /\ VolatilityPercentile(h) <= 800

intraday_volatility_breakout(h, lookback) ==
    /\ Len(h) >= Larger(lookback + 1, W[96])
    /\ LET prior == Prior(h, lookback)
           median == MedianRange(h, prior)
           high == HighOf(h, prior) IN
       /\ MeanRange(h, LastOf(prior, W[4])) <= median
       /\ Latest(h).close > high /\ Beyond(Latest(h).close, high) \in 10..180
       /\ AtLeast(RangeAt(h, Len(h)), median, 800)
    /\ ClosePosition(Latest(h)) >= 680
    /\ VolumeRatio(h, W[12]) >= 950 /\ Efficiency(h, W[12]) >= 200

liquidity_sweep_reclaim(h) ==
    /\ Len(h) >= Larger(Lookback + 2, W[96])
    /\ LET low == LowOf(h, Prior(h, Lookback)) IN
       Latest(h).low * 1000 < low * 998 /\ Latest(h).close > low
    /\ Latest(h).close > Sma(h, W[8]) /\ AtLeast(Sma(h, W[8]), Sma(h, W[24]), 985)
    /\ AtLeast(LowerWick(Latest(h)), Latest(h).close, 3)
    /\ ClosePosition(Latest(h)) >= 580 /\ VolumeRatio(h, W[24]) >= 850

short_trend_rejection(h) ==
    /\ Len(h) >= W[168]
    /\ LET mean21 == Sma(h, W[21])
           high == HighOf(h, Recent(h, W[8])) IN
       /\ Previous(h).close >= mean21 /\ Latest(h).close < mean21
       /\ AtLeast(high, mean21, 990) /\ high * 1000 <= Sma(h, W[72]) * 1035
    /\ DowntrendOk(h)
    /\ VolatilityPercentile(h) \in 120..850
    /\ VolumeRatio(h, W[24]) >= 900 /\ Efficiency(h, W[24]) >= 160

short_volatility_breakdown(h) ==
    /\ Len(h) >= Larger(Lookback + 1, W[120])
    /\ Compressed(h, Prior(h, Lookback), 400)
    /\ LET low == LowOf(h, LastOf(Prior(h, Lookback), W[8])) IN
       Latest(h).close < low /\ Beyond(low, Latest(h).close) <= 180
    /\ DowntrendOk(h)
    /\ VolumeRatio(h, W[24]) >= 1000 /\ Efficiency(h, W[24]) >= 220
    /\ VolatilityPercentile(h) <= 850

\* A fall of three percent until the bar before, large against the volatility
\* (its z below -1.25), and the close back above the mean of the last five.
capitulation_mean_reversion(h) ==
    /\ Len(h) >= Larger(Lookback + 2, W[72])
    /\ LET shock == Beyond(Previous(h).close, h[Len(h) - Lookback + 1].close) IN
       /\ shock <= -300 /\ Variance(h, Lookback) > 0
       /\ 16 * shock * shock * Lookback >= 25 * Variance(h, Lookback)
    /\ Latest(h).close > Sma(h, W[5])
    /\ AtLeast(LowerWick(Latest(h)), Latest(h).close, 2)
    /\ VolumeRatio(h, W[24]) >= 750

active_breakout_continuation(h, lookback) ==
    /\ Len(h) >= Larger(lookback + W[12], W[96])
    /\ Beyond(Latest(h).close, HighOf(h, Prior(h, lookback))) \in 5..120
    /\ ClosePosition(Latest(h)) >= 620
    /\ LET n == Smaller(lookback, W[24]) IN
       VolumeRatio(h, n) >= 800 /\ Efficiency(h, n) >= 120

active_pullback_reclaim(h) ==
    /\ Len(h) >= W[96]
    /\ Previous(h).close <= Sma(h, W[8]) /\ Latest(h).close > Sma(h, W[8])
    /\ AtLeast(Sma(h, W[24]), Sma(h, W[96]), 995)
    /\ AtLeast(Latest(h).close, Sma(h, W[24]), 985)
    /\ Beyond(LowOf(h, Recent(h, W[8])), Sma(h, W[24])) \in -250..40
    /\ VolumeRatio(h, W[24]) >= 700

active_squeeze_breakout(h, lookback) ==
    /\ Len(h) >= Larger(lookback + 1, W[120]) /\ lookback >= W[8]
    /\ LET prior == Prior(h, lookback)
           last == LastOf(prior, W[8]) IN
       /\ MeanRange(h, last) * 1000 <= MedianRange(h, prior) * 850
       /\ HighOf(h, last) > LowOf(h, last)
       /\ Latest(h).close > HighOf(h, last)
    /\ VolumeRatio(h, W[24]) >= 850

active_liquidity_reversal(h, lookback) ==
    /\ Len(h) >= Larger(lookback + 2, W[96])
    /\ LET low == LowOf(h, Prior(h, lookback)) IN
       Latest(h).low * 1000 < low * 999 /\ Latest(h).close > low
    /\ ClosePosition(Latest(h)) >= 550 /\ VolumeRatio(h, W[24]) >= 750

active_range_mean_reversion(h, lookback) ==
    /\ Len(h) >= Larger(lookback + 1, W[96])
    /\ LET high == HighOf(h, Recent(h, lookback))
           low == LowOf(h, Recent(h, lookback)) IN
       high > low /\ (Latest(h).close - low) * 1000 <= 220 * (high - low)
    /\ Efficiency(h, Smaller(lookback, W[48])) <= 350
    /\ AtLeast(LowerWick(Latest(h)), Latest(h).close, 1)

active_short_breakdown(h, lookback) ==
    /\ Len(h) >= Larger(lookback + W[12], W[96])
    /\ Beyond(LowOf(h, Prior(h, lookback)), Latest(h).close) \in 5..120
    /\ ClosePosition(Latest(h)) <= 380
    /\ LET n == Smaller(lookback, W[24]) IN
       VolumeRatio(h, n) >= 800 /\ Efficiency(h, n) >= 120

-----------------------------------------------------------------------------
(* Setups and horizons (candidates/events.py)                              *)

\* _dense_setup_metadata: every bar is a setup of some family, and the shares
\* it was told by, in thousandths.
DenseSetup(h) ==
    LET b == Latest(h)
        before == Prior(h, W[24])
        high == HighOf(h, before)
        low == LowOf(h, before)
        base == MeanOf(LAMBDA i : h[i].volume, before)
        mean == MeanRange(h, before)
        sum(n) == SumOf(LAMBDA i : Return(h, i), Recent(h, n) \ {1})
        position == IF high > low THEN ((b.close - low) * 1000) \div (high - low)
                    ELSE 500
        measured == b.volume > 0 /\ base > 0
        volume == IF measured THEN (b.volume * 1000) \div base ELSE 1000
        expansion == IF mean > 0 THEN (RangeAt(h, Len(h)) * 1000) \div mean ELSE 0
        compression == IF mean > 0
                       THEN (MeanRange(h, LastOf(before, W[8])) * 1000) \div mean
                       ELSE 0
        breakout == b.close > high /\ volume >= 1050
        trend == sum(W[4]) > 0 /\ sum(W[16]) > 0 /\ position >= 550
        reclaim == \/ position <= 250 /\ LowerWick(b) > UpperWick(b)
                   \/ position >= 750 /\ Return(h, Len(h)) < 0
        release == compression <= 750 /\ expansion >= 1150
    IN [family |-> IF breakout THEN "liquidity_vacuum_breakout"
                   ELSE IF trend THEN "momentum_continuation"
                   ELSE IF reclaim THEN "mean_reversion_exhaustion"
                   ELSE IF release THEN "liquidity_vacuum_breakout"
                   ELSE "chop_no_trade",
        measured |-> measured, volume |-> volume, expansion |-> expansion]

\* the setup of a rule names a family or none, and measures nothing
RuleSetup(family) ==
    [family |-> family, measured |-> TRUE, volume |-> 1000, expansion |-> 1000]

\* _horizon_family_multiplier, in thousandths
FamilyMultiplier(family) ==
    CASE family = "liquidity_vacuum_breakout" -> 550
      [] family \in {"breakout", "momentum_continuation"} -> 850
      [] family = "mean_reversion_exhaustion" -> 1350
      [] family \in {"mean_reversion", "chop_no_trade"} -> 1800
      [] OTHER -> 1000

Times(a, permille) == (a * permille) \div 1000

\* A strong signal and a burst of range or volume shorten the horizon.
Multiplier(setup, strength) ==
    LET signal == CASE 2 * strength >= TargetMove -> 550
                    [] 2 * strength < TargetMove /\ 4 * strength >= TargetMove -> 750
                    [] OTHER -> 1000
        burst == CASE setup.expansion >= 1500
                      \/ (setup.measured /\ setup.volume >= 2000) -> 700
                   [] setup.expansion \in 1..749 /\ setup.measured
                      /\ setup.volume < 750 -> 1200
                   [] OTHER -> 1000
    IN Times(Times(FamilyMultiplier(setup.family), signal), burst)

\* max(volatility, half the median range) of the last bars, in ten-thousandths
Root(x) == CHOOSE r \in 0..x : r * r <= x /\ (r + 1) * (r + 1) > x
Movement(h) ==
    LET wide == {i \in Recent(h, W[300]) : RangeAt(h, i) > 0}
        n == Smaller(Len(h) - 1, W[300])
        range == IF wide = {} THEN 0
                 ELSE IF Cardinality(wide) % 2 = 1 THEN MedianRange(h, wide)
                 ELSE (MedianRange(h, wide)
                         + Ranked(h, wide, Cardinality(wide) \div 2 - 1)) \div 2
    IN Larger(IF n < 2 THEN 0 ELSE Root(Variance(h, n)) \div n, range \div 2)

\* _adaptive_horizon_seconds: the time the bars need for the target move, cut
\* to what the rule and the configuration allow, and rounded up.
Grain == IF Granularity > 0 THEN Granularity ELSE Interval
LeastHolding == Larger(MinHolding, Grain)
ConfigCap ==
    CASE HorizonCap > 0 -> HorizonCap
      [] HorizonCap = 0 /\ MaxHolding > 0 -> MaxHolding
      [] OTHER -> MaxHours * Hour
MostHolding(hours) == Larger(LeastHolding, Smaller(hours * Hour, ConfigCap))
RoundUp(t) == ((t + Grain - 1) \div Grain) * Grain

AdaptiveHorizon(h, hours, setup, strength) ==
    LET most == MostHolding(hours)
        raw == IF Movement(h) = 0 THEN most
               ELSE (TargetMove * Interval * Multiplier(setup, strength))
                        \div (Movement(h) * 1000)
    IN Larger(LeastHolding, RoundUp(Smaller(Larger(raw, LeastHolding), most)))

\* _with_configured_horizon, and max_holding_period of the candidate it makes
HorizonOf(h, hours, setup, strength) ==
    CASE Adaptive -> AdaptiveHorizon(h, hours, setup, strength)
      [] ~Adaptive /\ MaxHolding > 0 -> MaxHolding
      [] OTHER -> hours * Hour

-----------------------------------------------------------------------------
(* Candidates of a history                                                 *)

\* What a rule that fires says of the last bar; its hours, family and strength
\* count only then.
Signal(fires, type, side, hours, family, strength) ==
    IF ~fires THEN <<>>
    ELSE <<[type |-> type, side |-> side, hours |-> hours, family |-> family,
            strength |-> strength]>>

\* The candidate made of it.  Its event_id is made of rule, bar and, for a
\* dense one, side.
Candidate(h, signal) ==
    [type |-> signal.type, side |-> signal.side, at |-> Latest(h).at,
     horizon |-> HorizonOf(h, Smaller(signal.hours, MaxHours),
                     IF signal.type = "dense_research_bar" THEN DenseSetup(h)
                     ELSE RuleSetup(signal.family), signal.strength)]

\* the lookback of a rule between its own bounds
Within(least, lookback, most) == Larger(least, Smaller(lookback, most))

\* Parts of the signal strengths, in ten-thousandths: the excess of a volume
\* ratio counts for a thousandth of it; a surge is measured by its threshold,
\* so that it is always at least the whole.
Excess(ratio)   == Larger(0, ratio - 1000) \div 100
WickOf(b)       == (10000 * LowerWick(b)) \div b.close
Whole           == 10000
OverHigh(h, S)  == Beyond(Latest(h).close, HighOf(h, S))
UnderLow(h, S)  == Beyond(LowOf(h, S), Latest(h).close)
OverMean(h, n)  == Beyond(Latest(h).close, Sma(h, n))
Trend(h, n, m)  == Beyond(Sma(h, n), Sma(h, m))
Settled(h)      == {i \in Recent(h, Lookback + W[3]) : i <= Len(h) - W[3]}

AggressiveRules(h) ==
    LET short == Within(W[8], Lookback, W[16])
        rule(fires, type, strength) == Signal(fires, type, "BUY", 12, "", strength)
    IN rule(intraday_volatility_breakout(h, short), "intraday_volatility_breakout",
            OverHigh(h, Prior(h, short)) + Excess(VolumeRatio(h, W[12])))
       \o rule(liquidity_sweep_reclaim(h), "liquidity_sweep_reclaim",
               -UnderLow(h, Prior(h, Lookback)) + WickOf(Latest(h)))

LongRules(h, mode) ==
    LET prior == Prior(h, Lookback)
        rule(fires, type, hours, strength) ==
            Signal(fires, type, "BUY", hours, "", strength)
    IN rule(information_momentum(h), "information_momentum", 24, Whole)
       \o rule(trend_pullback_reclaim(h), "trend_pullback_reclaim", MaxHours,
               OverMean(h, W[21]) + Trend(h, W[72], W[168]))
       \o rule(trend_continuation(h), "trend_continuation", MaxHours,
               OverHigh(h, prior))
       \o rule(volatility_breakout(h), "volatility_breakout", MaxHours,
               OverHigh(h, LastOf(prior, W[8])))
       \o rule(volatility_breakout_retest(h), "volatility_breakout_retest", 48,
               OverHigh(h, LastOf(Settled(h), W[8])))
       \o rule(capitulation_mean_reversion(h), "capitulation_mean_reversion", 48,
               Abs(Beyond(Previous(h).close, h[Len(h) - Lookback + 1].close)))
       \o (IF mode = "aggressive_rules" THEN AggressiveRules(h) ELSE <<>>)

ShortRules(h) ==
    LET rule(fires, type, hours, strength) ==
            Signal(fires, type, "SELL", hours, "", strength)
    IN rule(short_information_momentum(h), "short_information_momentum", 24, Whole)
       \o rule(short_trend_rejection(h), "short_trend_rejection", 48,
               -OverMean(h, W[21]) + Larger(0, -OverMean(h, W[72])))
       \o rule(short_volatility_breakdown(h), "short_volatility_breakdown", 48,
               UnderLow(h, LastOf(Prior(h, Lookback), W[8])))

ActiveLong(h) ==
    LET breakout == Within(W[8], Lookback, W[32])
        squeeze == Within(W[16], 2 * Lookback, W[48])
        reversal == Within(W[12], Lookback, W[32])
        reversion == Within(W[24], 2 * Lookback, W[64])
        last == LastOf(Prior(h, squeeze), W[8])
        range == Recent(h, reversion)
        rule(fires, type, hours, family, strength) ==
            Signal(fires, type, "BUY", Smaller(12, hours), family, strength)
    IN rule(active_breakout_continuation(h, breakout),
            "active_breakout_continuation", 4, "breakout",
            OverHigh(h, Prior(h, breakout))
                + Excess(VolumeRatio(h, Smaller(breakout, W[24]))))
       \o rule(active_pullback_reclaim(h),
               "active_pullback_reclaim", 4, "pullback_reclaim",
               OverMean(h, W[8]) + Larger(0, Trend(h, W[24], W[96])))
       \o rule(active_squeeze_breakout(h, squeeze),
               "active_squeeze_breakout", 6, "breakout",
               OverHigh(h, last) + (10000 * (HighOf(h, last) - LowOf(h, last)))
                                        \div Latest(h).close)
       \o rule(active_liquidity_reversal(h, reversal),
               "active_liquidity_reversal", 3, "liquidation_reversal",
               -UnderLow(h, Prior(h, reversal)) + WickOf(Latest(h)))
       \o rule(active_range_mean_reversion(h, reversion),
               "active_range_mean_reversion", 3, "mean_reversion",
               5000 - (10000 * (Latest(h).close - LowOf(h, range)))
                         \div (HighOf(h, range) - LowOf(h, range))
                    + WickOf(Latest(h)))

ActiveShort(h) ==
    LET n == Within(W[8], Lookback, W[32]) IN
    Signal(active_short_breakdown(h, n), "active_short_breakdown", "SELL",
           4, "breakout",
           UnderLow(h, Prior(h, n)) + Excess(VolumeRatio(h, Smaller(n, W[24]))))

Dense(h, side) ==
    Signal(Len(h) >= 2, "dense_research_bar", side, MaxHours, "",
           Abs(Return(h, Len(h))))

CandidatesFor(h, signals) == [k \in DOMAIN signals |-> Candidate(h, signals[k])]

\* candidates_for_history: in the order the rules are tried.
CandidatesOf(h, mode) ==
    LET long == CASE mode = "dense_research" -> Dense(h, "BUY")
                  [] mode = "active_research" -> ActiveLong(h)
                  [] OTHER -> LongRules(h, mode)
        short == CASE mode = "dense_research" -> Dense(h, "SELL")
                   [] mode = "active_research" -> ActiveShort(h)
                   [] OTHER -> ShortRules(h)
        signals == (IF SideMode = "short" THEN <<>> ELSE long)
                       \o (IF SideMode = "long" THEN <<>> ELSE short)
    IN IF Len(h) < MinHistory THEN <<>>
       ELSE CandidatesFor(h, signals)

-----------------------------------------------------------------------------
(* Candidates of a series of bars                                          *)

\* Plausible bug: no room for the percentile of the volatility.
WindowSizeOfRules == Larger(MinHistory, Lookback + W[120])

\* candidates_for_index: the rules see a window of the bars before, meant to
\* be as long as the longest of them needs.
WindowSize == Larger(Rolling, Larger(MinHistory, Lookback + W[240]))
WindowAt(bars, i) == SubSeq(bars, Larger(1, i + 1 - WindowSize), i)

CandidatesAt(bars, i, mode) ==
    IF i < MinHistory THEN <<>> ELSE CandidatesOf(WindowAt(bars, i), mode)

\* generate_candidate_events: every stride-th bar from the first that has
\* enough history.  Ids name the bar, and bars have times of their own here,
\* so no event comes twice.
FirstIndex == Larger(MinHistory, 1)
OnStride(i) == i >= FirstIndex /\ (i - FirstIndex) % Stride = 0
EventsOf(bars, mode) ==
    UNION {ToSet(CandidatesAt(bars, i, mode)) : i \in {j \in DOMAIN bars : OnStride(j)}}
=============================================================================
