------------------------------ MODULE MLBacktest ------------------------------
(***************************************************************************)
(* backtest/ml.py, run_ml_backtest: the out-of-sample predictions of a     *)
(* walk-forward report are replayed in time order.  For each prediction    *)
(* the trades that have ended by then are settled, in the order of their   *)
(* exits, and only then is the prediction judged: by the gates on the      *)
(* model's output, by the free slots, by the cooldown after consecutive    *)
(* losses, by the daily, weekly, drawdown and absolute loss stops, and by  *)
(* the money left.  An accepted prediction becomes a pending trade whose   *)
(* exit and result are already known to the replay but must not be used    *)
(* before their time.                                                      *)
(*                                                                         *)
(* Notionals are dollars, returns are percent, so equity and results are   *)
(* in cents.  Where the bars put the fill and the exit of a trade is a     *)
(* nondeterministic choice; TripleBarrier has the search itself.           *)
(***************************************************************************)
EXTENDS Integers, Sequences, FiniteSets, FiniteSetsExt, SequencesExt

CONSTANTS
    StartEquity,     \* starting_equity, in cents
    RiskPct,         \* risk.risk_per_trade, in percent
    StopPct,         \* the sample's net_stop_loss, in percent
    Requested,       \* requested_notional
    PaperMax,        \* risk.paper_max_notional
    MinNotional,     \* risk.minimum_fee_efficient_notional
    SizingMode,      \* "fixed", "confidence" or "bucket"
    Scales,          \* percentages the confidence scale can take
    BaseNotional, MidNotional, HighNotional,
    Instrument,      \* contract.instrument_model
    Lot,             \* value of one futures contract
    Sides,           \* sides of the samples
    ShortsAllowed,   \* allow_research_short_backtest, production gate off
    FillPcts,        \* fill fractions, in percent
    Returns,         \* net returns of a trade, in percent
    WorstPct,        \* the worst of them, as a loss
    MaxOpen,         \* risk.max_open_positions
    DailyStop,       \* starting_equity * risk.daily_loss_stop, 0 for none
    WeeklyStop,      \* starting_equity * risk.weekly_loss_stop, 0 for none
    DrawdownPct,     \* risk.rolling_drawdown_stop in percent, 0 for none
    MaxLoss,         \* experiment_max_loss_usd in cents, 0 for none
    LossLimit,       \* risk.consecutive_loss_limit, 0 for none
    Cooldown,        \* risk.cooldown_hours_after_stopouts
    Day, DaysPerWeek,
    Horizon,         \* bound: time of the last prediction
    Hold,            \* bound: time from a prediction to its vertical barrier
    MaxPredictions   \* bound: predictions of the report

ASSUME MLBacktestAssumption ==
    /\ {StartEquity, RiskPct, StopPct, PaperMax, MinNotional, Lot, MaxOpen, Day,
        DaysPerWeek, Hold} \subseteq Nat \ {0}
    /\ {Requested, BaseNotional, MidNotional, HighNotional, DailyStop,
        WeeklyStop, DrawdownPct, MaxLoss, LossLimit, Cooldown, Horizon, MaxPredictions}
          \subseteq Nat
    /\ SizingMode \in {"fixed", "confidence", "bucket"}
    /\ Scales \subseteq 25..100
    /\ Instrument \in {"spot_crypto", "futures"}
    /\ Sides \subseteq {"BUY", "SELL"}
    /\ ShortsAllowed \in BOOLEAN
    /\ FillPcts \subseteq 1..100
    /\ WorstPct \in Nat
    /\ Returns \subseteq Int
    /\ \A r \in Returns : r >= -WorstPct

VARIABLES
    pc,             \* where the replay is
    now,            \* timestamp of the current prediction
    seen,           \* predictions taken from the report
    equity, peak,   \* equity and max_equity
    pending,        \* pending_trades, in the order they were entered
    settled,        \* trades (and realized_pnls), in the order they were booked
    losses,         \* consecutive_losses
    cooldownUntil,  \* cooldown_until, 0 for None
    entered         \* history: trades entered so far

vars == <<pc, now, seen, equity, peak, pending, settled, losses, cooldownUntil, entered>>

-----------------------------------------------------------------------------
LeastOf(a, b) == IF a <= b THEN a ELSE b
MostOf(a, b)  == IF a >= b THEN a ELSE b

Trade == [id : 1..MaxPredictions, at : 0..Horizon, exit : 0..(Horizon + Hold),
          side : Sides, notional : Nat, pnl : Int]

Week == Day * DaysPerWeek

SamePeriod(s, t, length) == s \div length = t \div length

Init ==
    /\ pc = "next"
    /\ now = 0
    /\ seen = 0
    /\ equity = StartEquity
    /\ peak = StartEquity
    /\ pending = <<>>
    /\ settled = <<>>
    /\ losses = 0
    /\ cooldownUntil = 0
    /\ entered = 0

book == <<equity, peak, pending, settled, losses, cooldownUntil, entered>>

\* The next prediction, in time order.
NextPrediction ==
    /\ pc = "next"
    /\ seen < MaxPredictions
    /\ \E t \in now..Horizon : now' = t
    /\ seen' = seen + 1
    /\ pc' = "settle"
    /\ UNCHANGED book

\* The report has no more predictions: everything left is settled.
NoMorePredictions ==
    /\ pc = "next"
    /\ pc' = "drain"
    /\ UNCHANGED <<now, seen, book>>

-----------------------------------------------------------------------------
(* settle_trades_through *)

\* Plausible bug: a trade that ends exactly at the prediction stays open.
DueStrictly(t) == pc = "drain" \/ t.exit < now

Due(t) == pc = "drain" \/ t.exit <= now

\* The due trade with the earliest exit; of two with the same, the older.
FirstDue(i) ==
    /\ Due(pending[i])
    /\ \A j \in DOMAIN pending : Due(pending[j]) =>
          \/ pending[i].exit < pending[j].exit
          \/ pending[i].exit = pending[j].exit /\ i <= j

\* Plausible bug: the limit has to be exceeded.
CountLossesPast(t) ==
    LET run == IF t.pnl < 0 THEN losses + 1 ELSE 0
        stop == LossLimit > 0 /\ run > LossLimit
    IN /\ losses' = IF stop THEN 0 ELSE run
       /\ cooldownUntil' = IF stop THEN t.exit + Cooldown ELSE cooldownUntil

\* consecutive_losses and the cooldown it starts.
CountLosses(t) ==
    LET run == IF t.pnl < 0 THEN losses + 1 ELSE 0
        stop == LossLimit > 0 /\ run >= LossLimit
    IN /\ losses' = IF stop THEN 0 ELSE run
       /\ cooldownUntil' = IF stop THEN t.exit + Cooldown ELSE cooldownUntil

Settle(i) ==
    /\ pc \in {"settle", "drain"}
    /\ FirstDue(i)
    /\ equity' = equity + pending[i].pnl
    /\ peak' = MostOf(peak, equity')
    /\ settled' = Append(settled, pending[i])
    /\ CountLosses(pending[i])
    /\ pending' = RemoveAt(pending, i)
    /\ UNCHANGED <<pc, now, seen, entered>>

Settled ==
    /\ pc = "settle"
    /\ \A i \in DOMAIN pending : ~Due(pending[i])
    /\ pc' = "decide"
    /\ UNCHANGED <<now, seen, book>>

Drained ==
    /\ pc = "drain"
    /\ pending = <<>>
    /\ pc' = "done"
    /\ UNCHANGED <<now, seen, book>>

-----------------------------------------------------------------------------
(* Judging a prediction *)

ExperimentStopped == MaxLoss > 0 /\ StartEquity - equity >= MaxLoss

\* _period_pnl: results booked in the period of the prediction.
PeriodPnl(length) ==
    MapThenSumSet(LAMBDA k : settled[k].pnl,
                  {k \in DOMAIN settled : SamePeriod(settled[k].exit, now, length)})

PeriodStopped ==
    \/ DailyStop > 0 /\ PeriodPnl(Day) <= -DailyStop
    \/ WeeklyStop > 0 /\ PeriodPnl(Week) <= -WeeklyStop

\* Plausible bug: the drawdown is measured from the starting equity.
DrawdownFromStart ==
    DrawdownPct > 0 /\ (StartEquity - equity) * 100 >= DrawdownPct * StartEquity

DrawdownStopped == DrawdownPct > 0 /\ (peak - equity) * 100 >= DrawdownPct * peak

SlotFree == Len(pending) < MaxOpen

Cooling == now < cooldownUntil

\* The prediction is refused (no sample, the model's own verdict, the
\* production gates, a spot short, spread, slots, cooldown, a period stop, no
\* money, no fill, no bars to exit on) and the replay goes on.
Reject ==
    /\ pc = "decide"
    /\ ~ExperimentStopped
    /\ pc' = "next"
    /\ UNCHANGED <<now, seen, book>>

\* experiment_max_loss_usd_stop: the replay ends here.
StopForLoss ==
    /\ pc = "decide"
    /\ ExperimentStopped
    /\ pc' = "drain"
    /\ UNCHANGED <<now, seen, book>>

\* rolling_drawdown_stop: so it does here, if nothing refused the prediction
\* before.
StopForDrawdown ==
    /\ pc = "decide"
    /\ ~ExperimentStopped
    /\ SlotFree /\ ~Cooling /\ ~PeriodStopped
    /\ DrawdownStopped
    /\ pc' = "drain"
    /\ UNCHANGED <<now, seen, book>>

-----------------------------------------------------------------------------
(* The size of a trade *)

BucketMode == SizingMode = "bucket"

\* _requested_notional_for_sizing_cap
CapRequested ==
    IF BucketMode
    THEN MostOf(Requested, MostOf(BaseNotional, MostOf(MidNotional, HighNotional)))
    ELSE Requested

\* _estimate_trade_notional
CapNotional ==
    LET riskBased == (equity * RiskPct) \div (100 * StopPct)
        capped == LeastOf(riskBased, LeastOf(CapRequested, PaperMax))
    IN IF equity <= 0 THEN 0
       ELSE IF Instrument = "futures" THEN capped
       ELSE LeastOf(capped, equity \div 100)

\* _apply_notional_sizing: what each mode can make of the cap.
Sized ==
    LET cap == CapNotional
        base == LeastOf(BaseNotional, cap)
        mid  == LeastOf(MostOf(MidNotional, base), cap)
        high == LeastOf(MostOf(HighNotional, mid), cap)
    IN CASE SizingMode = "fixed" -> {cap}
         [] SizingMode = "confidence" ->
              {IF cap >= MinNotional THEN MostOf(MinNotional, (cap * s) \div 100)
               ELSE (cap * s) \div 100 : s \in Scales}
         [] BucketMode -> {base, mid, high}

\* Plausible bug: open positions are not taken off the money available.
SpotAvailableIgnoresOpen == LeastOf(equity \div 100, PaperMax)

\* What the buys among some trades are worth.
BuysIn(trades) ==
    SumFunctionOnSet([i \in DOMAIN trades |-> trades[i].notional],
                     {i \in DOMAIN trades : trades[i].side = "BUY"})

\* What a spot buy can still spend.
SpotAvailable ==
    MostOf(LeastOf(equity \div 100, PaperMax) - BuysIn(pending), 0)

\* The notional a trade is ordered with, refused below the fee-efficient size.
\* (The range leaves out nothing else: CapNotional is at most PaperMax.)
OrderedNotionals(side) ==
    {n \in MinNotional..PaperMax : \E s \in Sized :
        n = IF Instrument = "spot_crypto" /\ side = "BUY"
            THEN LeastOf(s, SpotAvailable) ELSE s}

\* _round_futures_notional, and the filled part.
Filled(n, fillPct) ==
    IF Instrument = "futures"
    THEN (MostOf(1, n \div Lot) * Lot * fillPct) \div 100
    ELSE (n * fillPct) \div 100

\* The prediction becomes a pending trade.
Enter(side) ==
    /\ pc = "decide"
    /\ ~ExperimentStopped
    /\ Instrument = "spot_crypto" /\ side = "SELL" => ShortsAllowed
    /\ SlotFree /\ ~Cooling /\ ~PeriodStopped /\ ~DrawdownStopped
    /\ \E n \in OrderedNotionals(side), f \in FillPcts, r \in Returns,
          exit \in (now + 1)..(now + Hold) :
             pending' = Append(pending,
                [id |-> entered + 1, at |-> now, exit |-> exit, side |-> side,
                 notional |-> Filled(n, f), pnl |-> Filled(n, f) * r])
    /\ entered' = entered + 1
    /\ pc' = "next"
    /\ UNCHANGED <<now, seen, equity, peak, settled, losses, cooldownUntil>>

Finished == pc = "done" /\ UNCHANGED vars

Next ==
    \/ NextPrediction \/ NoMorePredictions
    \/ \E i \in DOMAIN pending : Settle(i)
    \/ Settled \/ Drained
    \/ Reject \/ StopForLoss \/ StopForDrawdown
    \/ \E side \in Sides : Enter(side)
    \/ Finished

Spec == Init /\ [][Next]_vars

-----------------------------------------------------------------------------
(* Properties *)

\* Every variable keeps its type.
TypeOK ==
    /\ pc \in {"next", "settle", "decide", "drain", "done"}
    /\ now \in 0..Horizon
    /\ seen \in 0..MaxPredictions
    /\ entered \in 0..seen
    /\ equity \in Int
    /\ peak \in Nat \ {0}
    /\ equity <= peak
    /\ pending \in Seq(Trade)
    /\ Len(pending) <= MaxOpen
    /\ settled \in Seq(Trade)
    /\ losses \in Nat
    /\ cooldownUntil \in 0..(Horizon + Hold + Cooldown)

\* When a prediction is judged the book is that moment's: every trade that has
\* ended is booked, every trade that has not is open, and none is both or
\* neither.  (settle_trades_through runs before the gates, and only through
\* the prediction's timestamp.)
BookOfTheMoment ==
    pc = "decide" =>
        /\ \A k \in DOMAIN settled : settled[k].exit <= now
        /\ \A i \in DOMAIN pending : pending[i].exit > now
        /\ {settled[k].id : k \in DOMAIN settled}
             \cap {pending[i].id : i \in DOMAIN pending} = {}
        /\ Len(settled) + Len(pending) = entered

\* Results reach the equity curve in the order the trades ended, even when
\* several overlapping trades are due at once; drawdown and loss runs depend
\* on it.
BookedInExitOrder ==
    \A j, k \in DOMAIN settled : j < k => settled[j].exit <= settled[k].exit

\* The most, in cents, that one trade can lose.
WorstLoss == PaperMax * WorstPct

\* The stops are judged on what is booked, so what is open can still be lost
\* after them: beyond a stop at most one full loss per slot, whatever the sizes,
\* the order of the exits and the trades already open when it is reached.
LossesBounded ==
    Instrument = "spot_crypto" =>
    /\ MaxLoss > 0 => StartEquity - equity < MaxLoss + MaxOpen * WorstLoss
    /\ DrawdownPct > 0 =>
          (peak - equity) * 100 < DrawdownPct * peak + 100 * MaxOpen * WorstLoss

\* The run of losses that ends with the k-th booked trade.
LossRun(k) ==
    k - Max({0} \cup {j \in 1..k : settled[j].pnl >= 0})

\* Whenever the losses in a row reach the limit, or a multiple of it, nothing
\* is entered for the length of the cooldown.  (The counter starts afresh
\* after each cooldown, and a trade open meanwhile may extend it.)
CooldownKept ==
    LossLimit > 0 =>
    \A k \in DOMAIN settled :
        LossRun(k) > 0 /\ LossRun(k) % LossLimit = 0 =>
        \A trades \in {settled, pending} : \A i \in DOMAIN trades :
            ~(/\ trades[i].at >= settled[k].exit
              /\ trades[i].at < settled[k].exit + Cooldown)

\* Spot longs are paid for: after every buy the open buys together fit into the
\* equity of that moment and into the notional cap, however each of them was
\* sized and filled and whatever was booked between them.
SpotPaidFor ==
    [][ Instrument = "spot_crypto" /\ Len(pending') > Len(pending)
          /\ pending'[Len(pending')].side = "BUY" =>
        BuysIn(pending') <= PaperMax /\ 100 * BuysIn(pending') <= equity ]_vars
===============================================================================
