-------------------------- MODULE CandidateBacktest --------------------------
(***************************************************************************)
(* backtest/simple.py, run_candidate_backtest: the rules' candidates are   *)
(* traded one at a time on archive bars.  From the bar of a candidate the  *)
(* loop sizes a trade, enters it at the open of the next bar, lets the     *)
(* triple-barrier scan find its exit among the bars up to the vertical     *)
(* barrier, books the result at once and goes on after the exit bar.       *)
(*                                                                         *)
(* The market is part of the model: bars appear one after the other, with  *)
(* or without a hole between them, until the archive ends.  Only the bars  *)
(* the loop can still look at are kept (ahead); whether a bar is a         *)
(* candidate is up to the rules, which are left open.                      *)
(*                                                                         *)
(* Prices are points; a point is one percent of a position, so a notional  *)
(* in dollars makes results and equity cents.                              *)
(***************************************************************************)
EXTENDS TripleBarrier

CONSTANTS
    Prices,        \* the prices the market can show
    BarLength,      \* length of a bar
    Holes,         \* bound: how long the archive may lack bars
    TicksPerBar,   \* bound: prices that make up a bar after its open
    LastStart,     \* bound: when the last bar of the archive may begin
    StartEquity,   \* starting_equity, in cents
    RiskPct,       \* risk.risk_per_trade, in percent
    Requested,     \* notional
    PaperMax,      \* risk.paper_max_notional
    MinNotional,   \* risk.minimum_fee_efficient_notional
    Day,           \* length of a day
    DaysPerWeek,
    DailyStop,     \* starting_equity * risk.daily_loss_stop, 0 for none
    WeeklyStop,    \* starting_equity * risk.weekly_loss_stop, 0 for none
    DrawdownPct,   \* risk.rolling_drawdown_stop in percent, 0 for none
    LossLimit,     \* risk.consecutive_loss_limit, 0 for none
    Cooldown       \* risk.cooldown_hours_after_stopouts

ASSUME CandidateBacktestAssumption ==
    /\ Prices \subseteq Nat \ {0}
    /\ {BarLength, StartEquity, RiskPct, Requested, PaperMax, Day, DaysPerWeek}
          \subseteq Nat \ {0}
    /\ Holes \subseteq Nat
    /\ {TicksPerBar, LastStart, MinNotional, DailyStop, WeeklyStop,
        DrawdownPct, LossLimit, Cooldown} \subseteq Nat

VARIABLES
    pc,             \* "scan" (at a bar), "next" (past it) or "done"
    now,            \* stamp of the bar the loop is at
    ahead,          \* the bars after it that exist so far
    complete,       \* the archive ends with them
    equity, peak,   \* equity and max_equity
    trades,         \* trades, with the results of realized_pnls
    losses,         \* consecutive_losses
    cooldownUntil   \* cooldown_until, 0 for None

book == <<equity, peak, trades, losses, cooldownUntil>>
backtestVars == <<pc, now, ahead, complete, book>>

-----------------------------------------------------------------------------
LeastOf(a, b) == IF a <= b THEN a ELSE b
MostOf(a, b)  == IF a >= b THEN a ELSE b

Bar == [start : Nat, at : Nat, path : Seq(Prices)]

Trade == [event : Nat, entered : Nat, exit : Nat,
          kind : {"profit", "stop", "vertical"}, pnl : Int]

Vertical == now + Horizon

LastStamp == IF ahead = <<>> THEN now ELSE ahead[Len(ahead)].at

\* bisect_right: how many of the bars lie up to the vertical barrier
HorizonEnd == Cardinality({i \in DOMAIN ahead : ahead[i].at <= Vertical})

\* bars[idx + 1 : horizon_end]
Future == SubSeq(ahead, 1, HorizonEnd)

\* The bars the loop may ask about are there: those up to the vertical
\* barrier, and the two it wants after the current one.
Known == complete \/ (LastStamp >= Vertical /\ Len(ahead) >= 2)

BacktestInit ==
    /\ pc = "scan"
    /\ now = 0
    /\ ahead = <<>>
    /\ complete = FALSE
    /\ equity = StartEquity
    /\ peak = StartEquity
    /\ trades = <<>>
    /\ losses = 0
    /\ cooldownUntil = 0

-----------------------------------------------------------------------------
(* The archive *)

\* The archive has a next bar, possibly after a hole; it opens where the last one
\* closed, or anywhere after a hole, and then trades at a few more prices.
NewBar ==
    /\ ~complete
    /\ (pc = "scan" /\ ~Known) \/ (pc = "next" /\ ahead = <<>>)
    /\ \E hole \in Holes,
          path \in [1..(TicksPerBar + 1) -> Prices] :
             /\ LastStamp + hole <= LastStart
             /\ ahead # <<>> /\ hole = 0 => path[1] = Close(ahead[Len(ahead)])
             /\ ahead' = Append(ahead, [start |-> LastStamp + hole,
                                        at |-> LastStamp + hole + BarLength,
                                        path |-> path])
    /\ UNCHANGED <<pc, now, complete, book>>

ArchiveEnds ==
    /\ ~complete
    /\ (pc = "scan" /\ ~Known) \/ (pc = "next" /\ ahead = <<>>)
    /\ complete' = TRUE
    /\ UNCHANGED <<pc, now, ahead, book>>

-----------------------------------------------------------------------------
(* The loop *)

\* while idx < len(bars) - 2
Finish ==
    /\ complete
    /\ \/ pc = "scan" /\ Len(ahead) < 2
       \/ pc = "next" /\ ahead = <<>>
    /\ pc' = "done"
    /\ UNCHANGED <<now, ahead, complete, book>>

Advance ==
    /\ pc = "next"
    /\ ahead # <<>>
    /\ now' = ahead[1].at
    /\ ahead' = Tail(ahead)
    /\ pc' = "scan"
    /\ UNCHANGED <<complete, book>>

AtBar == pc = "scan" /\ Known /\ Len(ahead) >= 2

\* The bar is no candidate, or the spread is too wide.
NoCandidate ==
    /\ AtBar
    /\ pc' = "next"
    /\ UNCHANGED <<now, ahead, complete, book>>

Cooling == cooldownUntil > 0 /\ now < cooldownUntil

\* _period_pnl
SamePeriod(s, t, length) == s \div length = t \div length

PeriodPnl(t, length, results) ==
    SumFunctionOnSet([k \in DOMAIN results |-> results[k].pnl],
                     {k \in DOMAIN results : SamePeriod(results[k].exit, t, length)})

\* Plausible bug: only trades entered in the period count.
PeriodStoppedByEntry ==
    LET kept(length) == SelectSeq(trades, LAMBDA t : SamePeriod(t.event, now, length))
    IN \/ DailyStop > 0 /\ PeriodPnl(now, Day, kept(Day)) <= -DailyStop
       \/ /\ WeeklyStop > 0
          /\ PeriodPnl(now, Day * DaysPerWeek, kept(Day * DaysPerWeek)) <= -WeeklyStop

PeriodStopped ==
    \/ DailyStop > 0 /\ PeriodPnl(now, Day, trades) <= -DailyStop
    \/ WeeklyStop > 0 /\ PeriodPnl(now, Day * DaysPerWeek, trades) <= -WeeklyStop

DrawdownStopped == DrawdownPct > 0 /\ (peak - equity) * 100 >= DrawdownPct * peak

\* _estimate_trade_notional
Notional ==
    IF equity <= 0 THEN 0
    ELSE LeastOf(LeastOf((equity * RiskPct) \div (100 * Stop), equity \div 100),
                 LeastOf(Requested, PaperMax))

\* A candidate is turned down: cooldown, a period stop, no money, no bars up to
\* its vertical barrier.
Reject ==
    /\ AtBar
    /\ \/ Cooling
       \/ PeriodStopped
       \/ ~DrawdownStopped /\ (Notional < MinNotional \/ Future = <<>>)
    /\ pc' = "next"
    /\ UNCHANGED <<now, ahead, complete, book>>

\* rolling_drawdown_stop ends the backtest.
StopForDrawdown ==
    /\ AtBar
    /\ ~Cooling /\ ~PeriodStopped
    /\ DrawdownStopped
    /\ pc' = "done"
    /\ UNCHANGED <<now, ahead, complete, book>>

\* The label of a candidate at the current bar.  The entry price is the open
\* of the next bar, but no entry time is passed: the scan then takes the stamp
\* of that bar, which is its close.
CandidateLabel == Label("BUY", Open(ahead[1]), Future[1].at, Future)

\* consecutive_losses and the cooldown it starts.
CountLoss(exit, pnl) ==
    LET run == IF pnl < 0 THEN losses + 1 ELSE 0
        stop == LossLimit > 0 /\ run >= LossLimit
    IN /\ losses' = IF stop THEN 0 ELSE run
       /\ cooldownUntil' = IF stop THEN exit + Cooldown ELSE cooldownUntil

\* exit_idx is the bar stamped with the exit; the loop goes on after it.
GoPast(exit) ==
    /\ pc' = "next"
    /\ \E k \in DOMAIN ahead :
          /\ ahead[k].at = exit
          /\ now' = ahead[k].at
          /\ ahead' = SubSeq(ahead, k + 1, Len(ahead))

\* A candidate becomes a trade, booked at once.
Book ==
    /\ AtBar
    /\ ~Cooling /\ ~PeriodStopped /\ ~DrawdownStopped
    /\ Notional >= MinNotional
    /\ Future # <<>>
    /\ LET label == CandidateLabel
           pnl == Notional * (label.gain - Cost)
       IN /\ equity' = equity + pnl
          /\ peak' = MostOf(peak, equity + pnl)
          /\ trades' = Append(trades,
                [event |-> now, entered |-> ahead[1].start, exit |-> label.at,
                 kind |-> label.kind, pnl |-> pnl])
          /\ CountLoss(label.at, pnl)
          /\ GoPast(label.at)
    /\ UNCHANGED complete

Finished == pc = "done" /\ UNCHANGED backtestVars

BacktestNext ==
    \/ NewBar \/ ArchiveEnds
    \/ Finish \/ Advance
    \/ NoCandidate \/ Reject \/ StopForDrawdown \/ Book
    \/ Finished

BacktestSpec == BacktestInit /\ [][BacktestNext]_backtestVars

-----------------------------------------------------------------------------
(* The loop's promises *)

\* Results before the k-th trade.
Before(k) == SubSeq(trades, 1, k - 1)

EquityBefore(k) ==
    StartEquity + SumFunctionOnSet([j \in DOMAIN trades |-> trades[j].pnl], 1..(k - 1))

PeakBefore(k) == Max({EquityBefore(j) : j \in 1..k})

\* The run of losses that ends with the k-th trade.
LossRun(k) == k - Max({0} \cup {j \in 1..k : trades[j].pnl >= 0})

\* Whenever losses in a row reach the limit, or a multiple of it, nothing is
\* entered for the length of the cooldown, which starts when the last of them
\* ended.
CooldownKept ==
    LossLimit > 0 =>
    \A j, k \in DOMAIN trades :
        j < k /\ LossRun(j) > 0 /\ LossRun(j) % LossLimit = 0
          => trades[k].event >= trades[j].exit + Cooldown

\* No trade is entered in a day or a week whose results have reached the stop,
\* after a drawdown that has, or in a cooldown; the results are those of all
\* trades that had ended, also the ones entered in an earlier day.
StopsRespected ==
    /\ CooldownKept
    /\ \A k \in DOMAIN trades :
        /\ DailyStop > 0 => PeriodPnl(trades[k].event, Day, Before(k)) > -DailyStop
        /\ WeeklyStop > 0 =>
              PeriodPnl(trades[k].event, Day * DaysPerWeek, Before(k)) > -WeeklyStop
        /\ DrawdownPct > 0 =>
              (PeakBefore(k) - EquityBefore(k)) * 100 < DrawdownPct * PeakBefore(k)

-----------------------------------------------------------------------------
(* Labels, fills and exits against the prices that made the bars *)

Judged == pc = "scan" /\ Known /\ Future # <<>>

\* The label models/dataset.py gives an event at the current bar: entered at
\* the open of the first future bar, at the time that bar begins.
SampleEntryAt == MostOf(Future[1].start, now)
SampleLabel(side) == Label(side, Open(Future[1]), SampleEntryAt, Future)

\* Ticks in the order they happened.
Earlier(s, t) == s[1] < t[1] \/ (s[1] = t[1] /\ s[2] < t[2])
Ticks(bars, from) ==
    {t \in (1..Len(bars)) \X (1..(TicksPerBar + 1)) : bars[t[1]].start >= from}
Price(bars, t) == bars[t[1]].path[t[2]]

ProfitAt(side, entry, p) == Gain(side, entry, p) >= Target + Cost
StopAt(side, entry, p)   == Gain(side, entry, p) <= Cost - Stop

\* Among the ticks of the bars from a time on, the target is reached, and
\* before the stop.
TargetFirst(side, entry, bars, from) ==
    \E t \in Ticks(bars, from) :
        /\ ProfitAt(side, entry, Price(bars, t))
        /\ \A s \in Ticks(bars, from) :
              StopAt(side, entry, Price(bars, s)) => Earlier(t, s)

\* A positive label is earned: in the bars the scan looks at, the price did
\* reach the target before the stop, also when one bar touched both.  This
\* holds for the labels of the dataset and of this loop, long and short.
PositiveLabelEarned ==
    Judged /\ Conservative =>
    /\ \A side \in Side :
          Positive(SampleLabel(side)) =>
             TargetFirst(side, Open(Future[1]), Future, SampleEntryAt + MinHold)
    /\ Positive(CandidateLabel) =>
          TargetFirst("BUY", Open(ahead[1]), Future, Future[1].at + MinHold)

\* With market entries the replay of an event that the model approved ends as
\* its label says: same exit bar, same barrier, same gain.  The model is
\* trained on the trades that the replay will make.
ReplayMatchesLabel ==
    Judged =>
    \A side \in Side :
        LET fill == MarketFill(ahead, SampleEntryAt, Open(Future[1])) IN
        Replay(side, fill, ahead, Vertical) = {SampleLabel(side)}

\* A limit order is stamped as filled at the start of the bar that trades
\* through it.  Still no barrier ends the trade that was touched before the
\* limit was.
LimitExitAfterFill ==
    Judged =>
    \A side \in Side :
    \A fill \in LimitFills(side, ahead, SampleEntryAt, Open(Future[1])) :
    \A exit \in Replay(side, fill, ahead, Vertical) :
        exit.kind # "vertical" =>
        \E s, t \in Ticks(ahead, SampleEntryAt + Latency) :
            /\ Earlier(s, t)
            /\ Gain(side, Price(ahead, s), fill.price) >= TradeThrough
            /\ exit.kind = "profit" => ProfitAt(side, fill.price, Price(ahead, t))
            /\ exit.kind = "stop" => StopAt(side, fill.price, Price(ahead, t))

=============================================================================
