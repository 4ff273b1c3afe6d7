# ZeroAlpha in TLA+

ZeroAlpha is a research and trading program for spot crypto on Interactive
Brokers: it records bars, labels candidate events, trains models walk-forward,
replays their out-of-sample predictions as a backtest, and can let a trained
artifact trade a small account by itself. These modules specify the parts of it
in which the order of events matters, TLC checks them on small instances, and
TLAPS proves the most important properties for every value of the constants.

Source paths below are relative to the repository; `zeroalpha/` stands for
`src/zeroalpha/`.

## 1. The system

### Components, their state, their operations

| Component | State it keeps | Operations | Modelled by |
|---|---|---|---|
| **Trade run** (`cli._broker_trade_run_async`) | `open_entries`, `entry_exposed`, `traded_event_ids`, `last_position_quantity`, counters | poll loop: quote, exits, account refresh, score, buy; flatten; emergency cleanup | `TradeRun`, `EntryBook` |
| **IBKR adapter** (`broker/ibkr.py`) | connection, pacing guard, order-id links | order validation, placing, positions, history | `TradeRun` (as the runner meets it), `LiveHistory` |
| **Pacing guard** (`broker/pacing.py`) | one deque of request times | `check` | `PacingGuard`, `LiveHistory` |
| **Streaming bars** (`broker/streaming.py`, `cli.py`) | intervals being built, rows processed, history | quote, tick, complete, warm up, trim | `TickBars`, `LiveHistory` |
| **Round trip** (`cli._broker_round_trip_test_async`) | entry price, quantity bought, exposure | buy, monitor the stop, sell, cleanup | `RoundTrip` (not the order test and the paper test) |
| **Candidates** (`candidates/rules.py`, `candidates/events.py`) | none | the rules, the dense events, horizons, window and stride | `CandidateRules` |
| **Dataset builder** (`models/dataset.py`) | none | training samples, scoring samples | `Dataset` |
| **Triple-barrier labels** (`labels/triple_barrier.py`) | none | `label_event` for both sides | `TripleBarrier` |
| **Purged walk-forward** (`validation/purged.py`) and the split of the hyperparameter search (`models/ensemble.py`) | position of the window | folds, purge, embargo, inner purge | `PurgedFolds` |
| **Ensemble** (`models/ensemble.py`) | per fold: models and a policy; open positions from fold to fold | fit, choose thresholds and floors, score, select | `ThresholdSelection`, `FoldScoring`, `SignalSelection` |
| **Artifact** (`models/artifact.py`) | the policy and the models of production | make it from the folds, score a live sample | `ModelServing` |
| **Out-of-sample backtest** (`backtest/ml.py`) | equity, peak, pending and settled trades, loss run, cooldown | settle, judge, size, enter | `MLBacktest`; fill and exit search in `TripleBarrier` |
| **Fills** (`backtest/fills.py`) | none | `simulate_limit_fill` | `TripleBarrier` |
| **Candidate backtest** (`backtest/simple.py`) | index of the bar, equity, peak, results, loss run, cooldown | the loop over bars | `CandidateBacktest` |
| **Experiment runners** (`models/ibkr_experiments.py`, `models/colab_research.py`) | artifacts, logs and summaries on disk; the rows of the call | reuse or run a command, parse, summarise | `Experiments` |
| Risk engine, decision gate, bot state (`risk/`, `execution/`) | bot state, counters | evaluate, transition | not modelled: no command uses them |
| Data downloads, storage, monitoring, schema, configuration | files, tables | HTTP paging, append | not modelled, section 8 |

### How they interact

- The trade run is one coroutine. Everything it learns of the exchange it learns
  by waiting a bounded time (`_wait_for_trade_done`) or by a query that may time
  out (`positions`). Between two awaits it is alone; at every await the
  exchange, the clock and the operator (kill-switch file) may act.
- Every historical-data request passes the pacing guard before it is sent.
- Every bar passes the candidate rules; the dataset builder cuts a sample for each
  candidate from the series and asks `label_event` for its label. The ensemble
  trains on folds of `walk_forward_folds`, learns a policy on the calibration part
  of each, and marks which predictions of the test part are to be traded, passing
  the positions still open on to the next fold. The predictions go to
  `run_ml_backtest`, which searches fill and exit of every accepted prediction again
  on the bars. The candidate backtest uses the same label function without a model.
- A production artifact is a model fitted on all samples with the medians of the
  policies of the folds. A trade run rebuilds candidates and samples from live bars and
  asks the artifact; it shares the rules and the artifact with research, but builds
  its samples by another function from other bars.
- An experiment runner starts one command after the other, each a process of its
  own that writes its artifact; what connects them is the files they leave.
- Backtests are sequential programs over data that holds the future: what is
  hard is *when* a result may be used, not concurrency.

### What is hard here, and what must hold

- **Orders that outlive their wait.** A wait that times out does not cancel its
  order. What then must still hold of slots, capital, and the account?
- **Answers that do not come.** An unanswered position query looks like a flat
  account.
- **Failure in the middle.** An exception at any await, with an order at the
  exchange, leads into a cleanup whose own steps may fail.
- **Lookahead.** Datasets are cut from series that go on; replays know exits and
  results before their time; labels reach into later folds; several events share
  one time.
- **Two paths to one thing.** Candidates, samples and decisions are made once in
  research and once live, by different code from different bars. Where they differ,
  what was validated is not what is traded.
- **Bars lose the order of prices.** One bar touches both barriers; a fill
  inside a bar is stamped with its start; archives have holes.
- **Counters with windows.** Stops and budgets sum over windows of which part
  has been forgotten, or over days that trades cross.

- **Files that outlive their writer.** Artifacts are reused by later invocations,
  after failures, interruptions, and beside commands whose runner is gone.

`PROJECT.json` lists these as `hazards`, each at its line with the properties
that watch it.

## 2. Modules and how they correspond to the code

```
EntryBook <--refines-- TradeRun       <--extends-- TradeRun_proofs
Clock <--extends-- TickBars, PacingGuard <-- LiveHistory <-- LiveHistory_proofs
CandidateRules  <--extends--  Dataset  <-- MCDataset, Research_proofs
PurgedFolds, ThresholdSelection <--extends-- FoldScoring <-- ModelServing
ModelServing            <--extends--  MCModelServing, ModelServing_proofs
SignalSelection         <--extends--  MCSignalSelection, SignalSelection_proofs
MLBacktest              <--extends--  MCMLBacktest, MLBacktest_proofs
TripleBarrier           <--extends--  CandidateBacktest  <-- Research_proofs
RoundTrip               <--extends--  RoundTrip_proofs
Experiments             <--extends--  MCExperiments, Research_proofs
NumberLemmas            <--extends--  the proof modules that count or add up
```

### EntryBook and TradeRun

`EntryBook` is what a run promises, with broker and polling left out: an entry per
signal at most once, at most `MaxOpen` at a time, none after the decision to
stop, and no death with a non-empty book that skips the cleanup.

`TradeRun` is the runner. `pc` names the await (or the block between two awaits)
it is at. Its variables are the locals of `_broker_trade_run_async`; `world` is
what it does not control.

| Action | Code in `zeroalpha/cli.py` |
|---|---|
| `Refuse`, `Startup` | contract checks, connection, history, baseline snapshot |
| `LoopTop`, `Pause` | deadline, kill switch, sleep |
| `ReadQuote`, `SubmitExit`, `ExitRefused`, `ExitReturns`, `ExitsScanned` | the quote and the exit scan |
| `RefreshAccount`, `SkipRefresh` | account refresh and maximum-loss guard |
| `StopAtDecision`, `NoEntry`, `SubmitEntry`, `EntryReturns` | scoring, gates, the buy, tracking its fill |
| `FinalPosition`, `SubmitFlatten`, `FlattenReturns`, `Report` | flatten on exit and the report |
| `Fault`, `CleanupCancel`, `CleanupQuery`, `CleanupLiquidate`, `CleanupReturns`, `CleanupReport`, `CleanupFails` | the exception path and `_emergency_cleanup` |
| `Execute`, `Complete`, `LateExecution`, `LateEnd` | the exchange |
| `Expire`, `KillFileAppears`, `Age` | clock and operator |

Money is integer dollars and BTC integer units, a price is dollars per unit;
`cash \div price` is what a cash order buys. Time is kept as the outcome of the
comparisons the code makes (deadline passed; an entry is `young`, `held` or
`due`). `unmanaged` and `closing` are history: they record what the last
refresh showed and how the end went, and no action reads them.

### PacingGuard, TickBars and LiveHistory

`PacingGuard` is `HistoricalPacingGuard.check`: the deque is the part of `log` from
`head` on. What was dropped stays in `log` for the properties, which are about
everything ever sent and not about what the guard still remembers. A `BID_ASK`
request is recorded twice, as in the code.

`TickBars` is the stream of a trade run. It starts from a loaded history. One poll
of the runner is `Observe` (a quote and the rows of the tick stream beyond the
offset, each filed under the interval of its own time stamp) and `Complete`
(`completed_bars`, the merge and the trim of the history). Before the first
signal, `WarmupOver` and `WarmupFails` are the two ends of the warm-up loop. A tick
bears its own time and arrives up to `MaxDelay` later (`TickArrives`). Two things are
taken from the way the code uses the library and not from the library, which is
not in the repository: ticks arrive in the order of their times, and the list
`tickByTicks` only grows (if the library emptied it between two updates, the offset
the code keeps would skip rows). `done`, `late` and `quotes` are history.

`LiveHistory` extends both, and so puts them on one `Clock`: history requests of any caller
(`AnyRequest`), and a trade run that sends its first request on a fresh guard
(`StartupRequest`) and then either streams (`StreamStep`) or, in the mode
`historical_poll`, sends the same request at every poll (`Poll`), which the guard
may refuse; a refusal ends the run (`PollRefused`).

### MLBacktest

`run_ml_backtest`, one action per step of its loop: `NextPrediction`, `Settle`
(one due trade of `settle_trades_through`, earliest exit first), `Settled`, then
`Reject`, `StopForLoss`, `StopForDrawdown` or `Enter`, and at the end the drain of
what is pending. Sizing (`CapNotional`, `Sized`, `SpotAvailable`, `Filled`) is
translated with integer dollars and percent returns, so that equity is in
cents and no rounding is lost. `Reject` joins every refusal that changes nothing;
the conditions that stop the replay or let a trade in are exact.

### TripleBarrier and CandidateBacktest

`TripleBarrier` holds pure operators: the scan of the bars for the first barrier
(`FirstExit`, `Label`), the fills (`MarketFill`, `LimitFills`) and the replayed exit
(`Replay`). A bar keeps the *path* of prices it was made of; the code sees only
its open, close and extremes, and the properties compare what it concludes
with what happened on the path. Barriers are fixed distances where the code has
fixed fractions; gains are measured in the direction of the trade, which is how
long and short become mirror images, and why the code's two branches are one
operator here.

`CandidateBacktest` is the loop of `run_candidate_backtest` over an archive that
appears bar by bar, with holes. `ahead` holds the bars the loop can still look
at; `NewBar` and `ArchiveEnds` are the environment; `Finish`, `Advance`,
`NoCandidate`, `Reject`, `StopForDrawdown` and `Book` are the loop.

### CandidateRules and Dataset

`CandidateRules` holds the rules of `candidates/rules.py`, one operator per rule
under the name of the function, and what `candidates/events.py` does with them
(`CandidatesOf`, `CandidatesAt`, `EventsOf`, `AdaptiveHorizon`). Everything is a function of
a history of bars. `W` shortens all windows of the code together and keeps their order, so
that eight bars can fill the longest. Prices are ticks, and never zero; ratios are compared in
thousandths or ten-thousandths. Trade counts are missing, as on the bars of some
sources, so volume stands for both. Strengths and other numbers a candidate carries
only for the features are left out.

`Dataset` is the behaviour around it. Bars come one by one (`Arrive`), and with them
observations of five families (`Observe`): quotes of spot and future, context bars of
both, prediction markets. `BuildMetaLabelSamples` builds the dataset of what is there;
`BuildScoringSamples` scores the bars a trade run kept. A feature is represented by
*what it was computed from*: the bars and observations that each as-of join of
`models/dataset.py` reads, by their times. That is all a lookahead property needs, and
it is exact where the value of the feature would be a float. Label, horizon,
geometry and path targets are computed from the prices.

### PurgedFolds, ThresholdSelection, FoldScoring and ModelServing

`walk_forward_folds`: `NextEvent` builds the time-ordered events (several may share
a time), `NextFold` is one pass of the `while`, purging included, and slides the
window whether or not a fold came out. `Tune` is
`_purged_hpo_inner_training_indices` for the training events of any fold and any
start of the validation part.

`ThresholdSelection` holds what `_score_fold` computes from its calibration samples,
as operators over sets of samples: the sweep over thresholds, the selection by
objective, the rows by candidate type with their fallback to the family, payoff
estimates by type and side, downside estimates by setup family, side and regime, the score
and its direction, the selection for a target frequency with its floor, and the gates. Probabilities are levels, gains tenths of a basis point.

`FoldScoring` scores the folds one by one (`ScoreFold`). What the models say of a sample
is an open choice (a `Kind` is what a sample is, a `Saying` what the models say of it); the
policy is computed from it and decides which test samples are traded. `Study` chooses the configuration and what the samples turned out to be.

`ModelServing` makes the artifact of the folds (`FitArtifact`: medians of thresholds and
floors, the sign most folds have, a veto if any fold had one) and lets a trade run ask it
of one sample (`Serve`: the live contract, `score_production_artifact`). Scoring keeps no
state, so one sample shows what any would.

### Experiments

Two runners over one directory: `models/ibkr_experiments.py` (`kind` is "ibkr") and the
notebook's `models/colab_research.py` ("colab"). `Start` is an invocation with any part of
the suite, with `--force` or without; `ReuseIbkr` and `ReuseColab` read an artifact that is
there; `LaunchIbkr` and `LaunchColab` start a command. A command is a process of
its own: it is refused by the strict gate, fails, or writes (`CommandRefused`, `CommandFails`,
`CommandWrites`, `CommandEnds`), and a write that does not finish leaves the file `Torn`. A
file of that name may be there before the first command and hold something else
(`Foreign`); it is read as "non_result". The runner then records a row (`CollectIbkr`, `CollectColab`, `TimedOut`) and at the end writes
its summary (`WriteSummary`, `WriteReport`). `Interrupted` ends a runner at any point, with its
command or without it; a command left behind goes on and may write while a later one does.
`launched` is history.

### RoundTrip

The controlled round trip of `cli.py`, one action per await or block between two:
`SubmitBuy`, `BuyReturns`; `Monitor` (one poll of the synthetic stop);
`ReadExitQuote`, `SubmitSell` or `SellRefused`, `SellReturns`; `Report`. `Fault` is
an exception or an interruption at any await; `CleanupCancel`, `CleanupQuery`,
`CleanupLiquidate`, `CleanupReturns`, `CleanupReport` and `CleanupFails` are the
same emergency cleanup as in `TradeRun`. The command sends at most three orders,
so each is kept under its own name, and unlike in `TradeRun` every one of them
goes on living, and filling, after the run has stopped waiting for it
(`Execute`, `OrderEnds`). The stop is a distance where the code has basis points.
`raced` and `closing` are history.

### SignalSelection

`_select_target_frequency_events` of `models/ensemble.py`, called once per test fold
by `run_meta_label_walk_forward`. `NextSample` builds the samples in time order and
`StartFold` cuts a fold off after any of them, so a day may fall into two folds.
`NextDay` is the head of the loop over days with its fractional quota; `Select` and
`PassOver` are one pass of the loop over candidates each, guards in the order of
the code; `DayOver`, `FoldOver` and `NoMoreFolds` are the ends of the three loops. A
sample keeps what the selection asks of it (times, score, group, side, size); the
thresholds and floors it has to pass are the field `gates`. `taken` stands for both
`selected` and `notional_by_event`, over all folds; the counters per day, group and
time are counted from it. Rates are in units of `1/Parts`, so that the fractions add
up exactly.

## 3. The runs

"Distinct states" are TLC's, with the bounds of the cfg.

| Run | Bounds that matter | States | What it shows |
|---|---|---|---|
| `trade_run` | 2 signals, 2 slots, prices 1–2, capital 2, 1 late order, fair | 1.4 M | capital, exposure flag, unmanaged BTC, book against account, refinement of `EntryBook`, due exits sent, an end |
| `live_history` | 3 keys, one of weight 2; windows 1/2/4, budget 5; intervals of 2, 2 rows up to 5 late, history of 2, warm-up of 2 bars in 6; clock to 7 | 2.1 M | budget, spacing, justified refusals, for every caller and in a trade run; what a bar contains, what replaces it |
| `round_trip` | cash 6, prices 1–3, order cap 7, 1 BTC in the account before, fair | 0.14 M | what is sold, what a failed run leaves, cover of every sell, and that the run ends |
| `dataset` | 8 bars of 7 shapes, 3 modes, windows of 2, 3 and 5 bars; 2 observations | 0.09 M | no lookahead, one dataset agrees with the next and with what is scored live, windows long enough, newest candidates served |
| `serving` | 14 events, folds of 3 + 7 + 2, 6 settings, two folds scored, 2 live regimes, 2 levels of probability | 1.0 M | no leak in folds and inner splits; policies earned where chosen; live decisions follow the folds |
| `signal_selection` | 4 samples in folds of any size, online and quota mode, half a signal and one and a half a day, 2 slots, cash 4, sizes 2 and 3, days of 2 | 4.0 M | slots and cash of what is selected; cause for what is not |
| `ml_backtest` | 4 predictions, both sides, 2 slots, buckets of 200 and 600, days of 1, weeks of 2, all stops, cooldown 2; two small losses reach the absolute stop, two large ones the drawdown stop | 1.7 M | no lookahead, cooldown, cash behind buys, losses past each of the stops |
| `candidate_backtest` | archive to time 16, holes 0/2/6, 3 prices, 2 ticks a bar, days of 6, weeks of 2 days | 1.2 M | stops and cooldown; labels, fills and exits against the paths |
| `experiments` | 2 experiments, 1 strict, 1 file left from elsewhere or none, 3 commands, 3 kinds of replay data | 9.2 M | what a summary promotes, passes off as new, and forgets |

**Why these bounds are enough.** Two signals and two slots give a full book, a
partial exit of one entry while the other is due, and a second buy after a late
fill of the first; a third entry only repeats these. One late order is enough
for each of the late-fill effects, since they do not interact. Prices 1 and 2
with distances of 1 trigger both barriers, and make one entry worth more than
its cap. The pacing clock outruns the total window, so requests are forgotten
while the budget is full, and a polling run meets its own first request. The ticks
are late by more than two intervals, so they meet open, completed and trimmed bars, the
loaded ones included. The round trip buys 2 to 6 BTC, so that the cap of 7 refuses some
sells and cuts some liquidations, and holds one BTC of its own that a wrong sell would
take. The windows of the code become two, three and five bars in their order, so that eight
bars fill the longest and leave some out; a live run that keeps seven of the eight has
lost the first. Quote and market observations come before, at and between bars, which is what
decides an as-of join. Every one of the 18 rules
fires on some of these bars. Seven calibration events leave a slice of three, in which
groups can be fair or thin. With two folds a median is either
value or between both, and a veto of one is not a veto of all; that a median with more
folds takes the middle is not distinguished. Events out of the usual pace (two of
them) are explored for the folds and the purge; the folds that are scored come from events
of one pace, since the policy asks only how long the slice spans. Four predictions on two
slots make two overlapping trades due at once, with a decision between and after them; two losses of
the small size reach the absolute stop before the drawdown stop, and two of the large size
decided after them would overshoot its bound if it did not hold; every order fills in full there, and partial fills are left to the theorems. Six bars
with holes contain a trade that crosses a day, one that crosses a hole, a bar that
touches both barriers, and a vertical exit. Four samples with two slots leave one over,
can fall on one to four days and into one to four folds, and half a signal a day needs
two days to add up to one; the caps per time and per group are off there, and the strict
mode, which differs from the quota mode in its gates alone, is left out. Three commands are a
first run, a forced re-run of it and one of the other experiment, in any order, with
up to two of them at once when a runner was interrupted. Every bound on behaviour is a
CONSTANT marked "bound" or named in the cfg.

**Passing properties, by what could go wrong.**

- `CapitalRespected`, `ExposureFlagged`, `NoBuyOverUnmanaged`, `BookFollowsAccount`:
  partial fills and exits, retries and late orders cannot push tracked cash over the
  capital, leave an entry without its cleanup flag, hide BTC the runner does not track
  from the next buy, or separate book and account other than by an order that outlived
  its wait. `ImplementsEntryBook` is the refinement; `DueExitSent` and `Terminates` are its
  liveness.
- `WithinBudget`, `SameKeyApart`, `RefusedForCause`: forgetting requests never
  loosens or tightens the budget, whoever sends them.
- `BarsAsSeen`, `OnlyLateTicksReplace`: a bar is what was seen of its interval, each row
  once, and nothing of the interval still running; a bar, loaded or streamed, is replaced
  only by one made of late ticks alone.
- `SoldAsBought`, `SellsCovered`, `CleanFailure`, `Ends`: whatever part of which order
  fills when, only the cleanup touches BTC that was there before; a success has
  sold all that was seen bought; a sell asks for no more than the account holds,
  unless the first one was still working when the cleanup asked; a failure
  leaves BTC behind only for one of the causes named; the run ends.
- `NoLookahead`: no join of a sample reads past its signal, or, for quotes and markets,
  past its time less the latency, and the label lies wholly after it. `PointInTime`: a dataset
  built later says the same of every event, its label too unless that still stood open.
- `ServedAsTrained`, `WindowSuffices`, `NewestServed`: a live sample of an event is the one the
  model was trained on, as far as the run kept the bars for it (the same barriers need also as
  many bars as the volatility is taken of: the configuration does not tie
  `volatility_lookback_bars`, 240 by default, to the `rolling_window_bars` of the rules, 500,
  and with a longer lookback a run that keeps only what the rules see computes another
  volatility; the proof showed that this case had to be told apart); the window the rules see
  is long enough for all of them, when `rolling_window_bars` reaches as far back as the longest
  measure (265 bars for the percentile of the volatility, 301 for the movement that scales
  horizons): the default of 500 (`cli.py:5756`) and the 1000 of a trade run (`cli.py:6165`) do, and nothing else sees
  to it (`candidates/events.py:556`); no live candidate of the bars that are looked at, which
  are those on the stride, is passed over for an older one.
- `NoLeak`, `PurgedForCause`: labels learnt from were known before what they are tested
  on began, also in the inner split; nothing is purged without need.
- `PolicyEarned`, `TradedGroupsEarned`: a threshold and a floor found one after the other make
  money, together, on what they were chosen on; a fold trades no group of candidates that had
  a fair chance before and lost, whatever level the rows fell back to.
- `LiveFollowsFolds`: what a live run approves no fold had given up, and half of the
  folds asked for no more.
- `SlotsReserved`, `CashReserved`, `LeftOutForCause`: online, the positions
  in the market never need more slots or cash than there are, also across days and
  folds and however entries lag their signals; a candidate is passed over only if, judged
  from all that was selected, quota, slots, cash or spacing left no room for it.
- `BookOfTheMoment`, `CooldownKept`, `SpotPaidFor`, `LossesBounded`: a prediction is
  judged on exactly what has ended; a stop is overshot by at most one full loss per slot,
  also for trades that cross days.
- `StopsRespected` (the cooldown is part of it): the loop books results
  when it finds them, before their time; this is sound because no candidate is
  judged before the last trade has ended.
- `PositiveLabelEarned`, `ReplayMatchesLabel`, `LimitExitAfterFill`:
  among the bars it looks at, a positive label means the target came first; with market
  entries the replay finds the trade the label describes; a limit fill is not ended by
  prices from before it, although it is stamped with the start of its bar.
- `PromotionEarned`, `FreshUnlessTold`, `TrialsKept`: a row that may be promoted was computed
  by a command of that experiment from tick-backed one-second data; a result a runner reports
  without an error, of a command it started itself, was finished after that start; a
  trial that was counted stays counted.

**Deadlock** is checked in every run but three, where the program or its bounds end without
a step of their own: `live_history` (the bounded clock stops), `dataset` with its
violation run (the bars are used up) and `serving` (a live decision is the end).

**Violations.** Each shows one statement of the repository that the code does not
keep.

| Run | Statement | What happens |
|---|---|---|
| `trade_run_leftover` | README.md:326 "flattens runner-opened positions on exit" | an unanswered query or a short flatten ends in success with BTC left |
| `trade_run_overbuy` | README.md:316 capped by available capital | a late entry fill is not counted and the money is spent again |
| `live_feature_contract` | README.md:401 "Train a trade-run compatible model artifact" | two columns every training sample has are missing from every live sample, and the default gate approves no signal that misses one |

## 4. Fairness

`FairSpec` of `TradeRun` assumes weak fairness of `RunnerStep`, since the event loop
keeps scheduling the one coroutine and every wait in it has a timeout, and of
`Complete`, since an IOC order is finished by the exchange; the latter matters only
where the bound on late orders leaves a wait no other way out. Nothing is assumed
of the clock, the operator or the amount that fills: `DueExitSent` holds for a run
whose deadline never comes, and `Terminates` starts from a deadline that has
passed or a kill switch that is there. `FairSpec` of `RoundTrip` assumes weak
fairness of `RunStep`, since every wait of the run has a timeout, and of
`HoldElapses`, since the holding time passes; the exchange owes it nothing, because
its `Ends` does not depend on any fill. The other modules are sequential programs
over finite input, or (`LiveHistory`, `Experiments`) promise nothing that has to happen: a
runner may be interrupted and a command need not end. They are checked for safety only.

## 5. Proofs

Every theorem holds for all values of the constants that satisfy the
`ASSUME` of its module; those assumptions say that quantities are naturals,
sizes are positive, and what the configuration validation enforces. TLC
evaluates each of them on the constants of the runs.

- **`NumberLemmas`**: least and greatest elements, division, and sums of a function over a
  finite set. The library's induction theorems cannot be used (they take an operator), so
  each induction is the choice of a smallest counterexample, which the well-foundedness of
  `<` on the naturals gives: that the recursion behind `SumFunctionOnSet` has a solution and
  only one, and hence that a sum may be taken apart at any element, that sums of functions
  that agree are equal, also on ranges shifted against each other, and that a sum grows with
  its set.
- **`TradeRun_proofs`**: `TypeCorrect`, `SlotsSafe`, `ExposureSafe`, `CapitalSafe`,
  `UnmanagedSafe`, `BookTrue`, `Refinement`. The inductive invariant adds to the types what
  the awaits leave implicit: which `pc` holds an order of which side, that the order's event
  is not yet traded, that tracked events are distinct members of `traded`, that an exit's
  entry is tracked. `MoneyInv` adds that the money in the book is at most the capital and
  that, at the decision, `unmanaged` is what the account held beyond the book. `BookTrue` is
  about single steps and needs of the invariant only how the sum over the book changes when an
  entry is tracked, shrinks or goes. `Refinement` maps each action to an `EntryBook` step or a
  stutter; the slot bound at the moment of tracking comes from `SlotsRespected`, which counts
  the buy under way.
- **`LiveHistory_proofs`**: of the guard, with any caller, `BudgetKept`, `KeysApart`,
  `NoIdleRefusal`, `BurstNeverDecides`. The invariant is that the log is ordered in time and
  that whatever was dropped is older than the window; from it the deque and the
  window agree, and forgetting is harmless. `BurstNeverDecides`: with windows ordered
  as the defaults are, the burst rule cannot fire, because whatever would trigger it
  is refused as a duplicate first. `GuardInside` (`LiveSpec => Spec`) says that a trade run
  does nothing with the guard that these theorems do not cover.
  Of the stream, `BarsTrue` and `LateTicksOnly`: `StreamInv` follows a row from the tick
  stream into the open bar of its interval and from there into the history. `WorkingInv`:
  an open bar is made of exactly the rows seen of its interval since the interval was last completed,
  and `DoneAreOver`: what was completed had ended; so a bar that comes a second time is
  made of late rows alone, and `HistoryShows` lets the newest one stand.
- **`MLBacktest_proofs`**: `TypeCorrect`, `NoLookahead`, `BookedInOrder`,
  `LossesPastStops`, `CooldownIsKept`, `SpotIsPaidFor`. `NoLookahead` needs that ids in
  `pending` and `settled` are distinct and that both lists together are as long as the number
  of entered trades. `LossesPastStops` uses `StopsCoverRisk`: the loss that is booked and the
  worst the open trades can still add stay, together, below the stop plus one
  full loss per slot. Entering adds one such loss, but only where the booked
  loss is below the stop and a slot is free; settling only moves loss from the
  one to the other. `CooldownIsKept` uses `CooldownInv`: the counter of losses in a row is
  the length of the run of losses the book ends with, the end of the last cooldown is
  remembered, and neither what is booked nor what is open was entered inside one.
  `SpotIsPaidFor` relates the cash to the sum of the open buys.
- **`ModelServing_proofs`**: of the folds, `TypeCorrect`, `NothingFromTheFuture`,
  `TestsDisjoint`, `NoNeedlessPurge`. `PurgedEnded` is the heart: an event before the
  protected part that survives purging began no later than the part does, so it does not
  overlap it only if its label was known before; this needs the time order of the events and
  labels that end no earlier than they begin, and holds for events that share a
  time. `TestsDisjoint` needs `Progress`: everything tested lies before the test
  part of the window. `FoldsInside` (`ServingSpec => Spec`) carries these to the
  composition.
  Of the policies, `PoliciesEarned`, `GroupsEarned`, `LiveFollows`. The invariant `SInv` says
  what scoring leaves behind: reports made of samples that were seen (`Sampled`, `Reported`),
  each of which earned what it asks for when it was written (`Earning`, lemma `NewReport`), an
  artifact that is the one of these reports (`Fitted`), and a verdict that follows them
  (`Following`). `MedianHalf` is what the last one turns on: at least half of the values lie
  at or below the median that `Median` computes, for any number of folds; the run has two.
- **`RoundTrip_proofs`**: `TypeCorrect`, `SellsWhatItBought`, `FailsClean`,
  `SellsAreCovered`. The invariant is an account balance (what was held before, plus
  the fills of the buy, less those of the two sells), which order exists at which
  `pc`, and `CleanupKnows`: an upper bound on the position for each stage of the
  cleanup, up to what the buy fills after its wait. The bound passes from the
  answer of the query to what the liquidation has yet to sell, and from there to
  the end; a fill of the first sell only lowers the position, which is why only
  `raced` can break the cover of the second.
- **`SignalSelection_proofs`**: `SlotsAreReserved`, `CashIsReserved`, `LeftOutJustified`. The
  first rests on `NeverBack`: the online loop judges in the order of entry times, so what it
  has selected is entered no later than what it has yet to judge, and what it no longer counts
  as open is over by then; whatever overlaps the next position is therefore still counted. It
  needs `EntriesFollow` (a later signal is not entered earlier, and signals of one time are
  entered at one time). This is false when candidates are judged by score. `CashIsReserved`
  adds the `Ledger`: what is committed to the buys open at any time is at most the cash.
  `LeftOutJustified` needs `QuotaInv`: at each day the fraction saved up is what the days
  judged so far have earned, less what they could use, so the quota the loop has is the quota
  the property computes from all that was selected.
- **`Research_proofs`**, of three programs.
  *Experiments*: `InvHolds`, `PromotionEarnedHolds`, `FreshUnlessToldHolds`,
  `BackedHolds`, `TrialsKeptHolds`: all its run checks. `FilesTrue` ties a complete artifact to the
  command that wrote it, and `RowTrue` carries that to the rows and the summary, which only
  grow older while commands are added. `AwaitedWritten` is what freshness needs: once the
  awaited command has succeeded, the file of its experiment is torn or younger than the
  launch, whoever writes it after. `TrialsKeptHolds` rests on `FilesLast`, that no step takes
  away what a command has written, and on the suite being finite.
  *CandidateBacktest*: `LabelsAreEarned`, `ReplayIsTheLabel`, `ExitsFollowFills`,
  `StopsAreRespected`: all its run checks. `ArchiveInv` says that the bars ahead follow one
  another without overlap and begin no earlier than now; with it a bisected window of bars is
  the stretch between two times (`InitialPart`, `UpToHorizon`, `WindowAhead`), the first bar
  that touches a barrier is the first time a price did, and the replay starts its search on
  the same bar as the label. `BookInv` relates the running equity, peak and count of losses to
  the list of trades they are made from: the drawdown is measured from the highest equity after
  any earlier trade, the counter is the length of the last run of losses up to the limit, and
  every cooldown that was due is remembered. Stops then follow because a trade is entered
  no earlier than the one before ended.
  *Dataset*: `NothingAhead`. `DataInv` says that bars are in the order of time, that their
  prices are above zero, and that observations are finitely many. The rest is about operators:
  every rule of every mode gives its candidate a number of hours (`RulesTimed`), and the horizon
  made of it is a number whatever volatility and ranges it is scaled by (`HorizonNat`, which
  needs that the variance of integers is never negative and that every rank among finitely
  many ranges is taken); the future of an event lies between it and its vertical barrier
  (`FutureFacts`); each as-of join returns what is there and not later (`QuoteFacts`,
  `ContextFacts`, `BasisFacts`, `MarketFacts`).
  `SaysTheSame` (`PointInTime`). `TrainedInv` says of what the dataset there is was built: of a
  beginning `p` of the bars (`GoesOn`) and of observations that those known now agree with up
  to the last bar of `p` (`Agree`); observations come in the order of their times and never
  before the newest bar, so `Agree` stays (`AgreeAfter`). Then the operators again: an event of
  `p` is at one bar only, the window and history behind it are the same in the longer series,
  each as-of join up to the event returns the same (`SameReads` and its parts), and the first
  barrier touched in a longer future is the same, or the first one stood open (`LabelGoesOn`).
  `ServesTheSame` (`ServedAsTrained`). `ServedInv` says that a scoring is of one stretch of
  the bars. A sample of either kind tells of one bar (`TellsOf`), from the bars behind it as
  far back as the stretch goes (`TrainedTells`, `ScoredTells`; the second needs that an element
  of a concatenation is an element of one of its parts, `FlattenedIn`); times rise, so two
  samples of one event tell of the same bar, and `TellTheSame` compares the two stretches
  behind it. That the variance over the last bars is the same in both is a sum taken over
  shifted indices (`SumShifted`).
  `RulesSeeEnough` (`WindowSuffices`). A window is the end of a longer history (`Ending`,
  `EndsAlike`); what a rule measures over its last bars, a mean, a high, a low, a variance, a
  count of ranks, is the same in both as long as both hold those bars; so is each rule, its
  setup and its horizon, and so the list of candidates. It assumes `WindowHolds`, a window no
  shorter than the longest measure: the configuration is not checked for it, so it stands in
  the theorem and not among the assumptions of `CandidateRules`.
  `NewestIsServed` (`NewestServed`). In a concatenation an element of a later list comes after
  every element that only earlier ones have (`FlattenOrder`), and what comes after an element
  of the end of a list is in the end too (`EndKeeps`); times rise, so a newer bar has fewer
  looked at after it, and neither limit cuts it off. A newer candidate has a bar before it, so
  the check for two bars of history keeps it.

The inductive invariants were checked with TLC before they were proved. The types of
`TradeRun`, `MLBacktest`, `PurgedFolds` and `RoundTrip` are theorems, so no run repeats them.
`BookedInOrder` (the equity curve is booked in the order of exits) and `TestsDisjoint` (no
event is tested twice) are proved and no run repeats them.

**Only model-checked.** Liveness and everything with ENABLED is out of the prover's
reach: `DueExitSent`, `Terminates`, `Ends`. All other properties of the passing runs are
theorems.

## 6. Observations without a run

Met while translating; each follows from one line, so a run would add nothing.

- The flatten at the end of a trade run sells the BTC the account holds, the
  operator's own included, where README.md:326 speaks of runner-opened positions
  (`SubmitFlatten`).
- An exit that outlives its wait is retried with the quantity of the entry's fill while
  the first one may still sell: `broker/ibkr.py:719` asks for a verified position, and
  the runner passes that quantity as the position (`cli.py:3962`, `SubmitExit`).
- The runner buys on a quote of any age; the freshness check lives in the risk
  engine, which is not on this path.
- The notional cap of entries is applied to exits too: `ConfigError` ends the run
  when an entry has gained so much that its exit exceeds the cap (`ExitRefused`).
- Rounding a futures notional goes up to one contract when the cap is below it
  (`Filled`).
- The pacing guard calls requests identical that share contract and data type but
  not their contents (`Duplicate`).
- The embargo of `walk_forward_folds` never removes an event: training lies before
  calibration and test, so there is nothing after the protected interval to
  remove (`PurgedForCause`).
- Samples of the dataset skip the whole entry bar: the minimum holding time is
  at least a positive number of seconds and bars are judged by their start
  (`SampleLabel`). `CandidateBacktest` skips one bar more: `run_candidate_backtest` passes no
  entry time (`backtest/simple.py:324`), so a stop in the entry bar or the next does not
  count, where README.md:97 calls a label positive only if the target comes first.
- Exits are booked at the barrier price also when the bar that touches it opened
  beyond it (`Exit`).
- An exception between sending an entry and seeing its fill leaves
  `entry_exposed` unset, so the cleanup is skipped (`Fault` at `entryWait`). The same
  holds of the round trip (`Fault` at `buyWait`), and a buy that fills only after
  the wait for it leaves the command without a sell (`BuyReturns`).
- In strict and quota mode candidates are judged by score: the slot filter then drops
  positions that are still open at the time of a later-judged, earlier-entered one
  (`StillOpen`), so `SlotsReserved` and `CashReserved` are stated for the online mode,
  the one `--respect-open-positions` is described for (`cli.py:4912`).
- Signal spacing and the caps per group and time are counted within a day of a fold:
  two signals around midnight, or around the end of a fold, may be closer than
  `--min-signal-spacing-hours`; a day cut in two by a fold boundary has its quota twice,
  and the fractions saved up are lost at the boundary (`StartFold`).
- An interval completed again for a late tick counts as another warm-up bar,
  where cli.py:6144 speaks of completed bars (`Complete`).

On live bars and requests:

- In the mode `historical_poll` the loop asks for the same key again at its first poll,
  usually within 15 seconds of the request at start-up; the guard raises and the run ends
  (`PollRefused`, `cli.py:3922`). BID_ASK polls exactly 15 seconds apart would use up the
  60 units of ten minutes.
- The context bars of a trade run are read once, when it starts (`Scored`). It starts with
  1,800 seconds of history, while features of the training set look back up to 10,080
  bars (`ServedAsTrained` says what follows once enough bars are there).
- Trimming the history moves the phase of the stride: with `dense_stride_bars` above 1 a
  live run looks at other bars than the dataset did (`OnStride`).

On samples:

- `docs/spot-crypto-strategy.md:40` has cross-asset features use the latency buffer; the
  code joins context bars at the time of the event (`ContextReads`), quotes and markets with
  the buffer.
- `_label_path_targets` counts one bar after the exit, and the entry price of a label is the
  open of the first bar that ends after the event, which may have begun before it
  (`PathTargets`, `Future`).
- A label whose horizon was not covered by bars is kept, as a vertical exit at the last bar
  (`PointInTime` excepts it).
- With `feature_asof = "entry"` training uses the delay between event and entry, live
  scoring the bar interval (`Scored`).
- The rules' own window, lookback plus 240 bars, would be shorter than the 265 and 301 bars
  two of them read; `rolling_window_bars` with its default of 500 covers it (`WindowSize`).
- The adaptive horizon is rounded up to its granularity after it was capped, so it may pass the cap.

On thresholds, folds and artifacts:

- A BUY group of unknown regime has the key of its family: when it is thin, its row stands
  where a losing family's veto would, and its calibrated row serves other regimes and SELL
  (`GroupKey`, the exception in `TradedGroupsEarned`).
- A veto for want of samples is kept by `_threshold_lookup` of a fold but not by the
  artifact, whose rows all have the source `artifact_fold_median` (`ArtifactTypes`).
- Folds that must have a calibrated type accept only rows of that source; the artifact
  rejects only when there is no row (`Approves`).
- In the mode `return_first` a live signal needs no probability unless its type has a
  floor, where README.md:31 says that all gates must pass (`Approves`).
- Folds in quota mode ignore the probability threshold, the artifact made from them uses
  the configured minimum; folds may be allowed negative expected values, the artifact never is.
- Payoff groups too thin to be known in a fold are known in the artifact, with zero
  averages (`ArtifactPayoffs`).
- When no threshold earns anything the fold trades with the configured minimum
  probability instead of not at all (`Policy`); a threshold is chosen without the
  expected-value gate that it is later combined with (`CalibratedThreshold`).
- The thirds of the artifact's own split are not purged (`Held`), and the median of the
  floors mixes folds whose score had opposite signs (`ArtifactFloor`).
- An artifact's manifest is written after the file, and loading hashes one read of the file
  and unpickles another (not modelled).

On experiments:

- A forced re-run does not delete the artifact of before. If it fails, the old one is
  parsed with status "ok" and stays eligible; only the error beside it tells, and the
  summary of the next invocation without that experiment drops the error (`CollectIbkr`,
  `ExistingResults`; `FreshUnlessTold` is about rows of the call).
- A torn artifact is taken for an existing one and never repaired without `--force`
  (`ReuseIbkr`). A command that was killed or failed in the notebook's runner may leave an
  artifact that its next call reuses (`TimedOut`, `ReuseColab`).
- An experiment without the strict flag can be eligible for promotion with any number of
  days and folds, where README.md:441 asks for "sufficient multi-day coverage"
  (`PromotionEarned` demands them of strict ones only).
- A runner that is killed leaves its command running; a second command of the same
  experiment then writes the same file (`CommandWrites`, "overlapped").

## 7. Plan

Order: the code that moves money first, then the code whose numbers decide
whether money is moved. All modules of the plan are there:

1. `EntryBook`, `TradeRun`, proofs.
2. `PacingGuard`, `TickBars`, `LiveHistory`, proofs.
3. `MLBacktest`, proofs; `TripleBarrier`, `CandidateBacktest`.
4. `PurgedFolds`, `SignalSelection`, `RoundTrip`, proofs.
5. `CandidateRules`, `Dataset`.
6. `ThresholdSelection`, `FoldScoring`, `ModelServing`, proofs.
7. `Experiments`, proofs.

What is left, by what it would add:

- The dynamic overlay of `backtest/ml.py`, and composition of `MLBacktest` with the search in
  `TripleBarrier`.
- The order test and the paper test, which send one order through the steps of `RoundTrip`;
  bracket submission of the adapter.
- Selection modes that blend ranks or weigh capital (`models/ensemble.py`), which need
  numbers finer than the levels used here.
- Paging of the downloads (Binance, prediction markets): no gap, no duplicate, an end.

## 8. Not modelled, and why

- **Numerical code**: features, models, calibration, costs in fractions. Floats are
  replaced by integers where control depends on them, and left out elsewhere.
- **Pure input and output**: HTTP downloads, storage, reports, logging, the quote
  recorder, table definitions, configuration parsing.
- **Parts of the IBKR adapter** the runner does not use: bracket submission, contract
  qualification, the chunks a long history is asked for in.
- **Risk engine, decision gate, bot state, order factories** (`risk/`, `execution/`): classes
  that no command calls, or that only build orders. The gates of the trade run are its own.
- **The definition of the experiment suite**, its rankings, the parameter sweep and the
  interpretability reports: data and reports.
- **The bytes of an artifact**: what is saved is what is loaded.
- **Time zones and wall-clock jumps**: clocks go forward in every module.
- **The exchange after the process has ended.**
