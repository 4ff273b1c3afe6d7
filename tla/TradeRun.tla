------------------------------- MODULE TradeRun -------------------------------
(***************************************************************************)
(* The autonomous runner behind "broker trade-run"                         *)
(* (cli._broker_trade_run_async): a polling loop that quotes, works its    *)
(* synthetic exits, refreshes the account, scores signals, buys, and on    *)
(* the way out flattens the account; its exception path with the emergency *)
(* cleanup; and, around it, what it does not control: the order being      *)
(* worked at the exchange, orders that outlive the runner's wait for them, *)
(* the clock, and the kill-switch file.                                    *)
(*                                                                         *)
(* Money and BTC are integers: a price is a small number of dollars per    *)
(* unit of BTC, so that cash \div price is the quantity a cash order buys. *)
(* Time is kept as what the code compares it with: whether the run's       *)
(* deadline has passed, and for each entry whether its minimum holding     *)
(* time and its exit deadline have.                                        *)
(***************************************************************************)
EXTENDS Integers, FiniteSets, FiniteSetsExt

CONSTANTS
    Events,          \* candidate event ids a scoring pass can approve
    NoEvent,         \* the event of an order that has none
    MaxOpen,         \* risk.max_open_positions
    Capital,         \* --capital-usd
    OrderCap,        \* --max-order-notional-usd
    ConfigCap,       \* risk.paper_max_notional or live_max_notional
    MinNotional,     \* risk.minimum_fee_efficient_notional
    Buckets,         \* the notionals the artifact's sizing policy asks for
    Prices,          \* the bids the market can show
    StopDistance,    \* distance of the synthetic stop below the entry price
    ProfitDistance,  \* distance of the profit target above it, 0 for none
    FlattenOnExit,   \* --flatten-on-exit
    Foreign,         \* BTC the account holds that this run did not buy
    MaxLate          \* bound: orders of a run that may outlive their wait

ASSUME TradeRunAssumption ==
    /\ NoEvent \notin Events
    /\ MaxOpen \in Nat \ {0}
    /\ {Capital, OrderCap, ConfigCap, MinNotional} \subseteq Nat \ {0}
    \* cli._validate_trade_run_config
    /\ OrderCap <= Capital
    /\ OrderCap <= ConfigCap
    /\ Buckets \subseteq Nat \ {0}
    /\ Prices \subseteq Nat \ {0}
    /\ StopDistance \in Nat \ {0}
    /\ ProfitDistance \in Nat
    /\ FlattenOnExit \in BOOLEAN
    /\ Foreign \in Nat
    /\ MaxLate \in Nat

VARIABLES
    \* the runner
    pc,            \* the await (or block between awaits) the runner is at
    quote,         \* the bid of this iteration's quote, or NoQuote
    open,          \* open_entries: entry number -> entry
    entries,       \* the "entries" counter: entries ever opened
    todo,          \* entries the exit scan of this iteration has yet to visit
    exposed,       \* entry_exposed
    traded,        \* traded_event_ids
    lastPosition,  \* last_position_quantity
    finalQty,      \* what the last position query before a liquidation said
    cur,           \* the order the runner is waiting for, or NoOrder
    \* the world
    expired,       \* the run's deadline has passed
    kill,          \* the kill-switch file exists
    position,      \* BTC in the account
    working,       \* orders the runner stopped waiting for: slot -> order
    \* history
    unmanaged,     \* the last refresh answered with BTC the run does not track
    closing        \* how the end of the run went

runner == <<pc, quote, open, entries, todo, exposed, traded, lastPosition,
            finalQty, cur>>
world  == <<expired, kill, position, working>>
vars   == <<runner, world, unmanaged, closing>>

-----------------------------------------------------------------------------
(* Records and helpers *)

Entry == [event : Events, qty : Nat \ {0}, cash : Nat, price : Nat,
          phase : {"young", "held", "due"}]

Order == [side : {"BUY", "SELL"}, event : Events \cup {NoEvent}, id : Nat,
          cash : Nat, want : Nat, filled : Nat, done : BOOLEAN]

NoOrder == [side |-> "NONE"]

NoQuote == 0

Stray == [side : {"BUY", "SELL"}, left : Nat]

\* Slot 0 is for the order the runner was waiting for when it died.
Slots == 0..MaxLate

BuyOrder(e, cash, price) ==
    [side |-> "BUY", event |-> e, id |-> 0, cash |-> cash,
     want |-> cash \div price, filled |-> 0, done |-> FALSE]

SellOrder(id, qty) ==
    [side |-> "SELL", event |-> NoEvent, id |-> id, cash |-> 0,
     want |-> qty, filled |-> 0, done |-> FALSE]

Left(o) == o.want - o.filled

Without(f, x) == [y \in DOMAIN f \ {x} |-> f[y]]

LeastOf(a, b) == IF a <= b THEN a ELSE b
MostOf(a, b)  == IF a >= b THEN a ELSE b

\* sum of the tracked quantities, and of the cash put into them
TrackedQty  == SumFunction([i \in DOMAIN open |-> open[i].qty])
TrackedCash == SumFunction([i \in DOMAIN open |-> open[i].cash])

\* positions() that does not answer in time yields one row without a
\* position, and the sum over the rows is then 0.
PositionAnswers == {position, 0}

LoopPcs    == {"top", "quote", "exits", "exitWait", "refresh", "decide",
               "entryWait", "pause"}
ClosePcs   == {"final", "flatten", "flattenWait", "report"}
CleanupPcs == {"cleanup", "cleanupQuery", "cleanupSell", "cleanupWait",
               "cleanupReport"}
EndPcs     == {"refused", "done", "raised"}
WaitPcs    == {"exitWait", "entryWait", "flattenWait", "cleanupWait"}

-----------------------------------------------------------------------------
(* Order validation of the broker adapter *)

\* A market SELL passes _validate_order_intent_risk when it does not exceed
\* the position its caller states and its value stays within the cap.
SellAccepted(qty, current, bid) ==
    /\ qty <= current
    /\ qty * bid <= ConfigCap

\* A market BUY carries its cash as its notional.
BuyAccepted(cash) == cash <= ConfigCap

\* An exception leaves the try block: cleanup first if there is exposure.
\* The loop's locals go out of use.
Raise ==
    /\ pc' = IF exposed THEN "cleanup" ELSE "raised"
    /\ quote' = NoQuote
    /\ todo' = {}
    /\ lastPosition' = 0

-----------------------------------------------------------------------------
(* Starting *)

Init ==
    /\ pc = "startup"
    /\ quote = NoQuote
    /\ open = [i \in {} |-> NoOrder]
    /\ entries = 0
    /\ todo = {}
    /\ exposed = FALSE
    /\ traded = {}
    /\ lastPosition = 0
    /\ finalQty = 0
    /\ cur = NoOrder
    /\ expired = FALSE
    /\ kill = FALSE
    /\ position = Foreign
    /\ working = [s \in {} |-> NoOrder]
    /\ unmanaged = FALSE
    /\ closing = "none"

\* The artifact was not trained for market entries, or misses live-contract
\* metadata: return 2 before connecting.
Refuse ==
    /\ pc = "startup"
    /\ pc' = "refused"
    /\ UNCHANGED <<quote, open, entries, todo, exposed, traded, lastPosition,
                   finalQty, cur, world, unmanaged, closing>>

\* Connect, qualify, load and verify history, take the baseline snapshot.
Startup ==
    /\ pc = "startup"
    /\ pc' = "top"
    /\ \E answer \in PositionAnswers : lastPosition' = answer
    /\ UNCHANGED <<quote, open, entries, todo, exposed, traded, finalQty, cur,
                   world, unmanaged, closing>>

-----------------------------------------------------------------------------
(* The loop *)

\* A plausible bug: the kill switch is looked for only before an order.
LoopTopIgnoresKill ==
    /\ pc = "top"
    /\ pc' = IF expired THEN "final" ELSE "quote"
    /\ UNCHANGED <<quote, open, entries, todo, exposed, traded, lastPosition,
                   finalQty, cur, world, unmanaged, closing>>

\* Head of the loop: the deadline, then the kill switch.
LoopTop ==
    /\ pc = "top"
    /\ pc' = IF expired \/ kill THEN "final" ELSE "quote"
    /\ UNCHANGED <<quote, open, entries, todo, exposed, traded, lastPosition,
                   finalQty, cur, world, unmanaged, closing>>

\* The quote of the iteration; the exit scan follows if anything is open.
ReadQuote ==
    /\ pc = "quote"
    /\ \E p \in Prices : quote' = p
    /\ todo' = DOMAIN open
    /\ pc' = IF DOMAIN open = {} THEN "refresh" ELSE "exits"
    /\ UNCHANGED <<open, entries, exposed, traded, lastPosition, finalQty, cur,
                   world, unmanaged, closing>>

\* A plausible bug: the timed exit is missing.
ExitTriggeredByBarrier(i) ==
    LET e == open[i] IN
    /\ e.phase # "young"
    /\ \/ quote <= e.price - StopDistance
       \/ ProfitDistance > 0 /\ quote >= e.price + ProfitDistance

\* An entry leaves by its stop or target once its minimum holding time has
\* passed, and in any case at its exit deadline (never before that minimum).
ExitTriggered(i) ==
    LET e == open[i] IN
    \/ /\ e.phase # "young"
       /\ \/ quote <= e.price - StopDistance
          \/ ProfitDistance > 0 /\ quote >= e.price + ProfitDistance
    \/ e.phase = "due"

\* The next entry of the scan that has a reason to exit; those before it in
\* the list are kept.
NextExit(i) ==
    /\ i \in todo
    /\ ExitTriggered(i)
    /\ \A j \in todo : ExitTriggered(j) => i <= j

\* _submit_market_exit for one entry: the quantity is the tracked one, and so
\* is the "current position" handed to the order validation.
SubmitExit(i) ==
    /\ pc = "exits"
    /\ NextExit(i)
    /\ SellAccepted(open[i].qty, open[i].qty, quote)
    /\ cur' = SellOrder(i, open[i].qty)
    /\ todo' = {j \in todo : j > i}
    /\ pc' = "exitWait"
    /\ UNCHANGED <<quote, open, entries, exposed, traded, lastPosition,
                   finalQty, world, unmanaged, closing>>

\* place_order_intent raises ConfigError: the exit's value exceeds the cap.
ExitRefused(i) ==
    /\ pc = "exits"
    /\ NextExit(i)
    /\ ~SellAccepted(open[i].qty, open[i].qty, quote)
    /\ Raise
    /\ UNCHANGED <<open, entries, exposed, traded, finalQty, cur, world,
                   unmanaged, closing>>

\* Plausible bug: the remainder of a partial exit is forgotten.
AfterExitDropsRest(i, q) == IF q = 0 THEN open ELSE Without(open, i)

\* What stays tracked of entry i after its exit order filled q: nothing, or
\* the remainder with its share of the cash.
AfterExit(i, q) ==
    LET e == open[i]
        rest == e.qty - LeastOf(e.qty, q)
    IN IF q = 0 THEN open
       ELSE IF rest = 0 THEN Without(open, i)
       ELSE [open EXCEPT ![i].qty = rest,
                         ![i].cash = (e.cash * rest) \div e.qty]

Settled == cur.done \/ Left(cur) = 0

\* What is left of the current order stays at the exchange, in a slot.
LeaveWorking(slot) ==
    working' = [s \in DOMAIN working \cup {slot} |->
                  IF s = slot THEN [side |-> cur.side, left |-> Left(cur)]
                  ELSE working[s]]

\* _wait_for_trade_done returns: the order is done, or time is up and the
\* order goes on without anyone waiting for it (it is not cancelled).
WaitOver ==
    \/ Settled /\ UNCHANGED working
    \/ /\ ~Settled
       /\ \E slot \in (1..MaxLate) \ DOMAIN working : LeaveWorking(slot)

\* A plausible bug: the account is taken to have shrunk by the quantity asked
\* for and not by the quantity sold.
ExitReturnsAsAsked ==
    /\ pc = "exitWait"
    /\ WaitOver
    /\ open' = AfterExit(cur.id, cur.filled)
    /\ lastPosition' = IF cur.filled = 0 THEN lastPosition
                       ELSE MostOf(0, lastPosition - open[cur.id].qty)
    /\ cur' = NoOrder
    /\ pc' = "exits"
    /\ UNCHANGED <<quote, entries, todo, exposed, traded, finalQty, expired,
                   kill, position, unmanaged, closing>>

ExitReturns ==
    /\ pc = "exitWait"
    /\ WaitOver
    /\ open' = AfterExit(cur.id, cur.filled)
    /\ lastPosition' = MostOf(0, lastPosition - LeastOf(open[cur.id].qty, cur.filled))
    /\ cur' = NoOrder
    /\ pc' = "exits"
    /\ UNCHANGED <<quote, entries, todo, exposed, traded, finalQty, expired,
                   kill, position, unmanaged, closing>>

\* A plausible bug: a scan with an exit in it resets the flag.
ExitsScannedForgets ==
    /\ pc = "exits"
    /\ \A i \in todo : ~ExitTriggered(i)
    /\ todo' = {}
    /\ exposed' = FALSE
    /\ pc' = "refresh"
    /\ UNCHANGED <<quote, open, entries, traded, lastPosition, finalQty, cur,
                   world, unmanaged, closing>>

\* The scan is over: open_entries and entry_exposed are updated.  (The code
\* builds the new list aside and nothing reads the old one meanwhile.)
ExitsScanned ==
    /\ pc = "exits"
    /\ \A i \in todo : ~ExitTriggered(i)
    /\ todo' = {}
    /\ exposed' = (DOMAIN open # {})
    /\ pc' = "refresh"
    /\ UNCHANGED <<quote, open, entries, traded, lastPosition, finalQty, cur,
                   world, unmanaged, closing>>

\* Account refresh when its interval has elapsed.  The loss it computes may
\* have reached --max-loss-usd, which ends the loop.
RefreshAccount ==
    /\ pc = "refresh"
    /\ \E answer \in PositionAnswers, lossBreached \in BOOLEAN :
          /\ lastPosition' = answer
          /\ unmanaged' = (answer > TrackedQty)
          /\ pc' = IF lossBreached THEN "final" ELSE "decide"
    /\ UNCHANGED <<quote, open, entries, todo, exposed, traded, finalQty, cur,
                   world, closing>>

SkipRefresh ==
    /\ pc = "refresh"
    /\ pc' = "decide"
    /\ UNCHANGED <<quote, open, entries, todo, exposed, traded, lastPosition,
                   finalQty, cur, world, unmanaged, closing>>

-----------------------------------------------------------------------------
(* Entering *)

\* A plausible bug: the money in open entries is not taken off.
AvailableIgnoresBook == Capital

Available == MostOf(Capital - TrackedCash, 0)

\* _trade_run_order_notional_from_artifact_policy: a bucket, capped.
OrderNotional(bucket) == LeastOf(bucket, LeastOf(OrderCap, Available))

UnmanagedPosition == MostOf(lastPosition, TrackedQty) > TrackedQty

EntryAllowed ==
    /\ Cardinality(DOMAIN open) < MaxOpen
    /\ Available >= MinNotional
    /\ ~UnmanagedPosition

\* Deadline passed, or the kill switch found just before the order.
StopAtDecision ==
    /\ pc = "decide"
    /\ \/ expired
       \/ kill /\ EntryAllowed /\ Events \ traded # {}
    /\ pc' = "final"
    /\ UNCHANGED <<quote, open, entries, todo, exposed, traded, lastPosition,
                   finalQty, cur, world, unmanaged, closing>>

\* No slot, no money, an unmanaged position, no approved fresh signal, or a
\* notional below the fee-efficient minimum.
NoEntry ==
    /\ pc = "decide"
    /\ ~expired
    /\ pc' = "pause"
    /\ UNCHANGED <<quote, open, entries, todo, exposed, traded, lastPosition,
                   finalQty, cur, world, unmanaged, closing>>

\* A fresh signal is approved and bought with cash at the market.
SubmitEntry(e, bucket) ==
    /\ pc = "decide"
    /\ ~expired
    /\ EntryAllowed
    /\ e \notin traded
    /\ ~kill
    /\ \E notional \in MinNotional..OrderCap :
          /\ notional = OrderNotional(bucket)
          /\ BuyAccepted(notional)
          /\ cur' = BuyOrder(e, notional, quote)
    /\ pc' = "entryWait"
    /\ UNCHANGED <<quote, open, entries, todo, exposed, traded, lastPosition,
                   finalQty, world, unmanaged, closing>>

\* A plausible bug: the event id of a filled entry is not remembered.
TrackEntryForgetsEvent ==
    /\ cur.filled > 0
    /\ entries' = entries + 1
    /\ exposed' = TRUE
    /\ traded' = traded
    /\ lastPosition' = MostOf(lastPosition, TrackedQty) + cur.filled
    /\ open' = [i \in DOMAIN open \cup {entries + 1} |->
                  IF i = entries + 1
                  THEN [event |-> cur.event, qty |-> cur.filled,
                        cash |-> cur.cash, price |-> quote,
                        phase |-> "young"]
                  ELSE open[i]]

\* A reported fill becomes a tracked entry that carries the whole notional.
TrackEntry ==
    /\ cur.filled > 0
    /\ entries' = entries + 1
    /\ exposed' = TRUE
    /\ traded' = traded \cup {cur.event}
    /\ lastPosition' = MostOf(lastPosition, TrackedQty) + cur.filled
    /\ open' = [i \in DOMAIN open \cup {entries + 1} |->
                  IF i = entries + 1
                  THEN [event |-> cur.event, qty |-> cur.filled,
                        cash |-> cur.cash, price |-> quote,
                        phase |-> "young"]
                  ELSE open[i]]

\* No fill seen: the order is neither cancelled nor remembered.
EntryUnfilled ==
    /\ cur.filled = 0
    /\ UNCHANGED <<entries, exposed, traded, lastPosition, open>>

EntryReturns ==
    /\ pc = "entryWait"
    /\ WaitOver
    /\ TrackEntry \/ EntryUnfilled
    /\ cur' = NoOrder
    /\ pc' = "pause"
    /\ UNCHANGED <<quote, todo, finalQty, expired, kill, position, unmanaged,
                   closing>>

Pause ==
    /\ pc = "pause"
    /\ pc' = IF expired THEN "final" ELSE "top"
    /\ UNCHANGED <<quote, open, entries, todo, exposed, traded, lastPosition,
                   finalQty, cur, world, unmanaged, closing>>

-----------------------------------------------------------------------------
(* Leaving *)

\* After the loop: what the broker says the account holds decides whether
\* there is anything to flatten.
FinalPosition ==
    /\ pc = "final"
    /\ \E answer \in PositionAnswers :
          /\ finalQty' = answer
          /\ pc' = IF FlattenOnExit /\ answer > 0 THEN "flatten" ELSE "report"
          /\ closing' = IF answer # position THEN "unanswered" ELSE closing
    /\ UNCHANGED <<quote, open, entries, todo, exposed, traded, lastPosition,
                   cur, world, unmanaged>>

SubmitFlatten ==
    /\ pc = "flatten"
    /\ \E p \in Prices :
          IF SellAccepted(finalQty, finalQty, p)
          THEN /\ cur' = SellOrder(0, finalQty)
               /\ pc' = "flattenWait"
               /\ UNCHANGED <<quote, todo, lastPosition>>
          ELSE Raise /\ UNCHANGED cur
    /\ UNCHANGED <<open, entries, exposed, traded, finalQty, world, unmanaged,
                   closing>>

\* The book is cleared whatever the flatten order filled.
FlattenReturns ==
    /\ pc = "flattenWait"
    /\ WaitOver
    /\ open' = [i \in {} |-> NoOrder]
    /\ exposed' = FALSE
    /\ closing' = IF Left(cur) > 0 THEN "short" ELSE closing
    /\ cur' = NoOrder
    /\ pc' = "report"
    /\ UNCHANGED <<quote, entries, todo, traded, lastPosition, finalQty,
                   expired, kill, position, unmanaged>>

\* Final quote and snapshot, exit code 0.
Report ==
    /\ pc = "report"
    /\ pc' = "done"
    /\ UNCHANGED <<quote, open, entries, todo, exposed, traded, lastPosition,
                   finalQty, cur, world, unmanaged, closing>>

-----------------------------------------------------------------------------
(* Failing *)

\* Any broker call or wait may raise, and the run may be interrupted at any
\* await.  An order being waited for stays at the exchange.
Fault ==
    /\ pc \in {"startup"} \cup LoopPcs \cup ClosePcs
    /\ Raise
    /\ IF cur = NoOrder THEN UNCHANGED working
       ELSE IF Settled THEN UNCHANGED working ELSE LeaveWorking(0)
    /\ cur' = NoOrder
    /\ UNCHANGED <<open, entries, exposed, traded, finalQty, expired, kill,
                   position, unmanaged, closing>>

\* Emergency cleanup: cancel whatever is open and wait a second.  A cancel
\* may fail or come too late for some of the orders.
CleanupCancel ==
    /\ pc = "cleanup"
    /\ \E kept \in SUBSET DOMAIN working :
          working' = [s \in DOMAIN working |->
                        IF s \in kept THEN working[s]
                        ELSE [working[s] EXCEPT !.left = 0]]
    /\ pc' = "cleanupQuery"
    /\ UNCHANGED <<quote, open, entries, todo, exposed, traded, lastPosition,
                   finalQty, cur, expired, kill, position, unmanaged, closing>>

\* What the broker says the account holds, and then a quote to price it by.
CleanupQuery ==
    /\ pc = "cleanupQuery"
    /\ \E answer \in PositionAnswers :
          /\ finalQty' = answer
          /\ pc' = IF answer > 0 THEN "cleanupSell" ELSE "cleanupReport"
    /\ UNCHANGED <<quote, open, entries, todo, exposed, traded, lastPosition,
                   cur, world, unmanaged, closing>>

\* Sell that quantity, or as much of it as the notional cap lets one order.
CleanupLiquidate ==
    /\ pc = "cleanupSell"
    /\ \E p \in Prices :
          LET bounded == LeastOf(finalQty, ConfigCap \div p) IN
          IF bounded > 0
          THEN cur' = SellOrder(0, bounded) /\ pc' = "cleanupWait"
          ELSE pc' = "cleanupReport" /\ UNCHANGED cur
    /\ UNCHANGED <<quote, open, entries, todo, exposed, traded, lastPosition,
                   finalQty, world, unmanaged, closing>>

CleanupReturns ==
    /\ pc = "cleanupWait"
    /\ WaitOver
    /\ cur' = NoOrder
    /\ pc' = "cleanupReport"
    /\ UNCHANGED <<quote, open, entries, todo, exposed, traded, lastPosition,
                   finalQty, expired, kill, position, unmanaged, closing>>

\* Final snapshot of the cleanup; the exception then goes on to the caller.
CleanupReport ==
    /\ pc = "cleanupReport"
    /\ pc' = "raised"
    /\ closing' = "cleaned"
    /\ UNCHANGED <<quote, open, entries, todo, exposed, traded, lastPosition,
                   finalQty, cur, world, unmanaged>>

\* Whatever goes wrong inside the cleanup is swallowed or interrupts it; a
\* liquidation order it was waiting for goes on at the exchange.
CleanupFails ==
    /\ pc \in CleanupPcs
    /\ pc' = "raised"
    /\ closing' = "cleanupFailed"
    /\ UNCHANGED <<quote, open, entries, todo, exposed, traded, lastPosition,
                   finalQty, cur, world, unmanaged>>

-----------------------------------------------------------------------------
(* The world *)

Traded(side, q) == IF side = "BUY" THEN q ELSE -q

\* The exchange executes part or all of the order being waited for.  Spot
\* BTC cannot be sold short: a sell finds at most what the account holds.
Execute(q) ==
    /\ ~cur.done
    /\ q <= Left(cur)
    /\ cur.side = "SELL" => q <= position
    /\ cur' = [cur EXCEPT !.filled = @ + q]
    /\ position' = position + Traded(cur.side, q)
    /\ UNCHANGED <<pc, quote, open, entries, todo, exposed, traded,
                   lastPosition, finalQty, expired, kill, working, unmanaged,
                   closing>>

\* Filled, Cancelled (the unfilled rest of an IOC order) or Inactive.
Complete ==
    /\ pc \in WaitPcs
    /\ ~cur.done
    /\ cur' = [cur EXCEPT !.done = TRUE]
    /\ UNCHANGED <<pc, quote, open, entries, todo, exposed, traded,
                   lastPosition, finalQty, world, unmanaged, closing>>

\* An order nobody waits for any more executes, or goes away.
LateExecution(s, q) ==
    /\ s \in DOMAIN working
    /\ q <= working[s].left
    /\ working[s].side = "SELL" => q <= position
    /\ working' = [working EXCEPT ![s].left = @ - q]
    /\ position' = position + Traded(working[s].side, q)
    /\ UNCHANGED <<runner, expired, kill, unmanaged, closing>>

LateEnd(s) ==
    /\ s \in DOMAIN working
    /\ working[s].left > 0
    /\ working' = [working EXCEPT ![s].left = 0]
    /\ UNCHANGED <<runner, expired, kill, position, unmanaged, closing>>

\* The run's duration elapses.
Expire ==
    /\ pc \in LoopPcs
    /\ ~expired
    /\ expired' = TRUE
    /\ UNCHANGED <<runner, kill, position, working, unmanaged, closing>>

\* The operator creates the kill-switch file.  (One that is removed again
\* before the runner looks was never there for it.)
KillFileAppears ==
    /\ pc \in LoopPcs
    /\ ~kill
    /\ kill' = TRUE
    /\ UNCHANGED <<runner, expired, position, working, unmanaged, closing>>

\* An entry reaches its minimum holding time, then its exit deadline.
Age(i) ==
    /\ pc \in LoopPcs
    /\ i \in DOMAIN open
    /\ open[i].phase # "due"
    /\ open' = [open EXCEPT ![i].phase = IF @ = "young" THEN "held" ELSE "due"]
    /\ UNCHANGED <<pc, quote, entries, todo, exposed, traded, lastPosition,
                   finalQty, cur, world, unmanaged, closing>>

-----------------------------------------------------------------------------

LoopStep ==
    \/ LoopTop
    \/ ReadQuote
    \/ \E i \in todo : SubmitExit(i) \/ ExitRefused(i)
    \/ ExitReturns
    \/ ExitsScanned
    \/ RefreshAccount
    \/ SkipRefresh
    \/ StopAtDecision
    \/ NoEntry
    \/ \E e \in Events, b \in Buckets : SubmitEntry(e, b)
    \/ EntryReturns
    \/ Pause

CloseStep == FinalPosition \/ SubmitFlatten \/ FlattenReturns \/ Report

CleanupStep ==
    CleanupCancel \/ CleanupQuery \/ CleanupLiquidate \/ CleanupReturns
    \/ CleanupReport

RunnerStep == Refuse \/ Startup \/ LoopStep \/ CloseStep \/ CleanupStep

\* What the exchange does after the process has ended is left out.
ExchangeStep ==
    /\ pc \notin EndPcs
    /\ \/ pc \in WaitPcs /\ \E q \in 1..Left(cur) : Execute(q)
       \/ Complete
       \/ \E s \in DOMAIN working :
             \/ \E q \in 1..working[s].left : LateExecution(s, q)
             \/ LateEnd(s)

WorldStep == Expire \/ KillFileAppears \/ \E i \in DOMAIN open : Age(i)

\* The process has ended.
Ended == pc \in EndPcs /\ UNCHANGED vars

Next ==
    \/ RunnerStep
    \/ Fault
    \/ CleanupFails
    \/ ExchangeStep
    \/ WorldStep
    \/ Ended

Spec == Init /\ [][Next]_vars

\* The event loop keeps scheduling the coroutine, every wait has a timeout, and
\* the exchange finishes an IOC order when the bound on late orders leaves the
\* wait no other way out.  Nothing is said of the clock: a run's deadline may be
\* as far away as the operator likes.
Fairness == WF_vars(RunnerStep) /\ WF_vars(Complete)

FairSpec == Spec /\ Fairness

-----------------------------------------------------------------------------
(* What the runner owes its operator *)

\* Every variable keeps its type; exits and entries are about entries the run
\* tracks, and no quantity of an order or of the account becomes negative.
\* (last_position_quantity is a difference of sums: it is left to the properties
\* that depend on it.)
TypeOK ==
    /\ pc \in {"startup"} \cup LoopPcs \cup ClosePcs \cup CleanupPcs \cup EndPcs
    /\ quote \in Nat
    /\ DOMAIN open \subseteq 1..entries
    /\ \A i \in DOMAIN open : open[i] \in Entry
    /\ entries \in Nat
    /\ todo \subseteq DOMAIN open
    /\ exposed \in BOOLEAN
    /\ traded \subseteq Events
    /\ finalQty \in Nat
    /\ cur \in Order \cup {NoOrder}
    /\ expired \in BOOLEAN
    /\ kill \in BOOLEAN
    /\ position \in Nat
    /\ DOMAIN working \subseteq Slots
    /\ \A s \in DOMAIN working : working[s] \in Stray
    /\ unmanaged \in BOOLEAN
    /\ closing \in {"none", "unanswered", "short", "cleaned", "cleanupFailed"}

\* risk.max_open_positions bounds the entries the runner manages at a time,
\* an entry being bought included, whatever partial exits and retries did.
SlotsRespected ==
    Cardinality(DOMAIN open) + (IF pc = "entryWait" THEN 1 ELSE 0) <= MaxOpen

\* The cash in tracked entries and in the buy under way stays within
\* --capital-usd, partial fills and partial exits included.
CapitalRespected ==
    TrackedCash + (IF pc = "entryWait" THEN cur.cash ELSE 0) <= Capital

\* While the runner tracks an entry the exception path will clean up:
\* entry_exposed is set whenever open_entries is not empty.
ExposureFlagged == DOMAIN open # {} => exposed

BuySubmitted == pc = "decide" /\ pc' = "entryWait"

\* After an account refresh that showed BTC the runner does not track (a late
\* fill, a holding of the operator), no buy is sent until another refresh:
\* exits and entries in between do not make the difference disappear.
NoBuyOverUnmanaged == [][BuySubmitted => ~unmanaged]_vars

\* What the runner believes it holds: its entries and the fills it is
\* watching come in.
Believed ==
    TrackedQty + (CASE pc = "entryWait" -> cur.filled
                    [] pc = "exitWait"  -> -cur.filled
                    [] OTHER            -> 0)

LateFill == DOMAIN working' = DOMAIN working /\ working' # working

\* In the loop the runner's book and the account move together: the gap
\* between them changes only by an order that outlived its wait.
BookFollowsAccount ==
    [][(pc \in LoopPcs /\ pc' \in LoopPcs /\ ~LateFill) =>
         position' - Believed' = position - Believed]_vars

\* The runner implements EntryBook: one entry per signal, bounded, none after
\* the loop is left, and no death with a non-empty book without a cleanup.
RunStatus ==
    CASE pc = "startup"     -> "starting"
      [] pc \in LoopPcs     -> "trading"
      [] pc \in ClosePcs    -> "stopping"
      [] pc \in CleanupPcs  -> "cleaning"
      [] pc = "refused"     -> "refused"
      [] pc = "done"        -> "finished"
      [] pc = "raised"      -> "failed"

ManagedEvents == {open[i].event : i \in DOMAIN open}

Book == INSTANCE EntryBook WITH
            status <- RunStatus,
            book   <- ManagedEvents,
            opened <- traded

ImplementsEntryBook == Book!Spec

-----------------------------------------------------------------------------
(* Claims of the repository that the code does not keep *)

\* README.md: the run "flattens runner-opened positions on exit when
\* configured": nothing it bought is left when it reports success.
FlattensOnExit == (pc = "done" /\ FlattenOnExit) => position <= Foreign

\* README.md: "order size is capped by available capital": the BTC bought
\* never exceeds what the capital buys at the lowest price.
HeldWithinCapital == position - Foreign <= Capital \div Min(Prices)

-----------------------------------------------------------------------------
(* Liveness *)

\* Once the deadline has passed, or the kill-switch file exists, the run ends:
\* no order, quote or cleanup can keep it, even if the other never comes.
Terminates == (expired \/ kill) ~> pc \in EndPcs

\* The exit of an entry whose deadline has passed is sent, even if the run
\* itself goes on for ever and every exit so far came back unfilled.
DueExitSent ==
    \A i \in 1..Cardinality(Events) :
        (i \in DOMAIN open /\ open[i].phase = "due") ~>
            \/ pc = "exitWait" /\ cur.id = i
            \/ i \notin DOMAIN open
            \/ pc \notin LoopPcs

=============================================================================
