------------------------------ MODULE RoundTrip ------------------------------
(***************************************************************************)
(* One controlled round trip (cli._broker_round_trip_test_async): buy for  *)
(* a fixed amount of cash, watch the bid until the synthetic stop, the     *)
(* maximum loss or the end of the holding time, sell what was bought, and  *)
(* report.  An exception after the buy was seen to fill leads into the     *)
(* same emergency cleanup as in TradeRun.                                  *)
(*                                                                         *)
(* A round trip sends at most three orders: the buy, the sell and the      *)
(* liquidation of the cleanup.  A wait that times out leaves its order     *)
(* live; it may still fill while the run goes on.  Money and BTC are       *)
(* integers, as in TradeRun, and the stop is a distance where the code has *)
(* basis points.  "entry" is the price the buy executes at.                *)
(***************************************************************************)
EXTENDS Integers

CONSTANTS
    Notional,       \* --notional: cash of the buy
    Prices,         \* the bids the market can show
    StopDistance,   \* distance of the synthetic stop below the entry price
    MaxLoss,        \* --max-loss-usd, 0 for none
    ConfigCap,      \* risk.paper_max_notional
    Foreign         \* BTC the account held before

ASSUME RoundTripAssumption ==
    /\ Notional \in Nat \ {0} /\ ConfigCap \in Nat \ {0}
    /\ StopDistance \in Nat \ {0}
    /\ Notional <= ConfigCap      \* cli._validate_round_trip_test_config
    /\ Prices \subseteq Nat \ {0}
    /\ MaxLoss \in Nat /\ Foreign \in Nat

VARIABLES
    \* the run
    pc,         \* the await it is at
    entry,      \* buy_average_price, 0 before the buy
    bought,     \* buy_quantity: what the buy was seen to fill
    exposed,    \* entry_exposed
    answer,     \* what the last position query said
    bid,        \* the bid of the last quote taken to price a sell
    \* the world
    orders,     \* the three orders
    position,   \* BTC in the account
    due,        \* the holding time is over
    \* history
    raced,      \* the sell was live when the cleanup asked for the position
    closing     \* what kept the cleanup from selling everything

run  == <<pc, entry, bought, exposed, answer, bid>>
vars == <<run, orders, position, due, raced, closing>>

-----------------------------------------------------------------------------
Names == {"buy", "sell", "liquidation"}

Order == [want : Nat, filled : Nat, live : BOOLEAN]

Unsent == [want |-> 0, filled |-> 0, live |-> FALSE]

Sent(name, qty) ==
    orders' = [orders EXCEPT ![name] = [want |-> qty, filled |-> 0,
                                        live |-> qty > 0]]

LeastOf(a, b) == IF a <= b THEN a ELSE b

\* positions() without an answer in time is read as no position.
PositionAnswers == {position, 0}

TripPcs    == {"startup", "buyWait", "monitor", "exitQuote", "exitPosition",
               "sellWait", "report"}
CleanupPcs == {"cleanup", "cleanupQuery", "cleanupSell", "cleanupWait",
               "cleanupReport"}
EndPcs     == {"done", "raised"}

\* An exception leaves the try block.
Raise == pc' = IF exposed THEN "cleanup" ELSE "raised"

Init ==
    /\ pc = "startup"
    /\ entry = 0
    /\ bought = 0
    /\ exposed = FALSE
    /\ answer = 0
    /\ bid = 0
    /\ orders = [n \in Names |-> Unsent]
    /\ position = Foreign
    /\ due = FALSE
    /\ raced = FALSE
    /\ closing = "none"

-----------------------------------------------------------------------------
(* Buy *)

\* Connect, qualify, baseline snapshot; then the cash order is sent.
SubmitBuy ==
    /\ pc = "startup"
    /\ \E p \in Prices : entry' = p /\ Sent("buy", Notional \div p)
    /\ pc' = "buyWait"
    /\ UNCHANGED <<bought, exposed, answer, bid, position, due, raced, closing>>

\* A plausible bug: only the sell switches the exposure on.
BuyReturnsUnexposed ==
    /\ pc = "buyWait"
    /\ bought' = orders["buy"].filled
    /\ pc' = IF bought' > 0 THEN "monitor" ELSE "raised"
    /\ UNCHANGED <<entry, exposed, answer, bid, orders, position, due, raced,
                   closing>>

\* The wait is over, because the order is done or because time is up.  No fill
\* seen: SystemExit, with nothing exposed and the order as it is.
BuyReturns ==
    /\ pc = "buyWait"
    /\ bought' = orders["buy"].filled
    /\ exposed' = (bought' > 0)
    /\ pc' = IF bought' > 0 THEN "monitor" ELSE "raised"
    /\ UNCHANGED <<entry, answer, bid, orders, position, due, raced, closing>>

-----------------------------------------------------------------------------
(* _monitor_synthetic_stop *)

\* A plausible bug: the end of the holding time only matters once the stop is
\* in reach.
ExitTriggeredWithoutTime(p) ==
    \/ p <= entry - StopDistance
    \/ MaxLoss > 0 /\ Notional * (entry - p) >= MaxLoss * p

ExitTriggered(p) ==
    \/ p <= entry - StopDistance
    \/ MaxLoss > 0 /\ Notional * (entry - p) >= MaxLoss * p
    \/ due

Monitor ==
    /\ pc = "monitor"
    /\ \E p \in Prices : pc' = IF ExitTriggered(p) THEN "exitQuote" ELSE "monitor"
    /\ UNCHANGED <<entry, bought, exposed, answer, bid, orders, position, due,
                   raced, closing>>

-----------------------------------------------------------------------------
(* Sell *)

ReadExitQuote ==
    /\ pc = "exitQuote"
    /\ \E p \in Prices : bid' = p
    /\ pc' = "exitPosition"
    /\ UNCHANGED <<entry, bought, exposed, answer, orders, position, due, raced,
                   closing>>

\* _validate_order_intent_risk: the account must hold what is to be sold, and
\* its value must be within the cap.
SellAccepted(held) == bought <= held /\ bought * bid <= ConfigCap

SubmitSell ==
    /\ pc = "exitPosition"
    /\ \E held \in PositionAnswers :
          /\ answer' = held
          /\ SellAccepted(held)
          /\ Sent("sell", bought)
    /\ pc' = "sellWait"
    /\ UNCHANGED <<entry, bought, exposed, bid, position, due, raced, closing>>

\* ConfigError.
SellRefused ==
    /\ pc = "exitPosition"
    /\ \E held \in PositionAnswers : answer' = held /\ ~SellAccepted(held)
    /\ Raise
    /\ UNCHANGED <<entry, bought, exposed, bid, orders, position, due, raced,
                   closing>>

\* A plausible bug: any fill is taken for the whole.
SellReturnsPartial ==
    /\ pc = "sellWait"
    /\ IF orders["sell"].filled = 0
       THEN Raise /\ UNCHANGED exposed
       ELSE exposed' = FALSE /\ pc' = "report"
    /\ UNCHANGED <<entry, bought, answer, bid, orders, position, due, raced,
                   closing>>

\* Sold less than was bought: SystemExit, with the exposure still on.
SellReturns ==
    /\ pc = "sellWait"
    /\ IF orders["sell"].filled < bought
       THEN Raise /\ UNCHANGED exposed
       ELSE exposed' = FALSE /\ pc' = "report"
    /\ UNCHANGED <<entry, bought, answer, bid, orders, position, due, raced,
                   closing>>

\* Session state, final snapshot, accounting of both fills, exit code 0.
Report ==
    /\ pc = "report"
    /\ pc' = "done"
    /\ UNCHANGED <<entry, bought, exposed, answer, bid, orders, position, due,
                   raced, closing>>

-----------------------------------------------------------------------------
(* Failing *)

\* Any await may raise, and the run may be interrupted at any of them.  Fills
\* without a commission report raise in the report.
Fault ==
    /\ pc \in TripPcs
    /\ Raise
    /\ UNCHANGED <<entry, bought, exposed, answer, bid, orders, position, due,
                   raced, closing>>

\* _attempt_emergency_cleanup.  A cancel may fail or come too late.
CleanupCancel ==
    /\ pc = "cleanup"
    /\ \E kept \in SUBSET Names :
          orders' = [n \in Names |->
                       IF n \in kept THEN orders[n]
                       ELSE [orders[n] EXCEPT !.live = FALSE]]
    /\ pc' = "cleanupQuery"
    /\ UNCHANGED <<entry, bought, exposed, answer, bid, position, due, raced,
                   closing>>

\* A plausible bug: what was bought stands in for what the account holds.
CleanupQueryBought ==
    /\ pc = "cleanupQuery"
    /\ answer' = bought
    /\ pc' = "cleanupSell"
    /\ raced' = orders["sell"].live
    /\ UNCHANGED <<entry, bought, exposed, bid, orders, position, due, closing>>

CleanupQuery ==
    /\ pc = "cleanupQuery"
    /\ \E held \in PositionAnswers :
          /\ answer' = held
          /\ pc' = IF held > 0 THEN "cleanupSell" ELSE "cleanupReport"
          /\ closing' = IF held # position THEN "unanswered" ELSE closing
    /\ raced' = orders["sell"].live
    /\ UNCHANGED <<entry, bought, exposed, bid, orders, position, due>>

\* A quote, and as much as one order may sell at it.
CleanupLiquidate ==
    /\ pc = "cleanupSell"
    /\ \E p \in Prices :
          LET bounded == LeastOf(answer, ConfigCap \div p) IN
          /\ bid' = p
          /\ Sent("liquidation", bounded)
          /\ pc' = IF bounded > 0 THEN "cleanupWait" ELSE "cleanupReport"
          /\ closing' = IF bounded < answer THEN "capped" ELSE closing
    /\ UNCHANGED <<entry, bought, exposed, answer, position, due, raced>>

CleanupReturns ==
    /\ pc = "cleanupWait"
    /\ pc' = "cleanupReport"
    /\ closing' = IF orders["liquidation"].filled < orders["liquidation"].want
                  THEN "short" ELSE closing
    /\ UNCHANGED <<entry, bought, exposed, answer, bid, orders, position, due,
                   raced>>

\* Final snapshot; the exception goes on to the caller.
CleanupReport ==
    /\ pc = "cleanupReport"
    /\ pc' = "raised"
    /\ UNCHANGED <<entry, bought, exposed, answer, bid, orders, position, due,
                   raced, closing>>

CleanupFails ==
    /\ pc \in CleanupPcs
    /\ pc' = "raised"
    /\ closing' = "failed"
    /\ UNCHANGED <<entry, bought, exposed, answer, bid, orders, position, due,
                   raced>>

-----------------------------------------------------------------------------
(* The world *)

\* A live order executes; the last unit makes it done.  Spot BTC cannot be
\* sold short.
Execute(name, q) ==
    LET o == orders[name] IN
    /\ o.live
    /\ name # "buy" => q <= position
    /\ orders' = [orders EXCEPT ![name].filled = @ + q,
                                ![name].live = o.filled + q < o.want]
    /\ position' = IF name = "buy" THEN position + q ELSE position - q
    /\ UNCHANGED <<run, due, raced, closing>>

\* Cancelled (the unfilled rest of an IOC order) or Inactive.
OrderEnds(name) ==
    /\ orders[name].live
    /\ orders' = [orders EXCEPT ![name].live = FALSE]
    /\ UNCHANGED <<run, position, due, raced, closing>>

\* The holding time of the monitor elapses.
HoldElapses ==
    /\ pc = "monitor"
    /\ ~due
    /\ due' = TRUE
    /\ UNCHANGED <<run, orders, position, raced, closing>>

-----------------------------------------------------------------------------

RunStep ==
    \/ SubmitBuy \/ BuyReturns
    \/ Monitor
    \/ ReadExitQuote \/ SubmitSell \/ SellRefused \/ SellReturns
    \/ Report
    \/ CleanupCancel \/ CleanupQuery \/ CleanupLiquidate \/ CleanupReturns
    \/ CleanupReport

\* What the exchange does after the process has ended is left out.
ExchangeStep ==
    /\ pc \notin EndPcs
    /\ \E n \in Names :
          \/ \E q \in 1..(orders[n].want - orders[n].filled) : Execute(n, q)
          \/ OrderEnds(n)

\* The process has ended.
Ended == pc \in EndPcs /\ UNCHANGED vars

Next == RunStep \/ Fault \/ CleanupFails \/ ExchangeStep \/ HoldElapses \/ Ended

Spec == Init /\ [][Next]_vars

\* Every wait of the run has a timeout, and time passes; the exchange owes it
\* nothing.
FairSpec == Spec /\ WF_vars(RunStep) /\ WF_vars(HoldElapses)

-----------------------------------------------------------------------------

\* Every variable keeps its type, and no order fills beyond its size.
TypeOK ==
    /\ pc \in TripPcs \cup CleanupPcs \cup EndPcs
    /\ entry \in Nat /\ bought \in Nat /\ answer \in Nat
    /\ bid \in Nat /\ position \in Nat
    /\ exposed \in BOOLEAN /\ due \in BOOLEAN /\ raced \in BOOLEAN
    /\ orders \in [Names -> Order]
    /\ \A n \in Names : orders[n].filled <= orders[n].want
    /\ closing \in {"none", "unanswered", "capped", "short", "failed"}

\* What the buy filled after the run had stopped waiting for it.
LateBuy == orders["buy"].filled - bought

\* The run sells what it bought and no more, so BTC the account held before is
\* touched by nothing but the liquidation of the cleanup; and one that ends in
\* success has sold all it saw bought, partial fills of either order included.
SoldAsBought ==
    /\ orders["liquidation"].want = 0 => position >= Foreign
    /\ pc = "done" => position = Foreign + LateBuy

\* A sell never asks for more than the account holds when it is sent.  The
\* liquidation is the hard one: it follows a sell that came up short, and only
\* the cancels before the position query keep the two from overlapping.
Sends(name) == orders[name].want = 0 /\ orders'[name].want > 0

SellsCovered ==
    [][\A n \in {"sell", "liquidation"} :
          Sends(n) => orders'[n].want <= position \/ raced]_vars

\* A failed run that had seen its buy fill leaves nothing bought behind, unless
\* the cleanup could not know, could not sell it in one order, came up short
\* or failed, or the buy filled some more after its wait.
CleanFailure ==
    pc = "raised" /\ bought > 0 /\ closing = "none" /\ LateBuy = 0
        => position <= Foreign

\* The run ends, whatever the market shows and the exchange does.
Ends == <>(pc \in EndPcs)

=============================================================================
