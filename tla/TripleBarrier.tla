---------------------------- MODULE TripleBarrier ----------------------------
(***************************************************************************)
(* Labels, fills and exits read off a list of bars: the triple-barrier     *)
(* label of a candidate event (labels/triple_barrier.py), the entry fills  *)
(* (backtest/fills.py and _simulate_market_entry_fill) and the exit that   *)
(* the out-of-sample replay finds from a fill (_replay_exit_from_fill).    *)
(*                                                                         *)
(* A bar keeps the path of prices it was made of, so that what the code    *)
(* concludes from its open, high, low and close can be compared with what  *)
(* happened.  Barriers are fixed distances from the entry price, where the *)
(* code has fixed fractions of it; the gain of a price is measured in the  *)
(* direction of the trade, which makes longs and shorts mirror images.     *)
(***************************************************************************)
EXTENDS Integers, Sequences, FiniteSets, FiniteSetsExt

CONSTANTS
    Target,        \* net_profit_target
    Stop,          \* net_stop_loss
    Cost,          \* round trip cost
    MinHold,       \* min_holding_seconds
    Horizon,       \* from an event to its vertical barrier
    Conservative,  \* labels.conservative_same_bar
    EntryTimeout,  \* execution.entry_timeout_seconds
    Latency,       \* execution.simulated_latency_seconds
    TradeThrough,  \* execution.limit_trade_through_bps
    LimitOffset    \* entry_limit_offset_bps

ASSUME TripleBarrierAssumption ==
    /\ {Target, Stop, MinHold, Horizon} \subseteq Nat \ {0}
    /\ {Cost, EntryTimeout, Latency, TradeThrough, LimitOffset} \subseteq Nat
    /\ Stop > Cost
    /\ Conservative \in BOOLEAN

Side == {"BUY", "SELL"}

\* A bar is stamped with its close; path is what it was made of, in order.
Open(b)    == b.path[1]
Close(b)   == b.path[Len(b.path)]
Touched(b) == {b.path[k] : k \in DOMAIN b.path}

\* The gain of being in a trade from one price to another, before costs.
Gain(side, entry, price) ==
    IF side = "BUY" THEN price - entry ELSE entry - price

\* The high (low, for a short) of the bar reaches the profit barrier, its low
\* (high) the stop.
HitProfit(side, entry, b) ==
    \E p \in Touched(b) : Gain(side, entry, p) >= Target + Cost
HitStop(side, entry, b) ==
    \E p \in Touched(b) : Gain(side, entry, p) <= Cost - Stop
Hit(side, entry, b) == HitProfit(side, entry, b) \/ HitStop(side, entry, b)

-----------------------------------------------------------------------------
(* The scan for an exit: bars in the order of their stamps, those that begin *)
(* before from are passed over.                                              *)

\* The bar that ends the trade: the first that touches a barrier.
FirstHit(side, entry, bars, from, i) ==
    /\ i \in DOMAIN bars
    /\ bars[i].start >= from /\ Hit(side, entry, bars[i])
    /\ \A j \in DOMAIN bars :
          bars[j].start >= from /\ Hit(side, entry, bars[j]) => i <= j

\* Plausible bug: a bar that touches both barriers counts as a profit.
StoppedInUnlessProfit(side, entry, b) ==
    HitStop(side, entry, b) /\ ~HitProfit(side, entry, b)

\* A bar that touches both barriers is a stop, unless told otherwise.
StoppedIn(side, entry, b) ==
    HitStop(side, entry, b) /\ (Conservative \/ ~HitProfit(side, entry, b))

Outcome == [kind : {"profit", "stop", "vertical"}, at : Nat, gain : Int]

\* Exit at the barrier touched first, or at the close of the last bar.
FirstExit(side, entry, bars, from) ==
    IF \E i \in DOMAIN bars : FirstHit(side, entry, bars, from, i)
    THEN LET b == bars[CHOOSE i \in DOMAIN bars :
                          FirstHit(side, entry, bars, from, i)]
         IN IF StoppedIn(side, entry, b)
            THEN [kind |-> "stop", at |-> b.at, gain |-> Cost - Stop]
            ELSE [kind |-> "profit", at |-> b.at, gain |-> Target + Cost]
    ELSE LET b == bars[Len(bars)]
         IN [kind |-> "vertical", at |-> b.at,
             gain |-> Gain(side, entry, Close(b))]

\* label_event: the bars lie after the event and up to its vertical barrier,
\* and there is at least one.
Label(side, entry, entryAt, bars) ==
    FirstExit(side, entry, bars, entryAt + MinHold)

\* The label proper: 1 for a profit exit, whose net gain is the target.
Positive(outcome) == outcome.kind = "profit" /\ outcome.gain - Cost >= Target

-----------------------------------------------------------------------------
(* Entering and leaving in the out-of-sample replay *)

\* _bars_for_window: bisect_left and bisect_right on the stamps
Window(bars, first, last) ==
    SubSeq(bars, Cardinality({i \in DOMAIN bars : bars[i].at < first}) + 1,
                 Cardinality({i \in DOMAIN bars : bars[i].at <= last}))

Fill == [at : Nat, price : Nat]

\* _simulate_market_entry_fill: the open of the first bar that begins no
\* earlier than the entry, within the time allowed for it; or else the
\* label's own entry price.
MarketFill(bars, entryAt, fallback) ==
    LET entryBars == Window(bars, entryAt, entryAt + EntryTimeout)
        late == {i \in DOMAIN entryBars : entryBars[i].start >= entryAt}
    IN IF late = {} THEN [at |-> entryAt, price |-> fallback]
       ELSE [at |-> entryBars[Min(late)].start, price |-> Open(entryBars[Min(late)])]

\* simulate_limit_fill: the limit is better than the market by the offset and
\* has to be traded through; the place in the queue is decided by a hash, and
\* a miss there is final.  The fill is stamped with the start of its bar.
LimitPrice(side, market) ==
    IF side = "BUY" THEN market - LimitOffset ELSE market + LimitOffset

TradesThrough(side, limit, b) ==
    \E p \in Touched(b) : Gain(side, p, limit) >= TradeThrough

\* Plausible bug: the fill is stamped with the activation of the order.
LimitFillsAtActivation(side, bars, entryAt, fallback) ==
    LET limit == LimitPrice(side, MarketFill(bars, entryAt, fallback).price)
        entryBars == Window(bars, entryAt, entryAt + EntryTimeout)
        reached == {i \in DOMAIN entryBars :
                       /\ entryBars[i].start >= entryAt + Latency
                       /\ TradesThrough(side, limit, entryBars[i])}
    IN IF reached = {} THEN {} ELSE {[at |-> entryAt, price |-> limit]}

LimitFills(side, bars, entryAt, fallback) ==
    LET limit == LimitPrice(side, MarketFill(bars, entryAt, fallback).price)
        entryBars == Window(bars, entryAt, entryAt + EntryTimeout)
        reached == {i \in DOMAIN entryBars :
                       /\ entryBars[i].start >= entryAt + Latency
                       /\ TradesThrough(side, limit, entryBars[i])}
    IN IF reached = {} THEN {}
       ELSE {[at |-> entryBars[Min(reached)].start, price |-> limit]}

\* Plausible bug: the bar of the fill takes part.
ReplayFromFillBar(side, fill, bars, vertical) ==
    LET exitBars == Window(bars, fill.at, vertical) IN
    IF exitBars = <<>> THEN {}
    ELSE {FirstExit(side, fill.price, exitBars, fill.at)}

\* _replay_exit_from_fill: the bar of the fill is passed over, and so is what
\* begins within the minimum holding time.  Without a bar there is no exit.
Replay(side, fill, bars, vertical) ==
    LET exitBars == Window(bars, fill.at, vertical) IN
    IF exitBars = <<>> THEN {}
    ELSE {FirstExit(side, fill.price, exitBars,
               fill.at + (IF MinHold > 1 THEN MinHold ELSE 1))}

=============================================================================
