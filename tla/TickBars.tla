------------------------------- MODULE TickBars -------------------------------
(***************************************************************************)
(* The bars a trade run scores its signals on (broker/streaming.py and     *)
(* their use in cli.py): every poll takes one quote and the new rows of    *)
(* the tick-by-tick stream, files each under the interval of its time      *)
(* stamp, turns the intervals that are over into bars, and merges them     *)
(* into the history.  Before the first signal a warm-up waits for enough   *)
(* completed bars.                                                         *)
(*                                                                         *)
(* A tick bears the time of the exchange and arrives later: possibly after *)
(* the interval it belongs to was turned into a bar.  The interval is then *)
(* opened anew, and the bar made of the late ticks replaces the other.     *)
(* The stream is subscribed to and required (--require-live-1s-data, the   *)
(* default), and the list of its rows only grows.                          *)
(*                                                                         *)
(* Time is counted from the answer to the history request of the start-up, *)
(* which follows the subscription by one unit: the rows already there then *)
(* have negative times.  LiveHistory moves the clock and composes the steps.    *)
(***************************************************************************)
EXTENDS Clock, Sequences, FiniteSets, FiniteSetsExt

CONSTANTS
    Interval,        \* bar_size_seconds
    Prices,          \* prices of ticks
    Midpoints,       \* midpoints of quotes
    RequiredBars,    \* --live-1s-warmup-bars
    WarmupTimeout,   \* --live-1s-warmup-timeout-seconds
    MaxBars,         \* --history-max-bars
    MaxDelay,        \* bound: from the time of a tick to its arrival
    MaxRows          \* bound: rows of the tick stream

ASSUME TickBarsAssumption ==
    /\ {Interval, RequiredBars, WarmupTimeout, MaxBars} \subseteq Nat \ {0}
    /\ Prices \cup Midpoints \subseteq Nat \ {0}
    /\ {MaxDelay, MaxRows} \subseteq Nat

VARIABLES
    pc,             \* "read" (awaiting a quote), "complete", or "failed"
    warm,           \* the warm-up is over
    rows,           \* tickByTicks of the subscription, in order of arrival
    offset,         \* rows already processed
    working,        \* _working: start of an interval -> what was seen of it
    history,        \* history_bars: start of an interval -> its bar
    completed,      \* bars completed in the warm-up
    tickCompleted,  \* those with a tick
    quotes,         \* history: the quotes taken
    done,           \* history: intervals turned into bars
    late            \* history: intervals turned into bars more than once

streamVars == <<pc, warm, rows, offset, working, history, completed,
                tickCompleted, quotes, done, late>>

-----------------------------------------------------------------------------
Price == Prices \cup Midpoints

Observation == [at : Int, price : Price]

Bar == [open : Price, high : Price, low : Price, close : Price,
        ticks : Nat, quotes : Nat]

Empty == [s \in {} |-> 0]

LeastOf(a, b) == IF a <= b THEN a ELSE b
MostOf(a, b)  == IF a >= b THEN a ELSE b

\* floor_to_interval
Bucket(t) == t - (t % Interval)

\* _WorkingBar.add, for a first and for a further observation.
Opened(price, ticks, n) ==
    [open |-> price, high |-> price, low |-> price, close |-> price,
     ticks |-> ticks, quotes |-> n]
Extended(bar, price, ticks, n) ==
    [bar EXCEPT !.high = MostOf(@, price), !.low = LeastOf(@, price),
                !.close = price, !.ticks = @ + ticks, !.quotes = @ + n]

\* add_observation
Added(bars, at, price, ticks, n) ==
    LET b == Bucket(at) IN
    [s \in DOMAIN bars \cup {b} |->
        IF s # b THEN bars[s]
        ELSE IF b \in DOMAIN bars THEN Extended(bars[b], price, ticks, n)
        ELSE Opened(price, ticks, n)]

\* process_ticker_ticks: the rows beyond the offset, one by one.
AddedRows(bars) ==
    LET after[k \in offset..Len(rows)] ==
          IF k = offset THEN bars
          ELSE Added(after[k - 1], rows[k].at, rows[k].price, 1, 0)
    IN after[Len(rows)]

Newest(starts) ==
    {s \in starts : Cardinality({r \in starts : r > s}) < MaxBars}

\* The intervals whose bars the history request returned.
Loaded == {-2 * Interval, -Interval}

StreamInit ==
    /\ pc = "read"
    /\ warm = FALSE
    /\ rows = <<>>
    /\ offset = 0
    /\ working = Empty
    /\ \E price \in Midpoints :
          history = [s \in Newest(Loaded) |-> Opened(price, 0, 0)]
    /\ completed = 0
    /\ tickCompleted = 0
    /\ quotes = <<>>
    /\ done = {}
    /\ late = {}

-----------------------------------------------------------------------------
(* The world *)

\* A tick arrives while the runner waits, in the order of the exchange.
TickArrives ==
    /\ pc = "read"
    /\ Len(rows) < MaxRows
    /\ \E at \in -1..now, price \in Prices :
          /\ now - at <= MaxDelay
          /\ rows # <<>> => rows[Len(rows)].at <= at
          /\ rows' = Append(rows, [at |-> at, price |-> price])
    /\ UNCHANGED <<pc, warm, offset, working, history, completed,
                   tickCompleted, quotes, done, late>>

-----------------------------------------------------------------------------
(* The runner *)

\* The runner sleeps between two polls; the clock counts in such pauses.
Paused == \A k \in DOMAIN quotes : quotes[k].at < now

WarmedUp == completed >= RequiredBars /\ tickCompleted >= RequiredBars

\* Plausible bug: rows are processed again from the last one on.
ObserveLastRowAgain ==
    /\ pc = "read"
    /\ warm \/ (now < WarmupTimeout /\ ~WarmedUp)
    /\ Paused
    /\ \E price \in Midpoints :
          /\ working' = AddedRows(Added(working, now, price, 0, 1))
          /\ quotes' = Append(quotes, [at |-> now, price |-> price])
    /\ offset' = MostOf(offset, Len(rows) - 1)
    /\ pc' = "complete"
    /\ UNCHANGED <<warm, rows, history, completed, tickCompleted, done, late>>

\* A quote and the new rows, in one go.  The warm-up goes on only while it has
\* time and is not satisfied.
Observe ==
    /\ pc = "read"
    /\ warm \/ (now < WarmupTimeout /\ ~WarmedUp)
    /\ Paused
    /\ \E price \in Midpoints :
          /\ working' = AddedRows(Added(working, now, price, 0, 1))
          /\ quotes' = Append(quotes, [at |-> now, price |-> price])
    /\ offset' = Len(rows)
    /\ pc' = "complete"
    /\ UNCHANGED <<warm, rows, history, completed, tickCompleted, done, late>>

\* Plausible bug: the interval that is still open is turned into a bar, too.
ReadyIncludingCurrent == {s \in DOMAIN working : s <= Bucket(now)}

\* completed_bars: intervals that are over.
Ready == {s \in DOMAIN working : s < Bucket(now)}

\* _trim_history_bars: a bar replaces one of the same interval; of the rest,
\* the newest are kept.
Trimmed(bars, new) == [s \in Newest(DOMAIN bars) |-> bars[s]]

Merged(bars, new) ==
    [s \in DOMAIN bars \cup new |-> IF s \in new THEN working[s] ELSE bars[s]]

TickBackedReady == Cardinality({s \in Ready : working[s].ticks > 0})

\* The intervals that are over become bars.
Complete ==
    /\ pc = "complete"
    /\ history' = Trimmed(Merged(history, Ready), Ready)
    /\ working' = [s \in DOMAIN working \ Ready |-> working[s]]
    /\ IF warm THEN UNCHANGED <<completed, tickCompleted>>
       ELSE /\ completed' = completed + Cardinality(Ready)
            /\ tickCompleted' = tickCompleted + TickBackedReady
    /\ done' = done \cup Ready
    /\ late' = late \cup (done \cap Ready)
    /\ pc' = "read"
    /\ UNCHANGED <<warm, rows, offset, quotes>>

\* The warm-up is satisfied: scoring may begin.
WarmupOver ==
    /\ pc = "read" /\ ~warm
    /\ WarmedUp
    /\ warm' = TRUE
    /\ UNCHANGED <<pc, rows, offset, working, history, completed,
                   tickCompleted, quotes, done, late>>

\* SystemExit: "live 1-second streaming verification failed".
WarmupFails ==
    /\ pc = "read" /\ ~warm
    /\ now >= WarmupTimeout /\ ~WarmedUp
    /\ pc' = "failed"
    /\ UNCHANGED <<warm, rows, offset, working, history, completed,
                   tickCompleted, quotes, done, late>>

RunnerStep == Observe \/ Complete \/ WarmupOver \/ WarmupFails

-----------------------------------------------------------------------------

\* What was seen of an interval, whenever it arrived.
RowsOf(s)   == {k \in 1..offset : Bucket(rows[k].at) = s}
QuotesOf(s) == {k \in DOMAIN quotes : Bucket(quotes[k].at) = s}
PricesOf(s) == {rows[k].price : k \in RowsOf(s)}
                 \cup {quotes[k].price : k \in QuotesOf(s)}

\* A bar the stream put into the history is what was seen of its interval, each
\* row of the stream and each quote counted once, unless ticks of it came too
\* late; and nothing of an interval that is still running is in it.
BarsAsSeen ==
    \A s \in (DOMAIN history \cap done) \ late :
        s \notin DOMAIN working =>
        LET bar == history[s] IN
        /\ bar.ticks = Cardinality(RowsOf(s))
        /\ bar.quotes = Cardinality(QuotesOf(s))
        /\ bar.high = Max(PricesOf(s)) /\ bar.low = Min(PricesOf(s))
        /\ s + Interval <= now

\* A bar once in the history, loaded at the start or streamed, is replaced only
\* by one that is made of late ticks alone and no quote.
OnlyLateTicksReplace ==
    [][\A s \in DOMAIN history \cap DOMAIN history' :
          history[s] # history'[s] =>
             /\ s \in done \cup Loaded
             /\ history'[s].quotes = 0
             /\ history'[s].ticks \in 1..Cardinality(RowsOf(s))]_streamVars

=============================================================================
