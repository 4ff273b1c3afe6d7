----------------------------- MODULE PacingGuard -----------------------------
(***************************************************************************)
(* HistoricalPacingGuard.check (broker/pacing.py), which every historical  *)
(* data request of IBKRBroker.historical_bars passes before it is sent.    *)
(*                                                                         *)
(* The guard keeps a deque of accepted requests and drops those older than *)
(* the total window from its left end.  Here the deque is the part of log  *)
(* from position head on; what lies before head has been dropped and is    *)
(* kept only for the properties, which are about everything ever sent.     *)
(***************************************************************************)
EXTENDS Clock, Sequences, FiniteSets

CONSTANTS
    Keys,             \* (symbol, exchange, what_to_show)
    BidAskKeys,       \* those with what_to_show = "BID_ASK", of weight 2
    DuplicateWindow,  \* 15 seconds
    BurstWindow,      \* 2 seconds
    TotalWindow,      \* 10 minutes
    MaxBurst,         \* max_same_key_in_burst
    MaxTotal          \* max_total

ASSUME PacingAssumption ==
    /\ BidAskKeys \subseteq Keys
    /\ {DuplicateWindow, BurstWindow, TotalWindow, MaxTime} \subseteq Nat
    /\ {MaxBurst, MaxTotal} \subseteq Nat
    /\ DuplicateWindow <= TotalWindow

VARIABLES
    log,      \* every accepted request, once per unit of weight
    head,     \* where the deque begins in log
    answer    \* what the last check said

vars == <<now, log, head, answer>>

Request == [at : Nat, key : Keys]

Answers == {"none", "sent", "duplicate", "burst", "total"}

Weight(k) == IF k \in BidAskKeys THEN 2 ELSE 1

Init ==
    /\ now = 0
    /\ log = <<>>
    /\ head = 1
    /\ answer = "none"

-----------------------------------------------------------------------------

Age(i) == now - log[i].at

\* A plausible bug: nothing is ever dropped.
PrunedNever(h) == h = head

\* Where the deque begins once stale requests have been dropped on the left.
Pruned(h) ==
    /\ h \in head..Len(log) + 1
    /\ \A i \in head..h - 1 : Age(i) > TotalWindow
    /\ h <= Len(log) => Age(h) <= TotalWindow

\* A plausible bug: only the newest request is compared.
DuplicateOfLast(h, k) ==
    h <= Len(log) /\ log[Len(log)].key = k /\ Age(Len(log)) < DuplicateWindow

Duplicate(h, k) ==
    \E i \in h..Len(log) : log[i].key = k /\ Age(i) < DuplicateWindow

Burst(h, k) ==
    Cardinality({i \in h..Len(log) : log[i].key = k /\ Age(i) <= BurstWindow})
        + Weight(k) > MaxBurst

\* A plausible bug: a BID_ASK request is counted once here and twice after.
OverBudgetUnweighted(h, k) == (Len(log) - h + 1) + 1 > MaxTotal

OverBudget(h, k) == (Len(log) - h + 1) + Weight(k) > MaxTotal

\* The tests in the order of the code; the first that fails decides.
Verdict(h, k) ==
    CASE Duplicate(h, k)                      -> "duplicate"
      [] ~Duplicate(h, k) /\ Burst(h, k)      -> "burst"
      [] /\ ~Duplicate(h, k) /\ ~Burst(h, k)
         /\ OverBudget(h, k)                  -> "total"
      [] OTHER                                -> "sent"

\* The request goes out; it is recorded as often as it weighs.
Send(k) ==
    \E h \in head..Len(log) + 1 :
        /\ Pruned(h)
        /\ Verdict(h, k) = "sent"
        /\ head' = h
        /\ log' = log \o [i \in 1..Weight(k) |->
                            [at |-> now, key |-> k]]
        /\ answer' = "sent"
        /\ UNCHANGED now

\* PacingViolation: the deque is pruned all the same, nothing is recorded.
Refuse(k) ==
    \E h \in head..Len(log) + 1 :
        /\ Pruned(h)
        /\ Verdict(h, k) # "sent"
        /\ head' = h
        /\ answer' = Verdict(h, k)
        /\ UNCHANGED <<now, log>>

Tick == Later /\ UNCHANGED <<log, head, answer>>

Next ==
    \/ \E k \in Keys : Send(k)
    \/ \E k \in Keys : Refuse(k)
    \/ Tick

Spec == Init /\ [][Next]_vars

-----------------------------------------------------------------------------

\* The log is a record of requests and the deque a suffix of it, possibly empty.
TypeOK ==
    /\ now \in Nat
    /\ log \in Seq(Request)
    /\ head \in 1..Len(log) + 1
    /\ answer \in Answers

\* In no stretch of total_window, wherever it starts, does what was sent weigh
\* more than max_total, although the guard forgets requests as it goes.
WithinBudget ==
    \A i, j \in DOMAIN log :
        i <= j /\ log[j].at - log[i].at <= TotalWindow => j - i + 1 <= MaxTotal

\* Two requests with the same key are at least duplicate_window apart, other
\* keys in between or not.  (The units of one request bear the same time, and
\* no second request of that key is accepted at that time.)
SameKeyApart ==
    \A i, j \in DOMAIN log :
        (i < j /\ log[i].key = log[j].key) =>
            \/ log[j].at - log[i].at >= DuplicateWindow
            \/ /\ log[j].at = log[i].at
               /\ j - i < Weight(log[i].key)

\* Requests within the burst window are within the duplicate window too: a
\* guard that allows more than one request per burst never refuses for that
\* reason, whatever the mix of keys.
BurstRuleIdle == answer # "burst"

\* How much of everything ever sent lies within the total window.
SentInWindow == Cardinality({i \in DOMAIN log : Age(i) <= TotalWindow})

\* The budget is never used up by forgotten requests: a refusal for want of
\* budget is justified by what was really sent in the window that ends now.
RefusedForCause ==
    [][\A k \in Keys :
          (Refuse(k) /\ answer' = "total") =>
              SentInWindow + Weight(k) > MaxTotal]_vars

=============================================================================
