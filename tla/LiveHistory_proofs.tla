-------------------------- MODULE LiveHistory_proofs --------------------------
(***************************************************************************)
(* Proofs about LiveHistory and the two components it composes.            *)
(*                                                                         *)
(* The guard (PacingGuard), for all windows, limits and sets of keys: the  *)
(* request budget and the spacing of requests hold over everything ever    *)
(* sent, and the guard, which forgets, refuses nothing it need not.  The   *)
(* composition does nothing with it that it does not provide for.          *)
(*                                                                         *)
(* The stream (TickBars), for all intervals, prices, delays of ticks and   *)
(* lengths of the history: its bars are what was seen of their intervals,  *)
(* and give way only to bars of late ticks.                                *)
(***************************************************************************)
EXTENDS LiveHistory, NumberLemmas, SequenceTheorems, FiniteSetTheorems, TLAPS

-----------------------------------------------------------------------------
(* The guard *)

\* The log is in the order of the clock.
Ordered ==
    /\ \A i \in DOMAIN log : log[i].at <= now
    /\ \A i, j \in DOMAIN log : i <= j => log[i].at <= log[j].at

\* What has been dropped lies outside the total window, and stays there.
DroppedAreStale == \A i \in 1..head - 1 : Age(i) > TotalWindow

\* The inductive invariant.
Inv ==
    /\ TypeOK
    /\ Ordered
    /\ DroppedAreStale
    /\ WithinBudget
    /\ SameKeyApart

-----------------------------------------------------------------------------

\* What a well-typed log holds.
LEMMA LogEntries ==
    ASSUME TypeOK
    PROVE  /\ Len(log) \in Nat /\ DOMAIN log = 1..Len(log)
           /\ \A i \in DOMAIN log : log[i] \in Request
           /\ \A i \in DOMAIN log : log[i].at \in Nat /\ Age(i) \in Int
<1>1. log \in Seq(Request) /\ now \in Nat
    BY DEF TypeOK
<1>2. Len(log) \in Nat /\ DOMAIN log = 1..Len(log)
    BY <1>1
<1>3. \A i \in DOMAIN log : log[i] \in Request
    BY <1>1, <1>2
<1> QED
    BY <1>1, <1>2, <1>3 DEF Request, Age

\* Nothing has been sent at the start.
LEMMA InitInv == Init => Inv
    BY DEF Init, Inv, TypeOK, Answers, Ordered, DroppedAreStale,
        WithinBudget, SameKeyApart

\* Time passes; what was stale stays stale.
LEMMA TickInv == Inv /\ Tick => Inv'
<1> SUFFICES ASSUME Inv, Tick PROVE Inv'
    OBVIOUS
<1> USE PacingAssumption DEF PacingAssumption, Inv, Tick, Later
<1>1. \A i \in DOMAIN log : log[i] \in Request /\ log[i].at \in Nat
    BY LogEntries
<1>2. TypeOK' /\ now' = now + 1 /\ log' = log
    BY DEF TypeOK
<1>3. Ordered'
    BY <1>1, <1>2 DEF Ordered, TypeOK
<1>4. DroppedAreStale'
    BY <1>1, <1>2 DEF DroppedAreStale, Age, TypeOK
<1>5. WithinBudget' /\ SameKeyApart'
    BY <1>2 DEF WithinBudget, SameKeyApart
<1> QED
    BY <1>2, <1>3, <1>4, <1>5

\* Pruning up to h keeps exactly what lies within the window.
LEMMA PrunedWindow ==
    ASSUME Inv, NEW h \in head..Len(log) + 1, Pruned(h)
    PROVE  /\ \A i \in 1..h - 1 : Age(i) > TotalWindow
           /\ \A i \in h..Len(log) : Age(i) <= TotalWindow
<1> USE PacingAssumption DEF PacingAssumption, Inv
<1>1. \A i \in DOMAIN log : log[i].at \in Nat
    BY LogEntries
<1>2. head \in Nat /\ Len(log) \in Nat /\ DOMAIN log = 1..Len(log) /\ now \in Nat
    BY DEF TypeOK
<1>3. \A i \in 1..h - 1 : Age(i) > TotalWindow
    BY <1>2 DEF DroppedAreStale, Pruned, TypeOK
<1>4. \A i \in h..Len(log) : Age(i) <= TotalWindow
  <2> SUFFICES ASSUME NEW i \in h..Len(log) PROVE Age(i) <= TotalWindow
      OBVIOUS
  <2>1. i \in DOMAIN log /\ h \in DOMAIN log /\ h <= i
      BY <1>2 DEF TypeOK
  <2>2. log[h].at <= log[i].at /\ Age(h) <= TotalWindow
      BY <2>1 DEF Ordered, Pruned
  <2> QED
      BY <1>1, <1>2, <2>1, <2>2 DEF Age
<1> QED
    BY <1>3, <1>4

\* A refusal drops what is stale and records nothing.
LEMMA RefuseInv ==
    ASSUME Inv, NEW k \in Keys, Refuse(k)
    PROVE  Inv'
<1> PICK h \in head..Len(log) + 1 :
        /\ Pruned(h)
        /\ head' = h
        /\ answer' = Verdict(h, k)
        /\ UNCHANGED <<now, log>>
    BY DEF Refuse
<1>1. Verdict(h, k) \in Answers
    BY DEF Verdict, Answers
<1>2. TypeOK'
    BY <1>1 DEF Inv, TypeOK
<1>3. DroppedAreStale'
    BY PrunedWindow DEF DroppedAreStale, Age
<1> QED
    BY <1>2, <1>3 DEF Inv, Ordered, WithinBudget, SameKeyApart

\* A request is recorded; the verdict leaves it room in the budget and keeps it
\* apart from others of its key.
LEMMA SendInv ==
    ASSUME Inv, NEW k \in Keys, Send(k)
    PROVE  Inv'
<1> DEFINE w == Weight(k)
           n == Len(log)
           new == [at |-> now, key |-> k]
<1> PICK h \in head..n + 1 :
        /\ Pruned(h)
        /\ Verdict(h, k) = "sent"
        /\ head' = h
        /\ log' = log \o [i \in 1..w |-> new]
        /\ answer' = "sent"
        /\ now' = now
    BY DEF Send
<1>1. /\ n \in Nat /\ w \in 1..2 /\ now \in Nat /\ head \in Nat /\ h \in Nat
      /\ h >= 1 /\ DOMAIN log = 1..n /\ new \in Request /\ log \in Seq(Request)
    BY DEF Inv, TypeOK, Weight, Request
<1> HIDE DEF w, n, new
<1>2. /\ [i \in 1..w |-> new] \in Seq(Request)
      /\ Len([i \in 1..w |-> new]) = w
    BY <1>1
<1>3. /\ log' \in Seq(Request) /\ Len(log') = n + w /\ DOMAIN log' = 1..n + w
      /\ \A i \in 1..n : log'[i] = log[i]
      /\ \A i \in n + 1..n + w : log'[i] = new
    BY <1>1, <1>2 DEF n
<1>4. \A i \in 1..n : log[i].at \in Nat /\ log[i].at <= now
    BY <1>1, LogEntries DEF Inv, Ordered
<1>5. ~Duplicate(h, k) /\ (n - h + 1) + w <= MaxTotal
    BY <1>1, PacingAssumption DEF Verdict, OverBudget, PacingAssumption, n, w
<1>6. TypeOK'
    BY <1>1, <1>3 DEF TypeOK, Answers
<1>7. new.at = now /\ new.key = k
    BY DEF new
<1>8. Ordered'
  <2>1. \A i \in 1..n + w : log'[i].at <= now'
      BY <1>1, <1>3, <1>4, <1>7
  <2>2. ASSUME NEW i \in 1..n + w, NEW j \in 1..n + w, i <= j
        PROVE  log'[i].at <= log'[j].at
    <3>1. CASE j <= n
      <4>1. i \in DOMAIN log /\ j \in DOMAIN log
            /\ log'[i] = log[i] /\ log'[j] = log[j]
          BY <1>1, <1>3, <2>2, <3>1
      <4> QED
          BY <2>2, <4>1 DEF Inv, Ordered
    <3>2. CASE j > n
        BY <1>1, <1>3, <1>7, <2>1, <3>2
    <3> QED
        BY <1>1, <3>1, <3>2
  <2> QED
      BY <1>3, <2>1, <2>2 DEF Ordered
<1>9. DroppedAreStale'
    BY <1>1, <1>3, PrunedWindow DEF DroppedAreStale, Age, n
<1>10. WithinBudget'
  <2> SUFFICES ASSUME NEW i \in 1..n + w, NEW j \in 1..n + w, i <= j,
                      log'[j].at - log'[i].at <= TotalWindow
               PROVE  j - i + 1 <= MaxTotal
      BY <1>3 DEF WithinBudget
  <2>0. log'[j].at - log'[i].at <= TotalWindow
      OBVIOUS
  <2>1. CASE j <= n
    <3>1. i \in DOMAIN log /\ j \in DOMAIN log /\ log'[i] = log[i] /\ log'[j] = log[j]
        BY <1>1, <1>3, <2>1
    <3> QED
        BY <2>0, <3>1 DEF Inv, WithinBudget
  <2>2. CASE j > n
    <3>1. log'[j].at = now
        BY <1>1, <1>3, <1>7, <2>2
    <3>2. i >= h
      <4>1. CASE i <= n
        <5>1. ~(Age(i) > TotalWindow)
          <6>1. i \in 1..n /\ log'[i] = log[i]
            BY <1>1, <1>3, <4>1
          <6>2. now - log[i].at <= TotalWindow
            BY <2>0, <3>1, <6>1
          <6> QED
            BY <1>1, <1>4, <6>1, <6>2, PacingAssumption
            DEF Age, PacingAssumption
        <5> QED
            BY <1>1, <4>1, <5>1, PrunedWindow DEF n
      <4>2. CASE i > n
          BY <1>1, <4>2
      <4> QED
          BY <1>1, <4>1, <4>2
    <3> QED
        BY <1>1, <1>5, <3>2, PacingAssumption DEF PacingAssumption
  <2> QED
      BY <1>1, <2>1, <2>2
<1>11. SameKeyApart'
  <2> SUFFICES ASSUME NEW i \in 1..n + w, NEW j \in 1..n + w, i < j,
                      log'[i].key = log'[j].key
               PROVE  \/ log'[j].at - log'[i].at >= DuplicateWindow
                      \/ /\ log'[j].at = log'[i].at
                         /\ j - i < Weight(log'[i].key)
      BY <1>3 DEF SameKeyApart
  <2>1. CASE j <= n
    <3>1. i \in DOMAIN log /\ j \in DOMAIN log
          /\ log'[i] = log[i] /\ log'[j] = log[j]
        BY <1>1, <1>3, <2>1
    <3> QED
        BY <3>1 DEF Inv, SameKeyApart
  <2>2. CASE i <= n /\ j > n
    <3>1. log'[j].at = now /\ log[i].key = k /\ log'[i].at = log[i].at
        BY <1>1, <1>3, <1>7, <2>2
    <3>2. Age(i) >= DuplicateWindow
      <4>1. Age(i) \in Int /\ DuplicateWindow \in Nat /\ TotalWindow \in Nat
          BY <1>1, <1>4, <2>2, PacingAssumption DEF Age, PacingAssumption
      <4>2. CASE i >= h
          BY <1>5, <2>2, <3>1, <4>1, <4>2 DEF Duplicate, n
      <4>3. CASE i < h
        <5>1. Age(i) > TotalWindow
            BY <1>1, <2>2, <4>3, PrunedWindow DEF n
        <5> QED
            BY <4>1, <5>1, PacingAssumption DEF PacingAssumption
      <4> QED
          BY <1>1, <4>2, <4>3
    <3> QED
        BY <3>1, <3>2 DEF Age
  <2>3. CASE i > n
      BY <1>1, <1>3, <1>7, <2>3 DEF w
  <2> QED
      BY <1>1, <2>1, <2>2, <2>3
<1> QED
    BY <1>6, <1>8, <1>9, <1>10, <1>11 DEF Inv

\* Every step of the guard.
LEMMA StepInv == Inv /\ [Next]_vars => Inv'
<1> SUFFICES ASSUME Inv, [Next]_vars PROVE Inv'
    OBVIOUS
<1>1. CASE UNCHANGED vars
    BY <1>1 DEF vars, Inv, TypeOK, Ordered, DroppedAreStale, Age,
        WithinBudget, SameKeyApart
<1> QED
    BY <1>1, TickInv, RefuseInv, SendInv DEF Next

\* Every reachable state satisfies the inductive invariant.
THEOREM Invariance == Spec => []Inv
    BY InitInv, StepInv, PTL DEF Spec

\* No stretch of total_window ever carries more than max_total, whatever the
\* keys, the weights and the times of the requests.
THEOREM BudgetKept == Spec => []WithinBudget
<1>1. Inv => WithinBudget
    BY DEF Inv
<1> QED
    BY <1>1, Invariance, PTL

\* Requests of one key are always duplicate_window apart.
THEOREM KeysApart == Spec => []SameKeyApart
<1>1. Inv => SameKeyApart
    BY DEF Inv
<1> QED
    BY <1>1, Invariance, PTL

-----------------------------------------------------------------------------

\* What the deque holds after pruning is what was sent in the window.
LEMMA DequeIsWindow ==
    ASSUME Inv, NEW h \in head..Len(log) + 1, Pruned(h)
    PROVE  SentInWindow = Len(log) - h + 1
<1>1. h \in Nat /\ h >= 1 /\ h <= Len(log) + 1
      /\ Len(log) \in Nat /\ DOMAIN log = 1..Len(log)
    BY LogEntries DEF Inv, TypeOK
<1>2. \A i \in DOMAIN log : Age(i) \in Int
    BY LogEntries DEF Inv
<1>3. {i \in DOMAIN log : Age(i) <= TotalWindow} = h..Len(log)
    BY <1>1, <1>2, PrunedWindow, PacingAssumption DEF PacingAssumption
<1>4. Cardinality(h..Len(log)) = Len(log) - h + 1
  <2>1. h \in Int /\ Len(log) \in Int
      BY <1>1
  <2>2. Cardinality(h..Len(log)) =
            IF h > Len(log) THEN 0 ELSE Len(log) - h + 1
      BY <2>1, FS_Interval, Zenon
  <2> QED
      BY <1>1, <2>2
<1> QED
    BY <1>3, <1>4 DEF SentInWindow

\* A refusal for want of budget is justified by what was really sent.
THEOREM NoIdleRefusal == Spec => RefusedForCause
<1> DEFINE Cause == \A k \in Keys :
                (Refuse(k) /\ answer' = "total") =>
                    SentInWindow + Weight(k) > MaxTotal
<1>1. Inv => Cause
  <2> SUFFICES ASSUME Inv, NEW k \in Keys,
                      Refuse(k), answer' = "total"
               PROVE  SentInWindow + Weight(k) > MaxTotal
      OBVIOUS
  <2>1. PICK h \in head..Len(log) + 1 : Pruned(h) /\ answer' = Verdict(h, k)
      BY DEF Refuse
  <2>2. OverBudget(h, k)
      BY <2>1 DEF Verdict
  <2>3. SentInWindow = Len(log) - h + 1
      BY <2>1, DequeIsWindow
  <2> QED
      BY <2>2, <2>3 DEF OverBudget
<1>2. Inv => [Cause]_vars
    BY <1>1
<1>3. []Inv => [][Cause]_vars
    BY <1>2, PTL
<1> QED
    BY <1>3, Invariance DEF RefusedForCause

-----------------------------------------------------------------------------

\* With a burst window shorter than the duplicate window and a burst limit of
\* at least two, as the defaults have it, the burst rule never decides.
THEOREM BurstNeverDecides ==
    ASSUME BurstWindow < DuplicateWindow, MaxBurst >= 2
    PROVE  Spec => []BurstRuleIdle
<1>1. Init => BurstRuleIdle
    BY DEF Init, BurstRuleIdle
<1>2. Inv /\ BurstRuleIdle /\ [Next]_vars => BurstRuleIdle'
  <2> SUFFICES ASSUME Inv, BurstRuleIdle, [Next]_vars PROVE BurstRuleIdle'
      OBVIOUS
  <2>1. ASSUME NEW k \in Keys, Refuse(k)
        PROVE  BurstRuleIdle'
    <3>1. PICK h \in head..Len(log) + 1 : answer' = Verdict(h, k)
        BY <2>1 DEF Refuse
    <3>2. CASE Duplicate(h, k)
        BY <3>1, <3>2 DEF Verdict, BurstRuleIdle
    <3>3. CASE ~Duplicate(h, k)
      <4>1. \A i \in h..Len(log) : Age(i) \in Int
          BY LogEntries DEF Inv, TypeOK
      <4>2. {i \in h..Len(log) : log[i].key = k /\ Age(i) <= BurstWindow} = {}
          BY <3>3, <4>1, PacingAssumption DEF Duplicate, PacingAssumption
      <4>3. Cardinality({i \in h..Len(log) : log[i].key = k /\ Age(i) <= BurstWindow}) = 0
          BY <4>2, FS_EmptySet
      <4>4. ~Burst(h, k)
          BY <4>3, PacingAssumption DEF Burst, Weight, PacingAssumption
      <4> QED
          BY <3>1, <3>3, <4>4 DEF Verdict, BurstRuleIdle
    <3> QED
        BY <3>2, <3>3
  <2> QED
      BY <2>1 DEF Next, Send, Tick, Later, vars, BurstRuleIdle
<1> QED
    BY <1>1, <1>2, Invariance, PTL DEF Spec

-----------------------------------------------------------------------------
(* The guard in the composition *)

\* A trade run requests one of the keys.
KeyInv == use # "requests" => key \in Keys

\* The requests of any caller, of a polling and of a streaming trade run are
\* ones the guard's specification describes, so all that is proved of it holds
\* in the composition (IBKRBroker.historical_bars, _broker_trade_run_async).
THEOREM GuardInside == LiveSpec => Spec
<1>1. LiveInit => Init /\ KeyInv
  BY DEF LiveInit, KeyInv
<1>2. KeyInv /\ [LiveNext]_liveVars => KeyInv' /\ [Next]_vars
  <2> SUFFICES ASSUME KeyInv, [LiveNext]_liveVars PROVE KeyInv' /\ [Next]_vars
    OBVIOUS
  <2>1. KeyInv'
    BY DEF KeyInv, LiveNext, liveVars, AnyRequest, StartupRequest, Poll, PollRefused,
           StreamStep, ClockTick
  <2> SUFFICES [Next]_vars
    BY <2>1
  <2>2. CASE AnyRequest
    BY <2>2 DEF AnyRequest, Next
  <2>3. CASE StartupRequest \/ Poll \/ PollRefused
    BY <2>3 DEF StartupRequest, Poll, PollRefused, KeyInv, Next
  <2>4. CASE ClockTick
    BY <2>4 DEF ClockTick, Next
  <2>5. CASE StreamStep \/ UNCHANGED liveVars
    BY <2>5 DEF StreamStep, liveVars, guardVars, vars
  <2> QED  BY <2>2, <2>3, <2>4, <2>5 DEF LiveNext
<1> QED  BY <1>1, <1>2, PTL DEF LiveSpec, Spec

-----------------------------------------------------------------------------
(* The stream: what is known of its bars *)

\* Where an interval can begin.
Starts == {Interval * q : q \in Int}

\* An observation, of either kind, and a bar.
Observed == [at : Int, price : Nat]
BarShape == [open : Nat, high : Nat, low : Nat, close : Nat,
             ticks : Nat, quotes : Nat]

\* Which of the first n observations belong to the interval s, and their prices.
Filed(obs, n, s) == {i \in 1..n : Bucket(obs[i].at) = s}
Paid(obs, n, s)  == {obs[i].price : i \in Filed(obs, n, s)}

\* A bar is what the first k rows r and the first n quotes q show of s.
Shows(bar, r, k, q, n, s) ==
    /\ bar.ticks = Cardinality(Filed(r, k, s))
    /\ bar.quotes = Cardinality(Filed(q, n, s))
    /\ {bar.high, bar.low} \subseteq Paid(r, k, s) \cup Paid(q, n, s)
    /\ \A p \in Paid(r, k, s) \cup Paid(q, n, s) : bar.low <= p /\ p <= bar.high

\* What bars at work hold of them: of an interval not yet turned into a bar
\* everything, of one that was, or was loaded, ticks only, and nothing has been
\* seen of an interval without either.
Gathered(bars, r, k, q, n) ==
    /\ DOMAIN bars \subseteq Starts
    /\ \A s \in DOMAIN bars : bars[s] \in BarShape
    /\ \A s \in DOMAIN bars \ done : Shows(bars[s], r, k, q, n, s)
    /\ \A s \in DOMAIN bars \cap (done \cup Loaded) :
          bars[s].quotes = 0 /\ bars[s].ticks \in 1..Cardinality(Filed(r, k, s))
    /\ \A s \in Starts \ (DOMAIN bars \cup done) :
          Filed(r, k, s) = {} /\ Filed(q, n, s) = {}

StreamTypes ==
    /\ now \in Nat
    /\ rows \in Seq(Observed)
    /\ quotes \in Seq(Observed)
    /\ offset \in 0..Len(rows)

WorkingInv == Gathered(working, rows, offset, quotes, Len(quotes))

\* An interval is turned into a bar when it is over.
DoneAreOver == \A s \in done : s \in Starts /\ s + Interval <= now

HistoryFrom == DOMAIN history \subseteq done \cup Loaded

\* A bar of the history shows its interval until ticks come late.
HistoryShows ==
    \A s \in (DOMAIN history \cap done) \ late : s \notin DOMAIN working =>
        /\ history[s] \in BarShape
        /\ Shows(history[s], rows, offset, quotes, Len(quotes), s)

\* The inductive invariant of the stream.
StreamInv ==
    StreamTypes /\ WorkingInv /\ DoneAreOver /\ HistoryFrom /\ HistoryShows

-----------------------------------------------------------------------------

\* The parameters of the stream.
LEMMA StreamParameters ==
    /\ Interval \in Nat \ {0}
    /\ \A p \in Prices \cup Midpoints : p \in Nat \ {0}
  BY TickBarsAssumption DEF TickBarsAssumption

\* The interval of a time begins at most one interval before it.
LEMMA BucketOf ==
    ASSUME NEW t \in Int
    PROVE  /\ Bucket(t) \in Starts /\ Bucket(t) \in Int
           /\ Bucket(t) <= t /\ t < Bucket(t) + Interval
<1> DEFINE q == t \div Interval
           r == t % Interval
<1>1. Interval \in Nat \ {0}
  BY StreamParameters
<1>2. q \in Int /\ r \in 0..(Interval - 1) /\ t = Interval * q + r
  BY <1>1
<1>3. Bucket(t) = t - r
  BY DEF Bucket
<1> HIDE DEF q, r
<1>4. Interval * q \in Int
  BY <1>1, <1>2
<1>5. Bucket(t) = Interval * q
  BY <1>2, <1>3, <1>4
<1>6. Bucket(t) \in Starts
  BY <1>2, <1>5 DEF Starts
<1> QED  BY <1>1, <1>2, <1>4, <1>5, <1>6

\* Intervals do not overlap.
LEMMA StartsApart ==
    ASSUME NEW a \in Starts, NEW b \in Starts
    PROVE  a \in Int /\ b \in Int /\ (a < b => a + Interval <= b)
<1>1. Interval \in Nat \ {0}
  BY StreamParameters
<1>2. PICK p \in Int : a = Interval * p
  BY DEF Starts
<1>3. PICK q \in Int : b = Interval * q
  BY DEF Starts
<1>4. a \in Int /\ b \in Int
  BY <1>1, <1>2, <1>3
<1>5. ASSUME a < b PROVE a + Interval <= b
  <2>1. p < q
    <3> SUFFICES ASSUME q <= p PROVE FALSE
      BY <1>2
    <3>1. Interval * q <= Interval * p
      BY <1>1
    <3> QED  BY <1>2, <1>3, <1>4, <1>5, <3>1
  <2>2. p + 1 <= q
    BY <2>1
  <2>3. Interval * (p + 1) <= Interval * q
    BY <1>1, <2>2
  <2>4. Interval * (p + 1) = (Interval * p) + Interval
    BY <1>1
  <2> QED  BY <1>2, <1>3, <2>3, <2>4
<1> QED  BY <1>4, <1>5

-----------------------------------------------------------------------------
(* Filing *)

\* Few observations file finitely many.
LEMMA FiledFinite ==
    ASSUME NEW obs, NEW n \in Nat, NEW s
    PROVE  /\ IsFiniteSet(Filed(obs, n, s))
           /\ Cardinality(Filed(obs, n, s)) \in Nat
<1>1. IsFiniteSet(1..n)
  BY FS_Interval
<1>2. Filed(obs, n, s) \subseteq 1..n
  BY DEF Filed
<1> QED  BY <1>1, <1>2, FS_Subset, FS_CardinalityType

\* One observation more: it counts in its interval and in no other.
LEMMA FiledNext ==
    ASSUME NEW obs, NEW n \in Nat, NEW s
    PROVE  /\ Bucket(obs[n + 1].at) = s =>
                 /\ Filed(obs, n + 1, s) = Filed(obs, n, s) \cup {n + 1}
                 /\ Cardinality(Filed(obs, n + 1, s)) = Cardinality(Filed(obs, n, s)) + 1
                 /\ Paid(obs, n + 1, s) = Paid(obs, n, s) \cup {obs[n + 1].price}
           /\ Bucket(obs[n + 1].at) # s =>
                 /\ Filed(obs, n + 1, s) = Filed(obs, n, s)
                 /\ Paid(obs, n + 1, s) = Paid(obs, n, s)
<1>1. 1..(n + 1) = (1..n) \cup {n + 1}
  OBVIOUS
<1>2. ASSUME Bucket(obs[n + 1].at) = s
      PROVE  /\ Filed(obs, n + 1, s) = Filed(obs, n, s) \cup {n + 1}
             /\ Cardinality(Filed(obs, n + 1, s)) = Cardinality(Filed(obs, n, s)) + 1
             /\ Paid(obs, n + 1, s) = Paid(obs, n, s) \cup {obs[n + 1].price}
  <2>1. Filed(obs, n + 1, s) = Filed(obs, n, s) \cup {n + 1}
    BY <1>1, <1>2 DEF Filed
  <2>2. n + 1 \notin Filed(obs, n, s)
    BY DEF Filed
  <2>3. IsFiniteSet(Filed(obs, n, s))
    BY FiledFinite
  <2>4. Cardinality(Filed(obs, n, s) \cup {n + 1}) = Cardinality(Filed(obs, n, s)) + 1
    BY <2>2, <2>3, FS_AddElement
  <2>5. Paid(obs, n + 1, s) = Paid(obs, n, s) \cup {obs[n + 1].price}
    BY <2>1 DEF Paid
  <2> QED  BY <2>1, <2>4, <2>5
<1>3. ASSUME Bucket(obs[n + 1].at) # s
      PROVE  /\ Filed(obs, n + 1, s) = Filed(obs, n, s)
             /\ Paid(obs, n + 1, s) = Paid(obs, n, s)
  <2>1. Filed(obs, n + 1, s) = Filed(obs, n, s)
    BY <1>1, <1>3 DEF Filed
  <2> QED  BY <2>1 DEF Paid
<1> QED  BY <1>2, <1>3

\* Only the observations counted matter.
LEMMA FiledAgrees ==
    ASSUME NEW obs, NEW other, NEW n \in Nat, NEW s,
           \A i \in 1..n : other[i] = obs[i]
    PROVE  /\ Filed(other, n, s) = Filed(obs, n, s)
           /\ Paid(other, n, s) = Paid(obs, n, s)
<1>1. Filed(other, n, s) = Filed(obs, n, s)
  BY DEF Filed
<1>2. \A i \in Filed(obs, n, s) : other[i] = obs[i]
  BY DEF Filed
<1> QED  BY <1>1, <1>2 DEF Paid

\* Prices are numbers.
LEMMA PaidNumbers ==
    ASSUME NEW obs, NEW n \in Nat, NEW s, \A i \in 1..n : obs[i] \in Observed
    PROVE  Paid(obs, n, s) \subseteq Nat
  BY DEF Paid, Filed, Observed

-----------------------------------------------------------------------------
(* One observation more *)

\* Adding an observation to the bars at work changes the bar of its interval,
\* or begins it.
LEMMA AddedBars ==
    ASSUME NEW bars, NEW at, NEW p, NEW t, NEW q
    PROVE  /\ \A s : s \in DOMAIN Added(bars, at, p, t, q)
                      <=> s \in DOMAIN bars \/ s = Bucket(at)
           /\ \A s \in DOMAIN bars : s # Bucket(at) =>
                 Added(bars, at, p, t, q)[s] = bars[s]
           /\ Added(bars, at, p, t, q)[Bucket(at)] =
                 IF Bucket(at) \in DOMAIN bars
                 THEN Extended(bars[Bucket(at)], p, t, q) ELSE Opened(p, t, q)
  BY DEF Added

\* What a first and a further observation make of a bar.
LEMMA BarFields ==
    ASSUME NEW p \in Nat, NEW t \in Nat, NEW q \in Nat
    PROVE  /\ Opened(p, t, q) \in BarShape
           /\ Opened(p, t, q).ticks = t /\ Opened(p, t, q).quotes = q
           /\ Opened(p, t, q).high = p /\ Opened(p, t, q).low = p
           /\ \A bar \in BarShape :
                 /\ Extended(bar, p, t, q) \in BarShape
                 /\ Extended(bar, p, t, q).ticks = bar.ticks + t
                 /\ Extended(bar, p, t, q).quotes = bar.quotes + q
                 /\ Extended(bar, p, t, q).high = IF bar.high >= p THEN bar.high ELSE p
                 /\ Extended(bar, p, t, q).low = IF bar.low <= p THEN bar.low ELSE p
<1>1. /\ Opened(p, t, q) \in BarShape
      /\ Opened(p, t, q).ticks = t /\ Opened(p, t, q).quotes = q
      /\ Opened(p, t, q).high = p /\ Opened(p, t, q).low = p
  BY DEF Opened, BarShape
<1>2. ASSUME NEW bar \in BarShape
      PROVE  /\ Extended(bar, p, t, q) \in BarShape
             /\ Extended(bar, p, t, q).ticks = bar.ticks + t
             /\ Extended(bar, p, t, q).quotes = bar.quotes + q
             /\ Extended(bar, p, t, q).high = IF bar.high >= p THEN bar.high ELSE p
             /\ Extended(bar, p, t, q).low = IF bar.low <= p THEN bar.low ELSE p
  <2> DEFINE high == IF bar.high >= p THEN bar.high ELSE p
             low == IF bar.low <= p THEN bar.low ELSE p
             ticks == bar.ticks + t
             quoted == bar.quotes + q
  <2>1. Extended(bar, p, t, q) =
          [bar EXCEPT !.high = high, !.low = low, !.close = p,
                      !.ticks = ticks, !.quotes = quoted]
    BY DEF Extended, MostOf, LeastOf
  <2>2. /\ bar = [open |-> bar.open, high |-> bar.high, low |-> bar.low,
                  close |-> bar.close, ticks |-> bar.ticks, quotes |-> bar.quotes]
        /\ bar.open \in Nat /\ bar.high \in Nat /\ bar.low \in Nat
        /\ bar.ticks \in Nat /\ bar.quotes \in Nat
    BY DEF BarShape
  <2>3. high \in Nat /\ low \in Nat /\ ticks \in Nat /\ quoted \in Nat
    BY <2>2
  <2> HIDE DEF high, low, ticks, quoted
  <2>4. Extended(bar, p, t, q) =
          [open |-> bar.open, high |-> high, low |-> low, close |-> p,
           ticks |-> ticks, quotes |-> quoted]
    BY <2>1, <2>2
  <2> QED  BY <2>2, <2>3, <2>4 DEF BarShape, high, low, ticks, quoted
<1> QED  BY <1>1, <1>2

\* A bar shows the prices P, nt ticks and nq quotes.
Showing(bar, nt, nq, P) ==
    /\ bar.ticks = nt /\ bar.quotes = nq
    /\ {bar.high, bar.low} \subseteq P
    /\ \A p \in P : bar.low <= p /\ p <= bar.high

\* It goes on showing them when an observation joins them.
LEMMA ExtendedShows ==
    ASSUME NEW bar \in BarShape, NEW nt, NEW nq, NEW P \in SUBSET Nat,
           Showing(bar, nt, nq, P),
           NEW p \in Nat, NEW t \in Nat, NEW q \in Nat
    PROVE  Showing(Extended(bar, p, t, q), nt + t, nq + q, P \cup {p})
<1> DEFINE new == Extended(bar, p, t, q)
<1>1. /\ new.ticks = bar.ticks + t /\ new.quotes = bar.quotes + q
      /\ new.high = IF bar.high >= p THEN bar.high ELSE p
      /\ new.low = IF bar.low <= p THEN bar.low ELSE p
  BY BarFields
<1>2. /\ bar.ticks = nt /\ bar.quotes = nq /\ bar.high \in P /\ bar.low \in P
      /\ \A x \in P : bar.low <= x /\ x <= bar.high
  BY DEF Showing
<1>3. bar.high \in Nat /\ bar.low \in Nat
  BY DEF BarShape
<1> HIDE DEF new
<1>4. \A x \in P \cup {p} : new.low <= x /\ x <= new.high
  BY <1>1, <1>2, <1>3
<1> QED  BY <1>1, <1>2, <1>4 DEF Showing, new

\* The same with the first observation.
LEMMA OpenedShows ==
    ASSUME NEW p \in Nat, NEW t \in Nat, NEW q \in Nat
    PROVE  Showing(Opened(p, t, q), t, q, {p})
  BY BarFields DEF Showing

\* What the first k rows r and n quotes q show grows by an observation at a time
\* of the interval b: to the first k2 rows r2 and n2 quotes q2.
Grows(r, k, q, n, r2, k2, q2, n2, b, p, t, u) ==
    /\ Cardinality(Filed(r2, k2, b)) = Cardinality(Filed(r, k, b)) + t
    /\ Cardinality(Filed(q2, n2, b)) = Cardinality(Filed(q, n, b)) + u
    /\ Paid(r2, k2, b) \cup Paid(q2, n2, b) = Paid(r, k, b) \cup Paid(q, n, b) \cup {p}
    /\ \A s : s # b => /\ Filed(r2, k2, s) = Filed(r, k, s)
                       /\ Filed(q2, n2, s) = Filed(q, n, s)
                       /\ Paid(r2, k2, s) = Paid(r, k, s)
                       /\ Paid(q2, n2, s) = Paid(q, n, s)

\* The bars at work hold one observation more, a tick of any interval or a
\* quote of one that has not been turned into a bar.
LEMMA OneMoreGathered ==
    ASSUME NEW bars, NEW r, NEW k \in Nat, NEW q, NEW n \in Nat,
           NEW r2, NEW k2 \in Nat, NEW q2, NEW n2 \in Nat,
           \A i \in 1..k : r[i] \in Observed,
           \A i \in 1..n : q[i] \in Observed,
           NEW at \in Int, NEW p \in Nat, NEW t \in Nat, NEW u \in Nat,
           Grows(r, k, q, n, r2, k2, q2, n2, Bucket(at), p, t, u),
           \/ t = 1 /\ u = 0
           \/ Bucket(at) \notin done \cup Loaded,
           Gathered(bars, r, k, q, n)
    PROVE  Gathered(Added(bars, at, p, t, u), r2, k2, q2, n2)
<1> DEFINE b == Bucket(at)
           new == Added(bars, at, p, t, u)
<1>2. b \in Starts
  BY BucketOf
<1>3. /\ \A s : s \in DOMAIN new <=> s \in DOMAIN bars \/ s = b
      /\ \A s \in DOMAIN bars : s # b => new[s] = bars[s]
      /\ b \in DOMAIN bars => new[b] = Extended(bars[b], p, t, u)
      /\ b \notin DOMAIN bars => new[b] = Opened(p, t, u)
  BY AddedBars
<1>4. /\ Cardinality(Filed(r2, k2, b)) = Cardinality(Filed(r, k, b)) + t
      /\ Cardinality(Filed(q2, n2, b)) = Cardinality(Filed(q, n, b)) + u
      /\ Paid(r2, k2, b) \cup Paid(q2, n2, b) = Paid(r, k, b) \cup Paid(q, n, b) \cup {p}
      /\ \A s : s # b => /\ Filed(r2, k2, s) = Filed(r, k, s)
                         /\ Filed(q2, n2, s) = Filed(q, n, s)
                         /\ Paid(r2, k2, s) = Paid(r, k, s)
                         /\ Paid(q2, n2, s) = Paid(q, n, s)
  BY DEF Grows
<1>5. (t = 1 /\ u = 0) \/ b \notin done \cup Loaded
  OBVIOUS
<1>6. Paid(r, k, b) \cup Paid(q, n, b) \in SUBSET Nat
  <2>1. Paid(r, k, b) \subseteq Nat /\ Paid(q, n, b) \subseteq Nat
    BY PaidNumbers
  <2> QED  BY <2>1
<1>7. Cardinality(Filed(r, k, b)) \in Nat /\ Cardinality(Filed(q, n, b)) \in Nat
  BY FiledFinite
<1>8. /\ DOMAIN bars \subseteq Starts
      /\ \A s \in DOMAIN bars : bars[s] \in BarShape
      /\ \A s \in DOMAIN bars \ done : Shows(bars[s], r, k, q, n, s)
      /\ \A s \in DOMAIN bars \cap (done \cup Loaded) :
            bars[s].quotes = 0 /\ bars[s].ticks \in 1..Cardinality(Filed(r, k, s))
      /\ \A s \in Starts \ (DOMAIN bars \cup done) :
            Filed(r, k, s) = {} /\ Filed(q, n, s) = {}
  BY DEF Gathered
<1> HIDE DEF new, b
<1>9. /\ new[b] \in BarShape
      /\ b \in DOMAIN bars => new[b].ticks = bars[b].ticks + t
                              /\ new[b].quotes = bars[b].quotes + u
      /\ b \notin DOMAIN bars => new[b].ticks = t /\ new[b].quotes = u
  <2>1. CASE b \in DOMAIN bars
    <3>1. bars[b] \in BarShape
      BY <1>8, <2>1
    <3> QED  BY <1>3, <2>1, <3>1, BarFields
  <2>2. CASE b \notin DOMAIN bars
    BY <1>3, <2>2, BarFields
  <2> QED  BY <2>1, <2>2
<1>10. b \notin done => Shows(new[b], r2, k2, q2, n2, b)
  <2> SUFFICES ASSUME b \notin done PROVE Shows(new[b], r2, k2, q2, n2, b)
    OBVIOUS
  <2> DEFINE P == Paid(r, k, b) \cup Paid(q, n, b)
             nt == Cardinality(Filed(r, k, b))
             nq == Cardinality(Filed(q, n, b))
  <2>1. CASE b \in DOMAIN bars
    <3>1. Shows(bars[b], r, k, q, n, b)
      BY <1>8, <2>1
    <3>2. bars[b] \in BarShape
      BY <1>8, <2>1
    <3>3. Showing(bars[b], nt, nq, P)
      BY <3>1 DEF Shows, Showing
    <3> HIDE DEF P, nt, nq
    <3>4. P \in SUBSET Nat
      BY <1>6 DEF P
    <3>5. Showing(new[b], nt + t, nq + u, P \cup {p})
      BY <1>3, <2>1, <3>2, <3>3, <3>4, ExtendedShows
    <3>6. P \cup {p} = Paid(r2, k2, b) \cup Paid(q2, n2, b)
      BY <1>4 DEF P
    <3> QED  BY <1>4, <3>5, <3>6 DEF Showing, Shows, nt, nq
  <2>2. CASE b \notin DOMAIN bars
    <3>1. Filed(r, k, b) = {} /\ Filed(q, n, b) = {}
      BY <1>2, <1>8, <2>2
    <3>2. Paid(r, k, b) = {} /\ Paid(q, n, b) = {}
      BY <3>1 DEF Paid
    <3>3. nt = 0 /\ nq = 0
      BY <3>1, FS_EmptySet
    <3>4. Showing(new[b], t, u, {p})
      BY <1>3, <2>2, OpenedShows
    <3>5. Paid(r2, k2, b) \cup Paid(q2, n2, b) = {p}
      BY <1>4, <3>2
    <3> QED  BY <1>4, <3>3, <3>4, <3>5 DEF Showing, Shows
  <2> QED  BY <2>1, <2>2
<1>11. \A s \in DOMAIN new \ done : Shows(new[s], r2, k2, q2, n2, s)
  <2> SUFFICES ASSUME NEW s \in DOMAIN new \ done, s # b
               PROVE  Shows(new[s], r2, k2, q2, n2, s)
    BY <1>10
  <2>1. s \in DOMAIN bars /\ new[s] = bars[s]
    BY <1>3
  <2>2. Shows(bars[s], r, k, q, n, s)
    BY <1>8, <2>1
  <2> QED  BY <1>4, <2>1, <2>2 DEF Shows
<1>12. \A s \in DOMAIN new \cap (done \cup Loaded) :
          new[s].quotes = 0 /\ new[s].ticks \in 1..Cardinality(Filed(r2, k2, s))
  <2> SUFFICES ASSUME NEW s \in DOMAIN new \cap (done \cup Loaded)
               PROVE  new[s].quotes = 0
                      /\ new[s].ticks \in 1..Cardinality(Filed(r2, k2, s))
    OBVIOUS
  <2>1. CASE s # b
    BY <1>3, <1>4, <1>8, <2>1
  <2>2. CASE s = b /\ b \in DOMAIN bars
    BY <1>4, <1>5, <1>7, <1>8, <1>9, <2>2
  <2>3. CASE s = b /\ b \notin DOMAIN bars
    BY <1>4, <1>5, <1>7, <1>9, <2>3
  <2> QED  BY <2>1, <2>2, <2>3
<1>13. \A s \in Starts \ (DOMAIN new \cup done) :
          Filed(r2, k2, s) = {} /\ Filed(q2, n2, s) = {}
  BY <1>3, <1>4, <1>8
<1>14. /\ DOMAIN new \subseteq Starts
       /\ \A s \in DOMAIN new : new[s] \in BarShape
  BY <1>2, <1>3, <1>8, <1>9
<1>15. Gathered(new, r2, k2, q2, n2)
  BY <1>11, <1>12, <1>13, <1>14 DEF Gathered
<1> QED  BY <1>15 DEF new

\* A tick more.
LEMMA TickGathered ==
    ASSUME NEW bars, NEW r, NEW k \in Nat, NEW q, NEW n \in Nat,
           \A i \in 1..(k + 1) : r[i] \in Observed,
           \A i \in 1..n : q[i] \in Observed,
           Gathered(bars, r, k, q, n)
    PROVE  Gathered(Added(bars, r[k + 1].at, r[k + 1].price, 1, 0), r, k + 1, q, n)
<1> DEFINE at == r[k + 1].at
           p == r[k + 1].price
           j == k + 1
<1>1. at \in Int /\ p \in Nat /\ j \in Nat
  <2>1. r[k + 1] \in Observed
    OBVIOUS
  <2> QED  BY <2>1 DEF Observed
<1>2. Cardinality(Filed(q, n, Bucket(at))) \in Nat
  BY FiledFinite
<1>3. /\ Cardinality(Filed(r, j, Bucket(at))) = Cardinality(Filed(r, k, Bucket(at))) + 1
      /\ Paid(r, j, Bucket(at)) = Paid(r, k, Bucket(at)) \cup {p}
      /\ \A s : s # Bucket(at) => /\ Filed(r, j, s) = Filed(r, k, s)
                                  /\ Paid(r, j, s) = Paid(r, k, s)
  BY FiledNext
<1> HIDE DEF at, p, j
<1>4. Grows(r, k, q, n, r, j, q, n, Bucket(at), p, 1, 0)
  BY <1>2, <1>3 DEF Grows
<1>5. \A i \in 1..k : r[i] \in Observed
  OBVIOUS
<1>6. Gathered(Added(bars, at, p, 1, 0), r, j, q, n)
  BY <1>1, <1>4, <1>5, OneMoreGathered
<1> QED  BY <1>6 DEF at, p, j

\* A quote more, of an interval that is still running.
LEMMA QuoteGathered ==
    ASSUME NEW bars, NEW r, NEW k \in Nat, NEW q, NEW n \in Nat, NEW q2,
           \A i \in 1..k : r[i] \in Observed,
           \A i \in 1..n : q[i] \in Observed /\ q2[i] = q[i],
           q2[n + 1] \in Observed,
           Bucket(q2[n + 1].at) \notin done \cup Loaded,
           Gathered(bars, r, k, q, n)
    PROVE  Gathered(Added(bars, q2[n + 1].at, q2[n + 1].price, 0, 1), r, k, q2, n + 1)
<1> DEFINE at == q2[n + 1].at
           p == q2[n + 1].price
           m == n + 1
<1>1. at \in Int /\ p \in Nat /\ m \in Nat
  BY DEF Observed
<1>2. Cardinality(Filed(r, k, Bucket(at))) \in Nat
  BY FiledFinite
<1>3. \A s : Filed(q2, n, s) = Filed(q, n, s) /\ Paid(q2, n, s) = Paid(q, n, s)
  BY FiledAgrees
<1>4. /\ Cardinality(Filed(q2, m, Bucket(at))) = Cardinality(Filed(q2, n, Bucket(at))) + 1
      /\ Paid(q2, m, Bucket(at)) = Paid(q2, n, Bucket(at)) \cup {p}
      /\ \A s : s # Bucket(at) => /\ Filed(q2, m, s) = Filed(q2, n, s)
                                  /\ Paid(q2, m, s) = Paid(q2, n, s)
  BY FiledNext
<1>5. Bucket(at) \notin done \cup Loaded
  OBVIOUS
<1> HIDE DEF at, p, m
<1>6. Grows(r, k, q, n, r, k, q2, m, Bucket(at), p, 0, 1)
  BY <1>2, <1>3, <1>4 DEF Grows
<1>7. \A i \in 1..n : q[i] \in Observed
  OBVIOUS
<1>8. Gathered(Added(bars, at, p, 0, 1), r, k, q2, m)
  BY <1>1, <1>5, <1>6, <1>7, OneMoreGathered
<1> QED  BY <1>8 DEF at, p, m

-----------------------------------------------------------------------------
(* The new rows of a poll *)

\* The bars after each of the rows from the offset to m.
RowTable(f, bars, m) ==
    f = [k \in offset..m |->
            IF k = offset THEN bars
            ELSE Added(f[k - 1], rows[k].at, rows[k].price, 1, 0)]

\* One row of the table.
LEMMA RowTableEntry ==
    ASSUME offset \in Nat, NEW m \in Nat, NEW bars, NEW f, RowTable(f, bars, m),
           NEW k \in offset..m
    PROVE  f[k] = IF k = offset THEN bars
                  ELSE Added(f[k - 1], rows[k].at, rows[k].price, 1, 0)
  BY Zenon DEF RowTable

\* There is such a table, however many rows there are.
LEMMA RowTableExists ==
    ASSUME offset \in Nat, NEW bars, NEW last \in Nat, offset <= last
    PROVE  \E f : RowTable(f, bars, last)
<1> DEFINE Bad == {m \in Nat : offset <= m /\ ~ \E f : RowTable(f, bars, m)}
<1> SUFFICES ASSUME Bad # {} PROVE FALSE
  OBVIOUS
<1>1. PICK m \in Bad : \A k \in Bad : m <= k
  <2>1. Bad \in SUBSET Nat
    OBVIOUS
  <2> HIDE DEF Bad
  <2> QED  BY <2>1, LeastElement
<1>2. m \in Nat /\ offset <= m /\ ~ \E f : RowTable(f, bars, m)
  OBVIOUS
<1>3. CASE m = offset
  <2> DEFINE f == [k \in offset..m |-> bars]
  <2>1. \A k \in offset..m : k = offset
    BY <1>2, <1>3
  <2>2. f = [k \in offset..m |->
                IF k = offset THEN bars
                ELSE Added(f[k - 1], rows[k].at, rows[k].price, 1, 0)]
    BY <2>1
  <2>3. RowTable(f, bars, m)
    BY <2>2 DEF RowTable
  <2> QED  BY <1>2, <2>3
<1>4. CASE m # offset
  <2> DEFINE j == m - 1
  <2>1. j \in Nat /\ offset <= j /\ j < m
    BY <1>2, <1>4
  <2>2. PICK g : RowTable(g, bars, j)
    <3>1. j \notin Bad
      BY <1>1, <1>2, <2>1
    <3> QED  BY <2>1, <3>1
  <2> DEFINE f == [k \in offset..m |->
                     IF k = m THEN Added(g[j], rows[m].at, rows[m].price, 1, 0)
                     ELSE g[k]]
  <2>3. \A k \in offset..m : k # m => k \in offset..j
    BY <1>2, <2>1
  <2>4. \A k \in offset..m : k # offset => k - 1 \in offset..m /\ k - 1 # m
    BY <1>2, <2>1
  <2> HIDE DEF j
  <2>5. ASSUME NEW k \in offset..m
        PROVE  f[k] = IF k = offset THEN bars
                      ELSE Added(f[k - 1], rows[k].at, rows[k].price, 1, 0)
    <3>1. CASE k = m
      <4>1. k # offset /\ k - 1 = j
        BY <1>4, <3>1 DEF j
      <4>2. f[k - 1] = g[j]
        BY <2>4, <4>1
      <4> QED  BY <3>1, <4>1, <4>2
    <3>2. CASE k # m
      <4>1. k \in offset..j /\ f[k] = g[k]
        BY <2>3, <3>2
      <4>2. k # offset => f[k - 1] = g[k - 1]
        BY <2>4
      <4>3. g[k] = IF k = offset THEN bars
                   ELSE Added(g[k - 1], rows[k].at, rows[k].price, 1, 0)
        BY <2>1, <2>2, <4>1, RowTableEntry
      <4> QED  BY <4>1, <4>2, <4>3
    <3> QED  BY <3>1, <3>2
  <2>6. f = [k \in offset..m |-> f[k]]
    OBVIOUS
  <2> HIDE DEF f
  <2>7. RowTable(f, bars, m)
    BY <2>5, <2>6 DEF RowTable
  <2> QED  BY <1>2, <2>7
<1> QED  BY <1>3, <1>4

\* The rows of a poll have been added one by one.
LEMMA AddedRowsTable ==
    ASSUME offset \in Nat, Len(rows) \in Nat, offset <= Len(rows), NEW bars
    PROVE  \E f : RowTable(f, bars, Len(rows)) /\ AddedRows(bars) = f[Len(rows)]
<1> DEFINE g == CHOOSE f : RowTable(f, bars, Len(rows))
<1>1. RowTable(g, bars, Len(rows))
  <2>1. \E f : RowTable(f, bars, Len(rows))
    BY RowTableExists
  <2> QED  BY <2>1, Zenon
<1>2. AddedRows(bars) = g[Len(rows)]
  BY Zenon DEF AddedRows, RowTable
<1> QED  BY <1>1, <1>2

\* After a poll the bars at work hold all rows there are; every new row has a
\* bar at work, and none is gone.
LEMMA RowsGathered ==
    ASSUME offset \in Nat, Len(rows) \in Nat, offset <= Len(rows),
           \A i \in 1..Len(rows) : rows[i] \in Observed,
           NEW bars, NEW q, NEW n \in Nat, \A i \in 1..n : q[i] \in Observed,
           Gathered(bars, rows, offset, q, n)
    PROVE  /\ Gathered(AddedRows(bars), rows, Len(rows), q, n)
           /\ DOMAIN bars \subseteq DOMAIN AddedRows(bars)
           /\ \A i \in (offset + 1)..Len(rows) :
                 Bucket(rows[i].at) \in DOMAIN AddedRows(bars)
<1>1. PICK f : RowTable(f, bars, Len(rows)) /\ AddedRows(bars) = f[Len(rows)]
  BY AddedRowsTable
<1> DEFINE Holds(m) ==
              /\ Gathered(f[m], rows, m, q, n)
              /\ \A s \in DOMAIN bars : s \in DOMAIN f[m]
              /\ \A i \in (offset + 1)..m : Bucket(rows[i].at) \in DOMAIN f[m]
           Bad == {m \in offset..Len(rows) : ~ Holds(m)}
<1>2. Bad = {}
  <2> SUFFICES ASSUME Bad # {} PROVE FALSE
    OBVIOUS
  <2>1. PICK m \in Bad : \A k \in Bad : m <= k
    <3>1. Bad \in SUBSET Nat
      OBVIOUS
    <3> HIDE DEF Bad
    <3> QED  BY <3>1, LeastElement
  <2>2. m \in offset..Len(rows) /\ ~ Holds(m) /\ m \in Nat
    OBVIOUS
  <2>3. CASE m = offset
    <3>1. f[m] = bars
      BY <1>1, <2>2, <2>3, RowTableEntry
    <3>2. (offset + 1)..m = {}
      BY <2>3
    <3> QED  BY <2>2, <2>3, <3>1, <3>2
  <2>4. CASE m # offset
    <3> DEFINE j == m - 1
    <3>1. j \in offset..Len(rows) /\ j < m /\ j \in Nat /\ m = j + 1 /\ m <= Len(rows)
      BY <2>2, <2>4
    <3>2. j \notin Bad
      BY <2>1, <2>2, <3>1
    <3>3. Holds(j)
      BY <3>1, <3>2
    <3>4. f[m] = Added(f[j], rows[m].at, rows[m].price, 1, 0)
      BY <1>1, <2>2, <2>4, RowTableEntry
    <3> HIDE DEF j
    <3>5. \A i \in 1..(j + 1) : rows[i] \in Observed
      BY <3>1
    <3>6. Gathered(Added(f[j], rows[j + 1].at, rows[j + 1].price, 1, 0), rows, j + 1, q, n)
      BY <3>1, <3>3, <3>5, TickGathered
    <3>7. Gathered(f[m], rows, m, q, n)
      BY <3>1, <3>4, <3>6
    <3>8. \A s : s \in DOMAIN f[m] <=> s \in DOMAIN f[j] \/ s = Bucket(rows[m].at)
      BY <3>4, AddedBars
    <3>9. \A i \in (offset + 1)..m : i \in (offset + 1)..j \/ i = m
      BY <3>1
    <3>10. \A i \in (offset + 1)..m : Bucket(rows[i].at) \in DOMAIN f[m]
      BY <3>3, <3>8, <3>9
    <3> QED  BY <2>2, <3>3, <3>7, <3>8, <3>10
  <2> QED  BY <2>3, <2>4
<1>3. Holds(Len(rows))
  <2>1. Len(rows) \in offset..Len(rows)
    OBVIOUS
  <2> QED  BY <1>2, <2>1
<1> QED  BY <1>1, <1>3

-----------------------------------------------------------------------------
(* The steps of the stream *)

\* What the types say of the observations.
LEMMA StreamEntries ==
    ASSUME StreamTypes
    PROVE  /\ now \in Nat /\ offset \in Nat /\ offset <= Len(rows)
           /\ Len(rows) \in Nat /\ Len(quotes) \in Nat
           /\ \A i \in 1..Len(rows) : rows[i] \in Observed
           /\ \A i \in 1..offset : rows[i] \in Observed
           /\ \A i \in 1..Len(quotes) : quotes[i] \in Observed
<1>1. /\ now \in Nat /\ rows \in Seq(Observed) /\ quotes \in Seq(Observed)
      /\ offset \in 0..Len(rows)
  BY DEF StreamTypes
<1>2. Len(rows) \in Nat /\ Len(quotes) \in Nat
  BY <1>1
<1>3. \A i \in 1..Len(rows) : rows[i] \in Observed
  BY <1>1
<1>4. \A i \in 1..Len(quotes) : quotes[i] \in Observed
  BY <1>1
<1> QED  BY <1>1, <1>2, <1>3, <1>4

\* The stream starts with bars that were loaded, and nothing seen.
LEMMA StreamInitInv == LiveInit => StreamInv
<1> SUFFICES ASSUME LiveInit PROVE StreamInv
  OBVIOUS
<1>1. /\ now = 0 /\ rows = <<>> /\ offset = 0 /\ quotes = <<>>
      /\ working = Empty /\ done = {} /\ late = {}
  BY DEF LiveInit, Init, StreamInit
<1>2. StreamTypes
  BY <1>1 DEF StreamTypes
<1>3. DOMAIN working = {}
  BY <1>1 DEF Empty
<1>4. \A s : Filed(rows, offset, s) = {} /\ Filed(quotes, Len(quotes), s) = {}
  <2>1. 1..offset = {} /\ 1..Len(quotes) = {}
    BY <1>1
  <2> QED  BY <2>1 DEF Filed
<1>5. WorkingInv
  BY <1>3, <1>4 DEF WorkingInv, Gathered
<1>6. HistoryFrom
  <2>1. PICK price \in Midpoints :
           history = [s \in Newest(Loaded) |-> Opened(price, 0, 0)]
    BY DEF LiveInit, StreamInit
  <2>2. Newest(Loaded) \subseteq Loaded
    BY DEF Newest
  <2> QED  BY <2>1, <2>2 DEF HistoryFrom
<1> QED  BY <1>1, <1>2, <1>5, <1>6 DEF StreamInv, DoneAreOver, HistoryShows

\* Time passes, or the warm-up moves on.
LEMMA ClockStreamInv ==
    ASSUME StreamInv, now' \in {now, now + 1},
           UNCHANGED <<rows, offset, working, history, quotes, done, late>>
    PROVE  StreamInv'
<1>1. StreamTypes /\ WorkingInv /\ DoneAreOver /\ HistoryFrom /\ HistoryShows
  BY DEF StreamInv
<1>2. StreamTypes'
  BY <1>1 DEF StreamTypes
<1>3. WorkingInv' /\ HistoryFrom' /\ HistoryShows'
  BY <1>1 DEF WorkingInv, Gathered, HistoryFrom, HistoryShows
<1>4. DoneAreOver'
  <2> SUFFICES ASSUME NEW s \in done PROVE s \in Starts /\ s + Interval <= now'
    BY DEF DoneAreOver
  <2>1. s \in Starts /\ s + Interval <= now
    BY <1>1 DEF DoneAreOver
  <2>2. s \in Int
    BY <2>1, StartsApart
  <2> QED  BY <1>1, <2>1, <2>2, StreamParameters DEF StreamTypes
<1> QED  BY <1>2, <1>3, <1>4 DEF StreamInv

\* A tick arrives; it is not looked at yet.
LEMMA TickArrivesInv ==
    ASSUME StreamInv, TickArrives, now' = now
    PROVE  StreamInv'
<1>1. StreamTypes /\ WorkingInv /\ DoneAreOver /\ HistoryFrom /\ HistoryShows
  BY DEF StreamInv
<1>2. PICK at \in -1..now, price \in Prices :
         rows' = Append(rows, [at |-> at, price |-> price])
  BY DEF TickArrives
<1>3. UNCHANGED <<offset, working, history, quotes, done, late>>
  BY DEF TickArrives
<1> DEFINE row == [at |-> at, price |-> price]
<1>4. row \in Observed
  <2>1. at \in Int
    BY <1>1 DEF StreamTypes
  <2>2. price \in Nat
    BY StreamParameters
  <2> QED  BY <2>1, <2>2 DEF Observed
<1> HIDE DEF row
<1>5. /\ rows \in Seq(Observed) /\ rows' = Append(rows, row)
      /\ offset \in Nat /\ offset <= Len(rows) /\ Len(rows) \in Nat
  BY <1>1, <1>2, StreamEntries DEF row, StreamTypes
<1>6. /\ rows' \in Seq(Observed) /\ Len(rows') = Len(rows) + 1
      /\ \A i \in 1..Len(rows) : rows'[i] = rows[i]
  BY <1>4, <1>5
<1>7. StreamTypes'
  BY <1>1, <1>3, <1>5, <1>6 DEF StreamTypes
<1>8. \A i \in 1..offset : rows'[i] = rows[i]
  BY <1>5, <1>6
<1>9. \A s : /\ Filed(rows', offset, s) = Filed(rows, offset, s)
             /\ Paid(rows', offset, s) = Paid(rows, offset, s)
  <2> DEFINE r2 == rows'
  <2>1. offset \in Nat /\ \A i \in 1..offset : r2[i] = rows[i]
    BY <1>5, <1>8
  <2> HIDE DEF r2
  <2>2. \A s : Filed(r2, offset, s) = Filed(rows, offset, s) /\ Paid(r2, offset, s) = Paid(rows, offset, s)
    BY <2>1, FiledAgrees
  <2> QED  BY <2>2 DEF r2
<1>10. WorkingInv'
  BY <1>1, <1>3, <1>9 DEF WorkingInv, Gathered, Shows
<1>11. HistoryShows'
  BY <1>1, <1>3, <1>9 DEF HistoryShows, Shows
<1>12. DoneAreOver' /\ HistoryFrom'
  BY <1>1, <1>3 DEF DoneAreOver, HistoryFrom
<1> QED  BY <1>7, <1>10, <1>11, <1>12 DEF StreamInv

\* The quote of a poll is of an interval not yet turned into a bar.
LEMMA RunningInterval ==
    ASSUME now \in Nat, DoneAreOver
    PROVE  Bucket(now) \notin done \cup Loaded
<1>1. /\ Bucket(now) \in Int /\ Bucket(now) <= now /\ now < Bucket(now) + Interval
  BY BucketOf
<1>2. Interval \in Nat \ {0}
  BY StreamParameters
<1>3. Bucket(now) \notin done
  BY <1>1, <1>2 DEF DoneAreOver
<1>4. Bucket(now) \notin Loaded
  BY <1>1, <1>2 DEF Loaded
<1> QED  BY <1>3, <1>4

\* A poll: a quote and the new rows.
LEMMA ObserveInv ==
    ASSUME StreamInv, Observe, now' = now
    PROVE  StreamInv'
<1>1. StreamTypes /\ WorkingInv /\ DoneAreOver /\ HistoryFrom /\ HistoryShows
  BY DEF StreamInv
<1>2. PICK price \in Midpoints :
         /\ working' = AddedRows(Added(working, now, price, 0, 1))
         /\ quotes' = Append(quotes, [at |-> now, price |-> price])
  BY DEF Observe
<1>3. offset' = Len(rows) /\ UNCHANGED <<rows, history, done, late>>
  BY DEF Observe
<1>4. /\ now \in Nat /\ offset \in Nat /\ offset <= Len(rows)
      /\ Len(rows) \in Nat /\ Len(quotes) \in Nat
      /\ \A i \in 1..Len(rows) : rows[i] \in Observed
      /\ \A i \in 1..offset : rows[i] \in Observed
      /\ \A i \in 1..Len(quotes) : quotes[i] \in Observed
  BY <1>1, StreamEntries
<1> DEFINE quote == [at |-> now, price |-> price]
           n == Len(quotes)
           with == Added(working, now, price, 0, 1)
<1>5. quote \in Observed /\ quote.at = now /\ quote.price = price /\ price \in Nat
  <2>1. price \in Nat
    BY StreamParameters
  <2> QED  BY <1>4, <2>1 DEF Observed
<1> HIDE DEF quote
<1>6. /\ quotes' \in Seq(Observed) /\ Len(quotes') = n + 1
      /\ \A i \in 1..n : quotes'[i] = quotes[i]
      /\ quotes'[n + 1] = quote
      /\ \A i \in 1..(n + 1) : quotes'[i] \in Observed
  <2>1. quotes \in Seq(Observed) /\ quotes' = Append(quotes, quote)
    BY <1>1, <1>2 DEF StreamTypes, quote
  <2>2. /\ quotes' \in Seq(Observed) /\ Len(quotes') = n + 1
        /\ \A i \in 1..n : quotes'[i] = quotes[i]
        /\ quotes'[n + 1] = quote
    BY <1>5, <2>1
  <2> QED  BY <2>2
<1>7. StreamTypes'
  BY <1>1, <1>3, <1>4, <1>6 DEF StreamTypes
<1>8. Gathered(with, rows, offset, quotes', n + 1)
  <2>1. Gathered(working, rows, offset, quotes, n)
    BY <1>1 DEF WorkingInv
  <2>2. Bucket(now) \notin done \cup Loaded
    BY <1>1, <1>4, RunningInterval
  <2> DEFINE q2 == quotes'
  <2>3. /\ \A i \in 1..n : quotes[i] \in Observed /\ q2[i] = quotes[i]
        /\ q2[n + 1] \in Observed /\ n \in Nat
        /\ q2[n + 1].at = now /\ q2[n + 1].price = price
    BY <1>4, <1>5, <1>6
  <2> HIDE DEF q2, n
  <2>4. Gathered(Added(working, q2[n + 1].at, q2[n + 1].price, 0, 1), rows, offset, q2, n + 1)
    BY <1>4, <2>1, <2>2, <2>3, QuoteGathered
  <2> QED  BY <2>3, <2>4 DEF q2
<1>9. \A s : s \in DOMAIN with <=> s \in DOMAIN working \/ s = Bucket(now)
  BY AddedBars
<1> DEFINE m == n + 1
<1>10. m \in Nat /\ \A i \in 1..m : quotes'[i] \in Observed
  BY <1>4, <1>6
<1> HIDE DEF with, m
<1>11. /\ Gathered(working', rows, Len(rows), quotes', m)
       /\ DOMAIN with \subseteq DOMAIN working'
       /\ \A i \in (offset + 1)..Len(rows) : Bucket(rows[i].at) \in DOMAIN working'
  <2>1. working' = AddedRows(with)
    BY <1>2 DEF with
  <2>2. Gathered(with, rows, offset, quotes', m)
    BY <1>8 DEF m
  <2> QED  BY <1>4, <1>10, <2>1, <2>2, RowsGathered
<1>12. WorkingInv'
  BY <1>3, <1>6, <1>11 DEF WorkingInv, Gathered, m
<1>13. HistoryShows'
  <2> SUFFICES ASSUME NEW s \in (DOMAIN history \cap done) \ late,
                      s \notin DOMAIN working'
               PROVE  /\ history[s] \in BarShape
                      /\ Shows(history[s], rows, Len(rows), quotes', m, s)
    BY <1>3, <1>6 DEF HistoryShows, m
  <2>1. s \notin DOMAIN working /\ s # Bucket(now)
    BY <1>9, <1>11
  <2>2. /\ history[s] \in BarShape
        /\ Shows(history[s], rows, offset, quotes, n, s)
    BY <1>1, <2>1 DEF HistoryShows
  <2>3. Filed(rows, Len(rows), s) = Filed(rows, offset, s)
    <3>1. \A i \in 1..Len(rows) : Bucket(rows[i].at) = s => i \in 1..offset
      BY <1>4, <1>11
    <3>2. \A i \in 1..offset : i \in 1..Len(rows)
      BY <1>4
    <3> QED  BY <3>1, <3>2 DEF Filed
  <2>4. Filed(quotes', m, s) = Filed(quotes, n, s) /\ Paid(quotes', m, s) = Paid(quotes, n, s)
    <3> DEFINE q2 == quotes'
    <3>1. n \in Nat /\ \A i \in 1..n : q2[i] = quotes[i]
      BY <1>4, <1>6
    <3>2. Bucket(q2[n + 1].at) # s
      BY <1>5, <1>6, <2>1
    <3> HIDE DEF q2, n
    <3>3. Filed(q2, n, s) = Filed(quotes, n, s) /\ Paid(q2, n, s) = Paid(quotes, n, s)
      BY <3>1, FiledAgrees
    <3>4. Filed(q2, n + 1, s) = Filed(q2, n, s) /\ Paid(q2, n + 1, s) = Paid(q2, n, s)
      BY <3>1, <3>2, FiledNext
    <3> QED  BY <3>3, <3>4 DEF q2, m
  <2>5. Paid(rows, Len(rows), s) = Paid(rows, offset, s)
    BY <2>3 DEF Paid
  <2> QED  BY <2>2, <2>3, <2>4, <2>5 DEF Shows
<1>14. DoneAreOver' /\ HistoryFrom'
  BY <1>1, <1>3 DEF DoneAreOver, HistoryFrom
<1> QED  BY <1>7, <1>12, <1>13, <1>14 DEF StreamInv

\* What Complete makes of the history.
LEMMA CompleteHistory ==
    ASSUME Complete
    PROVE  /\ DOMAIN history' \subseteq DOMAIN history \cup Ready
           /\ \A s \in DOMAIN history' :
                 history'[s] = IF s \in Ready THEN working[s] ELSE history[s]
           /\ \A s : s \in DOMAIN working' <=> s \in DOMAIN working /\ s \notin Ready
           /\ \A s \in DOMAIN working' : working'[s] = working[s]
           /\ done' = done \cup Ready /\ late' = late \cup (done \cap Ready)
           /\ UNCHANGED <<rows, offset, quotes>>
           /\ Ready \subseteq DOMAIN working
<1>1. history' = [s \in Newest(DOMAIN Merged(history, Ready)) |-> Merged(history, Ready)[s]]
  BY DEF Complete, Trimmed
<1>2. \A S : Newest(S) \subseteq S
  BY DEF Newest
<1>3. /\ DOMAIN Merged(history, Ready) = DOMAIN history \cup Ready
      /\ \A s \in DOMAIN history \cup Ready :
            Merged(history, Ready)[s] = IF s \in Ready THEN working[s] ELSE history[s]
  BY DEF Merged
<1>4. /\ DOMAIN history' = Newest(DOMAIN Merged(history, Ready))
      /\ \A s \in DOMAIN history' : history'[s] = Merged(history, Ready)[s]
  BY <1>1
<1>5. DOMAIN history' \subseteq DOMAIN history \cup Ready
  BY <1>2, <1>3, <1>4
<1>6. /\ \A s : s \in DOMAIN working' <=> s \in DOMAIN working /\ s \notin Ready
      /\ \A s \in DOMAIN working' : working'[s] = working[s]
      /\ done' = done \cup Ready /\ late' = late \cup (done \cap Ready)
      /\ UNCHANGED <<rows, offset, quotes>>
  BY DEF Complete
<1>7. Ready \subseteq DOMAIN working
  BY DEF Ready
<1> QED  BY <1>3, <1>4, <1>5, <1>6, <1>7

\* The intervals that are over become bars.
LEMMA CompleteInv ==
    ASSUME StreamInv, Complete, now' = now
    PROVE  StreamInv'
<1>1. StreamTypes /\ WorkingInv /\ DoneAreOver /\ HistoryFrom /\ HistoryShows
  BY DEF StreamInv
<1>2. /\ DOMAIN history' \subseteq DOMAIN history \cup Ready
      /\ \A s \in DOMAIN history' :
            history'[s] = IF s \in Ready THEN working[s] ELSE history[s]
      /\ \A s : s \in DOMAIN working' <=> s \in DOMAIN working /\ s \notin Ready
      /\ \A s \in DOMAIN working' : working'[s] = working[s]
      /\ done' = done \cup Ready /\ late' = late \cup (done \cap Ready)
      /\ UNCHANGED <<rows, offset, quotes>>
      /\ Ready \subseteq DOMAIN working
  BY CompleteHistory
<1>3. StreamTypes'
  BY <1>1, <1>2 DEF StreamTypes
<1>4. /\ DOMAIN working \subseteq Starts
      /\ \A s \in DOMAIN working : working[s] \in BarShape
      /\ \A s \in DOMAIN working \ done : Shows(working[s], rows, offset, quotes, Len(quotes), s)
      /\ \A s \in DOMAIN working \cap (done \cup Loaded) :
            /\ working[s].quotes = 0
            /\ working[s].ticks \in 1..Cardinality(Filed(rows, offset, s))
      /\ \A s \in Starts \ (DOMAIN working \cup done) :
            Filed(rows, offset, s) = {} /\ Filed(quotes, Len(quotes), s) = {}
  BY <1>1 DEF WorkingInv, Gathered
<1>5. WorkingInv'
  <2>1. /\ DOMAIN working' \subseteq Starts
        /\ \A s \in DOMAIN working' : working'[s] \in BarShape
    BY <1>2, <1>4
  <2>2. \A s \in DOMAIN working' \ done' :
           Shows(working'[s], rows, offset, quotes, Len(quotes), s)
    BY <1>2, <1>4
  <2>3. \A s \in DOMAIN working' \cap (done' \cup Loaded) :
           /\ working'[s].quotes = 0
           /\ working'[s].ticks \in 1..Cardinality(Filed(rows, offset, s))
    BY <1>2, <1>4
  <2>4. \A s \in Starts \ (DOMAIN working' \cup done') :
           Filed(rows, offset, s) = {} /\ Filed(quotes, Len(quotes), s) = {}
    BY <1>2, <1>4
  <2> QED  BY <1>2, <2>1, <2>2, <2>3, <2>4 DEF WorkingInv, Gathered
<1>6. DoneAreOver'
  <2>1. now \in Nat /\ Bucket(now) \in Starts /\ Bucket(now) \in Int /\ Bucket(now) <= now
    BY <1>1, BucketOf DEF StreamTypes
  <2>2. \A s \in Ready : s \in Starts /\ s + Interval <= now
    <3> SUFFICES ASSUME NEW s \in Ready PROVE s \in Starts /\ s + Interval <= now
      OBVIOUS
    <3>1. s \in Starts /\ s < Bucket(now)
      BY <1>2, <1>4 DEF Ready
    <3>2. s + Interval <= Bucket(now) /\ s \in Int
      BY <2>1, <3>1, StartsApart
    <3> QED  BY <2>1, <3>1, <3>2, StreamParameters
  <2> QED  BY <1>1, <1>2, <2>2 DEF DoneAreOver
<1>7. HistoryFrom'
  BY <1>1, <1>2 DEF HistoryFrom
<1>8. HistoryShows'
  <2> SUFFICES ASSUME NEW s \in (DOMAIN history' \cap done') \ late',
                      s \notin DOMAIN working'
               PROVE  /\ history'[s] \in BarShape
                      /\ Shows(history'[s], rows, offset, quotes, Len(quotes), s)
    BY <1>2 DEF HistoryShows
  <2>1. CASE s \in Ready
    BY <1>2, <1>4, <2>1
  <2>2. CASE s \notin Ready
    <3>1. /\ s \in (DOMAIN history \cap done) \ late /\ s \notin DOMAIN working
          /\ history'[s] = history[s]
      BY <1>2, <2>2
    <3> QED  BY <1>1, <3>1 DEF HistoryShows
  <2> QED  BY <2>1, <2>2
<1> QED  BY <1>3, <1>5, <1>6, <1>7, <1>8 DEF StreamInv

\* Every step of a run.
LEMMA StreamStepInv == StreamInv /\ [LiveNext]_liveVars => StreamInv'
<1> SUFFICES ASSUME StreamInv, [LiveNext]_liveVars PROVE StreamInv'
  OBVIOUS
<1>1. CASE AnyRequest
  BY <1>1, ClockStreamInv DEF AnyRequest, Send, Refuse, streamVars
<1>2. CASE StartupRequest
  BY <1>2, ClockStreamInv DEF StartupRequest, Send, streamVars
<1>3. CASE Poll
  BY <1>3, ClockStreamInv DEF Poll, Send, streamVars
<1>4. CASE PollRefused
  BY <1>4, ClockStreamInv DEF PollRefused, Refuse, streamVars
<1>5. CASE StreamStep
  <2>1. now' = now
    BY <1>5 DEF StreamStep
  <2>2. CASE Observe
    BY <2>1, <2>2, ObserveInv
  <2>3. CASE Complete
    BY <2>1, <2>3, CompleteInv
  <2>4. CASE WarmupOver \/ WarmupFails
    BY <2>1, <2>4, ClockStreamInv DEF WarmupOver, WarmupFails
  <2>5. CASE TickArrives
    BY <2>1, <2>5, TickArrivesInv
  <2> QED  BY <1>5, <2>2, <2>3, <2>4, <2>5 DEF StreamStep, RunnerStep
<1>6. CASE ClockTick
  BY <1>6, ClockStreamInv DEF ClockTick, Tick, Later, streamVars
<1>7. CASE UNCHANGED liveVars
  BY <1>7, ClockStreamInv DEF liveVars, streamVars
<1> QED  BY <1>1, <1>2, <1>3, <1>4, <1>5, <1>6, <1>7 DEF LiveNext

\* Always, what is known of the stream's bars.
LEMMA StreamInvariance == LiveSpec => []StreamInv
  BY StreamInitInv, StreamStepInv, PTL DEF LiveSpec

-----------------------------------------------------------------------------

\* The greatest and the least of a set of numbers, when it has them.
LEMMA Extremes ==
    ASSUME NEW S \in SUBSET Nat, NEW m \in S
    PROVE  /\ (\A x \in S : x <= m) => m = Max(S)
           /\ (\A x \in S : m <= x) => m = Min(S)
<1>1. ASSUME \A x \in S : x <= m PROVE m = Max(S)
  <2>1. \E x \in S : \A y \in S : x >= y
    BY <1>1
  <2>2. Max(S) \in S /\ \A y \in S : Max(S) >= y
    BY <2>1, Zenon DEF Max
  <2>3. Max(S) >= m /\ Max(S) <= m /\ m \in Nat /\ Max(S) \in Nat
    BY <1>1, <2>2
  <2> QED  BY <2>3
<1>2. ASSUME \A x \in S : m <= x PROVE m = Min(S)
  <2>1. \E x \in S : \A y \in S : x =< y
    BY <1>2
  <2>2. Min(S) \in S /\ \A y \in S : Min(S) =< y
    BY <2>1, Zenon DEF Min
  <2>3. Min(S) >= m /\ Min(S) <= m /\ m \in Nat /\ Min(S) \in Nat
    BY <1>2, <2>2
  <2> QED  BY <2>3
<1> QED  BY <1>1, <1>2

\* The bars a trade run scores its signals on: whatever the delay of the ticks,
\* the interval and the length of the history, a bar of the stream is what was
\* seen of its interval, each row and each quote counted once, unless ticks of
\* it came after it was made, and nothing of a running interval is in it
\* (TickBarAggregator, _trim_history_bars).
THEOREM BarsTrue == LiveSpec => []BarsAsSeen
<1>1. StreamInv => BarsAsSeen
  <2> SUFFICES ASSUME StreamInv, NEW s \in (DOMAIN history \cap done) \ late,
                      s \notin DOMAIN working
               PROVE  /\ history[s].ticks = Cardinality(RowsOf(s))
                      /\ history[s].quotes = Cardinality(QuotesOf(s))
                      /\ history[s].high = Max(PricesOf(s))
                      /\ history[s].low = Min(PricesOf(s))
                      /\ s + Interval <= now
    BY DEF BarsAsSeen
  <2>1. Shows(history[s], rows, offset, quotes, Len(quotes), s)
    BY DEF StreamInv, HistoryShows
  <2>2. StreamTypes
    BY DEF StreamInv
  <2>3. DOMAIN quotes = 1..Len(quotes)
    BY <2>2 DEF StreamTypes
  <2>4. RowsOf(s) = Filed(rows, offset, s) /\ QuotesOf(s) = Filed(quotes, Len(quotes), s)
    BY <2>3 DEF RowsOf, QuotesOf, Filed
  <2>5. PricesOf(s) = Paid(rows, offset, s) \cup Paid(quotes, Len(quotes), s)
    BY <2>4, Zenon DEF PricesOf, Paid
  <2>6. PricesOf(s) \in SUBSET Nat
    <3>1. Paid(rows, offset, s) \subseteq Nat /\ Paid(quotes, Len(quotes), s) \subseteq Nat
      BY <2>2, StreamEntries, PaidNumbers
    <3> QED  BY <2>5, <3>1
  <2>7. /\ history[s].high \in PricesOf(s) /\ history[s].low \in PricesOf(s)
        /\ \A p \in PricesOf(s) : history[s].low <= p /\ p <= history[s].high
    BY <2>1, <2>5 DEF Shows
  <2>8. history[s].high = Max(PricesOf(s)) /\ history[s].low = Min(PricesOf(s))
    BY <2>6, <2>7, Extremes
  <2>9. s + Interval <= now
    BY DEF StreamInv, DoneAreOver
  <2> QED  BY <2>1, <2>4, <2>8, <2>9 DEF Shows
<1> QED  BY <1>1, StreamInvariance, PTL

\* What a signal has been scored on stays: a bar of the history gives way only
\* to one made of late ticks alone (TickBarAggregator, _trim_history_bars).
THEOREM LateTicksOnly == LiveSpec => OnlyLateTicksReplace
<1> DEFINE Kept ==
       \A s \in DOMAIN history \cap DOMAIN history' :
          history[s] # history'[s] =>
             /\ s \in done \cup Loaded
             /\ history'[s].quotes = 0
             /\ history'[s].ticks \in 1..Cardinality(RowsOf(s))
<1>1. StreamInv /\ [LiveNext]_liveVars => Kept
  <2> SUFFICES ASSUME StreamInv, [LiveNext]_liveVars,
                      NEW s \in DOMAIN history \cap DOMAIN history',
                      history[s] # history'[s]
               PROVE  /\ s \in done \cup Loaded
                      /\ history'[s].quotes = 0
                      /\ history'[s].ticks \in 1..Cardinality(RowsOf(s))
    OBVIOUS
  <2>1. Complete
    BY DEF LiveNext, liveVars, streamVars, AnyRequest, StartupRequest, Poll, PollRefused,
           StreamStep, RunnerStep, Observe, WarmupOver, WarmupFails, TickArrives, ClockTick
  <2>2. history'[s] = working[s] /\ s \in DOMAIN working
    BY <2>1, CompleteHistory
  <2>3. s \in done \cup Loaded
    BY DEF StreamInv, HistoryFrom
  <2>4. working[s].quotes = 0 /\ working[s].ticks \in 1..Cardinality(Filed(rows, offset, s))
    BY <2>2, <2>3 DEF StreamInv, WorkingInv, Gathered
  <2>5. RowsOf(s) = Filed(rows, offset, s)
    BY DEF RowsOf, Filed
  <2> QED  BY <2>2, <2>3, <2>4, <2>5
<1>2. []StreamInv /\ [][LiveNext]_liveVars => [][Kept]_streamVars
  <2>1. StreamInv /\ [LiveNext]_liveVars => [Kept]_streamVars
    BY <1>1
  <2> QED  BY <2>1, PTL
<1> QED  BY <1>2, StreamInvariance DEF LiveSpec, OnlyLateTicksReplace

=============================================================================
