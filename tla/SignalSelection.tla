--------------------------- MODULE SignalSelection ---------------------------
(***************************************************************************)
(* Which predictions of a test fold become trades                          *)
(* (models/ensemble.py, _select_target_frequency_events), fold after fold  *)
(* as run_meta_label_walk_forward calls it.  Days are taken in order; each *)
(* has a quota whose fractions add up from day to day.  In "online" mode   *)
(* the candidates of a day are judged in the order of their times, in      *)
(* "strict" and "quota" mode from the best score down.  What was selected  *)
(* holds a slot and cash until its barrier, or until its exit with         *)
(* capacity_release_mode=actual, also into the next fold.                  *)
(*                                                                         *)
(* A sample is what the selection sees of a prediction: "at" is the time   *)
(* of the signal, "entry" that of the position, "until" when the position  *)
(* gives its slot back, "notional" the size estimated for it.  The         *)
(* thresholds, floors and gates on probability and score appear as what    *)
(* they let through.  Times are integers.                                  *)
(***************************************************************************)
EXTENDS Integers, Sequences, FiniteSets, FiniteSetsExt

CONSTANTS
    Modes,              \* the selection modes to consider
    DayLength,          \* time units in a day
    Rates, Parts,       \* target_trades_per_day is one of Rates, in units of 1/Parts
    RespectOpen,        \* --respect-open-positions
    MaxOpen,            \* risk.max_open_positions, 0 for any number
    CashCap,            \* cash of a spot account, 0 when it is not simulated
    MinNotional,        \* risk.minimum_fee_efficient_notional
    MaxPerTime,         \* --max-signals-per-timestamp, 0 for any number
    MaxPerGroup,        \* --max-signals-per-group-per-day, 0 for any number
    Spacing,            \* --min-signal-spacing-hours
    Gaps, Delays,       \* bound: times between samples, and from signal to entry
    Kinds,              \* bound: what samples can be apart from their times
    MaxSamples          \* bound: number of samples

Kind == [hold : Nat, score : Int, group : STRING, side : {"BUY", "SELL"},
         notional : Nat, gates : {"none", "score", "all"}]

ASSUME SignalSelectionAssumption ==
    /\ Modes \subseteq {"online", "strict", "quota"}
    /\ DayLength \in Nat \ {0}
    /\ Parts \in Nat \ {0}
    /\ Rates \subseteq Nat \ {0}
    /\ RespectOpen \in BOOLEAN
    /\ MaxOpen \in Nat /\ CashCap \in Nat /\ MinNotional \in Nat
    /\ MaxPerTime \in Nat /\ MaxPerGroup \in Nat /\ Spacing \in Nat
    /\ Gaps \subseteq Nat /\ Delays \subseteq Nat
    /\ Kinds \subseteq Kind

VARIABLES
    mode,       \* target_frequency_mode
    rate,       \* target_trades_per_day
    pc,         \* "gather", "day", "rank" or "done"
    samples,    \* the samples of all folds so far, in time order
    first,      \* the first sample of the fold
    todo,       \* candidates of the fold not judged yet
    day,        \* the day under way
    quota,      \* signals it may have
    carry,      \* fractional_accumulator, in units of 1/Parts
    open,       \* selected_open_until
    taken       \* notional_by_event of what was selected, in all folds

setup == <<mode, rate>>
fold  == <<setup, samples, first>>
vars  == <<fold, pc, todo, day, quota, carry, open, taken>>

-----------------------------------------------------------------------------

Sample == [at : Nat, entry : Nat, until : Nat, score : Int, group : STRING,
           side : {"BUY", "SELL"}, notional : Nat,
           gates : {"none", "score", "all"}]

Smaller(a, b) == IF a <= b THEN a ELSE b

Picked == DOMAIN taken

\* What a day may have for certain, and what it saves up for a later one.
Whole == rate \div Parts
Part  == rate % Parts

DayOf(i) == samples[i].at \div DayLength

\* The probability threshold plays no part in quota mode.
Passes(i) ==
    samples[i].gates = "all" \/ (mode = "quota" /\ samples[i].gates = "score")

Candidates == {i \in first..Len(samples) : Passes(i)}

\* The order in which the candidates of a day are judged.
Before(i, j) ==
    \/ mode = "online" /\ samples[i].at < samples[j].at
    \/ /\ mode = "online" => samples[i].at = samples[j].at
       /\ \/ samples[i].score > samples[j].score
          \/ samples[i].score = samples[j].score /\ i < j

Today == {i \in todo : DayOf(i) = day}

NextOfDay(i) == i \in Today /\ \A j \in Today \ {i} : Before(i, j)

\* Signals the fold has selected for a day, and those of a group among them.
SelectedFor(d) == {i \in Picked : i >= first /\ DayOf(i) = d}
OfGroup(g) == {i \in SelectedFor(day) : samples[i].group = g}
AtTime(t)  == {i \in SelectedFor(day) : samples[i].at = t}

-----------------------------------------------------------------------------

Init ==
    /\ mode \in Modes
    /\ rate \in Rates
    /\ pc = "gather"
    /\ samples = <<>>
    /\ first = 1
    /\ todo = {}
    /\ day = 0 /\ quota = 0 /\ carry = 0
    /\ open = {}
    /\ taken = [i \in {} |-> 0]

\* Time and entry of the last sample.
LastAt    == IF samples = <<>> THEN 0 ELSE samples[Len(samples)].at
LastEntry == IF samples = <<>> THEN 0 ELSE samples[Len(samples)].entry

\* The samples in time order.  A position is entered on the first bar after its
\* signal: a later signal is not entered earlier, and signals of one time are
\* entered at one time.
NextSample ==
    /\ pc = "gather"
    /\ Len(samples) < MaxSamples
    /\ \E gap \in Gaps, delay \in Delays, k \in Kinds :
          LET at == LastAt + gap IN
          /\ at + delay >= LastEntry
          /\ samples # <<>> /\ gap = 0 => at + delay = LastEntry
          /\ samples' = Append(samples,
                [at |-> at, entry |-> at + delay, until |-> at + delay + k.hold,
                 score |-> k.score, group |-> k.group, side |-> k.side,
                 notional |-> k.notional, gates |-> k.gates])
    /\ UNCHANGED <<setup, first, pc, todo, day, quota, carry, open, taken>>

\* Plausible bug: a fold begins without the positions of the one before.
StartFoldFlat ==
    /\ pc = "gather"
    /\ first <= Len(samples)
    /\ pc' = "day"
    /\ todo' = Candidates
    /\ carry' = 0
    /\ open' = {}
    /\ UNCHANGED <<fold, day, quota, taken>>

\* The samples so far make up the fold.
StartFold ==
    /\ pc = "gather"
    /\ first <= Len(samples)
    /\ pc' = "day"
    /\ todo' = Candidates
    /\ carry' = 0
    /\ UNCHANGED <<fold, day, quota, open, taken>>

\* The next day that has candidates, and its quota.
NextDay ==
    /\ pc = "day"
    /\ todo # {}
    /\ \E i \in todo :
          /\ \A j \in todo : DayOf(i) <= DayOf(j)
          /\ day' = DayOf(i)
          /\ IF carry + Part >= Parts
             THEN quota' = Whole + 1 /\ carry' = carry + Part - Parts
             ELSE quota' = Whole     /\ carry' = carry + Part
          /\ IF quota' = 0
             THEN pc' = "day"  /\ todo' = {j \in todo : DayOf(j) # DayOf(i)}
             ELSE pc' = "rank" /\ todo' = todo
    /\ UNCHANGED <<fold, open, taken>>

-----------------------------------------------------------------------------

TracksOpen == RespectOpen \/ CashCap > 0

\* Plausible bug: what was selected on an earlier day holds its slot to the end.
StillOpenOnceSelected(i) == open

\* What is still open when the position of i would be entered.
StillOpen(i) ==
    IF TracksOpen THEN {j \in open : samples[j].until > samples[i].entry} ELSE open

SlotFree(held) == RespectOpen /\ MaxOpen > 0 => Cardinality(held) < MaxOpen

Committed(held) == SumFunctionOnSet(taken, held)

\* A buy from a spot account is paid from the cash that is left.
Payable(i, held) ==
    IF CashCap > 0 /\ samples[i].side = "BUY" THEN CashCap - Committed(held)
    ELSE samples[i].notional

\* Plausible bug: the size is not cut down to the cash left.
NotionalUncut(i, held) == samples[i].notional

Notional(i, held) == Smaller(samples[i].notional, Payable(i, held))

WellSpaced(i) ==
    /\ MaxPerTime > 0  => Cardinality(AtTime(samples[i].at)) < MaxPerTime
    /\ MaxPerGroup > 0 => Cardinality(OfGroup(samples[i].group)) < MaxPerGroup
    /\ \A j \in OfGroup(samples[i].group) :
          \/ samples[i].at - samples[j].at >= Spacing
          \/ samples[j].at - samples[i].at >= Spacing

Accepts(i, held) ==
    /\ SlotFree(held)
    /\ Payable(i, held) >= MinNotional
    /\ Notional(i, held) >= MinNotional
    /\ WellSpaced(i)

Select ==
    /\ pc = "rank"
    /\ Cardinality(SelectedFor(day)) < quota
    /\ \E i \in Today :
          /\ NextOfDay(i)
          /\ Accepts(i, StillOpen(i))
          /\ taken' = [j \in Picked \cup {i} |->
                         IF j = i THEN Notional(i, StillOpen(i)) ELSE taken[j]]
          /\ open' = IF TracksOpen THEN StillOpen(i) \cup {i} ELSE open
          /\ todo' = todo \ {i}
    /\ UNCHANGED <<fold, pc, day, quota, carry>>

PassOver ==
    /\ pc = "rank"
    /\ Cardinality(SelectedFor(day)) < quota
    /\ \E i \in Today :
          /\ NextOfDay(i)
          /\ ~Accepts(i, StillOpen(i))
          /\ open' = StillOpen(i)
          /\ todo' = todo \ {i}
    /\ UNCHANGED <<fold, pc, day, quota, carry, taken>>

\* The quota is used up, or no candidate of the day is left.
DayOver ==
    /\ pc = "rank"
    /\ Today = {} \/ Cardinality(SelectedFor(day)) >= quota
    /\ pc' = "day"
    /\ todo' = todo \ Today
    /\ UNCHANGED <<fold, day, quota, carry, open, taken>>

FoldOver ==
    /\ pc = "day"
    /\ todo = {}
    /\ pc' = "gather"
    /\ first' = Len(samples) + 1
    /\ UNCHANGED <<setup, samples, todo, day, quota, carry, open, taken>>

NoMoreFolds ==
    /\ pc = "gather"
    /\ first > Len(samples)
    /\ pc' = "done"
    /\ UNCHANGED <<fold, todo, day, quota, carry, open, taken>>

Done == pc = "done" /\ UNCHANGED vars

Next ==
    \/ NextSample \/ StartFold
    \/ NextDay \/ Select \/ PassOver \/ DayOver
    \/ FoldOver \/ NoMoreFolds \/ Done

Spec == Init /\ [][Next]_vars

-----------------------------------------------------------------------------

\* Every variable keeps its type; samples come in the order of their times and
\* of their entries; what was selected is a candidate of some fold.
TypeOK ==
    /\ mode \in Modes /\ rate \in Rates
    /\ pc \in {"gather", "day", "rank", "done"}
    /\ samples \in Seq(Sample)
    /\ \A i, j \in 1..Len(samples) :
          i <= j => /\ samples[i].at <= samples[j].at
                    /\ samples[i].entry <= samples[j].entry
    /\ first \in Nat \ {0}
    /\ day \in Nat /\ quota \in Nat /\ carry \in 0..(Parts - 1)
    /\ todo \subseteq first..Len(samples)
    /\ Picked \subseteq 1..Len(samples)
    /\ taken \in [Picked -> Nat]
    /\ open \subseteq Picked

\* What was selected and is in the market when i is entered.
Overlapping(i) ==
    {j \in Picked : samples[j].entry <= samples[i].entry
                    /\ samples[j].until > samples[i].entry}

\* Online, no more positions are in the market at a time than there are slots,
\* whatever day, fold or order they were selected in.
SlotsReserved ==
    mode = "online" /\ RespectOpen /\ MaxOpen > 0 =>
        \A i \in Picked : Cardinality(Overlapping(i)) <= MaxOpen

\* Online, the buys in the market at a time are worth no more than the cash.
CashReserved ==
    mode = "online" /\ CashCap > 0 =>
        \A i \in Picked :
            Committed({j \in Overlapping(i) : samples[j].side = "BUY"}) <= CashCap

\* What a fold may have selected by the end of its k-th day with candidates.
Entitled(k) == (k * rate) \div Parts

DaysUpTo(d) == {DayOf(i) : i \in {j \in Candidates : DayOf(j) <= d}}

QuotaOf(d) ==
    LET k == Cardinality(DaysUpTo(d)) IN Entitled(k) - Entitled(k - 1)

\* Judged from the world and not from what the loop remembers: why a candidate
\* may be left out.
Cause(i) ==
    LET held == {j \in Picked : samples[j].until > samples[i].entry} IN
    \/ Cardinality(SelectedFor(DayOf(i))) >= QuotaOf(DayOf(i))
    \/ RespectOpen /\ MaxOpen > 0 /\ Cardinality(held) >= MaxOpen
    \/ samples[i].notional < MinNotional
    \/ CashCap > 0 /\ samples[i].side = "BUY" /\ CashCap - Committed(held) < MinNotional
    \/ ~WellSpaced(i)

\* No candidate is left out for a slot, cash or quota that was free.
LeftOutForCause ==
    [][\A i \in todo \ todo' : i \in DOMAIN taken' \/ Cause(i)]_vars

=============================================================================
