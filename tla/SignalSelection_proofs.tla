----------------------- MODULE SignalSelection_proofs ------------------------
(***************************************************************************)
(* Proofs about SignalSelection, for any samples, folds, quotas and        *)
(* distances: the positions selected never need more slots than there are  *)
(* nor, where it is capped, more cash, and no sample is left out of a day  *)
(* that had quota and room for it.                                         *)
(***************************************************************************)
EXTENDS SignalSelection, NumberLemmas, FiniteSetTheorems, TLAPS

\* Samples that come later are not entered earlier, and those of one time are
\* entered at one time.
EntriesFollow ==
    \A i, j \in 1..Len(samples) :
        samples[i].at <= samples[j].at => samples[i].entry <= samples[j].entry

\* The indices the variables hold, and what is left to judge at each point.
Indices ==
    /\ samples \in Seq(Sample)
    /\ \A i, j \in 1..Len(samples) : i <= j => samples[i].at <= samples[j].at
    /\ first \in Nat \ {0}
    /\ todo \subseteq first..Len(samples)
    /\ Picked \subseteq 1..Len(samples)
    /\ open \subseteq Picked
    /\ pc \in {"gather", "done"} => todo = {}
    /\ pc = "rank" => \A k \in todo : day <= DayOf(k)

\* What is still to be judged.
Ahead == IF pc = "gather" THEN first..Len(samples) ELSE todo

\* The loop of the online mode never goes back in time: what it has selected is
\* entered no later than what it has yet to judge, and what it no longer counts
\* as open is over by then.
NeverBack ==
    mode = "online" =>
        \A j \in Picked :
            /\ \A k \in Ahead : samples[j].entry <= samples[k].entry
            /\ j \notin open =>
                  /\ samples[j].until <= LastEntry
                  /\ \A k \in Ahead : samples[j].until <= samples[k].entry

IInv == Indices /\ EntriesFollow /\ (TracksOpen => NeverBack) /\ SlotsReserved

-----------------------------------------------------------------------------
(* Facts about days and about samples *)

\* Of two times, the one of an earlier day is earlier.
LEMMA EarlierDay ==
    ASSUME NEW a \in Nat, NEW b \in Nat, NEW n \in Nat \ {0},
           a \div n < b \div n
    PROVE  a < b
<1> DEFINE p == a \div n
           q == b \div n
<1>1. /\ p \in Nat /\ q \in Nat
      /\ a = (n * p) + (a % n) /\ b = (n * q) + (b % n)
      /\ a % n \in 0..(n - 1) /\ b % n \in 0..(n - 1)
  OBVIOUS
<1>2. p + 1 <= q
  BY <1>1
<1> HIDE DEF p, q
<1>3. n * (p + 1) <= n * q
  BY <1>1, <1>2
<1>4. n * (p + 1) = (n * p) + n
  BY <1>1
<1> QED  BY <1>1, <1>3, <1>4

\* What the assumption says of the parameters.
LEMMA Parameters ==
    /\ DayLength \in Nat \ {0} /\ MaxOpen \in Nat
    /\ Gaps \subseteq Nat /\ Delays \subseteq Nat /\ Kinds \subseteq Kind
  BY SignalSelectionAssumption DEF SignalSelectionAssumption

\* What the samples hold.
LEMMA SampleEntries ==
    ASSUME samples \in Seq(Sample)
    PROVE  /\ Len(samples) \in Nat /\ DOMAIN samples = 1..Len(samples)
           /\ \A i \in 1..Len(samples) :
                 /\ samples[i].at \in Nat /\ samples[i].entry \in Nat
                 /\ samples[i].until \in Nat
<1>1. Len(samples) \in Nat /\ DOMAIN samples = 1..Len(samples)
  OBVIOUS
<1>2. \A i \in 1..Len(samples) : samples[i] \in Sample
  BY <1>1
<1> QED  BY <1>1, <1>2 DEF Sample

\* The last sample is the latest.
LEMMA LastIsLatest ==
    ASSUME Indices, EntriesFollow
    PROVE  /\ LastAt \in Nat /\ LastEntry \in Nat
           /\ \A i \in 1..Len(samples) :
                 /\ samples[i].at <= LastAt /\ samples[i].entry <= LastEntry
           /\ samples # <<>> =>
                 \A i \in 1..Len(samples) :
                     LastAt <= samples[i].at => LastEntry <= samples[i].entry
<1>1. samples \in Seq(Sample)
  BY DEF Indices
<1>2. CASE samples = <<>>
  BY <1>2 DEF LastAt, LastEntry
<1>3. CASE samples # <<>>
  <2>1. Len(samples) \in 1..Len(samples)
    BY <1>1, <1>3, SampleEntries
  <2>2. \A i \in 1..Len(samples) : i <= Len(samples)
    BY <1>1, SampleEntries
  <2>3. LastAt = samples[Len(samples)].at /\ LastEntry = samples[Len(samples)].entry
    BY <1>3 DEF LastAt, LastEntry
  <2>4. LastAt \in Nat /\ LastEntry \in Nat
    BY <1>1, <2>1, <2>3, SampleEntries
  <2>5. \A i \in 1..Len(samples) : samples[i].at <= LastAt
    BY <2>1, <2>2, <2>3 DEF Indices
  <2> QED  BY <2>1, <2>3, <2>4, <2>5 DEF EntriesFollow
<1> QED  BY <1>2, <1>3

\* What is counted as open are positions selected.
LEMMA StillOpenIsOpen ==
    ASSUME NEW i
    PROVE  /\ StillOpen(i) \subseteq open
           /\ TracksOpen => StillOpen(i) = {j \in open : samples[j].until > samples[i].entry}
  BY DEF StillOpen, TracksOpen

\* The candidate judged is entered no later than those that are left.
LEMMA JudgedFirst ==
    ASSUME Indices, EntriesFollow, pc = "rank", mode = "online",
           NEW i \in Today, NextOfDay(i), NEW k \in todo
    PROVE  samples[i].entry <= samples[k].entry
<1>1. /\ i \in todo /\ DayOf(i) = day
      /\ samples \in Seq(Sample) /\ todo \subseteq 1..Len(samples)
  BY DEF Today, Indices
<1>2. /\ samples[i].at \in Nat /\ samples[k].at \in Nat
      /\ i \in 1..Len(samples) /\ k \in 1..Len(samples)
  BY <1>1, SampleEntries
<1>3. samples[i].at <= samples[k].at
  <2>1. CASE k = i
    BY <1>2, <2>1
  <2>2. CASE k # i /\ DayOf(k) = day
    <3>1. Before(i, k)
      BY <2>2 DEF NextOfDay, Today
    <3> QED  BY <1>2, <3>1 DEF Before
  <2>3. CASE DayOf(k) # day
    <3>1. day <= DayOf(k)
      BY DEF Indices
    <3>2. DayOf(i) \in Nat /\ DayOf(k) \in Nat
      BY <1>2, Parameters DEF DayOf
    <3>3. samples[i].at \div DayLength < samples[k].at \div DayLength
      BY <1>1, <2>3, <3>1, <3>2 DEF DayOf
    <3> QED  BY <1>2, <3>3, EarlierDay, Parameters
  <2> QED  BY <2>1, <2>2, <2>3
<1> QED  BY <1>2, <1>3 DEF EntriesFollow

-----------------------------------------------------------------------------
(* The steps *)

\* Nothing is picked at the start.
LEMMA InitIInv == Init => IInv
<1> SUFFICES ASSUME Init PROVE IInv
  OBVIOUS
<1>1. samples = <<>> /\ Picked = {} /\ todo = {} /\ open = {} /\ first = 1
      /\ pc = "gather"
  BY DEF Init, Picked
<1>2. Indices
  BY <1>1 DEF Indices
<1>3. EntriesFollow /\ NeverBack /\ SlotsReserved
  BY <1>1 DEF EntriesFollow, NeverBack, SlotsReserved
<1> QED  BY <1>2, <1>3 DEF IInv

\* A new sample is the latest, and nothing selected overlaps it yet.
LEMMA NextSampleStep == IInv /\ NextSample => IInv'
<1> SUFFICES ASSUME IInv, NextSample PROVE IInv'
  OBVIOUS
<1> USE DEF IInv
<1>0. /\ pc = "gather" /\ pc' = pc /\ mode' = mode /\ first' = first /\ todo' = todo
      /\ day' = day /\ open' = open /\ taken' = taken /\ Picked' = Picked
      /\ samples \in Seq(Sample) /\ Len(samples) \in Nat
  BY SampleEntries DEF NextSample, setup, Picked, Indices
<1>1. PICK gap \in Gaps, delay \in Delays, k \in Kinds :
          /\ LastAt + gap + delay >= LastEntry
          /\ samples # <<>> /\ gap = 0 => LastAt + gap + delay = LastEntry
          /\ samples' = Append(samples,
                [at |-> LastAt + gap, entry |-> LastAt + gap + delay,
                 until |-> LastAt + gap + delay + k.hold,
                 score |-> k.score, group |-> k.group, side |-> k.side,
                 notional |-> k.notional, gates |-> k.gates])
  BY DEF NextSample
<1> DEFINE n == Len(samples) + 1
           new == [at |-> LastAt + gap, entry |-> LastAt + gap + delay,
                   until |-> LastAt + gap + delay + k.hold,
                   score |-> k.score, group |-> k.group, side |-> k.side,
                   notional |-> k.notional, gates |-> k.gates]
<1>2. gap \in Nat /\ delay \in Nat /\ k \in Kind /\ LastAt \in Nat /\ LastEntry \in Nat
  BY Parameters, LastIsLatest
<1>3. new \in Sample /\ new.at = LastAt + gap /\ new.entry = LastAt + gap + delay
  BY <1>2 DEF Kind, Sample
<1> HIDE DEF new
<1>4. /\ samples' \in Seq(Sample) /\ Len(samples') = n /\ samples'[n] = new
      /\ \A i \in 1..Len(samples) : samples'[i] = samples[i]
  BY <1>0, <1>1, <1>3 DEF new
<1>5. \A i \in 1..Len(samples) :
          /\ samples[i].at \in Nat /\ samples[i].entry \in Nat
          /\ samples[i].at <= LastAt /\ samples[i].entry <= LastEntry
  BY <1>0, SampleEntries, LastIsLatest
<1>6. EntriesFollow'
  <2> SUFFICES ASSUME NEW i \in 1..n, NEW j \in 1..n,
                      samples'[i].at <= samples'[j].at
               PROVE  samples'[i].entry <= samples'[j].entry
    BY <1>4 DEF EntriesFollow
  <2>1. CASE i # n /\ j # n
    BY <1>0, <1>4, <2>1 DEF EntriesFollow
  <2>2. CASE i # n /\ j = n
    BY <1>0, <1>1, <1>2, <1>3, <1>4, <1>5, <2>2
  <2>3. CASE i = n /\ j # n
    <3>1. j \in 1..Len(samples) /\ samples # <<>>
      BY <1>0, <2>3
    <3>2. gap = 0 /\ LastAt <= samples[j].at
      BY <1>2, <1>3, <1>4, <1>5, <2>3, <3>1
    <3>3. LastEntry <= samples[j].entry
      BY <3>1, <3>2, LastIsLatest
    <3> QED  BY <1>1, <1>3, <1>4, <2>3, <3>1, <3>2, <3>3
  <2>4. CASE i = n /\ j = n
    BY <1>2, <1>3, <1>4, <2>4
  <2> QED  BY <2>1, <2>2, <2>3, <2>4
<1>7. Indices'
  <2>1. \A i, j \in 1..n : i <= j => samples'[i].at <= samples'[j].at
    <3> SUFFICES ASSUME NEW i \in 1..n, NEW j \in 1..n, i <= j
                 PROVE  samples'[i].at <= samples'[j].at
      OBVIOUS
    <3>1. CASE j # n
      BY <1>0, <1>4, <3>1 DEF Indices
    <3>2. CASE j = n /\ i # n
      BY <1>0, <1>2, <1>3, <1>4, <1>5, <3>2
    <3>3. CASE i = n /\ j = n
      BY <1>2, <1>3, <1>4, <3>3
    <3> QED  BY <3>1, <3>2, <3>3
  <2> QED  BY <1>0, <1>4, <2>1 DEF Indices
<1>8. LastEntry' = new.entry /\ LastEntry <= LastEntry'
  BY <1>0, <1>1, <1>2, <1>3, <1>4 DEF LastEntry
<1>9. TracksOpen => NeverBack'
  <2> SUFFICES ASSUME TracksOpen, mode = "online", NEW j \in Picked
               PROVE  /\ \A i \in first..n : samples'[j].entry <= samples'[i].entry
                      /\ j \notin open =>
                            /\ samples'[j].until <= LastEntry'
                            /\ \A i \in first..n : samples'[j].until <= samples'[i].entry
    BY <1>0, <1>4 DEF NeverBack, Ahead
  <2>1. j \in 1..Len(samples) /\ samples'[j] = samples[j] /\ samples[j].until \in Nat
    BY <1>0, <1>4, SampleEntries DEF Indices
  <2>2. \A i \in first..n : i = n \/ (i \in first..Len(samples) /\ samples'[i] = samples[i])
    BY <1>0, <1>4 DEF Indices
  <2>3. /\ \A i \in first..Len(samples) : samples[j].entry <= samples[i].entry
        /\ j \notin open =>
              /\ samples[j].until <= LastEntry
              /\ \A i \in first..Len(samples) : samples[j].until <= samples[i].entry
    BY <1>0 DEF NeverBack, Ahead
  <2>4. samples[j].entry <= new.entry
    BY <1>2, <1>3, <1>5, <1>8, <2>1
  <2>5. j \notin open => samples[j].until <= new.entry /\ samples[j].until <= LastEntry'
    BY <1>2, <1>3, <1>8, <2>1, <2>3
  <2> QED  BY <1>4, <2>1, <2>2, <2>3, <2>4, <2>5
<1>10. SlotsReserved'
  <2>1. Picked \subseteq 1..Len(samples)
    BY DEF Indices
  <2>2. \A i \in Picked : Overlapping(i)' = Overlapping(i)
    BY <1>0, <1>4, <2>1 DEF Overlapping
  <2> QED  BY <1>0, <2>2 DEF SlotsReserved
<1> QED  BY <1>6, <1>7, <1>9, <1>10

\* The same samples, selection and open positions, and no more to judge than
\* before: nothing can be lost.
LEMMA NothingSelectedStep ==
    ASSUME IInv, UNCHANGED <<mode, samples, open, taken>>,
           Indices', Ahead' \subseteq Ahead
    PROVE  IInv'
<1>1. EntriesFollow' /\ Picked' = Picked /\ LastEntry' = LastEntry
  BY DEF IInv, EntriesFollow, Picked, LastEntry
<1>2. TracksOpen => NeverBack'
  BY <1>1 DEF IInv, NeverBack
<1>3. SlotsReserved'
  BY <1>1 DEF IInv, SlotsReserved, Overlapping
<1> QED  BY <1>1, <1>2, <1>3 DEF IInv

\* Nothing is picked where a fold begins or ends.
LEMMA FoldStep == IInv /\ (StartFold \/ FoldOver \/ NoMoreFolds) => IInv'
<1> SUFFICES ASSUME IInv, StartFold \/ FoldOver \/ NoMoreFolds PROVE IInv'
  OBVIOUS
<1>0. Indices /\ Len(samples) \in Nat
  BY SampleEntries DEF IInv, Indices
<1>1. /\ UNCHANGED <<mode, samples, open, taken>> /\ Picked' = Picked
      /\ \A i : DayOf(i)' = DayOf(i)
  BY DEF StartFold, FoldOver, NoMoreFolds, fold, setup, Picked, DayOf
<1>2. CASE StartFold
  <2>1. todo' \subseteq first..Len(samples) /\ first' = first /\ pc' = "day"
        /\ pc = "gather"
    BY <1>2 DEF StartFold, fold, Candidates
  <2>2. Indices'
    BY <1>0, <1>1, <2>1 DEF Indices
  <2>3. Ahead' \subseteq Ahead
    BY <2>1 DEF Ahead
  <2> QED  BY <1>1, <2>2, <2>3, NothingSelectedStep
<1>3. CASE FoldOver
  <2>1. todo' = {} /\ first' = Len(samples) + 1 /\ pc' = "gather"
    BY <1>3 DEF FoldOver
  <2>2. Indices'
    BY <1>0, <1>1, <2>1 DEF Indices
  <2>3. Ahead' \subseteq Ahead
    BY <1>0, <1>1, <2>1 DEF Ahead
  <2> QED  BY <1>1, <2>2, <2>3, NothingSelectedStep
<1>4. CASE NoMoreFolds
  <2>1. todo' = todo /\ todo = {} /\ first' = first /\ pc' = "done" /\ day' = day
    BY <1>0, <1>4 DEF NoMoreFolds, fold, Indices
  <2>2. Indices'
    BY <1>0, <1>1, <2>1 DEF Indices
  <2>3. Ahead' \subseteq Ahead
    BY <2>1 DEF Ahead
  <2> QED  BY <1>1, <2>2, <2>3, NothingSelectedStep
<1> QED  BY <1>2, <1>3, <1>4

\* Nor where a day does.
LEMMA DayStep == IInv /\ (NextDay \/ DayOver) => IInv'
<1> SUFFICES ASSUME IInv, NextDay \/ DayOver PROVE IInv'
  OBVIOUS
<1>0. Indices
  BY DEF IInv
<1>1. /\ UNCHANGED <<mode, samples, first, open, taken>> /\ Picked' = Picked
      /\ \A i : DayOf(i)' = DayOf(i)
  BY DEF NextDay, DayOver, fold, setup, Picked, DayOf
<1>2. /\ todo' \subseteq todo /\ pc' \in {"day", "rank"} /\ pc \in {"day", "rank"}
      /\ pc' = "rank" => \A k \in todo' : day' <= DayOf(k)
  BY DEF NextDay, DayOver
<1>3. Indices'
  BY <1>0, <1>1, <1>2 DEF Indices
<1>4. Ahead' \subseteq Ahead
  BY <1>2 DEF Ahead
<1> QED  BY <1>1, <1>3, <1>4, NothingSelectedStep

\* Candidate i has been judged: whatever is dropped from the open positions
\* is over by the time of every candidate left.
LEMMA NeverBackAfter ==
    ASSUME IInv, pc = "rank", pc' = "rank", TracksOpen,
           UNCHANGED <<mode, samples>>,
           NEW i \in Today, NextOfDay(i), todo' = todo \ {i},
           Picked' \subseteq Picked \cup {i},
           StillOpen(i) \cup (Picked' \ Picked) \subseteq open'
    PROVE  NeverBack'
<1> SUFFICES ASSUME mode = "online" PROVE NeverBack'
  BY DEF NeverBack
<1> USE DEF IInv
<1>1. /\ NeverBack
      /\ Ahead = todo /\ Ahead' = todo \ {i} /\ LastEntry' = LastEntry
      /\ i \in todo /\ Picked \subseteq 1..Len(samples) /\ todo \subseteq 1..Len(samples)
  BY DEF Ahead, LastEntry, Today, Indices
<1>2. \A k \in 1..Len(samples) : /\ samples[k].entry \in Nat /\ samples[k].until \in Nat
                                 /\ samples[k].entry <= LastEntry
  BY SampleEntries, LastIsLatest DEF Indices
<1>3. \A k \in todo : samples[i].entry <= samples[k].entry
  BY <1>1, JudgedFirst
<1> SUFFICES ASSUME NEW j \in Picked'
             PROVE  /\ \A k \in todo \ {i} : samples[j].entry <= samples[k].entry
                    /\ j \notin open' =>
                          /\ samples[j].until <= LastEntry
                          /\ \A k \in todo \ {i} : samples[j].until <= samples[k].entry
  BY <1>1 DEF NeverBack
<1>4. CASE j \notin Picked
  BY <1>3, <1>4
<1>5. CASE j \in Picked
  <2>1. \A k \in todo : samples[j].entry <= samples[k].entry
    BY <1>1, <1>5 DEF NeverBack
  <2>2. CASE j \notin open
    BY <1>1, <1>5, <2>1, <2>2 DEF NeverBack
  <2>3. CASE j \in open /\ j \notin open'
    <3>1. samples[j].until <= samples[i].entry
      BY <1>1, <1>2, <1>5, <2>3, StillOpenIsOpen
    <3>2. LastEntry \in Nat
      BY LastIsLatest
    <3> QED  BY <1>1, <1>2, <1>3, <1>5, <2>1, <3>1, <3>2
  <2> QED  BY <2>1, <2>2, <2>3
<1> QED  BY <1>4, <1>5

\* A sample that is passed over is judged and not picked.
LEMMA PassOverStep == IInv /\ PassOver => IInv'
<1> SUFFICES ASSUME IInv, PassOver PROVE IInv'
  OBVIOUS
<1> USE DEF IInv
<1>1. PICK i \in Today : /\ NextOfDay(i) /\ open' = StillOpen(i) /\ todo' = todo \ {i}
  BY DEF PassOver
<1>2. /\ UNCHANGED <<mode, samples, first, pc, day, taken>> /\ pc = "rank"
      /\ Picked' = Picked /\ \A k : DayOf(k)' = DayOf(k)
  BY DEF PassOver, fold, setup, Picked, DayOf
<1>3. Indices'
  BY <1>1, <1>2, StillOpenIsOpen DEF Indices
<1>4. EntriesFollow' /\ SlotsReserved'
  BY <1>2 DEF EntriesFollow, SlotsReserved, Overlapping
<1>5. TracksOpen => NeverBack'
  BY <1>1, <1>2, NeverBackAfter
<1> QED  BY <1>3, <1>4, <1>5

\* What overlaps the position selected is still open, and there is a slot left.
LEMMA SelectStep == IInv /\ Select => IInv'
<1> SUFFICES ASSUME IInv, Select PROVE IInv'
  OBVIOUS
<1> USE DEF IInv
<1>1. PICK i \in Today :
          /\ NextOfDay(i) /\ Accepts(i, StillOpen(i))
          /\ DOMAIN taken' = Picked \cup {i}
          /\ open' = IF TracksOpen THEN StillOpen(i) \cup {i} ELSE open
          /\ todo' = todo \ {i}
  BY DEF Select
<1>2. /\ UNCHANGED <<mode, samples, first, pc, day>> /\ pc = "rank"
      /\ Picked' = Picked \cup {i} /\ \A k : DayOf(k)' = DayOf(k)
  BY <1>1 DEF Select, fold, setup, Picked, DayOf
<1>3. i \in todo /\ i \in 1..Len(samples)
  BY DEF Today, Indices
<1>4. Indices'
  BY <1>1, <1>2, <1>3, StillOpenIsOpen DEF Indices
<1>5. EntriesFollow'
  BY <1>2 DEF EntriesFollow
<1>6. TracksOpen => NeverBack'
  <2> SUFFICES ASSUME TracksOpen PROVE NeverBack'
    OBVIOUS
  <2>1. open' = StillOpen(i) \cup {i}
    BY <1>1
  <2> QED  BY <1>1, <1>2, <2>1, NeverBackAfter
<1>7. ASSUME mode = "online", RespectOpen, MaxOpen > 0 PROVE \A n \in Picked' : Cardinality(Overlapping(n)') <= MaxOpen
  <2>1. /\ mode = "online" /\ RespectOpen /\ MaxOpen > 0 /\ NeverBack
        /\ Ahead = todo /\ TracksOpen
    BY <1>2, <1>7 DEF TracksOpen, Ahead
  <2>2. \A k \in 1..Len(samples) : samples[k].entry \in Nat /\ samples[k].until \in Nat
    BY SampleEntries DEF Indices
  <2> DEFINE held == StillOpen(i)
             overlap == {j \in Picked' : /\ samples[j].entry <= samples[i].entry
                                         /\ samples[j].until > samples[i].entry}
  <2>3. held = {j \in open : samples[j].until > samples[i].entry}
    BY <2>1, StillOpenIsOpen
  <2>4. IsFiniteSet(held) /\ Cardinality(held) \in Nat /\ Cardinality(held) < MaxOpen
    <3>1. held \subseteq 1..Len(samples)
      BY StillOpenIsOpen DEF Indices
    <3>2. IsFiniteSet(held)
      <4> HIDE DEF held
      <4>1. 1 \in Int /\ Len(samples) \in Int
        BY SampleEntries DEF Indices
      <4>2. IsFiniteSet(1..Len(samples))
        BY <4>1, FS_Interval
      <4> QED  BY <3>1, <4>2, FS_Subset
    <3>3. Cardinality(held) < MaxOpen
      BY <1>1, <2>1 DEF Accepts, SlotFree
    <3> QED  BY <3>2, <3>3, FS_CardinalityType
  <2>5. overlap \subseteq held \cup {i}
    <3> SUFFICES ASSUME NEW j \in overlap, j # i PROVE j \in held
      OBVIOUS
    <3>1. j \in Picked /\ samples[j].until > samples[i].entry /\ j \in 1..Len(samples)
      BY <1>2 DEF Indices
    <3>2. j \in open
      BY <1>3, <2>1, <2>2, <3>1 DEF NeverBack
    <3> QED  BY <2>3, <3>1, <3>2
  <2>6. Cardinality(overlap) <= MaxOpen
    <3> HIDE DEF held, overlap
    <3>1. /\ IsFiniteSet(held \cup {i}) /\ Cardinality(held \cup {i}) \in Nat
          /\ Cardinality(held \cup {i}) <= Cardinality(held) + 1
      BY <2>4, FS_AddElement
    <3>2. /\ Cardinality(overlap) <= Cardinality(held \cup {i})
          /\ IsFiniteSet(overlap)
      BY <2>5, <3>1, FS_Subset
    <3>3. Cardinality(overlap) \in Nat
      BY <3>2, FS_CardinalityType
    <3> QED  BY <2>4, <3>1, <3>2, <3>3, Parameters
  <2>7. ASSUME NEW n \in Picked' PROVE Cardinality(Overlapping(n)') <= MaxOpen
    <3>1. Overlapping(n)' = {j \in Picked' : /\ samples[j].entry <= samples[n].entry
                                            /\ samples[j].until > samples[n].entry}
      BY <1>2 DEF Overlapping
    <3>2. n \in 1..Len(samples) /\ samples[n].entry \in Nat /\ samples[i].entry \in Nat
      BY <1>2, <1>3, <2>2 DEF Indices
    <3>3. CASE n = i
      BY <2>6, <3>1, <3>3
    <3>4. CASE n # i /\ samples[i].entry <= samples[n].entry
      <4>1. samples[n].entry <= samples[i].entry
        BY <1>2, <1>3, <2>1, <3>4 DEF NeverBack
      <4>2. samples[n].entry = samples[i].entry
        BY <3>2, <3>4, <4>1
      <4> QED  BY <2>6, <3>1, <4>2
    <3>5. CASE n # i /\ ~(samples[i].entry <= samples[n].entry)
      <4>1. n \in Picked /\ Overlapping(n)' = Overlapping(n)
        BY <1>2, <3>1, <3>5 DEF Overlapping
      <4> QED  BY <2>1, <4>1 DEF SlotsReserved
    <3> QED  BY <3>3, <3>4, <3>5
  <2> QED  BY <2>7
<1>8. SlotsReserved'
  BY <1>2, <1>7 DEF SlotsReserved
<1> QED  BY <1>4, <1>5, <1>6, <1>8

-----------------------------------------------------------------------------

\* Every step keeps the inductive invariant.
LEMMA StepIInv == IInv /\ [Next]_vars => IInv'
<1> SUFFICES ASSUME IInv, [Next]_vars PROVE IInv'
  OBVIOUS
<1>1. CASE NextSample
  BY <1>1, NextSampleStep
<1>2. CASE StartFold \/ FoldOver \/ NoMoreFolds
  BY <1>2, FoldStep
<1>3. CASE NextDay \/ DayOver
  BY <1>3, DayStep
<1>4. CASE Select
  BY <1>4, SelectStep
<1>5. CASE PassOver
  BY <1>5, PassOverStep
<1>6. CASE UNCHANGED vars
  <2>1. Indices'
    BY <1>6 DEF vars, fold, setup, IInv, Indices, Picked, DayOf
  <2>2. Ahead' \subseteq Ahead /\ UNCHANGED <<mode, samples, open, taken>>
    BY <1>6 DEF vars, fold, setup, Ahead
  <2> QED  BY <2>1, <2>2, NothingSelectedStep
<1> QED  BY <1>1, <1>2, <1>3, <1>4, <1>5, <1>6 DEF Next, Done

\* The selection never goes back in time, and keeps to its slots.
LEMMA Invariance == Spec => []IInv
  BY InitIInv, StepIInv, PTL DEF Spec

\* Online, the positions in the market never need more slots than there are,
\* whatever the samples, the folds they are cut into, the daily quotas, the
\* cash and the distances.
THEOREM SlotsAreReserved == Spec => []SlotsReserved
<1>1. IInv => SlotsReserved
  BY DEF IInv
<1> QED  BY <1>1, Invariance, PTL

-----------------------------------------------------------------------------
(* Cash *)

\* The buys in the market at a time.
BuysAt(t) ==
    {j \in Picked : /\ samples[j].side = "BUY"
                    /\ samples[j].entry <= t /\ samples[j].until > t}

\* Whatever time is looked at, and not only the entries, the buys in the market
\* are paid for; nothing selected is still to be judged.
Ledger ==
    /\ \A j \in Picked : taken[j] \in Nat /\ j \notin Ahead
    /\ mode = "online" /\ CashCap > 0 =>
          \A t \in Nat : Committed(BuysAt(t)) <= CashCap

\* Finitely many samples are picked.
LEMMA FinitePicked ==
    ASSUME Indices, NEW S \in SUBSET Picked
    PROVE  IsFiniteSet(S)
<1>1. 1 \in Int /\ Len(samples) \in Int
  BY SampleEntries DEF Indices
<1>2. IsFiniteSet(1..Len(samples))
  BY <1>1, FS_Interval
<1>3. S \subseteq 1..Len(samples)
  BY DEF Indices
<1> QED  BY <1>2, <1>3, FS_Subset

\* The cash and the least size of a position are naturals.
LEMMA CashParameters == CashCap \in Nat /\ MinNotional \in Nat
  BY SignalSelectionAssumption DEF SignalSelectionAssumption

\* What is put into an accepted candidate is a natural, and a buy is paid from
\* what is left of the cash.
LEMMA Payment ==
    ASSUME Indices, \A j \in Picked : taken[j] \in Nat,
           NEW i \in 1..Len(samples), NEW held \in SUBSET Picked,
           Accepts(i, held)
    PROVE  /\ Notional(i, held) \in Nat /\ Committed(held) \in Nat
           /\ CashCap > 0 /\ samples[i].side = "BUY" =>
                 Committed(held) + Notional(i, held) <= CashCap
<1>1. samples[i].notional \in Nat
  <2>1. samples[i] \in Sample
    BY DEF Indices
  <2> QED  BY <2>1 DEF Sample
<1>2. Committed(held) \in Nat
  BY FinitePicked, SumNat DEF Committed
<1>3. Payable(i, held) \in Int
  BY <1>1, <1>2, CashParameters DEF Payable
<1>4. Payable(i, held) >= MinNotional
  BY DEF Accepts
<1>5. Notional(i, held) \in Nat /\ Notional(i, held) <= Payable(i, held)
  BY <1>1, <1>3, <1>4, CashParameters DEF Notional, Smaller
<1>6. CashCap > 0 /\ samples[i].side = "BUY" => Payable(i, held) = CashCap - Committed(held)
  BY DEF Payable
<1> QED  BY <1>2, <1>3, <1>5, <1>6, CashParameters

\* The same selection among the same samples.
LEMMA SameLedger ==
    ASSUME IInv, Ledger, UNCHANGED <<mode, taken>>,
           \A j \in 1..Len(samples) : samples'[j] = samples[j],
           \A j \in Ahead' : j \in Ahead \/ j \notin 1..Len(samples)
    PROVE  Ledger'
<1>1. Picked' = Picked /\ Picked \subseteq 1..Len(samples)
  BY DEF Picked, IInv, Indices
<1>2. \A j \in Picked' : taken'[j] \in Nat /\ j \notin Ahead'
  BY <1>1 DEF Ledger
<1>3. \A t : BuysAt(t)' = BuysAt(t)
  BY <1>1 DEF BuysAt
<1>4. \A t : Committed(BuysAt(t))' = Committed(BuysAt(t))
  BY <1>3 DEF Committed
<1> QED  BY <1>2, <1>4 DEF Ledger

\* What is selected overlaps only what is still open, and is paid for with it.
LEMMA SelectLedger == IInv /\ Ledger /\ Select => Ledger'
<1> SUFFICES ASSUME IInv, Ledger, Select PROVE Ledger'
  OBVIOUS
<1> USE DEF IInv
<1>1. PICK i \in Today :
          /\ NextOfDay(i) /\ Accepts(i, StillOpen(i))
          /\ taken' = [j \in Picked \cup {i} |->
                         IF j = i THEN Notional(i, StillOpen(i)) ELSE taken[j]]
          /\ todo' = todo \ {i}
  BY DEF Select
<1>2. /\ UNCHANGED <<mode, samples, first, pc>> /\ pc = "rank"
      /\ Picked' = Picked \cup {i}
      /\ Ahead = todo /\ Ahead' = todo \ {i}
      /\ i \in todo /\ i \in 1..Len(samples) /\ i \notin Picked
  BY <1>1 DEF Select, fold, setup, Picked, Ahead, Today, Indices, Ledger
<1> DEFINE held == StillOpen(i)
<1>3. held \subseteq Picked
  BY StillOpenIsOpen DEF Indices
<1>4. /\ Notional(i, held) \in Nat /\ Committed(held) \in Nat
      /\ CashCap > 0 /\ samples[i].side = "BUY" =>
            Committed(held) + Notional(i, held) <= CashCap
  BY <1>1, <1>2, <1>3, Payment DEF Ledger
<1> HIDE DEF held
<1>5. taken'[i] = Notional(i, held) /\ \A j \in Picked : taken'[j] = taken[j]
  BY <1>1, <1>2 DEF held
<1>6. \A j \in Picked' : taken'[j] \in Nat /\ j \notin Ahead'
  BY <1>2, <1>4, <1>5 DEF Ledger
<1>7. ASSUME mode = "online", CashCap > 0, NEW t \in Nat
      PROVE  Committed(BuysAt(t))' <= CashCap
  <2>1. \A S \in SUBSET Picked :
            SumFunctionOnSet(taken', S) = SumFunctionOnSet(taken, S)
    BY <1>5, FinitePicked, SumAgrees
  <2>2. BuysAt(t) \subseteq Picked /\ Committed(BuysAt(t)) <= CashCap
    BY <1>7 DEF BuysAt, Ledger
  <2>3. BuysAt(t)' \subseteq BuysAt(t) \cup {i}
    BY <1>2 DEF BuysAt
  <2>4. CASE i \notin BuysAt(t)'
    <3>1. BuysAt(t)' = BuysAt(t)
      BY <1>2, <2>4 DEF BuysAt
    <3>2. Committed(BuysAt(t))' = Committed(BuysAt(t))
      BY <2>1, <2>2, <3>1 DEF Committed
    <3> QED  BY <2>2, <3>2
  <2>5. CASE i \in BuysAt(t)'
    <3>1. samples[i].side = "BUY" /\ samples[i].entry <= t
      BY <1>2, <2>5 DEF BuysAt
    <3>2. BuysAt(t)' = BuysAt(t) \cup {i}
      BY <1>2, <2>5 DEF BuysAt
    <3>3. BuysAt(t) \subseteq held
      <4> SUFFICES ASSUME NEW j \in BuysAt(t) PROVE j \in held
        OBVIOUS
      <4>1. /\ j \in Picked /\ j \in 1..Len(samples)
            /\ samples[j].entry \in Nat /\ samples[j].until \in Nat
            /\ samples[i].entry \in Nat /\ samples[j].until > t
        BY <1>2, SampleEntries DEF BuysAt, Indices
      <4>2. samples[j].until > samples[i].entry
        BY <3>1, <4>1
      <4>3. TracksOpen
        BY <1>7 DEF TracksOpen
      <4>4. NeverBack
        BY <4>3
      <4>5. j \in open
        BY <1>2, <1>7, <4>1, <4>2, <4>4 DEF NeverBack
      <4> QED  BY <4>2, <4>3, <4>5, StillOpenIsOpen DEF held
    <3>4. Committed(BuysAt(t)) <= Committed(held)
      <4>1. IsFiniteSet(held) /\ \A j \in held : taken[j] \in Nat
        BY <1>3, FinitePicked DEF Ledger, held
      <4> QED  BY <3>3, <4>1, SumSubset DEF Committed
    <3>5. Committed(BuysAt(t))' = Committed(BuysAt(t)) + Notional(i, held)
      <4>1. IsFiniteSet(BuysAt(t)) /\ i \notin BuysAt(t)
        BY <1>2, <2>2, FinitePicked
      <4>2. \A j \in BuysAt(t) \cup {i} : taken'[j] \in Int
        BY <1>2, <1>6, <2>2
      <4>3. SumFunctionOnSet(taken', BuysAt(t) \cup {i})
              = SumFunctionOnSet(taken', BuysAt(t)) + taken'[i]
        BY <4>1, <4>2, SumAdd
      <4> QED  BY <1>5, <2>1, <2>2, <3>2, <4>3 DEF Committed
    <3>6. Committed(BuysAt(t)) \in Nat
      <4>1. IsFiniteSet(BuysAt(t)) /\ \A j \in BuysAt(t) : taken[j] \in Nat
        BY <2>2, FinitePicked DEF Ledger
      <4> QED  BY <4>1, SumNat DEF Committed
    <3> QED  BY <1>4, <1>7, <3>1, <3>4, <3>5, <3>6, CashParameters
  <2> QED  BY <2>4, <2>5
<1> QED  BY <1>2, <1>6, <1>7 DEF Ledger

\* No cash is committed at the start.
LEMMA LedgerInit == Init => Ledger
<1> SUFFICES ASSUME Init PROVE Ledger
  OBVIOUS
<1>1. Picked = {}
  BY DEF Init, Picked
<1>2. \A t : BuysAt(t) = {}
  BY <1>1 DEF BuysAt
<1>3. \A t : Committed(BuysAt(t)) = 0
  BY <1>2, SumEmpty DEF Committed
<1> QED  BY <1>1, <1>3, CashParameters DEF Ledger

\* Every step keeps the ledger in balance.
LEMMA LedgerStep == IInv /\ Ledger /\ [Next]_vars => Ledger'
<1> SUFFICES ASSUME IInv, Ledger, [Next]_vars PROVE Ledger'
  OBVIOUS
<1> USE DEF fold, setup
<1>0. Indices /\ Len(samples) \in Nat
  BY SampleEntries DEF IInv, Indices
<1>1. CASE NextSample
  <2>1. /\ UNCHANGED <<mode, taken, first, pc>> /\ pc = "gather"
        /\ \E new : samples' = Append(samples, new)
    BY <1>1 DEF NextSample
  <2>2. /\ \A j \in 1..Len(samples) : samples'[j] = samples[j]
        /\ Len(samples') = Len(samples) + 1
    BY <1>0, <2>1 DEF Indices
  <2>3. \A j \in Ahead' : j \in Ahead \/ j \notin 1..Len(samples)
    BY <1>0, <2>1, <2>2 DEF Ahead, Indices
  <2> QED  BY <2>1, <2>2, <2>3, SameLedger
<1>2. CASE StartFold \/ FoldOver \/ NoMoreFolds
  <2>1. UNCHANGED <<mode, taken, samples>>
    BY <1>2 DEF StartFold, FoldOver, NoMoreFolds
  <2>2. Ahead' \subseteq Ahead
    <3>1. CASE StartFold
      BY <3>1 DEF StartFold, Ahead, Candidates
    <3>2. CASE FoldOver
      <4>1. first' = Len(samples) + 1 /\ pc' = "gather" /\ samples' = samples
        BY <3>2 DEF FoldOver
      <4> QED  BY <1>0, <4>1 DEF Ahead
    <3>3. CASE NoMoreFolds
      BY <1>0, <3>3 DEF NoMoreFolds, Ahead, Indices
    <3> QED  BY <1>2, <3>1, <3>2, <3>3
  <2> QED  BY <2>1, <2>2, SameLedger
<1>3. CASE NextDay \/ DayOver \/ PassOver \/ UNCHANGED vars
  <2>1. UNCHANGED <<mode, taken, samples>>
    BY <1>3 DEF NextDay, DayOver, PassOver, vars
  <2>2. Ahead' \subseteq Ahead
    BY <1>3 DEF NextDay, DayOver, PassOver, vars, Ahead
  <2> QED  BY <2>1, <2>2, SameLedger
<1>4. CASE Select
  BY <1>4, SelectLedger
<1> QED  BY <1>1, <1>2, <1>3, <1>4 DEF Next, Done

\* Online, the buys in the market are paid for at every entry.
LEMMA CashInvariance == Spec => []Ledger
  BY LedgerInit, LedgerStep, Invariance, PTL DEF Spec

\* Online, the buys that are in the market together are never worth more than
\* the cash of the account, whatever was selected on whatever day and fold.
THEOREM CashIsReserved == Spec => []CashReserved
<1>1. IInv /\ Ledger => CashReserved
  <2> SUFFICES ASSUME IInv, Ledger, mode = "online", CashCap > 0, NEW i \in Picked
               PROVE  Committed({j \in Overlapping(i) : samples[j].side = "BUY"}) <= CashCap
    BY DEF CashReserved
  <2>1. samples[i].entry \in Nat
    BY SampleEntries DEF IInv, Indices
  <2>2. {j \in Overlapping(i) : samples[j].side = "BUY"} = BuysAt(samples[i].entry)
    BY DEF Overlapping, BuysAt
  <2> QED  BY <2>1, <2>2 DEF Ledger
<1> QED  BY <1>1, Invariance, CashInvariance, PTL

-----------------------------------------------------------------------------
(* The quota of a day *)

\* The constants of the rate.
LEMMA RateParameters == Parts \in Nat \ {0} /\ Rates \subseteq Nat
  BY SignalSelectionAssumption DEF SignalSelectionAssumption

\* The candidates of the fold that are behind the selection, and the days of a
\* set of them.
Judged    == Candidates \ todo
DaysOf(S) == {DayOf(i) : i \in S}

\* What k days at the rate leave of a fraction, and what is saved up of it.
Leftover(k) == (k * rate) % Parts
Saved(k)    == carry = Leftover(k)

\* The days are taken one after the other, and after each the fractions saved
\* up are those of the days taken: the quota under way is what the rate gives.
QuotaInv ==
    /\ rate \in Rates
    /\ pc = "day" =>
          /\ todo \subseteq Candidates
          /\ \A i \in Judged, j \in todo : DayOf(i) < DayOf(j)
          /\ Saved(Cardinality(DaysOf(Judged)))
    /\ pc = "rank" =>
          /\ todo \subseteq Candidates
          /\ \A i \in Judged : DayOf(i) <= day
          /\ \A j \in todo : day <= DayOf(j)
          /\ day \in DaysOf(Candidates)
          /\ Saved(Cardinality(DaysUpTo(day)))
          /\ quota = QuotaOf(day)

\* The candidates have finitely many days.
LEMMA DaysFinite ==
    ASSUME Indices
    PROVE  /\ \A S \in SUBSET Candidates : /\ IsFiniteSet(DaysOf(S))
                                           /\ Cardinality(DaysOf(S)) \in Nat
           /\ \A i \in Candidates : DayOf(i) \in Nat
           /\ Candidates \subseteq 1..Len(samples)
<1>1. Len(samples) \in Nat /\ first \in Nat \ {0}
  BY SampleEntries DEF Indices
<1>2. Candidates \subseteq 1..Len(samples)
  BY <1>1 DEF Candidates
<1>3. \A i \in Candidates : DayOf(i) \in Nat
  <2> SUFFICES ASSUME NEW i \in Candidates PROVE DayOf(i) \in Nat
    OBVIOUS
  <2>1. samples[i].at \in Nat
    BY <1>2, SampleEntries DEF Indices
  <2> QED  BY <2>1, Parameters DEF DayOf
<1>4. IsFiniteSet(1..Len(samples))
  BY <1>1, FS_Interval
<1>5. ASSUME NEW S \in SUBSET Candidates
      PROVE  IsFiniteSet(DaysOf(S)) /\ Cardinality(DaysOf(S)) \in Nat
  <2>1. IsFiniteSet(S)
    BY <1>2, <1>4, FS_Subset
  <2> DEFINE f == [i \in S |-> DayOf(i)]
  <2>2. f \in Surjection(S, DaysOf(S))
    BY DEF Surjection, DaysOf
  <2> HIDE DEF f
  <2>3. IsFiniteSet(DaysOf(S))
    BY <2>1, <2>2, FS_Surjection
  <2> QED  BY <2>3, FS_CardinalityType
<1> QED  BY <1>2, <1>3, <1>5

\* Within a fold days, candidates and quotas stay what they are.
LEMMA SameFold ==
    ASSUME UNCHANGED fold
    PROVE  /\ Candidates' = Candidates /\ \A i : DayOf(i)' = DayOf(i)
           /\ \A S : DaysOf(S)' = {DayOf(i) : i \in S'}
           /\ \A d : DaysUpTo(d)' = DaysUpTo(d) /\ QuotaOf(d)' = QuotaOf(d)
           /\ \A k : Entitled(k)' = Entitled(k)
<1> USE DEF fold, setup
<1>1. Candidates' = Candidates /\ \A i : DayOf(i)' = DayOf(i)
  BY DEF Candidates, Passes, DayOf
<1>2. \A d : DaysUpTo(d)' = DaysUpTo(d)
  BY <1>1 DEF DaysUpTo
<1>3. \A k : Entitled(k)' = Entitled(k)
  BY DEF Entitled
<1>4. \A S : DaysOf(S)' = {DayOf(i) : i \in S'}
  BY <1>1 DEF DaysOf
<1>5. \A d : QuotaOf(d)' = QuotaOf(d)
  BY <1>2 DEF QuotaOf, Entitled
<1> QED  BY <1>1, <1>2, <1>3, <1>4, <1>5

\* No quota is used at the start.
LEMMA QuotaInit == Init => QuotaInv
  BY DEF Init, QuotaInv

\* The fold begins with no day taken and nothing saved up.
LEMMA StartFoldQuota == IInv /\ QuotaInv /\ StartFold => QuotaInv'
<1> SUFFICES ASSUME IInv, QuotaInv, StartFold PROVE QuotaInv'
  OBVIOUS
<1>1. /\ UNCHANGED fold /\ pc' = "day" /\ todo' = Candidates /\ carry' = 0
      /\ rate' = rate
  BY DEF StartFold, fold, setup
<1>2. Candidates' = Candidates
  BY <1>1, SameFold
<1>3. Judged' = {}
  BY <1>1, <1>2 DEF Judged
<1>4. DaysOf(Judged)' = {}
  BY <1>3 DEF DaysOf
<1>5. Cardinality(DaysOf(Judged))' = 0
  BY <1>4, FS_EmptySet
<1>6. rate \in Nat
  BY RateParameters DEF QuotaInv
<1>7. (0 * rate) % Parts = 0
  BY <1>6, RateParameters
<1>8. Saved(Cardinality(DaysOf(Judged)))'
  BY <1>1, <1>5, <1>7 DEF Saved, Leftover
<1> QED  BY <1>1, <1>2, <1>3, <1>8 DEF QuotaInv

\* One more day of the rate: the whole part, and one more when the fractions
\* left by the days before make another.
LEMMA OneMoreDay ==
    ASSUME rate \in Nat, NEW k \in Nat
    PROVE  /\ Leftover(k) + Part >= Parts =>
                 /\ Entitled(k + 1) = Entitled(k) + Whole + 1
                 /\ Leftover(k + 1) = Leftover(k) + Part - Parts
           /\ ~(Leftover(k) + Part >= Parts) =>
                 /\ Entitled(k + 1) = Entitled(k) + Whole
                 /\ Leftover(k + 1) = Leftover(k) + Part
           /\ Entitled(k) \in Nat /\ Whole \in Nat
<1> DEFINE n == Parts
           r == rate
           a == k * rate
           b == (k + 1) * rate
<1>1. /\ a \in Nat /\ b = a + r /\ r \in Nat /\ n \in Nat \ {0}
  BY RateParameters
<1>2. /\ Leftover(k) = a % n /\ Leftover(k + 1) = b % n
      /\ Entitled(k) = a \div n /\ Entitled(k + 1) = b \div n
      /\ Part = r % n /\ Whole = r \div n /\ n = Parts
  BY DEF Leftover, Entitled, Part, Whole
<1> HIDE DEF a, b, n, r
<1>3. /\ (a % n) + (r % n) >= n =>
            /\ (a + r) \div n = (a \div n) + (r \div n) + 1
            /\ (a + r) % n = (a % n) + (r % n) - n
      /\ ~((a % n) + (r % n) >= n) =>
            /\ (a + r) \div n = (a \div n) + (r \div n)
            /\ (a + r) % n = (a % n) + (r % n)
  BY <1>1, Adding, Zenon
<1>4. /\ Leftover(k + 1) = (a + r) % n /\ Entitled(k + 1) = (a + r) \div n
  BY <1>1, <1>2, Zenon
<1>5. a \div n \in Nat /\ r \div n \in Nat
  BY <1>1
<1>6. /\ Leftover(k) + Part >= n =>
            /\ Entitled(k + 1) = Entitled(k) + Whole + 1
            /\ Leftover(k + 1) = Leftover(k) + Part - n
  <2> SUFFICES ASSUME Leftover(k) + Part >= n
               PROVE  /\ Entitled(k + 1) = Entitled(k) + Whole + 1
                      /\ Leftover(k + 1) = Leftover(k) + Part - n
    OBVIOUS
  <2>1. (a % n) + (r % n) >= n
    BY <1>2, Zenon
  <2> QED  BY <1>2, <1>3, <1>4, <2>1, Zenon
<1>7. /\ ~(Leftover(k) + Part >= n) =>
            /\ Entitled(k + 1) = Entitled(k) + Whole
            /\ Leftover(k + 1) = Leftover(k) + Part
  <2> SUFFICES ASSUME ~(Leftover(k) + Part >= n)
               PROVE  /\ Entitled(k + 1) = Entitled(k) + Whole
                      /\ Leftover(k + 1) = Leftover(k) + Part
    OBVIOUS
  <2>1. ~((a % n) + (r % n) >= n)
    BY <1>2, Zenon
  <2> QED  BY <1>2, <1>3, <1>4, <2>1, Zenon
<1>8. Entitled(k) \in Nat /\ Whole \in Nat
  BY <1>2, <1>5, Zenon
<1>9. n = Parts
  BY DEF n
<1> QED  BY <1>6, <1>7, <1>8, <1>9

\* The next day is one more day with candidates: its quota is what the rate
\* gives for one day more.
LEMMA NextDayGives ==
    ASSUME IInv, QuotaInv, NextDay
    PROVE  \E i \in todo :
              /\ \A j \in todo : DayOf(i) <= DayOf(j)
              /\ day' = DayOf(i)
              /\ quota' = QuotaOf(DayOf(i))
              /\ carry' = Leftover(Cardinality(DaysUpTo(DayOf(i))))
              /\ DaysUpTo(DayOf(i)) = DaysOf(Judged) \cup {DayOf(i)}
              /\ IF quota' = 0
                 THEN pc' = "day"  /\ todo' = {j \in todo : DayOf(j) # DayOf(i)}
                 ELSE pc' = "rank" /\ todo' = todo
<1>1. PICK i \in todo :
          /\ \A j \in todo : DayOf(i) <= DayOf(j)
          /\ day' = DayOf(i)
          /\ IF carry + Part >= Parts
             THEN quota' = Whole + 1 /\ carry' = carry + Part - Parts
             ELSE quota' = Whole     /\ carry' = carry + Part
          /\ IF quota' = 0
             THEN pc' = "day"  /\ todo' = {j \in todo : DayOf(j) # DayOf(i)}
             ELSE pc' = "rank" /\ todo' = todo
  BY DEF NextDay
<1> DEFINE d == DayOf(i)
           old == DaysOf(Judged)
           k == Cardinality(old)
<1>2. /\ pc = "day" /\ UNCHANGED fold /\ rate' = rate /\ Indices
  BY DEF NextDay, fold, setup, IInv
<1>3. /\ todo \subseteq Candidates /\ i \in Candidates
      /\ \A a \in Judged, b \in todo : DayOf(a) < DayOf(b)
      /\ carry = Leftover(k)
      /\ \A a \in Candidates : DayOf(a) \in Nat
      /\ IsFiniteSet(old) /\ k \in Nat
      /\ rate \in Nat /\ Parts \in Nat \ {0}
  BY <1>2, DaysFinite, RateParameters DEF QuotaInv, Saved, Judged
<1>4. DaysUpTo(d) = old \cup {d} /\ d \notin old
  <2>1. ASSUME NEW x \in DaysUpTo(d) PROVE x \in old \cup {d}
    <3>1. PICK j \in Candidates : DayOf(j) <= d /\ x = DayOf(j)
      BY DEF DaysUpTo
    <3>2. CASE j \in todo
      <4>1. DayOf(j) = d
        BY <1>1, <1>3, <3>1, <3>2
      <4> QED  BY <3>1, <4>1
    <3>3. CASE j \notin todo
      BY <3>1, <3>3 DEF DaysOf, Judged
    <3> QED  BY <3>2, <3>3
  <2>2. ASSUME NEW x \in old PROVE x \in DaysUpTo(d) /\ x # d
    <3>1. PICK j \in Judged : x = DayOf(j)
      BY DEF DaysOf
    <3>2. j \in Candidates /\ DayOf(j) < d /\ DayOf(j) \in Nat /\ d \in Nat
      BY <1>3 DEF Judged
    <3> QED  BY <3>1, <3>2 DEF DaysUpTo
  <2>3. d \in DaysUpTo(d)
    BY <1>3 DEF DaysUpTo
  <2> QED  BY <2>1, <2>2, <2>3
<1>5. Cardinality(DaysUpTo(d)) = k + 1
  <2> HIDE DEF old, d
  <2> QED  BY <1>3, <1>4, FS_AddElement
<1>6. quota' = QuotaOf(d) /\ carry' = Leftover(k + 1)
  <2>1. /\ carry + Part >= Parts => quota' = Whole + 1 /\ carry' = carry + Part - Parts
        /\ ~(carry + Part >= Parts) => quota' = Whole /\ carry' = carry + Part
    BY <1>1
  <2> HIDE DEF d, k
  <2>2. /\ Leftover(k) + Part >= Parts =>
              /\ Entitled(k + 1) = Entitled(k) + Whole + 1
              /\ Leftover(k + 1) = Leftover(k) + Part - Parts
        /\ ~(Leftover(k) + Part >= Parts) =>
              /\ Entitled(k + 1) = Entitled(k) + Whole
              /\ Leftover(k + 1) = Leftover(k) + Part
        /\ Entitled(k) \in Nat /\ Whole \in Nat
    BY <1>3, OneMoreDay
  <2>3. QuotaOf(d) = Entitled(k + 1) - Entitled(k)
    BY <1>3, <1>5 DEF QuotaOf
  <2> QED  BY <1>3, <2>1, <2>2, <2>3
<1>7. carry' = Leftover(Cardinality(DaysUpTo(d)))
  BY <1>5, <1>6
<1> QED  BY <1>1, <1>4, <1>6, <1>7

\* The day begins with what the days so far have saved up.
LEMMA NextDayQuota == IInv /\ QuotaInv /\ NextDay => QuotaInv'
<1> SUFFICES ASSUME IInv, QuotaInv, NextDay PROVE QuotaInv'
  OBVIOUS
<1>1. PICK i \in todo :
          /\ \A j \in todo : DayOf(i) <= DayOf(j)
          /\ day' = DayOf(i)
          /\ quota' = QuotaOf(DayOf(i))
          /\ carry' = Leftover(Cardinality(DaysUpTo(DayOf(i))))
          /\ DaysUpTo(DayOf(i)) = DaysOf(Judged) \cup {DayOf(i)}
          /\ IF quota' = 0
             THEN pc' = "day"  /\ todo' = {j \in todo : DayOf(j) # DayOf(i)}
             ELSE pc' = "rank" /\ todo' = todo
  BY NextDayGives
<1> DEFINE d == DayOf(i)
           old == DaysOf(Judged)
<1>2. /\ pc = "day" /\ UNCHANGED fold /\ rate' = rate /\ Indices
  BY DEF NextDay, fold, setup, IInv
<1>3. /\ todo \subseteq Candidates /\ i \in Candidates
      /\ \A a \in Judged, b \in todo : DayOf(a) < DayOf(b)
      /\ \A a \in Candidates : DayOf(a) \in Nat
  BY <1>2, DaysFinite DEF QuotaInv
<1>4. /\ quota' = QuotaOf(d) /\ DaysUpTo(d) = old \cup {d}
      /\ carry' = Leftover(Cardinality(DaysUpTo(d)))
  BY <1>1
<1>7. /\ Candidates' = Candidates /\ \A j : DayOf(j)' = DayOf(j)
      /\ \A e : DaysUpTo(e)' = DaysUpTo(e) /\ QuotaOf(e)' = QuotaOf(e)
  BY <1>2, SameFold
<1>8. CASE pc' = "day"
  <2>1. todo' = {j \in todo : DayOf(j) # d}
    BY <1>1, <1>8
  <2>2. Judged' = Judged \cup {j \in todo : DayOf(j) = d}
    BY <1>3, <1>7, <2>1 DEF Judged
  <2>3. todo' \subseteq Candidates'
    BY <1>3, <1>7, <2>1
  <2>4. \A a \in Judged', b \in todo' : DayOf(a) < DayOf(b)
    <3> SUFFICES ASSUME NEW a \in Judged', NEW b \in todo' PROVE DayOf(a) < DayOf(b)
      OBVIOUS
    <3>1. DayOf(b) \in Nat /\ d \in Nat /\ d <= DayOf(b) /\ DayOf(b) # d /\ b \in todo
      BY <1>1, <1>3, <2>1
    <3>2. CASE a \in Judged
      BY <1>3, <3>1, <3>2
    <3>3. CASE DayOf(a) = d
      BY <3>1, <3>3
    <3> QED  BY <2>2, <3>2, <3>3
  <2>5. DaysOf(Judged)' = DaysUpTo(d)
    <3>1. DaysOf(Judged)' = {DayOf(j) : j \in Judged'}
      BY <1>2, SameFold
    <3>2. {DayOf(j) : j \in Judged'} = old \cup {d}
      BY <2>2 DEF DaysOf
    <3> QED  BY <1>4, <3>1, <3>2
  <2>6. Saved(Cardinality(DaysOf(Judged)))'
    BY <1>2, <1>4, <2>5 DEF Saved, Leftover
  <2>7. (\A a \in Judged, b \in todo : DayOf(a) < DayOf(b))'
    BY <1>7, <2>4
  <2> QED  BY <1>2, <1>8, <2>3, <2>6, <2>7 DEF QuotaInv
<1>9. CASE pc' # "day"
  <2>1. pc' = "rank" /\ todo' = todo /\ Judged' = Judged
    BY <1>1, <1>7, <1>9 DEF Judged
  <2>2. \A a \in Judged : DayOf(a) <= d
    BY <1>3 DEF Judged
  <2>3. d \in DaysOf(Candidates)'
    BY <1>3, <1>7 DEF DaysOf
  <2>4. /\ Saved(Cardinality(DaysUpTo(day)))'
        /\ quota' = QuotaOf(day)'
    <3>1. DaysUpTo(day)' = DaysUpTo(d) /\ QuotaOf(day)' = QuotaOf(d)
      BY <1>1, <1>2 DEF DaysUpTo, QuotaOf, Entitled, Candidates, Passes, DayOf, fold, setup
    <3> QED  BY <1>2, <1>4, <3>1 DEF Saved, Leftover
  <2>5. (\A a \in Judged : DayOf(a) <= day)'
    BY <1>1, <1>7, <2>1, <2>2
  <2>6. (\A b \in todo : day <= DayOf(b))'
    BY <1>1, <1>7, <2>1
  <2>7. todo' \subseteq Candidates'
    BY <1>3, <1>7, <2>1
  <2>8. (day \in DaysOf(Candidates))'
    BY <1>1, <2>3
  <2> QED  BY <1>2, <2>1, <2>4, <2>5, <2>6, <2>7, <2>8 DEF QuotaInv
<1> QED  BY <1>8, <1>9

\* A candidate is judged: it is of the day under way, whose quota stays.
LEMMA JudgedQuota ==
    ASSUME IInv, QuotaInv, pc = "rank", UNCHANGED <<fold, pc, day, quota, carry>>,
           NEW i \in Today, todo' = todo \ {i}
    PROVE  QuotaInv'
<1>1. /\ UNCHANGED fold /\ pc' = "rank" /\ rate' = rate /\ Indices
      /\ day' = day /\ quota' = quota /\ carry' = carry
  BY DEF fold, setup, IInv
<1>2. /\ i \in todo /\ DayOf(i) = day /\ todo \subseteq Candidates
      /\ \A a \in Judged : DayOf(a) <= day
      /\ \A b \in todo : day <= DayOf(b)
      /\ \A a \in Candidates : DayOf(a) \in Nat
  BY <1>1, DaysFinite DEF QuotaInv, Today
<1>3. /\ Candidates' = Candidates /\ \A j : DayOf(j)' = DayOf(j)
      /\ \A e : DaysUpTo(e)' = DaysUpTo(e) /\ QuotaOf(e)' = QuotaOf(e)
  BY <1>1, SameFold
<1>4. Judged' = Judged \cup {i}
  BY <1>2, <1>3 DEF Judged
<1>5. \A a \in Judged' : DayOf(a) <= day
  BY <1>2, <1>4
<1>6. (\A a \in Judged : DayOf(a) <= day)'
  BY <1>1, <1>3, <1>5
<1>7. (\A b \in todo : day <= DayOf(b))'
  BY <1>1, <1>2, <1>3
<1>8. (day \in DaysOf(Candidates))'
  BY <1>1, <1>3 DEF QuotaInv, DaysOf
<1>9. DaysUpTo(day)' = DaysUpTo(day) /\ QuotaOf(day)' = QuotaOf(day)
  BY <1>1 DEF DaysUpTo, QuotaOf, Entitled, Candidates, Passes, DayOf, fold, setup
<1>10. Saved(Cardinality(DaysUpTo(day)))'
  BY <1>1, <1>9 DEF QuotaInv, Saved, Leftover
<1> QED  BY <1>1, <1>2, <1>3, <1>6, <1>7, <1>8, <1>9, <1>10 DEF QuotaInv

\* The day is over: its days are those judged.
LEMMA DayOverQuota == IInv /\ QuotaInv /\ DayOver => QuotaInv'
<1> SUFFICES ASSUME IInv, QuotaInv, DayOver PROVE QuotaInv'
  OBVIOUS
<1>1. /\ UNCHANGED fold /\ pc = "rank" /\ pc' = "day" /\ rate' = rate /\ Indices
      /\ carry' = carry /\ todo' = todo \ Today
  BY DEF DayOver, fold, setup, IInv
<1>2. /\ todo \subseteq Candidates
      /\ \A a \in Judged : DayOf(a) <= day
      /\ \A b \in todo : day <= DayOf(b)
      /\ \A a \in Candidates : DayOf(a) \in Nat
      /\ day \in DaysOf(Candidates)
      /\ Saved(Cardinality(DaysUpTo(day)))
  BY <1>1, DaysFinite DEF QuotaInv
<1>3. day \in Nat
  BY <1>2 DEF DaysOf
<1>4. Candidates' = Candidates /\ \A j : DayOf(j)' = DayOf(j)
  BY <1>1, SameFold
<1>5. Judged' = Judged \cup Today
  BY <1>1, <1>2, <1>4 DEF Judged, Today
<1>6. \A b \in todo' : b \in Candidates /\ day < DayOf(b)
  BY <1>1, <1>2, <1>3 DEF Today
<1>7. \A a \in Judged' : a \in Candidates /\ DayOf(a) <= day
  BY <1>2, <1>3, <1>5 DEF Judged, Today
<1>8. \A a \in Judged', b \in todo' : DayOf(a) < DayOf(b)
  BY <1>2, <1>3, <1>6, <1>7
<1>9. (\A a \in Judged, b \in todo : DayOf(a) < DayOf(b))'
  BY <1>4, <1>8
<1>10. {DayOf(j) : j \in Judged'} = DaysUpTo(day)
  <2>1. ASSUME NEW j \in Candidates, DayOf(j) <= day PROVE j \in Judged'
    BY <1>2, <1>3, <1>4, <1>6, <2>1 DEF Judged
  <2>2. Judged' = {j \in Candidates : DayOf(j) <= day}
    BY <1>7, <2>1
  <2> QED  BY <2>2 DEF DaysUpTo
<1>11. DaysOf(Judged)' = DaysUpTo(day)
  BY <1>1, <1>10, SameFold
<1>12. Saved(Cardinality(DaysOf(Judged)))'
  BY <1>1, <1>2, <1>11 DEF Saved, Leftover
<1>13. todo' \subseteq Candidates'
  BY <1>4, <1>6
<1> QED  BY <1>1, <1>9, <1>12, <1>13 DEF QuotaInv

\* Every step keeps the account of the days.
LEMMA QuotaStep == IInv /\ QuotaInv /\ [Next]_vars => QuotaInv'
<1> SUFFICES ASSUME IInv, QuotaInv, [Next]_vars PROVE QuotaInv'
  OBVIOUS
<1>1. CASE NextSample
  BY <1>1 DEF NextSample, QuotaInv, setup
<1>2. CASE StartFold
  BY <1>2, StartFoldQuota
<1>3. CASE NextDay
  BY <1>3, NextDayQuota
<1>4. CASE Select
  <2>1. PICK i \in Today : todo' = todo \ {i}
    BY <1>4 DEF Select
  <2>2. pc = "rank" /\ UNCHANGED <<fold, pc, day, quota, carry>>
    BY <1>4 DEF Select
  <2> QED  BY <2>1, <2>2, JudgedQuota
<1>5. CASE PassOver
  <2>1. PICK i \in Today : todo' = todo \ {i}
    BY <1>5 DEF PassOver
  <2>2. pc = "rank" /\ UNCHANGED <<fold, pc, day, quota, carry>>
    BY <1>5 DEF PassOver
  <2> QED  BY <2>1, <2>2, JudgedQuota
<1>6. CASE DayOver
  BY <1>6, DayOverQuota
<1>7. CASE FoldOver
  BY <1>7 DEF FoldOver, QuotaInv, setup
<1>8. CASE NoMoreFolds
  BY <1>8 DEF NoMoreFolds, QuotaInv, fold, setup
<1>9. CASE UNCHANGED vars
  <2>1. /\ UNCHANGED fold /\ pc' = pc /\ todo' = todo /\ day' = day
        /\ quota' = quota /\ carry' = carry /\ rate' = rate
    BY <1>9 DEF vars, fold, setup
  <2>2. /\ Candidates' = Candidates /\ \A j : DayOf(j)' = DayOf(j)
        /\ DaysUpTo(day)' = DaysUpTo(day) /\ QuotaOf(day)' = QuotaOf(day)
        /\ Judged' = Judged /\ DaysOf(Judged)' = DaysOf(Judged)
        /\ DaysOf(Candidates)' = DaysOf(Candidates)
    BY <2>1 DEF DaysUpTo, QuotaOf, Entitled, Candidates, Passes, DayOf, Judged,
                DaysOf, fold, setup
  <2> QED  BY <2>1, <2>2 DEF QuotaInv, Saved, Leftover
<1>10. CASE Done
  BY <1>9, <1>10 DEF Done
<1> QED  BY <1>1, <1>2, <1>3, <1>4, <1>5, <1>6, <1>7, <1>8, <1>9, <1>10 DEF Next

\* In every state the days and the fractions saved up are in step.
LEMMA QuotaInvariance == Spec => []QuotaInv
<1> QED  BY QuotaInit, QuotaStep, Invariance, PTL DEF Spec

\* What is not accepted given what the loop counts as open is left out for a
\* cause in the market: more positions are held than the loop counts, never less.
LEMMA NotAccepted ==
    ASSUME Indices, Ledger, NEW i \in 1..Len(samples), ~Accepts(i, StillOpen(i))
    PROVE  Cause(i)
<1> DEFINE held == {j \in Picked : samples[j].until > samples[i].entry}
           kept == StillOpen(i)
<1>1. samples[i].notional \in Nat
  <2>1. samples[i] \in Sample
    BY DEF Indices
  <2> QED  BY <2>1 DEF Sample
<1>2. MaxOpen \in Nat /\ CashCap \in Nat /\ MinNotional \in Nat
  BY Parameters, CashParameters
<1>3. TracksOpen => kept \subseteq held
  BY StillOpenIsOpen DEF Indices
<1>4. kept \in SUBSET Picked /\ held \in SUBSET Picked
  BY StillOpenIsOpen DEF Indices
<1>5. IsFiniteSet(kept) /\ IsFiniteSet(held)
  BY <1>4, FinitePicked
<1> HIDE DEF kept, held
<1>6. TracksOpen => Cardinality(kept) <= Cardinality(held)
  BY <1>3, <1>5, FS_Subset
<1>7. Cardinality(kept) \in Nat /\ Cardinality(held) \in Nat
  BY <1>5, FS_CardinalityType
<1>8. \A j \in held : taken[j] \in Nat
  BY <1>4 DEF Ledger
<1>9. TracksOpen => Committed(kept) <= Committed(held)
  BY <1>3, <1>5, <1>8, SumSubset DEF Committed
<1>10. Committed(kept) \in Nat /\ Committed(held) \in Nat
  BY <1>4, <1>5, SumNat DEF Committed, Ledger
<1>11. Cause(i) <=>
          \/ Cardinality(SelectedFor(DayOf(i))) >= QuotaOf(DayOf(i))
          \/ RespectOpen /\ MaxOpen > 0 /\ Cardinality(held) >= MaxOpen
          \/ samples[i].notional < MinNotional
          \/ CashCap > 0 /\ samples[i].side = "BUY" /\ CashCap - Committed(held) < MinNotional
          \/ ~WellSpaced(i)
  BY DEF Cause, held
<1>12. CASE ~SlotFree(kept)
  <2>1. RespectOpen /\ MaxOpen > 0 /\ ~(Cardinality(kept) < MaxOpen)
    BY <1>12 DEF SlotFree
  <2>2. TracksOpen
    BY <2>1 DEF TracksOpen
  <2>3. Cardinality(held) >= MaxOpen
    BY <1>2, <1>6, <1>7, <2>1, <2>2
  <2> QED  BY <1>11, <2>1, <2>3
<1>13. CASE ~(Payable(i, kept) >= MinNotional) \/ ~(Notional(i, kept) >= MinNotional)
  <2>1. CASE CashCap > 0 /\ samples[i].side = "BUY"
    <3>1. Payable(i, kept) = CashCap - Committed(kept) /\ TracksOpen
      BY <2>1 DEF Payable, TracksOpen
    <3>2. samples[i].notional < MinNotional \/ CashCap - Committed(kept) < MinNotional
      BY <1>1, <1>2, <1>10, <1>13, <3>1 DEF Notional, Smaller
    <3>3. samples[i].notional < MinNotional \/ CashCap - Committed(held) < MinNotional
      BY <1>2, <1>9, <1>10, <3>1, <3>2
    <3> QED  BY <1>11, <2>1, <3>3
  <2>2. CASE ~(CashCap > 0 /\ samples[i].side = "BUY")
    <3>1. Payable(i, kept) = samples[i].notional
      BY <2>2 DEF Payable
    <3>2. samples[i].notional < MinNotional
      BY <1>1, <1>2, <1>13, <3>1 DEF Notional, Smaller
    <3> QED  BY <1>11, <3>2
  <2> QED  BY <2>1, <2>2
<1>14. CASE ~WellSpaced(i)
  BY <1>11, <1>14
<1> QED  BY <1>12, <1>13, <1>14 DEF Accepts, kept

\* What a step takes off the list without selecting it had a cause to go.
LEMMA LeftOutStep ==
    ASSUME IInv, Ledger, QuotaInv, [Next]_vars, NEW i \in todo \ todo'
    PROVE  i \in DOMAIN taken' \/ Cause(i)
<1>1. /\ Indices /\ Len(samples) \in Nat /\ i \in 1..Len(samples)
  BY SampleEntries DEF IInv, Indices
<1>2. pc # "gather" /\ pc # "done"
  BY DEF IInv, Indices
<1>3. CASE NextDay
  <2>1. PICK k \in todo :
            /\ quota' = QuotaOf(DayOf(k))
            /\ IF quota' = 0
               THEN pc' = "day"  /\ todo' = {j \in todo : DayOf(j) # DayOf(k)}
               ELSE pc' = "rank" /\ todo' = todo
    BY <1>3, NextDayGives
  <2>2. DayOf(i) = DayOf(k) /\ QuotaOf(DayOf(i)) = 0
    BY <2>1
  <2>3. Cardinality(SelectedFor(DayOf(i))) \in Nat
    <3>1. SelectedFor(DayOf(i)) \in SUBSET Picked
      BY DEF SelectedFor
    <3> QED  BY <1>1, <3>1, FinitePicked, FS_CardinalityType
  <2> QED  BY <2>2, <2>3 DEF Cause
<1>4. CASE Select
  BY <1>4 DEF Select
<1>5. CASE PassOver
  <2>1. ~Accepts(i, StillOpen(i))
    BY <1>5 DEF PassOver
  <2> QED  BY <1>1, <2>1, NotAccepted
<1>6. CASE DayOver
  <2>1. i \in Today /\ Cardinality(SelectedFor(day)) >= quota /\ pc = "rank"
    BY <1>6 DEF DayOver
  <2>2. DayOf(i) = day /\ quota = QuotaOf(day)
    BY <2>1 DEF Today, QuotaInv
  <2> QED  BY <2>1, <2>2 DEF Cause
<1>7. CASE NextSample \/ StartFold \/ NoMoreFolds
  BY <1>2, <1>7 DEF NextSample, StartFold, NoMoreFolds
<1>8. CASE FoldOver \/ UNCHANGED vars
  BY <1>8 DEF FoldOver, vars
<1> QED  BY <1>3, <1>4, <1>5, <1>6, <1>7, <1>8 DEF Next, Done

\* In every mode a candidate goes unselected only for a cause that holds in the
\* market: the day's quota as the rate gives it, slots, cash, size or spacing.
THEOREM LeftOutJustified == Spec => LeftOutForCause
<1>1. IInv /\ Ledger /\ QuotaInv /\ [Next]_vars =>
          [\A i \in todo \ todo' : i \in DOMAIN taken' \/ Cause(i)]_vars
  BY LeftOutStep
<1> QED
  BY <1>1, Invariance, CashInvariance, QuotaInvariance, PTL DEF Spec, LeftOutForCause

=============================================================================
