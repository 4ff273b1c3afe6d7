---------------------------- MODULE Research_proofs ----------------------------
(***************************************************************************)
(* Proofs about what research is done with.                                *)
(*                                                                         *)
(* CandidateBacktest, for every set of prices, distances, limits and       *)
(* length of the archive: labels, replayed exits and limit fills are true  *)
(* to the prices behind the bars (from ArchiveInv), and no trade is        *)
(* entered where a stop or a cooldown forbids it (from BookInv).           *)
(*                                                                         *)
(* Dataset, for every configuration of candidates, features and labels,    *)
(* every series of bars and every observation: no sample knows anything    *)
(* later than the moment it stands for (from DataInv), a dataset built     *)
(* later says the same of an event (from TrainedInv: the dataset is of     *)
(* bars and observations that those there are agree with), and so does a   *)
(* live scoring (from ServedInv: it is of a stretch of the bars).          *)
(*                                                                         *)
(* Experiments, for every suite, set of strict experiments, replay data,   *)
(* minimum and number of commands: what a summary may call                 *)
(* promotion-eligible, and what a runner may report as its own (from Inv). *)
(***************************************************************************)
EXTENDS Experiments, CandidateBacktest, Dataset, NumberLemmas,
        SequenceTheorems, FiniteSetTheorems, TLAPS

-----------------------------------------------------------------------------
(* The candidate loop *)

\* The bars ahead lie ahead, one after the other.
ArchiveInv ==
    /\ now \in Nat
    /\ ahead \in Seq(Bar)
    /\ \A i \in DOMAIN ahead :
          /\ ahead[i].at = ahead[i].start + BarLength
          /\ ahead[i].start >= now
          /\ DOMAIN ahead[i].path = 1..(TicksPerBar + 1)
    /\ \A i, j \in DOMAIN ahead : i < j => ahead[i].at <= ahead[j].start

\* What the loop is told about prices and limits are numbers.
LEMMA LoopConstants ==
    /\ Prices \subseteq Nat
    /\ BarLength \in Nat \ {0} /\ StartEquity \in Nat \ {0} /\ Horizon \in Nat \ {0}
    /\ Stop \in Nat \ {0} /\ Target \in Nat \ {0} /\ Cost \in Nat /\ MinHold \in Nat \ {0}
    /\ RiskPct \in Nat \ {0} /\ Requested \in Nat \ {0} /\ PaperMax \in Nat \ {0}
    /\ Holes \subseteq Nat /\ TicksPerBar \in Nat
    /\ LossLimit \in Nat /\ Cooldown \in Nat /\ DrawdownPct \in Nat
    /\ EntryTimeout \in Nat /\ Latency \in Nat
  BY TripleBarrierAssumption, CandidateBacktestAssumption
     DEF TripleBarrierAssumption, CandidateBacktestAssumption

\* Each bar ahead, and the place of one among the others.
LEMMA AheadFacts ==
    ASSUME ArchiveInv
    PROVE  /\ Len(ahead) \in Nat /\ DOMAIN ahead = 1..Len(ahead)
           /\ \A i \in 1..Len(ahead) :
                 /\ ahead[i] \in Bar
                 /\ ahead[i].start \in Nat /\ ahead[i].at \in Nat
                 /\ ahead[i].start >= now /\ ahead[i].at > now
                 /\ ahead[i].start < ahead[i].at
                 /\ ahead[i].path \in Seq(Prices)
           /\ \A i, j \in 1..Len(ahead) : i < j =>
                 /\ ahead[i].start < ahead[j].start
                 /\ ahead[i].at <= ahead[j].start
                 /\ ahead[i].at < ahead[j].at
<1>1. ahead \in Seq(Bar) /\ now \in Nat
  BY DEF ArchiveInv
<1>2. Len(ahead) \in Nat /\ DOMAIN ahead = 1..Len(ahead)
  BY <1>1, LenProperties
<1>3. \A i \in 1..Len(ahead) : ahead[i] \in Bar
  BY <1>1, ElementOfSeq
<1>4. \A i \in 1..Len(ahead) :
         ahead[i].start \in Nat /\ ahead[i].at \in Nat /\ ahead[i].path \in Seq(Prices)
  BY <1>3 DEF Bar
<1>5. \A i \in 1..Len(ahead) :
         ahead[i].at = ahead[i].start + BarLength /\ ahead[i].start >= now
  BY <1>2 DEF ArchiveInv
<1>6. \A i, j \in 1..Len(ahead) : i < j => ahead[i].at <= ahead[j].start
  BY <1>2 DEF ArchiveInv
<1>7. \A i \in 1..Len(ahead) : ahead[i].at > now /\ ahead[i].start < ahead[i].at
  BY <1>1, <1>4, <1>5, LoopConstants
<1>8. \A i, j \in 1..Len(ahead) : i < j =>
         ahead[i].start < ahead[j].start /\ ahead[i].at < ahead[j].at
  BY <1>4, <1>6, <1>7
<1> QED
  BY <1>2, <1>3, <1>4, <1>5, <1>6, <1>7, <1>8

\* A part of the numbers up to n that goes on from the first without a gap is counted by
\* its last element.
LEMMA InitialPart ==
    ASSUME NEW n \in Nat, NEW S, S \subseteq 1..n,
           \A i, j \in 1..n : i <= j /\ j \in S => i \in S
    PROVE  /\ Cardinality(S) \in 0..n
           /\ \A i \in 1..n : i \in S <=> i <= Cardinality(S)
<1>1. CASE S = {}
  <2>1. Cardinality(S) = 0
    BY <1>1, FS_EmptySet
  <2> QED
    BY <1>1, <2>1
<1>2. CASE S # {}
  <2>1. S \in SUBSET (0..n)
    OBVIOUS
  <2>2. Max(S) \in S /\ \A x \in S : x <= Max(S)
    BY <1>2, <2>1, GreatestElement
  <2>3. PICK m \in 1..n : m \in S /\ \A x \in S : x <= m
    BY <2>2
  <2>4. \A i \in 1..n : i \in S <=> i <= m
    BY <2>3
  <2>5. S = 1..m
    <3>1. \A i \in S : i \in 1..m
      BY <2>4
    <3>2. \A i \in 1..m : i \in 1..n
      OBVIOUS
    <3>3. \A i \in 1..m : i \in S
      BY <2>4, <3>2
    <3> QED  BY <3>1, <3>3
  <2>6. Cardinality(1..m) = m
    <3>1. m \in Int /\ 1 \in Int /\ 1 <= m
      BY <2>3
    <3>2. Cardinality(1..m) = m - 1 + 1
      BY <3>1, FS_Interval
    <3> QED  BY <3>1, <3>2
  <2> QED
    BY <2>4, <2>5, <2>6
<1> QED
  BY <1>1, <1>2

\* The loop finds the bars up to the vertical barrier.
LEMMA UpToHorizon ==
    ASSUME ArchiveInv
    PROVE  /\ HorizonEnd \in 0..Len(ahead)
           /\ \A i \in 1..Len(ahead) : ahead[i].at <= Vertical <=> i <= HorizonEnd
           /\ Len(Future) = HorizonEnd /\ DOMAIN Future = 1..HorizonEnd
           /\ Future \in Seq(Bar)
           /\ \A i \in 1..HorizonEnd : Future[i] = ahead[i]
<1> DEFINE n == Len(ahead)
           S == {i \in DOMAIN ahead : ahead[i].at <= Vertical}
<1>1. n \in Nat /\ DOMAIN ahead = 1..n
  BY AheadFacts
<1>2. Vertical \in Nat
  BY LoopConstants DEF Vertical, ArchiveInv
<1>3. \A i, j \in 1..n : i <= j /\ j \in S => i \in S
  <2> SUFFICES ASSUME NEW i \in 1..n, NEW j \in 1..n, i <= j, j \in S PROVE i \in S
    OBVIOUS
  <2>1. ahead[i].at \in Nat /\ ahead[j].at \in Nat /\ ahead[j].at <= Vertical
    BY AheadFacts
  <2>2. i < j => ahead[i].at < ahead[j].at
    BY AheadFacts
  <2> QED
    BY <1>1, <1>2, <2>1, <2>2
<1>4. S \subseteq 1..n
  BY <1>1
<1>5. HorizonEnd = Cardinality(S)
  BY Zenon DEF HorizonEnd
<1>6. \A i \in 1..n : i \in S <=> ahead[i].at <= Vertical
  BY <1>1
<1> HIDE DEF S
<1>7. HorizonEnd \in 0..n /\ \A i \in 1..n : i \in S <=> i <= HorizonEnd
  BY <1>1, <1>3, <1>4, <1>5, InitialPart
<1> DEFINE h == HorizonEnd
<1>8. h \in 0..n /\ 1 \in Int /\ h \in Int /\ \A i \in 1..h : ahead[i] \in Bar
  <2>1. h \in 0..n
    BY <1>7
  <2> HIDE DEF h
  <2>2. \A i \in 1..h : i \in 1..n
    BY <1>1, <2>1
  <2> QED
    BY <1>1, <2>1, <2>2, AheadFacts
<1>9. /\ SubSeq(ahead, 1, h) \in Seq(Bar)
      /\ Len(SubSeq(ahead, 1, h)) = IF 1 <= h THEN h - 1 + 1 ELSE 0
      /\ \A i \in 1..(h - 1 + 1) : SubSeq(ahead, 1, h)[i] = ahead[1 + i - 1]
  <2> HIDE DEF h
  <2> QED
    BY <1>8, SubSeqProperties
<1>10. Future = SubSeq(ahead, 1, h)
  BY DEF Future
<1> HIDE DEF h
<1>11. Len(Future) = h /\ DOMAIN Future = 1..h
  <2>1. Len(Future) = h
    BY <1>1, <1>8, <1>9, <1>10
  <2> QED
    BY <2>1, <1>9, <1>10, LenProperties
<1>12. \A i \in 1..h : Future[i] = ahead[i]
  BY <1>1, <1>8, <1>9, <1>10
<1> QED
  BY <1>6, <1>7, <1>9, <1>10, <1>11, <1>12 DEF h

\* The three ways a scan of bars can end.
LEMMA ThreeExits ==
    ASSUME NEW side, NEW entry, NEW row, NEW from
    PROVE  LET exit == FirstExit(side, entry, row, from) IN
           \/ \E i \in DOMAIN row :
                /\ FirstHit(side, entry, row, from, i)
                /\ StoppedIn(side, entry, row[i])
                /\ exit = [kind |-> "stop", at |-> row[i].at, gain |-> Cost - Stop]
           \/ \E i \in DOMAIN row :
                /\ FirstHit(side, entry, row, from, i)
                /\ ~StoppedIn(side, entry, row[i])
                /\ exit = [kind |-> "profit", at |-> row[i].at, gain |-> Target + Cost]
           \/ exit = [kind |-> "vertical", at |-> row[Len(row)].at,
                      gain |-> Gain(side, entry, Close(row[Len(row)]))]
<1> DEFINE k == CHOOSE i \in DOMAIN row : FirstHit(side, entry, row, from, i)
<1>1. CASE \E i \in DOMAIN row : FirstHit(side, entry, row, from, i)
  <2>1. k \in DOMAIN row /\ FirstHit(side, entry, row, from, k)
    BY <1>1
  <2>2. FirstExit(side, entry, row, from)
          = IF StoppedIn(side, entry, row[k])
            THEN [kind |-> "stop", at |-> row[k].at, gain |-> Cost - Stop]
            ELSE [kind |-> "profit", at |-> row[k].at, gain |-> Target + Cost]
    BY <1>1 DEF FirstExit
  <2> HIDE DEF k
  <2> QED
    BY <2>1, <2>2
<1>2. CASE ~ \E i \in DOMAIN row : FirstHit(side, entry, row, from, i)
  BY <1>2 DEF FirstExit
<1> QED
  BY <1>1, <1>2

\* What a window keeps of the bars ahead: a stretch, cut by the stamps.
LEMMA WindowAhead ==
    ASSUME ArchiveInv, NEW first \in Int, NEW last \in Int
    PROVE  \E a, b \in 0..Len(ahead) :
              /\ \A i \in 1..Len(ahead) : ahead[i].at < first <=> i <= a
              /\ \A i \in 1..Len(ahead) : ahead[i].at <= last <=> i <= b
              /\ Window(ahead, first, last) = SubSeq(ahead, a + 1, b)
              /\ DOMAIN Window(ahead, first, last) = 1..(b - a)
              /\ \A i \in 1..(b - a) :
                    /\ a + i \in 1..Len(ahead)
                    /\ Window(ahead, first, last)[i] = ahead[a + i]
<1> DEFINE n == Len(ahead)
           S == {i \in DOMAIN ahead : ahead[i].at < first}
           T == {i \in DOMAIN ahead : ahead[i].at <= last}
<1>1. n \in Nat /\ DOMAIN ahead = 1..n
  BY AheadFacts
<1>2. \A i, j \in 1..n : i <= j => ahead[i].at <= ahead[j].at
  BY AheadFacts
<1>3. \A i \in 1..n : ahead[i].at \in Int
  BY AheadFacts
<1>4. /\ S \subseteq 1..n /\ \A i \in 1..n : i \in S <=> ahead[i].at < first
      /\ T \subseteq 1..n /\ \A i \in 1..n : i \in T <=> ahead[i].at <= last
  BY <1>1
<1>5. Window(ahead, first, last) = SubSeq(ahead, Cardinality(S) + 1, Cardinality(T))
  BY Zenon DEF Window
<1> HIDE DEF S, T
<1>6. \A i, j \in 1..n : i <= j /\ j \in S => i \in S
  BY <1>2, <1>3, <1>4
<1>7. \A i, j \in 1..n : i <= j /\ j \in T => i \in T
  BY <1>2, <1>3, <1>4
<1>8. Cardinality(S) \in 0..n /\ \A i \in 1..n : i \in S <=> i <= Cardinality(S)
  BY <1>1, <1>4, <1>6, InitialPart
<1>9. Cardinality(T) \in 0..n /\ \A i \in 1..n : i \in T <=> i <= Cardinality(T)
  BY <1>1, <1>4, <1>7, InitialPart
<1> DEFINE a == Cardinality(S)
           b == Cardinality(T)
           w == SubSeq(ahead, a + 1, b)
<1>10. /\ a \in 0..n /\ b \in 0..n
       /\ \A i \in 1..n : ahead[i].at < first <=> i <= a
       /\ \A i \in 1..n : ahead[i].at <= last <=> i <= b
  BY <1>4, <1>8, <1>9
<1> HIDE DEF a, b
<1>11. \A i \in (a + 1)..b : ahead[i] \in Bar
  <2>1. \A i \in (a + 1)..b : i \in 1..n
    BY <1>1, <1>10
  <2> QED  BY <2>1, AheadFacts
<1>12. a + 1 \in Int /\ b \in Int
  BY <1>1, <1>10
<1>13. /\ w \in Seq(Bar)
       /\ Len(w) = IF a + 1 <= b THEN b - (a + 1) + 1 ELSE 0
       /\ \A i \in 1..(b - (a + 1) + 1) : w[i] = ahead[a + 1 + i - 1]
  BY <1>11, <1>12, SubSeqProperties
<1>14. DOMAIN w = 1..Len(w)
  BY <1>13, LenProperties
<1> HIDE DEF w
<1>15. DOMAIN w = 1..(b - a)
  <2>1. CASE a + 1 <= b
    BY <2>1, <1>1, <1>10, <1>13, <1>14
  <2>2. CASE ~(a + 1 <= b)
    BY <2>2, <1>1, <1>10, <1>13, <1>14
  <2> QED  BY <2>1, <2>2
<1>16. \A i \in 1..(b - a) : a + i \in 1..n /\ w[i] = ahead[a + i]
  <2> SUFFICES ASSUME NEW i \in 1..(b - a) PROVE a + i \in 1..n /\ w[i] = ahead[a + i]
    OBVIOUS
  <2>1. i \in 1..(b - (a + 1) + 1) /\ a + 1 + i - 1 = a + i /\ a + i \in 1..n
    BY <1>1, <1>10
  <2> QED  BY <1>13, <2>1
<1>17. Window(ahead, first, last) = w
  BY <1>5 DEF w, a, b
<1> QED
  BY <1>10, <1>15, <1>16, <1>17 DEF w

-----------------------------------------------------------------------------
(* Labels, fills and exits *)

\* Where one bar counts as one exit only, a scan that ends with a profit has the
\* prices on its side.
LEMMA ProfitEarned ==
    ASSUME Conservative, NEW side, NEW entry, NEW from, NEW row,
           Len(row) \in Nat, DOMAIN row = 1..Len(row),
           \A i \in DOMAIN row : DOMAIN row[i].path = 1..(TicksPerBar + 1),
           FirstExit(side, entry, row, from).kind = "profit"
    PROVE  TargetFirst(side, entry, row, from)
<1>1. PICK i \in DOMAIN row : /\ FirstHit(side, entry, row, from, i)
                               /\ ~StoppedIn(side, entry, row[i])
  BY ThreeExits
<1>2. /\ ~HitStop(side, entry, row[i]) /\ HitProfit(side, entry, row[i])
      /\ row[i].start >= from
  BY <1>1 DEF FirstHit, StoppedIn, Hit
<1>3. PICK k \in 1..(TicksPerBar + 1) : Gain(side, entry, row[i].path[k]) >= Target + Cost
  BY <1>2 DEF HitProfit, Touched
<1> DEFINE t == <<i, k>>
<1>4. t \in Ticks(row, from) /\ ProfitAt(side, entry, Price(row, t))
  BY <1>2, <1>3 DEF Ticks, ProfitAt, Price
<1>5. ASSUME NEW s \in Ticks(row, from), StopAt(side, entry, Price(row, s))
      PROVE  Earlier(t, s)
  <2>1. /\ s[1] \in 1..Len(row) /\ s[2] \in 1..(TicksPerBar + 1)
        /\ row[s[1]].start >= from
    BY DEF Ticks
  <2>2. Gain(side, entry, row[s[1]].path[s[2]]) <= Cost - Stop
    BY <1>5 DEF StopAt, Price
  <2>3. row[s[1]].path[s[2]] \in Touched(row[s[1]])
    BY <2>1 DEF Touched
  <2>4. HitStop(side, entry, row[s[1]])
    BY <2>2, <2>3 DEF HitStop
  <2>5. i <= s[1]
    BY <1>1, <2>1, <2>4 DEF FirstHit, Hit
  <2>6. i # s[1]
    BY <1>2, <2>4
  <2> QED
    BY <2>1, <2>5, <2>6 DEF Earlier
<1> QED
  BY <1>4, <1>5 DEF TargetFirst

\* The next bar begins no earlier than the present.
LEMMA FirstBar ==
    ASSUME ArchiveInv, Future # <<>>
    PROVE  /\ Len(ahead) \in Nat /\ 1 \in 1..Len(ahead) /\ HorizonEnd >= 1
           /\ Future[1] = ahead[1]
           /\ SampleEntryAt = ahead[1].start /\ ahead[1].start \in Nat
           /\ \A i \in 1..Len(ahead) : ahead[1].start <= ahead[i].start
                                       /\ ahead[1].start < ahead[i].at
<1>1. /\ HorizonEnd \in 0..Len(ahead) /\ Len(Future) = HorizonEnd /\ Future \in Seq(Bar)
      /\ \A i \in 1..HorizonEnd : Future[i] = ahead[i]
  BY UpToHorizon
<1>2. Len(ahead) \in Nat
  BY AheadFacts
<1>3. HorizonEnd >= 1
  <2>1. Len(Future) \in Nat \ {0}
    BY <1>1, EmptySeq
  <2> QED  BY <1>1, <2>1
<1>4. 1 \in 1..Len(ahead) /\ Future[1] = ahead[1]
  BY <1>1, <1>2, <1>3
<1>5. ahead[1].start \in Nat /\ ahead[1].start >= now /\ now \in Nat
  BY <1>4, AheadFacts DEF ArchiveInv
<1>6. SampleEntryAt = ahead[1].start
  BY <1>4, <1>5 DEF SampleEntryAt, MostOf
<1>7. \A i \in 1..Len(ahead) : ahead[1].start <= ahead[i].start
                               /\ ahead[1].start < ahead[i].at
  <2> SUFFICES ASSUME NEW i \in 1..Len(ahead)
               PROVE  ahead[1].start <= ahead[i].start /\ ahead[1].start < ahead[i].at
    OBVIOUS
  <2>1. i = 1 \/ 1 < i
    BY <1>2
  <2>2. 1 < i => ahead[1].start < ahead[i].start
    BY <1>4, AheadFacts
  <2>3. ahead[i].start < ahead[i].at /\ ahead[i].start \in Nat /\ ahead[i].at \in Nat
    BY AheadFacts
  <2> QED  BY <1>5, <2>1, <2>2, <2>3
<1> QED
  BY <1>2, <1>3, <1>4, <1>5, <1>6, <1>7

\* The bars from the beginning of the next one up to the vertical barrier are the future.
LEMMA WindowIsFuture ==
    ASSUME ArchiveInv, Future # <<>>
    PROVE  Window(ahead, ahead[1].start, Vertical) = Future
<1>1. ahead[1].start \in Int /\ Vertical \in Int
  BY FirstBar, LoopConstants DEF Vertical, ArchiveInv
<1>2. PICK a, b \in 0..Len(ahead) :
         /\ \A i \in 1..Len(ahead) : ahead[i].at < ahead[1].start <=> i <= a
         /\ \A i \in 1..Len(ahead) : ahead[i].at <= Vertical <=> i <= b
         /\ Window(ahead, ahead[1].start, Vertical) = SubSeq(ahead, a + 1, b)
  <2> HIDE DEF Vertical
  <2> QED  BY <1>1, WindowAhead
<1>3. /\ Len(ahead) \in Nat /\ 1 \in 1..Len(ahead)
      /\ HorizonEnd \in 0..Len(ahead)
      /\ \A i \in 1..Len(ahead) : ahead[i].at <= Vertical <=> i <= HorizonEnd
  BY FirstBar, UpToHorizon
<1>4. ahead[1].start < ahead[1].at /\ ahead[1].start \in Nat /\ ahead[1].at \in Nat
  BY <1>3, AheadFacts
<1>5. a = 0
  <2>1. ~(1 <= a)
    BY <1>2, <1>3, <1>4
  <2> QED  BY <1>2, <1>3, <2>1
<1>6. \A i \in 1..Len(ahead) : i <= b <=> i <= HorizonEnd
  BY <1>2, <1>3
<1>7. b = HorizonEnd
  <2>1. b \in 1..Len(ahead) => b <= HorizonEnd
    BY <1>3, <1>6
  <2>2. HorizonEnd \in 1..Len(ahead) => HorizonEnd <= b
    BY <1>3, <1>6
  <2> QED  BY <1>3, <2>1, <2>2
<1> QED
  BY <1>2, <1>5, <1>7 DEF Future

\* A market order is filled at the open of the next bar, even where it has to fall back on
\* the label's own price.
LEMMA FilledAtOpen ==
    ASSUME ArchiveInv, Future # <<>>
    PROVE  MarketFill(ahead, SampleEntryAt, Open(Future[1]))
             = [at |-> ahead[1].start, price |-> Open(ahead[1])]
<1> DEFINE at == ahead[1].start
           w == Window(ahead, at, at + EntryTimeout)
           late == {i \in DOMAIN w : w[i].start >= at}
<1>1. /\ SampleEntryAt = at /\ Future[1] = ahead[1] /\ at \in Nat
      /\ 1 \in 1..Len(ahead) /\ Len(ahead) \in Nat
  BY FirstBar
<1>2. MarketFill(ahead, SampleEntryAt, Open(Future[1]))
        = IF late = {} THEN [at |-> at, price |-> Open(ahead[1])]
          ELSE [at |-> w[Min(late)].start, price |-> Open(w[Min(late)])]
  BY <1>1, Zenon DEF MarketFill
<1>3. at + EntryTimeout \in Int /\ at \in Int
  BY <1>1, LoopConstants
<1>4. PICK a, b \in 0..Len(ahead) :
         /\ \A i \in 1..Len(ahead) : ahead[i].at < at <=> i <= a
         /\ DOMAIN w = 1..(b - a)
         /\ \A i \in 1..(b - a) : a + i \in 1..Len(ahead) /\ w[i] = ahead[a + i]
  <2> HIDE DEF at
  <2> QED  BY <1>3, WindowAhead
<1>5. a = 0
  <2>1. at < ahead[1].at /\ ahead[1].at \in Nat
    BY <1>1, AheadFacts
  <2>2. ~(1 <= a)
    BY <1>1, <1>4, <2>1
  <2> QED  BY <1>1, <1>4, <2>2
<1> HIDE DEF w
<1>6. CASE late # {}
  <2>1. 1 \in DOMAIN w /\ w[1] = ahead[1]
    BY <1>1, <1>4, <1>5, <1>6
  <2>2. 1 \in late
    BY <1>1, <2>1
  <2>3. late \in SUBSET Int /\ IsFiniteSet(late)
    <3>1. late \subseteq 1..(b - a) /\ 1 \in Int /\ b - a \in Int
      BY <1>1, <1>4
    <3>2. IsFiniteSet(1..(b - a))
      BY <3>1, FS_Interval
    <3> HIDE DEF late
    <3>3. IsFiniteSet(late)
      BY <3>1, <3>2, FS_Subset
    <3> QED  BY <3>1, <3>3
  <2>4. \A x \in late : x \in Int /\ 1 <= x
    BY <1>1, <1>4
  <2> HIDE DEF late
  <2>5. Min(late) \in late /\ \A x \in late : Min(late) <= x
    BY <2>2, <2>3, FiniteLeast
  <2>6. Min(late) = 1
    BY <2>2, <2>4, <2>5
  <2> QED
    BY <1>2, <1>6, <2>1, <2>6
<1>7. CASE late = {}
  BY <1>2, <1>7
<1> QED
  BY <1>6, <1>7

\* The replay with a market entry and the label are one and the same scan.
LEMMA ReplayIsLabel == ArchiveInv => ReplayMatchesLabel
<1> SUFFICES ASSUME ArchiveInv, Judged, NEW side \in Side
             PROVE  Replay(side, MarketFill(ahead, SampleEntryAt, Open(Future[1])),
                           ahead, Vertical) = {SampleLabel(side)}
  BY Zenon DEF ReplayMatchesLabel
<1> DEFINE fill == [at |-> ahead[1].start, price |-> Open(ahead[1])]
           from == ahead[1].start + MinHold
<1>1. Future # <<>>
  BY DEF Judged
<1>2. MarketFill(ahead, SampleEntryAt, Open(Future[1])) = fill
  BY <1>1, FilledAtOpen
<1>3. Window(ahead, fill.at, Vertical) = Future
  BY <1>1, WindowIsFuture
<1>4. fill.at + (IF MinHold > 1 THEN MinHold ELSE 1) = from
  BY <1>1, LoopConstants
<1>5. Replay(side, fill, ahead, Vertical) = {FirstExit(side, Open(ahead[1]), Future, from)}
  <2>1. fill.price = Open(ahead[1])
    OBVIOUS
  <2> HIDE DEF fill, from
  <2> QED
    BY <1>1, <1>3, <1>4, <2>1 DEF Replay
<1>6. SampleLabel(side) = FirstExit(side, Open(ahead[1]), Future, from)
  BY <1>1, FirstBar DEF SampleLabel, Label
<1> QED
  BY <1>2, <1>5, <1>6

\* Both labels of an event are earned.
LEMMA LabelsEarned == ArchiveInv => PositiveLabelEarned
<1> SUFFICES ASSUME ArchiveInv, Judged, Conservative PROVE
        /\ \A side \in Side :
              Positive(SampleLabel(side)) =>
                 TargetFirst(side, Open(Future[1]), Future, SampleEntryAt + MinHold)
        /\ Positive(CandidateLabel) =>
              TargetFirst("BUY", Open(ahead[1]), Future, Future[1].at + MinHold)
  BY Zenon DEF PositiveLabelEarned
<1>1. /\ Len(Future) \in Nat /\ DOMAIN Future = 1..Len(Future)
      /\ \A i \in DOMAIN Future : DOMAIN Future[i].path = 1..(TicksPerBar + 1)
  <2>1. /\ HorizonEnd \in 0..Len(ahead) /\ Len(Future) = HorizonEnd
        /\ DOMAIN Future = 1..HorizonEnd /\ \A i \in 1..HorizonEnd : Future[i] = ahead[i]
    BY UpToHorizon
  <2>2. Len(ahead) \in Nat /\ DOMAIN ahead = 1..Len(ahead)
    BY AheadFacts
  <2>3. \A i \in DOMAIN ahead : DOMAIN ahead[i].path = 1..(TicksPerBar + 1)
    BY DEF ArchiveInv
  <2>4. \A i \in 1..HorizonEnd : i \in DOMAIN ahead
    BY <2>1, <2>2
  <2> QED  BY <2>1, <2>2, <2>3, <2>4
<1>2. ASSUME NEW side \in Side, Positive(SampleLabel(side))
      PROVE  TargetFirst(side, Open(Future[1]), Future, SampleEntryAt + MinHold)
  <2>1. FirstExit(side, Open(Future[1]), Future, SampleEntryAt + MinHold).kind = "profit"
    BY <1>2 DEF Positive, SampleLabel, Label
  <2> QED  BY <1>1, <2>1, ProfitEarned
<1>3. ASSUME Positive(CandidateLabel)
      PROVE  TargetFirst("BUY", Open(ahead[1]), Future, Future[1].at + MinHold)
  <2>1. FirstExit("BUY", Open(ahead[1]), Future, Future[1].at + MinHold).kind = "profit"
    BY <1>3 DEF Positive, CandidateLabel, Label
  <2> QED  BY <1>1, <2>1, ProfitEarned
<1> QED
  BY <1>2, <1>3

\* A limit fill is at the start of a bar ahead, not before the order is live, whose
\* prices trade through the limit.
LEMMA LimitFilledIn ==
    ASSUME ArchiveInv, NEW side, NEW entryAt \in Int, NEW fallback,
           NEW fill \in LimitFills(side, ahead, entryAt, fallback)
    PROVE  \E m \in 1..Len(ahead) :
              /\ fill.at = ahead[m].start
              /\ ahead[m].start >= entryAt + Latency
              /\ TradesThrough(side, fill.price, ahead[m])
<1> DEFINE limit == LimitPrice(side, MarketFill(ahead, entryAt, fallback).price)
           w == Window(ahead, entryAt, entryAt + EntryTimeout)
           reached == {i \in DOMAIN w : /\ w[i].start >= entryAt + Latency
                                        /\ TradesThrough(side, limit, w[i])}
<1>1. LimitFills(side, ahead, entryAt, fallback)
        = IF reached = {} THEN {} ELSE {[at |-> w[Min(reached)].start, price |-> limit]}
  BY Zenon DEF LimitFills
<1>2. reached # {} /\ fill = [at |-> w[Min(reached)].start, price |-> limit]
  BY <1>1
<1>3. entryAt + EntryTimeout \in Int
  BY LoopConstants
<1>4. PICK a, b \in 0..Len(ahead) :
         /\ DOMAIN w = 1..(b - a)
         /\ \A i \in 1..(b - a) : a + i \in 1..Len(ahead) /\ w[i] = ahead[a + i]
  BY <1>3, WindowAhead
<1> HIDE DEF w, limit
<1>5. reached \in SUBSET Int /\ IsFiniteSet(reached)
  <2>1. reached \subseteq 1..(b - a) /\ 1 \in Int /\ b - a \in Int
    BY <1>4, AheadFacts
  <2>2. IsFiniteSet(1..(b - a))
    BY <2>1, FS_Interval
  <2> HIDE DEF reached
  <2>3. IsFiniteSet(reached)
    BY <2>1, <2>2, FS_Subset
  <2> QED  BY <2>1, <2>3
<1>6. Min(reached) \in reached
  <2> HIDE DEF reached
  <2> QED  BY <1>2, <1>5, FiniteLeast
<1>7. PICK r \in reached : fill = [at |-> w[r].start, price |-> limit]
  BY <1>2, <1>6
<1>8. r \in DOMAIN w /\ w[r].start >= entryAt + Latency /\ TradesThrough(side, limit, w[r])
  OBVIOUS
<1>9. a + r \in 1..Len(ahead) /\ w[r] = ahead[a + r]
  BY <1>4, <1>8
<1> HIDE DEF reached
<1>10. fill.at = w[r].start /\ fill.price = limit
  BY <1>7
<1> QED
  BY <1>8, <1>9, <1>10

\* An exit that a replay finds at a barrier is in a bar that begins after the fill, and
\* that bar's prices touch the barrier.
LEMMA ExitTouches ==
    ASSUME ArchiveInv, NEW side, NEW fill, fill.at \in Int,
           NEW exit \in Replay(side, fill, ahead, Vertical), exit.kind # "vertical"
    PROVE  \E q \in 1..Len(ahead) :
              /\ ahead[q].start > fill.at
              /\ exit.kind = "profit" => HitProfit(side, fill.price, ahead[q])
              /\ exit.kind = "stop" => HitStop(side, fill.price, ahead[q])
<1> DEFINE w == Window(ahead, fill.at, Vertical)
           hold == IF MinHold > 1 THEN MinHold ELSE 1
           from == fill.at + hold
<1>1. exit = FirstExit(side, fill.price, w, from)
  <2>1. Replay(side, fill, ahead, Vertical)
          = IF w = <<>> THEN {} ELSE {FirstExit(side, fill.price, w, from)}
    BY Zenon DEF Replay
  <2> QED  BY <2>1
<1>2. Vertical \in Int
  BY LoopConstants DEF Vertical, ArchiveInv
<1>3. PICK a, b \in 0..Len(ahead) :
         /\ DOMAIN w = 1..(b - a)
         /\ \A i \in 1..(b - a) : a + i \in 1..Len(ahead) /\ w[i] = ahead[a + i]
  <2> HIDE DEF Vertical
  <2> QED  BY <1>2, WindowAhead
<1>4. hold >= 1 /\ hold \in Int
  BY LoopConstants
<1> HIDE DEF w, hold
<1>5. PICK i \in DOMAIN w :
         /\ FirstHit(side, fill.price, w, from, i)
         /\ \/ StoppedIn(side, fill.price, w[i]) /\ exit.kind = "stop"
            \/ ~StoppedIn(side, fill.price, w[i]) /\ exit.kind = "profit"
  <2> HIDE DEF from
  <2> QED  BY <1>1, ThreeExits
<1>6. a + i \in 1..Len(ahead) /\ w[i] = ahead[a + i]
  BY <1>3, <1>5
<1>7. w[i].start >= from /\ Hit(side, fill.price, w[i])
  BY <1>5 DEF FirstHit
<1>8. ahead[a + i].start \in Nat
  BY <1>6, AheadFacts
<1>9. ahead[a + i].start > fill.at
  BY <1>4, <1>6, <1>7, <1>8
<1>10. /\ exit.kind = "profit" => HitProfit(side, fill.price, w[i])
       /\ exit.kind = "stop" => HitStop(side, fill.price, w[i])
  BY <1>5, <1>7 DEF StoppedIn, Hit
<1> QED
  BY <1>6, <1>9, <1>10

\* The limit was touched before the barrier that ends the trade was.
LEMMA ExitAfterLimit == ArchiveInv => LimitExitAfterFill
<1> SUFFICES ASSUME ArchiveInv, Judged, NEW side \in Side,
                    NEW fill \in LimitFills(side, ahead, SampleEntryAt, Open(Future[1])),
                    NEW exit \in Replay(side, fill, ahead, Vertical),
                    exit.kind # "vertical"
             PROVE  \E s, t \in Ticks(ahead, SampleEntryAt + Latency) :
                      /\ Earlier(s, t)
                      /\ Gain(side, Price(ahead, s), fill.price) >= TradeThrough
                      /\ exit.kind = "profit" => ProfitAt(side, fill.price, Price(ahead, t))
                      /\ exit.kind = "stop" => StopAt(side, fill.price, Price(ahead, t))
  BY Zenon DEF LimitExitAfterFill
<1>1. SampleEntryAt \in Int
  BY FirstBar DEF Judged
<1>2. PICK m \in 1..Len(ahead) :
         /\ fill.at = ahead[m].start
         /\ ahead[m].start >= SampleEntryAt + Latency
         /\ TradesThrough(side, fill.price, ahead[m])
  <2> HIDE DEF SampleEntryAt
  <2> QED  BY <1>1, LimitFilledIn
<1>3. ahead[m].start \in Int
  BY AheadFacts
<1>4. PICK q \in 1..Len(ahead) :
         /\ ahead[q].start > ahead[m].start
         /\ exit.kind = "profit" => HitProfit(side, fill.price, ahead[q])
         /\ exit.kind = "stop" => HitStop(side, fill.price, ahead[q])
  BY <1>2, <1>3, ExitTouches
<1>5. exit.kind \in {"profit", "stop"}
  <2>1. PICK x, y, z : exit = FirstExit(side, x, y, z)
    BY DEF Replay
  <2> QED  BY <2>1, ThreeExits
<1>6. ahead[q].start \in Int /\ m < q
  <2>1. ahead[q].start \in Int
    BY AheadFacts
  <2>2. ~(q < m)
    BY <1>3, <1>4, <2>1, AheadFacts
  <2>3. q # m
    BY <1>3, <1>4
  <2> QED  BY <2>1, <2>2, <2>3, AheadFacts
<1>7. ahead[q].start >= SampleEntryAt + Latency
  BY <1>1, <1>2, <1>3, <1>4, <1>6, LoopConstants
<1>8. \A i \in 1..Len(ahead) : DOMAIN ahead[i].path = 1..(TicksPerBar + 1)
  BY AheadFacts DEF ArchiveInv
<1>9. PICK k \in 1..(TicksPerBar + 1) :
         Gain(side, ahead[m].path[k], fill.price) >= TradeThrough
  BY <1>2, <1>8 DEF TradesThrough, Touched
<1>10. PICK l \in 1..(TicksPerBar + 1) :
          /\ exit.kind = "profit" => ProfitAt(side, fill.price, ahead[q].path[l])
          /\ exit.kind = "stop" => StopAt(side, fill.price, ahead[q].path[l])
  BY <1>4, <1>5, <1>8 DEF HitProfit, HitStop, Touched, ProfitAt, StopAt
<1> DEFINE s == <<m, k>>
           t == <<q, l>>
<1>11. s \in Ticks(ahead, SampleEntryAt + Latency) /\ t \in Ticks(ahead, SampleEntryAt + Latency)
  BY <1>2, <1>7 DEF Ticks
<1>12. Price(ahead, s) = ahead[m].path[k] /\ Price(ahead, t) = ahead[q].path[l]
  BY DEF Price
<1>13. Earlier(s, t)
  BY <1>6 DEF Earlier
<1> HIDE DEF s, t
<1> QED
  BY <1>9, <1>10, <1>11, <1>12, <1>13

-----------------------------------------------------------------------------
(* The archive *)

\* What is left of the bars ahead after some of them.
LEMMA BarsLeft ==
    ASSUME ArchiveInv, NEW k \in 1..Len(ahead), NEW later, NEW then,
           then = ahead[k].at, later = SubSeq(ahead, k + 1, Len(ahead))
    PROVE  /\ then \in Nat /\ then > now
           /\ later \in Seq(Bar)
           /\ DOMAIN later = 1..(Len(ahead) - k)
           /\ \A i \in 1..(Len(ahead) - k) :
                 k + i \in 1..Len(ahead) /\ later[i] = ahead[k + i]
<1> DEFINE n == Len(ahead)
<1>1. n \in Nat /\ k \in 1..n
  BY AheadFacts
<1>2. then \in Nat /\ then > now
  BY AheadFacts
<1> HIDE DEF n
<1>3. \A i \in (k + 1)..n : ahead[i] \in Bar
  <2>1. \A i \in (k + 1)..n : i \in 1..n
    BY <1>1
  <2> QED  BY <2>1, AheadFacts DEF n
<1>4. k + 1 \in Int /\ n \in Int
  BY <1>1
<1>5. /\ SubSeq(ahead, k + 1, n) \in Seq(Bar)
      /\ Len(SubSeq(ahead, k + 1, n)) = IF k + 1 <= n THEN n - (k + 1) + 1 ELSE 0
      /\ \A i \in 1..(n - (k + 1) + 1) : SubSeq(ahead, k + 1, n)[i] = ahead[k + 1 + i - 1]
  BY <1>3, <1>4, SubSeqProperties
<1>6. later = SubSeq(ahead, k + 1, n)
  BY DEF n
<1>7. DOMAIN later = 1..(n - k)
  <2>1. Len(later) = n - k
    BY <1>1, <1>5, <1>6
  <2>2. DOMAIN later = 1..Len(later)
    BY <1>5, <1>6, LenProperties
  <2> QED  BY <2>1, <2>2
<1>8. \A i \in 1..(n - k) : k + i \in 1..n /\ later[i] = ahead[k + i]
  <2> SUFFICES ASSUME NEW i \in 1..(n - k) PROVE k + i \in 1..n /\ later[i] = ahead[k + i]
    OBVIOUS
  <2>1. i \in 1..(n - (k + 1) + 1) /\ k + 1 + i - 1 = k + i /\ k + i \in 1..n
    BY <1>1
  <2> QED  BY <1>5, <1>6, <2>1
<1> QED
  BY <1>2, <1>5, <1>6, <1>7, <1>8 DEF n

\* The loop goes on to a later bar.
LEMMA GoneOn ==
    ASSUME ArchiveInv, NEW k \in 1..Len(ahead),
           now' = ahead[k].at, ahead' = SubSeq(ahead, k + 1, Len(ahead))
    PROVE  ArchiveInv'
<1>1. /\ now' \in Nat
      /\ ahead' \in Seq(Bar)
      /\ DOMAIN ahead' = 1..(Len(ahead) - k)
      /\ \A i \in 1..(Len(ahead) - k) :
            k + i \in 1..Len(ahead) /\ ahead'[i] = ahead[k + i]
  <2> DEFINE later == ahead'
             then == now'
  <2>1. then = ahead[k].at /\ later = SubSeq(ahead, k + 1, Len(ahead))
    OBVIOUS
  <2> HIDE DEF later, then
  <2>2. /\ then \in Nat /\ later \in Seq(Bar)
        /\ DOMAIN later = 1..(Len(ahead) - k)
        /\ \A i \in 1..(Len(ahead) - k) :
              k + i \in 1..Len(ahead) /\ later[i] = ahead[k + i]
    BY <2>1, BarsLeft
  <2> QED  BY <2>2 DEF later, then
<1>2. Len(ahead) \in Nat /\ DOMAIN ahead = 1..Len(ahead)
  BY AheadFacts
<1>3. ASSUME NEW i \in DOMAIN ahead'
      PROVE  /\ ahead'[i].at = ahead'[i].start + BarLength
             /\ ahead'[i].start >= now'
             /\ DOMAIN ahead'[i].path = 1..(TicksPerBar + 1)
  <2>1. k + i \in 1..Len(ahead) /\ ahead'[i] = ahead[k + i] /\ k < k + i
    BY <1>1, <1>2
  <2>2. /\ ahead[k + i].at = ahead[k + i].start + BarLength
        /\ DOMAIN ahead[k + i].path = 1..(TicksPerBar + 1)
    BY <1>2, <2>1 DEF ArchiveInv
  <2>3. ahead[k].at <= ahead[k + i].start /\ ahead[k].at \in Nat /\ ahead[k + i].start \in Nat
    BY <2>1, AheadFacts
  <2> QED  BY <2>1, <2>2, <2>3
<1>4. ASSUME NEW i \in DOMAIN ahead', NEW j \in DOMAIN ahead', i < j
      PROVE  ahead'[i].at <= ahead'[j].start
  <2> DEFINE p == k + i
             q == k + j
  <2>1. i \in 1..(Len(ahead) - k) /\ j \in 1..(Len(ahead) - k)
    BY <1>1
  <2>2. /\ p \in 1..Len(ahead) /\ ahead'[i] = ahead[p]
        /\ q \in 1..Len(ahead) /\ ahead'[j] = ahead[q]
    BY <1>1, <2>1
  <2>3. p < q
    BY <1>2, <1>4, <2>1
  <2> HIDE DEF p, q
  <2>4. ahead[p].at <= ahead[q].start
    BY <2>2, <2>3, AheadFacts
  <2> QED  BY <2>2, <2>4
<1> QED
  BY <1>1, <1>3, <1>4 DEF ArchiveInv

\* A bar comes after those ahead.
LEMMA BarAdded ==
    ASSUME ArchiveInv, NewBar
    PROVE  ArchiveInv'
<1>1. PICK hole \in Holes, path \in [1..(TicksPerBar + 1) -> Prices] :
         ahead' = Append(ahead, [start |-> LastStamp + hole,
                                 at |-> LastStamp + hole + BarLength,
                                 path |-> path])
  BY DEF NewBar
<1> DEFINE n == Len(ahead)
           start == LastStamp + hole
           b == [start |-> start, at |-> start + BarLength, path |-> path]
<1>2. now' = now /\ now \in Nat /\ ahead \in Seq(Bar)
  BY DEF NewBar, ArchiveInv
<1>3. n \in Nat /\ DOMAIN ahead = 1..n
  BY AheadFacts
<1>4. /\ LastStamp \in Nat /\ LastStamp >= now
      /\ \A i \in 1..n : ahead[i].at <= LastStamp
  <2>1. CASE ahead = <<>>
    <3>1. n = 0
      BY <2>1
    <3> QED  BY <1>2, <2>1, <3>1 DEF LastStamp
  <2>2. CASE ahead # <<>>
    <3>1. n >= 1 /\ n \in 1..n
      BY <1>2, <1>3, <2>2, EmptySeq
    <3>2. LastStamp = ahead[n].at
      BY <2>2 DEF LastStamp
    <3>3. ahead[n].at \in Nat /\ ahead[n].at > now
      BY <3>1, AheadFacts
    <3>4. \A i \in 1..n : i < n => ahead[i].at < ahead[n].at
      BY <3>1, AheadFacts
    <3>5. \A i \in 1..n : ahead[i].at \in Nat
      BY AheadFacts
    <3>6. \A i \in 1..n : ahead[i].at <= ahead[n].at
      BY <1>3, <3>3, <3>4, <3>5
    <3> QED  BY <1>2, <3>2, <3>3, <3>6
  <2> QED  BY <2>1, <2>2
<1>5. hole \in Nat /\ BarLength \in Nat \ {0} /\ TicksPerBar \in Nat
  BY LoopConstants
<1>6. start \in Nat /\ start >= now /\ start + BarLength \in Nat
      /\ \A i \in 1..n : ahead[i].at <= start
  <2>1. \A i \in 1..n : ahead[i].at \in Nat
    BY AheadFacts
  <2> QED  BY <1>2, <1>4, <1>5, <2>1
<1> HIDE DEF start
<1>7. path \in Seq(Prices) /\ DOMAIN path = 1..(TicksPerBar + 1)
  <2>1. TicksPerBar + 1 \in Nat
    BY <1>5
  <2> QED  BY <2>1
<1>8. b \in Bar /\ b.start = start /\ b.at = start + BarLength /\ b.path = path
  BY <1>6, <1>7 DEF Bar
<1>9. ahead' = Append(ahead, b)
  BY <1>1 DEF start
<1> HIDE DEF b
<1>10. /\ ahead' \in Seq(Bar) /\ DOMAIN ahead' = 1..(n + 1)
       /\ \A i \in 1..n : ahead'[i] = ahead[i]
       /\ ahead'[n + 1] = b
  <2>1. ahead' \in Seq(Bar) /\ Len(ahead') = n + 1
    BY <1>2, <1>8, <1>9, AppendProperties
  <2> QED  BY <1>2, <1>3, <1>8, <1>9, <2>1, AppendProperties, LenProperties
<1>11. \A i \in 1..(n + 1) : i \in 1..n \/ i = n + 1
  BY <1>3
<1>12. ASSUME NEW i \in DOMAIN ahead'
       PROVE  /\ ahead'[i].at = ahead'[i].start + BarLength
              /\ ahead'[i].start >= now'
              /\ DOMAIN ahead'[i].path = 1..(TicksPerBar + 1)
  <2>1. CASE i \in 1..n
    BY <2>1, <1>2, <1>3, <1>10 DEF ArchiveInv
  <2>2. CASE i = n + 1
    BY <2>2, <1>2, <1>6, <1>7, <1>8, <1>10
  <2> QED  BY <2>1, <2>2, <1>10, <1>11
<1>13. ASSUME NEW i \in DOMAIN ahead', NEW j \in DOMAIN ahead', i < j
       PROVE  ahead'[i].at <= ahead'[j].start
  <2>1. i \in 1..n
    BY <1>3, <1>10, <1>13
  <2>2. CASE j \in 1..n
    BY <2>1, <2>2, <1>3, <1>10, <1>13 DEF ArchiveInv
  <2>3. CASE j = n + 1
    BY <2>1, <2>3, <1>6, <1>8, <1>10
  <2> QED  BY <2>2, <2>3, <1>10, <1>11
<1> QED
  BY <1>2, <1>10, <1>12, <1>13 DEF ArchiveInv

\* The archive starts without bars.
LEMMA ArchiveInit == BacktestInit => ArchiveInv
<1> SUFFICES ASSUME BacktestInit PROVE ArchiveInv
  OBVIOUS
<1>1. now = 0 /\ ahead = <<>> /\ DOMAIN ahead = {}
  BY DEF BacktestInit
<1>2. ahead \in Seq(Bar)
  BY <1>1, EmptySeq
<1> QED
  BY <1>1, <1>2 DEF ArchiveInv

\* Every step keeps the order of the bars.
LEMMA ArchiveStep == ArchiveInv /\ [BacktestNext]_backtestVars => ArchiveInv'
<1> SUFFICES ASSUME ArchiveInv, [BacktestNext]_backtestVars PROVE ArchiveInv'
  OBVIOUS
<1>1. CASE NewBar
  BY <1>1, BarAdded
<1>2. CASE Advance
  <2>1. now' = ahead[1].at /\ ahead' = Tail(ahead) /\ ahead # <<>> /\ ahead \in Seq(Bar)
    BY <1>2 DEF Advance, ArchiveInv
  <2>2. 1 \in 1..Len(ahead) /\ Tail(ahead) = SubSeq(ahead, 1 + 1, Len(ahead))
    <3>1. Len(ahead) \in Nat \ {0}
      BY <2>1, EmptySeq
    <3>2. Tail(ahead) = SubSeq(ahead, 2, Len(ahead))
      BY <2>1, TailIsSubSeq
    <3> QED  BY <3>1, <3>2
  <2> QED  BY <2>1, <2>2, GoneOn
<1>3. CASE Book
  <2>1. PICK k \in DOMAIN ahead :
           now' = ahead[k].at /\ ahead' = SubSeq(ahead, k + 1, Len(ahead))
    <3>1. PICK exit : GoPast(exit)
      BY <1>3 DEF Book
    <3> QED  BY <3>1 DEF GoPast
  <2>2. k \in 1..Len(ahead)
    BY AheadFacts
  <2> QED  BY <2>1, <2>2, GoneOn
<1>4. CASE \/ ArchiveEnds \/ Finish \/ NoCandidate \/ Reject \/ StopForDrawdown
           \/ UNCHANGED backtestVars
  <2>1. now' = now /\ ahead' = ahead
    BY <1>4 DEF ArchiveEnds, Finish, NoCandidate, Reject, StopForDrawdown, backtestVars
  <2> QED  BY <2>1 DEF ArchiveInv
<1> QED
  BY <1>1, <1>2, <1>3, <1>4 DEF BacktestNext, Finished

\* The bars ahead are in order whatever the archive holds.
LEMMA ArchiveInOrder == BacktestSpec => []ArchiveInv
<1> QED  BY ArchiveInit, ArchiveStep, PTL DEF BacktestSpec

\* A positive label of the dataset or of the loop (label_event, label_long_event) was earned by
\* the prices: the target came before the stop, whatever the bars, the distances and the
\* holding time.
THEOREM LabelsAreEarned == BacktestSpec => []PositiveLabelEarned
<1> QED  BY ArchiveInOrder, LabelsEarned, PTL

\* With market entries the replay (_replay_exit_from_fill) ends every trade the way its label
\* says, also where the fill falls back on the label's price.
THEOREM ReplayIsTheLabel == BacktestSpec => []ReplayMatchesLabel
<1> QED  BY ArchiveInOrder, ReplayIsLabel, PTL

\* Though a limit fill is stamped with the start of its bar (simulate_limit_fill), no barrier
\* ends the trade that was touched before the limit was.
THEOREM ExitsFollowFills == BacktestSpec => []LimitExitAfterFill
<1> QED  BY ArchiveInOrder, ExitAfterLimit, PTL

-----------------------------------------------------------------------------
(* The book of the loop *)

\* The run of losses reaches the limit, or a multiple of it, with the k-th trade.
HitsLimit(k) == LossRun(k) > 0 /\ LossRun(k) % LossLimit = 0

\* Trades are entered one after the other, and none is booked from beyond the bar the
\* loop is at.
InTurn ==
    /\ \A k \in DOMAIN trades : /\ trades[k].event <= trades[k].exit
                                /\ trades[k].exit <= now
    /\ \A j, k \in DOMAIN trades : j < k => trades[j].exit <= trades[k].event

\* Equity and its peak are those of the trades booked.
Balanced ==
    /\ equity = EquityBefore(Len(trades) + 1)
    /\ peak = PeakBefore(Len(trades) + 1)

\* consecutive_losses is the run of losses, counted afresh at every limit, and the
\* cooldown of every limit reached is the one in force, or is over.
Cooled ==
    LossLimit > 0 =>
    /\ losses = LossRun(Len(trades)) % LossLimit
    /\ \A k \in DOMAIN trades : HitsLimit(k) => trades[k].exit + Cooldown <= cooldownUntil

BookInv ==
    /\ trades \in Seq(Trade) /\ losses \in Nat /\ cooldownUntil \in Nat
    /\ InTurn
    /\ Balanced
    /\ Cooled
    /\ StopsRespected

\* The results of the trades of a sequence, and a first stretch of it.
LEMMA Results ==
    ASSUME NEW s \in Seq(Trade)
    PROVE  /\ Len(s) \in Nat /\ DOMAIN s = 1..Len(s)
           /\ \A k \in 1..Len(s) :
                 /\ s[k] \in Trade
                 /\ s[k].event \in Nat /\ s[k].exit \in Nat /\ s[k].pnl \in Int
<1>1. Len(s) \in Nat /\ DOMAIN s = 1..Len(s)
  BY LenProperties
<1>2. \A k \in 1..Len(s) : s[k] \in Trade
  BY ElementOfSeq
<1> QED  BY <1>1, <1>2 DEF Trade

\* A first stretch is the same after another element was added.
LEMMA StretchKept ==
    ASSUME NEW S, NEW s \in Seq(S), NEW x \in S, NEW k \in 0..Len(s)
    PROVE  SubSeq(Append(s, x), 1, k) = SubSeq(s, 1, k)
<1> DEFINE r == Append(s, x)
<1>1. Len(s) \in Nat /\ \A i \in 1..Len(s) : s[i] \in S /\ r[i] = s[i]
  <2>1. Len(s) \in Nat /\ \A i \in 1..Len(s) : s[i] \in S
    BY LenProperties, ElementOfSeq
  <2> QED  BY <2>1, AppendProperties
<1> HIDE DEF r
<1>2. k \in Int /\ 1 \in Int /\ \A i \in 1..k : s[i] \in S /\ r[i] \in S /\ r[i] = s[i]
  <2>1. k \in Int /\ \A i \in 1..k : i \in 1..Len(s)
    BY <1>1
  <2> QED  BY <1>1, <2>1
<1>3. /\ SubSeq(s, 1, k) \in Seq(S) /\ SubSeq(r, 1, k) \in Seq(S)
      /\ Len(SubSeq(s, 1, k)) = IF 1 <= k THEN k - 1 + 1 ELSE 0
      /\ Len(SubSeq(r, 1, k)) = IF 1 <= k THEN k - 1 + 1 ELSE 0
      /\ \A i \in 1..(k - 1 + 1) : SubSeq(s, 1, k)[i] = s[1 + i - 1]
      /\ \A i \in 1..(k - 1 + 1) : SubSeq(r, 1, k)[i] = r[1 + i - 1]
  BY <1>2, SubSeqProperties
<1> DEFINE a == SubSeq(s, 1, k)
           b == SubSeq(r, 1, k)
<1>4. /\ Len(a) = k /\ Len(b) = k
      /\ \A i \in 1..k : a[i] = s[i] /\ b[i] = r[i]
  BY <1>1, <1>2, <1>3
<1>5. a \in Seq(S) /\ b \in Seq(S)
  BY <1>3
<1> HIDE DEF a, b
<1>6. \A i \in 1..Len(a) : a[i] = b[i]
  BY <1>2, <1>4
<1>7. a = b
  BY <1>4, <1>5, <1>6, SeqEqual
<1> QED  BY <1>7 DEF a, b, r

\* The results of a day or a week are a number.
LEMMA PeriodPnlType ==
    ASSUME NEW t, NEW length, NEW s \in Seq(Trade)
    PROVE  PeriodPnl(t, length, s) \in Int
<1> DEFINE f == [k \in DOMAIN s |-> s[k].pnl]
           S == {k \in DOMAIN s : SamePeriod(s[k].exit, t, length)}
<1>1. Len(s) \in Nat /\ DOMAIN s = 1..Len(s) /\ \A k \in 1..Len(s) : s[k].pnl \in Int
  BY Results
<1>2. S \subseteq 1..Len(s) /\ \A x \in S : f[x] \in Int
  BY <1>1
<1>3. IsFiniteSet(1..Len(s))
  BY <1>1, FS_Interval
<1>4. PeriodPnl(t, length, s) = SumFunctionOnSet(f, S)
  BY Zenon DEF PeriodPnl
<1> HIDE DEF f, S
<1>5. IsFiniteSet(S)
  BY <1>2, <1>3, FS_Subset
<1> QED  BY <1>2, <1>4, <1>5, SumType

\* The trades among the first k that ended a run of losses, and the beginning.
Breaks(s, k) == {0} \cup {j \in 1..k : s[j].pnl >= 0}

\* A run of losses is as long as there are trades, at the most.
LEMMA RunLength ==
    ASSUME NEW k \in Nat
    PROVE  /\ LossRun(k) = k - Max(Breaks(trades, k)) /\ LossRun(k) \in Nat
           /\ Max(Breaks(trades, k)) \in 0..k
<1>1. Breaks(trades, k) \in SUBSET (0..k) /\ Breaks(trades, k) # {}
  BY DEF Breaks
<1>2. Max(Breaks(trades, k)) \in 0..k
  BY <1>1, GreatestElement
<1>3. LossRun(k) = k - Max(Breaks(trades, k))
  BY Zenon DEF LossRun, Breaks
<1> QED  BY <1>2, <1>3

\* Booking a trade leaves the runs of the trades before it, and makes its own one longer
\* or nothing.
LEMMA RunsAfterBooking ==
    ASSUME trades \in Seq(Trade), NEW t \in Trade, trades' = Append(trades, t),
           NEW n \in Nat, n = Len(trades)
    PROVE  /\ \A k \in 0..n : LossRun(k)' = LossRun(k)
           /\ t.pnl < 0 => LossRun(n + 1)' = LossRun(n) + 1
           /\ t.pnl >= 0 => LossRun(n + 1)' = 0
<1>1. t.pnl \in Int
  BY DEF Trade
<1>2. (\A k \in 1..n : trades'[k] = trades[k]) /\ trades'[n + 1] = t
  BY AppendProperties
<1>3. \A k \in Nat : LossRun(k)' = k - Max(Breaks(trades', k))
  BY Zenon DEF LossRun, Breaks
<1>4. \A k \in Nat : LossRun(k) = k - Max(Breaks(trades, k))
  BY RunLength
<1>5. ASSUME NEW k \in 0..n PROVE Breaks(trades', k) = Breaks(trades, k)
  <2>1. \A j \in 1..k : trades'[j] = trades[j]
    BY <1>2
  <2> QED  BY <2>1 DEF Breaks
<1>6. \A k \in 0..n : LossRun(k)' = LossRun(k)
  <2>1. \A k \in 0..n : k \in Nat
    OBVIOUS
  <2> QED  BY <1>3, <1>4, <1>5, <2>1
<1>7. ASSUME t.pnl < 0 PROVE LossRun(n + 1)' = LossRun(n) + 1
  <2>1. ~(t.pnl >= 0)
    BY <1>1, <1>7
  <2>2. \A j \in 1..(n + 1) : j \in 1..n \/ j = n + 1
    OBVIOUS
  <2>3. Breaks(trades', n + 1) = Breaks(trades', n)
    BY <1>2, <2>1, <2>2 DEF Breaks
  <2>4. LossRun(n + 1)' = (n + 1) - Max(Breaks(trades, n))
        /\ LossRun(n) = n - Max(Breaks(trades, n))
    BY <1>3, <1>4, <1>5, <2>3
  <2>5. Max(Breaks(trades, n)) \in Int
    BY RunLength
  <2> QED  BY <2>4, <2>5
<1>8. ASSUME t.pnl >= 0 PROVE LossRun(n + 1)' = 0
  <2>1. Breaks(trades', n + 1) \in SUBSET (0..(n + 1)) /\ n + 1 \in Breaks(trades', n + 1)
        /\ n + 1 \in Nat
    BY <1>1, <1>2, <1>8 DEF Breaks
  <2>2. Max(Breaks(trades', n + 1)) \in Breaks(trades', n + 1)
        /\ n + 1 <= Max(Breaks(trades', n + 1))
    BY <2>1, GreatestElement
  <2>3. Max(Breaks(trades', n + 1)) = n + 1
    BY <2>1, <2>2
  <2> QED  BY <1>3, <2>3
<1> QED  BY <1>6, <1>7, <1>8

\* The results of a sequence of trades.
Pnls(s) == [j \in DOMAIN s |-> s[j].pnl]

\* Equity before a trade is a number, and so is its peak, the greatest there was.
LEMMA EquityFacts ==
    ASSUME trades \in Seq(Trade), NEW k \in 1..(Len(trades) + 1)
    PROVE  /\ EquityBefore(k) \in Int
           /\ PeakBefore(k) \in Int
           /\ \A j \in 1..k : EquityBefore(j) \in Int /\ EquityBefore(j) <= PeakBefore(k)
           /\ \E j \in 1..k : PeakBefore(k) = EquityBefore(j)
<1> DEFINE n == Len(trades)
           f == Pnls(trades)
<1>1. n \in Nat /\ DOMAIN trades = 1..n /\ \A j \in 1..n : trades[j].pnl \in Int
  BY Results
<1>2. \A j \in 1..n : f[j] \in Int
  BY <1>1 DEF Pnls
<1>3. \A j : EquityBefore(j) = StartEquity + SumFunctionOnSet(f, 1..(j - 1))
  BY Zenon DEF EquityBefore, Pnls
<1> HIDE DEF f
<1>4. ASSUME NEW j \in 1..k PROVE EquityBefore(j) \in Int
  <2>1. j - 1 \in Int /\ 1 \in Int /\ \A i \in 1..(j - 1) : i \in 1..n
    BY <1>1
  <2>2. IsFiniteSet(1..(j - 1))
    BY <2>1, FS_Interval
  <2>3. \A i \in 1..(j - 1) : f[i] \in Int
    BY <1>2, <2>1
  <2>4. SumFunctionOnSet(f, 1..(j - 1)) \in Int
    BY <2>2, <2>3, SumType
  <2> QED  BY <1>3, <2>4, LoopConstants
<1> DEFINE T == {EquityBefore(j) : j \in 1..k}
           g == [j \in 1..k |-> EquityBefore(j)]
<1>5. T \in SUBSET Int
  BY <1>4
<1>6. T # {}
  BY <1>1
<1>7. IsFiniteSet(T)
  <2>1. T = {g[j] : j \in 1..k}
    OBVIOUS
  <2>2. k \in Int /\ 1 \in Int
    BY <1>1
  <2>3. IsFiniteSet(1..k)
    BY <2>2, FS_Interval
  <2> HIDE DEF g, T
  <2> QED  BY <2>1, <2>3, FiniteImage
<1>8. PeakBefore(k) = Max(T)
  BY Zenon DEF PeakBefore
<1> HIDE DEF g, T
<1>9. PeakBefore(k) \in T /\ \A x \in T : x <= PeakBefore(k)
  BY <1>5, <1>6, <1>7, <1>8, FiniteGreatest
<1>10. k \in 1..k
  BY <1>1
<1> QED  BY <1>4, <1>5, <1>9, <1>10 DEF T

\* The peak after one more result.
LEMMA PeakGrows ==
    ASSUME trades \in Seq(Trade), NEW k \in 1..Len(trades)
    PROVE  PeakBefore(k + 1) = MostOf(PeakBefore(k), EquityBefore(k + 1))
<1>1. Len(trades) \in Nat
  BY Results
<1>2. k \in 1..(Len(trades) + 1) /\ k + 1 \in 1..(Len(trades) + 1)
  BY <1>1
<1>3. /\ PeakBefore(k) \in Int
      /\ \A j \in 1..k : EquityBefore(j) \in Int /\ EquityBefore(j) <= PeakBefore(k)
      /\ \E j \in 1..k : PeakBefore(k) = EquityBefore(j)
  BY <1>2, EquityFacts
<1> DEFINE l == k + 1
<1>4. /\ PeakBefore(l) \in Int
      /\ \A j \in 1..l : EquityBefore(j) \in Int /\ EquityBefore(j) <= PeakBefore(l)
      /\ \E j \in 1..l : PeakBefore(l) = EquityBefore(j)
  BY <1>2, EquityFacts
<1>5. PeakBefore(k) <= PeakBefore(l) /\ EquityBefore(l) <= PeakBefore(l)
  <2>1. \A j \in 1..k : j \in 1..l
    BY <1>1
  <2>2. l \in 1..l
    BY <1>1
  <2> HIDE DEF l
  <2> QED  BY <1>3, <1>4, <2>1, <2>2
<1>6. PeakBefore(l) <= PeakBefore(k) \/ PeakBefore(l) = EquityBefore(l)
  <2>1. PICK j \in 1..l : PeakBefore(l) = EquityBefore(j)
    BY <1>4
  <2>2. j \in 1..k \/ j = l
    BY <1>1
  <2> HIDE DEF l
  <2> QED  BY <1>3, <2>1, <2>2
<1>7. EquityBefore(l) \in Int
  <2>1. l \in 1..l
    BY <1>1
  <2> HIDE DEF l
  <2> QED  BY <1>4, <2>1
<1> HIDE DEF l
<1>8. PeakBefore(l) = MostOf(PeakBefore(k), EquityBefore(l))
  BY <1>3, <1>4, <1>5, <1>6, <1>7 DEF MostOf
<1> QED  BY <1>8 DEF l

\* Before any trade equity and peak are what the backtest starts with.
LEMMA EquityAtFirst == EquityBefore(1) = StartEquity /\ PeakBefore(1) = StartEquity
<1>1. 1..(1 - 1) = {} /\ StartEquity \in Int
  BY LoopConstants
<1>2. EquityBefore(1) = StartEquity + SumFunctionOnSet([j \in DOMAIN trades |-> trades[j].pnl],
                                                       1..(1 - 1))
  BY Zenon DEF EquityBefore
<1>3. EquityBefore(1) = StartEquity
  BY <1>1, <1>2, SumEmpty
<1>4. {EquityBefore(j) : j \in 1..1} = {StartEquity}
  <2>1. \A j : j \in 1..1 <=> j = 1
    OBVIOUS
  <2> QED  BY <1>3, <2>1
<1>5. PeakBefore(1) = Max({StartEquity})
  BY <1>4, Zenon DEF PeakBefore
<1>6. Max({StartEquity}) = StartEquity
  BY <1>1 DEF Max
<1> QED  BY <1>3, <1>5, <1>6

\* Booking a trade adds its result to the equity, and to nothing from before.
LEMMA EquityAfterBooking ==
    ASSUME trades \in Seq(Trade), NEW t \in Trade, trades' = Append(trades, t),
           NEW n \in Nat, n = Len(trades)
    PROVE  /\ trades' \in Seq(Trade) /\ Len(trades') = n + 1
           /\ \A k \in 1..(n + 1) : EquityBefore(k)' = EquityBefore(k)
           /\ \A k \in 1..(n + 1) : PeakBefore(k)' = PeakBefore(k)
           /\ EquityBefore(n + 2)' = EquityBefore(n + 1) + t.pnl
<1>1. trades' \in Seq(Trade) /\ Len(trades') = n + 1
  BY AppendProperties
<1>2. (\A k \in 1..n : trades'[k] = trades[k]) /\ trades'[n + 1] = t
  BY AppendProperties
<1>3. /\ DOMAIN trades = 1..n /\ \A k \in 1..n : trades[k].pnl \in Int
      /\ t.pnl \in Int
  BY Results DEF Trade
<1>4. DOMAIN trades' = 1..(n + 1)
  BY <1>1, LenProperties
<1> DEFINE f == Pnls(trades)
           g == Pnls(trades')
<1>5. /\ \A k \in 1..n : f[k] \in Int /\ g[k] = f[k]
      /\ g[n + 1] = t.pnl
  <2>1. \A k \in 1..n : f[k] = trades[k].pnl
    BY <1>3 DEF Pnls
  <2>2. \A k \in 1..(n + 1) : g[k] = trades'[k].pnl
    BY <1>4 DEF Pnls
  <2>3. \A k \in 1..n : k \in 1..(n + 1)
    OBVIOUS
  <2>4. n + 1 \in 1..(n + 1)
    OBVIOUS
  <2> HIDE DEF f, g
  <2> QED  BY <1>2, <1>3, <2>1, <2>2, <2>3, <2>4
<1>6. \A k : /\ EquityBefore(k) = StartEquity + SumFunctionOnSet(f, 1..(k - 1))
             /\ EquityBefore(k)' = StartEquity + SumFunctionOnSet(g, 1..(k - 1))
  BY Zenon DEF EquityBefore, Pnls
<1> HIDE DEF f, g
<1>7. ASSUME NEW k \in 1..(n + 1)
      PROVE  /\ IsFiniteSet(1..(k - 1))
             /\ SumFunctionOnSet(g, 1..(k - 1)) = SumFunctionOnSet(f, 1..(k - 1))
  <2>1. k - 1 \in Int /\ 1 \in Int /\ \A i \in 1..(k - 1) : i \in 1..n
    OBVIOUS
  <2>2. IsFiniteSet(1..(k - 1))
    BY <2>1, FS_Interval
  <2>3. \A i \in 1..(k - 1) : g[i] = f[i]
    BY <1>5, <2>1
  <2>4. SumFunctionOnSet(g, 1..(k - 1)) = SumFunctionOnSet(f, 1..(k - 1))
    BY <2>2, <2>3, SumAgrees
  <2> QED  BY <2>2, <2>4
<1>8. \A k \in 1..(n + 1) : EquityBefore(k)' = EquityBefore(k)
  BY <1>6, <1>7
<1>9. ASSUME NEW k \in 1..(n + 1) PROVE PeakBefore(k)' = PeakBefore(k)
  <2>1. \A j \in 1..k : j \in 1..(n + 1)
    OBVIOUS
  <2>2. {EquityBefore(j)' : j \in 1..k} = {EquityBefore(j) : j \in 1..k}
    BY <1>8, <2>1
  <2>3. PeakBefore(k)' = Max({EquityBefore(j)' : j \in 1..k})
    BY Zenon DEF PeakBefore
  <2>4. PeakBefore(k) = Max({EquityBefore(j) : j \in 1..k})
    BY Zenon DEF PeakBefore
  <2> QED  BY <2>2, <2>3, <2>4
<1>10. EquityBefore(n + 2)' = EquityBefore(n + 1) + t.pnl
  <2> DEFINE S == 1..n
             x == n + 1
  <2>1. 1..((n + 1) - 1) = S /\ 1..((n + 2) - 1) = S \cup {x} /\ x \notin S
    <3>1. (n + 1) - 1 = n /\ (n + 2) - 1 = n + 1
      OBVIOUS
    <3>2. \A i : i \in 1..(n + 1) <=> i \in 1..n \/ i = n + 1
      OBVIOUS
    <3> QED  BY <3>1, <3>2
  <2>2. IsFiniteSet(S) /\ SumFunctionOnSet(g, S) = SumFunctionOnSet(f, S)
    <3>1. n + 1 \in 1..(n + 1)
      OBVIOUS
    <3> QED  BY <1>7, <2>1, <3>1
  <2>3. \A y \in S \cup {x} : g[y] \in Int
    BY <1>3, <1>5
  <2>4. g[x] = t.pnl
    BY <1>5
  <2>5. SumFunctionOnSet(f, S) \in Int
    <3>1. \A y \in S : f[y] \in Int
      BY <1>5
    <3> HIDE DEF S
    <3> QED  BY <2>2, <3>1, SumType
  <2> HIDE DEF S, x
  <2>6. SumFunctionOnSet(g, S \cup {x}) = SumFunctionOnSet(g, S) + g[x]
    BY <2>1, <2>2, <2>3, SumAdd
  <2>7. EquityBefore(n + 1) = StartEquity + SumFunctionOnSet(f, S)
    BY <1>6, <2>1
  <2>8. EquityBefore(n + 2)' = StartEquity + SumFunctionOnSet(g, S \cup {x})
    BY <1>6, <2>1
  <2> QED  BY <1>3, <2>2, <2>4, <2>5, <2>6, <2>7, <2>8, LoopConstants
<1> QED  BY <1>1, <1>8, <1>9, <1>10

-----------------------------------------------------------------------------
(* Booking a trade *)

\* A loss more, or the end of a run of losses, is counted as the runs say.
LEMMA LossCounted ==
    ASSUME trades \in Seq(Trade), NEW t \in Trade, trades' = Append(trades, t),
           NEW n \in Nat, n = Len(trades), CountLoss(t.exit, t.pnl),
           LossLimit > 0, losses = LossRun(n) % LossLimit
    PROVE  /\ losses' = LossRun(n + 1)' % LossLimit
           /\ HitsLimit(n + 1)' => cooldownUntil' = t.exit + Cooldown
<1> DEFINE old == LossRun(n)
           new == LossRun(n + 1)'
<1>1. old \in Nat /\ LossLimit \in Nat \ {0} /\ t.pnl \in Int
  BY RunLength, LoopConstants DEF Trade
<1>2. (t.pnl < 0 => new = old + 1) /\ (t.pnl >= 0 => new = 0)
  BY RunsAfterBooking
<1>3. HitsLimit(n + 1)' <=> new > 0 /\ new % LossLimit = 0
  BY DEF HitsLimit
<1>4. losses = old % LossLimit
  OBVIOUS
<1> HIDE DEF old, new
<1>5. /\ old % LossLimit \in 0..(LossLimit - 1)
      /\ (old % LossLimit) + 1 >= LossLimit    => (old + 1) % LossLimit = 0
      /\ ~((old % LossLimit) + 1 >= LossLimit) =>
            (old + 1) % LossLimit = (old % LossLimit) + 1
  BY <1>1, CountingOn, Zenon
<1>6. CASE t.pnl < 0
  <2>1. new = old + 1
    BY <1>2, <1>6
  <2>2. CASE losses + 1 >= LossLimit
    <3>1. losses' = 0 /\ cooldownUntil' = t.exit + Cooldown
      BY <1>1, <1>6, <2>2 DEF CountLoss
    <3>2. (old + 1) % LossLimit = 0
      BY <1>4, <1>5, <2>2, Zenon
    <3> QED  BY <2>1, <3>1, <3>2, Zenon DEF new
  <2>3. CASE ~(losses + 1 >= LossLimit)
    <3>1. losses' = losses + 1
      BY <1>6, <2>3 DEF CountLoss
    <3>2. (old + 1) % LossLimit = losses + 1
      BY <1>4, <1>5, <2>3, Zenon
    <3>3. losses + 1 # 0
      BY <1>4, <1>5
    <3> QED  BY <1>3, <2>1, <3>1, <3>2, <3>3, Zenon DEF new
  <2> QED  BY <2>2, <2>3
<1>7. CASE ~(t.pnl < 0)
  <2>1. new = 0
    BY <1>1, <1>2, <1>7
  <2>2. losses' = 0
    BY <1>1, <1>7 DEF CountLoss
  <2>3. 0 % LossLimit = 0 /\ ~(0 > 0)
    BY <1>1
  <2> QED  BY <1>3, <2>1, <2>2, <2>3, Zenon DEF new
<1> QED  BY <1>6, <1>7

\* What a trade is booked as: entered now, ended at the bar the loop goes past, with a
\* result that is a number.
LEMMA Booked ==
    ASSUME ArchiveInv, BookInv, Book
    PROVE  \E t \in Trade :
              /\ t.event = now /\ t.exit = now' /\ now' \in Nat /\ now' > now
              /\ trades' = Append(trades, t)
              /\ equity' = equity + t.pnl
              /\ peak' = MostOf(peak, equity + t.pnl)
              /\ CountLoss(t.exit, t.pnl)
<1> DEFINE label == CandidateLabel
           pnl == Notional * (label.gain - Cost)
           t == [event |-> now, entered |-> ahead[1].start, exit |-> label.at,
                 kind |-> label.kind, pnl |-> pnl]
<1>1. /\ Future # <<>>
      /\ equity' = equity + pnl
      /\ peak' = MostOf(peak, equity + pnl)
      /\ trades' = Append(trades, t)
      /\ CountLoss(label.at, pnl)
      /\ GoPast(label.at)
  BY Zenon DEF Book
<1>2. PICK k \in 1..Len(ahead) : ahead[k].at = label.at /\ now' = ahead[k].at
  BY <1>1, AheadFacts DEF GoPast
<1>3. label.at = now' /\ now' \in Nat /\ now' > now /\ now \in Nat
  BY <1>2, AheadFacts DEF ArchiveInv
<1>4. label.kind \in {"profit", "stop", "vertical"} /\ label.gain \in Int
  <2> DEFINE entry == Open(ahead[1])
             from == Future[1].at + MinHold
  <2>1. label = FirstExit("BUY", entry, Future, from)
    BY Zenon DEF CandidateLabel, Label
  <2>2. /\ Len(Future) = HorizonEnd /\ HorizonEnd >= 1 /\ HorizonEnd \in Nat
        /\ Future \in Seq(Bar)
    BY <1>1, FirstBar, UpToHorizon, AheadFacts
  <2>3. entry \in Nat /\ Gain("BUY", entry, Close(Future[Len(Future)])) \in Int
    <3>1. ASSUME NEW b \in Bar, b.path # <<>>
          PROVE  Open(b) \in Nat /\ Close(b) \in Nat
      <4>1. b.path \in Seq(Prices)
        BY DEF Bar
      <4>2. 1 \in 1..Len(b.path) /\ Len(b.path) \in 1..Len(b.path)
        <5>1. Len(b.path) \in Nat \ {0}
          BY <3>1, <4>1, EmptySeq
        <5> QED  BY <5>1
      <4>3. b.path[1] \in Prices /\ b.path[Len(b.path)] \in Prices
        BY <4>1, <4>2, ElementOfSeq
      <4> QED  BY <4>3, LoopConstants DEF Open, Close
    <3>2. ASSUME NEW i \in 1..Len(ahead) PROVE ahead[i] \in Bar /\ ahead[i].path # <<>>
      <4>1. ahead[i] \in Bar /\ DOMAIN ahead[i].path = 1..(TicksPerBar + 1)
        BY AheadFacts DEF ArchiveInv
      <4>2. 1 \in DOMAIN ahead[i].path
        BY <4>1, LoopConstants
      <4>3. DOMAIN <<>> = {}
        OBVIOUS
      <4> QED  BY <4>1, <4>2, <4>3
    <3>3. 1 \in 1..Len(ahead) /\ Len(Future) \in 1..Len(ahead)
          /\ Future[Len(Future)] = ahead[Len(Future)]
      BY <1>1, <2>2, FirstBar, UpToHorizon
    <3>4. Open(ahead[1]) \in Nat /\ Close(Future[Len(Future)]) \in Nat
      BY <3>1, <3>2, <3>3
    <3> QED  BY <3>4 DEF Gain
  <2> HIDE DEF entry, from, label
  <2>4. LET exit == FirstExit("BUY", entry, Future, from) IN
        \/ exit.kind = "stop" /\ exit.gain = Cost - Stop
        \/ exit.kind = "profit" /\ exit.gain = Target + Cost
        \/ /\ exit.kind = "vertical"
           /\ exit.gain = Gain("BUY", entry, Close(Future[Len(Future)]))
    BY ThreeExits
  <2> QED  BY <2>1, <2>3, <2>4, LoopConstants
<1>5. pnl \in Int
  <2>1. equity \in Int
    <3>1. Len(trades) + 1 \in 1..(Len(trades) + 1) /\ trades \in Seq(Trade)
      BY LenProperties DEF BookInv
    <3> QED  BY <3>1, EquityFacts DEF BookInv, Balanced
  <2>2. Notional \in Int
    <3> DEFINE risked == equity * RiskPct
               unit == 100 * Stop
    <3>1. risked \in Int /\ unit \in Nat \ {0}
      BY <2>1, LoopConstants
    <3> HIDE DEF risked, unit
    <3>2. risked \div unit \in Int
      BY <3>1
    <3>3. equity \div 100 \in Int /\ Requested \in Int /\ PaperMax \in Int
      BY <2>1, LoopConstants
    <3>4. (equity * RiskPct) \div (100 * Stop) \in Int
      BY <3>2 DEF risked, unit
    <3> QED  BY <3>3, <3>4 DEF Notional, LeastOf
  <2>3. label.gain - Cost \in Int
    BY <1>4, LoopConstants
  <2> HIDE DEF label
  <2> QED  BY <2>2, <2>3
<1>6. ahead[1].start \in Nat
  BY <1>1, FirstBar
<1> HIDE DEF label, pnl
<1>7. t \in Trade
  BY <1>3, <1>4, <1>5, <1>6 DEF Trade
<1>8. t.event = now /\ t.exit = label.at /\ t.pnl = pnl
  OBVIOUS
<1> HIDE DEF t
<1> QED  BY <1>1, <1>3, <1>7, <1>8

\* Nothing is booked yet.
LEMMA BookInit == BacktestInit => BookInv
<1> SUFFICES ASSUME BacktestInit PROVE BookInv
  OBVIOUS
<1>1. /\ now = 0 /\ trades = <<>> /\ losses = 0 /\ cooldownUntil = 0
      /\ equity = StartEquity /\ peak = StartEquity
  BY Zenon DEF BacktestInit
<1>2. trades \in Seq(Trade) /\ Len(trades) = 0 /\ DOMAIN trades = {}
  BY <1>1, EmptySeq
<1>3. LossRun(0) = 0
  <2>1. 0 \in Nat
    OBVIOUS
  <2>2. LossRun(0) = 0 - Max(Breaks(trades, 0)) /\ Max(Breaks(trades, 0)) \in 0..0
    BY <2>1, RunLength
  <2> QED  BY <2>2
<1>4. InTurn
  BY <1>2 DEF InTurn
<1>5. Balanced
  <2>1. Len(trades) + 1 = 1
    BY <1>2
  <2> QED  BY <1>1, <2>1, EquityAtFirst DEF Balanced
<1>6. Cooled
  <2>1. LossLimit > 0 => 0 % LossLimit = 0
    BY LoopConstants
  <2> QED  BY <1>1, <1>2, <1>3, <2>1 DEF Cooled
<1>7. StopsRespected
  BY <1>2 DEF StopsRespected, CooldownKept
<1> QED  BY <1>1, <1>2, <1>4, <1>5, <1>6, <1>7 DEF BookInv

\* Going on without a trade leaves the book alone.
LEMMA BookKept ==
    ASSUME ArchiveInv, BookInv, UNCHANGED book, now' \in Nat, now' >= now
    PROVE  BookInv'
<1>1. /\ trades' = trades /\ losses' = losses /\ cooldownUntil' = cooldownUntil
      /\ equity' = equity /\ peak' = peak /\ trades \in Seq(Trade)
  BY DEF book, BookInv
<1>2. \A k : LossRun(k)' = LossRun(k)
  BY <1>1, Zenon DEF LossRun
<1>3. \A k : EquityBefore(k)' = EquityBefore(k)
  BY <1>1, Zenon DEF EquityBefore
<1>4. \A k : PeakBefore(k)' = PeakBefore(k)
  BY <1>1, Zenon DEF PeakBefore, EquityBefore
<1>5. \A k : Before(k)' = Before(k)
  BY <1>1, Zenon DEF Before
<1>6. InTurn'
  <2>1. \A k \in DOMAIN trades : trades[k].exit \in Nat
    BY <1>1, Results
  <2> QED  BY <1>1, <2>1 DEF InTurn, BookInv, ArchiveInv
<1>7. Balanced'
  BY <1>1, <1>3, <1>4, Zenon DEF Balanced, BookInv
<1>8. Cooled'
  BY <1>1, <1>2, Zenon DEF Cooled, HitsLimit, BookInv
<1>9. StopsRespected'
  <2>1. CooldownKept' <=> CooldownKept
    BY <1>1, <1>2, Zenon DEF CooldownKept
  <2>2. \A k \in DOMAIN trades :
           /\ DailyStop > 0 => PeriodPnl(trades[k].event, Day, Before(k)) > -DailyStop
           /\ WeeklyStop > 0 =>
                 PeriodPnl(trades[k].event, Day * DaysPerWeek, Before(k)) > -WeeklyStop
           /\ DrawdownPct > 0 =>
                 (PeakBefore(k) - EquityBefore(k)) * 100 < DrawdownPct * PeakBefore(k)
    BY Zenon DEF StopsRespected, BookInv
  <2>3. \A at, length, s : PeriodPnl(at, length, s)' = PeriodPnl(at, length, s)
    BY Zenon DEF PeriodPnl, SamePeriod
  <2>4. ASSUME NEW k \in DOMAIN trades'
        PROVE  /\ DailyStop > 0 => PeriodPnl(trades'[k].event, Day, Before(k)') > -DailyStop
               /\ WeeklyStop > 0 =>
                     PeriodPnl(trades'[k].event, Day * DaysPerWeek, Before(k)') > -WeeklyStop
               /\ DrawdownPct > 0 =>
                     (PeakBefore(k)' - EquityBefore(k)') * 100 < DrawdownPct * PeakBefore(k)'
    <3>1. k \in DOMAIN trades /\ trades'[k] = trades[k]
      BY <1>1, Zenon
    <3>2. /\ PeakBefore(k)' = PeakBefore(k) /\ EquityBefore(k)' = EquityBefore(k)
          /\ Before(k)' = Before(k)
      BY <1>3, <1>4, <1>5, Zenon
    <3> QED  BY <2>2, <3>1, <3>2, Zenon
  <2>5. CooldownKept'
    BY <2>1, Zenon DEF StopsRespected, BookInv
  <2> QED  BY <2>4, <2>5, Zenon DEF StopsRespected, PeriodPnl, SamePeriod
<1> QED  BY <1>1, <1>6, <1>7, <1>8, <1>9 DEF BookInv

\* A trade is only booked where no stop and no cooldown is in force.
LEMMA BookedInBounds ==
    ASSUME ArchiveInv, BookInv, Book
    PROVE  /\ DailyStop > 0 => PeriodPnl(now, Day, trades) > -DailyStop
           /\ WeeklyStop > 0 => PeriodPnl(now, Day * DaysPerWeek, trades) > -WeeklyStop
           /\ DrawdownPct > 0 => (peak - equity) * 100 < DrawdownPct * peak
           /\ cooldownUntil = 0 \/ now >= cooldownUntil
<1>1. ~Cooling /\ ~PeriodStopped /\ ~DrawdownStopped
  BY Zenon DEF Book
<1>2. trades \in Seq(Trade) /\ cooldownUntil \in Nat /\ now \in Nat
  BY DEF BookInv, ArchiveInv
<1> DEFINE week == Day * DaysPerWeek
           daily == PeriodPnl(now, Day, trades)
           weekly == PeriodPnl(now, week, trades)
<1>3. daily \in Int /\ weekly \in Int
  BY <1>2, PeriodPnlType
<1>4. /\ ~(DailyStop > 0 /\ daily <= -DailyStop)
      /\ ~(WeeklyStop > 0 /\ weekly <= -WeeklyStop)
  BY <1>1, Zenon DEF PeriodStopped
<1>5. DailyStop \in Nat /\ WeeklyStop \in Nat /\ DrawdownPct \in Nat
  BY CandidateBacktestAssumption DEF CandidateBacktestAssumption
<1>6. equity \in Int /\ peak \in Int
  <2>1. Len(trades) + 1 \in 1..(Len(trades) + 1)
    BY <1>2, LenProperties
  <2>2. EquityBefore(Len(trades) + 1) \in Int /\ PeakBefore(Len(trades) + 1) \in Int
    BY <1>2, <2>1, EquityFacts
  <2> QED  BY <2>2, Zenon DEF BookInv, Balanced
<1> HIDE DEF daily, weekly
<1>7. /\ DailyStop > 0 => daily > -DailyStop
      /\ WeeklyStop > 0 => weekly > -WeeklyStop
  BY <1>3, <1>4, <1>5
<1>8. DrawdownPct > 0 => (peak - equity) * 100 < DrawdownPct * peak
  <2> DEFINE x == (peak - equity) * 100
             y == DrawdownPct * peak
  <2>1. x \in Int /\ y \in Int
    BY <1>5, <1>6
  <2>2. ~(DrawdownPct > 0 /\ x >= y)
    BY <1>1, Zenon DEF DrawdownStopped
  <2> HIDE DEF x, y
  <2>3. DrawdownPct > 0 => x < y
    BY <2>1, <2>2
  <2> QED  BY <2>3 DEF x, y
<1>9. cooldownUntil = 0 \/ now >= cooldownUntil
  BY <1>1, <1>2 DEF Cooling
<1> QED  BY <1>7, <1>8, <1>9 DEF daily, weekly

\* How the peak goes on from trade to trade, in one state and so in the next.
PeakRule ==
    trades \in Seq(Trade) =>
    \A k \in 1..Len(trades) :
        PeakBefore(k + 1) = MostOf(PeakBefore(k), EquityBefore(k + 1))

\* The peak goes on as said.
LEMMA PeakRuleHolds == PeakRule
<1> QED  BY PeakGrows, Zenon DEF PeakRule

\* So it does in the next state.
LEMMA PeakRuleNext == PeakRule'
<1> QED  BY PeakRuleHolds, PTL

\* A trade booked keeps the book in order.
LEMMA BookStep ==
    ASSUME ArchiveInv, BookInv, Book, NEW n \in Nat, n = Len(trades)
    PROVE  BookInv'
<1>1. PICK t \in Trade :
         /\ t.event = now /\ t.exit = now' /\ now' \in Nat /\ now' > now
         /\ trades' = Append(trades, t)
         /\ equity' = equity + t.pnl
         /\ peak' = MostOf(peak, equity + t.pnl)
         /\ CountLoss(t.exit, t.pnl)
  BY Booked
<1>2. /\ trades \in Seq(Trade) /\ losses \in Nat /\ cooldownUntil \in Nat
      /\ InTurn /\ Balanced /\ Cooled /\ StopsRespected
  BY Zenon DEF BookInv
<1>3. /\ n \in Nat /\ DOMAIN trades = 1..n
      /\ \A k \in 1..n : /\ trades[k] \in Trade
                         /\ trades[k].event \in Nat /\ trades[k].exit \in Nat
                         /\ trades[k].pnl \in Int
  BY <1>2, Results
<1>4. /\ trades' \in Seq(Trade) /\ Len(trades') = n + 1
      /\ \A k \in 1..(n + 1) : EquityBefore(k)' = EquityBefore(k)
      /\ \A k \in 1..(n + 1) : PeakBefore(k)' = PeakBefore(k)
      /\ EquityBefore(n + 2)' = EquityBefore(n + 1) + t.pnl
  BY <1>1, <1>2, <1>3, EquityAfterBooking
<1>5. /\ \A k \in 1..n : trades'[k] = trades[k]
      /\ trades'[n + 1] = t
      /\ DOMAIN trades' = 1..(n + 1)
  <2>1. /\ \A k \in 1..Len(trades) : trades'[k] = trades[k]
        /\ trades'[Len(trades) + 1] = t
    BY <1>1, <1>2, AppendProperties
  <2>2. DOMAIN trades' = 1..Len(trades')
    BY <1>4, LenProperties
  <2> QED  BY <2>1, <2>2, <1>4
<1>6. /\ \A k \in 0..n : LossRun(k)' = LossRun(k)
      /\ \A k \in 0..n : HitsLimit(k)' = HitsLimit(k)
  <2>1. \A k \in 0..n : LossRun(k)' = LossRun(k)
    BY <1>1, <1>2, <1>3, RunsAfterBooking
  <2> QED  BY <2>1, Zenon DEF HitsLimit
<1>7. now \in Nat /\ t.pnl \in Int /\ t.exit \in Nat /\ Cooldown \in Nat
  BY LoopConstants DEF ArchiveInv, Trade
<1>8. \A k \in 1..n : trades[k].event <= trades[k].exit /\ trades[k].exit <= now
  BY <1>2, <1>3 DEF InTurn
<1>9. losses' \in Nat /\ cooldownUntil' \in Nat
      /\ (cooldownUntil' = t.exit + Cooldown \/ cooldownUntil' = cooldownUntil)
  <2> DEFINE run == IF t.pnl < 0 THEN losses + 1 ELSE 0
             stop == LossLimit > 0 /\ run >= LossLimit
  <2>1. /\ losses' = IF stop THEN 0 ELSE run
        /\ cooldownUntil' = IF stop THEN t.exit + Cooldown ELSE cooldownUntil
    BY <1>1, Zenon DEF CountLoss
  <2>2. run \in Nat /\ t.exit + Cooldown \in Nat
    BY <1>2, <1>7
  <2> HIDE DEF run, stop
  <2> QED  BY <1>2, <2>1, <2>2
<1>10. InTurn'
  <2>1. ASSUME NEW k \in 1..(n + 1)
        PROVE  trades'[k].event <= trades'[k].exit /\ trades'[k].exit <= now'
    <3>1. k \in 1..n \/ k = n + 1
      BY <1>3
    <3> QED  BY <3>1, <1>1, <1>3, <1>5, <1>7, <1>8
  <2>2. ASSUME NEW j \in 1..(n + 1), NEW k \in 1..(n + 1), j < k
        PROVE  trades'[j].exit <= trades'[k].event
    <3>1. CASE k \in 1..n
      <4>1. j \in 1..n
        BY <2>2, <3>1, <1>3
      <4>2. trades[j].exit <= trades[k].event
        BY <2>2, <3>1, <4>1, <1>2, <1>3 DEF InTurn
      <4> QED  BY <3>1, <4>1, <4>2, <1>5
    <3>2. CASE k = n + 1
      <4>1. j \in 1..n
        BY <2>2, <3>2, <1>3
      <4> QED  BY <3>2, <4>1, <1>1, <1>5, <1>8
    <3>3. k \in 1..n \/ k = n + 1
      BY <1>3
    <3> QED  BY <3>1, <3>2, <3>3
  <2> QED  BY <1>5, <2>1, <2>2 DEF InTurn
<1>11. Balanced'
  <2>1. equity = EquityBefore(n + 1) /\ peak = PeakBefore(n + 1)
    BY <1>2, Zenon DEF Balanced
  <2>2. Len(trades') + 1 = n + 2 /\ n + 1 \in 1..(n + 1) /\ n + 1 \in 1..Len(trades')
    BY <1>3, <1>4
  <2>3. PeakBefore(n + 2)' = MostOf(PeakBefore(n + 1)', EquityBefore(n + 2)')
    <3>1. ASSUME NEW k \in 1..Len(trades'), NEW l, l = k + 1
          PROVE  PeakBefore(l)' = MostOf(PeakBefore(k)', EquityBefore(l)')
      <4>1. PeakBefore(k + 1)' = MostOf(PeakBefore(k)', EquityBefore(k + 1)')
        BY <1>4, PeakRuleNext, Zenon DEF PeakRule
      <4> QED  BY <3>1, <4>1, Zenon
    <3>2. n + 2 = (n + 1) + 1
      OBVIOUS
    <3> QED  BY <2>2, <3>1, <3>2, Zenon
  <2>4. /\ PeakBefore(n + 1)' = peak /\ EquityBefore(n + 2)' = equity + t.pnl
    BY <1>4, <2>1, <2>2
  <2> QED  BY <1>1, <2>2, <2>3, <2>4, Zenon DEF Balanced
<1>12. ASSUME LossLimit > 0
       PROVE  /\ losses' = LossRun(n + 1)' % LossLimit
              /\ HitsLimit(n + 1)' => cooldownUntil' = t.exit + Cooldown
              /\ \A k \in 1..n : HitsLimit(k) => trades[k].exit + Cooldown <= cooldownUntil
  <2>1. /\ losses = LossRun(n) % LossLimit
        /\ \A k \in 1..n : HitsLimit(k) => trades[k].exit + Cooldown <= cooldownUntil
    BY <1>2, <1>3, <1>12 DEF Cooled
  <2>2. /\ losses' = LossRun(n + 1)' % LossLimit
        /\ HitsLimit(n + 1)' => cooldownUntil' = t.exit + Cooldown
    BY <1>1, <1>2, <1>3, <1>12, <2>1, LossCounted
  <2> QED  BY <2>1, <2>2
<1>13. Cooled'
  <2> SUFFICES ASSUME LossLimit > 0
               PROVE  /\ losses' = LossRun(n + 1)' % LossLimit
                      /\ \A k \in 1..(n + 1) : HitsLimit(k)' =>
                            trades'[k].exit + Cooldown <= cooldownUntil'
    BY <1>4, <1>5 DEF Cooled
  <2>1. ASSUME NEW k \in 1..(n + 1), HitsLimit(k)'
        PROVE  trades'[k].exit + Cooldown <= cooldownUntil'
    <3>1. CASE k \in 1..n
      <4>1. HitsLimit(k)
        <5>1. k \in 0..n
          BY <3>1
        <5> QED  BY <5>1, <1>6, <2>1
      <4>2. trades[k].exit + Cooldown <= cooldownUntil /\ trades[k].exit <= now
        BY <3>1, <4>1, <1>8, <1>12
      <4>3. trades'[k] = trades[k] /\ trades[k].exit \in Nat
        BY <3>1, <1>3, <1>5
      <4>4. trades[k].exit + Cooldown <= t.exit + Cooldown
        BY <4>2, <4>3, <1>1, <1>7
      <4> QED  BY <4>2, <4>3, <4>4, <1>9
    <3>2. CASE k = n + 1
      BY <2>1, <3>2, <1>1, <1>5, <1>7, <1>12
    <3>3. k \in 1..n \/ k = n + 1
      BY <1>3
    <3> QED  BY <3>1, <3>2, <3>3
  <2> QED  BY <1>12, <2>1
<1>14. CooldownKept'
  <2> SUFFICES ASSUME LossLimit > 0, NEW j \in 1..(n + 1), NEW k \in 1..(n + 1), j < k,
                      HitsLimit(j)'
               PROVE  trades'[k].event >= trades'[j].exit + Cooldown
    BY <1>5, Zenon DEF CooldownKept, HitsLimit
  <2>1. j \in 1..n /\ j \in 0..n
    BY <1>3
  <2>2. HitsLimit(j) /\ trades'[j] = trades[j]
    BY <1>5, <1>6, <2>1
  <2>3. CASE k \in 1..n
    <3>1. trades[k].event >= trades[j].exit + Cooldown
      BY <1>2, <1>3, <2>1, <2>2, <2>3, Zenon DEF StopsRespected, CooldownKept, HitsLimit
    <3> QED  BY <2>2, <2>3, <3>1, <1>5
  <2>4. CASE k = n + 1
    <3>1. trades[j].exit + Cooldown <= cooldownUntil /\ trades[j].exit \in Nat
      BY <1>3, <1>12, <2>1, <2>2
    <3>2. cooldownUntil = 0 \/ now >= cooldownUntil
      BY BookedInBounds
    <3>3. trades'[k].event = now
      BY <1>1, <1>5, <2>4
    <3> QED  BY <2>2, <3>1, <3>2, <3>3, <1>2, <1>7
  <2>5. k \in 1..n \/ k = n + 1
    BY <1>3
  <2> QED  BY <2>3, <2>4, <2>5
<1>15. ASSUME NEW k \in 1..(n + 1)
       PROVE  Before(k)' = SubSeq(trades, 1, k - 1)
  <2> DEFINE i == k - 1
  <2>1. i \in 0..Len(trades)
    BY <1>3
  <2> HIDE DEF i
  <2>2. SubSeq(Append(trades, t), 1, i) = SubSeq(trades, 1, i)
    BY <1>2, <2>1, StretchKept
  <2>3. Before(k)' = SubSeq(Append(trades, t), 1, i)
    BY <1>1, Zenon DEF Before, i
  <2> QED  BY <2>2, <2>3 DEF i
<1>16. Before(n + 1)' = trades
  <2>1. n + 1 \in 1..(n + 1) /\ (n + 1) - 1 = n
    BY <1>3
  <2>2. SubSeq(trades, 1, n) = trades
    BY <1>2, SubSeqFull
  <2> QED  BY <1>15, <2>1, <2>2
<1> DEFINE InBounds(at, before, top, left) ==
              /\ DailyStop > 0 => PeriodPnl(at, Day, before) > -DailyStop
              /\ WeeklyStop > 0 => PeriodPnl(at, Day * DaysPerWeek, before) > -WeeklyStop
              /\ DrawdownPct > 0 => (top - left) * 100 < DrawdownPct * top
<1>17. ASSUME NEW k \in 1..(n + 1)
       PROVE  InBounds(trades'[k].event, Before(k)', PeakBefore(k)', EquityBefore(k)')
  <2>1. EquityBefore(k)' = EquityBefore(k) /\ PeakBefore(k)' = PeakBefore(k)
    BY <1>4
  <2>2. CASE k \in 1..n
    <3>1. InBounds(trades[k].event, Before(k), PeakBefore(k), EquityBefore(k))
      BY <1>2, <1>3, <2>2, Zenon DEF StopsRespected
    <3>2. Before(k)' = Before(k)
      BY <1>15, Zenon DEF Before
    <3>3. trades'[k] = trades[k]
      BY <1>5, <2>2
    <3> QED  BY <2>1, <3>1, <3>2, <3>3, Zenon
  <2>3. CASE k = n + 1
    <3>1. InBounds(now, trades, peak, equity)
      BY BookedInBounds, Zenon
    <3>2. equity = EquityBefore(k) /\ peak = PeakBefore(k)
      BY <1>2, <2>3, Zenon DEF Balanced
    <3>3. Before(k)' = trades /\ trades'[k].event = now
      BY <1>1, <1>5, <1>16, <2>3
    <3> QED  BY <2>1, <3>1, <3>2, <3>3, Zenon
  <2>4. k \in 1..n \/ k = n + 1
    BY <1>3
  <2> QED  BY <2>2, <2>3, <2>4
<1>18. StopsRespected'
  <2>1. \A at, length, k :
           PeriodPnl(at, length, Before(k))' = PeriodPnl(at, length, Before(k)')
    BY Zenon DEF PeriodPnl, SamePeriod
  <2> QED  BY <1>5, <1>14, <1>17, <2>1, Zenon DEF StopsRespected
<1> QED  BY <1>4, <1>9, <1>10, <1>11, <1>13, <1>18 DEF BookInv

\* The book is in order whatever the market does.
LEMMA BookInOrder == BacktestSpec => []BookInv
<1>1. ASSUME ArchiveInv, BookInv, [BacktestNext]_backtestVars PROVE BookInv'
  <2>1. CASE Book
    <3>1. Len(trades) \in Nat
      BY <1>1, LenProperties DEF BookInv
    <3> QED  BY <1>1, <2>1, <3>1, BookStep
  <2>2. CASE Advance
    <3>1. now' = ahead[1].at /\ ahead # <<>> /\ UNCHANGED book
      BY <2>2 DEF Advance
    <3>2. 1 \in 1..Len(ahead)
      <4>1. Len(ahead) \in Nat \ {0}
        BY <1>1, <3>1, EmptySeq DEF ArchiveInv
      <4> QED  BY <4>1
    <3>3. now \in Nat /\ now' \in Nat /\ now' >= now
      BY <1>1, <3>1, <3>2, AheadFacts DEF ArchiveInv
    <3> QED  BY <1>1, <3>1, <3>3, BookKept
  <2>3. CASE \/ NewBar \/ ArchiveEnds \/ Finish \/ NoCandidate \/ Reject \/ StopForDrawdown
             \/ UNCHANGED backtestVars
    <3>1. now' = now /\ UNCHANGED book
      BY <2>3, Zenon DEF NewBar, ArchiveEnds, Finish, NoCandidate, Reject, StopForDrawdown,
                         backtestVars
    <3>2. now \in Nat /\ now' >= now
      BY <1>1, <3>1 DEF ArchiveInv
    <3> QED  BY <1>1, <3>1, <3>2, BookKept
  <2> QED  BY <1>1, <2>1, <2>2, <2>3, Zenon DEF BacktestNext, Finished
<1> QED  BY <1>1, BookInit, ArchiveInOrder, PTL DEF BacktestSpec

\* No trade is entered (run_candidate_backtest) on a day or in a week whose results have
\* reached the stop, after a drawdown that has, or within the cooldown after a run of losses,
\* for any limits, prices and lengths of archive.
THEOREM StopsAreRespected == BacktestSpec => []StopsRespected
<1>1. BookInv => StopsRespected
  BY DEF BookInv
<1> QED  BY <1>1, BookInOrder, PTL

-----------------------------------------------------------------------------
(* The datasets: what rules and barriers compute *)

\* A bar of the series: prices are whole ticks, and never zero.
DataBar == [at : Nat, open : Nat \ {0}, high : Nat \ {0}, low : Nat \ {0},
            close : Nat \ {0}, volume : Nat]

\* What the datasets are told about windows, times and limits are numbers.
LEMMA DataConstants ==
    /\ \A n \in Windows : W[n] \in Nat \ {0}
    /\ Interval \in Nat \ {0} /\ Hour \in Nat /\ MaxHours \in Nat
    /\ MinHolding \in Nat \ {0} /\ MaxHolding \in Nat /\ HorizonCap \in Nat
    /\ Granularity \in Nat /\ TargetMove \in Nat \ {0}
    /\ Lookback \in Nat \ {0} /\ Stride \in Nat \ {0}
    /\ MinHistory \in Nat /\ Rolling \in Nat
    /\ ExternalLatency \in Nat /\ MarketAge \in Nat /\ MarketLength \in Nat \ {0}
    /\ FeatureWindow \in Nat \ {0} /\ MaxBars \in Nat /\ HistoryMax \in Nat \ {0}
  BY CandidateRulesAssumption, DatasetAssumption
     DEF CandidateRulesAssumption, DatasetAssumption, ValidConfig

\* A bar of a series, its range, and the return to it, are numbers.
LEMMA BarNumbers ==
    ASSUME NEW h \in Seq(DataBar)
    PROVE  /\ Len(h) \in Nat /\ DOMAIN h = 1..Len(h)
           /\ \A i \in 1..Len(h) :
                 h[i] \in DataBar /\ h[i].at \in Nat /\ RangeAt(h, i) \in Int
           /\ \A i \in 2..Len(h) : Return(h, i) \in Int
<1>1. Len(h) \in Nat /\ DOMAIN h = 1..Len(h)
  BY LenProperties
<1>2. \A i \in 1..Len(h) :
         /\ h[i] \in DataBar /\ h[i].at \in Nat /\ h[i].high \in Nat /\ h[i].low \in Nat
         /\ h[i].close \in Nat \ {0}
  <2>1. \A i \in 1..Len(h) : h[i] \in DataBar
    BY ElementOfSeq
  <2> QED  BY <2>1 DEF DataBar
<1>3. ASSUME NEW i \in 1..Len(h) PROVE RangeAt(h, i) \in Int
  <2> DEFINE a == 10000 * (h[i].high - h[i].low)
             b == h[i].close
  <2>1. a \in Int /\ b \in Nat \ {0}
    BY <1>2
  <2>2. RangeAt(h, i) = a \div b
    BY Zenon DEF RangeAt
  <2> HIDE DEF a, b
  <2> QED  BY <2>1, <2>2
<1>4. ASSUME NEW i \in 2..Len(h) PROVE Return(h, i) \in Int
  <2> DEFINE k == i - 1
             a == 10000 * (h[i].close - h[k].close)
             b == h[k].close
  <2>1. i \in 1..Len(h) /\ k \in 1..Len(h)
    BY <1>1
  <2>2. Return(h, i) = a \div b
    BY Zenon DEF Return
  <2> HIDE DEF k
  <2>3. a \in Int /\ b \in Nat \ {0}
    BY <1>2, <2>1
  <2> HIDE DEF a, b
  <2> QED  BY <2>2, <2>3
<1> QED  BY <1>1, <1>2, <1>3, <1>4

\* The last bars of a history are finitely many.
LEMMA RecentFinite ==
    ASSUME NEW h \in Seq(DataBar), NEW n
    PROVE  Recent(h, n) \in SUBSET (1..Len(h)) /\ IsFiniteSet(Recent(h, n))
<1>1. Len(h) \in Nat /\ DOMAIN h = 1..Len(h)
  BY BarNumbers
<1>2. Recent(h, n) \in SUBSET (1..Len(h))
  BY <1>1 DEF Recent
<1>3. IsFiniteSet(1..Len(h))
  BY <1>1, FS_Interval
<1> QED  BY <1>2, <1>3, FS_Subset

\* The variance of returns (_realized_volatility) has a root.
LEMMA VarianceNat ==
    ASSUME NEW h \in Seq(DataBar), NEW n
    PROVE  Variance(h, n) \in Nat /\ Root(Variance(h, n)) \in Nat
<1> DEFINE S == Recent(h, n) \ {1}
           f == [i \in S |-> Return(h, i)]
           g == [i \in S |-> Return(h, i) * Return(h, i)]
<1>1. IsFiniteSet(S) /\ \A i \in S : i \in 2..Len(h)
  <2>1. Recent(h, n) \in SUBSET (1..Len(h)) /\ IsFiniteSet(Recent(h, n)) /\ Len(h) \in Nat
    BY RecentFinite, BarNumbers
  <2> QED  BY <2>1, FS_Subset
<1>2. \A i \in S : f[i] \in Int /\ g[i] = f[i] * f[i]
  BY <1>1, BarNumbers
<1>3. Variance(h, n) = Cardinality(S) * SumFunctionOnSet(g, S)
                          - SumFunctionOnSet(f, S) * SumFunctionOnSet(f, S)
  BY Zenon DEF Variance, SumOf
<1> HIDE DEF S, f, g
<1>4. Variance(h, n) \in Nat
  BY <1>1, <1>2, <1>3, SpreadNat
<1> DEFINE x == Variance(h, n)
<1> HIDE DEF x
<1>5. Root(x) \in Nat
  <2>1. x \in Nat
    BY <1>4 DEF x
  <2>2. Root(x) \in 0..x
    BY <2>1, RootExists DEF Root
  <2> QED  BY <2>1, <2>2
<1> QED  BY <1>4, <1>5 DEF x

\* A range by its rank among finitely many is one of them.
LEMMA RankedIn ==
    ASSUME NEW h \in Seq(DataBar), NEW S \in SUBSET (1..Len(h)),
           NEW rank \in Nat, rank < Cardinality(S)
    PROVE  Ranked(h, S, rank) \in {RangeAt(h, i) : i \in S}
<1> DEFINE f == [i \in S |-> RangeAt(h, i)]
<1>1. IsFiniteSet(S)
  <2>1. IsFiniteSet(1..Len(h))
    BY BarNumbers, FS_Interval
  <2> QED  BY <2>1, FS_Subset
<1>2. \A i \in S : f[i] \in Int /\ f[i] = RangeAt(h, i)
  BY BarNumbers
<1>3. f \in [S -> Int]
  BY <1>2
<1>4. PICK k \in S :
         /\ Cardinality(PlacesBelow(f, S, f[k])) <= rank
         /\ Cardinality(PlacesUpTo(f, S, f[k])) > rank
  <2> HIDE DEF f
  <2> QED  BY <1>1, <1>3, RankExists
<1>5. /\ PlacesBelow(f, S, f[k]) = {i \in S : RangeAt(h, i) < RangeAt(h, k)}
      /\ PlacesUpTo(f, S, f[k]) = {i \in S : RangeAt(h, i) <= RangeAt(h, k)}
  BY <1>2 DEF PlacesBelow, PlacesUpTo
<1>6. \E r \in {RangeAt(h, i) : i \in S} :
         /\ Cardinality({i \in S : RangeAt(h, i) < r}) <= rank
         /\ Cardinality({i \in S : RangeAt(h, i) <= r}) > rank
  <2>1. RangeAt(h, k) \in {RangeAt(h, i) : i \in S}
    OBVIOUS
  <2> HIDE DEF f
  <2> QED  BY <1>4, <1>5, <2>1, Zenon
<1> QED  BY <1>6, Zenon DEF Ranked

\* How wide prices move (_recent_volatility_bps, _recent_intrabar_range_bps) is a number.
LEMMA MovementNat ==
    ASSUME NEW h \in Seq(DataBar), h # <<>>
    PROVE  Movement(h) \in Nat
<1> DEFINE wide == {i \in Recent(h, W[300]) : RangeAt(h, i) > 0}
           n == Smaller(Len(h) - 1, W[300])
           c == Cardinality(wide)
           half == c \div 2
           range == IF wide = {} THEN 0
                    ELSE IF c % 2 = 1 THEN Ranked(h, wide, half)
                    ELSE (Ranked(h, wide, half) + Ranked(h, wide, half - 1)) \div 2
           moves == IF n < 2 THEN 0 ELSE Root(Variance(h, n)) \div n
<1>1. Len(h) \in Nat \ {0}
  BY EmptySeq
<1>2. wide \in SUBSET (1..Len(h)) /\ IsFiniteSet(wide) /\ c \in Nat
  <2>1. Recent(h, W[300]) \in SUBSET (1..Len(h)) /\ IsFiniteSet(Recent(h, W[300]))
    BY RecentFinite
  <2>2. IsFiniteSet(wide)
    BY <2>1, FS_Subset
  <2> QED  BY <2>1, <2>2, FS_CardinalityType
<1>3. \A i \in wide : RangeAt(h, i) \in Nat
  BY <1>2, BarNumbers
<1>4. Movement(h) = Larger(moves, range \div 2)
  BY Zenon DEF Movement, MedianRange
<1>5. ASSUME wide # {}
      PROVE  /\ Ranked(h, wide, half) \in Nat
             /\ c % 2 = 1 \/ Ranked(h, wide, half - 1) \in Nat
  <2>1. c # 0
    BY <1>2, <1>5, FS_EmptySet
  <2> HIDE DEF c
  <2>2. /\ half \in Nat /\ half < c
        /\ c % 2 = 1 \/ (half - 1 \in Nat /\ half - 1 < c)
    BY <1>2, <2>1
  <2> HIDE DEF half, wide
  <2>3. \A rank \in Nat : rank < Cardinality(wide) =>
           Ranked(h, wide, rank) \in {RangeAt(h, i) : i \in wide}
    BY <1>2, RankedIn
  <2>4. \A rank \in Nat : rank < c => Ranked(h, wide, rank) \in Nat
    BY <1>3, <2>3 DEF c
  <2> QED  BY <2>2, <2>4
<1>6. range \in Nat
  <2> HIDE DEF wide, c, half
  <2> QED  BY <1>5
<1>7. moves \in Nat
  <2>1. n \in Int
    BY <1>1, DataConstants DEF Windows, Smaller
  <2>2. Root(Variance(h, n)) \in Nat
    BY VarianceNat
  <2> DEFINE r == Root(Variance(h, n))
  <2> HIDE DEF r, n
  <2>3. n >= 2 => r \div n \in Nat
    BY <2>1, <2>2 DEF r
  <2>4. moves = IF n < 2 THEN 0 ELSE r \div n
    BY DEF r, n
  <2> QED  BY <2>1, <2>3, <2>4
<1> HIDE DEF range, moves
<1> QED  BY <1>4, <1>6, <1>7 DEF Larger

\* The holding time of a candidate (_with_configured_horizon) is a number.
LEMMA HorizonNat ==
    ASSUME NEW h \in Seq(DataBar), h # <<>>, NEW hours \in Nat, NEW setup, NEW strength
    PROVE  HorizonOf(h, hours, setup, strength) \in Nat
<1>1. Grain \in Nat \ {0} /\ LeastHolding \in Nat /\ ConfigCap \in Nat
  <2>1. Grain \in Nat \ {0}
    BY DataConstants DEF Grain
  <2>2. LeastHolding \in Nat
    BY <2>1, DataConstants DEF LeastHolding, Larger
  <2>3. ConfigCap \in Nat
    <3>1. MaxHours * Hour \in Nat /\ HorizonCap \in Nat /\ MaxHolding \in Nat
      BY DataConstants
    <3> QED  BY <3>1, Zenon DEF ConfigCap
  <2> QED  BY <2>1, <2>2, <2>3
<1>2. MostHolding(hours) \in Nat
  <2>1. hours * Hour \in Nat
    BY DataConstants
  <2> QED  BY <1>1, <2>1 DEF MostHolding, Larger, Smaller
<1>3. \A t \in Nat : RoundUp(t) \in Nat
  <2> SUFFICES ASSUME NEW t \in Nat PROVE RoundUp(t) \in Nat
    OBVIOUS
  <2> DEFINE g == Grain
             q == (t + g - 1) \div g
  <2>1. g \in Nat \ {0}
    BY <1>1
  <2>2. RoundUp(t) = q * g
    BY Zenon DEF RoundUp
  <2> HIDE DEF g
  <2>3. q \in Nat
    BY <2>1
  <2> HIDE DEF q
  <2> QED  BY <2>1, <2>2, <2>3
<1>4. Multiplier(setup, strength) \in Nat
  <2> DEFINE signal == CASE 2 * strength >= TargetMove -> 550
                         [] 2 * strength < TargetMove /\ 4 * strength >= TargetMove -> 750
                         [] OTHER -> 1000
             burst == CASE setup.expansion >= 1500
                           \/ (setup.measured /\ setup.volume >= 2000) -> 700
                        [] setup.expansion \in 1..749 /\ setup.measured
                           /\ setup.volume < 750 -> 1200
                        [] OTHER -> 1000
  <2>1. Multiplier(setup, strength) = Times(Times(FamilyMultiplier(setup.family), signal), burst)
    BY Zenon DEF Multiplier
  <2>2. signal \in Nat
    OBVIOUS
  <2>3. burst \in Nat
    OBVIOUS
  <2>4. FamilyMultiplier(setup.family) \in Nat
    BY DEF FamilyMultiplier
  <2> HIDE DEF signal, burst
  <2>5. \A a, b \in Nat : Times(a, b) \in Nat
    BY DEF Times
  <2> QED  BY <2>1, <2>2, <2>3, <2>4, <2>5
<1>5. AdaptiveHorizon(h, hours, setup, strength) \in Nat
  <2> DEFINE most == MostHolding(hours)
             m == Movement(h)
             a == TargetMove * Interval * Multiplier(setup, strength)
             b == m * 1000
             raw == IF m = 0 THEN most ELSE a \div b
  <2>1. m \in Nat /\ a \in Nat /\ most \in Nat
    <3>1. TargetMove * Interval \in Nat
      BY DataConstants
    <3> QED  BY <1>2, <1>4, <3>1, MovementNat
  <2>2. AdaptiveHorizon(h, hours, setup, strength) =
           Larger(LeastHolding, RoundUp(Smaller(Larger(raw, LeastHolding), most)))
    BY Zenon DEF AdaptiveHorizon
  <2> HIDE DEF most, m, a
  <2>3. raw \in Nat
    BY <2>1
  <2> HIDE DEF raw
  <2>4. Smaller(Larger(raw, LeastHolding), most) \in Nat
    BY <1>1, <2>1, <2>3 DEF Smaller, Larger
  <2>5. RoundUp(Smaller(Larger(raw, LeastHolding), most)) \in Nat
    BY <1>3, <2>4
  <2> QED  BY <1>1, <2>2, <2>5 DEF Larger
<1>6. hours * Hour \in Nat /\ MaxHolding \in Nat /\ Adaptive \in BOOLEAN
  BY DataConstants, CandidateRulesAssumption DEF CandidateRulesAssumption
<1> QED  BY <1>5, <1>6 DEF HorizonOf

\* Signals to one side, of some types, and no two of one type; their hours are
\* numbers.
Says(s, T, side) ==
    \E A : /\ s \in Seq(A)
           /\ \A a \in A : a.hours \in Nat /\ a.type \in T /\ a.side = side
           /\ \A a, b \in A : a.type = b.type => a = b

\* A rule says one signal at most.
LEMMA SignalSays ==
    ASSUME NEW fires, NEW type, NEW side, NEW hours \in Nat, NEW family, NEW strength
    PROVE  Says(Signal(fires, type, side, hours, family, strength), {type}, side)
<1> DEFINE a == [type |-> type, side |-> side, hours |-> hours, family |-> family,
                 strength |-> strength]
<1>1. a.hours \in Nat /\ a.type = type /\ a.side = side
  OBVIOUS
<1>2. Signal(fires, type, side, hours, family, strength) = IF ~fires THEN <<>> ELSE <<a>>
  BY Zenon DEF Signal
<1> HIDE DEF a
<1>3. <<>> \in Seq({a}) /\ <<a>> \in Seq({a})
  OBVIOUS
<1>4. Signal(fires, type, side, hours, family, strength) \in Seq({a})
  BY <1>2, <1>3, Zenon
<1>5. /\ \A x \in {a} : x.hours \in Nat /\ x.type \in {type} /\ x.side = side
      /\ \A x, y \in {a} : x.type = y.type => x = y
  BY <1>1
<1> QED  BY <1>4, <1>5 DEF Says

\* Lists of rules of different types may be put after one another.
LEMMA JoinSays ==
    ASSUME NEW s, NEW t, NEW T, NEW U, NEW side,
           Says(s, T, side), Says(t, U, side), T \cap U = {}
    PROVE  Says(s \o t, T \cup U, side)
<1>1. PICK A : /\ s \in Seq(A)
               /\ \A a \in A : a.hours \in Nat /\ a.type \in T /\ a.side = side
               /\ \A a, b \in A : a.type = b.type => a = b
  BY Zenon DEF Says
<1>2. PICK B : /\ t \in Seq(B)
               /\ \A a \in B : a.hours \in Nat /\ a.type \in U /\ a.side = side
               /\ \A a, b \in B : a.type = b.type => a = b
  BY Zenon DEF Says
<1>3. s \in Seq(A \cup B) /\ t \in Seq(A \cup B)
  BY <1>1, <1>2
<1>4. s \o t \in Seq(A \cup B)
  BY <1>3
<1>5. \A a \in A \cup B : a.hours \in Nat /\ a.type \in T \cup U /\ a.side = side
  BY <1>1, <1>2
<1>6. \A a, b \in A \cup B : a.type = b.type => a = b
  <2>1. \A a \in A, b \in B : a.type # b.type
    BY <1>1, <1>2
  <2> QED  BY <1>1, <1>2, <2>1
<1> QED  BY <1>4, <1>5, <1>6 DEF Says

\* The next rule of a list.
LEMMA AlsoSays ==
    ASSUME NEW s, NEW T, NEW side, Says(s, T, side),
           NEW fires, NEW type, type \notin T, NEW hours \in Nat, NEW family, NEW strength
    PROVE  Says(s \o Signal(fires, type, side, hours, family, strength), T \cup {type}, side)
<1>1. Says(Signal(fires, type, side, hours, family, strength), {type}, side)
  BY SignalSays
<1>2. T \cap {type} = {}
  OBVIOUS
<1> QED  BY <1>1, <1>2, JoinSays

\* No rule, no signal.
LEMMA NothingSaid == \A type, side : Says(<<>>, {type}, side)
<1> TAKE type, side
<1>1. Says(Signal(FALSE, type, side, 0, "", 0), {type}, side)
  BY SignalSays
<1>2. Signal(FALSE, type, side, 0, "", 0) = <<>>
  BY DEF Signal
<1> QED  BY <1>1, <1>2

\* The rules of every mode say one signal each, and say for how many hours.
LEMMA RulesSay ==
    ASSUME NEW h, NEW m
    PROVE  /\ \E T : Says(LongRules(h, m), T, "BUY")
           /\ \E T : Says(ShortRules(h), T, "SELL")
           /\ \E T : Says(ActiveLong(h), T, "BUY")
           /\ \E T : Says(ActiveShort(h), T, "SELL")
           /\ \A side : \E T : Says(Dense(h, side), T, side)
<1>1. MaxHours \in Nat /\ 24 \in Nat /\ 48 \in Nat /\ 12 \in Nat /\ 4 \in Nat
      /\ Smaller(12, 4) \in Nat /\ Smaller(12, 6) \in Nat /\ Smaller(12, 3) \in Nat
  BY DataConstants DEF Smaller
<1>2. \E T : Says(LongRules(h, m), T, "BUY")
  <2> DEFINE rule(fires, type, hours, strength) ==
                 Signal(fires, type, "BUY", hours, "", strength)
             prior == Prior(h, Lookback)
             three == rule(information_momentum(h), "information_momentum", 24, Whole)
                      \o rule(trend_pullback_reclaim(h), "trend_pullback_reclaim", MaxHours,
                              OverMean(h, W[21]) + Trend(h, W[72], W[168]))
                      \o rule(trend_continuation(h), "trend_continuation", MaxHours,
                              OverHigh(h, prior))
             T3 == {"information_momentum"} \cup {"trend_pullback_reclaim"}
                      \cup {"trend_continuation"}
             six == three
                      \o rule(volatility_breakout(h), "volatility_breakout", MaxHours,
                              OverHigh(h, LastOf(prior, W[8])))
                      \o rule(volatility_breakout_retest(h), "volatility_breakout_retest", 48,
                              OverHigh(h, LastOf(Settled(h), W[8])))
                      \o rule(capitulation_mean_reversion(h), "capitulation_mean_reversion", 48,
                              Abs(Beyond(Previous(h).close, h[Len(h) - Lookback + 1].close)))
             T6 == T3 \cup {"volatility_breakout"} \cup {"volatility_breakout_retest"}
                      \cup {"capitulation_mean_reversion"}
             more == IF m = "aggressive_rules" THEN AggressiveRules(h) ELSE <<>>
             T2 == {"intraday_volatility_breakout"} \cup {"liquidity_sweep_reclaim"}
  <2>1. Says(three, T3, "BUY")
    <3> DEFINE a == rule(information_momentum(h), "information_momentum", 24, Whole)
               b == a \o rule(trend_pullback_reclaim(h), "trend_pullback_reclaim", MaxHours,
                              OverMean(h, W[21]) + Trend(h, W[72], W[168]))
               A == {"information_momentum"}
               B == A \cup {"trend_pullback_reclaim"}
    <3>1. Says(a, A, "BUY")
      BY <1>1, SignalSays
    <3>2. "trend_pullback_reclaim" \notin A /\ "trend_continuation" \notin B
      OBVIOUS
    <3> HIDE DEF a, A
    <3>3. Says(b, B, "BUY")
      BY <1>1, <3>1, <3>2, AlsoSays
    <3> HIDE DEF b, B
    <3>4. Says(b \o rule(trend_continuation(h), "trend_continuation", MaxHours,
                          OverHigh(h, prior)), B \cup {"trend_continuation"}, "BUY")
      BY <1>1, <3>2, <3>3, AlsoSays
    <3> QED  BY <3>4 DEF a, b, A, B
  <2>2. Says(six, T6, "BUY")
    <3>1. /\ "volatility_breakout" \notin T3
          /\ "volatility_breakout_retest" \notin T3 \cup {"volatility_breakout"}
          /\ "capitulation_mean_reversion" \notin
                T3 \cup {"volatility_breakout"} \cup {"volatility_breakout_retest"}
      OBVIOUS
    <3> HIDE DEF three, T3
    <3> QED  BY <1>1, <2>1, <3>1, AlsoSays
  <2>3. Says(AggressiveRules(h), T2, "BUY")
    BY <1>1, SignalSays, AlsoSays DEF AggressiveRules
  <2>4. Says(more, T2, "BUY") \/ Says(more, {"none"}, "BUY")
    BY <2>3, NothingSaid
  <2>5. T6 \cap T2 = {} /\ T6 \cap {"none"} = {}
    OBVIOUS
  <2>6. LongRules(h, m) = six \o more
    BY Zenon DEF LongRules
  <2> HIDE DEF six, more, T6, T2
  <2>7. \/ Says(six \o more, T6 \cup T2, "BUY")
        \/ Says(six \o more, T6 \cup {"none"}, "BUY")
    BY <2>2, <2>4, <2>5, JoinSays
  <2> QED  BY <2>6, <2>7
<1>3. \E T : Says(ShortRules(h), T, "SELL")
  <2>1. Says(ShortRules(h), {"short_information_momentum"} \cup {"short_trend_rejection"}
                                \cup {"short_volatility_breakdown"}, "SELL")
    BY <1>1, SignalSays, AlsoSays DEF ShortRules
  <2> QED  BY <2>1
<1>4. \E T : Says(ActiveLong(h), T, "BUY")
  <2>1. \A f1, f2, f3, f4, f5, s1, s2, s3, s4, s5 :
           Says(Signal(f1, "active_breakout_continuation", "BUY", Smaller(12, 4),
                       "breakout", s1)
                \o Signal(f2, "active_pullback_reclaim", "BUY", Smaller(12, 4),
                          "pullback_reclaim", s2)
                \o Signal(f3, "active_squeeze_breakout", "BUY", Smaller(12, 6),
                          "breakout", s3)
                \o Signal(f4, "active_liquidity_reversal", "BUY", Smaller(12, 3),
                          "liquidation_reversal", s4)
                \o Signal(f5, "active_range_mean_reversion", "BUY", Smaller(12, 3),
                          "mean_reversion", s5),
                {"active_breakout_continuation"} \cup {"active_pullback_reclaim"}
                \cup {"active_squeeze_breakout"} \cup {"active_liquidity_reversal"}
                \cup {"active_range_mean_reversion"}, "BUY")
    <3> TAKE f1, f2, f3, f4, f5, s1, s2, s3, s4, s5
    <3> DEFINE a == Signal(f1, "active_breakout_continuation", "BUY", Smaller(12, 4),
                           "breakout", s1)
               b == a \o Signal(f2, "active_pullback_reclaim", "BUY", Smaller(12, 4),
                                "pullback_reclaim", s2)
               c == b \o Signal(f3, "active_squeeze_breakout", "BUY", Smaller(12, 6),
                                "breakout", s3)
               d == c \o Signal(f4, "active_liquidity_reversal", "BUY", Smaller(12, 3),
                                "liquidation_reversal", s4)
               A == {"active_breakout_continuation"}
               B == A \cup {"active_pullback_reclaim"}
               C == B \cup {"active_squeeze_breakout"}
               D == C \cup {"active_liquidity_reversal"}
    <3>1. Says(a, A, "BUY")
      BY <1>1, SignalSays
    <3>2. /\ "active_pullback_reclaim" \notin A /\ "active_squeeze_breakout" \notin B
          /\ "active_liquidity_reversal" \notin C /\ "active_range_mean_reversion" \notin D
      OBVIOUS
    <3> HIDE DEF a, A
    <3>3. Says(b, B, "BUY")
      BY <1>1, <3>1, <3>2, AlsoSays
    <3> HIDE DEF b, B
    <3>4. Says(c, C, "BUY")
      BY <1>1, <3>2, <3>3, AlsoSays
    <3> HIDE DEF c, C
    <3>5. Says(d, D, "BUY")
      BY <1>1, <3>2, <3>4, AlsoSays
    <3> HIDE DEF d, D
    <3>6. Says(d \o Signal(f5, "active_range_mean_reversion", "BUY", Smaller(12, 3),
                           "mean_reversion", s5), D \cup {"active_range_mean_reversion"}, "BUY")
      BY <1>1, <3>2, <3>5, AlsoSays
    <3> QED  BY <3>6 DEF a, b, c, d, A, B, C, D
  <2> QED  BY <2>1 DEF ActiveLong
<1>5. \E T : Says(ActiveShort(h), T, "SELL")
  BY <1>1, SignalSays DEF ActiveShort
<1>6. \A side : \E T : Says(Dense(h, side), T, side)
  BY <1>1, SignalSays DEF Dense
<1> QED  BY <1>2, <1>3, <1>4, <1>5, <1>6

\* A candidate has the time of the last bar and a number of seconds to its
\* vertical barrier, and is the only one of its type and side.
LEMMA CandidateFacts ==
    ASSUME NEW h \in Seq(DataBar), h # <<>>, NEW m
    PROVE  /\ \A e \in ToSet(CandidatesOf(h, m)) :
                 e.at = Latest(h).at /\ e.horizon \in Nat
           /\ \A e, f \in ToSet(CandidatesOf(h, m)) :
                 e.type = f.type /\ e.side = f.side => e = f
<1> DEFINE long == CASE m = "dense_research" -> Dense(h, "BUY")
                     [] m = "active_research" -> ActiveLong(h)
                     [] OTHER -> LongRules(h, m)
           short == CASE m = "dense_research" -> Dense(h, "SELL")
                      [] m = "active_research" -> ActiveShort(h)
                      [] OTHER -> ShortRules(h)
           first == IF SideMode = "short" THEN <<>> ELSE long
           second == IF SideMode = "long" THEN <<>> ELSE short
           signals == first \o second
<1>1. (\E T : Says(long, T, "BUY")) /\ (\E T : Says(short, T, "SELL"))
  BY RulesSay
<1>2. CandidatesOf(h, m) = IF Len(h) < MinHistory THEN <<>> ELSE CandidatesFor(h, signals)
  BY Zenon DEF CandidatesOf
<1> HIDE DEF long, short
<1>3. (\E T : Says(first, T, "BUY")) /\ (\E T : Says(second, T, "SELL"))
  BY <1>1, NothingSaid
<1> HIDE DEF first, second
<1>4. PICK A : /\ first \in Seq(A)
               /\ \A a \in A : a.hours \in Nat /\ a.side = "BUY"
               /\ \A a, b \in A : a.type = b.type => a = b
  <2>1. PICK T : Says(first, T, "BUY")
    BY <1>3
  <2> QED  BY <2>1 DEF Says
<1>5. PICK B : /\ second \in Seq(B)
               /\ \A a \in B : a.hours \in Nat /\ a.side = "SELL"
               /\ \A a, b \in B : a.type = b.type => a = b
  <2>1. PICK T : Says(second, T, "SELL")
    BY <1>3
  <2> QED  BY <2>1 DEF Says
<1>6. signals \in Seq(A \cup B)
  <2>1. first \in Seq(A \cup B) /\ second \in Seq(A \cup B)
    BY <1>4, <1>5
  <2> QED  BY <2>1
<1> HIDE DEF signals
<1>7. \A k \in DOMAIN signals : signals[k] \in A \cup B
  BY <1>6, ElementOfSeq
<1>8. /\ \A k \in DOMAIN signals : signals[k].hours \in Nat
      /\ \A j, k \in DOMAIN signals :
            signals[j].type = signals[k].type /\ signals[j].side = signals[k].side
               => signals[j] = signals[k]
  <2>1. \A a \in A \cup B : a.hours \in Nat
    BY <1>4, <1>5
  <2>2. \A a, b \in A \cup B : a.type = b.type /\ a.side = b.side => a = b
    <3>1. \A a \in A, b \in B : a.side # b.side
      BY <1>4, <1>5
    <3> QED  BY <1>4, <1>5, <3>1
  <2> QED  BY <1>7, <2>1, <2>2
<1>9. \A e \in ToSet(CandidatesOf(h, m)) :
         \E k \in DOMAIN signals : e = Candidate(h, signals[k])
  <2> TAKE e \in ToSet(CandidatesOf(h, m))
  <2>1. DOMAIN <<>> = {}
    OBVIOUS
  <2>2. e \in ToSet(CandidatesFor(h, signals))
    BY <1>2, <2>1 DEF ToSet
  <2> QED  BY <2>2 DEF ToSet, CandidatesFor
<1>10. \A k \in DOMAIN signals :
          /\ Candidate(h, signals[k]).at = Latest(h).at
          /\ Candidate(h, signals[k]).horizon \in Nat
          /\ Candidate(h, signals[k]).type = signals[k].type
          /\ Candidate(h, signals[k]).side = signals[k].side
  <2> TAKE k \in DOMAIN signals
  <2>1. Smaller(signals[k].hours, MaxHours) \in Nat
    <3>1. signals[k].hours \in Nat
      BY <1>8
    <3> QED  BY <3>1, DataConstants DEF Smaller
  <2>2. \A setup, strength :
           HorizonOf(h, Smaller(signals[k].hours, MaxHours), setup, strength) \in Nat
    BY <2>1, HorizonNat
  <2> QED  BY <2>2 DEF Candidate
<1>11. \A e \in ToSet(CandidatesOf(h, m)) : e.at = Latest(h).at /\ e.horizon \in Nat
  BY <1>9, <1>10
<1>12. ASSUME NEW e \in ToSet(CandidatesOf(h, m)), NEW f \in ToSet(CandidatesOf(h, m)),
              e.type = f.type, e.side = f.side
       PROVE  e = f
  <2>1. PICK j \in DOMAIN signals : e = Candidate(h, signals[j])
    BY <1>9
  <2>2. PICK k \in DOMAIN signals : f = Candidate(h, signals[k])
    BY <1>9
  <2>3. signals[j] = signals[k]
    BY <1>8, <1>10, <1>12, <2>1, <2>2
  <2> QED  BY <2>1, <2>2, <2>3
<1> QED  BY <1>11, <1>12

\* A stretch of a series is a series, and its bars are those of the stretch.
LEMMA Stretch ==
    ASSUME NEW s \in Seq(DataBar), NEW a \in Nat \ {0}, NEW b \in Nat, b <= Len(s)
    PROVE  /\ SubSeq(s, a, b) \in Seq(DataBar)
           /\ Len(SubSeq(s, a, b)) = IF a <= b THEN b - a + 1 ELSE 0
           /\ \A k \in 1..Len(SubSeq(s, a, b)) :
                 SubSeq(s, a, b)[k] = s[a + k - 1] /\ a + k - 1 \in a..b
<1>1. Len(s) \in Nat
  BY LenProperties
<1>2. \A i \in a..b : i \in 1..Len(s)
  BY <1>1
<1>3. \A i \in a..b : s[i] \in DataBar
  BY <1>2, ElementOfSeq
<1>4. SubSeq(s, a, b) \in Seq(DataBar)
  BY <1>1, <1>3
<1>5. Len(SubSeq(s, a, b)) = IF a <= b THEN b - a + 1 ELSE 0
  BY <1>1
<1>6. ASSUME NEW k \in 1..Len(SubSeq(s, a, b))
      PROVE  SubSeq(s, a, b)[k] = s[a + k - 1] /\ a + k - 1 \in a..b
  BY <1>1, <1>5
<1> QED  BY <1>4, <1>5, <1>6

\* The rules see at least one bar.
LEMMA WindowSizeNat == WindowSize \in Nat \ {0}
<1>1. Lookback + W[240] \in Nat \ {0} /\ Rolling \in Nat /\ MinHistory \in Nat
  <2>1. W[240] \in Nat \ {0}
    BY DataConstants DEF Windows
  <2> QED  BY <2>1, DataConstants
<1> DEFINE x == Lookback + W[240]
<1> HIDE DEF x
<1>2. Larger(Rolling, Larger(MinHistory, x)) \in Nat \ {0}
  BY <1>1 DEF Larger, x
<1> QED  BY <1>2 DEF WindowSize, x

\* The rules see a window that ends with the bar they judge.
LEMMA WindowFacts ==
    ASSUME NEW s \in Seq(DataBar), NEW i \in 1..Len(s)
    PROVE  /\ WindowAt(s, i) \in Seq(DataBar) /\ WindowAt(s, i) # <<>>
           /\ Latest(WindowAt(s, i)) = s[i]
<1> DEFINE a == Larger(1, i + 1 - WindowSize)
           t == SubSeq(s, a, i)
<1>1. Len(s) \in Nat /\ i \in Nat /\ i <= Len(s) /\ i >= 1
  BY LenProperties
<1>2. WindowSize \in Nat \ {0}
  BY WindowSizeNat
<1>3. a \in Nat \ {0} /\ a <= i
  BY <1>1, <1>2 DEF Larger
<1> HIDE DEF a
<1>4. /\ t \in Seq(DataBar) /\ Len(t) = i - a + 1
      /\ \A k \in 1..Len(t) : t[k] = s[a + k - 1]
  <2>1. /\ t \in Seq(DataBar)
        /\ Len(t) = IF a <= i THEN i - a + 1 ELSE 0
        /\ \A k \in 1..Len(t) : t[k] = s[a + k - 1]
    BY <1>1, <1>3, Stretch
  <2> QED  BY <1>3, <2>1
<1>5. WindowAt(s, i) = t
  BY DEF WindowAt, a
<1> HIDE DEF t
<1>6. t # <<>>
  <2>1. Len(<<>>) = 0
    OBVIOUS
  <2> QED  BY <1>1, <1>3, <1>4, <2>1
<1>7. t[Len(t)] = s[i]
  <2>1. Len(t) \in 1..Len(t) /\ a + Len(t) - 1 = i
    BY <1>1, <1>3, <1>4
  <2>2. t[Len(t)] = s[a + Len(t) - 1]
    BY <1>4, <2>1
  <2> QED  BY <2>1, <2>2
<1> QED  BY <1>4, <1>5, <1>6, <1>7 DEF Latest

\* The events of a series: each has the time of a bar.
LEMMA EventFacts ==
    ASSUME NEW s \in Seq(DataBar), NEW m, NEW event \in EventsOf(s, m)
    PROVE  /\ \E i \in 1..Len(s) : event.at = s[i].at
           /\ event.horizon \in Nat
<1>1. DOMAIN s = 1..Len(s)
  BY LenProperties
<1>2. PICK i \in 1..Len(s) : event \in ToSet(CandidatesAt(s, i, m))
  BY <1>1 DEF EventsOf
<1>3. ToSet(<<>>) = {}
  BY DEF ToSet
<1>4. event \in ToSet(CandidatesOf(WindowAt(s, i), m))
  BY <1>2, <1>3 DEF CandidatesAt
<1>5. /\ WindowAt(s, i) \in Seq(DataBar) /\ WindowAt(s, i) # <<>>
      /\ Latest(WindowAt(s, i)) = s[i]
  BY WindowFacts
<1>6. event.at = Latest(WindowAt(s, i)).at /\ event.horizon \in Nat
  BY <1>4, <1>5, CandidateFacts
<1> QED  BY <1>5, <1>6

\* A series in the order of time.
Rising(s) == \A i, j \in 1..Len(s) : i < j => s[i].at < s[j].at

\* The bar of an event is found again by its time.
LEMMA IndexFacts ==
    ASSUME NEW s \in Seq(DataBar), Rising(s), NEW event, NEW i \in 1..Len(s),
           event.at = s[i].at
    PROVE  IndexOf(s, event) = i
<1>1. DOMAIN s = 1..Len(s) /\ Len(s) \in Nat
  BY LenProperties
<1>2. \A j \in 1..Len(s) : s[j].at \in Nat
  BY BarNumbers
<1>3. \A j \in DOMAIN s : s[j].at = event.at => j = i
  BY <1>1, <1>2 DEF Rising
<1>4. i \in DOMAIN s /\ s[i].at = event.at
  BY <1>1
<1>5. (CHOOSE j \in DOMAIN s : s[j].at = event.at) = i
  BY <1>3, <1>4
<1> QED  BY <1>5 DEF IndexOf

\* What the features of an event are computed from ends with its bar.
LEMMA HistoryTimes ==
    ASSUME NEW s \in Seq(DataBar), Rising(s), NEW i \in 1..Len(s)
    PROVE  /\ TimesOf(HistoryAt(s, i)) \in SUBSET Nat
           /\ IsFiniteSet(TimesOf(HistoryAt(s, i)))
           /\ \A t \in TimesOf(HistoryAt(s, i)) : t <= s[i].at
<1> DEFINE a == Larger(1, i + 1 - FeatureWindow)
           t == SubSeq(s, a, i)
           f == [k \in DOMAIN t |-> t[k].at]
<1>1. Len(s) \in Nat /\ i \in Nat /\ i <= Len(s) /\ i >= 1
  BY LenProperties
<1>2. a \in Nat \ {0}
  BY <1>1, DataConstants DEF Larger
<1> HIDE DEF a
<1>3. /\ t \in Seq(DataBar)
      /\ \A k \in 1..Len(t) : t[k] = s[a + k - 1] /\ a + k - 1 \in a..i
  BY <1>1, <1>2, Stretch
<1>4. HistoryAt(s, i) = t
  BY DEF HistoryAt, a
<1> HIDE DEF t
<1>5. DOMAIN t = 1..Len(t) /\ Len(t) \in Nat
  BY <1>3, LenProperties
<1>6. \A j \in 1..Len(s) : s[j].at \in Nat
  BY BarNumbers
<1>7. \A k \in DOMAIN t : t[k].at \in Nat /\ t[k].at <= s[i].at
  <2> TAKE k \in DOMAIN t
  <2>1. PICK j \in a..i : t[k] = s[j]
    BY <1>3, <1>5
  <2>2. j \in 1..Len(s) /\ j <= i
    BY <1>1, <1>2
  <2>3. j = i \/ s[j].at < s[i].at
    BY <2>2 DEF Rising
  <2> QED  BY <1>6, <2>1, <2>2, <2>3
<1>8. TimesOf(t) = {f[k] : k \in DOMAIN t}
  BY DEF TimesOf
<1>9. IsFiniteSet(DOMAIN t)
  BY <1>5, FS_Interval
<1>10. IsFiniteSet({f[k] : k \in DOMAIN t})
  <2> HIDE DEF f
  <2> QED  BY <1>9, FiniteImage
<1>11. \A x \in TimesOf(t) : x \in Nat /\ x <= s[i].at
  BY <1>7 DEF TimesOf
<1> QED  BY <1>4, <1>8, <1>10, <1>11

\* bisect_right on a series in order: the bars up to a time are its first ones.
LEMMA UpToFacts ==
    ASSUME NEW s \in Seq(DataBar), Rising(s), NEW t \in Int
    PROVE  /\ BarsUpTo(s, t) \in 0..Len(s)
           /\ \A i \in 1..Len(s) : i <= BarsUpTo(s, t) <=> s[i].at <= t
<1> DEFINE n == Len(s)
           S == {i \in DOMAIN s : s[i].at <= t}
<1>1. n \in Nat /\ DOMAIN s = 1..n
  BY LenProperties
<1>2. \A i \in 1..n : s[i].at \in Nat
  BY BarNumbers
<1>3. S \subseteq 1..n
  BY <1>1
<1>4. \A i \in 1..n : i \in S <=> s[i].at <= t
  BY <1>1
<1>5. BarsUpTo(s, t) = Cardinality(S)
  BY DEF BarsUpTo
<1>6. \A i, j \in 1..n : i <= j /\ j \in S => i \in S
  <2> TAKE i, j \in 1..n
  <2>1. i = j \/ ~ i <= j \/ s[i].at < s[j].at
    BY <1>1 DEF Rising
  <2>2. i \in Nat /\ j \in Nat /\ s[i].at \in Nat /\ s[j].at \in Nat
    BY <1>1, <1>2
  <2> HIDE DEF S
  <2> QED  BY <1>4, <2>1, <2>2
<1> HIDE DEF S, n
<1>7. /\ Cardinality(S) \in 0..n
      /\ \A i \in 1..n : i \in S <=> i <= Cardinality(S)
  BY <1>1, <1>3, <1>6, InitialPart
<1> QED  BY <1>4, <1>5, <1>7 DEF n

\* The future of an event begins after it and ends with its vertical barrier.
LEMMA FutureFacts ==
    ASSUME NEW s \in Seq(DataBar), Rising(s), NEW event,
           event.at \in Nat, event.horizon \in Nat
    PROVE  /\ FutureOf(s, event) \in Seq(DataBar)
           /\ \A k \in 1..Len(FutureOf(s, event)) :
                 LET f == FutureOf(s, event) IN
                 /\ event.at < f[k].at /\ f[k].at <= event.at + event.horizon
                 /\ f[1].at <= f[k].at
<1> DEFINE a == BarsUpTo(s, event.at)
           e == event.at + event.horizon
           b == BarsUpTo(s, e)
           f == SubSeq(s, a + 1, b)
<1>1. Len(s) \in Nat /\ e \in Int /\ event.at \in Int
  BY LenProperties
<1>2. /\ a \in 0..Len(s) /\ \A i \in 1..Len(s) : i <= a <=> s[i].at <= event.at
  BY <1>1, UpToFacts
<1>3. /\ b \in 0..Len(s) /\ \A i \in 1..Len(s) : i <= b <=> s[i].at <= e
  <2> HIDE DEF e
  <2> QED  BY <1>1, UpToFacts
<1>4. FutureOf(s, event) = f
  BY DEF FutureOf
<1> HIDE DEF a, b
<1>5. a + 1 \in Nat \ {0} /\ b \in Nat /\ b <= Len(s)
  BY <1>1, <1>2, <1>3
<1>6. /\ f \in Seq(DataBar)
      /\ \A k \in 1..Len(f) : f[k] = s[a + 1 + k - 1] /\ a + 1 + k - 1 \in (a + 1)..b
  <2> DEFINE c == a + 1
  <2> HIDE DEF c
  <2>1. /\ SubSeq(s, c, b) \in Seq(DataBar)
        /\ \A k \in 1..Len(SubSeq(s, c, b)) :
              SubSeq(s, c, b)[k] = s[c + k - 1] /\ c + k - 1 \in c..b
    BY <1>5, Stretch DEF c
  <2> QED  BY <2>1 DEF c
<1> HIDE DEF f
<1>7. Len(f) \in Nat
  BY <1>6, LenProperties
<1>8. ASSUME NEW k \in 1..Len(f)
      PROVE  /\ f[k] = s[a + k] /\ a + k \in 1..Len(s)
             /\ a + k > a /\ a + k <= b
  <2>1. a + 1 + k - 1 = a + k
    BY <1>2, <1>7
  <2> QED  BY <1>2, <1>3, <1>6, <1>7, <2>1
<1>9. \A i \in 1..Len(s) : s[i].at \in Nat
  BY BarNumbers
<1>10. ASSUME NEW k \in 1..Len(f)
       PROVE  event.at < f[k].at /\ f[k].at <= e /\ f[1].at <= f[k].at
  <2>1. 1 \in 1..Len(f)
    BY <1>7
  <2> DEFINE i == a + 1
             j == a + k
  <2>2. /\ f[1] = s[i] /\ i \in 1..Len(s) /\ f[k] = s[j] /\ j \in 1..Len(s)
        /\ ~ j <= a /\ j <= b /\ i <= j
    <3>1. k >= 1 /\ k \in Nat /\ a \in Nat
      BY <1>2, <1>7
    <3> QED  BY <1>2, <1>3, <1>8, <2>1, <3>1
  <2> HIDE DEF i, j
  <2>3. i = j \/ s[i].at < s[j].at
    BY <1>1, <2>2 DEF Rising
  <2> HIDE DEF e
  <2> QED  BY <1>1, <1>2, <1>3, <1>9, <2>2, <2>3
<1> QED  BY <1>4, <1>6, <1>10

\* The outcome a label tells of is at one of the bars it was given.
LEMMA OutcomeFacts ==
    ASSUME NEW target, NEW stop, NEW cost, NEW side, NEW entry, NEW from,
           NEW path, NEW n \in Nat \ {0},
           DOMAIN path = 1..n, Len(path) = n
    PROVE  \E k \in 1..n :
              Labels(target, stop, cost)!Label(side, entry, from, path).at = path[k].at
<1> DEFINE start == from + MinHolding
           Hits(i) == Labels(target, stop, cost)!FirstHit(side, entry, path, start, i)
           i0 == CHOOSE i \in DOMAIN path : Hits(i)
           exit == Labels(target, stop, cost)!FirstExit(side, entry, path, start)
<1>1. Labels(target, stop, cost)!Label(side, entry, from, path) = exit
  BY Zenon DEF Labels!Label
<1>2. CASE \E i \in DOMAIN path : Hits(i)
  <2>1. i0 \in DOMAIN path
    BY <1>2, Zenon
  <2>2. exit.at = path[i0].at
    BY <1>2 DEF Labels!FirstExit
  <2> HIDE DEF i0
  <2> QED  BY <1>1, <2>1, <2>2
<1>3. CASE ~ \E i \in DOMAIN path : Hits(i)
  <2>1. exit.at = path[n].at
    BY <1>3 DEF Labels!FirstExit
  <2> QED  BY <1>1, <2>1
<1> QED  BY <1>2, <1>3

\* As of a time, there is nothing later.
LEMMA NewestFacts ==
    ASSUME NEW S \in SUBSET Int, IsFiniteSet(S), NEW t
    PROVE  \A x \in Newest(S, t) : x \in S /\ x <= t
<1> DEFINE U == UpTo(S, t)
<1>1. U \in SUBSET Int /\ IsFiniteSet(U)
  BY FS_Subset DEF UpTo
<1>2. U # {} => Max(U) \in U
  <2> HIDE DEF U
  <2> QED  BY <1>1, FiniteGreatest
<1>3. \A x \in Newest(S, t) : x \in U
  BY <1>2 DEF Newest
<1> QED  BY <1>3 DEF UpTo

\* Quotes are read as of the moment asked about (_add_market_quote_features).
LEMMA QuoteFacts ==
    ASSUME NEW S \in SUBSET Nat, IsFiniteSet(S), NEW t \in Int
    PROVE  \A x \in QuoteReads(S, t) : x <= t
<1>1. QuoteLookbacks \subseteq Nat /\ S \in SUBSET Int
  BY DatasetAssumption DEF DatasetAssumption
<1>2. \A u : \A x \in Newest(S, u) : x \in Nat /\ x <= u
  BY <1>1, NewestFacts
<1>3. \A l \in QuoteLookbacks : t - l \in Int /\ t - l <= t
  BY <1>1
<1>4. \A l \in QuoteLookbacks : \A x \in Newest(S, t - l) : x <= t
  <2> TAKE l \in QuoteLookbacks
  <2>1. PICK u \in Int : u = t - l /\ u <= t
    BY <1>3
  <2>2. \A x \in Newest(S, u) : x \in Nat /\ x <= u
    BY <1>2
  <2> QED  BY <2>1, <2>2
<1> QED  BY <1>2, <1>4 DEF QuoteReads

\* Context is read as of the signal (_add_cross_asset_features).
LEMMA ContextFacts ==
    ASSUME NEW S, NEW t
    PROVE  \A x \in ContextReads(S, t) : x \in S /\ x <= t
<1>1. /\ \A n : \A x \in NewestWith(S, t, n) : x \in UpTo(S, t)
      /\ \A l : \A x \in Since(S, t, l) : x \in UpTo(S, t)
  BY DEF NewestWith, Since
<1>2. ASSUME NEW x \in ContextReads(S, t) PROVE x \in UpTo(S, t)
  <2> DEFINE A == {NewestWith(S, t, n) : n \in ContextPeriods}
             B == {Since(S, t, l) : l \in ContextLookbacks}
  <2>1. x \in UNION A \/ x \in UNION B
    BY DEF ContextReads
  <2>2. x \in UNION A => \E n \in ContextPeriods : x \in NewestWith(S, t, n)
    OBVIOUS
  <2>3. x \in UNION B => \E l \in ContextLookbacks : x \in Since(S, t, l)
    OBVIOUS
  <2> QED  BY <1>1, <2>1, <2>2, <2>3
<1> QED  BY <1>2 DEF UpTo

\* The other leg of a basis is read as of the context value it is set against.
LEMMA BasisFacts ==
    ASSUME NEW S \in SUBSET Nat, NEW other \in SUBSET Nat, IsFiniteSet(other), NEW t \in Int
    PROVE  \A x \in BasisReads(S, other, t) : x \in other /\ x <= t
<1>1. ContextLookbacks \subseteq Nat /\ other \in SUBSET Int
  BY DatasetAssumption DEF DatasetAssumption
<1>2. \A u : \A x \in Newest(other, u) : x \in other /\ x \in Nat /\ x <= u
  BY <1>1, NewestFacts
<1>3. \A l \in ContextLookbacks : \A x \in Newest(other, t - l) : x \in other /\ x <= t
  <2> TAKE l \in ContextLookbacks
  <2>1. PICK u \in Int : u = t - l /\ u <= t
    BY <1>1
  <2>2. \A x \in Newest(other, u) : x \in other /\ x \in Nat /\ x <= u
    BY <1>2
  <2> QED  BY <2>1, <2>2
<1>4. \A s \in ContextReads(S, t) : s \in Nat /\ s <= t
  BY ContextFacts
<1>5. \A s \in ContextReads(S, t) : \A x \in Newest(other, s) : x \in other /\ x <= t
  <2> TAKE s \in ContextReads(S, t)
  <2>1. s \in Nat /\ s <= t
    BY <1>4
  <2>2. \A x \in Newest(other, s) : x \in other /\ x \in Nat /\ x <= s
    BY <1>2
  <2> QED  BY <2>1, <2>2
<1>6. ASSUME NEW x \in BasisReads(S, other, t) PROVE x \in other /\ x <= t
  <2> DEFINE A == {Newest(other, s) : s \in ContextReads(S, t)}
             B == {Newest(other, t - l) : l \in ContextLookbacks}
  <2>1. x \in UNION A \/ x \in UNION B
    BY DEF BasisReads
  <2>2. x \in UNION A => \E s \in ContextReads(S, t) : x \in Newest(other, s)
    OBVIOUS
  <2>3. x \in UNION B => \E l \in ContextLookbacks : x \in Newest(other, t - l)
    OBVIOUS
  <2> QED  BY <1>3, <1>5, <2>1, <2>2, <2>3
<1> QED  BY <1>6

\* Snapshots of prediction markets are read as of the moment asked about, and
\* their changes before that (_add_prediction_market_change_features).
LEMMA MarketFacts ==
    ASSUME NEW S \in SUBSET [at : Nat, from : Nat], NEW t \in Int
    PROVE  \A m \in MarketReads(S, t) : m.at <= t
<1>1. \A u, age : \A s \in Active(S, u, age) : s \in S /\ s.at <= u
  BY DEF Active
<1>2. \A s \in S : s.at \in Nat
  OBVIOUS
<1>3. \A s \in Active(S, t, MarketAge) : s.at \in Nat /\ s.at <= t
  BY <1>1, <1>2
<1>4. \A s \in Active(S, t, MarketAge) : \A m \in ChangeReads(S, s) : m.at <= t
  <2> TAKE s \in Active(S, t, MarketAge)
  <2> TAKE m \in ChangeReads(S, s)
  <2>1. PICK u \in Int : u = s.at - 1 /\ u <= t
    BY <1>3
  <2>2. m \in Active(S, u, 3 * MarketAge)
    BY <2>1 DEF ChangeReads
  <2>3. m \in S /\ m.at <= u
    BY <1>1, <2>2
  <2> QED  BY <1>2, <2>1, <2>3
<1> QED  BY <1>3, <1>4 DEF MarketReads

\* The bars read for a prediction market are bars of the history.
LEMMA MarketBarFacts ==
    ASSUME NEW S, NEW closes \in SUBSET Nat, IsFiniteSet(closes), NEW t
    PROVE  \A x \in MarketBarReads(S, closes, t) : x \in closes
<1>1. closes \in SUBSET Int
  OBVIOUS
<1>2. \A u : \A x \in Newest(closes, u) : x \in closes
  BY <1>1, NewestFacts
<1> QED  BY <1>2 DEF MarketBarReads

-----------------------------------------------------------------------------
(* The datasets: nothing from the future *)

\* What has been observed so far is finite, and its times are numbers.
Observations(known) ==
    /\ \A f \in Families \ {"markets"} : known[f] \in SUBSET Nat /\ IsFiniteSet(known[f])
    /\ known["markets"] \in SUBSET [at : Nat, from : Nat]

\* NoLookahead, of one sample.
KnowsNothingLater(s) ==
    /\ \A t \in s.reads.bars \cup s.reads.context \cup s.reads.basis : t <= s.event.at
    /\ \A t \in s.reads.quotes : t <= s.at - ExternalLatency
    /\ \A m \in s.reads.markets : m.at <= s.at - ExternalLatency
    /\ s.event.at <= s.at /\ s.at < s.t1 /\ s.t1 <= s.event.at + s.event.horizon

\* What an event reads lies before it, or before the moment its outside
\* observations are asked about.
LEMMA ReadsFacts ==
    ASSUME NEW known, Observations(known), NEW s \in Seq(DataBar), Rising(s),
           NEW i \in 1..Len(s), NEW event, event.at = s[i].at, NEW external \in Int
    PROVE  LET reads == Reads(event, external, HistoryAt(s, i), known) IN
           /\ \A t \in reads.bars \cup reads.context \cup reads.basis : t <= event.at
           /\ \A t \in reads.quotes : t <= external
           /\ \A m \in reads.markets : m.at <= external
<1> DEFINE reads == Reads(event, external, HistoryAt(s, i), known)
           closes == TimesOf(HistoryAt(s, i))
           spot == known["spot_context"]
           future == known["futures_context"]
           e == event.at
<1>1. closes \in SUBSET Nat /\ IsFiniteSet(closes) /\ \A t \in closes : t <= e
  BY HistoryTimes
<1>2. /\ spot \in SUBSET Nat /\ IsFiniteSet(spot)
      /\ future \in SUBSET Nat
      /\ known["quotes"] \in SUBSET Nat /\ IsFiniteSet(known["quotes"])
      /\ known["futures"] \in SUBSET Nat /\ IsFiniteSet(known["futures"])
      /\ known["markets"] \in SUBSET [at : Nat, from : Nat]
  BY DEF Observations, Families
<1>3. e \in Int
  BY BarNumbers
<1>4. /\ reads.bars = closes
      /\ reads.quotes = QuoteReads(known["quotes"], external)
                            \cup QuoteReads(known["futures"], external)
      /\ reads.context = ContextReads(spot, e) \cup ContextReads(future, e)
                            \cup BasisReads(future, spot, e)
      /\ reads.basis = BasisReads(spot, closes, e) \cup BasisReads(future, closes, e)
                            \cup MarketBarReads(known["markets"], closes, external)
      /\ reads.markets = MarketReads(known["markets"], external)
  BY DEF Reads
<1> HIDE DEF reads, closes, spot, future, e
<1>5. \A t \in ContextReads(spot, e) \cup ContextReads(future, e) : t <= e
  BY ContextFacts
<1>6. \A t \in BasisReads(future, spot, e) : t <= e
  BY <1>2, <1>3, BasisFacts
<1>7. \A t \in BasisReads(spot, closes, e) \cup BasisReads(future, closes, e) : t <= e
  BY <1>1, <1>2, <1>3, BasisFacts
<1>8. \A t \in MarketBarReads(known["markets"], closes, external) : t <= e
  BY <1>1, MarketBarFacts
<1>9. \A t \in reads.bars \cup reads.context \cup reads.basis : t <= e
  BY <1>1, <1>4, <1>5, <1>6, <1>7, <1>8
<1>10. \A t \in reads.quotes : t <= external
  BY <1>2, <1>4, QuoteFacts
<1>11. \A m \in reads.markets : m.at <= external
  BY <1>2, <1>4, MarketFacts
<1> QED  BY <1>9, <1>10, <1>11 DEF e, reads

\* A sample of an event (build_meta_label_samples) knows nothing later.
LEMMA SampleFacts ==
    ASSUME NEW known, Observations(known), NEW s \in Seq(DataBar), Rising(s),
           NEW event, NEW i \in 1..Len(s), event.at = s[i].at, event.horizon \in Nat,
           FutureOf(s, event) # <<>>
    PROVE  KnowsNothingLater(Labelled(s, i, event, known))
<1> DEFINE x == Labelled(s, i, event, known)
           history == HistoryAt(s, i)
           future == FutureOf(s, event)
           path == [k \in DOMAIN future |-> AsPath(future[k])]
           entry == future[1].open
           entryAt == Larger(BarStart(future[1]), event.at)
           target == InTicks(entry, Geometry(event, history).target)
           stop == InTicks(entry, Geometry(event, history).stop)
           cost == InTicks(entry, RoundTripCost)
           outcome == Labels(target, stop, cost)!Label(event.side, entry, entryAt, path)
           moment == IF asof = "entry" THEN entryAt ELSE event.at
           reads == Reads(event, moment - ExternalLatency, history, known)
           n == Len(future)
           end == event.at + event.horizon
<1>1. x.event = event /\ x.at = moment /\ x.t1 = outcome.at /\ x.reads = reads
  BY DEF Labelled
<1>2. event.at \in Nat
  BY BarNumbers
<1>3. /\ future \in Seq(DataBar)
      /\ \A k \in 1..n : /\ event.at < future[k].at /\ future[k].at <= end
                         /\ future[1].at <= future[k].at
  BY <1>2, FutureFacts
<1> HIDE DEF future
<1>4. n \in Nat \ {0} /\ DOMAIN future = 1..n
  <2>1. n \in Nat /\ DOMAIN future = 1..n
    BY <1>3, LenProperties
  <2>2. n # 0
    BY <1>3, EmptySeq DEF future
  <2> QED  BY <2>1, <2>2
<1>5. \A k \in 1..n : future[k].at \in Nat
  BY <1>3, BarNumbers
<1>6. DOMAIN path = 1..n /\ Len(path) = n /\ \A k \in 1..n : path[k].at = future[k].at
  BY <1>4 DEF AsPath
<1> HIDE DEF path, n
<1>7. PICK k \in 1..n : outcome.at = path[k].at
  <2> HIDE DEF target, stop, cost, entry, entryAt
  <2> QED  BY <1>4, <1>6, OutcomeFacts
<1> HIDE DEF outcome
<1>8. outcome.at = future[k].at
  BY <1>6, <1>7
<1>9. BarStart(future[1]) \in Int /\ BarStart(future[1]) < future[1].at
  <2>1. future[1].at \in Nat
    BY <1>4, <1>5
  <2> QED  BY <2>1, DataConstants DEF BarStart
<1>10. /\ moment \in Int /\ event.at <= moment /\ moment < outcome.at
       /\ outcome.at <= end
  <2>1. /\ event.at < future[k].at /\ future[k].at <= end /\ future[1].at <= future[k].at
        /\ future[k].at \in Nat /\ future[1].at \in Nat
    BY <1>3, <1>4, <1>5
  <2> HIDE DEF end
  <2>2. entryAt \in Int /\ event.at <= entryAt /\ entryAt < future[k].at
    BY <1>2, <1>9, <2>1 DEF Larger
  <2> HIDE DEF entryAt
  <2> QED  BY <1>2, <1>8, <2>1, <2>2
<1> HIDE DEF moment
<1>11. moment - ExternalLatency \in Int
  BY <1>10, DataConstants
<1>12. /\ \A t \in reads.bars \cup reads.context \cup reads.basis : t <= event.at
       /\ \A t \in reads.quotes : t <= moment - ExternalLatency
       /\ \A m \in reads.markets : m.at <= moment - ExternalLatency
  <2> DEFINE external == moment - ExternalLatency
  <2> HIDE DEF external
  <2>1. LET r == Reads(event, external, HistoryAt(s, i), known) IN
        /\ \A t \in r.bars \cup r.context \cup r.basis : t <= event.at
        /\ \A t \in r.quotes : t <= external
        /\ \A m \in r.markets : m.at <= external
    BY <1>11, ReadsFacts DEF external
  <2> QED  BY <2>1 DEF external
<1> HIDE DEF x, reads
<1> QED  BY <1>1, <1>10, <1>12 DEF KnowsNothingLater, x

\* So does every sample of a dataset.
LEMMA DatasetFacts ==
    ASSUME NEW known, Observations(known), NEW s \in Seq(DataBar), Rising(s),
           NEW x \in MetaLabelSamples(s, known)
    PROVE  KnowsNothingLater(x)
<1>1. PICK event \in EventsOf(s, mode) :
         /\ FutureOf(s, event) # <<>>
         /\ x = Labelled(s, IndexOf(s, event), event, known)
  BY DEF MetaLabelSamples
<1>2. /\ \E i \in 1..Len(s) : event.at = s[i].at
      /\ event.horizon \in Nat
  BY EventFacts
<1>3. PICK i \in 1..Len(s) : event.at = s[i].at
  BY <1>2
<1>4. IndexOf(s, event) = i
  BY <1>3, IndexFacts
<1>5. KnowsNothingLater(Labelled(s, i, event, known))
  BY <1>1, <1>2, <1>3, SampleFacts
<1> QED  BY <1>1, <1>4, <1>5

\* The bars of a study are in order, its observations of the past, and its
\* samples know nothing later.
DataInv ==
    /\ mode \in CandidateModes
    /\ bars \in Seq(DataBar) /\ Len(bars) <= MaxBars /\ Rising(bars)
    /\ Observations(feeds) /\ DOMAIN feeds = Families
    /\ \A s \in trained : KnowsNothingLater(s)

\* The time of the newest bar is a number, no earlier than that of any other.
LEMMA NowFacts ==
    ASSUME bars \in Seq(DataBar), Rising(bars)
    PROVE  /\ Now \in Nat /\ Len(bars) \in Nat
           /\ \A i \in 1..Len(bars) : bars[i].at \in Nat /\ bars[i].at <= Now
<1> DEFINE n == Len(bars)
<1>1. n \in Nat /\ \A i \in 1..n : bars[i].at \in Nat
  BY BarNumbers
<1>2. bars = <<>> <=> n = 0
  BY EmptySeq
<1> HIDE DEF n
<1>3. CASE bars = <<>>
  BY <1>1, <1>2, <1>3 DEF Now, n
<1>4. CASE bars # <<>>
  <2>1. n \in 1..n /\ Now = bars[n].at
    BY <1>1, <1>2, <1>4 DEF Now, n
  <2>2. \A i \in 1..n : i = n \/ bars[i].at < bars[n].at
    BY <1>1, <2>1 DEF Rising, n
  <2> QED  BY <1>1, <2>1, <2>2 DEF n
<1> QED  BY <1>3, <1>4

\* A new bar comes after the others, with prices above zero (Arrive).
LEMMA ArriveStep ==
    ASSUME DataInv,
           NEW shape \in Shapes[mode][Len(bars) + 1], NEW gap \in Gaps[mode],
           Arrive(shape, gap)
    PROVE  DataInv'
<1> DEFINE n == Len(bars)
           last == IF bars = <<>> THEN 10000 ELSE bars[n].close
           b == [at |-> Now + gap + Interval, open |-> last + shape.open,
                 high |-> last + shape.high, low |-> last + shape.low,
                 close |-> last + shape.close, volume |-> shape.volume]
<1>1. bars \in Seq(DataBar) /\ Rising(bars) /\ mode \in CandidateModes
  BY DEF DataInv
<1>2. /\ Now \in Nat /\ n \in Nat
      /\ \A i \in 1..n : bars[i].at \in Nat /\ bars[i].at <= Now
  BY <1>1, NowFacts
<1>3. /\ n < MaxBars /\ bars' = Append(bars, b)
      /\ \A p \in {shape.open, shape.high, shape.low, shape.close} : last + p > 0
      /\ UNCHANGED <<mode, asof, feeds, trained, served>>
  BY DEF Arrive
<1>4. MaxBars \in Nat /\ Interval \in Nat \ {0}
  BY DataConstants
<1>5. gap \in Nat /\ shape \in [open : Int, high : Int, low : Int, close : Int, volume : Nat]
  <2>1. n + 1 \in 1..(MaxBars + 1)
    BY <1>2, <1>3, <1>4
  <2> HIDE DEF n
  <2>2. /\ Gaps[mode] \subseteq Nat
        /\ Shapes[mode][n + 1] \subseteq
              [open : Int, high : Int, low : Int, close : Int, volume : Nat]
    BY <1>1, <2>1, DatasetAssumption DEF DatasetAssumption
  <2> QED  BY <2>2 DEF n
<1>6. last \in Int
  <2>1. bars # <<>> => n \in 1..n
    BY <1>1, <1>2, EmptySeq
  <2>2. \A i \in 1..n : bars[i] \in DataBar
    BY <1>1, BarNumbers
  <2>3. \A i \in 1..n : bars[i].close \in Nat
    BY <2>2 DEF DataBar
  <2> HIDE DEF n
  <2> QED  BY <2>1, <2>3
<1>7. b \in DataBar /\ b.at > Now
  <2> HIDE DEF last
  <2>1. /\ last + shape.open \in Nat \ {0} /\ last + shape.high \in Nat \ {0}
        /\ last + shape.low \in Nat \ {0} /\ last + shape.close \in Nat \ {0}
    BY <1>3, <1>5, <1>6
  <2>2. Now + gap + Interval \in Nat /\ Now + gap + Interval > Now
    BY <1>2, <1>4, <1>5
  <2> QED  BY <1>5, <2>1, <2>2 DEF DataBar
<1> HIDE DEF b
<1>8. /\ bars' \in Seq(DataBar) /\ Len(bars') = n + 1
      /\ \A i \in 1..(n + 1) : bars'[i] = IF i = n + 1 THEN b ELSE bars[i]
  <2> HIDE DEF n
  <2>1. Append(bars, b) \in Seq(DataBar) /\ Len(Append(bars, b)) = Len(bars) + 1
    BY <1>1, <1>7
  <2>2. \A i \in 1..(Len(bars) + 1) :
           Append(bars, b)[i] = IF i = Len(bars) + 1 THEN b ELSE bars[i]
    BY <1>1, <1>2, <1>7 DEF n
  <2> QED  BY <1>3, <2>1, <2>2 DEF n
<1> HIDE DEF n
<1>9. Rising(bars')
  <2> SUFFICES ASSUME NEW i \in 1..(n + 1), NEW j \in 1..(n + 1), i < j
               PROVE  bars'[i].at < bars'[j].at
    BY <1>8 DEF Rising
  <2>1. i \in 1..n /\ bars'[i] = bars[i]
    BY <1>2, <1>8
  <2>2. CASE j = n + 1
    <3>1. bars'[j] = b
      BY <1>8, <2>2
    <3>2. b.at \in Nat
      BY <1>7 DEF DataBar
    <3> QED  BY <1>2, <1>7, <2>1, <3>1, <3>2
  <2>3. CASE j # n + 1
    <3>1. j \in 1..n /\ bars'[j] = bars[j]
      BY <1>2, <1>8, <2>3
    <3> QED  BY <1>1, <2>1, <3>1 DEF Rising, n
  <2> QED  BY <2>2, <2>3
<1>10. Len(bars') <= MaxBars
  BY <1>2, <1>3, <1>4, <1>8
<1> QED  BY <1>3, <1>8, <1>9, <1>10 DEF DataInv, Observations, KnowsNothingLater

\* An observation joins the finitely many there are (Observe).
LEMMA ObserveStep ==
    ASSUME DataInv, NEW f \in Families, NEW offset \in {0, Interval \div 2},
           Observe(f, offset)
    PROVE  DataInv'
<1>1. Now \in Nat
  BY NowFacts DEF DataInv
<1>2. Now + offset \in Nat
  <2>1. Interval \div 2 \in Nat
    BY DataConstants
  <2>2. offset \in Nat
    BY <2>1
  <2> QED  BY <1>1, <2>2
<1>3. /\ DOMAIN feeds = Families
      /\ \A g \in Families \ {"markets"} : feeds[g] \in SUBSET Nat /\ IsFiniteSet(feeds[g])
      /\ feeds["markets"] \in SUBSET [at : Nat, from : Nat]
  BY DEF DataInv, Observations
<1>4. Observations(feeds') /\ DOMAIN feeds' = Families
  <2>1. CASE f = "markets"
    <3>1. PICK k \in 0..MaxBars :
             feeds' = [feeds EXCEPT ![f] =
                          @ \cup {[at |-> Now + offset, from |-> k * MarketLength]}]
      BY <2>1 DEF Observe
    <3>2. k * MarketLength \in Nat
      BY DataConstants
    <3>3. [at |-> Now + offset, from |-> k * MarketLength] \in [at : Nat, from : Nat]
      BY <1>2, <3>2
    <3>4. feeds'["markets"] \in SUBSET [at : Nat, from : Nat]
      BY <1>3, <2>1, <3>1, <3>3 DEF Families
    <3>5. \A g \in Families \ {"markets"} : feeds'[g] = feeds[g]
      BY <1>3, <2>1, <3>1
    <3> QED  BY <1>3, <3>1, <3>4, <3>5 DEF Observations
  <2>2. CASE f # "markets"
    <3>1. feeds' = [feeds EXCEPT ![f] = @ \cup {Now + offset}]
      BY <2>2 DEF Observe
    <3>2. feeds'[f] = feeds[f] \cup {Now + offset}
      BY <1>3, <3>1
    <3>3. feeds'[f] \in SUBSET Nat /\ IsFiniteSet(feeds'[f])
      <4>1. feeds[f] \in SUBSET Nat /\ IsFiniteSet(feeds[f])
        BY <1>3, <2>2
      <4>2. IsFiniteSet(feeds[f] \cup {Now + offset})
        BY <4>1, FS_AddElement
      <4> QED  BY <1>2, <3>2, <4>1, <4>2
    <3>4. \A g \in Families : g # f => feeds'[g] = feeds[g]
      BY <1>3, <3>1
    <3>5. feeds'["markets"] = feeds["markets"]
      BY <2>2, <3>4 DEF Families
    <3>6. \A g \in Families \ {"markets"} :
             feeds'[g] \in SUBSET Nat /\ IsFiniteSet(feeds'[g])
      BY <1>3, <3>3, <3>4
    <3> QED  BY <1>3, <3>1, <3>5, <3>6 DEF Observations
  <2> QED  BY <2>1, <2>2
<1>5. UNCHANGED <<mode, asof, bars, trained, served>>
  BY DEF Observe
<1> QED  BY <1>4, <1>5 DEF DataInv, KnowsNothingLater

\* The steps of a study keep what is true of it.
LEMMA DataStep == DataInv /\ [DataNext]_dataVars => DataInv'
<1> SUFFICES ASSUME DataInv, [DataNext]_dataVars PROVE DataInv'
  OBVIOUS
<1>1. ASSUME NEW shape \in Shapes[mode][Len(bars) + 1], NEW gap \in Gaps[mode],
             Arrive(shape, gap)
      PROVE  DataInv'
  BY <1>1, ArriveStep
<1>2. ASSUME NEW f \in Families, NEW offset \in {0, Interval \div 2}, Observe(f, offset)
      PROVE  DataInv'
  BY <1>2, ObserveStep
<1>3. CASE BuildMetaLabelSamples
  <2>1. /\ trained' = MetaLabelSamples(bars, feeds)
        /\ UNCHANGED <<mode, asof, bars, feeds, served>>
    BY <1>3 DEF BuildMetaLabelSamples
  <2>2. \A x \in MetaLabelSamples(bars, feeds) : KnowsNothingLater(x)
    BY DatasetFacts DEF DataInv
  <2> QED  BY <2>1, <2>2 DEF DataInv, KnowsNothingLater
<1>4. CASE BuildScoringSamples
  BY <1>4 DEF BuildScoringSamples, DataInv, KnowsNothingLater
<1>5. CASE UNCHANGED dataVars
  BY <1>5 DEF dataVars, DataInv, KnowsNothingLater
<1> QED  BY <1>1, <1>2, <1>3, <1>4, <1>5 DEF DataNext

\* The invariant of the studies.
LEMMA DataInvariant == DataSpec => []DataInv
<1>1. DataInit => DataInv
  <2> SUFFICES ASSUME DataInit PROVE DataInv
    OBVIOUS
  <2>1. bars = <<>> /\ mode \in CandidateModes /\ trained = {}
        /\ feeds = [f \in Families |-> {}]
    BY DEF DataInit
  <2>2. bars \in Seq(DataBar) /\ Len(bars) = 0 /\ Rising(bars)
    BY <2>1 DEF Rising
  <2>3. IsFiniteSet({})
    BY FS_EmptySet
  <2>4. Observations(feeds) /\ DOMAIN feeds = Families
    BY <2>1, <2>3 DEF Observations, Families
  <2> QED  BY <2>1, <2>2, <2>4, DataConstants DEF DataInv
<1>2. DataInv /\ [DataNext]_dataVars => DataInv'
  BY DataStep
<1> QED  BY <1>1, <1>2, PTL DEF DataSpec

\* NoLookahead, of every series of bars and every observation of it
\* (build_meta_label_samples): features lie before the event, and outcomes after
\* the moment the sample stands for.
THEOREM NothingAhead == DataSpec => []NoLookahead
<1>1. DataInv => NoLookahead
  BY DEF DataInv, NoLookahead, KnowsNothingLater
<1> QED  BY <1>1, DataInvariant, PTL

-----------------------------------------------------------------------------
(* The datasets: what was said of an event is said again *)

\* The second series goes on where the first ends.
GoesOn(p, s) == Len(p) <= Len(s) /\ \A i \in 1..Len(p) : p[i] = s[i]

\* A stretch of the first is a stretch of the second.
LEMMA SameStretch ==
    ASSUME NEW p \in Seq(DataBar), NEW s \in Seq(DataBar), GoesOn(p, s),
           NEW a \in Nat \ {0}, NEW b \in Nat, b <= Len(p)
    PROVE  SubSeq(p, a, b) = SubSeq(s, a, b)
<1> DEFINE x == SubSeq(p, a, b)
           y == SubSeq(s, a, b)
<1>1. Len(p) \in Nat /\ Len(s) \in Nat
  BY LenProperties
<1>2. /\ x \in Seq(DataBar) /\ Len(x) = IF a <= b THEN b - a + 1 ELSE 0
      /\ \A k \in 1..Len(x) : x[k] = p[a + k - 1] /\ a + k - 1 \in a..b
  BY Stretch
<1>3. /\ y \in Seq(DataBar) /\ Len(y) = IF a <= b THEN b - a + 1 ELSE 0
      /\ \A k \in 1..Len(y) : y[k] = s[a + k - 1]
  <2>1. b <= Len(s)
    BY <1>1 DEF GoesOn
  <2> QED  BY <2>1, Stretch
<1> HIDE DEF x, y
<1>4. \A j \in a..b : p[j] = s[j]
  BY <1>1 DEF GoesOn
<1>5. Len(x) = Len(y) /\ \A k \in 1..Len(x) : x[k] = y[k]
  BY <1>2, <1>3, <1>4
<1> QED  BY <1>2, <1>3, <1>5, SeqEqual DEF x, y

\* So are the bars the rules see (candidates_for_index), and those that
\* features are computed from.
LEMMA SameWindow ==
    ASSUME NEW p \in Seq(DataBar), NEW s \in Seq(DataBar), GoesOn(p, s),
           NEW i \in 1..Len(p)
    PROVE  /\ WindowAt(p, i) = WindowAt(s, i)
           /\ HistoryAt(p, i) = HistoryAt(s, i)
<1>1. Len(p) \in Nat /\ i \in Nat /\ i <= Len(p)
  BY LenProperties
<1>2. ASSUME NEW n \in Int
      PROVE  SubSeq(p, Larger(1, n), i) = SubSeq(s, Larger(1, n), i)
  <2>1. Larger(1, n) \in Nat \ {0}
    BY DEF Larger
  <2> QED  BY <1>1, <2>1, SameStretch
<1>3. WindowSize \in Int /\ FeatureWindow \in Int
  <2>1. WindowSize \in Nat
    BY WindowSizeNat
  <2> QED  BY <2>1, DataConstants
<1>4. i + 1 - WindowSize \in Int /\ i + 1 - FeatureWindow \in Int
  BY <1>1, <1>3
<1> QED  BY <1>2, <1>4 DEF WindowAt, HistoryAt

\* An event is what the rules said of the window of its bar.
LEMMA EventAt ==
    ASSUME NEW s \in Seq(DataBar), NEW m, NEW event \in EventsOf(s, m)
    PROVE  \E i \in 1..Len(s) : /\ event.at = s[i].at
                                /\ event \in ToSet(CandidatesOf(WindowAt(s, i), m))
<1>1. DOMAIN s = 1..Len(s)
  BY LenProperties
<1>2. PICK i \in 1..Len(s) : event \in ToSet(CandidatesAt(s, i, m))
  BY <1>1 DEF EventsOf
<1>3. ToSet(<<>>) = {}
  BY DEF ToSet
<1>4. event \in ToSet(CandidatesOf(WindowAt(s, i), m))
  BY <1>2, <1>3 DEF CandidatesAt
<1>5. /\ WindowAt(s, i) \in Seq(DataBar) /\ WindowAt(s, i) # <<>>
      /\ Latest(WindowAt(s, i)) = s[i]
  BY WindowFacts
<1>6. event.at = s[i].at
  BY <1>4, <1>5, CandidateFacts
<1> QED  BY <1>4, <1>6

\* An event of the longer series that is one of the shorter, by its type, side
\* and time, is the same in all that is said of it.
LEMMA SameEvents ==
    ASSUME NEW p \in Seq(DataBar), NEW s \in Seq(DataBar), GoesOn(p, s), Rising(s), NEW m,
           NEW e \in EventsOf(p, m), NEW f \in EventsOf(s, m), SameEvent(e, f)
    PROVE  e = f
<1>1. PICK i \in 1..Len(p) : /\ e.at = p[i].at
                             /\ e \in ToSet(CandidatesOf(WindowAt(p, i), m))
  BY EventAt
<1>2. PICK j \in 1..Len(s) : /\ f.at = s[j].at
                             /\ f \in ToSet(CandidatesOf(WindowAt(s, j), m))
  BY EventAt
<1>3. Len(p) \in Nat /\ Len(s) \in Nat
  BY LenProperties
<1>4. i \in 1..Len(s) /\ p[i] = s[i]
  BY <1>3 DEF GoesOn
<1>5. i = j
  <2>1. s[i].at = s[j].at
    BY <1>1, <1>2, <1>4 DEF SameEvent
  <2>2. s[i].at \in Nat
    BY <1>4, BarNumbers
  <2> QED  BY <1>3, <1>4, <2>1, <2>2 DEF Rising
<1>6. WindowAt(p, i) = WindowAt(s, i)
  BY SameWindow
<1>7. WindowAt(s, j) \in Seq(DataBar) /\ WindowAt(s, j) # <<>>
  BY WindowFacts
<1>8. /\ e \in ToSet(CandidatesOf(WindowAt(s, j), m))
      /\ f \in ToSet(CandidatesOf(WindowAt(s, j), m))
  BY <1>1, <1>2, <1>5, <1>6
<1> QED  BY <1>7, <1>8, CandidateFacts DEF SameEvent

\* The bars after an event up to its vertical barrier: on the longer series they
\* go on where they ended, in order.
LEMMA FutureGoesOn ==
    ASSUME NEW p \in Seq(DataBar), NEW s \in Seq(DataBar), GoesOn(p, s), Rising(s),
           NEW event, event.at \in Nat, event.horizon \in Nat,
           NEW i \in 1..Len(p), i < Len(p), event.at = p[i].at
    PROVE  /\ FutureOf(p, event) \in Seq(DataBar) /\ FutureOf(s, event) \in Seq(DataBar)
           /\ GoesOn(FutureOf(p, event), FutureOf(s, event))
           /\ Rising(FutureOf(s, event))
           /\ \A k \in 1..Len(FutureOf(p, event)) :
                 \E j \in 1..Len(p) : FutureOf(p, event)[k] = p[j]
<1> DEFINE e == event.at + event.horizon
           a == BarsUpTo(p, event.at)
           b == BarsUpTo(p, e)
           c == BarsUpTo(s, event.at)
           d == BarsUpTo(s, e)
           f == SubSeq(p, a + 1, b)
           g == SubSeq(s, c + 1, d)
           n == Len(p)
           m == Len(s)
<1>1. n \in Nat /\ m \in Nat /\ n <= m /\ e \in Int /\ event.at \in Int
  BY LenProperties DEF GoesOn
<1>2. \A k \in 1..n : k \in 1..m /\ p[k] = s[k]
  BY <1>1 DEF GoesOn
<1>3. Rising(p)
  BY <1>2 DEF Rising
<1>4. /\ a \in 0..n /\ \A k \in 1..n : k <= a <=> p[k].at <= event.at
      /\ c \in 0..m /\ \A k \in 1..m : k <= c <=> s[k].at <= event.at
  BY <1>1, <1>3, UpToFacts
<1>5. /\ b \in 0..n /\ \A k \in 1..n : k <= b <=> p[k].at <= e
      /\ d \in 0..m /\ \A k \in 1..m : k <= d <=> s[k].at <= e
  <2> HIDE DEF e
  <2> QED  BY <1>1, <1>3, UpToFacts
<1>6. FutureOf(p, event) = f /\ FutureOf(s, event) = g
  BY DEF FutureOf
<1> HIDE DEF a, b, c, d, e, n, m
<1>7. \A k \in 1..n : (k <= a <=> k <= c) /\ (k <= b <=> k <= d)
  BY <1>2, <1>4, <1>5
<1>8. b <= d /\ (d <= n => b = d) /\ (d > n => b = n)
  <2>1. b = 0 \/ b \in 1..n
    BY <1>1, <1>5
  <2>2. b <= d
    BY <1>1, <1>5, <1>7, <2>1
  <2>3. d <= n => b = d
    <3>1. d = 0 \/ d \in 1..m
      BY <1>1, <1>5
    <3>2. CASE d = 0
      BY <1>5, <2>2, <3>2
    <3>3. CASE d \in 1..n
      <4>1. d <= b
        BY <1>7, <3>3
      <4> QED  BY <1>1, <1>5, <2>2, <4>1
    <3> QED  BY <1>1, <3>1, <3>2, <3>3
  <2>4. d > n => b = n
    <3>1. n = 0 \/ n \in 1..n
      BY <1>1
    <3> QED  BY <1>1, <1>5, <1>7, <3>1
  <2> QED  BY <2>2, <2>3, <2>4
<1>9. a = i /\ c = i
  <2> DEFINE j == i + 1
  <2>1. i \in 1..n /\ j \in 1..n /\ i < j /\ i \in 1..m /\ j \in 1..m
    BY <1>1 DEF n
  <2>2. s[i].at = event.at /\ s[i].at < s[j].at
    BY <1>2, <2>1 DEF Rising, m
  <2>3. s[i].at \in Nat /\ s[j].at \in Nat
    BY <2>1, BarNumbers DEF m
  <2>4. i <= c /\ ~ j <= c
    BY <1>4, <2>1, <2>2, <2>3
  <2>5. i <= a /\ ~ j <= a
    BY <1>7, <2>1, <2>4
  <2>6. i \in Int /\ j = i + 1 /\ a \in Int /\ c \in Int
    BY <1>1, <1>4, <2>1
  <2> HIDE DEF j
  <2> QED  BY <2>4, <2>5, <2>6
<1> DEFINE r == i + 1
<1>10. r \in Nat \ {0} /\ b \in Nat /\ d \in Nat /\ b <= Len(p) /\ d <= Len(s)
  BY <1>1, <1>5 DEF n, m
<1>11. f = SubSeq(p, r, b) /\ g = SubSeq(s, r, d)
  BY <1>9
<1> HIDE DEF f, g, r
<1>12. /\ f \in Seq(DataBar) /\ Len(f) = IF r <= b THEN b - r + 1 ELSE 0
       /\ \A k \in 1..Len(f) : f[k] = p[r + k - 1] /\ r + k - 1 \in r..b
  BY <1>10, <1>11, Stretch
<1>13. /\ g \in Seq(DataBar) /\ Len(g) = IF r <= d THEN d - r + 1 ELSE 0
       /\ \A k \in 1..Len(g) : g[k] = s[r + k - 1] /\ r + k - 1 \in r..d
  BY <1>10, <1>11, Stretch
<1>14. Len(f) <= Len(g)
  BY <1>8, <1>10, <1>12, <1>13
<1>15. ASSUME NEW k \in 1..Len(f) PROVE f[k] = g[k]
  <2>1. k \in 1..Len(g)
    BY <1>10, <1>12, <1>13, <1>14
  <2>2. PICK j \in r..b : j = r + k - 1 /\ f[k] = p[j] /\ g[k] = s[j]
    BY <1>12, <1>13, <2>1
  <2>3. j \in 1..n
    BY <1>1, <1>5, <1>10
  <2> QED  BY <1>2, <2>2, <2>3
<1>16. ASSUME NEW k \in 1..Len(g), NEW l \in 1..Len(g), k < l PROVE g[k].at < g[l].at
  <2>1. PICK j \in r..d : j = r + k - 1 /\ g[k] = s[j]
    BY <1>13
  <2>2. PICK h \in r..d : h = r + l - 1 /\ g[l] = s[h]
    BY <1>13
  <2>3. j \in 1..Len(s) /\ h \in 1..Len(s)
    BY <1>1, <1>10 DEF m
  <2>4. j < h
    BY <1>10, <1>13, <1>16, <2>1, <2>2
  <2> QED  BY <2>1, <2>2, <2>3, <2>4 DEF Rising
<1>17. ASSUME NEW k \in 1..Len(f) PROVE \E j \in 1..Len(p) : f[k] = p[j]
  <2>1. PICK j \in r..b : f[k] = p[j]
    BY <1>12
  <2>2. j \in 1..Len(p)
    BY <1>1, <1>10 DEF n
  <2> QED  BY <2>1, <2>2
<1> QED  BY <1>6, <1>12, <1>13, <1>14, <1>15, <1>16, <1>17 DEF GoesOn, Rising

\* The path of bars behind a label goes on, in the order of their stamps.
PathGoesOn(p, s) ==
    /\ Len(p) \in Nat \ {0} /\ DOMAIN p = 1..Len(p)
    /\ Len(s) \in Nat /\ DOMAIN s = 1..Len(s)
    /\ GoesOn(p, s)
    /\ \A k \in 1..Len(s) : s[k].at \in Nat
    /\ \A k, l \in 1..Len(s) : k < l => s[k].at < s[l].at

\* A label (label_event) found on a path stays when the path goes on, unless it
\* was that of the vertical barrier; that one only comes later.
LEMMA LabelGoesOn ==
    ASSUME NEW target, NEW stop, NEW cost, NEW side, NEW entry, NEW from,
           NEW p, NEW s, PathGoesOn(p, s)
    PROVE  LET x == Labels(target, stop, cost)!Label(side, entry, from, p)
               y == Labels(target, stop, cost)!Label(side, entry, from, s)
           IN x.at <= y.at /\ (x.kind # "vertical" => x = y)
<1> DEFINE n == Len(p)
           m == Len(s)
           x == Labels(target, stop, cost)!Label(side, entry, from, p)
           y == Labels(target, stop, cost)!Label(side, entry, from, s)
           start == from + MinHolding
           Hits(path, i) == Labels(target, stop, cost)!FirstHit(side, entry, path, start, i)
           Barrier(path) == Labels(target, stop, cost)!FirstExit(side, entry, path, start)
           Touches(b) == b.start >= start /\ Labels(target, stop, cost)!Hit(side, entry, b)
           Found(path) == CHOOSE i \in DOMAIN path : Hits(path, i)
           Ended(b) == IF Labels(target, stop, cost)!StoppedIn(side, entry, b)
                       THEN [kind |-> "stop", at |-> b.at, gain |-> cost - stop]
                       ELSE [kind |-> "profit", at |-> b.at, gain |-> target + cost]
           AtEnd(b) == [kind |-> "vertical", at |-> b.at,
                       gain |-> Labels(target, stop, cost)!Gain(side, entry,
                                   Labels(target, stop, cost)!Close(b))]
<1>1. x = Barrier(p) /\ y = Barrier(s)
  BY Zenon DEF Labels!Label
<1>2. \A path : Barrier(path) = IF \E i \in DOMAIN path : Hits(path, i)
                             THEN Ended(path[Found(path)])
                             ELSE AtEnd(path[Len(path)])
  BY Zenon DEF Labels!FirstExit
<1>3. \A path, i : Hits(path, i) <=>
         /\ i \in DOMAIN path /\ Touches(path[i])
         /\ \A j \in DOMAIN path : Touches(path[j]) => i <= j
  BY DEF Labels!FirstHit
<1>4. \A b : /\ Ended(b).at = b.at /\ AtEnd(b).at = b.at /\ AtEnd(b).kind = "vertical"
  OBVIOUS
<1> HIDE DEF x, y, Hits, Barrier, Touches, Ended, AtEnd
<1>5. /\ n \in Nat \ {0} /\ m \in Nat /\ n <= m /\ DOMAIN p = 1..n /\ DOMAIN s = 1..m
      /\ \A k \in 1..n : p[k] = s[k]
      /\ \A k \in 1..m : s[k].at \in Nat
      /\ \A k, l \in 1..m : k < l => s[k].at < s[l].at
  BY DEF PathGoesOn, GoesOn
<1>6. p[Len(p)] = p[n] /\ s[Len(s)] = s[m]
  OBVIOUS
<1> HIDE DEF n, m
<1> USE <1>5
<1>7. \A i \in 1..n : i \in 1..m /\ i \in Nat /\ p[i] = s[i]
  OBVIOUS
<1>8. CASE \E i \in DOMAIN p : Hits(p, i)
  <2>1. PICK i \in 1..n : Hits(p, i)
    BY <1>8
  <2>2. Hits(s, i)
    <3>1. Touches(s[i])
      BY <1>3, <1>7, <2>1
    <3>2. ASSUME NEW j \in 1..m, Touches(s[j]) PROVE i <= j
      <4>1. CASE j <= n
        <5>1. j \in 1..n
          BY <4>1
        <5>2. Touches(p[j])
          BY <1>7, <3>2, <5>1
        <5> QED  BY <1>3, <2>1, <5>1, <5>2
      <4>2. CASE j > n
        BY <4>2
      <4> QED  BY <4>1, <4>2
    <3> QED  BY <1>3, <1>7, <3>1, <3>2
  <2>3. \A j \in 1..m : Hits(s, j) => j = i
    BY <1>3, <1>7, <2>2
  <2>4. \A j \in 1..n : Hits(p, j) => j = i
    BY <1>3, <2>1
  <2>5. Found(p) = i
    BY <2>1, <2>4
  <2>6. Found(s) = i
    BY <1>7, <2>2, <2>3
  <2> HIDE DEF Found
  <2>7. x = Ended(p[i]) /\ y = Ended(s[i])
    BY <1>1, <1>2, <1>7, <2>1, <2>2, <2>5, <2>6
  <2>8. x = y /\ x.at = s[i].at
    BY <1>4, <1>7, <2>7
  <2>9. s[i].at \in Nat
    BY <1>7
  <2> QED  BY <2>8, <2>9 DEF x, y
<1>9. CASE ~ \E i \in DOMAIN p : Hits(p, i)
  <2>1. x = AtEnd(s[n])
    <3>1. n \in 1..n /\ p[n] = s[n]
      OBVIOUS
    <3>2. x = AtEnd(p[Len(p)])
      BY <1>1, <1>2, <1>9
    <3> QED  BY <1>6, <3>1, <3>2
  <2>2. x.kind = "vertical" /\ x.at = s[n].at
    BY <1>4, <2>1
  <2>3. \E k \in n..m : y.at = s[k].at
    <3>1. CASE \E i \in DOMAIN s : Hits(s, i)
      <4>1. Found(s) \in 1..m /\ Hits(s, Found(s))
        BY <3>1
      <4>2. PICK i \in 1..m : i = Found(s) /\ Hits(s, i)
        BY <4>1
      <4> HIDE DEF Found
      <4>3. y = Ended(s[i])
        BY <1>1, <1>2, <3>1, <4>2
      <4>4. ~ i \in 1..n
        <5> SUFFICES ASSUME i \in 1..n PROVE FALSE
          OBVIOUS
        <5>1. Touches(p[i])
          BY <1>3, <1>7, <4>2
        <5>2. \A j \in 1..n : Touches(p[j]) => i <= j
          BY <1>3, <1>7, <4>2
        <5> QED  BY <1>3, <1>9, <5>1, <5>2
      <4>5. i \in n..m /\ y.at = s[i].at
        BY <1>4, <4>3, <4>4
      <4> QED  BY <4>5
    <3>2. CASE ~ \E i \in DOMAIN s : Hits(s, i)
      <4>1. m \in n..m
        OBVIOUS
      <4>2. y = AtEnd(s[Len(s)])
        BY <1>1, <1>2, <3>2
      <4>3. y.at = s[m].at
        BY <1>4, <1>6, <4>2
      <4> QED  BY <4>1, <4>3
    <3> QED  BY <3>1, <3>2
  <2>4. PICK k \in n..m : y.at = s[k].at
    BY <2>3
  <2>5. n \in 1..m /\ k \in 1..m /\ (n = k \/ n < k)
    OBVIOUS
  <2>6. s[n].at <= s[k].at
    BY <2>5
  <2> QED  BY <2>2, <2>4, <2>6 DEF x, y
<1> QED  BY <1>8, <1>9

\* Two sets of moments agree on what lies before a time.
SameBefore(S, T, bound) == \A x \in Nat : x < bound => (x \in S <=> x \in T)

\* What had been observed before a time, of the observations that lie before it,
\* is still what there is.
Agree(known, later, bound) ==
    /\ \A f \in Families \ {"markets"} : SameBefore(known[f], later[f], bound)
    /\ \A m \in [at : Nat, from : Nat] :
          m.at < bound => (m \in known["markets"] <=> m \in later["markets"])

\* As-of joins before the bound find the same.
LEMMA SameUpTo ==
    ASSUME NEW S \in SUBSET Nat, NEW T \in SUBSET Nat, NEW bound \in Nat,
           SameBefore(S, T, bound)
    PROVE  \A t \in Int : t < bound => UpTo(S, t) = UpTo(T, t) /\ Newest(S, t) = Newest(T, t)
<1> TAKE t \in Int
<1> HAVE t < bound
<1>1. ASSUME NEW x PROVE x \in UpTo(S, t) <=> x \in UpTo(T, t)
  <2>1. x \in Nat /\ x <= t => x < bound
    OBVIOUS
  <2> QED  BY <2>1 DEF UpTo, SameBefore
<1>2. UpTo(S, t) = UpTo(T, t)
  BY <1>1
<1> QED  BY <1>2, Zenon DEF Newest

\* So do the quotes,
LEMMA SameQuotes ==
    ASSUME NEW S \in SUBSET Nat, NEW T \in SUBSET Nat, NEW bound \in Nat,
           SameBefore(S, T, bound),
           NEW t \in Int, t < bound
    PROVE  QuoteReads(S, t) = QuoteReads(T, t)
<1>1. \A u \in Int : u < bound => Newest(S, u) = Newest(T, u)
  BY SameUpTo
<1>2. \A l \in QuoteLookbacks : t - l \in Int /\ t - l < bound
  BY DatasetAssumption DEF DatasetAssumption
<1>3. \A l \in QuoteLookbacks : Newest(S, t - l) = Newest(T, t - l)
  BY <1>1, <1>2
<1>4. Newest(S, t) = Newest(T, t)
  BY <1>1
<1>5. {Newest(S, t - l) : l \in QuoteLookbacks} = {Newest(T, t - l) : l \in QuoteLookbacks}
  BY <1>3, Zenon
<1> QED  BY <1>4, <1>5, Zenon DEF QuoteReads

\* the context,
LEMMA SameContext ==
    ASSUME NEW S \in SUBSET Nat, NEW T \in SUBSET Nat, NEW bound \in Nat,
           SameBefore(S, T, bound),
           NEW t \in Int, t < bound
    PROVE  ContextReads(S, t) = ContextReads(T, t)
<1>1. \A u \in Int : u < bound => UpTo(S, u) = UpTo(T, u) /\ Newest(S, u) = Newest(T, u)
  BY SameUpTo
<1>2. \A l \in ContextLookbacks : t - l \in Int /\ t - l < bound
  BY DatasetAssumption DEF DatasetAssumption
<1>3. \A n : NewestWith(S, t, n) = NewestWith(T, t, n)
  BY <1>1, Zenon DEF NewestWith
<1>4. \A l \in ContextLookbacks : Since(S, t, l) = Since(T, t, l)
  <2> TAKE l \in ContextLookbacks
  <2>1. UpTo(S, t) = UpTo(T, t)
    BY <1>1
  <2>2. Newest(S, t - l) = Newest(T, t - l)
    BY <1>1, <1>2
  <2> QED  BY <2>1, <2>2, Zenon DEF Since
<1>5. {NewestWith(S, t, n) : n \in ContextPeriods} = {NewestWith(T, t, n) : n \in ContextPeriods}
  BY <1>3, Zenon
<1>6. {Since(S, t, l) : l \in ContextLookbacks} = {Since(T, t, l) : l \in ContextLookbacks}
  BY <1>4, Zenon
<1> QED  BY <1>5, <1>6, Zenon DEF ContextReads

\* a basis,
LEMMA SameBasis ==
    ASSUME NEW S \in SUBSET Nat, NEW T \in SUBSET Nat, NEW other \in SUBSET Nat,
           NEW others \in SUBSET Nat, NEW bound \in Nat,
           SameBefore(S, T, bound),
           SameBefore(other, others, bound),
           NEW t \in Int, t < bound
    PROVE  BasisReads(S, other, t) = BasisReads(T, others, t)
<1>1. \A u \in Int : u < bound => Newest(other, u) = Newest(others, u)
  BY SameUpTo
<1>2. \A l \in ContextLookbacks : t - l \in Int /\ t - l < bound
  BY DatasetAssumption DEF DatasetAssumption
<1>3. \A l \in ContextLookbacks : Newest(other, t - l) = Newest(others, t - l)
  BY <1>1, <1>2
<1>4. ContextReads(S, t) = ContextReads(T, t)
  BY SameContext
<1>5. \A s \in ContextReads(S, t) : Newest(other, s) = Newest(others, s)
  <2> TAKE s \in ContextReads(S, t)
  <2>1. s \in Nat /\ s <= t
    BY ContextFacts
  <2>2. s \in Int /\ s < bound
    BY <2>1
  <2> QED  BY <1>1, <2>2
<1>6. {Newest(other, s) : s \in ContextReads(S, t)} = {Newest(others, s) : s \in ContextReads(T, t)}
  BY <1>4, <1>5, Zenon
<1>7. {Newest(other, t - l) : l \in ContextLookbacks} = {Newest(others, t - l) : l \in ContextLookbacks}
  BY <1>3, Zenon
<1> QED  BY <1>6, <1>7, Zenon DEF BasisReads

\* and the prediction markets.
LEMMA SameMarkets ==
    ASSUME NEW S \in SUBSET [at : Nat, from : Nat], NEW T \in SUBSET [at : Nat, from : Nat],
           NEW bound \in Nat,
           \A m \in [at : Nat, from : Nat] : m.at < bound => (m \in S <=> m \in T),
           NEW t \in Int, t < bound
    PROVE  /\ MarketReads(S, t) = MarketReads(T, t)
           /\ \A closes : MarketBarReads(S, closes, t) = MarketBarReads(T, closes, t)
<1>1. \A age : \A u \in Int : u < bound => Active(S, u, age) = Active(T, u, age)
  <2> TAKE age
  <2> TAKE u \in Int
  <2> HAVE u < bound
  <2> DEFINE InForce(m) == /\ m.at <= u /\ u - m.at <= age
                        /\ m.from <= u /\ u <= m.from + MarketLength
  <2>1. \A m \in [at : Nat, from : Nat] : InForce(m) => m.at < bound
    OBVIOUS
  <2> HIDE DEF InForce
  <2>2. {m \in S : InForce(m)} = {m \in T : InForce(m)}
    BY <2>1
  <2>3. \A X : Active(X, u, age) =
               {s \in {m \in X : InForce(m)} : \A r \in {m \in X : InForce(m)} : r.at <= s.at}
    BY Zenon DEF Active, InForce
  <2> QED  BY <2>2, <2>3, Zenon
<1>2. Active(S, t, MarketAge) = Active(T, t, MarketAge)
  BY <1>1
<1>3. \A s \in Active(S, t, MarketAge) : s.at - 1 \in Int /\ s.at - 1 < bound
  <2> TAKE s \in Active(S, t, MarketAge)
  <2>1. s \in S /\ s.at <= t
    BY DEF Active
  <2>2. s.at \in Nat
    BY <2>1
  <2> QED  BY <2>1, <2>2
<1>4. \A s \in Active(S, t, MarketAge) : ChangeReads(S, s) = ChangeReads(T, s)
  BY <1>1, <1>3 DEF ChangeReads
<1> DEFINE A == Active(S, t, MarketAge)
<1>5. {{s} \cup ChangeReads(S, s) : s \in A} = {{s} \cup ChangeReads(T, s) : s \in A}
  BY <1>4
<1>6. MarketReads(S, t) = MarketReads(T, t)
  BY <1>2, <1>5, Zenon DEF MarketReads
<1>7. \A closes : MarketBarReads(S, closes, t) = MarketBarReads(T, closes, t)
  BY <1>2, Zenon DEF MarketBarReads
<1> QED  BY <1>6, <1>7

\* What an event before the bound reads, as of a moment before it, is the same.
LEMMA SameReads ==
    ASSUME NEW known, Observations(known), NEW later, Observations(later),
           NEW bound \in Nat, Agree(known, later, bound),
           NEW event, event.at \in Nat, event.at < bound,
           NEW external \in Int, external < bound,
           NEW history, TimesOf(history) \in SUBSET Nat
    PROVE  Reads(event, external, history, known) = Reads(event, external, history, later)
<1> DEFINE closes == TimesOf(history)
           spot == known["spot_context"]
           future == known["futures_context"]
           spot2 == later["spot_context"]
           future2 == later["futures_context"]
           e == event.at
<1>1. /\ "spot_context" \in Families \ {"markets"} /\ "futures_context" \in Families \ {"markets"}
      /\ "quotes" \in Families \ {"markets"} /\ "futures" \in Families \ {"markets"}
  BY DEF Families
<1>2. /\ \A f \in Families \ {"markets"} : known[f] \in SUBSET Nat /\ later[f] \in SUBSET Nat
      /\ known["markets"] \in SUBSET [at : Nat, from : Nat]
      /\ later["markets"] \in SUBSET [at : Nat, from : Nat]
  BY DEF Observations
<1>3. \A f \in Families \ {"markets"} : SameBefore(known[f], later[f], bound)
  BY DEF Agree
<1>4. \A m \in [at : Nat, from : Nat] :
         m.at < bound => (m \in known["markets"] <=> m \in later["markets"])
  BY DEF Agree
<1>5. /\ QuoteReads(known["quotes"], external) = QuoteReads(later["quotes"], external)
      /\ QuoteReads(known["futures"], external) = QuoteReads(later["futures"], external)
  BY <1>1, <1>2, <1>3, SameQuotes
<1>6. /\ spot \in SUBSET Nat /\ spot2 \in SUBSET Nat
      /\ future \in SUBSET Nat /\ future2 \in SUBSET Nat /\ closes \in SUBSET Nat
      /\ SameBefore(spot, spot2, bound) /\ SameBefore(future, future2, bound)
      /\ SameBefore(closes, closes, bound)
      /\ e \in Int /\ e < bound
  BY <1>1, <1>2, <1>3 DEF SameBefore
<1> HIDE DEF closes, spot, spot2, future, future2, e
<1>7. ContextReads(spot, e) = ContextReads(spot2, e)
      /\ ContextReads(future, e) = ContextReads(future2, e)
  BY <1>6, SameContext
<1>8. /\ BasisReads(future, spot, e) = BasisReads(future2, spot2, e)
      /\ BasisReads(spot, closes, e) = BasisReads(spot2, closes, e)
      /\ BasisReads(future, closes, e) = BasisReads(future2, closes, e)
  BY <1>6, SameBasis
<1>9. /\ MarketReads(known["markets"], external) = MarketReads(later["markets"], external)
      /\ MarketBarReads(known["markets"], closes, external)
            = MarketBarReads(later["markets"], closes, external)
  BY <1>2, <1>4, SameMarkets
<1>10. \A k : Reads(event, external, history, k) =
          [bars    |-> closes,
           quotes  |-> QuoteReads(k["quotes"], external) \cup QuoteReads(k["futures"], external),
           context |-> ContextReads(k["spot_context"], e) \cup ContextReads(k["futures_context"], e)
                           \cup BasisReads(k["futures_context"], k["spot_context"], e),
           basis   |-> BasisReads(k["spot_context"], closes, e)
                           \cup BasisReads(k["futures_context"], closes, e)
                           \cup MarketBarReads(k["markets"], closes, external),
           markets |-> MarketReads(k["markets"], external)]
  BY Zenon DEF Reads, closes, e
<1> QED  BY <1>5, <1>7, <1>8, <1>9, <1>10, Zenon DEF spot, spot2, future, future2

\* PointInTime, of two samples.
SaysAgain(x, y) ==
    SameEvent(x.event, y.event) =>
        /\ x.event = y.event /\ x.reads = y.reads /\ x.volatility = y.volatility
        /\ x.at = y.at /\ x.delay = y.delay
        /\ x.t1 <= y.t1
        /\ x.kind # "vertical" => x.t1 = y.t1 /\ x.kind = y.kind

\* A sample of an event (build_meta_label_samples), when the series has gone on
\* and what was observed before its end is what it was.
LEMMA SampleGoesOn ==
    ASSUME NEW known, Observations(known), NEW later, Observations(later),
           NEW p \in Seq(DataBar), NEW s \in Seq(DataBar), GoesOn(p, s), Rising(s),
           Agree(known, later, Latest(p).at),
           NEW event, event.horizon \in Nat,
           NEW i \in 1..Len(p), i < Len(p), event.at = p[i].at,
           FutureOf(p, event) # <<>>
    PROVE  SaysAgain(Labelled(p, i, event, known), Labelled(s, i, event, later))
<1> DEFINE f == FutureOf(p, event)
           g == FutureOf(s, event)
           n == Len(f)
           m == Len(g)
           history == HistoryAt(s, i)
           entry == g[1].open
           entryAt == Larger(BarStart(g[1]), event.at)
           target == InTicks(entry, Geometry(event, history).target)
           stop == InTicks(entry, Geometry(event, history).stop)
           cost == InTicks(entry, RoundTripCost)
           Path(b) == [k \in DOMAIN b |-> AsPath(b[k])]
           LabelOf(b) == Labels(target, stop, cost)!Label(event.side, entry, entryAt, Path(b))
           moment == IF asof = "entry" THEN entryAt ELSE event.at
           external == moment - ExternalLatency
           bound == Latest(p).at
           x == Labelled(p, i, event, known)
           y == Labelled(s, i, event, later)
<1>1. /\ Len(p) \in Nat /\ Len(s) \in Nat /\ i \in 1..Len(s) /\ p[i] = s[i]
      /\ Len(p) \in 1..Len(s) /\ p[Len(p)] = s[Len(p)]
  <2>1. Len(p) \in Nat /\ Len(s) \in Nat /\ Len(p) <= Len(s)
    BY LenProperties DEF GoesOn
  <2>2. i \in 1..Len(s) /\ Len(p) \in 1..Len(s) /\ Len(p) \in 1..Len(p)
    BY <2>1
  <2> QED  BY <2>1, <2>2 DEF GoesOn
<1>2. /\ event.at \in Nat /\ bound \in Nat /\ event.at < bound
      /\ \A j \in 1..Len(p) : p[j].at \in Nat /\ p[j].at <= bound
  <2>1. \A j \in 1..Len(p) : j \in 1..Len(s) /\ p[j] = s[j] /\ s[j].at \in Nat
    BY <1>1, BarNumbers DEF GoesOn
  <2>2. bound = s[Len(p)].at
    BY <1>1 DEF Latest
  <2>3. \A j \in 1..Len(p) : j = Len(p) \/ s[j].at < s[Len(p)].at
    BY <1>1, <2>1 DEF Rising
  <2>4. \A j \in 1..Len(p) : p[j].at \in Nat /\ p[j].at <= bound
    BY <1>1, <2>1, <2>2, <2>3
  <2>5. event.at \in Nat /\ bound \in Nat /\ event.at < bound
    BY <1>1, <2>1, <2>2 DEF Rising
  <2> QED  BY <2>4, <2>5
<1>3. /\ f \in Seq(DataBar) /\ g \in Seq(DataBar) /\ GoesOn(f, g) /\ Rising(g)
      /\ \A k \in 1..n : \E j \in 1..Len(p) : f[k] = p[j]
  BY <1>2, FutureGoesOn
<1>4. HistoryAt(p, i) = history
  BY SameWindow
<1>5. TimesOf(history) \in SUBSET Nat
  BY <1>1, HistoryTimes
<1>6. f # <<>>
  OBVIOUS
<1> HIDE DEF f, g, history
<1>7. /\ n \in Nat \ {0} /\ m \in Nat /\ n <= m
      /\ DOMAIN f = 1..n /\ DOMAIN g = 1..m
      /\ \A k \in 1..n : f[k] = g[k]
      /\ \A k \in 1..m : g[k].at \in Nat
  <2>1. n \in Nat /\ m \in Nat /\ DOMAIN f = 1..n /\ DOMAIN g = 1..m
    BY <1>3, LenProperties
  <2>2. n # 0
    BY <1>3, <1>6, EmptySeq
  <2>3. \A k \in 1..m : g[k].at \in Nat
    BY <1>3, BarNumbers
  <2> QED  BY <1>3, <2>1, <2>2, <2>3 DEF GoesOn
<1>8. 1 \in 1..n /\ f[1] = g[1]
  BY <1>7
<1>9. /\ x.event = event /\ x.at = moment /\ x.t1 = LabelOf(f).at /\ x.kind = LabelOf(f).kind
      /\ x.volatility = Geometry(event, history).volatility
      /\ x.delay = Larger(0, entryAt - event.at)
      /\ x.reads = Reads(event, external, history, known)
  BY <1>4, <1>8 DEF Labelled, f
<1>10. /\ y.event = event /\ y.at = moment /\ y.t1 = LabelOf(g).at /\ y.kind = LabelOf(g).kind
       /\ y.volatility = Geometry(event, history).volatility
       /\ y.delay = Larger(0, entryAt - event.at)
       /\ y.reads = Reads(event, external, history, later)
  BY DEF Labelled, g, history
<1>11. LabelOf(f).at <= LabelOf(g).at
       /\ (LabelOf(f).kind # "vertical" => LabelOf(f) = LabelOf(g))
  <2> DEFINE u == Path(f)
             v == Path(g)
  <2>1. DOMAIN u = 1..n /\ Len(u) = n /\ DOMAIN v = 1..m /\ Len(v) = m
    BY <1>7
  <2>2. /\ \A k \in 1..n : u[k] = AsPath(f[k])
        /\ \A k \in 1..m : v[k] = AsPath(g[k])
    BY <1>7
  <2>3. \A k \in 1..n : u[k] = v[k]
    BY <1>7, <2>2
  <2>4. \A k \in 1..m : v[k].at = g[k].at
    BY <2>2 DEF AsPath
  <2>5. \A k \in 1..m : v[k].at \in Nat
    BY <1>7, <2>4
  <2>6. \A k, l \in 1..m : k < l => v[k].at < v[l].at
    BY <1>3, <2>4 DEF Rising
  <2> DEFINE a == Labels(target, stop, cost)!Label(event.side, entry, entryAt, u)
             b == Labels(target, stop, cost)!Label(event.side, entry, entryAt, v)
  <2>7. LabelOf(f) = a /\ LabelOf(g) = b
    OBVIOUS
  <2>8. PathGoesOn(u, v)
    <3> HIDE DEF u, v, n, m
    <3> QED  BY <1>7, <2>1, <2>3, <2>5, <2>6 DEF PathGoesOn, GoesOn
  <2> HIDE DEF u, v, target, stop, cost, entry, entryAt, LabelOf
  <2>9. a.at <= b.at /\ (a.kind # "vertical" => a = b)
    BY <2>8, LabelGoesOn
  <2> HIDE DEF a, b
  <2> QED  BY <2>7, <2>9
<1>12. external \in Int /\ external < bound
  <2>1. g[1].at \in Nat /\ g[1].at <= bound
    <3>1. PICK j \in 1..Len(p) : f[1] = p[j]
      BY <1>3, <1>8
    <3> QED  BY <1>2, <1>8, <3>1
  <2>2. BarStart(g[1]) \in Int /\ BarStart(g[1]) < bound
    BY <1>2, <2>1, DataConstants DEF BarStart
  <2>3. entryAt \in Int /\ entryAt < bound
    BY <1>2, <2>2 DEF Larger
  <2> HIDE DEF entryAt, bound
  <2>4. moment \in Int /\ moment < bound
    BY <1>2, <2>3
  <2> HIDE DEF moment
  <2> QED  BY <1>2, <2>4, DataConstants
<1> HIDE DEF external, bound, LabelOf, moment, entryAt, x, y
<1>13. Reads(event, external, history, known) = Reads(event, external, history, later)
  <2>1. Agree(known, later, bound)
    BY DEF bound
  <2> QED  BY <1>2, <1>5, <1>12, <2>1, SameReads
<1> QED  BY <1>9, <1>10, <1>11, <1>13 DEF SaysAgain, x, y

\* So does every sample of a dataset whose event is met again.
LEMMA DatasetGoesOn ==
    ASSUME NEW known, Observations(known), NEW later, Observations(later),
           NEW p \in Seq(DataBar), NEW s \in Seq(DataBar), GoesOn(p, s), Rising(s),
           Agree(known, later, Latest(p).at),
           NEW x \in MetaLabelSamples(p, known), NEW y \in MetaLabelSamples(s, later)
    PROVE  SaysAgain(x, y)
<1>1. PICK e \in EventsOf(p, mode) :
         /\ IndexOf(p, e) < Len(p) /\ FutureOf(p, e) # <<>>
         /\ x = Labelled(p, IndexOf(p, e), e, known)
  BY DEF MetaLabelSamples
<1>2. PICK f \in EventsOf(s, mode) : y = Labelled(s, IndexOf(s, f), f, later)
  BY DEF MetaLabelSamples
<1>3. x.event = e /\ y.event = f
  BY <1>1, <1>2 DEF Labelled
<1>4. SUFFICES ASSUME SameEvent(e, f) PROVE SaysAgain(x, y)
  BY <1>3 DEF SaysAgain
<1>5. e = f
  BY <1>4, SameEvents
<1>6. e.horizon \in Nat /\ \E i \in 1..Len(p) : e.at = p[i].at
  BY EventFacts
<1>7. PICK i \in 1..Len(p) : e.at = p[i].at
  BY <1>6
<1>8. Rising(p) /\ i \in 1..Len(s) /\ e.at = s[i].at
  <2>1. Len(p) \in Nat /\ Len(s) \in Nat
    BY LenProperties
  <2>2. \A j \in 1..Len(p) : j \in 1..Len(s) /\ p[j] = s[j]
    BY <2>1 DEF GoesOn
  <2> QED  BY <1>7, <2>2 DEF Rising
<1>9. IndexOf(p, e) = i /\ IndexOf(s, e) = i
  BY <1>7, <1>8, IndexFacts
<1>10. i < Len(p)
  BY <1>1, <1>9
<1>11. SaysAgain(Labelled(p, i, e, known), Labelled(s, i, e, later))
  BY <1>1, <1>6, <1>7, <1>10, SampleGoesOn
<1> QED  BY <1>1, <1>2, <1>5, <1>9, <1>11

\* The datasets there are were built of a series that the bars go on from, and
\* of observations that those there are agree with up to its end.
TrainedInv ==
    trained # {} =>
        \E p \in Seq(DataBar) \ {<<>>} : \E known :
            /\ GoesOn(p, bars) /\ Observations(known)
            /\ Agree(known, feeds, Latest(p).at)
            /\ trained = MetaLabelSamples(p, known)

\* A dataset depends on the configuration, and otherwise on what it is built of.
LEMMA SameSamples ==
    ASSUME NEW p, NEW known, mode' = mode, asof' = asof
    PROVE  MetaLabelSamples(p, known)' = MetaLabelSamples(p, known)
  BY DEF MetaLabelSamples, Labelled

\* An observation lies after those of its family and no earlier than the newest
\* bar (Observe), so what lay before a bar stays what it was.
LEMMA AgreeAfter ==
    ASSUME NEW known, NEW bound \in Nat, bound <= Now, Now \in Nat,
           DOMAIN feeds = Families, Agree(known, feeds, bound),
           NEW f \in Families, NEW offset \in {0, Interval \div 2}, Observe(f, offset)
    PROVE  Agree(known, feeds', bound)
<1>1. Now + offset \in Nat /\ bound <= Now + offset
  <2>1. Interval \div 2 \in Nat
    BY DataConstants
  <2>2. offset \in Nat
    BY <2>1
  <2> QED  BY <2>2
<1>2. CASE f = "markets"
  <2>1. PICK k \in 0..MaxBars :
           feeds' = [feeds EXCEPT ![f] =
                        @ \cup {[at |-> Now + offset, from |-> k * MarketLength]}]
    BY <1>2 DEF Observe
  <2> DEFINE new == [at |-> Now + offset, from |-> k * MarketLength]
  <2>2. new.at = Now + offset
    OBVIOUS
  <2> HIDE DEF new
  <2>3. \A g \in Families \ {"markets"} : feeds'[g] = feeds[g]
    BY <1>2, <2>1
  <2>4. feeds'["markets"] = feeds["markets"] \cup {new}
    BY <1>2, <2>1 DEF Families, new
  <2>5. \A m \in [at : Nat, from : Nat] :
           m.at < bound => (m \in feeds["markets"] <=> m \in feeds'["markets"])
    BY <1>1, <2>2, <2>4
  <2> QED  BY <2>3, <2>5 DEF Agree
<1>3. CASE f # "markets"
  <2>1. feeds' = [feeds EXCEPT ![f] = @ \cup {Now + offset}]
    BY <1>3 DEF Observe
  <2>2. feeds'[f] = feeds[f] \cup {Now + offset}
        /\ \A g \in Families : g # f => feeds'[g] = feeds[g]
    BY <2>1
  <2>3. feeds'["markets"] = feeds["markets"]
    BY <1>3, <2>2 DEF Families
  <2>4. ASSUME NEW g \in Families \ {"markets"} PROVE SameBefore(known[g], feeds'[g], bound)
    <3>1. SameBefore(known[g], feeds[g], bound)
      BY DEF Agree
    <3>2. CASE g # f
      BY <2>2, <3>1, <3>2
    <3>3. CASE g = f
      BY <1>1, <2>2, <3>1, <3>3 DEF SameBefore
    <3> QED  BY <3>2, <3>3
  <2> QED  BY <2>3, <2>4 DEF Agree
<1> QED  BY <1>2, <1>3

\* Steps that leave the dataset alone leave it true of the bars and observations.
LEMMA TrainedKept ==
    ASSUME DataInv, TrainedInv, trained' = trained, mode' = mode, asof' = asof,
           Len(bars') \in Nat, Len(bars) <= Len(bars'),
           \A i \in 1..Len(bars) : bars'[i] = bars[i],
           \A known : \A bound \in Nat :
              bound <= Now /\ Agree(known, feeds, bound) => Agree(known, feeds', bound)
    PROVE  TrainedInv'
<1> SUFFICES ASSUME trained' # {}
    PROVE  \E p \in Seq(DataBar) \ {<<>>} : \E known :
              /\ GoesOn(p, bars') /\ Observations(known)
              /\ Agree(known, feeds', Latest(p).at)
              /\ trained' = MetaLabelSamples(p, known)'
  BY DEF TrainedInv, GoesOn, Observations, Agree, SameBefore, Latest
<1>1. PICK p \in Seq(DataBar) \ {<<>>} : \E known :
         /\ GoesOn(p, bars) /\ Observations(known)
         /\ Agree(known, feeds, Latest(p).at)
         /\ trained = MetaLabelSamples(p, known)
  BY DEF TrainedInv
<1>2. PICK known :
         /\ GoesOn(p, bars) /\ Observations(known)
         /\ Agree(known, feeds, Latest(p).at)
         /\ trained = MetaLabelSamples(p, known)
  BY <1>1
<1>3. Latest(p).at \in Nat /\ Latest(p).at <= Now /\ Len(p) \in Nat /\ Len(bars) \in Nat
  <2>1. Len(p) \in Nat \ {0} /\ Len(bars) \in Nat /\ Len(p) <= Len(bars)
    BY <1>2, EmptySeq, LenProperties DEF DataInv, GoesOn
  <2>2. Len(p) \in 1..Len(p) /\ Len(p) \in 1..Len(bars)
    BY <2>1
  <2>3. Latest(p) = bars[Len(p)]
    BY <1>2, <2>2 DEF GoesOn, Latest
  <2> QED  BY <2>1, <2>2, <2>3, NowFacts DEF DataInv
<1>4. GoesOn(p, bars')
  <2>1. Len(p) <= Len(bars) /\ \A i \in 1..Len(p) : p[i] = bars[i]
    BY <1>2 DEF GoesOn
  <2>2. \A i \in 1..Len(p) : i \in 1..Len(bars) /\ p[i] = bars'[i]
    BY <1>3, <2>1
  <2>3. Len(p) <= Len(bars')
    BY <1>3, <2>1, LenProperties
  <2> QED  BY <2>2, <2>3 DEF GoesOn
<1>5. Agree(known, feeds', Latest(p).at)
  BY <1>2, <1>3
<1>6. trained' = MetaLabelSamples(p, known)'
  BY <1>2, SameSamples
<1> QED  BY <1>2, <1>4, <1>5, <1>6

\* What is agreed of observations that do not change.
LEMMA SameFeeds ==
    ASSUME feeds' = feeds
    PROVE  \A known : \A bound \in Nat :
              bound <= Now /\ Agree(known, feeds, bound) => Agree(known, feeds', bound)
  BY DEF Agree

\* No step makes the dataset one of other bars or observations.
LEMMA TrainedStep == DataInv /\ TrainedInv /\ [DataNext]_dataVars => TrainedInv'
<1> SUFFICES ASSUME DataInv, TrainedInv, [DataNext]_dataVars PROVE TrainedInv'
  OBVIOUS
<1>1. bars \in Seq(DataBar) /\ Len(bars) \in Nat /\ Now \in Nat /\ DOMAIN feeds = Families
  BY NowFacts DEF DataInv
<1>2. ASSUME NEW shape \in Shapes[mode][Len(bars) + 1], NEW gap \in Gaps[mode],
             Arrive(shape, gap)
      PROVE  TrainedInv'
  <2> DEFINE last == IF bars = <<>> THEN 10000 ELSE bars[Len(bars)].close
             b == [at |-> Now + gap + Interval, open |-> last + shape.open,
                   high |-> last + shape.high, low |-> last + shape.low,
                   close |-> last + shape.close, volume |-> shape.volume]
  <2>1. bars' = Append(bars, b)
    BY <1>2 DEF Arrive
  <2> HIDE DEF b
  <2>2. trained' = trained /\ mode' = mode /\ asof' = asof /\ feeds' = feeds
    BY <1>2 DEF Arrive
  <2>3. Len(bars') = Len(bars) + 1 /\ \A i \in 1..Len(bars) : bars'[i] = bars[i]
    BY <1>1, <2>1
  <2>4. Len(bars') \in Nat /\ Len(bars) <= Len(bars')
    BY <1>1, <2>3
  <2> QED  BY <2>2, <2>3, <2>4, SameFeeds, TrainedKept
<1>3. ASSUME NEW f \in Families, NEW offset \in {0, Interval \div 2}, Observe(f, offset)
      PROVE  TrainedInv'
  <2>1. trained' = trained /\ mode' = mode /\ asof' = asof /\ bars' = bars
    BY <1>3 DEF Observe
  <2>2. \A known : \A bound \in Nat :
           bound <= Now /\ Agree(known, feeds, bound) => Agree(known, feeds', bound)
    BY <1>1, <1>3, AgreeAfter
  <2>3. Len(bars') \in Nat /\ Len(bars) <= Len(bars')
        /\ \A i \in 1..Len(bars) : bars'[i] = bars[i]
    BY <1>1, <2>1
  <2> QED  BY <2>1, <2>2, <2>3, TrainedKept
<1>4. ASSUME UNCHANGED <<mode, asof, bars, feeds, trained>> PROVE TrainedInv'
  <2>1. Len(bars') \in Nat /\ Len(bars) <= Len(bars')
        /\ \A i \in 1..Len(bars) : bars'[i] = bars[i]
    BY <1>1, <1>4
  <2> QED  BY <1>4, <2>1, SameFeeds, TrainedKept
<1>5. CASE BuildMetaLabelSamples
  <2>1. /\ Len(bars) >= MinBars /\ trained' = MetaLabelSamples(bars, feeds)
        /\ mode' = mode /\ asof' = asof /\ bars' = bars /\ feeds' = feeds
    BY <1>5 DEF BuildMetaLabelSamples
  <2>2. bars \in Seq(DataBar) \ {<<>>} /\ GoesOn(bars, bars)
    <3>1. MinBars \in Nat \ {0}
      BY DatasetAssumption DEF DatasetAssumption
    <3>2. Len(bars) # 0
      BY <1>1, <2>1, <3>1
    <3>3. bars # <<>>
      BY <1>1, <3>2, EmptySeq
    <3> QED  BY <1>1, <3>3 DEF GoesOn
  <2>3. Observations(feeds) /\ Agree(feeds, feeds, Latest(bars).at)
    BY DEF DataInv, Agree, SameBefore
  <2>4. \A p, known : MetaLabelSamples(p, known)' = MetaLabelSamples(p, known)
    BY <2>1, SameSamples
  <2>5. \E p \in Seq(DataBar) \ {<<>>} : \E known :
           /\ GoesOn(p, bars) /\ Observations(known)
           /\ Agree(known, feeds, Latest(p).at)
           /\ trained' = MetaLabelSamples(p, known)
    BY <2>1, <2>2, <2>3
  <2>6. PICK p \in Seq(DataBar) \ {<<>>} : \E known :
           /\ GoesOn(p, bars') /\ Observations(known)
           /\ Agree(known, feeds', Latest(p).at)
           /\ trained' = MetaLabelSamples(p, known)
    BY <2>1, <2>5
  <2>7. PICK known : /\ GoesOn(p, bars') /\ Observations(known)
                     /\ Agree(known, feeds', Latest(p).at)
                     /\ trained' = MetaLabelSamples(p, known)
    BY <2>6
  <2>8. trained' = MetaLabelSamples(p, known)'
    BY <2>4, <2>7
  <2> QED  BY <2>7, <2>8 DEF TrainedInv, GoesOn, Observations, Agree, SameBefore, Latest
<1>6. CASE BuildScoringSamples
  BY <1>4, <1>6 DEF BuildScoringSamples
<1>7. CASE UNCHANGED dataVars
  BY <1>4, <1>7 DEF dataVars
<1> QED  BY <1>2, <1>3, <1>5, <1>6, <1>7 DEF DataNext

\* What a dataset says of an event it says again, built anew or left as it is.
LEMMA SaidAgain ==
    ASSUME DataInv, TrainedInv, [DataNext]_dataVars
    PROVE  \A s \in trained, r \in trained' : SaysAgain(s, r)
<1> SUFFICES ASSUME NEW s \in trained, NEW r \in trained' PROVE SaysAgain(s, r)
  OBVIOUS
<1>1. PICK p \in Seq(DataBar) \ {<<>>} : \E known :
         /\ GoesOn(p, bars) /\ Observations(known)
         /\ Agree(known, feeds, Latest(p).at)
         /\ trained = MetaLabelSamples(p, known)
  BY DEF TrainedInv
<1>2. PICK known :
         /\ GoesOn(p, bars) /\ Observations(known)
         /\ Agree(known, feeds, Latest(p).at)
         /\ trained = MetaLabelSamples(p, known)
  BY <1>1
<1>3. bars \in Seq(DataBar) /\ Rising(bars) /\ Observations(feeds)
  BY DEF DataInv
<1>4. CASE BuildMetaLabelSamples
  <2>1. r \in MetaLabelSamples(bars, feeds)
    BY <1>4 DEF BuildMetaLabelSamples
  <2> QED  BY <1>2, <1>3, <2>1, DatasetGoesOn
<1>5. CASE trained' = trained
  <2>1. r \in MetaLabelSamples(p, known) /\ s \in MetaLabelSamples(p, known)
    BY <1>2, <1>5
  <2>2. GoesOn(p, p) /\ Agree(known, known, Latest(p).at) /\ Rising(p)
    <3>1. Len(p) \in Nat /\ Len(bars) \in Nat
      BY <1>3, LenProperties
    <3>2. \A j \in 1..Len(p) : j \in 1..Len(bars) /\ p[j] = bars[j]
      BY <1>2, <3>1 DEF GoesOn
    <3>3. Rising(p)
      BY <1>3, <3>2 DEF Rising
    <3> QED  BY <3>1, <3>3 DEF GoesOn, Agree, SameBefore
  <2> QED  BY <1>2, <2>1, <2>2, DatasetGoesOn
<1>6. BuildMetaLabelSamples \/ trained' = trained
  <2>1. ASSUME NEW shape, NEW gap, Arrive(shape, gap) PROVE trained' = trained
    BY <2>1 DEF Arrive
  <2>2. ASSUME NEW f, NEW offset, Observe(f, offset) PROVE trained' = trained
    BY <2>2 DEF Observe
  <2>3. BuildScoringSamples \/ UNCHANGED dataVars => trained' = trained
    BY DEF BuildScoringSamples, dataVars
  <2> QED  BY <2>1, <2>2, <2>3, Zenon DEF DataNext
<1> QED  BY <1>4, <1>5, <1>6

\* PointInTime, of every series of bars and every observation of it: a dataset
\* built later (build_meta_label_samples) says the same of an event.
THEOREM SaysTheSame == DataSpec => PointInTime
<1>1. DataInit => TrainedInv
  BY DEF DataInit, TrainedInv
<1>2. DataInv /\ TrainedInv /\ [DataNext]_dataVars => TrainedInv'
  BY TrainedStep
<1>3. DataInv /\ TrainedInv /\ [DataNext]_dataVars
         => [ \A s \in trained, r \in trained' :
                SameEvent(s.event, r.event) =>
                    /\ s.event = r.event /\ s.reads = r.reads /\ s.volatility = r.volatility
                    /\ s.at = r.at /\ s.delay = r.delay
                    /\ s.t1 <= r.t1
                    /\ s.kind # "vertical" => s.t1 = r.t1 /\ s.kind = r.kind ]_dataVars
  BY SaidAgain DEF SaysAgain
<1> QED  BY <1>1, <1>2, <1>3, DataInvariant, PTL DEF DataSpec, PointInTime

-----------------------------------------------------------------------------
(* The datasets: a live run says what the model was trained on *)

\* f has the lists of s up to each of the first m, put after one another.
IsFlat(f, s, m) == f = [i \in 1..m |-> IF i = 1 THEN s[i] ELSE f[i - 1] \o s[i]]

\* The same, list by list.
Steps(f, s, n, A) ==
    \A i \in 1..n : /\ f[i] \in Seq(A)
                    /\ f[i] = IF i = 1 THEN s[i] ELSE f[i - 1] \o s[i]

\* The lists put after one another, one by one (FlattenSeq).
LEMMA FlattenSteps ==
    ASSUME NEW A, NEW s, NEW n \in Nat \ {0}, s \in [1..n -> Seq(A)]
    PROVE  \E f : FlattenSeq(s) = f[n] /\ Steps(f, s, n, A)
<1> DEFINE f == CHOOSE g : IsFlat(g, s, n)
<1>1. FlattenSeq(s) = f[n]
  <2>1. Len(s) = n
    <3>1. DOMAIN s = 1..n /\ s \in Seq(Seq(A))
      OBVIOUS
    <3> QED  BY <3>1, LenProperties
  <2>2. n # 0
    OBVIOUS
  <2> QED  BY <2>1, <2>2, Zenon DEF FlattenSeq, IsFlat
<1>2. ASSUME NEW m \in 0..n PROVE \E g : IsFlat(g, s, m)
  <2> DEFINE Bad == {k \in 0..n : ~ \E g : IsFlat(g, s, k)}
  <2> SUFFICES ASSUME Bad # {} PROVE FALSE
    OBVIOUS
  <2>1. Bad \in SUBSET Nat
    OBVIOUS
  <2>2. PICK k \in Bad : \A j \in Bad : k <= j
    BY <2>1, LeastElement
  <2>3. k # 0
    <3> DEFINE e == [i \in 1..0 |-> <<>>]
    <3>1. e = [i \in 1..0 |-> IF i = 1 THEN s[i] ELSE e[i - 1] \o s[i]]
      OBVIOUS
    <3>2. IsFlat(e, s, 0)
      BY <3>1 DEF IsFlat
    <3> QED  BY <2>2, <3>2
  <2> DEFINE l == k - 1
  <2>4. l \in 0..n /\ l \notin Bad /\ l \in Nat /\ k = l + 1 /\ k \in 1..n
    <3>1. k \in 0..n
      BY <2>2
    <3> HIDE DEF Bad
    <3>2. l \in 0..n /\ l \in Nat /\ k = l + 1 /\ k \in 1..n /\ ~ k <= l
      BY <2>3, <3>1
    <3> HIDE DEF l
    <3> QED  BY <2>2, <3>2
  <2>5. PICK g : IsFlat(g, s, l)
    BY <2>4
  <2> HIDE DEF l
  <2> DEFINE h == [i \in 1..k |-> IF i = 1 THEN s[i] ELSE g[i - 1] \o s[i]]
  <2>6. \A i \in 1..l : g[i] = IF i = 1 THEN s[i] ELSE g[i - 1] \o s[i]
    <3>1. g = [i \in 1..l |-> IF i = 1 THEN s[i] ELSE g[i - 1] \o s[i]]
      BY <2>5 DEF IsFlat
    <3> QED  BY <3>1
  <2>7. \A i \in 1..l : h[i] = g[i]
    <3>1. \A i \in 1..l : i \in 1..k
      BY <2>4
    <3> QED  BY <2>6, <3>1
  <2>8. \A i \in 1..k : i = 1 \/ i - 1 \in 1..l
    BY <2>4
  <2>9. \A i \in 1..k : h[i] = IF i = 1 THEN s[i] ELSE h[i - 1] \o s[i]
    BY <2>7, <2>8
  <2>10. h = [i \in 1..k |-> h[i]]
    OBVIOUS
  <2> HIDE DEF h
  <2>11. IsFlat(h, s, k)
    BY <2>9, <2>10 DEF IsFlat
  <2> QED  BY <2>2, <2>11
<1>3. n \in 0..n
  OBVIOUS
<1>4. IsFlat(f, s, n)
  BY <1>2, <1>3, Zenon
<1> HIDE DEF f
<1>5. \A i \in 1..n : f[i] = IF i = 1 THEN s[i] ELSE f[i - 1] \o s[i]
  <2>1. f = [i \in 1..n |-> IF i = 1 THEN s[i] ELSE f[i - 1] \o s[i]]
    BY <1>4 DEF IsFlat
  <2> QED  BY <2>1
<1>6. ASSUME NEW m \in 1..n PROVE f[m] \in Seq(A)
  <2> DEFINE Bad == {k \in 1..n : f[k] \notin Seq(A)}
  <2> SUFFICES ASSUME Bad # {} PROVE FALSE
    OBVIOUS
  <2>1. Bad \in SUBSET Nat
    OBVIOUS
  <2>2. PICK k \in Bad : \A j \in Bad : k <= j
    BY <2>1, LeastElement
  <2>3. k \in 1..n /\ s[k] \in Seq(A)
    BY <2>2
  <2>4. k # 1
    BY <1>5, <2>2, <2>3
  <2>5. k - 1 \in 1..n /\ k - 1 \notin Bad
    BY <2>2, <2>4
  <2>6. f[k - 1] \in Seq(A)
    BY <2>5
  <2>7. f[k] = f[k - 1] \o s[k]
    BY <1>5, <2>3, <2>4
  <2> DEFINE x == f[k - 1]
             y == s[k]
  <2>8. x \in Seq(A) /\ y \in Seq(A)
    BY <2>3, <2>6
  <2> HIDE DEF x, y
  <2>9. x \o y \in Seq(A)
    BY <2>8
  <2>10. f[k] \in Seq(A)
    BY <2>7, <2>9 DEF x, y
  <2> QED  BY <2>2, <2>10
<1>7. Steps(f, s, n, A)
  BY <1>5, <1>6 DEF Steps
<1> QED  BY <1>1, <1>7

\* They have elements of theirs.
LEMMA FlattenedIn ==
    ASSUME NEW A, NEW s, NEW n \in Nat, s \in [1..n -> Seq(A)]
    PROVE  FlattenSeq(s) \in Seq(A)
<1>1. Len(s) = n
  <2>1. DOMAIN s = 1..n /\ s \in Seq(Seq(A))
    OBVIOUS
  <2> QED  BY <2>1, LenProperties
<1>2. CASE n = 0
  <2>1. FlattenSeq(s) = s
    BY <1>1, <1>2 DEF FlattenSeq
  <2>2. s = <<>>
    BY <1>2
  <2> QED  BY <2>1, <2>2
<1>3. CASE n # 0
  <2>1. n \in 1..n
    BY <1>3
  <2>2. n \in Nat \ {0}
    BY <1>3
  <2>3. PICK f : FlattenSeq(s) = f[n] /\ Steps(f, s, n, A)
    BY <2>2, FlattenSteps
  <2> QED  BY <2>1, <2>3 DEF Steps
<1> QED  BY <1>2, <1>3

\* The last elements of a list are some of it.
LEMMA LastIn ==
    ASSUME NEW A, NEW s \in Seq(A), NEW n \in Nat
    PROVE  LastOfSeq(s, n) \in Seq(A)
<1>1. Len(s) \in Nat
  BY LenProperties
<1> DEFINE a == Larger(1, Len(s) - n + 1)
<1>2. a \in Nat \ {0}
  BY <1>1 DEF Larger
<1> HIDE DEF a
<1>3. \A i \in a..Len(s) : i \in 1..Len(s)
  BY <1>1, <1>2
<1>4. \A i \in a..Len(s) : s[i] \in A
  BY <1>3, ElementOfSeq
<1>5. SubSeq(s, a, Len(s)) \in Seq(A)
  BY <1>1, <1>2, <1>4
<1> QED  BY <1>5 DEF LastOfSeq, a

\* The candidates of a history are a list.
LEMMA CandidatesListed ==
    ASSUME NEW h, NEW m
    PROVE  CandidatesOf(h, m) \in Seq(ToSet(CandidatesOf(h, m)))
<1> DEFINE long == CASE m = "dense_research" -> Dense(h, "BUY")
                     [] m = "active_research" -> ActiveLong(h)
                     [] OTHER -> LongRules(h, m)
           short == CASE m = "dense_research" -> Dense(h, "SELL")
                      [] m = "active_research" -> ActiveShort(h)
                      [] OTHER -> ShortRules(h)
           first == IF SideMode = "short" THEN <<>> ELSE long
           second == IF SideMode = "long" THEN <<>> ELSE short
           signals == first \o second
           c == CandidatesOf(h, m)
<1>1. (\E T : Says(long, T, "BUY")) /\ (\E T : Says(short, T, "SELL"))
  BY RulesSay
<1>2. c = IF Len(h) < MinHistory THEN <<>> ELSE CandidatesFor(h, signals)
  BY Zenon DEF CandidatesOf
<1> HIDE DEF long, short, c
<1>3. (\E T : Says(first, T, "BUY")) /\ (\E T : Says(second, T, "SELL"))
  BY <1>1, NothingSaid
<1> HIDE DEF first, second
<1>4. PICK A : first \in Seq(A)
  BY <1>3 DEF Says
<1>5. PICK B : second \in Seq(B)
  BY <1>3 DEF Says
<1>6. signals \in Seq(A \cup B)
  <2>1. first \in Seq(A \cup B) /\ second \in Seq(A \cup B)
    BY <1>4, <1>5
  <2> QED  BY <2>1
<1> HIDE DEF signals
<1>7. \E n \in Nat : DOMAIN c = 1..n /\ c = [k \in DOMAIN c |-> c[k]]
  <2>1. DOMAIN signals = 1..Len(signals) /\ Len(signals) \in Nat
    BY <1>6, LenProperties
  <2>2. CASE Len(h) < MinHistory
    <3>1. c = <<>> /\ DOMAIN <<>> = 1..0 /\ <<>> = [k \in 1..0 |-> <<>>[k]]
      BY <1>2, <2>2
    <3> QED  BY <3>1
  <2>3. CASE ~ Len(h) < MinHistory
    <3>1. c = [k \in DOMAIN signals |-> Candidate(h, signals[k])]
      BY <1>2, <2>3 DEF CandidatesFor
    <3>2. DOMAIN c = 1..Len(signals) /\ c = [k \in DOMAIN c |-> c[k]]
      BY <2>1, <3>1
    <3> QED  BY <2>1, <3>2
  <2> QED  BY <2>2, <2>3
<1>8. PICK n \in Nat : DOMAIN c = 1..n /\ c = [k \in DOMAIN c |-> c[k]]
  BY <1>7
<1>9. \A k \in 1..n : c[k] \in ToSet(c)
  BY <1>8 DEF ToSet
<1>10. c \in [1..n -> ToSet(c)]
  BY <1>8, <1>9
<1>11. c \in Seq(ToSet(c))
  BY <1>10
<1> QED  BY <1>11 DEF c

\* A stretch of a stretch is one of the series.
LEMMA Nested ==
    ASSUME NEW s \in Seq(DataBar), NEW a \in Nat \ {0}, NEW b \in Nat, a <= b, b <= Len(s),
           NEW c \in Nat \ {0}, NEW i \in Nat, i <= b - a + 1
    PROVE  SubSeq(SubSeq(s, a, b), c, i) = SubSeq(s, a + c - 1, a + i - 1)
<1> DEFINE t == SubSeq(s, a, b)
           d == a + c - 1
           j == a + i - 1
           x == SubSeq(t, c, i)
           y == SubSeq(s, d, j)
<1>1. /\ t \in Seq(DataBar) /\ Len(t) = b - a + 1
      /\ \A k \in 1..Len(t) : t[k] = s[a + k - 1]
  BY Stretch
<1>2. d \in Nat \ {0} /\ j \in Nat /\ j <= Len(s) /\ i <= Len(t)
  <2>1. Len(s) \in Nat
    BY LenProperties
  <2> HIDE DEF t
  <2> QED  BY <1>1, <2>1
<1>3. d <= j <=> c <= i
  OBVIOUS
<1>4. j - d + 1 = i - c + 1
  OBVIOUS
<1> HIDE DEF t
<1>5. /\ x \in Seq(DataBar) /\ Len(x) = IF c <= i THEN i - c + 1 ELSE 0
      /\ \A k \in 1..Len(x) : x[k] = t[c + k - 1] /\ c + k - 1 \in c..i
  BY <1>1, <1>2, Stretch
<1> HIDE DEF x, d, j
<1>6. /\ y \in Seq(DataBar) /\ Len(y) = IF d <= j THEN j - d + 1 ELSE 0
      /\ \A k \in 1..Len(y) : y[k] = s[d + k - 1]
  BY <1>2, Stretch
<1>7. Len(x) = Len(y)
  BY <1>3, <1>4, <1>5, <1>6
<1>8. ASSUME NEW k \in 1..Len(x) PROVE x[k] = y[k]
  <2>1. c + k - 1 \in 1..Len(t) /\ a + (c + k - 1) - 1 = d + k - 1
    <3>1. c + k - 1 \in c..i
      BY <1>5
    <3>2. k \in Int
      OBVIOUS
    <3> QED  BY <1>2, <3>1, <3>2 DEF d
  <2>2. t[c + k - 1] = s[a + (c + k - 1) - 1]
    <3> DEFINE l == c + k - 1
    <3> HIDE DEF l
    <3>1. l \in 1..Len(t) => t[l] = s[a + l - 1]
      BY <1>1
    <3> QED  BY <2>1, <3>1 DEF l
  <2> QED  BY <1>5, <1>6, <1>7, <2>1, <2>2
<1> QED  BY <1>5, <1>6, <1>7, <1>8, SeqEqual DEF x, d, j, t

\* The times of a stretch are as many as it has bars.
LEMMA StretchTimes ==
    ASSUME NEW s \in Seq(DataBar), Rising(s), NEW a \in Nat \ {0}, NEW b \in Nat,
           a <= b, b <= Len(s)
    PROVE  /\ TimesOf(SubSeq(s, a, b)) = {s[k].at : k \in a..b}
           /\ Cardinality(TimesOf(SubSeq(s, a, b))) = b - a + 1
<1> DEFINE t == SubSeq(s, a, b)
           T == {s[k].at : k \in a..b}
<1>1. Len(s) \in Nat
  BY LenProperties
<1>2. /\ t \in Seq(DataBar) /\ Len(t) = b - a + 1
      /\ \A k \in 1..Len(t) : t[k] = s[a + k - 1] /\ a + k - 1 \in a..b
  BY Stretch
<1> HIDE DEF t
<1>3. DOMAIN t = 1..Len(t)
  BY <1>2, LenProperties
<1>4. TimesOf(t) = T
  <2>1. \A k \in DOMAIN t : \E j \in a..b : t[k].at = s[j].at
    BY <1>2, <1>3
  <2>2. ASSUME NEW j \in a..b PROVE \E k \in DOMAIN t : t[k].at = s[j].at
    <3> DEFINE k == j - a + 1
    <3>1. k \in 1..Len(t) /\ a + k - 1 = j
      BY <1>2
    <3> HIDE DEF k
    <3>2. t[k] = s[j]
      BY <1>2, <3>1
    <3> QED  BY <1>3, <3>1, <3>2
  <2>3. ASSUME NEW x \in TimesOf(t) PROVE x \in T
    <3>1. PICK k \in DOMAIN t : x = t[k].at
      BY DEF TimesOf
    <3> QED  BY <2>1, <3>1
  <2>4. ASSUME NEW x \in T PROVE x \in TimesOf(t)
    <3>1. PICK j \in a..b : x = s[j].at
      OBVIOUS
    <3> QED  BY <2>2, <3>1 DEF TimesOf
  <2> HIDE DEF T
  <2> QED  BY <2>3, <2>4
<1>5. Cardinality(T) = b - a + 1
  <2> DEFINE f == [k \in a..b |-> s[k].at]
  <2>1. \A k \in a..b : k \in 1..Len(s) /\ s[k].at \in Nat
    <3>1. \A k \in a..b : k \in 1..Len(s)
      BY <1>1
    <3> QED  BY <3>1, BarNumbers
  <2>2. \A j, k \in a..b : f[j] = f[k] => j = k
    <3> TAKE j, k \in a..b
    <3>1. j \in 1..Len(s) /\ k \in 1..Len(s) /\ s[j].at \in Nat /\ s[k].at \in Nat
      BY <2>1
    <3>2. j < k \/ k < j \/ j = k
      OBVIOUS
    <3> QED  BY <3>1, <3>2 DEF Rising
  <2>3. f \in Bijection(a..b, T)
    <3>1. f \in [a..b -> T] /\ \A x \in T : \E k \in a..b : f[k] = x
      OBVIOUS
    <3> HIDE DEF f, T
    <3> QED  BY <2>2, <3>1 DEF Bijection, Injection, Surjection, IsInjective
  <2>4. ExistsBijection(a..b, T)
    BY <2>3 DEF ExistsBijection
  <2>5. IsFiniteSet(a..b) /\ Cardinality(a..b) = b - a + 1
    BY FS_Interval
  <2> HIDE DEF T
  <2>6. Cardinality(T) = Cardinality(a..b)
    BY <2>4, <2>5, FS_Bijection
  <2> QED  BY <2>5, <2>6
<1> QED  BY <1>4, <1>5 DEF t

\* The volatility over a horizon is taken of the last returns
\* (_recent_return_volatility), and is the same where these are.
LEMMA SameVolatility ==
    ASSUME NEW h \in Seq(DataBar), NEW g \in Seq(DataBar),
           VolatilityLookback < Len(h), VolatilityLookback < Len(g),
           \A k \in 0..VolatilityLookback : h[Len(h) - k] = g[Len(g) - k]
    PROVE  \A horizon : HorizonVolatility(h, horizon) = HorizonVolatility(g, horizon)
<1> DEFINE v == VolatilityLookback
           a == Len(h) - v
           b == Len(g) - v
<1>1. v \in Nat /\ v > 1 /\ Len(h) \in Nat /\ Len(g) \in Nat
  BY DatasetAssumption, LenProperties DEF DatasetAssumption
<1>2. a \in Nat \ {0} /\ b \in Nat \ {0} /\ Len(h) >= 3 /\ Len(g) >= 3
  BY <1>1
<1>3. /\ Recent(h, v) \ {1} = (a + 1)..(a + v)
      /\ Recent(g, v) \ {1} = (b + 1)..(b + v)
  <2>1. DOMAIN h = 1..Len(h) /\ DOMAIN g = 1..Len(g)
    BY LenProperties
  <2>2. Len(h) = a + v /\ Len(g) = b + v /\ Len(h) - v = a /\ Len(g) - v = b
    BY <1>1
  <2>3. Recent(h, v) = {i \in 1..(a + v) : i > a} /\ Recent(g, v) = {i \in 1..(b + v) : i > b}
    BY <2>1, <2>2 DEF Recent
  <2> HIDE DEF a, b, v
  <2>4. {i \in 1..(a + v) : i > a} \ {1} = (a + 1)..(a + v)
    BY <1>1, <1>2
  <2>5. {i \in 1..(b + v) : i > b} \ {1} = (b + 1)..(b + v)
    BY <1>1, <1>2
  <2> QED  BY <2>3, <2>4, <2>5
<1>4. \A k \in 0..v : h[a + k] = g[b + k]
  <2> TAKE k \in 0..v
  <2>1. v - k \in 0..v /\ Len(h) - (v - k) = a + k /\ Len(g) - (v - k) = b + k
    BY <1>1
  <2> DEFINE l == v - k
  <2>2. h[Len(h) - l] = g[Len(g) - l]
    BY <2>1
  <2> QED  BY <2>1, <2>2
<1>5. \A k \in 1..v : /\ Return(h, a + k) = Return(g, b + k)
                      /\ Return(h, a + k) \in Int
  <2> TAKE k \in 1..v
  <2> DEFINE l == k - 1
             x == a + k
             y == b + k
  <2>1. k \in 0..v /\ l \in 0..v /\ x - 1 = a + l /\ y - 1 = b + l /\ x \in 2..Len(h)
    BY <1>1, <1>2
  <2>2. h[x] = g[y] /\ h[x - 1] = g[y - 1]
    BY <1>4, <2>1
  <2> HIDE DEF x, y
  <2>3. Return(h, x) = Return(g, y)
    BY <2>2 DEF Return
  <2>4. Return(h, x) \in Int
    BY <2>1, BarNumbers
  <2> QED  BY <2>3, <2>4 DEF x, y
<1> DEFINE S == (a + 1)..(a + v)
           T == (b + 1)..(b + v)
           f1 == [i \in S |-> Return(h, i)]
           g1 == [i \in T |-> Return(g, i)]
           f2 == [i \in S |-> Return(h, i) * Return(h, i)]
           g2 == [i \in T |-> Return(g, i) * Return(g, i)]
<1>6. \A k \in 1..v : a + k \in S /\ b + k \in T
  BY <1>1, <1>2
<1>7. \A k \in 1..v : f1[a + k] \in Int /\ f1[a + k] = g1[b + k]
  BY <1>5, <1>6
<1>8. \A k \in 1..v : f2[a + k] \in Int /\ f2[a + k] = g2[b + k]
  <2> TAKE k \in 1..v
  <2>1. /\ f2[a + k] = Return(h, a + k) * Return(h, a + k)
        /\ g2[b + k] = Return(g, b + k) * Return(g, b + k)
    BY <1>6
  <2> HIDE DEF f2, g2
  <2>2. Return(h, a + k) * Return(h, a + k) \in Int
    BY <1>5
  <2> QED  BY <1>5, <2>1, <2>2
<1>9. Cardinality(S) = v /\ Cardinality(T) = v
  BY <1>1, <1>2, FS_Interval
<1>10. /\ Variance(h, v) = Cardinality(S) * SumFunctionOnSet(f2, S)
                              - SumFunctionOnSet(f1, S) * SumFunctionOnSet(f1, S)
       /\ Variance(g, v) = Cardinality(T) * SumFunctionOnSet(g2, T)
                              - SumFunctionOnSet(g1, T) * SumFunctionOnSet(g1, T)
  BY <1>3, Zenon DEF Variance, SumOf
<1>11. SumFunctionOnSet(f1, S) = SumFunctionOnSet(g1, T)
       /\ SumFunctionOnSet(f2, S) = SumFunctionOnSet(g2, T)
  <2>1. a \in Int /\ b \in Int
    BY <1>2
  <2>2. v \in Nat
    BY <1>1
  <2> HIDE DEF f1, g1, f2, g2, a, b, v
  <2>3. Repeats(f1, g1, a, b, v)
    BY <1>7 DEF Repeats
  <2>4. Repeats(f2, g2, a, b, v)
    BY <1>8 DEF Repeats
  <2>5. SumFunctionOnSet(f1, (a + 1)..(a + v)) = SumFunctionOnSet(g1, (b + 1)..(b + v))
    BY <2>1, <2>2, <2>3, SumShifted
  <2>6. SumFunctionOnSet(f2, (a + 1)..(a + v)) = SumFunctionOnSet(g2, (b + 1)..(b + v))
    BY <2>1, <2>2, <2>4, SumShifted
  <2> QED  BY <2>5, <2>6
<1> HIDE DEF S, T, f1, g1, f2, g2, v, a, b
<1>12. Variance(h, v) = Variance(g, v)
  BY <1>9, <1>10, <1>11
<1>13. Smaller(v, Len(h) - 1) = v /\ Smaller(v, Len(g) - 1) = v
  BY <1>1 DEF Smaller, v
<1>14. ~ Len(h) < 3 /\ ~ Len(g) < 3
  BY <1>1, <1>2
<1> QED  BY <1>12, <1>13, <1>14, Zenon DEF HorizonVolatility, v

\* What a sample says of the event of bar j: the rules judged the window that ends
\* there, and features were computed from the history that ends there, neither of
\* them reaching back beyond bar a.
TellsOf(event, times, volatility, s, a, j) ==
    LET history == SubSeq(s, Larger(a, j + 1 - FeatureWindow), j) IN
    /\ event.at = s[j].at
    /\ event \in ToSet(CandidatesOf(SubSeq(s, Larger(a, j + 1 - WindowSize), j), mode))
    /\ times = TimesOf(history)
    /\ volatility = HorizonVolatility(history, event.horizon)

\* A scored sample (build_scoring_samples) tells of one of the bars that were kept.
LEMMA ScoredTells ==
    ASSUME NEW s \in Seq(DataBar), Rising(s),
           NEW a \in Nat \ {0}, NEW b \in Nat, a <= b, b <= Len(s),
           NEW v \in ScoringSamples(SubSeq(s, a, b))
    PROVE  \E j \in a..b : TellsOf(v.event, v.bars, v.volatility, s, a, j)
<1> DEFINE t == SubSeq(s, a, b)
           n == Len(t)
           onStride == {i \in DOMAIN t : OnStride(i)}
           recent == {i \in onStride :
                         Cardinality({j \in onStride : j > i}) < IndexBudget}
           lists == [i \in DOMAIN t |->
                        IF i \in recent THEN CandidatesAt(t, i, mode) ELSE <<>>]
           events == FlattenSeq(lists)
           last == LastOfSeq(LastOfSeq(events, 4 * MaxSamples), MaxSamples)
           A == UNION {ToSet(CandidatesOf(WindowAt(t, i), mode)) : i \in 1..n}
<1>1. /\ t \in Seq(DataBar) /\ n = b - a + 1 /\ n \in Nat
      /\ \A k \in 1..n : t[k] = s[a + k - 1] /\ a + k - 1 \in a..b
  BY Stretch
<1>2. DOMAIN t = 1..n
  BY <1>1, LenProperties
<1>3. PICK event \in ToSet(last) : v = Scored(t, event)
  <2>1. v \in IF n < 2 THEN {}
             ELSE {Scored(t, event) : event \in {e \in ToSet(last) : IndexOf(t, e) > 1}}
    BY Zenon DEF ScoringSamples
  <2> QED  BY <2>1
<1>4. \A i \in 1..n : lists[i] \in Seq(A)
  <2> TAKE i \in 1..n
  <2> DEFINE c == CandidatesOf(WindowAt(t, i), mode)
             C == {ToSet(CandidatesOf(WindowAt(t, k), mode)) : k \in 1..n}
  <2>1. c \in Seq(ToSet(c)) /\ ToSet(c) \subseteq A
    <3>1. c \in Seq(ToSet(c))
      BY CandidatesListed
    <3>2. ToSet(c) \in C
      OBVIOUS
    <3>3. ToSet(c) \subseteq UNION C
      BY <3>2, Zenon
    <3> QED  BY <3>1, <3>3
  <2>2. lists[i] = IF i \in recent THEN CandidatesAt(t, i, mode) ELSE <<>>
    BY <1>2
  <2>3. lists[i] = c \/ lists[i] = <<>>
    BY <2>2 DEF CandidatesAt
  <2> HIDE DEF c, A, lists
  <2>4. c \in Seq(A) /\ <<>> \in Seq(A)
    BY <2>1
  <2> QED  BY <2>3, <2>4
<1>5. lists \in [1..n -> Seq(A)]
  <2>1. lists = [i \in 1..n |-> lists[i]]
    BY <1>2
  <2> HIDE DEF lists, A
  <2> QED  BY <1>4, <2>1
<1> HIDE DEF lists, A
<1>6. events \in Seq(A)
  BY <1>1, <1>5, FlattenedIn
<1> HIDE DEF events
<1>7. last \in Seq(A)
  <2>1. MaxSamples \in Nat
    BY DatasetAssumption DEF DatasetAssumption
  <2>2. 4 * MaxSamples \in Nat
    BY <2>1
  <2>3. LastOfSeq(events, 4 * MaxSamples) \in Seq(A)
    BY <1>6, <2>2, LastIn
  <2> QED  BY <2>1, <2>3, LastIn
<1> HIDE DEF last
<1>8. event \in A
  <2>1. PICK k \in DOMAIN last : event = last[k]
    BY DEF ToSet
  <2>2. k \in 1..Len(last)
    BY <1>7, <2>1, LenProperties
  <2> QED  BY <1>7, <2>1, <2>2, ElementOfSeq
<1>9. PICK i \in 1..n : event \in ToSet(CandidatesOf(WindowAt(t, i), mode))
  BY <1>8 DEF A
<1>10. event.at = t[i].at
  <2>1. /\ WindowAt(t, i) \in Seq(DataBar) /\ WindowAt(t, i) # <<>>
        /\ Latest(WindowAt(t, i)) = t[i]
    BY <1>1, WindowFacts
  <2> QED  BY <1>9, <2>1, CandidateFacts
<1>11. IndexOf(t, event) = i
  <2>1. Rising(t)
    <3> SUFFICES ASSUME NEW k \in 1..n, NEW l \in 1..n, k < l PROVE t[k].at < t[l].at
      BY DEF Rising
    <3> DEFINE x == a + k - 1
               y == a + l - 1
    <3>1. x \in 1..Len(s) /\ y \in 1..Len(s) /\ x < y
      <4>1. Len(s) \in Nat
        BY LenProperties
      <4> HIDE DEF t
      <4> QED  BY <1>1, <4>1
    <3>2. t[k] = s[x] /\ t[l] = s[y]
      BY <1>1
    <3> HIDE DEF x, y, t, n
    <3> QED  BY <3>1, <3>2 DEF Rising
  <2> QED  BY <1>1, <1>10, <2>1, IndexFacts
<1> DEFINE j == a + i - 1
           history == HistoryAt(t, i)
<1>12. i \in Nat \ {0} /\ i <= b - a + 1 /\ j \in a..b /\ t[i] = s[j]
  <2>1. t[i] = s[j] /\ j \in a..b
    BY <1>1
  <2>2. i \in 1..n /\ n = b - a + 1 /\ n \in Nat
    BY <1>1
  <2> HIDE DEF t, n, j
  <2>3. i \in Nat \ {0} /\ i <= b - a + 1
    BY <2>2
  <2> QED  BY <2>1, <2>3
<1>13. ASSUME NEW m \in Int
       PROVE  SubSeq(t, Larger(1, i + 1 - m), i) = SubSeq(s, Larger(a, j + 1 - m), j)
  <2> DEFINE c == Larger(1, i + 1 - m)
  <2>1. c \in Nat \ {0}
    BY <1>12 DEF Larger
  <2>2. a + c - 1 = Larger(a, j + 1 - m)
    BY <1>12 DEF Larger
  <2> HIDE DEF c
  <2>3. SubSeq(t, c, i) = SubSeq(s, a + c - 1, a + i - 1)
    BY <1>12, <2>1, Nested
  <2> QED  BY <2>2, <2>3 DEF c
<1>14. WindowSize \in Int /\ FeatureWindow \in Int
  <2>1. WindowSize \in Nat
    BY WindowSizeNat
  <2> QED  BY <2>1, DataConstants
<1>15. /\ WindowAt(t, i) = SubSeq(s, Larger(a, j + 1 - WindowSize), j)
       /\ history = SubSeq(s, Larger(a, j + 1 - FeatureWindow), j)
  BY <1>13, <1>14 DEF WindowAt, HistoryAt
<1>16. /\ v.event = event /\ v.bars = TimesOf(history)
       /\ v.volatility = HorizonVolatility(history, event.horizon)
  <2>1. v = [event |-> event, at |-> event.at, bars |-> TimesOf(history),
             volatility |-> Geometry(event, history).volatility,
             delay |-> IF asof = "entry" THEN Interval ELSE 0,
             columns |-> EventColumns]
    BY <1>3, <1>11, Zenon DEF Scored
  <2>2. Geometry(event, history).volatility = HorizonVolatility(history, event.horizon)
    BY DEF Geometry
  <2> HIDE DEF history
  <2> QED  BY <2>1, <2>2
<1> HIDE DEF t, n, j, history
<1>17. TellsOf(event, v.bars, v.volatility, s, a, j)
  BY <1>9, <1>10, <1>12, <1>15, <1>16 DEF TellsOf
<1> QED  BY <1>12, <1>16, <1>17

\* A training sample (build_meta_label_samples) tells of a bar of its series.
LEMMA TrainedTells ==
    ASSUME NEW p \in Seq(DataBar), NEW s \in Seq(DataBar), GoesOn(p, s), Rising(s), NEW known,
           NEW x \in MetaLabelSamples(p, known)
    PROVE  \E j \in 1..Len(s) : TellsOf(x.event, x.reads.bars, x.volatility, s, 1, j)
<1>1. PICK e \in EventsOf(p, mode) : x = Labelled(p, IndexOf(p, e), e, known)
  BY DEF MetaLabelSamples
<1>2. PICK j \in 1..Len(p) : /\ e.at = p[j].at
                             /\ e \in ToSet(CandidatesOf(WindowAt(p, j), mode))
  BY EventAt
<1>3. Rising(p) /\ j \in 1..Len(s) /\ e.at = s[j].at
  <2>1. Len(p) \in Nat /\ Len(s) \in Nat
    BY LenProperties
  <2>2. \A i \in 1..Len(p) : i \in 1..Len(s) /\ p[i] = s[i]
    BY <2>1 DEF GoesOn
  <2> QED  BY <1>2, <2>2 DEF Rising
<1>4. IndexOf(p, e) = j
  BY <1>2, <1>3, IndexFacts
<1>5. WindowAt(p, j) = WindowAt(s, j) /\ HistoryAt(p, j) = HistoryAt(s, j)
  BY SameWindow
<1>6. /\ x.event = e /\ x.reads.bars = TimesOf(HistoryAt(s, j))
      /\ x.volatility = HorizonVolatility(HistoryAt(s, j), e.horizon)
  BY <1>1, <1>4, <1>5 DEF Labelled, Reads, Geometry
<1>7. TellsOf(e, x.reads.bars, x.volatility, s, 1, j)
  BY <1>2, <1>3, <1>5, <1>6, Zenon DEF TellsOf, WindowAt, HistoryAt
<1> QED  BY <1>3, <1>6, <1>7

\* ServedAsTrained, of two samples.
ServesAs(x, v) ==
    SameEvent(x.event, v.event) =>
        LET kept == Cardinality(v.bars) IN
        /\ v.bars \subseteq x.reads.bars
        /\ kept = FeatureWindow => v.bars = x.reads.bars
        /\ kept >= WindowSize => x.event = v.event
        /\ kept >= WindowSize /\ kept > VolatilityLookback => x.volatility = v.volatility

\* Two samples that tell of the same bar, of which one had fewer bars before it.
LEMMA TellTheSame ==
    ASSUME NEW s \in Seq(DataBar), Rising(s), NEW j \in 1..Len(s), NEW a \in 1..j,
           NEW e, NEW times, NEW volatility, TellsOf(e, times, volatility, s, 1, j),
           NEW f, NEW seen, NEW width, TellsOf(f, seen, width, s, a, j),
           SameEvent(e, f)
    PROVE  LET kept == Cardinality(seen) IN
           /\ seen \subseteq times
           /\ kept = FeatureWindow => seen = times
           /\ kept >= WindowSize => e = f
           /\ kept >= WindowSize /\ kept > VolatilityLookback => volatility = width
<1> DEFINE c == Larger(1, j + 1 - FeatureWindow)
           d == Larger(a, j + 1 - FeatureWindow)
           h == SubSeq(s, c, j)
           g == SubSeq(s, d, j)
           w == j + 1 - WindowSize
<1>1. Len(s) \in Nat /\ j \in Nat /\ j <= Len(s) /\ a \in Nat \ {0} /\ a <= j
  BY LenProperties
<1>2. /\ FeatureWindow \in Nat \ {0} /\ WindowSize \in Nat \ {0}
      /\ VolatilityLookback \in Nat
  <2>1. VolatilityLookback \in Nat
    BY DatasetAssumption DEF DatasetAssumption
  <2> QED  BY <2>1, DataConstants, WindowSizeNat
<1>3. c \in Nat \ {0} /\ d \in Nat \ {0} /\ c <= d /\ d <= j /\ a <= d
  BY <1>1, <1>2 DEF Larger
<1>4. /\ times = TimesOf(h) /\ volatility = HorizonVolatility(h, e.horizon)
      /\ seen = TimesOf(g) /\ width = HorizonVolatility(g, f.horizon)
      /\ e \in ToSet(CandidatesOf(SubSeq(s, Larger(1, w), j), mode))
      /\ f \in ToSet(CandidatesOf(SubSeq(s, Larger(a, w), j), mode))
  BY Zenon DEF TellsOf
<1>5. (j - d + 1 = FeatureWindow => c = d) /\ (j - d + 1 >= WindowSize => Larger(1, w) = Larger(a, w))
  BY <1>1, <1>2, <1>3 DEF Larger
<1>6. Larger(1, w) \in Nat \ {0} /\ Larger(1, w) <= j
  BY <1>1, <1>2 DEF Larger
<1> HIDE DEF c, d, w
<1>7. /\ times = {s[k].at : k \in c..j} /\ seen = {s[k].at : k \in d..j}
      /\ Cardinality(seen) = j - d + 1
  BY <1>1, <1>3, <1>4, StretchTimes
<1>8. seen \subseteq times
  <2>1. \A k \in d..j : k \in c..j
    BY <1>1, <1>3
  <2> QED  BY <1>7, <2>1
<1>9. Cardinality(seen) = FeatureWindow => seen = times
  BY <1>5, <1>7
<1>10. Cardinality(seen) >= WindowSize => e = f
  <2> SUFFICES ASSUME j - d + 1 >= WindowSize PROVE e = f
    BY <1>7
  <2> DEFINE t == SubSeq(s, Larger(1, w), j)
             x == Larger(1, w)
  <2>1. e \in ToSet(CandidatesOf(t, mode)) /\ f \in ToSet(CandidatesOf(t, mode))
    BY <1>4, <1>5
  <2>2. t \in Seq(DataBar) /\ t # <<>>
    <3> HIDE DEF x
    <3>1. SubSeq(s, x, j) \in Seq(DataBar) /\ Len(SubSeq(s, x, j)) = j - x + 1
      BY <1>1, <1>6, Stretch DEF x
    <3>2. j - x + 1 # 0 /\ Len(<<>>) = 0
      BY <1>1, <1>6 DEF x
    <3> QED  BY <3>1, <3>2 DEF x
  <2> HIDE DEF t
  <2> QED  BY <2>1, <2>2, CandidateFacts DEF SameEvent
<1>11. Cardinality(seen) >= WindowSize /\ Cardinality(seen) > VolatilityLookback
          => volatility = width
  <2> SUFFICES ASSUME j - d + 1 >= WindowSize, j - d + 1 > VolatilityLookback
               PROVE  volatility = width
    BY <1>7
  <2>1. e = f
    BY <1>7, <1>10
  <2>2. /\ h \in Seq(DataBar) /\ Len(h) = j - c + 1
        /\ g \in Seq(DataBar) /\ Len(g) = j - d + 1
        /\ \A k \in 1..Len(h) : h[k] = s[c + k - 1]
        /\ \A k \in 1..Len(g) : g[k] = s[d + k - 1]
    BY <1>1, <1>3, Stretch
  <2> HIDE DEF h, g
  <2>3. VolatilityLookback < Len(h) /\ VolatilityLookback < Len(g)
    BY <1>1, <1>2, <1>3, <2>2
  <2>4. \A k \in 0..VolatilityLookback : h[Len(h) - k] = g[Len(g) - k]
    <3> TAKE k \in 0..VolatilityLookback
    <3> DEFINE x == Len(h) - k
               y == Len(g) - k
    <3>1. /\ x \in 1..Len(h) /\ c + x - 1 = j - k
          /\ y \in 1..Len(g) /\ d + y - 1 = j - k
      BY <1>1, <1>2, <1>3, <2>2, <2>3
    <3> HIDE DEF x, y
    <3>2. h[x] = s[c + x - 1] /\ g[y] = s[d + y - 1]
      BY <2>2, <3>1
    <3> QED  BY <3>1, <3>2 DEF x, y
  <2>5. HorizonVolatility(h, e.horizon) = HorizonVolatility(g, e.horizon)
    BY <2>2, <2>3, <2>4, SameVolatility
  <2> QED  BY <1>4, <2>1, <2>5 DEF h, g
<1> QED  BY <1>8, <1>9, <1>10, <1>11

\* The samples there are of a scoring were made of a stretch of the bars.
ServedInv ==
    served # {} =>
        \E a \in Nat \ {0} : \E b \in Nat : \E t :
            /\ a <= b /\ b <= Len(bars) /\ t = SubSeq(bars, a, b)
            /\ served = ScoringSamples(t)

\* A scoring depends on the configuration, and otherwise on the bars it is of.
LEMMA SameScored ==
    ASSUME NEW t, mode' = mode, asof' = asof
    PROVE  ScoringSamples(t)' = ScoringSamples(t)
  BY DEF ScoringSamples, Scored

\* Bars that come later leave a stretch of the bars what it was.
LEMMA StretchGoesOn ==
    ASSUME NEW s \in Seq(DataBar), NEW r \in Seq(DataBar), GoesOn(s, r),
           NEW a \in Nat \ {0}, NEW b \in Nat, a <= b, b <= Len(s)
    PROVE  b <= Len(r) /\ SubSeq(r, a, b) = SubSeq(s, a, b)
<1> DEFINE t == SubSeq(s, a, b)
           u == SubSeq(r, a, b)
<1>1. /\ Len(s) \in Nat /\ Len(r) \in Nat /\ Len(s) <= Len(r)
      /\ \A i \in 1..Len(s) : s[i] = r[i]
  BY LenProperties DEF GoesOn
<1>2. b <= Len(r)
  BY <1>1
<1>3. /\ t \in Seq(DataBar) /\ Len(t) = b - a + 1 /\ Len(t) \in Nat
      /\ \A k \in 1..Len(t) : t[k] = s[a + k - 1] /\ a + k - 1 \in a..b
  BY Stretch
<1>4. /\ u \in Seq(DataBar) /\ Len(u) = b - a + 1 /\ Len(u) \in Nat
      /\ \A k \in 1..Len(u) : u[k] = r[a + k - 1] /\ a + k - 1 \in a..b
  <2>1. a \in Nat \ {0} /\ b \in Nat /\ b <= Len(r) /\ a <= b
    BY <1>2
  <2>2. u \in Seq(DataBar) /\ Len(u) = IF a <= b THEN b - a + 1 ELSE 0
    BY <2>1, Stretch
  <2>3. \A k \in 1..Len(u) : u[k] = r[a + k - 1] /\ a + k - 1 \in a..b
    BY <2>1, Stretch
  <2> HIDE DEF u
  <2> QED  BY <2>1, <2>2, <2>3
<1> HIDE DEF t, u
<1>5. \A j \in a..b : s[j] = r[j]
  BY <1>1
<1>6. \A k \in 1..Len(t) : t[k] = u[k]
  BY <1>3, <1>4, <1>5
<1>7. t = u
  BY <1>3, <1>4, <1>6, SeqEqual
<1> QED  BY <1>2, <1>7 DEF t, u

\* Steps that leave the scoring alone leave it one of a stretch of the bars.
LEMMA ServedKept ==
    ASSUME ServedInv, served' = served, mode' = mode, asof' = asof,
           bars \in Seq(DataBar), bars' \in Seq(DataBar), GoesOn(bars, bars')
    PROVE  ServedInv'
<1> SUFFICES ASSUME served' # {}
    PROVE  \E a \in Nat \ {0} : \E b \in Nat : \E t :
              /\ a <= b /\ b <= Len(bars') /\ t = SubSeq(bars', a, b)
              /\ served' = ScoringSamples(t)'
  BY DEF ServedInv
<1>1. PICK a \in Nat \ {0} : \E b \in Nat : \E t :
         /\ a <= b /\ b <= Len(bars) /\ t = SubSeq(bars, a, b)
         /\ served = ScoringSamples(t)
  BY DEF ServedInv
<1>2. PICK b \in Nat : \E t :
         /\ a <= b /\ b <= Len(bars) /\ t = SubSeq(bars, a, b)
         /\ served = ScoringSamples(t)
  BY <1>1
<1>3. PICK t : /\ a <= b /\ b <= Len(bars) /\ t = SubSeq(bars, a, b)
               /\ served = ScoringSamples(t)
  BY <1>2
<1>4. b <= Len(bars') /\ t = SubSeq(bars', a, b)
  BY <1>3, StretchGoesOn
<1>5. served' = ScoringSamples(t)'
  BY <1>3, SameScored
<1> QED  BY <1>3, <1>4, <1>5

\* No step makes the scoring one of something else than a stretch of the bars.
LEMMA ServedStep == DataInv /\ DataInv' /\ ServedInv /\ [DataNext]_dataVars => ServedInv'
<1> SUFFICES ASSUME DataInv, DataInv', ServedInv, [DataNext]_dataVars PROVE ServedInv'
  OBVIOUS
<1>1. bars \in Seq(DataBar) /\ bars' \in Seq(DataBar) /\ Len(bars) \in Nat /\ Len(bars') \in Nat
  BY LenProperties DEF DataInv
<1>2. ASSUME NEW shape \in Shapes[mode][Len(bars) + 1], NEW gap \in Gaps[mode],
             Arrive(shape, gap)
      PROVE  ServedInv'
  <2> DEFINE last == IF bars = <<>> THEN 10000 ELSE bars[Len(bars)].close
             b == [at |-> Now + gap + Interval, open |-> last + shape.open,
                   high |-> last + shape.high, low |-> last + shape.low,
                   close |-> last + shape.close, volume |-> shape.volume]
  <2>1. bars' = Append(bars, b)
    BY <1>2 DEF Arrive
  <2> HIDE DEF b
  <2>2. served' = served /\ mode' = mode /\ asof' = asof
    BY <1>2 DEF Arrive
  <2>3. Len(bars') = Len(bars) + 1 /\ \A i \in 1..Len(bars) : bars'[i] = bars[i]
    BY <1>1, <2>1
  <2>4. GoesOn(bars, bars')
    BY <1>1, <2>3 DEF GoesOn
  <2> QED  BY <1>1, <2>2, <2>4, ServedKept
<1>3. ASSUME UNCHANGED <<mode, asof, bars, served>> PROVE ServedInv'
  <2>1. GoesOn(bars, bars')
    BY <1>1, <1>3 DEF GoesOn
  <2> QED  BY <1>1, <1>3, <2>1, ServedKept
<1>4. ASSUME NEW f \in Families, NEW offset \in {0, Interval \div 2}, Observe(f, offset)
      PROVE  ServedInv'
  BY <1>3, <1>4 DEF Observe
<1>5. CASE BuildMetaLabelSamples
  BY <1>3, <1>5 DEF BuildMetaLabelSamples
<1>6. CASE BuildScoringSamples
  <2> DEFINE n == Len(bars)
             a == Larger(1, n - HistoryMax + 1)
             t == SubSeq(bars, a, n)
  <2>1. /\ n >= FirstIndex /\ served' = ScoringSamples(Kept)
        /\ mode' = mode /\ asof' = asof /\ bars' = bars
    BY <1>6 DEF BuildScoringSamples
  <2>2. a \in Nat \ {0} /\ n \in Nat /\ a <= n
    <3>1. HistoryMax \in Nat \ {0}
      BY DatasetAssumption DEF DatasetAssumption
    <3>2. FirstIndex \in Nat \ {0}
      <4>1. MinHistory \in Nat
        BY DataConstants
      <4> QED  BY <4>1 DEF FirstIndex, Larger
    <3> QED  BY <1>1, <2>1, <3>1, <3>2 DEF Larger
  <2>3. Kept = t
    BY DEF Kept, LastOfSeq
  <2> HIDE DEF a
  <2>4. PICK x \in Nat \ {0} : x = a
    BY <2>2
  <2>5. PICK y \in Nat : y = n
    BY <2>2
  <2>6. PICK z : z = t
    OBVIOUS
  <2>7. x <= y /\ y <= Len(bars') /\ z = SubSeq(bars', x, y)
    BY <2>1, <2>2, <2>4, <2>5, <2>6
  <2> HIDE DEF t, n
  <2>8. served' = ScoringSamples(z)'
    BY <2>1, <2>3, <2>6, SameScored
  <2> QED  BY <2>7, <2>8 DEF ServedInv
<1>7. CASE UNCHANGED dataVars
  BY <1>3, <1>7 DEF dataVars
<1> QED  BY <1>2, <1>4, <1>5, <1>6, <1>7 DEF DataNext

\* A scoring says of an event what the dataset does.
LEMMA ServedFromBars == DataInv /\ TrainedInv /\ ServedInv => ServedAsTrained
<1> SUFFICES ASSUME DataInv, TrainedInv, ServedInv, NEW x \in trained, NEW v \in served
             PROVE  ServesAs(x, v)
  BY DEF ServedAsTrained, ServesAs
<1> SUFFICES ASSUME SameEvent(x.event, v.event) PROVE ServesAs(x, v)
  BY DEF ServesAs
<1>1. PICK p \in Seq(DataBar) \ {<<>>} : \E known :
         /\ GoesOn(p, bars) /\ Observations(known)
         /\ Agree(known, feeds, Latest(p).at)
         /\ trained = MetaLabelSamples(p, known)
  BY DEF TrainedInv
<1>2. PICK known : GoesOn(p, bars) /\ trained = MetaLabelSamples(p, known)
  BY <1>1
<1>3. PICK a \in Nat \ {0} : \E b \in Nat : \E t :
         /\ a <= b /\ b <= Len(bars) /\ t = SubSeq(bars, a, b)
         /\ served = ScoringSamples(t)
  BY DEF ServedInv
<1>4. PICK b \in Nat :
         /\ a <= b /\ b <= Len(bars)
         /\ served = ScoringSamples(SubSeq(bars, a, b))
  BY <1>3
<1>5. bars \in Seq(DataBar) /\ Rising(bars) /\ Len(bars) \in Nat
  BY LenProperties DEF DataInv
<1>6. PICK j \in 1..Len(bars) : TellsOf(x.event, x.reads.bars, x.volatility, bars, 1, j)
  BY <1>2, <1>5, TrainedTells
<1>7. PICK k \in a..b : TellsOf(v.event, v.bars, v.volatility, bars, a, k)
  BY <1>4, <1>5, ScoredTells
<1>8. j = k
  <2>1. bars[j].at = bars[k].at
    BY <1>6, <1>7, Zenon DEF TellsOf, SameEvent
  <2>2. k \in 1..Len(bars)
    BY <1>4, <1>5, <1>7
  <2>3. j < k \/ k < j \/ j = k
    BY <1>5, <2>2
  <2>4. j < k => bars[j].at < bars[k].at
    BY <2>2, <1>5 DEF Rising
  <2>5. k < j => bars[k].at < bars[j].at
    BY <2>2, <1>5 DEF Rising
  <2>6. bars[j].at \in Nat
    BY <1>5, BarNumbers
  <2> QED  BY <2>1, <2>3, <2>4, <2>5, <2>6
<1>9. a \in 1..j
  BY <1>5, <1>7, <1>8
<1> QED  BY <1>5, <1>6, <1>7, <1>8, <1>9, TellTheSame DEF ServesAs

\* ServedAsTrained, for every series of bars: what a live run (build_scoring_samples)
\* makes of an event is what a model was trained on (build_meta_label_samples).
THEOREM ServesTheSame == DataSpec => []ServedAsTrained
<1>1. DataInit => TrainedInv /\ ServedInv
  BY DEF DataInit, TrainedInv, ServedInv
<1>2. DataInv /\ TrainedInv /\ [DataNext]_dataVars => TrainedInv'
  BY TrainedStep
<1>3. DataInv /\ DataInv' /\ ServedInv /\ [DataNext]_dataVars => ServedInv'
  BY ServedStep
<1>4. DataInv /\ TrainedInv /\ ServedInv => ServedAsTrained
  BY ServedFromBars
<1> QED  BY <1>1, <1>2, <1>3, <1>4, DataInvariant, PTL DEF DataSpec

------------------------------------------------------------------------------
(* The window: what the rules see of a series decides them *)

\* The bars of t are the last of h, each d further on.
EndsAlike(t, h, d) ==
    /\ t \in Seq(DataBar) /\ h \in Seq(DataBar) /\ d \in Nat
    /\ Len(h) = Len(t) + d
    /\ \A i \in 1..Len(t) : h[i + d] = t[i]

\* So are their ranges, and their returns but for the first.
LEMMA AlikeBars ==
    ASSUME NEW t, NEW h, NEW d, EndsAlike(t, h, d)
    PROVE  /\ Len(t) \in Nat /\ Len(h) \in Nat /\ d \in Nat /\ Len(h) = Len(t) + d
           /\ DOMAIN t = 1..Len(t) /\ DOMAIN h = 1..Len(h)
           /\ \A i \in 1..Len(t) :
                 /\ h[i + d] = t[i] /\ RangeAt(h, i + d) = RangeAt(t, i)
                 /\ RangeAt(t, i) \in Int
                 /\ t[i].close \in Nat /\ t[i].volume \in Nat
           /\ \A i \in 2..Len(t) :
                 /\ h[i + d - 1] = t[i - 1] /\ Return(h, i + d) = Return(t, i)
                 /\ Return(t, i) \in Int
<1>1. /\ Len(t) \in Nat /\ Len(h) \in Nat /\ d \in Nat /\ Len(h) = Len(t) + d
      /\ DOMAIN t = 1..Len(t) /\ DOMAIN h = 1..Len(h)
  BY BarNumbers DEF EndsAlike
<1>2. \A i \in 1..Len(t) : h[i + d] = t[i] /\ RangeAt(h, i + d) = RangeAt(t, i)
  BY DEF EndsAlike, RangeAt
<1>3. \A i \in 1..Len(t) :
         RangeAt(t, i) \in Int /\ t[i].close \in Nat /\ t[i].volume \in Nat
  <2>1. \A i \in 1..Len(t) : RangeAt(t, i) \in Int /\ t[i] \in DataBar
    BY BarNumbers DEF EndsAlike
  <2> QED  BY <2>1 DEF DataBar
<1>4. \A i \in 2..Len(t) :
         /\ h[i + d - 1] = t[i - 1] /\ Return(h, i + d) = Return(t, i)
         /\ Return(t, i) \in Int
  <2> TAKE i \in 2..Len(t)
  <2> DEFINE j == i - 1
             k == i + d
  <2>1. /\ j \in 1..Len(t) /\ i \in 1..Len(t)
        /\ j + d = k - 1 /\ j + d = i + d - 1
    BY <1>1
  <2>2. h[j + d] = t[j] /\ h[k] = t[i]
    BY <1>2, <2>1
  <2>3. Return(t, i) \in Int
    BY BarNumbers DEF EndsAlike
  <2>4. h[i + d - 1] = t[i - 1]
    <3> HIDE DEF k
    <3>1. h[i + d - 1] = t[j]
      BY <2>1, <2>2
    <3> QED  BY <3>1
  <2> HIDE DEF k
  <2>5. Return(h, k) = Return(t, i)
    BY <2>1, <2>2 DEF Return
  <2> QED  BY <2>3, <2>4, <2>5 DEF k
<1> QED  BY <1>1, <1>2, <1>3, <1>4

\* Counted from their ends they are the same.
LEMMA AlikeFromEnd ==
    ASSUME NEW t, NEW h, NEW d, EndsAlike(t, h, d)
    PROVE  /\ \A k \in Nat : k < Len(t) => h[Len(h) - k] = t[Len(t) - k]
           /\ \A k \in Nat \ {0} : k <= Len(t) => h[Len(h) - k + 1] = t[Len(t) - k + 1]
<1>1. /\ Len(t) \in Nat /\ Len(h) = Len(t) + d /\ d \in Nat
      /\ \A i \in 1..Len(t) : h[i + d] = t[i]
  BY AlikeBars
<1>2. ASSUME NEW k \in Nat, k < Len(t) PROVE h[Len(h) - k] = t[Len(t) - k]
  <2> DEFINE i == Len(t) - k
  <2>1. i \in 1..Len(t) /\ Len(h) - k = i + d
    BY <1>1, <1>2
  <2> HIDE DEF i
  <2>2. h[i + d] = t[i]
    BY <1>1, <2>1
  <2> QED  BY <2>1, <2>2 DEF i
<1>3. ASSUME NEW k \in Nat \ {0}, k <= Len(t)
      PROVE  h[Len(h) - k + 1] = t[Len(t) - k + 1]
  <2> DEFINE i == Len(t) - k + 1
  <2>1. i \in 1..Len(t) /\ Len(h) - k + 1 = i + d
    BY <1>1, <1>3
  <2> HIDE DEF i
  <2>2. h[i + d] = t[i]
    BY <1>1, <2>1
  <2> QED  BY <2>1, <2>2 DEF i
<1> QED  BY <1>2, <1>3

\* The last bars, and those before the last, are the same ones.
LEMMA AlikeStretches ==
    ASSUME NEW t, NEW h, NEW d, EndsAlike(t, h, d), NEW n \in Nat
    PROVE  /\ n <= Len(t) => Recent(h, n) = Moved(Recent(t, n), d)
           /\ n < Len(t) => Prior(h, n) = Moved(Prior(t, n), d)
           /\ n < Len(t) => 1 \notin Recent(t, n) /\ 1 \notin Recent(h, n)
           /\ Recent(t, n) \subseteq 1..Len(t) /\ Prior(t, n) \subseteq 1..Len(t)
<1>1. /\ Len(t) \in Nat /\ Len(h) = Len(t) + d /\ d \in Nat /\ Len(h) \in Nat
      /\ DOMAIN t = 1..Len(t) /\ DOMAIN h = 1..Len(h)
  BY AlikeBars
<1> DEFINE l == Len(t)
           m == Len(h)
<1>2. /\ Recent(t, n) = {i \in 1..l : i > l - n} /\ Recent(h, n) = {i \in 1..m : i > m - n}
      /\ Prior(t, n) = {i \in 1..l : i >= l - n /\ i < l}
      /\ Prior(h, n) = {i \in 1..m : i >= m - n /\ i < m}
  BY <1>1 DEF Recent, Prior
<1>3. l \in Nat /\ m = l + d /\ d \in Nat /\ m \in Nat
  BY <1>1
<1> HIDE DEF l, m
<1>4. ASSUME NEW j \in 1..m, j > d PROVE j - d \in 1..l /\ j = (j - d) + d /\ j - d \in Int
  BY <1>3, <1>4
<1>5. \A i \in 1..l : i + d \in 1..m /\ i + d > d
  BY <1>3
<1>6. ASSUME n <= l PROVE Recent(h, n) = Moved(Recent(t, n), d)
  <2>1. ASSUME NEW j \in Recent(h, n) PROVE j \in Moved(Recent(t, n), d)
    <3>1. j \in 1..m /\ j > m - n
      BY <1>2, <2>1
    <3>2. j > d /\ j - d > l - n
      BY <1>3, <1>6, <3>1
    <3> QED  BY <1>2, <1>4, <3>1, <3>2 DEF Moved
  <2>2. ASSUME NEW j \in Moved(Recent(t, n), d) PROVE j \in Recent(h, n)
    <3>1. PICK i \in Recent(t, n) : j = i + d
      BY DEF Moved
    <3>2. i \in 1..l /\ i > l - n
      BY <1>2
    <3>3. j > m - n
      BY <1>3, <3>1, <3>2
    <3> QED  BY <1>2, <1>5, <3>1, <3>2, <3>3
  <2> QED  BY <2>1, <2>2
<1>7. ASSUME n < l PROVE Prior(h, n) = Moved(Prior(t, n), d)
  <2>1. ASSUME NEW j \in Prior(h, n) PROVE j \in Moved(Prior(t, n), d)
    <3>1. j \in 1..m /\ j >= m - n /\ j < m
      BY <1>2, <2>1
    <3>2. j > d /\ j - d >= l - n /\ j - d < l
      BY <1>3, <1>7, <3>1
    <3> QED  BY <1>2, <1>4, <3>1, <3>2 DEF Moved
  <2>2. ASSUME NEW j \in Moved(Prior(t, n), d) PROVE j \in Prior(h, n)
    <3>1. PICK i \in Prior(t, n) : j = i + d
      BY DEF Moved
    <3>2. i \in 1..l /\ i >= l - n /\ i < l
      BY <1>2
    <3>3. j >= m - n /\ j < m
      BY <1>3, <3>1, <3>2
    <3> QED  BY <1>2, <1>5, <3>1, <3>2, <3>3
  <2> QED  BY <2>1, <2>2
<1>8. n < l => 1 \notin Recent(t, n) /\ 1 \notin Recent(h, n)
  BY <1>2, <1>3
<1>9. Recent(t, n) \subseteq 1..l /\ Prior(t, n) \subseteq 1..l
  BY <1>2
<1> QED  BY <1>6, <1>7, <1>8, <1>9 DEF l

\* The last of the bars of a set are the same ones.
LEMMA AlikeLast ==
    ASSUME NEW S \in SUBSET Int, IsFiniteSet(S), NEW d \in Int, NEW n
    PROVE  /\ LastOf(Moved(S, d), n) = Moved(LastOf(S, n), d)
           /\ LastOf(S, n) \subseteq S /\ IsFiniteSet(LastOf(S, n))
<1> DEFINE A(T, i) == {j \in T : j >= i}
<1>1. ASSUME NEW i \in S
      PROVE  Cardinality(A(Moved(S, d), i + d)) = Cardinality(A(S, i))
  <2>1. A(Moved(S, d), i + d) = Moved(A(S, i), d)
    <3>1. ASSUME NEW j \in A(Moved(S, d), i + d) PROVE j \in Moved(A(S, i), d)
      <4>1. PICK k \in S : j = k + d
        BY DEF Moved
      <4>2. k >= i
        BY <4>1
      <4> QED  BY <4>1, <4>2 DEF Moved
    <3>2. ASSUME NEW j \in Moved(A(S, i), d) PROVE j \in A(Moved(S, d), i + d)
      <4>1. PICK k \in S : k >= i /\ j = k + d
        BY DEF Moved
      <4>2. j >= i + d
        BY <4>1
      <4> QED  BY <4>1, <4>2 DEF Moved
    <3> QED  BY <3>1, <3>2
  <2>2. A(S, i) \in SUBSET Int /\ IsFiniteSet(A(S, i))
    BY FS_Subset
  <2> HIDE DEF A
  <2> QED  BY <2>1, <2>2, MovedCount
<1>2. \A T : LastOf(T, n) = {i \in T : Cardinality(A(T, i)) <= n}
  BY Zenon DEF LastOf
<1> HIDE DEF A
<1>3. ASSUME NEW j \in LastOf(Moved(S, d), n) PROVE j \in Moved(LastOf(S, n), d)
  <2>1. j \in Moved(S, d) /\ Cardinality(A(Moved(S, d), j)) <= n
    BY <1>2
  <2>2. PICK i \in S : j = i + d
    BY <2>1 DEF Moved
  <2>3. i \in LastOf(S, n)
    BY <1>1, <1>2, <2>1, <2>2
  <2> QED  BY <2>2, <2>3 DEF Moved
<1>4. ASSUME NEW j \in Moved(LastOf(S, n), d) PROVE j \in LastOf(Moved(S, d), n)
  <2>1. PICK i \in LastOf(S, n) : j = i + d
    BY DEF Moved
  <2>2. i \in S /\ Cardinality(A(S, i)) <= n
    BY <1>2
  <2>3. j \in Moved(S, d)
    BY <2>1, <2>2 DEF Moved
  <2> QED  BY <1>1, <1>2, <2>1, <2>2, <2>3
<1>5. LastOf(S, n) \subseteq S
  BY <1>2
<1> QED  BY <1>3, <1>4, <1>5, FS_Subset

\* Sums and means over the bars of a set, as the rules take them.
CloseMean(h, S)  == MeanOf(LAMBDA i : h[i].close, S)
VolumeMean(h, S) == MeanOf(LAMBDA i : h[i].volume, S)
VolumeSum(h, S)  == SumOf(LAMBDA i : h[i].volume, S)
PathSum(h, S)    == SumOf(LAMBDA i : Abs(h[i].close - h[i - 1].close), S)
ReturnSum(h, S)  == SumOf(LAMBDA i : Return(h, i), S)
SquareSum(h, S)  == SumOf(LAMBDA i : Return(h, i) * Return(h, i), S)

\* What is measured of the bars T of h is what is of the bars S of t.
SameOf(h, T, t, S) ==
    /\ HighOf(h, T) = HighOf(t, S) /\ LowOf(h, T) = LowOf(t, S)
    /\ MeanRange(h, T) = MeanRange(t, S)
    /\ CloseMean(h, T) = CloseMean(t, S)
    /\ VolumeMean(h, T) = VolumeMean(t, S) /\ VolumeSum(h, T) = VolumeSum(t, S)

\* The least and greatest prices, sums and means are those of the bars they
\* are moved to.
LEMMA AlikeMeasures ==
    ASSUME NEW t, NEW h, NEW d, EndsAlike(t, h, d), NEW S \in SUBSET (1..Len(t))
    PROVE  SameOf(h, Moved(S, d), t, S)
<1> DEFINE T == Moved(S, d)
<1>1. /\ Len(t) \in Nat /\ d \in Int
      /\ \A i \in S : /\ h[i + d] = t[i] /\ RangeAt(h, i + d) = RangeAt(t, i)
                      /\ RangeAt(t, i) \in Int
                      /\ t[i].close \in Int /\ t[i].volume \in Int
  BY AlikeBars
<1>2. S \in SUBSET Int /\ IsFiniteSet(S)
  <2>1. IsFiniteSet(1..Len(t))
    BY <1>1, FS_Interval
  <2>2. IsFiniteSet(S)
    BY <2>1, FS_Subset
  <2> QED  BY <1>1, <2>2
<1>3. Cardinality(T) = Cardinality(S)
  BY <1>1, <1>2, MovedCount
<1>4. \A i \in S : i + d \in T
  BY DEF Moved
<1>5. \A j \in T : \E i \in S : j = i + d
  BY DEF Moved
<1> HIDE DEF T
<1>6. HighOf(h, T) = HighOf(t, S)
  <2>1. {h[j].high : j \in T} = {t[i].high : i \in S}
    BY <1>1, <1>4, <1>5
  <2> QED  BY <2>1, Zenon DEF HighOf
<1>7. LowOf(h, T) = LowOf(t, S)
  <2>1. {h[j].low : j \in T} = {t[i].low : i \in S}
    BY <1>1, <1>4, <1>5
  <2> QED  BY <2>1, Zenon DEF LowOf
<1>8. ASSUME NEW f, NEW g, \A i \in S : f[i] \in Int /\ g[i + d] = f[i]
      PROVE  SumFunctionOnSet(g, T) = SumFunctionOnSet(f, S)
  <2>1. Carries(f, g, S, d)
    BY <1>8 DEF Carries
  <2> QED  BY <1>1, <1>2, <2>1, SumMoved DEF T
<1>9. SumOf(LAMBDA i : RangeAt(h, i), T) = SumOf(LAMBDA i : RangeAt(t, i), S)
  <2> DEFINE f == [i \in S |-> RangeAt(t, i)]
             g == [i \in T |-> RangeAt(h, i)]
  <2>1. \A i \in S : f[i] \in Int /\ g[i + d] = f[i]
    BY <1>1, <1>4
  <2> HIDE DEF f, g
  <2>2. SumFunctionOnSet(g, T) = SumFunctionOnSet(f, S)
    BY <1>8, <2>1
  <2> QED  BY <2>2, Zenon DEF SumOf, f, g
<1>10. SumOf(LAMBDA i : h[i].close, T) = SumOf(LAMBDA i : t[i].close, S)
  <2> DEFINE f == [i \in S |-> t[i].close]
             g == [i \in T |-> h[i].close]
  <2>1. \A i \in S : f[i] \in Int /\ g[i + d] = f[i]
    BY <1>1, <1>4
  <2> HIDE DEF f, g
  <2>2. SumFunctionOnSet(g, T) = SumFunctionOnSet(f, S)
    BY <1>8, <2>1
  <2> QED  BY <2>2, Zenon DEF SumOf, f, g
<1>11. SumOf(LAMBDA i : h[i].volume, T) = SumOf(LAMBDA i : t[i].volume, S)
  <2> DEFINE f == [i \in S |-> t[i].volume]
             g == [i \in T |-> h[i].volume]
  <2>1. \A i \in S : f[i] \in Int /\ g[i + d] = f[i]
    BY <1>1, <1>4
  <2> HIDE DEF f, g
  <2>2. SumFunctionOnSet(g, T) = SumFunctionOnSet(f, S)
    BY <1>8, <2>1
  <2> QED  BY <2>2, Zenon DEF SumOf, f, g
<1>12. MeanRange(h, T) = MeanRange(t, S)
  BY <1>3, <1>9, Zenon DEF MeanRange, MeanOf
<1>13. CloseMean(h, T) = CloseMean(t, S)
  BY <1>3, <1>10, Zenon DEF MeanOf, CloseMean
<1>14. VolumeMean(h, T) = VolumeMean(t, S)
  BY <1>3, <1>11, Zenon DEF MeanOf, VolumeMean
<1>15. VolumeSum(h, T) = VolumeSum(t, S)
  BY <1>11, Zenon DEF VolumeSum
<1> QED  BY <1>6, <1>7, <1>12, <1>13, <1>14, <1>15 DEF T, SameOf

\* The ranges of the bars T of h have the ranks of those of the bars S of t,
\* and as many are no wider than another.
SameRanks(h, T, t, S) ==
    /\ Cardinality(T) = Cardinality(S)
    /\ \A r : Cardinality({i \in T : RangeAt(h, i) <= r})
                = Cardinality({i \in S : RangeAt(t, i) <= r})
    /\ \A rank : Ranked(h, T, rank) = Ranked(t, S, rank)
    /\ MedianRange(h, T) = MedianRange(t, S)
    /\ \A q : Quantile(h, T, q) = Quantile(t, S, q)

\* So it is for bars that are moved, and the wider ones move too.
LEMMA AlikeRanks ==
    ASSUME NEW t, NEW h, NEW d, EndsAlike(t, h, d), NEW S \in SUBSET (1..Len(t))
    PROVE  /\ SameRanks(h, Moved(S, d), t, S)
           /\ \A r : {i \in Moved(S, d) : RangeAt(h, i) > r}
                        = Moved({i \in S : RangeAt(t, i) > r}, d)
<1> DEFINE T == Moved(S, d)
<1>1. /\ Len(t) \in Nat /\ d \in Int
      /\ \A i \in S : RangeAt(h, i + d) = RangeAt(t, i)
  BY AlikeBars
<1>2. S \in SUBSET Int /\ IsFiniteSet(S)
  <2>1. IsFiniteSet(1..Len(t))
    BY <1>1, FS_Interval
  <2>2. IsFiniteSet(S)
    BY <2>1, FS_Subset
  <2> QED  BY <1>1, <2>2
<1>3. ASSUME NEW U \in SUBSET S
      PROVE  Cardinality(Moved(U, d)) = Cardinality(U)
  <2>1. U \in SUBSET Int /\ IsFiniteSet(U)
    BY <1>2, FS_Subset
  <2> QED  BY <1>1, <2>1, MovedCount
<1>4. Cardinality(T) = Cardinality(S)
  BY <1>3
<1>5. \A r : /\ {i \in T : RangeAt(h, i) <= r} = Moved({i \in S : RangeAt(t, i) <= r}, d)
             /\ {i \in T : RangeAt(h, i) < r} = Moved({i \in S : RangeAt(t, i) < r}, d)
             /\ {i \in T : RangeAt(h, i) > r} = Moved({i \in S : RangeAt(t, i) > r}, d)
  BY <1>1 DEF Moved
<1>6. \A r : /\ Cardinality({i \in T : RangeAt(h, i) <= r})
                    = Cardinality({i \in S : RangeAt(t, i) <= r})
             /\ Cardinality({i \in T : RangeAt(h, i) < r})
                    = Cardinality({i \in S : RangeAt(t, i) < r})
  BY <1>3, <1>5
<1>7. {RangeAt(h, i) : i \in T} = {RangeAt(t, i) : i \in S}
  BY <1>1 DEF Moved
<1> HIDE DEF T
<1>8. \A rank : Ranked(h, T, rank) = Ranked(t, S, rank)
  <2> TAKE rank
  <2> DEFINE P(r) == /\ Cardinality({i \in T : RangeAt(h, i) < r}) <= rank
                     /\ Cardinality({i \in T : RangeAt(h, i) <= r}) > rank
             Q(r) == /\ Cardinality({i \in S : RangeAt(t, i) < r}) <= rank
                     /\ Cardinality({i \in S : RangeAt(t, i) <= r}) > rank
             R == {RangeAt(t, i) : i \in S}
  <2>1. \A r : P(r) <=> Q(r)
    BY <1>6
  <2>2. Ranked(h, T, rank) = CHOOSE r \in R : P(r)
    BY <1>7, Zenon DEF Ranked
  <2>3. Ranked(t, S, rank) = CHOOSE r \in R : Q(r)
    BY Zenon DEF Ranked
  <2> HIDE DEF P, Q, R
  <2>4. (CHOOSE r \in R : P(r)) = (CHOOSE r \in R : Q(r))
    BY <2>1, Zenon
  <2> QED  BY <2>2, <2>3, <2>4
<1>9. MedianRange(h, T) = MedianRange(t, S) /\ \A q : Quantile(h, T, q) = Quantile(t, S, q)
  BY <1>4, <1>8 DEF MedianRange, Quantile
<1> QED  BY <1>4, <1>5, <1>6, <1>8, <1>9 DEF T, SameRanks

\* A measure over n bars is the same of both.
SameOver(t, h, n) ==
    /\ Sma(h, n) = Sma(t, n)
    /\ HighOf(h, Prior(h, n)) = HighOf(t, Prior(t, n))
    /\ LowOf(h, Prior(h, n)) = LowOf(t, Prior(t, n))
    /\ HighOf(h, Recent(h, n)) = HighOf(t, Recent(t, n))
    /\ LowOf(h, Recent(h, n)) = LowOf(t, Recent(t, n))
    /\ MeanRange(h, Prior(h, n)) = MeanRange(t, Prior(t, n))
    /\ MeanRange(h, Recent(h, n)) = MeanRange(t, Recent(t, n))
    /\ MedianRange(h, Prior(h, n)) = MedianRange(t, Prior(t, n))
    /\ VolumeMean(h, Prior(h, n)) = VolumeMean(t, Prior(t, n))
    /\ \A m : /\ MeanRange(h, LastOf(Prior(h, n), m)) = MeanRange(t, LastOf(Prior(t, n), m))
              /\ HighOf(h, LastOf(Prior(h, n), m)) = HighOf(t, LastOf(Prior(t, n), m))
              /\ LowOf(h, LastOf(Prior(h, n), m)) = LowOf(t, LastOf(Prior(t, n), m))
    /\ \A q : Compressed(h, Prior(h, n), q) = Compressed(t, Prior(t, n), q)
    /\ VolumeRatio(h, n) = VolumeRatio(t, n) /\ Efficiency(h, n) = Efficiency(t, n)
    /\ Variance(h, n) = Variance(t, n)
    /\ ReturnSum(h, Recent(h, n) \ {1}) = ReturnSum(t, Recent(t, n) \ {1})

\* That is so as soon as there are more bars than that.
LEMMA AlikeOver ==
    ASSUME NEW t, NEW h, NEW d, EndsAlike(t, h, d), NEW n \in Nat \ {0}, n < Len(t)
    PROVE  SameOver(t, h, n)
<1> DEFINE R == Recent(t, n)
           P == Prior(t, n)
<1>1. /\ Recent(h, n) = Moved(R, d) /\ Prior(h, n) = Moved(P, d)
      /\ 1 \notin R /\ 1 \notin Recent(h, n)
      /\ R \subseteq 1..Len(t) /\ P \subseteq 1..Len(t)
  <2>1. n \in Nat /\ n <= Len(t)
    BY AlikeBars
  <2> QED  BY <2>1, AlikeStretches
<1>2. /\ Len(t) \in Nat /\ Len(h) \in Nat /\ d \in Int /\ Len(h) = Len(t) + d
      /\ \A i \in 1..Len(t) : h[i + d] = t[i] /\ t[i].close \in Nat
      /\ \A i \in 2..Len(t) : /\ h[i + d - 1] = t[i - 1] /\ Return(h, i + d) = Return(t, i)
                              /\ Return(t, i) \in Int
  BY AlikeBars
<1>3. R \in SUBSET Int /\ IsFiniteSet(R) /\ P \in SUBSET Int /\ IsFiniteSet(P)
  <2>1. IsFiniteSet(1..Len(t))
    <3>1. Len(t) \in Int /\ 1 \in Int
      BY <1>2
    <3> QED  BY <3>1, FS_Interval
  <2>2. IsFiniteSet(R) /\ IsFiniteSet(P)
    BY <1>1, <2>1, FS_Subset
  <2> QED  BY <1>1, <1>2, <2>2
<1>4. \A i \in R : i \in 2..Len(t) /\ i \in 1..Len(t)
  <2>1. \A i \in R : i \in 1..Len(t) /\ i # 1
    BY <1>1
  <2> HIDE DEF R
  <2> QED  BY <1>2, <2>1
<1> HIDE DEF R, P
<1>5. Cardinality(Moved(R, d)) = Cardinality(R) /\ SameOf(h, Moved(R, d), t, R)
  <2>1. R \in SUBSET (1..Len(t))
    BY <1>1
  <2>2. Cardinality(Moved(R, d)) = Cardinality(R)
    BY <1>2, <1>3, MovedCount
  <2> QED  BY <2>1, <2>2, AlikeMeasures
<1>6. SameOf(h, Moved(P, d), t, P) /\ SameRanks(h, Moved(P, d), t, P)
  <2>1. P \in SUBSET (1..Len(t))
    BY <1>1
  <2> QED  BY <2>1, AlikeMeasures, AlikeRanks
<1>7. ASSUME NEW m
      PROVE  SameOf(h, LastOf(Moved(P, d), m), t, LastOf(P, m))
  <2> DEFINE L == LastOf(P, m)
  <2>1. LastOf(Moved(P, d), m) = Moved(L, d) /\ L \subseteq P
    BY <1>2, <1>3, AlikeLast
  <2>2. L \in SUBSET (1..Len(t))
    BY <1>1, <2>1
  <2> HIDE DEF L
  <2>3. SameOf(h, Moved(L, d), t, L)
    BY <2>2, AlikeMeasures
  <2> QED  BY <2>1, <2>3 DEF L
<1>8. \A q : Compressed(h, Moved(P, d), q) = Compressed(t, P, q)
  BY <1>6, <1>7 DEF Compressed, SameOf, SameRanks
<1>9. Latest(h) = Latest(t) /\ h[Len(h) - n] = t[Len(t) - n]
  <2>1. \A k \in Nat : k < Len(t) => h[Len(h) - k] = t[Len(t) - k]
    BY AlikeFromEnd
  <2>2. h[Len(h) - 0] = t[Len(t) - 0]
    BY <1>2, <2>1
  <2>3. h[Len(h)] = t[Len(t)]
    BY <1>2, <2>2
  <2> QED  BY <2>1, <2>3 DEF Latest
<1>10. ~ Len(h) < n + 1 /\ ~ Len(t) < n + 1
  <2>1. d \in Nat
    BY AlikeBars
  <2> QED  BY <1>2, <2>1
<1>11. VolumeRatio(h, n) = VolumeRatio(t, n)
  <2>1. VolumeSum(h, Prior(h, n)) = VolumeSum(t, Prior(t, n))
    BY <1>1, <1>6 DEF SameOf, P
  <2> QED  BY <1>9, <1>10, <2>1, ZenonT(60) DEF VolumeRatio, VolumeSum
<1>12. ASSUME NEW f, NEW g, \A i \in R : f[i] \in Int /\ g[i + d] = f[i]
       PROVE  SumFunctionOnSet(g, Moved(R, d)) = SumFunctionOnSet(f, R)
  <2>1. Carries(f, g, R, d)
    BY <1>12 DEF Carries
  <2> QED  BY <1>2, <1>3, <2>1, SumMoved
<1>13. \A i \in R : i + d \in Moved(R, d)
  BY DEF Moved
<1>14. PathSum(h, Moved(R, d)) = PathSum(t, R)
  <2> DEFINE f == [i \in R |-> Abs(t[i].close - t[i - 1].close)]
             g == [i \in Moved(R, d) |-> Abs(h[i].close - h[i - 1].close)]
  <2>1. \A i \in R : f[i] \in Int /\ g[i + d] = f[i]
    <3> TAKE i \in R
    <3> DEFINE x == i + d
    <3>1. i \in 2..Len(t) /\ i - 1 \in 1..Len(t) /\ i \in 1..Len(t) /\ i + d \in Moved(R, d)
      BY <1>2, <1>4, <1>13
    <3>2. h[i + d - 1] = t[i - 1] /\ h[i + d] = t[i]
          /\ t[i].close \in Nat /\ t[i - 1].close \in Nat
      BY <1>2, <3>1
    <3>3. g[x] = Abs(h[x].close - h[x - 1].close)
      <4> HIDE DEF x
      <4>1. x \in Moved(R, d)
        BY <3>1 DEF x
      <4> QED  BY <4>1
    <3>4. f[i] = Abs(t[i].close - t[i - 1].close)
      OBVIOUS
    <3> HIDE DEF f, g
    <3>5. f[i] \in Int
      BY <3>2, <3>4 DEF Abs
    <3>6. h[x] = t[i] /\ h[x - 1] = t[i - 1]
      <4>1. x - 1 = i + d - 1
        BY <1>2, <3>1
      <4> QED  BY <3>2, <4>1
    <3> HIDE DEF x
    <3>7. g[x] = f[i]
      BY <3>3, <3>4, <3>6
    <3> QED  BY <3>5, <3>7 DEF x
  <2> HIDE DEF f, g
  <2>2. SumFunctionOnSet(g, Moved(R, d)) = SumFunctionOnSet(f, R)
    BY <1>12, <2>1
  <2> QED  BY <2>2, Zenon DEF SumOf, PathSum, f, g
<1>15. Efficiency(h, n) = Efficiency(t, n)
  BY <1>1, <1>9, <1>10, <1>14, ZenonT(60) DEF Efficiency, PathSum, R
<1>16. ReturnSum(h, Moved(R, d)) = ReturnSum(t, R)
  <2> DEFINE f == [i \in R |-> Return(t, i)]
             g == [i \in Moved(R, d) |-> Return(h, i)]
  <2>1. \A i \in R : f[i] \in Int /\ g[i + d] = f[i]
    BY <1>2, <1>4, <1>13
  <2> HIDE DEF f, g
  <2>2. SumFunctionOnSet(g, Moved(R, d)) = SumFunctionOnSet(f, R)
    BY <1>12, <2>1
  <2> QED  BY <2>2, Zenon DEF SumOf, ReturnSum, f, g
<1>17. SquareSum(h, Moved(R, d)) = SquareSum(t, R)
  <2> DEFINE f == [i \in R |-> Return(t, i) * Return(t, i)]
             g == [i \in Moved(R, d) |-> Return(h, i) * Return(h, i)]
  <2>1. \A i \in R : f[i] \in Int /\ g[i + d] = f[i]
    <3> TAKE i \in R
    <3> DEFINE x == Return(t, i)
    <3>1. x \in Int /\ Return(h, i + d) = x /\ i + d \in Moved(R, d)
      BY <1>2, <1>4, <1>13
    <3>2. g[i + d] = Return(h, i + d) * Return(h, i + d) /\ f[i] = x * x
      BY <3>1
    <3> HIDE DEF f, g, x
    <3>3. x * x \in Int
      BY <3>1
    <3> QED  BY <3>1, <3>2, <3>3
  <2> HIDE DEF f, g
  <2>2. SumFunctionOnSet(g, Moved(R, d)) = SumFunctionOnSet(f, R)
    BY <1>12, <2>1
  <2> QED  BY <2>2, Zenon DEF SumOf, SquareSum, f, g
<1>18. R \ {1} = R /\ Moved(R, d) \ {1} = Moved(R, d)
  BY <1>1
<1>19. Variance(h, n) = Variance(t, n)
  BY <1>1, <1>5, <1>16, <1>17, <1>18, Zenon DEF Variance, ReturnSum, SquareSum, R
<1>20. Sma(h, n) = Sma(t, n)
  <2>1. CloseMean(h, Recent(h, n)) = CloseMean(t, Recent(t, n))
    BY <1>1, <1>5 DEF SameOf, R
  <2> QED  BY <2>1, Zenon DEF Sma, CloseMean
<1> QED  BY <1>1, <1>5, <1>6, <1>7, <1>8, <1>11, <1>15, <1>16, <1>18, <1>19, <1>20
            DEF SameOver, SameOf, SameRanks, R, P

\* The window is as long as the longest measure needs, the percentile of the
\* volatility or the movement that scales horizons.  Nothing but the default
\* of rolling_window_bars sees to it.
WindowHolds ==
    WindowSize >= PercentileReach /\ WindowSize > W[300] /\ W[240] > 1

\* Then it is as long as each of them needs.
LEMMA WindowReach ==
    ASSUME WindowHolds
    PROVE  /\ WindowSize \in Nat /\ PercentileReach <= WindowSize /\ W[300] < WindowSize
           /\ \A n \in Windows : W[n] \in Nat \ {0} /\ W[n] < WindowSize
           /\ Lookback \in Nat \ {0} /\ Lookback + 2 <= WindowSize
           /\ \A n \in Windows : n <= 240 => Lookback + W[n] <= WindowSize
           /\ \A k \in 1..W[64] : k + W[12] <= WindowSize /\ k + 2 <= WindowSize
<1>1. WindowSize \in Nat \ {0} /\ Lookback \in Nat \ {0} /\ \A n \in Windows : W[n] \in Nat \ {0}
  BY WindowSizeNat, DataConstants
<1>2. \A m, n \in Windows : m <= n => W[m] <= W[n]
  BY CandidateRulesAssumption DEF CandidateRulesAssumption
<1>3. 300 \in Windows /\ 240 \in Windows /\ 24 \in Windows /\ 12 \in Windows /\ 64 \in Windows
      /\ \A n \in Windows : n \in Int /\ n <= 300
  BY DEF Windows
<1>4. WindowSize >= Lookback + W[240]
  <2> DEFINE x == Lookback + W[240]
  <2>1. x \in Nat /\ Rolling \in Nat /\ MinHistory \in Nat
    BY <1>1, <1>3, DataConstants
  <2> HIDE DEF x
  <2>2. Larger(Rolling, Larger(MinHistory, x)) >= x
    BY <2>1 DEF Larger
  <2> QED  BY <2>2 DEF WindowSize, x
<1>5. W[240] > 1 /\ W[300] < WindowSize /\ W[240] + W[24] + 1 <= WindowSize
  BY <1>1, <1>3 DEF WindowHolds, PercentileReach
<1>6. \A n \in Windows : W[n] \in Nat \ {0} /\ W[n] < WindowSize
  BY <1>1, <1>2, <1>3, <1>5
<1>7. \A n \in Windows : n <= 240 => Lookback + W[n] <= WindowSize
  BY <1>1, <1>2, <1>3, <1>4
<1>8. W[64] <= W[240] /\ W[12] <= W[24]
  BY <1>2, <1>3
<1>9. W[240] \in Nat /\ W[24] \in Nat \ {0} /\ W[12] \in Nat \ {0} /\ W[64] \in Nat
      /\ W[300] \in Nat
  BY <1>1, <1>3
<1>10. \A k \in 1..W[64] : k + W[12] <= WindowSize /\ k + 2 <= WindowSize
  BY <1>1, <1>5, <1>8, <1>9
<1>11. Lookback + 2 <= WindowSize
  BY <1>1, <1>4, <1>5, <1>9
<1>12. PercentileReach <= WindowSize
  BY <1>1, <1>9 DEF WindowHolds, PercentileReach
<1> QED  BY <1>1, <1>5, <1>6, <1>7, <1>10, <1>11, <1>12

\* A window that ends a longer history.
Ending(t, h) == WindowHolds /\ Len(t) = WindowSize /\ \E d : EndsAlike(t, h, d)

\* Every measure the rules take is the same of both, but for the percentile,
\* the movement and what is measured up to a few bars ago.
LEMMA WindowMeasures ==
    ASSUME NEW t, NEW h, Ending(t, h)
    PROVE  /\ Len(t) = WindowSize /\ Len(h) \in Nat /\ Len(h) >= Len(t) /\ Len(t) \in Nat
           /\ Latest(h) = Latest(t) /\ Previous(h) = Previous(t)
           /\ h[Len(h) - W[4]] = t[Len(t) - W[4]]
           /\ h[Len(h) - W[8] + 1] = t[Len(t) - W[8] + 1]
           /\ h[Len(h) - W[21] + 1] = t[Len(t) - W[21] + 1]
           /\ h[Len(h) - Lookback + 1] = t[Len(t) - Lookback + 1]
           /\ RangeAt(h, Len(h)) = RangeAt(t, Len(t))
           /\ Return(h, Len(h)) = Return(t, Len(t))
           /\ \A n \in Windows : SameOver(t, h, W[n])
           /\ SameOver(t, h, Lookback)
           /\ \A k \in 1..W[64] : SameOver(t, h, k)
<1>1. WindowHolds /\ Len(t) = WindowSize
  BY DEF Ending
<1>2. PICK d : EndsAlike(t, h, d)
  BY DEF Ending
<1>3. Len(t) \in Nat /\ Len(h) \in Nat /\ d \in Nat /\ Len(h) = Len(t) + d
  BY <1>2, AlikeBars
<1>4. /\ \A n \in Windows : W[n] \in Nat \ {0} /\ W[n] < Len(t)
      /\ Lookback \in Nat \ {0} /\ Lookback + 2 <= Len(t)
      /\ \A k \in 1..W[64] : k + 2 <= Len(t)
  BY <1>1, WindowReach
<1>5. /\ \A k \in Nat : k < Len(t) => h[Len(h) - k] = t[Len(t) - k]
      /\ \A k \in Nat \ {0} : k <= Len(t) => h[Len(h) - k + 1] = t[Len(t) - k + 1]
  BY <1>2, AlikeFromEnd
<1>6. 4 \in Windows /\ 8 \in Windows /\ 21 \in Windows /\ 64 \in Windows
  BY DEF Windows
<1>7. Lookback < Len(t) /\ Lookback <= Len(t) /\ 1 < Len(t)
  BY <1>3, <1>4
<1>8. h[Len(h)] = t[Len(t)] /\ h[Len(h) - 1] = t[Len(t) - 1]
  <2>1. h[Len(h) - 0] = t[Len(t) - 0] /\ h[Len(h) - 1] = t[Len(t) - 1]
    BY <1>3, <1>5, <1>7
  <2>2. Len(h) - 0 = Len(h) /\ Len(t) - 0 = Len(t)
    BY <1>3
  <2> QED  BY <2>1, <2>2
<1>9. h[Len(h) - W[4]] = t[Len(t) - W[4]]
  BY <1>4, <1>5, <1>6
<1>10. /\ h[Len(h) - W[8] + 1] = t[Len(t) - W[8] + 1]
       /\ h[Len(h) - W[21] + 1] = t[Len(t) - W[21] + 1]
  <2>1. /\ W[8] \in Nat \ {0} /\ W[8] <= Len(t)
        /\ W[21] \in Nat \ {0} /\ W[21] <= Len(t)
    BY <1>3, <1>4, <1>6
  <2> QED  BY <1>5, <2>1
<1>11. h[Len(h) - Lookback + 1] = t[Len(t) - Lookback + 1]
  BY <1>4, <1>5, <1>7
<1>12. RangeAt(h, Len(h)) = RangeAt(t, Len(t)) /\ Return(h, Len(h)) = Return(t, Len(t))
  BY <1>8 DEF RangeAt, Return
<1>13. \A n \in Nat \ {0} : n < Len(t) => SameOver(t, h, n)
  BY <1>2, AlikeOver
<1>14. \A k \in 1..W[64] : SameOver(t, h, k)
  <2> TAKE k \in 1..W[64]
  <2>1. k \in Nat \ {0} /\ k < Len(t)
    BY <1>3, <1>4, <1>6
  <2> QED  BY <1>13, <2>1
<1>15. (\A n \in Windows : SameOver(t, h, W[n])) /\ SameOver(t, h, Lookback)
  BY <1>4, <1>7, <1>13
<1>16. Len(h) >= Len(t)
  BY <1>3
<1> QED  BY <1>1, <1>3, <1>8, <1>9, <1>10, <1>11, <1>12, <1>14, <1>15, <1>16
            DEF Latest, Previous

\* The percentile of the volatility is the same.
LEMMA WindowPercentile ==
    ASSUME NEW t, NEW h, Ending(t, h)
    PROVE  VolatilityPercentile(h) = VolatilityPercentile(t)
<1>1. WindowHolds /\ Len(t) = WindowSize
  BY DEF Ending
<1>2. PICK d : EndsAlike(t, h, d)
  BY DEF Ending
<1>3. Len(t) \in Nat /\ Len(h) \in Nat /\ Len(h) >= Len(t)
      /\ (\A n \in Windows : SameOver(t, h, W[n]))
  BY WindowMeasures
<1>4. W[240] \in Nat /\ W[24] \in Nat /\ W[240] < Len(t) /\ PercentileReach <= Len(t)
      /\ PercentileReach \in Nat /\ 24 \in Windows
  <2>1. 240 \in Windows /\ 24 \in Windows
    BY DEF Windows
  <2>2. W[240] \in Nat /\ W[24] \in Nat /\ W[240] < Len(t) /\ PercentileReach <= Len(t)
    BY <1>1, <2>1, WindowReach
  <2> QED  BY <2>1, <2>2 DEF PercentileReach
<1>5. ~ Len(h) < PercentileReach /\ ~ Len(t) < PercentileReach
  BY <1>3, <1>4
<1> DEFINE width == MeanRange(t, Recent(t, W[24]))
           R == Recent(t, W[240])
<1>6. MeanRange(h, Recent(h, W[24])) = width
  BY <1>3, <1>4 DEF SameOver
<1>7. Recent(h, W[240]) = Moved(R, d) /\ R \in SUBSET (1..Len(t))
  <2>1. W[240] <= Len(t)
    BY <1>3, <1>4
  <2> QED  BY <1>2, <1>4, <2>1, AlikeStretches
<1> HIDE DEF width, R
<1>8. SameRanks(h, Moved(R, d), t, R)
  BY <1>2, <1>7, AlikeRanks
<1>9. Cardinality({i \in Moved(R, d) : RangeAt(h, i) <= width})
        = Cardinality({i \in R : RangeAt(t, i) <= width})
  BY <1>8 DEF SameRanks
<1> QED  BY <1>5, <1>6, <1>7, <1>9, ZenonT(60) DEF VolatilityPercentile, width, R

\* How wide prices move, from the n last returns and the bars S that have a range.
Spread(h, S) ==
    IF S = {} THEN 0
    ELSE IF Cardinality(S) % 2 = 1 THEN MedianRange(h, S)
    ELSE (MedianRange(h, S) + Ranked(h, S, Cardinality(S) \div 2 - 1)) \div 2
MovementFrom(h, n, S) ==
    Larger(IF n < 2 THEN 0 ELSE Root(Variance(h, n)) \div n, Spread(h, S) \div 2)

\* So is how wide prices move.
LEMMA WindowMovement ==
    ASSUME NEW t, NEW h, Ending(t, h)
    PROVE  Movement(h) = Movement(t)
<1>1. WindowHolds /\ Len(t) = WindowSize
  BY DEF Ending
<1>2. PICK d : EndsAlike(t, h, d)
  BY DEF Ending
<1>3. 300 \in Windows
  BY DEF Windows
<1>4. Len(t) \in Nat /\ Len(h) \in Nat /\ Len(h) >= Len(t) /\ SameOver(t, h, W[300])
  BY <1>3, WindowMeasures
<1>5. W[300] \in Nat /\ W[300] < Len(t)
  BY <1>1, <1>3, WindowReach
<1>6. Smaller(Len(h) - 1, W[300]) = W[300] /\ Smaller(Len(t) - 1, W[300]) = W[300]
  BY <1>4, <1>5 DEF Smaller
<1> DEFINE R == Recent(t, W[300])
           wide == {i \in R : RangeAt(t, i) > 0}
<1>7. Recent(h, W[300]) = Moved(R, d) /\ R \in SUBSET (1..Len(t))
  <2>1. W[300] <= Len(t)
    BY <1>4, <1>5
  <2> QED  BY <1>2, <1>5, <2>1, AlikeStretches
<1>8. {i \in Recent(h, W[300]) : RangeAt(h, i) > 0} = Moved(wide, d)
  <2> HIDE DEF R
  <2> QED  BY <1>2, <1>7, AlikeRanks
<1>9. SameRanks(h, Moved(wide, d), t, wide)
  <2>1. wide \in SUBSET (1..Len(t))
    BY <1>7
  <2> HIDE DEF wide
  <2> QED  BY <1>2, <2>1, AlikeRanks
<1>10. Moved(wide, d) = {} <=> wide = {}
  BY DEF Moved
<1>11. Spread(h, Moved(wide, d)) = Spread(t, wide)
  <2> HIDE DEF wide
  <2> QED  BY <1>9, <1>10 DEF SameRanks, Spread
<1>12. Variance(h, W[300]) = Variance(t, W[300])
  BY <1>4 DEF SameOver
<1> HIDE DEF wide, R
<1>13. MovementFrom(h, W[300], Moved(wide, d)) = MovementFrom(t, W[300], wide)
  BY <1>11, <1>12 DEF MovementFrom
<1>14. /\ Movement(h) = MovementFrom(h, Smaller(Len(h) - 1, W[300]),
                                    {i \in Recent(h, W[300]) : RangeAt(h, i) > 0})
       /\ Movement(t) = MovementFrom(t, Smaller(Len(t) - 1, W[300]),
                                    {i \in Recent(t, W[300]) : RangeAt(t, i) > 0})
  BY Zenon DEF Movement, MovementFrom, Spread
<1>15. {i \in Recent(t, W[300]) : RangeAt(t, i) > 0} = wide
  BY DEF wide, R
<1>16. Movement(h) = MovementFrom(h, W[300], Moved(wide, d))
  BY <1>6, <1>8, <1>14
<1>17. Movement(t) = MovementFrom(t, W[300], wide)
  BY <1>6, <1>14, <1>15
<1> QED  BY <1>13, <1>16, <1>17

\* So is what volatility_breakout_retest measures up to a few bars ago.
LEMMA WindowSettled ==
    ASSUME NEW t, NEW h, Ending(t, h)
    PROVE  /\ \A q : Compressed(h, Settled(h), q) = Compressed(t, Settled(t), q)
           /\ \A m : HighOf(h, LastOf(Settled(h), m)) = HighOf(t, LastOf(Settled(t), m))
<1>1. WindowHolds /\ Len(t) = WindowSize
  BY DEF Ending
<1>2. PICK d : EndsAlike(t, h, d)
  BY DEF Ending
<1>3. Len(t) \in Nat /\ d \in Nat /\ Len(h) = Len(t) + d
  BY <1>2, AlikeBars
<1> DEFINE n == Lookback + W[3]
           R == Recent(t, n)
           S == Settled(t)
<1>4. n \in Nat /\ n <= Len(t) /\ W[3] \in Nat
  <2>1. 3 \in Windows /\ 3 <= 240
    BY DEF Windows
  <2>2. W[3] \in Nat /\ Lookback \in Nat /\ Lookback + W[3] <= Len(t)
    BY <1>1, <2>1, WindowReach
  <2> QED  BY <2>2
<1> HIDE DEF n
<1>5. Recent(h, n) = Moved(R, d) /\ R \in SUBSET (1..Len(t))
  BY <1>2, <1>4, AlikeStretches
<1>6. /\ S = {i \in R : i <= Len(t) - W[3]}
      /\ Settled(h) = {i \in Moved(R, d) : i <= Len(h) - W[3]}
  BY <1>5, Zenon DEF Settled, n
<1> HIDE DEF S, R
<1>7. Settled(h) = Moved(S, d)
  <2>1. ASSUME NEW j \in Settled(h) PROVE j \in Moved(S, d)
    <3>1. PICK i \in R : j = i + d /\ j <= Len(h) - W[3]
      BY <1>6 DEF Moved
    <3>2. i \in 1..Len(t)
      BY <1>5
    <3>3. i <= Len(t) - W[3]
      BY <1>3, <1>4, <3>1, <3>2
    <3> QED  BY <1>6, <3>1, <3>3 DEF Moved
  <2>2. ASSUME NEW j \in Moved(S, d) PROVE j \in Settled(h)
    <3>1. PICK i \in S : j = i + d
      BY DEF Moved
    <3>2. i \in R /\ i <= Len(t) - W[3] /\ i \in 1..Len(t)
      BY <1>5, <1>6
    <3>3. j <= Len(h) - W[3] /\ j \in Moved(R, d)
      BY <1>3, <1>4, <3>1, <3>2 DEF Moved
    <3> QED  BY <1>6, <3>3
  <2> QED  BY <2>1, <2>2
<1>8. S \in SUBSET (1..Len(t))
  BY <1>5, <1>6
<1>9. S \in SUBSET Int /\ IsFiniteSet(S) /\ d \in Int
  <2>1. Len(t) \in Int /\ 1 \in Int
    BY <1>3
  <2>2. IsFiniteSet(1..Len(t))
    BY <2>1, FS_Interval
  <2>3. IsFiniteSet(S)
    BY <1>8, <2>2, FS_Subset
  <2>4. S \in SUBSET Int
    BY <1>8
  <2> QED  BY <1>3, <2>3, <2>4
<1>10. ASSUME NEW m PROVE SameOf(h, LastOf(Moved(S, d), m), t, LastOf(S, m))
  <2> DEFINE L == LastOf(S, m)
  <2>1. LastOf(Moved(S, d), m) = Moved(L, d) /\ L \subseteq S
    BY <1>9, AlikeLast
  <2>2. L \in SUBSET (1..Len(t))
    BY <1>8, <2>1
  <2> HIDE DEF L
  <2>3. SameOf(h, Moved(L, d), t, L)
    BY <1>2, <2>2, AlikeMeasures
  <2> QED  BY <2>1, <2>3 DEF L
<1>11. SameRanks(h, Moved(S, d), t, S)
  BY <1>2, <1>8, AlikeRanks
<1>12. \A q : Compressed(h, Moved(S, d), q) = Compressed(t, S, q)
  BY <1>10, <1>11 DEF Compressed, SameOf, SameRanks
<1> QED  BY <1>7, <1>10, <1>12 DEF SameOf, S

\* What the rules see of the one is what they see of the other.
SeenAlike(t, h) ==
    /\ WindowHolds /\ Len(t) = WindowSize /\ Len(t) \in Nat /\ Len(h) \in Nat /\ Len(h) >= Len(t)
    /\ Latest(h) = Latest(t) /\ Previous(h) = Previous(t)
    /\ h[Len(h) - W[4]] = t[Len(t) - W[4]]
    /\ h[Len(h) - W[8] + 1] = t[Len(t) - W[8] + 1]
    /\ h[Len(h) - W[21] + 1] = t[Len(t) - W[21] + 1]
    /\ h[Len(h) - Lookback + 1] = t[Len(t) - Lookback + 1]
    /\ RangeAt(h, Len(h)) = RangeAt(t, Len(t))
    /\ Return(h, Len(h)) = Return(t, Len(t))
    /\ \A n \in Windows : SameOver(t, h, W[n])
    /\ SameOver(t, h, Lookback)
    /\ \A k \in 1..W[64] : SameOver(t, h, k)
    /\ VolatilityPercentile(h) = VolatilityPercentile(t) /\ Movement(h) = Movement(t)
    /\ \A q : Compressed(h, Settled(h), q) = Compressed(t, Settled(t), q)
    /\ \A m : HighOf(h, LastOf(Settled(h), m)) = HighOf(t, LastOf(Settled(t), m))

\* A window that ends a longer history shows the same.
LEMMA WindowSeen ==
    ASSUME NEW t, NEW h, Ending(t, h)
    PROVE  SeenAlike(t, h)
<1>1. WindowHolds
  BY DEF Ending
<1> QED  BY <1>1, WindowMeasures, WindowPercentile, WindowMovement, WindowSettled DEF SeenAlike

\* Both are as long as every rule asks.
LongEnough(s) ==
    /\ Len(s) >= W[168] /\ Len(s) >= W[96] /\ Len(s) >= 2
    /\ Len(s) >= Larger(Lookback + 1, W[72]) /\ Len(s) >= Larger(Lookback + 1, W[96])
    /\ Len(s) >= Larger(Lookback + 1, W[120])
    /\ Len(s) >= Larger(Lookback + 2, W[72]) /\ Len(s) >= Larger(Lookback + 2, W[96])
    /\ Len(s) >= Larger(Lookback + W[4], W[168]) /\ Len(s) >= Larger(Lookback + W[3], W[120])
    /\ \A k \in 1..W[64] :
          /\ Len(s) >= Larger(k + 1, W[96]) /\ Len(s) >= Larger(k + 2, W[96])
          /\ Len(s) >= Larger(k + 1, W[120]) /\ Len(s) >= Larger(k + W[12], W[96])

LEMMA SeenLongEnough ==
    ASSUME NEW t, NEW h, SeenAlike(t, h)
    PROVE  LongEnough(t) /\ LongEnough(h)
<1>1. WindowSize \in Nat /\ \A s \in {t, h} : Len(s) \in Nat /\ Len(s) >= WindowSize
  BY WindowSizeNat DEF SeenAlike
<1>2. /\ \A n \in Windows : W[n] \in Nat \ {0} /\ W[n] < WindowSize
      /\ Lookback \in Nat \ {0} /\ Lookback + 2 <= WindowSize
      /\ \A n \in Windows : n <= 240 => Lookback + W[n] <= WindowSize
      /\ \A k \in 1..W[64] : k + W[12] <= WindowSize /\ k + 2 <= WindowSize
  BY WindowReach DEF SeenAlike
<1>3. \A n \in {3, 4, 12, 64, 72, 96, 120, 168} : n \in Windows /\ n <= 240
  BY DEF Windows
<1>4. /\ 3 \in Windows /\ 4 \in Windows /\ 12 \in Windows /\ 64 \in Windows
      /\ 72 \in Windows /\ 96 \in Windows /\ 120 \in Windows /\ 168 \in Windows
      /\ 3 <= 240 /\ 4 <= 240
  BY <1>3
<1>5. \A n \in Windows : W[n] \in Nat /\ W[n] <= WindowSize
  BY <1>1, <1>2
<1>6. /\ W[72] \in Nat /\ W[96] \in Nat /\ W[120] \in Nat /\ W[168] \in Nat /\ W[64] \in Nat
      /\ W[72] <= WindowSize /\ W[96] <= WindowSize /\ W[120] <= WindowSize
      /\ W[168] <= WindowSize /\ W[3] \in Nat /\ W[4] \in Nat /\ W[12] \in Nat
      /\ Lookback + W[3] <= WindowSize /\ Lookback + W[4] <= WindowSize
  <2>1. Lookback + W[3] <= WindowSize /\ Lookback + W[4] <= WindowSize
    BY <1>2, <1>4
  <2> QED  BY <1>4, <1>5, <2>1
<1>7. \A s \in {t, h} : \A x, y \in Nat :
         x <= WindowSize /\ y <= WindowSize => Len(s) >= Larger(x, y) /\ Len(s) >= y
  BY <1>1 DEF Larger
<1>8. ASSUME NEW s \in {t, h}, NEW k \in 1..W[64]
      PROVE  /\ Len(s) >= Larger(k + 1, W[96]) /\ Len(s) >= Larger(k + 2, W[96])
             /\ Len(s) >= Larger(k + 1, W[120]) /\ Len(s) >= Larger(k + W[12], W[96])
  <2>1. /\ k + 1 \in Nat /\ k + 2 \in Nat /\ k + W[12] \in Nat
        /\ k + 1 <= WindowSize /\ k + 2 <= WindowSize /\ k + W[12] <= WindowSize
    <3>1. k \in Nat /\ W[12] \in Nat /\ k + W[12] <= WindowSize /\ k + 2 <= WindowSize
      BY <1>2, <1>6
    <3> QED  BY <1>1, <3>1
  <2> QED  BY <1>6, <1>7, <2>1
<1>9. ASSUME NEW s \in {t, h}
      PROVE  /\ Len(s) >= W[168] /\ Len(s) >= W[96] /\ Len(s) >= 2
             /\ Len(s) >= Larger(Lookback + 1, W[72]) /\ Len(s) >= Larger(Lookback + 1, W[96])
             /\ Len(s) >= Larger(Lookback + 1, W[120])
             /\ Len(s) >= Larger(Lookback + 2, W[72]) /\ Len(s) >= Larger(Lookback + 2, W[96])
             /\ Len(s) >= Larger(Lookback + W[4], W[168])
             /\ Len(s) >= Larger(Lookback + W[3], W[120])
  <2>1. /\ Lookback + 1 \in Nat /\ Lookback + 1 <= WindowSize
        /\ Lookback + 2 \in Nat /\ Lookback + 2 <= WindowSize
        /\ Lookback + W[3] \in Nat /\ Lookback + W[4] \in Nat
        /\ 2 \in Nat /\ 2 <= WindowSize
    <3>1. Lookback \in Nat \ {0} /\ Lookback + 2 <= WindowSize /\ W[3] \in Nat /\ W[4] \in Nat
      BY <1>2, <1>6
    <3> QED  BY <1>1, <3>1
  <2> QED  BY <1>6, <1>7, <2>1
<1> QED  BY <1>8, <1>9 DEF LongEnough

\* The lookbacks of the rules, within their own bounds, stay within W[64].
LEMMA WithinReach ==
    ASSUME NEW x \in Nat \ {0}
    PROVE  /\ \A a, b \in {8, 12, 16, 24, 32, 48, 64} : Within(W[a], x, W[b]) \in 1..W[64]
           /\ \A a \in {24, 48} : \A k \in 1..W[64] : Smaller(k, W[a]) \in 1..W[64]
<1>1. \A n \in {8, 12, 16, 24, 32, 48, 64} : W[n] \in Nat \ {0} /\ W[n] <= W[64]
  <2>1. \A n \in {8, 12, 16, 24, 32, 48, 64} : n \in Windows /\ n <= 64
    BY DEF Windows
  <2> QED  BY <2>1, DataConstants, CandidateRulesAssumption DEF CandidateRulesAssumption
<1>2. ASSUME NEW a \in {8, 12, 16, 24, 32, 48, 64}, NEW b \in {8, 12, 16, 24, 32, 48, 64}
      PROVE  Within(W[a], x, W[b]) \in 1..W[64]
  <2>1. W[64] \in Nat /\ W[a] \in 1..W[64] /\ W[b] \in 1..W[64]
    BY <1>1
  <2>2. Smaller(x, W[b]) \in 1..W[64]
    BY <2>1 DEF Smaller
  <2> QED  BY <2>1, <2>2 DEF Within, Larger
<1>3. ASSUME NEW a \in {24, 48}, NEW k \in 1..W[64] PROVE Smaller(k, W[a]) \in 1..W[64]
  <2>1. W[a] \in 1..W[64]
    BY <1>1
  <2> QED  BY <2>1 DEF Smaller
<1> QED  BY <1>2, <1>3

\* The trends they see are the same.
LEMMA TrendsAlike ==
    ASSUME NEW t, NEW h, SeenAlike(t, h)
    PROVE  (TrendOk(h) <=> TrendOk(t)) /\ (DowntrendOk(h) <=> DowntrendOk(t))
<1>1. Len(h) >= W[168] /\ Len(t) >= W[168]
  BY SeenLongEnough DEF LongEnough
<1>2. Sma(h, W[72]) = Sma(t, W[72]) /\ Sma(h, W[168]) = Sma(t, W[168]) /\ Latest(h) = Latest(t)
  BY DEF SeenAlike, SameOver, Windows
<1>3. ~ Len(h) < W[168] /\ ~ Len(t) < W[168]
  <2>1. Len(h) \in Nat /\ Len(t) \in Nat /\ W[168] \in Nat
    BY DataConstants DEF SeenAlike, Windows
  <2> QED  BY <1>1, <2>1
<1> QED  BY <1>2, <1>3 DEF TrendOk, DowntrendOk

\* The rules of either side that are tried by default say the same of both.
LEMMA RulesAlike ==
    ASSUME NEW t, NEW h, SeenAlike(t, h)
    PROVE  /\ information_momentum(h) <=> information_momentum(t)
           /\ short_information_momentum(h) <=> short_information_momentum(t)
           /\ trend_pullback_reclaim(h) <=> trend_pullback_reclaim(t)
           /\ trend_continuation(h) <=> trend_continuation(t)
           /\ volatility_breakout(h) <=> volatility_breakout(t)
           /\ volatility_breakout_retest(h) <=> volatility_breakout_retest(t)
           /\ capitulation_mean_reversion(h) <=> capitulation_mean_reversion(t)
           /\ short_trend_rejection(h) <=> short_trend_rejection(t)
           /\ short_volatility_breakdown(h) <=> short_volatility_breakdown(t)
           /\ liquidity_sweep_reclaim(h) <=> liquidity_sweep_reclaim(t)
<1>1. /\ Len(h) >= W[168] /\ Len(h) >= Larger(Lookback + 1, W[72])
      /\ Len(h) >= Larger(Lookback + 1, W[96]) /\ Len(h) >= Larger(Lookback + 1, W[120])
      /\ Len(h) >= Larger(Lookback + 2, W[72]) /\ Len(h) >= Larger(Lookback + 2, W[96])
      /\ Len(h) >= Larger(Lookback + W[4], W[168])
      /\ Len(h) >= Larger(Lookback + W[3], W[120])
      /\ Len(t) >= W[168] /\ Len(t) >= Larger(Lookback + 1, W[72])
      /\ Len(t) >= Larger(Lookback + 1, W[96]) /\ Len(t) >= Larger(Lookback + 1, W[120])
      /\ Len(t) >= Larger(Lookback + 2, W[72]) /\ Len(t) >= Larger(Lookback + 2, W[96])
      /\ Len(t) >= Larger(Lookback + W[4], W[168])
      /\ Len(t) >= Larger(Lookback + W[3], W[120])
  BY SeenLongEnough DEF LongEnough
<1>2. /\ Latest(h) = Latest(t) /\ Previous(h) = Previous(t)
      /\ h[Len(h) - W[4]] = t[Len(t) - W[4]]
      /\ h[Len(h) - W[8] + 1] = t[Len(t) - W[8] + 1]
      /\ h[Len(h) - W[21] + 1] = t[Len(t) - W[21] + 1]
      /\ h[Len(h) - Lookback + 1] = t[Len(t) - Lookback + 1]
      /\ VolatilityPercentile(h) = VolatilityPercentile(t)
      /\ Compressed(h, Settled(h), 400) <=> Compressed(t, Settled(t), 400)
      /\ HighOf(h, LastOf(Settled(h), W[8])) = HighOf(t, LastOf(Settled(t), W[8]))
  BY DEF SeenAlike
<1>3. /\ VolumeRatio(h, W[24]) = VolumeRatio(t, W[24])
      /\ Efficiency(h, W[24]) = Efficiency(t, W[24])
      /\ Sma(h, W[5]) = Sma(t, W[5]) /\ Sma(h, W[8]) = Sma(t, W[8])
      /\ Sma(h, W[21]) = Sma(t, W[21]) /\ Sma(h, W[24]) = Sma(t, W[24])
      /\ Sma(h, W[72]) = Sma(t, W[72]) /\ Sma(h, W[168]) = Sma(t, W[168])
      /\ LowOf(h, Recent(h, W[8])) = LowOf(t, Recent(t, W[8]))
      /\ HighOf(h, Recent(h, W[8])) = HighOf(t, Recent(t, W[8]))
  BY DEF SeenAlike, SameOver, Windows
<1>4. /\ HighOf(h, Prior(h, Lookback)) = HighOf(t, Prior(t, Lookback))
      /\ LowOf(h, Prior(h, Lookback)) = LowOf(t, Prior(t, Lookback))
      /\ Variance(h, Lookback) = Variance(t, Lookback)
      /\ Compressed(h, Prior(h, Lookback), 350) <=> Compressed(t, Prior(t, Lookback), 350)
      /\ Compressed(h, Prior(h, Lookback), 400) <=> Compressed(t, Prior(t, Lookback), 400)
      /\ HighOf(h, LastOf(Prior(h, Lookback), W[8])) = HighOf(t, LastOf(Prior(t, Lookback), W[8]))
      /\ LowOf(h, LastOf(Prior(h, Lookback), W[8])) = LowOf(t, LastOf(Prior(t, Lookback), W[8]))
  BY DEF SeenAlike, SameOver
<1>5. (TrendOk(h) <=> TrendOk(t)) /\ (DowntrendOk(h) <=> DowntrendOk(t))
  BY TrendsAlike
<1>6. (Surge(h, 1) <=> Surge(t, 1)) /\ (Surge(h, -1) <=> Surge(t, -1))
  BY <1>2, <1>4 DEF Surge
<1>7. /\ information_momentum(h) <=> information_momentum(t)
      /\ short_information_momentum(h) <=> short_information_momentum(t)
  <2>1. information_momentum(h) <=> information_momentum(t)
    BY <1>1, <1>2, <1>3, <1>4, <1>5, <1>6 DEF information_momentum
  <2>2. short_information_momentum(h) <=> short_information_momentum(t)
    BY <1>1, <1>2, <1>3, <1>4, <1>5, <1>6 DEF short_information_momentum
  <2> QED  BY <2>1, <2>2
<1>8. trend_pullback_reclaim(h) <=> trend_pullback_reclaim(t)
  BY <1>1, <1>2, <1>3 DEF trend_pullback_reclaim
<1>9. trend_continuation(h) <=> trend_continuation(t)
  BY <1>1, <1>2, <1>3, <1>4, <1>5 DEF trend_continuation
<1>10. volatility_breakout(h) <=> volatility_breakout(t)
  BY <1>1, <1>2, <1>3, <1>4, <1>5 DEF volatility_breakout
<1>11. volatility_breakout_retest(h) <=> volatility_breakout_retest(t)
  <2> DEFINE Retests(s) ==
                 /\ Len(s) >= Larger(Lookback + W[3], W[120])
                 /\ /\ Compressed(s, Settled(s), 400)
                    /\ Previous(s).close > HighOf(s, LastOf(Settled(s), W[8]))
                    /\ AtLeast(Latest(s).low, HighOf(s, LastOf(Settled(s), W[8])), 992)
                       /\ Latest(s).close > HighOf(s, LastOf(Settled(s), W[8]))
                 /\ TrendOk(s)
                 /\ VolumeRatio(s, W[24]) >= 950 /\ Efficiency(s, W[24]) >= 200
                 /\ VolatilityPercentile(s) <= 800
  <2>1. \A s : volatility_breakout_retest(s) <=> Retests(s)
    BY Zenon DEF volatility_breakout_retest, Settled
  <2>2. Retests(h) <=> Retests(t)
    BY <1>1, <1>2, <1>3, <1>5
  <2> HIDE DEF Retests
  <2> QED  BY <2>1, <2>2
<1>12. capitulation_mean_reversion(h) <=> capitulation_mean_reversion(t)
  BY <1>1, <1>2, <1>3, <1>4 DEF capitulation_mean_reversion
<1>13. short_trend_rejection(h) <=> short_trend_rejection(t)
  BY <1>1, <1>2, <1>3, <1>5 DEF short_trend_rejection
<1>14. short_volatility_breakdown(h) <=> short_volatility_breakdown(t)
  BY <1>1, <1>2, <1>3, <1>4, <1>5 DEF short_volatility_breakdown
<1>15. liquidity_sweep_reclaim(h) <=> liquidity_sweep_reclaim(t)
  BY <1>1, <1>2, <1>3, <1>4 DEF liquidity_sweep_reclaim
<1> QED  BY <1>7, <1>8, <1>9, <1>10, <1>11, <1>12, <1>13, <1>14, <1>15

\* So do those with a lookback of their own, and those of the active mode.
LEMMA ActiveAlike ==
    ASSUME NEW t, NEW h, SeenAlike(t, h), NEW k \in 1..W[64]
    PROVE  /\ intraday_volatility_breakout(h, k) <=> intraday_volatility_breakout(t, k)
           /\ active_breakout_continuation(h, k) <=> active_breakout_continuation(t, k)
           /\ active_pullback_reclaim(h) <=> active_pullback_reclaim(t)
           /\ active_squeeze_breakout(h, k) <=> active_squeeze_breakout(t, k)
           /\ active_liquidity_reversal(h, k) <=> active_liquidity_reversal(t, k)
           /\ active_range_mean_reversion(h, k) <=> active_range_mean_reversion(t, k)
           /\ active_short_breakdown(h, k) <=> active_short_breakdown(t, k)
<1>1. /\ Len(h) >= W[96]
      /\ Len(h) >= Larger(k + 1, W[96]) /\ Len(h) >= Larger(k + 2, W[96])
      /\ Len(h) >= Larger(k + 1, W[120]) /\ Len(h) >= Larger(k + W[12], W[96])
      /\ Len(t) >= W[96]
      /\ Len(t) >= Larger(k + 1, W[96]) /\ Len(t) >= Larger(k + 2, W[96])
      /\ Len(t) >= Larger(k + 1, W[120]) /\ Len(t) >= Larger(k + W[12], W[96])
  BY SeenLongEnough DEF LongEnough
<1>2. /\ Latest(h) = Latest(t) /\ Previous(h) = Previous(t)
      /\ RangeAt(h, Len(h)) = RangeAt(t, Len(t))
  BY DEF SeenAlike
<1>3. /\ VolumeRatio(h, W[12]) = VolumeRatio(t, W[12])
      /\ Efficiency(h, W[12]) = Efficiency(t, W[12])
      /\ VolumeRatio(h, W[24]) = VolumeRatio(t, W[24])
      /\ Sma(h, W[8]) = Sma(t, W[8]) /\ Sma(h, W[24]) = Sma(t, W[24])
      /\ Sma(h, W[96]) = Sma(t, W[96])
      /\ LowOf(h, Recent(h, W[8])) = LowOf(t, Recent(t, W[8]))
  BY DEF SeenAlike, SameOver, Windows
<1>4. /\ HighOf(h, Prior(h, k)) = HighOf(t, Prior(t, k))
      /\ LowOf(h, Prior(h, k)) = LowOf(t, Prior(t, k))
      /\ HighOf(h, Recent(h, k)) = HighOf(t, Recent(t, k))
      /\ LowOf(h, Recent(h, k)) = LowOf(t, Recent(t, k))
      /\ MedianRange(h, Prior(h, k)) = MedianRange(t, Prior(t, k))
      /\ MeanRange(h, LastOf(Prior(h, k), W[4])) = MeanRange(t, LastOf(Prior(t, k), W[4]))
      /\ MeanRange(h, LastOf(Prior(h, k), W[8])) = MeanRange(t, LastOf(Prior(t, k), W[8]))
      /\ HighOf(h, LastOf(Prior(h, k), W[8])) = HighOf(t, LastOf(Prior(t, k), W[8]))
      /\ LowOf(h, LastOf(Prior(h, k), W[8])) = LowOf(t, LastOf(Prior(t, k), W[8]))
  BY DEF SeenAlike, SameOver
<1>5. /\ VolumeRatio(h, Smaller(k, W[24])) = VolumeRatio(t, Smaller(k, W[24]))
      /\ Efficiency(h, Smaller(k, W[24])) = Efficiency(t, Smaller(k, W[24]))
      /\ Efficiency(h, Smaller(k, W[48])) = Efficiency(t, Smaller(k, W[48]))
  <2>1. Smaller(k, W[24]) \in 1..W[64] /\ Smaller(k, W[48]) \in 1..W[64]
    <3>1. 1 \in Nat \ {0}
      OBVIOUS
    <3> QED  BY <3>1, WithinReach
  <2> QED  BY <2>1 DEF SeenAlike, SameOver
<1>6. intraday_volatility_breakout(h, k) <=> intraday_volatility_breakout(t, k)
  BY <1>1, <1>2, <1>3, <1>4 DEF intraday_volatility_breakout
<1>7. active_breakout_continuation(h, k) <=> active_breakout_continuation(t, k)
  BY <1>1, <1>2, <1>4, <1>5 DEF active_breakout_continuation
<1>8. active_pullback_reclaim(h) <=> active_pullback_reclaim(t)
  BY <1>1, <1>2, <1>3 DEF active_pullback_reclaim
<1>9. active_squeeze_breakout(h, k) <=> active_squeeze_breakout(t, k)
  BY <1>1, <1>2, <1>3, <1>4 DEF active_squeeze_breakout
<1>10. active_liquidity_reversal(h, k) <=> active_liquidity_reversal(t, k)
  BY <1>1, <1>2, <1>3, <1>4 DEF active_liquidity_reversal
<1>11. active_range_mean_reversion(h, k) <=> active_range_mean_reversion(t, k)
  BY <1>1, <1>2, <1>4, <1>5 DEF active_range_mean_reversion
<1>12. active_short_breakdown(h, k) <=> active_short_breakdown(t, k)
  BY <1>1, <1>2, <1>4, <1>5 DEF active_short_breakdown
<1> QED  BY <1>6, <1>7, <1>8, <1>9, <1>10, <1>11, <1>12


\* The parts of their strengths are the same.
LEMMA StrengthsAlike ==
    ASSUME NEW t, NEW h, SeenAlike(t, h)
    PROVE  /\ \A n \in Windows : OverMean(h, W[n]) = OverMean(t, W[n])
           /\ \A m, n \in Windows : Trend(h, W[m], W[n]) = Trend(t, W[m], W[n])
           /\ OverHigh(h, Prior(h, Lookback)) = OverHigh(t, Prior(t, Lookback))
           /\ UnderLow(h, Prior(h, Lookback)) = UnderLow(t, Prior(t, Lookback))
           /\ \A m : /\ OverHigh(h, LastOf(Prior(h, Lookback), m))
                            = OverHigh(t, LastOf(Prior(t, Lookback), m))
                     /\ UnderLow(h, LastOf(Prior(h, Lookback), m))
                            = UnderLow(t, LastOf(Prior(t, Lookback), m))
                     /\ OverHigh(h, LastOf(Settled(h), m)) = OverHigh(t, LastOf(Settled(t), m))
           /\ \A k \in 1..W[64] :
                 /\ OverHigh(h, Prior(h, k)) = OverHigh(t, Prior(t, k))
                 /\ UnderLow(h, Prior(h, k)) = UnderLow(t, Prior(t, k))
                 /\ OverHigh(h, LastOf(Prior(h, k), W[8])) = OverHigh(t, LastOf(Prior(t, k), W[8]))
           /\ WickOf(Latest(h)) = WickOf(Latest(t))
<1>1. /\ Latest(h) = Latest(t) /\ SameOver(t, h, Lookback)
      /\ \A n \in Windows : SameOver(t, h, W[n])
      /\ \A k \in 1..W[64] : SameOver(t, h, k)
      /\ \A m : HighOf(h, LastOf(Settled(h), m)) = HighOf(t, LastOf(Settled(t), m))
  BY DEF SeenAlike
<1>2. \A n \in Windows : Sma(h, W[n]) = Sma(t, W[n])
  BY <1>1 DEF SameOver
<1>3. ASSUME NEW k, SameOver(t, h, k)
      PROVE  /\ OverHigh(h, Prior(h, k)) = OverHigh(t, Prior(t, k))
             /\ UnderLow(h, Prior(h, k)) = UnderLow(t, Prior(t, k))
             /\ \A m : /\ OverHigh(h, LastOf(Prior(h, k), m)) = OverHigh(t, LastOf(Prior(t, k), m))
                       /\ UnderLow(h, LastOf(Prior(h, k), m)) = UnderLow(t, LastOf(Prior(t, k), m))
  BY <1>1, <1>3 DEF SameOver, OverHigh, UnderLow
<1>4. \A m : OverHigh(h, LastOf(Settled(h), m)) = OverHigh(t, LastOf(Settled(t), m))
  BY <1>1 DEF OverHigh
<1>5. \A n \in Windows : OverMean(h, W[n]) = OverMean(t, W[n])
  BY <1>1, <1>2 DEF OverMean
<1>6. \A m, n \in Windows : Trend(h, W[m], W[n]) = Trend(t, W[m], W[n])
  BY <1>2 DEF Trend
<1>7. WickOf(Latest(h)) = WickOf(Latest(t))
  BY <1>1
<1> QED  BY <1>1, <1>3, <1>4, <1>5, <1>6, <1>7

\* The long rules that are tried by default say the same of both.
LEMMA LongAlike ==
    ASSUME NEW t, NEW h, SeenAlike(t, h), NEW m
    PROVE  LongRules(h, m) = LongRules(t, m)
<1> DEFINE short == Within(W[8], Lookback, W[16])
           s1(s) == Signal(information_momentum(s), "information_momentum", "BUY", 24, "", Whole)
           s2(s) == Signal(trend_pullback_reclaim(s), "trend_pullback_reclaim", "BUY", MaxHours,
                           "", OverMean(s, W[21]) + Trend(s, W[72], W[168]))
           s3(s) == Signal(trend_continuation(s), "trend_continuation", "BUY", MaxHours, "",
                           OverHigh(s, Prior(s, Lookback)))
           s4(s) == Signal(volatility_breakout(s), "volatility_breakout", "BUY", MaxHours, "",
                           OverHigh(s, LastOf(Prior(s, Lookback), W[8])))
           s5(s) == Signal(volatility_breakout_retest(s), "volatility_breakout_retest", "BUY", 48,
                           "", OverHigh(s, LastOf(Settled(s), W[8])))
           s6(s) == Signal(capitulation_mean_reversion(s), "capitulation_mean_reversion", "BUY",
                           48, "", Abs(Beyond(Previous(s).close, s[Len(s) - Lookback + 1].close)))
           a1(s) == Signal(intraday_volatility_breakout(s, short), "intraday_volatility_breakout",
                           "BUY", 12, "",
                           OverHigh(s, Prior(s, short)) + Excess(VolumeRatio(s, W[12])))
           a2(s) == Signal(liquidity_sweep_reclaim(s), "liquidity_sweep_reclaim", "BUY", 12, "",
                           -UnderLow(s, Prior(s, Lookback)) + WickOf(Latest(s)))
<1>1. \A s : AggressiveRules(s) = a1(s) \o a2(s)
  BY DEF AggressiveRules
<1>2. \A s : LongRules(s, m) = s1(s) \o s2(s) \o s3(s) \o s4(s) \o s5(s) \o s6(s)
                 \o (IF m = "aggressive_rules" THEN AggressiveRules(s) ELSE <<>>)
  BY DEF LongRules
<1>3. /\ information_momentum(h) <=> information_momentum(t)
      /\ trend_pullback_reclaim(h) <=> trend_pullback_reclaim(t)
      /\ trend_continuation(h) <=> trend_continuation(t)
      /\ volatility_breakout(h) <=> volatility_breakout(t)
      /\ volatility_breakout_retest(h) <=> volatility_breakout_retest(t)
      /\ capitulation_mean_reversion(h) <=> capitulation_mean_reversion(t)
      /\ liquidity_sweep_reclaim(h) <=> liquidity_sweep_reclaim(t)
  BY RulesAlike
<1>4. short \in 1..W[64]
  BY DataConstants, WithinReach
<1> HIDE DEF short
<1>5. intraday_volatility_breakout(h, short) <=> intraday_volatility_breakout(t, short)
  BY <1>4, ActiveAlike
<1>6. /\ Previous(h) = Previous(t) /\ h[Len(h) - Lookback + 1] = t[Len(t) - Lookback + 1]
      /\ VolumeRatio(h, W[12]) = VolumeRatio(t, W[12])
  BY DEF SeenAlike, SameOver, Windows
<1>7. /\ OverMean(h, W[21]) = OverMean(t, W[21])
      /\ Trend(h, W[72], W[168]) = Trend(t, W[72], W[168])
      /\ OverHigh(h, Prior(h, Lookback)) = OverHigh(t, Prior(t, Lookback))
      /\ UnderLow(h, Prior(h, Lookback)) = UnderLow(t, Prior(t, Lookback))
      /\ OverHigh(h, LastOf(Prior(h, Lookback), W[8])) = OverHigh(t, LastOf(Prior(t, Lookback), W[8]))
      /\ OverHigh(h, LastOf(Settled(h), W[8])) = OverHigh(t, LastOf(Settled(t), W[8]))
      /\ OverHigh(h, Prior(h, short)) = OverHigh(t, Prior(t, short))
      /\ WickOf(Latest(h)) = WickOf(Latest(t))
  <2>1. 21 \in Windows /\ 72 \in Windows /\ 168 \in Windows
    BY DEF Windows
  <2> QED  BY <1>4, <2>1, StrengthsAlike
<1>8. s1(h) = s1(t) /\ s2(h) = s2(t) /\ s3(h) = s3(t) /\ s4(h) = s4(t)
  BY <1>3, <1>7 DEF Signal
<1>9. s5(h) = s5(t) /\ s6(h) = s6(t) /\ a2(h) = a2(t)
  BY <1>3, <1>6, <1>7 DEF Signal
<1>10. a1(h) = a1(t)
  BY <1>5, <1>6, <1>7 DEF Signal
<1> HIDE DEF s1, s2, s3, s4, s5, s6, a1, a2
<1>11. AggressiveRules(h) = AggressiveRules(t)
  BY <1>1, <1>9, <1>10
<1> QED  BY <1>2, <1>8, <1>9, <1>11

\* So do the short ones.
LEMMA ShortAlike ==
    ASSUME NEW t, NEW h, SeenAlike(t, h)
    PROVE  ShortRules(h) = ShortRules(t)
<1> DEFINE s1(s) == Signal(short_information_momentum(s), "short_information_momentum", "SELL",
                           24, "", Whole)
           s2(s) == Signal(short_trend_rejection(s), "short_trend_rejection", "SELL", 48, "",
                           -OverMean(s, W[21]) + Larger(0, -OverMean(s, W[72])))
           s3(s) == Signal(short_volatility_breakdown(s), "short_volatility_breakdown", "SELL",
                           48, "", UnderLow(s, LastOf(Prior(s, Lookback), W[8])))
<1>1. \A s : ShortRules(s) = s1(s) \o s2(s) \o s3(s)
  BY DEF ShortRules
<1>2. /\ short_information_momentum(h) <=> short_information_momentum(t)
      /\ short_trend_rejection(h) <=> short_trend_rejection(t)
      /\ short_volatility_breakdown(h) <=> short_volatility_breakdown(t)
  BY RulesAlike
<1>3. /\ OverMean(h, W[21]) = OverMean(t, W[21]) /\ OverMean(h, W[72]) = OverMean(t, W[72])
      /\ UnderLow(h, LastOf(Prior(h, Lookback), W[8])) = UnderLow(t, LastOf(Prior(t, Lookback), W[8]))
  <2>1. 21 \in Windows /\ 72 \in Windows
    BY DEF Windows
  <2> QED  BY <2>1, StrengthsAlike
<1>4. s1(h) = s1(t) /\ s2(h) = s2(t) /\ s3(h) = s3(t)
  BY <1>2, <1>3 DEF Signal
<1> HIDE DEF s1, s2, s3
<1> QED  BY <1>1, <1>4

\* The window holds the history the rules ask for.
LEMMA WindowCovers == WindowSize >= MinHistory /\ MinHistory \in Nat
<1>1. Lookback + W[240] \in Nat \ {0} /\ Rolling \in Nat /\ MinHistory \in Nat
  <2>1. W[240] \in Nat \ {0}
    BY DataConstants DEF Windows
  <2> QED  BY <2>1, DataConstants
<1> DEFINE x == Lookback + W[240]
<1> HIDE DEF x
<1>2. Larger(Rolling, Larger(MinHistory, x)) >= MinHistory
  BY <1>1 DEF Larger, x
<1> QED  BY <1>1, <1>2 DEF WindowSize, x

\* The rules of the active mode say the same of both.
LEMMA ActiveRulesAlike ==
    ASSUME NEW t, NEW h, SeenAlike(t, h)
    PROVE  ActiveLong(h) = ActiveLong(t) /\ ActiveShort(h) = ActiveShort(t)
<1> DEFINE b == Within(W[8], Lookback, W[32])
           q == Within(W[16], 2 * Lookback, W[48])
           r == Within(W[12], Lookback, W[32])
           v == Within(W[24], 2 * Lookback, W[64])
           s1(s) == Signal(active_breakout_continuation(s, b), "active_breakout_continuation",
                           "BUY", Smaller(12, 4), "breakout",
                           OverHigh(s, Prior(s, b)) + Excess(VolumeRatio(s, Smaller(b, W[24]))))
           s2(s) == Signal(active_pullback_reclaim(s), "active_pullback_reclaim",
                           "BUY", Smaller(12, 4), "pullback_reclaim",
                           OverMean(s, W[8]) + Larger(0, Trend(s, W[24], W[96])))
           s3(s) == Signal(active_squeeze_breakout(s, q), "active_squeeze_breakout",
                           "BUY", Smaller(12, 6), "breakout",
                           OverHigh(s, LastOf(Prior(s, q), W[8]))
                             + (10000 * (HighOf(s, LastOf(Prior(s, q), W[8]))
                                           - LowOf(s, LastOf(Prior(s, q), W[8]))))
                                 \div Latest(s).close)
           s4(s) == Signal(active_liquidity_reversal(s, r), "active_liquidity_reversal",
                           "BUY", Smaller(12, 3), "liquidation_reversal",
                           -UnderLow(s, Prior(s, r)) + WickOf(Latest(s)))
           s5(s) == Signal(active_range_mean_reversion(s, v), "active_range_mean_reversion",
                           "BUY", Smaller(12, 3), "mean_reversion",
                           5000 - (10000 * (Latest(s).close - LowOf(s, Recent(s, v))))
                                    \div (HighOf(s, Recent(s, v)) - LowOf(s, Recent(s, v)))
                                + WickOf(Latest(s)))
           s6(s) == Signal(active_short_breakdown(s, b), "active_short_breakdown", "SELL",
                           4, "breakout",
                           UnderLow(s, Prior(s, b)) + Excess(VolumeRatio(s, Smaller(b, W[24]))))
<1>1. \A s : ActiveLong(s) = s1(s) \o s2(s) \o s3(s) \o s4(s) \o s5(s)
  BY DEF ActiveLong
<1>2. \A s : ActiveShort(s) = s6(s)
  BY DEF ActiveShort
<1>3. b \in 1..W[64] /\ q \in 1..W[64] /\ r \in 1..W[64] /\ v \in 1..W[64]
      /\ Smaller(b, W[24]) \in 1..W[64]
  <2>1. Lookback \in Nat \ {0} /\ 2 * Lookback \in Nat \ {0}
    BY DataConstants
  <2>2. b \in 1..W[64] /\ r \in 1..W[64]
    BY <2>1, WithinReach
  <2>3. q \in 1..W[64] /\ v \in 1..W[64]
    <3> DEFINE x == 2 * Lookback
    <3>1. x \in Nat \ {0}
      BY <2>1
    <3> HIDE DEF x
    <3>2. Within(W[16], x, W[48]) \in 1..W[64] /\ Within(W[24], x, W[64]) \in 1..W[64]
      BY <3>1, WithinReach
    <3> QED  BY <3>2 DEF x
  <2> HIDE DEF b
  <2>4. Smaller(b, W[24]) \in 1..W[64]
    BY <2>1, <2>2, WithinReach
  <2> QED  BY <2>2, <2>3, <2>4
<1> HIDE DEF b, q, r, v
<1>4. /\ active_breakout_continuation(h, b) <=> active_breakout_continuation(t, b)
      /\ active_pullback_reclaim(h) <=> active_pullback_reclaim(t)
      /\ active_squeeze_breakout(h, q) <=> active_squeeze_breakout(t, q)
      /\ active_liquidity_reversal(h, r) <=> active_liquidity_reversal(t, r)
      /\ active_range_mean_reversion(h, v) <=> active_range_mean_reversion(t, v)
      /\ active_short_breakdown(h, b) <=> active_short_breakdown(t, b)
  BY <1>3, ActiveAlike
<1>5. /\ OverMean(h, W[8]) = OverMean(t, W[8])
      /\ Trend(h, W[24], W[96]) = Trend(t, W[24], W[96])
      /\ WickOf(Latest(h)) = WickOf(Latest(t))
      /\ OverHigh(h, Prior(h, b)) = OverHigh(t, Prior(t, b))
      /\ UnderLow(h, Prior(h, b)) = UnderLow(t, Prior(t, b))
      /\ UnderLow(h, Prior(h, r)) = UnderLow(t, Prior(t, r))
      /\ OverHigh(h, LastOf(Prior(h, q), W[8])) = OverHigh(t, LastOf(Prior(t, q), W[8]))
  <2>1. 8 \in Windows /\ 24 \in Windows /\ 96 \in Windows
    BY DEF Windows
  <2> QED  BY <1>3, <2>1, StrengthsAlike
<1>6. SameOver(t, h, Smaller(b, W[24])) /\ SameOver(t, h, q) /\ SameOver(t, h, v)
      /\ Latest(h) = Latest(t)
  BY <1>3 DEF SeenAlike
<1>7. /\ VolumeRatio(h, Smaller(b, W[24])) = VolumeRatio(t, Smaller(b, W[24]))
      /\ HighOf(h, LastOf(Prior(h, q), W[8])) = HighOf(t, LastOf(Prior(t, q), W[8]))
      /\ LowOf(h, LastOf(Prior(h, q), W[8])) = LowOf(t, LastOf(Prior(t, q), W[8]))
      /\ HighOf(h, Recent(h, v)) = HighOf(t, Recent(t, v))
      /\ LowOf(h, Recent(h, v)) = LowOf(t, Recent(t, v))
  BY <1>6 DEF SameOver
<1>8. s1(h) = s1(t) /\ s2(h) = s2(t) /\ s6(h) = s6(t)
  BY <1>4, <1>5, <1>7 DEF Signal
<1>9. s3(h) = s3(t)
  BY <1>4, <1>5, <1>6, <1>7 DEF Signal
<1>10. s4(h) = s4(t)
  BY <1>4, <1>5 DEF Signal
<1>11. s5(h) = s5(t)
  BY <1>4, <1>5, <1>6, <1>7 DEF Signal
<1> HIDE DEF s1, s2, s3, s4, s5, s6
<1> QED  BY <1>1, <1>2, <1>8, <1>9, <1>10, <1>11

\* The setup of a bar b whose range and return are known, after bars of which
\* the rest is (_dense_setup_metadata).
SetupFrom(b, range, return, high, low, base, mean, narrow, short, long) ==
    LET position == IF high > low THEN ((b.close - low) * 1000) \div (high - low)
                    ELSE 500
        measured == b.volume > 0 /\ base > 0
        volume == IF measured THEN (b.volume * 1000) \div base ELSE 1000
        expansion == IF mean > 0 THEN (range * 1000) \div mean ELSE 0
        compression == IF mean > 0 THEN (narrow * 1000) \div mean ELSE 0
        breakout == b.close > high /\ volume >= 1050
        trend == short > 0 /\ long > 0 /\ position >= 550
        reclaim == \/ position <= 250 /\ LowerWick(b) > UpperWick(b)
                   \/ position >= 750 /\ return < 0
        release == compression <= 750 /\ expansion >= 1150
    IN [family |-> IF breakout THEN "liquidity_vacuum_breakout"
                   ELSE IF trend THEN "momentum_continuation"
                   ELSE IF reclaim THEN "mean_reversion_exhaustion"
                   ELSE IF release THEN "liquidity_vacuum_breakout"
                   ELSE "chop_no_trade",
        measured |-> measured, volume |-> volume, expansion |-> expansion]

\* Setups and horizons are the same.
LEMMA SetupsAlike ==
    ASSUME NEW t, NEW h, SeenAlike(t, h)
    PROVE  /\ DenseSetup(h) = DenseSetup(t)
           /\ \A hours, setup, strength :
                 HorizonOf(h, hours, setup, strength) = HorizonOf(t, hours, setup, strength)
           /\ \A side : Dense(h, side) = Dense(t, side)
<1>1. /\ Latest(h) = Latest(t) /\ RangeAt(h, Len(h)) = RangeAt(t, Len(t))
      /\ Return(h, Len(h)) = Return(t, Len(t)) /\ Movement(h) = Movement(t)
      /\ SameOver(t, h, W[24]) /\ SameOver(t, h, W[4]) /\ SameOver(t, h, W[16])
  BY DEF SeenAlike, Windows
<1>2. DenseSetup(h) = DenseSetup(t)
  <2> DEFINE From(s) == SetupFrom(Latest(s), RangeAt(s, Len(s)), Return(s, Len(s)),
                          HighOf(s, Prior(s, W[24])), LowOf(s, Prior(s, W[24])),
                          VolumeMean(s, Prior(s, W[24])), MeanRange(s, Prior(s, W[24])),
                          MeanRange(s, LastOf(Prior(s, W[24]), W[8])),
                          ReturnSum(s, Recent(s, W[4]) \ {1}),
                          ReturnSum(s, Recent(s, W[16]) \ {1}))
  <2>1. \A s : DenseSetup(s) = From(s)
    BY Zenon DEF DenseSetup, SetupFrom, VolumeMean, ReturnSum
  <2>2. From(h) = From(t)
    BY <1>1 DEF SameOver
  <2> HIDE DEF From
  <2> QED  BY <2>1, <2>2
<1>3. \A hours, setup, strength :
         HorizonOf(h, hours, setup, strength) = HorizonOf(t, hours, setup, strength)
  BY <1>1 DEF HorizonOf, AdaptiveHorizon
<1>4. Len(h) >= 2 /\ Len(t) >= 2
  BY SeenLongEnough DEF LongEnough
<1>5. \A side : Dense(h, side) = Dense(t, side)
  BY <1>1, <1>4 DEF Dense, Signal
<1> QED  BY <1>2, <1>3, <1>5

\* So are the candidates.
LEMMA CandidatesAlike ==
    ASSUME NEW t, NEW h, SeenAlike(t, h), NEW m
    PROVE  CandidatesOf(h, m) = CandidatesOf(t, m)
<1>1. \A side : Dense(h, side) = Dense(t, side)
  BY SetupsAlike
<1>2. ActiveLong(h) = ActiveLong(t) /\ ActiveShort(h) = ActiveShort(t)
      /\ LongRules(h, m) = LongRules(t, m) /\ ShortRules(h) = ShortRules(t)
  BY ActiveRulesAlike, LongAlike, ShortAlike
<1>3. \A signal : Candidate(h, signal) = Candidate(t, signal)
  <2>1. Latest(h) = Latest(t)
    BY DEF SeenAlike
  <2> QED  BY <2>1, SetupsAlike DEF Candidate
<1>4. \A signals : CandidatesFor(h, signals) = CandidatesFor(t, signals)
  BY <1>3 DEF CandidatesFor
<1>5. ~ Len(h) < MinHistory /\ ~ Len(t) < MinHistory
  <2>1. Len(h) \in Nat /\ Len(t) \in Nat /\ Len(h) >= Len(t) /\ Len(t) = WindowSize
    BY DEF SeenAlike
  <2>2. WindowSize >= MinHistory /\ MinHistory \in Nat
    BY WindowCovers
  <2> QED  BY <2>1, <2>2
<1> DEFINE L(s) == CASE m = "dense_research" -> Dense(s, "BUY")
                     [] m = "active_research" -> ActiveLong(s)
                     [] OTHER -> LongRules(s, m)
           S(s) == CASE m = "dense_research" -> Dense(s, "SELL")
                     [] m = "active_research" -> ActiveShort(s)
                     [] OTHER -> ShortRules(s)
           Of(s) == (IF SideMode = "short" THEN <<>> ELSE L(s))
                    \o (IF SideMode = "long" THEN <<>> ELSE S(s))
<1>6. L(h) = L(t) /\ S(h) = S(t)
  <2>1. CASE m = "dense_research"
    BY <1>1, <2>1
  <2>2. CASE m = "active_research"
    BY <1>2, <2>2
  <2>3. CASE m # "dense_research" /\ m # "active_research"
    BY <1>2, <2>3
  <2> QED  BY <2>1, <2>2, <2>3
<1>7. \A s : CandidatesOf(s, m) = IF Len(s) < MinHistory THEN <<>> ELSE CandidatesFor(s, Of(s))
  BY Zenon DEF CandidatesOf
<1> HIDE DEF L, S
<1>8. Of(h) = Of(t)
  BY <1>6
<1> HIDE DEF Of
<1> QED  BY <1>4, <1>5, <1>7, <1>8

\* The window at the last bar of a series is all that counts.
LEMMA WindowEnough ==
    ASSUME WindowHolds, NEW s \in Seq(DataBar), Len(s) >= MinHistory, NEW m
    PROVE  CandidatesAt(s, Len(s), m) = CandidatesOf(s, m)
<1>1. Len(s) \in Nat /\ WindowSize \in Nat \ {0} /\ MinHistory \in Nat
  BY LenProperties, WindowSizeNat, DataConstants
<1> DEFINE a == Larger(1, Len(s) + 1 - WindowSize)
           t == WindowAt(s, Len(s))
<1>2. CandidatesAt(s, Len(s), m) = CandidatesOf(t, m)
  <2>1. ~ Len(s) < MinHistory
    BY <1>1
  <2> QED  BY <2>1 DEF CandidatesAt
<1>3. t = SubSeq(s, a, Len(s))
  BY Zenon DEF WindowAt
<1>4. a \in Nat \ {0} /\ a = IF Len(s) <= WindowSize THEN 1 ELSE Len(s) + 1 - WindowSize
  BY <1>1 DEF Larger
<1> HIDE DEF t, a
<1>5. /\ t \in Seq(DataBar) /\ Len(t) = IF a <= Len(s) THEN Len(s) - a + 1 ELSE 0
      /\ \A k \in 1..Len(t) : t[k] = s[a + k - 1]
  <2>1. Len(s) <= Len(s)
    BY <1>1
  <2> QED  BY <1>1, <1>3, <1>4, <2>1, Stretch
<1>6. CASE Len(s) <= WindowSize
  <2>1. a = 1
    BY <1>4, <1>6
  <2>2. Len(t) = Len(s)
    BY <1>1, <1>5, <2>1
  <2>3. \A k \in 1..Len(t) : t[k] = s[k]
    BY <1>1, <1>5, <2>1, <2>2
  <2>4. t = s
    BY <1>5, <2>2, <2>3, SeqEqual
  <2> QED  BY <1>2, <2>4
<1>7. CASE ~ Len(s) <= WindowSize
  <2> DEFINE d == Len(s) - WindowSize
  <2>1. d \in Nat /\ a = d + 1 /\ a <= Len(s)
    BY <1>1, <1>4, <1>7
  <2>2. Len(t) = WindowSize
    BY <1>1, <1>5, <2>1
  <2>3. Len(s) = Len(t) + d
    BY <1>1, <2>2
  <2>4. ASSUME NEW k \in 1..Len(t) PROVE s[k + d] = t[k]
    <3>1. a + k - 1 = k + d
      BY <1>1, <2>1, <2>2
    <3>2. t[k] = s[a + k - 1]
      BY <1>5
    <3> QED  BY <3>1, <3>2
  <2> HIDE DEF d
  <2>5. Ending(t, s)
    <3>1. EndsAlike(t, s, d)
      BY <1>5, <2>1, <2>3, <2>4 DEF EndsAlike
    <3> QED  BY <2>2, <3>1 DEF Ending
  <2> QED  BY <1>2, <2>5, WindowSeen, CandidatesAlike
<1> QED  BY <1>6, <1>7

\* WindowSuffices, of every series of bars (candidates_for_index): what the
\* rules say of a bar does not depend on where the series began, as long as the
\* window is no shorter than the longest measure they take.
THEOREM RulesSeeEnough == WindowHolds => (DataSpec => WindowSuffices)
<1> SUFFICES ASSUME WindowHolds PROVE DataSpec => WindowSuffices
  OBVIOUS
<1>1. DataInv'
         => [ Len(bars') > Len(bars) /\ Len(bars') >= MinHistory =>
                CandidatesAt(bars', Len(bars'), mode) = CandidatesOf(bars', mode) ]_dataVars
  <2>1. DataInv' => bars' \in Seq(DataBar)
    BY DEF DataInv
  <2> QED  BY <2>1, WindowEnough
<1> QED  BY <1>1, DataInvariant, PTL DEF WindowSuffices

-----------------------------------------------------------------------------
(* The datasets: no candidate is passed over for an older one *)

\* The lists up to m go on where those up to j end, with elements of later lists.
Through(f, s, j, m) ==
    /\ Len(f[j]) <= Len(f[m])
    /\ \A p \in 1..Len(f[j]) : f[m][p] = f[j][p]
    /\ \A p \in 1..Len(f[m]) : p > Len(f[j]) =>
          \E l \in (j + 1)..m : f[m][p] \in ToSet(s[l])

\* They do from every list on.
LEMMA AllThrough ==
    ASSUME NEW A, NEW n \in Nat \ {0}, NEW s, s \in [1..n -> Seq(A)], NEW f,
           Steps(f, s, n, A), NEW j \in 1..n, NEW m \in j..n
    PROVE  Through(f, s, j, m)
<1> DEFINE Bad == {k \in j..n : ~ Through(f, s, j, k)}
<1> SUFFICES ASSUME Bad # {} PROVE FALSE
  OBVIOUS
<1>1. Bad \in SUBSET Nat
  OBVIOUS
<1>2. PICK k \in Bad : \A l \in Bad : k <= l
  BY <1>1, LeastElement
<1>3. k \in j..n /\ k \in 1..n /\ ~ Through(f, s, j, k)
  BY <1>2
<1>4. k # j
  <2>1. f[j] \in Seq(A)
    BY DEF Steps
  <2>2. Len(f[j]) \in Nat
    BY <2>1, LenProperties
  <2>3. Through(f, s, j, j)
    BY <2>2 DEF Through
  <2> QED  BY <1>3, <2>3
<1> DEFINE l == k - 1
<1>5. l \in j..n /\ l \in 1..n /\ l \notin Bad /\ k # 1 /\ k = l + 1
  <2>1. l \in j..n /\ l \in 1..n /\ k # 1 /\ k = l + 1 /\ ~ k <= l
    BY <1>3, <1>4
  <2> HIDE DEF l, Bad
  <2> QED  BY <1>2, <2>1
<1> HIDE DEF l
<1>6. Through(f, s, j, l)
  BY <1>5
<1> HIDE DEF Bad
<1>7. /\ f[k] = f[l] \o s[k] /\ f[l] \in Seq(A) /\ s[k] \in Seq(A) /\ f[j] \in Seq(A)
  <2>1. l = k - 1
    BY <1>3, <1>5
  <2> QED  BY <1>3, <1>5, <2>1 DEF Steps
<1> DEFINE x == f[l]
           y == s[k]
           z == f[k]
           w == f[j]
<1>8. /\ z = x \o y /\ x \in Seq(A) /\ y \in Seq(A) /\ w \in Seq(A)
      /\ Len(w) <= Len(x)
      /\ \A p \in 1..Len(w) : x[p] = w[p]
      /\ \A p \in 1..Len(x) : p > Len(w) => \E i \in (j + 1)..l : x[p] \in ToSet(s[i])
  BY <1>6, <1>7 DEF Through
<1> HIDE DEF x, y, z, w
<1>9. /\ Len(x) \in Nat /\ Len(y) \in Nat /\ Len(w) \in Nat /\ Len(z) = Len(x) + Len(y)
      /\ DOMAIN y = 1..Len(y)
      /\ \A p \in 1..Len(x) : z[p] = x[p]
      /\ \A p \in 1..Len(y) : z[Len(x) + p] = y[p]
  BY <1>8, LenProperties, ConcatProperties
<1>10. Len(w) <= Len(z) /\ \A p \in 1..Len(w) : z[p] = w[p]
  BY <1>8, <1>9
<1>11. ASSUME NEW p \in 1..Len(z), p > Len(w)
       PROVE  \E i \in (j + 1)..k : z[p] \in ToSet(s[i])
  <2>1. CASE p <= Len(x)
    <3>1. p \in 1..Len(x)
      BY <1>9, <2>1
    <3>2. PICK i \in (j + 1)..l : x[p] \in ToSet(s[i])
      BY <1>8, <1>11, <3>1
    <3>3. i \in (j + 1)..k
      BY <1>3, <1>5
    <3> QED  BY <1>9, <3>1, <3>2, <3>3
  <2>2. CASE p > Len(x)
    <3> DEFINE q == p - Len(x)
    <3>1. q \in 1..Len(y) /\ p = Len(x) + q
      BY <1>9, <2>2
    <3> HIDE DEF q
    <3>2. z[p] \in ToSet(y)
      BY <1>9, <3>1 DEF ToSet
    <3>3. k \in (j + 1)..k
      BY <1>3, <1>4
    <3> QED  BY <3>2, <3>3 DEF y
  <2> QED  BY <1>9, <2>1, <2>2
<1>12. Through(f, s, j, k)
  BY <1>10, <1>11 DEF Through, z, w
<1> QED  BY <1>3, <1>12

\* An x of the list F comes after every e.
After(F, x, e) ==
    \E q \in 1..Len(F) : F[q] = x /\ \A p \in 1..Len(F) : F[p] = e => p < q

\* An element of a later list comes after every one that none of them has.
LEMMA FlattenOrder ==
    ASSUME NEW A, NEW n \in Nat \ {0}, NEW s, s \in [1..n -> Seq(A)],
           NEW j \in 1..n, NEW i \in 1..n, j < i, NEW k \in 1..Len(s[i]),
           NEW e, \A l \in (j + 1)..n : e \notin ToSet(s[l])
    PROVE  After(FlattenSeq(s), s[i][k], e)
<1>1. PICK f : FlattenSeq(s) = f[n] /\ Steps(f, s, n, A)
  BY FlattenSteps
<1> DEFINE h == i - 1
<1>2. h \in 1..n /\ h \in j..n /\ i # 1 /\ n \in j..n /\ n \in i..n
  OBVIOUS
<1>3. f[i] = f[h] \o s[i] /\ \A m \in 1..n : f[m] \in Seq(A)
  BY <1>1, <1>2 DEF Steps
<1> HIDE DEF h
<1>4. Through(f, s, j, h) /\ Through(f, s, j, n) /\ Through(f, s, i, n)
  BY <1>1, <1>2, AllThrough
<1> DEFINE x == f[h]
           y == s[i]
           z == f[i]
           F == f[n]
           w == f[j]
<1>5. /\ z = x \o y /\ x \in Seq(A) /\ y \in Seq(A) /\ w \in Seq(A) /\ F \in Seq(A) /\ z \in Seq(A)
      /\ k \in 1..Len(y)
      /\ Len(w) <= Len(x) /\ Len(z) <= Len(F)
      /\ \A p \in 1..Len(z) : F[p] = z[p]
      /\ \A p \in 1..Len(F) : p > Len(w) => \E l \in (j + 1)..n : F[p] \in ToSet(s[l])
  <2>1. n \in 1..n /\ s[i] \in Seq(A)
    OBVIOUS
  <2>2. z = x \o y /\ x \in Seq(A) /\ y \in Seq(A) /\ w \in Seq(A) /\ F \in Seq(A) /\ z \in Seq(A)
    BY <1>2, <1>3, <2>1
  <2>3. Len(w) <= Len(x)
    BY <1>4 DEF Through
  <2>4. Len(z) <= Len(F) /\ \A p \in 1..Len(z) : F[p] = z[p]
    BY <1>4 DEF Through
  <2>5. \A p \in 1..Len(F) : p > Len(w) => \E l \in (j + 1)..n : F[p] \in ToSet(s[l])
    BY <1>4 DEF Through
  <2> QED  BY <2>2, <2>3, <2>4, <2>5
<1> HIDE DEF x, y, z, w, F
<1>6. /\ Len(x) \in Nat /\ Len(y) \in Nat /\ Len(w) \in Nat /\ Len(F) \in Nat
      /\ Len(z) = Len(x) + Len(y)
      /\ \A p \in 1..Len(y) : z[Len(x) + p] = y[p]
  BY <1>5, LenProperties, ConcatProperties
<1> DEFINE q == Len(x) + k
<1>7. q \in 1..Len(z) /\ q \in 1..Len(F) /\ z[q] = y[k] /\ q > Len(w) /\ q \in Nat
  BY <1>5, <1>6
<1> HIDE DEF q
<1>8. F[q] = y[k]
  BY <1>5, <1>7
<1>9. ASSUME NEW p \in 1..Len(F), F[p] = e PROVE p < q
  <2>1. ~ p > Len(w)
    BY <1>5, <1>9
  <2> QED  BY <1>6, <1>7, <2>1
<1>10. FlattenSeq(s) = F
  BY <1>1 DEF F
<1> QED  BY <1>7, <1>8, <1>9, <1>10 DEF y, After

\* g is the end of the list F.
EndOfList(g, F) ==
    \E c \in Nat : Len(F) = Len(g) + c /\ \A p \in 1..Len(g) : g[p] = F[p + c]

\* The last elements of a list are its end.
LEMMA LastIsEnd ==
    ASSUME NEW A, NEW F \in Seq(A), NEW n \in Nat
    PROVE  LastOfSeq(F, n) \in Seq(A) /\ EndOfList(LastOfSeq(F, n), F)
<1>1. Len(F) \in Nat
  BY LenProperties
<1> DEFINE a == Larger(1, Len(F) - n + 1)
           c == a - 1
           g == SubSeq(F, a, Len(F))
<1>2. a \in Nat \ {0} /\ c \in Nat /\ a = c + 1 /\ a <= Len(F) + 1
  BY <1>1 DEF Larger
<1> HIDE DEF a, c
<1>3. Len(g) = Len(F) - c /\ \A p \in 1..Len(g) : g[p] = F[p + c]
  <2>1. Len(g) = IF a <= Len(F) THEN Len(F) - a + 1 ELSE 0
    BY <1>1, <1>2
  <2>2. Len(g) = Len(F) - c
    BY <1>1, <1>2, <2>1
  <2>3. ASSUME NEW p \in 1..Len(g) PROVE g[p] = F[p + c]
    <3>1. g[p] = F[a + p - 1]
      BY <1>1, <1>2, <2>2
    <3>2. a + p - 1 = p + c
      BY <1>2
    <3> QED  BY <3>1, <3>2
  <2> QED  BY <2>2, <2>3
<1>4. LastOfSeq(F, n) = g
  BY DEF LastOfSeq, a
<1> HIDE DEF g
<1>5. EndOfList(g, F)
  <2>1. Len(F) = Len(g) + c
    BY <1>1, <1>2, <1>3
  <2> QED  BY <1>2, <1>3, <2>1 DEF EndOfList
<1> QED  BY <1>4, <1>5, LastIn

\* The end of an end is one.
LEMMA EndOfEnd ==
    ASSUME NEW A, NEW F \in Seq(A), NEW g \in Seq(A), NEW h \in Seq(A),
           EndOfList(h, g), EndOfList(g, F)
    PROVE  EndOfList(h, F)
<1>1. Len(F) \in Nat /\ Len(g) \in Nat /\ Len(h) \in Nat
  BY LenProperties
<1>2. PICK c \in Nat : Len(F) = Len(g) + c /\ \A p \in 1..Len(g) : g[p] = F[p + c]
  BY DEF EndOfList
<1>3. PICK d \in Nat : Len(g) = Len(h) + d /\ \A p \in 1..Len(h) : h[p] = g[p + d]
  BY DEF EndOfList
<1> DEFINE b == d + c
<1>4. b \in Nat /\ Len(F) = Len(h) + b
  BY <1>1, <1>2, <1>3
<1>5. ASSUME NEW p \in 1..Len(h) PROVE h[p] = F[p + b]
  <2> DEFINE r == p + d
  <2>1. r \in 1..Len(g) /\ r + c = p + b
    BY <1>1, <1>3
  <2> HIDE DEF r, b
  <2>2. g[r] = F[r + c]
    BY <1>2, <2>1
  <2>3. h[p] = g[r]
    BY <1>3 DEF r
  <2> QED  BY <2>1, <2>2, <2>3
<1> HIDE DEF b
<1> QED  BY <1>4, <1>5 DEF EndOfList

\* What comes after an element of the end is of the end.
LEMMA EndKeeps ==
    ASSUME NEW A, NEW F \in Seq(A), NEW g \in Seq(A), EndOfList(g, F), NEW e \in ToSet(g),
           NEW q \in 1..Len(F), \A p \in 1..Len(F) : F[p] = e => p < q
    PROVE  F[q] \in ToSet(g)
<1>1. Len(F) \in Nat /\ Len(g) \in Nat /\ DOMAIN g = 1..Len(g)
  BY LenProperties
<1>2. PICK c \in Nat : Len(F) = Len(g) + c /\ \A p \in 1..Len(g) : g[p] = F[p + c]
  BY DEF EndOfList
<1>3. PICK p \in 1..Len(g) : e = g[p]
  BY <1>1 DEF ToSet
<1> DEFINE r == p + c
           l == q - c
<1>4. r \in 1..Len(F) /\ F[r] = e
  BY <1>1, <1>2, <1>3
<1>5. r < q
  <2> HIDE DEF r
  <2> QED  BY <1>4
<1>6. l \in 1..Len(g) /\ l + c = q
  BY <1>1, <1>2, <1>5
<1> HIDE DEF l
<1>7. g[l] = F[q]
  BY <1>2, <1>6
<1> QED  BY <1>1, <1>6, <1>7 DEF ToSet

\* The newer candidates of the bars that are kept are scored with an older one.
LEMMA NewerScored ==
    ASSUME NEW t \in Seq(DataBar), Rising(t), NEW v \in ScoringSamples(t),
           NEW i \in 1..Len(t), OnStride(i), t[i].at > v.at,
           NEW k \in DOMAIN CandidatesAt(t, i, mode)
    PROVE  \E u \in ScoringSamples(t) : SameEvent(CandidatesAt(t, i, mode)[k], u.event)
<1> DEFINE n == Len(t)
           onStride == {l \in DOMAIN t : OnStride(l)}
           recent == {l \in onStride :
                         Cardinality({m \in onStride : m > l}) < IndexBudget}
           lists == [l \in DOMAIN t |->
                        IF l \in recent THEN CandidatesAt(t, l, mode) ELSE <<>>]
           F == FlattenSeq(lists)
           last == LastOfSeq(LastOfSeq(F, 4 * MaxSamples), MaxSamples)
           C == {ToSet(lists[l]) : l \in 1..n}
           A == UNION C
           c == CandidatesAt(t, i, mode)
<1>1. DOMAIN t = 1..n /\ n \in Nat
  BY LenProperties
<1>2. ScoringSamples(t) = IF n < 2 THEN {}
                          ELSE {Scored(t, e) : e \in {x \in ToSet(last) : IndexOf(t, x) > 1}}
  BY Zenon DEF ScoringSamples
<1> HIDE DEF last
<1>3. /\ ~ n < 2
      /\ \E e \in ToSet(last) : IndexOf(t, e) > 1 /\ v = Scored(t, e)
  BY <1>2
<1>4. PICK e \in ToSet(last) : IndexOf(t, e) > 1 /\ v = Scored(t, e)
  BY <1>3
<1>5. t[i].at > e.at
  BY <1>4 DEF Scored
<1>6. \A l \in 1..n : lists[l] \in Seq(ToSet(lists[l]))
  <2> TAKE l \in 1..n
  <2>1. lists[l] = IF l \in recent THEN CandidatesAt(t, l, mode) ELSE <<>>
    BY <1>1
  <2> HIDE DEF lists
  <2>2. CASE lists[l] = <<>>
    BY <2>2
  <2>3. CASE lists[l] # <<>>
    <3>1. lists[l] = CandidatesOf(WindowAt(t, l), mode)
      BY <2>1, <2>3 DEF CandidatesAt
    <3> QED  BY <3>1, CandidatesListed
  <2> QED  BY <2>2, <2>3
<1>7. lists \in [1..n -> Seq(A)]
  <2>1. \A l \in 1..n : lists[l] \in Seq(A)
    <3> TAKE l \in 1..n
    <3> DEFINE T == ToSet(lists[l])
    <3>1. T \in C
      OBVIOUS
    <3>2. T \subseteq A
      <4> HIDE DEF T, C
      <4> QED  BY <3>1, Zenon
    <3>3. lists[l] \in Seq(T)
      BY <1>6
    <3> HIDE DEF T, A, lists
    <3> QED  BY <3>2, <3>3
  <2>2. lists = [l \in 1..n |-> lists[l]]
    BY <1>1
  <2> HIDE DEF lists, A
  <2> QED  BY <2>1, <2>2
<1>8. ASSUME NEW l \in 1..n, NEW x \in ToSet(lists[l])
      PROVE  l \in recent /\ lists[l] = CandidatesAt(t, l, mode) /\ x.at = t[l].at
  <2>1. lists[l] = IF l \in recent THEN CandidatesAt(t, l, mode) ELSE <<>>
    BY <1>1
  <2> HIDE DEF lists, recent
  <2>2. lists[l] # <<>>
    BY <1>8 DEF ToSet
  <2>3. l \in recent /\ lists[l] = CandidatesOf(WindowAt(t, l), mode)
        /\ lists[l] = CandidatesAt(t, l, mode)
    BY <2>1, <2>2 DEF CandidatesAt
  <2>4. x.at = t[l].at
    <3>1. /\ WindowAt(t, l) \in Seq(DataBar) /\ WindowAt(t, l) # <<>>
          /\ Latest(WindowAt(t, l)) = t[l]
      BY WindowFacts
    <3>2. x \in ToSet(CandidatesOf(WindowAt(t, l), mode))
      BY <2>3
    <3> QED  BY <3>1, <3>2, CandidateFacts
  <2> QED  BY <2>3, <2>4
<1>9. \A l \in 1..n : t[l].at \in Nat
  BY BarNumbers
<1> HIDE DEF A, F
<1>10. F \in Seq(A) /\ last \in Seq(A) /\ EndOfList(last, F)
  <2>1. F \in Seq(A)
    <3> HIDE DEF lists
    <3> QED  BY <1>1, <1>7, FlattenedIn DEF F
  <2>2. MaxSamples \in Nat /\ 4 * MaxSamples \in Nat
    <3>1. MaxSamples \in Nat
      BY DatasetAssumption DEF DatasetAssumption
    <3> QED  BY <3>1
  <2> DEFINE g == LastOfSeq(F, 4 * MaxSamples)
  <2>3. g \in Seq(A) /\ EndOfList(g, F)
    BY <2>1, <2>2, LastIsEnd
  <2>4. last = LastOfSeq(g, MaxSamples)
    BY DEF last
  <2> HIDE DEF g
  <2>5. last \in Seq(A) /\ EndOfList(last, g)
    BY <2>2, <2>3, <2>4, LastIsEnd
  <2> QED  BY <2>1, <2>3, <2>5, EndOfEnd
<1>11. PICK j \in 1..n : e \in ToSet(lists[j])
  <2>1. e \in A
    <3>1. PICK p \in 1..Len(last) : e = last[p]
      <4>1. DOMAIN last = 1..Len(last)
        BY <1>10, LenProperties
      <4> QED  BY <4>1 DEF ToSet
    <3> QED  BY <1>10, <3>1, ElementOfSeq
  <2> HIDE DEF lists
  <2> QED  BY <2>1 DEF A
<1>12. e.at = t[j].at /\ j \in recent
  BY <1>8, <1>11
<1>13. j < i
  <2>1. ~ i < j /\ i # j
    BY <1>5, <1>9, <1>12 DEF Rising
  <2> QED  BY <2>1
<1>14. i \in recent
  <2> DEFINE J == {m \in onStride : m > j}
             I == {m \in onStride : m > i}
  <2>1. j \in onStride /\ Cardinality(J) < IndexBudget
    BY <1>12
  <2>2. i \in onStride
    BY <1>1
  <2>3. onStride \in SUBSET (1..n)
    BY <1>1
  <2>4. IsFiniteSet(1..n)
    <3>1. n \in Int /\ 1 \in Int
      BY <1>1
    <3> QED  BY <3>1, FS_Interval
  <2> HIDE DEF onStride
  <2>5. J \subseteq 1..n /\ I \subseteq J
    <3>1. J \subseteq onStride
      OBVIOUS
    <3>2. ASSUME NEW m \in onStride, m > i PROVE m > j
      <4>1. m \in Nat /\ i \in Nat /\ j \in Nat
        BY <2>3
      <4> QED  BY <1>13, <3>2, <4>1
    <3>3. I \subseteq J
      BY <3>2
    <3> QED  BY <2>3, <3>1, <3>3
  <2>6. IsFiniteSet(J)
    BY <2>4, <2>5, FS_Subset
  <2>7. IsFiniteSet(I) /\ Cardinality(I) <= Cardinality(J)
    BY <2>5, <2>6, FS_Subset
  <2>8. Cardinality(I) \in Nat /\ Cardinality(J) \in Nat /\ IndexBudget \in Nat
    BY <2>6, <2>7, FS_CardinalityType, DatasetAssumption DEF DatasetAssumption
  <2> HIDE DEF I, J
  <2>9. Cardinality(I) < IndexBudget
    BY <2>1, <2>7, <2>8
  <2> QED  BY <2>2, <2>9 DEF I
<1>15. lists[i] = c /\ k \in 1..Len(lists[i])
  <2>1. lists[i] = c
    BY <1>1, <1>14
  <2>2. DOMAIN c = 1..Len(c)
    <3> DEFINE T == ToSet(lists[i])
    <3>1. lists[i] \in Seq(T)
      BY <1>6
    <3> HIDE DEF T, lists, c
    <3> QED  BY <2>1, <3>1, LenProperties
  <2> QED  BY <2>1, <2>2
<1>16. \A l \in (j + 1)..n : e \notin ToSet(lists[l])
  <2> TAKE l \in (j + 1)..n
  <2> SUFFICES ASSUME e \in ToSet(lists[l]) PROVE FALSE
    OBVIOUS
  <2>1. l \in 1..n /\ j < l
    BY <1>1
  <2>2. e.at = t[l].at
    BY <1>8, <2>1
  <2>3. t[j].at < t[l].at
    BY <2>1 DEF Rising
  <2>4. t[j].at \in Nat /\ t[l].at = t[j].at
    BY <1>9, <1>12, <2>2
  <2> HIDE DEF lists, recent, onStride
  <2> QED  BY <2>3, <2>4
<1> HIDE DEF lists, c, recent, onStride, C
<1>17. PICK q \in 1..Len(F) : /\ F[q] = lists[i][k]
                              /\ \A p \in 1..Len(F) : F[p] = e => p < q
  <2>1. n \in Nat \ {0}
    BY <1>1
  <2>2. k \in 1..Len(lists[i])
    BY <1>15
  <2>3. After(FlattenSeq(lists), lists[i][k], e)
    BY <1>7, <1>13, <1>16, <2>1, <2>2, FlattenOrder
  <2> QED  BY <2>3 DEF F, After
<1> DEFINE x == c[k]
<1>18. x \in ToSet(last)
  BY <1>10, <1>15, <1>17, EndKeeps
<1>19. IndexOf(t, x) = i /\ i > 1
  <2>1. x \in ToSet(lists[i])
    <3>1. k \in DOMAIN lists[i]
      BY <1>15 DEF c
    <3> QED  BY <1>15, <3>1 DEF ToSet
  <2>2. x.at = t[i].at
    BY <1>8, <2>1
  <2> HIDE DEF x
  <2>3. IndexOf(t, x) = i
    BY <2>2, IndexFacts
  <2> QED  BY <1>13, <2>3
<1> HIDE DEF x
<1>20. Scored(t, x) \in ScoringSamples(t)
  BY <1>2, <1>3, <1>18, <1>19
<1>21. SameEvent(x, Scored(t, x).event)
  BY DEF Scored, SameEvent
<1> QED  BY <1>20, <1>21 DEF x, c

\* What a live run kept is a series in the order of time.
LEMMA KeptRises ==
    ASSUME DataInv
    PROVE  Kept \in Seq(DataBar) /\ Rising(Kept)
<1>1. bars \in Seq(DataBar) /\ Rising(bars)
  BY DEF DataInv
<1>2. HistoryMax \in Nat
  BY DatasetAssumption DEF DatasetAssumption
<1>3. Kept \in Seq(DataBar) /\ EndOfList(Kept, bars)
  BY <1>1, <1>2, LastIsEnd DEF Kept
<1> DEFINE t == Kept
<1>4. Len(t) \in Nat /\ Len(bars) \in Nat
  BY <1>1, <1>3, LenProperties
<1>5. PICK c \in Nat : Len(bars) = Len(t) + c /\ \A p \in 1..Len(t) : t[p] = bars[p + c]
  BY <1>3 DEF EndOfList
<1> HIDE DEF t
<1>6. ASSUME NEW k \in 1..Len(t), NEW l \in 1..Len(t), k < l PROVE t[k].at < t[l].at
  <2> DEFINE x == k + c
             y == l + c
  <2>1. x \in 1..Len(bars) /\ y \in 1..Len(bars) /\ x < y
    BY <1>4, <1>5, <1>6
  <2>2. t[k] = bars[x] /\ t[l] = bars[y]
    BY <1>5
  <2> HIDE DEF x, y
  <2> QED  BY <1>1, <2>1, <2>2 DEF Rising
<1>7. Rising(t)
  BY <1>6 DEF Rising
<1> QED  BY <1>3, <1>7 DEF t

\* NewestServed, of every series of bars, length of the history, stride and limit
\* of samples (build_scoring_samples): both limits cut off the oldest.
THEOREM NewestIsServed == DataSpec => NewestServed
<1>1. DataInv /\ [DataNext]_dataVars
         => [ served' # served =>
                \A v \in served', i \in DOMAIN Kept :
                    OnStride(i) /\ Kept[i].at > v.at =>
                        LET events == CandidatesAt(Kept, i, mode) IN
                        \A k \in DOMAIN events :
                            \E u \in served' : SameEvent(events[k], u.event) ]_dataVars
  <2> SUFFICES ASSUME DataInv, [DataNext]_dataVars, served' # served,
                      NEW v \in served', NEW i \in DOMAIN Kept, OnStride(i), Kept[i].at > v.at,
                      NEW k \in DOMAIN CandidatesAt(Kept, i, mode)
               PROVE  \E u \in served' : SameEvent(CandidatesAt(Kept, i, mode)[k], u.event)
    OBVIOUS
  <2>1. BuildScoringSamples
    <3>1. ASSUME NEW shape, NEW gap, Arrive(shape, gap) PROVE served' = served
      BY <3>1 DEF Arrive
    <3>2. ASSUME NEW f, NEW offset, Observe(f, offset) PROVE served' = served
      BY <3>2, Zenon DEF Observe
    <3>3. BuildMetaLabelSamples \/ UNCHANGED dataVars => served' = served
      BY DEF BuildMetaLabelSamples, dataVars
    <3> QED  BY <3>1, <3>2, <3>3, Zenon DEF DataNext
  <2>2. served' = ScoringSamples(Kept)
    BY <2>1 DEF BuildScoringSamples
  <2>3. Kept \in Seq(DataBar) /\ Rising(Kept)
    BY KeptRises
  <2>4. i \in 1..Len(Kept)
    BY <2>3, LenProperties
  <2> QED  BY <2>2, <2>3, <2>4, NewerScored
<1> QED  BY <1>1, DataInvariant, PTL DEF DataSpec, NewestServed

-----------------------------------------------------------------------------
(* Experiments *)

Command == [of : Names, replay : Replays]

RunnerFields == {"at", "todo", "force", "rows", "started", "child", "code"}
RowFields == {"status", "eligible", "error", "no", "at", "trials"}

\* The commands still running were launched, and so was the awaited one,
\* whose experiment is not done yet.
CommandsKnown ==
    /\ launched \in Seq(Command)
    /\ DOMAIN working \subseteq DOMAIN launched

RunnerKnown ==
    /\ DOMAIN runner = RunnerFields
    /\ runner.at \in {"idle", "next", "wait", "ended"}
    /\ runner.todo \subseteq Names
    /\ runner.at \in {"idle", "next"} => runner.child = 0
    /\ runner.at \in {"wait", "ended"} =>
          /\ runner.child \in DOMAIN launched
          /\ Awaited \in runner.todo

\* A complete artifact says which command of its experiment wrote it, over
\* what data, and what the gate has against them.
FilesTrue ==
    /\ DOMAIN file = Names
    /\ \A e \in Names : file[e] \notin NoResult =>
          /\ file[e].no \in DOMAIN launched
          /\ launched[file[e].no].of = e
          /\ file[e].replay = launched[file[e].no].replay
          /\ file[e].errors = StrictErrors(e, file[e].replay)

\* The command numbered no computed a result for e that may be promoted.
Earned(e, no) ==
    /\ no \in DOMAIN launched
    /\ launched[no].of = e
    /\ OneSecondExecution(launched[no].replay)
    /\ launched[no].replay.labelTicks /\ launched[no].replay.executionTicks
    /\ e \in Strict => /\ launched[no].replay.days >= MinDays
                       /\ launched[no].replay.folds >= MinFolds

RowTrue(e, row) ==
    /\ DOMAIN row = RowFields
    /\ row.eligible => Earned(e, row.no)

RowsTrue ==
    /\ DOMAIN runner.rows \subseteq Names
    /\ \A e \in DOMAIN runner.rows : RowTrue(e, runner.rows[e])

SummaryTrue == \A e \in DOMAIN summary : RowTrue(e, summary[e])

\* What the runner has started is done, but for the awaited experiment, and
\* what is done is never started again.
StartedOnce ==
    /\ DOMAIN runner.rows \cap runner.todo = {}
    /\ runner.at = "next" => DOMAIN runner.started \cap runner.todo = {}
    /\ runner.at \in {"wait", "ended"} =>
          /\ DOMAIN runner.started \cap runner.todo = {Awaited}
          /\ runner.started[Awaited] = runner.child

\* A file in reach of the awaited command's success: torn, or finished since
\* that command was launched.
SinceLaunched(e, no) ==
    file[e] = Torn \/ (file[e] \notin NoResult /\ file[e].at >= no)

AwaitedWritten ==
    runner.at = "ended" /\ runner.code = 0 => SinceLaunched(Awaited, runner.child)

\* The inductive invariant.
Inv ==
    /\ CommandsKnown
    /\ RunnerKnown
    /\ FilesTrue
    /\ RowsTrue
    /\ SummaryTrue
    /\ StartedOnce
    /\ AwaitedWritten
    /\ FreshUnlessTold

-----------------------------------------------------------------------------
\* The states of an artifact differ in their kind.
LEMMA Kinds ==
    /\ NoFile # Torn /\ NoFile # Foreign /\ Torn # Foreign
    /\ \A r : r.kind = "result" => r \notin NoResult
<1>1. NoFile.kind = "none" /\ Torn.kind = "torn" /\ Foreign.kind = "foreign"
  BY DEF NoFile, Torn, Foreign
<1> QED BY <1>1 DEF NoResult

\* What a new entry changes of a dictionary.
LEMMA PutFacts ==
    ASSUME NEW f, NEW k, NEW v
    PROVE  /\ DOMAIN Put(f, k, v) = DOMAIN f \cup {k}
           /\ Put(f, k, v)[k] = v
           /\ \A x \in DOMAIN f \ {k} : Put(f, k, v)[x] = f[x]
  BY DEF Put

\* Commands already launched keep their number and what they are.
LEMMA Appended ==
    ASSUME CommandsKnown, NEW c \in Command, launched' = Append(launched, c)
    PROVE  /\ Len(launched) + 1 \in Nat
           /\ launched' \in Seq(Command)
           /\ DOMAIN launched' = DOMAIN launched \cup {Len(launched) + 1}
           /\ Len(launched) + 1 \notin DOMAIN launched
           /\ \A i \in DOMAIN launched : launched'[i] = launched[i]
           /\ launched'[Len(launched) + 1] = c
  BY DEF CommandsKnown

\* What a launched command is.
LEMMA LaunchedFacts ==
    ASSUME CommandsKnown, NEW no \in DOMAIN launched
    PROVE  /\ no \in Nat /\ no # 0 /\ Len(launched) \in Nat /\ no <= Len(launched)
           /\ launched[no].of \in Names /\ launched[no].replay \in Replays
<1>1. launched[no] \in Command
  BY DEF CommandsKnown
<1>2. no \in 1..Len(launched) /\ Len(launched) \in Nat
  BY DEF CommandsKnown
<1> QED BY <1>1, <1>2 DEF Command

\* Without an error of the gate the data are what promotion asks for.
LEMMA NothingAgainst ==
    ASSUME NEW e, NEW d \in Replays, StrictErrors(e, d) = {}
    PROVE  /\ d.labelTicks /\ d.executionTicks
           /\ e \in Strict => d.days >= MinDays /\ d.folds >= MinFolds
<1>1. /\ d.labelTicks \in BOOLEAN /\ d.executionTicks \in BOOLEAN
      /\ d.days \in Nat /\ d.folds \in Nat /\ MinDays \in Nat /\ MinFolds \in Nat
  BY ReplayAssumption, BoundAssumption
<1>2. /\ ~(~d.labelTicks) /\ ~(~d.executionTicks)
      /\ ~(d.days < MinimumOf(e, MinDays)) /\ ~(d.folds < MinimumOf(e, MinFolds))
  BY DEF StrictErrors
<1> QED BY <1>1, <1>2 DEF MinimumOf

\* A blank row is never eligible.
LEMMA BlankFacts ==
    ASSUME NEW e, NEW status, NEW error \in BOOLEAN
    PROVE  RowTrue(e, BlankRow(status, error)) /\ BlankRow(status, error).error = error
  BY DEF RowTrue, BlankRow, RowFields

\* What the runners read from a true file is a true row; without an error it
\* is as recent as the file is.
LEMMA ReadFacts ==
    ASSUME CommandsKnown, FilesTrue, NEW e \in Names, NEW failed \in BOOLEAN
    PROVE  /\ RowTrue(e, ParseArtifact(e, failed)) /\ RowTrue(e, ParseAudit(e))
           /\ \A no : SinceLaunched(e, no) =>
                 /\ ~failed /\ ~ParseArtifact(e, failed).error
                       => ParseArtifact(e, failed).at >= no
                 /\ ~ParseAudit(e).error => ParseAudit(e).at >= no
<1>1. CASE file[e] \in NoResult
  <2>1. RowTrue(e, UnreadableRow(file[e], log[e], failed))
    BY BlankFacts DEF UnreadableRow
  <2>2. /\ RowTrue(e, BlankRow("invalid_json", TRUE)) /\ BlankRow("invalid_json", TRUE).error
        /\ RowTrue(e, BlankRow("non_result", FALSE))
    BY BlankFacts
  <2>3. file[e] = Torn => UnreadableRow(file[e], log[e], failed).error
    BY BlankFacts DEF UnreadableRow
  <2>4. ParseArtifact(e, failed) = UnreadableRow(file[e], log[e], failed)
    BY <1>1 DEF ParseArtifact
  <2>5. /\ ParseAudit(e) \in {BlankRow("invalid_json", TRUE), BlankRow("non_result", FALSE)}
        /\ file[e] = Torn => ParseAudit(e) = BlankRow("invalid_json", TRUE)
    BY <1>1, Kinds DEF ParseAudit, NoResult
  <2> QED BY <1>1, <2>1, <2>2, <2>3, <2>4, <2>5 DEF SinceLaunched
<1>2. CASE file[e] \notin NoResult
  <2> DEFINE row(x) == ResultRow(file[e], x)
  <2>1. \A x \in BOOLEAN : /\ DOMAIN row(x) = RowFields
                           /\ row(x).no = file[e].no /\ row(x).at = file[e].at
                           /\ row(x).error = x
                           /\ row(x).eligible <=> /\ kind = "ibkr"
                                                  /\ OneSecondExecution(file[e].replay)
                                                  /\ file[e].errors = {}
    BY DEF ResultRow, RowFields
  <2>2. /\ file[e].no \in DOMAIN launched
        /\ launched[file[e].no].of = e
        /\ file[e].replay = launched[file[e].no].replay
        /\ file[e].errors = StrictErrors(e, file[e].replay)
    BY <1>2 DEF FilesTrue
  <2>3. launched[file[e].no].replay \in Replays
    BY <2>2, LaunchedFacts
  <2>4. \A x \in BOOLEAN : row(x).eligible => Earned(e, file[e].no)
    <3> SUFFICES ASSUME NEW x \in BOOLEAN, row(x).eligible PROVE Earned(e, file[e].no)
      OBVIOUS
    <3>1. OneSecondExecution(file[e].replay) /\ StrictErrors(e, file[e].replay) = {}
      BY <2>1, <2>2
    <3> QED BY <2>2, <2>3, <3>1, NothingAgainst DEF Earned
  <2>5. \A x \in BOOLEAN : RowTrue(e, row(x))
    BY <2>1, <2>4 DEF RowTrue
  <2>6. ParseArtifact(e, failed) = row(failed) /\ ParseAudit(e) = row(FALSE)
    BY <1>2 DEF ParseArtifact, ParseAudit, NoResult
  <2>7. \A no : SinceLaunched(e, no) => file[e].at >= no
    BY <1>2 DEF SinceLaunched, NoResult
  <2> HIDE DEF row
  <2> QED BY <2>1, <2>5, <2>6, <2>7
<1> QED BY <1>1, <1>2

\* A row does not lose its truth while commands are added.
Extended ==
    /\ DOMAIN launched \subseteq DOMAIN launched'
    /\ \A i \in DOMAIN launched : launched'[i] = launched[i]

\* Rows that were true stay true.
LEMMA TruthKept ==
    ASSUME Extended
    PROVE  \A e, row : RowTrue(e, row) => RowTrue(e, row)'
<1>1. \A e, no : Earned(e, no) => Earned(e, no)'
  BY DEF Earned, Extended
<1> QED BY <1>1 DEF RowTrue

\* So are the rows of the runner, and those of the summary.
LEMMA RowsKept ==
    ASSUME Extended, DOMAIN runner'.rows \subseteq Names,
           \A e \in DOMAIN runner'.rows : RowTrue(e, runner'.rows[e])
    PROVE  RowsTrue'
<1> SUFFICES ASSUME NEW e \in DOMAIN runner'.rows PROVE RowTrue(e, runner.rows[e])'
  BY DEF RowsTrue
<1>1. PICK row : row = runner'.rows[e]
  OBVIOUS
<1>2. RowTrue(e, row)
  BY <1>1
<1>3. RowTrue(e, row)'
  BY <1>2, TruthKept
<1> QED BY <1>1, <1>3 DEF RowTrue, Earned

\* The same for the summary.
LEMMA SummaryKept ==
    ASSUME Extended, \A e \in DOMAIN summary' : RowTrue(e, summary'[e])
    PROVE  SummaryTrue'
<1> SUFFICES ASSUME NEW e \in DOMAIN summary' PROVE RowTrue(e, summary[e])'
  BY DEF SummaryTrue
<1>1. PICK row : row = summary'[e]
  OBVIOUS
<1>2. RowTrue(e, row)
  BY <1>1
<1>3. RowTrue(e, row)'
  BY <1>2, TruthKept
<1> QED BY <1>1, <1>3 DEF RowTrue, Earned

\* Nothing launched is the simplest case of that.
LEMMA SameCommands ==
    ASSUME launched' = launched
    PROVE  Extended
  BY DEF Extended

\* Recording the row of an experiment that was still to do.
LEMMA Recorded ==
    ASSUME Inv, NEW e \in runner.todo, NEW row, Record(e, row), RowTrue(e, row),
           launched' = launched,
           e \in DOMAIN runner.started /\ ~row.error => row.at >= runner.started[e],
           runner.at \in {"wait", "ended"} => e = Awaited,
           runner.at # "idle"
    PROVE  RunnerKnown' /\ RowsTrue' /\ StartedOnce' /\ AwaitedWritten' /\ FreshUnlessTold'
<1>1. /\ DOMAIN runner' = RunnerFields
      /\ runner'.at = "next" /\ runner'.child = 0 /\ runner'.todo = runner.todo \ {e}
      /\ runner'.started = runner.started
      /\ runner'.rows = Put(runner.rows, e, row)
  BY DEF Record, Inv, RunnerKnown, RunnerFields
<1>2. /\ DOMAIN runner'.rows = DOMAIN runner.rows \cup {e}
      /\ runner'.rows[e] = row
      /\ \A x \in DOMAIN runner.rows \ {e} : runner'.rows[x] = runner.rows[x]
  BY <1>1 DEF Put
<1>3. RunnerKnown'
  BY <1>1 DEF Inv, RunnerKnown
<1>4. RowsTrue'
  <2>1. DOMAIN runner'.rows \subseteq Names
    BY <1>2 DEF Inv, RunnerKnown, RowsTrue
  <2>2. \A x \in DOMAIN runner'.rows : RowTrue(x, runner'.rows[x])
    BY <1>2 DEF Inv, RowsTrue
  <2> QED BY <2>1, <2>2, RowsKept, SameCommands
<1>5. StartedOnce'
  BY <1>1, <1>2 DEF Inv, RunnerKnown, StartedOnce
<1>6. AwaitedWritten'
  BY <1>1 DEF AwaitedWritten
<1>7. FreshUnlessTold'
  BY <1>1, <1>2 DEF Inv, FreshUnlessTold
<1> QED BY <1>3, <1>4, <1>5, <1>6, <1>7

\* Back to idle, a runner claims nothing.
LEMMA BackToIdle ==
    ASSUME runner' = Idle, launched' = launched
    PROVE  RunnerKnown' /\ RowsTrue' /\ StartedOnce' /\ AwaitedWritten' /\ FreshUnlessTold'
<1>1. /\ DOMAIN runner' = RunnerFields
      /\ runner'.at = "idle" /\ runner'.child = 0 /\ runner'.todo = {}
      /\ DOMAIN runner'.rows = {}
  BY DEF Idle, NoRows, RunnerFields
<1> QED BY <1>1 DEF RunnerKnown, RowsTrue, StartedOnce, AwaitedWritten, FreshUnlessTold

\* The files say what they said, whatever is launched meanwhile.
LEMMA FilesKept ==
    ASSUME FilesTrue, Extended, file' = file
    PROVE  FilesTrue'
  BY DEF FilesTrue, Extended

\* A runner that is not touched while no command is launched.
LEMMA RunnerKept ==
    ASSUME Inv, runner' = runner, launched' = launched,
           \A e \in Names, n \in DOMAIN launched : SinceLaunched(e, n) => SinceLaunched(e, n)'
    PROVE  RunnerKnown' /\ RowsTrue' /\ StartedOnce' /\ AwaitedWritten' /\ FreshUnlessTold'
<1>1. RunnerKnown'
  BY DEF Inv, RunnerKnown, Awaited
<1>2. RowsTrue'
  BY RowsKept, SameCommands DEF Inv, RowsTrue
<1>3. StartedOnce'
  BY DEF Inv, StartedOnce, Awaited
<1>4. AwaitedWritten'
  <2> SUFFICES ASSUME runner.at = "ended", runner.code = 0
               PROVE  SinceLaunched(Awaited, runner.child)'
    BY DEF AwaitedWritten
  <2>1. PICK e, n : e = Awaited /\ n = runner.child
    OBVIOUS
  <2>2. e \in Names /\ n \in DOMAIN launched /\ SinceLaunched(e, n)
    BY <2>1 DEF Inv, RunnerKnown, AwaitedWritten
  <2>3. SinceLaunched(e, n)'
    BY <2>2
  <2> QED BY <2>1, <2>3 DEF SinceLaunched, Awaited
<1>5. FreshUnlessTold'
  BY DEF Inv, FreshUnlessTold
<1> QED BY <1>1, <1>2, <1>3, <1>4, <1>5

\* The end of a command reaches the runner that waits for it, and no other.
LEMMA Exited ==
    ASSUME Inv, NEW no \in DOMAIN working, NEW code, Exit(no, code), launched' = launched,
           \A e \in Names, n \in DOMAIN launched : SinceLaunched(e, n) => SinceLaunched(e, n)',
           code = 0 => \A e \in Names : e = launched[no].of => SinceLaunched(e, no)'
    PROVE  /\ CommandsKnown'
           /\ RunnerKnown' /\ RowsTrue' /\ StartedOnce' /\ AwaitedWritten' /\ FreshUnlessTold'
<1>1. CommandsKnown'
  BY DEF Inv, CommandsKnown, Exit, Without
<1>2. CASE runner.child # no
  BY <1>1, <1>2, RunnerKept DEF Exit
<1>3. CASE runner.child = no
  <2>1. no \in DOMAIN launched /\ no # 0 /\ launched[no].of \in Names
    BY LaunchedFacts DEF Inv, CommandsKnown
  <2>2. /\ DOMAIN runner' = RunnerFields /\ runner'.at = "ended" /\ runner'.code = code
        /\ runner'.todo = runner.todo /\ runner'.child = no
        /\ runner'.rows = runner.rows /\ runner'.started = runner.started
    BY <1>3 DEF Exit, Inv, RunnerKnown, RunnerFields
  <2>3. runner.at \in {"wait", "ended"}
    BY <1>3, <2>1 DEF Inv, RunnerKnown
  <2>4. RunnerKnown'
    BY <1>3, <2>1, <2>2, <2>3 DEF Inv, RunnerKnown, Awaited
  <2>5. RowsTrue'
    BY <2>2, RowsKept, SameCommands DEF Inv, RowsTrue
  <2>6. StartedOnce'
    BY <1>3, <2>2, <2>3 DEF Inv, StartedOnce, Awaited
  <2>7. AwaitedWritten'
    <3> SUFFICES ASSUME code = 0 PROVE SinceLaunched(Awaited, runner.child)'
      BY <2>2 DEF AwaitedWritten
    <3>1. PICK e \in Names : e = launched[no].of
      BY <2>1
    <3>2. SinceLaunched(e, no)'
      BY <3>1
    <3> QED BY <2>2, <3>1, <3>2 DEF SinceLaunched, Awaited
  <2>8. FreshUnlessTold'
    BY <2>2 DEF Inv, FreshUnlessTold
  <2> QED BY <1>1, <2>4, <2>5, <2>6, <2>7, <2>8
<1> QED BY <1>2, <1>3

-----------------------------------------------------------------------------
\* The steps of the commands.
LEMMA CommandSteps ==
    ASSUME Inv, NEW no \in DOMAIN working,
           CommandRefused(no) \/ CommandFails(no) \/ CommandWrites(no) \/ CommandEnds(no)
    PROVE  Inv'
<1> DEFINE e == launched[no].of
<1>0. /\ no \in DOMAIN launched /\ no \in Nat /\ Len(launched) \in Nat /\ no <= Len(launched)
      /\ e \in Names /\ \A n \in DOMAIN launched : n \in Nat /\ n <= Len(launched)
  BY LaunchedFacts DEF Inv, CommandsKnown
<1>1. launched' = launched /\ summary' = summary
  BY DEF CommandRefused, CommandFails, CommandWrites, CommandEnds
<1>2. SummaryTrue'
  BY <1>1, SummaryKept, SameCommands DEF Inv, SummaryTrue
<1>3. CASE CommandRefused(no) \/ CommandFails(no)
  <2>1. Exit(no, 1) /\ file' = file
    BY <1>3 DEF CommandRefused, CommandFails
  <2>2. FilesTrue'
    BY <1>1, <2>1, FilesKept, SameCommands DEF Inv
  <2>3. \A f \in Names, n \in DOMAIN launched : SinceLaunched(f, n) => SinceLaunched(f, n)'
    BY <2>1 DEF SinceLaunched
  <2> QED BY <1>1, <1>2, <2>1, <2>2, <2>3, Exited DEF Inv
<1>4. CASE CommandWrites(no)
  <2>1. file' = [file EXCEPT ![e] = Torn] /\ runner' = runner /\ DOMAIN working' = DOMAIN working
    BY <1>4 DEF CommandWrites
  <2>2. FilesTrue'
    BY <1>1, <2>1 DEF Inv, FilesTrue, NoResult
  <2>3. \A f \in Names, n \in DOMAIN launched : SinceLaunched(f, n) => SinceLaunched(f, n)'
    BY <2>1 DEF SinceLaunched, Inv, FilesTrue
  <2>4. CommandsKnown'
    BY <1>1, <2>1 DEF Inv, CommandsKnown
  <2> QED BY <1>1, <1>2, <2>1, <2>2, <2>3, <2>4, RunnerKept DEF Inv
<1>5. CASE CommandEnds(no)
  <2> DEFINE result == [kind |-> "result", no |-> no, at |-> Len(launched),
                        replay |-> launched[no].replay,
                        errors |-> StrictErrors(e, launched[no].replay)]
  <2>1. /\ file' = [file EXCEPT ![e] = result] \/ file' = [file EXCEPT ![e] = Torn]
        /\ Exit(no, 0)
    BY <1>5 DEF CommandEnds
  <2>2. PICK left \in {result, Torn} : file' = [file EXCEPT ![e] = left]
    BY <2>1
  <2>3. /\ DOMAIN file' = Names /\ file'[e] = left
        /\ \A f \in Names \ {e} : file'[f] = file[f]
    BY <1>0, <2>2 DEF Inv, FilesTrue
  <2>4. result.kind = "result"
    OBVIOUS
  <2>5. /\ result.no = no /\ result.at = Len(launched)
        /\ result.replay = launched[no].replay
        /\ result.errors = StrictErrors(e, launched[no].replay)
        /\ result \notin NoResult
    BY <2>4, Kinds
  <2> HIDE DEF result
  <2>6. FilesTrue'
    BY <1>0, <1>1, <2>2, <2>3, <2>5 DEF Inv, FilesTrue, NoResult
  <2>7. \A f \in Names, n \in DOMAIN launched : SinceLaunched(f, n) => SinceLaunched(f, n)'
    BY <1>0, <2>3, <2>5 DEF SinceLaunched
  <2>8. \A f \in Names : f = launched[no].of => SinceLaunched(f, no)'
    BY <1>0, <2>3, <2>5 DEF SinceLaunched
  <2> QED BY <1>1, <1>2, <2>1, <2>6, <2>7, <2>8, Exited DEF Inv
<1> QED BY <1>3, <1>4, <1>5

-----------------------------------------------------------------------------
\* The steps of the runner: choosing what to run.
LEMMA StartSteps ==
    ASSUME Inv, Start
    PROVE  Inv'
<1>1. PICK chosen \in SUBSET Names, force \in BOOLEAN :
         runner' = [Idle EXCEPT !.at = "next", !.force = force, !.todo = chosen]
  BY DEF Start
<1>2. /\ DOMAIN runner' = RunnerFields
      /\ runner'.at = "next" /\ runner'.child = 0 /\ runner'.todo \subseteq Names
      /\ DOMAIN runner'.rows = {} /\ DOMAIN runner'.started = {}
  BY <1>1 DEF Idle, NoRows, RunnerFields
<1>3. launched' = launched /\ working' = working /\ file' = file /\ summary' = summary
  BY DEF Start
<1>4. CommandsKnown'
  BY <1>3 DEF Inv, CommandsKnown
<1>5. FilesTrue'
  BY <1>3, FilesKept, SameCommands DEF Inv
<1>6. SummaryTrue'
  BY <1>3, SummaryKept, SameCommands DEF Inv, SummaryTrue
<1>7. RunnerKnown' /\ RowsTrue' /\ StartedOnce' /\ AwaitedWritten' /\ FreshUnlessTold'
  BY <1>2 DEF RunnerKnown, RowsTrue, StartedOnce, AwaitedWritten, FreshUnlessTold
<1> QED BY <1>4, <1>5, <1>6, <1>7 DEF Inv

\* Reading an artifact that is there.
LEMMA ReuseSteps ==
    ASSUME Inv, NEW e \in Names, ReuseIbkr(e) \/ ReuseColab(e)
    PROVE  Inv'
<1>1. PICK row \in {ParseArtifact(e, FALSE), ParseAudit(e)} : Record(e, row)
  BY DEF ReuseIbkr, ReuseColab
<1>2. /\ Pending(e) /\ launched' = launched /\ working' = working
      /\ file' = file /\ summary' = summary
  BY DEF ReuseIbkr, ReuseColab
<1>3. e \in runner.todo /\ runner.at = "next" /\ e \notin DOMAIN runner.started
  BY <1>2 DEF Pending, Inv, StartedOnce
<1>4. RowTrue(e, row)
  BY <1>1, ReadFacts DEF Inv
<1>5. RunnerKnown' /\ RowsTrue' /\ StartedOnce' /\ AwaitedWritten' /\ FreshUnlessTold'
  BY <1>1, <1>2, <1>3, <1>4, Recorded
<1>6. CommandsKnown'
  BY <1>2 DEF Inv, CommandsKnown
<1>7. FilesTrue'
  BY <1>2, FilesKept, SameCommands DEF Inv
<1>8. SummaryTrue'
  BY <1>2, SummaryKept, SameCommands DEF Inv, SummaryTrue
<1> QED BY <1>5, <1>6, <1>7, <1>8 DEF Inv

\* Starting a command.
LEMMA LaunchSteps ==
    ASSUME Inv, NEW e \in Names, LaunchIbkr(e) \/ LaunchColab(e)
    PROVE  Inv'
<1> DEFINE no == Len(launched) + 1
<1>1. StartCommand(e) /\ file' = file /\ summary' = summary
  BY DEF LaunchIbkr, LaunchColab
<1>2. PICK d \in Replays : launched' = Append(launched, [of |-> e, replay |-> d])
  BY <1>1 DEF StartCommand
<1>3. /\ no \in Nat
      /\ launched' \in Seq(Command)
      /\ DOMAIN launched' = DOMAIN launched \cup {no}
      /\ no \notin DOMAIN launched
      /\ \A i \in DOMAIN launched : launched'[i] = launched[i]
      /\ launched'[no].of = e
  <2>1. [of |-> e, replay |-> d] \in Command /\ CommandsKnown
    BY DEF Command, Inv
  <2> QED BY <1>2, <2>1, Appended
<1>4. Extended
  BY <1>3 DEF Extended
<1>5. /\ Pending(e) /\ working' = Put(working, no, "computing")
      /\ runner' = [runner EXCEPT !.at = "wait", !.child = no, !.started = Put(@, e, no)]
  BY <1>1 DEF StartCommand
<1> HIDE DEF no
<1>6. /\ DOMAIN runner' = RunnerFields
      /\ runner'.at = "wait" /\ runner'.child = no /\ runner'.todo = runner.todo
      /\ runner'.rows = runner.rows /\ runner'.started = Put(runner.started, e, no)
  BY <1>5 DEF Inv, RunnerKnown, RunnerFields
<1>7. /\ DOMAIN runner'.started = DOMAIN runner.started \cup {e}
      /\ runner'.started[e] = no
      /\ \A x \in DOMAIN runner.started \ {e} : runner'.started[x] = runner.started[x]
  BY <1>6 DEF Put
<1>8. e \in runner.todo /\ runner.at = "next" /\ e \notin DOMAIN runner.rows
  BY <1>5 DEF Pending, Inv, StartedOnce
<1>9. CommandsKnown'
  <2>1. DOMAIN working' = DOMAIN working \cup {no}
    BY <1>5 DEF Put
  <2> QED BY <1>3, <2>1 DEF Inv, CommandsKnown
<1>10. RunnerKnown'
  BY <1>3, <1>6, <1>8 DEF Inv, RunnerKnown, Awaited
<1>11. FilesTrue'
  BY <1>1, <1>4, FilesKept DEF Inv
<1>12. RowsTrue'
  BY <1>4, <1>6, RowsKept DEF Inv, RowsTrue
<1>13. SummaryTrue'
  BY <1>1, <1>4, SummaryKept DEF Inv, SummaryTrue
<1>14. StartedOnce'
  BY <1>3, <1>6, <1>7, <1>8 DEF Inv, StartedOnce, Awaited
<1>15. AwaitedWritten'
  BY <1>6 DEF AwaitedWritten
<1>16. FreshUnlessTold'
  BY <1>6, <1>7, <1>8 DEF Inv, FreshUnlessTold
<1> QED BY <1>9, <1>10, <1>11, <1>12, <1>13, <1>14, <1>15, <1>16 DEF Inv

\* The row of a command that has ended, or was killed at the timeout.
LEMMA CollectSteps ==
    ASSUME Inv, CollectIbkr \/ CollectColab \/ TimedOut
    PROVE  Inv'
<1>1. /\ launched' = launched /\ file' = file /\ summary' = summary
      /\ DOMAIN working' \subseteq DOMAIN working
      /\ runner.at \in {"wait", "ended"}
  BY DEF CollectIbkr, CollectColab, TimedOut, Without
<1>2. PICK e : e = Awaited
  OBVIOUS
<1>3. /\ e \in runner.todo /\ e \in Names /\ e \in DOMAIN runner.started
      /\ runner.started[e] = runner.child
  BY <1>1, <1>2 DEF Inv, RunnerKnown, StartedOnce
<1>4. PICK row : /\ Record(e, row)
                 /\ RowTrue(e, row)
                 /\ ~row.error => row.at >= runner.child
  <2>1. CASE CollectIbkr
    <3>1. PICK failed \in BOOLEAN : failed = (runner.code # 0)
      OBVIOUS
    <3>2. Record(e, ParseArtifact(e, failed)) /\ runner.at = "ended"
      BY <1>2, <2>1, <3>1 DEF CollectIbkr
    <3>3. RowTrue(e, ParseArtifact(e, failed))
      BY <1>3, ReadFacts DEF Inv
    <3>4. CASE failed = FALSE
      <4>1. SinceLaunched(e, runner.child)
        BY <1>2, <3>1, <3>2, <3>4 DEF Inv, AwaitedWritten
      <4>2. ~ParseArtifact(e, failed).error => ParseArtifact(e, failed).at >= runner.child
        BY <1>3, <3>4, <4>1, ReadFacts DEF Inv
      <4> QED BY <3>2, <3>3, <4>2
    <3>5. CASE failed = TRUE
      <4>1. ParseArtifact(e, TRUE).error
        BY DEF ParseArtifact, UnreadableRow, BlankRow, ResultRow
      <4> QED BY <3>2, <3>3, <3>5, <4>1
    <3> QED BY <3>1, <3>4, <3>5
  <2>2. CASE CollectColab
    <3>1. /\ runner.at = "ended"
          /\ Record(e, IF runner.code # 0 THEN BlankRow("failed", TRUE) ELSE ParseAudit(e))
      BY <1>2, <2>2 DEF CollectColab
    <3>2. CASE runner.code # 0
      BY <3>1, <3>2, BlankFacts
    <3>3. CASE runner.code = 0
      <4>1. SinceLaunched(e, runner.child)
        BY <1>2, <3>1, <3>3 DEF Inv, AwaitedWritten
      <4>2. RowTrue(e, ParseAudit(e)) /\ (~ParseAudit(e).error => ParseAudit(e).at >= runner.child)
        BY <1>3, <4>1, ReadFacts DEF Inv
      <4> QED BY <3>1, <3>3, <4>2
    <3> QED BY <3>2, <3>3
  <2>3. CASE TimedOut
    BY <1>2, <2>3, BlankFacts DEF TimedOut
  <2> QED BY <2>1, <2>2, <2>3
<1>5. RunnerKnown' /\ RowsTrue' /\ StartedOnce' /\ AwaitedWritten' /\ FreshUnlessTold'
  BY <1>1, <1>2, <1>3, <1>4, Recorded
<1>6. CommandsKnown'
  BY <1>1 DEF Inv, CommandsKnown
<1>7. FilesTrue'
  BY <1>1, FilesKept, SameCommands DEF Inv
<1>8. SummaryTrue'
  BY <1>1, SummaryKept, SameCommands DEF Inv, SummaryTrue
<1> QED BY <1>5, <1>6, <1>7, <1>8 DEF Inv

\* The number of trials is all that a summary adds to a row.
LEMMA SummarizeFacts ==
    ASSUME NEW rows, \A e \in DOMAIN rows : RowTrue(e, rows[e])
    PROVE  \A e \in DOMAIN Summarize(rows) : RowTrue(e, Summarize(rows)[e])
<1> SUFFICES ASSUME NEW e \in DOMAIN rows PROVE RowTrue(e, Summarize(rows)[e])
  BY DEF Summarize
<1>1. RowTrue(e, rows[e])
  OBVIOUS
<1>2. Summarize(rows)[e] \in {rows[e], [rows[e] EXCEPT !.trials = Trials(rows)]}
  BY DEF Summarize
<1>3. CASE Summarize(rows)[e] = rows[e]
  BY <1>1, <1>3
<1>4. CASE Summarize(rows)[e] = [rows[e] EXCEPT !.trials = Trials(rows)]
  <2>1. /\ DOMAIN Summarize(rows)[e] = RowFields
        /\ Summarize(rows)[e].eligible = rows[e].eligible
        /\ Summarize(rows)[e].no = rows[e].no
    BY <1>1, <1>4 DEF RowTrue, RowFields
  <2> QED BY <1>1, <2>1 DEF RowTrue
<1> QED BY <1>2, <1>3, <1>4

\* Writing the summary or the report.
LEMMA WriteSteps ==
    ASSUME Inv, WriteSummary \/ WriteReport
    PROVE  Inv'
<1>1. /\ launched' = launched /\ file' = file /\ working' = working
      /\ runner' = Idle
  BY DEF WriteSummary, WriteReport
<1>2. RunnerKnown' /\ RowsTrue' /\ StartedOnce' /\ AwaitedWritten' /\ FreshUnlessTold'
  BY <1>1, BackToIdle
<1>3. CommandsKnown'
  BY <1>1 DEF Inv, CommandsKnown
<1>4. FilesTrue'
  BY <1>1, FilesKept, SameCommands DEF Inv
<1>5. SummaryTrue'
  <2>1. PICK rows : /\ \A e \in DOMAIN rows : RowTrue(e, rows[e])
                    /\ summary' \in {rows, Summarize(rows)}
    <3>1. CASE WriteReport
      BY <3>1 DEF WriteReport, Inv, RowsTrue
    <3>2. CASE WriteSummary
      <4>1. \A e \in DOMAIN ExistingResults :
               e \in Names /\ ExistingResults[e] = ParseArtifact(e, FALSE)
        BY DEF ExistingResults
      <4>2. \A e \in DOMAIN ExistingResults : RowTrue(e, ExistingResults[e])
        BY <4>1, ReadFacts DEF Inv
      <4>3. PICK rows : rows = Over(runner.rows, ExistingResults)
        OBVIOUS
      <4>4. \A e \in DOMAIN rows : RowTrue(e, rows[e])
        BY <4>2, <4>3 DEF Over, Inv, RowsTrue
      <4> QED BY <3>2, <4>3, <4>4 DEF WriteSummary
    <3> QED BY <3>1, <3>2
  <2>2. \A e \in DOMAIN summary' : RowTrue(e, summary'[e])
    BY <2>1, SummarizeFacts
  <2> QED BY <1>1, <2>2, SummaryKept, SameCommands
<1> QED BY <1>2, <1>3, <1>4, <1>5 DEF Inv

\* The end of a runner in the middle of its work.
LEMMA InterruptedSteps ==
    ASSUME Inv, Interrupted
    PROVE  Inv'
<1>1. /\ launched' = launched /\ file' = file /\ summary' = summary
      /\ DOMAIN working' \subseteq DOMAIN working
      /\ runner' = Idle
  BY DEF Interrupted, Without
<1>2. RunnerKnown' /\ RowsTrue' /\ StartedOnce' /\ AwaitedWritten' /\ FreshUnlessTold'
  BY <1>1, BackToIdle
<1>3. CommandsKnown'
  BY <1>1 DEF Inv, CommandsKnown
<1>4. FilesTrue'
  BY <1>1, FilesKept, SameCommands DEF Inv
<1>5. SummaryTrue'
  BY <1>1, SummaryKept, SameCommands DEF Inv, SummaryTrue
<1> QED BY <1>2, <1>3, <1>4, <1>5 DEF Inv

-----------------------------------------------------------------------------

\* Before anything is started nothing is claimed.
LEMMA Initially == Init => Inv
<1> SUFFICES ASSUME Init PROVE Inv
  OBVIOUS
<1>1. /\ DOMAIN runner = RunnerFields
      /\ runner.at = "idle" /\ runner.child = 0 /\ runner.todo = {}
      /\ DOMAIN runner.rows = {}
  BY DEF Init, Idle, NoRows, RunnerFields
<1>2. CommandsKnown
  <2>1. launched = <<>> /\ working = [e \in {} |-> 0]
    BY DEF Init, NoRows
  <2>2. launched \in Seq(Command)
    BY <2>1
  <2>3. DOMAIN working \subseteq DOMAIN launched
    BY <2>1
  <2> QED BY <2>2, <2>3 DEF CommandsKnown
<1>3. FilesTrue
  BY DEF Init, FilesTrue, NoResult
<1>4. SummaryTrue
  BY DEF Init, SummaryTrue, NoRows
<1>5. RunnerKnown /\ RowsTrue /\ StartedOnce /\ AwaitedWritten /\ FreshUnlessTold
  BY <1>1 DEF RunnerKnown, RowsTrue, StartedOnce, AwaitedWritten, FreshUnlessTold
<1> QED BY <1>2, <1>3, <1>4, <1>5 DEF Inv

\* A step of neither the runner nor a command.
LEMMA Stuttering ==
    ASSUME Inv, UNCHANGED vars
    PROVE  Inv'
<1>1. /\ launched' = launched /\ file' = file /\ summary' = summary
      /\ working' = working /\ runner' = runner
  BY DEF vars
<1>2. RunnerKnown' /\ RowsTrue' /\ StartedOnce' /\ AwaitedWritten' /\ FreshUnlessTold'
  BY <1>1, RunnerKept DEF SinceLaunched
<1>3. CommandsKnown'
  BY <1>1 DEF Inv, CommandsKnown
<1>4. FilesTrue'
  BY <1>1, FilesKept, SameCommands DEF Inv
<1>5. SummaryTrue'
  BY <1>1, SummaryKept, SameCommands DEF Inv, SummaryTrue
<1> QED BY <1>2, <1>3, <1>4, <1>5 DEF Inv

\* Every step of the runner, of a command or of neither keeps the invariant.
LEMMA InvStep ==
    ASSUME Inv, [Next]_vars
    PROVE  Inv'
<1>1. CASE Start
  BY <1>1, StartSteps
<1>2. ASSUME NEW e \in Names, ReuseIbkr(e) \/ ReuseColab(e) PROVE Inv'
  BY <1>2, ReuseSteps
<1>3. ASSUME NEW e \in Names, LaunchIbkr(e) \/ LaunchColab(e) PROVE Inv'
  BY <1>3, LaunchSteps
<1>4. ASSUME NEW no \in DOMAIN working,
             CommandRefused(no) \/ CommandFails(no) \/ CommandWrites(no) \/ CommandEnds(no)
      PROVE  Inv'
  BY <1>4, CommandSteps
<1>5. CASE CollectIbkr \/ CollectColab \/ TimedOut
  BY <1>5, CollectSteps
<1>6. CASE WriteSummary \/ WriteReport
  BY <1>6, WriteSteps
<1>7. CASE Interrupted
  BY <1>7, InterruptedSteps
<1>8. CASE UNCHANGED vars
  BY <1>8, Stuttering
<1> QED BY <1>1, <1>2, <1>3, <1>4, <1>5, <1>6, <1>7, <1>8 DEF Next

\* The invariant holds throughout: files, rows and the summary say truly by
\* which command, of which experiment and over what data they came about.
THEOREM InvHolds == Spec => []Inv
BY InvStep, Initially, PTL DEF Spec

\* A row the summary calls promotion-eligible was earned by a command of that
\* very experiment, whatever was interrupted, forced, torn or reused between.
THEOREM PromotionEarnedHolds == Spec => []PromotionEarned
<1>1. Inv => PromotionEarned
  BY DEF Inv, SummaryTrue, RowTrue, Earned, PromotionEarned, OneSecondExecution
<1> QED BY <1>1, InvHolds, PTL

\* A result reported without an error, for an experiment the runner started
\* itself, was finished since: the part of the invariant about the awaited
\* command's file is what makes it so when an older artifact is still there.
THEOREM FreshUnlessToldHolds == Spec => []FreshUnlessTold
<1>1. Inv => FreshUnlessTold
  BY DEF Inv
<1> QED BY <1>1, InvHolds, PTL

-----------------------------------------------------------------------------
\* The trials counted.

\* An artifact that no command has written.
Unwritten == {NoFile, Foreign}

\* A row with a result has an artifact behind it that a command wrote, torn
\* since at worst.
RowsBacked ==
    \A e \in DOMAIN runner.rows : runner.rows[e].status = "ok" => file[e] \notin Unwritten

SummaryBacked ==
    \A e \in DOMAIN summary :
        e \in Names /\ (summary[e].status = "ok" => file[e] \notin Unwritten)

Backed == RowsBacked /\ SummaryBacked

\* An artifact once written is written over and torn, never taken away.
LEMMA FilesLast ==
    ASSUME Inv, [Next]_vars
    PROVE  \A e \in Names : file[e] \notin Unwritten => file'[e] \notin Unwritten
<1>1. CASE file' = file
  BY <1>1
<1>2. ASSUME NEW no \in DOMAIN working, CommandWrites(no) \/ CommandEnds(no)
      PROVE  \A e \in Names : file[e] \notin Unwritten => file'[e] \notin Unwritten
  <2> DEFINE c == launched[no]
             result == [kind |-> "result", no |-> no, at |-> Len(launched),
                        replay |-> c.replay, errors |-> StrictErrors(c.of, c.replay)]
  <2>1. \/ file' = [file EXCEPT ![c.of] = result]
        \/ file' = [file EXCEPT ![c.of] = Torn]
    BY <1>2 DEF CommandWrites, CommandEnds
  <2>2. PICK left \in {result, Torn} : file' = [file EXCEPT ![c.of] = left]
    BY <2>1
  <2>3. result.kind = "result"
    OBVIOUS
  <2>4. left \notin Unwritten
    BY <2>2, <2>3, Kinds DEF NoResult, Unwritten
  <2> HIDE DEF result, c
  <2> QED BY <2>2, <2>4 DEF Inv, FilesTrue
<1> QED BY <1>1, <1>2 DEF Next, vars, Start, ReuseIbkr, ReuseColab, LaunchIbkr, LaunchColab,
        CommandRefused, CommandFails, CollectIbkr, CollectColab, TimedOut, WriteSummary,
        WriteReport, Interrupted

\* An ok row is read from a file that holds a result, and the other way round.
LEMMA OkReads ==
    ASSUME NEW e, NEW failed
    PROVE  /\ ParseArtifact(e, failed).status = "ok" <=> file[e] \notin NoResult
           /\ ParseAudit(e).status = "ok" <=> file[e] \notin NoResult
           /\ ParseArtifact(e, failed).status = "ok" => file[e] \notin Unwritten
           /\ ParseAudit(e).status = "ok" => file[e] \notin Unwritten
  BY DEF ParseArtifact, ParseAudit, UnreadableRow, BlankRow, ResultRow,
      NoResult, Unwritten

\* Every step leaves each row of the runner as it was or reads it anew.
RowsReadAnew ==
    \A e \in DOMAIN runner'.rows :
        \/ e \in DOMAIN runner.rows /\ runner'.rows[e] = runner.rows[e]
        \/ runner'.rows[e].status = "ok" => file[e] \notin Unwritten

\* No step writes a row that it did not read.
LEMMA RowsStep ==
    ASSUME Inv, [Next]_vars
    PROVE  RowsReadAnew
<1>1. ASSUME NEW e, NEW row, Record(e, row), row.status = "ok" => file[e] \notin Unwritten
      PROVE  RowsReadAnew
  <2>1. runner'.rows = Put(runner.rows, e, row)
    BY <1>1 DEF Record, Inv, RunnerKnown, RunnerFields
  <2> QED BY <1>1, <2>1 DEF Put, RowsReadAnew
<1>2. CASE runner' = runner
  BY <1>2 DEF RowsReadAnew
<1>3. CASE runner' = Idle \/ Start
  <2>1. DOMAIN Idle.rows = {} /\ DOMAIN Idle = RunnerFields
    BY DEF Idle, NoRows, RunnerFields
  <2>2. runner'.rows = Idle.rows
    BY <1>3, <2>1 DEF Start, RunnerFields
  <2> QED BY <2>1, <2>2 DEF RowsReadAnew
<1>4. ASSUME NEW e \in Names, LaunchIbkr(e) \/ LaunchColab(e) PROVE RowsReadAnew
  <2>1. runner'.rows = runner.rows
    BY <1>4 DEF LaunchIbkr, LaunchColab, StartCommand, Inv, RunnerKnown, RunnerFields
  <2> QED BY <2>1 DEF RowsReadAnew
<1>5. ASSUME NEW no, NEW code, Exit(no, code) PROVE RowsReadAnew
  <2>1. runner'.rows = runner.rows
    BY <1>5 DEF Exit, Inv, RunnerKnown, RunnerFields
  <2> QED BY <2>1 DEF RowsReadAnew
<1>6. ASSUME NEW e \in Names, ReuseIbkr(e) \/ ReuseColab(e) PROVE RowsReadAnew
  <2>1. PICK row \in {ParseArtifact(e, FALSE), ParseAudit(e)} : Record(e, row)
    BY <1>6 DEF ReuseIbkr, ReuseColab
  <2> QED BY <1>1, <2>1, OkReads
<1>7. CASE CollectIbkr \/ CollectColab \/ TimedOut
  <2>1. \A status : BlankRow(status, TRUE).status = status
    BY DEF BlankRow
  <2>2. PICK e, row : /\ Record(e, row)
                      /\ row.status = "ok" => file[e] \notin Unwritten
    BY <1>7, <2>1, OkReads DEF CollectIbkr, CollectColab, TimedOut
  <2> QED BY <1>1, <2>2
<1>8. QED
  <2>1. ASSUME NEW no \in DOMAIN working,
               CommandRefused(no) \/ CommandFails(no) \/ CommandWrites(no) \/ CommandEnds(no)
        PROVE  RowsReadAnew
    BY <1>2, <1>5, <2>1 DEF CommandRefused, CommandFails, CommandWrites, CommandEnds
  <2>2. CASE WriteSummary \/ WriteReport \/ Interrupted \/ Start
    BY <1>3, <2>2 DEF WriteSummary, WriteReport, Interrupted
  <2>3. CASE UNCHANGED vars
    BY <1>2, <2>3 DEF vars
  <2> QED BY <1>4, <1>6, <1>7, <2>1, <2>2, <2>3 DEF Next

\* The status of a row is untouched by the summary.
LEMMA SameOkRows ==
    ASSUME NEW rows, \A e \in DOMAIN rows : DOMAIN rows[e] = RowFields
    PROVE  /\ DOMAIN Summarize(rows) = DOMAIN rows
           /\ \A e \in DOMAIN rows : Summarize(rows)[e].status = rows[e].status
           /\ OkRows(Summarize(rows)) = OkRows(rows)
           /\ \A e \in OkRows(rows) : Summarize(rows)[e].trials = Trials(rows)
<1>1. DOMAIN Summarize(rows) = DOMAIN rows
  BY DEF Summarize
<1>2. ASSUME NEW e \in DOMAIN rows
      PROVE  /\ Summarize(rows)[e].status = rows[e].status
             /\ e \in OkRows(rows) => Summarize(rows)[e].trials = Trials(rows)
  <2>1. "status" \in DOMAIN rows[e] /\ "trials" \in DOMAIN rows[e]
    BY DEF RowFields
  <2>2. CASE e \in OkRows(rows)
    <3>1. Summarize(rows)[e] = [rows[e] EXCEPT !.trials = Trials(rows)]
      BY <2>2 DEF Summarize
    <3> QED BY <2>1, <3>1
  <2>3. CASE e \notin OkRows(rows)
    BY <2>3 DEF Summarize
  <2> QED BY <2>2, <2>3
<1>3. \A e \in OkRows(rows) : e \in DOMAIN rows
  BY DEF OkRows
<1> QED BY <1>1, <1>2, <1>3 DEF OkRows

\* Every row with a result, of the runner or of the summary, has an artifact on
\* disk that a command wrote: no command and no runner takes one away.
THEOREM BackedHolds == Spec => []Backed
<1>1. Init => Backed
  <2>1. DOMAIN Idle.rows = {} /\ DOMAIN NoRows = {}
    BY DEF Idle, NoRows
  <2> QED BY <2>1 DEF Init, Backed, RowsBacked, SummaryBacked
<1>2. Inv /\ Backed /\ [Next]_vars => Backed'
  <2> SUFFICES ASSUME Inv, Backed, [Next]_vars PROVE Backed'
    OBVIOUS
  <2>1. \A e \in Names : file[e] \notin Unwritten => file'[e] \notin Unwritten
    BY FilesLast
  <2>2. RowsBacked'
    <3>1. Inv'
      BY InvStep
    <3> QED BY <2>1, <3>1, RowsStep DEF Backed, RowsBacked, RowsReadAnew, Inv, RowsTrue
  <2>3. SummaryBacked'
    <3>1. CASE summary' = summary
      BY <2>1, <3>1 DEF Backed, SummaryBacked
    <3>2. CASE WriteReport
      BY <2>1, <3>2 DEF WriteReport, Backed, RowsBacked, SummaryBacked, Inv, RowsTrue
    <3>3. CASE WriteSummary
      <4>1. PICK rows : rows = Over(runner.rows, ExistingResults)
        OBVIOUS
      <4>2. summary' = Summarize(rows)
        BY <3>3, <4>1 DEF WriteSummary
      <4>3. \A e \in DOMAIN ExistingResults :
               e \in Names /\ ExistingResults[e] = ParseArtifact(e, FALSE)
        BY DEF ExistingResults
      <4>4. \A e \in DOMAIN rows : /\ e \in Names
                                   /\ RowTrue(e, rows[e])
                                   /\ rows[e].status = "ok" => file[e] \notin Unwritten
        BY <4>1, <4>3, ReadFacts, OkReads DEF Over, Inv, RowsTrue, Backed, RowsBacked
      <4>5. \A e \in DOMAIN summary' : e \in DOMAIN rows /\ summary'[e].status = rows[e].status
        BY <4>2, <4>4, SameOkRows DEF RowTrue
      <4> QED BY <2>1, <4>4, <4>5 DEF SummaryBacked
    <3> QED BY <3>1, <3>2, <3>3 DEF Next, vars, Start, ReuseIbkr, ReuseColab, LaunchIbkr,
            LaunchColab, CommandRefused, CommandFails, CommandWrites, CommandEnds,
            CollectIbkr, CollectColab, TimedOut, Interrupted
  <2> QED BY <2>2, <2>3 DEF Backed
<1> QED BY <1>1, <1>2, InvHolds, PTL DEF Spec

\* The suite names finitely many experiments.
LEMMA FiniteSuite == IsFiniteSet(Names)
<1>1. /\ Len(Suite) \in Nat
      /\ Suite \in [1..Len(Suite) -> Names]
      /\ \A e \in Names : \E i \in 1..Len(Suite) : Suite[i] = e
  BY SuiteAssumption DEF Names
<1>2. Suite \in Surjection(1..Len(Suite), Names)
  BY <1>1 DEF Surjection
<1> QED BY <1>1, <1>2, FS_Interval, FS_Surjection

\* A trial once counted stays counted in every later summary, as long as its
\* artifact can be read and this invocation did not handle it, and every ok
\* row is deflated by all of them.
THEOREM TrialsKeptHolds == Spec => TrialsKept
<1> DEFINE StillListed ==
       WriteSummary =>
         /\ StillThere \subseteq OkRows(summary')
         /\ \A e \in OkRows(summary') :
               summary'[e].trials >= Cardinality(StillThere \cup OkRows(runner.rows))
<1>1. Inv /\ Backed /\ [Next]_vars => [StillListed]_vars
  <2> SUFFICES ASSUME Inv, Backed, WriteSummary PROVE StillListed
    OBVIOUS
  <2>1. PICK rows : rows = Over(runner.rows, ExistingResults)
    OBVIOUS
  <2>2. summary' = Summarize(rows)
    BY <2>1 DEF WriteSummary
  <2>3. /\ \A e \in DOMAIN ExistingResults :
              e \in Names /\ ExistingResults[e] = ParseArtifact(e, FALSE)
        /\ \A e \in Names : file[e] \notin NoResult => e \in DOMAIN ExistingResults
    BY OkReads DEF ExistingResults
  <2>4. \A e \in DOMAIN rows : e \in Names /\ DOMAIN rows[e] = RowFields
    BY <2>1, <2>3, ReadFacts DEF Over, Inv, RowsTrue, RowTrue
  <2>5. StillThere \subseteq OkRows(rows)
    <3> SUFFICES ASSUME NEW e \in StillThere PROVE e \in OkRows(rows)
      OBVIOUS
    <3>1. e \in Names /\ file[e] \notin NoResult /\ e \notin DOMAIN runner.rows
      BY DEF StillThere, OkRows, Backed, SummaryBacked, NoResult, Unwritten
    <3>2. e \in DOMAIN rows /\ rows[e] = ParseArtifact(e, FALSE)
      BY <2>1, <2>3, <3>1 DEF Over
    <3> QED BY <3>1, <3>2, OkReads DEF OkRows
  <2>6. OkRows(runner.rows) \subseteq OkRows(rows)
    BY <2>1 DEF Over, OkRows
  <2>7. /\ IsFiniteSet(OkRows(rows)) /\ Cardinality(OkRows(rows)) \in Nat
        /\ Cardinality(StillThere \cup OkRows(runner.rows)) <= Cardinality(OkRows(rows))
        /\ Cardinality(StillThere \cup OkRows(runner.rows)) \in Nat
    <3>1. OkRows(rows) \subseteq Names
      BY <2>4 DEF OkRows
    <3>2. IsFiniteSet(OkRows(rows))
      BY <3>1, FiniteSuite, FS_Subset
    <3>3. (StillThere \cup OkRows(runner.rows)) \subseteq OkRows(rows)
      BY <2>5, <2>6
    <3> QED BY <3>2, <3>3, FS_Subset, FS_CardinalityType
  <2>8. /\ OkRows(summary') = OkRows(rows)
        /\ \A e \in OkRows(rows) : summary'[e].trials = Trials(rows)
    BY <2>2, <2>4, SameOkRows
  <2>9. Trials(rows) >= Cardinality(OkRows(rows))
    BY <2>7 DEF Trials
  <2>10. Trials(rows) \in Nat
    BY <2>7 DEF Trials
  <2> QED BY <2>5, <2>7, <2>8, <2>9, <2>10
<1> QED BY <1>1, InvHolds, BackedHolds, PTL DEF Spec, TrialsKept
=============================================================================
