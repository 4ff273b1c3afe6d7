-------------------------- MODULE MLBacktest_proofs --------------------------
(***************************************************************************)
(* Proofs about MLBacktest for every size of the account, every stop,      *)
(* every number of slots and every set of returns: types, the book of the  *)
(* moment, the order of booking, the bound on the losses past a stop, the  *)
(* cooldown after losses, and the cash behind the open buys.               *)
(***************************************************************************)
EXTENDS MLBacktest, NumberLemmas, SequenceTheorems, FiniteSetTheorems, TLAPS

\* A prediction is taken at most once, and entered at most once.
OneTradePerPrediction ==
    pc \in {"settle", "decide"} => entered < seen

\* Trades are numbered as they are entered; none is in two places.
NumberedOnce ==
    /\ \A i \in DOMAIN pending : pending[i].id \in 1..entered
    /\ \A k \in DOMAIN settled : settled[k].id \in 1..entered
    /\ \A i, j \in DOMAIN pending : pending[i].id = pending[j].id => i = j
    /\ \A k \in DOMAIN settled, i \in DOMAIN pending : settled[k].id # pending[i].id
    /\ Len(settled) + Len(pending) = entered

\* The book is the past, and what is open is the future of it.
InOrder ==
    /\ BookedInExitOrder
    /\ \A k \in DOMAIN settled, i \in DOMAIN pending : settled[k].exit <= pending[i].exit
    /\ pc \in {"next", "settle", "decide"} => \A k \in DOMAIN settled : settled[k].exit <= now
    /\ pc \in {"next", "decide"} => \A i \in DOMAIN pending : pending[i].exit > now

\* No open trade can lose more than a full cap does at the worst return.
OpenLossesCapped ==
    Instrument = "spot_crypto" => \A i \in DOMAIN pending : pending[i].pnl >= -WorstLoss

\* What is booked and what the open trades can still lose, together.
AtRisk == Len(pending) * WorstLoss

StopsCoverRisk ==
    Instrument = "spot_crypto" =>
    /\ MaxLoss > 0 => StartEquity - equity + AtRisk < MaxLoss + MaxOpen * WorstLoss
    /\ DrawdownPct > 0 =>
          (peak - equity) * 100 + 100 * AtRisk < DrawdownPct * peak + 100 * (MaxOpen * WorstLoss)

\* The inductive invariant.
Inv ==
    /\ TypeOK
    /\ OneTradePerPrediction
    /\ NumberedOnce
    /\ InOrder
    /\ OpenLossesCapped
    /\ StopsCoverRisk

-----------------------------------------------------------------------------
(* Arithmetic *)

\* Products of naturals, which the solver is told one at a time.
LEMMA ProductInNat == ASSUME NEW a \in Nat, NEW b \in Nat PROVE a * b \in Nat
OBVIOUS

\* The product of two positive numbers is positive.
LEMMA ProductPositive ==
    ASSUME NEW a \in Nat, NEW b \in Nat, a > 0, b > 0 PROVE a * b \in Nat /\ a * b > 0
OBVIOUS

\* Equal amounts differ by nothing.
LEMMA NoDifference == ASSUME NEW a \in Int, NEW b \in Int, a = b PROVE (a - b) * 100 = 0
OBVIOUS

\* Dollars in cents keep their order.
LEMMA InCents ==
    ASSUME NEW a \in Int, NEW b \in Int, a <= b
    PROVE  100 * a \in Int /\ 100 * b \in Int /\ 100 * a <= 100 * b
OBVIOUS

\* A strict and a weak inequality add up to a strict one.
LEMMA SumBelow ==
    ASSUME NEW a \in Int, NEW b \in Int, NEW c \in Int, NEW d \in Int, a < b, c <= d
    PROVE  a + c < b + d
OBVIOUS

\* More trades at the same loss can lose more.
LEMMA ProductMonotone ==
    ASSUME NEW a \in Nat, NEW b \in Nat, NEW c \in Nat, a <= b PROVE a * c <= b * c
OBVIOUS

\* The constants the proofs use, one by one.
LEMMA ConstantFacts ==
    /\ StartEquity \in Nat \ {0} /\ PaperMax \in Nat /\ MaxOpen \in Nat \ {0}
    /\ Horizon \in Nat /\ Hold \in Nat \ {0} /\ MaxPredictions \in Nat
    /\ MaxLoss \in Nat /\ DrawdownPct \in Nat /\ Cooldown \in Nat /\ MinNotional \in Nat
BY MLBacktestAssumption DEF MLBacktestAssumption

\* The worst loss is a number.
LEMMA WorstLossInNat == WorstLoss \in Nat
BY ProductInNat, MLBacktestAssumption DEF WorstLoss, MLBacktestAssumption

\* A filled spot order is no larger than what was ordered.
LEMMA FilledWithinOrder ==
    ASSUME NEW n \in Nat, NEW f \in FillPcts
    PROVE  /\ Filled(n, f) \in Nat
           /\ Instrument = "spot_crypto" => Filled(n, f) <= n
<1>1. f \in 1..100
    BY MLBacktestAssumption DEF MLBacktestAssumption
<1>2. CASE Instrument = "futures"
  <2>1. Lot \in Nat \ {0}
    BY MLBacktestAssumption DEF MLBacktestAssumption
  <2>2. n \div Lot \in Int
    BY <2>1
  <2>3. MostOf(1, n \div Lot) \in Nat
    BY <2>2 DEF MostOf
  <2>4. MostOf(1, n \div Lot) * Lot * f \in Nat
    BY <2>1, <2>3, <1>1, ProductInNat
  <2> QED
    BY <1>2, <2>4 DEF Filled
<1>3. CASE Instrument # "futures"
  <2>1. n * f \in Nat /\ n * f <= n * 100
    BY <1>1, ProductInNat
  <2>2. (n * f) \div 100 \in Nat /\ (n * f) \div 100 <= n
    BY <2>1
  <2> QED
    BY <1>3, <2>2 DEF Filled
<1> QED
    BY <1>2, <1>3

\* The result of a spot trade is never below a full loss on the cap.
LEMMA PnlFloor ==
    ASSUME NEW q \in Nat, q <= PaperMax, NEW r \in Returns
    PROVE  q * r \in Int /\ q * r >= -WorstLoss
<1>1. WorstPct \in Nat /\ r \in Int /\ r >= -WorstPct /\ PaperMax \in Nat
    BY MLBacktestAssumption DEF MLBacktestAssumption
<1>2. q * WorstPct <= PaperMax * WorstPct
    BY <1>1, ProductMonotone
<1>3. q * (r + WorstPct) >= 0
    BY <1>1, ProductInNat
<1>4. q * (r + WorstPct) = q * r + q * WorstPct
    BY <1>1
<1> QED
    BY <1>1, <1>2, <1>3, <1>4 DEF WorstLoss

-----------------------------------------------------------------------------
(* Sequences *)

\* What is left of a sequence when one place is taken out of it.
LEMMA RemoveAtProperties ==
    ASSUME NEW S, NEW s \in Seq(S), NEW i \in DOMAIN s
    PROVE  /\ RemoveAt(s, i) \in Seq(S)
           /\ Len(RemoveAt(s, i)) = Len(s) - 1
           /\ \A j \in DOMAIN RemoveAt(s, i) :
                \E k \in DOMAIN s : /\ k = (IF j < i THEN j ELSE j + 1)
                                    /\ RemoveAt(s, i)[j] = s[k]
<1> DEFINE front == SubSeq(s, 1, i - 1)
           back  == SubSeq(s, i + 1, Len(s))
<1>1. i \in 1..Len(s) /\ DOMAIN s = 1..Len(s) /\ Len(s) \in Nat
    BY LenProperties
<1>2. \A j \in 1..Len(s) : s[j] \in S
    BY ElementOfSeq
<1>3. /\ front \in Seq(S) /\ Len(front) = i - 1
      /\ \A j \in 1..(i - 1) : front[j] = s[j]
  <2>1. \A j \in 1..(i - 1) : s[j] \in S
    BY <1>1, <1>2
  <2> QED
    BY <1>1, <2>1, SubSeqProperties, Z3
<1>4. /\ back \in Seq(S) /\ Len(back) = Len(s) - i
      /\ \A j \in 1..(Len(s) - i) : back[j] = s[i + j]
  <2>1. \A j \in (i + 1)..Len(s) : s[j] \in S
    BY <1>1, <1>2
  <2> QED
    BY <1>1, <2>1, SubSeqProperties, Z3
<1> HIDE DEF front, back
<1>5. /\ front \o back \in Seq(S)
      /\ Len(front \o back) = Len(s) - 1
      /\ \A j \in 1..(Len(s) - 1) :
            (front \o back)[j] = IF j < i THEN s[j] ELSE s[j + 1]
  <2>1. /\ front \o back \in Seq(S)
        /\ Len(front \o back) = Len(front) + Len(back)
        /\ \A j \in 1..(Len(front) + Len(back)) :
              (front \o back)[j] = IF j <= Len(front) THEN front[j] ELSE back[j - Len(front)]
    BY <1>3, <1>4, ConcatProperties
  <2>2. Len(front) + Len(back) = Len(s) - 1
    BY <1>1, <1>3, <1>4
  <2>3. ASSUME NEW j \in 1..(Len(s) - 1)
        PROVE  (front \o back)[j] = IF j < i THEN s[j] ELSE s[j + 1]
    <3>1. CASE j < i
      <4>1. (front \o back)[j] = front[j]
        BY <2>1, <2>2, <1>1, <1>3, <3>1
      <4> QED
        BY <4>1, <1>1, <1>3, <3>1
    <3>2. CASE ~(j < i)
      <4>1. (front \o back)[j] = back[j - (i - 1)]
        BY <2>1, <2>2, <1>1, <1>3, <3>2
      <4>2. j - (i - 1) \in 1..(Len(s) - i) /\ i + (j - (i - 1)) = j + 1
        BY <1>1, <3>2
      <4> QED
        BY <4>1, <4>2, <1>4, <3>2
    <3> QED
      BY <3>1, <3>2
  <2> QED
    BY <2>1, <2>2, <2>3
<1>6. DOMAIN (front \o back) = 1..(Len(s) - 1)
    BY <1>5, LenProperties
<1>7. RemoveAt(s, i) = front \o back
    BY DEF RemoveAt, front, back
<1>8. ASSUME NEW j \in 1..(Len(s) - 1)
      PROVE  \E k \in DOMAIN s : /\ k = (IF j < i THEN j ELSE j + 1)
                                 /\ (front \o back)[j] = s[k]
  <2> DEFINE k == IF j < i THEN j ELSE j + 1
  <2>1. k \in DOMAIN s
    BY <1>1
  <2>2. (front \o back)[j] = s[k]
    BY <1>5
  <2> QED
    BY <2>1, <2>2
<1> QED
    BY <1>1, <1>5, <1>6, <1>7, <1>8

\* The places that are left, and where each of them was before.
LEMMA Remaining ==
    ASSUME NEW S, NEW s \in Seq(S), NEW i \in DOMAIN s
    PROVE  \E from \in [DOMAIN RemoveAt(s, i) -> DOMAIN s] :
              /\ \A j \in DOMAIN RemoveAt(s, i) : from[j] # i /\ RemoveAt(s, i)[j] = s[from[j]]
              /\ \A j, k \in DOMAIN RemoveAt(s, i) : from[j] = from[k] => j = k
<1> DEFINE left == RemoveAt(s, i)
           from == [j \in DOMAIN left |-> IF j < i THEN j ELSE j + 1]
<1>1. left \in Seq(S) /\ DOMAIN left = 1..Len(left) /\ Len(left) = Len(s) - 1
      /\ i \in 1..Len(s) /\ DOMAIN s = 1..Len(s) /\ Len(s) \in Nat
    BY RemoveAtProperties, LenProperties
<1>2. \A j \in DOMAIN left :
         \E k \in DOMAIN s : k = (IF j < i THEN j ELSE j + 1) /\ left[j] = s[k]
    BY RemoveAtProperties
<1> HIDE DEF left
<1>3. ASSUME NEW j \in DOMAIN left
      PROVE  from[j] \in DOMAIN s /\ from[j] # i /\ left[j] = s[from[j]]
    BY <1>1, <1>2
<1>4. ASSUME NEW j \in DOMAIN left, NEW k \in DOMAIN left, from[j] = from[k] PROVE j = k
    BY <1>1, <1>4
<1>5. from \in [DOMAIN left -> DOMAIN s]
    BY <1>3
<1> HIDE DEF from
<1> QED
    BY <1>3, <1>4, <1>5 DEF left

-----------------------------------------------------------------------------
(* The invariant is inductive *)

\* What the invariant's type says of the trades and the money.
LEMMA TypeFacts ==
    ASSUME TypeOK
    PROVE  /\ \A i \in DOMAIN pending : pending[i] \in Trade
           /\ \A k \in DOMAIN settled : settled[k] \in Trade
           /\ DOMAIN pending = 1..Len(pending) /\ Len(pending) \in Nat
           /\ DOMAIN settled = 1..Len(settled) /\ Len(settled) \in Nat
           /\ now \in Int /\ equity \in Int /\ peak \in Int /\ entered \in Int
           /\ seen \in Int
<1>1. pending \in Seq(Trade) /\ settled \in Seq(Trade)
    BY DEF TypeOK
<1>2. /\ DOMAIN pending = 1..Len(pending) /\ Len(pending) \in Nat
      /\ DOMAIN settled = 1..Len(settled) /\ Len(settled) \in Nat
    BY <1>1, LenProperties
<1>3. \A i \in DOMAIN pending : pending[i] \in Trade
    BY <1>1, <1>2, ElementOfSeq
<1>4. \A k \in DOMAIN settled : settled[k] \in Trade
    BY <1>1, <1>2, ElementOfSeq
<1> QED
    BY <1>2, <1>3, <1>4, MLBacktestAssumption DEF TypeOK, MLBacktestAssumption

\* The fields of a trade that the invariant compares.
LEMMA TradeFields ==
    ASSUME NEW t \in Trade PROVE t.exit \in Int /\ t.pnl \in Int /\ t.id \in Int
BY DEF Trade

\* The empty book satisfies the invariant.
LEMMA InitInv == Init => Inv
<1> SUFFICES ASSUME Init PROVE Inv
    OBVIOUS
<1>1. Len(pending) = 0 /\ Len(settled) = 0 /\ DOMAIN pending = {} /\ DOMAIN settled = {}
    BY EmptySeq DEF Init
<1>2. TypeOK
  <2>1. pending \in Seq(Trade) /\ settled \in Seq(Trade)
    BY EmptySeq DEF Init
  <2> QED
    BY <1>1, <2>1, ConstantFacts DEF TypeOK, Init
<1>3. OneTradePerPrediction
    BY DEF OneTradePerPrediction, Init
<1>4. NumberedOnce
    BY <1>1 DEF NumberedOnce, Init
<1>5. InOrder
    BY <1>1 DEF InOrder, BookedInExitOrder
<1>6. OpenLossesCapped
    BY <1>1 DEF OpenLossesCapped
<1>7. StopsCoverRisk
  <2>1. AtRisk = 0
    BY <1>1, WorstLossInNat DEF AtRisk
  <2>2. MaxOpen * WorstLoss \in Nat
    BY WorstLossInNat, ProductInNat, MLBacktestAssumption DEF MLBacktestAssumption
  <2>3. DrawdownPct > 0 => DrawdownPct * StartEquity > 0
    BY MLBacktestAssumption DEF MLBacktestAssumption
  <2>4. MaxLoss > 0 => StartEquity - equity + AtRisk < MaxLoss + MaxOpen * WorstLoss
    BY <2>1, <2>2, ConstantFacts DEF Init
  <2>5. DrawdownPct > 0 =>
          (peak - equity) * 100 + 100 * AtRisk < DrawdownPct * peak + 100 * (MaxOpen * WorstLoss)
    <3> DEFINE room == MaxOpen * WorstLoss
               share == DrawdownPct * StartEquity
    <3>1. room \in Nat /\ (DrawdownPct > 0 => share > 0) /\ share \in Nat
      BY <2>2, <2>3, ConstantFacts, ProductInNat
    <3>2. (peak - equity) * 100 + 100 * AtRisk = 0
      BY <2>1, ConstantFacts DEF Init
    <3>3. DrawdownPct * peak = share
      BY DEF Init
    <3> HIDE DEF room, share
    <3>4. DrawdownPct > 0 => 0 < share + 100 * room
      BY <3>1
    <3> QED
      BY <3>2, <3>3, <3>4 DEF room
  <2> QED
    BY <2>4, <2>5 DEF StopsCoverRisk
<1> QED
    BY <1>2, <1>3, <1>4, <1>5, <1>6, <1>7 DEF Inv

\* Steps that leave the book alone.
LEMMA ControlSteps ==
    ASSUME Inv,
           \/ NextPrediction \/ NoMorePredictions \/ Settled \/ Drained
           \/ Reject \/ StopForLoss \/ StopForDrawdown \/ UNCHANGED vars
    PROVE  Inv'
<1>1. /\ equity' = equity /\ peak' = peak /\ pending' = pending /\ settled' = settled
      /\ losses' = losses /\ cooldownUntil' = cooldownUntil /\ entered' = entered
    BY DEF NextPrediction, NoMorePredictions, Settled, Drained, Reject, StopForLoss,
        StopForDrawdown, vars, book
<1>2. TypeOK /\ now \in 0..Horizon /\ seen \in 0..MaxPredictions /\ entered \in 0..seen
    BY DEF Inv, TypeOK
<1>3. /\ now' \in 0..Horizon /\ now <= now'
      /\ seen' \in 0..MaxPredictions /\ seen <= seen'
      /\ pc' \in {"next", "settle", "decide", "drain", "done"}
  <2>1. CASE NextPrediction
    BY <2>1, <1>2, ConstantFacts DEF NextPrediction
  <2>2. CASE NoMorePredictions \/ Settled \/ Drained \/ Reject \/ StopForLoss \/ StopForDrawdown
    <3>1. now' = now /\ seen' = seen /\ pc' \in {"next", "settle", "decide", "drain", "done"}
      BY <2>2 DEF NoMorePredictions, Settled, Drained, Reject, StopForLoss, StopForDrawdown
    <3> QED
      BY <3>1, <1>2, ConstantFacts
  <2>3. CASE UNCHANGED vars
    BY <2>3, <1>2, ConstantFacts DEF vars, TypeOK
  <2> QED
    BY <2>1, <2>2, <2>3
<1>4. TypeOK'
  <2>1. entered \in 0..seen'
    BY <1>2, <1>3, MLBacktestAssumption DEF MLBacktestAssumption
  <2> QED
    BY <1>1, <1>2, <1>3, <2>1 DEF TypeOK
<1>5. OneTradePerPrediction'
  <2>1. OneTradePerPrediction
    BY DEF Inv
  <2>2. CASE NextPrediction
    BY <2>2, <1>1, <1>2, MLBacktestAssumption
       DEF NextPrediction, OneTradePerPrediction, MLBacktestAssumption
  <2>3. CASE ~NextPrediction
    BY <2>1, <2>3, <1>1 DEF OneTradePerPrediction, NoMorePredictions, Settled,
       Drained, Reject, StopForLoss, StopForDrawdown, vars
  <2> QED
    BY <2>2, <2>3
<1>6. NumberedOnce' /\ OpenLossesCapped' /\ StopsCoverRisk'
    BY <1>1 DEF Inv, NumberedOnce, OpenLossesCapped, StopsCoverRisk, AtRisk
<1>7. InOrder'
  <2>1. InOrder
    BY DEF Inv
  <2>2. BookedInExitOrder' /\ (\A k \in DOMAIN settled', i \in DOMAIN pending' :
                                 settled'[k].exit <= pending'[i].exit)
    BY <1>1, <2>1 DEF InOrder, BookedInExitOrder
  <2>3. \A k \in DOMAIN settled : settled[k].exit \in Int
    BY <1>2, TypeFacts, TradeFields
  <2>4. \A i \in DOMAIN pending : pending[i].exit \in Int
    BY <1>2, TypeFacts, TradeFields
  <2>5. pc' \in {"next", "settle", "decide"} => \A k \in DOMAIN settled : settled[k].exit <= now'
    <3>1. pc' \in {"next", "settle", "decide"} => pc \in {"next", "settle", "decide"}
      BY DEF NextPrediction, NoMorePredictions, Settled, Drained, Reject, StopForLoss,
         StopForDrawdown, vars
    <3> QED
      BY <3>1, <2>1, <2>3, <1>2, <1>3, MLBacktestAssumption DEF InOrder, MLBacktestAssumption
  <2>6. pc' \in {"next", "decide"} => \A i \in DOMAIN pending : pending[i].exit > now'
    <3>1. CASE Settled
      BY <3>1, <2>4, <1>2, MLBacktestAssumption DEF Settled, Due, MLBacktestAssumption
    <3>2. CASE ~Settled
      <4>1. pc' \in {"next", "decide"} => pc \in {"next", "decide"} /\ now' = now
        BY <3>2 DEF NextPrediction, NoMorePredictions, Drained, Reject, StopForLoss,
           StopForDrawdown, vars
      <4> QED
        BY <4>1, <2>1 DEF InOrder
    <3> QED
      BY <3>1, <3>2
  <2> QED
    BY <1>1, <2>2, <2>5, <2>6 DEF InOrder
<1> QED
    BY <1>4, <1>5, <1>6, <1>7 DEF Inv

\* A sequence with one element more.
LEMMA Appended ==
    ASSUME NEW S, NEW s \in Seq(S), NEW e \in S
    PROVE  /\ Append(s, e) \in Seq(S)
           /\ Len(Append(s, e)) = Len(s) + 1
           /\ \A k \in DOMAIN Append(s, e) :
                 \/ k \in DOMAIN s /\ Append(s, e)[k] = s[k]
                 \/ k = Len(s) + 1 /\ Append(s, e)[k] = e
<1>1. /\ Append(s, e) \in Seq(S) /\ Len(Append(s, e)) = Len(s) + 1
      /\ \A k \in 1..Len(s) : Append(s, e)[k] = s[k]
      /\ Append(s, e)[Len(s) + 1] = e
    BY AppendProperties
<1>2. DOMAIN Append(s, e) = 1..(Len(s) + 1) /\ DOMAIN s = 1..Len(s) /\ Len(s) \in Nat
    BY <1>1, LenProperties
<1> QED
    BY <1>1, <1>2

\* Booking a trade: the earliest of those that are due.
LEMMA SettleStep ==
    ASSUME Inv, NEW i \in DOMAIN pending, Settle(i)
    PROVE  Inv'
<1> DEFINE t == pending[i]
<1>1. /\ TypeOK /\ OneTradePerPrediction /\ NumberedOnce /\ InOrder /\ OpenLossesCapped
      /\ StopsCoverRisk
    BY DEF Inv
<1>2. /\ pc \in {"settle", "drain"} /\ FirstDue(i) /\ equity' = equity + t.pnl
      /\ peak' = MostOf(peak, equity') /\ settled' = Append(settled, t)
      /\ CountLosses(t) /\ pending' = RemoveAt(pending, i)
      /\ pc' = pc /\ now' = now /\ seen' = seen /\ entered' = entered
    BY DEF Settle
<1>3. /\ t \in Trade /\ t.exit \in Int /\ t.pnl \in Int
      /\ Len(pending) \in Nat /\ Len(settled) \in Nat
      /\ now \in Int /\ equity \in Int /\ peak \in Int /\ entered \in Int
      /\ pending \in Seq(Trade) /\ settled \in Seq(Trade)
    BY <1>1, TypeFacts, TradeFields DEF TypeOK
<1>4. /\ settled' \in Seq(Trade) /\ Len(settled') = Len(settled) + 1
      /\ \A k \in DOMAIN settled' : \/ k \in DOMAIN settled /\ settled'[k] = settled[k]
                                    \/ k = Len(settled) + 1 /\ settled'[k] = t
    BY <1>2, <1>3, Appended
<1>5. pending' \in Seq(Trade) /\ Len(pending') = Len(pending) - 1
    BY <1>2, <1>3, RemoveAtProperties
<1>6. PICK from \in [DOMAIN pending' -> DOMAIN pending] :
         /\ \A j \in DOMAIN pending' : from[j] # i /\ pending'[j] = pending[from[j]]
         /\ \A j, k \in DOMAIN pending' : from[j] = from[k] => j = k
    BY <1>2, <1>3, Remaining
<1>7. \A j \in DOMAIN pending' :
         from[j] \in DOMAIN pending /\ from[j] # i /\ pending'[j] = pending[from[j]]
    BY <1>6
<1> HIDE DEF t
<1>8. TypeOK'
  <2>1. peak' \in Nat \ {0} /\ equity' <= peak' /\ equity' \in Int
    BY <1>1, <1>2, <1>3 DEF MostOf, TypeOK
  <2>2. losses' \in Nat
    BY <1>1, <1>2 DEF CountLosses, TypeOK
  <2>3. cooldownUntil' \in 0..(Horizon + Hold + Cooldown)
    <3>1. t.exit \in 0..(Horizon + Hold)
      BY <1>3 DEF Trade
    <3>2. t.exit + Cooldown \in 0..(Horizon + Hold + Cooldown)
      BY <3>1, ConstantFacts
    <3>3. cooldownUntil \in 0..(Horizon + Hold + Cooldown)
      BY <1>1 DEF TypeOK
    <3> QED
      BY <3>2, <3>3, <1>2 DEF CountLosses
  <2>4. Len(pending') <= MaxOpen
    BY <1>1, <1>3, <1>5, ConstantFacts DEF TypeOK
  <2> QED
    BY <1>1, <1>2, <1>4, <1>5, <2>1, <2>2, <2>3, <2>4 DEF TypeOK
<1>9. OneTradePerPrediction'
    BY <1>1, <1>2 DEF OneTradePerPrediction
<1>10. NumberedOnce'
  <2>1. \A j \in DOMAIN pending' : pending'[j].id \in 1..entered'
    BY <1>1, <1>2, <1>7 DEF NumberedOnce
  <2>2. \A k \in DOMAIN settled' : settled'[k].id \in 1..entered'
    BY <1>1, <1>2, <1>4 DEF NumberedOnce, t
  <2>3. \A j, k \in DOMAIN pending' : pending'[j].id = pending'[k].id => j = k
    BY <1>1, <1>6, <1>7 DEF NumberedOnce
  <2>4. \A k \in DOMAIN settled', j \in DOMAIN pending' : settled'[k].id # pending'[j].id
    BY <1>1, <1>4, <1>7 DEF NumberedOnce, t
  <2>5. Len(settled') + Len(pending') = entered'
    BY <1>1, <1>2, <1>3, <1>4, <1>5 DEF NumberedOnce
  <2> QED
    BY <2>1, <2>2, <2>3, <2>4, <2>5 DEF NumberedOnce
<1>11. InOrder'
  <2>1. \A k \in DOMAIN settled : settled[k].exit \in Int
    BY <1>1, TypeFacts, TradeFields
  <2>2. \A j \in DOMAIN pending : pending[j].exit \in Int
    BY <1>1, TypeFacts, TradeFields
  <2>3. \A k \in DOMAIN settled : settled[k].exit <= t.exit
    BY <1>1 DEF InOrder, t
  <2>4. DOMAIN settled = 1..Len(settled)
    BY <1>1, TypeFacts
  <2>5. BookedInExitOrder'
    <3> SUFFICES ASSUME NEW j \in DOMAIN settled', NEW k \in DOMAIN settled', j < k
                 PROVE  settled'[j].exit <= settled'[k].exit
      BY DEF BookedInExitOrder
    <3>1. DOMAIN settled' = 1..(Len(settled) + 1)
      BY <1>4, LenProperties
    <3>2. j \in DOMAIN settled /\ settled'[j] = settled[j]
      BY <3>1, <2>4, <1>3, <1>4
    <3>3. CASE k \in DOMAIN settled /\ settled'[k] = settled[k]
      BY <3>2, <3>3, <1>1 DEF InOrder, BookedInExitOrder
    <3>4. CASE k = Len(settled) + 1 /\ settled'[k] = t
      BY <3>2, <3>4, <2>3
    <3> QED
      BY <3>3, <3>4, <1>4
  <2>6. \A j \in DOMAIN pending : t.exit <= pending[j].exit
    <3> SUFFICES ASSUME NEW j \in DOMAIN pending PROVE t.exit <= pending[j].exit
      OBVIOUS
    <3>1. CASE Due(pending[j])
      BY <3>1, <1>2, <2>2, <1>3 DEF FirstDue, t
    <3>2. CASE ~Due(pending[j])
      <4>1. pc # "drain" /\ pending[j].exit > now
        BY <3>2, <2>2, <1>3 DEF Due
      <4>2. Due(t)
        BY <1>2 DEF FirstDue, t
      <4>3. t.exit <= now
        BY <4>1, <4>2 DEF Due
      <4> QED
        BY <4>1, <4>3, <2>2, <1>3
    <3> QED
      BY <3>1, <3>2
  <2>7. \A k \in DOMAIN settled', j \in DOMAIN pending' : settled'[k].exit <= pending'[j].exit
    BY <1>1, <1>4, <1>7, <2>6 DEF InOrder
  <2>8. pc' = "settle" => \A k \in DOMAIN settled' : settled'[k].exit <= now'
    <3> SUFFICES ASSUME pc = "settle", NEW k \in DOMAIN settled' PROVE settled'[k].exit <= now
      BY <1>2
    <3>1. t.exit <= now
      BY <1>2 DEF FirstDue, Due, t
    <3>2. \A j \in DOMAIN settled : settled[j].exit <= now
      BY <1>1 DEF InOrder
    <3> QED
      BY <3>1, <3>2, <1>4
  <2> QED
    BY <1>2, <2>5, <2>7, <2>8 DEF InOrder
<1>12. OpenLossesCapped'
    BY <1>1, <1>7 DEF OpenLossesCapped
<1>13. StopsCoverRisk'
  <2> SUFFICES ASSUME Instrument = "spot_crypto" PROVE StopsCoverRisk'
    BY DEF StopsCoverRisk
  <2> DEFINE w == WorstLoss
             room == MaxOpen * WorstLoss
  <2>1. w \in Nat /\ room \in Nat
    BY WorstLossInNat, ConstantFacts, ProductInNat
  <2>2. t.pnl >= -w
    BY <1>1 DEF OpenLossesCapped, t
  <2>3. AtRisk' = AtRisk - w /\ AtRisk \in Int
    BY <1>3, <1>5, <2>1 DEF AtRisk
  <2>4. AtRisk' <= room /\ AtRisk' \in Int
    <3>1. Len(pending') \in Nat /\ Len(pending') <= MaxOpen
      BY <1>8, LenProperties DEF TypeOK
    <3> QED
      BY <3>1, <2>1, ConstantFacts, ProductMonotone, ProductInNat DEF AtRisk
  <2> HIDE DEF w, room
  <2>5. MaxLoss > 0 => StartEquity - equity' + AtRisk' < MaxLoss + room
    <3>1. MaxLoss > 0 => StartEquity - equity + AtRisk < MaxLoss + room
      BY <1>1 DEF StopsCoverRisk, room
    <3> QED
      BY <3>1, <1>2, <1>3, <2>1, <2>2, <2>3, ConstantFacts
  <2>6. DrawdownPct > 0 =>
          (peak' - equity') * 100 + 100 * AtRisk' < DrawdownPct * peak' + 100 * room
    <3> SUFFICES ASSUME DrawdownPct > 0
                 PROVE  (peak' - equity') * 100 + 100 * AtRisk' < DrawdownPct * peak' + 100 * room
      OBVIOUS
    <3>1. CASE equity' <= peak
      <4>1. peak' = peak
        BY <3>1, <1>2, <1>3 DEF MostOf
      <4>2. DrawdownPct * peak \in Int
        BY <1>3, ConstantFacts
      <4>3. (peak - equity) * 100 + 100 * AtRisk < DrawdownPct * peak + 100 * room
        BY <1>1 DEF StopsCoverRisk, room
      <4> DEFINE share == DrawdownPct * peak
      <4> HIDE DEF share
      <4>4. (peak - equity') * 100 + 100 * AtRisk' < share + 100 * room
        BY <4>2, <4>3, <1>2, <1>3, <2>1, <2>2, <2>3 DEF share
      <4> QED
        BY <4>1, <4>4 DEF share
    <3>2. CASE ~(equity' <= peak)
      <4>1. peak' = equity' /\ equity' \in Int /\ peak' \in Nat /\ peak' > 0
        BY <3>2, <1>1, <1>2, <1>3 DEF MostOf, TypeOK
      <4>2. DrawdownPct * peak' > 0 /\ DrawdownPct * peak' \in Nat
        BY <4>1, ConstantFacts, ProductPositive
      <4> DEFINE share == DrawdownPct * peak'
      <4> HIDE DEF share
      <4>3. (peak' - equity') * 100 = 0
        BY <4>1, NoDifference
      <4>4. 100 * AtRisk' < share + 100 * room
        BY <4>2, <2>1, <2>4 DEF share
      <4>5. 100 * AtRisk' \in Int
        BY <2>4
      <4> QED
        BY <4>3, <4>4, <4>5 DEF share
    <3> QED
      BY <3>1, <3>2
  <2> QED
    BY <2>5, <2>6 DEF StopsCoverRisk, room
<1> QED
    BY <1>8, <1>9, <1>10, <1>11, <1>12, <1>13 DEF Inv

\* Entering a trade: a slot is free and no stop is reached.
LEMMA EnterStep ==
    ASSUME Inv, NEW side \in Sides, Enter(side)
    PROVE  Inv'
<1>1. /\ TypeOK /\ OneTradePerPrediction /\ NumberedOnce /\ InOrder /\ OpenLossesCapped
      /\ StopsCoverRisk
    BY DEF Inv
<1>2. PICK n \in OrderedNotionals(side), f \in FillPcts, r \in Returns,
           exit \in (now + 1)..(now + Hold) :
         pending' = Append(pending,
            [id |-> entered + 1, at |-> now, exit |-> exit, side |-> side,
             notional |-> Filled(n, f), pnl |-> Filled(n, f) * r])
    BY DEF Enter
<1> DEFINE t == [id |-> entered + 1, at |-> now, exit |-> exit, side |-> side,
                 notional |-> Filled(n, f), pnl |-> Filled(n, f) * r]
<1>3. /\ pc = "decide" /\ pc' = "next" /\ entered' = entered + 1
      /\ ~ExperimentStopped /\ ~DrawdownStopped /\ SlotFree
      /\ UNCHANGED <<now, seen, equity, peak, settled, losses, cooldownUntil>>
    BY DEF Enter
<1>4. /\ Len(pending) \in Nat /\ Len(settled) \in Nat
      /\ now \in 0..Horizon /\ equity \in Int /\ peak \in Int /\ seen \in 0..MaxPredictions
      /\ pending \in Seq(Trade) /\ entered \in 0..seen /\ entered < seen
    BY <1>1, <1>3, TypeFacts DEF TypeOK, OneTradePerPrediction
<1>5. n \in Nat /\ n <= PaperMax
    BY ConstantFacts DEF OrderedNotionals
<1>6. /\ Filled(n, f) \in Nat
      /\ Instrument = "spot_crypto" => Filled(n, f) <= PaperMax
    BY <1>5, FilledWithinOrder, ConstantFacts
<1>7. t.pnl \in Int /\ (Instrument = "spot_crypto" => t.pnl >= -WorstLoss)
  <2>1. r \in Int
    BY MLBacktestAssumption DEF MLBacktestAssumption
  <2>2. Filled(n, f) * r \in Int
    BY <2>1, <1>6
  <2> QED
    BY <2>2, <1>6, PnlFloor
<1>8. /\ t \in Trade /\ t.exit \in Int /\ t.exit > now /\ t.id = entered + 1
  <2>1. entered + 1 \in 1..MaxPredictions /\ exit \in 0..(Horizon + Hold) /\ exit > now
    BY <1>4, ConstantFacts
  <2> QED
    BY <2>1, <1>4, <1>6, <1>7 DEF Trade
<1> HIDE DEF t
<1>9. /\ pending' \in Seq(Trade) /\ Len(pending') = Len(pending) + 1
      /\ \A k \in DOMAIN pending' : \/ k \in DOMAIN pending /\ pending'[k] = pending[k]
                                    \/ k = Len(pending) + 1 /\ pending'[k] = t
    BY <1>2, <1>4, <1>8, Appended DEF t
<1>10. TypeOK'
  <2>1. Len(pending') <= MaxOpen
    BY <1>3, <1>4, <1>9, ConstantFacts DEF SlotFree
  <2>2. entered' \in 0..seen'
    BY <1>3, <1>4, ConstantFacts
  <2> QED
    BY <1>1, <1>3, <1>9, <2>1, <2>2 DEF TypeOK
<1>11. OneTradePerPrediction'
    BY <1>3 DEF OneTradePerPrediction
<1>12. NumberedOnce'
  <2>1. \A j \in DOMAIN pending : pending[j].id \in 1..entered /\ pending[j].id # entered + 1
    BY <1>1, <1>4, ConstantFacts DEF NumberedOnce
  <2>2. \A k \in DOMAIN settled : settled[k].id \in 1..entered /\ settled[k].id # entered + 1
    BY <1>1, <1>4, ConstantFacts DEF NumberedOnce
  <2>3. 1..entered \subseteq 1..(entered + 1) /\ entered + 1 \in 1..(entered + 1)
    BY <1>4, ConstantFacts
  <2>4. \A j \in DOMAIN pending' : pending'[j].id \in 1..entered'
    BY <2>1, <2>3, <1>3, <1>8, <1>9
  <2>5. \A k \in DOMAIN settled' : settled'[k].id \in 1..entered'
    BY <2>2, <2>3, <1>3
  <2>6. \A j, k \in DOMAIN pending' : pending'[j].id = pending'[k].id => j = k
    BY <2>1, <1>1, <1>8, <1>9 DEF NumberedOnce
  <2>7. \A k \in DOMAIN settled', j \in DOMAIN pending' : settled'[k].id # pending'[j].id
    BY <2>2, <1>1, <1>3, <1>8, <1>9 DEF NumberedOnce
  <2>8. Len(settled') + Len(pending') = entered'
    BY <1>1, <1>3, <1>4, <1>9 DEF NumberedOnce
  <2> QED
    BY <2>4, <2>5, <2>6, <2>7, <2>8 DEF NumberedOnce
<1>13. InOrder'
  <2>1. \A k \in DOMAIN settled : settled[k].exit \in Int /\ settled[k].exit <= now
    BY <1>1, <1>3, TypeFacts, TradeFields DEF InOrder
  <2>2. \A j \in DOMAIN pending : pending[j].exit > now
    BY <1>1, <1>3 DEF InOrder
  <2>3. \A j \in DOMAIN pending' : pending'[j].exit > now /\ pending'[j].exit \in Int
    BY <2>2, <1>1, <1>8, <1>9, TypeFacts, TradeFields
  <2>4. BookedInExitOrder'
    BY <1>1, <1>3 DEF InOrder, BookedInExitOrder
  <2>5. now \in Int
    BY <1>4
  <2>6. \A k \in DOMAIN settled, j \in DOMAIN pending' : settled[k].exit <= pending'[j].exit
    BY <2>1, <2>3, <2>5
  <2> QED
    BY <2>1, <2>3, <2>4, <2>6, <1>3 DEF InOrder
<1>14. OpenLossesCapped'
    BY <1>1, <1>7, <1>9 DEF OpenLossesCapped
<1>15. StopsCoverRisk'
  <2> DEFINE room == MaxOpen * WorstLoss
  <2>1. AtRisk' <= room /\ AtRisk' \in Int /\ room \in Int
    <3>1. Len(pending') \in Nat /\ Len(pending') <= MaxOpen
      BY <1>10, LenProperties DEF TypeOK
    <3> QED
      BY <3>1, WorstLossInNat, ConstantFacts, ProductMonotone, ProductInNat DEF AtRisk
  <2> HIDE DEF room
  <2>2. MaxLoss > 0 => StartEquity - equity + AtRisk' < MaxLoss + room
    <3>1. StartEquity - equity \in Int /\ MaxLoss \in Int
      BY <1>4, ConstantFacts
    <3>2. MaxLoss > 0 => StartEquity - equity < MaxLoss
      BY <3>1, <1>3 DEF ExperimentStopped
    <3> QED
      BY <3>1, <3>2, <2>1, SumBelow
  <2>3. DrawdownPct > 0 => (peak - equity) * 100 + 100 * AtRisk' < DrawdownPct * peak + 100 * room
    <3> DEFINE share == DrawdownPct * peak
    <3>1. share \in Int
      BY <1>4, ConstantFacts
    <3>2. DrawdownPct > 0 => (peak - equity) * 100 < share
      BY <1>3, <1>4, <3>1 DEF DrawdownStopped
    <3> HIDE DEF share
    <3>3. DrawdownPct > 0 => (peak - equity) * 100 + 100 * AtRisk' < share + 100 * room
      <4>1. 100 * AtRisk' \in Int /\ 100 * room \in Int /\ 100 * AtRisk' <= 100 * room
            /\ (peak - equity) * 100 \in Int
        <5>1. 100 * AtRisk' \in Int /\ 100 * room \in Int /\ 100 * AtRisk' <= 100 * room
          BY <2>1, InCents
        <5>2. (peak - equity) * 100 \in Int
          BY <1>4
        <5> QED
          BY <5>1, <5>2
      <4> QED
        BY <3>1, <3>2, <4>1, SumBelow
    <3> QED
      BY <3>3 DEF share
  <2> QED
    BY <2>2, <2>3, <1>3 DEF StopsCoverRisk, room
<1> QED
    BY <1>10, <1>11, <1>12, <1>13, <1>14, <1>15 DEF Inv

\* The invariant holds of every replay.
THEOREM Invariance == Spec => []Inv
<1>1. Inv /\ [Next]_vars => Inv'
  <2> SUFFICES ASSUME Inv, [Next]_vars PROVE Inv'
    OBVIOUS
  <2>1. CASE \E i \in DOMAIN pending : Settle(i)
    BY <2>1, SettleStep
  <2>2. CASE \E side \in Sides : Enter(side)
    BY <2>2, EnterStep
  <2>3. CASE \/ NextPrediction \/ NoMorePredictions \/ Settled \/ Drained
             \/ Reject \/ StopForLoss \/ StopForDrawdown \/ UNCHANGED vars
    BY <2>3, ControlSteps
  <2> QED
    BY <2>1, <2>2, <2>3 DEF Next, Finished
<1> QED
    BY InitInv, <1>1, PTL DEF Spec

\* Every variable keeps its type: run_ml_backtest never opens more slots than
\* the risk settings allow, and the peak is never below the equity.
THEOREM TypeCorrect == Spec => []TypeOK
<1>1. Inv => TypeOK
    BY DEF Inv
<1> QED
    BY Invariance, <1>1, PTL

\* The gates see the book of their moment and of no later one, however many
\* trades overlap (settle_trades_through before every judgement).
THEOREM NoLookahead == Spec => []BookOfTheMoment
<1>1. Inv => BookOfTheMoment
  <2> SUFFICES ASSUME Inv, pc = "decide"
               PROVE  /\ \A k \in DOMAIN settled : settled[k].exit <= now
                      /\ \A i \in DOMAIN pending : pending[i].exit > now
                      /\ {settled[k].id : k \in DOMAIN settled}
                           \cap {pending[i].id : i \in DOMAIN pending} = {}
                      /\ Len(settled) + Len(pending) = entered
    BY DEF BookOfTheMoment
  <2>1. NumberedOnce /\ InOrder
    BY DEF Inv
  <2>2. {settled[k].id : k \in DOMAIN settled} \cap {pending[i].id : i \in DOMAIN pending} = {}
    BY <2>1 DEF NumberedOnce
  <2> QED
    BY <2>1, <2>2 DEF NumberedOnce, InOrder
<1> QED
    BY Invariance, <1>1, PTL

\* The equity curve is built in the order the trades ended.
THEOREM BookedInOrder == Spec => []BookedInExitOrder
<1>1. Inv => BookedInExitOrder
    BY DEF Inv, InOrder
<1> QED
    BY Invariance, <1>1, PTL

\* Past the absolute stop and the drawdown stop a spot replay can lose at most
\* one full loss per slot.
THEOREM LossesPastStops == Spec => []LossesBounded
<1>1. Inv => LossesBounded
  <2> SUFFICES ASSUME Inv, Instrument = "spot_crypto" PROVE LossesBounded
    BY DEF LossesBounded
  <2> DEFINE room == MaxOpen * WorstLoss
             share == DrawdownPct * peak
  <2>1. StopsCoverRisk /\ TypeOK
    BY DEF Inv
  <2>2. AtRisk \in Nat /\ room \in Nat
    BY <2>1, TypeFacts, WorstLossInNat, ConstantFacts, ProductInNat DEF AtRisk
  <2>3. equity \in Int /\ peak \in Int /\ share \in Int
    BY <2>1, TypeFacts, ConstantFacts
  <2>4. 100 * MaxOpen * WorstLoss = 100 * room
    BY WorstLossInNat, ConstantFacts
  <2>5. /\ MaxLoss > 0 => StartEquity - equity + AtRisk < MaxLoss + room
        /\ DrawdownPct > 0 => (peak - equity) * 100 + 100 * AtRisk < share + 100 * room
    BY <2>1 DEF StopsCoverRisk
  <2> HIDE DEF room, share
  <2>6. MaxLoss > 0 => StartEquity - equity < MaxLoss + room
    BY <2>2, <2>3, <2>5, ConstantFacts
  <2>7. DrawdownPct > 0 => (peak - equity) * 100 < share + 100 * room
    BY <2>2, <2>3, <2>5
  <2> QED
    BY <2>4, <2>6, <2>7 DEF LossesBounded, room, share
<1> QED
    BY Invariance, <1>1, PTL

-----------------------------------------------------------------------------
(* The cooldown *)

\* The run of losses reaches the limit, or a multiple of it, with the k-th trade.
HitsLimit(k) == LossRun(k) > 0 /\ LossRun(k) % LossLimit = 0

\* No trade was entered after one of those open then, or it, had ended.
EnteredBefore ==
    /\ \A i, j \in DOMAIN pending : pending[i].at < pending[j].exit
    /\ \A k \in DOMAIN settled : settled[k].at < settled[k].exit
    /\ \A i \in DOMAIN pending : pending[i].at <= now

\* consecutive_losses is the run of losses, counted afresh at every limit.
LossesCounted == losses = LossRun(Len(settled)) % LossLimit

\* The cooldown of every limit reached is the one in force, or is over.
CooldownRemembered ==
    \A k \in DOMAIN settled : HitsLimit(k) => settled[k].exit + Cooldown <= cooldownUntil

\* What was booked was not entered in the cooldown of anything booked.
BookedOutside ==
    \A k, i \in DOMAIN settled : HitsLimit(k) =>
        ~(/\ settled[i].at >= settled[k].exit
          /\ settled[i].at < settled[k].exit + Cooldown)

\* Nor was what is open.
OpenOutside ==
    \A k \in DOMAIN settled, i \in DOMAIN pending : HitsLimit(k) =>
        ~(/\ pending[i].at >= settled[k].exit
          /\ pending[i].at < settled[k].exit + Cooldown)

CooldownInv ==
    /\ EnteredBefore
    /\ LossLimit > 0 =>
          LossesCounted /\ CooldownRemembered /\ BookedOutside /\ OpenOutside

\* The trades among the first k that ended a run of losses, and the beginning.
Breaks(k) == {0} \cup {j \in 1..k : settled[j].pnl >= 0}

\* A run of losses is as long as there are trades, at the most.
LEMMA RunLength ==
    ASSUME NEW k \in Nat
    PROVE  /\ Max(Breaks(k)) \in Breaks(k) /\ Max(Breaks(k)) \in 0..k
           /\ LossRun(k) = k - Max(Breaks(k)) /\ LossRun(k) \in Nat
<1>1. Breaks(k) \in SUBSET (0..k) /\ Breaks(k) # {}
    BY DEF Breaks
<1>2. Max(Breaks(k)) \in Breaks(k)
    BY <1>1, GreatestElement
<1>3. LossRun(k) = k - Max(Breaks(k))
    BY Zenon DEF LossRun, Breaks
<1>4. Max(Breaks(k)) \in 0..k
    BY <1>1, <1>2
<1> QED
    BY <1>2, <1>3, <1>4

\* Booking a trade leaves the runs of the trades before it, and makes its own
\* one longer or nothing.
LEMMA RunsAfterBooking ==
    ASSUME TypeOK, NEW t \in Trade, settled' = Append(settled, t),
           NEW n \in Nat, n = Len(settled)
    PROVE  /\ \A k \in 0..n : LossRun(k)' = LossRun(k)
           /\ t.pnl < 0 => LossRun(n + 1)' = LossRun(n) + 1
           /\ t.pnl >= 0 => LossRun(n + 1)' = 0
<1> DEFINE Later(k) == {0} \cup {j \in 1..k : settled'[j].pnl >= 0}
<1>1. settled \in Seq(Trade) /\ t.pnl \in Int
    BY TradeFields DEF TypeOK
<1>2. (\A k \in 1..n : settled'[k] = settled[k]) /\ settled'[n + 1] = t
    BY <1>1, AppendProperties
<1>3. \A k \in Nat : LossRun(k)' = k - Max(Later(k))
    BY DEF LossRun
<1>4. \A k \in Nat : LossRun(k) = k - Max(Breaks(k))
    BY RunLength
<1>5. ASSUME NEW k \in 0..n PROVE Later(k) = Breaks(k)
  <2>1. \A j \in 1..k : settled'[j] = settled[j]
      BY <1>2
  <2> QED
      BY <2>1 DEF Breaks
<1>6. \A k \in 0..n : LossRun(k)' = LossRun(k)
  <2>1. \A k \in 0..n : k \in Nat
      OBVIOUS
  <2> HIDE DEF Later
  <2> QED
      BY <1>3, <1>4, <1>5, <2>1
<1>7. ASSUME t.pnl < 0 PROVE LossRun(n + 1)' = LossRun(n) + 1
  <2>1. ~(t.pnl >= 0)
      BY <1>1, <1>7
  <2>2. \A j \in 1..(n + 1) : j \in 1..n \/ j = n + 1
      OBVIOUS
  <2>3. Later(n + 1) = Later(n)
      BY <1>2, <2>1, <2>2
  <2>4. Later(n) = Breaks(n)
      BY <1>5
  <2> HIDE DEF Later
  <2>5. LossRun(n + 1)' = (n + 1) - Max(Breaks(n)) /\ LossRun(n) = n - Max(Breaks(n))
      BY <1>3, <1>4, <2>3, <2>4
  <2>6. Max(Breaks(n)) \in Int
      BY RunLength
  <2> QED
      BY <2>5, <2>6
<1>8. ASSUME t.pnl >= 0 PROVE LossRun(n + 1)' = 0
  <2>1. Later(n + 1) \in SUBSET (0..(n + 1)) /\ n + 1 \in Later(n + 1) /\ n + 1 \in Nat
      BY <1>1, <1>2, <1>8
  <2> HIDE DEF Later
  <2>2. Max(Later(n + 1)) \in Later(n + 1) /\ n + 1 <= Max(Later(n + 1))
      BY <2>1, GreatestElement
  <2>3. Max(Later(n + 1)) = n + 1
      BY <2>1, <2>2
  <2> QED
      BY <1>3, <2>3
<1> QED
    BY <1>6, <1>7, <1>8

\* The counter and the run keep step.
LEMMA CountedOn ==
    ASSUME TypeOK, NEW t \in Trade, settled' = Append(settled, t), CountLosses(t),
           LossLimit > 0, LossesCounted, NEW n \in Nat, n = Len(settled)
    PROVE  /\ LossesCounted'
           /\ HitsLimit(n + 1)' => cooldownUntil' = t.exit + Cooldown
           /\ cooldownUntil' = t.exit + Cooldown \/ cooldownUntil' = cooldownUntil
<1> DEFINE old == LossRun(n)
<1>1. /\ old \in Nat /\ LossLimit \in Nat \ {0} /\ t.pnl \in Int
      /\ Len(settled') = n + 1
  <2>1. settled \in Seq(Trade) /\ t.pnl \in Int
      BY TradeFields DEF TypeOK
  <2>2. LossLimit \in Nat
      BY MLBacktestAssumption DEF MLBacktestAssumption
  <2> QED
      BY <2>1, <2>2, RunLength, AppendProperties
<1>2. /\ t.pnl < 0 => LossRun(n + 1)' = old + 1
      /\ t.pnl >= 0 => LossRun(n + 1)' = 0
    BY RunsAfterBooking
<1>3. losses = old % LossLimit
    BY DEF LossesCounted
<1>4. /\ LossesCounted' <=> losses' = LossRun(n + 1)' % LossLimit
      /\ HitsLimit(n + 1)' <=> (LossRun(n + 1)' > 0 /\ LossRun(n + 1)' % LossLimit = 0)
    BY <1>1 DEF LossesCounted, HitsLimit
<1> HIDE DEF old
<1>5. /\ old % LossLimit \in 0..(LossLimit - 1)
      /\ (old % LossLimit) + 1 >= LossLimit    => (old + 1) % LossLimit = 0
      /\ ~((old % LossLimit) + 1 >= LossLimit) =>
            (old + 1) % LossLimit = (old % LossLimit) + 1
    BY <1>1, CountingOn, Zenon
<1>6. CASE t.pnl < 0
  <2>1. LossRun(n + 1)' = old + 1
      BY <1>2, <1>6
  <2>2. CASE losses + 1 >= LossLimit
    <3>1. losses' = 0 /\ cooldownUntil' = t.exit + Cooldown
        BY <1>6, <2>2 DEF CountLosses
    <3>2. (old + 1) % LossLimit = 0
        BY <1>3, <1>5, <2>2, Zenon
    <3> QED
        BY <1>4, <2>1, <3>1, <3>2, Zenon
  <2>3. CASE ~(losses + 1 >= LossLimit)
    <3>1. losses' = losses + 1 /\ cooldownUntil' = cooldownUntil
        BY <1>6, <2>3 DEF CountLosses
    <3>2. (old + 1) % LossLimit = losses + 1
        BY <1>3, <1>5, <2>3, Zenon
    <3>3. losses \in Nat
        BY DEF TypeOK
    <3>4. losses + 1 # 0
        BY <3>3
    <3> QED
        BY <1>4, <2>1, <3>1, <3>2, <3>4, Zenon
  <2> QED
      BY <2>2, <2>3
<1>7. CASE ~(t.pnl < 0)
  <2>1. LossRun(n + 1)' = 0
      BY <1>1, <1>2, <1>7
  <2>2. losses' = 0 /\ cooldownUntil' = cooldownUntil
      BY <1>1, <1>7 DEF CountLosses
  <2>3. 0 % LossLimit = 0 /\ ~(0 > 0)
      BY <1>1
  <2> QED
      BY <1>4, <2>1, <2>2, <2>3, Zenon
<1> QED
    BY <1>6, <1>7

\* Nothing is booked yet.
LEMMA CooldownInit == Init => CooldownInv
<1> SUFFICES ASSUME Init PROVE CooldownInv
    OBVIOUS
<1>1. DOMAIN pending = {} /\ DOMAIN settled = {} /\ Len(settled) = 0
    BY EmptySeq DEF Init
<1>2. LossRun(0) = 0
  <2>1. Max(Breaks(0)) \in 0..0 /\ LossRun(0) = 0 - Max(Breaks(0))
      BY RunLength
  <2> QED
      BY <2>1
<1>3. ASSUME LossLimit > 0 PROVE LossesCounted
  <2>1. LossLimit \in Nat \ {0}
      BY <1>3, MLBacktestAssumption DEF MLBacktestAssumption
  <2>2. 0 % LossLimit = 0
      BY <2>1
  <2> QED
      BY <1>1, <1>2, <2>2 DEF LossesCounted, Init
<1> QED
    BY <1>1, <1>3 DEF CooldownInv, EnteredBefore, CooldownRemembered, BookedOutside,
       OpenOutside

\* Without booking or entering nothing changes but the time.
LEMMA CooldownIdle ==
    ASSUME Inv, CooldownInv,
           UNCHANGED <<pending, settled, losses, cooldownUntil>>,
           now' \in Int, now <= now'
    PROVE  CooldownInv'
<1>1. \A k : LossRun(k)' = LossRun(k) /\ HitsLimit(k)' = HitsLimit(k)
    BY DEF LossRun, HitsLimit
<1>2. EnteredBefore'
  <2>1. TypeOK /\ now \in Int
      BY TypeFacts DEF Inv
  <2>2. \A i \in DOMAIN pending : pending[i].at \in Int /\ pending[i].at <= now
    <3>1. \A i \in DOMAIN pending : pending[i] \in Trade
        BY <2>1, TypeFacts
    <3>2. \A i \in DOMAIN pending : pending[i].at \in Int
        BY <3>1 DEF Trade
    <3> QED
        BY <3>2 DEF CooldownInv, EnteredBefore
  <2>3. \A i \in DOMAIN pending : pending[i].at <= now'
      BY <2>1, <2>2
  <2> QED
      BY <2>3 DEF CooldownInv, EnteredBefore
<1>3. LossesCounted => LossesCounted'
    BY DEF LossesCounted, LossRun
<1>4. CooldownRemembered => CooldownRemembered'
    BY <1>1 DEF CooldownRemembered
<1>5. BookedOutside => BookedOutside'
    BY <1>1 DEF BookedOutside
<1>6. OpenOutside => OpenOutside'
    BY <1>1 DEF OpenOutside
<1> QED
    BY <1>2, <1>3, <1>4, <1>5, <1>6 DEF CooldownInv

\* The times of the trades that are open or booked are numbers.
LEMMA TradeTimes ==
    ASSUME TypeOK
    PROVE  /\ \A i \in DOMAIN pending : pending[i].at \in Int /\ pending[i].exit \in Int
           /\ \A k \in DOMAIN settled : settled[k].at \in Int /\ settled[k].exit \in Int
           /\ cooldownUntil \in Int /\ now \in Int /\ Cooldown \in Nat
<1>1. /\ \A i \in DOMAIN pending : pending[i] \in Trade
      /\ \A k \in DOMAIN settled : settled[k] \in Trade
    BY TypeFacts
<1>2. \A t \in Trade : t.at \in Int /\ t.exit \in Int
    BY DEF Trade
<1>3. Horizon + Hold + Cooldown \in Nat
    BY ConstantFacts
<1>4. cooldownUntil \in Int
    BY <1>3 DEF TypeOK
<1> QED
    BY <1>1, <1>2, <1>4, TypeFacts, ConstantFacts

\* Booking a trade: what is open was entered before it ended, and what was booked
\* ended no later than it.
LEMMA CooldownSettle ==
    ASSUME Inv, CooldownInv, NEW i \in DOMAIN pending, Settle(i)
    PROVE  CooldownInv'
<1>0. TypeOK /\ Inv'
    BY SettleStep DEF Inv
<1> DEFINE t == pending[i]
<1>1. /\ settled' = Append(settled, t) /\ pending' = RemoveAt(pending, i)
      /\ CountLosses(t) /\ now' = now
    BY DEF Settle
<1>2. PICK n \in Nat : n = Len(settled) /\ DOMAIN settled = 1..n
  <2>1. settled \in Seq(Trade)
      BY <1>0 DEF TypeOK
  <2>2. Len(settled) \in Nat /\ DOMAIN settled = 1..Len(settled)
      BY <2>1, LenProperties
  <2> QED
      BY <2>2, Zenon
<1>3. t \in Trade /\ t.at \in Int /\ t.exit \in Int
    BY <1>0, TypeFacts, TradeTimes
<1>4. /\ DOMAIN settled' = 1..(n + 1)
      /\ \A k \in 1..n : settled'[k] = settled[k]
      /\ settled'[n + 1] = t
  <2>1. settled \in Seq(Trade)
      BY <1>0 DEF TypeOK
  <2> HIDE DEF t
  <2>2. settled' \in Seq(Trade) /\ Len(settled') = n + 1
      BY <1>1, <1>2, <1>3, <2>1, AppendProperties
  <2> QED
      BY <1>1, <1>2, <1>3, <2>1, <2>2, AppendProperties, LenProperties
<1>5. \A j \in DOMAIN pending' : \E k \in DOMAIN pending : pending'[j] = pending[k]
  <2>1. pending \in Seq(Trade)
      BY <1>0 DEF TypeOK
  <2> QED
      BY <1>1, <2>1, Remaining
<1>6. \A j \in DOMAIN pending : pending[j].at < t.exit
    BY DEF CooldownInv, EnteredBefore
<1>7. \A k \in DOMAIN settled : settled[k].exit <= t.exit /\ settled[k].at < settled[k].exit
    BY DEF Inv, InOrder, CooldownInv, EnteredBefore
<1>8. \A j \in DOMAIN pending : pending[j].at <= now
    BY DEF CooldownInv, EnteredBefore
<1>9. t.at < t.exit
    BY <1>6
<1>10. EnteredBefore'
  <2>1. \A a, b \in DOMAIN pending' : pending'[a].at < pending'[b].exit
      BY <1>5 DEF CooldownInv, EnteredBefore
  <2>2. \A k \in DOMAIN settled' : settled'[k].at < settled'[k].exit
    <3> SUFFICES ASSUME NEW k \in 1..(n + 1) PROVE settled'[k].at < settled'[k].exit
        BY <1>4
    <3>1. CASE k \in 1..n
        BY <3>1, <1>2, <1>4, <1>7
    <3>2. CASE k = n + 1
        BY <3>2, <1>4, <1>9
    <3> QED
        BY <3>1, <3>2
  <2>3. \A j \in DOMAIN pending' : pending'[j].at <= now'
      BY <1>1, <1>5, <1>8
  <2> QED
      BY <2>1, <2>2, <2>3 DEF EnteredBefore
<1> HIDE DEF t
<1>11. ASSUME LossLimit > 0
       PROVE  LossesCounted' /\ CooldownRemembered' /\ BookedOutside' /\ OpenOutside'
  <2>1. LossesCounted /\ CooldownRemembered /\ BookedOutside /\ OpenOutside
      BY <1>11 DEF CooldownInv
  <2>2. /\ LossesCounted'
        /\ HitsLimit(n + 1)' => cooldownUntil' = t.exit + Cooldown
        /\ cooldownUntil' = t.exit + Cooldown \/ cooldownUntil' = cooldownUntil
      BY <1>0, <1>1, <1>2, <1>3, <1>11, <2>1, CountedOn
  <2>3. \A k \in 1..n : LossRun(k)' = LossRun(k)
      BY <1>0, <1>1, <1>2, <1>3, RunsAfterBooking
  <2>4. \A k \in 1..n : HitsLimit(k)' = HitsLimit(k)
      BY <2>3 DEF HitsLimit
  <2>5. \A k \in 1..n : /\ settled[k].exit \in Int /\ settled[k].at \in Int
                        /\ settled[k].exit <= t.exit /\ settled[k].at < settled[k].exit
      BY <1>0, <1>2, <1>7, TradeTimes
  <2>6. cooldownUntil \in Int /\ Cooldown \in Nat
      BY <1>0, TradeTimes
  <2>7. CooldownRemembered'
    <3> SUFFICES ASSUME NEW k \in 1..(n + 1), HitsLimit(k)'
                 PROVE  settled'[k].exit + Cooldown <= cooldownUntil'
        BY <1>4 DEF CooldownRemembered
    <3>1. CASE k \in 1..n
      <4>1. settled[k].exit + Cooldown <= cooldownUntil
          BY <3>1, <1>2, <2>1, <2>4 DEF CooldownRemembered
      <4>2. settled[k].exit + Cooldown <= cooldownUntil'
          BY <3>1, <4>1, <1>3, <2>2, <2>5, <2>6
      <4> QED
          BY <3>1, <4>2, <1>4
    <3>2. CASE k = n + 1
        BY <3>2, <1>3, <1>4, <2>2, <2>6
    <3> QED
        BY <3>1, <3>2
  <2>8. BookedOutside'
    <3> SUFFICES ASSUME NEW k \in 1..(n + 1), NEW j \in 1..(n + 1), HitsLimit(k)',
                        settled'[j].at >= settled'[k].exit,
                        settled'[j].at < settled'[k].exit + Cooldown
                 PROVE  FALSE
        BY <1>4 DEF BookedOutside
    <3>1. CASE k = n + 1
      <4>1. settled'[j].at \in Int /\ settled'[j].at < t.exit
        <5>1. CASE j \in 1..n
            BY <5>1, <1>3, <1>4, <2>5
        <5>2. CASE j = n + 1
            BY <5>2, <1>3, <1>4, <1>9 DEF t
        <5> QED
            BY <5>1, <5>2
      <4> QED
          BY <3>1, <4>1, <1>3, <1>4
    <3>2. CASE k \in 1..n /\ j \in 1..n
        BY <3>2, <1>2, <1>4, <2>1, <2>4 DEF BookedOutside
    <3>3. CASE k \in 1..n /\ j = n + 1
        BY <3>3, <1>2, <1>4, <2>1, <2>4 DEF OpenOutside, t
    <3> QED
        BY <3>1, <3>2, <3>3
  <2>9. OpenOutside'
    <3> SUFFICES ASSUME NEW k \in 1..(n + 1), NEW j \in DOMAIN pending', HitsLimit(k)',
                        pending'[j].at >= settled'[k].exit,
                        pending'[j].at < settled'[k].exit + Cooldown
                 PROVE  FALSE
        BY <1>4 DEF OpenOutside
    <3>1. PICK m \in DOMAIN pending : pending'[j] = pending[m]
        BY <1>5
    <3>2. CASE k = n + 1
      <4>1. pending[m].at \in Int /\ pending[m].at < t.exit
          BY <1>0, <1>6, TradeTimes DEF t
      <4> QED
          BY <3>1, <3>2, <4>1, <1>3, <1>4
    <3>3. CASE k \in 1..n
        BY <3>1, <3>3, <1>2, <1>4, <2>1, <2>4 DEF OpenOutside
    <3> QED
        BY <3>2, <3>3
  <2> QED
      BY <2>2, <2>7, <2>8, <2>9
<1> QED
    BY <1>10, <1>11 DEF CooldownInv

\* Entering a trade: it is past every cooldown, and before every exit.
LEMMA CooldownEnter ==
    ASSUME Inv, CooldownInv, NEW side \in Sides, Enter(side)
    PROVE  CooldownInv'
<1>0. TypeOK /\ TypeOK' /\ InOrder
    BY EnterStep DEF Inv
<1>1. PICK t : /\ pending' = Append(pending, t) /\ t.at = now /\ t.exit \in (now + 1)..(now + Hold)
  <2>1. PICK n \in OrderedNotionals(side), f \in FillPcts, r \in Returns,
             exit \in (now + 1)..(now + Hold) :
           pending' = Append(pending,
              [id |-> entered + 1, at |-> now, exit |-> exit, side |-> side,
               notional |-> Filled(n, f), pnl |-> Filled(n, f) * r])
      BY DEF Enter
  <2> QED
      BY <2>1
<1>2. /\ pc = "decide" /\ ~Cooling
      /\ UNCHANGED <<now, settled, losses, cooldownUntil>>
    BY DEF Enter
<1>3. /\ cooldownUntil <= now /\ cooldownUntil \in Int /\ now \in Int
      /\ t.at = now /\ t.exit \in Int /\ t.exit > now
    BY <1>0, <1>1, <1>2, TradeTimes, ConstantFacts DEF Cooling
<1>4. \A j \in DOMAIN pending' : \/ j \in DOMAIN pending /\ pending'[j] = pending[j]
                                 \/ pending'[j] = t
  <2>1. pending \in Seq(Trade) /\ pending' \in Seq(Trade)
      BY <1>0 DEF TypeOK
  <2>2. \A j \in 1..(Len(pending) + 1) : j \in 1..Len(pending) \/ j = Len(pending) + 1
      BY <1>0, TypeFacts
  <2> QED
      BY <1>1, <2>1, <2>2
<1>5. \A j \in DOMAIN pending : /\ pending[j].exit > now /\ pending[j].at <= now
                                /\ pending[j].at \in Int /\ pending[j].exit \in Int
    BY <1>0, <1>2, TradeTimes DEF InOrder, CooldownInv, EnteredBefore
<1>6. EnteredBefore'
  <2>1. ASSUME NEW a \in DOMAIN pending', NEW b \in DOMAIN pending'
        PROVE  pending'[a].at < pending'[b].exit /\ pending'[a].at <= now
    <3>1. pending'[a].at \in Int /\ pending'[a].at <= now
        BY <1>3, <1>4, <1>5
    <3>2. pending'[b].exit \in Int /\ pending'[b].exit > now
        BY <1>3, <1>4, <1>5
    <3> QED
        BY <3>1, <3>2, <1>3
  <2> QED
      BY <1>2, <2>1 DEF CooldownInv, EnteredBefore
<1>7. \A k : LossRun(k)' = LossRun(k) /\ HitsLimit(k)' = HitsLimit(k)
    BY <1>2 DEF LossRun, HitsLimit
<1>8. LossesCounted => LossesCounted'
    BY <1>2 DEF LossesCounted, LossRun
<1>9. CooldownRemembered => CooldownRemembered'
    BY <1>2, <1>7 DEF CooldownRemembered
<1>10. BookedOutside => BookedOutside'
    BY <1>2, <1>7 DEF BookedOutside
<1>11. ASSUME CooldownRemembered, OpenOutside PROVE OpenOutside'
  <2> SUFFICES ASSUME NEW k \in DOMAIN settled, NEW j \in DOMAIN pending', HitsLimit(k),
                      pending'[j].at >= settled[k].exit,
                      pending'[j].at < settled[k].exit + Cooldown
               PROVE  FALSE
      BY <1>2, <1>7 DEF OpenOutside
  <2>1. CASE j \in DOMAIN pending /\ pending'[j] = pending[j]
      BY <2>1, <1>11 DEF OpenOutside
  <2>2. CASE pending'[j] = t
    <3>1. settled[k].exit + Cooldown <= cooldownUntil
        BY <1>11 DEF CooldownRemembered
    <3>2. settled[k].exit \in Int /\ Cooldown \in Nat
        BY <1>0, TradeTimes
    <3> QED
        BY <2>2, <3>1, <3>2, <1>3
  <2> QED
      BY <2>1, <2>2, <1>4
<1> QED
    BY <1>6, <1>8, <1>9, <1>10, <1>11 DEF CooldownInv

\* Every step keeps the cooldowns.
LEMMA CooldownStep == Inv /\ CooldownInv /\ [Next]_vars => CooldownInv'
<1> SUFFICES ASSUME Inv, CooldownInv, [Next]_vars PROVE CooldownInv'
    OBVIOUS
<1>1. CASE \E i \in DOMAIN pending : Settle(i)
    BY <1>1, CooldownSettle
<1>2. CASE \E side \in Sides : Enter(side)
    BY <1>2, CooldownEnter
<1>3. CASE \/ NextPrediction \/ NoMorePredictions \/ Settled \/ Drained
           \/ Reject \/ StopForLoss \/ StopForDrawdown \/ UNCHANGED vars
  <2>1. UNCHANGED <<pending, settled, losses, cooldownUntil>>
      BY <1>3 DEF NextPrediction, NoMorePredictions, Settled, Drained, Reject,
         StopForLoss, StopForDrawdown, vars, book
  <2>2. TypeOK /\ now \in Int
      BY TypeFacts DEF Inv
  <2>3. now' \in Int /\ now <= now'
    <3>1. CASE NextPrediction
        BY <3>1, <2>2, ConstantFacts DEF NextPrediction
    <3>2. CASE ~NextPrediction
      <4>1. now' = now
          BY <1>3, <3>2 DEF NoMorePredictions, Settled, Drained, Reject,
             StopForLoss, StopForDrawdown, vars
      <4> QED
          BY <2>2, <4>1
    <3> QED
        BY <3>1, <3>2
  <2> QED
      BY <2>1, <2>3, CooldownIdle
<1> QED
    BY <1>1, <1>2, <1>3 DEF Next, Finished

\* After every run of losses that reaches the limit nothing is entered for the
\* length of the cooldown (consecutive_losses and cooldown_until), for every
\* limit, every cooldown and however many trades overlap.
THEOREM CooldownIsKept == Spec => []CooldownKept
<1>1. CooldownInv => CooldownKept
  <2> SUFFICES ASSUME CooldownInv, LossLimit > 0, NEW k \in DOMAIN settled, HitsLimit(k),
                      NEW trades \in {settled, pending}, NEW i \in DOMAIN trades
               PROVE  ~(/\ trades[i].at >= settled[k].exit
                        /\ trades[i].at < settled[k].exit + Cooldown)
      BY DEF CooldownKept, HitsLimit
  <2>1. BookedOutside /\ OpenOutside
      BY DEF CooldownInv
  <2>2. CASE trades = settled
      BY <2>1, <2>2 DEF BookedOutside
  <2>3. CASE trades = pending
      BY <2>1, <2>3 DEF OpenOutside
  <2> QED
      BY <2>2, <2>3
<1>2. Spec => []CooldownInv
  <2> QED
      BY CooldownInit, CooldownStep, Invariance, PTL DEF Spec
<1> QED
    BY <1>1, <1>2, PTL

-----------------------------------------------------------------------------
(* The cash behind the open buys *)

\* The buys open after one more trade are those before it, and it if it is one.
LEMMA BuysAfterEntry ==
    ASSUME NEW trades \in Seq(Trade), NEW t \in Trade
    PROVE  /\ BuysIn(trades) \in Nat
           /\ t.side = "BUY" => BuysIn(Append(trades, t)) = BuysIn(trades) + t.notional
<1> DEFINE more == Append(trades, t)
           old == {i \in DOMAIN trades : trades[i].side = "BUY"}
           new == {i \in DOMAIN more : more[i].side = "BUY"}
           f == [i \in DOMAIN trades |-> trades[i].notional]
           g == [i \in DOMAIN more |-> more[i].notional]
           n == Len(trades)
<1>1. /\ n \in Nat /\ DOMAIN trades = 1..n /\ DOMAIN more = 1..(n + 1)
      /\ \A i \in 1..n : more[i] = trades[i] /\ trades[i] \in Trade
      /\ more[n + 1] = t
    BY AppendProperties, LenProperties, ElementOfSeq
<1>2. BuysIn(trades) = SumFunctionOnSet(f, old) /\ BuysIn(more) = SumFunctionOnSet(g, new)
    BY DEF BuysIn
<1>3. \A i \in old : f[i] = g[i] /\ f[i] \in Nat
  <2> SUFFICES ASSUME NEW i \in old PROVE f[i] = g[i] /\ f[i] \in Nat
      OBVIOUS
  <2>1. i \in 1..n /\ i \in 1..(n + 1) /\ more[i] = trades[i] /\ trades[i] \in Trade
      BY <1>1
  <2>2. f[i] = trades[i].notional /\ g[i] = more[i].notional
      BY <1>1, <2>1
  <2> QED
      BY <2>1, <2>2 DEF Trade
<1>4. IsFiniteSet(old)
  <2>1. IsFiniteSet(1..n) /\ old \subseteq 1..n
    <3>1. 1 \in Int /\ n \in Int
        BY <1>1
    <3> QED
        BY <1>1, <3>1, FS_Interval
  <2> QED
      BY <2>1, FS_Subset
<1>5. ASSUME t.side = "BUY"
      PROVE  new = old \cup {n + 1} /\ n + 1 \notin old /\ g[n + 1] = t.notional
  <2>1. n + 1 \in 1..(n + 1) /\ n + 1 \notin 1..n
      BY <1>1
  <2>2. \A i \in 1..(n + 1) : i \in 1..n \/ i = n + 1
      BY <1>1
  <2>3. \A i \in 1..n : i \in 1..(n + 1)
      BY <1>1
  <2> HIDE DEF n, more
  <2>4. n + 1 \notin old /\ g[n + 1] = t.notional
      BY <1>1, <2>1
  <2>5. \A i : i \in new <=> i \in old \/ i = n + 1
      BY <1>1, <1>5, <2>1, <2>2, <2>3
  <2> QED
      BY <2>4, <2>5
<1> HIDE DEF f, g, old, new, more, n
<1>6. SumFunctionOnSet(f, old) \in Nat
    BY <1>3, <1>4, SumNat
<1>7. SumFunctionOnSet(g, old) = SumFunctionOnSet(f, old)
    BY <1>3, <1>4, SumAgrees
<1>8. ASSUME t.side = "BUY"
      PROVE  SumFunctionOnSet(g, new) = SumFunctionOnSet(g, old) + t.notional
  <2>1. new = old \cup {n + 1} /\ n + 1 \notin old /\ g[n + 1] = t.notional
      BY <1>5, <1>8
  <2>2. t.notional \in Int
      BY DEF Trade
  <2>3. \A i \in old \cup {n + 1} : g[i] \in Int
      BY <1>3, <2>1, <2>2
  <2>4. SumFunctionOnSet(g, old \cup {n + 1}) = SumFunctionOnSet(g, old) + g[n + 1]
      BY <1>4, <2>1, <2>3, SumAdd
  <2> QED
      BY <2>1, <2>4
<1> QED
    BY <1>2, <1>6, <1>7, <1>8 DEF more

\* Whole dollars of an amount are worth no more than the amount.
LEMMA WholeDollars ==
    ASSUME NEW a \in Int
    PROVE  a \div 100 \in Int /\ 100 * (a \div 100) <= a
OBVIOUS

\* A buy on the spot market is paid from what the open buys have left.
LEMMA BuyPaid ==
    ASSUME Inv, Instrument = "spot_crypto", "BUY" \in Sides, Enter("BUY")
    PROVE  BuysIn(pending') <= PaperMax /\ 100 * BuysIn(pending') <= equity
<1>1. TypeOK /\ pending \in Seq(Trade) /\ equity \in Int
    BY TypeFacts DEF Inv, TypeOK
<1>2. PICK n \in OrderedNotionals("BUY"), f \in FillPcts, r \in Returns,
           exit \in (now + 1)..(now + Hold) :
         pending' = Append(pending,
            [id |-> entered + 1, at |-> now, exit |-> exit, side |-> "BUY",
             notional |-> Filled(n, f), pnl |-> Filled(n, f) * r])
    BY DEF Enter
<1> DEFINE t == [id |-> entered + 1, at |-> now, exit |-> exit, side |-> "BUY",
                 notional |-> Filled(n, f), pnl |-> Filled(n, f) * r]
           spent == BuysIn(pending)
           room == LeastOf(equity \div 100, PaperMax)
<1>3. n \in MinNotional..PaperMax /\ \E s \in Sized : n = LeastOf(s, SpotAvailable)
    BY DEF OrderedNotionals
<1>4. MinNotional \in Nat \ {0} /\ PaperMax \in Nat
    BY MLBacktestAssumption DEF MLBacktestAssumption
<1>5. n \in Nat /\ n > 0
    BY <1>3, <1>4
<1>6. Filled(n, f) \in Nat /\ Filled(n, f) <= n
    BY <1>5, FilledWithinOrder
<1>7. t.side = "BUY" /\ t.notional = Filled(n, f) /\ pending' = Append(pending, t)
    BY <1>2
<1>8. t \in Trade
  <2>1. pending' \in Seq(Trade)
    <3>1. Inv'
        BY EnterStep
    <3> QED
        BY <3>1 DEF Inv, TypeOK
  <2>2. Append(pending, t)[Len(pending) + 1] = t /\ Len(pending) + 1 \in DOMAIN Append(pending, t)
      BY <1>1
  <2> QED
      BY <1>7, <2>1, <2>2, ElementOfSeq
<1> HIDE DEF t
<1>9. spent \in Nat /\ BuysIn(pending') = spent + Filled(n, f)
    BY <1>1, <1>7, <1>8, BuysAfterEntry
<1>10. equity \div 100 \in Int /\ 100 * (equity \div 100) <= equity
    BY <1>1, WholeDollars
<1>11. room \in Int /\ room <= PaperMax /\ room <= equity \div 100
    BY <1>4, <1>10 DEF LeastOf
<1>12. SpotAvailable = MostOf(room - spent, 0)
    BY DEF SpotAvailable
<1> HIDE DEF spent, room
<1>13. SpotAvailable \in Int /\ n <= SpotAvailable
  <2>1. SpotAvailable \in Int
      BY <1>9, <1>11, <1>12 DEF MostOf
  <2>2. PICK s \in Sized : n = LeastOf(s, SpotAvailable)
      BY <1>3
  <2>3. (n = s /\ s <= SpotAvailable) \/ n = SpotAvailable
      BY <2>2 DEF LeastOf
  <2> QED
      BY <1>5, <2>1, <2>3
<1>14. n <= room - spent
    BY <1>5, <1>9, <1>11, <1>12, <1>13 DEF MostOf
<1>15. spent + Filled(n, f) <= room
    BY <1>5, <1>6, <1>9, <1>11, <1>14
<1> DEFINE whole == equity \div 100
           sum == spent + Filled(n, f)
<1>16. sum <= PaperMax /\ sum <= whole /\ sum \in Int /\ whole \in Int /\ 100 * whole <= equity
    BY <1>4, <1>6, <1>9, <1>10, <1>11, <1>15
<1> HIDE DEF whole, sum
<1>17. sum <= PaperMax /\ 100 * sum <= equity
    BY <1>1, <1>16
<1> QED
    BY <1>9, <1>17 DEF sum

\* On the spot market the open buys together never cost more than the equity of
\* the moment of the last of them, nor more than the cap (_open_spot_notional).
THEOREM SpotIsPaidFor == Spec => SpotPaidFor
<1> DEFINE Paid ==
             Instrument = "spot_crypto" /\ Len(pending') > Len(pending)
               /\ pending'[Len(pending')].side = "BUY" =>
             BuysIn(pending') <= PaperMax /\ 100 * BuysIn(pending') <= equity
<1>1. ASSUME Inv, [Next]_vars, Instrument = "spot_crypto", Len(pending') > Len(pending),
             pending'[Len(pending')].side = "BUY"
      PROVE  BuysIn(pending') <= PaperMax /\ 100 * BuysIn(pending') <= equity
  <2>1. pending \in Seq(Trade) /\ Len(pending) \in Nat
    <3>1. TypeOK
        BY <1>1 DEF Inv
    <3> QED
        BY <3>1, TypeFacts DEF TypeOK
  <2>2. CASE \E side \in Sides : Enter(side)
    <3>1. PICK side \in Sides : Enter(side)
        BY <2>2
    <3>2. PICK t : pending' = Append(pending, t) /\ t.side = side
        BY <3>1 DEF Enter
    <3>3. side = "BUY"
      <4>1. Len(pending') = Len(pending) + 1 /\ pending'[Len(pending) + 1] = t
          BY <2>1, <3>2
      <4> QED
          BY <1>1, <3>2, <4>1
    <3> QED
        BY <1>1, <3>1, <3>3, BuyPaid
  <2>3. CASE \E i \in DOMAIN pending : Settle(i)
    <3>1. PICK i \in DOMAIN pending : pending' = RemoveAt(pending, i)
        BY <2>3 DEF Settle
    <3>2. Len(pending') = Len(pending) - 1
        BY <2>1, <3>1, RemoveAtProperties
    <3> QED
        BY <1>1, <2>1, <3>2
  <2>4. CASE \/ NextPrediction \/ NoMorePredictions \/ Settled \/ Drained
             \/ Reject \/ StopForLoss \/ StopForDrawdown \/ UNCHANGED vars
    <3>1. pending' = pending
        BY <2>4 DEF NextPrediction, NoMorePredictions, Settled, Drained, Reject,
           StopForLoss, StopForDrawdown, vars, book
    <3> QED
        BY <1>1, <2>1, <3>1
  <2> QED
      BY <1>1, <2>2, <2>3, <2>4 DEF Next, Finished
<1>2. Inv /\ [Next]_vars => [Paid]_vars
    BY <1>1
<1> QED
    BY <1>2, Invariance, PTL DEF Spec, SpotPaidFor

=============================================================================
