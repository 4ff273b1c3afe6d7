-------------------------- MODULE RoundTrip_proofs --------------------------
(***************************************************************************)
(* Proofs about RoundTrip, for every cash amount, price set, cap and       *)
(* holding of the account: its types, what it sells, and what a failed run *)
(* leaves behind.                                                          *)
(***************************************************************************)
EXTENDS RoundTrip, TLAPS

\* The account is what it held before, plus the buys, less the sells.
Balance ==
    position = Foreign + orders["buy"].filled - orders["sell"].filled
                 - orders["liquidation"].filled

\* What the run knows of the buy, and how its sell depends on it.
BuySeen ==
    /\ bought <= orders["buy"].filled
    /\ exposed => bought > 0
    /\ pc \in {"startup", "buyWait"} => bought = 0
    /\ pc = "startup" => orders["buy"].want = 0
    /\ pc \in {"monitor", "exitQuote", "exitPosition", "sellWait"} => exposed

SellSent ==
    /\ orders["sell"].want \in {0, bought}
    /\ pc \in TripPcs \ {"sellWait", "report"} => orders["sell"].want = 0
    /\ pc \in {"report", "done"} => orders["sell"].filled = bought

LiquidationSent ==
    pc \in TripPcs \cup {"done", "cleanup", "cleanupQuery", "cleanupSell"} =>
        orders["liquidation"].want = 0

\* What the cleanup knows of the account, stage by stage.
CleanupKnows ==
    /\ pc \in TripPcs \cup {"cleanup", "cleanupQuery"} => closing = "none"
    /\ pc = "cleanupSell" => /\ raced \/ (answer <= position /\ ~orders["sell"].live)
                             /\ closing = "none" => position <= answer + LateBuy
    /\ pc = "cleanupWait" /\ closing = "none" =>
          position <= orders["liquidation"].want - orders["liquidation"].filled
                        + LateBuy
    /\ pc = "cleanupReport" /\ closing = "none" => position <= LateBuy
    /\ pc = "raised" /\ bought > 0 /\ closing = "none" =>
          position <= Foreign + LateBuy

\* The inductive invariant.
Inv ==
    /\ TypeOK
    /\ Balance
    /\ BuySeen
    /\ SellSent
    /\ LiquidationSent
    /\ CleanupKnows

-----------------------------------------------------------------------------

\* The three orders, in a form the provers can use.
LEMMA OrderTypes ==
    ASSUME TypeOK, NEW n \in Names
    PROVE  /\ orders[n] \in Order
           /\ orders[n].want \in Nat /\ orders[n].filled \in Nat
           /\ orders[n].live \in BOOLEAN
           /\ orders[n].filled <= orders[n].want
    BY DEF TypeOK, Order

\* Nothing is ordered at the start.
LEMMA InitInv == Init => Inv
<1> SUFFICES ASSUME Init PROVE Inv
    OBVIOUS
<1>1. Unsent \in Order
    BY DEF Unsent, Order
<1>2. \A n \in Names : orders[n] = Unsent
    BY DEF Init
<1>3. TypeOK
  <2>1. orders \in [Names -> Order]
      BY <1>1 DEF Init
  <2>2. \A n \in Names : orders[n].filled <= orders[n].want
      BY <1>2 DEF Unsent
  <2> QED
      BY <2>1, <2>2, RoundTripAssumption
      DEF Init, TypeOK, TripPcs, RoundTripAssumption
<1>4. \A n \in {"buy", "sell", "liquidation"} :
          orders[n].want = 0 /\ orders[n].filled = 0
    BY <1>2 DEF Unsent, Names
<1> QED
    BY <1>3, <1>4, RoundTripAssumption
    DEF Init, Inv, Balance, BuySeen, SellSent, LiquidationSent, CleanupKnows,
        TripPcs, EndPcs, RoundTripAssumption

\* Sending an order touches that order only.
LEMMA SentOrder ==
    ASSUME TypeOK, NEW n \in Names, NEW q \in Nat, Sent(n, q)
    PROVE  /\ orders' \in [Names -> Order]
           /\ orders'[n].want = q /\ orders'[n].filled = 0
           /\ orders'[n].live = (q > 0)
           /\ \A m \in Names \ {n} : orders'[m] = orders[m]
           /\ \A m \in Names : orders'[m].filled <= orders'[m].want
<1>1. [want |-> q, filled |-> 0, live |-> q > 0] \in Order
    BY DEF Order
<1>2. orders \in [Names -> Order]
    BY DEF TypeOK
<1>3. /\ orders' \in [Names -> Order]
      /\ orders'[n] = [want |-> q, filled |-> 0, live |-> q > 0]
      /\ \A m \in Names \ {n} : orders'[m] = orders[m]
    BY <1>1, <1>2 DEF Sent
<1> QED
    BY <1>3 DEF TypeOK

\* Steps of the run that leave the orders and the account alone.
LEMMA QuietSteps ==
    ASSUME Inv,
           \/ BuyReturns \/ Monitor \/ ReadExitQuote \/ SellRefused
           \/ SellReturns \/ Report \/ Fault \/ CleanupQuery \/ CleanupReturns
           \/ CleanupReport \/ CleanupFails \/ HoldElapses \/ UNCHANGED vars
    PROVE  Inv'
<1>0. /\ \A n \in Names : /\ orders[n].want \in Nat /\ orders[n].filled \in Nat
                          /\ orders[n].live \in BOOLEAN
                          /\ orders[n].filled <= orders[n].want
      /\ {"buy", "sell", "liquidation"} \subseteq Names
    BY OrderTypes DEF Inv, Names
<1> USE <1>0, RoundTripAssumption DEF Inv, RoundTripAssumption, TripPcs,
        CleanupPcs, EndPcs
<1>1. orders' = orders /\ position' = position
    BY DEF BuyReturns, Monitor, ReadExitQuote, SellRefused, SellReturns, Report,
        Fault, CleanupQuery, CleanupReturns, CleanupReport, CleanupFails,
        HoldElapses, vars, run
<1>2. CASE BuyReturns
  <2>1. TypeOK'
      BY <1>1, <1>2 DEF BuyReturns, TypeOK
  <2>0. /\ pc = "buyWait" /\ pc' \in {"monitor", "raised"}
        /\ bought' = orders["buy"].filled
        /\ exposed' => bought' > 0
        /\ pc' = "monitor" => bought' > 0 /\ exposed'
      BY <1>2 DEF BuyReturns
  <2>4. (Balance /\ BuySeen)'
      BY <1>1, <2>0 DEF Balance, BuySeen
  <2>5. (SellSent /\ LiquidationSent)'
      BY <1>1, <2>0 DEF SellSent, LiquidationSent
  <2>2. (Balance /\ BuySeen /\ SellSent /\ LiquidationSent)'
      BY <2>4, <2>5
  <2>3. CleanupKnows'
      BY <1>1, <1>2 DEF BuyReturns, TypeOK, Balance, SellSent, LiquidationSent,
          CleanupKnows, LateBuy
  <2> QED
      BY <2>1, <2>2, <2>3
<1>9. CASE Monitor \/ ReadExitQuote
  <2>1. /\ UNCHANGED <<entry, bought, exposed, answer, due, raced, closing>>
        /\ pc \in {"monitor", "exitQuote"}
        /\ pc' \in {"monitor", "exitQuote", "exitPosition"}
        /\ bid' \in Nat
      BY <1>9 DEF Monitor, ReadExitQuote, TypeOK
  <2> QED
      BY <1>1, <2>1 DEF TypeOK, Balance, BuySeen, SellSent, LiquidationSent,
          CleanupKnows, LateBuy
<1>3. CASE HoldElapses \/ UNCHANGED vars
  <2>1. UNCHANGED <<pc, entry, bought, exposed, answer, bid, raced, closing>>
        /\ due' \in BOOLEAN
      BY <1>3 DEF HoldElapses, vars, run, TypeOK
  <2> QED
      BY <1>1, <2>1 DEF TypeOK, Balance, BuySeen, SellSent, LiquidationSent,
          CleanupKnows, LateBuy
<1>4. CASE SellRefused \/ Fault
  <2>1. TypeOK'
      BY <1>1, <1>4 DEF SellRefused, Fault, Raise, TypeOK, PositionAnswers
  <2>2. (Balance /\ BuySeen /\ SellSent /\ LiquidationSent)'
      BY <1>1, <1>4 DEF SellRefused, Fault, Raise, Balance, BuySeen, SellSent,
          LiquidationSent
  <2>3. CleanupKnows'
      BY <1>1, <1>4 DEF SellRefused, Fault, Raise, TypeOK, Balance, BuySeen,
          SellSent, LiquidationSent, CleanupKnows, LateBuy
  <2> QED
      BY <2>1, <2>2, <2>3
<1>5. CASE SellReturns
  <2>1. TypeOK'
      BY <1>1, <1>5 DEF SellReturns, Raise, TypeOK
  <2>0. /\ pc = "sellWait" /\ pc' \in {"cleanup", "raised", "report"}
        /\ bought' = bought
        /\ exposed' = exposed \/ exposed' = FALSE
        /\ pc' = "report" => ~(orders["sell"].filled < bought)
      BY <1>5 DEF SellReturns, Raise
  <2>4. (Balance /\ BuySeen)'
      BY <1>1, <2>0 DEF Balance, BuySeen
  <2>5. pc' = "report" => orders["sell"].filled = bought
      BY <2>0 DEF SellSent, TypeOK
  <2>6. (SellSent /\ LiquidationSent)'
      BY <1>1, <2>0, <2>5 DEF SellSent, LiquidationSent
  <2>2. (Balance /\ BuySeen /\ SellSent /\ LiquidationSent)'
      BY <2>4, <2>6
  <2>3. CleanupKnows'
      BY <1>1, <1>5 DEF SellReturns, Raise, TypeOK, BuySeen, CleanupKnows, LateBuy
  <2> QED
      BY <2>1, <2>2, <2>3
<1>6. CASE Report
    BY <1>1, <1>6 DEF Report, TypeOK, Balance, BuySeen, SellSent,
        LiquidationSent, CleanupKnows, LateBuy
<1>7. CASE CleanupQuery
    BY <1>1, <1>7 DEF CleanupQuery, PositionAnswers, TypeOK, Balance, BuySeen,
        SellSent, LiquidationSent, CleanupKnows, LateBuy
<1>8. CASE CleanupReturns \/ CleanupReport \/ CleanupFails
    BY <1>1, <1>8 DEF CleanupReturns, CleanupReport, CleanupFails, TypeOK,
        Balance, BuySeen, SellSent, LiquidationSent, CleanupKnows, LateBuy
<1> QED
    BY <1>2, <1>9, <1>3, <1>4, <1>5, <1>6, <1>7, <1>8

\* The three orders are sent, each at most once.
LEMMA SendSteps ==
    ASSUME Inv, SubmitBuy \/ SubmitSell \/ CleanupLiquidate
    PROVE  Inv'
<1>0. /\ \A n \in Names : /\ orders[n].want \in Nat /\ orders[n].filled \in Nat
                          /\ orders[n].live \in BOOLEAN
                          /\ orders[n].filled <= orders[n].want
      /\ Names = {"buy", "sell", "liquidation"}
    BY OrderTypes DEF Inv, Names
<1> USE <1>0, RoundTripAssumption DEF Inv, RoundTripAssumption, TripPcs,
        CleanupPcs, EndPcs
<1>1. CASE SubmitBuy
  <2>1. PICK p \in Prices : entry' = p /\ Sent("buy", Notional \div p)
      BY <1>1 DEF SubmitBuy
  <2>2. Notional \div p \in Nat
      BY <2>1
  <2>3. /\ orders' \in [Names -> Order]
        /\ orders'["buy"].filled = 0
        /\ orders'["sell"] = orders["sell"]
        /\ orders'["liquidation"] = orders["liquidation"]
        /\ \A m \in Names : orders'[m].filled <= orders'[m].want
      BY <2>1, <2>2, SentOrder
  <2> QED
      BY <1>1, <2>1, <2>3 DEF SubmitBuy, TypeOK, Balance, BuySeen, SellSent,
          LiquidationSent, CleanupKnows, LateBuy
<1>2. CASE SubmitSell
  <2>1. Sent("sell", bought) /\ bought \in Nat
      BY <1>2 DEF SubmitSell, TypeOK
  <2>2. /\ orders' \in [Names -> Order]
        /\ orders'["sell"].want = bought /\ orders'["sell"].filled = 0
        /\ orders'["buy"] = orders["buy"]
        /\ orders'["liquidation"] = orders["liquidation"]
        /\ \A m \in Names : orders'[m].filled <= orders'[m].want
      BY <2>1, SentOrder
  <2> QED
      BY <1>2, <2>2 DEF SubmitSell, PositionAnswers, TypeOK, Balance, BuySeen,
          SellSent, LiquidationSent, CleanupKnows, LateBuy
<1>3. CASE CleanupLiquidate
  <2>1. PICK p \in Prices :
            LET bounded == LeastOf(answer, ConfigCap \div p) IN
            /\ bid' = p
            /\ Sent("liquidation", bounded)
            /\ pc' = IF bounded > 0 THEN "cleanupWait" ELSE "cleanupReport"
            /\ closing' = IF bounded < answer THEN "capped" ELSE closing
      BY <1>3 DEF CleanupLiquidate
  <2> DEFINE bounded == LeastOf(answer, ConfigCap \div p)
  <2>2. bounded \in Nat /\ bounded <= answer
    <3>1. ConfigCap \div p \in Nat /\ answer \in Nat
        BY <2>1 DEF TypeOK
    <3> QED
        BY <3>1 DEF LeastOf
  <2>3. /\ Sent("liquidation", bounded)
        /\ bid' = p
        /\ pc' = IF bounded > 0 THEN "cleanupWait" ELSE "cleanupReport"
        /\ closing' = IF bounded < answer THEN "capped" ELSE closing
      BY <2>1
  <2> HIDE DEF bounded
  <2>4. /\ orders' \in [Names -> Order]
        /\ orders'["liquidation"].want = bounded
        /\ orders'["liquidation"].filled = 0
        /\ orders'["buy"] = orders["buy"]
        /\ orders'["sell"] = orders["sell"]
        /\ \A m \in Names : orders'[m].filled <= orders'[m].want
      BY <2>2, <2>3, SentOrder
  <2>5. TypeOK'
      BY <1>3, <2>3, <2>4 DEF CleanupLiquidate, TypeOK
  <2>6. (Balance /\ BuySeen /\ SellSent /\ LiquidationSent)'
      BY <1>3, <2>3, <2>4 DEF CleanupLiquidate, TypeOK, Balance, BuySeen,
          SellSent, LiquidationSent
  <2>7. CleanupKnows'
      BY <1>3, <2>2, <2>3, <2>4 DEF CleanupLiquidate, TypeOK, CleanupKnows,
          LateBuy
  <2> QED
      BY <2>5, <2>6, <2>7
<1> QED
    BY <1>1, <1>2, <1>3

\* Orders that are cancelled, end or execute.
LEMMA ExchangeSteps ==
    ASSUME Inv, CleanupCancel \/ ExchangeStep
    PROVE  Inv'
<1>0. /\ \A n \in Names : /\ orders[n] \in Order
                          /\ orders[n].want \in Nat /\ orders[n].filled \in Nat
                          /\ orders[n].live \in BOOLEAN
                          /\ orders[n].filled <= orders[n].want
      /\ Names = {"buy", "sell", "liquidation"}
    BY OrderTypes DEF Inv, Names
<1> USE <1>0, RoundTripAssumption DEF Inv, RoundTripAssumption, TripPcs,
        CleanupPcs, EndPcs
<1>1. ASSUME orders' \in [Names -> Order],
             \A n \in Names : /\ orders'[n].want = orders[n].want
                              /\ orders'[n].filled = orders[n].filled
                              /\ orders'[n].live => orders[n].live,
             UNCHANGED <<entry, bought, exposed, answer, bid, position, due,
                         raced, closing>>,
             pc' = pc \/ (pc = "cleanup" /\ pc' = "cleanupQuery")
      PROVE  Inv'
    BY <1>1 DEF TypeOK, Balance, BuySeen, SellSent, LiquidationSent,
        CleanupKnows, LateBuy
<1>2. CASE CleanupCancel
  <2>1. PICK kept \in SUBSET Names :
            orders' = [n \in Names |->
                         IF n \in kept THEN orders[n]
                         ELSE [orders[n] EXCEPT !.live = FALSE]]
      BY <1>2 DEF CleanupCancel
  <2>2. \A n \in Names : [orders[n] EXCEPT !.live = FALSE] \in Order
      BY DEF Order
  <2>3. /\ orders' \in [Names -> Order]
        /\ \A n \in Names : /\ orders'[n].want = orders[n].want
                            /\ orders'[n].filled = orders[n].filled
                            /\ orders'[n].live => orders[n].live
      BY <2>1, <2>2 DEF Order
  <2> QED
      BY <1>1, <1>2, <2>3 DEF CleanupCancel
<1>3. ASSUME NEW n \in Names, OrderEnds(n)
      PROVE  Inv'
  <2>1. [orders[n] EXCEPT !.live = FALSE] \in Order
      BY DEF Order
  <2>2. /\ orders' \in [Names -> Order]
        /\ \A m \in Names : /\ orders'[m].want = orders[m].want
                            /\ orders'[m].filled = orders[m].filled
                            /\ orders'[m].live => orders[m].live
      BY <1>3, <2>1 DEF OrderEnds, TypeOK, Order
  <2> QED
      BY <1>1, <1>3, <2>2 DEF OrderEnds, run
<1>4. ASSUME NEW n \in Names, NEW q \in 1..(orders[n].want - orders[n].filled),
             pc \notin EndPcs, Execute(n, q)
      PROVE  Inv'
  <2>1. /\ q \in Nat /\ q > 0 /\ orders[n].live
        /\ orders[n].filled + q <= orders[n].want
        /\ UNCHANGED <<pc, entry, bought, exposed, answer, bid, due, raced,
                       closing>>
      BY <1>4 DEF Execute, run
  <2>2. /\ orders' \in [Names -> Order]
        /\ orders'[n].want = orders[n].want
        /\ orders'[n].filled = orders[n].filled + q
        /\ \A m \in Names \ {n} : orders'[m] = orders[m]
      BY <1>4, <2>1 DEF Execute, TypeOK, Order
  <2>3. \A m \in Names : orders'[m].filled <= orders'[m].want
      BY <2>1, <2>2
  <2>4. position \in Nat /\ position' \in Nat
      BY <1>4, <2>1 DEF Execute, TypeOK
  <2>5. TypeOK'
      BY <2>1, <2>2, <2>3, <2>4 DEF TypeOK
  <2>6. CASE n = "buy"
    <3>1. /\ position' = position + q
          /\ orders'["buy"].filled = orders["buy"].filled + q
          /\ orders'["sell"] = orders["sell"]
          /\ orders'["liquidation"] = orders["liquidation"]
        BY <1>4, <2>2, <2>6 DEF Execute
    <3>2. LateBuy' = LateBuy + q /\ LateBuy \in Nat
        BY <2>1, <3>1 DEF LateBuy, BuySeen, TypeOK
    <3>3. pc # "startup"
        BY <2>1, <2>6 DEF BuySeen
    <3>5. (Balance /\ BuySeen /\ SellSent /\ LiquidationSent)'
        BY <2>1, <2>4, <2>6, <3>1, <3>3 DEF Balance, BuySeen, SellSent,
            LiquidationSent, TypeOK
    <3>4. CleanupKnows'
        BY <2>1, <2>4, <3>1, <3>2 DEF CleanupKnows, TypeOK
    <3> QED
        BY <2>5, <3>5, <3>4
  <2>7. CASE n = "sell"
    <3>1. /\ position' = position - q
          /\ orders'["sell"].filled = orders["sell"].filled + q
          /\ orders'["sell"].want = orders["sell"].want
          /\ orders["sell"].live
          /\ orders["sell"].filled < orders["sell"].want
          /\ orders'["buy"] = orders["buy"]
          /\ orders'["liquidation"] = orders["liquidation"]
        BY <1>4, <2>1, <2>2, <2>7 DEF Execute
    <3>2. LateBuy' = LateBuy
        BY <2>1, <3>1 DEF LateBuy
    <3>3. (Balance /\ BuySeen /\ SellSent /\ LiquidationSent)'
        BY <1>4, <2>1, <2>4, <3>1 DEF Balance, BuySeen, SellSent,
            LiquidationSent, TypeOK
    <3>4. CleanupKnows'
        BY <1>4, <2>1, <2>4, <3>1, <3>2 DEF CleanupKnows, TypeOK, LateBuy
    <3> QED
        BY <2>5, <3>3, <3>4
  <2>8. CASE n = "liquidation"
    <3>1. /\ position' = position - q
          /\ orders'["liquidation"].filled = orders["liquidation"].filled + q
          /\ orders'["liquidation"].want = orders["liquidation"].want
          /\ orders["liquidation"].want > 0
          /\ orders'["buy"] = orders["buy"]
          /\ orders'["sell"] = orders["sell"]
        BY <1>4, <2>1, <2>2, <2>8 DEF Execute
    <3>2. LateBuy' = LateBuy
        BY <2>1, <3>1 DEF LateBuy
    <3>3. (Balance /\ BuySeen /\ SellSent /\ LiquidationSent)'
        BY <2>1, <2>4, <3>1 DEF Balance, BuySeen, SellSent,
            LiquidationSent, TypeOK
    <3>4. CleanupKnows'
        BY <1>4, <2>1, <2>4, <3>1, <3>2 DEF CleanupKnows, LiquidationSent, TypeOK,
            LateBuy
    <3> QED
        BY <2>5, <3>3, <3>4
  <2> QED
      BY <2>6, <2>7, <2>8
<1> QED
    BY <1>2, <1>3, <1>4 DEF ExchangeStep

\* Every step keeps the invariant.
LEMMA StepInv == Inv /\ [Next]_vars => Inv'
    BY QuietSteps, SendSteps, ExchangeSteps DEF Next, RunStep, Ended

\* Every reachable state satisfies the inductive invariant.
THEOREM Invariance == Spec => []Inv
    BY InitInv, StepInv, PTL DEF Spec

\* Quantities stay natural and no order fills beyond its size.
THEOREM TypeCorrect == Spec => []TypeOK
<1>1. Inv => TypeOK
    BY DEF Inv
<1> QED
    BY <1>1, Invariance, PTL

\* Only the cleanup sells BTC the account held before, and a run that ends in
\* success has sold all it saw bought.
THEOREM SellsWhatItBought == Spec => []SoldAsBought
<1>1. Inv => SoldAsBought
  <2> SUFFICES ASSUME Inv PROVE SoldAsBought
      OBVIOUS
  <2>1. /\ \A n \in Names : /\ orders[n].want \in Nat /\ orders[n].filled \in Nat
                            /\ orders[n].filled <= orders[n].want
        /\ {"buy", "sell", "liquidation"} \subseteq Names
      BY OrderTypes DEF Inv, Names
  <2> QED
      BY <2>1, RoundTripAssumption DEF Inv, TypeOK, Balance, BuySeen, SellSent,
          LiquidationSent, SoldAsBought, LateBuy, RoundTripAssumption
<1> QED
    BY <1>1, Invariance, PTL

\* What a failed run leaves behind has one of the causes it names.
THEOREM FailsClean == Spec => []CleanFailure
<1>1. Inv => CleanFailure
    BY RoundTripAssumption DEF Inv, CleanupKnows, CleanFailure, LateBuy, TypeOK,
        RoundTripAssumption
<1> QED
    BY <1>1, Invariance, PTL

\* No sell asks for more than the account holds, unless the first one was still
\* live when the cleanup asked for the position.
SendCovered ==
    \A n \in {"sell", "liquidation"} :
        Sends(n) => orders'[n].want <= position \/ raced

\* No step sends a sell that is not covered.
LEMMA StepCovered == Inv /\ [Next]_vars => SendCovered
<1> SUFFICES ASSUME Inv, [Next]_vars PROVE SendCovered
    OBVIOUS
<1>1. TypeOK /\ Names = {"buy", "sell", "liquidation"}
    BY DEF Inv, Names
<1>2. CASE SubmitSell
  <2>1. PICK held \in PositionAnswers : SellAccepted(held) /\ Sent("sell", bought)
      BY <1>2 DEF SubmitSell
  <2>2. bought <= position /\ bought \in Nat
      BY <1>1, <2>1 DEF PositionAnswers, SellAccepted, TypeOK
  <2>3. /\ orders'["sell"].want = bought
        /\ orders'["liquidation"] = orders["liquidation"]
      BY <1>1, <2>1, <2>2, SentOrder
  <2> QED
      BY <2>2, <2>3 DEF SendCovered, Sends
<1>3. CASE CleanupLiquidate
  <2>1. PICK p \in Prices : Sent("liquidation", LeastOf(answer, ConfigCap \div p))
      BY <1>3 DEF CleanupLiquidate
  <2>2. ConfigCap \div p \in Nat /\ answer \in Nat
      BY <1>1, <2>1, RoundTripAssumption DEF TypeOK, RoundTripAssumption
  <2>3. LeastOf(answer, ConfigCap \div p) \in Nat
        /\ LeastOf(answer, ConfigCap \div p) <= answer
      BY <2>2 DEF LeastOf
  <2>4. /\ orders'["liquidation"].want = LeastOf(answer, ConfigCap \div p)
        /\ orders'["sell"] = orders["sell"]
      BY <1>1, <2>1, <2>3, SentOrder
  <2>5. raced \/ answer <= position
      BY <1>3 DEF CleanupLiquidate, Inv, CleanupKnows
  <2>6. position \in Nat
      BY <1>1 DEF TypeOK
  <2> QED
      BY <2>2, <2>3, <2>4, <2>5, <2>6 DEF SendCovered, Sends
<1>4. CASE ~SubmitSell /\ ~CleanupLiquidate
  <2>1. ASSUME NEW n \in {"sell", "liquidation"}
        PROVE  orders'[n].want = orders[n].want
    <3>1. CASE SubmitBuy
      <4>1. PICK p \in Prices : Sent("buy", Notional \div p)
          BY <3>1 DEF SubmitBuy
      <4> QED
          BY <1>1, <2>1, <4>1 DEF Sent, TypeOK
    <3>2. CASE CleanupCancel
        BY <1>1, <2>1, <3>2 DEF CleanupCancel, TypeOK, Order
    <3>3. CASE ExchangeStep
      <4>1. PICK m \in Names :
                \/ \E q \in 1..(orders[m].want - orders[m].filled) : Execute(m, q)
                \/ OrderEnds(m)
          BY <3>3 DEF ExchangeStep
      <4>2. orders' = [orders EXCEPT ![m] = orders'[m]] /\ orders'[m].want = orders[m].want
          BY <1>1, <4>1 DEF Execute, OrderEnds, TypeOK, Order
      <4> QED
          BY <1>1, <2>1, <4>2 DEF TypeOK
    <3>4. CASE UNCHANGED orders
        BY <3>4
    <3> QED
        BY <1>4, <3>1, <3>2, <3>3, <3>4 DEF Next, RunStep, Ended, BuyReturns,
            Monitor, ReadExitQuote, SellRefused, SellReturns, Report, Fault,
            CleanupQuery, CleanupReturns, CleanupReport, CleanupFails,
            HoldElapses, vars, run
  <2>2. \A n \in {"sell", "liquidation"} : orders[n].want \in Nat
      BY <1>1, OrderTypes
  <2> QED
      BY <2>1, <2>2 DEF SendCovered, Sends
<1> QED
    BY <1>2, <1>3, <1>4

\* Every sell is covered by the account when it is sent.
THEOREM SellsAreCovered == Spec => SellsCovered
<1>1. SendCovered => (\A n \in {"sell", "liquidation"} :
                         Sends(n) => orders'[n].want <= position \/ raced)
    BY DEF SendCovered
<1> QED
    BY <1>1, StepCovered, Invariance, PTL DEF Spec, SellsCovered

=============================================================================
