--------------------------- MODULE TradeRun_proofs ---------------------------
(***************************************************************************)
(* Proofs about TradeRun, for every set of events, every number of slots,  *)
(* every price set and every bound on late orders: the type invariant, the *)
(* bound on managed entries, the exposure flag, the bound on the money put *)
(* into entries, no buy over BTC the run does not track, the book that     *)
(* follows the account, and the refinement of EntryBook.                   *)
(***************************************************************************)
EXTENDS TradeRun, NumberLemmas, FiniteSetTheorems, TLAPS

\* Two tracked entries never stand for the same signal.
OneEntryPerEvent ==
    \A i, j \in DOMAIN open : open[i].event = open[j].event => i = j

TrackedAreTraded == \A i \in DOMAIN open : open[i].event \in traded

\* The order being waited for is a real one, of the side the wait is for.
OrderPending ==
    /\ pc \in WaitPcs => cur \in Order /\ cur.filled <= cur.want
    /\ pc \notin WaitPcs \cup {"raised"} => cur = NoOrder
    /\ pc = "entryWait" => /\ cur.side = "BUY"
                           /\ cur.event \in Events \ traded
    /\ pc = "exitWait"  => /\ cur.id \in DOMAIN open
                           /\ cur.id \notin todo
                           /\ cur.want = open[cur.id].qty
                           /\ cur.side = "SELL"

QuoteInHand ==
    pc \in {"exits", "exitWait", "refresh", "decide", "entryWait"} =>
        quote \in Prices

ScanIdle == pc \notin {"exits", "exitWait"} => todo = {}

NothingTrackedYet == pc = "startup" => open = [i \in {} |-> NoOrder]

\* The inductive invariant.
Inv ==
    /\ TypeOK
    /\ SlotsRespected
    /\ ExposureFlagged
    /\ OneEntryPerEvent
    /\ TrackedAreTraded
    /\ OrderPending
    /\ QuoteInHand
    /\ ScanIdle
    /\ NothingTrackedYet

-----------------------------------------------------------------------------

\* There is no entry and no order at the start.
LEMMA InitInv == Init => Inv
<1> SUFFICES ASSUME Init PROVE Inv
    OBVIOUS
<1> USE DEF Init
<1>1. DOMAIN open = {}
    OBVIOUS
<1>2. TypeOK
    BY <1>1, TradeRunAssumption DEF TypeOK, NoQuote, TradeRunAssumption
<1>3. SlotsRespected
    BY <1>1, FS_EmptySet, TradeRunAssumption DEF SlotsRespected
<1>4. ExposureFlagged /\ OneEntryPerEvent /\ TrackedAreTraded
    BY <1>1 DEF ExposureFlagged, OneEntryPerEvent, TrackedAreTraded
<1>5. OrderPending /\ QuoteInHand /\ ScanIdle /\ NothingTrackedYet
    BY DEF OrderPending, QuoteInHand, ScanIdle, NothingTrackedYet, WaitPcs
<1> QED
    BY <1>2, <1>3, <1>4, <1>5 DEF Inv

-----------------------------------------------------------------------------

\* There are finitely many tracked entries.
LEMMA FiniteBook == TypeOK => /\ IsFiniteSet(DOMAIN open)
                              /\ Cardinality(DOMAIN open) \in Nat
<1> SUFFICES ASSUME TypeOK
             PROVE  IsFiniteSet(DOMAIN open) /\ Cardinality(DOMAIN open) \in Nat
    OBVIOUS
<1>1. IsFiniteSet(1..entries)
    BY FS_Interval DEF TypeOK
<1>2. IsFiniteSet(DOMAIN open)
    BY <1>1, FS_Subset DEF TypeOK
<1> QED
    BY <1>2, FS_CardinalityType

\* Steps that leave the book, its history and the current order alone.
LEMMA ControlSteps ==
    ASSUME Inv,
           \/ Refuse \/ Startup \/ LoopTop \/ ReadQuote \/ ExitsScanned
           \/ RefreshAccount \/ SkipRefresh \/ StopAtDecision \/ NoEntry
           \/ Pause \/ FinalPosition \/ Report \/ CleanupQuery
           \/ Expire \/ KillFileAppears
    PROVE  Inv'
<1> USE DEF Inv, TypeOK, world, LoopPcs, ClosePcs, CleanupPcs, EndPcs, WaitPcs
<1>1. OneEntryPerEvent' /\ TrackedAreTraded'
    BY DEF OneEntryPerEvent, TrackedAreTraded, Refuse, Startup, LoopTop,
        ReadQuote, ExitsScanned, RefreshAccount, SkipRefresh, StopAtDecision,
        NoEntry, Pause, FinalPosition, Report, CleanupQuery, Expire,
        KillFileAppears, runner
<1>2. CASE Refuse \/ Startup \/ LoopTop \/ SkipRefresh \/ NoEntry \/ Pause
           \/ Report \/ StopAtDecision
    BY <1>1, <1>2 DEF SlotsRespected, ExposureFlagged, OrderPending,
        QuoteInHand, ScanIdle, NothingTrackedYet, Refuse, Startup, LoopTop, SkipRefresh, NoEntry,
        Pause, Report, StopAtDecision
<1>3. CASE ReadQuote
    BY <1>1, <1>3, TradeRunAssumption DEF SlotsRespected, ExposureFlagged,
        OrderPending, QuoteInHand, ScanIdle, NothingTrackedYet, ReadQuote, TradeRunAssumption
<1>4. CASE ExitsScanned
    BY <1>1, <1>4 DEF SlotsRespected, ExposureFlagged, OrderPending,
        QuoteInHand, ScanIdle, NothingTrackedYet, ExitsScanned
<1>5. CASE RefreshAccount
    BY <1>1, <1>5 DEF SlotsRespected, ExposureFlagged, OrderPending,
        QuoteInHand, ScanIdle, NothingTrackedYet, RefreshAccount
<1>6. CASE FinalPosition \/ CleanupQuery
    BY <1>1, <1>6 DEF SlotsRespected, ExposureFlagged, OrderPending,
        QuoteInHand, ScanIdle, NothingTrackedYet, FinalPosition, CleanupQuery,
        PositionAnswers
<1>7. CASE Expire \/ KillFileAppears
    BY <1>1, <1>7 DEF SlotsRespected, ExposureFlagged, OrderPending,
        QuoteInHand, ScanIdle, NothingTrackedYet, Expire, KillFileAppears, runner
<1> QED
    BY <1>2, <1>3, <1>4, <1>5, <1>6, <1>7

\* Sending an order: the exit of an entry, an entry, the two liquidations.
LEMMA SubmitSteps ==
    ASSUME Inv,
           \/ \E i \in todo : SubmitExit(i) \/ ExitRefused(i)
           \/ \E e \in Events, b \in Buckets : SubmitEntry(e, b)
           \/ SubmitFlatten
           \/ CleanupLiquidate
    PROVE  Inv'
<1> USE TradeRunAssumption DEF Inv, TypeOK, world, LoopPcs, ClosePcs,
        CleanupPcs, EndPcs, WaitPcs, TradeRunAssumption
<1>1. OneEntryPerEvent' /\ TrackedAreTraded'
    BY DEF OneEntryPerEvent, TrackedAreTraded, SubmitExit, ExitRefused,
        SubmitEntry, SubmitFlatten, CleanupLiquidate
<1>2. ASSUME NEW i \in todo, SubmitExit(i)
      PROVE  Inv'
  <2>1. open[i] \in Entry /\ i \in Nat
      OBVIOUS
  <2>2. cur' \in Order /\ cur'.filled = 0 /\ cur'.id = i /\ cur'.want = open[i].qty
        /\ cur'.side = "SELL"
      BY <1>2, <2>1 DEF SubmitExit, SellOrder, Order, Entry
  <2>3. TypeOK'
      BY <1>2, <2>2 DEF SubmitExit
  <2> QED
      BY <1>1, <1>2, <2>1, <2>2, <2>3 DEF SubmitExit, SlotsRespected,
          ExposureFlagged, OrderPending, QuoteInHand, ScanIdle, NothingTrackedYet, Entry
<1>3. ASSUME NEW i \in todo, ExitRefused(i)
      PROVE  Inv'
    BY <1>1, <1>3 DEF ExitRefused, Raise, NoQuote, SlotsRespected,
        ExposureFlagged, OrderPending, QuoteInHand, ScanIdle, NothingTrackedYet
<1>4. ASSUME NEW e \in Events, NEW b \in Buckets, SubmitEntry(e, b)
      PROVE  Inv'
  <2>1. PICK notional \in MinNotional..OrderCap :
            cur' = BuyOrder(e, notional, quote)
      BY <1>4 DEF SubmitEntry
  <2>2. quote \in Nat \ {0}
      BY <1>4 DEF SubmitEntry, QuoteInHand
  <2>3. cur' \in Order /\ cur'.filled = 0 /\ cur'.side = "BUY" /\ cur'.event = e
      BY <2>1, <2>2 DEF BuyOrder, Order
  <2>4. TypeOK'
      BY <1>4, <2>3 DEF SubmitEntry
  <2>5. SlotsRespected'
      BY <1>4, FiniteBook DEF SubmitEntry, SlotsRespected, EntryAllowed
  <2> QED
      BY <1>1, <1>4, <2>3, <2>4, <2>5 DEF SubmitEntry, Order, ExposureFlagged,
          OrderPending, QuoteInHand, ScanIdle, NothingTrackedYet
<1>5. CASE SubmitFlatten
  <2>1. SellOrder(0, finalQty) \in Order /\ SellOrder(0, finalQty).filled <= finalQty
        /\ SellOrder(0, finalQty).want = finalQty
      BY DEF SellOrder, Order
  <2>2. CASE cur' = SellOrder(0, finalQty) /\ pc' = "flattenWait"
             /\ UNCHANGED <<quote, todo, lastPosition>>
      BY <1>1, <1>5, <2>1, <2>2 DEF SubmitFlatten, SlotsRespected,
          ExposureFlagged, OrderPending, QuoteInHand, ScanIdle, NothingTrackedYet
  <2>3. CASE Raise /\ UNCHANGED cur
      BY <1>1, <1>5, <2>3 DEF SubmitFlatten, Raise, NoQuote, SlotsRespected,
          ExposureFlagged, OrderPending, QuoteInHand, ScanIdle, NothingTrackedYet
  <2> QED
      BY <1>5, <2>2, <2>3 DEF SubmitFlatten
<1>6. CASE CleanupLiquidate
  <2>1. ASSUME NEW p \in Prices
        PROVE  /\ LeastOf(finalQty, ConfigCap \div p) \in Nat
               /\ SellOrder(0, LeastOf(finalQty, ConfigCap \div p)) \in Order
    <3>1. ConfigCap \div p \in Nat /\ finalQty \in Nat
        BY <2>1
    <3> QED
        BY <3>1 DEF LeastOf, SellOrder, Order
  <2> QED
      BY <1>1, <1>6, <2>1 DEF CleanupLiquidate, SlotsRespected,
          ExposureFlagged, OrderPending, QuoteInHand, ScanIdle, NothingTrackedYet, SellOrder
<1> QED
    BY <1>2, <1>3, <1>4, <1>5, <1>6

-----------------------------------------------------------------------------

\* What a wait leaves in "working" when it ends.
LEMMA WaitOverType ==
    ASSUME TypeOK, cur \in Order, WaitOver \/ LeaveWorking(0) \/ UNCHANGED working,
           cur.filled <= cur.want
    PROVE  /\ DOMAIN working' \subseteq Slots
           /\ \A s \in DOMAIN working' : working'[s] \in Stray
<1>1. Left(cur) \in Nat
    BY DEF Left, Order
<1>2. [side |-> cur.side, left |-> Left(cur)] \in Stray
    BY <1>1 DEF Stray, Order
<1>3. ASSUME NEW slot \in Slots, LeaveWorking(slot)
      PROVE  /\ DOMAIN working' \subseteq Slots
             /\ \A s \in DOMAIN working' : working'[s] \in Stray
    BY <1>2, <1>3 DEF LeaveWorking, TypeOK
<1>4. 0 \in Slots /\ 1..MaxLate \subseteq Slots
    BY TradeRunAssumption DEF Slots, TradeRunAssumption
<1> QED
    BY <1>3, <1>4 DEF WaitOver, TypeOK

\* An exit order that comes back takes its part off the entry it was for.
LEMMA ExitReturnsInv == Inv /\ ExitReturns => Inv'
<1> SUFFICES ASSUME Inv, ExitReturns PROVE Inv'
    OBVIOUS
<1> DEFINE i == cur.id
           q == cur.filled
           rest == open[i].qty - LeastOf(open[i].qty, q)
<1>1. /\ cur \in Order /\ q \in Nat /\ q <= cur.want /\ i \in DOMAIN open
      /\ cur.want = open[i].qty /\ open[i] \in Entry
    BY DEF Inv, ExitReturns, OrderPending, WaitPcs, Order, TypeOK
<1>2. rest \in Nat /\ LeastOf(open[i].qty, q) = q
    BY <1>1 DEF LeastOf, Entry
<1>3. \/ open' = open
      \/ open' = Without(open, i)
      \/ /\ rest # 0
         /\ open' = [open EXCEPT ![i].qty = rest,
                                 ![i].cash = (open[i].cash * rest) \div open[i].qty]
    BY <1>1 DEF ExitReturns, AfterExit
<1>4. /\ DOMAIN open' \subseteq DOMAIN open
      /\ \A j \in DOMAIN open' : open'[j] \in Entry /\ open'[j].event = open[j].event
  <2>1. CASE open' = open
      BY <2>1 DEF Inv, TypeOK
  <2>2. CASE open' = Without(open, i)
      BY <2>2 DEF Inv, TypeOK, Without
  <2>3. CASE /\ rest # 0
             /\ open' = [open EXCEPT ![i].qty = rest,
                                     ![i].cash = (open[i].cash * rest) \div open[i].qty]
    <3>1. (open[i].cash * rest) \div open[i].qty \in Nat
      <4>1. open[i].cash \in Nat /\ open[i].qty \in Nat \ {0} /\ rest \in Nat
          BY <1>1, <1>2 DEF Entry
      <4>2. open[i].cash * rest \in Nat
          BY <4>1
      <4> HIDE DEF rest
      <4> QED
          BY <4>1, <4>2
    <3> HIDE DEF rest
    <3>2. open'[i] \in Entry /\ open'[i].event = open[i].event
        BY <1>1, <1>2, <2>3, <3>1 DEF Entry
    <3>3. \A j \in DOMAIN open \ {i} : open'[j] = open[j]
        BY <2>3
    <3>4. DOMAIN open' = DOMAIN open
        BY <2>3
    <3> QED
        BY <3>2, <3>3, <3>4 DEF Inv, TypeOK
  <2> QED
      BY <1>3, <2>1, <2>2, <2>3
<1>5. todo' \subseteq DOMAIN open'
  <2>1. i \notin todo /\ todo' = todo
      BY DEF Inv, ExitReturns, OrderPending
  <2>2. DOMAIN open \ {i} \subseteq DOMAIN open'
      BY <1>3 DEF Without
  <2> QED
      BY <2>1, <2>2 DEF Inv, TypeOK
<1>6. TypeOK'
  <2>1. DOMAIN working' \subseteq Slots /\ \A s \in DOMAIN working' : working'[s] \in Stray
      BY <1>1, WaitOverType DEF ExitReturns, Inv
  <2>2. cur' = NoOrder /\ pc' = "exits"
      BY DEF ExitReturns
  <2> QED
      BY <1>4, <1>5, <2>1, <2>2 DEF Inv, TypeOK, ExitReturns, LoopPcs
<1>7. SlotsRespected'
  <2>1. Cardinality(DOMAIN open') <= Cardinality(DOMAIN open)
        /\ Cardinality(DOMAIN open') \in Nat /\ Cardinality(DOMAIN open) \in Nat
      BY <1>4, FiniteBook, FS_Subset, FS_CardinalityType DEF Inv
  <2> QED
      BY <2>1, TradeRunAssumption DEF Inv, SlotsRespected, ExitReturns, TradeRunAssumption
<1>8. OneEntryPerEvent' /\ TrackedAreTraded'
    BY <1>4 DEF Inv, OneEntryPerEvent, TrackedAreTraded, ExitReturns
<1>9. ExposureFlagged' /\ OrderPending' /\ QuoteInHand' /\ ScanIdle' /\ NothingTrackedYet'
    BY <1>4 DEF Inv, ExposureFlagged, OrderPending, QuoteInHand, ScanIdle,
        NothingTrackedYet, ExitReturns, WaitPcs
<1> QED
    BY <1>6, <1>7, <1>8, <1>9 DEF Inv

\* A buy that comes back becomes a tracked entry as far as it was filled.
LEMMA EntryReturnsInv == Inv /\ EntryReturns => Inv'
<1> SUFFICES ASSUME Inv, EntryReturns PROVE Inv'
    OBVIOUS
<1> DEFINE n == entries + 1
<1>1. /\ cur \in Order /\ cur.filled \in Nat /\ cur.filled <= cur.want
      /\ cur.event \in Events \ traded
    BY DEF Inv, EntryReturns, OrderPending, WaitPcs, Order
<1>2. DOMAIN working' \subseteq Slots /\ \A s \in DOMAIN working' : working'[s] \in Stray
    BY <1>1, WaitOverType DEF EntryReturns, Inv
<1>3. CASE EntryUnfilled
  <2>1. TypeOK'
      BY <1>2, <1>3 DEF Inv, TypeOK, EntryReturns, EntryUnfilled, LoopPcs
  <2>2. SlotsRespected'
      BY <1>3, FiniteBook, TradeRunAssumption DEF Inv, SlotsRespected,
          EntryReturns, EntryUnfilled, TradeRunAssumption
  <2> QED
      BY <1>3, <2>1, <2>2 DEF Inv, ExposureFlagged, OneEntryPerEvent,
          TrackedAreTraded, OrderPending, QuoteInHand, ScanIdle, NothingTrackedYet,
          EntryReturns, EntryUnfilled, WaitPcs
<1>4. CASE TrackEntry
  <2>1. /\ n \in Nat /\ n \notin DOMAIN open
        /\ DOMAIN open' = DOMAIN open \cup {n}
        /\ \A i \in DOMAIN open : open'[i] = open[i]
        /\ open'[n] = [event |-> cur.event, qty |-> cur.filled,
                       cash |-> cur.cash, price |-> quote,
                       phase |-> "young"]
      BY <1>4 DEF TrackEntry, Inv, TypeOK
  <2>2. open'[n] \in Entry /\ open'[n].event = cur.event
      BY <1>1, <1>4, <2>1 DEF TrackEntry, Entry, Order, Inv, TypeOK
  <2>3. TypeOK'
    <3>1. DOMAIN open' \subseteq 1..entries' /\ entries' \in Nat
        BY <1>4, <2>1 DEF TrackEntry, Inv, TypeOK
    <3>2. \A i \in DOMAIN open' : open'[i] \in Entry
        BY <2>1, <2>2 DEF Inv, TypeOK
    <3>3. todo' \subseteq DOMAIN open' /\ traded' \subseteq Events /\ exposed' = TRUE
        BY <1>1, <1>4, <2>1 DEF TrackEntry, EntryReturns, Inv, TypeOK
    <3> QED
        BY <1>2, <3>1, <3>2, <3>3 DEF Inv, TypeOK, EntryReturns, LoopPcs
  <2>4. SlotsRespected'
    <3>1. Cardinality(DOMAIN open') = Cardinality(DOMAIN open) + 1
          /\ Cardinality(DOMAIN open) \in Nat
        BY <2>1, FiniteBook, FS_AddElement DEF Inv
    <3> QED
        BY <3>1, TradeRunAssumption DEF Inv, SlotsRespected, EntryReturns,
            TradeRunAssumption
  <2>5. OneEntryPerEvent'
      BY <1>1, <2>1, <2>2 DEF Inv, OneEntryPerEvent, TrackedAreTraded
  <2>6. TrackedAreTraded'
      BY <1>4, <2>1, <2>2 DEF Inv, TrackedAreTraded, TrackEntry
  <2> QED
      BY <1>4, <2>3, <2>4, <2>5, <2>6 DEF Inv, ExposureFlagged, OrderPending,
          QuoteInHand, ScanIdle, NothingTrackedYet, EntryReturns, TrackEntry, WaitPcs
<1> QED
    BY <1>3, <1>4 DEF EntryReturns

\* Flattening, faults and the cleanup leave no entry that is not in the book.
LEMMA ClosingSteps ==
    ASSUME Inv,
           \/ FlattenReturns \/ Fault \/ CleanupCancel \/ CleanupReturns
           \/ CleanupReport \/ CleanupFails
    PROVE  Inv'
<1> USE DEF Inv, world
<1>1. OneEntryPerEvent' /\ TrackedAreTraded'
    BY DEF OneEntryPerEvent, TrackedAreTraded, FlattenReturns, Fault,
        CleanupCancel, CleanupReturns, CleanupReport, CleanupFails
<1>2. CASE FlattenReturns
  <2>1. cur \in Order /\ cur.filled <= cur.want
      BY <1>2 DEF FlattenReturns, OrderPending, WaitPcs
  <2>2. DOMAIN working' \subseteq Slots /\ \A s \in DOMAIN working' : working'[s] \in Stray
      BY <1>2, <2>1, WaitOverType DEF FlattenReturns
  <2>3. DOMAIN open' = {} /\ todo' = {}
      BY <1>2 DEF FlattenReturns, ScanIdle
  <2>4. TypeOK'
      BY <1>2, <2>2, <2>3 DEF FlattenReturns, TypeOK, ClosePcs
  <2>5. SlotsRespected'
      BY <1>2, <2>3, FS_EmptySet, TradeRunAssumption DEF FlattenReturns,
          SlotsRespected, TradeRunAssumption
  <2> QED
      BY <1>1, <1>2, <2>3, <2>4, <2>5 DEF FlattenReturns, ExposureFlagged,
          OrderPending, QuoteInHand, ScanIdle, NothingTrackedYet, WaitPcs
<1>3. CASE Fault
  <2>1. DOMAIN working' \subseteq Slots /\ \A s \in DOMAIN working' : working'[s] \in Stray
    <3>1. CASE cur = NoOrder
        BY <1>3, <3>1 DEF Fault, TypeOK
    <3>2. CASE cur \in Order /\ cur.filled <= cur.want
        BY <1>3, <3>2, WaitOverType DEF Fault
    <3> QED
        BY <1>3, <3>1, <3>2 DEF OrderPending, Fault, LoopPcs, ClosePcs, WaitPcs
  <2>2. TypeOK'
      BY <1>3, <2>1 DEF Fault, Raise, NoQuote, TypeOK, CleanupPcs, EndPcs
  <2>3. SlotsRespected'
      BY <1>3, FiniteBook, TradeRunAssumption DEF Fault, Raise,
          SlotsRespected, TradeRunAssumption
  <2> QED
      BY <1>1, <1>3, <2>2, <2>3 DEF Fault, Raise, ExposureFlagged,
          OrderPending, QuoteInHand, ScanIdle, NothingTrackedYet, WaitPcs
<1>4. CASE CleanupCancel
  <2>1. DOMAIN working' = DOMAIN working
        /\ \A s \in DOMAIN working' : working'[s] \in Stray
      BY <1>4 DEF CleanupCancel, TypeOK, Stray
  <2> QED
      BY <1>1, <1>4, <2>1 DEF CleanupCancel, TypeOK, SlotsRespected,
          ExposureFlagged, OrderPending, QuoteInHand, ScanIdle,
          NothingTrackedYet, WaitPcs, CleanupPcs
<1>5. CASE CleanupReturns
  <2>1. cur \in Order /\ cur.filled <= cur.want
      BY <1>5 DEF CleanupReturns, OrderPending, WaitPcs
  <2>2. DOMAIN working' \subseteq Slots /\ \A s \in DOMAIN working' : working'[s] \in Stray
      BY <1>5, <2>1, WaitOverType DEF CleanupReturns
  <2> QED
      BY <1>1, <1>5, <2>2 DEF CleanupReturns, TypeOK, SlotsRespected,
          ExposureFlagged, OrderPending, QuoteInHand, ScanIdle,
          NothingTrackedYet, WaitPcs, CleanupPcs
<1>6. CASE CleanupReport \/ CleanupFails
    BY <1>1, <1>6 DEF CleanupReport, CleanupFails, TypeOK, SlotsRespected,
        ExposureFlagged, OrderPending, QuoteInHand, ScanIdle,
        NothingTrackedYet, WaitPcs, CleanupPcs, EndPcs
<1> QED
    BY <1>2, <1>3, <1>4, <1>5, <1>6

\* The exchange and the clock.
LEMMA WorldSteps ==
    ASSUME Inv, ExchangeStep \/ WorldStep \/ UNCHANGED vars
    PROVE  Inv'
<1> USE DEF Inv, world, runner
<1>1. ASSUME NEW q \in 1..Left(cur), pc \in WaitPcs, Execute(q)
      PROVE  Inv'
  <2>1. cur \in Order /\ cur.filled + q <= cur.want /\ q \in Nat
      BY <1>1 DEF OrderPending, Left, Order
  <2>2. cur' \in Order /\ cur'.filled <= cur'.want /\ cur'.side = cur.side
        /\ cur'.event = cur.event /\ cur'.id = cur.id /\ cur'.want = cur.want
      BY <1>1, <2>1 DEF Execute, Order
  <2>3. position' \in Nat
      BY <1>1, <2>1 DEF Execute, Traded, TypeOK, Order
  <2> QED
      BY <1>1, <2>2, <2>3 DEF Execute, TypeOK, SlotsRespected,
          ExposureFlagged, OrderPending, QuoteInHand, ScanIdle,
          NothingTrackedYet, OneEntryPerEvent, TrackedAreTraded, WaitPcs
<1>2. CASE Complete
  <2>1. cur \in Order /\ cur' = [cur EXCEPT !.done = TRUE]
      BY <1>2 DEF OrderPending, Complete
  <2>2. cur' \in Order /\ cur'.filled = cur.filled /\ cur'.side = cur.side
        /\ cur'.event = cur.event /\ cur'.id = cur.id /\ cur'.want = cur.want
      BY <2>1 DEF Order
  <2> QED
      BY <1>2, <2>2 DEF Complete, TypeOK, SlotsRespected,
          ExposureFlagged, OrderPending, QuoteInHand, ScanIdle,
          NothingTrackedYet, OneEntryPerEvent, TrackedAreTraded, WaitPcs
<1>3. ASSUME NEW s \in DOMAIN working,
             \/ \E q \in 1..working[s].left : LateExecution(s, q)
             \/ LateEnd(s)
      PROVE  Inv'
  <2>1. /\ DOMAIN working' = DOMAIN working
        /\ \A t \in DOMAIN working' : working'[t] \in Stray
        /\ position' \in Nat
      BY <1>3 DEF LateExecution, LateEnd, TypeOK, Stray, Traded
  <2> QED
      BY <1>3, <2>1 DEF LateExecution, LateEnd, TypeOK, SlotsRespected,
          ExposureFlagged, OrderPending, QuoteInHand, ScanIdle,
          NothingTrackedYet, OneEntryPerEvent, TrackedAreTraded
<1>4. ASSUME NEW i \in DOMAIN open, Age(i)
      PROVE  Inv'
  <2>1. /\ DOMAIN open' = DOMAIN open
        /\ \A j \in DOMAIN open : /\ open'[j] \in Entry
                                  /\ open'[j].event = open[j].event
                                  /\ open'[j].qty = open[j].qty
      BY <1>4 DEF Age, TypeOK, Entry
  <2> QED
      BY <1>4, <2>1 DEF Age, TypeOK, SlotsRespected, ExposureFlagged,
          OrderPending, QuoteInHand, ScanIdle, NothingTrackedYet,
          OneEntryPerEvent, TrackedAreTraded, LoopPcs
<1>5. CASE UNCHANGED vars
    BY <1>5 DEF vars, TypeOK, SlotsRespected, ExposureFlagged, OrderPending,
        QuoteInHand, ScanIdle, NothingTrackedYet, OneEntryPerEvent,
        TrackedAreTraded
<1> QED
    BY <1>1, <1>2, <1>3, <1>4, <1>5, ControlSteps
    DEF ExchangeStep, WorldStep

\* Every step keeps the invariant.
LEMMA StepInv == Inv /\ [Next]_vars => Inv'
    BY ControlSteps, SubmitSteps, ExitReturnsInv, EntryReturnsInv,
       ClosingSteps, WorldSteps
    DEF Next, RunnerStep, LoopStep, CloseStep, CleanupStep, Ended

\* Every reachable state satisfies the inductive invariant.
THEOREM Invariance == Spec => []Inv
    BY InitInv, StepInv, PTL DEF Spec

\* Every variable of the runner, and every order it sends or abandons, stays
\* of its kind: no quantity goes negative, no order lands outside its slots.
THEOREM TypeCorrect == Spec => []TypeOK
<1>1. Inv => TypeOK
    BY DEF Inv
<1> QED
    BY <1>1, Invariance, PTL

\* risk.max_open_positions holds for any number of signals and late orders.
THEOREM SlotsSafe == Spec => []SlotsRespected
<1>1. Inv => SlotsRespected
    BY DEF Inv
<1> QED
    BY <1>1, Invariance, PTL

\* An exception never finds tracked entries without the cleanup flag.
THEOREM ExposureSafe == Spec => []ExposureFlagged
<1>1. Inv => ExposureFlagged
    BY DEF Inv
<1> QED
    BY <1>1, Invariance, PTL

-----------------------------------------------------------------------------
(* The money and the BTC of the book *)

\* What the tracked entries hold, and what they cost.
QtyOf(book)  == [i \in DOMAIN book |-> book[i].qty]
CashOf(book) == [i \in DOMAIN book |-> book[i].cash]

\* What the run tracks is a sum over the book, before a step and after it.
LEMMA TrackedSums ==
    /\ TrackedQty = SumFunctionOnSet(QtyOf(open), DOMAIN open)
    /\ TrackedCash = SumFunctionOnSet(CashOf(open), DOMAIN open)
    /\ TrackedQty' = SumFunctionOnSet(QtyOf(open'), DOMAIN open')
    /\ TrackedCash' = SumFunctionOnSet(CashOf(open'), DOMAIN open')
    BY DEF TrackedQty, TrackedCash, SumFunction, QtyOf, CashOf

\* Both sums are those of naturals.
LEMMA TrackedType == TypeOK => TrackedQty \in Nat /\ TrackedCash \in Nat
<1> SUFFICES ASSUME TypeOK PROVE TrackedQty \in Nat /\ TrackedCash \in Nat
    OBVIOUS
<1>1. \A i \in DOMAIN open : QtyOf(open)[i] \in Nat /\ CashOf(open)[i] \in Nat
    BY DEF TypeOK, Entry, QtyOf, CashOf
<1> QED
    BY <1>1, FiniteBook, SumNat, TrackedSums

\* Two books with the same quantities and the same money.
LEMMA SameSums ==
    ASSUME TypeOK, DOMAIN open' = DOMAIN open,
           \A i \in DOMAIN open : /\ open'[i].qty = open[i].qty
                                  /\ open'[i].cash = open[i].cash
    PROVE  TrackedQty' = TrackedQty /\ TrackedCash' = TrackedCash
<1>1. \A i \in DOMAIN open : /\ QtyOf(open')[i] = QtyOf(open)[i]
                             /\ CashOf(open')[i] = CashOf(open)[i]
    BY DEF QtyOf, CashOf
<1> QED
    BY <1>1, FiniteBook, SumAgrees, TrackedSums

\* An exit takes what it filled out of the book, and never adds money to it.
LEMMA ExitSums ==
    ASSUME Inv, ExitReturns
    PROVE  /\ TrackedQty' = TrackedQty - cur.filled
           /\ TrackedCash' <= TrackedCash
           /\ lastPosition' = MostOf(0, lastPosition - cur.filled)
<1> DEFINE i == cur.id
           q == cur.filled
           rest == open[i].qty - q
           D == DOMAIN open \ {i}
           share == (open[i].cash * rest) \div open[i].qty
<1>1. /\ q \in Nat /\ i \in DOMAIN open /\ q <= open[i].qty
      /\ open[i] \in Entry
    BY DEF Inv, ExitReturns, OrderPending, WaitPcs, Order, TypeOK
<1>2. rest \in Nat /\ LeastOf(open[i].qty, q) = q
    BY <1>1 DEF LeastOf, Entry
<1>3. lastPosition' = MostOf(0, lastPosition - q)
    BY <1>2 DEF ExitReturns
<1>4. open[i].qty \in Nat \ {0} /\ open[i].cash \in Nat
    BY <1>1 DEF Entry
<1>5. share \in Nat /\ share <= open[i].cash
  <2>1. \A c \in Nat, r \in Nat, n \in Nat \ {0} :
            r <= n => (c * r) \div n \in Nat /\ (c * r) \div n <= c
    <3>1. ASSUME NEW c \in Nat, NEW r \in Nat, NEW n \in Nat \ {0}, r <= n
          PROVE  (c * r) \div n \in Nat /\ (c * r) \div n <= c
      <4>1. c * r \in Nat /\ c * r <= c * n
          BY <3>1
      <4> DEFINE m == c * r
                 k == m \div n
      <4>2. m \in Nat /\ m <= c * n
          BY <4>1
      <4> HIDE DEF m
      <4>3. k \in Nat /\ n * k <= m
          BY <4>2
      <4>4. n * k <= n * c
          BY <4>2, <4>3
      <4> HIDE DEF k
      <4>5. k <= c
          BY <4>3, <4>4
      <4> QED
          BY <4>3, <4>5 DEF k, m
    <3> QED
        BY <3>1
  <2>2. rest <= open[i].qty
      BY <1>1, <1>4
  <2> HIDE DEF rest
  <2> QED
      BY <1>2, <1>4, <2>1, <2>2, Zenon
<1>6. /\ IsFiniteSet(DOMAIN open) /\ IsFiniteSet(D)
      /\ \A j \in DOMAIN open : /\ QtyOf(open)[j] = open[j].qty
                                /\ CashOf(open)[j] = open[j].cash
                                /\ open[j].qty \in Nat /\ open[j].cash \in Nat
    BY FiniteBook, FS_Subset DEF Inv, TypeOK, Entry, QtyOf, CashOf
<1> DEFINE restQty == SumFunctionOnSet(QtyOf(open), D)
           restCash == SumFunctionOnSet(CashOf(open), D)
<1>7. /\ TrackedQty = open[i].qty + restQty
      /\ TrackedCash = open[i].cash + restCash
      /\ restQty \in Nat /\ restCash \in Nat
  <2>1. /\ TrackedQty = QtyOf(open)[i] + restQty
        /\ TrackedCash = CashOf(open)[i] + restCash
      BY <1>1, <1>6, SumRemove, TrackedSums
  <2>2. restQty \in Nat /\ restCash \in Nat
      BY <1>6, SumNat
  <2> QED
      BY <1>1, <1>6, <2>1, <2>2
<1>8. \A f, g : (\A j \in D : f[j] = g[j])
                  => SumFunctionOnSet(f, D) = SumFunctionOnSet(g, D)
    BY <1>6, SumAgrees
<1>9. CASE q = 0
  <2>1. open' = open
      BY <1>9 DEF ExitReturns, AfterExit
  <2>2. TrackedQty' = TrackedQty /\ TrackedCash' = TrackedCash
      BY <2>1, TrackedSums
  <2>3. TrackedQty \in Nat /\ TrackedCash \in Nat
      BY TrackedType DEF Inv
  <2> QED
      BY <1>3, <1>9, <2>2, <2>3
<1>10. CASE q # 0 /\ rest = 0
  <2>1. open' = Without(open, i)
      BY <1>2, <1>10 DEF ExitReturns, AfterExit
  <2>2. DOMAIN open' = D
        /\ \A j \in D : /\ QtyOf(open')[j] = QtyOf(open)[j]
                        /\ CashOf(open')[j] = CashOf(open)[j]
      BY <2>1 DEF Without, QtyOf, CashOf
  <2>3. TrackedQty' = restQty /\ TrackedCash' = restCash
      BY <1>8, <2>2, TrackedSums
  <2> QED
      BY <1>1, <1>3, <1>4, <1>7, <1>10, <2>3
<1>11. CASE q # 0 /\ rest # 0
  <2>1. open' = [open EXCEPT ![i].qty = rest, ![i].cash = share]
      BY <1>2, <1>11 DEF ExitReturns, AfterExit
  <2> HIDE DEF rest, share
  <2>2. /\ DOMAIN open' = DOMAIN open
        /\ open'[i].qty = rest /\ open'[i].cash = share
        /\ \A j \in D : open'[j] = open[j]
      BY <1>1, <2>1 DEF Entry
  <2>3. \A j \in DOMAIN open : /\ QtyOf(open')[j] = open'[j].qty
                               /\ CashOf(open')[j] = open'[j].cash
      BY <2>2 DEF QtyOf, CashOf
  <2>4. \A j \in DOMAIN open : QtyOf(open')[j] \in Nat /\ CashOf(open')[j] \in Nat
      BY <1>2, <1>5, <1>6, <2>2, <2>3
  <2>5. /\ SumFunctionOnSet(QtyOf(open'), D) = restQty
        /\ SumFunctionOnSet(CashOf(open'), D) = restCash
    <3>1. \A j \in D : /\ QtyOf(open')[j] = QtyOf(open)[j]
                      /\ CashOf(open')[j] = CashOf(open)[j]
        BY <1>6, <2>2, <2>3
    <3> QED
        BY <1>8, <3>1
  <2>6. /\ TrackedQty' = QtyOf(open')[i] + SumFunctionOnSet(QtyOf(open'), D)
        /\ TrackedCash' = CashOf(open')[i] + SumFunctionOnSet(CashOf(open'), D)
      BY <1>1, <1>6, <2>2, <2>4, SumRemove, TrackedSums
  <2>7. TrackedQty' = rest + restQty /\ TrackedCash' = share + restCash
      BY <1>1, <2>2, <2>3, <2>5, <2>6
  <2> QED
      BY <1>1, <1>3, <1>4, <1>5, <1>7, <2>7 DEF rest
<1> QED
    BY <1>9, <1>10, <1>11

\* A tracked fill adds its quantity and its cash.
LEMMA EntrySums ==
    ASSUME Inv, pc = "entryWait", TrackEntry
    PROVE  /\ TrackedQty' = TrackedQty + cur.filled
           /\ TrackedCash' = TrackedCash + cur.cash
           /\ cur.filled \in Nat /\ cur.cash \in Nat
<1> DEFINE n == entries + 1
           D == DOMAIN open
<1>1. cur.filled \in Nat /\ cur.cash \in Nat
    BY DEF Inv, OrderPending, WaitPcs, Order
<1>2. /\ n \notin D /\ DOMAIN open' = D \cup {n}
      /\ \A i \in D : open'[i] = open[i]
      /\ open'[n].qty = cur.filled /\ open'[n].cash = cur.cash
    BY DEF TrackEntry, Inv, TypeOK
<1>3. IsFiniteSet(D)
      /\ \A j \in D : open[j].qty \in Nat /\ open[j].cash \in Nat
    BY FiniteBook DEF Inv, TypeOK, Entry
<1>4. /\ \A j \in D : /\ QtyOf(open)[j] = open[j].qty
                      /\ CashOf(open)[j] = open[j].cash
      /\ \A j \in D \cup {n} : /\ QtyOf(open')[j] = open'[j].qty
                               /\ CashOf(open')[j] = open'[j].cash
    BY <1>2 DEF QtyOf, CashOf
<1>5. \A j \in D \cup {n} : QtyOf(open')[j] \in Nat /\ CashOf(open')[j] \in Nat
    BY <1>1, <1>2, <1>3, <1>4
<1>6. /\ TrackedQty' = SumFunctionOnSet(QtyOf(open'), D) + QtyOf(open')[n]
      /\ TrackedCash' = SumFunctionOnSet(CashOf(open'), D) + CashOf(open')[n]
    BY <1>2, <1>3, <1>5, SumAdd, TrackedSums
<1>7. /\ SumFunctionOnSet(QtyOf(open'), D) = TrackedQty
      /\ SumFunctionOnSet(CashOf(open'), D) = TrackedCash
    BY <1>2, <1>3, <1>4, SumAgrees, TrackedSums
<1> QED
    BY <1>1, <1>2, <1>4, <1>6, <1>7

\* What the runner remembers of an account refresh that showed too much BTC.
UnmanagedSeen ==
    /\ lastPosition \in Nat
    /\ pc = "startup" => ~unmanaged
    /\ pc \in LoopPcs /\ unmanaged => lastPosition > TrackedQty

\* Inductive together with Inv.
MoneyInv == CapitalRespected /\ UnmanagedSeen

\* Nothing is bought at the start.
LEMMA MoneyInit == Init => MoneyInv
<1> SUFFICES ASSUME Init PROVE MoneyInv
    OBVIOUS
<1>1. DOMAIN open = {}
    BY DEF Init
<1>2. TrackedCash = 0
    BY <1>1, SumEmpty, TrackedSums
<1> QED
    BY <1>2, TradeRunAssumption DEF Init, MoneyInv, CapitalRespected, UnmanagedSeen,
        TradeRunAssumption, LoopPcs

\* Steps that keep what the tracked entries hold and cost.
KeepsBook ==
    /\ DOMAIN open' = DOMAIN open
    /\ \A i \in DOMAIN open : /\ open'[i].qty = open[i].qty
                              /\ open'[i].cash = open[i].cash

\* These steps leave the quantity and the cash of every tracked entry alone.
LEMMA KeepingSteps ==
    ASSUME Inv,
           \/ Refuse \/ Startup \/ LoopTop \/ ReadQuote \/ ExitsScanned
           \/ RefreshAccount \/ SkipRefresh \/ StopAtDecision \/ NoEntry
           \/ Pause \/ FinalPosition \/ Report \/ Fault
           \/ CleanupStep \/ CleanupFails
           \/ \E i \in todo : SubmitExit(i) \/ ExitRefused(i)
           \/ \E e \in Events, b \in Buckets : SubmitEntry(e, b)
           \/ EntryReturns /\ EntryUnfilled
           \/ SubmitFlatten \/ ExchangeStep \/ WorldStep \/ UNCHANGED vars
    PROVE  KeepsBook
<1>1. CASE WorldStep
  <2>1. CASE \E i \in DOMAIN open : Age(i)
      BY <2>1 DEF Age, KeepsBook, Inv, TypeOK, Entry
  <2> QED
      BY <1>1, <2>1 DEF WorldStep, Expire, KillFileAppears, runner, KeepsBook
<1>2. CASE ExchangeStep
  <2>1. UNCHANGED open
      BY <1>2 DEF ExchangeStep, Execute, Complete, LateExecution, LateEnd, runner
  <2> QED
      BY <2>1 DEF KeepsBook
<1>3. CASE \/ \E i \in todo : SubmitExit(i) \/ ExitRefused(i)
           \/ \E e \in Events, b \in Buckets : SubmitEntry(e, b)
           \/ EntryReturns /\ EntryUnfilled
  <2>1. UNCHANGED open
      BY <1>3 DEF SubmitExit, ExitRefused, SubmitEntry, EntryUnfilled
  <2> QED
      BY <2>1 DEF KeepsBook
<1>4. CASE \/ Refuse \/ Startup \/ LoopTop \/ ReadQuote \/ ExitsScanned
           \/ RefreshAccount \/ SkipRefresh \/ StopAtDecision \/ NoEntry
           \/ Pause \/ FinalPosition \/ Report \/ Fault
           \/ CleanupStep \/ CleanupFails
           \/ SubmitFlatten \/ UNCHANGED vars
  <2>1. UNCHANGED open
      BY <1>4 DEF Refuse, Startup, LoopTop, ReadQuote, ExitsScanned,
          RefreshAccount, SkipRefresh, StopAtDecision, NoEntry, Pause,
          FinalPosition, Report, Fault, CleanupStep, CleanupCancel,
          CleanupQuery, CleanupLiquidate, CleanupReturns, CleanupReport,
          CleanupFails, SubmitFlatten, vars, runner
  <2> QED
      BY <2>1 DEF KeepsBook
<1> QED
    BY <1>1, <1>2, <1>3, <1>4

\* FlattenReturns empties the book, and with it what it holds and costs.
LEMMA FlattenSums == FlattenReturns => TrackedQty' = 0 /\ TrackedCash' = 0
<1>1. FlattenReturns => DOMAIN open' = {}
    BY DEF FlattenReturns
<1> QED
    BY <1>1, SumEmpty, TrackedSums

\* Steps that send no buy, answer no account refresh and settle no order.
LEMMA QuietSteps ==
    ASSUME Inv, MoneyInv,
           \/ Refuse \/ Startup \/ LoopTop \/ ReadQuote \/ ExitsScanned
           \/ SkipRefresh \/ StopAtDecision \/ NoEntry
           \/ Pause \/ FinalPosition \/ Report \/ Fault
           \/ CleanupStep \/ CleanupFails
           \/ \E i \in todo : SubmitExit(i) \/ ExitRefused(i)
           \/ EntryReturns /\ EntryUnfilled
           \/ SubmitFlatten \/ ExchangeStep \/ WorldStep \/ UNCHANGED vars
    PROVE  MoneyInv'
<1>1. TrackedQty' = TrackedQty /\ TrackedCash' = TrackedCash
      /\ TrackedQty \in Nat /\ TrackedCash \in Nat
  <2>1. KeepsBook
      BY KeepingSteps
  <2> QED
      BY <2>1, SameSums, TrackedType DEF KeepsBook, Inv
<1>2. /\ pc' = "entryWait" => pc = "entryWait" /\ cur'.cash = cur.cash
      /\ unmanaged' = unmanaged
      /\ pc' = "startup" => pc = "startup"
      /\ pc' \in LoopPcs => pc \in LoopPcs \/ pc = "startup"
      /\ \/ lastPosition' = lastPosition
         \/ pc = "startup" /\ lastPosition' \in Nat
         \/ pc' \notin LoopPcs \cup {"startup"} /\ lastPosition' = 0
  <2> USE DEF LoopPcs, ClosePcs, CleanupPcs, EndPcs, WaitPcs, Raise, runner, world
  <2>1. CASE Startup
    <3>1. 0 \in Nat /\ position \in Nat
        BY DEF Inv, TypeOK
    <3> QED
        BY <2>1, <3>1 DEF Startup, PositionAnswers
  <2>2. CASE \/ Refuse \/ LoopTop \/ ReadQuote \/ ExitsScanned
             \/ SkipRefresh \/ StopAtDecision \/ NoEntry
             \/ Pause \/ FinalPosition \/ Report
      BY <2>2 DEF Refuse, LoopTop, ReadQuote, ExitsScanned, SkipRefresh,
          StopAtDecision, NoEntry, Pause, FinalPosition, Report
  <2>3. CASE Fault \/ CleanupStep \/ CleanupFails
      BY <2>3 DEF Fault, CleanupStep, CleanupCancel, CleanupQuery,
          CleanupLiquidate, CleanupReturns, CleanupReport, CleanupFails
  <2>4. CASE \/ \E i \in todo : SubmitExit(i) \/ ExitRefused(i)
             \/ EntryReturns /\ EntryUnfilled
             \/ SubmitFlatten
      BY <2>4 DEF SubmitExit, ExitRefused, EntryReturns, EntryUnfilled, SubmitFlatten
  <2>5. CASE ExchangeStep
    <3>1. CASE pc \in WaitPcs /\ \E q \in 1..Left(cur) : Execute(q)
      <4>1. cur \in Order
          BY <3>1 DEF Inv, OrderPending
      <4>2. cur'.cash = cur.cash
          BY <3>1, <4>1 DEF Execute, Order
      <4> QED
          BY <3>1, <4>2 DEF Execute
    <3>2. CASE Complete
      <4>1. cur \in Order
          BY <3>2 DEF Inv, OrderPending, Complete
      <4>2. cur'.cash = cur.cash
          BY <3>2, <4>1 DEF Complete, Order
      <4> QED
          BY <3>2, <4>2 DEF Complete
    <3>3. CASE \E s \in DOMAIN working :
                  \/ \E q \in 1..working[s].left : LateExecution(s, q)
                  \/ LateEnd(s)
        BY <3>3 DEF LateExecution, LateEnd
    <3> QED
        BY <2>5, <3>1, <3>2, <3>3 DEF ExchangeStep
  <2>6. CASE WorldStep \/ UNCHANGED vars
      BY <2>6 DEF WorldStep, Expire, KillFileAppears, Age, vars
  <2> QED
      BY <2>1, <2>2, <2>3, <2>4, <2>5, <2>6
<1>3. pc = "entryWait" => cur.cash \in Nat
    BY DEF Inv, OrderPending, WaitPcs, Order
<1>4. Capital \in Nat
    BY TradeRunAssumption DEF TradeRunAssumption
<1>5. CapitalRespected'
    BY <1>1, <1>2, <1>3, <1>4 DEF MoneyInv, CapitalRespected
<1>6. UnmanagedSeen'
    BY <1>1, <1>2 DEF MoneyInv, UnmanagedSeen
<1> QED
    BY <1>5, <1>6 DEF MoneyInv

\* A buy is only sent while the runner knows of nothing it does not track, and
\* for no more than what is left of the capital.
LEMMA SubmitEntryMoney ==
    ASSUME Inv, MoneyInv, NEW e \in Events, NEW b \in Buckets, SubmitEntry(e, b)
    PROVE  MoneyInv' /\ ~unmanaged
<1>1. TrackedQty' = TrackedQty /\ TrackedCash' = TrackedCash
      /\ TrackedQty \in Nat /\ TrackedCash \in Nat
  <2>1. KeepsBook
      BY KeepingSteps
  <2> QED
      BY <2>1, SameSums, TrackedType DEF KeepsBook, Inv
<1>2. PICK notional \in MinNotional..OrderCap :
          notional = OrderNotional(b) /\ cur' = BuyOrder(e, notional, quote)
    BY DEF SubmitEntry
<1>3. notional \in Nat \ {0} /\ Capital \in Nat /\ OrderCap \in Nat /\ b \in Nat
    BY TradeRunAssumption DEF TradeRunAssumption
<1>4. notional <= Capital - TrackedCash
    BY <1>1, <1>2, <1>3 DEF OrderNotional, Available, LeastOf, MostOf
<1>5. cur'.cash = notional
    BY <1>2 DEF BuyOrder
<1>6. CapitalRespected'
    BY <1>1, <1>3, <1>4, <1>5 DEF CapitalRespected
<1>7. lastPosition <= TrackedQty /\ lastPosition \in Nat
    BY <1>1 DEF SubmitEntry, EntryAllowed, UnmanagedPosition, MostOf, MoneyInv, UnmanagedSeen
<1>8. ~unmanaged
    BY <1>1, <1>7 DEF SubmitEntry, MoneyInv, UnmanagedSeen, LoopPcs
<1> QED
    BY <1>6, <1>7, <1>8 DEF SubmitEntry, MoneyInv, UnmanagedSeen

\* The three steps that settle an order in the book, and the account refresh.
LEMMA SettlingMoney ==
    ASSUME Inv, MoneyInv,
           \/ RefreshAccount
           \/ ExitReturns
           \/ EntryReturns /\ TrackEntry
           \/ FlattenReturns
    PROVE  MoneyInv'
<1>1. TrackedQty \in Nat /\ TrackedCash \in Nat /\ Capital \in Nat
    BY TrackedType, TradeRunAssumption DEF Inv, TradeRunAssumption
<1>2. CASE RefreshAccount
  <2>1. TrackedQty' = TrackedQty /\ TrackedCash' = TrackedCash
    <3>1. KeepsBook
        BY <1>2, KeepingSteps
    <3> QED
        BY <3>1, SameSums DEF KeepsBook, Inv
  <2>2. /\ lastPosition' \in Nat /\ unmanaged' = (lastPosition' > TrackedQty)
        /\ pc' \in {"final", "decide"} /\ pc = "refresh"
      BY <1>2 DEF RefreshAccount, PositionAnswers, Inv, TypeOK
  <2> QED
      BY <1>1, <2>1, <2>2 DEF MoneyInv, CapitalRespected, UnmanagedSeen
<1>3. CASE ExitReturns
  <2>1. /\ TrackedQty' = TrackedQty - cur.filled
        /\ TrackedCash' <= TrackedCash
        /\ lastPosition' = MostOf(0, lastPosition - cur.filled)
      BY <1>3, ExitSums
  <2>2. TrackedQty' \in Nat /\ TrackedCash' \in Nat
    <3>1. TypeOK'
        BY <1>3, ExitReturnsInv DEF Inv
    <3>2. \A i \in DOMAIN open' : open'[i].qty \in Nat /\ open'[i].cash \in Nat
        BY <3>1 DEF TypeOK, Entry
    <3>3. \A i \in DOMAIN open' : QtyOf(open')[i] \in Nat /\ CashOf(open')[i] \in Nat
        BY <3>2 DEF QtyOf, CashOf
    <3>4. IsFiniteSet(DOMAIN open')
      <4>1. DOMAIN open' \subseteq 1..entries' /\ entries' \in Nat
          BY <3>1 DEF TypeOK
      <4>2. IsFiniteSet(1..entries')
          BY <4>1, FS_Interval
      <4> QED
          BY <4>1, <4>2, FS_Subset
    <3> QED
        BY <3>3, <3>4, SumNat, TrackedSums
  <2>3. /\ pc = "exitWait" /\ pc' = "exits" /\ unmanaged' = unmanaged
        /\ cur.filled \in Nat /\ lastPosition \in Nat
      BY <1>3 DEF ExitReturns, Inv, OrderPending, WaitPcs, Order, MoneyInv,
          UnmanagedSeen
  <2>4. CapitalRespected'
    <3>1. TrackedCash + 0 <= Capital
        BY <2>3 DEF MoneyInv, CapitalRespected
    <3>2. TrackedCash' + 0 <= Capital
      <4>1. \A c, d, k \in Nat : c + 0 <= k /\ d <= c => d + 0 <= k
          OBVIOUS
      <4> QED
          BY <1>1, <2>1, <2>2, <3>1, <4>1, Zenon
    <3> QED
        BY <2>3, <3>2 DEF CapitalRespected
  <2>5. unmanaged => lastPosition > TrackedQty
      BY <2>3 DEF MoneyInv, UnmanagedSeen, LoopPcs
  <2>6. UnmanagedSeen'
      BY <1>1, <2>1, <2>2, <2>3, <2>5 DEF UnmanagedSeen, MostOf
  <2> QED
      BY <2>4, <2>6 DEF MoneyInv
<1>4. CASE EntryReturns /\ TrackEntry
  <2>1. /\ TrackedQty' = TrackedQty + cur.filled
        /\ TrackedCash' = TrackedCash + cur.cash
        /\ cur.filled \in Nat /\ cur.cash \in Nat
      BY <1>4, EntrySums DEF EntryReturns
  <2>2. /\ pc = "entryWait" /\ pc' = "pause" /\ unmanaged' = unmanaged
        /\ lastPosition' = MostOf(lastPosition, TrackedQty) + cur.filled
        /\ lastPosition \in Nat
      BY <1>4 DEF EntryReturns, TrackEntry, MoneyInv, UnmanagedSeen
  <2>3. CapitalRespected'
      BY <1>1, <2>1, <2>2 DEF MoneyInv, CapitalRespected
  <2>4. unmanaged => lastPosition > TrackedQty
      BY <2>2 DEF MoneyInv, UnmanagedSeen, LoopPcs
  <2>5. UnmanagedSeen'
      BY <1>1, <2>1, <2>2, <2>4 DEF UnmanagedSeen, MostOf
  <2> QED
      BY <2>3, <2>5 DEF MoneyInv
<1>5. CASE FlattenReturns
  <2>1. TrackedCash' = 0
      BY <1>5, FlattenSums
  <2> QED
      BY <1>1, <1>5, <2>1 DEF FlattenReturns, MoneyInv, CapitalRespected,
          UnmanagedSeen, LoopPcs
<1> QED
    BY <1>2, <1>3, <1>4, <1>5

\* Every step keeps the sums in line with the account.
LEMMA MoneyStep == Inv /\ MoneyInv /\ [Next]_vars => MoneyInv'
    BY QuietSteps, SubmitEntryMoney, SettlingMoney
    DEF Next, RunnerStep, LoopStep, CloseStep, EntryReturns, Ended

\* Inv with the money and the account added.
LEMMA MoneyInvariance == Spec => []MoneyInv
    BY MoneyInit, MoneyStep, Invariance, PTL DEF Spec

\* The money in entries and in the buy under way never exceeds --capital-usd,
\* however many entries, partial fills, partial exits and late orders there are.
THEOREM CapitalSafe == Spec => []CapitalRespected
<1>1. MoneyInv => CapitalRespected
    BY DEF MoneyInv
<1> QED
    BY <1>1, MoneyInvariance, PTL

\* A buy is sent by SubmitEntry and by no other step.
LEMMA OnlyEntriesBuy ==
    ASSUME Inv, [Next]_vars, BuySubmitted
    PROVE  \E e \in Events, b \in Buckets : SubmitEntry(e, b)
<1> USE DEF BuySubmitted
<1>1. ~(\/ \E i \in todo : SubmitExit(i) \/ ExitRefused(i)
        \/ \E i \in DOMAIN open : Age(i)
        \/ \E s \in DOMAIN working :
              \/ \E q \in 1..working[s].left : LateExecution(s, q)
              \/ LateEnd(s))
    BY DEF SubmitExit, ExitRefused, Age, LateExecution, LateEnd, runner
<1>2. ~(pc \in WaitPcs /\ \E q \in 1..Left(cur) : Execute(q)) /\ ~Complete
    BY DEF WaitPcs, Complete
<1>3. ~(\/ Refuse \/ Startup \/ LoopTop \/ ReadQuote \/ ExitReturns
        \/ ExitsScanned \/ RefreshAccount \/ SkipRefresh \/ StopAtDecision
        \/ NoEntry \/ EntryReturns \/ Pause \/ CloseStep \/ CleanupStep)
    BY DEF Refuse, Startup, LoopTop, ReadQuote, ExitReturns, ExitsScanned,
        RefreshAccount, SkipRefresh, StopAtDecision, NoEntry, EntryReturns,
        Pause, CloseStep, FinalPosition, SubmitFlatten, FlattenReturns, Report,
        CleanupStep, CleanupCancel, CleanupQuery, CleanupLiquidate,
        CleanupReturns, CleanupReport
<1>4. ~Fault /\ ~CleanupFails /\ ~Expire /\ ~KillFileAppears /\ ~Ended
      /\ ~UNCHANGED vars
    BY DEF Fault, Raise, CleanupFails, Expire, KillFileAppears, Ended, vars, runner
<1> QED
    BY <1>1, <1>2, <1>3, <1>4
    DEF Next, RunnerStep, LoopStep, ExchangeStep, WorldStep

\* No buy follows a refresh that showed BTC the run does not track, until
\* another refresh: neither exits nor fills in between hide the difference.
THEOREM UnmanagedSafe == Spec => NoBuyOverUnmanaged
<1>1. Inv /\ MoneyInv /\ [Next]_vars => [BuySubmitted => ~unmanaged]_vars
    BY OnlyEntriesBuy, SubmitEntryMoney
<1> QED
    BY <1>1, Invariance, MoneyInvariance, PTL DEF Spec, NoBuyOverUnmanaged

\* An order that outlived its wait and executes, or goes away, is a late fill.
LEMMA StraysAreLate ==
    ASSUME TypeOK, NEW s \in DOMAIN working,
           \/ \E q \in 1..working[s].left : LateExecution(s, q)
           \/ LateEnd(s)
    PROVE  LateFill
<1>1. working[s] \in Stray
    BY DEF TypeOK
<1>2. DOMAIN working' = DOMAIN working
    BY DEF LateExecution, LateEnd
<1>3. working'[s].left # working[s].left
    BY <1>1 DEF LateExecution, LateEnd, Stray
<1> QED
    BY <1>2, <1>3 DEF LateFill

\* In the loop the distance between the account and what the runner believes
\* it holds is kept by every step but a late fill.
LEMMA GapStep ==
    ASSUME Inv, [Next]_vars, pc \in LoopPcs, pc' \in LoopPcs, ~LateFill
    PROVE  position' - Believed' = position - Believed
<1>1. /\ TrackedQty \in Nat /\ position \in Nat
      /\ pc \in WaitPcs => cur \in Order /\ cur.filled \in Nat
    BY TrackedType DEF Inv, TypeOK, OrderPending, Order
<1>2. KeepsBook => TrackedQty' = TrackedQty
    BY SameSums DEF KeepsBook, Inv
<1>3. ASSUME KeepsBook, position' = position,
             pc' \notin WaitPcs, pc \notin WaitPcs
      PROVE  position' - Believed' = position - Believed
    BY <1>1, <1>2, <1>3 DEF Believed, WaitPcs
<1>4. ASSUME KeepsBook, position' = position, pc' = pc,
             pc \in WaitPcs => cur'.filled = cur.filled
      PROVE  position' - Believed' = position - Believed
    BY <1>1, <1>2, <1>4 DEF Believed, WaitPcs
<1>5. ASSUME KeepsBook, position' = position,
             pc \notin WaitPcs, cur'.filled = 0
      PROVE  position' - Believed' = position - Believed
    BY <1>1, <1>2, <1>5 DEF Believed, WaitPcs
<1>6. CASE \/ LoopTop \/ ReadQuote \/ ExitsScanned \/ RefreshAccount
           \/ SkipRefresh \/ StopAtDecision \/ NoEntry \/ Pause
  <2>1. KeepsBook
      BY <1>6, KeepingSteps
  <2>2. position' = position /\ pc' \notin WaitPcs /\ pc \notin WaitPcs
      BY <1>6 DEF LoopTop, ReadQuote, ExitsScanned, RefreshAccount,
          SkipRefresh, StopAtDecision, NoEntry, Pause, WaitPcs, LoopPcs, world
  <2> QED
      BY <1>3, <2>1, <2>2
<1>7. CASE \E i \in todo : SubmitExit(i) \/ ExitRefused(i)
  <2>1. KeepsBook
      BY <1>7, KeepingSteps
  <2>2. PICK i \in todo : SubmitExit(i)
      BY <1>7 DEF ExitRefused, Raise, LoopPcs
  <2>3. position' = position /\ pc \notin WaitPcs /\ cur'.filled = 0
      BY <2>2 DEF SubmitExit, SellOrder, WaitPcs, world
  <2> QED
      BY <1>5, <2>1, <2>3
<1>8. CASE \E e \in Events, b \in Buckets : SubmitEntry(e, b)
  <2>1. KeepsBook
      BY <1>8, KeepingSteps
  <2>2. position' = position /\ pc \notin WaitPcs /\ cur'.filled = 0
      BY <1>8 DEF SubmitEntry, BuyOrder, WaitPcs, world
  <2> QED
      BY <1>5, <2>1, <2>2
<1>9. CASE ExitReturns
  <2>1. TrackedQty' = TrackedQty - cur.filled
      BY <1>9, ExitSums
  <2>2. pc = "exitWait" /\ pc' = "exits" /\ position' = position
      BY <1>9 DEF ExitReturns
  <2>3. cur.filled \in Nat
      BY <1>1, <2>2 DEF WaitPcs
  <2> QED
      BY <1>1, <2>1, <2>2, <2>3 DEF Believed
<1>10. CASE EntryReturns
  <2>1. pc = "entryWait" /\ pc' = "pause" /\ position' = position
      BY <1>10 DEF EntryReturns
  <2>2. cur.filled \in Nat
      BY <1>1, <2>1 DEF WaitPcs
  <2>3. TrackedQty' = TrackedQty + cur.filled
    <3>1. CASE TrackEntry
        BY <2>1, <3>1, EntrySums
    <3>2. CASE EntryUnfilled
      <4>1. KeepsBook /\ cur.filled = 0
          BY <1>10, <3>2, KeepingSteps DEF EntryUnfilled
      <4> QED
          BY <1>1, <1>2, <4>1
    <3> QED
        BY <1>10, <3>1, <3>2 DEF EntryReturns
  <2> QED
      BY <1>1, <2>1, <2>2, <2>3 DEF Believed
<1>11. CASE ExchangeStep
  <2>1. KeepsBook
      BY <1>11, KeepingSteps
  <2>2. ASSUME NEW q \in 1..Left(cur), pc \in WaitPcs, Execute(q)
        PROVE  position' - Believed' = position - Believed
    <3>1. cur \in Order /\ cur.filled \in Nat /\ q \in Nat
        BY <1>1, <2>2 DEF Left, Order
    <3>2. cur'.filled = cur.filled + q /\ pc' = pc
          /\ position' = position + Traded(cur.side, q)
        BY <2>2, <3>1 DEF Execute, Order
    <3>3. CASE pc = "entryWait"
      <4>1. cur.side = "BUY"
          BY <3>3 DEF Inv, OrderPending
      <4> QED
          BY <1>1, <1>2, <2>1, <3>1, <3>2, <3>3, <4>1 DEF Believed, Traded
    <3>4. CASE pc = "exitWait"
      <4>1. cur.side = "SELL"
          BY <3>4 DEF Inv, OrderPending
      <4> QED
          BY <1>1, <1>2, <2>1, <3>1, <3>2, <3>4, <4>1 DEF Believed, Traded
    <3> QED
        BY <2>2, <3>3, <3>4 DEF WaitPcs, LoopPcs
  <2>3. CASE Complete
    <3>1. cur \in Order
        BY <1>1, <2>3 DEF Complete
    <3>2. cur'.filled = cur.filled /\ pc' = pc /\ position' = position
        BY <2>3, <3>1 DEF Complete, Order, world
    <3> QED
        BY <1>4, <2>1, <3>2
  <2>4. ASSUME NEW s \in DOMAIN working,
               \/ \E q \in 1..working[s].left : LateExecution(s, q)
               \/ LateEnd(s)
        PROVE  FALSE
      BY <2>4, StraysAreLate DEF Inv
  <2> QED
      BY <1>11, <2>2, <2>3, <2>4 DEF ExchangeStep
<1>12. CASE WorldStep \/ UNCHANGED vars
  <2>1. KeepsBook
      BY <1>12, KeepingSteps
  <2>2. position' = position /\ pc' = pc /\ cur' = cur
      BY <1>12 DEF WorldStep, Expire, KillFileAppears, Age, vars, runner, world
  <2> QED
      BY <1>4, <2>1, <2>2
<1>13. ASSUME Refuse \/ Startup \/ CloseStep \/ CleanupStep \/ Fault
              \/ CleanupFails \/ Ended
       PROVE  FALSE
    BY <1>13 DEF Refuse, Startup, CloseStep, FinalPosition, SubmitFlatten,
        FlattenReturns, Report, CleanupStep, CleanupCancel, CleanupQuery,
        CleanupLiquidate, CleanupReturns, CleanupReport, Fault, Raise,
        CleanupFails, Ended, LoopPcs, CleanupPcs, EndPcs
<1> QED
    BY <1>6, <1>7, <1>8, <1>9, <1>10, <1>11, <1>12, <1>13
    DEF Next, RunnerStep, LoopStep

\* In the loop the book and the account move together, whatever executes, in
\* how many pieces and in which order: only a late fill sets them apart.
THEOREM BookTrue == Spec => BookFollowsAccount
<1>1. Inv /\ [Next]_vars =>
        [(pc \in LoopPcs /\ pc' \in LoopPcs /\ ~LateFill) =>
            position' - Believed' = position - Believed]_vars
    BY GapStep
<1> QED
    BY <1>1, Invariance, PTL DEF Spec, BookFollowsAccount

-----------------------------------------------------------------------------
(* The refinement of EntryBook *)

\* Steps that leave the book and the phase of the run as they are.
Stutters == UNCHANGED <<RunStatus, ManagedEvents, traded>>

\* At most as many events are managed as there are tracked entries.
LEMMA ManagedSize ==
    ASSUME Inv
    PROVE  /\ IsFiniteSet(ManagedEvents)
           /\ Cardinality(ManagedEvents) \in Nat
           /\ Cardinality(ManagedEvents) <= Cardinality(DOMAIN open)
<1>1. IsFiniteSet(DOMAIN open)
    BY FiniteBook DEF Inv
<1> DEFINE f == [i \in DOMAIN open |-> open[i].event]
<1>2. f \in Surjection(DOMAIN open, ManagedEvents)
    BY DEF Surjection, ManagedEvents
<1> HIDE DEF f
<1>3. IsFiniteSet(ManagedEvents)
      /\ Cardinality(ManagedEvents) <= Cardinality(DOMAIN open)
    BY <1>1, <1>2, FS_Surjection
<1> QED
    BY <1>3, FS_CardinalityType

\* The run starts as the book of entries does.
LEMMA RefinesInit == Init => Book!Init
<1> SUFFICES ASSUME Init PROVE Book!Init
    OBVIOUS
<1>1. DOMAIN open = {}
    BY DEF Init
<1>2. ManagedEvents = {}
    BY <1>1 DEF ManagedEvents
<1>3. RunStatus = "starting" /\ traded = {}
    BY DEF Init, RunStatus, LoopPcs, ClosePcs, CleanupPcs, EndPcs
<1> QED
    BY <1>2, <1>3 DEF Book!Init

\* Steps within a phase of the run that track and forget nothing.
LEMMA RefinesStutter ==
    ASSUME Inv,
           \/ ReadQuote \/ ExitsScanned \/ SkipRefresh \/ NoEntry
           \/ \E i \in todo : SubmitExit(i)
           \/ \E e \in Events, b \in Buckets : SubmitEntry(e, b)
           \/ FinalPosition
           \/ CleanupCancel \/ CleanupQuery \/ CleanupLiquidate
           \/ CleanupReturns
           \/ ExchangeStep \/ WorldStep \/ UNCHANGED vars
    PROVE  Stutters
<1> USE DEF Stutters, RunStatus, ManagedEvents, LoopPcs, ClosePcs, CleanupPcs,
        EndPcs
<1>1. CASE ReadQuote \/ ExitsScanned \/ SkipRefresh \/ NoEntry \/ FinalPosition
    BY <1>1 DEF ReadQuote, ExitsScanned, SkipRefresh, NoEntry, FinalPosition
<1>2. CASE \E i \in todo : SubmitExit(i)
    BY <1>2 DEF SubmitExit
<1>3. CASE \E e \in Events, b \in Buckets : SubmitEntry(e, b)
    BY <1>3 DEF SubmitEntry
<1>4. CASE CleanupCancel \/ CleanupQuery \/ CleanupLiquidate \/ CleanupReturns
    BY <1>4 DEF CleanupCancel, CleanupQuery, CleanupLiquidate, CleanupReturns
<1>5. CASE ExchangeStep
  <2>1. UNCHANGED <<pc, open, traded>>
      BY <1>5 DEF ExchangeStep, Execute, Complete, LateExecution, LateEnd, runner
  <2> QED
      BY <2>1
<1>6. CASE Expire \/ KillFileAppears \/ UNCHANGED vars
    BY <1>6 DEF Expire, KillFileAppears, vars, runner
<1>7. ASSUME NEW i \in DOMAIN open, Age(i)
      PROVE  Stutters
  <2>1. DOMAIN open' = DOMAIN open
        /\ \A j \in DOMAIN open : open'[j].event = open[j].event
      BY <1>7 DEF Age, Inv, TypeOK, Entry
  <2> QED
      BY <1>7, <2>1 DEF Age
<1> QED
    BY <1>1, <1>2, <1>3, <1>4, <1>5, <1>6, <1>7 DEF WorldStep

\* An exit that sold an entry whole closes it; any other leaves the book.
LEMMA RefinesExit == Inv /\ Inv' /\ ExitReturns => Stutters \/ \E e \in Events : Book!Close(e)
<1> SUFFICES ASSUME Inv, Inv', ExitReturns
             PROVE  Stutters \/ \E e \in Events : Book!Close(e)
    OBVIOUS
<1> DEFINE i == cur.id
<1>1. /\ i \in DOMAIN open /\ open[i] \in Entry /\ open[i].event \in Events
      /\ pc = "exitWait" /\ pc' = "exits" /\ traded' = traded
    BY DEF Inv, TypeOK, OrderPending, ExitReturns, Entry
<1>2. RunStatus = "trading" /\ RunStatus' = "trading"
    BY <1>1 DEF RunStatus, LoopPcs, ClosePcs, CleanupPcs
<1>3. CASE open' = Without(open, i)
  <2>1. /\ DOMAIN open' = DOMAIN open \ {i}
        /\ \A j \in DOMAIN open' : open'[j] = open[j]
      BY <1>3 DEF Without
  <2>2. \A j \in DOMAIN open' : open[j].event # open[i].event
      BY <1>1, <2>1 DEF Inv, OneEntryPerEvent
  <2>3. ManagedEvents' = ManagedEvents \ {open[i].event}
      BY <1>1, <2>1, <2>2 DEF ManagedEvents
  <2>4. open[i].event \in ManagedEvents
      BY <1>1 DEF ManagedEvents
  <2> QED
      BY <1>1, <1>2, <2>3, <2>4 DEF Book!Close
<1>4. CASE open' # Without(open, i)
  <2>1. /\ DOMAIN open' = DOMAIN open
        /\ \A j \in DOMAIN open : open'[j].event = open[j].event
      BY <1>1, <1>4 DEF ExitReturns, AfterExit, Entry, Inv, TypeOK
  <2>2. ManagedEvents' = ManagedEvents
      BY <2>1 DEF ManagedEvents
  <2> QED
      BY <1>1, <1>2, <2>2 DEF Stutters
<1> QED
    BY <1>3, <1>4

\* The instance's Cardinality is the one of this module.
LEMMA SameCardinality == \A S : Book!Cardinality(S) = Cardinality(S)
    BY Zenon DEF Book!Cardinality, Cardinality

\* A fill that is tracked opens an entry for a signal never opened before.
LEMMA RefinesEntry == Inv /\ EntryReturns => Stutters \/ \E e \in Events : Book!Open(e)
<1> SUFFICES ASSUME Inv, EntryReturns
             PROVE  Stutters \/ \E e \in Events : Book!Open(e)
    OBVIOUS
<1>1. /\ cur.event \in Events \ traded
      /\ pc = "entryWait" /\ pc' = "pause"
    BY DEF Inv, OrderPending, EntryReturns
<1>2. RunStatus = "trading" /\ RunStatus' = "trading"
    BY <1>1 DEF RunStatus, LoopPcs, ClosePcs, CleanupPcs
<1>3. CASE EntryUnfilled
    BY <1>2, <1>3 DEF EntryUnfilled, Stutters, ManagedEvents
<1>4. CASE TrackEntry
  <2>1. /\ entries + 1 \notin DOMAIN open
        /\ DOMAIN open' = DOMAIN open \cup {entries + 1}
        /\ \A i \in DOMAIN open : open'[i] = open[i]
        /\ open'[entries + 1].event = cur.event
        /\ traded' = traded \cup {cur.event}
      BY <1>4 DEF TrackEntry, Inv, TypeOK
  <2>2. ManagedEvents' = ManagedEvents \cup {cur.event}
      BY <2>1 DEF ManagedEvents
  <2>3. Cardinality(ManagedEvents) < MaxOpen
      BY <1>1, ManagedSize, FiniteBook, TradeRunAssumption
      DEF Inv, SlotsRespected, TradeRunAssumption
  <2> QED
      BY <1>1, <1>2, <2>1, <2>2, <2>3, SameCardinality DEF Book!Open
<1> QED
    BY <1>3, <1>4 DEF EntryReturns

\* The steps that change the phase of the run.
LEMMA RefinesPhase ==
    ASSUME Inv,
           \/ Refuse \/ Startup \/ LoopTop \/ RefreshAccount \/ StopAtDecision
           \/ Pause \/ SubmitFlatten \/ FlattenReturns \/ Report \/ Fault
           \/ \E i \in todo : ExitRefused(i)
           \/ CleanupReport \/ CleanupFails
    PROVE  Book!Next \/ Stutters
<1> USE DEF Stutters, RunStatus, ManagedEvents, LoopPcs, ClosePcs, CleanupPcs,
        EndPcs
<1>1. ~exposed => ManagedEvents = {}
    BY DEF Inv, ExposureFlagged
<1>2. CASE Refuse
    BY <1>2 DEF Refuse, Book!Next, Book!Refuse
<1>3. CASE Startup
    BY <1>3 DEF Startup, Book!Next, Book!Start
<1>4. CASE LoopTop \/ RefreshAccount \/ StopAtDecision \/ Pause
    BY <1>4 DEF LoopTop, RefreshAccount, StopAtDecision, Pause, Book!Next,
        Book!Stop
<1>5. CASE Report
    BY <1>5 DEF Report, Book!Next, Book!Finish
<1>6. CASE FlattenReturns
  <2>1. ManagedEvents' = {}
    <3>1. DOMAIN open' = {}
        BY <1>6 DEF FlattenReturns
    <3> QED
        BY <3>1
  <2> QED
      BY <1>6, <2>1 DEF FlattenReturns, Book!Next, Book!Clear
<1>7. CASE CleanupReport \/ CleanupFails
    BY <1>7 DEF CleanupReport, CleanupFails, Book!Next, Book!CleanedUp
<1>8. ASSUME Raise, pc \in {"startup"} \cup LoopPcs \cup ClosePcs,
             UNCHANGED <<open, traded>>
      PROVE  Book!Next
    BY <1>1, <1>8 DEF Raise, Book!Next, Book!Abort
<1>9. CASE Fault
    BY <1>8, <1>9 DEF Fault
<1>10. CASE \E i \in todo : ExitRefused(i)
    BY <1>8, <1>10 DEF ExitRefused
<1>11. CASE SubmitFlatten
    BY <1>8, <1>11 DEF SubmitFlatten
<1> QED
    BY <1>2, <1>3, <1>4, <1>5, <1>6, <1>7, <1>9, <1>10, <1>11

\* Every step of the run is one of the book, or none.
LEMMA RefinesStep == Inv /\ Inv' /\ [Next]_vars => [Book!Next]_(Book!vars)
<1>1. Stutters => UNCHANGED Book!vars
    BY DEF Stutters, Book!vars
<1>2. (\E e \in Events : Book!Open(e) \/ Book!Close(e)) => Book!Next
    BY DEF Book!Next
<1> QED
    BY <1>1, <1>2, RefinesStutter, RefinesExit, RefinesEntry, RefinesPhase
    DEF Next, RunnerStep, LoopStep, CloseStep, CleanupStep, Ended

\* The runner implements the entry book, whatever the exchange, the clock and
\* the kill-switch file do: no signal is opened twice, no slot is overdrawn,
\* nothing is opened on the way out, no tracked entry dies without a cleanup.
THEOREM Refinement == Spec => ImplementsEntryBook
<1>1. Book!Spec <=> Book!Init /\ [][Book!Next]_(Book!vars)
    BY DEF Book!Spec
<1> QED
    BY <1>1, RefinesInit, RefinesStep, Invariance, PTL DEF Spec, ImplementsEntryBook

=============================================================================
