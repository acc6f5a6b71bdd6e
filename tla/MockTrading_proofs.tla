------------------------- MODULE MockTrading_proofs -------------------------
(***************************************************************************)
(* Paper trading, for any tokens, number of orders, desired positions,     *)
(* prices and thresholds.  The order manager in it takes only the steps    *)
(* that OrderManager allows it, so everything proved about the manager     *)
(* alone holds of it; and what it believes of an order agrees with what    *)
(* the venue has done with it.                                             *)
(***************************************************************************)
EXTENDS MockTrading, Collections_proofs

\* The order manager's proofs, for the ids and sizes of paper trading.
Ledger ==
    INSTANCE OrderManager_proofs WITH
        Orders <- OrderIds, Trades <- OrderIds, NoId <- 0,
        OrderSizes <- Nat \ {0}, Fills <- Nat, TradeSizes <- Nat \ {0}, Prices <- {Price}

LEMMA Assumptions ==
    /\ Nat \ {0} \subseteq Nat \ {0} /\ Nat \subseteq Nat /\ {Price} \subseteq Nat
    /\ FeePrice \in Nat /\ Payout \in Nat /\ Dust \in Nat /\ MaxSyncs \in Nat
    /\ NoToken \notin Tokens /\ 0 \notin OrderIds
  BY TradingAssumption DEF OrderIds

LEMMA SameInit == Manager!Init <=> Ledger!Init
  BY Zenon DEF Manager!Init, Ledger!Init, Manager!NoOrder, Ledger!NoOrder, Manager!NoTrade,
         Ledger!NoTrade, Manager!NoPosition, Ledger!NoPosition, Manager!NoTask, Ledger!NoTask

\* Both are instances of the same module: their operators are the same.
LEMMA SameCalls ==
    ASSUME NEW o \in OrderIds
    PROVE  Manager!OrderStep(o) <=> Ledger!OrderStep(o)
  BY ZenonT(60) DEF Manager!OrderStep, Ledger!OrderStep, Manager!CreateOrder,
         Ledger!CreateOrder, Manager!NewOrder, Ledger!NewOrder, Manager!NoOrder,
         Ledger!NoOrder, Manager!SubmitSuccess, Ledger!SubmitSuccess, Manager!SubmitFailed,
         Ledger!SubmitFailed, Manager!Cancel, Ledger!Cancel, Manager!CancelSuccess,
         Ledger!CancelSuccess, Manager!CancelFailed, Ledger!CancelFailed, Manager!SyncFails,
         Ledger!SyncFails, Manager!Publish, Ledger!Publish, Manager!CurrentPosition,
         Ledger!CurrentPosition, Manager!OrdersOf, Ledger!OrdersOf, Manager!Settling,
         Ledger!Settling, Manager!OnChain, Ledger!OnChain, Manager!SumOf, Ledger!SumOf,
         Manager!MapThenSumSet, Ledger!MapThenSumSet, Manager!MapThenFoldSet,
         Ledger!MapThenFoldSet, Manager!Tracked, Ledger!Tracked, Manager!IsActive,
         Ledger!IsActive, Manager!IsCanceled, Ledger!IsCanceled, Manager!ActiveStatus,
         Ledger!ActiveStatus, Manager!CanceledStatus, Ledger!CanceledStatus,
         Manager!CancelStarts, Ledger!CancelStarts, Manager!CancelRequested,
         Ledger!CancelRequested, Manager!Submitted, Ledger!Submitted,
         Manager!SyncAfterSubmit, Ledger!SyncAfterSubmit, Manager!SubmitCallEnds,
         Ledger!SubmitCallEnds, Manager!SubmitRefused, Ledger!SubmitRefused,
         Manager!CancelDone, Ledger!CancelDone, Manager!CancelCallEnds,
         Ledger!CancelCallEnds, Manager!Side, Ledger!Side, Manager!Role, Ledger!Role

LEMMA SameOrderReports ==
    ASSUME NEW e \in Manager!OrderEvents
    PROVE  /\ Manager!HandleOrderEvent(e) <=> Ledger!HandleOrderEvent(e)
           /\ Manager!SyncReturns(e) <=> Ledger!SyncReturns(e)
  BY ZenonT(60) DEF Manager!HandleOrderEvent, Ledger!HandleOrderEvent, Manager!SyncReturns,
         Ledger!SyncReturns, Manager!Reportable, Ledger!Reportable, Manager!Accepted,
         Ledger!Accepted, Manager!Larger, Ledger!Larger, Manager!Smaller, Ledger!Smaller,
         Manager!Closed, Ledger!Closed, Manager!Open, Ledger!Open, Manager!IsFull,
         Ledger!IsFull, Manager!AfterEvent, Ledger!AfterEvent, Manager!Publish,
         Ledger!Publish, Manager!CurrentPosition, Ledger!CurrentPosition, Manager!OrdersOf,
         Ledger!OrdersOf, Manager!Settling, Ledger!Settling, Manager!OnChain,
         Ledger!OnChain, Manager!SumOf, Ledger!SumOf, Manager!MapThenSumSet,
         Ledger!MapThenSumSet, Manager!MapThenFoldSet, Ledger!MapThenFoldSet,
         Manager!Tracked, Ledger!Tracked, Manager!IsActive, Ledger!IsActive,
         Manager!IsCanceled, Ledger!IsCanceled, Manager!ActiveStatus, Ledger!ActiveStatus,
         Manager!CanceledStatus, Ledger!CanceledStatus

LEMMA SameTradeReports ==
    ASSUME NEW e \in Manager!TradeEvents
    PROVE  Manager!HandleTradeEvent(e) <=> Ledger!HandleTradeEvent(e)
  BY ZenonT(60) DEF Manager!HandleTradeEvent, Ledger!HandleTradeEvent, Manager!Accepted,
         Ledger!Accepted, Manager!Repeats, Ledger!Repeats, Manager!TradeStatus,
         Ledger!TradeStatus, Manager!BecomesSuccess, Ledger!BecomesSuccess,
         Manager!FeeAmount, Ledger!FeeAmount, Manager!CashAmount, Ledger!CashAmount,
         Manager!CostOf, Ledger!CostOf, Manager!ApplyConfirmedTrade,
         Ledger!ApplyConfirmedTrade, Manager!ClearDust, Ledger!ClearDust, Manager!Residue,
         Ledger!Residue, Manager!Publish, Ledger!Publish, Manager!CurrentPosition,
         Ledger!CurrentPosition, Manager!OrdersOf, Ledger!OrdersOf, Manager!Settling,
         Ledger!Settling, Manager!OnChain, Ledger!OnChain, Manager!SumOf, Ledger!SumOf,
         Manager!MapThenSumSet, Ledger!MapThenSumSet, Manager!MapThenFoldSet,
         Ledger!MapThenFoldSet, Manager!Tracked, Ledger!Tracked, Manager!IsActive,
         Ledger!IsActive, Manager!IsCanceled, Ledger!IsCanceled, Manager!ActiveStatus,
         Ledger!ActiveStatus, Manager!CanceledStatus, Ledger!CanceledStatus

LEMMA SameSettlement ==
    ASSUME NEW winner \in Tokens
    PROVE  Manager!SettleMarket(winner) <=> Ledger!SettleMarket(winner)
  BY ZenonT(120) DEF Manager!SettleMarket, Ledger!SettleMarket, Manager!SettlingShares,
         Ledger!SettlingShares, Manager!PayoutPrice, Ledger!PayoutPrice,
         Manager!SettledPosition, Ledger!SettledPosition, Manager!CostOf, Ledger!CostOf,
         Manager!ClearDust, Ledger!ClearDust, Manager!Residue, Ledger!Residue,
         Manager!Publish, Ledger!Publish, Manager!CurrentPosition, Ledger!CurrentPosition,
         Manager!OrdersOf, Ledger!OrdersOf, Manager!Settling, Ledger!Settling,
         Manager!OnChain, Ledger!OnChain, Manager!SumOf, Ledger!SumOf,
         Manager!MapThenSumSet, Ledger!MapThenSumSet, Manager!MapThenFoldSet,
         Ledger!MapThenFoldSet, Manager!Tracked, Ledger!Tracked, Manager!IsActive,
         Ledger!IsActive, Manager!IsCanceled, Ledger!IsCanceled, Manager!ActiveStatus,
         Ledger!ActiveStatus, Manager!CanceledStatus, Ledger!CanceledStatus

LEMMA SameEvents ==
    Manager!OrderEvents = Ledger!OrderEvents /\ Manager!TradeEvents = Ledger!TradeEvents
  BY Zenon DEF Manager!OrderEvents, Ledger!OrderEvents, Manager!TradeEvents,
         Ledger!TradeEvents, Manager!Role, Ledger!Role

LEMMA SameNext == Manager!Next <=> Ledger!Next
  BY SameCalls, SameOrderReports, SameTradeReports, SameSettlement, SameEvents, Zenon
     DEF Manager!Next, Ledger!Next

-----------------------------------------------------------------------------
(* The inductive invariant.                                                *)

Final == {"MATCHED", "CANCELED"}

CallTypes ==
    /\ creating # NoCreate =>
         /\ creating = <<creating[1]>>
         /\ creating[1] \in [token : Tokens, side : Manager!Side, shares : Nat \ {0},
                             role : Manager!Role]
    /\ replies \in [OrderIds -> [cancel : {"none", "ok", "matched"},
                                 reads : Seq({"LIVE", "MATCHED", "CANCELED"})]]

VenueTypes ==
    /\ fills \in Seq([order : OrderIds, status : {"MATCHED", "MINED"}])
    /\ store \in [OrderIds -> [status : Venue!OrderStatus, role : Manager!Role,
                               token : Tokens \cup {NoToken}]]
    /\ book \in Seq(OrderIds) /\ scan \in Seq(OrderIds)
    /\ sent \in [OrderIds -> Seq(Venue!Events)]
    /\ aged \subseteq OrderIds /\ ripe \in 0..Len(fills)
    /\ loop \in {"idle", "quote", "poll", "drain"}

\* An order's record r and tasks t at the manager, and the reply a its threads
\* hold, against its status v at the venue.
OrderAgrees(r, t, a, v) ==
    /\ r.status # "SUB_FAILED"
    /\ r.status # "UNTRACKED" => r.shares > 0
    /\ r.status = "UNTRACKED" => v = "NEW"
    /\ v = "NEW" => r.status \in {"UNTRACKED", "SUBMITTING"} /\ t.sync = 0
    /\ r.matched \in {0, r.shares}
    /\ r.matched > 0 => v = "MATCHED"
    /\ Manager!IsCanceled(r) => v = "CANCELED"
    /\ a.cancel = "ok" => v = "CANCELED"
    /\ \A n \in 1..Len(a.reads) : a.reads[n] \in Final => v = a.reads[n]

OrdersAgree == \A o \in OrderIds : OrderAgrees(orders[o], tasks[o], replies[o], store[o].status)

\* A report on an order tells its status at the venue, which is final.
TrueReports == {e \in Venue!Events : e.kind = "order" => store[e.order].status = e.status}

\* The reports on their way, the manager's two queues sorted by kind.
ReportsAgree ==
    /\ events \in Seq(TrueReports) /\ outbox \in Seq(TrueReports)
    /\ orderQueue \in Seq({e \in TrueReports : e.kind = "order"})
    /\ tradeQueue \in Seq({e \in Venue!Events : e.kind = "trade"})

\* An order that may still trade.
IsOpen(o, k) ==
    Manager!Tracked(o) /\ orders[o].token = k /\ store[o].status \in {"NEW", "LIVE"}

\* While a create call is under way, an id is left for it, and no order of its
\* token is open.
CreatingAgrees ==
    creating # NoCreate =>
        Unused # {} /\ \A o \in OrderIds : ~IsOpen(o, creating[1].token)

OneOpen == \A k \in Tokens : \A o, p \in OrderIds : IsOpen(o, k) /\ IsOpen(p, k) => o = p

Agreement == OrdersAgree /\ ReportsAgree /\ CreatingAgrees /\ OneOpen

Inv == Ledger!TypeInv /\ CallTypes /\ VenueTypes /\ Agreement

-----------------------------------------------------------------------------
(* What the manager's invariant says of the records, in its own terms.     *)

LEMMA ManagerFacts ==
    ASSUME Ledger!TypeInv
    PROVE  /\ orders \in [OrderIds -> Manager!OrderRecord]
           /\ tasks \in [OrderIds -> Manager!TaskRecord]
           /\ trades \in [OrderIds -> Manager!TradeRecord]
           /\ settled \in BOOLEAN
           /\ \A o \in OrderIds :
                LET r == orders[o] IN
                /\ r.matched + r.pending + r.invalid <= r.shares
                /\ r.status = "UNTRACKED" => tasks[o] = Manager!NoTask
                /\ r.status = "SUBMITTING" => r.matched = 0 /\ tasks[o].submit = 1
                                              /\ tasks[o].cancel = 0
                /\ Manager!IsCanceled(r) \/ r.status = "SUB_FAILED" => r.pending = 0
                /\ r.status = "FULL_MATCHED" => r.matched > 0
                /\ tasks[o].submit \in {0, 1}
                /\ r.token \in Tokens <=> Manager!Tracked(o)
<1>1. /\ Ledger!IInv /\ Ledger!TrackingInv
  BY DEF Ledger!TypeInv, Ledger!LedgerInv
<1>2. /\ orders \in [OrderIds -> Manager!OrderRecord]
      /\ tasks \in [OrderIds -> Manager!TaskRecord]
      /\ trades \in [OrderIds -> Manager!TradeRecord]
      /\ settled \in BOOLEAN
  BY <1>1 DEF Ledger!IInv, Manager!OrderRecord, Ledger!OrderRecord, Manager!TaskRecord,
              Ledger!TaskRecord, Manager!TradeRecord, Ledger!TradeRecord, Manager!OrderStatus,
              Ledger!OrderStatus, Manager!ActiveStatus, Ledger!ActiveStatus,
              Manager!CanceledStatus, Ledger!CanceledStatus, Manager!Side, Ledger!Side,
              Manager!Role, Ledger!Role
<1>3. ASSUME NEW o \in OrderIds
      PROVE  LET r == orders[o] IN
             /\ r.matched + r.pending + r.invalid <= r.shares
             /\ r.status = "UNTRACKED" => tasks[o] = Manager!NoTask
             /\ r.status = "SUBMITTING" => r.matched = 0 /\ tasks[o].submit = 1
                                           /\ tasks[o].cancel = 0
             /\ Manager!IsCanceled(r) \/ r.status = "SUB_FAILED" => r.pending = 0
             /\ r.status = "FULL_MATCHED" => r.matched > 0
             /\ tasks[o].submit \in {0, 1}
  <2>1. Ledger!OrderInv(orders[o], tasks[o])
    BY <1>1 DEF Ledger!IInv
  <2>. QED
    BY <2>1 DEF Ledger!OrderInv, Manager!NoTask, Ledger!NoTask, Manager!IsCanceled,
                Ledger!IsCanceled, Manager!CanceledStatus, Ledger!CanceledStatus
<1>4. \A o \in OrderIds : orders[o].token \in Tokens <=> Manager!Tracked(o)
  BY <1>1 DEF Ledger!TrackingInv, Manager!Tracked, Ledger!Tracked
<1>. QED
  BY <1>2, <1>3, <1>4

-----------------------------------------------------------------------------
(* What a step of paper trading is to the venue's record of an order.      *)

StoreMoves(o) ==
    \/ store'[o].status = store[o].status
    \/ store[o].status = "NEW" /\ store'[o].status = "LIVE" /\ tasks[o].submit = 1
    \/ store[o].status = "LIVE" /\ store'[o].status \in Final

LEMMA StoreStep ==
    ASSUME VenueTypes, [Next]_vars
    PROVE  \A o \in OrderIds : StoreMoves(o)
<1>. SUFFICES ASSUME NEW o \in OrderIds
              PROVE  StoreMoves(o)
  OBVIOUS
<1>1. CASE UNCHANGED store
  BY <1>1 DEF StoreMoves
<1>2. ASSUME NEW p \in OrderIds, ThreadSubmits(p)
      PROVE  StoreMoves(o)
  BY <1>2 DEF ThreadSubmits, Venue!Submit, StoreMoves, VenueTypes
<1>3. ASSUME NEW p \in OrderIds, ThreadCancels(p)
      PROVE  StoreMoves(o)
  BY <1>3 DEF ThreadCancels, Venue!CancelStore, StoreMoves, VenueTypes, Final
<1>4. CASE Venue!FillNext
  BY <1>4 DEF Venue!FillNext, Venue!MarkMatched, Venue!Fillable, StoreMoves, VenueTypes, Final
<1>5. ASSUME [Next]_vars
      PROVE  \/ UNCHANGED store
             \/ \E p \in OrderIds : ThreadSubmits(p) \/ ThreadCancels(p)
             \/ Venue!FillNext
  BY <1>5, Zenon DEF Next, vars, venueVars, StartOrder, ReplaceOrder, CreateReturns, Settle, SubmitReturns,
       CancelReturns, ThreadReads, ReadReturns, Publish, Venue!Yield, MarketOrderLoop,
       MarketTradeLoop, VenueMoves, Venue!StartQuote, Venue!StartPoll, Venue!StreamStep,
       Venue!EndQuote, Venue!PromoteMined, Venue!DrainEvents, Venue!Ripen, Venue!Age
<1>. QED
  BY <1>1, <1>2, <1>3, <1>4, <1>5

-----------------------------------------------------------------------------
(* What a step of paper trading is to the order manager: one of its own.   *)

LEMMA LeastId ==
    ASSUME NEW S, S \subseteq OrderIds, S # {}
    PROVE  (CHOOSE o \in S : \A p \in S : o <= p) \in S
<1>1. S \subseteq Nat
  BY TradingAssumption DEF OrderIds
<1>2. \E o \in S : \A p \in S : o <= p
  BY <1>1, LeastNat
<1>. QED
  BY <1>2, Zenon

LEMMA ActiveOrderIn ==
    ASSUME NEW k, ActiveOrders(k) # {}
    PROVE  ActiveOrder(k) \in ActiveOrders(k) /\ ActiveOrder(k) \in OrderIds
<1>1. ActiveOrders(k) \subseteq OrderIds
  BY DEF ActiveOrders
<1>. QED
  BY <1>1, LeastId DEF ActiveOrder

LEMMA ReportIsEvent ==
    ASSUME Ledger!TypeInv, NEW o \in OrderIds, Manager!Tracked(o), NEW status
    PROVE  Report(o, status) \in Manager!OrderEvents
<1>1. orders[o].token \in Tokens /\ orders[o].shares \in Nat
  BY ManagerFacts DEF Manager!OrderRecord
<1>. QED
  BY <1>1 DEF Report, Manager!OrderEvents

\* What a report says of an order whose size is known.
LEMMA ReportSays ==
    ASSUME NEW o \in OrderIds, orders[o].shares \in Nat, NEW status \in {"LIVE", "MATCHED", "CANCELED"},
           NEW v, status \in Final => v = status
    PROVE  LET e == Report(o, status) IN
           /\ e.active \in BOOLEAN /\ e.matched \in {0, orders[o].shares}
           /\ ~e.active => v = "CANCELED" /\ e.matched = 0
           /\ e.matched > 0 => v = "MATCHED"
<1>. DEFINE e == Report(o, status)
<1>1. e.active = (status # "CANCELED")
  BY DEF Report
<1>2. e.matched = IF status = "MATCHED" THEN orders[o].shares ELSE 0
  BY DEF Report
<1>. HIDE DEF e
<1>3. e.active \in BOOLEAN
  BY DEF e, Report
<1>4. e.matched \in {0, orders[o].shares} /\ (e.matched > 0 => v = "MATCHED")
  BY <1>2 DEF Final
<1>5. ~e.active => v = "CANCELED" /\ e.matched = 0
  <2>1. CASE status = "CANCELED"
    BY <1>2, <2>1 DEF Final
  <2>2. CASE status # "CANCELED"
    BY <1>1, <2>2, Zenon
  <2>. QED
    BY <2>1, <2>2
<1>. QED
  BY <1>3, <1>4, <1>5, Zenon DEF e

LEMMA ReportHeads ==
    ASSUME Agreement
    PROVE  /\ orderQueue # <<>> => Head(orderQueue) \in {e \in TrueReports : e.kind = "order"}
           /\ tradeQueue # <<>> => Head(tradeQueue) \in {e \in Venue!Events : e.kind = "trade"}
           /\ outbox # <<>> => Head(outbox) \in TrueReports
<1>. DEFINE R == {e \in TrueReports : e.kind = "order"}
            T == {e \in Venue!Events : e.kind = "trade"}
<1>1. orderQueue \in Seq(R) /\ tradeQueue \in Seq(T) /\ outbox \in Seq(TrueReports)
  BY DEF Agreement, ReportsAgree
<1>. SUFFICES /\ orderQueue # <<>> => Head(orderQueue) \in R
              /\ tradeQueue # <<>> => Head(tradeQueue) \in T
              /\ outbox # <<>> => Head(outbox) \in TrueReports
  OBVIOUS
<1>. HIDE DEF R, T
<1>. QED
  BY <1>1

LEMMA ManagerStep ==
    ASSUME Inv, [Next]_vars
    PROVE  Manager!Next \/ UNCHANGED managerVars
<1>1. Ledger!TypeInv /\ CallTypes /\ Agreement
  BY DEF Inv
<1>2. ASSUME NEW k \in Tokens, NEW desired, NEW stale, ReplaceOrder(k, desired, stale)
      PROVE  Manager!Next
  <2>1. ActiveOrder(k) \in OrderIds /\ Manager!Cancel(ActiveOrder(k))
    BY <1>2, ActiveOrderIn DEF ReplaceOrder
  <2>. QED
    BY <2>1 DEF Manager!Next, Manager!OrderStep
<1>3. CASE CreateReturns
  <2>. DEFINE o == CHOOSE i \in Unused : \A j \in Unused : i <= j
              c == creating[1]
  <2>1. creating # NoCreate /\ Manager!CreateOrder(o, c.token, c.side, c.role, c.shares)
    BY <1>3 DEF CreateReturns
  <2>2. Unused # {} /\ Unused \subseteq OrderIds
    BY <1>1, <2>1 DEF Agreement, CreatingAgrees, Unused
  <2>3. o \in OrderIds
    <3>. HIDE DEF o
    <3>1. o \in Unused
      BY <2>2, LeastId DEF o
    <3>. QED
      BY <2>2, <3>1
  <2>4. c.token \in Tokens /\ c.side \in Manager!Side /\ c.role \in Manager!Role /\ c.shares \in Nat \ {0}
    BY <1>1, <2>1 DEF CallTypes
  <2>. HIDE DEF o, c
  <2>. QED
    BY <2>1, <2>3, <2>4 DEF Manager!Next, Manager!OrderStep
<1>4. ASSUME NEW winner \in Winners, Settle(winner)
      PROVE  Manager!Next
  BY <1>4, TradingAssumption DEF Settle, Manager!Next
<1>5. ASSUME NEW o \in OrderIds, SubmitReturns(o) \/ CancelReturns(o)
      PROVE  Manager!Next
  BY <1>5 DEF SubmitReturns, CancelReturns, Manager!Next, Manager!OrderStep
<1>6. ASSUME NEW o \in OrderIds, ReadReturns(o)
      PROVE  Manager!Next
  <2>1. PICK n \in DOMAIN replies[o].reads : Manager!SyncReturns(Report(o, replies[o].reads[n]))
    BY <1>6 DEF ReadReturns
  <2>2. tasks[o].sync > 0
    BY <2>1 DEF Manager!SyncReturns, Report
  <2>3. Manager!Tracked(o)
    BY <1>1, <2>2, ManagerFacts DEF Manager!NoTask, Manager!Tracked
  <2>. QED
    BY <1>1, <2>1, <2>3, ReportIsEvent DEF Manager!Next
<1>7. CASE MarketOrderLoop
  <2>. DEFINE e == Head(orderQueue)
  <2>1. orderQueue # <<>> /\ Manager!HandleOrderEvent(Report(e.order, e.status))
    BY <1>7 DEF MarketOrderLoop
  <2>2. e.order \in OrderIds
    <3>1. e \in {x \in TrueReports : x.kind = "order"}
      BY <1>1, <2>1, ReportHeads
    <3>. QED
      BY <3>1 DEF TrueReports, Venue!Events
  <2>. HIDE DEF e
  <2>3. Manager!Tracked(e.order)
    BY <2>1 DEF Manager!HandleOrderEvent, Manager!Accepted, Report
  <2>. QED
    BY <1>1, <2>1, <2>2, <2>3, ReportIsEvent DEF Manager!Next
<1>8. CASE MarketTradeLoop
  <2>. DEFINE h == Head(tradeQueue)
              o == h.order
              e == [order |-> o, token |-> orders[o].token, trade |-> o,
                    shares |-> orders[o].shares, price |-> Price, role |-> orders[o].role,
                    status |-> h.status]
  <2>1. tradeQueue # <<>> /\ Manager!HandleTradeEvent(e)
    BY <1>8 DEF MarketTradeLoop
  <2>2. h \in Venue!Events /\ h.kind = "trade"
    BY <1>1, <2>1, ReportHeads
  <2>3. o \in OrderIds /\ h.status \in {"MATCHED", "MINED"}
    BY <2>2 DEF Venue!Events
  <2>4. Manager!Tracked(o)
    BY <2>1 DEF Manager!HandleTradeEvent, Manager!Accepted
  <2>5. /\ orders[o].token \in Tokens /\ orders[o].shares \in Nat \ {0}
        /\ orders[o].role \in Manager!Role
    BY <1>1, <2>3, <2>4, ManagerFacts
    DEF Manager!OrderRecord, Agreement, OrdersAgree, OrderAgrees, Manager!Tracked
  <2>6. e \in Manager!TradeEvents
    <3>. HIDE DEF o, h
    <3>. QED
      BY <2>3, <2>5 DEF Manager!TradeEvents
  <2>. HIDE DEF e
  <2>. QED
    BY <2>1, <2>6 DEF Manager!Next
<1>. QED
  BY <1>2, <1>3, <1>4, <1>5, <1>6, <1>7, <1>8, Zenon
  DEF Next, vars, StartOrder, ThreadSubmits, ThreadCancels, ThreadReads, Publish, VenueMoves

LEMMA LedgerStep ==
    ASSUME Inv, [Next]_vars
    PROVE  Ledger!TypeInv'
<1>1. Ledger!Next \/ UNCHANGED Ledger!vars
  BY ManagerStep, SameNext DEF managerVars, Ledger!vars
<1>2. Ledger!TypeInv
  BY DEF Inv
<1>. QED
  BY <1>1, <1>2, Assumptions, Ledger!StepTypes

-----------------------------------------------------------------------------
(* The manager and the venue go on agreeing about every order.             *)

\* A report that is true of an order leaves a record that is true of it.
LEMMA AfterEventAgrees ==
    ASSUME NEW r \in Manager!OrderRecord, NEW t, NEW u, NEW a, NEW b, NEW v, NEW e,
           OrderAgrees(r, t, a, v), r.status # "UNTRACKED", v # "NEW",
           e.active \in BOOLEAN, e.matched \in {0, r.shares},
           ~e.active => v = "CANCELED" /\ e.matched = 0,
           e.matched > 0 => v = "MATCHED",
           b.cancel = a.cancel \/ b.cancel = "none",
           \A n \in 1..Len(b.reads) : b.reads[n] \in Final => v = b.reads[n]
    PROVE  OrderAgrees(Manager!AfterEvent(r, e), u, b, v)
<1>. DEFINE m == Manager!Larger(r.matched, e.matched)
            s == Manager!AfterEvent(r, e)
<1>. SUFFICES OrderAgrees(s, u, b, v)
  OBVIOUS
<1>1. r.shares \in Nat /\ r.shares > 0 /\ r.matched \in {0, r.shares}
  BY DEF Manager!OrderRecord, OrderAgrees
<1>2. m \in {0, r.shares} /\ (m > 0 => v = "MATCHED")
  BY <1>1 DEF Manager!Larger, OrderAgrees
<1>5. b.cancel = "ok" => v = "CANCELED"
  BY DEF OrderAgrees
<1>. HIDE DEF m
<1>3. CASE ~e.active \/ Manager!IsCanceled(r)
  <2>1. s = Manager!Closed(r, e)
    BY <1>3 DEF Manager!AfterEvent
  <2>2. s.matched = m /\ s.shares = r.shares /\ s.status \in Manager!CanceledStatus
    BY <2>1 DEF Manager!Closed, m, Manager!OrderRecord, Manager!CanceledStatus
  <2>3. v = "CANCELED"
    BY <1>3 DEF OrderAgrees
  <2>. HIDE DEF s
  <2>4. s.status \notin {"SUB_FAILED", "UNTRACKED"} /\ s.shares > 0
    BY <1>1, <2>2 DEF Manager!CanceledStatus
  <2>5. s.matched \in {0, s.shares} /\ (s.matched > 0 => v = "MATCHED")
    BY <1>2, <2>2
  <2>. QED
    BY <1>5, <2>3, <2>4, <2>5, Zenon DEF OrderAgrees
<1>4. CASE e.active /\ ~Manager!IsCanceled(r)
  <2>1. s = Manager!Open(r, e)
    BY <1>4 DEF Manager!AfterEvent
  <2>2. /\ s.matched = m /\ s.shares = r.shares
        /\ s.status \in {"ZERO_MATCHED", "PART_MATCHED", "FULL_MATCHED"}
    BY <2>1 DEF Manager!Open, m, Manager!OrderRecord
  <2>. HIDE DEF s
  <2>3. s.status \notin {"SUB_FAILED", "UNTRACKED"} /\ s.shares > 0 /\ ~Manager!IsCanceled(s)
    BY <1>1, <2>2 DEF Manager!IsCanceled, Manager!CanceledStatus
  <2>4. s.matched \in {0, s.shares} /\ (s.matched > 0 => v = "MATCHED")
    BY <1>2, <2>2
  <2>. QED
    BY <1>5, <2>3, <2>4, Zenon DEF OrderAgrees
<1>. QED
  BY <1>3, <1>4

\* The venue may move on from an order that was sent to it, and a thread may
\* bring a reply back.
LEMMA VenueMovesOn ==
    ASSUME NEW o \in OrderIds, Ledger!TypeInv,
           OrderAgrees(orders[o], tasks[o], replies[o], store[o].status),
           StoreMoves(o), UNCHANGED <<orders, tasks>>,
           replies'[o].cancel = "ok" /\ replies[o].cancel # "ok" =>
               store'[o].status = "CANCELED",
           \A n \in 1..Len(replies'[o].reads) :
               replies'[o].reads[n] \in Final => store'[o].status = replies'[o].reads[n]
    PROVE  OrderAgrees(orders[o], tasks[o], replies[o], store[o].status)'
<1>1. tasks[o].submit = 1 => orders[o].status # "UNTRACKED"
  BY ManagerFacts DEF Manager!NoTask
<1>2. /\ orders[o].status = "UNTRACKED" => store'[o].status = "NEW"
      /\ store'[o].status = "NEW" => store[o].status = "NEW"
      /\ store[o].status \in Final => store'[o].status = store[o].status
  BY <1>1 DEF StoreMoves, OrderAgrees, Final
<1>3. orders[o].matched > 0 => store'[o].status = "MATCHED"
  BY <1>2 DEF OrderAgrees, Final
<1>4. Manager!IsCanceled(orders[o]) => store'[o].status = "CANCELED"
  BY <1>2 DEF OrderAgrees, Final
<1>5. replies'[o].cancel = "ok" => store'[o].status = "CANCELED"
  BY <1>2 DEF OrderAgrees, Final
<1>. QED
  BY <1>2, <1>3, <1>4, <1>5 DEF OrderAgrees, Manager!IsCanceled

\* Who can have moved, in a step that changes the manager's orders or tasks.
LEMMA StepKinds ==
    ASSUME [Next]_vars
    PROVE  \/ UNCHANGED <<orders, tasks>>
           \/ \E k \in Tokens : \E desired, stale : ReplaceOrder(k, desired, stale)
           \/ CreateReturns
           \/ \E o \in OrderIds : SubmitReturns(o) \/ CancelReturns(o) \/ ReadReturns(o)
           \/ MarketOrderLoop
  BY Zenon DEF Next, vars, managerVars, StartOrder, Settle, Manager!SettleMarket, ThreadSubmits,
               ThreadCancels, ThreadReads, Publish, MarketTradeLoop, Manager!HandleTradeEvent,
               VenueMoves

\* Who can have moved, in a step that changes the replies of an order's threads.
LEMMA ReplyKinds ==
    ASSUME [Next]_vars
    PROVE  \/ UNCHANGED replies
           \/ \E o \in OrderIds :
                ThreadCancels(o) \/ CancelReturns(o) \/ ThreadReads(o) \/ ReadReturns(o)
  BY Zenon DEF Next, vars, managerVars, StartOrder, ReplaceOrder, CreateReturns, Settle,
               ThreadSubmits, SubmitReturns, Publish, MarketOrderLoop, MarketTradeLoop, VenueMoves

LEMMA OrdersAgreeStep ==
    ASSUME Inv, [Next]_vars
    PROVE  OrdersAgree'
<1>. SUFFICES ASSUME NEW o \in OrderIds
              PROVE  OrderAgrees(orders[o], tasks[o], replies[o], store[o].status)'
  BY DEF OrdersAgree
<1>. DEFINE r == orders[o]
            t == tasks[o]
            a == replies[o]
            v == store[o].status
<1>1. /\ Ledger!TypeInv /\ CallTypes /\ VenueTypes /\ Agreement
      /\ OrderAgrees(r, t, a, v) /\ StoreMoves(o)
      /\ r \in Manager!OrderRecord /\ t \in Manager!TaskRecord
  BY StoreStep, ManagerFacts DEF Inv, Agreement, OrdersAgree
<1>2. /\ a.reads \in Seq({"LIVE", "MATCHED", "CANCELED"})
      /\ \A n \in 1..Len(a.reads) : a.reads[n] \in Final => v = a.reads[n]
      /\ v \in Venue!OrderStatus
  BY <1>1 DEF CallTypes, VenueTypes, OrderAgrees
\* The venue or a thread has moved.
<1>3. CASE UNCHANGED <<orders, tasks>>
  <2>1. /\ replies'[o].cancel = "ok" /\ replies[o].cancel # "ok" => store'[o].status = "CANCELED"
        /\ \A n \in 1..Len(replies'[o].reads) :
             replies'[o].reads[n] \in Final => store'[o].status = replies'[o].reads[n]
    <3>1. CASE UNCHANGED a
      BY <1>1, <1>2, <3>1 DEF StoreMoves, Final
    <3>2. CASE ThreadCancels(o)
      <4>1. /\ replies'[o].cancel = Venue!CancelReply(o) /\ replies'[o].reads = a.reads
            /\ Venue!CancelStore(o)
        BY <1>1, <3>2 DEF ThreadCancels, CallTypes
      <4>2. replies'[o].cancel = "ok" => store'[o].status = "CANCELED"
        BY <1>1, <1>2, <4>1
        DEF Venue!CancelReply, Venue!CancelStore, Venue!OrderStatus, VenueTypes
      <4>. QED
        BY <1>1, <1>2, <4>1, <4>2 DEF StoreMoves, Final
    <3>3. CASE ThreadReads(o)
      <4>1. /\ replies'[o].cancel = a.cancel /\ replies'[o].reads = Append(a.reads, v)
            /\ store' = store
        BY <1>1, <3>3 DEF ThreadReads, CallTypes, venueVars
      <4>. QED
        BY <1>2, <4>1
    <3>4. ASSUME NEW p \in OrderIds, CancelReturns(p) \/ ReadReturns(p)
          PROVE  FALSE
      <4>1. tasks' # tasks
        <5>1. tasks[p].cancel \in Nat /\ tasks[p].sync \in Nat /\ tasks[p] \in Manager!TaskRecord
              /\ DOMAIN tasks = OrderIds
          BY <1>1, ManagerFacts DEF Manager!TaskRecord
        <5>2. CASE CancelReturns(p)
          <6>1. tasks'[p].cancel = tasks[p].cancel - 1
            BY <5>1, <5>2, ZenonT(30)
            DEF CancelReturns, Manager!CancelSuccess, Manager!CancelFailed,
                Manager!CancelCallEnds, Manager!TaskRecord
          <6>. QED
            BY <5>1, <6>1
        <5>3. CASE ReadReturns(p)
          <6>1. tasks'[p].sync = tasks[p].sync - 1
            BY <5>1, <5>3 DEF ReadReturns, Manager!SyncReturns, Report, Manager!TaskRecord
          <6>. QED
            BY <5>1, <6>1
        <5>. QED
          BY <3>4, <5>2, <5>3
      <4>. QED
        BY <1>3, <4>1
    <3>5. ASSUME NEW p \in OrderIds, p # o, ThreadCancels(p) \/ ThreadReads(p)
          PROVE  UNCHANGED a
      BY <1>1, <3>5 DEF ThreadCancels, ThreadReads, CallTypes
    <3>. QED
      BY <3>1, <3>2, <3>3, <3>4, <3>5, ReplyKinds
  <2>. QED
    BY <1>1, <1>3, <2>1, VenueMovesOn
\* The manager has moved.
<1>4. ASSUME NEW k \in Tokens, NEW desired, NEW stale, ReplaceOrder(k, desired, stale)
      PROVE  OrderAgrees(r, t, a, v)'
  <2>1. /\ \/ orders'[o] = r
           \/ orders'[o] = Manager!CancelRequested(r)
        /\ tasks'[o].sync = t.sync /\ UNCHANGED <<replies, store>>
    BY <1>1, <1>4, ManagerFacts
    DEF ReplaceOrder, Manager!Cancel, venueVars, Manager!TaskRecord
  <2>2. /\ orders'[o].status = r.status /\ orders'[o].matched = r.matched
        /\ orders'[o].shares = r.shares
    BY <1>1, <2>1 DEF Manager!CancelRequested, Manager!OrderRecord
  <2>. QED
    BY <1>1, <2>1, <2>2 DEF OrderAgrees, Manager!IsCanceled
<1>5. CASE CreateReturns
  <2>. DEFINE n == CHOOSE i \in Unused : \A j \in Unused : i <= j
              c == creating[1]
  <2>1. /\ ~Manager!Tracked(n)
        /\ orders' = [orders EXCEPT ![n] = Manager!NewOrder(c.token, c.side, c.role, c.shares)]
        /\ tasks' = [tasks EXCEPT ![n].submit = 1]
        /\ UNCHANGED <<replies, store>>
    BY <1>5 DEF CreateReturns, Manager!CreateOrder, venueVars
  <2>2. c.shares \in Nat \ {0}
    BY <1>1, <1>5 DEF CreateReturns, CallTypes
  <2>. HIDE DEF n, c
  <2>3. tasks'[o].sync = t.sync
    BY <1>1, <2>1, ManagerFacts DEF Manager!TaskRecord
  <2>4. CASE o = n
    <3>1. r.status = "UNTRACKED" /\ v = "NEW" /\ t.sync = 0
      BY <1>1, <2>1, <2>4 DEF Manager!Tracked, OrderAgrees
    <3>2. /\ orders'[o].status = "SUBMITTING" /\ orders'[o].matched = 0
          /\ orders'[o].shares \in Nat \ {0}
      BY <1>1, <2>1, <2>2, <2>4, ManagerFacts DEF Manager!NewOrder
    <3>. QED
      BY <1>1, <2>1, <2>3, <3>1, <3>2
      DEF OrderAgrees, Manager!IsCanceled, Manager!CanceledStatus
  <2>5. CASE o # n
    <3>1. orders'[o] = r
      BY <1>1, <2>1, <2>5, ManagerFacts
    <3>. QED
      BY <1>1, <2>1, <2>3, <3>1 DEF OrderAgrees, Manager!IsCanceled
  <2>. QED
    BY <2>4, <2>5
<1>6. ASSUME NEW p \in OrderIds, p # o, SubmitReturns(p) \/ CancelReturns(p) \/ ReadReturns(p)
      PROVE  OrderAgrees(r, t, a, v)'
  <2>1. orders'[o] = r /\ tasks'[o] = t /\ replies'[o] = a /\ store' = store
    BY <1>1, <1>6, ManagerFacts, ZenonT(30)
    DEF SubmitReturns, CancelReturns, ReadReturns, Manager!SubmitSuccess, Manager!CancelSuccess,
        Manager!CancelFailed, Manager!SyncReturns, Report, CallTypes, venueVars
  <2>. QED
    BY <1>1, <2>1 DEF OrderAgrees, Manager!IsCanceled
<1>7. CASE SubmitReturns(o)
  <2>1. /\ v # "NEW" /\ t.submit > 0 /\ replies' = replies /\ store' = store
        /\ Manager!SubmitSuccess(o)
    BY <1>7 DEF SubmitReturns, Manager!SubmitSuccess, venueVars
  <2>2. r.status # "UNTRACKED"
    BY <1>1, <2>1, ManagerFacts DEF Manager!NoTask
  <2>3. /\ orders'[o].status = "ZERO_MATCHED" /\ orders'[o].matched = r.matched
        /\ orders'[o].shares = r.shares
    BY <1>1, <2>1, ManagerFacts
    DEF Manager!SubmitSuccess, Manager!Submitted, Manager!CancelRequested, Manager!OrderRecord
  <2>. QED
    BY <1>1, <2>1, <2>2, <2>3 DEF OrderAgrees, Manager!IsCanceled, Manager!CanceledStatus
<1>8. CASE CancelReturns(o)
  <2>1. /\ t.cancel > 0 /\ store' = store
        /\ replies'[o].cancel = "none" /\ replies'[o].reads = a.reads
    BY <1>1, <1>8
    DEF CancelReturns, Manager!CancelSuccess, Manager!CancelFailed, CallTypes, venueVars
  <2>2. r.status \notin {"UNTRACKED", "SUBMITTING"}
    BY <1>1, <2>1, ManagerFacts DEF Manager!NoTask
  <2>3. v # "NEW" /\ r.shares > 0
    BY <1>1, <2>2 DEF OrderAgrees
  <2>4. CASE a.cancel = "ok" /\ Manager!CancelSuccess(o)
    <3>1. v = "CANCELED" /\ r.matched = 0
      BY <1>1, <2>4 DEF OrderAgrees, Manager!OrderRecord
    <3>2. orders'[o] = Manager!CancelDone(r)
      BY <1>1, <2>4, ManagerFacts DEF Manager!CancelSuccess
    <3>3. /\ orders'[o].status = "ZERO_MATCHED_CANCELED" /\ orders'[o].matched = 0
          /\ orders'[o].shares = r.shares
      BY <1>1, <3>1, <3>2 DEF Manager!CancelDone, Manager!OrderRecord
    <3>. QED
      BY <1>1, <2>1, <2>3, <3>1, <3>3 DEF OrderAgrees
  <2>5. CASE Manager!CancelFailed(o, TRUE, FALSE)
    <3>1. /\ orders'[o].status = r.status /\ orders'[o].matched = r.matched
          /\ orders'[o].shares = r.shares
      BY <1>1, <2>5, ManagerFacts DEF Manager!CancelFailed, Manager!OrderRecord
    <3>. QED
      BY <1>1, <2>1, <2>3, <3>1 DEF OrderAgrees, Manager!IsCanceled
  <2>. QED
    BY <1>8, <2>4, <2>5 DEF CancelReturns
<1>9. CASE ReadReturns(o)
  <2>1. PICK n \in DOMAIN a.reads :
          /\ Manager!SyncReturns(Report(o, a.reads[n]))
          /\ replies' = [replies EXCEPT ![o].reads = RemoveAt(@, n)]
          /\ store' = store
    BY <1>9 DEF ReadReturns, venueVars
  <2>. DEFINE e == Report(o, a.reads[n])
  <2>2. n \in 1..Len(a.reads) /\ a.reads[n] \in {"LIVE", "MATCHED", "CANCELED"}
    BY <1>2, <2>1
  <2>3. /\ replies'[o].cancel = a.cancel
        /\ \A i \in 1..Len(replies'[o].reads) :
             replies'[o].reads[i] \in Final => v = replies'[o].reads[i]
    <3>1. replies'[o].cancel = a.cancel /\ replies'[o].reads = RemoveAt(a.reads, n)
      BY <1>1, <2>1 DEF CallTypes
    <3>2. \A i \in 1..Len(RemoveAt(a.reads, n)) :
            \E j \in 1..Len(a.reads) : RemoveAt(a.reads, n)[i] = a.reads[j]
      BY <1>2, <2>2, RemovedKeeps
    <3>. QED
      BY <1>2, <3>1, <3>2
  <2>4. t.sync > 0 /\ orders'[o] = Manager!AfterEvent(r, e)
    BY <1>1, <2>1, ManagerFacts DEF Manager!SyncReturns, Report
  <2>5. r.status # "UNTRACKED" /\ v # "NEW"
    BY <1>1, <2>4, ManagerFacts DEF OrderAgrees, Manager!NoTask
  <2>6. /\ e.active \in BOOLEAN /\ e.matched \in {0, r.shares}
        /\ ~e.active => v = "CANCELED" /\ e.matched = 0
        /\ e.matched > 0 => v = "MATCHED"
    <3>1. r.shares \in Nat
      BY <1>1 DEF Manager!OrderRecord
    <3>. QED
      BY <1>2, <2>2, <3>1, ReportSays
  <2>. HIDE DEF e
  <2>. QED
    <3>1. OrderAgrees(Manager!AfterEvent(r, e), tasks'[o], replies'[o], v)
      BY <1>1, <2>3, <2>5, <2>6, AfterEventAgrees
    <3>. QED
      BY <2>1, <2>4, <3>1 DEF OrderAgrees, Manager!IsCanceled
<1>10. CASE MarketOrderLoop
  <2>. DEFINE h == Head(orderQueue)
              e == Report(h.order, h.status)
  <2>1. /\ orderQueue # <<>> /\ Manager!HandleOrderEvent(e)
        /\ UNCHANGED <<replies, store>>
    BY <1>10 DEF MarketOrderLoop, venueVars
  <2>2. /\ h \in Venue!Events /\ h.kind = "order"
        /\ store[h.order].status = h.status
    <3>1. h \in {x \in TrueReports : x.kind = "order"}
      BY <1>1, <2>1, ReportHeads
    <3>. QED
      BY <3>1 DEF TrueReports
  <2>3. h.order \in OrderIds /\ h.status \in {"MATCHED", "CANCELED"}
    BY <2>2 DEF Venue!Events
  <2>4. /\ Manager!Tracked(e.order) /\ tasks' = tasks
        /\ orders' = [orders EXCEPT ![e.order] = Manager!AfterEvent(@, e)]
        /\ e.order = h.order
    <3>1. e.order = h.order
      BY DEF Report
    <3>. HIDE DEF e
    <3>. QED
      BY <2>1, <3>1 DEF Manager!HandleOrderEvent, Manager!Accepted
  <2>5. CASE o = h.order
    <3>1. /\ e.active \in BOOLEAN /\ e.matched \in {0, r.shares}
          /\ ~e.active => v = "CANCELED" /\ e.matched = 0
          /\ e.matched > 0 => v = "MATCHED"
      <4>1. r.shares \in Nat
        BY <1>1 DEF Manager!OrderRecord
      <4>. QED
        BY <2>2, <2>3, <2>5, <4>1, ReportSays
    <3>. HIDE DEF e, h
    <3>2. r.status # "UNTRACKED" /\ v # "NEW"
      BY <2>2, <2>3, <2>4, <2>5 DEF Manager!Tracked
    <3>3. orders'[o] = Manager!AfterEvent(r, e)
      BY <1>1, <2>4, <2>5, ManagerFacts
    <3>. QED
      BY <1>1, <1>2, <2>1, <2>4, <3>1, <3>2, <3>3, AfterEventAgrees
  <2>6. CASE o # h.order
    <3>. HIDE DEF e, h
    <3>1. orders'[o] = r
      BY <1>1, <2>4, <2>6, ManagerFacts
    <3>. QED
      BY <1>1, <2>1, <2>4, <3>1 DEF OrderAgrees, Manager!IsCanceled
  <2>. QED
    BY <2>5, <2>6
<1>. QED
  BY <1>3, <1>4, <1>5, <1>6, <1>7, <1>8, <1>9, <1>10, StepKinds

-----------------------------------------------------------------------------
(* The venue's own records, and the reports about them.                    *)

\* Who can have moved, in a step that changes the venue.
LEMMA VenueKinds ==
    ASSUME [Next]_vars
    PROVE  \/ UNCHANGED venueVars
           \/ \E o \in OrderIds : ThreadSubmits(o) \/ ThreadCancels(o)
           \/ Publish
           \/ VenueMoves(Venue!StartPoll) \/ \E k \in Tokens : VenueMoves(Venue!StartQuote(k))
           \/ VenueMoves(Venue!FillNext) \/ VenueMoves(Venue!EndQuote)
           \/ VenueMoves(Venue!PromoteMined) \/ VenueMoves(Venue!DrainEvents)
           \/ VenueMoves(Venue!Ripen) \/ \E o \in OrderIds : VenueMoves(Venue!Age(o))
  BY Zenon DEF Next, vars, StartOrder, ReplaceOrder, CreateReturns, Settle, SubmitReturns,
               CancelReturns, ThreadReads, ReadReturns, MarketOrderLoop, MarketTradeLoop,
               VenueMoves, Venue!StreamStep

LEMMA SameSelection == \A s, S : Venue!OnlyIn(s, S) = OnlyIn(s, S)
  BY DEF Venue!OnlyIn, OnlyIn

LEMMA ListedType ==
    ASSUME VenueTypes, NEW S
    PROVE  Venue!Listed(S) \in Seq(OrderIds)
<1>1. book \in Seq(OrderIds)
  BY DEF VenueTypes
<1>2. OnlyIn(book, S) \in Seq(OrderIds)
  BY <1>1, SelectType
<1>. QED
  BY <1>2, SameSelection DEF Venue!Listed

\* Every trade is of an order.
LEMMA FillTypes ==
    ASSUME VenueTypes
    PROVE  /\ DOMAIN fills = 1..Len(fills) /\ Len(fills) \in Nat
           /\ \A n \in DOMAIN fills : /\ fills[n].order \in OrderIds
                                     /\ fills[n] \in [order : OrderIds, status : {"MATCHED", "MINED"}]
<1>. DEFINE F == [order : OrderIds, status : {"MATCHED", "MINED"}]
<1>1. fills \in Seq(F)
  BY DEF VenueTypes
<1>2. \A x \in F : x.order \in OrderIds
  OBVIOUS
<1>. HIDE DEF F
<1>3. DOMAIN fills = 1..Len(fills) /\ Len(fills) \in Nat /\ \A n \in DOMAIN fills : fills[n] \in F
  BY <1>1
<1>. QED
  BY <1>2, <1>3 DEF F

\* The trades a poll finds due are trades that were made.
LEMMA DueType ==
    ASSUME VenueTypes
    PROVE  /\ Venue!Due \subseteq DOMAIN fills
           /\ Venue!DueInOrder \in Seq(Venue!Due)
           /\ \A n \in DOMAIN Venue!DueInOrder : fills[Venue!DueInOrder[n]].order \in OrderIds
<1>. DEFINE D == DOMAIN fills
            U == Venue!Due
            s == [n \in D |-> n]
<1>1. D = 1..Len(fills) /\ Len(fills) \in Nat /\ ripe \in 0..Len(fills)
  BY DEF VenueTypes
<1>2. U \subseteq D
  BY <1>1 DEF Venue!Due
<1>3. s \in Seq(D)
  BY <1>1
<1>4. OnlyIn(s, U) \in Seq(U)
  <2>1. U = D \cap U
    BY <1>2
  <2>. HIDE DEF D, U, s
  <2>. QED
    BY <1>3, <2>1, SelectType
<1>5. Venue!DueInOrder \in Seq(U)
  BY <1>4, SameSelection DEF Venue!DueInOrder
<1>6. ASSUME NEW n \in DOMAIN Venue!DueInOrder
      PROVE  fills[Venue!DueInOrder[n]].order \in OrderIds
  <2>1. Venue!DueInOrder[n] \in D
    BY <1>2, <1>5
  <2>2. \A m \in D : fills[m].order \in OrderIds
    BY FillTypes
  <2>. QED
    BY <2>1, <2>2
<1>. QED
  BY <1>2, <1>5, <1>6

LEMMA VenueTypesStep ==
    ASSUME Inv, [Next]_vars
    PROVE  VenueTypes'
<1>1. VenueTypes /\ Agreement /\ Ledger!TypeInv
  BY DEF Inv
<1>2. CASE UNCHANGED venueVars /\ UNCHANGED sent
  BY <1>1, <1>2 DEF VenueTypes, venueVars
<1>3. ASSUME NEW o \in OrderIds, ThreadSubmits(o)
      PROVE  VenueTypes'
  <2>1. orders[o].token \in Tokens \cup {NoToken} /\ orders[o].role \in Manager!Role
    BY <1>1, ManagerFacts DEF Manager!OrderRecord
  <2>. QED
    BY <1>1, <1>3, <2>1 DEF ThreadSubmits, Venue!Submit, VenueTypes, Venue!OrderStatus, busVars
<1>4. ASSUME NEW o \in OrderIds, ThreadCancels(o)
      PROVE  VenueTypes'
  BY <1>1, <1>4, ZenonT(30)
  DEF ThreadCancels, Venue!CancelStore, VenueTypes, Venue!OrderStatus, busVars
<1>5. CASE Publish
  <2>. DEFINE h == Head(outbox)
              i == h.order
  <2>1. h \in Venue!Events
    BY <1>1, <1>5, ReportHeads DEF Publish, Venue!Yield, TrueReports
  <2>2. UNCHANGED <<store, book, fills, events, aged, ripe, loop, scan>>
        /\ sent' = [sent EXCEPT ![i] = Append(@, h)]
    BY <1>5 DEF Publish, Venue!Yield
  <2>3. sent' \in [OrderIds -> Seq(Venue!Events)]
    <3>. DEFINE Q == Seq(Venue!Events)
    <3>1. sent \in [OrderIds -> Q] /\ i \in OrderIds
      BY <1>1, <2>1 DEF VenueTypes, Venue!Events
    <3>2. Append(sent[i], h) \in Q
      BY <2>1, <3>1
    <3>. HIDE DEF Q, h, i
    <3>. QED
      BY <2>2, <3>1, <3>2 DEF Q
  <2>. QED
    BY <1>1, <2>2, <2>3 DEF VenueTypes
<1>6. CASE VenueMoves(Venue!StartPoll) \/ \E k \in Tokens : VenueMoves(Venue!StartQuote(k))
  BY <1>1, <1>6, ListedType
  DEF VenueMoves, Venue!StartPoll, Venue!StartQuote, VenueTypes, busVars
<1>7. CASE VenueMoves(Venue!FillNext)
  <2>1. Head(scan) \in OrderIds /\ Tail(scan) \in Seq(OrderIds)
    BY <1>1, <1>7 DEF VenueMoves, Venue!FillNext, VenueTypes
  <2>. DEFINE o == Head(scan)
  <2>2. /\ scan' = Tail(scan) /\ UNCHANGED <<book, aged, ripe, loop, sent>>
        /\ \/ store' = store /\ fills' = fills
           \/ /\ store' = [store EXCEPT ![o].status = "MATCHED"]
              /\ fills' = Append(fills, [order |-> o, status |-> "MATCHED"])
    BY <1>7 DEF VenueMoves, Venue!FillNext, Venue!MarkMatched, busVars
  <2>. HIDE DEF o
  <2>3. store' \in [OrderIds -> [status : Venue!OrderStatus, role : Manager!Role,
                                 token : Tokens \cup {NoToken}]]
    BY <1>1, <2>2, ZenonT(30) DEF VenueTypes, Venue!OrderStatus
  <2>4. /\ fills' \in Seq([order : OrderIds, status : {"MATCHED", "MINED"}])
        /\ ripe' \in 0..Len(fills')
    <3>. DEFINE F == [order : OrderIds, status : {"MATCHED", "MINED"}]
                x == [order |-> o, status |-> "MATCHED"]
    <3>1. fills \in Seq(F) /\ ripe \in 0..Len(fills) /\ x \in F
      BY <1>1, <2>1 DEF VenueTypes, o
    <3>. HIDE DEF F, x
    <3>2. Append(fills, x) \in Seq(F) /\ Len(Append(fills, x)) = Len(fills) + 1 /\ Len(fills) \in Nat
      BY <3>1
    <3>3. fills' = fills \/ fills' = Append(fills, x)
      BY <2>2 DEF x
    <3>4. fills' \in Seq(F) /\ ripe \in 0..Len(fills')
      BY <3>1, <3>2, <3>3
    <3>. QED
      BY <2>2, <3>4 DEF F
  <2>. QED
    BY <1>1, <2>1, <2>2, <2>3, <2>4 DEF VenueTypes
<1>8. CASE VenueMoves(Venue!EndQuote) \/ VenueMoves(Venue!DrainEvents)
  BY <1>1, <1>8 DEF VenueMoves, Venue!EndQuote, Venue!DrainEvents, VenueTypes, busVars
<1>9. CASE VenueMoves(Venue!PromoteMined)
  <2>1. fills' \in Seq([order : OrderIds, status : {"MATCHED", "MINED"}]) /\ Len(fills') = Len(fills)
    <3>. DEFINE F == [order : OrderIds, status : {"MATCHED", "MINED"}]
                g == [n \in DOMAIN fills |-> IF n \in Venue!Due
                                             THEN [fills[n] EXCEPT !.status = "MINED"]
                                             ELSE fills[n]]
    <3>1. fills \in Seq(F) /\ fills' = g
      BY <1>1, <1>9 DEF VenueMoves, Venue!PromoteMined, VenueTypes
    <3>2. \A n \in DOMAIN fills : g[n] \in F
      BY <1>1, FillTypes
    <3>3. DOMAIN fills = 1..Len(fills) /\ Len(fills) \in Nat /\ DOMAIN g = DOMAIN fills
      BY <3>1
    <3>. HIDE DEF F, g
    <3>4. g \in Seq(F) /\ Len(g) = Len(fills)
      <4>1. g = [n \in 1..Len(fills) |-> g[n]]
        BY <3>3 DEF g
      <4>. QED
        BY <3>2, <3>3, <4>1
    <3>. QED
      BY <3>1, <3>4 DEF F
  <2>2. UNCHANGED <<store, book, aged, ripe, scan, sent>> /\ loop' = "drain"
    BY <1>9 DEF VenueMoves, Venue!PromoteMined, busVars
  <2>. QED
    BY <1>1, <2>1, <2>2 DEF VenueTypes
<1>10. CASE VenueMoves(Venue!Ripen) \/ \E o \in OrderIds : VenueMoves(Venue!Age(o))
  BY <1>1, <1>10 DEF VenueMoves, Venue!Ripen, Venue!Age, VenueTypes, busVars
<1>11. UNCHANGED sent \/ Publish
  BY Zenon DEF Next, vars, busVars, StartOrder, ReplaceOrder, CreateReturns, Settle, ThreadSubmits,
       SubmitReturns, ThreadCancels, CancelReturns, ThreadReads, ReadReturns, MarketOrderLoop,
       MarketTradeLoop, VenueMoves
<1>. QED
  BY <1>2, <1>3, <1>4, <1>5, <1>6, <1>7, <1>8, <1>9, <1>10, <1>11, VenueKinds

\* A report that was true stays so: the status it tells is final.
LEMMA TrueReportsStep ==
    ASSUME VenueTypes, [Next]_vars
    PROVE  TrueReports \subseteq TrueReports'
<1>. SUFFICES ASSUME NEW e \in TrueReports
              PROVE  e \in TrueReports'
  OBVIOUS
<1>1. e \in Venue!Events /\ e.order \in OrderIds
  BY DEF TrueReports, Venue!Events
<1>2. CASE e.kind = "order"
  <2>1. e.status \in Final /\ store[e.order].status = e.status
    BY <1>1, <1>2 DEF TrueReports, Venue!Events, Final
  <2>2. store'[e.order].status = e.status
    BY <1>1, <2>1, StoreStep DEF StoreMoves, Final
  <2>. QED
    BY <1>1, <2>2 DEF TrueReports
<1>3. CASE e.kind # "order"
  BY <1>1, <1>3 DEF TrueReports
<1>. QED
  BY <1>2, <1>3

LEMMA ReportsAgreeStep ==
    ASSUME Inv, [Next]_vars
    PROVE  ReportsAgree'
<1>. DEFINE A == TrueReports
            B == A'
            R == {e \in A : e.kind = "order"}
            S == R'
            T == {e \in Venue!Events : e.kind = "trade"}
<1>1. VenueTypes /\ Agreement
  BY DEF Inv
<1>2. A \subseteq B /\ R \subseteq S /\ T \subseteq A /\ T \subseteq B
  BY <1>1, TrueReportsStep DEF TrueReports
<1>3. /\ events \in Seq(A) /\ outbox \in Seq(A) /\ orderQueue \in Seq(R) /\ tradeQueue \in Seq(T)
  BY <1>1 DEF Agreement, ReportsAgree
<1>4. \A h \in A : IF h.kind = "order" THEN h \in R ELSE h \in T
  BY DEF TrueReports, Venue!Events
<1>5. /\ events \in Seq(B) /\ outbox \in Seq(B) /\ orderQueue \in Seq(S)
  <2>. HIDE DEF A, B, R, S, T
  <2>. QED
    BY <1>2, <1>3
<1>. SUFFICES events' \in Seq(B) /\ outbox' \in Seq(B) /\ orderQueue' \in Seq(S) /\ tradeQueue' \in Seq(T)
  BY DEF ReportsAgree
<1>6. CASE UNCHANGED <<events, outbox, orderQueue, tradeQueue>>
  BY <1>3, <1>5, <1>6, Zenon
<1>7. ASSUME NEW o \in OrderIds, ThreadCancels(o)
      PROVE  events' \in Seq(B)
  <2>1. \/ events' = events
        \/ events' = Append(events, Venue!OrderEvent(o, "CANCELED"))
           /\ Venue!OrderEvent(o, "CANCELED") \in B
    BY <1>1, <1>7
    DEF ThreadCancels, Venue!CancelStore, VenueTypes, Venue!OrderEvent, TrueReports, Venue!Events
  <2>. HIDE DEF A, B
  <2>. QED
    BY <1>5, <2>1
<1>8. CASE Publish
  <2>. DEFINE h == Head(outbox)
  <2>1. /\ outbox # <<>> /\ events' = events /\ outbox' = Tail(outbox)
        /\ \/ h.kind = "order" /\ orderQueue' = Append(orderQueue, h) /\ tradeQueue' = tradeQueue
           \/ h.kind # "order" /\ tradeQueue' = Append(tradeQueue, h) /\ orderQueue' = orderQueue
    BY <1>8 DEF Publish, Venue!Yield
  <2>2. h \in A
    BY <1>1, <2>1, ReportHeads
  <2>3. IF h.kind = "order" THEN h \in S ELSE h \in T
    BY <1>2, <1>4, <2>2
  <2>. HIDE DEF A, B, R, S, T, h
  <2>4. outbox' \in Seq(B)
    BY <1>5, <2>1
  <2>5. orderQueue' \in Seq(S) /\ tradeQueue' \in Seq(T)
    <3>3. (h \in S => Append(orderQueue, h) \in Seq(S)) /\ (h \in T => Append(tradeQueue, h) \in Seq(T))
      BY <1>3, <1>5
    <3>1. CASE h.kind = "order"
      BY <1>3, <2>1, <2>3, <3>1, <3>3, Zenon
    <3>2. CASE h.kind # "order"
      BY <1>5, <2>1, <2>3, <3>2, <3>3, Zenon
    <3>. QED
      BY <3>1, <3>2
  <2>. QED
    BY <1>5, <2>1, <2>4, <2>5
<1>9. CASE VenueMoves(Venue!FillNext)
  <2>. DEFINE o == Head(scan)
              x == Venue!OrderEvent(o, "MATCHED")
              y == Venue!TradeEvent(o, "MATCHED")
  <2>1. /\ scan # <<>> /\ outbox' = outbox /\ orderQueue' = orderQueue /\ tradeQueue' = tradeQueue
        /\ \/ events' = events
           \/ events' = events \o <<x, y>> /\ store' = [store EXCEPT ![o].status = "MATCHED"]
    BY <1>9 DEF VenueMoves, Venue!FillNext, Venue!MarkMatched, busVars
  <2>4. o \in OrderIds
    BY <1>1, <2>1 DEF VenueTypes
  <2>2. y \in T
    BY <2>4 DEF Venue!TradeEvent, Venue!Events
  <2>3. store' = [store EXCEPT ![o].status = "MATCHED"] => x \in B
    <3>. HIDE DEF o
    <3>. QED
      BY <1>1, <2>4 DEF Venue!OrderEvent, Venue!Events, TrueReports, VenueTypes
  <2>. HIDE DEF A, B, R, S, T, x, y
  <2>5. x \in B => <<x, y>> \in Seq(B)
    BY <1>2, <2>2
  <2>6. x \in B => events \o <<x, y>> \in Seq(B)
    <3>. DEFINE z == <<x, y>>
    <3>1. x \in B => z \in Seq(B)
      BY <2>5
    <3>. HIDE DEF z
    <3>2. x \in B => events \o z \in Seq(B)
      BY <1>5, <3>1
    <3>. QED
      BY <3>2 DEF z
  <2>. QED
    BY <1>3, <1>5, <2>1, <2>3, <2>6, Zenon
<1>10. CASE VenueMoves(Venue!PromoteMined)
  <2>. DEFINE d == Venue!DueInOrder
              m == [n \in DOMAIN d |-> Venue!TradeEvent(fills[d[n]].order, "MINED")]
  <2>1. /\ outbox' = outbox /\ orderQueue' = orderQueue /\ tradeQueue' = tradeQueue
        /\ events' = events \o m
    BY <1>10 DEF VenueMoves, Venue!PromoteMined, busVars
  <2>2. \A n \in DOMAIN d : Venue!TradeEvent(fills[d[n]].order, "MINED") \in T
    BY <1>1, DueType DEF Venue!TradeEvent, Venue!Events
  <2>3. DOMAIN d = 1..Len(d) /\ Len(d) \in Nat
    BY <1>1, DueType
  <2>4. m \in Seq(T)
    <3>. HIDE DEF d, T
    <3>. QED
      BY <2>2, <2>3
  <2>. HIDE DEF A, B, R, S, T, m
  <2>. QED
    BY <1>2, <1>3, <1>5, <2>1, <2>4
<1>11. CASE VenueMoves(Venue!DrainEvents)
  <2>1. /\ outbox' = events /\ events' = <<>> /\ orderQueue' = orderQueue /\ tradeQueue' = tradeQueue
    BY <1>11 DEF VenueMoves, Venue!DrainEvents, busVars
  <2>. HIDE DEF A, B, R, S, T
  <2>. QED
    BY <1>3, <1>5, <2>1
<1>12. CASE MarketOrderLoop \/ MarketTradeLoop
  <2>1. /\ outbox' = outbox /\ events' = events
        /\ \/ orderQueue # <<>> /\ orderQueue' = Tail(orderQueue) /\ tradeQueue' = tradeQueue
           \/ tradeQueue # <<>> /\ tradeQueue' = Tail(tradeQueue) /\ orderQueue' = orderQueue
    BY <1>12 DEF MarketOrderLoop, MarketTradeLoop, venueVars
  <2>. HIDE DEF A, B, R, S, T
  <2>2. CASE orderQueue # <<>> /\ orderQueue' = Tail(orderQueue) /\ tradeQueue' = tradeQueue
    BY <1>3, <1>5, <2>1, <2>2
  <2>3. CASE tradeQueue # <<>> /\ tradeQueue' = Tail(tradeQueue) /\ orderQueue' = orderQueue
    BY <1>3, <1>5, <2>1, <2>3
  <2>. QED
    BY <2>1, <2>2, <2>3
<1>13. \/ UNCHANGED <<events, outbox, orderQueue, tradeQueue>>
       \/ \E o \in OrderIds : ThreadCancels(o)
       \/ Publish \/ MarketOrderLoop \/ MarketTradeLoop
       \/ VenueMoves(Venue!FillNext) \/ VenueMoves(Venue!PromoteMined)
       \/ VenueMoves(Venue!DrainEvents)
  BY Zenon DEF Next, vars, venueVars, busVars, StartOrder, ReplaceOrder, CreateReturns, Settle,
       ThreadSubmits, Venue!Submit, SubmitReturns, CancelReturns, ThreadReads, ReadReturns,
       VenueMoves, Venue!StreamStep, Venue!StartQuote, Venue!StartPoll, Venue!EndQuote,
       Venue!Ripen, Venue!Age
<1>14. ASSUME NEW o \in OrderIds, ThreadCancels(o)
       PROVE  UNCHANGED <<outbox, orderQueue, tradeQueue>>
  BY <1>14 DEF ThreadCancels, Venue!CancelStore, busVars
<1>. HIDE DEF A, B, R, S, T
<1>. QED
  BY <1>3, <1>5, <1>6, <1>7, <1>8, <1>9, <1>10, <1>11, <1>12, <1>13, <1>14

-----------------------------------------------------------------------------
(* One open order of a token at a time.                                    *)

\* What never changes of an order; a step but CreateReturns tracks no new one.
LEMMA SameOrder ==
    ASSUME Ledger!TypeInv, [Next]_vars, ~CreateReturns, NEW o \in OrderIds
    PROVE  /\ Manager!Tracked(o)' <=> Manager!Tracked(o)
           /\ orders'[o].token = orders[o].token /\ orders'[o].side = orders[o].side
           /\ orders'[o].role = orders[o].role /\ orders'[o].shares = orders[o].shares
<1>. DEFINE r == orders[o]
<1>1. /\ orders \in [OrderIds -> Manager!OrderRecord] /\ r \in Manager!OrderRecord
      /\ tasks[o].cancel > 0 \/ tasks[o].submit > 0 \/ tasks[o].sync > 0 => r.status # "UNTRACKED"
  BY ManagerFacts DEF Manager!NoTask
<1>2. CASE orders'[o] = r
  BY <1>2 DEF Manager!Tracked
<1>3. ASSUME r.status # "UNTRACKED",
             \/ orders'[o] = Manager!CancelRequested(r)
             \/ orders'[o] = Manager!Submitted(r)
             \/ orders'[o] = Manager!CancelRequested([Manager!Submitted(r) EXCEPT !.should_cancel = FALSE])
             \/ orders'[o] = Manager!CancelDone(r)
             \/ orders'[o] = [r EXCEPT !.is_cancelling = FALSE]
             \/ \E e : orders'[o] = Manager!Closed(r, e) \/ orders'[o] = Manager!Open(r, e)
      PROVE  /\ Manager!Tracked(o)' <=> Manager!Tracked(o)
             /\ orders'[o].token = r.token /\ orders'[o].side = r.side
             /\ orders'[o].role = r.role /\ orders'[o].shares = r.shares
  BY <1>1, <1>3
  DEF Manager!CancelRequested, Manager!Submitted, Manager!CancelDone, Manager!Closed,
      Manager!Open, Manager!Tracked, Manager!OrderRecord
<1>4. ASSUME NEW k \in Tokens, NEW desired, NEW stale, ReplaceOrder(k, desired, stale)
      PROVE  \/ orders'[o] = r
             \/ r.status # "UNTRACKED" /\ orders'[o] = Manager!CancelRequested(r)
  BY <1>1, <1>4 DEF ReplaceOrder, Manager!Cancel, Manager!IsActive, Manager!ActiveStatus
<1>5. ASSUME NEW p \in OrderIds, SubmitReturns(p) \/ CancelReturns(p)
      PROVE  \/ orders'[o] = r
             \/ /\ r.status # "UNTRACKED"
                /\ \/ orders'[o] = Manager!Submitted(r)
                   \/ orders'[o] = Manager!CancelRequested([Manager!Submitted(r) EXCEPT !.should_cancel = FALSE])
                   \/ orders'[o] = Manager!CancelDone(r)
                   \/ orders'[o] = [r EXCEPT !.is_cancelling = FALSE]
  BY <1>1, <1>5
  DEF SubmitReturns, CancelReturns, Manager!SubmitSuccess, Manager!CancelSuccess, Manager!CancelFailed
<1>6. ASSUME NEW p \in OrderIds, ReadReturns(p)
      PROVE  \/ orders'[o] = r
             \/ /\ r.status # "UNTRACKED"
                /\ \E e : orders'[o] = Manager!Closed(r, e) \/ orders'[o] = Manager!Open(r, e)
  <2>1. PICK n : Manager!SyncReturns(Report(p, replies[p].reads[n]))
    BY <1>6 DEF ReadReturns
  <2>2. /\ tasks[p].sync > 0
        /\ orders' = [orders EXCEPT ![p] = Manager!AfterEvent(@, Report(p, replies[p].reads[n]))]
    BY <2>1 DEF Manager!SyncReturns, Report
  <2>. QED
    BY <1>1, <2>2 DEF Manager!AfterEvent
<1>7. CASE MarketOrderLoop
  <2>. DEFINE e == Report(Head(orderQueue).order, Head(orderQueue).status)
  <2>1. Manager!HandleOrderEvent(e)
    BY <1>7 DEF MarketOrderLoop
  <2>. HIDE DEF e
  <2>2. /\ orders[e.order].status # "UNTRACKED"
        /\ orders' = [orders EXCEPT ![e.order] = Manager!AfterEvent(@, e)]
    BY <2>1 DEF Manager!HandleOrderEvent, Manager!Accepted, Manager!Tracked
  <2>3. \/ orders'[o] = r
        \/ /\ r.status # "UNTRACKED"
           /\ orders'[o] = Manager!Closed(r, e) \/ orders'[o] = Manager!Open(r, e)
    BY <1>1, <2>2 DEF Manager!AfterEvent
  <2>. QED
    BY <1>2, <1>3, <2>3
<1>. QED
  BY <1>2, <1>3, <1>4, <1>5, <1>6, <1>7, StepKinds

\* What is open after such a step was open before.
LEMMA OpenShrinks ==
    ASSUME Inv, [Next]_vars, ~CreateReturns, NEW o \in OrderIds, NEW k, IsOpen(o, k)'
    PROVE  IsOpen(o, k)
<1>1. StoreMoves(o) /\ Ledger!TypeInv
  BY StoreStep DEF Inv
<1>. QED
  BY <1>1, SameOrder DEF IsOpen, StoreMoves, Final

\* An open order is one the engine takes for active.
LEMMA OpenIsActive ==
    ASSUME Inv, NEW o \in OrderIds, NEW k, IsOpen(o, k)
    PROVE  o \in ActiveOrders(k)
<1>1. OrderAgrees(orders[o], tasks[o], replies[o], store[o].status) /\ Ledger!TypeInv
  BY DEF Inv, Agreement, OrdersAgree
<1>2. orders[o].status \in Manager!OrderStatus /\ orders[o].status = "FULL_MATCHED" => orders[o].matched > 0
  BY <1>1, ManagerFacts DEF Manager!OrderRecord
<1>3. orders[o].status \in Manager!OrderStatus
  BY <1>1, ManagerFacts DEF Manager!OrderRecord
<1>. QED
  BY <1>1, <1>2, <1>3
  DEF IsOpen, OrderAgrees, ActiveOrders, Manager!IsActive, Manager!IsCanceled, Manager!OrderStatus,
      Manager!Tracked

LEMMA CreatingAgreesStep ==
    ASSUME Inv, [Next]_vars
    PROVE  CreatingAgrees'
<1>1. CreatingAgrees /\ Ledger!TypeInv
  BY DEF Inv, Agreement
<1>2. CASE CreateReturns
  BY <1>2 DEF CreateReturns, CreatingAgrees
<1>3. CASE ~CreateReturns
  <2>1. Unused' = Unused
    BY <1>1, <1>3, SameOrder DEF Unused
  <2>2. CASE creating' = creating
    BY <1>1, <1>3, <2>1, <2>2, OpenShrinks DEF CreatingAgrees
  <2>3. ASSUME NEW k \in Tokens, NEW desired, NEW force, StartOrder(k, desired, force)
        PROVE  CreatingAgrees'
    <3>1. Unused # {} /\ ActiveOrders(k) = {} /\ creating'[1].token = k
      BY <2>3 DEF StartOrder
    <3>. QED
      BY <1>3, <2>1, <3>1, OpenShrinks, OpenIsActive DEF CreatingAgrees
  <2>4. \/ creating' = creating
        \/ \E k \in Tokens : \E desired, force : StartOrder(k, desired, force)
    BY <1>3, Zenon DEF Next, vars, ReplaceOrder, Settle, ThreadSubmits, SubmitReturns, ThreadCancels,
         CancelReturns, ThreadReads, ReadReturns, Publish, MarketOrderLoop, MarketTradeLoop, VenueMoves
  <2>. QED
    BY <2>2, <2>3, <2>4
<1>. QED
  BY <1>2, <1>3

LEMMA OneOpenStep ==
    ASSUME Inv, [Next]_vars
    PROVE  OneOpen'
<1>1. CreatingAgrees /\ OneOpen /\ Ledger!TypeInv /\ CallTypes
  BY DEF Inv, Agreement
<1>2. CASE CreateReturns
  <2>. DEFINE m == CHOOSE i \in Unused : \A j \in Unused : i <= j
              c == creating[1]
  <2>0. PICK n : n = m
    OBVIOUS
  <2>1. /\ orders' = [orders EXCEPT ![n] = Manager!NewOrder(c.token, c.side, c.role, c.shares)]
        /\ store' = store
    BY <1>2, <2>0 DEF CreateReturns, Manager!CreateOrder, venueVars
  <2>2. \A o \in OrderIds : ~IsOpen(o, c.token)
    BY <1>1, <1>2 DEF CreatingAgrees, CreateReturns
  <2>. HIDE DEF m, c
  <2>3. \A o \in OrderIds : o # n => orders'[o] = orders[o]
    BY <1>1, <2>1, ManagerFacts
  <2>4. \A o \in OrderIds, k \in Tokens : o # n /\ IsOpen(o, k)' => IsOpen(o, k)
    BY <2>1, <2>3 DEF IsOpen, Manager!Tracked
  <2>5. \A k \in Tokens : n \in OrderIds /\ IsOpen(n, k)' => k = c.token
    <3>1. n \in OrderIds => orders'[n] = Manager!NewOrder(c.token, c.side, c.role, c.shares)
      BY <1>1, <2>1, ManagerFacts
    <3>2. n \in OrderIds => orders'[n].token = c.token
      BY <3>1 DEF Manager!NewOrder
    <3>. QED
      BY <3>2 DEF IsOpen
  <2>6. ASSUME NEW k \in Tokens, NEW o \in OrderIds, NEW p \in OrderIds, IsOpen(o, k)', IsOpen(p, k)'
        PROVE  o = p
    <3>1. CASE o # n /\ p # n
      BY <1>1, <2>4, <2>6, <3>1 DEF OneOpen
    <3>2. CASE o = n \/ p = n
      <4>1. k = c.token
        BY <2>5, <2>6, <3>2
      <4>. QED
        BY <2>2, <2>4, <2>6, <3>2, <4>1
    <3>. QED
      BY <3>1, <3>2
  <2>. QED
    BY <2>6 DEF OneOpen
<1>3. CASE ~CreateReturns
  BY <1>1, <1>3, OpenShrinks DEF OneOpen
<1>. QED
  BY <1>2, <1>3

-----------------------------------------------------------------------------
(* The calls under way.                                                    *)

LEMMA SamePosition == \A k : Manager!CurrentPosition(k) = Ledger!CurrentPosition(k)
  BY DEF Manager!CurrentPosition, Ledger!CurrentPosition, Manager!OrdersOf, Ledger!OrdersOf,
         Manager!Settling, Ledger!Settling, Manager!OnChain, Ledger!OnChain, Manager!SumOf,
         Ledger!SumOf, Manager!MapThenSumSet, Ledger!MapThenSumSet, Manager!MapThenFoldSet,
         Ledger!MapThenFoldSet

LEMMA AdjustmentType ==
    ASSUME Ledger!TypeInv, NEW k \in Tokens, NEW desired \in DesiredShares, ActiveOrders(k) = {}
    PROVE  LET adj == Adjustment(k, desired) IN adj.side \in Manager!Side /\ adj.shares \in Int
<1>. DEFINE p == Manager!CurrentPosition(k)
            c == Manager!Effective(p)
            adj == Adjustment(k, desired)
<1>1. p \in Ledger!PositionEvent
  BY SamePosition, Assumptions, Ledger!CurrentPositionType DEF Ledger!TypeInv
<1>2. /\ p.opening \in Int /\ p.open_settling \in Int /\ p.closing \in Int
      /\ p.close_settling \in Int /\ p.holding.shares \in Int
  BY <1>1 DEF Ledger!PositionEvent, Ledger!Position
<1>3. desired \in Int
  BY TradingAssumption
<1>4. c \in Int
  <2>. HIDE DEF p
  <2>. QED
    BY <1>2 DEF Manager!Effective
<1>5. Sellable(p) \in Int
  <2>. HIDE DEF p
  <2>. QED
    BY <1>2 DEF Sellable, Manager!Larger
<1>6. \/ adj = [side |-> "BUY", shares |-> desired - c]
      \/ adj = [side |-> "SELL", shares |-> Manager!Smaller(c - desired, Sellable(p))]
      \/ adj = [side |-> "BUY", shares |-> 0]
  <2>1. c > desired \/ desired > c \/ ~(c > desired \/ desired > c)
    OBVIOUS
  <2>. QED
    BY <1>3, <1>4 DEF Adjustment
<1>7. Manager!Smaller(c - desired, Sellable(p)) \in Int
  <2>. HIDE DEF c, p
  <2>. QED
    BY <1>3, <1>4, <1>5 DEF Manager!Smaller
<1>. SUFFICES adj.side \in Manager!Side /\ adj.shares \in Int
  OBVIOUS
<1>. HIDE DEF c, p, adj
<1>. QED
  BY <1>3, <1>4, <1>6, <1>7 DEF Manager!Side

LEMMA CallTypesStep ==
    ASSUME Inv, [Next]_vars
    PROVE  CallTypes'
<1>1. Ledger!TypeInv /\ CallTypes /\ VenueTypes /\ OrdersAgree
  BY DEF Inv, Agreement
<1>. DEFINE C == [token : Tokens, side : Manager!Side, shares : Nat \ {0}, role : Manager!Role]
            A == [cancel : {"none", "ok", "matched"}, reads : Seq({"LIVE", "MATCHED", "CANCELED"})]
<1>2. creating' # NoCreate => creating' = <<creating'[1]>> /\ creating'[1] \in C
  <2>1. CASE UNCHANGED creating
    BY <1>1, <2>1 DEF CallTypes
  <2>2. ASSUME NEW k \in Tokens, NEW desired \in DesiredShares, NEW force \in BOOLEAN,
               StartOrder(k, desired, force)
        PROVE  creating' = <<creating'[1]>> /\ creating'[1] \in C
    <3>. DEFINE adj == Adjustment(k, desired)
                role == IF ~force /\ adj.shares >= MakerShares THEN "MAKER" ELSE "TAKER"
                c == [token |-> k, side |-> adj.side, shares |-> adj.shares, role |-> role]
    <3>1. creating' = <<c>> /\ adj.shares >= ReplaceGap /\ ActiveOrders(k) = {}
      BY <2>2 DEF StartOrder
    <3>2. adj.side \in Manager!Side /\ adj.shares \in Int
      BY <1>1, <3>1, AdjustmentType
    <3>3. role \in Manager!Role
      BY DEF Manager!Role
    <3>. HIDE DEF adj, role
    <3>4. adj.shares \in Nat \ {0}
      BY <3>1, <3>2, TradingAssumption
    <3>5. c \in C
      BY <3>2, <3>3, <3>4
    <3>. HIDE DEF c, C
    <3>. QED
      BY <3>1, <3>5
  <2>3. CASE CreateReturns
    BY <2>3 DEF CreateReturns
  <2>4. \/ UNCHANGED creating
        \/ CreateReturns
        \/ \E k \in Tokens, desired \in DesiredShares, force \in BOOLEAN : StartOrder(k, desired, force)
    BY Zenon DEF Next, vars, ReplaceOrder, Settle, ThreadSubmits, SubmitReturns, ThreadCancels,
         CancelReturns, ThreadReads, ReadReturns, Publish, MarketOrderLoop, MarketTradeLoop, VenueMoves
  <2>. HIDE DEF C
  <2>. QED
    BY <2>1, <2>2, <2>3, <2>4
<1>3. replies' \in [OrderIds -> A]
  <2>1. replies \in [OrderIds -> A]
    BY <1>1 DEF CallTypes
  <2>2. ASSUME NEW o \in OrderIds
        PROVE  /\ OrderAgrees(orders[o], tasks[o], replies[o], store[o].status)
               /\ store[o].status \in Venue!OrderStatus
               /\ store[o].status = "NEW" => tasks[o].cancel = 0 /\ tasks[o].sync = 0
    <3>1. OrderAgrees(orders[o], tasks[o], replies[o], store[o].status)
      BY <1>1 DEF OrdersAgree
    <3>2. store[o].status = "NEW" => tasks[o].cancel = 0 /\ tasks[o].sync = 0
      BY <1>1, <3>1, ManagerFacts DEF OrderAgrees, Manager!NoTask
    <3>. QED
      BY <1>1, <3>1, <3>2 DEF VenueTypes
  <2>3. ASSUME NEW o \in OrderIds, ThreadCancels(o)
        PROVE  replies' \in [OrderIds -> A]
    <3>1. replies' = [replies EXCEPT ![o].cancel = Venue!CancelReply(o)] /\ tasks[o].cancel > 0
      BY <2>3 DEF ThreadCancels
    <3>2. Venue!CancelReply(o) \in {"none", "ok", "matched"}
      <4>1. store[o].status \in {"LIVE", "MATCHED", "CANCELED"}
        BY <2>2, <3>1 DEF Venue!OrderStatus
      <4>. QED
        BY <4>1 DEF Venue!CancelReply
    <3>. QED
      BY <2>1, <3>1, <3>2
  <2>4. ASSUME NEW o \in OrderIds, CancelReturns(o)
        PROVE  replies' \in [OrderIds -> A]
    BY <2>1, <2>4 DEF CancelReturns
  <2>5. ASSUME NEW o \in OrderIds, ThreadReads(o)
        PROVE  replies' \in [OrderIds -> A]
    <3>1. /\ replies' = [replies EXCEPT ![o].reads = Append(@, store[o].status)]
          /\ Len(replies[o].reads) < tasks[o].sync
      BY <2>5 DEF ThreadReads
    <3>2. store[o].status \in {"LIVE", "MATCHED", "CANCELED"}
      <4>1. Len(replies[o].reads) \in Nat
        BY <2>1
      <4>. QED
        BY <2>2, <3>1, <4>1 DEF Venue!OrderStatus
    <3>. DEFINE Q == Seq({"LIVE", "MATCHED", "CANCELED"})
                x == Append(replies[o].reads, store[o].status)
    <3>3. x \in Q
      BY <2>1, <3>2
    <3>4. replies' = [replies EXCEPT ![o].reads = x]
      BY <3>1
    <3>. HIDE DEF Q, x
    <3>. QED
      BY <2>1, <3>3, <3>4 DEF Q
  <2>6. ASSUME NEW o \in OrderIds, ReadReturns(o)
        PROVE  replies' \in [OrderIds -> A]
    <3>1. PICK n \in DOMAIN replies[o].reads :
            replies' = [replies EXCEPT ![o].reads = RemoveAt(@, n)]
      BY <2>6 DEF ReadReturns
    <3>2. RemoveAt(replies[o].reads, n) \in Seq({"LIVE", "MATCHED", "CANCELED"})
      <4>1. replies[o].reads \in Seq({"LIVE", "MATCHED", "CANCELED"}) /\ n \in 1..Len(replies[o].reads)
        BY <2>1, <3>1
      <4>. QED
        BY <4>1, RemovedKeeps
    <3>. DEFINE Q == Seq({"LIVE", "MATCHED", "CANCELED"})
                x == RemoveAt(replies[o].reads, n)
    <3>3. replies' = [replies EXCEPT ![o].reads = x] /\ x \in Q
      BY <3>1, <3>2
    <3>. HIDE DEF Q, x
    <3>. QED
      BY <2>1, <3>3 DEF Q
  <2>. HIDE DEF A
  <2>. QED
    BY <2>1, <2>3, <2>4, <2>5, <2>6, ReplyKinds
<1>. QED
  BY <1>2, <1>3 DEF CallTypes

-----------------------------------------------------------------------------
(* The invariant.                                                          *)

LEMMA InitInv ==
    ASSUME Init
    PROVE  Inv
<1>1. Ledger!TypeInv
  BY Assumptions, SameInit, Ledger!InitTypes DEF Init
<1>2. CallTypes
  BY DEF Init, NoReply, CallTypes
<1>3. VenueTypes
  BY DEF Init, Venue!VenueInit, VenueTypes, Venue!OrderStatus, Manager!Role
<1>4. ReportsAgree
  BY DEF Init, Venue!VenueInit, ReportsAgree
<1>5. \A o \in OrderIds : orders[o] = Manager!NoOrder /\ tasks[o] = Manager!NoTask
                          /\ replies[o] = NoReply /\ store[o].status = "NEW"
  BY DEF Init, Venue!VenueInit, Manager!Init
<1>6. OrdersAgree
  BY <1>5 DEF OrdersAgree, OrderAgrees, Manager!NoOrder, Manager!NoTask, NoReply, Manager!IsCanceled,
       Manager!CanceledStatus
<1>7. CreatingAgrees /\ OneOpen
  BY <1>5 DEF Init, CreatingAgrees, OneOpen, IsOpen, Manager!Tracked, Manager!NoOrder
<1>. QED
  BY <1>1, <1>2, <1>3, <1>4, <1>6, <1>7 DEF Inv, Agreement

LEMMA StepInv ==
    ASSUME Inv, [Next]_vars
    PROVE  Inv'
<1>1. Ledger!TypeInv' /\ CallTypes' /\ VenueTypes'
  BY LedgerStep, CallTypesStep, VenueTypesStep
<1>2. OrdersAgree' /\ ReportsAgree' /\ CreatingAgrees' /\ OneOpen'
  BY OrdersAgreeStep, ReportsAgreeStep, CreatingAgreesStep, OneOpenStep
<1>. QED
  BY <1>1, <1>2 DEF Inv, Agreement

\* The manager's record of an order, the calls and reports about it on their
\* way, and the venue's record of it always agree.
THEOREM InvHolds == Safety => []Inv
<1>1. Init => Inv
  BY InitInv
<1>2. Inv /\ [Next]_vars => Inv'
  BY StepInv
<1>. QED
  BY <1>1, <1>2, PTL DEF Safety

-----------------------------------------------------------------------------
(* What follows from it.                                                   *)

\* Paper trading makes the order manager take its own steps and no others:
\* the ids are new when it creates an order, the reports fit the orders, and
\* a trade is never taken back once mined, so whatever is proved about the
\* manager with an arbitrary venue holds of it here (component.py).
THEOREM ManagerImplemented == Safety => Manager!Init /\ [][Manager!Next]_managerVars
<1>1. Init => Manager!Init
  BY DEF Init
<1>2. Inv /\ [Next]_vars => [Manager!Next]_managerVars
  BY ManagerStep
<1>. QED
  BY <1>1, <1>2, InvHolds, PTL DEF Safety

\* Every queue, call under way and record of the venue has its type; in
\* particular a venue that is asked to cancel an order always knows it.
THEOREM TypeCorrect == Safety => []TypeOK
<1>1. Inv => TypeOK
  <2>. SUFFICES ASSUME Inv PROVE TypeOK
    OBVIOUS
  <2>1. Ledger!TypeInv /\ CallTypes /\ VenueTypes /\ ReportsAgree
    BY DEF Inv, Agreement
  <2>2. Manager!TypeOK
    <3>1. Ledger!TypeOK
      BY <2>1, Assumptions, Ledger!TypeInvImplies
    <3>2. Manager!TypeOK <=> Ledger!TypeOK
      BY Zenon DEF Manager!TypeOK, Ledger!TypeOK, Manager!CoreTypeOK, Ledger!CoreTypeOK,
           Manager!OrderRecord, Ledger!OrderRecord, Manager!TradeRecord, Ledger!TradeRecord,
           Manager!TaskRecord, Ledger!TaskRecord, Manager!Position, Ledger!Position,
           Manager!OrderStatus, Ledger!OrderStatus, Manager!ActiveStatus, Ledger!ActiveStatus,
           Manager!CanceledStatus, Ledger!CanceledStatus, Manager!Side, Ledger!Side,
           Manager!Role, Ledger!Role
    <3>. QED
      BY <3>1, <3>2
  <2>3. /\ Len(creating) <= 1
        /\ creating \in Seq([token : Tokens, side : Manager!Side, shares : Nat, role : Manager!Role])
    <3>. DEFINE C == [token : Tokens, side : Manager!Side, shares : Nat \ {0}, role : Manager!Role]
                D == [token : Tokens, side : Manager!Side, shares : Nat, role : Manager!Role]
    <3>1. C \subseteq D
      OBVIOUS
    <3>2. CASE creating = NoCreate
      BY <3>2 DEF NoCreate
    <3>3. CASE creating # NoCreate
      <4>. DEFINE c == creating[1]
      <4>1. creating = <<c>> /\ c \in C
        BY <2>1, <3>3 DEF CallTypes
      <4>. HIDE DEF c, C, D
      <4>2. c \in D
        BY <3>1, <4>1
      <4>3. <<c>> \in Seq(D) /\ Len(<<c>>) <= 1
        BY <4>2
      <4>. QED
        BY <4>1, <4>3, Zenon DEF D
    <3>. QED
      BY <3>2, <3>3
  <2>4. /\ orderQueue \in Seq(Venue!Events) /\ tradeQueue \in Seq(Venue!Events)
        /\ events \in Seq(Venue!Events) /\ outbox \in Seq(Venue!Events)
    <3>. DEFINE V == Venue!Events
                R == {e \in TrueReports : e.kind = "order"}
                T == {e \in V : e.kind = "trade"}
    <3>1. /\ events \in Seq(TrueReports) /\ outbox \in Seq(TrueReports)
          /\ orderQueue \in Seq(R) /\ tradeQueue \in Seq(T)
      BY <2>1 DEF ReportsAgree
    <3>2. TrueReports \subseteq V /\ R \subseteq V /\ T \subseteq V
      BY DEF TrueReports
    <3>. HIDE DEF V, R, T
    <3>3. orderQueue \in Seq(V) /\ tradeQueue \in Seq(V) /\ events \in Seq(V) /\ outbox \in Seq(V)
      BY <3>1, <3>2
    <3>. QED
      BY <3>3 DEF V
  <2>. QED
    BY <2>1, <2>2, <2>3, <2>4 DEF TypeOK, CallTypes, VenueTypes
<1>. QED
  BY <1>1, InvHolds, PTL

\* The manager's verdict on an order is the venue's: what it believes canceled
\* has not traded and never will, whatever order replies, re-reads and reports
\* come in.
THEOREM VerdictsCorrect == Safety => []VerdictsAgree
<1>1. Inv => VerdictsAgree
  <2>. SUFFICES ASSUME Inv, NEW o \in OrderIds
                PROVE  /\ Manager!IsCanceled(orders[o]) => store[o].status = "CANCELED"
                       /\ orders[o].status = "FULL_MATCHED" => store[o].status = "MATCHED"
    BY DEF VerdictsAgree
  <2>1. OrderAgrees(orders[o], tasks[o], replies[o], store[o].status) /\ Ledger!TypeInv
    BY DEF Inv, Agreement, OrdersAgree
  <2>. QED
    BY <2>1, ManagerFacts DEF OrderAgrees
<1>. QED
  BY <1>1, InvHolds, PTL

\* However many orders are placed, at most one of a token can still trade.
THEOREM OneOpenCorrect == Safety => []OneOpenOrder
<1>1. Inv => OneOpenOrder
  BY DEF Inv, Agreement, OneOpen, OneOpenOrder, Placed, IsOpen
<1>. QED
  BY <1>1, InvHolds, PTL

\* A cancel, a quote and a poll may race for an order: the first to reach the
\* store decides, and nobody decides otherwise later.
THEOREM OutcomesFinal == Safety => OutcomeIsFinal
<1>1. Inv /\ [Next]_vars =>
        [\A o \in OrderIds :
           store[o].status \in {"MATCHED", "CANCELED"} => store'[o].status = store[o].status]_vars
  BY StoreStep DEF Inv, StoreMoves
<1>. QED
  BY <1>1, InvHolds, PTL DEF Safety, OutcomeIsFinal

-----------------------------------------------------------------------------
(* The history of an order's reports.                                      *)

\* An order has a trade when it has matched, and only one.
FillsAgree ==
    /\ \A n \in DOMAIN fills : store[fills[n].order].status = "MATCHED"
    /\ \A m, n \in DOMAIN fills : fills[m].order = fills[n].order => m = n

\* The reports of an order that were published or wait to be.
HistoryOf(o) == sent[o] \o OnlyIn(outbox \o events, EventsOf(o))

IsMined(o) == \E n \in DOMAIN fills : fills[n] = [order |-> o, status |-> "MINED"]

\* What they are, by what the venue has done with the order.
Story(o) ==
    IF store[o].status = "CANCELED" THEN <<Venue!OrderEvent(o, "CANCELED")>>
    ELSE IF store[o].status # "MATCHED" THEN <<>>
    ELSE IF IsMined(o)
         THEN <<Venue!OrderEvent(o, "MATCHED"), Venue!TradeEvent(o, "MATCHED"),
                Venue!TradeEvent(o, "MINED")>>
         ELSE <<Venue!OrderEvent(o, "MATCHED"), Venue!TradeEvent(o, "MATCHED")>>

\* A poll starts only when all reports of the last one are published.
HistoryInv ==
    /\ FillsAgree
    /\ loop \in {"poll", "drain"} => outbox = <<>>
    /\ \A o \in OrderIds : HistoryOf(o) = Story(o)

LEMMA QueueTypes ==
    ASSUME Inv
    PROVE  /\ outbox \in Seq(Venue!Events) /\ events \in Seq(Venue!Events)
           /\ outbox \o events \in Seq(Venue!Events)
           /\ sent \in [OrderIds -> Seq(Venue!Events)]
<1>. DEFINE V == Venue!Events
<1>1. TrueReports \subseteq V /\ outbox \in Seq(TrueReports) /\ events \in Seq(TrueReports)
      /\ sent \in [OrderIds -> Seq(V)]
  BY DEF Inv, Agreement, ReportsAgree, TrueReports, VenueTypes
<1>. HIDE DEF V
<1>2. outbox \in Seq(V) /\ events \in Seq(V)
  BY <1>1
<1>3. outbox \o events \in Seq(V)
  BY <1>2, ConcatProperties
<1>. QED
  BY <1>1, <1>2, <1>3 DEF V

LEMMA StoryType ==
    ASSUME NEW o \in OrderIds
    PROVE  Story(o) \in Seq(Venue!Events)
<1>. DEFINE V == Venue!Events
            x == Venue!OrderEvent(o, "MATCHED")
            y == Venue!TradeEvent(o, "MATCHED")
            z == Venue!TradeEvent(o, "MINED")
            c == Venue!OrderEvent(o, "CANCELED")
<1>1. x \in V /\ y \in V /\ z \in V /\ c \in V
  BY DEF Venue!OrderEvent, Venue!TradeEvent, Venue!Events
<1>. HIDE DEF V, x, y, z, c
<1>2. <<x, y, z>> \in Seq(V) /\ <<x, y>> \in Seq(V) /\ <<c>> \in Seq(V) /\ <<>> \in Seq(V)
  BY <1>1
<1>. QED
  BY <1>2, Zenon DEF Story, V, x, y, z, c

\* New reports of the venue come after the old ones.
LEMMA HistoryGrows ==
    ASSUME Inv, NEW m \in Seq(Venue!Events), events' = events \o m, outbox' = outbox, sent' = sent,
           NEW o \in OrderIds
    PROVE  HistoryOf(o)' = HistoryOf(o) \o OnlyIn(m, EventsOf(o))
<1>. DEFINE V == Venue!Events
            E == EventsOf(o)
            q == outbox \o events
<1>1. outbox \in Seq(V) /\ events \in Seq(V) /\ q \in Seq(V) /\ sent[o] \in Seq(V) /\ m \in Seq(V)
  BY QueueTypes
<1>2. E' = E
  BY DEF EventsOf
<1>3. (outbox \o events)' = q \o m
  <2>1. outbox \in Seq(V) /\ events \in Seq(V) /\ m \in Seq(V)
    BY <1>1, Zenon
  <2>. HIDE DEF V, q, E
  <2>2. outbox \o (events \o m) = (outbox \o events) \o m
    BY <2>1, ConcatAssociative, SMTT(30)
  <2>. QED
    BY <2>2, Zenon DEF q
<1>4. OnlyIn(q \o m, E) = OnlyIn(q, E) \o OnlyIn(m, E)
  <2>. HIDE DEF V, q, E
  <2>. QED
    BY <1>1, SelectConcat
<1>5. OnlyIn(q, E) \in Seq(V) /\ OnlyIn(m, E) \in Seq(V)
  <2>. HIDE DEF V, q, E
  <2>. QED
    BY <1>1, SelectType
<1>6. HistoryOf(o)' = sent[o] \o OnlyIn(q \o m, E)
  BY <1>2, <1>3 DEF HistoryOf
<1>7. sent[o] \o (OnlyIn(q, E) \o OnlyIn(m, E)) = (sent[o] \o OnlyIn(q, E)) \o OnlyIn(m, E)
  <2>. HIDE DEF V, q, E
  <2>. QED
    <3>1. \A a, b, c \in Seq(V) : (a \o b) \o c = a \o (b \o c)
      BY ConcatAssociative
    <3>. QED
      BY <1>1, <1>5, <3>1, ZenonT(30)
<1>. QED
  BY <1>4, <1>6, <1>7 DEF HistoryOf

\* Publishing a report moves it from what waits to what was sent.
LEMMA HistoryMoves ==
    ASSUME Inv, Publish, NEW o \in OrderIds
    PROVE  HistoryOf(o)' = HistoryOf(o)
<1>. DEFINE V == Venue!Events
            E == EventsOf(o)
            q == outbox \o events
            h == Head(outbox)
            w == Tail(outbox) \o events
            i == h.order
<1>1. /\ outbox # <<>> /\ outbox' = Tail(outbox) /\ events' = events
      /\ sent' = [sent EXCEPT ![i] = Append(@, h)]
  BY DEF Publish, Venue!Yield
<1>2. /\ outbox \in Seq(V) /\ events \in Seq(V) /\ q \in Seq(V) /\ sent[o] \in Seq(V)
      /\ sent \in [OrderIds -> Seq(V)]
  BY QueueTypes
<1>3. h \in V /\ Tail(outbox) \in Seq(V) /\ w \in Seq(V)
  <2>. HIDE DEF V
  <2>. QED
    BY <1>1, <1>2, HeadTailProperties, ConcatProperties
<1>4. q # <<>> /\ Head(q) = h /\ Tail(q) = w
  <2>. HIDE DEF V
  <2>1. outbox = <<h>> \o Tail(outbox) /\ <<h>> \in Seq(V)
    BY <1>1, <1>2, <1>3
  <2>2. q = <<h>> \o w
    BY <1>2, <1>3, <2>1, ConcatAssociative
  <2>. HIDE DEF q, w, h
  <2>. QED
    BY <1>3, <2>1, <2>2
<1>5. OnlyIn(q, E) = IF h \in E THEN <<h>> \o OnlyIn(w, E) ELSE OnlyIn(w, E)
  <2>. HIDE DEF V, E, q, w, h
  <2>. QED
    BY <1>2, <1>4, SelectHead
<1>6. OnlyIn(w, E) \in Seq(V)
  <2>. HIDE DEF V, E, q, w, h
  <2>. QED
    BY <1>3, SelectType
<1>7. HistoryOf(o)' = sent'[o] \o OnlyIn(w, E)
  BY <1>1 DEF HistoryOf, EventsOf
<1>8. HistoryOf(o) = sent[o] \o OnlyIn(q, E)
  BY DEF HistoryOf
<1>9. h \in E <=> i = o
  BY <1>3 DEF EventsOf
<1>10. CASE i = o
  <2>1. sent'[o] = sent[o] \o <<h>> /\ <<h>> \in Seq(V)
    <3>. HIDE DEF V, h
    <3>1. sent'[o] = Append(sent[o], h)
      BY <1>1, <1>2, <1>10
    <3>2. Append(sent[o], h) = sent[o] \o <<h>> /\ <<h>> \in Seq(V)
      BY <1>2, <1>3
    <3>. QED
      BY <3>1, <3>2
  <2>. HIDE DEF V, E, q, w, h
  <2>2. (sent[o] \o <<h>>) \o OnlyIn(w, E) = sent[o] \o (<<h>> \o OnlyIn(w, E))
    BY <1>2, <1>6, <2>1, ConcatAssociative
  <2>. QED
    BY <1>5, <1>7, <1>8, <1>9, <1>10, <2>1, <2>2, Zenon
<1>11. CASE i # o
  <2>1. sent'[o] = sent[o]
    <3>. HIDE DEF V, h
    <3>. QED
      BY <1>1, <1>2, <1>11
  <2>. HIDE DEF V, E, q, w, h
  <2>. QED
    BY <1>5, <1>7, <1>8, <1>9, <1>11, <2>1, Zenon
<1>. QED
  BY <1>10, <1>11

LEMMA FillsAgreeStep ==
    ASSUME Inv, FillsAgree, [Next]_vars
    PROVE  FillsAgree'
<1>1. VenueTypes
  BY DEF Inv
<1>2. \A o \in OrderIds : store[o].status = "MATCHED" => store'[o].status = "MATCHED"
  BY <1>1, StoreStep DEF StoreMoves
<1>3. CASE DOMAIN fills' = DOMAIN fills /\ \A n \in DOMAIN fills : fills'[n].order = fills[n].order
  BY <1>1, <1>2, <1>3, FillTypes DEF FillsAgree
<1>4. CASE VenueMoves(Venue!FillNext) /\ fills' # fills
  <2>. DEFINE o == Head(scan)
              x == [order |-> o, status |-> "MATCHED"]
              F == [order : OrderIds, status : {"MATCHED", "MINED"}]
  <2>1. /\ scan # <<>> /\ store[o].status = "LIVE" /\ fills' = Append(fills, x)
        /\ store' = [store EXCEPT ![o].status = "MATCHED"]
    BY <1>4 DEF VenueMoves, Venue!FillNext, Venue!MarkMatched, Venue!Fillable
  <2>2. o \in OrderIds /\ fills \in Seq(F)
    BY <1>1, <2>1 DEF VenueTypes
  <2>3. x \in F /\ x.order = o
    BY <2>2
  <2>4. store'[o].status = "MATCHED"
    <3>. HIDE DEF o
    <3>. QED
      BY <1>1, <2>1, <2>2 DEF VenueTypes
  <2>5. \A n \in DOMAIN fills : fills[n].order # o
    BY <2>1 DEF FillsAgree
  <2>. HIDE DEF x, F, o
  <2>6. /\ DOMAIN fills' = DOMAIN fills \cup {Len(fills) + 1}
        /\ fills'[Len(fills) + 1] = x /\ \A n \in DOMAIN fills : fills'[n] = fills[n]
    BY <2>1, <2>2, <2>3
  <2>. QED
    BY <1>1, <1>2, <2>3, <2>4, <2>5, <2>6, FillTypes DEF FillsAgree
<1>5. CASE VenueMoves(Venue!PromoteMined)
  BY <1>1, <1>5, FillTypes, <1>3 DEF VenueMoves, Venue!PromoteMined
<1>6. \/ fills' = fills
      \/ VenueMoves(Venue!FillNext)
      \/ VenueMoves(Venue!PromoteMined)
  BY VenueKinds, Zenon DEF venueVars, ThreadSubmits, Venue!Submit, ThreadCancels, Venue!CancelStore,
     Publish, Venue!Yield, VenueMoves, Venue!StartQuote, Venue!StartPoll, Venue!EndQuote,
     Venue!DrainEvents, Venue!Ripen, Venue!Age
<1>. QED
  BY <1>3, <1>4, <1>5, <1>6

LEMMA PollStep ==
    ASSUME HistoryInv, [Next]_vars
    PROVE  (loop \in {"poll", "drain"} => outbox = <<>>)'
<1>1. CASE UNCHANGED <<loop, outbox>>
  BY <1>1 DEF HistoryInv
<1>2. CASE Publish
  BY <1>2 DEF Publish, Venue!Yield
<1>3. CASE VenueMoves(Venue!StartPoll) \/ VenueMoves(Venue!PromoteMined)
  BY <1>3 DEF VenueMoves, Venue!StartPoll, Venue!PromoteMined, HistoryInv
<1>4. CASE VenueMoves(Venue!DrainEvents) \/ VenueMoves(Venue!EndQuote)
           \/ \E k \in Tokens : VenueMoves(Venue!StartQuote(k))
  BY <1>4 DEF VenueMoves, Venue!DrainEvents, Venue!EndQuote, Venue!StartQuote
<1>5. CASE VenueMoves(Venue!FillNext) \/ VenueMoves(Venue!Ripen)
           \/ \E o \in OrderIds : ThreadSubmits(o) \/ ThreadCancels(o) \/ VenueMoves(Venue!Age(o))
  BY <1>1, <1>5, Zenon DEF VenueMoves, Venue!FillNext, Venue!Ripen, Venue!Age, ThreadSubmits,
     Venue!Submit, ThreadCancels, Venue!CancelStore
<1>. QED
  BY <1>1, <1>2, <1>3, <1>4, <1>5, VenueKinds, Zenon DEF venueVars

\* One report is selected when it is about the order.
LEMMA OneReport ==
    ASSUME NEW e \in Venue!Events, NEW o \in OrderIds
    PROVE  OnlyIn(<<e>>, EventsOf(o)) = IF e.order = o THEN <<e>> ELSE <<>>
<1>. DEFINE V == Venue!Events
            E == EventsOf(o)
            s == <<e>>
<1>1. e \in E <=> e.order = o
  BY DEF EventsOf
<1>2. s \in Seq(V) /\ s # <<>> /\ Head(s) = e /\ Tail(s) = <<>> /\ s \o <<>> = s
  OBVIOUS
<1>3. OnlyIn(s, E) = IF e \in E THEN <<e>> \o OnlyIn(Tail(s), E) ELSE OnlyIn(Tail(s), E)
  <2>. HIDE DEF V, E, s
  <2>. QED
    BY <1>2, SelectHead
<1>4. OnlyIn(Tail(s), E) = <<>>
  BY <1>2, SelectEmpty
<1>. HIDE DEF V, E
<1>. QED
  BY <1>1, <1>2, <1>3, <1>4, Zenon DEF E

\* A canceled order is reported as such, and nothing else.
LEMMA CancelHistory ==
    ASSUME Inv, HistoryInv, [Next]_vars, NEW p \in OrderIds, ThreadCancels(p), store' # store,
           NEW o \in OrderIds
    PROVE  HistoryOf(o)' = Story(o)'
<1>. DEFINE e == Venue!OrderEvent(p, "CANCELED")
            V == Venue!Events
            E == EventsOf(o)
<1>1. /\ store[p].status = "LIVE" /\ store' = [store EXCEPT ![p].status = "CANCELED"]
      /\ events' = Append(events, e) /\ outbox' = outbox /\ sent' = sent /\ fills' = fills
  BY DEF ThreadCancels, Venue!CancelStore, busVars
<1>2. e \in V /\ e.order = p /\ events \in Seq(V)
  BY QueueTypes DEF Venue!OrderEvent, Venue!Events
<1>3. /\ <<e>> \in Seq(V) /\ Len(<<e>>) = 1 /\ <<e>>[1] = e
      /\ Append(events, e) = events \o <<e>>
  <2>. HIDE DEF e, V
  <2>. QED
    BY <1>2
<1>4. HistoryOf(o)' = Story(o) \o OnlyIn(<<e>>, E)
  <2>1. HistoryOf(o)' = HistoryOf(o) \o OnlyIn(<<e>>, E)
    <3>. HIDE DEF e
    <3>. QED
      BY <1>1, <1>3, HistoryGrows
  <2>. QED
    BY <2>1 DEF HistoryInv
<1>5. store \in [OrderIds -> [status : Venue!OrderStatus, role : Manager!Role,
                              token : Tokens \cup {NoToken}]]
  BY DEF Inv, VenueTypes
<1>6. CASE o = p
  <2>1. Story(o) = <<>> /\ Story(o)' = <<e>>
    BY <1>1, <1>5, <1>6 DEF Story
  <2>2. OnlyIn(<<e>>, E) = <<e>>
    <3>. HIDE DEF e
    <3>. QED
      BY <1>2, <1>6, OneReport
  <2>3. <<>> \o <<e>> = <<e>>
    <3>. HIDE DEF e, V
    <3>. QED
      BY <1>3, ConcatEmptySeq
  <2>. QED
    BY <1>4, <2>1, <2>2, <2>3, Zenon
<1>7. CASE o # p
  <2>1. store'[o] = store[o] /\ IsMined(o)' = IsMined(o)
    BY <1>1, <1>5, <1>7 DEF IsMined
  <2>2. Story(o)' = Story(o)
    BY <2>1, Zenon DEF Story, Venue!OrderEvent, Venue!TradeEvent
  <2>3. OnlyIn(<<e>>, E) = <<>>
    <3>. HIDE DEF e
    <3>. QED
      BY <1>2, <1>7, OneReport
  <2>4. Story(o) \o <<>> = Story(o)
    BY StoryType, ConcatEmptySeq
  <2>. QED
    BY <1>4, <2>2, <2>3, <2>4, Zenon
<1>. QED
  BY <1>6, <1>7

\* An order that is filled is reported as matched, and then its trade.
LEMMA FillHistory ==
    ASSUME Inv, HistoryInv, VenueMoves(Venue!FillNext), fills' # fills, NEW o \in OrderIds
    PROVE  HistoryOf(o)' = Story(o)'
<1>. DEFINE p == Head(scan)
            x == Venue!OrderEvent(p, "MATCHED")
            y == Venue!TradeEvent(p, "MATCHED")
            V == Venue!Events
            E == EventsOf(o)
            F == [order : OrderIds, status : {"MATCHED", "MINED"}]
            g == [order |-> p, status |-> "MATCHED"]
<1>1. /\ store[p].status = "LIVE" /\ store' = [store EXCEPT ![p].status = "MATCHED"]
      /\ events' = events \o <<x, y>> /\ outbox' = outbox /\ sent' = sent
      /\ fills' = Append(fills, g) /\ scan # <<>>
  BY DEF VenueMoves, Venue!FillNext, Venue!MarkMatched, Venue!Fillable, busVars
<1>2. /\ p \in OrderIds /\ fills \in Seq(F)
      /\ store \in [OrderIds -> [status : Venue!OrderStatus, role : Manager!Role,
                                 token : Tokens \cup {NoToken}]]
  BY <1>1 DEF Inv, VenueTypes
<1>3. x \in V /\ y \in V /\ x.order = p /\ y.order = p
  BY <1>2 DEF Venue!OrderEvent, Venue!TradeEvent, Venue!Events
<1>4. <<x, y>> \in Seq(V) /\ <<x, y>> # <<>> /\ Head(<<x, y>>) = x /\ Tail(<<x, y>>) = <<y>>
      /\ <<x>> \o <<y>> = <<x, y>> /\ <<>> \o <<x, y>> = <<x, y>>
  <2>. HIDE DEF x, y, V
  <2>1. <<x>> \o <<y>> = <<x, y>>
    BY <1>3, PairThenOne
  <2>. QED
    BY <1>3, <2>1
<1>5. HistoryOf(o)' = Story(o) \o OnlyIn(<<x, y>>, E)
  <2>1. HistoryOf(o)' = HistoryOf(o) \o OnlyIn(<<x, y>>, E)
    <3>. HIDE DEF x, y
    <3>. QED
      BY <1>1, <1>4, HistoryGrows
  <2>. QED
    BY <2>1 DEF HistoryInv
<1>6. OnlyIn(<<x, y>>, E) = IF p = o THEN <<x, y>> ELSE <<>>
  <2>. DEFINE s == <<x, y>>
  <2>1. OnlyIn(s, E) = IF x \in E THEN <<x>> \o OnlyIn(Tail(s), E) ELSE OnlyIn(Tail(s), E)
    <3>1. s \in Seq(V) /\ s # <<>> /\ Head(s) = x
      BY <1>4
    <3>. HIDE DEF s, V, E, x, y
    <3>. QED
      BY <3>1, SelectHead
  <2>2. OnlyIn(<<y>>, E) = IF p = o THEN <<y>> ELSE <<>>
    <3>. HIDE DEF y
    <3>. QED
      BY <1>3, OneReport
  <2>3. x \in E <=> p = o
    BY <1>3 DEF EventsOf
  <2>. HIDE DEF x, y, E, p
  <2>. QED
    BY <1>4, <2>1, <2>2, <2>3, Zenon
<1>7. \A n \in DOMAIN fills : fills[n].order # p
  BY <1>1 DEF HistoryInv, FillsAgree
<1>8. IsMined(o)' <=> IsMined(o)
  <2>1. g.status = "MATCHED" /\ g \in F
    BY <1>2
  <2>. HIDE DEF g, F
  <2>2. /\ DOMAIN fills' = DOMAIN fills \cup {Len(fills) + 1}
        /\ fills'[Len(fills) + 1] = g /\ \A n \in DOMAIN fills : fills'[n] = fills[n]
    BY <1>1, <1>2, <2>1
  <2>. QED
    BY <2>1, <2>2 DEF IsMined
<1>9. CASE o = p
  <2>1. ~IsMined(o)
    BY <1>7, <1>9 DEF IsMined
  <2>2. store'[o].status = "MATCHED"
    <3>. HIDE DEF p
    <3>. QED
      BY <1>1, <1>2, <1>9
  <2>3. Story(o) = <<>> /\ Story(o)' = <<x, y>>
    BY <1>1, <1>8, <1>9, <2>1, <2>2 DEF Story
  <2>. QED
    BY <1>4, <1>5, <1>6, <1>9, <2>3, Zenon
<1>10. CASE o # p
  <2>1. store'[o] = store[o]
    <3>. HIDE DEF p
    <3>. QED
      BY <1>1, <1>2, <1>10
  <2>2. Story(o)' = Story(o)
    BY <1>8, <2>1, Zenon DEF Story, Venue!OrderEvent, Venue!TradeEvent
  <2>3. Story(o) \o <<>> = Story(o)
    BY StoryType, ConcatEmptySeq
  <2>. QED
    BY <1>5, <1>6, <1>10, <2>2, <2>3, Zenon
<1>. QED
  BY <1>9, <1>10

\* The places of the trades that are due, each once.
LEMMA DueOnce ==
    ASSUME VenueTypes, NEW q, q = Venue!DueInOrder
    PROVE  /\ q \in Seq(Venue!Due)
           /\ \A i, j \in 1..Len(q) : q[i] = q[j] => i = j
           /\ \A n \in Venue!Due : \E i \in 1..Len(q) : q[i] = n
<1>. DEFINE D == DOMAIN fills
            U == Venue!Due
            s == [n \in D |-> n]
<1>1. /\ D = 1..Len(fills) /\ Len(fills) \in Nat /\ U \subseteq D
      /\ q = OnlyIn(s, U) /\ q \in Seq(U)
  BY FillTypes, DueType, SameSelection DEF Venue!DueInOrder
<1>2. s \in Seq(D) /\ Len(s) = Len(fills) /\ \A n \in D : s[n] = n
  BY <1>1
<1>3. \A i, j \in 1..Len(s) : s[i] = s[j] => i = j
  BY <1>1, <1>2
<1>4. /\ \A i, j \in 1..Len(q) : q[i] = q[j] => i = j
      /\ \A x \in D : (\E i \in 1..Len(q) : q[i] = x) <=> x \in U /\ \E i \in 1..Len(s) : s[i] = x
  <2>1. s \in Seq(D) /\ q = OnlyIn(s, U)
    BY <1>1, <1>2
  <2>. HIDE DEF D, U, s
  <2>. QED
    BY <1>3, <2>1, SelectDistinct
<1>5. ASSUME NEW n \in U
      PROVE  \E i \in 1..Len(q) : q[i] = n
  <2>1. n \in D /\ n \in 1..Len(s) /\ s[n] = n
    BY <1>1, <1>2
  <2>. HIDE DEF D, U, s
  <2>. QED
    BY <1>4, <2>1
<1>. QED
  BY <1>1, <1>4, <1>5

\* A trade that is due is reported mined once, after what was reported before.
LEMMA MineHistory ==
    ASSUME Inv, HistoryInv, VenueMoves(Venue!PromoteMined), NEW o \in OrderIds
    PROVE  HistoryOf(o)' = Story(o)'
<1>. DEFINE q == Venue!DueInOrder
            m == [n \in DOMAIN q |-> Venue!TradeEvent(fills[q[n]].order, "MINED")]
            V == Venue!Events
            E == EventsOf(o)
            x == Venue!OrderEvent(o, "MATCHED")
            y == Venue!TradeEvent(o, "MATCHED")
            z == Venue!TradeEvent(o, "MINED")
<1>1. /\ events' = events \o m /\ outbox' = outbox /\ sent' = sent /\ store' = store
      /\ fills' = [n \in DOMAIN fills |-> IF n \in Venue!Due
                                          THEN [fills[n] EXCEPT !.status = "MINED"] ELSE fills[n]]
  BY DEF VenueMoves, Venue!PromoteMined, busVars
<1>2. VenueTypes /\ FillsAgree /\ HistoryOf(o) = Story(o)
  BY DEF Inv, HistoryInv
<1>3. /\ q \in Seq(Venue!Due) /\ DOMAIN q = 1..Len(q) /\ Len(q) \in Nat
      /\ \A i, j \in 1..Len(q) : q[i] = q[j] => i = j
      /\ \A n \in Venue!Due : \E i \in 1..Len(q) : q[i] = n
      /\ \A n \in 1..Len(q) : q[n] \in Venue!Due /\ q[n] \in DOMAIN fills /\ fills[q[n]].order \in OrderIds
      /\ Venue!Due \subseteq DOMAIN fills
  BY <1>2, DueOnce, DueType
<1>4. /\ m \in Seq(V) /\ Len(m) = Len(q)
      /\ \A n \in 1..Len(q) : /\ m[n] = Venue!TradeEvent(fills[q[n]].order, "MINED")
                              /\ m[n] \in E <=> fills[q[n]].order = o
  <2>1. \A n \in 1..Len(q) :
          LET e == Venue!TradeEvent(fills[q[n]].order, "MINED")
          IN  e \in V /\ (e \in E <=> fills[q[n]].order = o)
    <3>. HIDE DEF q
    <3>. QED
      BY <1>3 DEF EventsOf, Venue!TradeEvent, Venue!Events
  <2>. HIDE DEF q, V, E
  <2>. QED
    BY <1>3, <2>1
<1>5. HistoryOf(o)' = Story(o) \o OnlyIn(m, E)
  <2>. HIDE DEF m
  <2>. QED
    BY <1>1, <1>2, <1>4, HistoryGrows
<1>6. \A n \in Venue!Due : fills[n].status = "MATCHED"
  BY DEF Venue!Due
<1>7. CASE \E n \in Venue!Due : fills[n].order = o
  <2>1. PICK n \in Venue!Due : fills[n].order = o
    BY <1>7
  <2>2. PICK i \in 1..Len(q) : q[i] = n
    BY <1>3
  <2>3. m[i] \in E /\ m[i] = z /\ i \in 1..Len(m)
    BY <1>4, <2>1, <2>2
  <2>4. ASSUME NEW j \in 1..Len(m), m[j] \in E
        PROVE  j = i
    <3>1. fills[q[j]].order = o /\ q[j] \in DOMAIN fills /\ n \in DOMAIN fills /\ j \in 1..Len(q)
      BY <1>3, <1>4, <2>4
    <3>2. q[j] = n
      BY <1>2, <2>1, <3>1 DEF FillsAgree
    <3>. QED
      BY <1>3, <2>2, <3>1, <3>2
  <2>5. OnlyIn(m, E) = <<z>>
    <3>1. /\ m \in Seq(V) /\ i \in 1..Len(m) /\ m[i] \in E /\ m[i] = z
          /\ \A j \in 1..Len(m) : m[j] \in E => j = i
      BY <1>4, <2>3, <2>4
    <3>. HIDE DEF m, E, V, z
    <3>. QED
      BY <3>1, SelectOne
  <2>6. store[o].status = "MATCHED"
    BY <1>2, <1>3, <2>1 DEF FillsAgree
  <2>7. ~IsMined(o)
    <3>. SUFFICES ASSUME NEW j \in DOMAIN fills, fills[j] = [order |-> o, status |-> "MINED"]
                  PROVE  FALSE
      BY DEF IsMined
    <3>1. fills[j].order = o /\ fills[j].status = "MINED"
      OBVIOUS
    <3>2. j = n
      BY <1>2, <1>3, <2>1, <3>1 DEF FillsAgree
    <3>. QED
      BY <1>6, <3>1, <3>2
  <2>8. IsMined(o)'
    <3>1. n \in DOMAIN fills /\ fills[n] \in [order : OrderIds, status : {"MATCHED", "MINED"}]
      BY <1>2, <1>3, FillTypes
    <3>2. n \in DOMAIN fills' /\ fills'[n] = [order |-> o, status |-> "MINED"]
      BY <1>1, <2>1, <3>1
    <3>. QED
      BY <3>2 DEF IsMined
  <2>9. Story(o) = <<x, y>> /\ Story(o)' = <<x, y, z>>
    <3>1. store'[o].status = "MATCHED"
      BY <1>1, <2>6
    <3>. QED
      BY <2>6, <2>7, <2>8, <3>1 DEF Story
  <2>10. <<x, y>> \o <<z>> = <<x, y, z>>
    <3>1. x \in V /\ y \in V /\ z \in V
      BY DEF Venue!OrderEvent, Venue!TradeEvent, Venue!Events
    <3>. HIDE DEF x, y, z, V
    <3>. QED
      BY <3>1, PairThenOne
  <2>. QED
    BY <1>5, <2>5, <2>9, <2>10, Zenon
<1>8. CASE \A n \in Venue!Due : fills[n].order # o
  <2>1. OnlyIn(m, E) = <<>>
    <3>1. \A j \in 1..Len(m) : m[j] \notin E
      BY <1>3, <1>4, <1>8
    <3>. HIDE DEF m, E, V
    <3>. QED
      BY <1>4, <3>1, SelectNone
  <2>2. IsMined(o)' <=> IsMined(o)
    <3>1. DOMAIN fills' = DOMAIN fills /\ \A n \in DOMAIN fills : n \notin Venue!Due => fills'[n] = fills[n]
      BY <1>1
    <3>2. \A n \in DOMAIN fills : fills'[n].order = fills[n].order
      BY <1>1, <1>2, FillTypes
    <3>. QED
      BY <1>3, <1>8, <3>1, <3>2 DEF IsMined
  <2>3. Story(o)' = Story(o)
    BY <1>1, <2>2, Zenon DEF Story, Venue!OrderEvent, Venue!TradeEvent
  <2>4. Story(o) \o <<>> = Story(o)
    BY StoryType, ConcatEmptySeq
  <2>. QED
    BY <1>5, <2>1, <2>3, <2>4, Zenon
<1>. QED
  BY <1>7, <1>8

\* Steps that neither report anything nor publish a report.
LEMMA QuietHistory ==
    ASSUME Inv, HistoryInv, [Next]_vars, NEW o \in OrderIds, sent' = sent, fills' = fills,
           (outbox \o events)' = outbox \o events,
           store'[o].status = store[o].status \/ store'[o].status = "LIVE"
    PROVE  HistoryOf(o)' = Story(o)'
<1>1. HistoryOf(o)' = HistoryOf(o) /\ HistoryOf(o) = Story(o)
  BY DEF HistoryOf, EventsOf, HistoryInv
<1>2. StoreMoves(o)
  BY StoreStep DEF Inv
<1>3. IsMined(o)' = IsMined(o)
  BY DEF IsMined
<1>4. CASE store'[o].status = store[o].status
  <2>1. Story(o)' = Story(o)
    BY <1>3, <1>4, Zenon DEF Story, Venue!OrderEvent, Venue!TradeEvent
  <2>. QED
    BY <1>1, <2>1
<1>5. CASE store'[o].status # store[o].status
  <2>1. store'[o].status = "LIVE" /\ store[o].status = "NEW"
    BY <1>2, <1>5 DEF StoreMoves, Final
  <2>2. Story(o) = <<>> /\ Story(o)' = <<>>
    BY <2>1 DEF Story
  <2>. QED
    BY <1>1, <2>2
<1>. QED
  BY <1>4, <1>5

LEMMA HistoryStep ==
    ASSUME Inv, HistoryInv, [Next]_vars
    PROVE  HistoryInv'
<1>1. FillsAgree' /\ (loop \in {"poll", "drain"} => outbox = <<>>)'
  BY FillsAgreeStep, PollStep DEF HistoryInv
<1>. SUFFICES ASSUME NEW o \in OrderIds
              PROVE  HistoryOf(o)' = Story(o)'
  BY <1>1 DEF HistoryInv
<1>2. CASE UNCHANGED <<store, fills, events, outbox, sent>>
  BY <1>2, QuietHistory
<1>3. ASSUME NEW p \in OrderIds, ThreadSubmits(p)
      PROVE  HistoryOf(o)' = Story(o)'
  <2>1. /\ UNCHANGED <<fills, events, outbox, sent>>
        /\ \E role, token : store' = [store EXCEPT ![p] = [status |-> "LIVE", role |-> role, token |-> token]]
    BY <1>3 DEF ThreadSubmits, Venue!Submit, busVars
  <2>2. store'[o].status = store[o].status \/ store'[o].status = "LIVE"
    BY <2>1 DEF Inv, VenueTypes
  <2>. QED
    BY <2>1, <2>2, QuietHistory
<1>4. ASSUME NEW p \in OrderIds, ThreadCancels(p)
      PROVE  HistoryOf(o)' = Story(o)'
  <2>1. store' # store \/ UNCHANGED <<store, fills, events, outbox, sent>>
    <3>1. CASE store[p].status = "LIVE"
      <4>1. store' = [store EXCEPT ![p].status = "CANCELED"]
        BY <1>4, <3>1 DEF ThreadCancels, Venue!CancelStore
      <4>2. store'[p].status = "CANCELED"
        BY <4>1 DEF Inv, VenueTypes
      <4>. QED
        BY <3>1, <4>2
    <3>2. CASE store[p].status # "LIVE"
      BY <1>4, <3>2 DEF ThreadCancels, Venue!CancelStore, busVars
    <3>. QED
      BY <3>1, <3>2
  <2>. QED
    BY <1>2, <1>4, <2>1, CancelHistory
<1>5. CASE Publish
  <2>1. UNCHANGED <<store, fills>> /\ HistoryOf(o)' = HistoryOf(o)
    BY <1>5, HistoryMoves DEF Publish, Venue!Yield
  <2>2. IsMined(o)' = IsMined(o)
    BY <2>1 DEF IsMined
  <2>3. Story(o)' = Story(o)
    BY <2>1, <2>2, Zenon DEF Story, Venue!OrderEvent, Venue!TradeEvent
  <2>. QED
    BY <2>1, <2>3 DEF HistoryInv
<1>6. CASE VenueMoves(Venue!FillNext)
  <2>1. fills' # fills \/ UNCHANGED <<store, fills, events, outbox, sent>>
    <3>. DEFINE x == [order |-> Head(scan), status |-> "MATCHED"]
    <3>1. \/ fills' = Append(fills, x)
          \/ UNCHANGED <<store, fills, events, outbox, sent>>
      BY <1>6 DEF VenueMoves, Venue!FillNext, Venue!MarkMatched, busVars
    <3>2. Len(fills) \in Nat /\ Len(Append(fills, x)) = Len(fills) + 1
      <4>. DEFINE F == [order : OrderIds, status : {"MATCHED", "MINED"}]
      <4>1. fills \in Seq(F)
        BY DEF Inv, VenueTypes
      <4>. HIDE DEF F, x
      <4>. QED
        BY <4>1
    <3>. QED
      BY <3>1, <3>2
  <2>. QED
    BY <1>2, <1>6, <2>1, FillHistory
<1>7. CASE VenueMoves(Venue!PromoteMined)
  BY <1>7, MineHistory
<1>8. CASE VenueMoves(Venue!DrainEvents)
  <2>1. /\ outbox = <<>> /\ outbox' = events /\ events' = <<>> /\ UNCHANGED <<store, fills, sent>>
    BY <1>8 DEF VenueMoves, Venue!DrainEvents, busVars, HistoryInv
  <2>2. outbox \o events = events /\ (outbox \o events)' = events
    <3>. DEFINE V == Venue!Events
    <3>1. events \in Seq(V)
      BY QueueTypes
    <3>. HIDE DEF V
    <3>. QED
      BY <2>1, <3>1, ConcatEmptySeq
  <2>. QED
    BY <2>1, <2>2, QuietHistory
<1>9. \/ UNCHANGED <<store, fills, events, outbox, sent>>
      \/ \E p \in OrderIds : ThreadSubmits(p) \/ ThreadCancels(p)
      \/ Publish
      \/ VenueMoves(Venue!FillNext) \/ VenueMoves(Venue!PromoteMined)
      \/ VenueMoves(Venue!DrainEvents)
  BY Zenon DEF Next, vars, venueVars, busVars, StartOrder, ReplaceOrder, CreateReturns, Settle,
       SubmitReturns, CancelReturns, ThreadReads, ReadReturns, MarketOrderLoop, MarketTradeLoop,
       VenueMoves, Venue!StreamStep, Venue!StartQuote, Venue!StartPoll, Venue!EndQuote,
       Venue!Ripen, Venue!Age
<1>. QED
  BY <1>2, <1>3, <1>4, <1>5, <1>6, <1>7, <1>8, <1>9

LEMMA InitHistory ==
    ASSUME Init
    PROVE  HistoryInv
<1>1. /\ fills = <<>> /\ outbox = <<>> /\ events = <<>> /\ loop = "idle"
      /\ \A o \in OrderIds : sent[o] = <<>> /\ store[o].status = "NEW"
  BY DEF Init, Venue!VenueInit
<1>2. FillsAgree
  BY <1>1 DEF FillsAgree
<1>3. <<>> \o <<>> = <<>>
  BY EmptySeq, ConcatEmptySeq
<1>4. ASSUME NEW o \in OrderIds
      PROVE  HistoryOf(o) = Story(o)
  <2>1. HistoryOf(o) = <<>>
    BY <1>1, <1>3, SelectEmpty DEF HistoryOf
  <2>2. Story(o) = <<>>
    BY <1>1 DEF Story
  <2>. QED
    BY <2>1, <2>2
<1>. QED
  BY <1>1, <1>2, <1>4 DEF HistoryInv

\* What the venue has reported on every order is what it has done with it.
THEOREM HistoryHolds == Safety => []HistoryInv
<1>1. Init => HistoryInv
  BY InitHistory
<1>2. Inv /\ HistoryInv /\ [Next]_vars => HistoryInv'
  BY HistoryStep
<1>. QED
  BY <1>1, <1>2, InvHolds, PTL DEF Safety

\* No report is repeated, none overtakes another of its order, and an order
\* that was reported canceled is never reported as matched.
THEOREM ReportsCorrect == Safety => []ReportsInOrder
<1>1. ASSUME HistoryInv
      PROVE  ReportsInOrder
  <2>. SUFFICES ASSUME NEW o \in OrderIds
                PROVE  \/ IsPrefix(HistoryOf(o), <<Venue!OrderEvent(o, "CANCELED")>>)
                       \/ IsPrefix(HistoryOf(o), <<Venue!OrderEvent(o, "MATCHED"),
                                                   Venue!TradeEvent(o, "MATCHED"),
                                                   Venue!TradeEvent(o, "MINED")>>)
    BY Zenon DEF ReportsInOrder, HistoryOf
  <2>. DEFINE x == Venue!OrderEvent(o, "MATCHED")
              y == Venue!TradeEvent(o, "MATCHED")
              z == Venue!TradeEvent(o, "MINED")
              c == Venue!OrderEvent(o, "CANCELED")
  <2>1. HistoryOf(o) \in {<<>>, <<c>>, <<x, y>>, <<x, y, z>>}
    BY <1>1 DEF HistoryInv, Story
  <2>. HIDE DEF x, y, z, c
  <2>2. /\ IsPrefix(<<>>, <<c>>) /\ IsPrefix(<<c>>, <<c>>)
        /\ IsPrefix(<<x, y>>, <<x, y, z>>) /\ IsPrefix(<<x, y, z>>, <<x, y, z>>)
    BY DEF IsPrefix
  <2>3. \/ IsPrefix(HistoryOf(o), <<c>>)
        \/ IsPrefix(HistoryOf(o), <<x, y, z>>)
    BY <2>1, <2>2, Zenon
  <2>. QED
    BY <2>3 DEF x, y, z, c
<1>. QED
  BY <1>1, HistoryHolds, PTL

-----------------------------------------------------------------------------
(***************************************************************************)
(* Paper trading: what flows between the venue and the manager's books.    *)
(* A report is queued until it is handled, a trade settles once, and what  *)
(* the engine asks for is covered by what has settled, so the worker does  *)
(* not sell what it has not got or buy what it was not asked for, and all  *)
(* that was traded is in the position when nothing is under way.           *)
(***************************************************************************)

(* What has been reported, and what the manager has made of it.            *)

In(e, s) == \E n \in DOMAIN s : s[n] = e

Reported(e) == In(e, sent[e.order])

Handled(e) ==
    LET r == orders[e.order] IN
    /\ e.kind = "order" /\ e.status = "MATCHED" => r.matched = r.shares
    /\ e.kind = "order" /\ e.status = "CANCELED" => r.pending = 0
    /\ e.kind = "trade" /\ e.status = "MINED" => trades[e.order].status = "SUCCESS"

\* What was published is queued until it is handled.
DeliveryInv ==
    /\ \A e \in Venue!Events : In(e, tradeQueue) => Reported(e)
    /\ \A e \in Venue!Events : Reported(e) => In(e, orderQueue) \/ In(e, tradeQueue) \/ Handled(e)

\* An order is no smaller than the replacement gap.  One the venue may still
\* fill is pending in full; a trade is its order's, does not fail, and settles
\* when that was reported; a matched order has a trade.
RecordAgrees(o) ==
    LET r == orders[o]
        t == trades[o]
    IN  /\ Manager!Tracked(o) => r.shares >= ReplaceGap
        /\ Manager!Tracked(o) /\ store[o].status \in {"NEW", "LIVE"} => r.pending = r.shares
        /\ t.status \in {"UNTRACKED", "PENDING", "SUCCESS"}
        /\ t.status # "UNTRACKED" => t.order = o /\ t.shares = r.shares /\ Manager!Tracked(o)
        /\ t.status = "SUCCESS" => Reported(Venue!TradeEvent(o, "MINED"))
        /\ store[o].status = "MATCHED" => \E n \in DOMAIN fills : fills[n].order = o

RecordsInv ==
    /\ creating # NoCreate => creating[1].shares >= ReplaceGap
    /\ \A o \in OrderIds : RecordAgrees(o)

LEMMA InAppend ==
    ASSUME NEW T, NEW s \in Seq(T), NEW x \in T, NEW e
    PROVE  In(e, Append(s, x)) <=> In(e, s) \/ e = x
<1>1. /\ DOMAIN Append(s, x) = 1..Len(s) + 1 /\ Append(s, x)[Len(s) + 1] = x
      /\ DOMAIN s = 1..Len(s) /\ Len(s) \in Nat
      /\ \A n \in 1..Len(s) : Append(s, x)[n] = s[n]
  OBVIOUS
<1>2. \A n \in 1..Len(s) + 1 : n \in 1..Len(s) \/ n = Len(s) + 1
  BY <1>1
<1>3. 1..Len(s) \subseteq 1..Len(s) + 1 /\ Len(s) + 1 \in 1..Len(s) + 1
  BY <1>1
<1>. QED
  BY <1>1, <1>2, <1>3, Zenon DEF In

LEMMA InTail ==
    ASSUME NEW T, NEW s \in Seq(T), s # <<>>, NEW e
    PROVE  In(e, s) <=> In(e, Tail(s)) \/ e = Head(s)
<1>1. /\ DOMAIN s = 1..Len(s) /\ Len(s) \in Nat \ {0} /\ Head(s) = s[1]
      /\ DOMAIN Tail(s) = 1..Len(s) - 1 /\ \A n \in 1..Len(s) - 1 : Tail(s)[n] = s[n + 1]
  OBVIOUS
<1>2. \A n \in 1..Len(s) : n = 1 \/ (n - 1 \in 1..Len(s) - 1 /\ (n - 1) + 1 = n)
  BY <1>1
<1>3. \A n \in 1..Len(s) - 1 : n + 1 \in 1..Len(s)
  BY <1>1
<1>4. ASSUME In(e, s)
      PROVE  In(e, Tail(s)) \/ e = Head(s)
  <2>1. PICK n \in 1..Len(s) : s[n] = e
    BY <1>1, <1>4 DEF In
  <2>2. CASE n = 1
    BY <1>1, <2>1, <2>2
  <2>3. CASE n - 1 \in 1..Len(s) - 1 /\ (n - 1) + 1 = n
    <3>1. Tail(s)[n - 1] = e /\ n - 1 \in DOMAIN Tail(s)
      BY <1>1, <2>1, <2>3
    <3>. QED
      BY <3>1 DEF In
  <2>. QED
    BY <1>2, <2>1, <2>2, <2>3
<1>5. 1 \in 1..Len(s)
  BY <1>1
<1>. QED
  BY <1>1, <1>3, <1>4, <1>5 DEF In

\* What the manager is told about an order is true of it.
LEMMA ReportIsTrue ==
    ASSUME Inv, NEW o \in OrderIds, NEW status \in {"LIVE", "MATCHED", "CANCELED"},
           status \in Final => store[o].status = status
    PROVE  LET e == Report(o, status) IN
           /\ e.order = o /\ e.active \in BOOLEAN /\ e.matched \in {0, orders[o].shares}
           /\ ~e.active => store[o].status = "CANCELED" /\ e.matched = 0
           /\ e.matched > 0 => store[o].status = "MATCHED"
<1>1. orders[o].shares \in Nat
  BY ManagerFacts DEF Inv, Manager!OrderRecord
<1>2. Report(o, status).order = o
  BY DEF Report
<1>. QED
  BY <1>1, <1>2, ReportSays

\* What an order has matched stays matched; and its pending shares change
\* only when the venue is done with it.
LEMMA OrderMoves ==
    ASSUME Inv, [Next]_vars, ~CreateReturns, NEW o \in OrderIds
    PROVE  /\ orders'[o].matched >= orders[o].matched
           /\ orders'[o].pending <= orders[o].pending
           /\ orders'[o].pending = orders[o].pending \/ store[o].status \in Final
<1>. DEFINE r == orders[o]
            v == store[o].status
            Moved == /\ orders'[o].matched >= r.matched /\ orders'[o].pending <= r.pending
                     /\ orders'[o].pending = r.pending \/ v \in Final
<1>. SUFFICES Moved
  OBVIOUS
<1>1. /\ Ledger!TypeInv /\ CallTypes /\ VenueTypes /\ Agreement
      /\ orders \in [OrderIds -> Manager!OrderRecord] /\ r \in Manager!OrderRecord
      /\ r.matched \in Nat /\ r.pending \in Nat /\ r.shares \in Nat /\ r.invalid \in Nat
      /\ r.matched + r.pending + r.invalid <= r.shares
      /\ OrderAgrees(r, tasks[o], replies[o], v)
  <2>1. Ledger!TypeInv /\ CallTypes /\ VenueTypes /\ Agreement
    BY DEF Inv
  <2>2. orders \in [OrderIds -> Manager!OrderRecord] /\ r.matched + r.pending + r.invalid <= r.shares
    BY <2>1, ManagerFacts
  <2>3. r \in Manager!OrderRecord
    BY <2>2
  <2>. QED
    BY <2>1, <2>2, <2>3 DEF Agreement, OrdersAgree, Manager!OrderRecord
<1>2. ASSUME \/ orders'[o] = r
             \/ orders'[o] = Manager!CancelRequested(r)
             \/ orders'[o] = Manager!Submitted(r)
             \/ orders'[o] = Manager!CancelRequested([Manager!Submitted(r) EXCEPT !.should_cancel = FALSE])
             \/ orders'[o] = [r EXCEPT !.is_cancelling = FALSE]
      PROVE  Moved
  <2>1. orders'[o].matched = r.matched /\ orders'[o].pending = r.pending
    BY <1>1, <1>2 DEF Manager!CancelRequested, Manager!Submitted, Manager!OrderRecord
  <2>. QED
    BY <1>1, <2>1
<1>3. ASSUME orders'[o] = Manager!CancelDone(r), replies[o].cancel = "ok"
      PROVE  Moved
  BY <1>1, <1>3 DEF Manager!CancelDone, Manager!OrderRecord, OrderAgrees, Final
<1>4. ASSUME NEW status \in {"LIVE", "MATCHED", "CANCELED"}, status \in Final => v = status,
             orders'[o] = Manager!AfterEvent(r, Report(o, status))
      PROVE  Moved
  <2>. DEFINE e == Report(o, status)
  <2>1. /\ e.active \in BOOLEAN /\ e.matched \in {0, r.shares}
        /\ ~e.active => v = "CANCELED" /\ e.matched = 0
        /\ e.matched > 0 => v = "MATCHED"
    BY <1>4, ReportIsTrue
  <2>2. orders'[o] = Manager!AfterEvent(r, e)
    BY <1>4
  <2>. HIDE DEF e
  <2>3. CASE ~e.active \/ Manager!IsCanceled(r)
    <3>1. orders'[o] = Manager!Closed(r, e)
      BY <2>2, <2>3 DEF Manager!AfterEvent
    <3>2. orders'[o].matched = Manager!Larger(r.matched, e.matched) /\ orders'[o].pending = 0
      BY <1>1, <3>1 DEF Manager!Closed, Manager!OrderRecord
    <3>3. v = "CANCELED"
      BY <1>1, <2>1, <2>3 DEF OrderAgrees
    <3>. QED
      BY <1>1, <2>1, <3>2, <3>3 DEF Manager!Larger, Final
  <2>4. CASE e.active /\ ~Manager!IsCanceled(r)
    <3>1. orders'[o] = Manager!Open(r, e)
      BY <2>2, <2>4 DEF Manager!AfterEvent
    <3>2. /\ orders'[o].matched = Manager!Larger(r.matched, e.matched)
          /\ orders'[o].pending = Manager!Smaller(r.pending, r.shares - e.matched)
      BY <1>1, <3>1 DEF Manager!Open, Manager!OrderRecord
    <3>. QED
      BY <1>1, <2>1, <3>2 DEF Manager!Larger, Manager!Smaller, Final
  <2>. QED
    BY <2>3, <2>4
<1>. HIDE DEF Moved
<1>5. ASSUME NEW k \in Tokens, NEW desired, NEW stale, ReplaceOrder(k, desired, stale)
      PROVE  Moved
  BY <1>1, <1>2, <1>5 DEF ReplaceOrder, Manager!Cancel
<1>6. ASSUME NEW p \in OrderIds, SubmitReturns(p)
      PROVE  Moved
  BY <1>1, <1>2, <1>6 DEF SubmitReturns, Manager!SubmitSuccess
<1>7. ASSUME NEW p \in OrderIds, CancelReturns(p)
      PROVE  Moved
  <2>1. \/ orders'[o] = r
        \/ orders'[o] = Manager!CancelDone(r) /\ replies[o].cancel = "ok"
        \/ orders'[o] = [r EXCEPT !.is_cancelling = FALSE]
    BY <1>1, <1>7 DEF CancelReturns, Manager!CancelSuccess, Manager!CancelFailed
  <2>. QED
    BY <1>2, <1>3, <2>1
<1>8. ASSUME NEW p \in OrderIds, ReadReturns(p)
      PROVE  Moved
  <2>1. PICK n \in DOMAIN replies[p].reads : Manager!SyncReturns(Report(p, replies[p].reads[n]))
    BY <1>8 DEF ReadReturns
  <2>2. orders' = [orders EXCEPT ![p] = Manager!AfterEvent(@, Report(p, replies[p].reads[n]))]
    BY <2>1 DEF Manager!SyncReturns, Report
  <2>3. CASE p = o
    <3>. DEFINE status == replies[o].reads[n]
    <3>1. status \in {"LIVE", "MATCHED", "CANCELED"} /\ n \in 1..Len(replies[o].reads)
      BY <1>1, <2>1, <2>3 DEF CallTypes
    <3>2. status \in Final => v = status
      BY <1>1, <3>1 DEF OrderAgrees
    <3>3. orders'[o] = Manager!AfterEvent(r, Report(o, status))
      BY <1>1, <2>2, <2>3
    <3>. HIDE DEF status
    <3>. QED
      BY <1>4, <3>1, <3>2, <3>3
  <2>4. CASE p # o
    BY <1>1, <1>2, <2>2, <2>4
  <2>. QED
    BY <2>3, <2>4
<1>9. CASE MarketOrderLoop
  <2>. DEFINE h == Head(orderQueue)
              e == Report(h.order, h.status)
  <2>1. orderQueue # <<>> /\ Manager!HandleOrderEvent(e)
    BY <1>9 DEF MarketOrderLoop
  <2>2. h \in Venue!Events /\ h.kind = "order" /\ store[h.order].status = h.status
    <3>1. h \in {x \in TrueReports : x.kind = "order"}
      BY <1>1, <2>1, ReportHeads
    <3>. QED
      BY <3>1 DEF TrueReports
  <2>3. h.order \in OrderIds /\ h.status \in {"MATCHED", "CANCELED"}
    BY <2>2 DEF Venue!Events
  <2>4. orders' = [orders EXCEPT ![h.order] = Manager!AfterEvent(@, e)]
    <3>1. e.order = h.order
      BY DEF Report
    <3>. HIDE DEF e, h
    <3>. QED
      BY <2>1, <3>1 DEF Manager!HandleOrderEvent
  <2>5. CASE o = h.order
    <3>1. orders'[o] = Manager!AfterEvent(r, Report(o, h.status))
      BY <1>1, <2>4, <2>5
    <3>. HIDE DEF h
    <3>. QED
      BY <1>4, <2>2, <2>3, <2>5, <3>1
  <2>6. CASE o # h.order
    <3>. HIDE DEF h, e
    <3>. QED
      BY <1>1, <1>2, <2>4, <2>6
  <2>. QED
    BY <2>5, <2>6
<1>10. CASE UNCHANGED <<orders, tasks>>
  BY <1>2, <1>10
<1>. QED
  BY <1>5, <1>6, <1>7, <1>8, <1>9, <1>10, StepKinds

\* A trade changes when a report about it is taken off its queue.
LEMMA TradeMoves ==
    ASSUME Inv, [Next]_vars, NEW o \in OrderIds, trades'[o] # trades[o]
    PROVE  LET h == Head(tradeQueue) IN
           /\ MarketTradeLoop /\ tradeQueue # <<>> /\ h \in Venue!Events /\ h.kind = "trade"
           /\ h.order = o /\ Manager!Tracked(o)
           /\ trades'[o].status = IF h.status = "MINED" THEN "SUCCESS" ELSE "PENDING"
           /\ trades'[o].order = o /\ trades'[o].shares = orders[o].shares
           /\ trades[o].status = "SUCCESS" => h.status = "MINED"
<1>. DEFINE h == Head(tradeQueue)
            i == h.order
            e == [order |-> i, token |-> orders[i].token, trade |-> i,
                  shares |-> orders[i].shares, price |-> Price, role |-> orders[i].role,
                  status |-> h.status]
<1>1. MarketTradeLoop
  <2>1. MarketTradeLoop \/ UNCHANGED trades
    BY Zenon DEF Next, vars, managerVars, StartOrder, ReplaceOrder, Manager!Cancel, CreateReturns,
         Manager!CreateOrder, Settle, Manager!SettleMarket, ThreadSubmits, SubmitReturns,
         Manager!SubmitSuccess, ThreadCancels, CancelReturns, Manager!CancelSuccess,
         Manager!CancelFailed, ThreadReads, ReadReturns, Manager!SyncReturns, Publish,
         MarketOrderLoop, Manager!HandleOrderEvent, VenueMoves
  <2>. QED
    BY <2>1
<1>2. tradeQueue # <<>> /\ Manager!HandleTradeEvent(e)
  BY <1>1 DEF MarketTradeLoop
<1>3. h \in Venue!Events /\ h.kind = "trade"
  BY <1>2, ReportHeads DEF Inv
<1>4. i \in OrderIds /\ h.status \in {"MATCHED", "MINED"}
  BY <1>3 DEF Venue!Events
<1>5. trades \in [OrderIds -> Manager!TradeRecord]
  BY ManagerFacts DEF Inv
<1>. DEFINE t == [status |-> IF h.status = "MINED" THEN "SUCCESS" ELSE "PENDING", order |-> i,
                  shares |-> orders[i].shares, price |-> Price, role |-> orders[i].role]
<1>6. /\ Manager!Tracked(i)
      /\ trades' = [trades EXCEPT ![i] = [status |-> Manager!TradeStatus(e), order |-> i,
                      shares |-> orders[i].shares, price |-> Price, role |-> orders[i].role]]
      /\ trades[i].status = "SUCCESS" => h.status \in {"MINED", "CONFIRMED"}
  <2>. HIDE DEF h, i
  <2>. QED
    BY <1>2 DEF Manager!HandleTradeEvent, Manager!Accepted, Manager!Repeats
<1>7. Manager!TradeStatus(e) = IF h.status = "MINED" THEN "SUCCESS" ELSE "PENDING"
  <2>. HIDE DEF h, i
  <2>. QED
    BY <1>4 DEF Manager!TradeStatus
<1>8. trades' = [trades EXCEPT ![i] = t]
  BY <1>6, <1>7
<1>9. t.status = (IF h.status = "MINED" THEN "SUCCESS" ELSE "PENDING") /\ t.order = i
      /\ t.shares = orders[i].shares
  OBVIOUS
<1>. HIDE DEF i, h, e, t
<1>10. o = i /\ trades'[o] = t
  BY <1>5, <1>8
<1>. QED
  BY <1>1, <1>2, <1>3, <1>4, <1>6, <1>9, <1>10 DEF h, i

\* What was reported of an order has happened to it.
LEMMA ReportedHappened ==
    ASSUME Inv, HistoryInv, NEW e \in Venue!Events, Reported(e)
    PROVE  LET o == e.order IN
           /\ o \in OrderIds /\ Manager!Tracked(o) /\ store[o].status \in Final
           /\ e.kind = "order" => e.status = store[o].status
           /\ e.kind = "trade" => store[o].status = "MATCHED"
           /\ e.kind = "trade" /\ e.status = "MINED" => IsMined(o)
<1>. DEFINE o == e.order
            q == OnlyIn(outbox \o events, EventsOf(o))
            V == Venue!Events
            x == Venue!OrderEvent(o, "MATCHED")
            y == Venue!TradeEvent(o, "MATCHED")
            z == Venue!TradeEvent(o, "MINED")
            c == Venue!OrderEvent(o, "CANCELED")
<1>1. o \in OrderIds
  BY DEF Venue!Events
<1>2. sent[o] \in Seq(V) /\ q \in Seq(V)
  <2>1. outbox \o events \in Seq(V) /\ sent \in [OrderIds -> Seq(V)]
    BY QueueTypes
  <2>. DEFINE E == EventsOf(o)
              w == outbox \o events
  <2>. HIDE DEF V, o, E, w
  <2>. QED
    BY <1>1, <2>1, SelectType DEF w
<1>3. PICK n \in DOMAIN sent[o] : sent[o][n] = e
  BY DEF Reported, In
<1>4. n \in 1..Len(Story(o)) /\ Story(o)[n] = e
  <2>1. Story(o) = sent[o] \o q
    BY <1>1 DEF HistoryInv, HistoryOf
  <2>. HIDE DEF V, o, q
  <2>2. /\ n \in 1..Len(sent[o]) /\ Len(sent[o]) \in Nat /\ Len(q) \in Nat
        /\ Len(sent[o] \o q) = Len(sent[o]) + Len(q)
        /\ (sent[o] \o q)[n] = sent[o][n]
    BY <1>2, <1>3
  <2>. QED
    BY <1>3, <2>1, <2>2
<1>5. \/ store[o].status = "CANCELED" /\ e = c
      \/ store[o].status = "MATCHED" /\ e \in {x, y}
      \/ store[o].status = "MATCHED" /\ IsMined(o) /\ e = z
  <2>. HIDE DEF x, y, z, c, o
  <2>1. \A m : /\ m \in 1..Len(<<c>>) => <<c>>[m] = c
               /\ m \in 1..Len(<<x, y>>) => <<x, y>>[m] \in {x, y}
               /\ m \in 1..Len(<<x, y, z>>) => <<x, y, z>>[m] \in {x, y, z}
               /\ m \notin 1..Len(<<>>)
    OBVIOUS
  <2>2. Story(o) = IF store[o].status = "CANCELED" THEN <<c>>
                   ELSE IF store[o].status # "MATCHED" THEN <<>>
                   ELSE IF IsMined(o) THEN <<x, y, z>> ELSE <<x, y>>
    BY DEF Story, x, y, z, c
  <2>3. CASE store[o].status = "CANCELED"
    BY <1>4, <2>1, <2>2, <2>3
  <2>4. CASE store[o].status = "MATCHED" /\ IsMined(o)
    <3>1. Story(o) = <<x, y, z>>
      BY <2>2, <2>4
    <3>2. e \in {x, y, z}
      BY <1>4, <2>1, <3>1
    <3>. QED
      BY <2>4, <3>2
  <2>5. CASE store[o].status = "MATCHED" /\ ~IsMined(o)
    <3>1. Story(o) = <<x, y>>
      BY <2>2, <2>5
    <3>. QED
      BY <1>4, <2>1, <2>5, <3>1
  <2>6. CASE store[o].status \notin {"CANCELED", "MATCHED"}
    <3>1. Story(o) = <<>>
      BY <2>2, <2>6
    <3>. QED
      BY <1>4, <2>1, <3>1
  <2>. QED
    BY <2>3, <2>4, <2>5, <2>6
<1>6. Manager!Tracked(o)
  <2>1. OrderAgrees(orders[o], tasks[o], replies[o], store[o].status)
    BY <1>1 DEF Inv, Agreement, OrdersAgree
  <2>. QED
    BY <1>5, <2>1 DEF OrderAgrees, Manager!Tracked
<1>. QED
  BY <1>1, <1>5, <1>6 DEF Venue!OrderEvent, Venue!TradeEvent, Final

\* Creating an order changes no other order.
LEMMA CreateMoves ==
    ASSUME Inv, CreateReturns
    PROVE  \E n \in Unused :
             LET c == creating[1] IN
             /\ creating # NoCreate
             /\ orders'[n] = Manager!NewOrder(c.token, c.side, c.role, c.shares)
             /\ \A o \in OrderIds : o # n => orders'[o] = orders[o]
             /\ creating' = NoCreate
             /\ UNCHANGED <<trades, positions, settled, closed, venueVars, replies, busVars>>
<1>. DEFINE m == CHOOSE i \in Unused : \A j \in Unused : i <= j
            c == creating[1]
<1>0. PICK n : n = m
  OBVIOUS
<1>1. /\ orders' = [orders EXCEPT ![n] = Manager!NewOrder(c.token, c.side, c.role, c.shares)]
      /\ creating # NoCreate /\ creating' = NoCreate
      /\ UNCHANGED <<trades, positions, settled, closed, venueVars, replies, busVars>>
  BY <1>0 DEF CreateReturns, Manager!CreateOrder
<1>2. Unused # {} /\ Unused \subseteq OrderIds
  BY <1>1 DEF Inv, Agreement, CreatingAgrees, Unused
<1>3. n \in Unused
  BY <1>0, <1>2, LeastId
<1>4. orders \in [OrderIds -> Manager!OrderRecord]
  BY ManagerFacts DEF Inv
<1>. HIDE DEF c
<1>5. /\ orders'[n] = Manager!NewOrder(c.token, c.side, c.role, c.shares)
      /\ \A o \in OrderIds : o # n => orders'[o] = orders[o]
  BY <1>1, <1>2, <1>3, <1>4
<1>. QED
  BY <1>1, <1>3, <1>5 DEF c

\* What any step leaves of an order that is tracked.
LEMMA TrackedMoves ==
    ASSUME Inv, [Next]_vars, NEW o \in OrderIds, Manager!Tracked(o)
    PROVE  /\ Manager!Tracked(o)'
           /\ orders'[o].token = orders[o].token /\ orders'[o].side = orders[o].side
           /\ orders'[o].role = orders[o].role /\ orders'[o].shares = orders[o].shares
           /\ orders'[o].matched >= orders[o].matched /\ orders'[o].pending <= orders[o].pending
           /\ orders'[o].pending = orders[o].pending \/ store[o].status \in Final
<1>1. CASE CreateReturns
  <2>1. orders'[o] = orders[o]
    BY <1>1, CreateMoves DEF Unused
  <2>2. orders[o].matched \in Nat /\ orders[o].pending \in Nat
    BY ManagerFacts DEF Inv, Manager!OrderRecord
  <2>. QED
    BY <2>1, <2>2 DEF Manager!Tracked
<1>2. CASE ~CreateReturns
  BY <1>2, SameOrder, OrderMoves DEF Inv
<1>. QED
  BY <1>1, <1>2

LEMMA ManagerTypes == Ledger!TypeInv' => (orders \in [OrderIds -> Manager!OrderRecord])'
<1>1. Ledger!TypeInv => orders \in [OrderIds -> Manager!OrderRecord]
  BY ManagerFacts
<1>. QED
  BY <1>1, PTL

LEMMA HandledStays ==
    ASSUME Inv, HistoryInv, [Next]_vars, NEW e \in Venue!Events, Reported(e), Handled(e)
    PROVE  Handled(e)'
<1>. DEFINE o == e.order
            r == orders[o]
<1>1. o \in OrderIds /\ Manager!Tracked(o)
  BY ReportedHappened
<1>2. /\ orders'[o].shares = r.shares /\ orders'[o].matched >= r.matched /\ orders'[o].pending <= r.pending
      /\ Inv'
  BY <1>1, TrackedMoves, StepInv
<1>3. /\ r.matched \in {0, r.shares} /\ r.shares > 0 /\ r.shares \in Nat /\ r.pending \in Nat
      /\ orders'[o].matched \in {0, orders'[o].shares} /\ orders'[o].pending \in Nat
  <2>1. Inv => \A i \in OrderIds : /\ orders[i].matched \in {0, orders[i].shares}
                                   /\ orders[i].shares \in Nat /\ orders[i].pending \in Nat
    BY ManagerFacts DEF Inv, Agreement, OrdersAgree, OrderAgrees, Manager!OrderRecord
  <2>2. r.shares > 0
    BY <1>1 DEF Inv, Agreement, OrdersAgree, OrderAgrees, Manager!Tracked
  <2>3. \A i \in OrderIds : orders'[i].matched \in {0, orders'[i].shares} /\ orders'[i].pending \in Nat
    <3>1. Ledger!TypeInv' /\ Agreement'
      BY <1>2 DEF Inv
    <3>2. orders' \in [OrderIds -> Manager!OrderRecord]
      BY <3>1, ManagerTypes
    <3>. QED
      BY <3>1, <3>2 DEF Agreement, OrdersAgree, OrderAgrees, Manager!OrderRecord
  <2>. QED
    BY <1>1, <2>1, <2>2, <2>3
<1>4. trades'[o].status = "SUCCESS" \/ trades[o].status # "SUCCESS"
  <2>1. CASE trades'[o] = trades[o]
    BY <2>1
  <2>2. CASE trades'[o] # trades[o]
    BY <1>1, <2>2, TradeMoves
  <2>. QED
    BY <2>1, <2>2
<1>5. /\ e.kind = "order" /\ e.status = "MATCHED" => r.matched = r.shares
      /\ e.kind = "order" /\ e.status = "CANCELED" => r.pending = 0
      /\ e.kind = "trade" /\ e.status = "MINED" => trades[o].status = "SUCCESS"
  BY DEF Handled
<1>. SUFFICES /\ e.kind = "order" /\ e.status = "MATCHED" => orders'[o].matched = orders'[o].shares
              /\ e.kind = "order" /\ e.status = "CANCELED" => orders'[o].pending = 0
              /\ e.kind = "trade" /\ e.status = "MINED" => trades'[o].status = "SUCCESS"
  BY DEF Handled
<1>. HIDE DEF o
<1>. QED
  BY <1>2, <1>3, <1>4, <1>5

\* A report the manager takes off a queue, it handles.
LEMMA OrderEventHandled ==
    ASSUME Inv, MarketOrderLoop, NEW h, h = Head(orderQueue)
    PROVE  Handled(h)'
<1>. DEFINE o == h.order
            r == orders[o]
            e == Report(o, h.status)
<1>1. orderQueue # <<>> /\ Manager!HandleOrderEvent(e)
  BY DEF MarketOrderLoop
<1>2. h \in Venue!Events /\ h.kind = "order" /\ store[o].status = h.status
  <2>1. h \in {x \in TrueReports : x.kind = "order"}
    BY <1>1, ReportHeads DEF Inv
  <2>. QED
    BY <2>1 DEF TrueReports
<1>3. o \in OrderIds /\ h.status \in {"MATCHED", "CANCELED"}
  BY <1>2 DEF Venue!Events
<1>4. /\ orders \in [OrderIds -> Manager!OrderRecord] /\ r \in Manager!OrderRecord
      /\ r.matched \in {0, r.shares} /\ r.shares \in Nat
  <2>1. orders \in [OrderIds -> Manager!OrderRecord]
    BY ManagerFacts DEF Inv
  <2>2. r \in Manager!OrderRecord
    BY <1>3, <2>1
  <2>. QED
    BY <1>3, <2>1, <2>2 DEF Inv, Agreement, OrdersAgree, OrderAgrees, Manager!OrderRecord
<1>5. orders'[o] = Manager!AfterEvent(r, e)
  <2>1. e.order = o
    BY DEF Report
  <2>. HIDE DEF e, o
  <2>2. orders' = [orders EXCEPT ![o] = Manager!AfterEvent(r, e)]
    BY <1>1, <2>1 DEF Manager!HandleOrderEvent
  <2>. QED
    BY <1>3, <1>4, <2>2
<1>6. e.active = (h.status # "CANCELED") /\ e.matched = IF h.status = "MATCHED" THEN r.shares ELSE 0
  BY DEF Report
<1>. HIDE DEF e, o
<1>7. /\ h.status = "MATCHED" => orders'[o].matched = orders'[o].shares
      /\ h.status = "CANCELED" => orders'[o].pending = 0
  <2>1. CASE h.status = "CANCELED"
    <3>1. orders'[o] = Manager!Closed(r, e)
      BY <1>5, <1>6, <2>1, Zenon DEF Manager!AfterEvent
    <3>. QED
      BY <1>4, <2>1, <3>1 DEF Manager!Closed, Manager!OrderRecord
  <2>2. CASE h.status = "MATCHED"
    <3>1. Manager!Larger(r.matched, e.matched) = r.shares
      BY <1>4, <1>6, <2>2 DEF Manager!Larger
    <3>2. orders'[o] = Manager!Closed(r, e) \/ orders'[o] = Manager!Open(r, e)
      BY <1>5 DEF Manager!AfterEvent
    <3>3. orders'[o].matched = Manager!Larger(r.matched, e.matched) /\ orders'[o].shares = r.shares
      BY <1>4, <3>2 DEF Manager!Closed, Manager!Open, Manager!OrderRecord
    <3>. QED
      BY <2>2, <3>1, <3>3
  <2>. QED
    BY <1>3, <2>1, <2>2
<1>. QED
  BY <1>2, <1>7 DEF Handled, o

LEMMA TradeEventHandled ==
    ASSUME Inv, [Next]_vars, MarketTradeLoop, NEW h, h = Head(tradeQueue)
    PROVE  Handled(h)'
<1>. DEFINE o == h.order
            e == [order |-> o, token |-> orders[o].token, trade |-> o,
                  shares |-> orders[o].shares, price |-> Price, role |-> orders[o].role,
                  status |-> h.status]
<1>1. tradeQueue # <<>> /\ Manager!HandleTradeEvent(e)
  BY DEF MarketTradeLoop
<1>2. h \in Venue!Events /\ h.kind = "trade"
  BY <1>1, ReportHeads DEF Inv
<1>3. o \in OrderIds
  BY <1>2 DEF Venue!Events
<1>4. trades \in [OrderIds -> Manager!TradeRecord]
  BY ManagerFacts DEF Inv
<1>. HIDE DEF o
<1>5. trades' = [trades EXCEPT ![o] = [status |-> Manager!TradeStatus(e), order |-> o,
                   shares |-> orders[o].shares, price |-> Price, role |-> orders[o].role]]
  BY <1>1 DEF Manager!HandleTradeEvent
<1>6. h.status = "MINED" => Manager!TradeStatus(e) = "SUCCESS"
  BY DEF Manager!TradeStatus
<1>. HIDE DEF e
<1>7. h.status = "MINED" => trades'[o].status = "SUCCESS"
  BY <1>3, <1>4, <1>5, <1>6
<1>. QED
  BY <1>2, <1>7 DEF Handled, o

LEMMA DeliveryStep ==
    ASSUME Inv, HistoryInv, DeliveryInv, [Next]_vars
    PROVE  DeliveryInv'
<1>. DEFINE V == Venue!Events
<1>1. orderQueue \in Seq(V) /\ tradeQueue \in Seq(V) /\ sent \in [OrderIds -> Seq(V)]
  <2>. DEFINE R == {e \in TrueReports : e.kind = "order"}
              T == {e \in V : e.kind = "trade"}
  <2>1. R \subseteq V /\ T \subseteq V /\ orderQueue \in Seq(R) /\ tradeQueue \in Seq(T)
        /\ sent \in [OrderIds -> Seq(V)]
    BY DEF Inv, Agreement, ReportsAgree, VenueTypes, TrueReports
  <2>. HIDE DEF R, T, V
  <2>. QED
    BY <2>1
<1>2. \A e \in V : e.order \in OrderIds
  BY DEF Venue!Events
<1>3. ASSUME NEW e \in V, Reported(e)
      PROVE  In(e, orderQueue) \/ In(e, tradeQueue) \/ Handled(e)'
  BY <1>3, HandledStays DEF DeliveryInv
<1>4. CASE UNCHANGED busVars
  <2>1. \A e : /\ In(e, orderQueue)' <=> In(e, orderQueue)
               /\ In(e, tradeQueue)' <=> In(e, tradeQueue)
               /\ Reported(e)' <=> Reported(e)
    BY <1>4 DEF busVars, In, Reported
  <2>. QED
    BY <1>3, <2>1 DEF DeliveryInv
<1>5. CASE Publish
  <2>0. PICK h : h = Head(outbox)
    OBVIOUS
  <2>1. /\ outbox # <<>> /\ sent' = [sent EXCEPT ![h.order] = Append(@, h)]
        /\ \/ orderQueue' = Append(orderQueue, h) /\ tradeQueue' = tradeQueue
           \/ tradeQueue' = Append(tradeQueue, h) /\ orderQueue' = orderQueue
    BY <1>5, <2>0 DEF Publish, Venue!Yield
  <2>2. h \in V
    BY <2>0, <2>1, ReportHeads DEF Inv, TrueReports
  <2>. HIDE DEF V
  <2>3. ASSUME NEW e \in V
        PROVE  Reported(e)' <=> Reported(e) \/ e = h
    <3>1. CASE e.order = h.order
      <4>1. sent'[e.order] = Append(sent[e.order], h)
        BY <1>1, <1>2, <2>1, <2>2, <3>1
      <4>2. sent[e.order] \in Seq(V)
        BY <1>1, <1>2
      <4>3. In(e, Append(sent[e.order], h)) <=> In(e, sent[e.order]) \/ e = h
        BY <2>2, <4>2, InAppend
      <4>4. Reported(e)' <=> In(e, sent'[e.order])
        BY DEF Reported, In
      <4>. QED
        BY <4>1, <4>3, <4>4, Zenon DEF Reported
    <3>2. CASE e.order # h.order
      <4>1. sent'[e.order] = sent[e.order]
        BY <1>1, <1>2, <2>1, <2>2, <3>2
      <4>. QED
        BY <3>2, <4>1 DEF Reported, In
    <3>. QED
      BY <3>1, <3>2
  <2>4. \A e : /\ In(e, orderQueue) => In(e, orderQueue)'
               /\ In(e, tradeQueue) => In(e, tradeQueue)'
               /\ In(e, tradeQueue)' => In(e, tradeQueue) \/ e = h
               /\ In(h, orderQueue)' \/ In(h, tradeQueue)'
    <3>1. \A e : /\ In(e, Append(orderQueue, h)) <=> In(e, orderQueue) \/ e = h
                 /\ In(e, Append(tradeQueue, h)) <=> In(e, tradeQueue) \/ e = h
      BY <1>1, <2>2, InAppend
    <3>2. \A e : (In(e, orderQueue)' <=> In(e, orderQueue')) /\ (In(e, tradeQueue)' <=> In(e, tradeQueue'))
      BY DEF In
    <3>. QED
      BY <2>1, <3>1, <3>2, Zenon
  <2>5. \A e \in V : In(e, tradeQueue)' => Reported(e)'
    BY <2>3, <2>4, Zenon DEF DeliveryInv, V
  <2>6. \A e \in V : Reported(e)' => In(e, orderQueue)' \/ In(e, tradeQueue)' \/ Handled(e)'
    BY <1>3, <2>3, <2>4, Zenon
  <2>. QED
    BY <2>5, <2>6 DEF DeliveryInv, V
<1>6. CASE MarketOrderLoop
  <2>1. orderQueue # <<>> /\ orderQueue' = Tail(orderQueue) /\ UNCHANGED <<tradeQueue, sent>>
    BY <1>6 DEF MarketOrderLoop
  <2>2. PICK h : h = Head(orderQueue)
    OBVIOUS
  <2>3. Handled(h)'
    BY <1>6, <2>2, OrderEventHandled
  <2>4. \A e : /\ In(e, orderQueue) => In(e, orderQueue)' \/ e = h
               /\ In(e, tradeQueue)' <=> In(e, tradeQueue)
               /\ Reported(e)' <=> Reported(e)
    <3>. HIDE DEF V
    <3>1. \A e : In(e, orderQueue) <=> In(e, Tail(orderQueue)) \/ e = h
      BY <1>1, <2>1, <2>2, InTail
    <3>. QED
      BY <2>1, <3>1, Zenon DEF In, Reported
  <2>. QED
    BY <1>3, <2>3, <2>4, Zenon DEF DeliveryInv
<1>7. CASE MarketTradeLoop
  <2>1. tradeQueue # <<>> /\ tradeQueue' = Tail(tradeQueue) /\ UNCHANGED <<orderQueue, sent>>
    BY <1>7 DEF MarketTradeLoop
  <2>2. PICK h : h = Head(tradeQueue)
    OBVIOUS
  <2>3. Handled(h)'
    BY <1>7, <2>2, TradeEventHandled
  <2>4. \A e : /\ In(e, tradeQueue) => In(e, tradeQueue)' \/ e = h
               /\ In(e, tradeQueue)' => In(e, tradeQueue)
               /\ In(e, orderQueue)' <=> In(e, orderQueue)
               /\ Reported(e)' <=> Reported(e)
    <3>. HIDE DEF V
    <3>1. \A e : In(e, tradeQueue) <=> In(e, Tail(tradeQueue)) \/ e = h
      BY <1>1, <2>1, <2>2, InTail
    <3>. QED
      BY <2>1, <3>1, Zenon DEF In, Reported
  <2>. QED
    BY <1>3, <2>3, <2>4, Zenon DEF DeliveryInv
<1>8. UNCHANGED busVars \/ Publish \/ MarketOrderLoop \/ MarketTradeLoop
  BY Zenon DEF Next, vars, StartOrder, ReplaceOrder, CreateReturns, Settle, ThreadSubmits,
       SubmitReturns, ThreadCancels, CancelReturns, ThreadReads, ReadReturns, VenueMoves
<1>. QED
  BY <1>4, <1>5, <1>6, <1>7, <1>8

\* Who can have moved, in a step that changes the create call under way.
LEMMA CreatingKinds ==
    ASSUME [Next]_vars
    PROVE  \/ UNCHANGED creating
           \/ CreateReturns
           \/ \E k \in Tokens, desired \in DesiredShares, force \in BOOLEAN :
                Running /\ StartOrder(k, desired, force)
  BY Zenon DEF Next, vars, ReplaceOrder, Settle, ThreadSubmits, SubmitReturns, ThreadCancels,
       CancelReturns, ThreadReads, ReadReturns, Publish, MarketOrderLoop, MarketTradeLoop, VenueMoves

\* A report stays reported.
LEMMA ReportedStays ==
    ASSUME Inv, [Next]_vars, NEW e \in Venue!Events, Reported(e)
    PROVE  Reported(e)'
<1>. DEFINE V == Venue!Events
<1>1. sent \in [OrderIds -> Seq(V)] /\ e.order \in OrderIds
  BY DEF Inv, VenueTypes, Venue!Events
<1>2. CASE UNCHANGED sent
  BY <1>2 DEF Reported, In
<1>3. CASE Publish
  <2>0. PICK h : h = Head(outbox)
    OBVIOUS
  <2>1. sent' = [sent EXCEPT ![h.order] = Append(@, h)] /\ outbox # <<>>
    BY <1>3, <2>0 DEF Publish, Venue!Yield
  <2>2. h \in V
    BY <2>0, <2>1, ReportHeads DEF Inv, TrueReports
  <2>3. Reported(e)' <=> In(e, sent'[e.order])
    BY DEF Reported, In
  <2>. HIDE DEF V
  <2>4. sent'[e.order] = sent[e.order] \/ sent'[e.order] = Append(sent[e.order], h)
    BY <1>1, <2>1
  <2>5. In(e, Append(sent[e.order], h)) <=> In(e, sent[e.order]) \/ e = h
    BY <1>1, <2>2, InAppend
  <2>. QED
    BY <2>3, <2>4, <2>5, Zenon DEF Reported
<1>4. UNCHANGED sent \/ Publish
  BY Zenon DEF Next, vars, busVars, StartOrder, ReplaceOrder, CreateReturns, Settle, ThreadSubmits,
       SubmitReturns, ThreadCancels, CancelReturns, ThreadReads, ReadReturns, MarketOrderLoop,
       MarketTradeLoop, VenueMoves
<1>. QED
  BY <1>2, <1>3, <1>4

\* A trade stays a trade of its order, and a new one is for a matched order.
LEMMA MatchedHasTrade ==
    ASSUME Inv, RecordsInv, [Next]_vars, NEW o \in OrderIds, store'[o].status = "MATCHED"
    PROVE  \E n \in DOMAIN fills' : fills'[n].order = o
<1>1. VenueTypes
  BY DEF Inv
<1>2. CASE VenueMoves(Venue!FillNext) /\ fills' # fills
  <2>. DEFINE p == Head(scan)
              x == [order |-> p, status |-> "MATCHED"]
              F == [order : OrderIds, status : {"MATCHED", "MINED"}]
  <2>1. /\ scan # <<>> /\ fills' = Append(fills, x)
        /\ store' = [store EXCEPT ![p].status = "MATCHED"]
    BY <1>2 DEF VenueMoves, Venue!FillNext, Venue!MarkMatched, Venue!Fillable
  <2>2. p \in OrderIds /\ fills \in Seq(F)
    BY <1>1, <2>1 DEF VenueTypes
  <2>3. x \in F /\ x.order = p
    BY <2>2
  <2>. HIDE DEF x, F, p
  <2>4. /\ DOMAIN fills' = DOMAIN fills \cup {Len(fills) + 1}
        /\ fills'[Len(fills) + 1] = x /\ \A n \in DOMAIN fills : fills'[n] = fills[n]
    BY <2>1, <2>2, <2>3
  <2>5. o # p => store[o].status = "MATCHED"
    BY <2>1
  <2>. QED
    BY <2>3, <2>4, <2>5 DEF RecordsInv, RecordAgrees
<1>3. CASE store'[o].status = store[o].status /\ DOMAIN fills' = DOMAIN fills
           /\ \A n \in DOMAIN fills : fills'[n].order = fills[n].order
  BY <1>3 DEF RecordsInv, RecordAgrees
<1>4. CASE VenueMoves(Venue!PromoteMined)
  <2>1. /\ store' = store /\ DOMAIN fills' = DOMAIN fills
        /\ \A n \in DOMAIN fills : fills'[n].order = fills[n].order
    BY <1>1, <1>4, FillTypes DEF VenueMoves, Venue!PromoteMined
  <2>. QED
    BY <1>3, <2>1
<1>5. CASE fills' = fills /\ ~VenueMoves(Venue!FillNext)
  <2>1. \/ UNCHANGED store
        \/ \E p \in OrderIds : ThreadSubmits(p) \/ ThreadCancels(p)
    BY <1>5, VenueKinds, Zenon DEF venueVars, VenueMoves, Publish, Venue!Yield, Venue!StartQuote,
       Venue!StartPoll, Venue!EndQuote, Venue!PromoteMined, Venue!DrainEvents, Venue!Ripen, Venue!Age
  <2>2. ASSUME NEW p \in OrderIds, ThreadSubmits(p) \/ ThreadCancels(p)
        PROVE  store'[o].status = store[o].status \/ store'[o].status \in {"LIVE", "CANCELED"}
    <3>1. CASE ThreadSubmits(p)
      BY <1>1, <3>1 DEF ThreadSubmits, Venue!Submit, VenueTypes
    <3>2. CASE ThreadCancels(p)
      BY <1>1, <3>2 DEF ThreadCancels, Venue!CancelStore, VenueTypes
    <3>. QED
      BY <2>2, <3>1, <3>2
  <2>3. store'[o].status = store[o].status
    BY <2>1, <2>2
  <2>. QED
    BY <1>3, <1>5, <2>3
<1>6. CASE VenueMoves(Venue!FillNext) /\ fills' = fills
  <2>. DEFINE x == [order |-> Head(scan), status |-> "MATCHED"]
              F == [order : OrderIds, status : {"MATCHED", "MINED"}]
  <2>1. \/ fills' = Append(fills, x)
        \/ store' = store
    BY <1>6 DEF VenueMoves, Venue!FillNext, Venue!MarkMatched
  <2>2. Append(fills, x) # fills
    <3>1. fills \in Seq(F)
      BY <1>1 DEF VenueTypes
    <3>. HIDE DEF F, x
    <3>2. Len(Append(fills, x)) = Len(fills) + 1 /\ Len(fills) \in Nat
      BY <3>1
    <3>. QED
      BY <3>2
  <2>3. store' = store
    BY <1>6, <2>1, <2>2
  <2>. QED
    BY <1>3, <1>6, <2>3
<1>7. fills' = fills \/ VenueMoves(Venue!FillNext) \/ VenueMoves(Venue!PromoteMined)
  BY VenueKinds, Zenon DEF venueVars, ThreadSubmits, Venue!Submit, ThreadCancels, Venue!CancelStore,
     Publish, Venue!Yield, VenueMoves, Venue!StartQuote, Venue!StartPoll, Venue!EndQuote,
     Venue!DrainEvents, Venue!Ripen, Venue!Age
<1>. QED
  BY <1>2, <1>4, <1>5, <1>6, <1>7

LEMMA RecordsStep ==
    ASSUME Inv, HistoryInv, DeliveryInv, RecordsInv, [Next]_vars
    PROVE  RecordsInv'
<1>1. (creating # NoCreate => creating[1].shares >= ReplaceGap)'
  <2>1. ASSUME NEW k \in Tokens, NEW desired, NEW force, StartOrder(k, desired, force)
        PROVE  creating'[1].shares >= ReplaceGap
    BY <2>1 DEF StartOrder
  <2>2. CASE UNCHANGED creating
    BY <2>2 DEF RecordsInv
  <2>3. CASE CreateReturns
    BY <2>3 DEF CreateReturns
  <2>. QED
    BY <2>1, <2>2, <2>3, CreatingKinds
<1>. SUFFICES ASSUME NEW o \in OrderIds
              PROVE  RecordAgrees(o)'
  BY <1>1 DEF RecordsInv
<1>. DEFINE r == orders[o]
            t == trades[o]
<1>2. RecordAgrees(o) /\ StoreMoves(o)
      /\ OrderAgrees(orders[o], tasks[o], replies[o], store[o].status)
  BY StoreStep DEF RecordsInv, Inv, Agreement, OrdersAgree
<1>3. /\ Manager!Tracked(o)' => orders'[o].shares >= ReplaceGap
      /\ Manager!Tracked(o)' /\ store'[o].status \in {"NEW", "LIVE"} => orders'[o].pending = orders'[o].shares
  <2>1. CASE Manager!Tracked(o)
    <3>1. /\ orders'[o].shares = r.shares
          /\ orders'[o].pending = r.pending \/ store[o].status \in Final
      BY <2>1, TrackedMoves
    <3>2. store'[o].status \in {"NEW", "LIVE"} => store[o].status \in {"NEW", "LIVE"} /\ store[o].status \notin Final
      BY <1>2 DEF StoreMoves, Final
    <3>. QED
      BY <1>2, <2>1, <3>1, <3>2 DEF RecordAgrees
  <2>2. CASE ~Manager!Tracked(o) /\ CreateReturns
    <3>1. PICK n \in Unused :
            LET c == creating[1] IN
            /\ creating # NoCreate
            /\ orders'[n] = Manager!NewOrder(c.token, c.side, c.role, c.shares)
            /\ \A p \in OrderIds : p # n => orders'[p] = orders[p]
      BY <2>2, CreateMoves
    <3>2. CASE o = n
      <4>1. orders'[o].shares = creating[1].shares /\ orders'[o].pending = creating[1].shares
        BY <3>1, <3>2 DEF Manager!NewOrder
      <4>. QED
        BY <3>1, <4>1 DEF RecordsInv
    <3>3. CASE o # n
      BY <2>2, <3>1, <3>3 DEF Manager!Tracked
    <3>. QED
      BY <3>2, <3>3
  <2>3. CASE ~Manager!Tracked(o) /\ ~CreateReturns
    BY <2>3, SameOrder DEF Inv
  <2>. QED
    BY <2>1, <2>2, <2>3
<1>4. /\ trades'[o].status \in {"UNTRACKED", "PENDING", "SUCCESS"}
      /\ trades'[o].status # "UNTRACKED" =>
           trades'[o].order = o /\ trades'[o].shares = orders'[o].shares /\ Manager!Tracked(o)'
      /\ trades'[o].status = "SUCCESS" => Reported(Venue!TradeEvent(o, "MINED"))'
  <2>. DEFINE e == Venue!TradeEvent(o, "MINED")
  <2>0. e \in Venue!Events
    BY DEF Venue!TradeEvent, Venue!Events
  <2>1. CASE trades'[o] = t
    <3>1. t.status # "UNTRACKED" => orders'[o].shares = r.shares /\ Manager!Tracked(o)'
      BY <1>2, TrackedMoves DEF RecordAgrees
    <3>2. t.status = "SUCCESS" => Reported(e)'
      BY <1>2, <2>0, ReportedStays DEF RecordAgrees
    <3>. QED
      BY <1>2, <2>1, <3>1, <3>2 DEF RecordAgrees
  <2>2. CASE trades'[o] # t
    <3>. DEFINE h == Head(tradeQueue)
    <3>1. /\ tradeQueue # <<>> /\ h \in Venue!Events /\ h.kind = "trade" /\ h.order = o
          /\ Manager!Tracked(o)
          /\ trades'[o].status = IF h.status = "MINED" THEN "SUCCESS" ELSE "PENDING"
          /\ trades'[o].order = o /\ trades'[o].shares = r.shares
      BY <2>2, TradeMoves
    <3>2. orders'[o].shares = r.shares /\ Manager!Tracked(o)'
      BY <3>1, TrackedMoves
    <3>3. h.status = "MINED" => h = e
      BY <3>1 DEF Venue!TradeEvent, Venue!Events
    <3>4. In(h, tradeQueue)
      <4>. DEFINE T == {x \in Venue!Events : x.kind = "trade"}
      <4>1. tradeQueue \in Seq(T)
        BY DEF Inv, Agreement, ReportsAgree
      <4>. HIDE DEF T
      <4>. QED
        BY <3>1, <4>1, InTail
    <3>5. h.status = "MINED" => Reported(e)
      BY <2>0, <3>3, <3>4 DEF DeliveryInv
    <3>6. h.status = "MINED" => Reported(e)'
      BY <2>0, <3>5, ReportedStays
    <3>. HIDE DEF h, e
    <3>. QED
      BY <3>1, <3>2, <3>6 DEF e
  <2>. QED
    BY <2>1, <2>2
<1>5. store'[o].status = "MATCHED" => \E n \in DOMAIN fills' : fills'[n].order = o
  BY MatchedHasTrade
<1>. QED
  BY <1>3, <1>4, <1>5 DEF RecordAgrees

-----------------------------------------------------------------------------
(* What the manager's sums are, in terms of the venue's records.           *)

\* Orders whose trade has settled.
Settled(k, side) ==
    {o \in OrderIds : /\ Manager!Tracked(o) /\ orders[o].token = k /\ orders[o].side = side
                      /\ trades[o].status = "SUCCESS"}

LEMMA SameSum == \A f, S : Ledger!SumOf(f, S) = SumOf(f, S)
  BY DEF Ledger!SumOf, SumOf, Ledger!MapThenSumSet, MapThenSumSet, Ledger!MapThenFoldSet, MapThenFoldSet

LEMMA SharesSum ==
    ASSUME Inv, NEW S, S \subseteq OrderIds
    PROVE  /\ IsFiniteSet(S) /\ SumOf(Shares, S) \in Nat
           /\ \A o \in S : Shares[o] \in Nat /\ Shares[o] = orders[o].shares
<1>1. IsFiniteSet(OrderIds)
  BY TradingAssumption, FS_Interval DEF OrderIds
<1>2. IsFiniteSet(S)
  BY <1>1, FS_Subset
<1>3. \A o \in S : Shares[o] \in Nat /\ Shares[o] = orders[o].shares
  BY ManagerFacts DEF Inv, Shares, Manager!OrderRecord
<1>. QED
  BY <1>2, <1>3, SumNat

LEMMA OnChainIs ==
    ASSUME Inv, RecordsInv, NEW o \in OrderIds
    PROVE  /\ Ledger!OnChain(o, "SUCCESS") = IF trades[o].status = "SUCCESS" THEN orders[o].shares ELSE 0
           /\ Ledger!OnChain(o, "FAILURE") = 0
<1>. DEFINE f == [t \in OrderIds |-> trades[t].shares]
            S(status) == {t \in OrderIds : trades[t].order = o /\ trades[t].status = status}
<1>1. \A status : Ledger!OnChain(o, status) = SumOf(f, S(status))
  BY SameSum DEF Ledger!OnChain
<1>2. /\ S("SUCCESS") = IF trades[o].status = "SUCCESS" THEN {o} ELSE {}
      /\ S("FAILURE") = {}
  BY DEF RecordsInv, RecordAgrees
<1>3. trades[o].status = "SUCCESS" => f[o] = orders[o].shares
  BY DEF RecordsInv, RecordAgrees
<1>4. orders[o].shares \in Nat
  BY ManagerFacts DEF Inv, Manager!OrderRecord
<1>. HIDE DEF f, S
<1>5. SumOf(f, {}) = 0
  BY SumEmpty
<1>6. f[o] \in Nat => SumOf(f, {o}) = f[o]
  <2>1. IsFiniteSet({o}) /\ {o} \ {o} = {}
    BY FS_Singleton
  <2>2. f[o] \in Nat => SumOf(f, {o}) = f[o] + SumOf(f, {o} \ {o})
    BY <2>1, SumRemove
  <2>. QED
    BY <1>5, <2>1, <2>2
<1>. QED
  BY <1>1, <1>2, <1>3, <1>4, <1>5, <1>6

LEMMA OrdersOfIs ==
    ASSUME Inv, NEW k \in Tokens, NEW side
    PROVE  /\ Ledger!OrdersOf(k, side) =
                {o \in OrderIds : Manager!Tracked(o) /\ orders[o].token = k /\ orders[o].side = side}
           /\ IsFiniteSet(Ledger!OrdersOf(k, side))
<1>1. \A o \in OrderIds : orders[o].token \in Tokens <=> Manager!Tracked(o)
  BY ManagerFacts DEF Inv
<1>2. Ledger!OrdersOf(k, side) =
        {o \in OrderIds : Manager!Tracked(o) /\ orders[o].token = k /\ orders[o].side = side}
  BY <1>1 DEF Ledger!OrdersOf
<1>3. Ledger!OrdersOf(k, side) \subseteq OrderIds
  BY DEF Ledger!OrdersOf
<1>. QED
  BY <1>2, <1>3, SharesSum

LEMMA MinedIs ==
    ASSUME Inv, RecordsInv, NEW k \in Tokens, NEW side
    PROVE  SumOf(Ledger!MinedShares, Ledger!OrdersOf(k, side)) = SumOf(Shares, Settled(k, side))
<1>. DEFINE S == Ledger!OrdersOf(k, side)
            T == Settled(k, side)
            f == Ledger!MinedShares
<1>1. IsFiniteSet(S) /\ T \subseteq S /\ S \subseteq OrderIds
  BY OrdersOfIs DEF Settled
<1>2. \A o \in S : f[o] = IF trades[o].status = "SUCCESS" THEN Shares[o] ELSE 0
  BY <1>1, OnChainIs, SharesSum DEF Ledger!MinedShares
<1>3. \A o \in S : Shares[o] \in Nat
  BY <1>1, SharesSum
<1>4. \A o \in S : o \in T <=> trades[o].status = "SUCCESS"
  BY OrdersOfIs DEF Settled
<1>. HIDE DEF S, T, f
<1>5. SumOf(Shares, T) = SumOf(f, S)
  <2>1. /\ \A o \in T : f[o] \in Int /\ Shares[o] = f[o]
        /\ \A o \in S : o \notin T => f[o] = 0
    BY <1>1, <1>2, <1>3, <1>4
  <2>. QED
    BY <1>1, <2>1, SumFilter
<1>. QED
  BY <1>5 DEF S, T, f

LEMMA HoldingIs ==
    ASSUME Inv, RecordsInv, NEW k \in Tokens
    PROVE  /\ positions[k].shares \in Nat /\ closed[k].shares \in Int
           /\ SumOf(Shares, Settled(k, "BUY")) \in Nat /\ SumOf(Shares, Settled(k, "SELL")) \in Nat
           /\ positions[k].shares + closed[k].shares =
                SumOf(Shares, Settled(k, "BUY")) - SumOf(Shares, Settled(k, "SELL"))
<1>1. Ledger!LedgerInv
  BY DEF Inv, Ledger!TypeInv
<1>2. positions[k].shares \in Nat /\ closed[k].shares \in Int
  BY <1>1 DEF Ledger!LedgerInv, Ledger!IInv, Ledger!Position, Ledger!Books
<1>3. positions[k].shares + closed[k].shares =
        SumOf(Ledger!MinedShares, Ledger!OrdersOf(k, "BUY"))
          - SumOf(Ledger!MinedShares, Ledger!OrdersOf(k, "SELL"))
  BY <1>1, SameSum DEF Ledger!LedgerInv, Ledger!SharesLedger
<1>4. Settled(k, "BUY") \subseteq OrderIds /\ Settled(k, "SELL") \subseteq OrderIds
  BY DEF Settled
<1>. QED
  BY <1>2, <1>3, <1>4, MinedIs, SharesSum

\* With no active order, all orders of the token have matched in full or been
\* canceled.
LEMMA IdleOrders ==
    ASSUME Inv, NEW k \in Tokens, ActiveOrders(k) = {}, NEW o \in OrderIds,
           Manager!Tracked(o), orders[o].token = k
    PROVE  /\ store[o].status \in Final
           /\ store[o].status = "MATCHED" => orders[o].matched = orders[o].shares /\ orders[o].pending = 0
           /\ store[o].status = "CANCELED" => orders[o].matched = 0 /\ orders[o].pending = 0
<1>. DEFINE r == orders[o]
<1>1. /\ OrderAgrees(r, tasks[o], replies[o], store[o].status)
      /\ r \in Manager!OrderRecord /\ r.matched + r.pending + r.invalid <= r.shares
      /\ Manager!IsCanceled(r) \/ r.status = "SUB_FAILED" => r.pending = 0
      /\ r.status = "FULL_MATCHED" => r.matched > 0
  BY ManagerFacts DEF Inv, Agreement, OrdersAgree
<1>2. r.matched \in Nat /\ r.pending \in Nat /\ r.invalid \in Nat /\ r.shares \in Nat
  BY <1>1 DEF Manager!OrderRecord
<1>3. r.status \in Manager!OrderStatus /\ r.status \notin Manager!ActiveStatus
      /\ r.status # "UNTRACKED" /\ r.status # "SUB_FAILED"
  BY <1>1 DEF Manager!OrderRecord, ActiveOrders, Manager!IsActive, Manager!Tracked, OrderAgrees
<1>4. CASE Manager!IsCanceled(r)
  BY <1>1, <1>2, <1>4 DEF OrderAgrees, Final
<1>5. CASE r.status = "FULL_MATCHED"
  <2>1. r.matched = r.shares /\ store[o].status = "MATCHED"
    BY <1>1, <1>2, <1>5 DEF OrderAgrees
  <2>. QED
    BY <1>1, <1>2, <2>1 DEF Final
<1>. QED
  BY <1>3, <1>4, <1>5 DEF Manager!OrderStatus, Manager!IsCanceled

LEMMA IdlePosition ==
    ASSUME Inv, RecordsInv, NEW k \in Tokens, ActiveOrders(k) = {}
    PROVE  LET p == Manager!CurrentPosition(k)
               bought == SumOf(Shares, Placed(k, "BUY", {"NEW", "LIVE", "MATCHED"}))
               sold == SumOf(Shares, Placed(k, "SELL", {"NEW", "LIVE", "MATCHED"}))
           IN  /\ bought \in Nat /\ sold \in Nat
               /\ Placed(k, "SELL", {"MATCHED"}) = Placed(k, "SELL", {"NEW", "LIVE", "MATCHED"})
               /\ Manager!Effective(p) \in Int
               /\ Manager!Effective(p) + closed[k].shares = bought - sold
               /\ p.closing \in Int /\ p.close_settling \in Int
               /\ p.holding = positions[k]
               /\ p.closing + p.close_settling = sold - SumOf(Shares, Settled(k, "SELL"))
<1>. DEFINE p == Manager!CurrentPosition(k)
            B(side) == SumOf(Shares, Placed(k, side, {"NEW", "LIVE", "MATCHED"}))
<1>1. /\ Ledger!LedgerInv /\ Ledger!IInv /\ Ledger!TrackingInv
      /\ closed[k].shares \in Int
  BY HoldingIs DEF Inv, Ledger!TypeInv, Ledger!LedgerInv
<1>2. ASSUME NEW side
      PROVE  /\ Placed(k, side, {"NEW", "LIVE", "MATCHED"}) = Placed(k, side, {"MATCHED"})
             /\ SumOf(Ledger!Committed, Ledger!OrdersOf(k, side)) = B(side) /\ B(side) \in Nat
  <2>. DEFINE S == Ledger!OrdersOf(k, side)
              T == Placed(k, side, {"MATCHED"})
              f == Ledger!Committed
  <2>1. Placed(k, side, {"NEW", "LIVE", "MATCHED"}) = T
    BY IdleOrders DEF Placed, Final
  <2>2. IsFiniteSet(S) /\ T \subseteq S /\ S \subseteq OrderIds
    BY OrdersOfIs DEF Placed
  <2>3. \A o \in S : Shares[o] \in Nat /\ Shares[o] = orders[o].shares
    BY <2>2, SharesSum
  <2>4. \A o \in S : f[o] = IF o \in T THEN Shares[o] ELSE 0
    <3>. SUFFICES ASSUME NEW o \in S
                  PROVE  f[o] = IF o \in T THEN Shares[o] ELSE 0
      OBVIOUS
    <3>1. /\ o \in OrderIds /\ Manager!Tracked(o) /\ orders[o].token = k
          /\ o \in T <=> store[o].status = "MATCHED"
      BY OrdersOfIs DEF Placed
    <3>2. /\ store[o].status \in Final
          /\ store[o].status = "MATCHED" => orders[o].matched = orders[o].shares /\ orders[o].pending = 0
          /\ store[o].status = "CANCELED" => orders[o].matched = 0 /\ orders[o].pending = 0
      BY <3>1, IdleOrders
    <3>3. f[o] = orders[o].pending + orders[o].matched - 0
      BY <3>1, OnChainIs DEF Ledger!Committed
    <3>. HIDE DEF f, T
    <3>. QED
      BY <2>3, <3>1, <3>2, <3>3 DEF Final
  <2>. HIDE DEF S, T, f
  <2>5. SumOf(Shares, T) = SumOf(f, S)
    <3>1. /\ \A o \in T : f[o] \in Int /\ Shares[o] = f[o]
          /\ \A o \in S : o \notin T => f[o] = 0
      BY <2>2, <2>3, <2>4
    <3>. QED
      BY <2>2, <3>1, SumFilter
  <2>6. SumOf(Shares, T) \in Nat
    BY <2>2, SharesSum
  <2>. QED
    BY <2>1, <2>5, <2>6 DEF S, T, f
<1>3. Ledger!Effective(Ledger!CurrentPosition(k)) + closed[k].shares =
        SumOf(Ledger!Committed, Ledger!OrdersOf(k, "BUY"))
          - SumOf(Ledger!Committed, Ledger!OrdersOf(k, "SELL"))
  <2>1. Ledger!EffectiveIsCommitted
    BY <1>1, Assumptions, Ledger!LedgerImplies
  <2>. QED
    BY <2>1, SameSum DEF Ledger!EffectiveIsCommitted
<1>4. p = Ledger!CurrentPosition(k) /\ Ledger!Effective(p) = Manager!Effective(p)
  BY SamePosition DEF Ledger!Effective, Manager!Effective
<1>5. p \in Ledger!PositionEvent
  BY <1>1, <1>4, Assumptions, Ledger!CurrentPositionType
<1>6. /\ SumOf(Ledger!Committed, Ledger!OrdersOf(k, "SELL")) =
           p.closing + p.close_settling + SumOf(Ledger!MinedShares, Ledger!OrdersOf(k, "SELL"))
  <2>1. Ledger!SumOf(Ledger!Committed, Ledger!OrdersOf(k, "SELL")) =
          Ledger!SumOf(Ledger!PendingShares, Ledger!OrdersOf(k, "SELL"))
            + Ledger!SumOf(Ledger!OpenShares, Ledger!OrdersOf(k, "SELL"))
            + Ledger!SumOf(Ledger!MinedShares, Ledger!OrdersOf(k, "SELL"))
    BY <1>1, Assumptions, Ledger!CommittedSum DEF Ledger!Side
  <2>2. /\ p.closing = Ledger!SumOf(Ledger!PendingShares, Ledger!OrdersOf(k, "SELL"))
        /\ p.close_settling = Ledger!SumOf(Ledger!OpenShares, Ledger!OrdersOf(k, "SELL"))
    BY <1>4 DEF Ledger!CurrentPosition, Ledger!PendingShares, Ledger!OpenShares
  <2>. QED
    BY <2>1, <2>2, SameSum
<1>7. p.holding = positions[k]
  BY DEF Manager!CurrentPosition
<1>8. /\ p.opening \in Int /\ p.open_settling \in Int /\ p.closing \in Int
      /\ p.close_settling \in Int /\ p.holding.shares \in Int
  BY <1>5 DEF Ledger!PositionEvent, Ledger!Position
<1>9. SumOf(Ledger!MinedShares, Ledger!OrdersOf(k, "SELL")) = SumOf(Shares, Settled(k, "SELL"))
      /\ SumOf(Shares, Settled(k, "SELL")) \in Nat
  BY MinedIs, HoldingIs
<1>10. B("BUY") \in Nat /\ B("SELL") \in Nat
       /\ SumOf(Ledger!Committed, Ledger!OrdersOf(k, "BUY")) = B("BUY")
       /\ SumOf(Ledger!Committed, Ledger!OrdersOf(k, "SELL")) = B("SELL")
       /\ Placed(k, "SELL", {"MATCHED"}) = Placed(k, "SELL", {"NEW", "LIVE", "MATCHED"})
  BY <1>2
<1>11. Manager!Effective(p) \in Int
  <2>. HIDE DEF p
  <2>. QED
    BY <1>8 DEF Manager!Effective
<1>12. Manager!Effective(p) + closed[k].shares = B("BUY") - B("SELL")
  BY <1>3, <1>4, <1>10
<1>13. p.closing + p.close_settling = B("SELL") - SumOf(Shares, Settled(k, "SELL"))
  <2>. DEFINE a == p.closing
              b == p.close_settling
              c == SumOf(Shares, Settled(k, "SELL"))
              d == B("SELL")
  <2>1. d = a + b + c /\ a \in Int /\ b \in Int /\ c \in Nat /\ d \in Nat
    BY <1>6, <1>8, <1>9, <1>10
  <2>. HIDE DEF a, b, c, d
  <2>2. a + b = d - c
    BY <2>1
  <2>. QED
    BY <2>2 DEF a, b, c, d
<1>. QED
  BY <1>7, <1>8, <1>10, <1>11, <1>12, <1>13, Zenon

-----------------------------------------------------------------------------
(* What is committed to be bought and sold.                                *)

Sells(k) == Placed(k, "SELL", {"NEW", "LIVE", "MATCHED"})
Buys(k) == Placed(k, "BUY", {"NEW", "LIVE", "MATCHED"})
Sold(k) == Placed(k, "SELL", {"MATCHED"})

\* Shares of the order that a create call is under way for.
Creating(k, side) ==
    IF creating # NoCreate /\ creating[1].token = k /\ creating[1].side = side
    THEN creating[1].shares ELSE 0

\* What is sold or to be sold, or was written off, had settled before; and what
\* is bought or to be bought is no more than was once desired.
Covered(k) ==
    /\ closed[k].shares >= 0
    /\ SumOf(Shares, Sells(k)) + Creating(k, "SELL") + closed[k].shares
         <= SumOf(Shares, Settled(k, "BUY"))
    /\ \E d \in DesiredShares :
         SumOf(Shares, Buys(k)) + Creating(k, "BUY") - SumOf(Shares, Sold(k))
           <= d + closed[k].shares

ExposureInv == ~settled => \A k \in Tokens : Covered(k)

LEMMA ExposureTypes ==
    ASSUME Inv, RecordsInv, NEW k \in Tokens
    PROVE  /\ SumOf(Shares, Sells(k)) \in Nat /\ SumOf(Shares, Buys(k)) \in Nat
           /\ SumOf(Shares, Sold(k)) \in Nat /\ SumOf(Shares, Settled(k, "BUY")) \in Nat
           /\ closed[k].shares \in Int
           /\ Creating(k, "SELL") \in Nat /\ Creating(k, "BUY") \in Nat
<1>1. Sells(k) \subseteq OrderIds /\ Buys(k) \subseteq OrderIds /\ Sold(k) \subseteq OrderIds
  BY DEF Sells, Buys, Sold, Placed
<1>2. Creating(k, "SELL") \in Nat /\ Creating(k, "BUY") \in Nat
  BY DEF Inv, CallTypes, Creating
<1>. QED
  BY <1>1, <1>2, HoldingIs, SharesSum

\* The sets of orders that matter, in a step that tracks no new one.
LEMMA ExposureMoves ==
    ASSUME Inv, RecordsInv, [Next]_vars, ~CreateReturns, NEW k \in Tokens
    PROVE  /\ Shares' = Shares
           /\ Sells(k)' \subseteq Sells(k) /\ Buys(k)' \subseteq Buys(k)
           /\ Sold(k) \subseteq Sold(k)' /\ Sold(k)' \subseteq OrderIds
           /\ \A side : Settled(k, side) \subseteq Settled(k, side)' /\ Settled(k, side)' \subseteq OrderIds
<1>1. Shares' = Shares
  BY SameOrder DEF Inv, Shares
<1>2. \A o \in OrderIds : StoreMoves(o)
  BY StoreStep DEF Inv
<1>3. \A o \in OrderIds : /\ Manager!Tracked(o)' <=> Manager!Tracked(o)
                          /\ orders'[o].token = orders[o].token /\ orders'[o].side = orders[o].side
  BY SameOrder DEF Inv
<1>4. /\ Sells(k)' \subseteq Sells(k) /\ Buys(k)' \subseteq Buys(k)
      /\ Sold(k) \subseteq Sold(k)' /\ Sold(k)' \subseteq OrderIds
  BY <1>2, <1>3 DEF Sells, Buys, Sold, Placed, StoreMoves, Final
<1>5. \A o \in OrderIds : trades[o].status = "SUCCESS" => trades'[o].status = "SUCCESS"
  <2>. SUFFICES ASSUME NEW o \in OrderIds, trades[o].status = "SUCCESS"
                PROVE  trades'[o].status = "SUCCESS"
    OBVIOUS
  <2>1. CASE trades'[o] = trades[o]
    BY <2>1
  <2>2. CASE trades'[o] # trades[o]
    BY <2>2, TradeMoves
  <2>. QED
    BY <2>1, <2>2
<1>6. \A side : Settled(k, side) \subseteq Settled(k, side)' /\ Settled(k, side)' \subseteq OrderIds
  BY <1>3, <1>5 DEF Settled
<1>. QED
  BY <1>1, <1>4, <1>6

\* How their sums move then.
LEMMA ExposureSums ==
    ASSUME Inv, RecordsInv, [Next]_vars, ~CreateReturns, NEW k \in Tokens
    PROVE  /\ SumOf(Shares, Sells(k))' <= SumOf(Shares, Sells(k)) /\ SumOf(Shares, Sells(k))' \in Nat
           /\ SumOf(Shares, Buys(k))' <= SumOf(Shares, Buys(k)) /\ SumOf(Shares, Buys(k))' \in Nat
           /\ SumOf(Shares, Sold(k)) <= SumOf(Shares, Sold(k))' /\ SumOf(Shares, Sold(k))' \in Nat
           /\ SumOf(Shares, Settled(k, "BUY")) <= SumOf(Shares, Settled(k, "BUY"))'
           /\ SumOf(Shares, Settled(k, "BUY"))' \in Nat
<1>1. \A S, T : T \subseteq S /\ S \subseteq OrderIds =>
        SumOf(Shares, T) <= SumOf(Shares, S) /\ SumOf(Shares, T) \in Nat /\ SumOf(Shares, S) \in Nat
  <2>. SUFFICES ASSUME NEW S, NEW T, T \subseteq S, S \subseteq OrderIds
                PROVE  SumOf(Shares, T) <= SumOf(Shares, S) /\ SumOf(Shares, T) \in Nat
                       /\ SumOf(Shares, S) \in Nat
    OBVIOUS
  <2>. HIDE DEF Shares
  <2>. QED
    BY SharesSum, SumSubset
<1>2. Sells(k) \subseteq OrderIds /\ Buys(k) \subseteq OrderIds
  BY DEF Sells, Buys, Placed
<1>3. /\ Shares' = Shares
      /\ Sells(k)' \subseteq Sells(k) /\ Buys(k)' \subseteq Buys(k)
      /\ Sold(k) \subseteq Sold(k)' /\ Sold(k)' \subseteq OrderIds
      /\ Settled(k, "BUY") \subseteq Settled(k, "BUY")' /\ Settled(k, "BUY")' \subseteq OrderIds
  BY ExposureMoves
<1>4. \A S : SumOf(Shares', S) = SumOf(Shares, S)
  BY <1>3
<1>5. /\ SumOf(Shares, Sells(k)') <= SumOf(Shares, Sells(k)) /\ SumOf(Shares, Sells(k)') \in Nat
      /\ SumOf(Shares, Buys(k)') <= SumOf(Shares, Buys(k)) /\ SumOf(Shares, Buys(k)') \in Nat
      /\ SumOf(Shares, Sold(k)) <= SumOf(Shares, Sold(k)') /\ SumOf(Shares, Sold(k)') \in Nat
      /\ SumOf(Shares, Settled(k, "BUY")) <= SumOf(Shares, Settled(k, "BUY")')
      /\ SumOf(Shares, Settled(k, "BUY")') \in Nat
  BY <1>1, <1>2, <1>3, Zenon
<1>. QED
  BY <1>4, <1>5, Zenon

\* What the engine asks for when no order of the token is active.
LEMMA AdjustmentCovered ==
    ASSUME Inv, RecordsInv, NEW k \in Tokens, NEW desired \in DesiredShares, ActiveOrders(k) = {},
           Adjustment(k, desired).shares >= ReplaceGap
    PROVE  LET adj == Adjustment(k, desired) IN
           /\ adj.side = "SELL" =>
                SumOf(Shares, Sells(k)) + adj.shares + closed[k].shares <= SumOf(Shares, Settled(k, "BUY"))
           /\ adj.side = "BUY" =>
                SumOf(Shares, Buys(k)) + adj.shares - SumOf(Shares, Sold(k)) = desired + closed[k].shares
<1>. DEFINE p == Manager!CurrentPosition(k)
            cur == Manager!Effective(p)
            adj == Adjustment(k, desired)
            S == SumOf(Shares, Sells(k))
            B == SumOf(Shares, Buys(k))
            R == SumOf(Shares, Settled(k, "BUY"))
            U == SumOf(Shares, Settled(k, "SELL"))
            c == closed[k].shares
            free == p.holding.shares - p.closing - p.close_settling
<1>1. /\ S \in Nat /\ B \in Nat /\ R \in Nat /\ U \in Nat /\ c \in Int
      /\ SumOf(Shares, Sold(k)) = S
      /\ cur \in Int /\ cur + c = B - S
      /\ p.closing \in Int /\ p.close_settling \in Int
      /\ p.closing + p.close_settling = S - U
      /\ p.holding.shares \in Nat /\ p.holding.shares + c = R - U
  <2>1. /\ positions[k].shares \in Nat /\ c \in Int /\ R \in Nat /\ U \in Nat
        /\ positions[k].shares + c = R - U
    BY HoldingIs
  <2>2. /\ S \in Nat /\ B \in Nat /\ SumOf(Shares, Sold(k)) = S
        /\ cur \in Int /\ cur + c = B - S
        /\ p.closing \in Int /\ p.close_settling \in Int /\ p.holding = positions[k]
        /\ p.closing + p.close_settling = S - U
    BY IdlePosition DEF Sells, Buys, Sold
  <2>. HIDE DEF p, cur, S, B, R, U, c
  <2>. QED
    BY <2>1, <2>2
<1>2. desired \in Nat /\ ReplaceGap \in Nat \ {0} /\ Dust \in Nat
  BY TradingAssumption
<1>3. Sellable(p) = Manager!Larger(free, 0)
  BY DEF Sellable
<1>4. \/ adj = [side |-> "BUY", shares |-> desired - cur] /\ desired > cur
      \/ adj = [side |-> "SELL", shares |-> Manager!Smaller(cur - desired, Sellable(p))]
      \/ adj = [side |-> "BUY", shares |-> 0]
  <2>1. cur > desired \/ desired > cur \/ ~(cur > desired \/ desired > cur)
    OBVIOUS
  <2>2. cur > desired => ~(desired > cur)
    BY <1>1, <1>2
  <2>. QED
    BY <1>1, <1>2, <2>1, <2>2 DEF Adjustment
<1>5. adj.shares >= ReplaceGap
  OBVIOUS
<1>6. free \in Int
  <2>. HIDE DEF p
  <2>. QED
    BY <1>1
<1>7. free + c = R - S
  <2>. HIDE DEF p, S, R, U, c
  <2>. QED
    BY <1>1
<1>. SUFFICES /\ adj.side = "SELL" => S + adj.shares + c <= R
              /\ adj.side = "BUY" => B + adj.shares - S = desired + c
  BY <1>1
<1>. HIDE DEF p, cur, S, B, R, U, c, free, adj
<1>8. CASE adj = [side |-> "BUY", shares |-> desired - cur]
  BY <1>1, <1>2, <1>8
<1>9. CASE adj = [side |-> "SELL", shares |-> Manager!Smaller(cur - desired, Sellable(p))]
  <2>1. adj.shares <= Sellable(p) /\ adj.shares \in Int /\ Sellable(p) \in Int
    BY <1>1, <1>2, <1>3, <1>6, <1>9 DEF Manager!Smaller, Manager!Larger
  <2>2. Sellable(p) = free \/ Sellable(p) = 0
    BY <1>3, <1>6 DEF Manager!Larger
  <2>3. adj.shares <= free
    BY <1>2, <1>5, <1>6, <2>1, <2>2
  <2>. QED
    BY <1>1, <1>6, <1>7, <1>9, <2>1, <2>3
<1>10. CASE adj = [side |-> "BUY", shares |-> 0]
  BY <1>2, <1>5, <1>10
<1>. QED
  BY <1>4, <1>8, <1>9, <1>10

\* Who can have moved, in a step after which the market is not settled.
LEMMA ExposureKinds ==
    ASSUME [Next]_vars, ~settled'
    PROVE  /\ ~settled
           /\ \/ UNCHANGED <<creating, closed>>
              \/ CreateReturns
              \/ \E k \in Tokens, desired \in DesiredShares, force \in BOOLEAN :
                   StartOrder(k, desired, force)
              \/ MarketTradeLoop
<1>1. CASE UNCHANGED vars
  BY <1>1 DEF vars, managerVars
<1>2. CASE Next
  <2>1. Running
    BY <1>2, Zenon DEF Next
  <2>2. \A winner : ~Settle(winner)
    BY DEF Settle, Manager!SettleMarket
  <2>3. \/ UNCHANGED <<creating, closed>>
        \/ CreateReturns
        \/ \E k \in Tokens, desired \in DesiredShares, force \in BOOLEAN :
             StartOrder(k, desired, force)
        \/ MarketTradeLoop
    BY <1>2, <2>2, Zenon DEF Next, managerVars, ReplaceOrder, Manager!Cancel, ThreadSubmits,
       SubmitReturns, Manager!SubmitSuccess, ThreadCancels, CancelReturns, Manager!CancelSuccess,
       Manager!CancelFailed, ThreadReads, ReadReturns, Manager!SyncReturns, Publish,
       MarketOrderLoop, Manager!HandleOrderEvent, VenueMoves
  <2>. QED
    BY <2>1, <2>3 DEF Running
<1>. QED
  BY <1>1, <1>2

\* What leaves a position as dust when a trade settles.
LEMMA ClosedMoves ==
    ASSUME Inv, MarketTradeLoop, NEW k \in Tokens, closed'[k] # closed[k], NEW o, o = Head(tradeQueue).order
    PROVE  /\ o \in OrderIds /\ Manager!Tracked(o) /\ orders[o].token = k
           /\ Head(tradeQueue).status = "MINED" /\ trades[o].status # "SUCCESS"
           /\ trades'[o].status = "SUCCESS"
           /\ LET left == IF orders[o].side = "BUY" THEN positions[k].shares + orders[o].shares
                          ELSE positions[k].shares - orders[o].shares
              IN  left <= Dust /\ closed'[k].shares = closed[k].shares + left
<1>. DEFINE h == Head(tradeQueue)
            e == [order |-> o, token |-> orders[o].token, trade |-> o,
                  shares |-> orders[o].shares, price |-> Price, role |-> orders[o].role,
                  status |-> h.status]
            side == orders[o].side
            p == Manager!ApplyConfirmedTrade(positions[orders[o].token], side,
                   Manager!CashAmount(e, side), orders[o].shares)
<1>1. tradeQueue # <<>> /\ Manager!HandleTradeEvent(e)
  BY DEF MarketTradeLoop
<1>2. h \in Venue!Events /\ h.kind = "trade"
  BY <1>1, ReportHeads DEF Inv
<1>3. o \in OrderIds /\ h.status \in {"MATCHED", "MINED"}
  BY <1>2 DEF Venue!Events
<1>4. /\ trades \in [OrderIds -> Manager!TradeRecord]
      /\ orders \in [OrderIds -> Manager!OrderRecord]
  BY ManagerFacts DEF Inv
<1>5. positions \in [Tokens -> Manager!Position] /\ closed \in [Tokens -> Ledger!Books]
  <2>1. Ledger!IInv /\ closed \in [Tokens -> Ledger!Books]
    BY DEF Inv, Ledger!TypeInv, Ledger!LedgerInv
  <2>. QED
    BY <2>1 DEF Ledger!IInv, Ledger!Position, Manager!Position
<1>. HIDE DEF h
<1>6. /\ Manager!Tracked(o)
      /\ trades' = [trades EXCEPT ![o] = [status |-> Manager!TradeStatus(e), order |-> o,
                      shares |-> orders[o].shares, price |-> Price, role |-> orders[o].role]]
      /\ IF Manager!BecomesSuccess(e)
         THEN closed' = [closed EXCEPT ![orders[o].token] = Manager!Residue(@, p)]
         ELSE closed' = closed
  BY <1>1 DEF Manager!HandleTradeEvent, Manager!Accepted
<1>7. Manager!BecomesSuccess(e)
  BY <1>6
<1>8. trades[o].status # "SUCCESS" /\ Manager!TradeStatus(e) = "SUCCESS"
  BY <1>7 DEF Manager!BecomesSuccess
<1>9. h.status = "MINED"
  BY <1>3, <1>8 DEF Manager!TradeStatus
<1>10. trades'[o].status = "SUCCESS"
  <2>. HIDE DEF e
  <2>. QED
    BY <1>3, <1>4, <1>6, <1>8
<1>11. orders[o].token = k /\ closed'[k] = Manager!Residue(closed[k], p)
  <2>. HIDE DEF e, p, side
  <2>. QED
    BY <1>5, <1>6, <1>7
<1>12. p.shares = IF side = "BUY" THEN positions[k].shares + orders[o].shares
                  ELSE positions[k].shares - orders[o].shares
  <2>. DEFINE a == Manager!CashAmount(e, side)
              x == positions[k]
              n == orders[o].shares
  <2>1. x \in Manager!Position /\ p = Manager!ApplyConfirmedTrade(x, side, a, n)
    BY <1>5, <1>11
  <2>. HIDE DEF a, x, n, e, side, p
  <2>2. p.shares = IF side = "BUY" THEN x.shares + n ELSE x.shares - n
    BY <2>1 DEF Manager!ApplyConfirmedTrade, Manager!Position
  <2>. QED
    BY <2>2 DEF x, n
<1>13. p.shares <= Dust /\ closed'[k].shares = closed[k].shares + p.shares
  <2>. HIDE DEF e, p, side
  <2>1. closed[k] \in Ledger!Books
    BY <1>5
  <2>2. p.shares <= Dust
    BY <1>11 DEF Manager!Residue
  <2>3. closed'[k] = [closed[k] EXCEPT !.shares = @ + p.shares, !.cash = @ + p.cost]
    BY <1>11, <2>2 DEF Manager!Residue
  <2>. QED
    BY <2>1, <2>2, <2>3 DEF Ledger!Books
<1>. QED
  BY <1>3, <1>6, <1>8, <1>9, <1>10, <1>11, <1>12, <1>13 DEF h

\* A sale that leaves dust behind was the last: nothing else is on sale.
LEMMA DustIsCovered ==
    ASSUME Inv, HistoryInv, DeliveryInv, RecordsInv, [Next]_vars, MarketTradeLoop,
           NEW k \in Tokens, Covered(k), closed'[k] # closed[k]
    PROVE  /\ closed'[k].shares \in Int /\ closed'[k].shares >= closed[k].shares
           /\ SumOf(Shares, Sells(k)) + Creating(k, "SELL") + closed'[k].shares
                <= SumOf(Shares, Settled(k, "BUY"))
<1>. DEFINE h == Head(tradeQueue)
            n == orders[h.order].shares
            S == SumOf(Shares, Sells(k))
            R == SumOf(Shares, Settled(k, "BUY"))
            U == SumOf(Shares, Settled(k, "SELL"))
            C == Creating(k, "SELL")
            T(o) == Settled(k, "SELL") \cup {o}
            c == closed[k].shares
            left == IF orders[h.order].side = "BUY" THEN positions[k].shares + n ELSE positions[k].shares - n
<1>0. PICK o : o = h.order
  OBVIOUS
<1>1. /\ o \in OrderIds /\ Manager!Tracked(o) /\ orders[o].token = k
      /\ h.status = "MINED" /\ trades[o].status # "SUCCESS"
      /\ left <= Dust /\ closed'[k].shares = c + left
  BY <1>0, ClosedMoves
<1>2. /\ Dust \in Nat /\ ReplaceGap \in Nat /\ Dust < ReplaceGap
      /\ n \in Nat /\ n >= ReplaceGap /\ Shares[o] = n
  <2>1. orders[o].shares \in Nat /\ orders[o].shares >= ReplaceGap /\ Shares[o] = orders[o].shares
    BY <1>1, ManagerFacts DEF Inv, Manager!OrderRecord, RecordsInv, RecordAgrees, Shares
  <2>. QED
    BY <1>0, <2>1, TradingAssumption
<1>3. /\ positions[k].shares \in Nat /\ c \in Int /\ R \in Nat /\ U \in Nat
      /\ positions[k].shares + c = R - U
      /\ S \in Nat /\ C \in Nat /\ S + C + c <= R
  BY HoldingIs, ExposureTypes DEF Covered
<1>4. orders[o].side = "SELL" /\ left = positions[k].shares - n
  <2>1. orders[o].side \in {"BUY", "SELL"}
    BY <1>1, ManagerFacts DEF Inv, Manager!OrderRecord, Manager!Side
  <2>2. orders[o].side # "BUY"
    BY <1>0, <1>1, <1>2, <1>3
  <2>. QED
    BY <1>0, <2>1, <2>2
<1>5. store[o].status = "MATCHED"
  <2>1. tradeQueue # <<>>
    BY DEF MarketTradeLoop
  <2>2. h \in Venue!Events /\ h.kind = "trade" /\ In(h, tradeQueue)
    <3>. DEFINE Q == {x \in Venue!Events : x.kind = "trade"}
    <3>1. tradeQueue \in Seq(Q)
      BY DEF Inv, Agreement, ReportsAgree
    <3>. HIDE DEF Q
    <3>2. h \in Q /\ In(h, tradeQueue)
      BY <2>1, <3>1, InTail
    <3>. QED
      BY <3>2 DEF Q
  <2>3. Reported(h)
    BY <2>2 DEF DeliveryInv
  <2>. QED
    BY <1>0, <2>2, <2>3, ReportedHappened
<1>6. T(o) \subseteq Sells(k) /\ Settled(k, "SELL") \subseteq OrderIds /\ Sells(k) \subseteq OrderIds
  <2>1. ASSUME NEW p \in Settled(k, "SELL")
        PROVE  p \in Sells(k)
    <3>1. /\ p \in OrderIds /\ Manager!Tracked(p) /\ orders[p].token = k /\ orders[p].side = "SELL"
          /\ trades[p].status = "SUCCESS"
      BY DEF Settled
    <3>. DEFINE e == Venue!TradeEvent(p, "MINED")
    <3>2. e \in Venue!Events /\ e.order = p /\ e.kind = "trade"
      BY <3>1 DEF Venue!Events, Venue!TradeEvent
    <3>3. Reported(e)
      BY <3>1 DEF RecordsInv, RecordAgrees
    <3>. HIDE DEF e
    <3>4. store[p].status = "MATCHED"
      BY <3>2, <3>3, ReportedHappened
    <3>. QED
      BY <3>1, <3>4 DEF Sells, Placed
  <2>2. o \in Sells(k)
    BY <1>1, <1>4, <1>5 DEF Sells, Placed
  <2>. QED
    BY <2>1, <2>2 DEF Settled, Sells, Placed
<1>7. SumOf(Shares, T(o)) = U + n
  <2>1. o \notin Settled(k, "SELL")
    BY <1>1 DEF Settled
  <2>2. /\ IsFiniteSet(Settled(k, "SELL"))
        /\ \A p \in Settled(k, "SELL") : Shares[p] \in Int
    BY <1>6, SharesSum
  <2>. QED
    BY <1>2, <2>1, <2>2, SumInsert
<1>. DEFINE M == Sells(k) \ T(o)
            rest == SumOf(Shares, M)
<1>8. S = U + n + rest /\ rest \in Nat
  <2>1. /\ IsFiniteSet(Sells(k))
        /\ \A p \in Sells(k) : Shares[p] \in Int
    BY <1>6, SharesSum
  <2>2. S = SumOf(Shares, T(o)) + rest
    BY <1>6, <2>1, SumSplit
  <2>3. rest \in Nat
    BY <1>6, SharesSum
  <2>. QED
    BY <1>7, <2>2, <2>3
<1>9. left \in Int /\ left >= rest + C /\ left = R - c - U - n
  <2>. HIDE DEF R, U, S, C, c, n, rest
  <2>. QED
    BY <1>2, <1>3, <1>4, <1>8
<1>10. rest = 0
  <2>1. rest < ReplaceGap
    <3>. HIDE DEF left, rest, C
    <3>. QED
      BY <1>1, <1>2, <1>3, <1>8, <1>9
  <2>2. \A p \in M : Shares[p] \in Nat /\ Shares[p] >= ReplaceGap
    <3>1. \A p \in M : p \in OrderIds /\ Manager!Tracked(p)
      BY <1>6 DEF Sells, Placed
    <3>2. \A p \in OrderIds : Manager!Tracked(p) => orders[p].shares >= ReplaceGap
      BY DEF RecordsInv, RecordAgrees
    <3>3. \A p \in OrderIds : Shares[p] \in Nat /\ Shares[p] = orders[p].shares
      BY SharesSum
    <3>. QED
      BY <3>1, <3>2, <3>3
  <2>3. IsFiniteSet(M)
    BY <1>6, SharesSum
  <2>4. M = {}
    <3>. HIDE DEF M
    <3>. QED
      BY <1>2, <2>1, <2>2, <2>3, SumSmall
  <2>. QED
    BY <2>4, SumEmpty
<1>11. C = 0
  <2>1. C = 0 \/ C >= ReplaceGap
    BY DEF Creating, RecordsInv
  <2>. HIDE DEF left, rest, C
  <2>. QED
    BY <1>1, <1>2, <1>3, <1>8, <1>9, <2>1
<1>. SUFFICES /\ closed'[k].shares \in Int /\ closed'[k].shares >= c
              /\ S + C + closed'[k].shares <= R
  OBVIOUS
<1>. HIDE DEF R, U, S, C, c, n, rest, left
<1>. QED
  BY <1>1, <1>2, <1>3, <1>8, <1>9, <1>10, <1>11

LEMMA CoveredStays ==
    ASSUME Inv, RecordsInv, [Next]_vars, ~CreateReturns, NEW k \in Tokens, Covered(k),
           UNCHANGED creating, closed'[k].shares \in Int, closed'[k].shares >= closed[k].shares,
           SumOf(Shares, Sells(k)) + Creating(k, "SELL") + closed'[k].shares
             <= SumOf(Shares, Settled(k, "BUY"))
    PROVE  Covered(k)'
<1>. DEFINE S == SumOf(Shares, Sells(k))
            B == SumOf(Shares, Buys(k))
            M == SumOf(Shares, Sold(k))
            R == SumOf(Shares, Settled(k, "BUY"))
            X == Creating(k, "SELL")
            Y == Creating(k, "BUY")
            c == closed[k].shares
            S1 == SumOf(Shares, Sells(k))'
            B1 == SumOf(Shares, Buys(k))'
            M1 == SumOf(Shares, Sold(k))'
            R1 == SumOf(Shares, Settled(k, "BUY"))'
            c1 == closed'[k].shares
<1>1. /\ S \in Nat /\ B \in Nat /\ M \in Nat /\ R \in Nat /\ X \in Nat /\ Y \in Nat /\ c \in Int
      /\ S1 <= S /\ S1 \in Nat /\ B1 <= B /\ B1 \in Nat /\ M <= M1 /\ M1 \in Nat
      /\ R <= R1 /\ R1 \in Nat
  BY ExposureTypes, ExposureSums
<1>2. c >= 0 /\ S + X + c1 <= R /\ c1 \in Int /\ c1 >= c
  BY DEF Covered
<1>3. PICK d \in DesiredShares : B + Y - M <= d + c
  BY DEF Covered
<1>4. d \in Nat
  BY TradingAssumption
<1>5. Creating(k, "SELL")' = X /\ Creating(k, "BUY")' = Y
  BY DEF Creating
<1>6. SUFFICES /\ c1 >= 0 /\ S1 + X + c1 <= R1
               /\ B1 + Y - M1 <= d + c1
  <2>. HIDE DEF S1, B1, M1, R1, X, Y, c1
  <2>1. c1 >= 0 /\ S1 + X + c1 <= R1 /\ \E a \in DesiredShares : B1 + Y - M1 <= a + c1
    OBVIOUS
  <2>. QED
    BY <1>5, <2>1, Zenon DEF Covered, S1, B1, M1, R1, c1
<1>. HIDE DEF S, B, M, R, X, Y, c, S1, B1, M1, R1, c1
<1>. QED
  BY <1>1, <1>2, <1>3, <1>4

\* The engine asks for no more than there is to sell, or than is desired.
LEMMA CoveredStart ==
    ASSUME Inv, RecordsInv, NEW k \in Tokens, Covered(k), NEW i \in Tokens,
           NEW desired \in DesiredShares, NEW force, StartOrder(i, desired, force)
    PROVE  Covered(k)'
<1>. DEFINE adj == Adjustment(i, desired)
            B == SumOf(Shares, Buys(k))
            M == SumOf(Shares, Sold(k))
<1>1. UNCHANGED <<orders, trades, store, closed>> /\ creating = NoCreate /\ creating' # NoCreate
      /\ creating'[1].token = i /\ creating'[1].side = adj.side /\ creating'[1].shares = adj.shares
      /\ adj.shares >= ReplaceGap /\ ActiveOrders(i) = {}
  <2>. HIDE DEF adj
  <2>. QED
    BY DEF StartOrder, managerVars, venueVars, NoCreate, adj
<1>2. /\ SumOf(Shares, Sells(k))' = SumOf(Shares, Sells(k)) /\ SumOf(Shares, Buys(k))' = B
      /\ SumOf(Shares, Sold(k))' = M
      /\ SumOf(Shares, Settled(k, "BUY"))' = SumOf(Shares, Settled(k, "BUY"))
  <2>1. /\ Shares' = Shares /\ Sells(k)' = Sells(k) /\ Buys(k)' = Buys(k) /\ Sold(k)' = Sold(k)
        /\ Settled(k, "BUY")' = Settled(k, "BUY")
    BY <1>1 DEF Shares, Sells, Buys, Sold, Settled, Placed, Manager!Tracked
  <2>. QED
    BY <2>1
<1>3. \A side : /\ Creating(k, side) = 0
                /\ Creating(k, side)' = IF i = k /\ side = adj.side THEN adj.shares ELSE 0
  BY <1>1 DEF Creating
<1>4. i = k /\ adj.side = "SELL" =>
        SumOf(Shares, Sells(k)) + adj.shares + closed[k].shares <= SumOf(Shares, Settled(k, "BUY"))
  BY <1>1, AdjustmentCovered
<1>5. i = k /\ adj.side = "BUY" => B + adj.shares - M = desired + closed[k].shares
  BY <1>1, AdjustmentCovered
<1>6. /\ closed[k].shares >= 0
      /\ SumOf(Shares, Sells(k)) + 0 + closed[k].shares <= SumOf(Shares, Settled(k, "BUY"))
      /\ \E d \in DesiredShares : B + 0 - M <= d + closed[k].shares
  BY <1>3 DEF Covered
<1>7. \E d \in DesiredShares : B + Creating(k, "BUY")' - M <= d + closed[k].shares
  <2>1. CASE i = k /\ adj.side = "BUY"
    <3>. DEFINE c == closed[k].shares
                x == B + adj.shares - M
    <3>1. c \in Int /\ desired \in Int
      BY ExposureTypes, TradingAssumption
    <3>2. x = desired + c
      BY <1>5, <2>1
    <3>. HIDE DEF c, x
    <3>3. x <= desired + c
      BY <3>1, <3>2
    <3>. QED
      BY <1>3, <2>1, <3>3 DEF x, c
  <2>2. CASE ~(i = k /\ adj.side = "BUY")
    BY <1>3, <1>6, <2>2
  <2>. QED
    BY <2>1, <2>2
<1>8. SumOf(Shares, Sells(k)) + Creating(k, "SELL")' + closed[k].shares <= SumOf(Shares, Settled(k, "BUY"))
  <2>1. CASE i = k /\ adj.side = "SELL"
    BY <1>3, <1>4, <2>1
  <2>2. CASE ~(i = k /\ adj.side = "SELL")
    BY <1>3, <1>6, <2>2
  <2>. QED
    BY <2>1, <2>2
<1>9. closed'[k] = closed[k]
  BY <1>1
<1>. HIDE DEF B, M
<1>. QED
  BY <1>2, <1>6, <1>7, <1>8, <1>9, Zenon DEF Covered, B, M

\* What a create call was under way for is an order when it returns.
LEMMA CoveredCreate ==
    ASSUME Inv, RecordsInv, NEW k \in Tokens, Covered(k), CreateReturns
    PROVE  Covered(k)'
<1>. DEFINE c == creating[1]
<1>1. PICK n \in Unused :
        /\ creating # NoCreate
        /\ orders'[n] = Manager!NewOrder(c.token, c.side, c.role, c.shares)
        /\ \A o \in OrderIds : o # n => orders'[o] = orders[o]
        /\ creating' = NoCreate
        /\ UNCHANGED <<trades, closed, venueVars>>
  BY CreateMoves
<1>2. n \in OrderIds /\ ~Manager!Tracked(n) /\ store[n].status = "NEW" /\ trades[n].status = "UNTRACKED"
  <2>1. n \in OrderIds /\ ~Manager!Tracked(n)
    BY DEF Unused
  <2>2. OrderAgrees(orders[n], tasks[n], replies[n], store[n].status) /\ RecordAgrees(n)
    BY <2>1 DEF Inv, Agreement, OrdersAgree, RecordsInv
  <2>. QED
    BY <2>1, <2>2 DEF OrderAgrees, Manager!Tracked, RecordAgrees
<1>3. /\ orders'[n].token = c.token /\ orders'[n].side = c.side /\ orders'[n].shares = c.shares
      /\ Manager!Tracked(n)'
  BY <1>1 DEF Manager!NewOrder, Manager!Tracked
<1>4. c.token \in Tokens /\ c.side \in {"BUY", "SELL"} /\ c.shares \in Nat
  BY <1>1 DEF Inv, CallTypes, Manager!Side
<1>5. store' = store
  BY <1>1 DEF venueVars
<1>6. \A o \in OrderIds : o # n => (Manager!Tracked(o)' <=> Manager!Tracked(o))
  BY <1>1 DEF Manager!Tracked
<1>7. \A side, statuses :
        Placed(k, side, statuses)' =
          IF k = c.token /\ side = c.side /\ "NEW" \in statuses
          THEN Placed(k, side, statuses) \cup {n} ELSE Placed(k, side, statuses)
  <2>. HIDE DEF c
  <2>. QED
    BY <1>1, <1>2, <1>3, <1>5, <1>6 DEF Placed
<1>8. Settled(k, "BUY")' = Settled(k, "BUY")
  BY <1>1, <1>2, <1>6 DEF Settled
<1>9. \A S : S \subseteq OrderIds /\ n \notin S => SumOf(Shares', S) = SumOf(Shares, S)
  <2>. SUFFICES ASSUME NEW S, S \subseteq OrderIds, n \notin S
                PROVE  SumOf(Shares', S) = SumOf(Shares, S)
    OBVIOUS
  <2>1. \A o \in S : Shares[o] = Shares'[o]
    BY <1>1 DEF Shares
  <2>. QED
    BY <2>1, SharesSum, SumSame
<1>10. \A S : S \subseteq OrderIds /\ n \notin S => SumOf(Shares', S \cup {n}) = SumOf(Shares, S) + c.shares
  <2>. SUFFICES ASSUME NEW S, S \subseteq OrderIds, n \notin S
                PROVE  SumOf(Shares', S \cup {n}) = SumOf(Shares, S) + c.shares
    OBVIOUS
  <2>1. \A o \in S : Shares'[o] = Shares[o]
    BY <1>1 DEF Shares
  <2>2. Shares'[n] = c.shares
    BY <1>2, <1>3 DEF Shares
  <2>3. IsFiniteSet(S) /\ \A o \in S : Shares[o] \in Int
    BY SharesSum
  <2>. HIDE DEF c
  <2>. QED
    BY <1>4, <2>1, <2>2, <2>3, SumGrows
<1>11. \A side, statuses : Placed(k, side, statuses) \subseteq OrderIds /\ n \notin Placed(k, side, statuses)
  BY <1>2 DEF Placed
<1>12. \A side, statuses :
         SumOf(Shares', Placed(k, side, statuses)') =
           IF k = c.token /\ side = c.side /\ "NEW" \in statuses
           THEN SumOf(Shares, Placed(k, side, statuses)) + c.shares
           ELSE SumOf(Shares, Placed(k, side, statuses))
  <2>. HIDE DEF c, Shares
  <2>. QED
    BY <1>7, <1>9, <1>10, <1>11, Zenon
<1>13. \A side : /\ Creating(k, side) = IF k = c.token /\ side = c.side THEN c.shares ELSE 0
                 /\ Creating(k, side)' = 0
  BY <1>1 DEF Creating
<1>14. ASSUME NEW side
       PROVE  SumOf(Shares', Placed(k, side, {"NEW", "LIVE", "MATCHED"})') + 0
                = SumOf(Shares, Placed(k, side, {"NEW", "LIVE", "MATCHED"})) + Creating(k, side)
  <2>. DEFINE x == SumOf(Shares, Placed(k, side, {"NEW", "LIVE", "MATCHED"}))
  <2>1. x \in Nat
    BY <1>11, SharesSum
  <2>2. SumOf(Shares', Placed(k, side, {"NEW", "LIVE", "MATCHED"})') =
          IF k = c.token /\ side = c.side THEN x + c.shares ELSE x
    BY <1>12, Zenon
  <2>. HIDE DEF x, c
  <2>. QED
    BY <1>4, <1>13, <2>1, <2>2 DEF x
<1>15. SumOf(Shares', Placed(k, "SELL", {"MATCHED"})') = SumOf(Shares, Placed(k, "SELL", {"MATCHED"}))
  BY <1>12
<1>16. SumOf(Shares', Settled(k, "BUY")') = SumOf(Shares, Settled(k, "BUY"))
  <2>1. Settled(k, "BUY") \subseteq OrderIds /\ n \notin Settled(k, "BUY")
    BY <1>2 DEF Settled
  <2>. QED
    BY <1>8, <1>9, <2>1
<1>17. closed' = closed
  BY <1>1
<1>18. /\ SumOf(Shares, Sells(k))' + Creating(k, "SELL")' = SumOf(Shares, Sells(k)) + Creating(k, "SELL")
       /\ SumOf(Shares, Buys(k))' + Creating(k, "BUY")' = SumOf(Shares, Buys(k)) + Creating(k, "BUY")
       /\ SumOf(Shares, Sold(k))' = SumOf(Shares, Sold(k))
       /\ SumOf(Shares, Settled(k, "BUY"))' = SumOf(Shares, Settled(k, "BUY"))
  BY <1>13, <1>14, <1>15, <1>16, Zenon DEF Sells, Buys, Sold
<1>. DEFINE B == SumOf(Shares, Buys(k))
            Y == Creating(k, "BUY")
            M == SumOf(Shares, Sold(k))
            B1 == SumOf(Shares, Buys(k))'
            Y1 == Creating(k, "BUY")'
            M1 == SumOf(Shares, Sold(k))'
<1>19. B1 + Y1 - M1 = B + Y - M
  <2>1. B1 \in Nat
    <3>1. B1 = IF k = c.token /\ c.side = "BUY" THEN B + c.shares ELSE B
      BY <1>12, Zenon DEF Buys
    <3>2. B \in Nat
      BY ExposureTypes
    <3>. HIDE DEF B, B1, c
    <3>. QED
      BY <1>4, <3>1, <3>2
  <2>2. B \in Nat /\ Y \in Nat /\ M \in Nat /\ Y1 = 0
    BY <1>13, ExposureTypes
  <2>3. B1 + Y1 = B + Y /\ M1 = M
    BY <1>18
  <2>. HIDE DEF B, Y, M, B1, Y1, M1
  <2>. QED
    BY <2>1, <2>2, <2>3
<1>20. \E d \in DesiredShares : B1 + Y1 - M1 <= d + closed'[k].shares
  BY <1>17, <1>19 DEF Covered
<1>. HIDE DEF B, Y, M, B1, Y1, M1
<1>. QED
  BY <1>17, <1>18, <1>20, Zenon DEF Covered, B1, Y1, M1

LEMMA ExposureStep ==
    ASSUME Inv, HistoryInv, DeliveryInv, RecordsInv, ExposureInv, [Next]_vars
    PROVE  ExposureInv'
<1>. SUFFICES ASSUME ~settled', NEW k \in Tokens
              PROVE  Covered(k)'
  BY DEF ExposureInv
<1>1. Covered(k)
  BY ExposureKinds DEF ExposureInv
<1>2. CASE CreateReturns
  BY <1>1, <1>2, CoveredCreate
<1>3. ASSUME NEW i \in Tokens, NEW desired \in DesiredShares, NEW force \in BOOLEAN,
             StartOrder(i, desired, force)
      PROVE  Covered(k)'
  BY <1>1, <1>3, CoveredStart
<1>4. CASE ~CreateReturns /\ creating' = creating /\ closed'[k] = closed[k]
  <2>1. closed[k].shares \in Int
    BY ExposureTypes
  <2>. QED
    BY <1>1, <1>4, <2>1, CoveredStays DEF Covered
<1>5. CASE MarketTradeLoop /\ ~CreateReturns /\ closed'[k] # closed[k]
  <2>1. creating' = creating
    BY <1>5 DEF MarketTradeLoop
  <2>. QED
    BY <1>1, <1>5, <2>1, DustIsCovered, CoveredStays
<1>6. MarketTradeLoop => creating' = creating
  BY DEF MarketTradeLoop
<1>. QED
  BY <1>2, <1>3, <1>4, <1>5, <1>6, ExposureKinds

-----------------------------------------------------------------------------
(* What follows.                                                           *)

\* Settled purchases were delivered by the venue.
LEMMA SettledIsDelivered ==
    ASSUME Inv, HistoryInv, RecordsInv, NEW k, NEW side, NEW o \in Settled(k, side)
    PROVE  store[o].status = "MATCHED" /\ IsMined(o)
<1>1. o \in OrderIds /\ trades[o].status = "SUCCESS"
  BY DEF Settled
<1>. DEFINE e == Venue!TradeEvent(o, "MINED")
<1>2. e \in Venue!Events /\ e.order = o /\ e.kind = "trade" /\ e.status = "MINED"
  BY <1>1 DEF Venue!Events, Venue!TradeEvent
<1>3. Reported(e)
  BY <1>1 DEF RecordsInv, RecordAgrees
<1>. HIDE DEF e
<1>. QED
  BY <1>2, <1>3, ReportedHappened

LEMMA CoveredIsBought ==
    ASSUME Inv, HistoryInv, RecordsInv, ExposureInv, ~settled
    PROVE  NeverOversold
<1>. SUFFICES ASSUME NEW k \in Tokens
              PROVE  SumOf(Shares, Sells(k)) <= SumOf(Shares, Delivered(k))
  BY DEF NeverOversold, Sells
<1>1. Covered(k)
  BY DEF ExposureInv
<1>2. Settled(k, "BUY") \subseteq Delivered(k) /\ Delivered(k) \subseteq OrderIds
  <2>1. ASSUME NEW o \in Settled(k, "BUY")
        PROVE  o \in Delivered(k)
    BY SettledIsDelivered DEF Settled, Delivered, Placed, IsMined
  <2>. QED
    BY <2>1 DEF Delivered, Placed
<1>3. SumOf(Shares, Settled(k, "BUY")) <= SumOf(Shares, Delivered(k)) /\ SumOf(Shares, Delivered(k)) \in Nat
  BY <1>2, SharesSum, SumSubset
<1>. DEFINE S == SumOf(Shares, Sells(k))
            R == SumOf(Shares, Settled(k, "BUY"))
            D == SumOf(Shares, Delivered(k))
            X == Creating(k, "SELL")
            c == closed[k].shares
<1>4. /\ S \in Nat /\ R \in Nat /\ D \in Nat /\ X \in Nat /\ c \in Int /\ c >= 0
      /\ S + X + c <= R /\ R <= D
  BY <1>1, <1>3, ExposureTypes DEF Covered
<1>. HIDE DEF S, R, D, X, c
<1>5. S <= D
  BY <1>4
<1>. QED
  BY <1>5 DEF S, D

FlowInv == DeliveryInv /\ RecordsInv /\ ExposureInv

LEMMA InitFlow ==
    ASSUME Init
    PROVE  FlowInv /\ NeverOversold
<1>1. Inv /\ HistoryInv
  BY InitInv, InitHistory
<1>2. /\ \A o \in OrderIds : /\ sent[o] = <<>> /\ ~Manager!Tracked(o) /\ store[o].status = "NEW"
                             /\ trades[o] = Manager!NoTrade
      /\ tradeQueue = <<>> /\ creating = NoCreate /\ ~settled
      /\ \A k \in Tokens : closed[k].shares = 0
  BY DEF Init, Manager!Init, Venue!VenueInit, Manager!Tracked, Manager!NoOrder
<1>3. DeliveryInv
  <2>1. \A e : ~In(e, <<>>)
    BY DEF In
  <2>2. \A e \in Venue!Events : e.order \in OrderIds
    BY DEF Venue!Events
  <2>. QED
    BY <1>2, <2>1, <2>2 DEF DeliveryInv, Reported
<1>4. RecordsInv
  BY <1>2 DEF RecordsInv, RecordAgrees, Manager!NoTrade
<1>5. ASSUME NEW k \in Tokens
      PROVE  Covered(k)
  <2>1. /\ Sells(k) = {} /\ Buys(k) = {} /\ Sold(k) = {} /\ Settled(k, "BUY") = {}
        /\ Creating(k, "SELL") = 0 /\ Creating(k, "BUY") = 0 /\ closed[k].shares = 0
    BY <1>2 DEF Sells, Buys, Sold, Settled, Placed, Creating
  <2>2. SumOf(Shares, {}) = 0
    BY SumEmpty
  <2>3. PICK d \in DesiredShares : d \in Nat
    BY TradingAssumption
  <2>4. 0 + 0 + 0 <= 0 /\ 0 >= 0 /\ 0 + 0 - 0 <= d + 0
    BY <2>3
  <2>. QED
    BY <2>1, <2>2, <2>4 DEF Covered
<1>6. ExposureInv
  BY <1>5 DEF ExposureInv
<1>. QED
  BY <1>1, <1>2, <1>3, <1>4, <1>6, CoveredIsBought DEF FlowInv

\* The settlement of the market ends the worker and changes no order.
LEMMA SettledMoves ==
    ASSUME [Next]_vars, settled'
    PROVE  (settled /\ UNCHANGED vars) \/ UNCHANGED <<orders, store, fills>>
<1>1. CASE UNCHANGED vars
  BY <1>1 DEF vars, managerVars, venueVars
<1>2. CASE Next
  <2>1. ~settled
    BY <1>2, Zenon DEF Next, Running
  <2>2. (\E winner \in Winners : Settle(winner)) \/ UNCHANGED settled
    BY <1>2, Zenon DEF Next, managerVars, StartOrder, ReplaceOrder, Manager!Cancel, CreateReturns,
       Manager!CreateOrder, ThreadSubmits, SubmitReturns, Manager!SubmitSuccess, ThreadCancels,
       CancelReturns, Manager!CancelSuccess, Manager!CancelFailed, ThreadReads, ReadReturns,
       Manager!SyncReturns, Publish, MarketOrderLoop, Manager!HandleOrderEvent, MarketTradeLoop,
       Manager!HandleTradeEvent, VenueMoves
  <2>3. ASSUME NEW winner, Settle(winner)
        PROVE  UNCHANGED <<orders, store, fills>>
    BY <2>3 DEF Settle, Manager!SettleMarket, venueVars
  <2>. QED
    BY <2>1, <2>2, <2>3
<1>. QED
  BY <1>1, <1>2

\* Reports, trades and positions agree with what the venue has done, and what
\* is bought and sold is covered by them.
THEOREM FlowHolds == Safety => [](FlowInv /\ NeverOversold)
<1>1. Init => FlowInv /\ NeverOversold
  BY InitFlow
<1>2. Inv /\ HistoryInv /\ FlowInv /\ [Next]_vars => FlowInv'
  BY DeliveryStep, RecordsStep, ExposureStep DEF FlowInv
<1>3. Inv /\ HistoryInv /\ FlowInv /\ ~settled => NeverOversold
  BY CoveredIsBought DEF FlowInv
<1>4. NeverOversold /\ [Next]_vars /\ settled' => NeverOversold'
  <2>. SUFFICES ASSUME NeverOversold, [Next]_vars, settled'
                PROVE  NeverOversold'
    OBVIOUS
  <2>1. UNCHANGED <<orders, store, fills>>
    BY SettledMoves DEF vars, managerVars, venueVars
  <2>2. \A k, side, statuses : Placed(k, side, statuses)' = Placed(k, side, statuses)
    BY <2>1 DEF Placed, Manager!Tracked
  <2>3. \A k : Delivered(k)' = Delivered(k)
    BY <2>1 DEF Delivered, Placed, Manager!Tracked
  <2>4. Shares' = Shares
    BY <2>1 DEF Shares
  <2>. QED
    BY <2>2, <2>3, <2>4, Zenon DEF NeverOversold
<1>. QED
  BY <1>1, <1>2, <1>3, <1>4, InvHolds, HistoryHolds, PTL DEF Safety

\* However late the reports of trades are, the worker sells nothing that was
\* not delivered before: what it may sell is what has settled, and nothing
\* settles that the venue has not delivered (engine.py:84).
THEOREM OversoldCorrect == Safety => []NeverOversold
  BY FlowHolds, PTL

\* A desired position is not bought twice: an order is created only when no
\* other is open and what those before it have matched is in the books, and
\* what is called dust of a position lowers what is bought next by no more
\* than itself (engine.py:70).
THEOREM OverboughtCorrect == Safety => []NeverOverbought
<1>1. ASSUME Inv, FlowInv
      PROVE  NeverOverbought
  <2>. SUFFICES ASSUME ~settled, NEW k \in Tokens
                PROVE  \E d \in DesiredShares :
                         SumOf(Shares, Buys(k)) - SumOf(Shares, Sold(k)) <= d + closed[k].shares
    BY DEF NeverOverbought, Buys, Sold
  <2>. DEFINE B == SumOf(Shares, Buys(k))
              M == SumOf(Shares, Sold(k))
              Y == Creating(k, "BUY")
              c == closed[k].shares
  <2>1. PICK d \in DesiredShares : B + Y - M <= d + c
    BY <1>1 DEF FlowInv, ExposureInv, Covered
  <2>2. B \in Nat /\ M \in Nat /\ Y \in Nat /\ c \in Int /\ d \in Nat
    BY <1>1, ExposureTypes, TradingAssumption DEF FlowInv
  <2>. HIDE DEF B, M, Y, c
  <2>3. B - M <= d + c
    BY <2>1, <2>2
  <2>. QED
    BY <2>3 DEF B, M, c
<1>. QED
  BY <1>1, InvHolds, FlowHolds, PTL

\* What the orders of a worker may come to stays within what was delivered and
\* what was desired, at any delay of the reports.
THEOREM ExposureCorrect == Safety => []ExposureBounded
<1>1. NeverOversold /\ NeverOverbought => ExposureBounded
  BY DEF ExposureBounded
<1>. QED
  BY <1>1, OversoldCorrect, OverboughtCorrect, PTL

-----------------------------------------------------------------------------
(* When nothing is on its way any more.                                    *)

\* The manager knows all that the venue has done with an order.
LEMMA QuietOrder ==
    ASSUME Inv, HistoryInv, DeliveryInv, RecordsInv, Quiet, NEW o \in OrderIds, Manager!Tracked(o)
    PROVE  LET r == orders[o] IN
           /\ store[o].status \in {"LIVE", "MATCHED", "CANCELED"}
           /\ trades[o].status = "SUCCESS" <=> store[o].status = "MATCHED"
           /\ r.matched = IF store[o].status = "MATCHED" THEN r.shares ELSE 0
           /\ r.pending = IF store[o].status = "LIVE" THEN r.shares ELSE 0
<1>. DEFINE r == orders[o]
            x == Venue!OrderEvent(o, "MATCHED")
            y == Venue!TradeEvent(o, "MATCHED")
            z == Venue!TradeEvent(o, "MINED")
            c == Venue!OrderEvent(o, "CANCELED")
            v == store[o].status
<1>1. /\ OrderAgrees(r, tasks[o], replies[o], v) /\ RecordAgrees(o)
      /\ r.matched \in Nat /\ r.pending \in Nat /\ r.invalid \in Nat /\ r.shares \in Nat
      /\ r.matched + r.pending + r.invalid <= r.shares
      /\ r.status = "SUBMITTING" => tasks[o].submit = 1
  BY ManagerFacts DEF Inv, Agreement, OrdersAgree, RecordsInv, Manager!OrderRecord
<1>2. v \in {"LIVE", "MATCHED", "CANCELED"}
  <2>1. v \in Venue!OrderStatus
    BY DEF Inv, VenueTypes
  <2>2. tasks[o].submit = 0
    BY DEF Quiet, Manager!NoTask
  <2>3. v # "NEW"
    BY <1>1, <2>2 DEF OrderAgrees, Manager!Tracked
  <2>. QED
    BY <2>1, <2>3 DEF Venue!OrderStatus
<1>3. sent[o] = Story(o)
  <2>1. <<>> \o <<>> = <<>>
    BY EmptySeq, ConcatEmptySeq
  <2>2. outbox \o events = <<>>
    BY <2>1, Zenon DEF Quiet
  <2>3. OnlyIn(outbox \o events, EventsOf(o)) = <<>>
    BY <2>2, SelectEmpty
  <2>. DEFINE V == Venue!Events
  <2>4. sent[o] \in Seq(V)
    BY QueueTypes
  <2>5. HistoryOf(o) = sent[o] \o <<>>
    BY <2>3 DEF HistoryOf
  <2>. HIDE DEF V
  <2>6. sent[o] \o <<>> = sent[o]
    BY <2>4, ConcatEmptySeq
  <2>. QED
    BY <2>5, <2>6 DEF HistoryInv
<1>4. \A e \in Venue!Events : Reported(e) => Handled(e)
  <2>1. \A e : ~In(e, <<>>)
    BY DEF In
  <2>. QED
    BY <2>1 DEF Quiet, DeliveryInv
<1>5. /\ x \in Venue!Events /\ z \in Venue!Events /\ c \in Venue!Events
      /\ x.order = o /\ z.order = o /\ c.order = o
      /\ x.kind = "order" /\ c.kind = "order" /\ z.kind = "trade"
      /\ x.status = "MATCHED" /\ z.status = "MINED" /\ c.status = "CANCELED"
  BY DEF Venue!Events, Venue!OrderEvent, Venue!TradeEvent
<1>6. CASE v = "LIVE"
  <2>1. trades[o].status # "SUCCESS"
    BY <1>1, <1>5, <1>6, ReportedHappened DEF RecordAgrees
  <2>. QED
    BY <1>1, <1>6, <2>1 DEF OrderAgrees, RecordAgrees
<1>7. CASE v = "CANCELED"
  <2>1. trades[o].status # "SUCCESS"
    BY <1>1, <1>5, <1>7, ReportedHappened DEF RecordAgrees
  <2>2. Reported(c)
    <3>1. sent[o] = <<c>>
      BY <1>3, <1>7 DEF Story
    <3>. HIDE DEF c
    <3>2. 1 \in DOMAIN sent[o] /\ sent[o][1] = c
      BY <3>1
    <3>. QED
      BY <1>5, <3>2 DEF Reported, In
  <2>3. r.pending = 0
    BY <1>4, <1>5, <2>2 DEF Handled
  <2>. QED
    BY <1>1, <1>7, <2>1, <2>3 DEF OrderAgrees
<1>8. CASE v = "MATCHED"
  <2>1. IsMined(o)
    <3>1. PICK n \in DOMAIN fills : fills[n].order = o
      BY <1>1, <1>8 DEF RecordAgrees
    <3>. DEFINE F == [order : OrderIds, status : {"MATCHED", "MINED"}]
    <3>2. fills[n] \in F
      <4>1. fills \in Seq(F)
        BY DEF Inv, VenueTypes
      <4>. HIDE DEF F
      <4>. QED
        BY <3>1, <4>1
    <3>3. fills[n].status = "MINED"
      BY <3>1 DEF Quiet
    <3>4. fills[n] = [order |-> o, status |-> "MINED"]
      BY <3>1, <3>2, <3>3
    <3>. QED
      BY <3>1, <3>4 DEF IsMined
  <2>2. Reported(x) /\ Reported(z)
    <3>1. sent[o] = <<x, y, z>>
      BY <1>3, <1>8, <2>1 DEF Story
    <3>. HIDE DEF x, y, z
    <3>2. 1 \in DOMAIN sent[o] /\ sent[o][1] = x /\ 3 \in DOMAIN sent[o] /\ sent[o][3] = z
      BY <3>1
    <3>. QED
      BY <1>5, <3>2 DEF Reported, In
  <2>3. r.matched = r.shares
    BY <1>4, <1>5, <2>2 DEF Handled
  <2>4. trades[o].status = "SUCCESS"
    BY <1>4, <1>5, <2>2 DEF Handled
  <2>. QED
    BY <1>1, <1>8, <2>3, <2>4
<1>. QED
  BY <1>2, <1>6, <1>7, <1>8

LEMMA QuietSums ==
    ASSUME Inv, HistoryInv, DeliveryInv, RecordsInv, Quiet, NEW k \in Tokens, NEW side
    PROVE  /\ Settled(k, side) = Placed(k, side, {"MATCHED"})
           /\ SumOf(Ledger!PendingShares, Ledger!OrdersOf(k, side)) = SumOf(Shares, Placed(k, side, {"LIVE"}))
           /\ SumOf(Ledger!OpenShares, Ledger!OrdersOf(k, side)) = 0
<1>. DEFINE S == Ledger!OrdersOf(k, side)
            T == Placed(k, side, {"LIVE"})
            f == Ledger!PendingShares
            g == Ledger!OpenShares
<1>1. /\ IsFiniteSet(S) /\ S \subseteq OrderIds /\ T \subseteq S
      /\ \A o \in S : Manager!Tracked(o) /\ orders[o].token = k /\ orders[o].side = side
      /\ \A o \in S : o \in T <=> store[o].status = "LIVE"
  BY OrdersOfIs DEF Placed
<1>2. \A o \in S : Shares[o] \in Nat /\ Shares[o] = orders[o].shares
  BY <1>1, SharesSum
<1>3. ASSUME NEW o \in S
      PROVE  f[o] = (IF o \in T THEN Shares[o] ELSE 0) /\ g[o] = 0
  <2>1. /\ store[o].status \in {"LIVE", "MATCHED", "CANCELED"}
        /\ trades[o].status = "SUCCESS" <=> store[o].status = "MATCHED"
        /\ orders[o].matched = IF store[o].status = "MATCHED" THEN orders[o].shares ELSE 0
        /\ orders[o].pending = IF store[o].status = "LIVE" THEN orders[o].shares ELSE 0
    BY <1>1, QuietOrder
  <2>2. f[o] = orders[o].pending
    BY <1>1 DEF Ledger!PendingShares
  <2>3. g[o] = orders[o].matched - (IF trades[o].status = "SUCCESS" THEN orders[o].shares ELSE 0) - 0
    <3>1. g[o] = orders[o].matched - Ledger!OnChain(o, "SUCCESS") - Ledger!OnChain(o, "FAILURE")
      BY <1>1 DEF Ledger!OpenShares, Ledger!Settling
    <3>. QED
      BY <1>1, <3>1, OnChainIs
  <2>. HIDE DEF f, g, T, S
  <2>. QED
    BY <1>1, <1>2, <2>1, <2>2, <2>3
<1>4. Settled(k, side) = Placed(k, side, {"MATCHED"})
  BY QuietOrder DEF Settled, Placed
<1>. HIDE DEF S, T, f, g
<1>5. SumOf(Shares, T) = SumOf(f, S)
  <2>1. /\ \A o \in T : f[o] \in Int /\ Shares[o] = f[o]
        /\ \A o \in S : o \notin T => f[o] = 0
    BY <1>1, <1>2, <1>3
  <2>. QED
    BY <1>1, <2>1, SumFilter
<1>6. SumOf(g, S) = 0
  <2>1. SumOf(g, {}) = 0 /\ {} \subseteq S
    BY SumEmpty
  <2>2. SumOf(g, {}) = SumOf(g, S)
    BY <1>1, <1>3, SumFilter
  <2>. QED
    BY <2>1, <2>2
<1>. QED
  BY <1>4, <1>5, <1>6 DEF S, T, f, g

\* When all reports have come in and all calls have returned, the position
\* shows what the venue has traded and what is on its book, so nothing is lost
\* or counted twice on the way, whatever the order of arrival (manager.py:220).
THEOREM QuietCorrect == Safety => []QuietMeansAgreed
<1>1. ASSUME Inv, HistoryInv, FlowInv
      PROVE  QuietMeansAgreed
  <2>. SUFFICES ASSUME Quiet, NEW k \in Tokens
                PROVE  LET p == Manager!CurrentPosition(k) IN
                  /\ p.holding.shares + closed[k].shares =
                       SumOf(Shares, Placed(k, "BUY", {"MATCHED"}))
                         - SumOf(Shares, Placed(k, "SELL", {"MATCHED"}))
                  /\ p.open_settling = 0 /\ p.close_settling = 0
                  /\ p.opening = SumOf(Shares, Placed(k, "BUY", {"LIVE"}))
                  /\ p.closing = SumOf(Shares, Placed(k, "SELL", {"LIVE"}))
    BY Zenon DEF QuietMeansAgreed
  <2>1. DeliveryInv /\ RecordsInv
    BY <1>1 DEF FlowInv
  <2>2. \A side :
          /\ Settled(k, side) = Placed(k, side, {"MATCHED"})
          /\ SumOf(Ledger!PendingShares, Ledger!OrdersOf(k, side)) = SumOf(Shares, Placed(k, side, {"LIVE"}))
          /\ SumOf(Ledger!OpenShares, Ledger!OrdersOf(k, side)) = 0
    BY <1>1, <2>1, QuietSums
  <2>3. positions[k].shares + closed[k].shares =
          SumOf(Shares, Settled(k, "BUY")) - SumOf(Shares, Settled(k, "SELL"))
    BY <1>1, <2>1, HoldingIs
  <2>. DEFINE p == Manager!CurrentPosition(k)
  <2>4. /\ p.holding = positions[k]
        /\ p.opening = SumOf(Ledger!PendingShares, Ledger!OrdersOf(k, "BUY"))
        /\ p.open_settling = SumOf(Ledger!OpenShares, Ledger!OrdersOf(k, "BUY"))
        /\ p.closing = SumOf(Ledger!PendingShares, Ledger!OrdersOf(k, "SELL"))
        /\ p.close_settling = SumOf(Ledger!OpenShares, Ledger!OrdersOf(k, "SELL"))
    BY SamePosition, SameSum DEF Ledger!CurrentPosition, Ledger!PendingShares, Ledger!OpenShares
  <2>5. /\ p.open_settling = 0 /\ p.opening = SumOf(Shares, Placed(k, "BUY", {"LIVE"}))
        /\ p.close_settling = 0 /\ p.closing = SumOf(Shares, Placed(k, "SELL", {"LIVE"}))
    BY <2>2, <2>4
  <2>6. p.holding.shares + closed[k].shares =
          SumOf(Shares, Placed(k, "BUY", {"MATCHED"})) - SumOf(Shares, Placed(k, "SELL", {"MATCHED"}))
    BY <2>2, <2>3, <2>4
  <2>. QED
    BY <2>5, <2>6
<1>. QED
  BY <1>1, InvHolds, HistoryHolds, FlowHolds, PTL
=============================================================================
