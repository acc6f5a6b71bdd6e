-------------------------- MODULE LiveTrading_proofs --------------------------
(***************************************************************************)
(* Live trading, for any number and sizes of orders and trades, prices,    *)
(* tolerance, chain of trade statuses and losses of the stream.  What the  *)
(* manager believes of an order or a trade is something the exchange has   *)
(* done; what it misses is on its way, unless the stream has lost it.      *)
(***************************************************************************)
EXTENDS LiveTrading, Collections_proofs

\* The order manager's proofs, for the ids and quantities of live trading.
Ledger ==
    INSTANCE OrderManager_proofs WITH
        Orders <- OrderIds, Trades <- 1..MaxDeals, Tokens <- {Token},
        Fills <- Nat, TradeSizes <- Nat \ {0}, Prices <- Nat, Payout <- One

-----------------------------------------------------------------------------
(* The exchange.                                                           *)

Answers == Manager!OrderEvents

ExchangeRecord ==
    [status : {"UNKNOWN", "LIVE", "MATCHED", "CANCELED"}, token : {Token, NoId},
     shares : Nat, matched : Nat]

Replies ==
    [submit : {"none", "ok", "failed"}, cancel : CancelReplies \cup {"none"},
     reads : Seq(SUBSET Answers)]

VenueTypes ==
    /\ exchange \in [OrderIds -> ExchangeRecord]
    /\ link \in {"connecting", "up"} /\ drops \in 0..MaxDrops
    /\ lost \subseteq {"order", "success", "failure"} /\ ghosts \subseteq OrderIds
    /\ replies \in [OrderIds -> Replies]

Known(x) == x.status # "UNKNOWN"

\* A record of the exchange, and what the manager, which made the order,
\* has for it.
RecordSound(x, r) ==
    /\ ~Known(x) => x.matched = 0 /\ x.shares = 0
    /\ Known(x) => x.token = Token /\ r.status # "UNTRACKED" /\ x.shares = r.shares
    /\ x.matched <= x.shares
    /\ x.status = "MATCHED" => x.matched = x.shares

\* A trade on a resting order, or one that filled an order on arrival.
MakerDeal(o, n, status) ==
    [order |-> o, role |-> "MAKER", status |-> status, shares |-> n, amount |-> n * Price,
     asset_id |-> OtherToken, size |-> n + 1, price |-> One - Price,
     parts |-> <<Venue!Part(Stranger, NoId, Token, 1, Price), Venue!Part(Wallet, o, Token, n, Price)>>]

TakerDeal(o, n, status, fill) ==
    [order |-> o, role |-> "TAKER", status |-> status, shares |-> n,
     amount |-> IF fill.parts = <<>> THEN n * fill.price
                ELSE Venue!Total(Venue!PartMoney(fill.parts, Token)),
     asset_id |-> Token, size |-> n, price |-> fill.price, parts |-> fill.parts]

MakerDeals ==
    {MakerDeal(o, n, status) : o \in OrderIds, n \in Nat \ {0}, status \in Venue!MarketTradeStatus}

FilledOnArrival ==
    {TakerDeal(o, n, status, fill) :
        o \in OrderIds, n \in OrderSizes, status \in Venue!MarketTradeStatus, fill \in TakerFills}

TakerDeals == {d \in FilledOnArrival : Venue!Total(Venue!PartShares(d.parts)) \in {0, d.shares}}

DealsSound ==
    /\ deals \in Seq(MakerDeals \cup TakerDeals) /\ Len(deals) <= MaxDeals
    /\ \A d \in 1..Len(deals) : Known(exchange[deals[d].order])

-----------------------------------------------------------------------------
(* Orders.                                                                 *)

\* An event tells what was once so of the order: it is over only if the
\* exchange has canceled it.
TrueEvent(e, x) == Known(x) /\ e.matched <= x.matched /\ (~e.active => x.status = "CANCELED")

TrueReport(m) ==
    LET x == exchange[m.id] IN
    /\ Known(x) /\ m.matched <= x.matched
    /\ m.status # "LIVE" => x.status = m.status /\ x.matched = m.matched

\* An order's record r, its tasks t and the replies a its threads hold, against
\* its record x at the exchange.
OrderAgrees(r, t, a, x) ==
    /\ r.side = "BUY" /\ (r.status = "SUBMITTING" => r.shares \in OrderSizes)
    /\ r.matched <= x.matched
    /\ Known(x) => t.submit = 0 \/ a.submit # "none"
    /\ ~Known(x) => r.status \in {"UNTRACKED", "SUBMITTING", "SUB_FAILED", "ZERO_MATCHED_CANCELED"}
                    /\ (t.submit > 0 => r.status = "SUBMITTING")
    /\ a.submit = "ok" => Known(x)
    /\ a.cancel = "canceled" => x.status = "CANCELED"

\* What is so of an order whose submission was not taken for failed.
Faithful(r, a, x) ==
    /\ a.submit = "failed" => ~Known(x)
    /\ x.status = "LIVE" => /\ r.status \notin {"SUB_FAILED"} /\ ~Manager!IsCanceled(r)
                            /\ r.pending = r.shares - r.matched
    /\ Manager!IsCanceled(r) => x.status \in {"UNKNOWN", "CANCELED"}

ReadsTrue(o, a, x) ==
    \A n \in 1..Len(a.reads) : \A e \in a.reads[n] : e.order = o /\ TrueEvent(e, x)

Sound(o, r, t, a, x, ghost) ==
    /\ RecordSound(x, r) /\ OrderAgrees(r, t, a, x)
    /\ ~ghost => Faithful(r, a, x)
    /\ ReadsTrue(o, a, x)

OrdersAgree ==
    \A o \in OrderIds : Sound(o, orders[o], tasks[o], replies[o], exchange[o], o \in ghosts)

OrderWireTrue == orderWire \in Seq({m \in OrderReports : TrueReport(m)})

-----------------------------------------------------------------------------
(* Trades.                                                                 *)

Outcome(status) ==
    IF status \in {"MINED", "CONFIRMED"} THEN "SUCCESS"
    ELSE IF status = "FAILED" THEN "FAILURE" ELSE "PENDING"

Outcomes == {"SUCCESS", "FAILURE"}

\* A report of an outcome is true, and only followed by reports of the same.
TradeWireTrue ==
    /\ tradeWire \in Seq([event_type : {"trade"}, id : 1..Len(deals),
                          status : Venue!MarketTradeStatus])
    /\ \A n \in 1..Len(tradeWire) :
         LET s == Outcome(tradeWire[n].status)
             d == tradeWire[n].id
         IN  s \in Outcomes =>
               /\ Outcome(deals[d].status) = s
               /\ \A m \in 1..Len(tradeWire) :
                    m >= n /\ tradeWire[m].id = d => Outcome(tradeWire[m].status) = s

\* What the manager has of a trade: the exchange's terms, and a true outcome.
TradeAgrees(d) ==
    LET t == trades[d] IN
    t.status # "UNTRACKED" =>
        /\ d \in 1..Len(deals)
        /\ t.order = deals[d].order /\ t.shares = deals[d].shares /\ t.role = deals[d].role
        /\ t.price * t.shares = deals[d].amount
        /\ t.status \in Outcomes =>
             /\ Outcome(deals[d].status) = t.status
             /\ \A n \in 1..Len(tradeWire) :
                  tradeWire[n].id = d => Outcome(tradeWire[n].status) = t.status

TradesAgree == \A d \in 1..MaxDeals : TradeAgrees(d)

-----------------------------------------------------------------------------
(* Delivery.                                                               *)

CaughtUp(o) ==
    /\ orders[o].matched = exchange[o].matched
    /\ exchange[o].status # "LIVE" => orders[o].pending = 0

OrdersDelivered ==
    "order" \notin lost =>
        \A o \in OrderIds :
            Known(exchange[o]) =>
                CaughtUp(o) \/ \E n \in 1..Len(orderWire) :
                                   orderWire[n] = Venue!OrderReport(o, exchange[o])

KindOf(outcome) == IF outcome = "SUCCESS" THEN "success" ELSE "failure"

TradesDelivered ==
    \A d \in 1..Len(deals) :
        LET s == Outcome(deals[d].status) IN
        s \in Outcomes /\ KindOf(s) \notin lost =>
            \/ trades[d].status = s
            \/ \E n \in 1..Len(tradeWire) :
                  tradeWire[n].id = d /\ Outcome(tradeWire[n].status) = s

\* Matched shares are traded shares; nothing leaves a position but dust.
MatchedShares == [o \in OrderIds |-> exchange[o].matched]

BooksAgree ==
    /\ SumOf(MatchedShares, OrderIds) = SumOf(Shares, DOMAIN deals)
    /\ positions[Token].pnl = 0 /\ closed[Token].shares >= 0
Agreement == OrdersAgree /\ OrderWireTrue /\ TradeWireTrue /\ TradesAgree

Inv == Ledger!TypeInv /\ VenueTypes /\ DealsSound /\ Agreement

-----------------------------------------------------------------------------
(* Manager and Ledger are instances of the same module: their operators    *)
(* are the same.                                                           *)

LEMMA Assumptions ==
    /\ OrderSizes \subseteq Nat \ {0} /\ Nat \subseteq Nat /\ Nat \ {0} \subseteq Nat \ {0}
    /\ FeePrice \in Nat /\ One \in Nat /\ Dust \in Nat /\ MaxSyncs \in Nat
    /\ NoToken \notin {Token} /\ NoId \notin OrderIds
  BY QuantityAssumption, NameAssumption

LEMMA SameInit == Manager!Init <=> Ledger!Init
  BY Zenon DEF Manager!Init, Ledger!Init, Manager!NoOrder, Ledger!NoOrder, Manager!NoTrade,
         Ledger!NoTrade, Manager!NoPosition, Ledger!NoPosition, Manager!NoTask, Ledger!NoTask

LEMMA SameCalls ==
    ASSUME NEW o \in OrderIds
    PROVE  Manager!OrderStep(o) <=> Ledger!OrderStep(o)
  BY ZenonT(60) DEF Manager!OrderStep, Ledger!OrderStep, Manager!CreateOrder,
         Ledger!CreateOrder, Manager!NewOrder, Ledger!NewOrder, Manager!NoOrder,
         Ledger!NoOrder, Manager!SubmitSuccess, Ledger!SubmitSuccess, Manager!SubmitFailed,
         Ledger!SubmitFailed, Manager!Cancel, Ledger!Cancel, Manager!CancelSuccess,
         Ledger!CancelSuccess, Manager!CancelFailed, Ledger!CancelFailed, Manager!SyncFails,
         Ledger!SyncFails, Manager!Publish, Ledger!Publish, Manager!CurrentPosition,
         Ledger!CurrentPosition, Manager!OrdersOf, Ledger!OrdersOf, Manager!Settling,
         Ledger!Settling, Manager!OnChain, Ledger!OnChain, Manager!SumOf, Ledger!SumOf,
         Manager!MapThenSumSet, Ledger!MapThenSumSet, Manager!MapThenFoldSet,
         Ledger!MapThenFoldSet, Manager!Tracked, Ledger!Tracked, Manager!IsActive,
         Ledger!IsActive, Manager!IsCanceled, Ledger!IsCanceled, Manager!ActiveStatus,
         Ledger!ActiveStatus, Manager!CanceledStatus, Ledger!CanceledStatus,
         Manager!CancelStarts, Ledger!CancelStarts, Manager!CancelRequested,
         Ledger!CancelRequested, Manager!Submitted, Ledger!Submitted,
         Manager!SyncAfterSubmit, Ledger!SyncAfterSubmit, Manager!SubmitCallEnds,
         Ledger!SubmitCallEnds, Manager!SubmitRefused, Ledger!SubmitRefused,
         Manager!CancelDone, Ledger!CancelDone, Manager!CancelCallEnds,
         Ledger!CancelCallEnds, Manager!Side, Ledger!Side, Manager!Role, Ledger!Role

LEMMA SameOrderReports ==
    ASSUME NEW e \in Manager!OrderEvents
    PROVE  /\ Manager!HandleOrderEvent(e) <=> Ledger!HandleOrderEvent(e)
           /\ Manager!SyncReturns(e) <=> Ledger!SyncReturns(e)
  BY ZenonT(60) DEF Manager!HandleOrderEvent, Ledger!HandleOrderEvent, Manager!SyncReturns,
         Ledger!SyncReturns, Manager!Reportable, Ledger!Reportable, Manager!Accepted,
         Ledger!Accepted, Manager!Larger, Ledger!Larger, Manager!Smaller, Ledger!Smaller,
         Manager!Closed, Ledger!Closed, Manager!Open, Ledger!Open, Manager!IsFull,
         Ledger!IsFull, Manager!AfterEvent, Ledger!AfterEvent, Manager!Publish,
         Ledger!Publish, Manager!CurrentPosition, Ledger!CurrentPosition, Manager!OrdersOf,
         Ledger!OrdersOf, Manager!Settling, Ledger!Settling, Manager!OnChain,
         Ledger!OnChain, Manager!SumOf, Ledger!SumOf, Manager!MapThenSumSet,
         Ledger!MapThenSumSet, Manager!MapThenFoldSet, Ledger!MapThenFoldSet,
         Manager!Tracked, Ledger!Tracked, Manager!IsActive, Ledger!IsActive,
         Manager!IsCanceled, Ledger!IsCanceled, Manager!ActiveStatus, Ledger!ActiveStatus,
         Manager!CanceledStatus, Ledger!CanceledStatus

LEMMA SameTradeReports ==
    ASSUME NEW e
    PROVE  Manager!HandleTradeEvent(e) <=> Ledger!HandleTradeEvent(e)
  BY ZenonT(60) DEF Manager!HandleTradeEvent, Ledger!HandleTradeEvent, Manager!Accepted,
         Ledger!Accepted, Manager!Repeats, Ledger!Repeats, Manager!TradeStatus,
         Ledger!TradeStatus, Manager!BecomesSuccess, Ledger!BecomesSuccess,
         Manager!FeeAmount, Ledger!FeeAmount, Manager!CashAmount, Ledger!CashAmount,
         Manager!CostOf, Ledger!CostOf, Manager!ApplyConfirmedTrade,
         Ledger!ApplyConfirmedTrade, Manager!ClearDust, Ledger!ClearDust, Manager!Residue,
         Ledger!Residue, Manager!Publish, Ledger!Publish, Manager!CurrentPosition,
         Ledger!CurrentPosition, Manager!OrdersOf, Ledger!OrdersOf, Manager!Settling,
         Ledger!Settling, Manager!OnChain, Ledger!OnChain, Manager!SumOf, Ledger!SumOf,
         Manager!MapThenSumSet, Ledger!MapThenSumSet, Manager!MapThenFoldSet,
         Ledger!MapThenFoldSet, Manager!Tracked, Ledger!Tracked, Manager!IsActive,
         Ledger!IsActive, Manager!IsCanceled, Ledger!IsCanceled, Manager!ActiveStatus,
         Ledger!ActiveStatus, Manager!CanceledStatus, Ledger!CanceledStatus

LEMMA SameEvents == Manager!OrderEvents = Ledger!OrderEvents
  BY Zenon DEF Manager!OrderEvents, Ledger!OrderEvents

-----------------------------------------------------------------------------
(* What the manager's invariant says of the records, in its own terms.     *)

\* A record and its tasks, as the manager alone keeps them.
RecordKept(r, t) ==
    /\ r \in Manager!OrderRecord /\ t \in Manager!TaskRecord
    /\ r.matched + r.pending + r.invalid <= r.shares
    /\ r.status = "UNTRACKED" => t = Manager!NoTask
    /\ r.status = "SUBMITTING" => r.pending = r.shares /\ r.matched = 0 /\ t.submit = 1
    /\ Manager!IsCanceled(r) \/ r.status = "SUB_FAILED" => r.pending = 0
    /\ r.status = "FULL_MATCHED" => Manager!IsFull(r.matched, r.pending, r.shares)
    /\ t.submit \in {0, 1}

LEMMA ManagerFacts ==
    ASSUME Ledger!TypeInv
    PROVE  /\ orders \in [OrderIds -> Manager!OrderRecord]
           /\ tasks \in [OrderIds -> Manager!TaskRecord]
           /\ trades \in [1..MaxDeals -> Manager!TradeRecord]
           /\ positions \in [{Token} -> Manager!Position]
           /\ \A o \in OrderIds :
                /\ RecordKept(orders[o], tasks[o])
                /\ orders[o].token = Token <=> Manager!Tracked(o)
<1>1. /\ Ledger!IInv /\ Ledger!TrackingInv
  BY DEF Ledger!TypeInv, Ledger!LedgerInv
<1>2. /\ orders \in [OrderIds -> Manager!OrderRecord]
      /\ tasks \in [OrderIds -> Manager!TaskRecord]
      /\ trades \in [1..MaxDeals -> Manager!TradeRecord]
      /\ positions \in [{Token} -> Manager!Position]
  BY <1>1 DEF Ledger!IInv, Manager!OrderRecord, Ledger!OrderRecord, Manager!TaskRecord,
              Ledger!TaskRecord, Manager!TradeRecord, Ledger!TradeRecord, Manager!OrderStatus,
              Ledger!OrderStatus, Manager!ActiveStatus, Ledger!ActiveStatus,
              Manager!CanceledStatus, Ledger!CanceledStatus, Manager!Side, Ledger!Side,
              Manager!Role, Ledger!Role, Manager!Position, Ledger!Position
<1>3. ASSUME NEW o \in OrderIds
      PROVE  RecordKept(orders[o], tasks[o])
  <2>1. Ledger!OrderInv(orders[o], tasks[o])
    BY <1>1 DEF Ledger!IInv
  <2>. QED
    BY <1>2, <2>1 DEF Ledger!OrderInv, RecordKept, Manager!NoTask, Ledger!NoTask,
                Manager!IsCanceled, Ledger!IsCanceled, Manager!CanceledStatus,
                Ledger!CanceledStatus, Manager!IsFull, Ledger!IsFull
<1>4. \A o \in OrderIds : orders[o].token = Token <=> Manager!Tracked(o)
  BY <1>1 DEF Ledger!TrackingInv, Manager!Tracked, Ledger!Tracked
<1>. QED
  BY <1>2, <1>3, <1>4

-----------------------------------------------------------------------------
(* What the messages on the wires say.                                     *)

LEMMA OrderMessageSays ==
    ASSUME NEW m \in OrderReports, TrueReport(m), OrdersAgree, NEW o, o = m.id
    PROVE  /\ Venue!OrderEvents(m) =
                {[order |-> o, token |-> Token, matched |-> m.matched,
                  active |-> m.status \in {"LIVE", "MATCHED"}]}
           /\ Venue!BuildOrderEvent(Venue!OrderMessage(m)) = Venue!OrderEvents(m)
<1>1. o \in OrderIds /\ exchange[o].token = Token
  BY DEF OrderReports, TrueReport, OrdersAgree, Sound, RecordSound
<1>2. m.event_type = "order" /\ m.status \in Venue!MarketOrderStatus
  BY DEF OrderReports, Venue!MarketOrderStatus
<1>. QED
  BY <1>1, <1>2 DEF Venue!OrderEvents, Venue!BuildOrderEvent, Venue!OrderMessage

\* As a maker, the worker finds its own part; as a taker, the whole.
LEMMA MakerMessageSays ==
    ASSUME NEW o \in OrderIds, NEW n \in Nat \ {0}, NEW was, NEW d,
           d \in DOMAIN deals, deals[d] = MakerDeal(o, n, was), NEW status \in Venue!MarketTradeStatus
    PROVE  Venue!TradeEvents(Venue!TradeReport(d, status)) =
             {[trade |-> d, order |-> o, token |-> Token, shares |-> n, price |-> Price,
               role |-> "MAKER", status |-> status]}
<1>. DEFINE m == Venue!TradeMessage(Venue!TradeReport(d, status))
            own == Venue!Part(Wallet, o, Token, n, Price)
            other == Venue!Part(Stranger, NoId, Token, 1, Price)
<1>1. /\ m.id = d /\ m.status = status /\ m.trader_side = "MAKER"
      /\ m.maker_orders = <<other, own>> /\ m.maker_address = Stranger
  BY DEF Venue!TradeMessage, Venue!TradeReport, MakerDeal
<1>2. Venue!FindSubOrder(m) = {own}
  <2>. DEFINE S == {k \in DOMAIN m.maker_orders : m.maker_orders[k].maker_address = Wallet}
  <2>1. S = {2}
    <3>1. DOMAIN m.maker_orders = {1, 2} /\ m.maker_orders[1] = other /\ m.maker_orders[2] = own
      BY <1>1
    <3>2. other.maker_address = Stranger /\ own.maker_address = Wallet
      BY DEF Venue!Part
    <3>. QED
      BY <3>1, <3>2, NameAssumption
  <2>2. {k \in S : \A j \in S : k <= j} = {2}
    BY <2>1
  <2>3. Venue!FindSubOrder(m) = {m.maker_orders[k] : k \in {j \in S : \A i \in S : j <= i}}
    BY DEF Venue!FindSubOrder
  <2>. HIDE DEF S, m
  <2>4. Venue!FindSubOrder(m) = {m.maker_orders[2]}
    BY <2>2, <2>3
  <2>. QED
    BY <1>1, <2>4
<1>3. own.order_id = o /\ own.asset_id = Token /\ own.price = Price /\ Venue!PartSize(m, own) = n
  BY DEF Venue!Part, Venue!PartSize
<1>4. Venue!TradeEvents(Venue!TradeReport(d, status)) = Venue!BuildTradeEvent(m)
  BY DEF Venue!TradeEvents, Venue!TradeReport
<1>5. Venue!BuildTradeEvent(m) =
        {Venue!TradeEventOf(m, part.order_id, part.asset_id, Venue!PartSize(m, part), part.price) :
            part \in Venue!FindSubOrder(m)}
  <2>1. m.status \in Venue!MarketTradeStatus /\ m.maker_address # Wallet
    BY <1>1, NameAssumption
  <2>. HIDE DEF m
  <2>. QED
    BY <2>1, Zenon DEF Venue!BuildTradeEvent
<1>. HIDE DEF m, own
<1>6. Venue!BuildTradeEvent(m) = {Venue!TradeEventOf(m, o, Token, n, Price)}
  BY <1>2, <1>3, <1>5
<1>. QED
  BY <1>1, <1>4, <1>6 DEF Venue!TradeEventOf

LEMMA DivExact ==
    ASSUME NEW a \in Nat, NEW n \in Nat \ {0}, a % n = 0
    PROVE  a \div n \in Nat /\ (a \div n) * n = a
<1>1. a = n * (a \div n) + (a % n)
  OBVIOUS
<1>. QED
  BY <1>1

LEMMA SameSums ==
    /\ \A f, S : Venue!SumOf(f, S) = SumOf(f, S)
    /\ \A f, S : Ledger!SumOf(f, S) = SumOf(f, S)
    /\ \A f, S : Manager!SumOf(f, S) = SumOf(f, S)
  BY DEF Venue!SumOf, SumOf, Venue!MapThenSumSet, MapThenSumSet, Venue!MapThenFoldSet,
         MapThenFoldSet, Ledger!SumOf, Ledger!MapThenSumSet, Ledger!MapThenFoldSet,
         Manager!SumOf, Manager!MapThenSumSet, Manager!MapThenFoldSet

\* Parts are of a share at least, and cost no less than nothing.
LEMMA PartTotals ==
    ASSUME NEW parts \in Seq(MakerOrder)
    PROVE  /\ Venue!Total(Venue!PartMoney(parts, Token)) \in Nat
           /\ parts # <<>> => Venue!Total(Venue!PartShares(parts)) # 0
<1>. DEFINE f == Venue!PartShares(parts)
            g == Venue!PartMoney(parts, Token)
            S == 1..Len(parts)
<1>1. S = DOMAIN f /\ S = DOMAIN g /\ IsFiniteSet(S)
  BY FS_Interval DEF Venue!PartShares, Venue!PartMoney
<1>2. \A x \in S : parts[x] \in MakerOrder
  OBVIOUS
<1>3. \A p \in MakerOrder : p.matched_amount \in Nat \ {0} /\ Venue!SubPrice(p, Token) \in Nat
  BY QuantityAssumption DEF MakerOrder, Venue!SubPrice
<1>4. \A x \in S : f[x] = parts[x].matched_amount
                   /\ g[x] = parts[x].matched_amount * Venue!SubPrice(parts[x], Token)
  BY DEF Venue!PartShares, Venue!PartMoney
<1>5. \A a, b \in Nat : a * b \in Nat
  OBVIOUS
<1>6. \A x \in S : f[x] \in Nat \ {0} /\ g[x] \in Nat
  BY <1>2, <1>3, <1>4, <1>5
<1>7. Venue!Total(f) = SumOf(f, S) /\ Venue!Total(g) = SumOf(g, S)
  BY <1>1, SameSums DEF Venue!Total
<1>. HIDE DEF f, g, S
<1>8. SumOf(g, S) \in Nat
  BY <1>1, <1>6, SumNat
<1>9. ASSUME parts # <<>>
      PROVE  SumOf(f, S) # 0
  <2>1. 1 \in S
    BY <1>9 DEF S
  <2>2. SumOf(f, S) = f[1] + SumOf(f, S \ {1})
    BY <1>1, <1>6, <2>1, SumRemove
  <2>3. SumOf(f, S \ {1}) \in Nat
    BY <1>1, <1>6, SumNat, FS_RemoveElement
  <2>. QED
    BY <1>6, <2>1, <2>2, <2>3
<1>. QED
  BY <1>7, <1>8, <1>9 DEF f, g

LEMMA TakerMessageSays ==
    ASSUME NEW o \in OrderIds, NEW n \in OrderSizes, NEW was, NEW fill \in TakerFills, NEW d,
           d \in DOMAIN deals, deals[d] = TakerDeal(o, n, was, fill),
           Venue!Total(Venue!PartShares(fill.parts)) \in {0, n},
           NEW status \in Venue!MarketTradeStatus
    PROVE  \E p \in Nat :
             /\ Venue!TradeEvents(Venue!TradeReport(d, status)) =
                  {[trade |-> d, order |-> o, token |-> Token, shares |-> n, price |-> p,
                    role |-> "TAKER", status |-> status]}
             /\ p * n = deals[d].amount
<1>. DEFINE m == Venue!TradeMessage(Venue!TradeReport(d, status))
            p == Venue!OverallTradePrice(m)
<1>1. /\ m.id = d /\ m.status = status /\ m.trader_side = "TAKER" /\ m.maker_address = Wallet
      /\ m.maker_orders = fill.parts /\ m.taker_order_id = o /\ m.asset_id = Token
      /\ m.size = n /\ m.price = fill.price
  BY DEF Venue!TradeMessage, Venue!TradeReport, TakerDeal
<1>2. Venue!TradeEvents(Venue!TradeReport(d, status)) = Venue!BuildTradeEvent(m)
  BY DEF Venue!TradeEvents, Venue!TradeReport
<1>3. fill.parts \in Seq(MakerOrder) /\ fill.price \in Nat /\ n \in Nat \ {0}
  BY TakerAssumption, QuantityAssumption
<1>4. deals[d].amount = IF fill.parts = <<>> THEN n * fill.price
                        ELSE Venue!Total(Venue!PartMoney(fill.parts, Token))
  BY DEF TakerDeal
<1>. HIDE DEF m
<1>5. p \in Nat /\ p * n = deals[d].amount
  <2>1. CASE fill.parts = <<>>
    <3>1. p = fill.price
      BY <1>1, <2>1 DEF Venue!OverallTradePrice
    <3>. QED
      BY <1>3, <1>4, <2>1, <3>1
  <2>2. CASE fill.parts # <<>>
    <3>1. Venue!Total(Venue!PartShares(fill.parts)) = n
      BY <1>3, <2>2, PartTotals
    <3>2. p = Venue!Total(Venue!PartMoney(fill.parts, Token)) \div n
      BY <1>1, <2>2, <3>1 DEF Venue!OverallTradePrice
    <3>3. Venue!Total(Venue!PartMoney(fill.parts, Token)) % n = 0
      BY <3>1, TakerAssumption
    <3>4. Venue!Total(Venue!PartMoney(fill.parts, Token)) \in Nat
      BY <1>3, PartTotals
    <3>. QED
      BY <1>3, <1>4, <2>2, <3>2, <3>3, <3>4, DivExact
  <2>. QED
    BY <2>1, <2>2
<1>6. Venue!BuildTradeEvent(m) = {Venue!TradeEventOf(m, o, Token, n, p)}
  BY <1>1 DEF Venue!BuildTradeEvent
<1>7. Venue!TradeEventOf(m, o, Token, n, p) =
        [trade |-> d, order |-> o, token |-> Token, shares |-> n, price |-> p,
         role |-> "TAKER", status |-> status]
  BY <1>1 DEF Venue!TradeEventOf
<1>. HIDE DEF p
<1>. QED
  BY <1>2, <1>5, <1>6, <1>7

-----------------------------------------------------------------------------
(* What a trade is.                                                        *)

LEMMA DealFacts ==
    ASSUME NEW d \in MakerDeals \cup TakerDeals
    PROVE  /\ d.order \in OrderIds /\ d.role \in {"MAKER", "TAKER"}
           /\ d.status \in Venue!MarketTradeStatus
           /\ d.shares \in Nat \ {0} /\ d.amount \in Nat
<1>0. \A a, b \in Nat : a * b \in Nat
  OBVIOUS
<1>1. CASE d \in MakerDeals
  <2>1. PICK o \in OrderIds, n \in Nat \ {0}, was \in Venue!MarketTradeStatus : d = MakerDeal(o, n, was)
    BY <1>1 DEF MakerDeals
  <2>2. n * Price \in Nat
    BY <1>0, QuantityAssumption
  <2>. QED
    BY <2>1, <2>2 DEF MakerDeal
<1>2. CASE d \in TakerDeals
  <2>1. PICK o \in OrderIds, n \in OrderSizes, was \in Venue!MarketTradeStatus, fill \in TakerFills :
          d = TakerDeal(o, n, was, fill)
    BY <1>2 DEF TakerDeals, FilledOnArrival
  <2>2. d.order = o /\ d.role = "TAKER" /\ d.status = was /\ d.shares = n
        /\ d.amount = IF fill.parts = <<>> THEN n * fill.price
                      ELSE Venue!Total(Venue!PartMoney(fill.parts, Token))
    BY <2>1 DEF TakerDeal
  <2>3. n \in Nat \ {0} /\ fill.price \in Nat /\ fill.parts \in Seq(MakerOrder)
    BY TakerAssumption, QuantityAssumption
  <2>4. d.amount \in Nat
    BY <1>0, <2>2, <2>3, PartTotals
  <2>. QED
    BY <2>2, <2>3, <2>4
<1>. QED
  BY <1>1, <1>2

\* The chain changes the status of a trade and nothing else.
LEMMA DealSettled ==
    ASSUME NEW d \in MakerDeals \cup TakerDeals, NEW s \in Venue!MarketTradeStatus,
           NEW e, e = [d EXCEPT !.status = s]
    PROVE  /\ e \in MakerDeals \cup TakerDeals /\ e.status = s
           /\ e.order = d.order /\ e.role = d.role /\ e.shares = d.shares /\ e.amount = d.amount
<1>1. CASE d \in MakerDeals
  <2>1. PICK o \in OrderIds, n \in Nat \ {0}, was \in Venue!MarketTradeStatus : d = MakerDeal(o, n, was)
    BY <1>1 DEF MakerDeals
  <2>2. e = MakerDeal(o, n, s)
    BY <2>1 DEF MakerDeal
  <2>3. e \in MakerDeals
    BY <2>2 DEF MakerDeals
  <2>. QED
    BY <2>1, <2>2, <2>3 DEF MakerDeal
<1>2. CASE d \in TakerDeals
  <2>1. PICK o \in OrderIds, n \in OrderSizes, was \in Venue!MarketTradeStatus, fill \in TakerFills :
          d = TakerDeal(o, n, was, fill)
    BY <1>2 DEF TakerDeals, FilledOnArrival
  <2>2. e = TakerDeal(o, n, s, fill)
    BY <2>1 DEF TakerDeal
  <2>3. /\ e.status = s /\ e.order = d.order /\ e.role = d.role /\ e.shares = d.shares
        /\ e.amount = d.amount /\ e.parts = d.parts
    BY <2>1, <2>2 DEF TakerDeal
  <2>4. e \in FilledOnArrival
    BY <2>2 DEF FilledOnArrival
  <2>. QED
    BY <1>2, <2>3, <2>4 DEF TakerDeals
<1>. QED
  BY <1>1, <1>2

LEMMA TradeMessageSays ==
    ASSUME DealsSound, NEW d \in 1..Len(deals), NEW status \in Venue!MarketTradeStatus
    PROVE  \E p \in Nat :
             /\ Venue!TradeEvents(Venue!TradeReport(d, status)) =
                  {[trade |-> d, order |-> deals[d].order, token |-> Token,
                    shares |-> deals[d].shares, price |-> p,
                    role |-> deals[d].role, status |-> status]}
             /\ p * deals[d].shares = deals[d].amount
<1>1. deals[d] \in MakerDeals \cup TakerDeals /\ d \in DOMAIN deals
  BY DEF DealsSound
<1>2. CASE deals[d] \in MakerDeals
  <2>1. PICK o \in OrderIds, n \in Nat \ {0}, was \in Venue!MarketTradeStatus :
          deals[d] = MakerDeal(o, n, was)
    BY <1>2 DEF MakerDeals
  <2>2. deals[d].order = o /\ deals[d].role = "MAKER" /\ deals[d].shares = n
        /\ deals[d].amount = n * Price
    BY <2>1 DEF MakerDeal
  <2>3. Venue!TradeEvents(Venue!TradeReport(d, status)) =
             {[trade |-> d, order |-> o, token |-> Token, shares |-> n, price |-> Price,
               role |-> "MAKER", status |-> status]}
    BY <1>1, <2>1, MakerMessageSays
  <2>4. Price \in Nat /\ Price * n = n * Price
    BY QuantityAssumption
  <2>. QED
    BY <2>2, <2>3, <2>4
<1>3. CASE deals[d] \in TakerDeals
  <2>1. PICK o \in OrderIds, n \in OrderSizes, was \in Venue!MarketTradeStatus, fill \in TakerFills :
          deals[d] = TakerDeal(o, n, was, fill)
    BY <1>3 DEF TakerDeals, FilledOnArrival
  <2>2. deals[d].order = o /\ deals[d].role = "TAKER" /\ deals[d].shares = n
        /\ deals[d].parts = fill.parts
    BY <2>1 DEF TakerDeal
  <2>3. Venue!Total(Venue!PartShares(fill.parts)) \in {0, n}
    BY <1>3, <2>2 DEF TakerDeals
  <2>. QED
    BY <1>1, <2>1, <2>2, <2>3, TakerMessageSays
<1>. QED
  BY <1>1, <1>2, <1>3

-----------------------------------------------------------------------------
(* What a step is to the order manager: one of its own, or none.           *)

EventOf(m) ==
    [order |-> m.id, token |-> Token, matched |-> m.matched,
     active |-> m.status \in {"LIVE", "MATCHED"}]

LEMMA OrderLoopHandles ==
    ASSUME Inv, MarketOrderLoop, NEW m, m = Head(orderWire)
    PROVE  /\ m \in OrderReports /\ TrueReport(m) /\ m.id \in OrderIds
           /\ EventOf(m) \in Manager!OrderEvents /\ TrueEvent(EventOf(m), exchange[m.id])
           /\ Manager!HandleOrderEvent(EventOf(m))
<1>1. OrdersAgree /\ orderWire # <<>> /\ orderWire \in Seq({r \in OrderReports : TrueReport(r)})
  BY DEF Inv, Agreement, OrderWireTrue, MarketOrderLoop
<1>2. m \in {r \in OrderReports : TrueReport(r)}
  <2>. DEFINE R == {r \in OrderReports : TrueReport(r)}
  <2>1. orderWire \in Seq(R) /\ orderWire # <<>>
    BY <1>1
  <2>. HIDE DEF R
  <2>2. m \in R
    BY <2>1
  <2>. QED
    BY <2>2 DEF R
<1>3. m \in OrderReports /\ TrueReport(m)
  BY <1>2
<1>4. Venue!OrderEvents(m) = {EventOf(m)}
  BY <1>1, <1>3, OrderMessageSays DEF EventOf
<1>5. Manager!HandleOrderEvent(EventOf(m))
  BY <1>4 DEF MarketOrderLoop, HandleAll
<1>6. m.id \in OrderIds /\ m.matched \in Nat
  BY <1>3 DEF OrderReports
<1>7. EventOf(m) \in Manager!OrderEvents
  BY <1>6 DEF EventOf, Manager!OrderEvents
<1>8. TrueEvent(EventOf(m), exchange[m.id])
  <2>1. m.status \in {"LIVE", "MATCHED", "CANCELED"}
    BY <1>3 DEF OrderReports
  <2>. QED
    BY <1>3, <2>1 DEF TrueReport, TrueEvent, EventOf
<1>. QED
  BY <1>3, <1>5, <1>6, <1>7, <1>8

LEMMA TradeLoopHandles ==
    ASSUME Inv, MarketTradeLoop, NEW m, m = Head(tradeWire), NEW d, d = m.id
    PROVE  /\ d \in 1..Len(deals) /\ d \in 1..MaxDeals /\ m.status \in Venue!MarketTradeStatus
           /\ \E e \in Ledger!TradeEvents :
                /\ Manager!HandleTradeEvent(e)
                /\ e.trade = d /\ e.order = deals[d].order /\ e.token = Token
                /\ e.shares = deals[d].shares /\ e.price * e.shares = deals[d].amount
                /\ e.role = deals[d].role /\ e.status = m.status
<1>. DEFINE R == [event_type : {"trade"}, id : 1..Len(deals), status : Venue!MarketTradeStatus]
<1>1. /\ tradeWire \in Seq(R) /\ tradeWire # <<>> /\ DealsSound
  BY DEF Inv, Agreement, TradeWireTrue, MarketTradeLoop
<1>2. m \in R
  <2>. HIDE DEF R
  <2>. QED
    BY <1>1
<1>3. d \in 1..Len(deals) /\ m.status \in Venue!MarketTradeStatus
      /\ m = Venue!TradeReport(d, m.status)
  BY <1>2 DEF Venue!TradeReport
<1>4. d \in 1..MaxDeals
  BY <1>1, <1>3, QuantityAssumption DEF DealsSound
<1>5. PICK p \in Nat :
        /\ Venue!TradeEvents(Venue!TradeReport(d, m.status)) =
             {[trade |-> d, order |-> deals[d].order, token |-> Token,
               shares |-> deals[d].shares, price |-> p,
               role |-> deals[d].role, status |-> m.status]}
        /\ p * deals[d].shares = deals[d].amount
  BY <1>1, <1>3, TradeMessageSays
<1>. DEFINE e == [trade |-> d, order |-> deals[d].order, token |-> Token,
                  shares |-> deals[d].shares, price |-> p,
                  role |-> deals[d].role, status |-> m.status]
<1>6. HandleAll(Manager!HandleTradeEvent, Venue!TradeEvents(m))
  BY DEF MarketTradeLoop
<1>7. Venue!TradeEvents(m) = {e}
  BY <1>3, <1>5
<1>8. e \in Ledger!TradeEvents
  <2>1. deals[d] \in MakerDeals \cup TakerDeals
    BY <1>1, <1>3 DEF DealsSound
  <2>. QED
    BY <1>3, <1>4, <2>1, DealFacts DEF Ledger!TradeEvents, Ledger!Role, Venue!MarketTradeStatus
<1>. HIDE DEF e
<1>9. Manager!HandleTradeEvent(e)
  BY <1>6, <1>7 DEF HandleAll
<1>. QED
  BY <1>3, <1>4, <1>5, <1>8, <1>9 DEF e

LEMMA ReadReturnsOne ==
    ASSUME Inv, NEW o \in OrderIds, ReadReturns(o)
    PROVE  \E n \in 1..Len(replies[o].reads) :
             /\ replies' = [replies EXCEPT ![o].reads = RemoveAt(@, n)]
             /\ UNCHANGED venueVars
             /\ \/ Manager!SyncFails(o)
                \/ \E e \in Manager!OrderEvents :
                     e.order = o /\ TrueEvent(e, exchange[o]) /\ Manager!SyncReturns(e)
<1>1. replies[o].reads \in Seq(SUBSET Answers) /\ ReadsTrue(o, replies[o], exchange[o])
  BY DEF Inv, VenueTypes, Replies, Agreement, OrdersAgree, Sound
<1>2. PICK n \in DOMAIN replies[o].reads :
        /\ IF replies[o].reads[n] = {} THEN Manager!SyncFails(o)
           ELSE \A e \in replies[o].reads[n] : Manager!SyncReturns(e)
        /\ replies' = [replies EXCEPT ![o].reads = RemoveAt(@, n)]
        /\ UNCHANGED venueVars
  BY DEF ReadReturns
<1>3. n \in 1..Len(replies[o].reads) /\ replies[o].reads[n] \subseteq Answers
  BY <1>1
<1>4. \A e \in replies[o].reads[n] : e.order = o /\ TrueEvent(e, exchange[o])
  BY <1>1, <1>3 DEF ReadsTrue
<1>5. \/ Manager!SyncFails(o)
      \/ \E e \in Manager!OrderEvents :
            e.order = o /\ TrueEvent(e, exchange[o]) /\ Manager!SyncReturns(e)
  BY <1>2, <1>3, <1>4 DEF Answers
<1>. QED
  BY <1>2, <1>3, <1>5

LEMMA LedgerTakesStep ==
    ASSUME Inv, [Next]_vars
    PROVE  Ledger!Next \/ UNCHANGED Ledger!vars
<1>1. ASSUME NEW o \in OrderIds, Manager!OrderStep(o)
      PROVE  Ledger!Next
  BY <1>1, SameCalls DEF Ledger!Next
<1>2. ASSUME NEW e \in Manager!OrderEvents, Manager!HandleOrderEvent(e) \/ Manager!SyncReturns(e)
      PROVE  Ledger!Next
  BY <1>2, SameOrderReports, SameEvents DEF Ledger!Next
<1>3. ASSUME NEW o \in OrderIds, NEW shares \in OrderSizes, NEW role \in {"MAKER", "TAKER"},
             StartOrder(o, shares, role)
      PROVE  Manager!OrderStep(o)
  BY <1>3 DEF StartOrder, Manager!OrderStep, Manager!Side, Manager!Role
<1>4. ASSUME NEW o \in OrderIds, ReplaceOrder(o)
      PROVE  Manager!OrderStep(o)
  BY <1>4 DEF ReplaceOrder, Manager!OrderStep
<1>5. ASSUME NEW o \in OrderIds, SubmitReturns(o) \/ CancelReturns(o)
      PROVE  Manager!OrderStep(o)
  BY <1>5 DEF SubmitReturns, CancelReturns, Manager!OrderStep
<1>6. ASSUME NEW o \in OrderIds, ReadReturns(o)
      PROVE  Ledger!Next
  <2>1. Manager!SyncFails(o) => Manager!OrderStep(o)
    BY DEF Manager!OrderStep
  <2>. QED
    BY <1>1, <1>2, <1>6, <2>1, ReadReturnsOne
<1>7. CASE MarketOrderLoop
  BY <1>2, <1>7, OrderLoopHandles
<1>8. CASE MarketTradeLoop
  <2>1. PICK e \in Ledger!TradeEvents : Manager!HandleTradeEvent(e)
    BY <1>8, TradeLoopHandles
  <2>. QED
    BY <2>1, SameTradeReports DEF Ledger!Next
<1>9. ASSUME UNCHANGED managerVars
      PROVE  UNCHANGED Ledger!vars
  BY <1>9 DEF managerVars, Ledger!vars
<1>. QED
  BY <1>1, <1>3, <1>4, <1>5, <1>6, <1>7, <1>8, <1>9, Zenon
     DEF Next, vars, ThreadSubmits, ThreadCancels, ThreadReads, VenueMoves

LEMMA LedgerStep ==
    ASSUME Inv, [Next]_vars
    PROVE  Ledger!TypeInv'
<1>1. Ledger!TypeInv
  BY DEF Inv
<1>. QED
  BY <1>1, LedgerTakesStep, Assumptions, Ledger!StepTypes

-----------------------------------------------------------------------------
(* One order: whatever happens to it, what the manager and the exchange    *)
(* have on it still fits together.                                         *)

\* Nothing of the order changes but its flags and its other tasks.
LEMMA FlagsSound ==
    ASSUME NEW o, NEW r, NEW t, NEW a, NEW x, NEW g, Sound(o, r, t, a, x, g),
           NEW q, q.status = r.status, q.side = r.side, q.shares = r.shares,
           q.matched = r.matched, q.pending = r.pending,
           NEW u, u.submit = t.submit,
           NEW b, b.submit = a.submit, b.cancel \in {a.cancel, "none"}, ReadsTrue(o, b, x)
    PROVE  Sound(o, q, u, b, x, g)
<1>1. Manager!IsCanceled(q) <=> Manager!IsCanceled(r)
  BY DEF Manager!IsCanceled
<1>2. RecordSound(x, q)
  BY DEF Sound, RecordSound
<1>3. OrderAgrees(q, u, b, x)
  BY DEF Sound, OrderAgrees
<1>4. ~g => Faithful(q, b, x)
  BY <1>1 DEF Sound, Faithful
<1>. QED
  BY <1>2, <1>3, <1>4 DEF Sound

LEMMA CreatedSound ==
    ASSUME NEW o, NEW r, NEW t, NEW a, NEW x, NEW g, Sound(o, r, t, a, x, g),
           r.status = "UNTRACKED", x \in ExchangeRecord,
           NEW role, NEW n \in OrderSizes, NEW q, q = Manager!NewOrder(Token, "BUY", role, n), NEW u
    PROVE  Sound(o, q, u, a, x, g)
<1>1. q.status = "SUBMITTING" /\ q.side = "BUY" /\ q.matched = 0 /\ q.shares = n
  BY DEF Manager!NewOrder
<1>2. ~Known(x) /\ x.matched = 0
  BY DEF Sound, RecordSound
<1>3. RecordSound(x, q)
  BY <1>2 DEF Sound, RecordSound
<1>4. OrderAgrees(q, u, a, x)
  BY <1>1, <1>2 DEF Sound, OrderAgrees
<1>5. Faithful(q, a, x)
  BY <1>1, <1>2 DEF Faithful, Known, Manager!IsCanceled, Manager!CanceledStatus
<1>. QED
  BY <1>3, <1>4, <1>5 DEF Sound

LEMMA SubmittedSound ==
    ASSUME NEW o, NEW r, NEW t, NEW a, NEW x, NEW g, Sound(o, r, t, a, x, g),
           a.submit = "ok", NEW q, q.status = "ZERO_MATCHED", q.side = r.side,
           q.shares = r.shares, q.matched = r.matched, q.pending = r.pending,
           NEW u, u.submit = 0, NEW b, b.submit = "none", b.cancel = a.cancel, b.reads = a.reads
    PROVE  Sound(o, q, u, b, x, g)
<1>1. Known(x) /\ ~Manager!IsCanceled(q)
  BY DEF Sound, OrderAgrees, Manager!IsCanceled, Manager!CanceledStatus
<1>2. RecordSound(x, q)
  BY <1>1 DEF Sound, RecordSound
<1>3. OrderAgrees(q, u, b, x)
  BY <1>1 DEF Sound, OrderAgrees
<1>4. ~g => Faithful(q, b, x)
  BY <1>1 DEF Sound, Faithful
<1>. QED
  BY <1>2, <1>3, <1>4 DEF Sound, ReadsTrue

LEMMA RefusedSound ==
    ASSUME NEW o, NEW r, NEW t, NEW a, NEW x, NEW g, Sound(o, r, t, a, x, g),
           a.submit = "failed", NEW q, q.status \in {"SUB_FAILED", "ZERO_MATCHED_CANCELED"},
           q.side = r.side, q.shares = r.shares, q.matched = r.matched,
           NEW u, u.submit = 0, NEW b, b.submit = "none", b.cancel = a.cancel, b.reads = a.reads
    PROVE  Sound(o, q, u, b, x, g)
<1>1. RecordSound(x, q)
  BY DEF Sound, RecordSound
<1>2. OrderAgrees(q, u, b, x)
  BY DEF Sound, OrderAgrees
<1>3. ~g => Faithful(q, b, x)
  BY DEF Sound, Faithful, Known
<1>. QED
  BY <1>1, <1>2, <1>3 DEF Sound, ReadsTrue

LEMMA CanceledSound ==
    ASSUME NEW o, NEW r, NEW t, NEW a, NEW x, NEW g, Sound(o, r, t, a, x, g),
           a.cancel = "canceled", NEW q, q.status \in Manager!CanceledStatus,
           q.side = r.side, q.shares = r.shares, q.matched = r.matched,
           NEW u, u.submit = t.submit,
           NEW b, b.submit = a.submit, b.cancel = "none", b.reads = a.reads
    PROVE  Sound(o, q, u, b, x, g)
<1>1. x.status = "CANCELED" /\ Known(x) /\ q.status # "UNTRACKED" /\ q.status # "SUBMITTING"
  BY DEF Sound, OrderAgrees, Known, Manager!CanceledStatus
<1>2. RecordSound(x, q)
  BY <1>1 DEF Sound, RecordSound
<1>3. OrderAgrees(q, u, b, x)
  BY <1>1 DEF Sound, OrderAgrees
<1>4. ~g => Faithful(q, b, x)
  BY <1>1 DEF Sound, Faithful
<1>. QED
  BY <1>2, <1>3, <1>4 DEF Sound, ReadsTrue

\* The manager takes in an event that is true of the order.
LEMMA EventSound ==
    ASSUME NEW o, NEW r, NEW t, NEW a, NEW x, NEW g, Sound(o, r, t, a, x, g),
           RecordKept(r, t), x \in ExchangeRecord,
           NEW e \in Manager!OrderEvents, TrueEvent(e, x), NEW q, q = Manager!AfterEvent(r, e),
           NEW u, u.submit = t.submit,
           NEW b, b.submit = a.submit, b.cancel = a.cancel, ReadsTrue(o, b, x)
    PROVE  Sound(o, q, u, b, x, g)
<1>. DEFINE m == Manager!Larger(r.matched, e.matched)
<1>1. /\ r \in Manager!OrderRecord /\ r.matched \in Nat /\ r.pending \in Nat /\ r.shares \in Nat
      /\ e.matched \in Nat /\ x.matched \in Nat /\ x.shares \in Nat
  BY DEF RecordKept, Manager!OrderRecord, Manager!OrderEvents, ExchangeRecord
<1>2. Known(x) /\ r.status # "UNTRACKED" /\ x.shares = r.shares /\ e.matched <= x.matched
      /\ r.matched <= x.matched /\ x.matched <= x.shares /\ r.side = "BUY"
  BY DEF TrueEvent, Sound, RecordSound, OrderAgrees
<1>3. m \in Nat /\ m <= x.matched
  BY <1>1, <1>2 DEF Manager!Larger
<1>4. q.side = r.side /\ q.shares = r.shares /\ q.matched = m
  BY <1>1 DEF Manager!AfterEvent, Manager!Closed, Manager!Open, Manager!OrderRecord
<1>5. q.status # "UNTRACKED" /\ q.status # "SUBMITTING"
  BY <1>1 DEF Manager!AfterEvent, Manager!Closed, Manager!Open, Manager!OrderRecord
<1>. HIDE DEF m
<1>6. RecordSound(x, q)
  BY <1>2, <1>4, <1>5 DEF Sound, RecordSound
<1>7. OrderAgrees(q, u, b, x)
  BY <1>2, <1>3, <1>4, <1>5 DEF Sound, OrderAgrees
<1>8. ASSUME ~g
      PROVE  Faithful(q, b, x)
  <2>1. Faithful(r, a, x)
    BY <1>8 DEF Sound
  <2>2. CASE ~e.active \/ Manager!IsCanceled(r)
    <3>1. x.status = "CANCELED"
      BY <1>2, <2>1, <2>2 DEF TrueEvent, Faithful, Known
    <3>. QED
      BY <2>1, <3>1 DEF Faithful
  <2>3. CASE ~(~e.active \/ Manager!IsCanceled(r))
    <3>1. q = Manager!Open(r, e)
      BY <2>3 DEF Manager!AfterEvent
    <3>2. q.status \in {"ZERO_MATCHED", "FULL_MATCHED", "PART_MATCHED"}
      BY <1>1, <3>1 DEF Manager!Open, Manager!OrderRecord
    <3>3. q.status # "SUB_FAILED" /\ ~Manager!IsCanceled(q)
      BY <3>2 DEF Manager!IsCanceled, Manager!CanceledStatus
    <3>4. q.pending = Manager!Smaller(r.pending, r.shares - e.matched)
      BY <1>1, <3>1 DEF Manager!Open, Manager!OrderRecord
    <3>5. x.status = "LIVE" => r.pending = r.shares - r.matched
      BY <2>1 DEF Faithful
    <3>6. x.status = "LIVE" => q.pending = q.shares - q.matched
      BY <1>1, <1>4, <3>4, <3>5 DEF Manager!Smaller, Manager!Larger, m
    <3>. QED
      BY <2>1, <3>3, <3>6 DEF Faithful
  <2>. QED
    BY <2>2, <2>3
<1>. QED
  BY <1>6, <1>7, <1>8 DEF Sound

\* A submit call reaches the exchange, or does not.
LEMMA PlacedSound ==
    ASSUME NEW o, NEW r, NEW t, NEW a, NEW x, NEW g, Sound(o, r, t, a, x, g),
           RecordKept(r, t), x \in ExchangeRecord, t.submit = 1, a.submit = "none",
           NEW ok \in BOOLEAN, NEW b, b.submit = (IF ok THEN "ok" ELSE "failed"), b.cancel = a.cancel,
           b.reads = a.reads, NEW y, NEW h,
           \/ /\ y.status \in {"LIVE", "MATCHED"} /\ y.token = Token /\ y.shares = r.shares
              /\ y.matched = (IF y.status = "LIVE" THEN 0 ELSE r.shares)
              /\ (h <=> g \/ ~ok)
           \/ y = x /\ ~ok /\ h = g
    PROVE  Sound(o, r, t, b, y, h)
<1>1. ~Known(x) /\ r.status = "SUBMITTING" /\ x.matched = 0
  BY DEF Sound, OrderAgrees, RecordSound
<1>2. r.matched = 0 /\ r.pending = r.shares /\ r.shares \in Nat /\ r.side = "BUY"
      /\ r.shares \in OrderSizes
  BY <1>1 DEF RecordKept, Manager!OrderRecord, Sound, OrderAgrees
<1>3. a.cancel # "canceled" /\ ~Manager!IsCanceled(r)
  BY <1>1 DEF Sound, OrderAgrees, Known, Manager!IsCanceled, Manager!CanceledStatus
<1>4. \A n \in 1..Len(b.reads) : b.reads[n] = {}
  BY <1>1 DEF Sound, ReadsTrue, TrueEvent
<1>5. ReadsTrue(o, b, y)
  BY <1>4 DEF ReadsTrue
<1>6. CASE y = x /\ ~ok /\ h = g
  <2>1. OrderAgrees(r, t, b, y)
    BY <1>1, <1>2, <1>3, <1>6 DEF OrderAgrees
  <2>2. ~h => Faithful(r, b, y)
    BY <1>1, <1>3, <1>6 DEF Faithful, Known
  <2>3. RecordSound(y, r)
    BY <1>6 DEF Sound
  <2>. QED
    BY <1>5, <2>1, <2>2, <2>3 DEF Sound
<1>7. CASE /\ y.status \in {"LIVE", "MATCHED"} /\ y.token = Token /\ y.shares = r.shares
           /\ y.matched = (IF y.status = "LIVE" THEN 0 ELSE r.shares)
           /\ (h <=> g \/ ~ok)
  <2>1. RecordSound(y, r) /\ Known(y)
    BY <1>1, <1>2, <1>7 DEF RecordSound, Known
  <2>2. y.matched \in Nat
    BY <1>2, <1>7
  <2>3. OrderAgrees(r, t, b, y)
    BY <1>1, <1>2, <1>3, <2>1, <2>2 DEF OrderAgrees
  <2>4. ~h => Faithful(r, b, y)
    BY <1>1, <1>2, <1>3, <1>7 DEF Faithful
  <2>. QED
    BY <1>5, <2>1, <2>3, <2>4 DEF Sound
<1>. QED
  BY <1>6, <1>7

\* The exchange trades the order or cancels it.
LEMMA MovedSound ==
    ASSUME NEW o, NEW r, NEW t, NEW a, NEW x, NEW g, Sound(o, r, t, a, x, g),
           RecordKept(r, t), a \in Replies, x \in ExchangeRecord, NEW y \in ExchangeRecord, x.status = "LIVE",
           y.status \in {"LIVE", "MATCHED", "CANCELED"}, y.token = x.token, y.shares = x.shares,
           x.matched <= y.matched, y.matched <= y.shares,
           y.status = "MATCHED" => y.matched = y.shares,
           NEW b, b.submit = a.submit, b.cancel = "canceled" => y.status = "CANCELED", b.reads = a.reads
    PROVE  Sound(o, r, t, b, y, g)
<1>1. Known(x) /\ Known(y) /\ r.matched \in Nat /\ x.matched \in Nat /\ y.matched \in Nat
  BY DEF Known, RecordKept, Manager!OrderRecord, ExchangeRecord
<1>2. RecordSound(y, r)
  BY <1>1 DEF Sound, RecordSound
<1>3. OrderAgrees(r, t, b, y)
  BY <1>1 DEF Sound, OrderAgrees
<1>4. ~g => Faithful(r, b, y)
  BY DEF Sound, Faithful, Known
<1>5. \A e \in Manager!OrderEvents : TrueEvent(e, x) => TrueEvent(e, y)
  BY <1>1 DEF TrueEvent, Manager!OrderEvents
<1>6. ReadsTrue(o, b, y)
  <2>1. \A n \in 1..Len(b.reads) : \A e \in b.reads[n] : e.order = o /\ TrueEvent(e, x)
    BY DEF Sound, ReadsTrue
  <2>2. \A n \in 1..Len(b.reads) : b.reads[n] \subseteq Manager!OrderEvents
    BY DEF Replies, Answers
  <2>. QED
    BY <1>5, <2>1, <2>2 DEF ReadsTrue
<1>. QED
  BY <1>2, <1>3, <1>4, <1>6 DEF Sound

-----------------------------------------------------------------------------
(* Every step keeps the orders agreeing.                                   *)

LEMMA OneOrderSound ==
    ASSUME OrdersAgree, NEW o \in OrderIds,
           \A p \in OrderIds \ {o} :
             /\ orders'[p] = orders[p] /\ tasks'[p] = tasks[p] /\ replies'[p] = replies[p]
             /\ exchange'[p] = exchange[p] /\ (p \in ghosts' <=> p \in ghosts),
           Sound(o, orders'[o], tasks'[o], replies'[o], exchange'[o], o \in ghosts')
    PROVE  OrdersAgree'
<1>1. ASSUME NEW p \in OrderIds, p # o
      PROVE  Sound(p, orders'[p], tasks'[p], replies'[p], exchange'[p], p \in ghosts')
  <2>1. Sound(p, orders[p], tasks[p], replies[p], exchange[p], p \in ghosts)
    BY DEF OrdersAgree
  <2>. QED
    BY <1>1, <2>1 DEF Sound
<1>. QED
  BY <1>1 DEF OrdersAgree

LEMMA OrderFacts ==
    ASSUME Inv
    PROVE  /\ OrdersAgree /\ replies \in [OrderIds -> Replies]
           /\ exchange \in [OrderIds -> ExchangeRecord]
           /\ orders \in [OrderIds -> Manager!OrderRecord]
           /\ tasks \in [OrderIds -> Manager!TaskRecord]
           /\ \A o \in OrderIds :
                /\ Sound(o, orders[o], tasks[o], replies[o], exchange[o], o \in ghosts)
                /\ RecordKept(orders[o], tasks[o]) /\ replies[o] \in Replies
                /\ exchange[o] \in ExchangeRecord
<1>1. OrdersAgree /\ VenueTypes /\ Ledger!TypeInv
  BY DEF Inv, Agreement
<1>. QED
  BY <1>1, ManagerFacts DEF OrdersAgree, VenueTypes

LEMMA StartOrderAgrees ==
    ASSUME Inv, NEW o \in OrderIds, NEW n \in OrderSizes, NEW role, StartOrder(o, n, role)
    PROVE  OrdersAgree'
<1>1. /\ orders' = [orders EXCEPT ![o] = Manager!NewOrder(Token, "BUY", role, n)]
      /\ tasks' = [tasks EXCEPT ![o].submit = 1]
      /\ orders[o].status = "UNTRACKED"
      /\ UNCHANGED <<exchange, ghosts, replies>>
  BY DEF StartOrder, Manager!CreateOrder, Manager!Tracked, venueVars
<1>2. n \in Nat
  BY QuantityAssumption
<1>3. Sound(o, orders'[o], tasks'[o], replies'[o], exchange'[o], o \in ghosts')
  <2>1. orders'[o] = Manager!NewOrder(Token, "BUY", role, n) /\ replies'[o] = replies[o]
        /\ exchange'[o] = exchange[o] /\ ghosts' = ghosts
    BY <1>1, OrderFacts
  <2>. QED
    BY <1>1, <1>2, <2>1, OrderFacts, CreatedSound
<1>. QED
  BY <1>1, <1>3, OrderFacts, OneOrderSound

LEMMA ReplaceOrderAgrees ==
    ASSUME Inv, NEW o \in OrderIds, ReplaceOrder(o)
    PROVE  OrdersAgree'
<1>1. /\ orders' = [orders EXCEPT ![o] = Manager!CancelRequested(@)]
      /\ tasks' = [tasks EXCEPT ![o].cancel = IF Manager!CancelStarts(orders[o]) THEN @ + 1 ELSE @]
      /\ UNCHANGED <<exchange, ghosts, replies>>
  BY DEF ReplaceOrder, Manager!Cancel, venueVars
<1>2. Sound(o, orders'[o], tasks'[o], replies'[o], exchange'[o], o \in ghosts')
  <2>1. /\ orders'[o].status = orders[o].status /\ orders'[o].side = orders[o].side
        /\ orders'[o].shares = orders[o].shares /\ orders'[o].matched = orders[o].matched
        /\ orders'[o].pending = orders[o].pending
    BY <1>1, OrderFacts DEF Manager!CancelRequested, Manager!OrderRecord
  <2>2. tasks'[o].submit = tasks[o].submit
    BY <1>1, OrderFacts DEF Manager!TaskRecord
  <2>3. ReadsTrue(o, replies[o], exchange[o])
    BY OrderFacts DEF Sound
  <2>4. Sound(o, orders'[o], tasks'[o], replies[o], exchange[o], o \in ghosts)
    BY <2>1, <2>2, <2>3, OrderFacts, FlagsSound
  <2>. QED
    BY <1>1, <2>4
<1>. QED
  BY <1>1, <1>2, OrderFacts, OneOrderSound

LEMMA SubmitReturnsAgrees ==
    ASSUME Inv, NEW o \in OrderIds, SubmitReturns(o)
    PROVE  OrdersAgree'
<1>. DEFINE r == orders[o]
            a == replies[o]
<1>0. /\ Sound(o, r, tasks[o], a, exchange[o], o \in ghosts)
      /\ r \in Manager!OrderRecord /\ tasks[o] \in Manager!TaskRecord /\ tasks[o].submit \in {0, 1}
      /\ a \in Replies
  BY OrderFacts DEF RecordKept
<1>1. replies' = [replies EXCEPT ![o].submit = "none"] /\ UNCHANGED <<exchange, ghosts>>
  BY DEF SubmitReturns, venueVars
<1>2. /\ replies'[o].submit = "none" /\ replies'[o].cancel = a.cancel /\ replies'[o].reads = a.reads
      /\ exchange'[o] = exchange[o] /\ ghosts' = ghosts
  BY <1>1, OrderFacts DEF Replies
<1>3. CASE a.submit = "ok" /\ Manager!SubmitSuccess(o)
  <2>. DEFINE q == Manager!Submitted(r)
              s == [q EXCEPT !.should_cancel = FALSE]
              c == q.should_cancel /\ Manager!CancelStarts(s)
  <2>1. /\ orders' = [orders EXCEPT ![o] = IF q.should_cancel THEN Manager!CancelRequested(s) ELSE q]
        /\ tasks' = [tasks EXCEPT ![o] = Manager!SubmitCallEnds(@, Manager!SyncAfterSubmit(q), c)]
        /\ tasks[o].submit > 0
    BY <1>3 DEF Manager!SubmitSuccess
  <2>2. /\ orders'[o].status = "ZERO_MATCHED" /\ orders'[o].side = r.side
        /\ orders'[o].shares = r.shares /\ orders'[o].matched = r.matched
        /\ orders'[o].pending = r.pending
    <3>1. orders'[o] = IF q.should_cancel THEN Manager!CancelRequested(s) ELSE q
      BY <2>1, OrderFacts
    <3>. QED
      BY <1>0, <3>1 DEF Manager!Submitted, Manager!CancelRequested, Manager!OrderRecord
  <2>3. tasks'[o].submit = 0
    <3>1. tasks'[o] = Manager!SubmitCallEnds(tasks[o], Manager!SyncAfterSubmit(q), c)
      BY <2>1, OrderFacts
    <3>. HIDE DEF q, c
    <3>2. tasks'[o].submit = tasks[o].submit - 1
      BY <1>0, <3>1 DEF Manager!SubmitCallEnds, Manager!TaskRecord
    <3>. QED
      BY <1>0, <2>1, <3>2
  <2>4. \A p \in OrderIds \ {o} : orders'[p] = orders[p] /\ tasks'[p] = tasks[p]
                                  /\ replies'[p] = replies[p]
    BY <1>1, <2>1, OrderFacts
  <2>. HIDE DEF q, s, c
  <2>5. Sound(o, orders'[o], tasks'[o], replies'[o], exchange'[o], o \in ghosts')
    BY <1>0, <1>2, <1>3, <2>2, <2>3, SubmittedSound
  <2>. QED
    BY <1>1, <2>4, <2>5, OrderFacts, OneOrderSound
<1>4. CASE a.submit = "failed" /\ Manager!SubmitFailed(o, FALSE)
  <2>1. /\ orders' = [orders EXCEPT ![o] = Manager!SubmitRefused(@)]
        /\ tasks' = [tasks EXCEPT ![o].submit = @ - 1] /\ tasks[o].submit > 0
    BY <1>4 DEF Manager!SubmitFailed
  <2>2. /\ orders'[o].status \in {"SUB_FAILED", "ZERO_MATCHED_CANCELED"}
        /\ orders'[o].side = r.side
        /\ orders'[o].shares = r.shares /\ orders'[o].matched = r.matched
    BY <1>0, <2>1, OrderFacts DEF Manager!SubmitRefused, Manager!OrderRecord
  <2>3. tasks'[o].submit = 0
    BY <1>0, <2>1, OrderFacts DEF Manager!TaskRecord
  <2>4. \A p \in OrderIds \ {o} : orders'[p] = orders[p] /\ tasks'[p] = tasks[p]
                                  /\ replies'[p] = replies[p]
    BY <1>1, <2>1, OrderFacts
  <2>5. Sound(o, orders'[o], tasks'[o], replies'[o], exchange'[o], o \in ghosts')
    BY <1>0, <1>2, <1>4, <2>2, <2>3, RefusedSound
  <2>. QED
    BY <1>1, <2>4, <2>5, OrderFacts, OneOrderSound
<1>. QED
  BY <1>3, <1>4 DEF SubmitReturns

LEMMA CancelReturnsAgrees ==
    ASSUME Inv, NEW o \in OrderIds, CancelReturns(o)
    PROVE  OrdersAgree'
<1>. DEFINE r == orders[o]
            a == replies[o]
<1>0. /\ Sound(o, r, tasks[o], a, exchange[o], o \in ghosts)
      /\ r \in Manager!OrderRecord /\ tasks[o] \in Manager!TaskRecord /\ a \in Replies
  BY OrderFacts DEF RecordKept
<1>1. replies' = [replies EXCEPT ![o].cancel = "none"] /\ UNCHANGED <<exchange, ghosts>>
  BY DEF CancelReturns, venueVars
<1>2. /\ replies'[o].submit = a.submit /\ replies'[o].cancel = "none" /\ replies'[o].reads = a.reads
      /\ exchange'[o] = exchange[o] /\ ghosts' = ghosts
  BY <1>1, OrderFacts DEF Replies
<1>3. CASE a.cancel = "canceled" /\ Manager!CancelSuccess(o)
  <2>1. /\ orders' = [orders EXCEPT ![o] = Manager!CancelDone(@)]
        /\ tasks' = [tasks EXCEPT ![o].cancel = @ - 1]
    BY <1>3 DEF Manager!CancelSuccess
  <2>2. /\ orders'[o].status \in Manager!CanceledStatus /\ orders'[o].side = r.side
        /\ orders'[o].shares = r.shares /\ orders'[o].matched = r.matched
    BY <1>0, <2>1, OrderFacts DEF Manager!CancelDone, Manager!OrderRecord, Manager!CanceledStatus
  <2>3. tasks'[o].submit = tasks[o].submit
    BY <1>0, <2>1, OrderFacts DEF Manager!TaskRecord
  <2>4. \A p \in OrderIds \ {o} : orders'[p] = orders[p] /\ tasks'[p] = tasks[p]
                                  /\ replies'[p] = replies[p]
    BY <1>1, <2>1, OrderFacts
  <2>5. Sound(o, orders'[o], tasks'[o], replies'[o], exchange'[o], o \in ghosts')
    BY <1>0, <1>2, <1>3, <2>2, <2>3, CanceledSound
  <2>. QED
    BY <1>1, <2>4, <2>5, OrderFacts, OneOrderSound
<1>4. ASSUME NEW over \in BOOLEAN, Manager!CancelFailed(o, over, FALSE)
      PROVE  OrdersAgree'
  <2>1. /\ orders' = [orders EXCEPT ![o].is_cancelling = FALSE]
        /\ tasks' = [tasks EXCEPT ![o] = Manager!CancelCallEnds(@, over)]
    BY <1>4 DEF Manager!CancelFailed
  <2>2. /\ orders'[o].status = r.status /\ orders'[o].side = r.side
        /\ orders'[o].shares = r.shares /\ orders'[o].matched = r.matched
        /\ orders'[o].pending = r.pending
    BY <1>0, <2>1, OrderFacts DEF Manager!OrderRecord
  <2>3. tasks'[o].submit = tasks[o].submit
    BY <1>0, <2>1, OrderFacts DEF Manager!TaskRecord, Manager!CancelCallEnds
  <2>4. \A p \in OrderIds \ {o} : orders'[p] = orders[p] /\ tasks'[p] = tasks[p]
                                  /\ replies'[p] = replies[p]
    BY <1>1, <2>1, OrderFacts
  <2>5. ReadsTrue(o, replies'[o], exchange[o])
    BY <1>0, <1>2 DEF Sound, ReadsTrue
  <2>6. Sound(o, orders'[o], tasks'[o], replies'[o], exchange[o], o \in ghosts)
    BY <1>0, <1>2, <2>2, <2>3, <2>5, FlagsSound
  <2>. QED
    BY <1>1, <1>2, <2>4, <2>6, OrderFacts, OneOrderSound
<1>. QED
  BY <1>3, <1>4 DEF CancelReturns

LEMMA ReadReturnsAgrees ==
    ASSUME Inv, NEW o \in OrderIds, ReadReturns(o)
    PROVE  OrdersAgree' /\ replies' \in [OrderIds -> Replies]
<1>0. /\ Sound(o, orders[o], tasks[o], replies[o], exchange[o], o \in ghosts)
      /\ RecordKept(orders[o], tasks[o]) /\ exchange[o] \in ExchangeRecord
      /\ tasks[o] \in Manager!TaskRecord /\ replies[o] \in Replies
      /\ replies \in [OrderIds -> Replies]
  BY OrderFacts DEF RecordKept
<1>1. PICK n \in 1..Len(replies[o].reads) :
        /\ replies' = [replies EXCEPT ![o].reads = RemoveAt(@, n)]
        /\ UNCHANGED venueVars
        /\ \/ Manager!SyncFails(o)
           \/ \E e \in Manager!OrderEvents :
                e.order = o /\ TrueEvent(e, exchange[o]) /\ Manager!SyncReturns(e)
  BY ReadReturnsOne
<1>2. PICK R, s : R = replies[o].reads /\ s = RemoveAt(R, n)
  OBVIOUS
<1>3. replies[o].reads \in Seq(SUBSET Answers)
  BY <1>0 DEF Replies
<1>4. /\ s \in Seq(SUBSET Answers)
      /\ \A i \in 1..Len(s) : \E j \in 1..Len(replies[o].reads) : s[i] = replies[o].reads[j]
  BY <1>2, <1>3, RemovedKeeps
<1>5. /\ replies'[o].submit = replies[o].submit /\ replies'[o].cancel = replies[o].cancel
      /\ replies'[o].reads = s /\ replies'[o] \in Replies
      /\ \A p \in OrderIds \ {o} : replies'[p] = replies[p]
  BY <1>0, <1>1, <1>2, <1>4 DEF Replies
<1>6. ReadsTrue(o, replies'[o], exchange[o])
  BY <1>0, <1>4, <1>5 DEF Sound, ReadsTrue
<1>7. exchange' = exchange /\ ghosts' = ghosts
  BY <1>1 DEF venueVars
<1>8. replies' \in [OrderIds -> Replies]
  BY <1>0, <1>1, <1>5
<1>9. CASE Manager!SyncFails(o)
  <2>1. tasks' = [tasks EXCEPT ![o].sync = @ - 1] /\ orders' = orders
    BY <1>9 DEF Manager!SyncFails
  <2>2. tasks'[o].submit = tasks[o].submit /\ \A p \in OrderIds \ {o} : tasks'[p] = tasks[p]
    BY <1>0, <2>1, OrderFacts DEF Manager!TaskRecord
  <2>3. Sound(o, orders[o], tasks'[o], replies'[o], exchange[o], o \in ghosts)
    BY <1>0, <1>5, <1>6, <2>2, FlagsSound
  <2>. QED
    BY <1>5, <1>7, <1>8, <2>1, <2>2, <2>3, OrderFacts, OneOrderSound
<1>10. ASSUME NEW e \in Manager!OrderEvents, e.order = o, TrueEvent(e, exchange[o]),
              Manager!SyncReturns(e)
       PROVE  OrdersAgree'
  <2>1. /\ tasks' = [tasks EXCEPT ![o].sync = @ - 1]
        /\ orders' = [orders EXCEPT ![o] = Manager!AfterEvent(@, e)]
    BY <1>10 DEF Manager!SyncReturns
  <2>2. /\ tasks'[o].submit = tasks[o].submit /\ orders'[o] = Manager!AfterEvent(orders[o], e)
        /\ \A p \in OrderIds \ {o} : tasks'[p] = tasks[p] /\ orders'[p] = orders[p]
    BY <1>0, <2>1, OrderFacts DEF Manager!TaskRecord
  <2>3. Sound(o, orders'[o], tasks'[o], replies'[o], exchange[o], o \in ghosts)
    BY <1>0, <1>5, <1>6, <1>10, <2>2, EventSound
  <2>. QED
    BY <1>5, <1>7, <2>2, <2>3, OrderFacts, OneOrderSound
<1>. QED
  BY <1>1, <1>8, <1>9, <1>10

LEMMA OrderLoopAgrees ==
    ASSUME Inv, MarketOrderLoop
    PROVE  OrdersAgree'
<1>1. PICK m : m = Head(orderWire)
  OBVIOUS
<1>2. PICK o, e : o = m.id /\ e = EventOf(m)
  OBVIOUS
<1>3. /\ o \in OrderIds /\ e \in Manager!OrderEvents /\ TrueEvent(e, exchange[o])
      /\ Manager!HandleOrderEvent(e) /\ e.order = o
  BY <1>1, <1>2, OrderLoopHandles DEF EventOf
<1>4. /\ orders' = [orders EXCEPT ![o] = Manager!AfterEvent(@, e)]
      /\ UNCHANGED <<tasks, exchange, ghosts, replies>>
  BY <1>3 DEF Manager!HandleOrderEvent, MarketOrderLoop
<1>5. ReadsTrue(o, replies[o], exchange[o])
  BY <1>3, OrderFacts DEF Sound
<1>6. /\ orders'[o] = Manager!AfterEvent(orders[o], e)
      /\ \A p \in OrderIds \ {o} : orders'[p] = orders[p]
  BY <1>3, <1>4, OrderFacts
<1>7. Sound(o, orders'[o], tasks[o], replies[o], exchange[o], o \in ghosts)
  BY <1>3, <1>5, <1>6, OrderFacts, EventSound
<1>. QED
  BY <1>3, <1>4, <1>6, <1>7, OrderFacts, OneOrderSound

\* The exchange takes an order in, or never sees it.
LEMMA SubmitEffects ==
    ASSUME Inv, NEW o \in OrderIds, ThreadSubmits(o)
    PROVE  \E ok \in BOOLEAN :
             /\ replies' = [replies EXCEPT ![o].submit = IF ok THEN "ok" ELSE "failed"]
             /\ tasks[o].submit = 1 /\ replies[o].submit = "none"
             /\ Venue!SubmitOrder(o, orders[o].role, Token, orders[o].shares, ok)
             /\ \/ \E y \in ExchangeRecord :
                     /\ exchange' = [exchange EXCEPT ![o] = y]
                     /\ y.status \in {"LIVE", "MATCHED"} /\ y.token = Token
                     /\ y.shares = orders[o].shares
                     /\ y.matched = (IF y.status = "LIVE" THEN 0 ELSE orders[o].shares)
                     /\ ghosts' = (IF ok THEN ghosts ELSE ghosts \cup {o})
                \/ ~ok /\ UNCHANGED venueVars
<1>1. PICK ok \in BOOLEAN :
        /\ Venue!SubmitOrder(o, orders[o].role, Token, orders[o].shares, ok)
        /\ replies' = [replies EXCEPT ![o].submit = IF ok THEN "ok" ELSE "failed"]
  BY DEF ThreadSubmits
<1>2. tasks[o].submit = 1 /\ replies[o].submit = "none" /\ orders[o].shares \in Nat
  BY OrderFacts DEF ThreadSubmits, RecordKept, Manager!OrderRecord
<1>3. CASE Venue!Rest(o, Token, orders[o].shares) /\ ghosts' = IF ok THEN ghosts ELSE ghosts \cup {o}
  <2>1. PICK y : y = [status |-> "LIVE", token |-> Token, shares |-> orders[o].shares, matched |-> 0]
    OBVIOUS
  <2>2. exchange' = [exchange EXCEPT ![o] = y]
    BY <1>3, <2>1 DEF Venue!Rest
  <2>3. y \in ExchangeRecord
    BY <1>2, <2>1 DEF ExchangeRecord
  <2>. QED
    BY <1>1, <1>2, <1>3, <2>1, <2>2, <2>3
<1>4. ASSUME NEW fill, Venue!FillOnArrival(o, Token, orders[o].shares, fill),
             ghosts' = IF ok THEN ghosts ELSE ghosts \cup {o}
      PROVE  \E y \in ExchangeRecord :
                     /\ exchange' = [exchange EXCEPT ![o] = y]
                     /\ y.status = "MATCHED" /\ y.token = Token
                     /\ y.shares = orders[o].shares /\ y.matched = orders[o].shares
  <2>1. PICK y : y = [status |-> "MATCHED", token |-> Token, shares |-> orders[o].shares,
                      matched |-> orders[o].shares]
    OBVIOUS
  <2>2. exchange' = [exchange EXCEPT ![o] = y]
    BY <1>4, <2>1 DEF Venue!FillOnArrival, Venue!Trade
  <2>3. y \in ExchangeRecord
    BY <1>2, <2>1 DEF ExchangeRecord
  <2>. QED
    BY <2>1, <2>2, <2>3
<1>5. \/ Venue!Rest(o, Token, orders[o].shares) /\ ghosts' = IF ok THEN ghosts ELSE ghosts \cup {o}
      \/ (\E fill \in TakerFills : Venue!FillOnArrival(o, Token, orders[o].shares, fill))
           /\ ghosts' = IF ok THEN ghosts ELSE ghosts \cup {o}
      \/ ~ok /\ UNCHANGED venueVars
  BY <1>1 DEF Venue!SubmitOrder, Venue!venueVars, venueVars
<1>. QED
  BY <1>1, <1>2, <1>3, <1>4, <1>5

LEMMA ThreadSubmitsAgrees ==
    ASSUME Inv, NEW o \in OrderIds, ThreadSubmits(o)
    PROVE  /\ OrdersAgree' /\ exchange' \in [OrderIds -> ExchangeRecord]
           /\ replies' \in [OrderIds -> Replies] /\ ghosts' \subseteq OrderIds
<1>1. PICK ok \in BOOLEAN :
        /\ replies' = [replies EXCEPT ![o].submit = IF ok THEN "ok" ELSE "failed"]
        /\ tasks[o].submit = 1 /\ replies[o].submit = "none"
        /\ \/ \E y \in ExchangeRecord :
                /\ exchange' = [exchange EXCEPT ![o] = y]
                /\ y.status \in {"LIVE", "MATCHED"} /\ y.token = Token
                /\ y.shares = orders[o].shares
                /\ y.matched = (IF y.status = "LIVE" THEN 0 ELSE orders[o].shares)
                /\ ghosts' = (IF ok THEN ghosts ELSE ghosts \cup {o})
           \/ ~ok /\ UNCHANGED venueVars
  BY SubmitEffects
<1>2. orders' = orders /\ tasks' = tasks /\ ghosts \subseteq OrderIds
  BY DEF ThreadSubmits, managerVars, Inv, VenueTypes
<1>3. PICK b : b = replies'[o]
  OBVIOUS
<1>4. /\ b.submit = (IF ok THEN "ok" ELSE "failed") /\ b.cancel = replies[o].cancel
      /\ b.reads = replies[o].reads /\ b \in Replies
      /\ replies' \in [OrderIds -> Replies] /\ \A p \in OrderIds \ {o} : replies'[p] = replies[p]
  BY <1>1, <1>3, OrderFacts DEF Replies
<1>5. ASSUME NEW y \in ExchangeRecord, exchange' = [exchange EXCEPT ![o] = y],
             y.status \in {"LIVE", "MATCHED"}, y.token = Token, y.shares = orders[o].shares,
             y.matched = (IF y.status = "LIVE" THEN 0 ELSE orders[o].shares),
             ghosts' = (IF ok THEN ghosts ELSE ghosts \cup {o})
      PROVE  OrdersAgree' /\ exchange' \in [OrderIds -> ExchangeRecord] /\ ghosts' \subseteq OrderIds
  <2>1. exchange'[o] = y /\ (o \in ghosts' <=> o \in ghosts \/ ~ok)
        /\ exchange' \in [OrderIds -> ExchangeRecord] /\ ghosts' \subseteq OrderIds
    BY <1>2, <1>5, OrderFacts
  <2>2. Sound(o, orders[o], tasks[o], b, y, o \in ghosts')
    BY <1>1, <1>4, <1>5, <2>1, OrderFacts, PlacedSound
  <2>3. \A p \in OrderIds \ {o} : exchange'[p] = exchange[p] /\ (p \in ghosts' <=> p \in ghosts)
    BY <1>5, OrderFacts
  <2>. QED
    BY <1>2, <1>3, <1>4, <2>1, <2>2, <2>3, OrderFacts, OneOrderSound
<1>6. ASSUME ~ok, UNCHANGED venueVars
      PROVE  OrdersAgree' /\ exchange' \in [OrderIds -> ExchangeRecord] /\ ghosts' \subseteq OrderIds
  <2>1. exchange' = exchange /\ ghosts' = ghosts
    BY <1>6 DEF venueVars
  <2>2. Sound(o, orders[o], tasks[o], b, exchange[o], o \in ghosts)
    BY <1>1, <1>4, <1>6, OrderFacts, PlacedSound
  <2>. QED
    BY <1>2, <1>3, <1>4, <2>1, <2>2, OrderFacts, OneOrderSound
<1>. QED
  BY <1>1, <1>4, <1>5, <1>6

LEMMA ThreadCancelsAgrees ==
    ASSUME Inv, NEW o \in OrderIds, NEW reply \in CancelReplies, ThreadCancels(o, reply)
    PROVE  /\ OrdersAgree' /\ exchange' \in [OrderIds -> ExchangeRecord]
           /\ replies' \in [OrderIds -> Replies] /\ ghosts' = ghosts
<1>1. /\ replies' = [replies EXCEPT ![o].cancel = reply] /\ Venue!CancelOrder(o, reply)
      /\ orders' = orders /\ tasks' = tasks
  BY DEF ThreadCancels, managerVars
<1>2. ghosts' = ghosts
  BY <1>1 DEF Venue!CancelOrder, Venue!venueVars
<1>3. PICK b : b = replies'[o]
  OBVIOUS
<1>4. /\ b.submit = replies[o].submit /\ b.cancel = reply
      /\ b.reads = replies[o].reads /\ b \in Replies
      /\ replies' \in [OrderIds -> Replies] /\ \A p \in OrderIds \ {o} : replies'[p] = replies[p]
  BY <1>1, <1>3, OrderFacts DEF Replies
<1>5. CASE /\ exchange[o].status = "LIVE"
           /\ exchange' = [exchange EXCEPT ![o].status = "CANCELED"]
  <2>1. PICK x, y : x = exchange[o] /\ y = [x EXCEPT !.status = "CANCELED"]
    OBVIOUS
  <2>2. x \in ExchangeRecord /\ y \in ExchangeRecord
    BY <2>1, OrderFacts DEF ExchangeRecord
  <2>3. /\ y.status = "CANCELED" /\ y.token = x.token /\ y.shares = x.shares
        /\ y.matched = x.matched /\ x.matched <= y.matched /\ x.status = "LIVE"
    BY <1>5, <2>1, <2>2 DEF ExchangeRecord
  <2>4. y.matched <= y.shares
    BY <2>1, <2>3, OrderFacts DEF Sound, RecordSound
  <2>5. Sound(o, orders[o], tasks[o], b, y, o \in ghosts)
    <3>1. /\ Sound(o, orders[o], tasks[o], replies[o], x, o \in ghosts)
          /\ RecordKept(orders[o], tasks[o]) /\ replies[o] \in Replies
      BY <2>1, OrderFacts
    <3>2. y.status \in {"LIVE", "MATCHED", "CANCELED"} /\ y.status # "MATCHED"
      BY <2>3
    <3>. QED
      BY <1>4, <2>2, <2>3, <2>4, <3>1, <3>2, MovedSound
  <2>6. /\ exchange'[o] = y /\ exchange' \in [OrderIds -> ExchangeRecord]
        /\ \A p \in OrderIds \ {o} : exchange'[p] = exchange[p]
    BY <1>5, <2>1, <2>2, OrderFacts
  <2>. QED
    BY <1>1, <1>2, <1>3, <1>4, <2>5, <2>6, OrderFacts, OneOrderSound
<1>6. CASE reply \in {"over", "error"} /\ exchange' = exchange
  <2>1. Sound(o, orders[o], tasks[o], b, exchange[o], o \in ghosts)
    <3>1. Sound(o, orders[o], tasks[o], replies[o], exchange[o], o \in ghosts)
      BY OrderFacts
    <3>. QED
      BY <1>4, <1>6, <3>1 DEF Sound, OrderAgrees, Faithful, ReadsTrue
  <2>. QED
    BY <1>1, <1>2, <1>3, <1>4, <1>6, <2>1, OrderFacts, OneOrderSound
<1>. QED
  BY <1>1, <1>2, <1>4, <1>5, <1>6 DEF Venue!CancelOrder, Venue!venueVars

LEMMA ReadSays ==
    ASSUME Inv, NEW o \in OrderIds, NEW answer \in Venue!GetOrder(o)
    PROVE  answer \subseteq Answers /\ \A e \in answer : e.order = o /\ TrueEvent(e, exchange[o])
<1>1. PICK x, m : x = exchange[o] /\ m = Venue!OrderMessage(Venue!OrderReport(o, exchange[o]))
  OBVIOUS
<1>2. m.id = o /\ m.asset_id = x.token /\ m.status = x.status /\ m.size_matched = x.matched
  BY <1>1 DEF Venue!OrderMessage, Venue!OrderReport
<1>3. x \in ExchangeRecord /\ RecordSound(x, orders[o])
  BY <1>1, OrderFacts DEF Sound
<1>4. answer = {} \/ answer = Venue!BuildOrderEvent(m)
  BY <1>1 DEF Venue!GetOrder
<1>5. CASE answer # {}
  <2>1. /\ m.status \in Venue!MarketOrderStatus
        /\ answer = {[order |-> m.id, token |-> m.asset_id, matched |-> m.size_matched,
                      active |-> m.status \in {"LIVE", "MATCHED"}]}
    BY <1>4, <1>5 DEF Venue!BuildOrderEvent
  <2>2. x.status \in {"LIVE", "MATCHED", "CANCELED"} /\ Known(x) /\ x.token = Token
        /\ x.matched \in Nat
    BY <1>2, <1>3, <2>1 DEF Venue!MarketOrderStatus, ExchangeRecord, Known, RecordSound
  <2>3. ASSUME NEW e \in answer
        PROVE  e \in Answers /\ e.order = o /\ TrueEvent(e, x)
    <3>1. e = [order |-> o, token |-> Token, matched |-> x.matched,
               active |-> x.status \in {"LIVE", "MATCHED"}]
      BY <1>2, <2>1, <2>2
    <3>2. e \in Answers /\ e.order = o
      <4>1. o \in OrderIds /\ Token \in {Token} /\ x.matched \in Nat
            /\ (x.status \in {"LIVE", "MATCHED"}) \in BOOLEAN
        BY <2>2
      <4>. QED
        BY <3>1, <4>1 DEF Answers, Manager!OrderEvents
    <3>3. e.matched <= x.matched /\ (~e.active => x.status = "CANCELED")
      <4>1. e.matched = x.matched /\ (e.active <=> x.status \in {"LIVE", "MATCHED"})
        BY <3>1
      <4>. QED
        BY <2>2, <4>1
    <3>. QED
      BY <2>2, <3>2, <3>3 DEF TrueEvent
  <2>. QED
    BY <1>1, <2>3
<1>. QED
  BY <1>5

LEMMA ThreadReadsAgrees ==
    ASSUME Inv, NEW o \in OrderIds, NEW answer, ThreadReads(o, answer)
    PROVE  OrdersAgree' /\ replies' \in [OrderIds -> Replies]
<1>1. /\ replies' = [replies EXCEPT ![o].reads = Append(@, answer)] /\ answer \in Venue!GetOrder(o)
      /\ orders' = orders /\ tasks' = tasks /\ exchange' = exchange /\ ghosts' = ghosts
  BY DEF ThreadReads, managerVars, venueVars
<1>2. PICK R, s, b : R = replies[o].reads /\ s = Append(R, answer) /\ b = replies'[o]
  OBVIOUS
<1>3. R \in Seq(SUBSET Answers) /\ answer \in SUBSET Answers
  BY <1>1, <1>2, ReadSays, OrderFacts DEF Replies
<1>4. s \in Seq(SUBSET Answers) /\ \A i \in 1..Len(s) : s[i] = answer \/ (i \in 1..Len(R) /\ s[i] = R[i])
  <2>. DEFINE T == SUBSET Answers
  <2>1. R \in Seq(T) /\ answer \in T
    BY <1>3
  <2>. HIDE DEF T
  <2>2. s \in Seq(T) /\ \A i \in 1..Len(s) : s[i] = answer \/ (i \in 1..Len(R) /\ s[i] = R[i])
    BY <1>2, <2>1
  <2>. QED
    BY <2>2 DEF T
<1>5. /\ b.submit = replies[o].submit /\ b.cancel = replies[o].cancel
      /\ b.reads = s /\ b \in Replies
      /\ replies' \in [OrderIds -> Replies] /\ \A p \in OrderIds \ {o} : replies'[p] = replies[p]
  BY <1>1, <1>2, <1>4, OrderFacts DEF Replies
<1>6. ReadsTrue(o, b, exchange[o])
  <2>1. \A i \in 1..Len(R) : \A e \in R[i] : e.order = o /\ TrueEvent(e, exchange[o])
    BY <1>2, OrderFacts DEF Sound, ReadsTrue
  <2>2. \A e \in answer : e.order = o /\ TrueEvent(e, exchange[o])
    BY <1>1, ReadSays
  <2>. QED
    BY <1>4, <1>5, <2>1, <2>2 DEF ReadsTrue
<1>7. Sound(o, orders[o], tasks[o], b, exchange[o], o \in ghosts)
  BY <1>5, <1>6, OrderFacts, FlagsSound
<1>. QED
  BY <1>1, <1>2, <1>5, <1>7, OrderFacts, OneOrderSound

LEMMA MatchEffects ==
    ASSUME Inv, NEW o \in OrderIds, NEW n \in 1..orders[o].shares, Venue!MatchResting(o, n),
           NEW x, x = exchange[o]
    PROVE  \E y \in ExchangeRecord :
             /\ exchange' = [exchange EXCEPT ![o] = y] /\ y.token = x.token /\ y.shares = x.shares
             /\ y.matched = x.matched + n /\ y.matched <= y.shares /\ x.status = "LIVE"
             /\ y.status \in {"LIVE", "MATCHED"} /\ (y.status = "MATCHED" => y.matched = y.shares)
             /\ Venue!Trade(o, y, MakerDeal(o, n, "MATCHED")) /\ n \in Nat \ {0}
             /\ UNCHANGED <<link, drops, ghosts>>
<1>1. PICK s, y : s = (IF x.matched + n = x.shares THEN "MATCHED" ELSE "LIVE")
                  /\ y = [x EXCEPT !.matched = x.matched + n, !.status = s]
  OBVIOUS
<1>2. x \in ExchangeRecord /\ x.token = Token /\ x.shares = orders[o].shares /\ x.status = "LIVE"
      /\ x.matched \in Nat /\ x.shares \in Nat
  <2>1. x \in ExchangeRecord /\ RecordSound(x, orders[o])
    BY OrderFacts DEF Sound
  <2>2. x.status = "LIVE"
    BY DEF Venue!MatchResting
  <2>. QED
    BY <2>1, <2>2 DEF RecordSound, Known, ExchangeRecord
<1>3. n \in 1..(x.shares - x.matched)
  BY DEF Venue!MatchResting
<1>4. Venue!Trade(o, y, MakerDeal(o, n, "MATCHED")) /\ UNCHANGED <<link, drops, ghosts>>
  BY <1>1, <1>2, Zenon DEF Venue!MatchResting, MakerDeal
<1>5. n \in Nat \ {0} /\ x.matched + n \in Nat /\ x.matched + n <= x.shares
  BY <1>2, <1>3
<1>6. y \in ExchangeRecord
  BY <1>1, <1>2, <1>5 DEF ExchangeRecord
<1>7. y.token = x.token /\ y.shares = x.shares /\ y.matched = x.matched + n /\ y.status = s
  BY <1>1, <1>2 DEF ExchangeRecord
<1>8. exchange' = [exchange EXCEPT ![o] = y]
  BY <1>4 DEF Venue!Trade
<1>. QED
  BY <1>1, <1>2, <1>4, <1>5, <1>6, <1>7, <1>8

LEMMA MatchAgrees ==
    ASSUME Inv, NEW o \in OrderIds, NEW n \in 1..orders[o].shares,
           VenueMoves(Venue!MatchResting(o, n))
    PROVE  OrdersAgree' /\ exchange' \in [OrderIds -> ExchangeRecord]
<1>1. Venue!MatchResting(o, n) /\ orders' = orders /\ tasks' = tasks /\ replies' = replies
  BY DEF VenueMoves, managerVars
<1>2. PICK x : x = exchange[o]
  OBVIOUS
<1>3. PICK y \in ExchangeRecord :
        /\ exchange' = [exchange EXCEPT ![o] = y] /\ y.token = x.token /\ y.shares = x.shares
        /\ y.matched = x.matched + n /\ y.matched <= y.shares /\ x.status = "LIVE"
        /\ y.status \in {"LIVE", "MATCHED"} /\ (y.status = "MATCHED" => y.matched = y.shares)
        /\ n \in Nat \ {0} /\ UNCHANGED <<link, drops, ghosts>>
  BY <1>1, <1>2, MatchEffects
<1>4. x \in ExchangeRecord /\ x.matched \in Nat /\ x.matched <= y.matched
  BY <1>2, <1>3, OrderFacts DEF ExchangeRecord
<1>5. replies[o].cancel # "canceled"
  BY <1>2, <1>3, OrderFacts DEF Sound, OrderAgrees
<1>6. Sound(o, orders[o], tasks[o], replies[o], y, o \in ghosts)
  BY <1>2, <1>3, <1>4, <1>5, OrderFacts, MovedSound
<1>7. /\ exchange'[o] = y /\ exchange' \in [OrderIds -> ExchangeRecord]
      /\ \A p \in OrderIds \ {o} : exchange'[p] = exchange[p]
  BY <1>3, OrderFacts
<1>. QED
  BY <1>1, <1>3, <1>6, <1>7, OrderFacts, OneOrderSound

LEMMA NothingToOrders ==
    ASSUME Inv, UNCHANGED <<orders, tasks, exchange, ghosts, replies>>
    PROVE  OrdersAgree'
  BY OrderFacts DEF OrdersAgree, Sound

OrdersKept ==
    /\ OrdersAgree' /\ exchange' \in [OrderIds -> ExchangeRecord]
    /\ replies' \in [OrderIds -> Replies] /\ ghosts' \subseteq OrderIds

LEMMA OrdersAgreeStep ==
    ASSUME Inv, [Next]_vars
    PROVE  OrdersKept
<1>0. /\ exchange \in [OrderIds -> ExchangeRecord] /\ replies \in [OrderIds -> Replies]
      /\ ghosts \subseteq OrderIds
  BY DEF Inv, VenueTypes
<1>1. ASSUME NEW o \in OrderIds, NEW n \in OrderSizes, NEW role, StartOrder(o, n, role)
      PROVE  OrdersKept
  BY <1>0, <1>1, StartOrderAgrees DEF StartOrder, venueVars, OrdersKept
<1>2. ASSUME NEW o \in OrderIds, ReplaceOrder(o)
      PROVE  OrdersKept
  BY <1>0, <1>2, ReplaceOrderAgrees DEF ReplaceOrder, venueVars, OrdersKept
<1>3. ASSUME NEW o \in OrderIds, ThreadSubmits(o)
      PROVE  OrdersKept
  BY <1>3, ThreadSubmitsAgrees DEF OrdersKept
<1>4. ASSUME NEW o \in OrderIds, SubmitReturns(o)
      PROVE  OrdersKept
  <2>1. UNCHANGED <<exchange, ghosts>> /\ replies' = [replies EXCEPT ![o].submit = "none"]
    BY <1>4 DEF SubmitReturns, venueVars
  <2>2. replies' \in [OrderIds -> Replies]
    BY <1>0, <2>1 DEF Replies
  <2>. QED
    BY <1>0, <1>4, <2>1, <2>2, SubmitReturnsAgrees DEF OrdersKept
<1>5. ASSUME NEW o \in OrderIds, NEW reply \in CancelReplies, ThreadCancels(o, reply)
      PROVE  OrdersKept
  BY <1>0, <1>5, ThreadCancelsAgrees DEF OrdersKept
<1>6. ASSUME NEW o \in OrderIds, CancelReturns(o)
      PROVE  OrdersKept
  <2>1. UNCHANGED <<exchange, ghosts>> /\ replies' = [replies EXCEPT ![o].cancel = "none"]
    BY <1>6 DEF CancelReturns, venueVars
  <2>2. replies' \in [OrderIds -> Replies]
    BY <1>0, <2>1 DEF Replies
  <2>. QED
    BY <1>0, <1>6, <2>1, <2>2, CancelReturnsAgrees DEF OrdersKept
<1>7. ASSUME NEW o \in OrderIds, NEW answer, ThreadReads(o, answer)
      PROVE  OrdersKept
  BY <1>0, <1>7, ThreadReadsAgrees DEF ThreadReads, venueVars, OrdersKept
<1>8. ASSUME NEW o \in OrderIds, ReadReturns(o)
      PROVE  OrdersKept
  BY <1>0, <1>8, ReadReturnsAgrees DEF ReadReturns, venueVars, OrdersKept
<1>9. CASE MarketOrderLoop
  BY <1>0, <1>9, OrderLoopAgrees DEF MarketOrderLoop, OrdersKept
<1>10. CASE MarketTradeLoop
  <2>1. PICK e \in Ledger!TradeEvents : Manager!HandleTradeEvent(e)
    BY <1>10, TradeLoopHandles
  <2>2. UNCHANGED <<orders, tasks, exchange, ghosts, replies>>
    BY <1>10, <2>1 DEF MarketTradeLoop, Manager!HandleTradeEvent
  <2>. QED
    BY <1>0, <2>2, NothingToOrders DEF OrdersKept
<1>11. ASSUME NEW o \in OrderIds, NEW n \in 1..orders[o].shares,
              VenueMoves(Venue!MatchResting(o, n))
       PROVE  OrdersKept
  BY <1>0, <1>11, MatchAgrees DEF VenueMoves, Venue!MatchResting, OrdersKept
<1>12. ASSUME NEW d, VenueMoves(Venue!Settle(d))
       PROVE  OrdersKept
  <2>1. UNCHANGED <<orders, tasks, exchange, ghosts, replies>>
    BY <1>12 DEF VenueMoves, Venue!Settle, managerVars
  <2>. QED
    BY <1>0, <2>1, NothingToOrders DEF OrdersKept
<1>13. CASE VenueMoves(Venue!Connect) \/ VenueMoves(Venue!Drop)
  <2>1. UNCHANGED <<orders, tasks, exchange, ghosts, replies>>
    BY <1>13 DEF VenueMoves, Venue!Connect, Venue!Drop, managerVars
  <2>. QED
    BY <1>0, <2>1, NothingToOrders DEF OrdersKept
<1>14. CASE UNCHANGED vars
  <2>1. UNCHANGED <<orders, tasks, exchange, ghosts, replies>>
    BY <1>14 DEF vars, managerVars, venueVars
  <2>. QED
    BY <1>0, <2>1, NothingToOrders DEF OrdersKept
<1>15. CASE Next
  BY <1>1, <1>2, <1>3, <1>4, <1>5, <1>6, <1>7, <1>8, <1>9, <1>10, <1>11, <1>12, <1>13, <1>15, ZenonT(60)
     DEF Next
<1>. QED
  BY <1>14, <1>15

-----------------------------------------------------------------------------
(* What a step is to the exchange: nothing, a new state of an order that   *)
(* is not over, with a trade or without, or a new status of a trade.       *)

Rewritten(o, y) ==
    /\ exchange' = [exchange EXCEPT ![o] = y] /\ y \in ExchangeRecord /\ Known(y)
    /\ exchange[o].status \in {"UNKNOWN", "LIVE"} /\ exchange[o].matched <= y.matched

Placed(o, y) ==
    /\ Rewritten(o, y) /\ y.matched = exchange[o].matched
    /\ deals' = deals /\ Venue!Tell(<<Venue!OrderReport(o, y)>>, <<>>)

Traded(o, y, deal) ==
    /\ Rewritten(o, y) /\ deal \in MakerDeals \cup TakerDeals /\ deal.order = o
    /\ deal.status = "MATCHED" /\ y.matched = exchange[o].matched + deal.shares
    /\ Venue!Trade(o, y, deal)

SettledAs(d, status) ==
    /\ status \in Chain[deals[d].status] /\ exchange' = exchange
    /\ deals' = [deals EXCEPT ![d].status = status]
    /\ Venue!Tell(<<>>, <<Venue!TradeReport(d, status)>>)

ExchangeMoves ==
    \/ \E o \in OrderIds, y \in ExchangeRecord : Placed(o, y)
    \/ \E o \in OrderIds, y \in ExchangeRecord, deal \in MakerDeals \cup TakerDeals : Traded(o, y, deal)
    \/ \E d \in 1..Len(deals), status \in Venue!MarketTradeStatus : SettledAs(d, status)

Received ==
    /\ UNCHANGED <<exchange, deals, lost, drops>> /\ link' \in {link, "up"}
    /\ \/ UNCHANGED <<orderWire, tradeWire>>
       \/ MarketOrderLoop /\ orderWire' = Tail(orderWire) /\ UNCHANGED tradeWire
       \/ MarketTradeLoop /\ tradeWire' = Tail(tradeWire) /\ UNCHANGED orderWire

LEMMA SubmitMoves ==
    ASSUME Inv, NEW o \in OrderIds, ThreadSubmits(o)
    PROVE  /\ UNCHANGED <<link, drops>>
           /\ ExchangeMoves \/ UNCHANGED <<exchange, deals, orderWire, tradeWire, lost>>
<1>. DEFINE n == orders[o].shares
<1>1. PICK ok \in BOOLEAN :
        /\ tasks[o].submit = 1 /\ replies[o].submit = "none"
        /\ Venue!SubmitOrder(o, orders[o].role, Token, n, ok)
  BY SubmitEffects
<1>2. ~Known(exchange[o]) /\ exchange[o].matched = 0 /\ n \in OrderSizes /\ n \in Nat
  <2>1. Sound(o, orders[o], tasks[o], replies[o], exchange[o], o \in ghosts)
    BY OrderFacts
  <2>2. ~Known(exchange[o]) /\ n \in OrderSizes
    BY <1>1, <2>1 DEF Sound, OrderAgrees
  <2>. QED
    BY <2>1, <2>2, QuantityAssumption DEF Sound, RecordSound
<1>. HIDE DEF n
<1>3. CASE Venue!Rest(o, Token, n) /\ UNCHANGED <<link, drops>>
  <2>1. PICK y : y = [status |-> "LIVE", token |-> Token, shares |-> n, matched |-> 0]
    OBVIOUS
  <2>2. /\ exchange' = [exchange EXCEPT ![o] = y] /\ deals' = deals
        /\ Venue!Tell(<<Venue!OrderReport(o, y)>>, <<>>)
    BY <1>3, <2>1 DEF Venue!Rest
  <2>3. y \in ExchangeRecord /\ Known(y) /\ y.matched = 0
    BY <1>2, <2>1 DEF ExchangeRecord, Known
  <2>4. Placed(o, y)
    BY <1>2, <2>2, <2>3 DEF Placed, Rewritten, Known
  <2>. QED
    BY <1>3, <2>3, <2>4 DEF ExchangeMoves
<1>4. ASSUME NEW fill \in TakerFills, Venue!FillOnArrival(o, Token, n, fill)
      PROVE  ExchangeMoves
  <2>1. PICK y, deal : /\ y = [status |-> "MATCHED", token |-> Token, shares |-> n, matched |-> n]
                       /\ deal = TakerDeal(o, n, "MATCHED", fill)
    OBVIOUS
  <2>2. y \in ExchangeRecord /\ Known(y) /\ y.matched = n
    BY <1>2, <2>1 DEF ExchangeRecord, Known
  <2>3. deal \in TakerDeals /\ deal.order = o /\ deal.status = "MATCHED" /\ deal.shares = n
    <3>1. deal.order = o /\ deal.status = "MATCHED" /\ deal.shares = n /\ deal.parts = fill.parts
      BY <2>1 DEF TakerDeal
    <3>2. Venue!Total(Venue!PartShares(fill.parts)) \in {0, n}
      BY <1>4 DEF Venue!FillOnArrival
    <3>3. deal \in FilledOnArrival
      BY <1>2, <2>1 DEF FilledOnArrival, Venue!MarketTradeStatus
    <3>. QED
      BY <3>1, <3>2, <3>3 DEF TakerDeals
  <2>4. Venue!Trade(o, y, deal)
    <3>1. PICK paid : paid = [k \in DOMAIN fill.parts |-> fill.parts[k].matched_amount *
                       (IF fill.parts[k].asset_id = Token THEN fill.parts[k].price
                        ELSE One - fill.parts[k].price)]
      OBVIOUS
    <3>2. Venue!Trade(o, y,
             [order |-> o, role |-> "TAKER", status |-> "MATCHED", shares |-> n,
              amount |-> IF fill.parts = <<>> THEN n * fill.price ELSE Venue!Total(paid),
              asset_id |-> Token, size |-> n, price |-> fill.price, parts |-> fill.parts])
      BY <1>4, <2>1, <3>1 DEF Venue!FillOnArrival
    <3>3. paid = Venue!PartMoney(fill.parts, Token)
      BY <3>1 DEF Venue!PartMoney, Venue!SubPrice
    <3>. QED
      BY <2>1, <3>2, <3>3 DEF TakerDeal
  <2>5. exchange' = [exchange EXCEPT ![o] = y]
    BY <2>4 DEF Venue!Trade
  <2>6. Traded(o, y, deal)
    BY <1>2, <2>2, <2>3, <2>4, <2>5 DEF Traded, Rewritten, Known
  <2>. QED
    BY <2>2, <2>3, <2>6 DEF ExchangeMoves
<1>5. \/ Venue!Rest(o, Token, n) /\ UNCHANGED <<link, drops>>
      \/ (\E fill \in TakerFills : Venue!FillOnArrival(o, Token, n, fill)) /\ UNCHANGED <<link, drops>>
      \/ UNCHANGED Venue!venueVars
  BY <1>1 DEF Venue!SubmitOrder
<1>. QED
  BY <1>3, <1>4, <1>5 DEF Venue!venueVars

LEMMA CancelMoves ==
    ASSUME Inv, NEW o \in OrderIds, NEW reply \in CancelReplies, ThreadCancels(o, reply)
    PROVE  /\ UNCHANGED <<link, drops>>
           /\ ExchangeMoves \/ UNCHANGED <<exchange, deals, orderWire, tradeWire, lost>>
<1>1. Venue!CancelOrder(o, reply)
  BY DEF ThreadCancels
<1>2. CASE /\ exchange[o].status = "LIVE"
           /\ exchange' = [exchange EXCEPT ![o].status = "CANCELED"]
           /\ Venue!Tell(<<Venue!OrderReport(o, exchange'[o])>>, <<>>)
           /\ UNCHANGED <<deals, link, drops, ghosts>>
  <2>1. PICK y : y = [exchange[o] EXCEPT !.status = "CANCELED"]
    OBVIOUS
  <2>2. y \in ExchangeRecord /\ Known(y) /\ y.matched = exchange[o].matched /\ y.matched \in Nat
    BY <2>1, OrderFacts DEF ExchangeRecord, Known
  <2>3. exchange' = [exchange EXCEPT ![o] = y] /\ exchange'[o] = y
    BY <1>2, <2>1, OrderFacts
  <2>4. exchange[o].matched <= y.matched
    BY <2>2
  <2>5. Rewritten(o, y)
    BY <1>2, <2>2, <2>3, <2>4 DEF Rewritten
  <2>6. Placed(o, y)
    BY <1>2, <2>2, <2>3, <2>5 DEF Placed
  <2>. QED
    BY <1>2, <2>2, <2>6 DEF ExchangeMoves
<1>. QED
  BY <1>1, <1>2 DEF Venue!CancelOrder, Venue!venueVars

LEMMA MatchMoves ==
    ASSUME Inv, NEW o \in OrderIds, NEW n \in 1..orders[o].shares, Venue!MatchResting(o, n)
    PROVE  UNCHANGED <<link, drops>> /\ ExchangeMoves
<1>1. PICK y \in ExchangeRecord :
        /\ exchange' = [exchange EXCEPT ![o] = y]
        /\ y.matched = exchange[o].matched + n /\ exchange[o].status = "LIVE"
        /\ y.status \in {"LIVE", "MATCHED"}
        /\ Venue!Trade(o, y, MakerDeal(o, n, "MATCHED")) /\ n \in Nat \ {0}
        /\ UNCHANGED <<link, drops, ghosts>>
  BY MatchEffects
<1>2. PICK deal : deal = MakerDeal(o, n, "MATCHED")
  OBVIOUS
<1>3. deal \in MakerDeals
  BY <1>1, <1>2 DEF MakerDeals, Venue!MarketTradeStatus
<1>4. deal.order = o /\ deal.status = "MATCHED" /\ deal.shares = n
  BY <1>2 DEF MakerDeal
<1>5. Known(y) /\ exchange[o].matched \in Nat /\ exchange[o].matched <= y.matched
  BY <1>1, OrderFacts DEF Known, ExchangeRecord
<1>6. Traded(o, y, deal)
  BY <1>1, <1>2, <1>3, <1>4, <1>5 DEF Traded, Rewritten
<1>. QED
  BY <1>1, <1>3, <1>6 DEF ExchangeMoves

LEMMA SettleMoves ==
    ASSUME Inv, NEW d \in 1..Len(deals), Venue!Settle(d)
    PROVE  UNCHANGED <<link, drops>> /\ ExchangeMoves
<1>1. PICK status \in Chain[deals[d].status] :
        /\ deals' = [deals EXCEPT ![d].status = status]
        /\ Venue!Tell(<<>>, <<Venue!TradeReport(d, status)>>)
  BY DEF Venue!Settle
<1>2. UNCHANGED <<exchange, link, drops>>
  BY DEF Venue!Settle
<1>3. deals[d] \in MakerDeals \cup TakerDeals
  BY DEF Inv, DealsSound
<1>4. status \in Venue!MarketTradeStatus
  <2>1. deals[d].status \in Venue!MarketTradeStatus
    BY <1>3, DealFacts
  <2>. QED
    BY <1>1, <2>1, ChainAssumption
<1>. QED
  BY <1>1, <1>2, <1>4 DEF ExchangeMoves, SettledAs

LEMMA VenueSteps ==
    ASSUME Inv, [Next]_vars
    PROVE  \/ Received
           \/ UNCHANGED <<link, drops>> /\ ExchangeMoves
           \/ Venue!Drop
<1>1. ASSUME UNCHANGED venueVars
      PROVE  Received
  BY <1>1 DEF venueVars, Received
<1>2. ASSUME UNCHANGED <<exchange, deals, orderWire, tradeWire, lost, link, drops>>
      PROVE  Received
  BY <1>2 DEF Received
<1>3. ASSUME NEW o \in OrderIds, NEW n, NEW role, StartOrder(o, n, role)
      PROVE  Received
  BY <1>1, <1>3 DEF StartOrder
<1>4. ASSUME NEW o \in OrderIds, ReplaceOrder(o) \/ SubmitReturns(o) \/ CancelReturns(o)
      PROVE  Received
  BY <1>1, <1>4 DEF ReplaceOrder, SubmitReturns, CancelReturns
<1>5. ASSUME NEW o \in OrderIds, NEW answer, ThreadReads(o, answer)
      PROVE  Received
  BY <1>1, <1>5 DEF ThreadReads
<1>6. ASSUME NEW o \in OrderIds, ReadReturns(o)
      PROVE  Received
  BY <1>1, <1>6, ReadReturnsOne
<1>7. ASSUME MarketOrderLoop
      PROVE  Received
  BY <1>7 DEF MarketOrderLoop, Received
<1>8. ASSUME MarketTradeLoop
      PROVE  Received
  BY <1>8 DEF MarketTradeLoop, Received
<1>9. ASSUME VenueMoves(Venue!Connect)
      PROVE  Received
  BY <1>9 DEF VenueMoves, Venue!Connect, Received
<1>10. ASSUME UNCHANGED vars
       PROVE  Received
  BY <1>1, <1>10 DEF vars
<1>11. ASSUME NEW o \in OrderIds, ThreadSubmits(o)
       PROVE  Received \/ (UNCHANGED <<link, drops>> /\ ExchangeMoves)
  BY <1>2, <1>11, SubmitMoves
<1>12. ASSUME NEW o \in OrderIds, NEW reply \in CancelReplies, ThreadCancels(o, reply)
       PROVE  Received \/ (UNCHANGED <<link, drops>> /\ ExchangeMoves)
  BY <1>2, <1>12, CancelMoves
<1>13. ASSUME NEW o \in OrderIds, NEW n \in 1..orders[o].shares,
              VenueMoves(Venue!MatchResting(o, n))
       PROVE  UNCHANGED <<link, drops>> /\ ExchangeMoves
  BY <1>13, MatchMoves DEF VenueMoves
<1>14. ASSUME NEW d \in 1..Len(deals), VenueMoves(Venue!Settle(d))
       PROVE  UNCHANGED <<link, drops>> /\ ExchangeMoves
  BY <1>14, SettleMoves DEF VenueMoves
<1>15. ASSUME VenueMoves(Venue!Drop)
       PROVE  Venue!Drop
  BY <1>15 DEF VenueMoves
<1>16. CASE Next
  BY <1>3, <1>4, <1>5, <1>6, <1>7, <1>8, <1>9, <1>11, <1>12, <1>13, <1>14, <1>15, <1>16, ZenonT(60)
     DEF Next
<1>. QED
  BY <1>10, <1>16

LEMMA KindsOf ==
    ASSUME NEW reports
    PROVE  Venue!Kinds(reports) \subseteq {"order", "success", "failure"}
  BY DEF Venue!Kinds, Venue!Kind

LEMMA TellLoses ==
    ASSUME NEW s, NEW t, Venue!Tell(s, t), lost \subseteq {"order", "success", "failure"}
    PROVE  lost' \subseteq {"order", "success", "failure"}
  BY KindsOf DEF Venue!Tell

LEMMA VenueTypesStep ==
    ASSUME Inv, [Next]_vars
    PROVE  VenueTypes'
<1>1. /\ lost \subseteq {"order", "success", "failure"} /\ drops \in 0..MaxDrops
      /\ link \in {"connecting", "up"} /\ MaxDrops \in Nat
  BY QuantityAssumption DEF Inv, VenueTypes
<1>2. CASE Received
  BY <1>1, <1>2, OrdersAgreeStep DEF Received, OrdersKept, VenueTypes
<1>3. CASE UNCHANGED <<link, drops>> /\ ExchangeMoves
  <2>1. lost' \subseteq {"order", "success", "failure"}
    BY <1>1, <1>3, TellLoses DEF ExchangeMoves, Placed, Traded, SettledAs, Venue!Trade
  <2>. QED
    BY <1>1, <1>3, <2>1, OrdersAgreeStep DEF OrdersKept, VenueTypes
<1>4. CASE Venue!Drop
  <2>1. lost' \subseteq {"order", "success", "failure"}
    BY <1>1, <1>4, KindsOf DEF Venue!Drop
  <2>2. drops' \in 0..MaxDrops /\ link' = "connecting"
    BY <1>1, <1>4 DEF Venue!Drop
  <2>. QED
    BY <2>1, <2>2, OrdersAgreeStep DEF OrdersKept, VenueTypes
<1>. QED
  BY <1>2, <1>3, <1>4, VenueSteps

\* Trades are of orders the exchange knows, and stay what they are.
LEMMA DealsSoundStep ==
    ASSUME Inv, [Next]_vars
    PROVE  DealsSound'
<1>. DEFINE D == MakerDeals \cup TakerDeals
<1>1. deals \in Seq(D) /\ Len(deals) <= MaxDeals /\ exchange \in [OrderIds -> ExchangeRecord]
      /\ \A d \in 1..Len(deals) : deals[d].order \in OrderIds /\ Known(exchange[deals[d].order])
  BY DealFacts DEF Inv, DealsSound, VenueTypes
<1>2. CASE UNCHANGED <<exchange, deals>>
  BY <1>2 DEF Inv, DealsSound
<1>3. ASSUME NEW o \in OrderIds, NEW y, Rewritten(o, y)
      PROVE  Known(exchange'[o]) /\ \A p \in OrderIds : Known(exchange[p]) => Known(exchange'[p])
  BY <1>1, <1>3 DEF Rewritten
<1>4. ASSUME NEW o \in OrderIds, NEW y, Placed(o, y)
      PROVE  DealsSound'
  <2>1. deals' = deals /\ Rewritten(o, y)
    BY <1>4 DEF Placed
  <2>. QED
    BY <1>1, <1>3, <2>1 DEF DealsSound
<1>5. ASSUME NEW o \in OrderIds, NEW y, NEW deal \in D, Traded(o, y, deal)
      PROVE  DealsSound'
  <2>1. /\ deals' = Append(deals, deal) /\ Len(deals) < MaxDeals /\ Rewritten(o, y) /\ deal.order = o
    BY <1>5 DEF Traded, Venue!Trade
  <2>. HIDE DEF D
  <2>2. deals' \in Seq(D) /\ Len(deals') = Len(deals) + 1
        /\ \A d \in 1..Len(deals') : deals'[d] = deal \/ (d \in 1..Len(deals) /\ deals'[d] = deals[d])
    BY <1>1, <2>1
  <2>3. Len(deals') <= MaxDeals
    BY <1>1, <2>1, <2>2, QuantityAssumption
  <2>4. \A d \in 1..Len(deals') : Known(exchange'[deals'[d].order])
    BY <1>1, <1>3, <2>1, <2>2
  <2>. QED
    BY <2>2, <2>3, <2>4 DEF DealsSound, D
<1>6. ASSUME NEW d \in 1..Len(deals), NEW status \in Venue!MarketTradeStatus, SettledAs(d, status)
      PROVE  DealsSound'
  <2>1. PICK new : new = [deals[d] EXCEPT !.status = status]
    OBVIOUS
  <2>2. new \in D /\ new.order = deals[d].order
    <3>1. deals[d] \in D
      BY <1>1
    <3>. QED
      BY <2>1, <3>1, DealSettled
  <2>3. deals' = [deals EXCEPT ![d] = new] /\ exchange' = exchange
    BY <1>6, <2>1 DEF SettledAs
  <2>. HIDE DEF D
  <2>4. deals' \in Seq(D) /\ Len(deals') = Len(deals)
        /\ \A c \in 1..Len(deals) : deals'[c] = IF c = d THEN new ELSE deals[c]
    BY <1>1, <2>2, <2>3
  <2>5. \A c \in 1..Len(deals') : Known(exchange'[deals'[c].order])
    BY <1>1, <2>2, <2>3, <2>4
  <2>. QED
    BY <1>1, <2>4, <2>5 DEF DealsSound, D
<1>7. ASSUME ExchangeMoves
      PROVE  DealsSound'
  BY <1>4, <1>5, <1>6, <1>7 DEF ExchangeMoves
<1>. QED
  BY <1>2, <1>7, VenueSteps DEF Received, Venue!Drop

-----------------------------------------------------------------------------
(* The wires.                                                              *)

\* What is left of a wire, or what it carries when one report is added.
LEMMA WireShapes ==
    ASSUME NEW S, NEW w \in Seq(S), NEW x \in S
    PROVE  /\ w \o <<>> = w
           /\ w \o <<x>> \in Seq(S) /\ Len(w \o <<x>>) = Len(w) + 1
           /\ \A n \in 1..Len(w) : (w \o <<x>>)[n] = w[n]
           /\ (w \o <<x>>)[Len(w) + 1] = x
  OBVIOUS

\* A wire v holds reports of the wire w, in their order.
PartOf(v, w) ==
    \E k \in {0, 1} : /\ Len(v) + k <= Len(w)
                      /\ \A n \in 1..Len(v) : v[n] = w[n + k]

LEMMA WireParts ==
    ASSUME NEW S, NEW w \in Seq(S), NEW v,
           v = w \/ (w # <<>> /\ v = Tail(w)) \/ \E m \in 0..Len(w) : v = SubSeq(w, 1, m)
    PROVE  v \in Seq(S) /\ PartOf(v, w)
<1>1. CASE v = w
  <2>1. Len(v) + 0 <= Len(w) /\ \A n \in 1..Len(v) : v[n] = w[n + 0]
    BY <1>1
  <2>. QED
    BY <1>1, <2>1 DEF PartOf
<1>2. CASE w # <<>> /\ v = Tail(w)
  <2>1. v \in Seq(S) /\ Len(v) + 1 <= Len(w) /\ \A n \in 1..Len(v) : v[n] = w[n + 1]
    BY <1>2
  <2>. QED
    BY <2>1 DEF PartOf
<1>3. ASSUME NEW m \in 0..Len(w), v = SubSeq(w, 1, m)
      PROVE  v \in Seq(S) /\ PartOf(v, w)
  <2>1. v \in Seq(S) /\ Len(v) + 0 <= Len(w) /\ \A n \in 1..Len(v) : v[n] = w[n + 0]
    BY <1>3
  <2>. QED
    BY <2>1 DEF PartOf
<1>. QED
  BY <1>1, <1>2, <1>3

LEMMA SeqOfMore ==
    ASSUME NEW S, NEW T, NEW w \in Seq(S), \A x \in S : x \in T
    PROVE  w \in Seq(T)
  OBVIOUS

\* What an exchange's move leaves true of a report.
LEMMA ReportsStayTrue ==
    ASSUME Inv, [Next]_vars, NEW m \in OrderReports, TrueReport(m)
    PROVE  TrueReport(m)'
<1>1. /\ m.id \in OrderIds /\ Known(exchange[m.id]) /\ m.matched \in Nat
      /\ exchange \in [OrderIds -> ExchangeRecord] /\ exchange[m.id] \in ExchangeRecord
  BY DEF OrderReports, TrueReport, Inv, VenueTypes
<1>2. ASSUME NEW o \in OrderIds, NEW y, Rewritten(o, y)
      PROVE  TrueReport(m)'
  <2>1. CASE m.id # o
    <3>1. exchange'[m.id] = exchange[m.id]
      BY <1>1, <1>2, <2>1 DEF Rewritten
    <3>. QED
      BY <3>1 DEF TrueReport
  <2>2. CASE m.id = o
    <3>1. exchange'[o] = y /\ y.matched \in Nat /\ exchange[o].matched \in Nat /\ Known(y)
          /\ exchange[o].status \in {"UNKNOWN", "LIVE"} /\ exchange[o].matched <= y.matched
      BY <1>1, <1>2, <2>2 DEF Rewritten, ExchangeRecord
    <3>2. m.matched <= exchange[o].matched /\ (m.status # "LIVE" => exchange[o].status = m.status)
      BY <2>2 DEF TrueReport
    <3>3. exchange[o].status = "LIVE"
      BY <1>1, <2>2, <3>1 DEF Known
    <3>4. m.status = "LIVE" /\ m.matched <= y.matched
      BY <1>1, <3>1, <3>2, <3>3
    <3>. QED
      BY <2>2, <3>1, <3>4 DEF TrueReport
  <2>. QED
    BY <2>1, <2>2
<1>3. CASE exchange' = exchange
  BY <1>3 DEF TrueReport
<1>4. ASSUME ExchangeMoves
      PROVE  TrueReport(m)'
  BY <1>2, <1>3, <1>4 DEF ExchangeMoves, Placed, Traded, SettledAs
<1>. QED
  BY <1>3, <1>4, VenueSteps DEF Received, Venue!Drop

\* The report of an order in its new state.
LEMMA NewReport ==
    ASSUME Inv, NEW o \in OrderIds, NEW y, Rewritten(o, y), NEW m, m = Venue!OrderReport(o, y)
    PROVE  m \in OrderReports /\ TrueReport(m)'
<1>1. y \in ExchangeRecord /\ Known(y) /\ exchange'[o] = y
  BY DEF Rewritten, Inv, VenueTypes
<1>2. m.id = o /\ m.status = y.status /\ m.matched = y.matched
  BY DEF Venue!OrderReport
<1>3. y.status \in {"LIVE", "MATCHED", "CANCELED"} /\ y.matched \in Nat
  BY <1>1 DEF ExchangeRecord, Known
<1>4. m \in OrderReports
  BY <1>3 DEF Venue!OrderReport, OrderReports
<1>. QED
  BY <1>1, <1>2, <1>3, <1>4 DEF TrueReport

LEMMA OrderWireSteps ==
    ASSUME Inv, [Next]_vars
    PROVE  \/ orderWire' = orderWire \/ (orderWire # <<>> /\ orderWire' = Tail(orderWire))
           \/ \E n \in 0..Len(orderWire) : orderWire' = SubSeq(orderWire, 1, n)
           \/ \E m \in OrderReports : TrueReport(m)' /\ orderWire' = orderWire \o <<m>>
<1>1. orderWire \o <<>> = orderWire
  BY DEF Inv, Agreement, OrderWireTrue
<1>2. CASE Received
  BY <1>2 DEF Received, MarketOrderLoop
<1>3. CASE Venue!Drop
  BY <1>3 DEF Venue!Drop
<1>4. ASSUME NEW o \in OrderIds, NEW y, Rewritten(o, y), NEW t,
             Venue!Tell(<<Venue!OrderReport(o, y)>>, t)
      PROVE  \/ orderWire' = orderWire
             \/ \E m \in OrderReports : TrueReport(m)' /\ orderWire' = orderWire \o <<m>>
  BY <1>4, NewReport DEF Venue!Tell
<1>5. ASSUME NEW t, Venue!Tell(<<>>, t)
      PROVE  orderWire' = orderWire
  BY <1>1, <1>5 DEF Venue!Tell
<1>6. ASSUME ExchangeMoves
      PROVE  \/ orderWire' = orderWire
             \/ \E m \in OrderReports : TrueReport(m)' /\ orderWire' = orderWire \o <<m>>
  BY <1>4, <1>5, <1>6, ZenonT(30) DEF ExchangeMoves, Placed, Traded, SettledAs, Venue!Trade
<1>. QED
  BY <1>2, <1>3, <1>6, VenueSteps

LEMMA OrderWireTrueStep ==
    ASSUME Inv, [Next]_vars
    PROVE  OrderWireTrue'
<1>. DEFINE S == {m \in OrderReports : TrueReport(m)}
            T == {m \in OrderReports : TrueReport(m)'}
<1>1. orderWire \in Seq(S) /\ \A m \in S : m \in T
  BY ReportsStayTrue DEF Inv, Agreement, OrderWireTrue
<1>2. \A m \in OrderReports : TrueReport(m)' => m \in T
  OBVIOUS
<1>3. OrderWireTrue' <=> orderWire' \in Seq(T)
  BY DEF OrderWireTrue, OrderReports
<1>. HIDE DEF S, T
<1>4. orderWire \in Seq(T)
  BY <1>1, SeqOfMore
<1>5. CASE \/ orderWire' = orderWire \/ (orderWire # <<>> /\ orderWire' = Tail(orderWire))
           \/ \E n \in 0..Len(orderWire) : orderWire' = SubSeq(orderWire, 1, n)
  BY <1>3, <1>4, <1>5, WireParts
<1>6. ASSUME NEW m \in T, orderWire' = orderWire \o <<m>>
      PROVE  OrderWireTrue'
  BY <1>3, <1>4, <1>6, WireShapes
<1>. QED
  BY <1>2, <1>5, <1>6, OrderWireSteps

\* No step takes back the terms of a trade, or its outcome.
DealsKept ==
    /\ Len(deals) <= Len(deals')
    /\ \A d \in 1..Len(deals) :
         /\ deals'[d].order = deals[d].order /\ deals'[d].shares = deals[d].shares
         /\ deals'[d].role = deals[d].role /\ deals'[d].amount = deals[d].amount
         /\ Outcome(deals[d].status) \in Outcomes =>
              Outcome(deals'[d].status) = Outcome(deals[d].status)

TradeReportsTo(n) ==
    [event_type : {"trade"}, id : 1..n, status : Venue!MarketTradeStatus]

LEMMA ChainKeeps ==
    ASSUME NEW was \in Venue!MarketTradeStatus, NEW status \in Chain[was],
           Outcome(was) \in Outcomes
    PROVE  Outcome(status) = Outcome(was)
<1>1. \A final \in {{"MINED", "CONFIRMED"}, {"FAILED"}} : \A s \in final : Chain[s] \subseteq final
  BY ChainAssumption
<1>2. was \in {"MINED", "CONFIRMED"} \/ was \in {"FAILED"}
  BY DEF Outcome, Outcomes
<1>3. CASE was \in {"MINED", "CONFIRMED"}
  <2>1. status \in {"MINED", "CONFIRMED"}
    BY <1>1, <1>3
  <2>. QED
    BY <1>3, <2>1 DEF Outcome
<1>4. CASE was \in {"FAILED"}
  <2>1. status \in {"FAILED"}
    BY <1>1, <1>4
  <2>. QED
    BY <1>4, <2>1 DEF Outcome
<1>. QED
  BY <1>2, <1>3, <1>4

LEMMA TradeWireSteps ==
    ASSUME Inv, [Next]_vars
    PROVE  /\ DealsKept
           /\ \/ /\ deals' = deals
                 /\ \/ tradeWire' = tradeWire \/ (tradeWire # <<>> /\ tradeWire' = Tail(tradeWire))
                    \/ \E n \in 0..Len(tradeWire) : tradeWire' = SubSeq(tradeWire, 1, n)
              \/ \E m \in TradeReportsTo(Len(deals')) :
                   /\ Outcome(m.status) = Outcome(deals'[m.id].status)
                   /\ tradeWire' = tradeWire \/ tradeWire' = tradeWire \o <<m>>
<1>. DEFINE D == MakerDeals \cup TakerDeals
<1>0. deals \in Seq(D) /\ tradeWire \o <<>> = tradeWire /\ \A d \in 1..Len(deals) : deals[d] \in D
  BY DEF Inv, DealsSound, Agreement, TradeWireTrue
<1>1. ASSUME deals' = deals
      PROVE  DealsKept
  BY <1>0, <1>1 DEF DealsKept
<1>2. CASE Received
  BY <1>1, <1>2 DEF Received, MarketTradeLoop
<1>3. CASE Venue!Drop
  BY <1>1, <1>3 DEF Venue!Drop
<1>4. ASSUME NEW o \in OrderIds, NEW y, Placed(o, y)
      PROVE  DealsKept /\ deals' = deals /\ tradeWire' = tradeWire
  BY <1>0, <1>1, <1>4 DEF Placed, Venue!Tell
<1>5. ASSUME NEW o \in OrderIds, NEW y, NEW deal \in D, Traded(o, y, deal)
      PROVE  /\ DealsKept
             /\ \E m \in TradeReportsTo(Len(deals')) :
                   /\ Outcome(m.status) = Outcome(deals'[m.id].status)
                   /\ tradeWire' = tradeWire \/ tradeWire' = tradeWire \o <<m>>
  <2>1. PICK m : m = Venue!TradeReport(Len(deals) + 1, "MATCHED")
    OBVIOUS
  <2>2. deals' = Append(deals, deal) /\ deal.status = "MATCHED"
        /\ (tradeWire' = tradeWire \/ tradeWire' = tradeWire \o <<m>>)
    BY <1>5, <2>1 DEF Traded, Venue!Trade, Venue!Tell
  <2>. HIDE DEF D
  <2>3. Len(deals') = Len(deals) + 1 /\ deals'[Len(deals) + 1] = deal /\ Len(deals) \in Nat
        /\ \A d \in 1..Len(deals) : deals'[d] = deals[d]
    BY <1>0, <1>5, <2>2
  <2>4. DealsKept
    BY <2>3 DEF DealsKept
  <2>5. m.id = Len(deals) + 1 /\ m.status = "MATCHED" /\ m \in TradeReportsTo(Len(deals'))
    <3>1. Len(deals) + 1 \in 1..Len(deals')
      BY <2>3
    <3>. QED
      BY <2>1, <3>1 DEF Venue!TradeReport, TradeReportsTo, Venue!MarketTradeStatus
  <2>. QED
    BY <2>2, <2>3, <2>4, <2>5
<1>6. ASSUME NEW d \in 1..Len(deals), NEW status \in Venue!MarketTradeStatus, SettledAs(d, status)
      PROVE  /\ DealsKept
             /\ \E m \in TradeReportsTo(Len(deals')) :
                   /\ Outcome(m.status) = Outcome(deals'[m.id].status)
                   /\ tradeWire' = tradeWire \/ tradeWire' = tradeWire \o <<m>>
  <2>1. PICK new : new = [deals[d] EXCEPT !.status = status]
    OBVIOUS
  <2>2. PICK m : m = Venue!TradeReport(d, status)
    OBVIOUS
  <2>3. /\ status \in Chain[deals[d].status] /\ deals' = [deals EXCEPT ![d] = new]
        /\ (tradeWire' = tradeWire \/ tradeWire' = tradeWire \o <<m>>)
    BY <1>6, <2>1, <2>2 DEF SettledAs, Venue!Tell
  <2>4. /\ new \in D /\ new.status = status /\ new.order = deals[d].order
        /\ new.role = deals[d].role /\ new.shares = deals[d].shares /\ new.amount = deals[d].amount
    <3>1. deals[d] \in D
      BY <1>0
    <3>. QED
      BY <2>1, <3>1, DealSettled
  <2>5. deals[d].status \in Venue!MarketTradeStatus
    BY <1>0, DealFacts
  <2>. HIDE DEF D
  <2>6. Len(deals') = Len(deals) /\ \A c \in 1..Len(deals) : deals'[c] = IF c = d THEN new ELSE deals[c]
    BY <1>0, <2>3, <2>4
  <2>7. DealsKept
    BY <1>0, <2>3, <2>4, <2>5, <2>6, ChainKeeps DEF DealsKept
  <2>8. m.id = d /\ m.status = status /\ m \in TradeReportsTo(Len(deals'))
    BY <2>2, <2>6 DEF Venue!TradeReport, TradeReportsTo
  <2>. QED
    BY <2>3, <2>4, <2>6, <2>7, <2>8
<1>. HIDE DEF D
<1>7. CASE ExchangeMoves
  <2>1. \/ \E o \in OrderIds, y \in ExchangeRecord : Placed(o, y)
        \/ \E o \in OrderIds, y \in ExchangeRecord, deal \in D : Traded(o, y, deal)
        \/ \E d \in 1..Len(deals), status \in Venue!MarketTradeStatus : SettledAs(d, status)
    BY <1>7 DEF ExchangeMoves, D
  <2>. QED
    BY <1>4, <1>5, <1>6, <2>1, ZenonT(30)
<1>. QED
  BY <1>2, <1>3, <1>7, VenueSteps

LEMMA TradeWireTrueStep ==
    ASSUME Inv, [Next]_vars
    PROVE  TradeWireTrue'
<1>. DEFINE S == TradeReportsTo(Len(deals))
            T == TradeReportsTo(Len(deals'))
            w == tradeWire
            v == tradeWire'
<1>1. /\ w \in Seq(S) /\ Len(deals) \in Nat /\ Len(deals') \in Nat
      /\ \A n \in 1..Len(w) :
           Outcome(w[n].status) \in Outcomes =>
             /\ Outcome(deals[w[n].id].status) = Outcome(w[n].status)
             /\ \A m \in 1..Len(w) : m >= n /\ w[m].id = w[n].id =>
                  Outcome(w[m].status) = Outcome(w[n].status)
  BY DealsSoundStep DEF Inv, DealsSound, Agreement, TradeWireTrue, TradeReportsTo
<1>2. \A n \in 1..Len(w) : w[n] \in S /\ w[n].id \in 1..Len(deals)
  <2>1. \A x \in S : x.id \in 1..Len(deals)
    BY DEF TradeReportsTo
  <2>. HIDE DEF S
  <2>. QED
    BY <1>1, <2>1
<1>3. DealsKept
  BY TradeWireSteps
<1>4. w \in Seq(T)
  <2>1. \A x \in S : x \in T
    BY <1>1, <1>3 DEF DealsKept, TradeReportsTo
  <2>. HIDE DEF S, T
  <2>. QED
    BY <1>1, <2>1, SeqOfMore
<1>5. \A n \in 1..Len(w) :
        Outcome(w[n].status) \in Outcomes => Outcome(deals'[w[n].id].status) = Outcome(w[n].status)
  BY <1>1, <1>2, <1>3 DEF DealsKept
<1>6. ASSUME v \in Seq(T), PartOf(v, w)
      PROVE  TradeWireTrue'
  <2>1. PICK k \in {0, 1} : Len(v) + k <= Len(w) /\ \A n \in 1..Len(v) : v[n] = w[n + k]
    BY <1>6 DEF PartOf
  <2>2. Len(v) \in Nat /\ Len(w) \in Nat /\ \A n \in 1..Len(v) : n + k \in 1..Len(w)
    <3>1. Len(v) \in Nat /\ Len(w) \in Nat
      BY <1>1, <1>6
    <3>. QED
      BY <2>1, <3>1
  <2>3. ASSUME NEW n \in 1..Len(v), Outcome(v[n].status) \in Outcomes
        PROVE  /\ Outcome(deals'[v[n].id].status) = Outcome(v[n].status)
               /\ \A m \in 1..Len(v) : m >= n /\ v[m].id = v[n].id =>
                    Outcome(v[m].status) = Outcome(v[n].status)
    <3>1. v[n] = w[n + k] /\ n + k \in 1..Len(w)
      BY <2>1, <2>2
    <3>2. ASSUME NEW m \in 1..Len(v), m >= n, v[m].id = v[n].id
          PROVE  Outcome(v[m].status) = Outcome(v[n].status)
      <4>1. v[m] = w[m + k] /\ m + k \in 1..Len(w) /\ m + k >= n + k
        BY <2>1, <2>2, <3>2
      <4>. QED
        BY <1>1, <2>3, <3>1, <3>2, <4>1
    <3>. QED
      BY <1>5, <2>3, <3>1, <3>2
  <2>. QED
    BY <1>6, <2>3 DEF TradeWireTrue, TradeReportsTo
<1>7. ASSUME NEW x \in T, Outcome(x.status) = Outcome(deals'[x.id].status), v = w \o <<x>>
      PROVE  TradeWireTrue'
  <2>1. /\ v \in Seq(T) /\ Len(v) = Len(w) + 1 /\ Len(w) \in Nat
        /\ \A n \in 1..Len(w) : v[n] = w[n]
        /\ v[Len(w) + 1] = x
    <3>. HIDE DEF T
    <3>. QED
      BY <1>4, <1>7, WireShapes
  <2>2. ASSUME NEW n \in 1..Len(v), Outcome(v[n].status) \in Outcomes
        PROVE  /\ Outcome(deals'[v[n].id].status) = Outcome(v[n].status)
               /\ \A m \in 1..Len(v) : m >= n /\ v[m].id = v[n].id =>
                    Outcome(v[m].status) = Outcome(v[n].status)
    <3>1. CASE n = Len(w) + 1
      <4>1. v[n] = x /\ \A m \in 1..Len(v) : m >= n => m = n
        BY <2>1, <3>1
      <4>. QED
        BY <1>7, <4>1
    <3>2. CASE n \in 1..Len(w)
      <4>1. v[n] = w[n] /\ Outcome(deals'[v[n].id].status) = Outcome(v[n].status)
        BY <1>5, <2>1, <2>2, <3>2
      <4>2. ASSUME NEW m \in 1..Len(v), m >= n, v[m].id = v[n].id
            PROVE  Outcome(v[m].status) = Outcome(v[n].status)
        <5>1. CASE m \in 1..Len(w)
          <6>1. v[m] = w[m] /\ Outcome(w[n].status) \in Outcomes /\ w[m].id = w[n].id
            BY <2>1, <2>2, <4>1, <4>2, <5>1
          <6>. QED
            BY <1>1, <3>2, <4>1, <4>2, <5>1, <6>1
        <5>2. CASE m = Len(w) + 1
          BY <1>7, <2>1, <4>1, <4>2, <5>2
        <5>. QED
          BY <2>1, <5>1, <5>2
      <4>. QED
        BY <4>1, <4>2
    <3>. QED
      BY <2>1, <3>1, <3>2
  <2>. QED
    BY <2>1, <2>2 DEF TradeWireTrue, TradeReportsTo
<1>8. ASSUME v = w \/ (w # <<>> /\ v = Tail(w)) \/ \E n \in 0..Len(w) : v = SubSeq(w, 1, n)
      PROVE  TradeWireTrue'
  <2>. HIDE DEF T
  <2>1. v \in Seq(T) /\ PartOf(v, w)
    BY <1>4, <1>8, WireParts
  <2>. QED
    BY <1>6, <2>1
<1>. QED
  BY <1>7, <1>8, TradeWireSteps

-----------------------------------------------------------------------------
(* What the manager has of the trades.                                     *)

\* Only the trade loop touches the trades, the positions and what was
\* written off.
LEMMA BooksChange ==
    ASSUME Inv, [Next]_vars
    PROVE  UNCHANGED <<trades, positions, closed>> \/ MarketTradeLoop
<1>1. ASSUME NEW o \in OrderIds, NEW n, NEW role, StartOrder(o, n, role)
      PROVE  UNCHANGED <<trades, positions, closed>>
  BY <1>1 DEF StartOrder, Manager!CreateOrder
<1>2. ASSUME NEW o \in OrderIds, ReplaceOrder(o) \/ SubmitReturns(o) \/ CancelReturns(o)
      PROVE  UNCHANGED <<trades, positions, closed>>
  BY <1>2 DEF ReplaceOrder, SubmitReturns, CancelReturns, Manager!Cancel, Manager!SubmitSuccess,
              Manager!SubmitFailed, Manager!CancelSuccess, Manager!CancelFailed
<1>3. ASSUME NEW o \in OrderIds, ReadReturns(o)
      PROVE  UNCHANGED <<trades, positions, closed>>
  BY <1>3, ReadReturnsOne DEF Manager!SyncFails, Manager!SyncReturns
<1>4. ASSUME MarketOrderLoop
      PROVE  UNCHANGED <<trades, positions, closed>>
  <2>1. PICK m : m = Head(orderWire)
    OBVIOUS
  <2>2. Manager!HandleOrderEvent(EventOf(m))
    BY <1>4, <2>1, OrderLoopHandles
  <2>. QED
    BY <2>2 DEF Manager!HandleOrderEvent
<1>5. ASSUME UNCHANGED managerVars
      PROVE  UNCHANGED <<trades, positions, closed>>
  BY <1>5 DEF managerVars
<1>. QED
  BY <1>1, <1>2, <1>3, <1>4, <1>5, ZenonT(60)
     DEF Next, vars, ThreadSubmits, ThreadCancels, ThreadReads, VenueMoves

\* A report of the trade wire that was there before the step agrees with an
\* outcome if all reports did, and so does a new one.
LEMMA WireKeepsOutcome ==
    ASSUME Inv, [Next]_vars, NEW d \in 1..Len(deals), NEW s \in Outcomes,
           Outcome(deals[d].status) = s,
           \A n \in 1..Len(tradeWire) : tradeWire[n].id = d => Outcome(tradeWire[n].status) = s
    PROVE  /\ d \in 1..Len(deals') /\ Outcome(deals'[d].status) = s
           /\ \A n \in 1..Len(tradeWire') :
                tradeWire'[n].id = d => Outcome(tradeWire'[n].status) = s
<1>. DEFINE w == tradeWire
            v == tradeWire'
            S == TradeReportsTo(Len(deals))
            T == TradeReportsTo(Len(deals'))
<1>1. DealsKept /\ Len(deals) \in Nat /\ Len(deals') \in Nat /\ w \in Seq(S)
  BY TradeWireSteps, DealsSoundStep DEF Inv, DealsSound, Agreement, TradeWireTrue, TradeReportsTo
<1>2. d \in 1..Len(deals') /\ Outcome(deals'[d].status) = s
  BY <1>1 DEF DealsKept
<1>3. ASSUME v = w \/ (w # <<>> /\ v = Tail(w)) \/ \E n \in 0..Len(w) : v = SubSeq(w, 1, n)
      PROVE  \A n \in 1..Len(v) : v[n].id = d => Outcome(v[n].status) = s
  <2>. HIDE DEF S
  <2>1. v \in Seq(S) /\ PartOf(v, w)
    BY <1>1, <1>3, WireParts
  <2>2. PICK k \in {0, 1} : Len(v) + k <= Len(w) /\ \A n \in 1..Len(v) : v[n] = w[n + k]
    BY <2>1 DEF PartOf
  <2>3. \A n \in 1..Len(v) : n + k \in 1..Len(w)
    <3>1. Len(v) \in Nat /\ Len(w) \in Nat
      BY <1>1, <2>1
    <3>. QED
      BY <2>2, <3>1
  <2>. QED
    BY <2>2, <2>3
<1>4. ASSUME NEW x \in T, Outcome(x.status) = Outcome(deals'[x.id].status), v = w \o <<x>>
      PROVE  \A n \in 1..Len(v) : v[n].id = d => Outcome(v[n].status) = s
  <2>1. w \in Seq(T)
    <3>1. \A y \in S : y \in T
      BY <1>1 DEF DealsKept, TradeReportsTo
    <3>. HIDE DEF S, T
    <3>. QED
      BY <1>1, <3>1, SeqOfMore
  <2>2. /\ Len(v) = Len(w) + 1 /\ Len(w) \in Nat
        /\ \A n \in 1..Len(w) : v[n] = w[n]
        /\ v[Len(w) + 1] = x
    <3>. HIDE DEF T
    <3>. QED
      BY <1>4, <2>1, WireShapes
  <2>3. \A n \in 1..Len(v) : n \in 1..Len(w) \/ n = Len(w) + 1
    BY <2>2
  <2>. QED
    BY <1>2, <1>4, <2>2, <2>3
<1>. QED
  BY <1>2, <1>3, <1>4, TradeWireSteps

LEMMA TradesAgreeStep ==
    ASSUME Inv, [Next]_vars
    PROVE  TradesAgree'
<1>0. TradesAgree /\ TradeWireTrue /\ trades \in [1..MaxDeals -> Manager!TradeRecord]
  BY ManagerFacts DEF Inv, Agreement
<1>1. DealsKept
  BY TradeWireSteps
<1>2. ASSUME NEW d \in 1..MaxDeals, trades'[d] = trades[d]
      PROVE  TradeAgrees(d)'
  <2>1. CASE trades[d].status = "UNTRACKED"
    BY <1>2, <2>1 DEF TradeAgrees
  <2>2. CASE trades[d].status # "UNTRACKED"
    <3>. DEFINE t == trades[d]
    <3>1. /\ d \in 1..Len(deals)
          /\ t.order = deals[d].order /\ t.shares = deals[d].shares /\ t.role = deals[d].role
          /\ t.price * t.shares = deals[d].amount
          /\ t.status \in Outcomes =>
               /\ Outcome(deals[d].status) = t.status
               /\ \A n \in 1..Len(tradeWire) :
                    tradeWire[n].id = d => Outcome(tradeWire[n].status) = t.status
      BY <1>0, <2>2 DEF TradesAgree, TradeAgrees
    <3>2. /\ d \in 1..Len(deals')
          /\ t.order = deals'[d].order /\ t.shares = deals'[d].shares /\ t.role = deals'[d].role
          /\ t.price * t.shares = deals'[d].amount
      <4>1. Len(deals) \in Nat /\ Len(deals') \in Nat
        BY DealsSoundStep DEF Inv, DealsSound
      <4>. QED
        BY <1>1, <3>1, <4>1 DEF DealsKept
    <3>3. t.status \in Outcomes =>
            /\ Outcome(deals'[d].status) = t.status
            /\ \A n \in 1..Len(tradeWire') :
                 tradeWire'[n].id = d => Outcome(tradeWire'[n].status) = t.status
      BY <3>1, WireKeepsOutcome
    <3>. QED
      BY <1>2, <3>2, <3>3 DEF TradeAgrees
  <2>. QED
    BY <2>1, <2>2
<1>3. CASE UNCHANGED trades
  BY <1>2, <1>3 DEF TradesAgree
<1>4. CASE MarketTradeLoop
  <2>1. PICK m : m = Head(tradeWire)
    OBVIOUS
  <2>2. PICK d : d = m.id
    OBVIOUS
  <2>3. d \in 1..Len(deals) /\ d \in 1..MaxDeals /\ m.status \in Venue!MarketTradeStatus
    BY <1>4, <2>1, <2>2, TradeLoopHandles
  <2>4. PICK e \in Ledger!TradeEvents :
          /\ Manager!HandleTradeEvent(e)
          /\ e.trade = d /\ e.order = deals[d].order /\ e.token = Token
          /\ e.shares = deals[d].shares /\ e.price * e.shares = deals[d].amount
          /\ e.role = deals[d].role /\ e.status = m.status
    BY <1>4, <2>1, <2>2, TradeLoopHandles
  <2>5. PICK t : t = [status |-> Manager!TradeStatus(e), order |-> e.order, shares |-> e.shares,
                      price |-> e.price, role |-> e.role]
    OBVIOUS
  <2>6. trades' = [trades EXCEPT ![d] = t]
    BY <2>4, <2>5 DEF Manager!HandleTradeEvent
  <2>7. trades'[d] = t /\ \A c \in 1..MaxDeals : c # d => trades'[c] = trades[c]
    BY <1>0, <2>3, <2>6
  <2>8. deals' = deals /\ tradeWire # <<>> /\ tradeWire' = Tail(tradeWire)
    BY <1>4 DEF MarketTradeLoop
  <2>9. t.status = Outcome(m.status)
    BY <2>4, <2>5 DEF Manager!TradeStatus, Outcome
  <2>10. ASSUME t.status \in Outcomes
         PROVE  /\ Outcome(deals[d].status) = t.status
                /\ \A n \in 1..Len(tradeWire') :
                     tradeWire'[n].id = d => Outcome(tradeWire'[n].status) = t.status
    <3>1. 1 \in 1..Len(tradeWire) /\ tradeWire[1] = m
      BY <1>0, <2>1, <2>8 DEF TradeWireTrue
    <3>2. /\ Outcome(deals[d].status) = t.status
          /\ \A n \in 1..Len(tradeWire) : n >= 1 /\ tradeWire[n].id = d =>
               Outcome(tradeWire[n].status) = t.status
      BY <1>0, <2>2, <2>9, <2>10, <3>1 DEF TradeWireTrue
    <3>3. \A n \in 1..Len(tradeWire') : n + 1 \in 1..Len(tradeWire) /\ tradeWire'[n] = tradeWire[n + 1]
      BY <1>0, <2>8 DEF TradeWireTrue
    <3>. QED
      BY <3>2, <3>3
  <2>11. TradeAgrees(d)'
    <3>1. /\ t.order = deals[d].order /\ t.shares = deals[d].shares /\ t.role = deals[d].role
          /\ t.price * t.shares = deals[d].amount
      BY <2>4, <2>5
    <3>. QED
      BY <2>3, <2>7, <2>8, <2>10, <3>1 DEF TradeAgrees
  <2>. QED
    BY <1>2, <2>7, <2>11 DEF TradesAgree
<1>. QED
  BY <1>3, <1>4, BooksChange

-----------------------------------------------------------------------------
LEMMA InitInv ==
    ASSUME Init
    PROVE  Inv
<1>1. Ledger!TypeInv
  BY SameInit, Assumptions, Ledger!InitTypes DEF Init
<1>2. /\ exchange = [o \in OrderIds |-> Venue!NoRecord] /\ deals = <<>> /\ orderWire = <<>>
      /\ tradeWire = <<>> /\ lost = {} /\ ghosts = {}
      /\ replies = [o \in OrderIds |-> NoReply] /\ orders = [o \in OrderIds |-> Manager!NoOrder]
      /\ tasks = [o \in OrderIds |-> Manager!NoTask]
      /\ trades = [d \in 1..MaxDeals |-> Manager!NoTrade]
  BY DEF Init, Venue!VenueInit, Manager!Init
<1>3. Venue!NoRecord \in ExchangeRecord /\ ~Known(Venue!NoRecord)
  BY DEF Venue!NoRecord, ExchangeRecord, Known
<1>4. NoReply \in Replies
  BY DEF NoReply, Replies
<1>5. VenueTypes
  BY <1>2, <1>3, <1>4, QuantityAssumption DEF VenueTypes, Init, Venue!VenueInit
<1>6. DealsSound
  BY <1>2, QuantityAssumption DEF DealsSound
<1>7. OrdersAgree
  <2>1. \A o \in OrderIds :
          Sound(o, Manager!NoOrder, Manager!NoTask, NoReply, Venue!NoRecord, FALSE)
    BY <1>3 DEF Sound, RecordSound, OrderAgrees, Faithful, ReadsTrue, Manager!NoOrder, NoReply,
                Venue!NoRecord, Known, Manager!NoTask, Manager!IsCanceled, Manager!CanceledStatus
  <2>. QED
    BY <1>2, <2>1 DEF OrdersAgree, Sound
<1>8. OrderWireTrue /\ TradeWireTrue /\ TradesAgree
  BY <1>2 DEF OrderWireTrue, TradeWireTrue, TradesAgree, TradeAgrees, Manager!NoTrade
<1>. QED
  BY <1>1, <1>5, <1>6, <1>7, <1>8 DEF Inv, Agreement

LEMMA StepInv ==
    ASSUME Inv, [Next]_vars
    PROVE  Inv'
<1>1. Ledger!TypeInv'
  BY LedgerStep
<1>2. VenueTypes' /\ DealsSound'
  BY VenueTypesStep, DealsSoundStep
<1>3. OrdersAgree'
  BY OrdersAgreeStep DEF OrdersKept
<1>4. OrderWireTrue' /\ TradeWireTrue' /\ TradesAgree'
  BY OrderWireTrueStep, TradeWireTrueStep, TradesAgreeStep
<1>. QED
  BY <1>1, <1>2, <1>3, <1>4 DEF Inv, Agreement

\* Every state of live trading has the invariant: the manager's records agree
\* with the exchange's, and every report on a wire tells what was so.
THEOREM Invariance == Spec => []Inv
<1>1. Init => Inv
  BY InitInv
<1>2. Inv /\ [Next]_vars => Inv'
  BY StepInv
<1>. QED
  BY <1>1, <1>2, PTL DEF Spec

-----------------------------------------------------------------------------
(* What the invariant says of types and orders.                            *)

LEMMA ReadsTyped ==
    ASSUME Inv, NEW o \in OrderIds
    PROVE  replies[o].reads \in
             Seq(SUBSET [order : {o}, token : {Token}, active : BOOLEAN, matched : Nat])
<1>1. PICK reads : reads = replies[o].reads
  OBVIOUS
<1>2. reads \in Seq(SUBSET Answers) /\ ReadsTrue(o, replies[o], exchange[o])
  BY <1>1, OrderFacts DEF Replies, Sound
<1>3. PICK T : T = SUBSET [order : {o}, token : {Token}, active : BOOLEAN, matched : Nat]
  OBVIOUS
<1>4. ASSUME NEW n \in 1..Len(reads)
      PROVE  reads[n] \in T
  <2>1. reads[n] \in SUBSET Answers
    BY <1>2
  <2>2. \A e \in reads[n] : e.order = o
    BY <1>1, <1>2 DEF ReadsTrue
  <2>. QED
    BY <1>3, <2>1, <2>2 DEF Answers, Manager!OrderEvents
<1>5. reads \in Seq(T)
  <2>1. Len(reads) \in Nat /\ reads = [n \in 1..Len(reads) |-> reads[n]]
    BY <1>2
  <2>2. reads \in [1..Len(reads) -> T]
    BY <1>4, <2>1
  <2>. QED
    BY <2>1, <2>2
<1>. QED
  BY <1>1, <1>3, <1>5

LEMMA SameTypes == Ledger!TypeOK => Manager!TypeOK
  BY DEF Ledger!TypeOK, Manager!TypeOK, Ledger!CoreTypeOK, Manager!CoreTypeOK,
         Manager!OrderRecord, Ledger!OrderRecord, Manager!TaskRecord,
         Ledger!TaskRecord, Manager!TradeRecord, Ledger!TradeRecord, Manager!OrderStatus,
         Ledger!OrderStatus, Manager!ActiveStatus, Ledger!ActiveStatus,
         Manager!CanceledStatus, Ledger!CanceledStatus, Manager!Side, Ledger!Side,
         Manager!Role, Ledger!Role, Manager!Position, Ledger!Position

LEMMA InvTypes ==
    ASSUME Inv
    PROVE  TypeOK
<1>1. Manager!TypeOK
  BY SameTypes, Ledger!TypeInvImplies, Assumptions DEF Inv
<1>2. /\ exchange \in [OrderIds -> [status : {"UNKNOWN", "LIVE", "MATCHED", "CANCELED"},
                                    token : {Token, NoId}, shares : Nat, matched : Nat]]
      /\ Len(deals) <= MaxDeals
      /\ link \in {"connecting", "up"} /\ drops \in 0..MaxDrops
      /\ lost \subseteq {"order", "success", "failure"} /\ ghosts \subseteq OrderIds
  BY DEF Inv, VenueTypes, DealsSound, ExchangeRecord
<1>3. orderWire \in Seq(OrderReports)
  <2>1. orderWire \in Seq({m \in OrderReports : TrueReport(m)})
    BY DEF Inv, Agreement, OrderWireTrue
  <2>. QED
    BY <2>1, SeqOfMore
<1>4. tradeWire \in Seq(TradeReports)
  <2>1. tradeWire \in Seq(TradeReportsTo(Len(deals)))
    BY DEF Inv, Agreement, TradeWireTrue, TradeReportsTo
  <2>2. Len(deals) \in Nat /\ Len(deals) <= MaxDeals /\ MaxDeals \in Nat
    BY QuantityAssumption DEF Inv, DealsSound
  <2>3. \A m \in TradeReportsTo(Len(deals)) : m \in TradeReports
    BY <2>2 DEF TradeReportsTo, TradeReports
  <2>. QED
    BY <2>1, <2>3, SeqOfMore
<1>5. ASSUME NEW o \in OrderIds
      PROVE  /\ replies[o].submit \in {"none", "ok", "failed"}
             /\ replies[o].cancel \in CancelReplies \cup {"none"}
             /\ replies[o].reads \in
                  Seq(SUBSET [order : {o}, token : {Token}, active : BOOLEAN, matched : Nat])
  BY ReadsTyped, OrderFacts DEF Replies
<1>. QED
  BY <1>1, <1>2, <1>3, <1>4, <1>5 DEF TypeOK

\* Every variable keeps its type: the exchange's records and the threads'
\* answers, and no quantity of an order goes below zero.
THEOREM TypeCorrect == Spec => []TypeOK
<1>1. Inv => TypeOK
  BY InvTypes
<1>. QED
  BY <1>1, Invariance, PTL

\* What the manager takes for a full match is one for what has matched since.
LEMMA FullStaysFull ==
    ASSUME NEW n \in Nat, NEW m \in Nat, NEW k \in Nat, k <= m, m <= n,
           Manager!IsFull(k, n - k, n)
    PROVE  Manager!IsFull(m, n - m, n)
  BY QuantityAssumption DEF Manager!IsFull

LEMMA OverImplied ==
    ASSUME Inv
    PROVE  OverMeansOver
<1>. SUFFICES ASSUME NEW o \in OrderIds \ ghosts, NEW x, x = exchange[o], NEW r, r = orders[o]
              PROVE  /\ /\ r.status # "UNTRACKED" /\ ~Manager!IsActive(r) /\ x.status = "LIVE"
                        => Manager!IsFull(x.matched, Remaining[o], x.shares)
                     /\ Manager!IsCanceled(r) => x.status \in {"UNKNOWN", "CANCELED"}
  BY DEF OverMeansOver, Manager!Tracked
<1>1. /\ Sound(o, r, tasks[o], replies[o], x, FALSE) /\ RecordKept(r, tasks[o])
      /\ x \in ExchangeRecord
  BY OrderFacts DEF Sound
<1>2. Faithful(r, replies[o], x) /\ RecordSound(x, r) /\ OrderAgrees(r, tasks[o], replies[o], x)
  BY <1>1 DEF Sound
<1>3. ASSUME r.status # "UNTRACKED", ~Manager!IsActive(r), x.status = "LIVE"
      PROVE  Manager!IsFull(x.matched, Remaining[o], x.shares)
  <2>1. r.status = "FULL_MATCHED" /\ r.pending = r.shares - r.matched
    BY <1>1, <1>2, <1>3 DEF Faithful, RecordKept, Manager!OrderRecord, Manager!OrderStatus,
         Manager!IsActive, Manager!IsCanceled
  <2>2. x.shares = r.shares /\ r.matched <= x.matched /\ x.matched <= x.shares
    BY <1>2, <1>3 DEF RecordSound, OrderAgrees, Known
  <2>3. r.shares \in Nat /\ r.matched \in Nat /\ x.matched \in Nat
    BY <1>1 DEF RecordKept, Manager!OrderRecord, ExchangeRecord
  <2>4. Manager!IsFull(r.matched, r.shares - r.matched, r.shares)
    BY <1>1, <2>1 DEF RecordKept
  <2>5. Manager!IsFull(x.matched, r.shares - x.matched, r.shares)
    BY <2>2, <2>3, <2>4, FullStaysFull
  <2>. QED
    BY <2>2, <2>5 DEF Remaining
<1>. QED
  BY <1>2, <1>3 DEF Faithful

\* Orders the manager no longer counts as active cannot trade any more, but
\* for what it takes for a full match, and canceled ones have not traded in
\* full, whatever the stream lost and in whatever order calls and reports
\* came back (clients.py:75-131, manager.py:304-502).
THEOREM OverCorrect == Spec => []OverMeansOver
<1>1. Inv => OverMeansOver
  BY OverImplied
<1>. QED
  BY <1>1, Invariance, PTL

-----------------------------------------------------------------------------
(* Reports arrive or are lost.                                             *)

LEMMA StillOn ==
    ASSUME NEW S, NEW w \in Seq(S), NEW n \in 1..Len(w), NEW v,
           \/ v = w \/ \E x : v = w \o <<x>>
           \/ w # <<>> /\ v = Tail(w) /\ n # 1
           \/ \E m \in 0..Len(w) : v = SubSeq(w, 1, m) /\ n <= m
    PROVE  \E k \in 1..Len(v) : v[k] = w[n]
<1>1. CASE v = w
  BY <1>1
<1>2. ASSUME NEW x, v = w \o <<x>>
      PROVE  \E k \in 1..Len(v) : v[k] = w[n]
  <2>1. n \in 1..Len(v) /\ v[n] = w[n]
    BY <1>2
  <2>. QED
    BY <2>1
<1>3. CASE w # <<>> /\ v = Tail(w) /\ n # 1
  <2>1. n - 1 \in 1..Len(v) /\ v[n - 1] = w[n]
    BY <1>3
  <2>. QED
    BY <2>1
<1>4. ASSUME NEW m \in 0..Len(w), v = SubSeq(w, 1, m), n <= m
      PROVE  \E k \in 1..Len(v) : v[k] = w[n]
  <2>1. n \in 1..Len(v) /\ v[n] = w[n]
    BY <1>4
  <2>. QED
    BY <2>1
<1>. QED
  BY <1>1, <1>2, <1>3, <1>4

LEMMA DroppedIsLost ==
    ASSUME NEW S, NEW w \in Seq(S), NEW n \in 1..Len(w), NEW m \in 0..Len(w), m < n,
           Venue!Kind(w[n]) # "progress"
    PROVE  Venue!Kind(w[n]) \in Venue!Kinds(SubSeq(w, m + 1, Len(w)))
<1>1. PICK v : v = SubSeq(w, m + 1, Len(w))
  OBVIOUS
<1>2. n - m \in DOMAIN v /\ v[n - m] = w[n]
  BY <1>1
<1>3. Venue!Kind(w[n]) \in {Venue!Kind(v[k]) : k \in DOMAIN v}
  BY <1>2
<1>4. Venue!Kind(w[n]) \in Venue!Kinds(v)
  BY <1>3 DEF Venue!Kinds
<1>. QED
  BY <1>1, <1>4

\* What is told is added to the wires if the link is up, and lost otherwise.
LEMMA TellOrder ==
    ASSUME NEW m, NEW t, Venue!Tell(<<m>>, t), Venue!Kind(m) # "progress"
    PROVE  /\ lost \subseteq lost'
           /\ orderWire' = orderWire \o <<m>> \/ (orderWire' = orderWire /\ Venue!Kind(m) \in lost')
<1>1. Venue!Kind(m) \in Venue!Kinds(<<m>>)
  BY DEF Venue!Kinds
<1>. QED
  BY <1>1 DEF Venue!Tell

LEMMA TellTrade ==
    ASSUME NEW m, NEW t, Venue!Tell(t, <<m>>)
    PROVE  /\ lost \subseteq lost'
           /\ \/ tradeWire' = tradeWire \o <<m>>
              \/ tradeWire' = tradeWire /\ Venue!Kind(m) \in lost' \cup {"progress"}
<1>1. Venue!Kind(m) \in Venue!Kinds(<<m>>) \cup {"progress"}
  BY DEF Venue!Kinds
<1>. QED
  BY <1>1 DEF Venue!Tell

LEMMA TellNothing ==
    ASSUME NEW S, NEW T, orderWire \in Seq(S), tradeWire \in Seq(T), NEW t
    PROVE  /\ Venue!Tell(<<>>, t) => orderWire' = orderWire /\ lost \subseteq lost'
           /\ Venue!Tell(t, <<>>) => tradeWire' = tradeWire /\ lost \subseteq lost'
<1>1. orderWire \o <<>> = orderWire /\ tradeWire \o <<>> = tradeWire
  OBVIOUS
<1>. QED
  BY <1>1 DEF Venue!Tell

\* The steps as the two wires see them.
LEMMA WiresMove ==
    ASSUME Inv, [Next]_vars
    PROVE  /\ lost \subseteq lost'
           /\ \/ orderWire' = orderWire \/ \E m : orderWire' = orderWire \o <<m>>
              \/ MarketOrderLoop /\ orderWire' = Tail(orderWire)
              \/ Venue!Drop
           /\ \/ tradeWire' = tradeWire \/ \E m : tradeWire' = tradeWire \o <<m>>
              \/ MarketTradeLoop /\ tradeWire' = Tail(tradeWire)
              \/ Venue!Drop
<1>1. CASE Received
  BY <1>1 DEF Received
<1>2. CASE Venue!Drop
  BY <1>2 DEF Venue!Drop
<1>3. PICK S, T : orderWire \in Seq(S) /\ tradeWire \in Seq(T)
  BY DEF Inv, Agreement, OrderWireTrue, TradeWireTrue
<1>4. ASSUME NEW o, NEW y, Placed(o, y)
      PROVE  /\ lost \subseteq lost' /\ tradeWire' = tradeWire
             /\ orderWire' = orderWire \/ \E m : orderWire' = orderWire \o <<m>>
  BY <1>3, <1>4, TellNothing DEF Placed, Venue!Tell
<1>5. ASSUME NEW o, NEW y, NEW deal, Traded(o, y, deal)
      PROVE  /\ lost \subseteq lost'
             /\ orderWire' = orderWire \/ \E m : orderWire' = orderWire \o <<m>>
             /\ tradeWire' = tradeWire \/ \E m : tradeWire' = tradeWire \o <<m>>
  BY <1>5 DEF Traded, Venue!Trade, Venue!Tell
<1>6. ASSUME NEW d, NEW status, SettledAs(d, status)
      PROVE  /\ lost \subseteq lost' /\ orderWire' = orderWire
             /\ tradeWire' = tradeWire \/ \E m : tradeWire' = tradeWire \o <<m>>
  BY <1>3, <1>6, TellNothing DEF SettledAs, Venue!Tell
<1>7. CASE ExchangeMoves
  BY <1>4, <1>5, <1>6, <1>7, ZenonT(30) DEF ExchangeMoves
<1>. QED
  BY <1>1, <1>2, <1>7, VenueSteps

LEMMA OrderReportStays ==
    ASSUME Inv, [Next]_vars, NEW n \in 1..Len(orderWire), ~(n = 1 /\ MarketOrderLoop),
           "order" \notin lost'
    PROVE  \E k \in 1..Len(orderWire') : orderWire'[k] = orderWire[n]
<1>1. PICK S : orderWire \in Seq(S)
  BY DEF Inv, Agreement, OrderWireTrue
<1>2. Venue!Kind(orderWire[n]) = "order"
  <2>1. orderWire[n] \in OrderReports
    BY DEF Inv, Agreement, OrderWireTrue
  <2>. QED
    BY <2>1 DEF Venue!Kind, OrderReports
<1>3. CASE Venue!Drop
  <2>1. PICK m \in 0..Len(orderWire) :
          /\ orderWire' = SubSeq(orderWire, 1, m)
          /\ Venue!Kinds(SubSeq(orderWire, m + 1, Len(orderWire))) \subseteq lost'
    BY <1>3 DEF Venue!Drop
  <2>2. n <= m
    <3>1. ~(m < n)
      BY <1>1, <1>2, <2>1, DroppedIsLost
    <3>. QED
      BY <3>1
  <2>. QED
    BY <1>1, <2>1, <2>2, StillOn
<1>4. CASE MarketOrderLoop /\ orderWire' = Tail(orderWire)
  BY <1>1, <1>4, StillOn DEF MarketOrderLoop
<1>. QED
  BY <1>1, <1>3, <1>4, WiresMove, StillOn

LEMMA TradeReportStays ==
    ASSUME Inv, [Next]_vars, NEW n \in 1..Len(tradeWire), ~(n = 1 /\ MarketTradeLoop),
           Venue!Kind(tradeWire[n]) # "progress", Venue!Kind(tradeWire[n]) \notin lost'
    PROVE  \E k \in 1..Len(tradeWire') : tradeWire'[k] = tradeWire[n]
<1>1. PICK S : tradeWire \in Seq(S)
  BY DEF Inv, Agreement, TradeWireTrue
<1>2. CASE Venue!Drop
  <2>1. PICK m \in 0..Len(tradeWire) :
          /\ tradeWire' = SubSeq(tradeWire, 1, m)
          /\ Venue!Kinds(SubSeq(tradeWire, m + 1, Len(tradeWire))) \subseteq lost'
    BY <1>2 DEF Venue!Drop
  <2>2. n <= m
    <3>1. ~(m < n)
      BY <1>1, <2>1, DroppedIsLost
    <3>. QED
      BY <3>1
  <2>. QED
    BY <1>1, <2>1, <2>2, StillOn
<1>3. CASE MarketTradeLoop /\ tradeWire' = Tail(tradeWire)
  BY <1>1, <1>3, StillOn DEF MarketTradeLoop
<1>. QED
  BY <1>1, <1>2, <1>3, WiresMove, StillOn

-----------------------------------------------------------------------------
(* The manager catches up with every order whose last report is not lost.  *)

\* The record r of an order has all of its record x at the exchange.
UpToDate(r, x) == r.matched = x.matched /\ (x.status # "LIVE" => r.pending = 0)

LEMMA StaysUpToDate ==
    ASSUME NEW r, NEW t, NEW q, NEW x, RecordKept(r, t), r.status # "UNTRACKED",
           Ledger!OrderChange(r, t, q), UpToDate(r, x), q.matched <= x.matched
    PROVE  UpToDate(q, x)
<1>1. r \in Manager!OrderRecord /\ r.matched \in Nat /\ r.pending \in Nat /\ r.shares \in Nat
  BY DEF RecordKept, Manager!OrderRecord
<1>2. CASE q.matched = r.matched /\ (q.pending = r.pending \/ q.pending = 0)
  BY <1>2 DEF UpToDate
<1>3. CASE q = Ledger!AfterSubmit(r) \/ q = Ledger!SubmitRefused(r)
  BY <1>1, <1>2, <1>3 DEF Manager!OrderRecord, Ledger!AfterSubmit, Ledger!Submitted,
       Ledger!CancelRequested, Ledger!SubmitRefused
<1>4. CASE q = Ledger!CancelRequested(r) \/ q = [r EXCEPT !.is_cancelling = FALSE]
  BY <1>1, <1>2, <1>4 DEF Manager!OrderRecord, Ledger!CancelRequested
<1>5. CASE q = Ledger!CancelDone(r)
  BY <1>1, <1>2, <1>5 DEF Manager!OrderRecord, Ledger!CancelDone
<1>6. ASSUME NEW e \in Ledger!OrderEvents, e.matched <= r.shares, q = Ledger!AfterEvent(r, e)
      PROVE  UpToDate(q, x)
  <2>1. e.matched \in Nat
    BY DEF Ledger!OrderEvents
  <2>2. CASE q = Ledger!Closed(r, e)
    <3>1. q.matched = Ledger!Larger(r.matched, e.matched) /\ q.pending = 0
      BY <1>1, <2>2 DEF Manager!OrderRecord, Ledger!Closed
    <3>. QED
      BY <1>1, <2>1, <3>1 DEF UpToDate, Ledger!Larger
  <2>3. CASE q = Ledger!Open(r, e)
    <3>1. /\ q.matched = Ledger!Larger(r.matched, e.matched)
          /\ q.pending = Ledger!Smaller(r.pending, r.shares - e.matched)
      BY <1>1, <2>3 DEF Manager!OrderRecord, Ledger!Open
    <3>2. r.pending = 0 => q.pending = 0
      BY <1>1, <1>6, <2>1, <3>1 DEF Ledger!Smaller
    <3>. QED
      BY <1>1, <2>1, <3>1, <3>2 DEF UpToDate, Ledger!Larger
  <2>. QED
    BY <1>6, <2>2, <2>3 DEF Ledger!AfterEvent
<1>. QED
  BY <1>2, <1>3, <1>4, <1>5, <1>6, Zenon DEF Ledger!OrderChange

\* The report of an order's present state brings the manager up to date.
LEMMA ReportCatchesUp ==
    ASSUME NEW o, NEW r, NEW t, NEW a, NEW x, NEW g, Sound(o, r, t, a, x, g), RecordKept(r, t),
           x \in ExchangeRecord, Known(x), NEW e \in Manager!OrderEvents, e.matched = x.matched,
           e.active <=> x.status \in {"LIVE", "MATCHED"}, NEW q, q = Manager!AfterEvent(r, e)
    PROVE  UpToDate(q, x)
<1>1. /\ r \in Manager!OrderRecord /\ r.matched \in Nat /\ r.pending \in Nat /\ r.shares \in Nat
      /\ x.matched \in Nat /\ x.shares \in Nat
  BY DEF RecordKept, Manager!OrderRecord, ExchangeRecord
<1>2. /\ r.matched <= x.matched /\ x.shares = r.shares
      /\ x.status = "MATCHED" => x.matched = x.shares
  BY DEF Sound, OrderAgrees, RecordSound
<1>3. CASE q = Manager!Closed(r, e)
  <2>1. q.matched = Manager!Larger(r.matched, e.matched) /\ q.pending = 0
    BY <1>1, <1>3 DEF Manager!OrderRecord, Manager!Closed
  <2>. QED
    BY <1>1, <1>2, <2>1 DEF UpToDate, Manager!Larger
<1>4. CASE q = Manager!Open(r, e) /\ e.active
  <2>1. /\ q.matched = Manager!Larger(r.matched, e.matched)
        /\ q.pending = Manager!Smaller(r.pending, r.shares - e.matched)
    BY <1>1, <1>4 DEF Manager!OrderRecord, Manager!Open
  <2>2. x.status # "LIVE" => r.shares - e.matched = 0
    BY <1>1, <1>2, <1>4
  <2>3. x.status # "LIVE" => q.pending = 0
    BY <1>1, <2>1, <2>2 DEF Manager!Smaller
  <2>. QED
    BY <1>1, <1>2, <2>1, <2>3 DEF UpToDate, Manager!Larger
<1>. QED
  BY <1>3, <1>4 DEF Manager!AfterEvent

LEMMA UpToDateStep ==
    ASSUME Inv, [Next]_vars, NEW o \in OrderIds, Known(exchange[o]), exchange'[o] = exchange[o],
           UpToDate(orders[o], exchange[o])
    PROVE  UpToDate(orders'[o], exchange'[o])
<1>1. Ledger!OrderChange(orders[o], tasks[o], orders'[o])
  <2>1. Ledger!IInv
    BY DEF Inv, Ledger!TypeInv, Ledger!LedgerInv
  <2>2. [Ledger!Next]_Ledger!vars
    BY LedgerTakesStep
  <2>. QED
    BY <2>1, <2>2, Assumptions, Ledger!StepChangesOrder
<1>2. orders[o].status # "UNTRACKED" /\ RecordKept(orders[o], tasks[o])
  BY OrderFacts DEF Sound, RecordSound
<1>3. orders'[o].matched <= exchange'[o].matched
  BY OrdersAgreeStep DEF OrdersKept, OrdersAgree, Sound, OrderAgrees
<1>. QED
  BY <1>1, <1>2, <1>3, StaysUpToDate

LEMMA HeadCatchesUp ==
    ASSUME Inv, MarketOrderLoop, NEW o \in OrderIds,
           Head(orderWire) = Venue!OrderReport(o, exchange[o])
    PROVE  UpToDate(orders'[o], exchange'[o])
<1>1. PICK m : m = Head(orderWire)
  OBVIOUS
<1>2. m.id = o /\ m.status = exchange[o].status /\ m.matched = exchange[o].matched
  BY <1>1 DEF Venue!OrderReport
<1>3. /\ EventOf(m) \in Manager!OrderEvents /\ Manager!HandleOrderEvent(EventOf(m))
      /\ TrueEvent(EventOf(m), exchange[o])
  BY <1>1, <1>2, OrderLoopHandles
<1>4. PICK e : e = EventOf(m)
  OBVIOUS
<1>5. /\ e.order = o /\ e.matched = exchange[o].matched
      /\ e.active <=> exchange[o].status \in {"LIVE", "MATCHED"}
  BY <1>2, <1>4 DEF EventOf
<1>6. exchange' = exchange
  BY DEF MarketOrderLoop
<1>7. orders'[o] = Manager!AfterEvent(orders[o], e)
  BY <1>3, <1>4, <1>5, OrderFacts DEF Manager!HandleOrderEvent
<1>8. Known(exchange[o])
  BY <1>3 DEF TrueEvent
<1>. QED
  BY <1>3, <1>4, <1>5, <1>6, <1>7, <1>8, OrderFacts, ReportCatchesUp

\* A new record is reported, or its report is lost.
LEMMA NewRecordReported ==
    ASSUME Inv, [Next]_vars, NEW o \in OrderIds, exchange'[o] # exchange[o], "order" \notin lost'
    PROVE  \E n \in 1..Len(orderWire') : orderWire'[n] = Venue!OrderReport(o, exchange'[o])
<1>1. ASSUME NEW p \in OrderIds, NEW y, Rewritten(p, y), NEW t,
             Venue!Tell(<<Venue!OrderReport(p, y)>>, t)
      PROVE  \E n \in 1..Len(orderWire') : orderWire'[n] = Venue!OrderReport(o, exchange'[o])
  <2>1. p = o /\ exchange'[o] = y
    BY <1>1 DEF Rewritten, Inv, VenueTypes
  <2>2. PICK m : m = Venue!OrderReport(o, y)
    OBVIOUS
  <2>3. Venue!Kind(m) = "order"
    BY <2>2 DEF Venue!Kind, Venue!OrderReport
  <2>4. orderWire' = orderWire \o <<m>>
    BY <1>1, <2>1, <2>2, <2>3, TellOrder
  <2>5. PICK S : orderWire \in Seq(S)
    BY DEF Inv, Agreement, OrderWireTrue
  <2>6. Len(orderWire) + 1 \in 1..Len(orderWire') /\ orderWire'[Len(orderWire) + 1] = m
    BY <2>4, <2>5
  <2>. QED
    BY <2>1, <2>2, <2>6
<1>2. CASE exchange' = exchange
  BY <1>2
<1>3. CASE ExchangeMoves
  BY <1>1, <1>2, <1>3, ZenonT(30) DEF ExchangeMoves, Placed, Traded, SettledAs, Venue!Trade
<1>. QED
  BY <1>2, <1>3, VenueSteps DEF Received, Venue!Drop

LEMMA OrdersDeliveredStep ==
    ASSUME Inv, [Next]_vars, OrdersDelivered
    PROVE  OrdersDelivered'
<1>. SUFFICES ASSUME "order" \notin lost', NEW o \in OrderIds, Known(exchange'[o])
              PROVE  \/ UpToDate(orders'[o], exchange'[o])
                     \/ \E n \in 1..Len(orderWire') :
                           orderWire'[n] = Venue!OrderReport(o, exchange'[o])
  <2>. SUFFICES ASSUME NEW o \in OrderIds, "order" \notin lost', Known(exchange'[o])
                PROVE  \/ CaughtUp(o)'
                       \/ \E n \in 1..Len(orderWire') :
                             orderWire'[n] = Venue!OrderReport(o, exchange'[o])
    BY DEF OrdersDelivered, Known, Venue!OrderReport
  <2>1. UpToDate(orders'[o], exchange'[o]) => CaughtUp(o)'
    BY DEF UpToDate, CaughtUp
  <2>. QED
    BY <2>1
<1>1. CASE exchange'[o] # exchange[o]
  BY <1>1, NewRecordReported
<1>2. CASE exchange'[o] = exchange[o]
  <2>1. Known(exchange[o]) /\ "order" \notin lost
    BY <1>2, WiresMove
  <2>2. \/ UpToDate(orders[o], exchange[o])
        \/ \E n \in 1..Len(orderWire) : orderWire[n] = Venue!OrderReport(o, exchange[o])
    BY <2>1 DEF OrdersDelivered, CaughtUp, UpToDate
  <2>3. CASE UpToDate(orders[o], exchange[o])
    BY <1>2, <2>1, <2>3, UpToDateStep
  <2>4. ASSUME NEW n \in 1..Len(orderWire), orderWire[n] = Venue!OrderReport(o, exchange[o])
        PROVE  \/ UpToDate(orders'[o], exchange'[o])
               \/ \E k \in 1..Len(orderWire') :
                     orderWire'[k] = Venue!OrderReport(o, exchange'[o])
    <3>1. CASE n = 1 /\ MarketOrderLoop
      <4>1. Head(orderWire) = orderWire[1]
        BY DEF Inv, Agreement, OrderWireTrue
      <4>. QED
        BY <2>4, <3>1, <4>1, HeadCatchesUp
    <3>2. CASE ~(n = 1 /\ MarketOrderLoop)
      BY <1>2, <2>4, <3>2, OrderReportStays
    <3>. QED
      BY <3>1, <3>2
  <2>. QED
    BY <2>2, <2>3, <2>4
<1>. QED
  BY <1>1, <1>2

-----------------------------------------------------------------------------
(* The manager learns the outcome of every trade whose report is not lost. *)

Reported(d, s) ==
    \E n \in 1..Len(tradeWire) : tradeWire[n].id = d /\ Outcome(tradeWire[n].status) = s

LEMMA OutcomeKind ==
    ASSUME NEW m \in TradeReports, NEW s \in Outcomes, Outcome(m.status) = s
    PROVE  Venue!Kind(m) = KindOf(s) /\ Venue!Kind(m) # "progress"
  BY DEF TradeReports, Outcomes, Outcome, KindOf, Venue!Kind

LEMMA TradeReportTyped ==
    ASSUME Inv, NEW n \in 1..Len(tradeWire)
    PROVE  tradeWire[n] \in TradeReports
<1>1. tradeWire \in Seq(TradeReports)
  BY InvTypes DEF TypeOK
<1>2. PICK T : T = TradeReports
  OBVIOUS
<1>. QED
  BY <1>1, <1>2

\* The trade loop takes a trade's report for its outcome.
LEMMA HeadTradeTold ==
    ASSUME Inv, MarketTradeLoop, NEW m, m = Head(tradeWire), NEW d \in 1..MaxDeals
    PROVE  IF d = m.id THEN trades'[d].status = Outcome(m.status) ELSE trades'[d] = trades[d]
<1>1. PICK e \in Ledger!TradeEvents :
        /\ Manager!HandleTradeEvent(e) /\ e.trade = m.id /\ e.status = m.status
  BY TradeLoopHandles
<1>2. trades \in [1..MaxDeals -> Manager!TradeRecord]
  BY ManagerFacts DEF Inv
<1>3. PICK t : t = [status |-> Manager!TradeStatus(e), order |-> e.order, shares |-> e.shares,
                    price |-> e.price, role |-> e.role]
  OBVIOUS
<1>4. trades' = [trades EXCEPT ![m.id] = t]
  BY <1>1, <1>3 DEF Manager!HandleTradeEvent
<1>5. t.status = Outcome(m.status)
  BY <1>1, <1>3 DEF Manager!TradeStatus, Outcome
<1>. QED
  BY <1>2, <1>4, <1>5

LEMMA StaysTold ==
    ASSUME Inv, [Next]_vars, NEW d \in 1..Len(deals), NEW s \in Outcomes,
           trades[d].status = s
    PROVE  trades'[d].status = s
<1>1. d \in 1..MaxDeals
  BY QuantityAssumption DEF Inv, DealsSound
<1>2. CASE UNCHANGED trades
  BY <1>2
<1>3. CASE MarketTradeLoop
  <2>1. PICK m : m = Head(tradeWire)
    OBVIOUS
  <2>2. m = tradeWire[1] /\ 1 \in 1..Len(tradeWire)
    BY <1>3, <2>1 DEF MarketTradeLoop, Inv, Agreement, TradeWireTrue
  <2>3. m.id = d => Outcome(m.status) = s
    BY <1>1, <2>2 DEF Inv, Agreement, TradesAgree, TradeAgrees, Outcomes
  <2>. QED
    BY <1>1, <1>3, <2>1, <2>3, HeadTradeTold
<1>. QED
  BY <1>2, <1>3, BooksChange

LEMMA StaysReported ==
    ASSUME Inv, [Next]_vars, NEW d \in 1..Len(deals), NEW s \in Outcomes, KindOf(s) \notin lost',
           Reported(d, s)
    PROVE  trades'[d].status = s \/ Reported(d, s)'
<1>1. PICK n \in 1..Len(tradeWire) : tradeWire[n].id = d /\ Outcome(tradeWire[n].status) = s
  BY DEF Reported
<1>2. tradeWire[n] \in TradeReports
  BY TradeReportTyped
<1>3. Venue!Kind(tradeWire[n]) = KindOf(s) /\ Venue!Kind(tradeWire[n]) # "progress"
  BY <1>1, <1>2, OutcomeKind
<1>4. CASE n = 1 /\ MarketTradeLoop
  <2>1. tradeWire[1] = Head(tradeWire) /\ d \in 1..MaxDeals
    BY QuantityAssumption DEF Inv, DealsSound, Agreement, TradeWireTrue
  <2>. QED
    BY <1>1, <1>4, <2>1, HeadTradeTold
<1>5. CASE ~(n = 1 /\ MarketTradeLoop)
  BY <1>1, <1>3, <1>5, TradeReportStays DEF Reported
<1>. QED
  BY <1>4, <1>5

\* A new outcome is reported, or its report is lost.
LEMMA OutcomesMove ==
    ASSUME Inv, [Next]_vars, NEW d \in 1..Len(deals'), NEW s \in Outcomes,
           Outcome(deals'[d].status) = s, KindOf(s) \notin lost'
    PROVE  \/ d \in 1..Len(deals) /\ Outcome(deals[d].status) = s
           \/ Reported(d, s)'
<1>. DEFINE D == MakerDeals \cup TakerDeals
<1>1. deals \in Seq(D) /\ \A c \in 1..Len(deals) : deals[c] \in D
  BY DEF Inv, DealsSound
<1>2. CASE deals' = deals
  BY <1>2
<1>3. ASSUME NEW o \in OrderIds, NEW y, NEW deal \in D, Traded(o, y, deal)
      PROVE  d \in 1..Len(deals) /\ Outcome(deals[d].status) = s
  <2>1. deals' = Append(deals, deal) /\ deal.status = "MATCHED"
    BY <1>3 DEF Traded, Venue!Trade
  <2>. HIDE DEF D
  <2>2. Len(deals') = Len(deals) + 1 /\ deals'[Len(deals) + 1] = deal /\ Len(deals) \in Nat
        /\ \A c \in 1..Len(deals) : deals'[c] = deals[c]
    BY <1>1, <1>3, <2>1
  <2>3. d # Len(deals) + 1
    BY <2>1, <2>2 DEF Outcome, Outcomes
  <2>. QED
    BY <2>2, <2>3
<1>4. ASSUME NEW c \in 1..Len(deals), NEW status \in Venue!MarketTradeStatus, SettledAs(c, status)
      PROVE  \/ d \in 1..Len(deals) /\ Outcome(deals[d].status) = s
             \/ Reported(d, s)'
  <2>1. PICK new : new = [deals[c] EXCEPT !.status = status]
    OBVIOUS
  <2>2. deals' = [deals EXCEPT ![c] = new] /\ new.status = status
    <3>1. deals[c] \in D
      BY <1>1
    <3>. QED
      BY <1>4, <2>1, <3>1, DealSettled DEF SettledAs
  <2>. HIDE DEF D
  <2>3. Len(deals') = Len(deals) /\ deals'[c] = new /\ \A b \in 1..Len(deals) : b # c => deals'[b] = deals[b]
    BY <1>1, <2>2
  <2>4. CASE d # c
    BY <2>3, <2>4
  <2>5. CASE d = c
    <3>1. PICK m : m = Venue!TradeReport(c, status)
      OBVIOUS
    <3>2. m.id = d /\ Outcome(m.status) = s /\ m \in TradeReports
      <4>1. c \in 1..MaxDeals
        BY QuantityAssumption DEF Inv, DealsSound
      <4>. QED
        BY <2>2, <2>3, <2>5, <3>1, <4>1 DEF Venue!TradeReport, TradeReports
    <3>3. tradeWire' = tradeWire \o <<m>>
      <4>1. Venue!Tell(<<>>, <<m>>)
        BY <1>4, <3>1 DEF SettledAs
      <4>. QED
        BY <3>2, <4>1, OutcomeKind, TellTrade
    <3>4. PICK S : tradeWire \in Seq(S)
      BY DEF Inv, Agreement, TradeWireTrue
    <3>5. Len(tradeWire) + 1 \in 1..Len(tradeWire') /\ tradeWire'[Len(tradeWire) + 1] = m
      BY <3>3, <3>4
    <3>. QED
      BY <3>2, <3>5 DEF Reported
  <2>. QED
    BY <2>4, <2>5
<1>5. CASE ExchangeMoves
  <2>1. \/ \E o \in OrderIds, y \in ExchangeRecord : Placed(o, y)
        \/ \E o \in OrderIds, y \in ExchangeRecord, deal \in D : Traded(o, y, deal)
        \/ \E c \in 1..Len(deals), status \in Venue!MarketTradeStatus : SettledAs(c, status)
    BY <1>5 DEF ExchangeMoves
  <2>2. \A o, y : Placed(o, y) => deals' = deals
    BY DEF Placed
  <2>. HIDE DEF D
  <2>. QED
    BY <1>2, <1>3, <1>4, <2>1, <2>2, ZenonT(30)
<1>. QED
  BY <1>2, <1>5, VenueSteps DEF Received, Venue!Drop

LEMMA TradesDeliveredStep ==
    ASSUME Inv, [Next]_vars, TradesDelivered
    PROVE  TradesDelivered'
<1>. SUFFICES ASSUME NEW d \in 1..Len(deals'), NEW s \in Outcomes,
                     Outcome(deals'[d].status) = s, KindOf(s) \notin lost'
              PROVE  trades'[d].status = s \/ Reported(d, s)'
  BY DEF TradesDelivered, Reported
<1>1. CASE d \in 1..Len(deals) /\ Outcome(deals[d].status) = s
  <2>1. trades[d].status = s \/ Reported(d, s)
    BY <1>1, WiresMove DEF TradesDelivered, Reported
  <2>. QED
    BY <1>1, <2>1, StaysTold, StaysReported
<1>. QED
  BY <1>1, OutcomesMove

-----------------------------------------------------------------------------
(* Matched shares are traded shares.                                       *)

LEMMA OrderIdsFinite == IsFiniteSet(OrderIds)
  BY QuantityAssumption, FS_Interval DEF OrderIds

LEMMA DealsFinite ==
    ASSUME Inv
    PROVE  /\ DOMAIN deals = 1..Len(deals) /\ Len(deals) \in Nat /\ IsFiniteSet(DOMAIN deals)
           /\ \A d \in DOMAIN deals : Shares[d] = deals[d].shares /\ Shares[d] \in Nat \ {0}
<1>1. deals \in Seq(MakerDeals \cup TakerDeals)
  BY DEF Inv, DealsSound
<1>2. PICK D : D = MakerDeals \cup TakerDeals
  OBVIOUS
<1>3. DOMAIN deals = 1..Len(deals) /\ Len(deals) \in Nat /\ \A d \in DOMAIN deals : deals[d] \in D
  BY <1>1, <1>2
<1>4. IsFiniteSet(DOMAIN deals)
  BY <1>3, FS_Interval
<1>. QED
  BY <1>2, <1>3, <1>4, DealFacts DEF Shares

LEMMA MatchedNat ==
    ASSUME Inv
    PROVE  \A o \in OrderIds : MatchedShares[o] = exchange[o].matched /\ MatchedShares[o] \in Nat
  BY OrderFacts DEF MatchedShares, ExchangeRecord

SharesMatched == SumOf(MatchedShares, OrderIds) = SumOf(Shares, DOMAIN deals)

LEMMA SameBooks ==
    ASSUME Inv, Inv', SharesMatched, DOMAIN deals' = DOMAIN deals,
           \A d \in DOMAIN deals : deals'[d].shares = deals[d].shares,
           \A o \in OrderIds : exchange'[o].matched = exchange[o].matched
    PROVE  SharesMatched'
<1>1. PICK f, g, h, k : f = MatchedShares /\ g = MatchedShares' /\ h = Shares /\ k = Shares'
  OBVIOUS
<1>2. \A o \in OrderIds : f[o] = g[o]
  BY <1>1 DEF MatchedShares
<1>3. \A d \in DOMAIN deals : h[d] = k[d]
  BY <1>1 DEF Shares
<1>4. SumOf(f, OrderIds) = SumOf(g, OrderIds)
  BY <1>2, OrderIdsFinite, SumSame
<1>5. SumOf(h, DOMAIN deals) = SumOf(k, DOMAIN deals)
  BY <1>3, DealsFinite, SumSame
<1>. QED
  BY <1>1, <1>4, <1>5 DEF SharesMatched

LEMMA TradedBooks ==
    ASSUME Inv, Inv', SharesMatched, NEW o \in OrderIds, NEW y,
           NEW deal \in MakerDeals \cup TakerDeals, Traded(o, y, deal)
    PROVE  SharesMatched'
<1>1. PICK f, g, h, k : f = MatchedShares /\ g = MatchedShares' /\ h = Shares /\ k = Shares'
  OBVIOUS
<1>2. PICK D : D = MakerDeals \cup TakerDeals
  OBVIOUS
<1>3. deals \in Seq(D) /\ deal \in D /\ deals' = Append(deals, deal)
  BY <1>2 DEF Inv, DealsSound, Traded, Venue!Trade
<1>4. /\ Len(deals') = Len(deals) + 1 /\ deals'[Len(deals) + 1] = deal /\ Len(deals) \in Nat
      /\ \A d \in 1..Len(deals) : deals'[d] = deals[d]
      /\ DOMAIN deals' = 1..(Len(deals) + 1) /\ DOMAIN deals = 1..Len(deals)
  BY <1>3
<1>5. exchange' = [exchange EXCEPT ![o] = y] /\ y.matched = exchange[o].matched + deal.shares
  BY DEF Traded, Rewritten
<1>6. /\ \A p \in OrderIds : f[p] \in Int /\ g[p] \in Int
      /\ \A p \in OrderIds : p # o => f[p] = g[p]
      /\ g[o] = f[o] + deal.shares
  <2>1. /\ exchange'[o].matched = exchange[o].matched + deal.shares
        /\ \A p \in OrderIds : p # o => exchange'[p].matched = exchange[p].matched
    BY <1>5, OrderFacts
  <2>2. \A p \in OrderIds : f[p] = exchange[p].matched /\ g[p] = exchange'[p].matched
    BY <1>1 DEF MatchedShares
  <2>3. \A p \in OrderIds : exchange[p].matched \in Int
    BY MatchedNat
  <2>4. deal.shares \in Int
    BY DealFacts
  <2>. QED
    BY <2>1, <2>2, <2>3, <2>4
<1>7. SumOf(g, OrderIds) = SumOf(f, OrderIds) - f[o] + g[o]
  BY <1>6, OrderIdsFinite, SumChange
<1>8. /\ \A d \in DOMAIN deals : h[d] \in Int /\ k[d] = h[d]
      /\ k[Len(deals) + 1] = deal.shares /\ deal.shares \in Int
  BY <1>1, <1>2, <1>3, <1>4, DealsFinite, DealFacts DEF Shares
<1>9. PICK x : x = Len(deals) + 1
  OBVIOUS
<1>10. x \notin DOMAIN deals /\ DOMAIN deals' = DOMAIN deals \cup {x}
  BY <1>4, <1>9
<1>11. SumOf(k, DOMAIN deals') = SumOf(h, DOMAIN deals) + k[x]
  <2>1. PICK S, T : S = DOMAIN deals /\ T = DOMAIN deals'
    OBVIOUS
  <2>2. /\ IsFiniteSet(S) /\ x \notin S /\ T = S \cup {x} /\ k[x] \in Int
        /\ \A d \in S : h[d] \in Int
        /\ \A d \in S : k[d] = h[d]
    BY <1>8, <1>9, <1>10, <2>1, DealsFinite
  <2>. QED
    BY <2>1, <2>2, SumGrows
<1>12. SumOf(f, OrderIds) \in Int /\ SumOf(f, OrderIds) = SumOf(h, DOMAIN deals)
  BY <1>1, <1>6, OrderIdsFinite, SumInt DEF SharesMatched
<1>13. SumOf(g, OrderIds) = SumOf(k, DOMAIN deals')
  BY <1>6, <1>7, <1>8, <1>9, <1>11, <1>12
<1>. QED
  BY <1>1, <1>13 DEF SharesMatched

LEMMA SharesMatchedStep ==
    ASSUME Inv, [Next]_vars, SharesMatched
    PROVE  SharesMatched'
<1>0. Inv'
  BY StepInv
<1>1. ASSUME deals' = deals, exchange' = exchange
      PROVE  SharesMatched'
  BY <1>0, <1>1, SameBooks
<1>2. ASSUME NEW o \in OrderIds, NEW y, Placed(o, y)
      PROVE  SharesMatched'
  <2>1. \A p \in OrderIds : exchange'[p].matched = exchange[p].matched
    BY <1>2, OrderFacts DEF Placed, Rewritten
  <2>. QED
    BY <1>0, <1>2, <2>1, SameBooks DEF Placed
<1>3. ASSUME NEW d \in 1..Len(deals), NEW status, SettledAs(d, status)
      PROVE  SharesMatched'
  <2>1. DOMAIN deals' = DOMAIN deals /\ exchange' = exchange
    BY <1>3 DEF SettledAs
  <2>2. \A c \in DOMAIN deals : deals'[c].shares = deals[c].shares
    BY DealsFinite, TradeWireSteps DEF DealsKept
  <2>. QED
    BY <1>0, <2>1, <2>2, SameBooks
<1>4. CASE ExchangeMoves
  BY <1>0, <1>2, <1>3, <1>4, TradedBooks, ZenonT(30) DEF ExchangeMoves
<1>. QED
  BY <1>1, <1>4, VenueSteps DEF Received, Venue!Drop

\* The worker buys, so that only the dust written off leaves the position.
OnlyDustLeaves == positions[Token].pnl = 0 /\ closed[Token].shares >= 0

LEMMA OnlyDustLeavesStep ==
    ASSUME Inv, [Next]_vars, OnlyDustLeaves
    PROVE  OnlyDustLeaves'
<1>1. CASE UNCHANGED <<trades, positions, closed>>
  BY <1>1 DEF OnlyDustLeaves
<1>2. CASE MarketTradeLoop
  <2>1. PICK m : m = Head(tradeWire)
    OBVIOUS
  <2>2. m.id \in 1..Len(deals)
    BY <1>2, <2>1, TradeLoopHandles
  <2>3. PICK e \in Ledger!TradeEvents :
          /\ Manager!HandleTradeEvent(e) /\ e.order = deals[m.id].order /\ e.token = Token
    BY <1>2, <2>1, TradeLoopHandles
  <2>4. e.order \in OrderIds
    BY <2>2, <2>3, DealFacts DEF Inv, DealsSound
  <2>5. orders[e.order].side = "BUY"
    BY <2>4, OrderFacts DEF Sound, OrderAgrees
  <2>6. PICK p, q, c, a : /\ p = positions[Token] /\ c = closed[Token]
                          /\ a = Manager!CashAmount(e, "BUY")
                          /\ q = Manager!ApplyConfirmedTrade(p, "BUY", a, e.shares)
    OBVIOUS
  <2>7. positions \in [{Token} -> Manager!Position] /\ p \in Manager!Position
    BY <2>6, ManagerFacts DEF Inv
  <2>8. closed \in [{Token} -> Ledger!Books] /\ c \in Ledger!Books
    BY <2>6 DEF Inv, Ledger!TypeInv, Ledger!LedgerInv
  <2>9. \/ UNCHANGED <<positions, closed>>
        \/ /\ positions' = [positions EXCEPT ![Token] = Manager!ClearDust(q)]
           /\ closed' = [closed EXCEPT ![Token] = Manager!Residue(c, q)]
    BY <2>3, <2>5, <2>6 DEF Manager!HandleTradeEvent
  <2>10. q.pnl = p.pnl /\ q.shares = p.shares + e.shares /\ q.shares \in Nat
    BY <2>6, <2>7 DEF Manager!ApplyConfirmedTrade, Manager!Position, Ledger!TradeEvents
  <2>11. Manager!ClearDust(q).pnl = p.pnl
    BY <2>6, <2>7, <2>10 DEF Manager!ClearDust, Manager!ApplyConfirmedTrade, Manager!Position
  <2>12. c.shares >= 0 => Manager!Residue(c, q).shares >= 0
    BY <2>8, <2>10 DEF Manager!Residue, Ledger!Books
  <2>. QED
    BY <2>6, <2>7, <2>8, <2>9, <2>11, <2>12 DEF OnlyDustLeaves
<1>. QED
  BY <1>1, <1>2, BooksChange

-----------------------------------------------------------------------------
(* The invariant that the books rest on.                                   *)

Delivery == OrdersDelivered /\ TradesDelivered /\ BooksAgree

LEMMA InitDelivery ==
    ASSUME Init
    PROVE  Delivery
<1>1. /\ exchange = [o \in OrderIds |-> Venue!NoRecord] /\ deals = <<>>
      /\ positions = [k \in {Token} |-> Manager!NoPosition]
      /\ closed = [k \in {Token} |-> [shares |-> 0, cash |-> 0]]
  BY DEF Init, Venue!VenueInit, Manager!Init
<1>2. OrdersDelivered /\ TradesDelivered
  BY <1>1 DEF OrdersDelivered, TradesDelivered, Venue!NoRecord, Known
<1>3. PICK f : f = MatchedShares
  OBVIOUS
<1>4. \A o \in OrderIds : f[o] = 0
  BY <1>1, <1>3 DEF MatchedShares, Venue!NoRecord
<1>5. SumOf(f, OrderIds) = 0
  BY <1>4, OrderIdsFinite, SumZero
<1>6. SumOf(Shares, DOMAIN deals) = 0
  <2>1. PICK h : h = Shares
    OBVIOUS
  <2>2. DOMAIN deals = {}
    BY <1>1
  <2>3. SumOf(h, {}) = 0
    BY SumEmpty
  <2>. QED
    BY <2>1, <2>2, <2>3
<1>. QED
  BY <1>1, <1>2, <1>3, <1>5, <1>6 DEF Delivery, BooksAgree, Manager!NoPosition

LEMMA DeliveryStep ==
    ASSUME Inv, Delivery, [Next]_vars
    PROVE  Delivery'
<1>1. OrdersDelivered' /\ TradesDelivered'
  BY OrdersDeliveredStep, TradesDeliveredStep DEF Delivery
<1>2. SharesMatched /\ OnlyDustLeaves
  BY DEF Delivery, BooksAgree, SharesMatched, OnlyDustLeaves
<1>3. SharesMatched' /\ OnlyDustLeaves'
  BY <1>2, SharesMatchedStep, OnlyDustLeavesStep
<1>4. BooksAgree'
  BY <1>3 DEF BooksAgree, SharesMatched, OnlyDustLeaves
<1>. QED
  BY <1>1, <1>4 DEF Delivery

\* What the manager does not know yet of an order, or of a trade's outcome, is
\* on its way, unless the stream has lost a report of that kind.
THEOREM Delivered == Spec => [](Inv /\ Delivery)
<1>1. Init => Inv /\ Delivery
  BY InitInv, InitDelivery
<1>2. Inv /\ Delivery /\ [Next]_vars => Inv' /\ Delivery'
  BY StepInv, DeliveryStep
<1>. QED
  BY <1>1, <1>2, PTL DEF Spec

-----------------------------------------------------------------------------
(* The manager's books are those of the trades whose outcome it was told.  *)

Told(s) == {d \in 1..MaxDeals : trades[d].status = s}

Bought == Ledger!OrdersOf(Token, "BUY")

LEMMA TradeFacts ==
    ASSUME Inv, NEW d \in 1..MaxDeals, trades[d].status # "UNTRACKED"
    PROVE  /\ d \in DOMAIN deals /\ trades[d].shares = Shares[d] /\ Shares[d] \in Nat
           /\ trades[d].role = deals[d].role /\ trades[d].shares * trades[d].price = deals[d].amount
           /\ trades[d].order \in Bought
           /\ orders[trades[d].order].token = Token /\ orders[trades[d].order].side = "BUY"
<1>1. /\ d \in 1..Len(deals) /\ trades[d].order = deals[d].order
      /\ trades[d].shares = deals[d].shares /\ trades[d].role = deals[d].role
      /\ trades[d].price * trades[d].shares = deals[d].amount
  BY DEF Inv, Agreement, TradesAgree, TradeAgrees
<1>2. Shares[d] = deals[d].shares /\ Shares[d] \in Nat /\ d \in DOMAIN deals
  BY <1>1, DealsFinite
<1>3. deals[d].order \in OrderIds /\ Known(exchange[deals[d].order])
  BY <1>1, DealFacts DEF Inv, DealsSound
<1>4. PICK o : o = deals[d].order
  OBVIOUS
<1>5. o \in OrderIds /\ orders[o].side = "BUY" /\ orders[o].status # "UNTRACKED"
  BY <1>3, <1>4, OrderFacts DEF Sound, RecordSound, OrderAgrees
<1>6. orders[o].token = Token
  BY <1>5, ManagerFacts DEF Inv, Manager!Tracked
<1>7. trades[d].shares * trades[d].price = deals[d].amount
  <2>1. trades[d].shares \in Nat /\ trades[d].price \in Nat
    BY ManagerFacts DEF Inv, Manager!TradeRecord
  <2>. QED
    BY <1>1, <2>1
<1>. QED
  BY <1>1, <1>2, <1>4, <1>5, <1>6, <1>7 DEF Bought, Ledger!OrdersOf

LEMMA NothingSold ==
    ASSUME Inv
    PROVE  /\ Ledger!OrdersOf(Token, "SELL") = {} /\ Ledger!Mined(Token, "SELL") = {}
           /\ Bought \subseteq OrderIds /\ IsFiniteSet(Bought)
           /\ \A o \in OrderIds : o \in Bought <=> Manager!Tracked(o)
<1>1. \A o \in OrderIds : orders[o].side = "BUY" /\ (orders[o].token = Token <=> Manager!Tracked(o))
  BY OrderFacts, ManagerFacts DEF Inv, Sound, OrderAgrees
<1>2. Ledger!OrdersOf(Token, "SELL") = {}
  BY <1>1 DEF Ledger!OrdersOf
<1>3. Ledger!Mined(Token, "SELL") = {}
  BY TradeFacts DEF Ledger!Mined
<1>4. Bought \subseteq OrderIds /\ IsFiniteSet(Bought)
  <2>1. Bought \subseteq OrderIds
    BY DEF Bought, Ledger!OrdersOf
  <2>. QED
    BY <2>1, OrderIdsFinite, FS_Subset
<1>. QED
  BY <1>1, <1>2, <1>3, <1>4 DEF Bought, Ledger!OrdersOf

LEMMA ToldFinite ==
    ASSUME Inv, NEW s, s # "UNTRACKED"
    PROVE  Told(s) \subseteq DOMAIN deals /\ IsFiniteSet(Told(s))
<1>1. Told(s) \subseteq DOMAIN deals
  BY TradeFacts DEF Told
<1>. QED
  BY <1>1, DealsFinite, FS_Subset

\* The shares of an outcome, by order and in all.
LEMMA ToldShares ==
    ASSUME Inv, NEW s, s # "UNTRACKED", NEW h, \A o \in OrderIds : h[o] = Ledger!OnChain(o, s)
    PROVE  SumOf(h, Bought) = SumOf(Shares, Told(s)) /\ SumOf(Shares, Told(s)) \in Int
<1>1. PICK f : f = [d \in 1..MaxDeals |-> trades[d].shares]
  OBVIOUS
<1>2. PICK g : g = [d \in 1..MaxDeals |-> trades[d].order]
  OBVIOUS
<1>3. PICK S : S = Told(s)
  OBVIOUS
<1>4. PICK k : k = Shares
  OBVIOUS
<1>5. IsFiniteSet(S) /\ \A d \in S : f[d] \in Int /\ g[d] \in Bought /\ f[d] = k[d]
  <2>1. IsFiniteSet(S)
    BY <1>3, ToldFinite
  <2>2. ASSUME NEW d \in S
        PROVE  f[d] \in Int /\ g[d] \in Bought /\ f[d] = k[d]
    <3>1. d \in 1..MaxDeals /\ trades[d].status # "UNTRACKED"
      BY <1>3 DEF Told
    <3>2. trades[d].shares = k[d] /\ k[d] \in Nat /\ trades[d].order \in Bought
      BY <1>4, <3>1, TradeFacts
    <3>. QED
      BY <1>1, <1>2, <3>1, <3>2
  <2>. QED
    BY <2>1, <2>2
<1>6. ASSUME NEW o \in Bought
      PROVE  h[o] = SumOf(f, {d \in S : g[d] = o})
  <2>1. {d \in S : g[d] = o} = {d \in 1..MaxDeals : trades[d].order = o /\ trades[d].status = s}
    BY <1>2, <1>3 DEF Told
  <2>2. h[o] = Ledger!OnChain(o, s)
    BY NothingSold
  <2>. QED
    BY <1>1, <2>1, <2>2, SameSums DEF Ledger!OnChain
<1>7. SumOf(h, Bought) = SumOf(f, S)
  BY <1>5, <1>6, NothingSold, SumPartition, SMTT(30)
<1>8. SumOf(f, S) = SumOf(k, S) /\ SumOf(f, S) \in Int
  BY <1>5, SumSame, SumInt
<1>. QED
  BY <1>3, <1>4, <1>7, <1>8

LEMMA LedgerFacts ==
    ASSUME Inv
    PROVE  /\ Ledger!LedgerInv /\ Ledger!EffectiveIsCommitted
           /\ positions[Token] \in Manager!Position /\ closed[Token] \in Ledger!Books
<1>1. Ledger!LedgerInv
  BY DEF Inv, Ledger!TypeInv
<1>2. positions[Token] \in Manager!Position
  BY ManagerFacts DEF Inv
<1>3. closed[Token] \in Ledger!Books
  BY <1>1 DEF Ledger!LedgerInv
<1>. QED
  BY <1>1, <1>2, <1>3, Assumptions, Ledger!LedgerImplies

\* The shares held, with those written off as dust.
LEMMA HeldShares ==
    ASSUME Inv
    PROVE  positions[Token].shares + closed[Token].shares = SumOf(Shares, Told("SUCCESS"))
<1>1. PICK h : h = Ledger!MinedShares
  OBVIOUS
<1>2. \A o \in OrderIds : h[o] = Ledger!OnChain(o, "SUCCESS")
  BY <1>1 DEF Ledger!MinedShares
<1>3. SumOf(h, Bought) = SumOf(Shares, Told("SUCCESS")) /\ SumOf(Shares, Told("SUCCESS")) \in Int
  BY <1>2, ToldShares
<1>4. positions[Token].shares + closed[Token].shares =
        Ledger!SumOf(h, Bought) - Ledger!SumOf(h, Ledger!OrdersOf(Token, "SELL"))
  BY <1>1, LedgerFacts DEF Ledger!LedgerInv, Ledger!SharesLedger, Bought
<1>5. Ledger!SumOf(h, Bought) = SumOf(h, Bought)
      /\ Ledger!SumOf(h, Ledger!OrdersOf(Token, "SELL")) = 0
  BY NothingSold, SameSums, SumEmpty
<1>. QED
  BY <1>3, <1>4, <1>5

\* What was paid for them, fees included.
LEMMA HeldCost ==
    ASSUME Inv, positions[Token].pnl = 0
    PROVE  positions[Token].cost + closed[Token].cash = SumOf(Paid, Told("SUCCESS"))
<1>1. PICK f, g, h : f = Ledger!Gross /\ g = Ledger!TakerFee /\ h = Paid
  OBVIOUS
<1>2. PICK S : S = Told("SUCCESS")
  OBVIOUS
<1>3. Ledger!Mined(Token, "BUY") = S
  BY <1>2, TradeFacts DEF Told, Ledger!Mined
<1>4. ASSUME NEW d \in S
      PROVE  f[d] \in Int /\ g[d] \in Int /\ h[d] = f[d] + g[d]
  <2>1. /\ d \in DOMAIN deals /\ trades[d].shares = Shares[d] /\ Shares[d] \in Nat
        /\ trades[d].role = deals[d].role /\ trades[d].shares * trades[d].price = deals[d].amount
        /\ d \in 1..MaxDeals
    BY <1>2, TradeFacts DEF Told
  <2>2. Shares[d] = deals[d].shares /\ deals[d].amount \in Nat
    BY <2>1, DealsFinite, DealFacts DEF Inv, DealsSound
  <2>3. f[d] = deals[d].amount
    BY <1>1, <2>1 DEF Ledger!Gross
  <2>4. g[d] = IF deals[d].role = "TAKER" THEN deals[d].shares * FeePrice ELSE 0
    BY <1>1, <2>1, <2>2 DEF Ledger!TakerFee
  <2>5. deals[d].shares * FeePrice \in Int
    BY <2>1, <2>2, Assumptions, Ledger!ProductNat
  <2>. QED
    BY <1>1, <2>1, <2>2, <2>3, <2>4, <2>5 DEF Paid
<1>5. SumOf(h, S) = SumOf(f, S) + SumOf(g, S) /\ SumOf(f, S) \in Int /\ SumOf(g, S) \in Int
  BY <1>2, <1>4, ToldFinite, SumAdd, SumInt
<1>6. positions[Token].pnl - positions[Token].cost =
        closed[Token].cash + Ledger!SumOf(f, {}) - Ledger!SumOf(g, {})
          - Ledger!SumOf(f, S) - Ledger!SumOf(g, S)
  BY <1>1, <1>3, LedgerFacts, NothingSold DEF Ledger!LedgerInv, Ledger!CashLedger
<1>7. /\ Ledger!SumOf(f, {}) = 0 /\ Ledger!SumOf(g, {}) = 0
      /\ Ledger!SumOf(f, S) = SumOf(f, S) /\ Ledger!SumOf(g, S) = SumOf(g, S)
  BY SameSums, SumEmpty
<1>8. positions[Token].cost \in Int /\ closed[Token].cash \in Int
  BY LedgerFacts DEF Manager!Position, Ledger!Books
<1>. QED
  BY <1>1, <1>2, <1>5, <1>6, <1>7, <1>8

-----------------------------------------------------------------------------
(* Nothing is invented, and in the end nothing is missing.                 *)

LEMMA ToldIsTrue ==
    ASSUME Inv
    PROVE  Told("SUCCESS") \subseteq Settled /\ Told("FAILURE") \subseteq Failed
<1>. SUFFICES ASSUME NEW d \in 1..MaxDeals, trades[d].status \in Outcomes
              PROVE  /\ trades[d].status = "SUCCESS" => d \in Settled
                     /\ trades[d].status = "FAILURE" => d \in Failed
  BY DEF Told, Outcomes
<1>1. d \in DOMAIN deals /\ Outcome(deals[d].status) = trades[d].status
  BY TradeFacts DEF Inv, Agreement, TradesAgree, TradeAgrees, Outcomes
<1>. QED
  BY <1>1 DEF Outcome, Settled, Failed, DealsIn

LEMMA SettledShares ==
    ASSUME Inv
    PROVE  SumOf(Shares, Told("SUCCESS")) <= SumOf(Shares, Settled)
<1>1. PICK f, S, T : f = Shares /\ S = Settled /\ T = Told("SUCCESS")
  OBVIOUS
<1>2. T \subseteq S /\ S \subseteq DOMAIN deals
  BY <1>1, ToldIsTrue DEF Settled, DealsIn
<1>3. IsFiniteSet(S) /\ \A d \in S : f[d] \in Nat
  BY <1>1, <1>2, DealsFinite, FS_Subset
<1>. QED
  BY <1>1, <1>2, <1>3, SumSubset

LEMMA NothingInventedHolds ==
    ASSUME Inv, Delivery
    PROVE  NothingInvented
<1>1. \A o \in OrderIds : orders[o].matched <= exchange[o].matched
  BY OrderFacts DEF Sound, OrderAgrees
<1>2. \A d \in 1..MaxDeals : /\ trades[d].status = "SUCCESS" => d \in Settled
                             /\ trades[d].status = "FAILURE" => d \in Failed
  BY ToldIsTrue DEF Told
<1>3. positions[Token].shares <= SumOf(Shares, Settled)
  <2>1. PICK p, c, a, b : /\ p = positions[Token].shares /\ c = closed[Token].shares
                          /\ a = SumOf(Shares, Told("SUCCESS")) /\ b = SumOf(Shares, Settled)
    OBVIOUS
  <2>2. p + c = a /\ a <= b /\ c >= 0
    BY <2>1, HeldShares, SettledShares DEF Delivery, BooksAgree
  <2>3. p \in Int /\ c \in Int
    BY <2>1, LedgerFacts DEF Manager!Position, Ledger!Books
  <2>4. b \in Int
    <3>1. PICK f : f = Shares
      OBVIOUS
    <3>2. IsFiniteSet(Settled) /\ \A d \in Settled : f[d] \in Int
      BY <3>1, DealsFinite, FS_Subset DEF Settled, DealsIn
    <3>. QED
      BY <2>1, <3>1, <3>2, SumInt
  <2>5. p <= b
    BY <2>2, <2>3, <2>4
  <2>. QED
    BY <2>1, <2>5
<1>. QED
  BY <1>1, <1>2, <1>3 DEF NothingInvented

\* The manager believes in no match, no settlement and no holding that the
\* exchange does not have (stream.py:93-190, manager.py:423-578).
THEOREM NothingInventedCorrect == Spec => []NothingInvented
<1>1. Inv /\ Delivery => NothingInvented
  BY NothingInventedHolds
<1>. QED
  BY <1>1, Delivered, PTL

LEMMA QuietTold ==
    ASSUME Inv, Delivery, Quiet, NEW s \in Outcomes, KindOf(s) \notin lost
    PROVE  Told(s) = IF s = "SUCCESS" THEN Settled ELSE Failed
<1>1. ASSUME NEW d \in DOMAIN deals, Outcome(deals[d].status) = s
      PROVE  d \in Told(s)
  <2>1. d \in 1..Len(deals) /\ d \in 1..MaxDeals
    BY DealsFinite, QuantityAssumption DEF Inv, DealsSound
  <2>2. trades[d].status = s
    BY <1>1, <2>1 DEF Delivery, TradesDelivered, Quiet
  <2>. QED
    BY <2>1, <2>2 DEF Told
<1>. QED
  BY <1>1, ToldIsTrue DEF Settled, Failed, DealsIn, Outcome, Outcomes

LEMMA HoldingHolds ==
    ASSUME Inv, Delivery
    PROVE  HoldingAgrees
<1>. SUFFICES ASSUME Quiet, "success" \notin lost
              PROVE  /\ positions[Token].shares + closed[Token].shares = SumOf(Shares, Settled)
                     /\ positions[Token].cost + closed[Token].cash = SumOf(Paid, Settled)
  BY DEF HoldingAgrees
<1>1. Told("SUCCESS") = Settled
  BY QuietTold DEF Outcomes, KindOf
<1>. QED
  BY <1>1, HeldShares, HeldCost DEF Delivery, BooksAgree

\* Once all is quiet and no report of a settled trade is lost, the position is
\* the shares and the cost that the exchange has booked, but for written-off
\* dust (stream.py:116-190).
THEOREM HoldingCorrect == Spec => []HoldingAgrees
<1>1. Inv /\ Delivery => HoldingAgrees
  BY HoldingHolds
<1>. QED
  BY <1>1, Delivered, PTL

-----------------------------------------------------------------------------
(* What the engine takes as its position.                                  *)

LEMMA SameEffective ==
    Manager!Effective(Manager!CurrentPosition(Token)) = Ledger!Effective(Ledger!CurrentPosition(Token))
  BY DEF Manager!Effective, Ledger!Effective, Manager!CurrentPosition, Ledger!CurrentPosition,
         Manager!OrdersOf, Ledger!OrdersOf, Manager!Settling, Ledger!Settling, Manager!OnChain,
         Ledger!OnChain, Manager!SumOf, Ledger!SumOf, Manager!MapThenSumSet,
         Ledger!MapThenSumSet, Manager!MapThenFoldSet, Ledger!MapThenFoldSet

LiveOrders == {o \in OrderIds : exchange[o].status = "LIVE"}

\* An order at rest, when all its reports have arrived.
LEMMA QuietOrder ==
    ASSUME Inv, Delivery, Quiet, lost \cap {"order", "failure"} = {}, ghosts = {},
           NEW o \in OrderIds
    PROVE  /\ orders[o].matched = exchange[o].matched
           /\ orders[o].matched \in Nat /\ orders[o].pending \in Nat
           /\ o \notin Bought => exchange[o].matched = 0
           /\ o \in LiveOrders => o \in Bought /\ orders[o].pending = Remaining[o]
           /\ o \in Bought /\ o \notin LiveOrders => orders[o].pending = 0
<1>1. PICK r, t, a, x : r = orders[o] /\ t = tasks[o] /\ a = replies[o] /\ x = exchange[o]
  OBVIOUS
<1>2. /\ Sound(o, r, t, a, x, FALSE) /\ RecordKept(r, t) /\ x \in ExchangeRecord
  BY <1>1, OrderFacts DEF Sound
<1>3. Faithful(r, a, x) /\ RecordSound(x, r) /\ OrderAgrees(r, t, a, x)
  BY <1>2 DEF Sound
<1>4. r.matched \in Nat /\ r.pending \in Nat /\ x.matched \in Nat /\ r.status \in Manager!OrderStatus
  BY <1>2 DEF RecordKept, Manager!OrderRecord, ExchangeRecord
<1>5. o \in Bought <=> r.status # "UNTRACKED"
  BY <1>1, NothingSold DEF Manager!Tracked
<1>6. Remaining[o] = x.shares - x.matched /\ (o \in LiveOrders <=> x.status = "LIVE")
  BY <1>1 DEF Remaining, LiveOrders
<1>7. CASE Known(x)
  <2>1. CaughtUp(o)
    <3>1. CaughtUp(o) \/ \E n \in 1..Len(orderWire) : orderWire[n] = Venue!OrderReport(o, exchange[o])
      BY <1>1, <1>7 DEF Delivery, OrdersDelivered
    <3>. QED
      BY <3>1 DEF Quiet
  <2>2. r.matched = x.matched /\ (x.status # "LIVE" => r.pending = 0)
    BY <1>1, <2>1 DEF CaughtUp
  <2>3. r.status # "UNTRACKED" /\ x.shares = r.shares
    BY <1>3, <1>7 DEF RecordSound
  <2>4. x.status = "LIVE" => r.pending = r.shares - r.matched
    BY <1>3 DEF Faithful
  <2>. QED
    BY <1>1, <1>4, <1>5, <1>6, <2>2, <2>3, <2>4
<1>8. CASE ~Known(x)
  <2>1. x.matched = 0 /\ x.status # "LIVE" /\ r.matched <= x.matched
    BY <1>3, <1>8 DEF RecordSound, OrderAgrees, Known
  <2>2. r.status \in {"UNTRACKED", "SUBMITTING", "SUB_FAILED", "ZERO_MATCHED_CANCELED"}
    BY <1>3, <1>8 DEF OrderAgrees
  <2>3. t.submit = 0
    BY <1>1 DEF Quiet, Manager!NoTask
  <2>4. r.status # "SUBMITTING"
    BY <1>2, <2>3 DEF RecordKept
  <2>5. r.status # "UNTRACKED" => r.pending = 0
    BY <1>2, <2>2, <2>4 DEF RecordKept, Manager!IsCanceled, Manager!CanceledStatus
  <2>. QED
    BY <1>1, <1>4, <1>5, <1>6, <2>1, <2>5
<1>. QED
  BY <1>7, <1>8

LEMMA CommitmentHolds ==
    ASSUME Inv, Delivery
    PROVE  CommitmentAgrees
<1>. SUFFICES ASSUME Quiet, lost \cap {"order", "failure"} = {}, ghosts = {}
              PROVE  Manager!Effective(Manager!CurrentPosition(Token)) + closed[Token].shares =
                       SumOf(Remaining, LiveOrders) + SumOf(Shares, DOMAIN deals \ Failed)
  BY DEF CommitmentAgrees, LiveOrders
<1>1. PICK a, b, c, k, n, T :
        /\ a = [o \in OrderIds |-> orders[o].pending] /\ b = [o \in OrderIds |-> orders[o].matched]
        /\ c = [o \in OrderIds |-> Ledger!OnChain(o, "FAILURE")]
        /\ k = [o \in OrderIds |-> orders[o].pending + orders[o].matched]
        /\ n = Ledger!Committed /\ T = Bought
  OBVIOUS
<1>2. T \subseteq OrderIds /\ IsFiniteSet(T)
  BY <1>1, NothingSold
<1>3. ASSUME NEW o \in T
      PROVE  /\ a[o] \in Int /\ b[o] \in Int /\ c[o] \in Int /\ k[o] = a[o] + b[o] /\ n[o] \in Int
             /\ k[o] = n[o] + c[o]
  <2>1. o \in OrderIds /\ orders[o].matched \in Nat /\ orders[o].pending \in Nat
    BY <1>2, QuietOrder
  <2>2. Ledger!OnChain(o, "FAILURE") \in Int
    BY <2>1, LedgerFacts, Assumptions, Ledger!OnChainInt DEF Ledger!LedgerInv
  <2>3. n[o] = orders[o].pending + orders[o].matched - Ledger!OnChain(o, "FAILURE")
    BY <1>1, <2>1 DEF Ledger!Committed
  <2>. QED
    BY <1>1, <2>1, <2>2, <2>3
<1>4. /\ SumOf(k, T) = SumOf(a, T) + SumOf(b, T) /\ SumOf(k, T) = SumOf(n, T) + SumOf(c, T)
      /\ SumOf(a, T) \in Int /\ SumOf(b, T) \in Int /\ SumOf(c, T) \in Int /\ SumOf(n, T) \in Int
  <2>1. SumOf(k, T) = SumOf(a, T) + SumOf(b, T)
    BY <1>2, <1>3, SumAdd
  <2>2. SumOf(k, T) = SumOf(n, T) + SumOf(c, T)
    BY <1>2, <1>3, SumAdd
  <2>. QED
    BY <1>2, <1>3, <2>1, <2>2, SumInt
<1>5. SumOf(c, T) = SumOf(Shares, Failed)
  <2>1. Told("FAILURE") = Failed
    BY QuietTold DEF Outcomes, KindOf
  <2>2. \A o \in OrderIds : c[o] = Ledger!OnChain(o, "FAILURE")
    BY <1>1
  <2>3. SumOf(c, Bought) = SumOf(Shares, Told("FAILURE"))
    BY <2>2, ToldShares
  <2>. QED
    BY <1>1, <2>1, <2>3
<1>6. SumOf(b, T) = SumOf(Shares, DOMAIN deals)
  <2>1. PICK f, S : f = MatchedShares /\ S = OrderIds
    OBVIOUS
  <2>2. ASSUME NEW o \in S
        PROVE  /\ o \in T => f[o] \in Int /\ b[o] = f[o]
               /\ o \notin T => f[o] = 0
    BY <1>1, <2>1, QuietOrder, MatchedNat
  <2>3. SumOf(b, T) = SumOf(f, S)
    <3>1. /\ IsFiniteSet(S) /\ T \subseteq S
          /\ \A o \in T : f[o] \in Int /\ b[o] = f[o]
          /\ \A o \in S : o \notin T => f[o] = 0
      BY <1>2, <2>1, <2>2, OrderIdsFinite
    <3>. QED
      BY <3>1, SumFilter
  <2>. QED
    BY <2>1, <2>3 DEF Delivery, BooksAgree
<1>7. SumOf(a, T) = SumOf(Remaining, LiveOrders)
  <2>1. PICK g, L : g = Remaining /\ L = LiveOrders
    OBVIOUS
  <2>2. L \subseteq T /\ \A o \in L : a[o] \in Int /\ g[o] = a[o]
    <3>1. ASSUME NEW o \in L
          PROVE  o \in T /\ a[o] \in Int /\ g[o] = a[o]
      <4>1. o \in OrderIds
        BY <2>1 DEF LiveOrders
      <4>. QED
        BY <1>1, <1>3, <2>1, <4>1, QuietOrder
    <3>. QED
      BY <3>1
  <2>3. \A o \in T : o \notin L => a[o] = 0
    BY <1>1, <1>2, <2>1, QuietOrder
  <2>4. SumOf(g, L) = SumOf(a, T)
    BY <1>2, <2>2, <2>3, SumFilter
  <2>. QED
    BY <2>1, <2>4
<1>8. SumOf(Shares, DOMAIN deals) = SumOf(Shares, Failed) + SumOf(Shares, DOMAIN deals \ Failed)
      /\ SumOf(Shares, Failed) \in Int /\ SumOf(Shares, DOMAIN deals \ Failed) \in Int
  <2>1. PICK f, S, F : f = Shares /\ S = DOMAIN deals /\ F = Failed
    OBVIOUS
  <2>2. IsFiniteSet(S) /\ F \subseteq S
    BY <2>1, DealsFinite DEF Failed, DealsIn
  <2>3. \A d \in S : f[d] \in Int
    BY <2>1, DealsFinite
  <2>4. /\ SumOf(f, S) = SumOf(f, F) + SumOf(f, S \ F)
        /\ SumOf(f, F) \in Int /\ SumOf(f, S \ F) \in Int
    BY <2>2, <2>3, SumSplit, Zenon
  <2>. QED
    BY <2>1, <2>4
<1>9. Ledger!Effective(Ledger!CurrentPosition(Token)) + closed[Token].shares = SumOf(n, T)
  <2>1. Ledger!Effective(Ledger!CurrentPosition(Token)) + closed[Token].shares =
          Ledger!SumOf(n, T) - Ledger!SumOf(n, {})
    BY <1>1, LedgerFacts, NothingSold DEF Ledger!EffectiveIsCommitted, Bought
  <2>2. Ledger!SumOf(n, T) = SumOf(n, T) /\ Ledger!SumOf(n, {}) = 0
    BY SameSums, SumEmpty
  <2>. QED
    BY <1>4, <2>1, <2>2
<1>10. SumOf(n, T) = SumOf(Remaining, LiveOrders) + SumOf(Shares, DOMAIN deals \ Failed)
  <2>1. PICK p, q, s, u, v : /\ p = SumOf(Remaining, LiveOrders) /\ q = SumOf(Shares, DOMAIN deals \ Failed)
                             /\ s = SumOf(Shares, Failed) /\ u = SumOf(n, T) /\ v = SumOf(k, T)
    OBVIOUS
  <2>2. v = p + (s + q) /\ v = u + s
    BY <1>4, <1>5, <1>6, <1>7, <1>8, <2>1
  <2>3. p \in Int /\ q \in Int /\ s \in Int /\ u \in Int
    BY <1>4, <1>7, <1>8, <2>1
  <2>4. u = p + q
    BY <2>2, <2>3
  <2>. QED
    BY <2>1, <2>4
<1>. QED
  BY <1>9, <1>10, SameEffective

\* Once all is quiet and no report of an order or a failed trade is lost, the
\* effective shares are what is open and what has been matched and not failed
\* (manager.py:601-634).
THEOREM CommitmentCorrect == Spec => []CommitmentAgrees
<1>1. Inv /\ Delivery => CommitmentAgrees
  BY CommitmentHolds
<1>. QED
  BY <1>1, Delivered, PTL

-----------------------------------------------------------------------------
(* The live venue is one that the order manager was verified for.          *)

EventExpected(e) == Manager!Reportable(e) /\ Manager!Accepted(e)

ReportsExpected ==
    /\ orderWire # <<>> =>
         \E e \in Manager!OrderEvents :
            Venue!OrderEvents(Head(orderWire)) = {e} /\ EventExpected(e)
    /\ tradeWire # <<>> =>
         \E e \in Ledger!TradeEvents :
            /\ Venue!TradeEvents(Head(tradeWire)) = {e}
            /\ Manager!Accepted(e) /\ Manager!Repeats(e)
    /\ \A o \in OrderIds : \A n \in DOMAIN replies[o].reads :
         \A e \in replies[o].reads[n] : EventExpected(e)

LEMMA SameQuotient ==
    ASSUME NEW a \in Nat, NEW b \in Nat, NEW n \in Nat \ {0}, a * n = b * n
    PROVE  a = b
  OBVIOUS

LEMMA TrueIsExpected ==
    ASSUME Inv, NEW e \in Manager!OrderEvents, TrueEvent(e, exchange[e.order])
    PROVE  EventExpected(e)
<1>1. PICK o, r, x : o = e.order /\ r = orders[o] /\ x = exchange[o]
  OBVIOUS
<1>2. /\ o \in OrderIds /\ e.token = Token /\ e.matched \in Nat
  BY <1>1 DEF Manager!OrderEvents
<1>3. Sound(o, r, tasks[o], replies[o], x, o \in ghosts) /\ RecordKept(r, tasks[o])
      /\ x \in ExchangeRecord
  BY <1>1, <1>2, OrderFacts
<1>4. /\ r.status # "UNTRACKED" /\ x.shares = r.shares /\ x.matched <= x.shares
      /\ e.matched <= x.matched
  BY <1>1, <1>3 DEF Sound, RecordSound, TrueEvent
<1>5. r.shares \in Nat /\ x.matched \in Nat
  BY <1>3 DEF RecordKept, Manager!OrderRecord, ExchangeRecord
<1>6. r.token = Token
  BY <1>1, <1>2, <1>4, ManagerFacts DEF Inv, Manager!Tracked
<1>. QED
  BY <1>1, <1>2, <1>4, <1>5, <1>6 DEF EventExpected, Manager!Reportable, Manager!Accepted,
       Manager!Tracked

LEMMA ExpectedOrders ==
    ASSUME Inv, orderWire # <<>>
    PROVE  \E e \in Manager!OrderEvents :
              Venue!OrderEvents(Head(orderWire)) = {e} /\ EventExpected(e)
<1>1. PICK m : m = Head(orderWire)
  OBVIOUS
<1>2. PICK S : S = {i \in OrderReports : TrueReport(i)}
  OBVIOUS
<1>3. m \in S
  BY <1>1, <1>2 DEF Inv, Agreement, OrderWireTrue
<1>4. m \in OrderReports /\ TrueReport(m) /\ OrdersAgree
  BY <1>2, <1>3 DEF Inv, Agreement
<1>5. PICK e : e = EventOf(m)
  OBVIOUS
<1>6. /\ m.id \in OrderIds /\ m.matched \in Nat /\ m.status \in {"LIVE", "MATCHED", "CANCELED"}
  BY <1>4 DEF OrderReports
<1>7. e \in Manager!OrderEvents
  BY <1>5, <1>6 DEF EventOf, Manager!OrderEvents
<1>8. Venue!OrderEvents(m) = {e}
  BY <1>4, <1>5, OrderMessageSays DEF EventOf
<1>9. TrueEvent(e, exchange[e.order])
  BY <1>4, <1>5, <1>6 DEF EventOf, TrueEvent, TrueReport
<1>. QED
  BY <1>1, <1>7, <1>8, <1>9, TrueIsExpected

LEMMA ExpectedTrades ==
    ASSUME Inv, tradeWire # <<>>
    PROVE  \E e \in Ledger!TradeEvents :
              /\ Venue!TradeEvents(Head(tradeWire)) = {e}
              /\ Manager!Accepted(e) /\ Manager!Repeats(e)
<1>1. PICK m, d : m = Head(tradeWire) /\ d = m.id
  OBVIOUS
<1>2. m = tradeWire[1] /\ 1 \in 1..Len(tradeWire) /\ m \in TradeReportsTo(Len(deals))
  <2>1. PICK T : T = TradeReportsTo(Len(deals))
    OBVIOUS
  <2>2. tradeWire \in Seq(T)
    BY <2>1 DEF Inv, Agreement, TradeWireTrue, TradeReportsTo
  <2>. QED
    BY <1>1, <2>1, <2>2
<1>3. /\ d \in 1..Len(deals) /\ m.status \in Venue!MarketTradeStatus
      /\ m = Venue!TradeReport(d, m.status)
  BY <1>1, <1>2 DEF TradeReportsTo, Venue!TradeReport
<1>4. PICK p \in Nat :
        /\ Venue!TradeEvents(m) =
             {[trade |-> d, order |-> deals[d].order, token |-> Token, shares |-> deals[d].shares,
               price |-> p, role |-> deals[d].role, status |-> m.status]}
        /\ p * deals[d].shares = deals[d].amount
  BY <1>3, TradeMessageSays DEF Inv
<1>5. PICK e : e = [trade |-> d, order |-> deals[d].order, token |-> Token,
                    shares |-> deals[d].shares, price |-> p, role |-> deals[d].role,
                    status |-> m.status]
  OBVIOUS
<1>6. /\ d \in 1..MaxDeals /\ d \in DOMAIN deals /\ deals[d].order \in OrderIds
      /\ deals[d].role \in {"MAKER", "TAKER"} /\ deals[d].shares \in Nat \ {0}
      /\ Known(exchange[deals[d].order])
  <2>1. d \in 1..MaxDeals /\ d \in DOMAIN deals
    BY <1>3, QuantityAssumption, DealsFinite DEF Inv, DealsSound
  <2>. QED
    BY <1>3, <2>1, DealFacts DEF Inv, DealsSound
<1>7. e \in Ledger!TradeEvents
  BY <1>3, <1>5, <1>6 DEF Ledger!TradeEvents, Ledger!Role, Venue!MarketTradeStatus
<1>8. Manager!Accepted(e)
  <2>1. orders[deals[d].order].status # "UNTRACKED"
    BY <1>6, OrderFacts DEF Sound, RecordSound
  <2>. QED
    BY <1>5, <1>6, <2>1, ManagerFacts DEF Inv, Manager!Accepted, Manager!Tracked
<1>9. ASSUME NEW t, t = trades[d], t.status # "UNTRACKED"
      PROVE  /\ <<e.order, e.shares, e.price, e.role>> = <<t.order, t.shares, t.price, t.role>>
             /\ t.status = "SUCCESS" => e.status \in {"MINED", "CONFIRMED"}
  <2>1. /\ t.order = deals[d].order /\ t.shares = deals[d].shares /\ t.role = deals[d].role
        /\ t.price * t.shares = deals[d].amount
        /\ t.status \in Outcomes => Outcome(m.status) = t.status
    BY <1>1, <1>2, <1>6, <1>9 DEF Inv, Agreement, TradesAgree, TradeAgrees
  <2>2. t.price \in Nat
    BY <1>6, <1>9, ManagerFacts DEF Inv, Manager!TradeRecord
  <2>3. t.price = p
    BY <1>4, <1>6, <2>1, <2>2, SameQuotient
  <2>4. t.status = "SUCCESS" => m.status \in {"MINED", "CONFIRMED"}
    BY <2>1 DEF Outcome, Outcomes
  <2>. QED
    BY <1>5, <2>1, <2>3, <2>4
<1>10. Manager!Repeats(e)
  BY <1>5, <1>9 DEF Manager!Repeats
<1>. QED
  BY <1>1, <1>4, <1>5, <1>7, <1>8, <1>10

LEMMA ExpectedAlways ==
    ASSUME Inv
    PROVE  ReportsExpected
<1>1. ASSUME NEW o \in OrderIds, NEW n \in DOMAIN replies[o].reads, NEW e \in replies[o].reads[n]
      PROVE  EventExpected(e)
  <2>1. PICK reads : reads = replies[o].reads
    OBVIOUS
  <2>2. reads \in Seq(SUBSET Answers) /\ ReadsTrue(o, replies[o], exchange[o])
    BY <2>1, OrderFacts DEF Replies, Sound
  <2>3. n \in 1..Len(reads) /\ e \in reads[n]
    BY <1>1, <2>1, <2>2
  <2>4. e \in Answers
    BY <2>2, <2>3
  <2>5. e.order = o /\ TrueEvent(e, exchange[o])
    BY <2>1, <2>2, <2>3 DEF ReadsTrue
  <2>. QED
    BY <2>4, <2>5, TrueIsExpected DEF Answers
<1>. QED
  BY <1>1, ExpectedOrders, ExpectedTrades DEF ReportsExpected

\* The reports and replies of the live venue, as the stream and the clients
\* turn them into events, are those the manager's model counts on: of a
\* tracked order and its token, never of more shares than it asked for, and
\* of a trade always on the same terms.
THEOREM VenueIsExpected == Spec => []ReportsExpected
<1>1. Inv => ReportsExpected
  BY ExpectedAlways
<1>. QED
  BY <1>1, Invariance, PTL

\* Every step of live trading is a step of the order manager, or does not
\* touch it: its own theorems hold here too.
THEOREM ManagerRefined == Spec => Ledger!Init /\ [][Ledger!Next]_(Ledger!vars)
<1>1. Init => Ledger!Init
  BY SameInit DEF Init
<1>2. Inv /\ [Next]_vars => [Ledger!Next]_(Ledger!vars)
  BY LedgerTakesStep
<1>. QED
  BY <1>1, <1>2, Invariance, PTL DEF Spec
===============================================================================
