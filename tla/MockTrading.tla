----------------------------- MODULE MockTrading -----------------------------
(***************************************************************************)
(* Paper trading end to end: the execution engine decides, the order       *)
(* manager places and cancels orders, the paper venue fills and reports    *)
(* them, and two queues of the event bus bring the reports back, one for   *)
(* order events and one for trade events (execution/component.py).         *)
(*                                                                         *)
(* Three kinds of actors interleave: the tasks of the event loop (the      *)
(* engine, the two report loops, the stream, the manager's background      *)
(* tasks), the worker threads that make the venue calls, and the clock.  A *)
(* call is made by a thread (Thread...) and its result is handled on the   *)
(* loop later (...Returns); in between, everything else may move.          *)
(*                                                                         *)
(* Order ids are the numbers of the orders, in the order of their          *)
(* creation.  The venue fills an order with one trade, so a trade has the  *)
(* id of its order.  The prices a strategy sees are left out: what depends *)
(* on them (is the active order too old or mispriced, does a quote cross   *)
(* it) is a free choice.                                                   *)
(***************************************************************************)
EXTENDS Integers, Sequences, FiniteSets, SequencesExt, Sums, Selections

CONSTANTS
    Tokens,         \* the two outcome tokens of the market
    NoToken,        \* the token of an unused id
    DesiredShares,  \* positions the strategy may ask for
    MakerShares,    \* MAKER_SHARES_THRESHOLD
    ReplaceGap,     \* _replace_shares_gap
    Price, FeePrice, Payout, Dust,
    Winners,        \* bound: tokens the market may settle on within the run
    MaxOrders,      \* bound: orders a worker places
    MaxSyncs        \* bound: re-reads of one order in flight

OrderIds == 1..MaxOrders

ASSUME TradingAssumption ==
    /\ DesiredShares \subseteq Nat
    /\ {MakerShares, ReplaceGap, Price, FeePrice, Payout, Dust, MaxOrders, MaxSyncs} \subseteq Nat
    /\ Dust < ReplaceGap /\ DesiredShares # {}
    /\ NoToken \notin Tokens /\ Winners \subseteq Tokens

VARIABLES
    orders, trades, positions, tasks, published, settled, closed,
    store, book, fills, events, aged, ripe, loop, scan, outbox,
    creating,       \* the order a create call is under way for, with the engine's lock held
    replies,        \* per order: the cancel reply and the reports its threads hold
    orderQueue,     \* execution.market-order
    tradeQueue,     \* execution.market-trade
    sent            \* history: per order, the reports the stream has published

Manager ==
    INSTANCE OrderManager WITH
        Orders <- OrderIds, Trades <- OrderIds, NoId <- 0,
        OrderSizes <- Nat \ {0}, Fills <- Nat, TradeSizes <- Nat \ {0}, Prices <- {Price}

Venue == INSTANCE MockExchange WITH Orders <- OrderIds, Absent <- NoToken

managerVars == <<orders, trades, positions, tasks, published, settled, closed>>
venueVars == <<store, book, fills, events, aged, ripe, loop, scan, outbox>>
busVars == <<orderQueue, tradeQueue, sent>>
vars == <<managerVars, venueVars, creating, replies, busVars>>

NoCreate == <<>>
NoReply == [cancel |-> "none", reads |-> <<>>]

Init ==
    /\ Manager!Init
    /\ Venue!VenueInit
    /\ creating = NoCreate
    /\ replies = [o \in OrderIds |-> NoReply]
    /\ orderQueue = <<>> /\ tradeQueue = <<>>
    /\ sent = [o \in OrderIds |-> <<>>]

-----------------------------------------------------------------------------
(* The engine.  It handles one token's desired position at a time, under   *)
(* its lock, which it keeps while a create call is under way.  Nothing     *)
(* suspends between reading the position and acting on it.                 *)

Unused == {o \in OrderIds : ~Manager!Tracked(o)}

\* Mutant: an order that is being cancelled does not count as active.
UncancelledOrders(k) ==
    {o \in OrderIds : /\ Manager!IsActive(orders[o]) /\ orders[o].token = k
                      /\ ~orders[o].should_cancel /\ ~orders[o].is_cancelling}

\* get_position_by_token: the first active order of the token, if any.
ActiveOrders(k) ==
    {o \in OrderIds : Manager!IsActive(orders[o]) /\ orders[o].token = k}
ActiveOrder(k) == CHOOSE o \in ActiveOrders(k) : \A p \in ActiveOrders(k) : o <= p

\* Mutant: what was bought may be sold before its trade has settled.
SellableMatched(p) == p.open_settling + p.holding.shares - p.closing - p.close_settling

Sellable(p) == Manager!Larger(p.holding.shares - p.closing - p.close_settling, 0)

\* The side and size that would bring the token to the desired position.
Adjustment(k, desired) ==
    LET p == Manager!CurrentPosition(k)
        current == Manager!Effective(p)
        a == ActiveOrder(k)
    IN  CASE desired > current -> [side |-> "BUY", shares |-> desired - current]
          [] desired < current ->
               [side |-> "SELL",
                shares |-> IF ActiveOrders(k) = {} \/ orders[a].side = "SELL"
                           THEN Manager!Smaller(current - desired, Sellable(p))
                           ELSE current - desired]
          [] OTHER ->
               IF ActiveOrders(k) = {} THEN [side |-> "BUY", shares |-> 0]
               ELSE [side |-> orders[a].side, shares |-> orders[a].pending]

\* buy() or sell(): the create call starts; an order id it returns is new.
StartOrder(k, desired, force) ==
    LET adj == Adjustment(k, desired)
    IN  /\ creating = NoCreate /\ Unused # {}
        /\ adj.shares >= ReplaceGap /\ ActiveOrders(k) = {}
        /\ creating' = <<[token |-> k, side |-> adj.side, shares |-> adj.shares,
                          role |-> IF ~force /\ adj.shares >= MakerShares
                                   THEN "MAKER" ELSE "TAKER"]>>
        /\ UNCHANGED <<managerVars, venueVars, replies, busVars>>

\* `stale': the active order's time to live is over or its price has moved.
ReplaceOrder(k, desired, stale) ==
    LET adj == Adjustment(k, desired)
    IN  /\ creating = NoCreate
        /\ adj.shares >= ReplaceGap /\ ActiveOrders(k) # {}
        /\ orders[ActiveOrder(k)].side # adj.side \/ stale
        /\ Manager!Cancel(ActiveOrder(k))
        /\ UNCHANGED <<venueVars, creating, replies, busVars>>

CreateReturns ==
    /\ creating # NoCreate
    /\ LET o == CHOOSE i \in Unused : \A j \in Unused : i <= j
           c == creating[1]
       IN  Manager!CreateOrder(o, c.token, c.side, c.role, c.shares)
    /\ creating' = NoCreate
    /\ UNCHANGED <<venueVars, replies, busVars>>

\* The worker's settlement waits for the engine's lock.
Settle(winner) ==
    /\ creating = NoCreate
    /\ Manager!SettleMarket(winner)
    /\ UNCHANGED <<venueVars, creating, replies, busVars>>

-----------------------------------------------------------------------------
(* Calls of the manager's background tasks.                                *)

ThreadSubmits(o) ==
    /\ tasks[o].submit = 1
    /\ Venue!Submit(o, orders[o].token, orders[o].role)
    /\ UNCHANGED <<managerVars, creating, replies, busVars>>

SubmitReturns(o) ==
    /\ store[o].status # "NEW"
    /\ Manager!SubmitSuccess(o)
    /\ UNCHANGED <<venueVars, creating, replies, busVars>>

ThreadCancels(o) ==
    /\ tasks[o].cancel > 0 /\ replies[o].cancel = "none"
    /\ Venue!CancelStore(o)
    /\ replies' = [replies EXCEPT ![o].cancel = Venue!CancelReply(o)]
    /\ UNCHANGED <<managerVars, creating, busVars>>

CancelReturns(o) ==
    /\ \/ replies[o].cancel = "ok" /\ Manager!CancelSuccess(o)
       \/ replies[o].cancel = "matched" /\ Manager!CancelFailed(o, TRUE, FALSE)
    /\ replies' = [replies EXCEPT ![o].cancel = "none"]
    /\ UNCHANGED <<venueVars, creating, busVars>>

\* The venue's report on an order, as an event of the manager.
Report(o, status) ==
    [order |-> o, token |-> orders[o].token, active |-> status # "CANCELED",
     matched |-> IF status = "MATCHED" THEN orders[o].shares ELSE 0]

ThreadReads(o) ==
    /\ Len(replies[o].reads) < tasks[o].sync
    /\ replies' = [replies EXCEPT ![o].reads = Append(@, store[o].status)]
    /\ UNCHANGED <<managerVars, venueVars, creating, busVars>>

\* Threads may return in another order than they read.
ReadReturns(o) ==
    \E n \in DOMAIN replies[o].reads :
        /\ Manager!SyncReturns(Report(o, replies[o].reads[n]))
        /\ replies' = [replies EXCEPT ![o].reads = RemoveAt(@, n)]
        /\ UNCHANGED <<venueVars, creating, busVars>>

-----------------------------------------------------------------------------
(* Reports on their way from the stream to the manager.                    *)

Publish ==
    /\ Venue!Yield
    /\ IF Head(outbox).kind = "order"
       THEN orderQueue' = Append(orderQueue, Head(outbox)) /\ UNCHANGED tradeQueue
       ELSE tradeQueue' = Append(tradeQueue, Head(outbox)) /\ UNCHANGED orderQueue
    /\ sent' = [sent EXCEPT ![Head(outbox).order] = Append(@, Head(outbox))]
    /\ UNCHANGED <<managerVars, creating, replies>>

MarketOrderLoop ==
    /\ orderQueue # <<>>
    /\ Manager!HandleOrderEvent(Report(Head(orderQueue).order, Head(orderQueue).status))
    /\ orderQueue' = Tail(orderQueue)
    /\ UNCHANGED <<venueVars, creating, replies, tradeQueue, sent>>

MarketTradeLoop ==
    LET o == Head(tradeQueue).order
    IN  /\ tradeQueue # <<>>
        /\ Manager!HandleTradeEvent(
             [order |-> o, token |-> orders[o].token, trade |-> o, shares |-> orders[o].shares,
              price |-> Price, role |-> orders[o].role, status |-> Head(tradeQueue).status])
        /\ tradeQueue' = Tail(tradeQueue)
        /\ UNCHANGED <<venueVars, creating, replies, orderQueue, sent>>

\* The stream and the clock move without touching the rest.
VenueMoves(A) == A /\ UNCHANGED <<managerVars, creating, replies, busVars>>

-----------------------------------------------------------------------------
\* The worker process ends with the settlement.
Running == ~settled

Next ==
    \/ \E k \in Tokens, desired \in DesiredShares, force \in BOOLEAN :
         Running /\ StartOrder(k, desired, force)
    \/ \E k \in Tokens, desired \in DesiredShares, stale \in BOOLEAN :
         Running /\ ReplaceOrder(k, desired, stale)
    \/ Running /\ CreateReturns
    \/ \E winner \in Winners : Running /\ Settle(winner)
    \/ \E o \in OrderIds : Running /\ ThreadSubmits(o)
    \/ \E o \in OrderIds : Running /\ SubmitReturns(o)
    \/ \E o \in OrderIds : Running /\ ThreadCancels(o)
    \/ \E o \in OrderIds : Running /\ CancelReturns(o)
    \/ \E o \in OrderIds : Running /\ ThreadReads(o)
    \/ \E o \in OrderIds : Running /\ ReadReturns(o)
    \/ Running /\ Publish
    \/ Running /\ MarketOrderLoop
    \/ Running /\ MarketTradeLoop
    \/ \E k \in Tokens : Running /\ VenueMoves(Venue!StartQuote(k))
    \/ Running /\ VenueMoves(Venue!StartPoll)
    \/ Running /\ VenueMoves(Venue!StreamStep)
    \/ Running /\ VenueMoves(Venue!Ripen)
    \/ \E o \in OrderIds : Running /\ VenueMoves(Venue!Age(o))

(***************************************************************************)
(* Threads and loop tasks that can run do run; a venue call returns; the   *)
(* stream's timer is served although quotes keep coming.  Nothing forces   *)
(* the strategy to ask for anything, nor a quote to cross an order.        *)
(***************************************************************************)
Fairness ==
    /\ WF_vars(Running /\ CreateReturns)
    /\ \A o \in OrderIds :
         /\ WF_vars(Running /\ ThreadSubmits(o)) /\ WF_vars(Running /\ SubmitReturns(o))
         /\ WF_vars(Running /\ ThreadCancels(o)) /\ WF_vars(Running /\ CancelReturns(o))
         /\ WF_vars(Running /\ ThreadReads(o)) /\ WF_vars(Running /\ ReadReturns(o))
         /\ WF_vars(Running /\ VenueMoves(Venue!Age(o)))
    /\ WF_vars(Running /\ MarketOrderLoop) /\ WF_vars(Running /\ MarketTradeLoop)
    /\ WF_vars(Running /\ VenueMoves(Venue!StreamStep)) /\ SF_vars(Running /\ VenueMoves(Venue!Ripen))
    /\ SF_vars(Running /\ VenueMoves(Venue!StartPoll)) /\ SF_vars(Running /\ Publish)

Safety == Init /\ [][Next]_vars

Spec == Safety /\ Fairness

-----------------------------------------------------------------------------
(* Properties.                                                             *)

TypeOK ==
    /\ Manager!TypeOK
    /\ Len(creating) <= 1
    /\ creating \in Seq([token : Tokens, side : Manager!Side, shares : Nat, role : Manager!Role])
    /\ replies \in [OrderIds -> [cancel : {"none", "ok", "matched"},
                                 reads : Seq({"LIVE", "MATCHED", "CANCELED"})]]
    /\ orderQueue \in Seq(Venue!Events) /\ tradeQueue \in Seq(Venue!Events)
    /\ sent \in [OrderIds -> Seq(Venue!Events)]
    /\ fills \in Seq([order : OrderIds, status : {"MATCHED", "MINED"}])
    /\ store \in [OrderIds -> [status : Venue!OrderStatus, role : Manager!Role,
                               token : Tokens \cup {NoToken}]]
    /\ book \in Seq(OrderIds) /\ scan \in Seq(OrderIds)
    /\ events \in Seq(Venue!Events) /\ outbox \in Seq(Venue!Events)
    /\ aged \subseteq OrderIds /\ ripe \in 0..Len(fills)
    /\ loop \in {"idle", "quote", "poll", "drain"}

Shares == [o \in OrderIds |-> orders[o].shares]

\* Orders the venue has, or will have once the submit call gets there.
Placed(k, side, statuses) ==
    {o \in OrderIds : /\ Manager!Tracked(o) /\ orders[o].token = k /\ orders[o].side = side
                      /\ store[o].status \in statuses}

Delivered(k) ==
    {o \in Placed(k, "BUY", {"MATCHED"}) :
       \E n \in DOMAIN fills : fills[n] = [order |-> o, status |-> "MINED"]}

\* The worker never sells what it does not have: however late the venue's
\* reports are, all that it has sold, or could still sell, was bought and
\* delivered before (engine.py:84, events.py:34).
NeverOversold ==
    \A k \in Tokens :
        SumOf(Shares, Placed(k, "SELL", {"NEW", "LIVE", "MATCHED"})) <= SumOf(Shares, Delivered(k))

\* The worker never buys the same shares twice: if all its open purchases were
\* to match and none of its open sells, it would still hold no more than it
\* has desired to hold, but for what it wrote off as dust (engine.py:70).
NeverOverbought ==
    ~settled => \A k \in Tokens : \E d \in DesiredShares :
        SumOf(Shares, Placed(k, "BUY", {"NEW", "LIVE", "MATCHED"}))
          - SumOf(Shares, Placed(k, "SELL", {"MATCHED"})) <= d + closed[k].shares

\* The engine decides on positions that lag the venue, and yet what its orders
\* may come to is bounded both ways.
ExposureBounded == NeverOversold /\ NeverOverbought

\* At most one order of a token is open at the venue or on its way there,
\* although the manager learns of matches and cancels late: a replacement is
\* created only when the order it replaces cannot trade any more.
OneOpenOrder ==
    \A k \in Tokens :
        \A o, p \in Placed(k, "BUY", {"NEW", "LIVE"}) \cup Placed(k, "SELL", {"NEW", "LIVE"}) : o = p

\* When the manager calls an order over, the venue does too, and in the same
\* way: nothing it believes canceled has traded or will trade.
VerdictsAgree ==
    \A o \in OrderIds :
        /\ Manager!IsCanceled(orders[o]) => store[o].status = "CANCELED"
        /\ orders[o].status = "FULL_MATCHED" => store[o].status = "MATCHED"

\* The venue's verdicts are final: neither a confirmed cancel nor a match is
\* taken back by a cancel call or a fill that was on its way (mock/store.py).
OutcomeIsFinal ==
    [][\A o \in OrderIds :
         store[o].status \in {"MATCHED", "CANCELED"} => store'[o].status = store[o].status]_vars

EventsOf(o) == {e \in Venue!Events : e.order = o}

\* The reports of an order are, in this order and without repetition, either
\* its cancellation or its match, its trade and the trade's settlement; the
\* order manager relies on a trade never going back from MINED (mock/stream.py,
\* manager.py handle_trade_event).
ReportsInOrder ==
    \A o \in OrderIds :
        LET reports == sent[o] \o OnlyIn(outbox \o events, EventsOf(o))
        IN  \/ IsPrefix(reports, <<Venue!OrderEvent(o, "CANCELED")>>)
            \/ IsPrefix(reports, <<Venue!OrderEvent(o, "MATCHED"), Venue!TradeEvent(o, "MATCHED"),
                                   Venue!TradeEvent(o, "MINED")>>)

Quiet ==
    /\ creating = NoCreate /\ loop = "idle"
    /\ events = <<>> /\ outbox = <<>> /\ orderQueue = <<>> /\ tradeQueue = <<>>
    /\ \A n \in DOMAIN fills : fills[n].status = "MINED"
    /\ \A o \in OrderIds : tasks[o] = Manager!NoTask

\* Once all calls have returned and all reports are in, in whatever order,
\* the position is what the venue has traded, less dust, and nothing is left
\* pending or settling but what rests on the venue's book.
QuietMeansAgreed ==
    Quiet /\ ~settled => \A k \in Tokens :
        LET p == Manager!CurrentPosition(k) IN
        /\ p.holding.shares + closed[k].shares =
             SumOf(Shares, Placed(k, "BUY", {"MATCHED"})) - SumOf(Shares, Placed(k, "SELL", {"MATCHED"}))
        /\ p.open_settling = 0 /\ p.close_settling = 0
        /\ p.opening = SumOf(Shares, Placed(k, "BUY", {"LIVE"}))
        /\ p.closing = SumOf(Shares, Placed(k, "SELL", {"LIVE"}))

\* A taker order ends, and stays ended: if its reports overtake the reply of
\* its submit call, the re-read that follows puts its status right.
TakerOrderEnds ==
    \A o \in OrderIds :
        Manager!Tracked(o) /\ orders[o].role = "TAKER" ~>
            settled \/ [](~Manager!IsActive(orders[o]))

\* A cancel request ends with the order canceled or its trade in the books.
CancelEnds ==
    \A o \in OrderIds :
        orders[o].is_cancelling ~>
            settled \/ Manager!IsCanceled(orders[o]) \/ trades[o].status = "SUCCESS"

-----------------------------------------------------------------------------
(* What the source says of an order's status, and the interleavings refute. *)

\* The docstring of is_active: "off_chain_pending_shares > 0" (manager.py:69).
ActiveHasPending ==
    \A o \in OrderIds : Manager!IsActive(orders[o]) => orders[o].pending > 0

\* The docstring of is_canceled: "off_chain_invalid_shares > 0" (manager.py:78).
CanceledHasInvalid ==
    \A o \in OrderIds : Manager!IsCanceled(orders[o]) => orders[o].invalid > 0
=============================================================================
