---------------------------- MODULE OrderManager ----------------------------
(***************************************************************************)
(* The order manager of one market worker (src/src/execution/manager.py):  *)
(* the orders and trades it tracks, the positions it derives from them,    *)
(* and the background tasks through which it submits, cancels and          *)
(* re-reads orders.                                                        *)
(*                                                                         *)
(* Everything runs on one asyncio loop.  The manager's lock is never held  *)
(* across a suspension, and publishing a CurrentPositionEvent never        *)
(* suspends (its only subscriber drops the oldest event when full), so a   *)
(* handler together with the publication that ends it is one step.  What   *)
(* does suspend is asyncio.to_thread: the time between the start of a      *)
(* submit, cancel or get call and its return is a state, recorded in       *)
(* `tasks', and anything may happen in it.                                 *)
(*                                                                         *)
(* The venue is the environment: it may report any matched quantity up to  *)
(* the size of an order, at any time once the order was handed to a submit *)
(* call and in any order, and may answer a call in any way.  Shares and    *)
(* money are integers (the code rounds both to 1e-6): one unit is a fixed  *)
(* fraction of a share.  Timestamps, audit records, logging and the        *)
(* notification of a trade are left out.                                   *)
(***************************************************************************)
EXTENDS Integers, FiniteSets, Sums

CONSTANTS
    Orders,       \* ids the venue's clients give to orders
    Trades,       \* ids the venue gives to trades
    Tokens,       \* the outcome tokens of the worker's market
    NoToken,      \* the token of an id that is not tracked
    NoId,         \* the order of a trade that is not tracked
    OrderSizes,   \* sizes the engine asks for
    Fills,        \* quantities the venue reports as matched on an order
    TradeSizes,   \* quantities of its trades
    Prices,       \* prices of a trade, in units of money per unit of share
    FeePrice,     \* fee a taker pays, in units of money per unit of share
    Payout,       \* what one unit of share of the winning token pays
    Dust,         \* _POSITION_SHARES_DUST
    MaxSyncs      \* bound: re-reads of one order in flight at a time

ASSUME QuantityAssumption ==
    /\ OrderSizes \subseteq Nat \ {0}
    /\ Fills \subseteq Nat
    /\ TradeSizes \subseteq Nat \ {0}
    /\ Prices \subseteq Nat
    /\ FeePrice \in Nat /\ Payout \in Nat /\ Dust \in Nat /\ MaxSyncs \in Nat

ASSUME IdAssumption == NoToken \notin Tokens /\ NoId \notin Orders

VARIABLES
    orders,      \* _orders_by_order_id: every id's ManagedOrder, or NoOrder
    trades,      \* _trades_by_trade_id: every id's ManagedTrade, or NoTrade
    positions,   \* _positions_by_token_id: an absent entry reads as zero
    tasks,       \* _background_tasks: calls in flight for every order
    published,   \* the last CurrentPositionEvent published for every token
    settled,     \* whether the worker's settlement has run
    closed       \* history: what left a position other than through a trade

vars == <<orders, trades, positions, tasks, published, settled, closed>>

-----------------------------------------------------------------------------
(* Records and the sets they range over.                                   *)

ActiveStatus == {"SUBMITTING", "ZERO_MATCHED", "PART_MATCHED"}
CanceledStatus == {"ZERO_MATCHED_CANCELED", "PART_MATCHED_CANCELED"}
OrderStatus == ActiveStatus \cup CanceledStatus
                 \cup {"UNTRACKED", "SUB_FAILED", "FULL_MATCHED"}

Side == {"BUY", "SELL"}
Role == {"MAKER", "TAKER"}

OrderRecord ==
    [status : OrderStatus, token : Tokens \cup {NoToken}, side : Side,
     role : Role, shares : Nat, pending : Nat, matched : Nat, invalid : Nat,
     should_cancel : BOOLEAN, is_cancelling : BOOLEAN]

NoOrder ==
    [status |-> "UNTRACKED", token |-> NoToken, side |-> "BUY",
     role |-> "MAKER", shares |-> 0, pending |-> 0, matched |-> 0,
     invalid |-> 0, should_cancel |-> FALSE, is_cancelling |-> FALSE]

NewOrder(token, side, role, shares) ==
    [status |-> "SUBMITTING", token |-> token, side |-> side,
     role |-> role, shares |-> shares, pending |-> shares, matched |-> 0,
     invalid |-> 0, should_cancel |-> FALSE, is_cancelling |-> FALSE]

TradeRecord ==
    [status : {"UNTRACKED", "PENDING", "SUCCESS", "FAILURE"},
     order : Orders \cup {NoId}, shares : Nat, price : Nat, role : Role]

NoTrade ==
    [status |-> "UNTRACKED", order |-> NoId, shares |-> 0, price |-> 0,
     role |-> "MAKER"]

Position == [shares : Nat, cost : Int, pnl : Int]
NoPosition == [shares |-> 0, cost |-> 0, pnl |-> 0]

TaskRecord == [submit : Nat, cancel : Nat, sync : Nat]
NoTask == [submit |-> 0, cancel |-> 0, sync |-> 0]

\* A push or a pull report on an order: `active' is status LIVE or MATCHED.
OrderEvents ==
    [order : Orders, token : Tokens, active : BOOLEAN, matched : Fills]

TradeEvents ==
    [order : Orders, token : Tokens, trade : Trades, shares : TradeSizes,
     price : Prices, role : Role,
     status : {"MATCHED", "RETRYING", "MINED", "CONFIRMED", "FAILED"}]

-----------------------------------------------------------------------------
(* What the manager reads off its records.                                 *)

Larger(a, b) == IF a >= b THEN a ELSE b
Smaller(a, b) == IF a <= b THEN a ELSE b

Tracked(o) == orders[o].status # "UNTRACKED"
IsActive(r) == r.status \in ActiveStatus
IsCanceled(r) == r.status \in CanceledStatus

\* Shares of the order's trades that have the given trade status.
OnChain(o, status) ==
    SumOf([t \in Trades |-> trades[t].shares],
          {t \in Trades : trades[t].order = o /\ trades[t].status = status})

\* Matched shares whose trades have neither settled nor failed yet.
Settling(o) ==
    orders[o].matched - OnChain(o, "SUCCESS") - OnChain(o, "FAILURE")

OrdersOf(k, side) == {o \in Orders : orders[o].token = k /\ orders[o].side = side}

CurrentPosition(k) ==
    LET pending == [o \in Orders |-> orders[o].pending]
        settling == [o \in Orders |-> Settling(o)]
    IN  [opening        |-> SumOf(pending, OrdersOf(k, "BUY")),
         open_settling  |-> SumOf(settling, OrdersOf(k, "BUY")),
         closing        |-> SumOf(pending, OrdersOf(k, "SELL")),
         close_settling |-> SumOf(settling, OrdersOf(k, "SELL")),
         holding        |-> positions[k]]

\* Mutant: a matched buy counts again only once its trade has settled.
EffectiveUnsettled(p) == p.opening + p.holding.shares - p.closing - p.close_settling

Effective(p) ==
    p.opening + p.open_settling + p.holding.shares - p.closing - p.close_settling

\* Mutant: a purchase that only moves shares into the holding is not seen.
SignatureOpenOnly(p) == <<p.opening, p.closing, p.holding.pnl>>

\* What the runtime state compares to tell a new position from the last one.
Signature(p) == <<p.opening, p.closing, p.holding>>

\* _publish_current_position_event, for every token of ks, after the step.
Publish(ks) ==
    published' = [k \in Tokens |-> IF k \in ks THEN CurrentPosition(k)' ELSE published[k]]

-----------------------------------------------------------------------------
Init ==
    /\ orders = [o \in Orders |-> NoOrder]
    /\ trades = [t \in Trades |-> NoTrade]
    /\ positions = [k \in Tokens |-> NoPosition]
    /\ tasks = [o \in Orders |-> NoTask]
    /\ published = [k \in Tokens |->
                      [opening |-> 0, open_settling |-> 0, closing |-> 0,
                       close_settling |-> 0, holding |-> NoPosition]]
    /\ settled = FALSE
    /\ closed = [k \in Tokens |-> [shares |-> 0, cash |-> 0]]

(***************************************************************************)
(* Submission.  The id comes from create_*_order; a call that raises       *)
(* leaves no trace in the manager.                                         *)
(***************************************************************************)
CreateOrder(o, token, side, role, shares) ==
    /\ ~Tracked(o)
    /\ orders' = [orders EXCEPT ![o] = NewOrder(token, side, role, shares)]
    /\ tasks' = [tasks EXCEPT ![o].submit = 1]
    /\ UNCHANGED <<trades, positions, settled, closed>>
    /\ Publish({token})

\* Mutant: a deferred cancel does not keep a second one from starting.
CancelStartsTwice(r) ==
    IsActive(r) /\ r.status # "SUBMITTING" /\ ~r.is_cancelling

\* Whether cancel() starts a cancel call for the order.
CancelStarts(r) ==
    /\ IsActive(r) /\ r.status # "SUBMITTING"
    /\ ~r.is_cancelling /\ ~r.should_cancel

CancelRequested(r) ==
    [r EXCEPT !.should_cancel = @ \/ r.status = "SUBMITTING",
              !.is_cancelling = @ \/ CancelStarts(r)]

\* Mutants: the deferred cancel is dropped; it is taken up before the status
\* leaves SUBMITTING.
SubmittedForgetting(r) == [r EXCEPT !.status = "ZERO_MATCHED", !.should_cancel = FALSE]
SubmittedLate(r) == IF r.should_cancel THEN r ELSE [r EXCEPT !.status = "ZERO_MATCHED"]

Submitted(r) == [r EXCEPT !.status = "ZERO_MATCHED"]

\* Mutant: no order is re-read after its submission.
NoSyncAfterSubmit(r) == 0

\* A taker order is re-read once its submission has succeeded.
SyncAfterSubmit(r) == IF r.role = "TAKER" THEN 1 ELSE 0

SubmitCallEnds(t, syncs, cancels) ==
    [t EXCEPT !.submit = @ - 1, !.sync = @ + syncs, !.cancel = IF cancels THEN @ + 1 ELSE @]

\* A deferred cancel is taken up as soon as the submit call has succeeded.
SubmitSuccess(o) ==
    LET r == Submitted(orders[o])
        s == [r EXCEPT !.should_cancel = FALSE]
    IN  /\ tasks[o].submit > 0
        /\ tasks[o].sync + SyncAfterSubmit(r) <= MaxSyncs
        /\ orders' = [orders EXCEPT ![o] = IF r.should_cancel THEN CancelRequested(s) ELSE r]
        /\ tasks' = [tasks EXCEPT ![o] =
             SubmitCallEnds(@, SyncAfterSubmit(r), r.should_cancel /\ CancelStarts(s))]
        /\ UNCHANGED <<trades, positions, settled, closed>>
        /\ Publish({r.token})

\* Mutant: the pending shares are not cleared.
RefusedKeepingPending(r) ==
    [r EXCEPT !.should_cancel = FALSE,
              !.status = IF r.should_cancel THEN "ZERO_MATCHED_CANCELED" ELSE "SUB_FAILED"]

SubmitRefused(r) ==
    [r EXCEPT !.invalid = r.pending, !.pending = 0, !.should_cancel = FALSE,
              !.status = IF r.should_cancel THEN "ZERO_MATCHED_CANCELED" ELSE "SUB_FAILED"]

\* An exception takes the same path but is re-raised before the publication.
SubmitFailed(o, raised) ==
    /\ tasks[o].submit > 0
    /\ orders' = [orders EXCEPT ![o] = SubmitRefused(@)]
    /\ tasks' = [tasks EXCEPT ![o].submit = @ - 1]
    /\ UNCHANGED <<trades, positions, settled, closed>>
    /\ Publish(IF raised THEN {} ELSE {orders[o].token})

(***************************************************************************)
(* Cancellation.  A request that finds the order untracked, inactive or    *)
(* already being cancelled changes nothing.                                *)
(***************************************************************************)
Cancel(o) ==
    /\ IsActive(orders[o])
    /\ orders' = [orders EXCEPT ![o] = CancelRequested(@)]
    /\ tasks' = [tasks EXCEPT ![o].cancel = IF CancelStarts(orders[o]) THEN @ + 1 ELSE @]
    /\ UNCHANGED <<trades, positions, published, settled, closed>>

CancelDone(r) ==
    [r EXCEPT !.is_cancelling = FALSE, !.invalid = r.pending, !.pending = 0,
              !.status = IF r.matched = 0 THEN "ZERO_MATCHED_CANCELED"
                                          ELSE "PART_MATCHED_CANCELED"]

CancelSuccess(o) ==
    /\ tasks[o].cancel > 0
    /\ orders' = [orders EXCEPT ![o] = CancelDone(@)]
    /\ tasks' = [tasks EXCEPT ![o].cancel = @ - 1]
    /\ UNCHANGED <<trades, positions, settled, closed>>
    /\ Publish({orders[o].token})

CancelCallEnds(t, syncs) ==
    [t EXCEPT !.cancel = @ - 1, !.sync = IF syncs THEN @ + 1 ELSE @]

\* `over': the reason says "matched" or "canceled", so the order is re-read.
CancelFailed(o, over, raised) ==
    /\ tasks[o].cancel > 0
    /\ over => tasks[o].sync < MaxSyncs
    /\ orders' = [orders EXCEPT ![o].is_cancelling = FALSE]
    /\ tasks' = [tasks EXCEPT ![o] = CancelCallEnds(@, over)]
    /\ UNCHANGED <<trades, positions, settled, closed>>
    /\ Publish(IF raised THEN {} ELSE {orders[o].token})

(***************************************************************************)
(* Order events.  An event of an untracked order, or of another token, is  *)
(* logged and ignored.  The event repeats the size the order was created   *)
(* with, so a venue never reports more than that as matched.               *)
(***************************************************************************)
Reportable(e) == e.matched <= orders[e.order].shares

Accepted(e) == Tracked(e.order) /\ e.token = orders[e.order].token

\* Mutant: the invalid shares are computed before the late match is taken in.
ClosedStale(r, e) ==
    [r EXCEPT !.matched = Larger(@, e.matched), !.invalid = r.shares - r.matched,
              !.pending = 0,
              !.status = IF Larger(r.matched, e.matched) = 0
                         THEN "ZERO_MATCHED_CANCELED" ELSE "PART_MATCHED_CANCELED"]

Closed(r, e) ==
    LET m == Larger(r.matched, e.matched)
    IN  [r EXCEPT !.matched = m,
                  !.invalid = IF r.shares > m THEN r.shares - m ELSE 0,
                  !.pending = 0,
                  !.status = IF m = 0 THEN "ZERO_MATCHED_CANCELED"
                                      ELSE "PART_MATCHED_CANCELED"]

\* Matched to at least _MATCHED_SHARES_RATE, or all but dust.
IsFull(m, p, shares) == 100 * m >= 98 * shares \/ p <= Dust

\* Mutant: every report subtracts the matched total from what is pending.
OpenSubtracting(r, e) ==
    [r EXCEPT !.matched = Larger(@, e.matched), !.pending = @ - e.matched, !.invalid = 0,
              !.status = IF r.matched + e.matched = 0 THEN "ZERO_MATCHED" ELSE "PART_MATCHED"]

Open(r, e) ==
    LET m == Larger(r.matched, e.matched)
        p == Smaller(r.pending, r.shares - e.matched)
    IN  [r EXCEPT !.matched = m, !.pending = p, !.invalid = 0,
                  !.status = IF m = 0 THEN "ZERO_MATCHED"
                             ELSE IF IsFull(m, p, r.shares) THEN "FULL_MATCHED"
                             ELSE "PART_MATCHED"]

\* Mutant: a late report of a live order reopens a canceled one.
AfterEventReopening(r, e) == IF ~e.active THEN Closed(r, e) ELSE Open(r, e)

AfterEvent(r, e) == IF ~e.active \/ IsCanceled(r) THEN Closed(r, e) ELSE Open(r, e)

HandleOrderEvent(e) ==
    /\ Reportable(e) /\ Accepted(e)
    /\ orders' = [orders EXCEPT ![e.order] = AfterEvent(@, e)]
    /\ UNCHANGED <<trades, positions, tasks, settled, closed>>
    /\ Publish({e.token})

\* A re-read returns: the order's report is handled like a pushed one.
SyncReturns(e) ==
    /\ Reportable(e) /\ e.token = orders[e.order].token
    /\ tasks[e.order].sync > 0
    /\ orders' = [orders EXCEPT ![e.order] = AfterEvent(@, e)]
    /\ tasks' = [tasks EXCEPT ![e.order].sync = @ - 1]
    /\ UNCHANGED <<trades, positions, settled, closed>>
    /\ Publish({e.token})

\* The re-read finds no order, or raises: the task only ends.
SyncFails(o) ==
    /\ tasks[o].sync > 0
    /\ tasks' = [tasks EXCEPT ![o].sync = @ - 1]
    /\ UNCHANGED <<orders, trades, positions, published, settled, closed>>

(***************************************************************************)
(* Trade events.                                                           *)
(***************************************************************************)
\* The venue repeats a trade's terms, and a mined trade stays mined.
Repeats(e) ==
    LET t == trades[e.trade]
    IN  t.status # "UNTRACKED" =>
          /\ <<e.order, e.shares, e.price, e.role>> = <<t.order, t.shares, t.price, t.role>>
          /\ t.status = "SUCCESS" => e.status \in {"MINED", "CONFIRMED"}

\* Mutant: only a confirmed trade counts as settled.
TradeStatusConfirmed(e) ==
    IF e.status = "CONFIRMED" THEN "SUCCESS" ELSE IF e.status = "FAILED" THEN "FAILURE" ELSE "PENDING"

TradeStatus(e) ==
    CASE e.status \in {"MINED", "CONFIRMED"} -> "SUCCESS"
      [] e.status = "FAILED" -> "FAILURE"
      [] OTHER -> "PENDING"

\* Mutant: every successful report counts as the first.
SuccessReported(e) == TradeStatus(e) = "SUCCESS"

BecomesSuccess(e) == trades[e.trade].status # "SUCCESS" /\ TradeStatus(e) = "SUCCESS"

FeeAmount(e) == IF e.role = "TAKER" THEN e.shares * FeePrice ELSE 0

CashAmount(e, side) ==
    IF side = "BUY" THEN e.shares * e.price + FeeAmount(e) ELSE e.shares * e.price - FeeAmount(e)

\* The cost of that many shares of a position, at its average price.
CostOf(p, shares) == IF p.shares <= Dust THEN 0 ELSE (shares * p.cost) \div p.shares

\* Mutant: a sale books its proceeds as profit without the cost of the shares.
ApplyWithoutCost(p, side, amount, shares) ==
    IF side = "BUY"
    THEN [p EXCEPT !.shares = @ + shares, !.cost = @ + amount]
    ELSE [p EXCEPT !.shares = @ - shares, !.cost = @ - CostOf(p, shares), !.pnl = @ + amount]

ApplyConfirmedTrade(p, side, amount, shares) ==
    IF side = "BUY"
    THEN [p EXCEPT !.shares = @ + shares, !.cost = @ + amount]
    ELSE [p EXCEPT !.shares = @ - shares, !.cost = @ - CostOf(p, shares),
                   !.pnl = @ + amount - CostOf(p, shares)]

\* Mutant: the cost of the dust stays in the position.
ClearDustShares(p) == IF p.shares <= Dust THEN [p EXCEPT !.shares = 0] ELSE p

ClearDust(p) == IF p.shares <= Dust THEN [p EXCEPT !.shares = 0, !.cost = 0] ELSE p

\* History: what clearing dust takes out of a position.
Residue(c, p) ==
    IF p.shares <= Dust THEN [c EXCEPT !.shares = @ + p.shares, !.cash = @ + p.cost] ELSE c

HandleTradeEvent(e) ==
    LET side == orders[e.order].side
        p == ApplyConfirmedTrade(positions[e.token], side, CashAmount(e, side), e.shares)
    IN  /\ Accepted(e) /\ Repeats(e)
        /\ trades' = [trades EXCEPT ![e.trade] =
             [status |-> TradeStatus(e), order |-> e.order, shares |-> e.shares,
              price |-> e.price, role |-> e.role]]
        /\ IF BecomesSuccess(e)
           THEN /\ positions' = [positions EXCEPT ![e.token] = ClearDust(p)]
                /\ closed' = [closed EXCEPT ![e.token] = Residue(@, p)]
           ELSE UNCHANGED <<positions, closed>>
        /\ UNCHANGED <<orders, tasks, settled>>
        /\ Publish({e.token})

(***************************************************************************)
(* Settlement of the market: what is held and not committed to a sell that *)
(* is still settling is closed at the payout price.                        *)
(***************************************************************************)
SettlingShares(k) ==
    LET held == positions[k].shares
        committed == CurrentPosition(k).close_settling
        free == IF committed \in 0..held THEN held - committed
                ELSE IF committed < 0 THEN held ELSE 0
    IN  IF free <= Dust THEN 0 ELSE free

PayoutPrice(k, winner) == IF k = winner THEN Payout ELSE 0

SettledPosition(p, s, price) ==
    [p EXCEPT !.shares = @ - s, !.cost = @ - CostOf(p, s), !.pnl = @ + s * price - CostOf(p, s)]

SettleMarket(winner) ==
    LET after(k) ==
          SettledPosition(positions[k], SettlingShares(k), PayoutPrice(k, winner))
        paid(k) ==
          [shares |-> closed[k].shares + SettlingShares(k),
           cash |-> closed[k].cash + SettlingShares(k) * PayoutPrice(k, winner)]
    IN  /\ ~settled /\ settled' = TRUE
        /\ positions' = [k \in Tokens |->
             IF SettlingShares(k) = 0 THEN positions[k] ELSE ClearDust(after(k))]
        /\ closed' = [k \in Tokens |->
             IF SettlingShares(k) = 0 THEN closed[k] ELSE Residue(paid(k), after(k))]
        /\ UNCHANGED <<orders, trades, tasks>>
        /\ Publish(Tokens)

-----------------------------------------------------------------------------
SubmitReturns(o) == SubmitSuccess(o) \/ \E raised \in BOOLEAN : SubmitFailed(o, raised)

CancelReturns(o) ==
    CancelSuccess(o) \/ \E over, raised \in BOOLEAN : CancelFailed(o, over, raised)

OrderStep(o) ==
    \/ \E k \in Tokens, d \in Side, r \in Role, n \in OrderSizes : CreateOrder(o, k, d, r, n)
    \/ SubmitSuccess(o)
    \/ \E raised \in BOOLEAN : SubmitFailed(o, raised)
    \/ Cancel(o)
    \/ CancelSuccess(o)
    \/ \E over, raised \in BOOLEAN : CancelFailed(o, over, raised)
    \/ SyncFails(o)

Next ==
    \/ \E o \in Orders : OrderStep(o)
    \/ \E e \in OrderEvents : HandleOrderEvent(e)
    \/ \E e \in OrderEvents : SyncReturns(e)
    \/ \E e \in TradeEvents : HandleTradeEvent(e)
    \/ \E winner \in Tokens : SettleMarket(winner)

\* A call to the venue's clients returns: their HTTP requests time out.
Fairness == \A o \in Orders : WF_vars(SubmitReturns(o)) /\ WF_vars(CancelReturns(o))

Spec == Init /\ [][Next]_vars /\ Fairness
-----------------------------------------------------------------------------
(* Properties.                                                             *)

\* The part of the state that the handlers assign field by field.
CoreTypeOK ==
    /\ orders \in [Orders -> OrderRecord]
    /\ trades \in [Trades -> TradeRecord]
    /\ positions \in [Tokens -> Position]
    /\ tasks \in [Orders -> TaskRecord]
    /\ settled \in BOOLEAN

\* Every variable has its type: records of the manager keep the fields the
\* handlers read, and no quantity of an order ever goes below zero.
TypeOK ==
    /\ CoreTypeOK
    /\ published \in [Tokens -> [opening : Int, open_settling : Int, closing : Int,
                                 close_settling : Int, holding : Position]]
    /\ closed \in [Tokens -> [shares : Int, cash : Int]]

\* What can be relied on of an order's open shares, in whatever order submit,
\* cancel and get calls return and events arrive: as long as it has shares
\* pending, these and the matched ones are all it asked for, nothing of it is
\* called invalid, and it is not called over.  Of what enums.py:37-44 says of
\* the statuses this leaves three lines: an order still submitting is untouched
\* (38), one partly matched is so within the manager's thresholds (41), and one
\* canceled as partly matched has a match (44).  The others do not hold: see
\* MockTrading and LiveTrading.
PendingIsWhole ==
    \A o \in Orders : LET r == orders[o] IN
        /\ r.pending > 0 => /\ r.pending = r.shares - r.matched /\ r.invalid = 0
                            /\ ~IsCanceled(r) /\ r.status # "SUB_FAILED"
        /\ r.status = "SUBMITTING" => /\ r.pending = r.shares /\ r.matched = 0
                                      /\ tasks[o].submit = 1
        /\ r.status = "PART_MATCHED" => /\ 0 < r.matched /\ 100 * r.matched < 98 * r.shares
                                        /\ r.shares - r.matched > Dust
        /\ r.status = "PART_MATCHED_CANCELED" => r.matched > 0

\* The quantities of an order never add up to more than was asked for, so
\* no position counts shares twice, even when a late match overtakes the
\* reply of a cancel that had already written the order off.
SharesBounded ==
    \A o \in Orders :
        orders[o].matched + orders[o].pending + orders[o].invalid <= orders[o].shares

\* One cancel call at a time: is_cancelling is up exactly while a cancel
\* call is in flight; a deferred cancel waits for a submit call that is
\* still to return, and never stands beside a running one.
CancelBookkeeping ==
    \A o \in Orders :
        /\ tasks[o].submit \in {0, 1}
        /\ tasks[o].cancel = IF orders[o].is_cancelling THEN 1 ELSE 0
        /\ orders[o].should_cancel => tasks[o].submit = 1 /\ ~orders[o].is_cancelling

\* A position is either empty, without a residual cost, or more than dust at
\* a cost that is not negative, whatever trades and settlement did to it.
PositionIsClean ==
    \A k \in Tokens :
        \/ positions[k].shares = 0 /\ positions[k].cost = 0
        \/ positions[k].shares > Dust /\ positions[k].cost >= 0

Committed ==
    [o \in Orders |-> orders[o].pending + orders[o].matched - OnChain(o, "FAILURE")]

\* effective_shares is what its docstring says, "position size after all
\* pending and settling orders finish": pending and matched shares of every
\* order count once, failed trades not at all, and a trade that settles only
\* moves shares from settling to holding (events.py:23).
EffectiveIsCommitted ==
    \A k \in Tokens :
        Effective(CurrentPosition(k)) + closed[k].shares =
            SumOf(Committed, OrdersOf(k, "BUY")) - SumOf(Committed, OrdersOf(k, "SELL"))

Mined(k, side) ==
    {t \in Trades : /\ trades[t].status = "SUCCESS"
                    /\ orders[trades[t].order].token = k
                    /\ orders[trades[t].order].side = side}

Gross == [t \in Trades |-> trades[t].shares * trades[t].price]
TakerFee ==
    [t \in Trades |-> IF trades[t].role = "TAKER" THEN trades[t].shares * FeePrice ELSE 0]

\* Money is conserved: realized profit less the cost still held is the cash
\* of every mined trade, counted once and net of taker fees, plus what
\* settlement paid and what was written off as dust (manager.py:504-599).
CashLedger ==
    \A k \in Tokens :
        positions[k].pnl - positions[k].cost =
            closed[k].cash + SumOf(Gross, Mined(k, "SELL")) - SumOf(TakerFee, Mined(k, "SELL"))
              - SumOf(Gross, Mined(k, "BUY")) - SumOf(TakerFee, Mined(k, "BUY"))

\* An order that is over and whose submit call has returned never becomes
\* active again, whatever is reported late: get_position_by_token would
\* otherwise offer the engine a dead order to cancel.  One whose submission
\* failed is not over: a report that the exchange has it makes it active.
NoResurrection ==
    [][\A o \in Orders :
         /\ tasks[o].submit = 0
         /\ IsCanceled(orders[o]) \/ orders[o].status = "FULL_MATCHED"
         => ~IsActive(orders'[o])]_vars

\* A cancel deferred by a pending submit is not forgotten: the flag goes
\* down only when a cancel call starts or the order turns out dead.
DeferredCancelHonoured ==
    [][\A o \in Orders :
         orders[o].should_cancel /\ ~orders'[o].should_cancel =>
             orders'[o].is_cancelling \/ IsCanceled(orders'[o])]_vars

\* The strategy hears of every change of a position: the step that makes it
\* publishes the new one, and the runtime state does not take it for the one
\* it already has.  Its signature leaves the settling shares out, so what it
\* misses is a trade that fails or is retried, a match reported late on an
\* order that had nothing pending, and a trade that settles into nothing but
\* written-off dust; and a submit call that raises.
StrategyIsTold ==
    [][\A k \in Tokens :
         LET was == CurrentPosition(k)
             is == CurrentPosition(k)'
         IN  is # was =>
               \/ published'[k] = is /\ Signature(is) # Signature(was)
               \/ \E t \in Trades : trades'[t].status # trades[t].status
                                  /\ "FAILURE" \in {trades'[t].status, trades[t].status}
               \/ \E o \in Orders : orders[o].token = k /\ orders[o].pending = 0
                                  /\ orders'[o].matched > orders[o].matched
               \/ positions'[k] = positions[k] /\ closed'[k] # closed[k]
               \/ \E o \in Orders : orders[o].token = k /\ SubmitFailed(o, TRUE)]_vars

\* A position changes only when the market settles or when one of the
\* token's trades succeeds for the first time: repeated MINED and CONFIRMED
\* reports of a trade do not apply it again.
TradeAppliedOnce ==
    [][\A k \in Tokens :
         positions'[k] # positions[k] =>
             \/ settled' # settled
             \/ \E t \in Trades : /\ trades[t].status # "SUCCESS"
                                  /\ trades'[t].status = "SUCCESS"
                                  /\ orders[trades'[t].order].token = k]_vars

\* A cancel requested while the order is being submitted is acted on.
DeferredCancelResolved ==
    \A o \in Orders :
        orders[o].should_cancel ~> orders[o].is_cancelling \/ ~IsActive(orders[o])
=============================================================================
