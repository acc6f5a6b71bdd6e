----------------------------- MODULE LiveTrading -----------------------------
(***************************************************************************)
(* Live trading end to end: the order manager with the live clients, the   *)
(* exchange behind them and the user stream, whose reports reach the       *)
(* manager through two queues (execution/component.py).                    *)
(*                                                                         *)
(* Calls run in worker threads and return later, as in MockTrading.  What  *)
(* is new is that the venue cannot be relied on: the stream misses what is *)
(* reported while it reconnects and nothing asks for it again, a call may  *)
(* fail after it has taken effect, an order trades in parts, and a trade   *)
(* may fail on the chain.  The engine is free to place an order of any     *)
(* size of OrderSizes when it has none, and to cancel the one it has, but  *)
(* nothing obliges it to do either.                                        *)
(***************************************************************************)
EXTENDS Integers, Sequences, SequencesExt, Sums

CONSTANTS
    Token,          \* the token the worker buys
    OtherToken,     \* its complement
    NoToken, Wallet, Stranger, NoId,
    OrderSizes, MakerShares,
    Prices, Price, FeePrice, One, Dust,
    TakerFills,
    Chain, MaxOrders, MaxDeals, MaxDrops, MaxSyncs

OrderIds == 1..MaxOrders

VARIABLES
    orders, trades, positions, tasks, published, settled, closed,
    exchange, deals, orderWire, tradeWire, link, drops, lost, ghosts,
    replies         \* per order: what its threads bring back

Manager ==
    INSTANCE OrderManager WITH
        Orders <- OrderIds, Trades <- 1..MaxDeals, Tokens <- {Token},
        Fills <- Nat, TradeSizes <- Nat \ {0}, Payout <- One

Venue == INSTANCE LiveVenue WITH Orders <- OrderIds, Nobody <- NoId

MakerOrder ==
    [maker_address : {Stranger}, order_id : {NoId}, asset_id : {Token, OtherToken},
     matched_amount : Nat \ {0}, price : 0..One]

ASSUME QuantityAssumption ==
    /\ OrderSizes \subseteq Nat \ {0}
    /\ Prices \subseteq Nat /\ One \in Nat /\ Price \in 0..One
    /\ FeePrice \in Nat /\ Dust \in Nat
    /\ MaxOrders \in Nat /\ MaxDeals \in Nat /\ MaxDrops \in Nat \ {0} /\ MaxSyncs \in Nat

ASSUME NameAssumption == NoToken # Token /\ NoId \notin OrderIds /\ Wallet # Stranger

\* A taker's order meets parts of strangers' orders, at whole averages.
ASSUME TakerAssumption ==
    \A fill \in TakerFills :
        /\ fill \in [price : Nat, parts : Seq(MakerOrder)]
        /\ \A shares \in OrderSizes :
             Venue!Total(Venue!PartShares(fill.parts)) = shares =>
                 Venue!Total(Venue!PartMoney(fill.parts, Token)) % shares = 0

\* The outcome of a trade, once it has one, is final.
ASSUME ChainAssumption ==
    /\ Chain \in [Venue!MarketTradeStatus -> SUBSET Venue!MarketTradeStatus]
    /\ \A final \in {{"MINED", "CONFIRMED"}, {"FAILED"}} :
         \A status \in final : Chain[status] \subseteq final

managerVars == <<orders, trades, positions, tasks, published, settled, closed>>
venueVars == <<exchange, deals, orderWire, tradeWire, link, drops, lost, ghosts>>
vars == <<managerVars, venueVars, replies>>

NoReply == [submit |-> "none", cancel |-> "none", reads |-> <<>>]

Init ==
    /\ Manager!Init
    /\ Venue!VenueInit
    /\ replies = [o \in OrderIds |-> NoReply]

-----------------------------------------------------------------------------
(* The engine's decisions.                                                 *)

ActiveOrders == {o \in OrderIds : Manager!IsActive(orders[o])}

\* The id is new; a large order is a maker's unless it is forced.
StartOrder(o, shares, role) ==
    /\ ActiveOrders = {} /\ ~Manager!Tracked(o) /\ \A p \in 1..(o - 1) : Manager!Tracked(p)
    /\ role = "MAKER" => shares >= MakerShares
    /\ Manager!CreateOrder(o, Token, "BUY", role, shares)
    /\ UNCHANGED <<venueVars, replies>>

\* The desired side has changed, the price has moved, or the order is too old
\* and not forced.  Desires, prices and ages are the environment's, so that any
\* active order may be cancelled at any time, and none ever has to be.
ReplaceOrder(o) ==
    /\ o \in ActiveOrders
    /\ Manager!Cancel(o)
    /\ UNCHANGED <<venueVars, replies>>

-----------------------------------------------------------------------------
(* The calls of the manager's background tasks.                            *)

ThreadSubmits(o) ==
    /\ tasks[o].submit = 1 /\ replies[o].submit = "none"
    /\ \E ok \in BOOLEAN :
         /\ Venue!SubmitOrder(o, orders[o].role, Token, orders[o].shares, ok)
         /\ replies' = [replies EXCEPT ![o].submit = IF ok THEN "ok" ELSE "failed"]
    /\ UNCHANGED managerVars

SubmitReturns(o) ==
    /\ \/ replies[o].submit = "ok" /\ Manager!SubmitSuccess(o)
       \/ replies[o].submit = "failed" /\ Manager!SubmitFailed(o, FALSE)
    /\ replies' = [replies EXCEPT ![o].submit = "none"]
    /\ UNCHANGED venueVars

ThreadCancels(o, reply) ==
    /\ tasks[o].cancel > 0 /\ replies[o].cancel = "none"
    /\ Venue!CancelOrder(o, reply)
    /\ replies' = [replies EXCEPT ![o].cancel = reply]
    /\ UNCHANGED managerVars

\* Mutant: a cancel that failed with an error is taken for done.
CancelReturnsTrusting(o) ==
    /\ replies[o].cancel # "none" /\ Manager!CancelSuccess(o)
    /\ replies' = [replies EXCEPT ![o].cancel = "none"]
    /\ UNCHANGED venueVars

\* Mutant: an order that was over when it was to be cancelled is not re-read.
CancelReturnsForgetting(o) ==
    /\ \/ replies[o].cancel = "canceled" /\ Manager!CancelSuccess(o)
       \/ replies[o].cancel \in {"over", "error"} /\ Manager!CancelFailed(o, FALSE, FALSE)
    /\ replies' = [replies EXCEPT ![o].cancel = "none"]
    /\ UNCHANGED venueVars

CancelReturns(o) ==
    /\ \/ replies[o].cancel = "canceled" /\ Manager!CancelSuccess(o)
       \/ replies[o].cancel = "over" /\ Manager!CancelFailed(o, TRUE, FALSE)
       \/ replies[o].cancel = "error" /\ Manager!CancelFailed(o, FALSE, FALSE)
    /\ replies' = [replies EXCEPT ![o].cancel = "none"]
    /\ UNCHANGED venueVars

ThreadReads(o, answer) ==
    /\ Len(replies[o].reads) < tasks[o].sync
    /\ answer \in Venue!GetOrder(o)
    /\ replies' = [replies EXCEPT ![o].reads = Append(@, answer)]
    /\ UNCHANGED <<managerVars, venueVars>>

ReadReturns(o) ==
    \E n \in DOMAIN replies[o].reads :
        /\ LET answer == replies[o].reads[n]
           IN  IF answer = {} THEN Manager!SyncFails(o)
               ELSE \A e \in answer : Manager!SyncReturns(e)
        /\ replies' = [replies EXCEPT ![o].reads = RemoveAt(@, n)]
        /\ UNCHANGED venueVars

-----------------------------------------------------------------------------
(* Reports on their way from the stream to the manager.                    *)

\* A message that yields no event changes nothing.
HandleAll(Handle(_), events) ==
    IF events = {} THEN UNCHANGED managerVars ELSE \A e \in events : Handle(e)

MarketOrderLoop ==
    /\ orderWire # <<>>
    /\ HandleAll(Manager!HandleOrderEvent, Venue!OrderEvents(Head(orderWire)))
    /\ orderWire' = Tail(orderWire)
    /\ UNCHANGED <<exchange, deals, tradeWire, link, drops, lost, ghosts, replies>>

MarketTradeLoop ==
    /\ tradeWire # <<>>
    /\ HandleAll(Manager!HandleTradeEvent, Venue!TradeEvents(Head(tradeWire)))
    /\ tradeWire' = Tail(tradeWire)
    /\ UNCHANGED <<exchange, deals, orderWire, link, drops, lost, ghosts, replies>>

\* The exchange and the websocket move without touching the rest.
VenueMoves(A) == A /\ UNCHANGED <<managerVars, replies>>

-----------------------------------------------------------------------------
CancelReplies == {"canceled", "over", "error"}

Next ==
    \/ \E o \in OrderIds, shares \in OrderSizes, role \in {"MAKER", "TAKER"} : StartOrder(o, shares, role)
    \/ \E o \in OrderIds : ReplaceOrder(o)
    \/ \E o \in OrderIds : ThreadSubmits(o)
    \/ \E o \in OrderIds : SubmitReturns(o)
    \/ \E o \in OrderIds, reply \in CancelReplies : ThreadCancels(o, reply)
    \/ \E o \in OrderIds : CancelReturns(o)
    \/ \E o \in OrderIds : \E answer \in Venue!GetOrder(o) : ThreadReads(o, answer)
    \/ \E o \in OrderIds : ReadReturns(o)
    \/ MarketOrderLoop
    \/ MarketTradeLoop
    \/ \E o \in OrderIds : \E n \in 1..orders[o].shares : VenueMoves(Venue!MatchResting(o, n))
    \/ \E d \in 1..Len(deals) : VenueMoves(Venue!Settle(d))
    \/ VenueMoves(Venue!Connect)
    \/ VenueMoves(Venue!Drop)

(***************************************************************************)
(* Tasks and threads run, calls return, and a call repeated often enough   *)
(* is answered.  Nothing is assumed of the engine, which leaves a forced   *)
(* order alone while its price stands (engine.py:137) and any order while  *)
(* less than the gap is missing (engine.py:108), nor of the stream: it may *)
(* stay disconnected for ever.                                             *)
(***************************************************************************)
Fairness ==
    \A o \in OrderIds :
        /\ WF_vars(ThreadSubmits(o)) /\ WF_vars(SubmitReturns(o))
        /\ SF_vars(\E reply \in {"canceled", "over"} : ThreadCancels(o, reply))
        /\ WF_vars(CancelReturns(o))
        /\ SF_vars(\E answer \in Venue!GetOrder(o) \ {{}} : ThreadReads(o, answer))
        /\ WF_vars(ReadReturns(o))

Spec == Init /\ [][Next]_vars /\ Fairness

-----------------------------------------------------------------------------
(* Properties.                                                             *)

OrderReports ==
    [event_type : {"order"}, id : OrderIds, status : {"LIVE", "MATCHED", "CANCELED"}, matched : Nat]
TradeReports == [event_type : {"trade"}, id : 1..MaxDeals, status : Venue!MarketTradeStatus]

TypeOK ==
    /\ Manager!TypeOK
    /\ exchange \in [OrderIds -> [status : {"UNKNOWN", "LIVE", "MATCHED", "CANCELED"},
                                  token : {Token, NoId}, shares : Nat, matched : Nat]]
    /\ Len(deals) <= MaxDeals
    /\ orderWire \in Seq(OrderReports) /\ tradeWire \in Seq(TradeReports)
    /\ link \in {"connecting", "up"} /\ drops \in 0..MaxDrops
    /\ lost \subseteq {"order", "success", "failure"} /\ ghosts \subseteq OrderIds
    /\ \A o \in OrderIds :
         /\ replies[o].submit \in {"none", "ok", "failed"}
         /\ replies[o].cancel \in CancelReplies \cup {"none"}
         /\ replies[o].reads \in Seq(SUBSET [order : {o}, token : {Token}, active : BOOLEAN, matched : Nat])

Shares == [d \in DOMAIN deals |-> deals[d].shares]
Paid ==
    [d \in DOMAIN deals |->
        deals[d].amount + IF deals[d].role = "TAKER" THEN deals[d].shares * FeePrice ELSE 0]
Remaining == [o \in OrderIds |-> exchange[o].shares - exchange[o].matched]

DealsIn(statuses) == {d \in DOMAIN deals : deals[d].status \in statuses}
Settled == DealsIn({"MINED", "CONFIRMED"})
Failed == DealsIn({"FAILED"})

\* An order the manager no longer counts as active cannot trade any more,
\* unless what remains of it is what the manager takes for a full match; and
\* one it calls canceled has not traded in full, whatever was lost or overtook
\* what: the engine replaces an order only when it is out of the way.  The
\* exception are ghosts, orders accepted although their submission read as
\* failed (clients.py:75-85, manager.py:304-402).
OverMeansOver ==
    \A o \in OrderIds \ ghosts :
        LET x == exchange[o] IN
        /\ Manager!Tracked(o) /\ ~Manager!IsActive(orders[o]) /\ x.status = "LIVE" =>
             Manager!IsFull(x.matched, Remaining[o], x.shares)
        /\ Manager!IsCanceled(orders[o]) => x.status \in {"UNKNOWN", "CANCELED"}

\* The manager believes in nothing that has not happened, whatever was lost or
\* overtaken: no matched share, no settled trade and no held share that the
\* exchange does not have (stream.py:93-190, manager.py:423-578).
NothingInvented ==
    /\ \A o \in OrderIds : orders[o].matched <= exchange[o].matched
    /\ \A d \in 1..MaxDeals :
         /\ trades[d].status = "SUCCESS" => d \in Settled
         /\ trades[d].status = "FAILURE" => d \in Failed
    /\ positions[Token].shares <= SumOf(Shares, Settled)

Quiet ==
    /\ orderWire = <<>> /\ tradeWire = <<>>
    /\ \A o \in OrderIds : tasks[o] = Manager!NoTask

\* Unless the report that a trade has settled was lost, the position, with what
\* was written off as dust, ends up with the shares and at the cost the
\* exchange has booked, however the trade was put together from parts of
\* either token; reports of orders are not needed for that, nor is a
\* submission that was known to succeed (stream.py:116-190).
HoldingAgrees ==
    Quiet /\ "success" \notin lost =>
        /\ positions[Token].shares + closed[Token].shares = SumOf(Shares, Settled)
        /\ positions[Token].cost + closed[Token].cash = SumOf(Paid, Settled)

\* What the engine takes as its position, the effective shares, counts what
\* is still open and what has been matched and not failed, even if the reports
\* of settled trades are lost: such shares only stay in settling for ever
\* (manager.py:601-634, stream.py:33).  Only written-off dust is missing.
CommitmentAgrees ==
    Quiet /\ lost \cap {"order", "failure"} = {} /\ ghosts = {} =>
        Manager!Effective(Manager!CurrentPosition(Token)) + closed[Token].shares =
            SumOf(Remaining, {o \in OrderIds : exchange[o].status = "LIVE"})
              + SumOf(Shares, DOMAIN deals \ Failed)

\* The engine does not ask in vain: if it goes on cancelling an order that is
\* over, the manager learns that it is, even if the stream never reports it
\* and calls and re-reads fail on the way: a cancel refused for that reason is
\* followed by a re-read (manager.py:390-411).  An order that the engine leaves
\* alone may stay active for ever.
OverIsNoticed ==
    \A o \in OrderIds :
        []<><<ReplaceOrder(o)>>_vars =>
            (exchange[o].status \in {"MATCHED", "CANCELED"} ~> ~Manager!IsActive(orders[o]))

-----------------------------------------------------------------------------
(* What enums.py says of an order's status.  TLC refutes it.               *)

\* Lines 38-39: "not submitted yet & (pending_shares > 0)", "submit failed &
\* (invalid_shares > 0)".
SubmissionAsDocumented(r) ==
    /\ r.status = "SUBMITTING" => r.pending > 0
    /\ r.status = "SUB_FAILED" => r.invalid > 0

\* Lines 40-42: "matched_shares == 0", "0 < matched_shares < threshold",
\* "matched_shares > threshold".  An order is full by either of the manager's
\* two thresholds, 98% or all but dust.
MatchAsDocumented(r) ==
    LET full == 100 * r.matched >= 98 * r.shares \/ r.shares - r.matched <= Dust
    IN  /\ r.status = "ZERO_MATCHED" => r.matched = 0
        /\ r.status = "PART_MATCHED" => 0 < r.matched /\ ~full
        /\ r.status = "FULL_MATCHED" => full

\* Lines 43-44: "invalid & (matched_shares == 0)", "(matched_shares > 0)".
CancelAsDocumented(r) ==
    /\ r.status = "ZERO_MATCHED_CANCELED" => r.matched = 0
    /\ r.status = "PART_MATCHED_CANCELED" => r.matched > 0

\* The comments of ManagedOrderStatus (enums.py:37-44): every status tells what
\* has been matched of an order, or what is left of it.
StatusAsDocumented ==
    \A o \in OrderIds : LET r == orders[o] IN
        SubmissionAsDocumented(r) /\ MatchAsDocumented(r) /\ CancelAsDocumented(r)
=============================================================================
