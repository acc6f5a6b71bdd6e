------------------------------ MODULE LiveVenue ------------------------------
(***************************************************************************)
(* The live venue as the worker meets it (src/src/execution/live): the     *)
(* exchange it trades on, its clients' calls to it, and the user stream    *)
(* that brings its reports over a websocket.                               *)
(*                                                                         *)
(* The exchange is external.  A maker's order rests on its book (post_only *)
(* and GTC) and trades in parts; a taker's order (FOK) trades in full when *)
(* it arrives or is refused.  What it has matched is settled on a chain:   *)
(* a trade is MATCHED, perhaps RETRYING, then MINED and CONFIRMED, or      *)
(* FAILED.  It reports every change to the user stream and knows nothing   *)
(* of what was received: `lost' records what never will be.                *)
(*                                                                         *)
(* A call's effect on the exchange and the reply to it are apart: a        *)
(* network error, which the client library turns into PolyApiException,    *)
(* reads like a refusal although the exchange may have acted.              *)
(*                                                                         *)
(* A report waits in the websocket, then in the queue of the event bus for *)
(* its kind.  Both are first in, first out, and make one sequence per kind *)
(* here; across kinds, one loop may run ahead of the other.                *)
(***************************************************************************)
EXTENDS LiveReports, SequencesExt

CONSTANTS
    Orders,     \* ids given by create_order
    Price,      \* the limit price of the worker's orders
    OtherToken, \* the token that no order is about
    TakerFills, \* how a taker's order can trade: message price and parts
    MaxDeals,   \* bound: trades of the worker's orders
    Chain,      \* what the chain may make of a trade of each status
    MaxDrops,   \* bound: times the websocket is down
    Nobody      \* the token of an order the exchange has not seen

VARIABLES
    exchange,   \* the exchange's record of every order
    deals,      \* its trades, in the order they were made
    orderWire,  \* reports of orders sent and not yet handled, oldest first
    tradeWire,  \* reports of trades sent and not yet handled, oldest first
    link,       \* "connecting" or "up": the websocket of LiveTradeStream
    drops,      \* how often the websocket was down
    lost,       \* history: the kinds of reports missed, but for trades under way
    ghosts      \* history: orders accepted whose submission read as failed

venueVars == <<exchange, deals, orderWire, tradeWire, link, drops, lost, ghosts>>

Deals == 1..MaxDeals

Part(wallet, order, token, shares, price) ==
    [maker_address |-> wallet, order_id |-> order, asset_id |-> token,
     matched_amount |-> shares, price |-> price]

NoRecord == [status |-> "UNKNOWN", token |-> Nobody, shares |-> 0, matched |-> 0]

VenueInit ==
    /\ exchange = [o \in Orders |-> NoRecord]
    /\ deals = <<>>
    /\ orderWire = <<>> /\ tradeWire = <<>>
    /\ \/ link = "up" /\ drops = 0            \* connected before the first order
       \/ link = "connecting" /\ drops = 1
    /\ lost = {} /\ ghosts = {}

-----------------------------------------------------------------------------
(* Reports.  A report of an order is a snapshot; the terms of a trade do   *)
(* not change, so its report is its id and status.                         *)

OrderReport(o, record) ==
    [event_type |-> "order", id |-> o, status |-> record.status, matched |-> record.matched]
TradeReport(d, status) == [event_type |-> "trade", id |-> d, status |-> status]

Kind(report) ==
    IF report.event_type = "order" THEN "order"
    ELSE IF report.status \in {"MINED", "CONFIRMED"} THEN "success"
    ELSE IF report.status = "FAILED" THEN "failure"
    ELSE "progress"

Kinds(reports) == {Kind(reports[n]) : n \in DOMAIN reports} \ {"progress"}

Tell(ofOrders, ofTrades) ==
    IF link = "up"
    THEN /\ orderWire' = orderWire \o ofOrders /\ tradeWire' = tradeWire \o ofTrades
         /\ UNCHANGED lost
    ELSE /\ lost' = lost \cup Kinds(ofOrders) \cup Kinds(ofTrades)
         /\ UNCHANGED <<orderWire, tradeWire>>

\* The message of a report, as the websocket brings it.
OrderMessage(report) ==
    [id |-> report.id, asset_id |-> exchange[report.id].token,
     status |-> report.status, size_matched |-> report.matched]

TradeMessage(report) ==
    LET deal == deals[report.id]
        taker == deal.role = "TAKER"
    IN  [id |-> report.id, status |-> report.status, trader_side |-> deal.role,
         asset_id |-> deal.asset_id, size |-> deal.size, price |-> deal.price,
         maker_orders |-> deal.parts,
         maker_address |-> IF taker THEN Wallet ELSE Stranger,
         taker_order_id |-> IF taker THEN deal.order ELSE Nobody]

-----------------------------------------------------------------------------
(* The exchange trades.  `shares' and `amount' are what it books on the    *)
(* worker's account; the rest is what its message says.                    *)

Trade(o, record, deal) ==
    /\ Len(deals) < MaxDeals
    /\ exchange' = [exchange EXCEPT ![o] = record]
    /\ deals' = Append(deals, deal)
    /\ Tell(<<OrderReport(o, record)>>, <<TradeReport(Len(deals) + 1, "MATCHED")>>)

\* A resting order meets a taker who buys the other token and takes a
\* stranger's order along with it.
MatchResting(o, n) ==
    LET r == exchange[o]
        matched == r.matched + n
    IN  /\ r.status = "LIVE" /\ n \in 1..(r.shares - r.matched)
        /\ Trade(o,
             [r EXCEPT !.matched = matched,
                       !.status = IF matched = r.shares THEN "MATCHED" ELSE "LIVE"],
             [order |-> o, role |-> "MAKER", status |-> "MATCHED",
              shares |-> n, amount |-> n * Price,
              asset_id |-> OtherToken, size |-> n + 1, price |-> One - Price,
              parts |-> <<Part(Stranger, Nobody, r.token, 1, Price),
                          Part(Wallet, o, r.token, n, Price)>>])
        /\ UNCHANGED <<link, drops, ghosts>>

\* A taker's order trades in full; without details the price stands for all.
FillOnArrival(o, token, shares, fill) ==
    LET price(part) == IF part.asset_id = token THEN part.price ELSE One - part.price
        paid == [n \in DOMAIN fill.parts |->
                    fill.parts[n].matched_amount * price(fill.parts[n])]
    IN  /\ Total(PartShares(fill.parts)) \in {0, shares}
        /\ Trade(o, [status |-> "MATCHED", token |-> token, shares |-> shares, matched |-> shares],
             [order |-> o, role |-> "TAKER", status |-> "MATCHED", shares |-> shares,
              amount |-> IF fill.parts = <<>> THEN shares * fill.price ELSE Total(paid),
              asset_id |-> token, size |-> shares, price |-> fill.price, parts |-> fill.parts])

Rest(o, token, shares) ==
    LET r == [status |-> "LIVE", token |-> token, shares |-> shares, matched |-> 0]
    IN  /\ exchange' = [exchange EXCEPT ![o] = r]
        /\ Tell(<<OrderReport(o, r)>>, <<>>)
        /\ UNCHANGED deals

\* The chain decides on a trade.
Settle(d) ==
    /\ \E status \in Chain[deals[d].status] :
         /\ deals' = [deals EXCEPT ![d].status = status]
         /\ Tell(<<>>, <<TradeReport(d, status)>>)
    /\ UNCHANGED <<exchange, link, drops, ghosts>>

-----------------------------------------------------------------------------
(* The clients' calls.                                                     *)

\* submit_order: `ok' is what it returns.  An order is refused, or never
\* gets there; or it is accepted, and the reply may still be an error.
SubmitOrder(o, role, token, shares, ok) ==
    \/ /\ IF role = "MAKER" THEN Rest(o, token, shares)
          ELSE \E fill \in TakerFills : FillOnArrival(o, token, shares, fill)
       /\ ghosts' = IF ok THEN ghosts ELSE ghosts \cup {o}
       /\ UNCHANGED <<link, drops>>
    \/ ~ok /\ UNCHANGED venueVars

\* cancel_order_by_id: "canceled", "over" (the reason says that the order was
\* matched or canceled) or "error" (any other reason, or no answer).
CancelOrder(o, reply) ==
    \/ /\ exchange[o].status = "LIVE" /\ reply \in {"canceled", "error"}
       /\ exchange' = [exchange EXCEPT ![o].status = "CANCELED"]
       /\ Tell(<<OrderReport(o, exchange'[o])>>, <<>>)
       /\ UNCHANGED <<deals, link, drops, ghosts>>
    \/ /\ \/ exchange[o].status \in {"MATCHED", "CANCELED"} /\ reply = "over"
          \/ reply = "error"
       /\ UNCHANGED venueVars

\* get_order_by_id: what is known of the order, as an event, or nothing.
GetOrder(o) == {{}, BuildOrderEvent(OrderMessage(OrderReport(o, exchange[o])))}

-----------------------------------------------------------------------------
(* The user stream.                                                        *)

Connect ==
    /\ link = "connecting"
    /\ link' = "up"
    /\ UNCHANGED <<exchange, deals, orderWire, tradeWire, drops, lost, ghosts>>

\* The websocket closes.  What was received before is still read; the rest,
\* and all reports until the stream has connected again, are never seen.
Drop ==
    /\ link = "up" /\ drops < MaxDrops
    /\ \E m \in 0..Len(orderWire), n \in 0..Len(tradeWire) :
         /\ orderWire' = SubSeq(orderWire, 1, m) /\ tradeWire' = SubSeq(tradeWire, 1, n)
         /\ lost' = lost \cup Kinds(SubSeq(orderWire, m + 1, Len(orderWire)))
                         \cup Kinds(SubSeq(tradeWire, n + 1, Len(tradeWire)))
    /\ link' = "connecting" /\ drops' = drops + 1
    /\ UNCHANGED <<exchange, deals, ghosts>>

\* The events the message read next yields.
OrderEvents(report) ==
    IF report.event_type = "order" THEN BuildOrderEvent(OrderMessage(report)) ELSE {}
TradeEvents(report) ==
    IF report.event_type = "trade" THEN BuildTradeEvent(TradeMessage(report)) ELSE {}
=============================================================================
