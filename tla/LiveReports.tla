----------------------------- MODULE LiveReports -----------------------------
(***************************************************************************)
(* What the live venue's messages become (execution/live/stream.py): the   *)
(* order and trade events built from messages of the user stream and from  *)
(* replies to get_order.  An operator returns the set of the events a      *)
(* message yields: one event, or none.                                     *)
(*                                                                         *)
(* The two outcome tokens of a market complement each other: a buyer at    *)
(* price p may be matched with a buyer of the other token at One - p, so   *)
(* the parts of a taker's trade quote the price of either token.  Prices   *)
(* are whole, in units of money per unit of share, and the averages of the *)
(* instances are too.                                                      *)
(***************************************************************************)
EXTENDS Integers, Sequences, Sums

CONSTANTS
    Wallet,     \* the worker's proxy wallet
    Stranger,   \* any other wallet
    One         \* the price that yes and no add up to

MarketOrderStatus == {"LIVE", "INVALID", "MATCHED", "CANCELED", "CANCELED_MARKET_RESOLVED"}
MarketTradeStatus == {"MATCHED", "MINED", "CONFIRMED", "RETRYING", "FAILED"}

\* A message whose status the code does not know yields nothing.
BuildOrderEvent(m) ==
    IF m.status \in MarketOrderStatus
    THEN {[order |-> m.id, token |-> m.asset_id, matched |-> m.size_matched,
           active |-> m.status \in {"LIVE", "MATCHED"}]}
    ELSE {}

\* Mutant: the price of a part in the other token is taken as it stands.
SubPriceAsQuoted(part, token) == part.price

SubPrice(part, token) == IF part.asset_id = token THEN part.price ELSE One - part.price

\* The shares of a trade's parts, and the money in each, seen from `token'.
PartShares(parts) == [n \in DOMAIN parts |-> parts[n].matched_amount]
PartMoney(parts, token) ==
    [n \in DOMAIN parts |-> parts[n].matched_amount * SubPrice(parts[n], token)]

Total(f) == SumOf(f, DOMAIN f)

\* The mean price of a taker's trade over the maker orders it met; the
\* message's own price if they are missing or do not add up to its size.
OverallTradePrice(m) ==
    IF m.maker_orders = <<>> \/ Total(PartShares(m.maker_orders)) # m.size THEN m.price
    ELSE Total(PartMoney(m.maker_orders, m.asset_id)) \div m.size

\* The first part that is the worker's own, if any.
FindSubOrder(m) ==
    LET own == {n \in DOMAIN m.maker_orders : m.maker_orders[n].maker_address = Wallet}
    IN  {m.maker_orders[n] : n \in {k \in own : \A j \in own : k <= j}}

\* Mutant: the size of the whole trade, not of the worker's part of it.
WholeSize(m, part) == m.size

PartSize(m, part) == part.matched_amount

TradeEventOf(m, order, token, shares, price) ==
    [trade |-> m.id, order |-> order, token |-> token, shares |-> shares, price |-> price,
     role |-> m.trader_side, status |-> m.status]

\* The worker's trade as a taker is the whole message; as a maker, its part.
BuildTradeEvent(m) ==
    IF m.status \notin MarketTradeStatus THEN {}
    ELSE IF m.maker_address = Wallet
    THEN {TradeEventOf(m, m.taker_order_id, m.asset_id, m.size, OverallTradePrice(m))}
    ELSE {TradeEventOf(m, part.order_id, part.asset_id, PartSize(m, part), part.price) :
            part \in FindSubOrder(m)}
=============================================================================
