----------------------------- MODULE QuoteFeeds -----------------------------
(***************************************************************************)
(* The quotes of one market's worker: the crypto stream, which adds the    *)
(* base price of the window to each price (datasource/crypto/feed.py), and *)
(* the market stream, which turns the venue's messages into the quotes of  *)
(* the two outcome tokens (datasource/market/feed.py).                     *)
(*                                                                         *)
(* A stream that reconnects misses what is quoted meanwhile; as a quote    *)
(* may come at any time or not at all, that needs no state.  Of the clock  *)
(* there is what the code tests: has the window begun, and has a           *)
(* millisecond passed since the last crypto quote was let through.         *)
(***************************************************************************)
EXTENDS Integers, Sequences

CONSTANTS
    Prices,     \* crypto prices, rounded to cents
    OpenPrice,  \* what the API says the window opened at
    NoPrice,
    YesToken, NoToken,  \* the market's tokens
    Books       \* best bid and ask of a token, as pairs

ASSUME FeedAssumption == Prices \cup {OpenPrice} \subseteq Nat /\ NoPrice \notin Nat

Tokens == {YesToken, NoToken}

VARIABLES
    started_before_market,
    opened,         \* the clock has reached the start of the window
    throttled,      \* less than a millisecond since _last_emit_ts_ms
    base_price,
    refresh         \* _api_base_price_task: "none", "sleeping", "fetching" or "done"

feedVars == <<started_before_market, opened, throttled, base_price, refresh>>

\* A worker that starts late asks the API at once, and does without a base
\* price for good if that fails.
FeedInit ==
    /\ started_before_market \in BOOLEAN
    /\ opened = ~started_before_market
    /\ throttled = FALSE
    /\ base_price \in IF started_before_market THEN {NoPrice} ELSE {NoPrice, OpenPrice}
    /\ refresh = "none"

WindowOpens ==
    /\ ~opened /\ opened' = TRUE
    /\ UNCHANGED <<started_before_market, throttled, base_price, refresh>>

MillisecondPasses ==
    /\ throttled /\ throttled' = FALSE
    /\ UNCHANGED <<started_before_market, opened, base_price, refresh>>

TakesBase == started_before_market /\ base_price = NoPrice /\ opened

\* The quote is let through; the first of the window sets the base price and
\* has it checked against the API later.
TakeQuote(mid) ==
    /\ ~throttled /\ throttled' = TRUE
    /\ base_price' = IF TakesBase THEN mid ELSE base_price
    /\ refresh' = IF TakesBase THEN "sleeping" ELSE refresh
    /\ UNCHANGED <<started_before_market, opened>>

\* What the stream yields for it, if anything.
CryptoQuote(mid, base) == [curr_price |-> mid, base_price |-> base]
CryptoQuotes(mid) == IF base_price' = NoPrice THEN {} ELSE {CryptoQuote(mid, base_price')}

RefreshWakes ==
    /\ refresh = "sleeping" /\ refresh' = "fetching"
    /\ UNCHANGED <<started_before_market, opened, throttled, base_price>>

\* Mutant: a failed request forgets the price.
Refreshed(price) == price

\* A request that fails changes nothing.
RefreshedOrKept(price) == IF price = NoPrice THEN base_price ELSE price

RefreshReturns ==
    /\ refresh = "fetching" /\ refresh' = "done"
    /\ \E price \in {NoPrice, OpenPrice} : base_price' = RefreshedOrKept(price)
    /\ UNCHANGED <<started_before_market, opened, throttled>>

\* A best_bid_ask message of another market or token yields nothing.
MarketQuotes(token, book) == IF token \in Tokens THEN {[token |-> token, book |-> book]} ELSE {}

\* Twice the mid price of a quote.
Mid(book) == book[1] + book[2]
=============================================================================
