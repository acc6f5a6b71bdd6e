---------------------------- MODULE MockExchange ----------------------------
(***************************************************************************)
(* The paper-trading venue (src/src/execution/mock): the order store, the  *)
(* clients that call it and the stream that fills orders and reports on    *)
(* them.                                                                   *)
(*                                                                         *)
(* Clients call the store from worker threads; the stream runs on the      *)
(* event loop.  The store's threading.Lock makes each of its methods       *)
(* atomic, and nothing larger: between the moment the stream lists the     *)
(* orders to fill and the moment it fills one, a thread may submit or      *)
(* cancel.  `scan' is the rest of such a list.                             *)
(*                                                                         *)
(* An order is filled completely or not at all, so a quantity is 0 or the  *)
(* order's size.  Wall-clock conditions are sets that only grow: `aged'    *)
(* orders are older than the taker delay, and the trades up to `ripe' are  *)
(* past their settlement delay (every trade has the same delay, so fills  *)
(* ripen in the order they were made).  A quote may cross any set of the   *)
(* resting orders of its token.                                            *)
(***************************************************************************)
EXTENDS Integers, Sequences, Selections

CONSTANTS
    Orders,     \* ids given by create_order
    Tokens,     \* the tokens quotes are about
    Absent      \* stands for no reply yet

VARIABLES
    store,      \* _orders: every id's token, role and status
    book,       \* _orders: the ids it holds, in the order they were submitted
    fills,      \* _trades, in the order they were made
    events,     \* _pending_events
    aged,       \* orders for which the taker fill delay has passed
    ripe,       \* how many trades are past their settlement delay
    loop,       \* what the stream is doing on the event loop
    scan,       \* orders it has listed and not yet tried to fill
    outbox      \* drained events, not yet published

venueVars == <<store, book, fills, events, aged, ripe, loop, scan, outbox>>

OrderStatus == {"NEW", "LIVE", "MATCHED", "CANCELED"}

OrderEvent(o, status) == [kind |-> "order", order |-> o, status |-> status]
TradeEvent(o, status) == [kind |-> "trade", order |-> o, status |-> status]

Events ==
    [kind : {"order"}, order : Orders, status : {"MATCHED", "CANCELED"}]
      \cup [kind : {"trade"}, order : Orders, status : {"MATCHED", "MINED"}]

VenueInit ==
    /\ store = [o \in Orders |-> [status |-> "NEW", role |-> "MAKER", token |-> Absent]]
    /\ book = <<>>
    /\ fills = <<>>
    /\ events = <<>>
    /\ aged = {}
    /\ ripe = 0
    /\ loop = "idle"
    /\ scan = <<>>
    /\ outbox = <<>>

-----------------------------------------------------------------------------
(* Calls from the clients' threads.                                        *)

\* Mutant: the venue also reports that it has accepted the order.
SubmitReported(o, token, role) ==
    /\ store[o].status = "NEW"
    /\ store' = [store EXCEPT ![o] = [status |-> "LIVE", role |-> role, token |-> token]]
    /\ book' = Append(book, o)
    /\ events' = Append(events, OrderEvent(o, "LIVE"))
    /\ UNCHANGED <<fills, aged, ripe, loop, scan, outbox>>

\* submit_order puts the order on the book and reports nothing.
Submit(o, token, role) ==
    /\ store[o].status = "NEW"
    /\ store' = [store EXCEPT ![o] = [status |-> "LIVE", role |-> role, token |-> token]]
    /\ book' = Append(book, o)
    /\ UNCHANGED <<fills, events, aged, ripe, loop, scan, outbox>>

\* The reply cancel_order gives now.
CancelReply(o) ==
    CASE store[o].status = "NEW" -> "order not found"
      [] store[o].status = "MATCHED" -> "matched"
      [] OTHER -> "ok"

\* Mutant: an order that has matched is canceled like any other.
CancelStoreAlways(o) ==
    /\ store[o].status \in {"LIVE", "MATCHED"}
    /\ store' = [store EXCEPT ![o].status = "CANCELED"]
    /\ events' = Append(events, OrderEvent(o, "CANCELED"))
    /\ UNCHANGED <<book, fills, aged, ripe, loop, scan, outbox>>

CancelStore(o) ==
    /\ IF store[o].status = "LIVE"
       THEN /\ store' = [store EXCEPT ![o].status = "CANCELED"]
            /\ events' = Append(events, OrderEvent(o, "CANCELED"))
       ELSE UNCHANGED <<store, events>>
    /\ UNCHANGED <<book, fills, aged, ripe, loop, scan, outbox>>

-----------------------------------------------------------------------------
(* The stream, on the event loop.                                          *)

Live(role) == {o \in Orders : store[o].status = "LIVE" /\ store[o].role = role}

\* Mutant: the status is not looked at again.
FillableWhenListed(o) == TRUE

\* mark_matched looks at the order again: it may have been cancelled since.
Fillable(o) == store[o].status = "LIVE"

\* Orders are listed in the order of the store.
Listed(S) == OnlyIn(book, S)

StartQuote(token) ==
    /\ loop = "idle"
    /\ \E crossed \in SUBSET {o \in Live("MAKER") : store[o].token = token} :
         /\ crossed # {}
         /\ scan' = Listed(crossed)
    /\ loop' = "quote"
    /\ UNCHANGED <<store, book, fills, events, aged, ripe, outbox>>

StartPoll ==
    /\ loop = "idle" /\ outbox = <<>>
    /\ scan' = Listed(Live("TAKER") \cap aged)
    /\ loop' = "poll"
    /\ UNCHANGED <<store, book, fills, events, aged, ripe, outbox>>

MarkMatched(o) ==
    IF Fillable(o)
    THEN /\ store' = [store EXCEPT ![o].status = "MATCHED"]
         /\ fills' = Append(fills, [order |-> o, status |-> "MATCHED"])
         /\ events' = events \o <<OrderEvent(o, "MATCHED"), TradeEvent(o, "MATCHED")>>
    ELSE UNCHANGED <<store, book, fills, events>>

FillNext ==
    /\ scan # <<>>
    /\ MarkMatched(Head(scan))
    /\ scan' = Tail(scan)
    /\ UNCHANGED <<book, aged, ripe, loop, outbox>>

EndQuote ==
    /\ loop = "quote" /\ scan = <<>>
    /\ loop' = "idle"
    /\ UNCHANGED <<store, book, fills, events, aged, ripe, scan, outbox>>

\* Mutant: a trade is due only when a later one is.
DueLate == {n \in 1..ripe : n < ripe /\ fills[n].status = "MATCHED"}

Due == {n \in 1..ripe : fills[n].status = "MATCHED"}

\* Trades that are due are reported in the order they were made.
DueInOrder == OnlyIn([n \in DOMAIN fills |-> n], Due)

PromoteMined ==
    /\ loop = "poll" /\ scan = <<>>
    /\ fills' = [n \in DOMAIN fills |->
                    IF n \in Due THEN [fills[n] EXCEPT !.status = "MINED"] ELSE fills[n]]
    /\ events' = events \o [n \in DOMAIN DueInOrder |->
                               TradeEvent(fills[DueInOrder[n]].order, "MINED")]
    /\ loop' = "drain"
    /\ UNCHANGED <<store, book, aged, ripe, scan, outbox>>

DrainEvents ==
    /\ loop = "drain"
    /\ outbox' = events
    /\ events' = <<>>
    /\ loop' = "idle"
    /\ UNCHANGED <<store, book, fills, aged, ripe, scan>>

\* The generator yields one event to the component, which publishes it.
Yield ==
    /\ outbox # <<>> /\ loop = "idle"
    /\ outbox' = Tail(outbox)
    /\ UNCHANGED <<store, book, fills, events, aged, ripe, loop, scan>>

-----------------------------------------------------------------------------
(* The clock.                                                              *)

Age(o) ==
    /\ o \in Live("TAKER") \ aged
    /\ aged' = aged \cup {o}
    /\ UNCHANGED <<store, book, fills, events, ripe, loop, scan, outbox>>

\* A poll reads the clock once, before it fills anything.
Ripen ==
    /\ ripe < Len(fills) /\ loop # "poll"
    /\ ripe' = ripe + 1
    /\ UNCHANGED <<store, book, fills, events, aged, loop, scan, outbox>>

\* What the stream does once started runs to its end on the loop.
StreamStep == FillNext \/ EndQuote \/ PromoteMined \/ DrainEvents
=============================================================================
