-------------------------- MODULE DecisionPipeline --------------------------
(***************************************************************************)
(* From quotes and positions to the engine: three queues bring quotes of   *)
(* the market, quotes of the crypto stream and positions to the runtime    *)
(* state (runtime/), which publishes itself whenever its signature has     *)
(* changed; a mailbox of one place hands the state to the strategy, and    *)
(* another hands the strategy's decision to the execution engine.          *)
(*                                                                         *)
(* All of it runs on one event loop, and nothing between a loop's taking   *)
(* an event and its publishing what follows suspends: the queues drop the  *)
(* oldest event when full (bus.py).  The strategy is a function of the     *)
(* state it is given, so a decision is that state.  Carrying it out takes  *)
(* the engine time, for it creates orders, and changes positions.          *)
(***************************************************************************)
EXTENDS QuoteFeeds, FiniteSets, SequencesExt

CONSTANTS
    Nothing,        \* None
    QueueSize,      \* maxsize of the runtime state's queues
    Positions,      \* positions of a token: what the signature counts, and the rest
    MaxEvents       \* bound: quotes and positions published

ASSUME QueueAssumption == QueueSize \in Nat \ {0}
ASSUME NothingAssumption == Nothing \notin [curr_price : Prices, base_price : Nat]

\* What events are about: a source is a subject and a queue.
Crypto == <<"symbol", "crypto-quote">>
Quote(token) == <<token, "market-quote">>
CurrentPosition(token) == <<token, "current-position">>

Quotes == {Crypto, Quote(YesToken), Quote(NoToken)}
PositionsOf == {CurrentPosition(YesToken), CurrentPosition(NoToken)}
Sources == Quotes \cup PositionsOf
Queues == {s[2] : s \in Sources}

VARIABLES
    queues,         \* the three subscriptions of the runtime state
    view,           \* RuntimeState: the last event it has had from each source
    last_signature,
    indicators,
    state_mailbox,  \* prediction.runtime-state
    mailbox,        \* execution.desired-positions
    busy,           \* the engine is carrying out a decision
    decision,       \* the decision it has taken up last
    events,         \* how many quotes and positions were published
    latest,         \* history: the last event published by each source
    missed,         \* history: sources whose last event a full queue has dropped
    bases           \* history: the base prices seen by the strategy, in order

pipeVars == <<queues, view, last_signature, indicators, state_mailbox, mailbox, busy, decision>>
histories == <<events, latest, missed, bases>>
vars == <<feedVars, pipeVars, histories>>

Init ==
    /\ FeedInit
    /\ queues = [q \in Queues |-> <<>>]
    /\ view = [s \in Sources |-> Nothing]
    /\ last_signature = <<>>
    /\ indicators = [prev_side |-> Nothing, curr_side |-> Nothing]
    /\ state_mailbox = <<>> /\ mailbox = <<>>
    /\ busy = FALSE /\ decision = <<>>
    /\ events = 0
    /\ latest = [s \in Sources |-> Nothing] /\ missed = {} /\ bases = <<>>

-----------------------------------------------------------------------------
(* Sources.                                                                *)

\* A full queue drops its oldest event, of whatever source.
Offer(s, value) ==
    LET q == s[2]
        full == Len(queues[q]) >= QueueSize
        kept == IF full THEN Tail(queues[q]) ELSE queues[q]
        sources == {kept[n].source : n \in DOMAIN kept} \cup {s}
        dropped == IF full THEN {Head(queues[q]).source} \ sources ELSE {}
    IN  /\ queues' = [queues EXCEPT ![q] = Append(kept, [source |-> s, value |-> value])]
        /\ latest' = [latest EXCEPT ![s] = value]
        /\ missed' = (missed \ {s}) \cup dropped
        /\ events < MaxEvents /\ events' = events + 1
        /\ UNCHANGED <<view, last_signature, indicators, state_mailbox, mailbox, bases>>

CryptoTick(mid) ==
    /\ TakeQuote(mid)
    /\ IF CryptoQuotes(mid) = {} THEN UNCHANGED <<pipeVars, histories>>
       ELSE \A quote \in CryptoQuotes(mid) : Offer(Crypto, quote) /\ UNCHANGED <<busy, decision>>

MarketTick(token, book) ==
    /\ \A quote \in MarketQuotes(token, book) : Offer(Quote(token), quote.book)
    /\ UNCHANGED <<feedVars, busy, decision>>

PositionChanges(token, position) ==
    /\ position # latest[CurrentPosition(token)]
    /\ Offer(CurrentPosition(token), position)
    /\ UNCHANGED <<feedVars, busy, decision>>

-----------------------------------------------------------------------------
(* The runtime state.                                                      *)

Complete(v) == \A s \in Quotes : v[s] # Nothing

\* Mutant: the base price is not part of the signature.
CryptoSignaturePrice(quote) == quote.curr_price

CryptoSignature(quote) == quote

\* What of a complete state the signature covers: of a position not the
\* shares that are settling.
Signature(v) ==
    [s \in Sources |->
        IF s = Crypto THEN CryptoSignature(v[s])
        ELSE IF s \in PositionsOf /\ v[s] # Nothing THEN v[s].counted
        ELSE v[s]]

CurrSide(v) ==
    LET up == Mid(v[Quote(YesToken)])
        down == Mid(v[Quote(NoToken)])
        change == v[Crypto].curr_price - v[Crypto].base_price
    IN  CASE up > down /\ change > 0 -> "UP"
          [] down > up /\ change < 0 -> "DOWN"
          [] OTHER -> Nothing

\* A mailbox of one place that drops the oldest event holds the newest.
PutNewest(box, message) == <<message>>

\* One of the three loops takes an event.
UpdateState(q) ==
    LET e == Head(queues[q])
        v == [view EXCEPT ![e.source] = e.value]
        sides == [prev_side |-> indicators.curr_side, curr_side |-> CurrSide(v)]
    IN  /\ queues[q] # <<>>
        /\ queues' = [queues EXCEPT ![q] = Tail(queues[q])]
        /\ view' = v
        /\ IF Complete(v) /\ Signature(v) # last_signature
           THEN /\ last_signature' = Signature(v)
                /\ indicators' = sides
                /\ state_mailbox' = PutNewest(state_mailbox, [state |-> v, sides |-> sides])
           ELSE UNCHANGED <<last_signature, indicators, state_mailbox>>
        /\ UNCHANGED <<feedVars, mailbox, busy, decision, histories>>

-----------------------------------------------------------------------------
(* The strategy and the engine.                                            *)

Predict ==
    LET base == state_mailbox[1].state[Crypto].base_price
    IN  /\ state_mailbox # <<>>
        /\ mailbox' = PutNewest(mailbox, state_mailbox[1])
        /\ state_mailbox' = <<>>
        /\ bases' = IF bases # <<>> /\ Last(bases) = base THEN bases ELSE Append(bases, base)
        /\ UNCHANGED <<feedVars, queues, view, last_signature, indicators, busy, decision,
                       events, latest, missed>>

EngineTakesUp ==
    /\ ~busy /\ mailbox # <<>>
    /\ busy' = TRUE /\ decision' = mailbox /\ mailbox' = <<>>
    /\ UNCHANGED <<feedVars, queues, view, last_signature, indicators, state_mailbox, histories>>

EngineDone ==
    /\ busy /\ busy' = FALSE
    /\ UNCHANGED <<feedVars, queues, view, last_signature, indicators, state_mailbox, mailbox,
                   decision, histories>>

\* The clock and the base price's task.
FeedStep == WindowOpens \/ MillisecondPasses \/ RefreshWakes \/ RefreshReturns

Next ==
    \/ \E mid \in Prices : CryptoTick(mid)
    \/ \E token \in Tokens, book \in Books : MarketTick(token, book)
    \/ \E token \in Tokens, position \in Positions : PositionChanges(token, position)
    \/ FeedStep /\ UNCHANGED <<pipeVars, histories>>
    \/ \E q \in Queues : UpdateState(q)
    \/ Predict
    \/ EngineTakesUp
    \/ EngineDone

\* The loops run, and the engine's calls return.
Fairness ==
    /\ \A q \in Queues : WF_vars(UpdateState(q))
    /\ WF_vars(Predict) /\ WF_vars(EngineTakesUp) /\ WF_vars(EngineDone)

Spec == Init /\ [][Next]_vars /\ Fairness

-----------------------------------------------------------------------------
(* Properties.                                                             *)

\* The strategy never sees a window without a base price, and sees it move at
\* most once, from the first price of the window to what the API says; a
\* worker that started late only ever uses the API's (feed.py:28-89).
BaseMovesOnce ==
    /\ Len(bases) <= 2
    /\ \A n \in DOMAIN bases : bases[n] # NoPrice
    /\ bases # <<>> /\ (Len(bases) = 2 \/ ~started_before_market) => Last(bases) = OpenPrice

\* The last event of every source, or the one before if a full queue has
\* dropped it: tokens share their queues, so that a burst of one token's
\* quotes may push out the other's.
Expected == [s \in Sources |-> IF s \in missed THEN view[s] ELSE latest[s]]

Agrees(v) ==
    /\ \A s \in Quotes : v[s] = Expected[s]
    /\ \A s \in PositionsOf :
         IF Expected[s] = Nothing THEN v[s] = Nothing
         ELSE v[s] # Nothing /\ v[s].counted = Expected[s].counted

\* The engine comes to act on the present: whenever quotes and positions rest,
\* its decision is soon one about the last quotes of both tokens, the last
\* price and base price, and positions that differ from the last ones at most
\* in the shares that are settling (runtime_state.py:114-185, the mailboxes of
\* prediction/component.py:25-39 and execution/component.py:40-60).
DecisionsCatchUp ==
    []<>(Complete(Expected) =>
           /\ decision # <<>>
           /\ Agrees(decision[1].state)
           /\ decision[1].sides.curr_side = CurrSide(Expected))
=============================================================================
