---------------------- MODULE DecisionPipeline_proofs ----------------------
(***************************************************************************)
(* The base price on its way from the crypto stream to the strategy: from  *)
(* base_price through the queue, the runtime state's view and the mailbox  *)
(* to what was seen.  Along that way, from the oldest to the newest, it    *)
(* changes at most once, and then to the price the API gave.               *)
(***************************************************************************)
EXTENDS DecisionPipeline, TLAPS

CryptoRecord == [curr_price : Prices, base_price : Nat]
Values == CryptoRecord \cup Books \cup Positions
EventsOf(q) ==
    {e \in [source : Sources, value : Values] :
        e.source[2] = q /\ (e.source = Crypto => e.value \in CryptoRecord)}

PipeTypes ==
    /\ queues = [q \in Queues |-> queues[q]]
    /\ \A q \in Queues : queues[q] \in Seq(EventsOf(q))
    /\ view \in [Sources -> Values \cup {Nothing}]
    /\ view[Crypto] \in CryptoRecord \cup {Nothing}

\* A base price of this window, and what may become of it.
Possible(base) == base \in Nat /\ (~started_before_market => base = OpenPrice)
Later(a, b) == b = a \/ b = OpenPrice

Quoted == queues["crypto-quote"]
BaseOf(event) == event.value.base_price
InTurn(s) == \A m, n \in 1..Len(s) : m < n => Later(BaseOf(s[m]), BaseOf(s[n]))

\* What the stream has.
FeedInv ==
    /\ started_before_market \in BOOLEAN
    /\ base_price \in Nat \cup {NoPrice}
    /\ base_price # NoPrice => Possible(base_price)

\* What it has sent.
QuotedInv ==
    /\ InTurn(Quoted)
    /\ \A n \in 1..Len(Quoted) :
         /\ Possible(BaseOf(Quoted[n])) /\ base_price # NoPrice
         /\ Later(BaseOf(Quoted[n]), base_price)

\* What the runtime state has of it.
Viewed == view[Crypto] \in CryptoRecord
ViewInv ==
    Viewed =>
        /\ Possible(view[Crypto].base_price) /\ base_price # NoPrice
        /\ Later(view[Crypto].base_price, base_price)
        /\ \A n \in 1..Len(Quoted) : Later(view[Crypto].base_price, BaseOf(Quoted[n]))

\* What it has sent on.
Mailed == state_mailbox[1].state[Crypto].base_price
MailInv ==
    state_mailbox # <<>> =>
        Viewed /\ Possible(Mailed) /\ Later(Mailed, view[Crypto].base_price)

\* What the strategy has seen.
SeenInv ==
    /\ bases \in Seq(Nat) /\ Len(bases) <= 2
    /\ Len(bases) = 2 => bases[2] = OpenPrice
    /\ bases # <<>> =>
         /\ Viewed /\ Possible(bases[Len(bases)])
         /\ Later(bases[Len(bases)], view[Crypto].base_price)
         /\ state_mailbox # <<>> => Later(bases[Len(bases)], Mailed)

BaseInv == PipeTypes /\ FeedInv /\ QuotedInv /\ ViewInv /\ MailInv /\ SeenInv

-----------------------------------------------------------------------------
LEMMA Names ==
    /\ Crypto \in Sources /\ Crypto[2] = "crypto-quote" /\ "crypto-quote" \in Queues
    /\ \A s \in Sources : s[2] \in Queues /\ (s[2] = "crypto-quote" => s = Crypto)
    /\ \A t \in Tokens :
         /\ Quote(t) \in Sources /\ Quote(t)[2] # "crypto-quote"
         /\ CurrentPosition(t) \in Sources /\ CurrentPosition(t)[2] # "crypto-quote"
<1>1. /\ Crypto[2] = "crypto-quote"
      /\ \A t : Quote(t)[2] = "market-quote" /\ CurrentPosition(t)[2] = "current-position"
  BY DEF Crypto, Quote, CurrentPosition
<1>2. /\ Crypto \in Sources
      /\ \A t \in Tokens : Quote(t) \in Sources /\ CurrentPosition(t) \in Sources
      /\ \A s \in Sources :
           s = Crypto \/ \E t \in Tokens : s = Quote(t) \/ s = CurrentPosition(t)
  BY DEF Sources, Quotes, PositionsOf, Tokens
<1>3. \A s \in Sources : s[2] \in Queues
  BY DEF Queues
<1>. QED
  BY <1>1, <1>2, <1>3

LEMMA LaterStill ==
    ASSUME NEW a, NEW b, NEW c, Later(a, b), Later(b, c)
    PROVE  Later(a, c)
  BY DEF Later

LEMMA PriceIsNot == \A n \in Nat : n # NoPrice
  BY FeedAssumption

LEMMA InitBase == Init => BaseInv
<1> SUFFICES ASSUME Init PROVE BaseInv
  OBVIOUS
<1>1. queues = [q \in Queues |-> <<>>] /\ view = [s \in Sources |-> Nothing]
      /\ state_mailbox = <<>> /\ bases = <<>>
  BY DEF Init
<1>2. FeedInv
  BY FeedAssumption DEF Init, FeedInit, FeedInv, Possible
<1>3. PipeTypes
  BY <1>1, Names DEF PipeTypes
<1>4. Quoted = <<>>
  BY <1>1, Names DEF Quoted
<1>5. QuotedInv
  BY <1>4 DEF QuotedInv, InTurn
<1>6. ~Viewed
  BY <1>1, Names, NothingAssumption DEF Viewed, CryptoRecord
<1>. QED
  BY <1>1, <1>2, <1>3, <1>5, <1>6 DEF BaseInv, ViewInv, MailInv, SeenInv

-----------------------------------------------------------------------------
(* The queues.                                                             *)

LEMMA Appended ==
    ASSUME NEW T, NEW s \in Seq(T), NEW e \in T
    PROVE  /\ Append(s, e) \in Seq(T) /\ Len(Append(s, e)) = Len(s) + 1 /\ Len(s) \in Nat
           /\ Append(s, e)[Len(s) + 1] = e /\ \A n \in 1..Len(s) : Append(s, e)[n] = s[n]
  OBVIOUS

LEMMA Dropped ==
    ASSUME NEW T, NEW s \in Seq(T), s # <<>>
    PROVE  /\ Tail(s) \in Seq(T) /\ Len(s) \in Nat \ {0} /\ Len(Tail(s)) = Len(s) - 1
           /\ Head(s) \in T /\ Head(s) = s[1] /\ \A n \in 1..Len(s) - 1 : Tail(s)[n] = s[n + 1]
  OBVIOUS

\* An event joins its queue, which may drop the oldest.
LEMMA OfferQueues ==
    ASSUME PipeTypes, NEW s \in Sources, NEW value \in Values,
           s = Crypto => value \in CryptoRecord, Offer(s, value)
    PROVE  LET e == [source |-> s, value |-> value] IN
           /\ e \in EventsOf(s[2])
           /\ queues' = [queues EXCEPT ![s[2]] = queues'[s[2]]]
           /\ \/ queues'[s[2]] = Append(queues[s[2]], e)
              \/ queues[s[2]] # <<>> /\ queues'[s[2]] = Append(Tail(queues[s[2]]), e)
           /\ UNCHANGED <<view, state_mailbox, bases>>
<1>1. s[2] \in Queues
  BY Names
<1>2. queues[s[2]] \in Seq(EventsOf(s[2]))
  BY <1>1 DEF PipeTypes
<1>3. Len(queues[s[2]]) >= QueueSize => queues[s[2]] # <<>>
  BY <1>2, QueueAssumption
<1>4. [source |-> s, value |-> value] \in EventsOf(s[2])
  BY DEF EventsOf
<1>. QED
  BY <1>1, <1>3, <1>4, QueueAssumption DEF Offer, PipeTypes

LEMMA OfferTypes ==
    ASSUME PipeTypes, NEW s \in Sources, NEW value \in Values,
           s = Crypto => value \in CryptoRecord, Offer(s, value)
    PROVE  PipeTypes'
<1>1. PICK e, q : e = [source |-> s, value |-> value] /\ q = s[2]
  OBVIOUS
<1>2. /\ e \in EventsOf(q) /\ queues' = [queues EXCEPT ![q] = queues'[q]] /\ q \in Queues
      /\ \/ queues'[q] = Append(queues[q], e)
         \/ queues[q] # <<>> /\ queues'[q] = Append(Tail(queues[q]), e)
      /\ view' = view
  BY <1>1, OfferQueues, Names
<1>3. queues[q] \in Seq(EventsOf(q))
  BY <1>2 DEF PipeTypes
<1>4. CASE queues'[q] = Append(queues[q], e)
  <2>1. queues'[q] \in Seq(EventsOf(q))
    BY <1>2, <1>3, <1>4, Appended
  <2>. QED
    BY <1>2, <2>1 DEF PipeTypes
<1>5. CASE queues[q] # <<>> /\ queues'[q] = Append(Tail(queues[q]), e)
  <2>1. Tail(queues[q]) \in Seq(EventsOf(q))
    BY <1>3, <1>5, Dropped
  <2>2. queues'[q] \in Seq(EventsOf(q))
    BY <1>2, <1>5, <2>1, Appended
  <2>. QED
    BY <1>2, <2>2 DEF PipeTypes
<1>. QED
  BY <1>2, <1>4, <1>5

\* An event of another queue leaves the prices where they are.
LEMMA OfferElsewhere ==
    ASSUME BaseInv, NEW s \in Sources, NEW value \in Values, s[2] # "crypto-quote",
           Offer(s, value), UNCHANGED feedVars
    PROVE  BaseInv'
<1>1. s # Crypto
  BY Names
<1>2. PipeTypes' /\ Quoted' = Quoted /\ UNCHANGED <<view, state_mailbox, bases>>
  <2>1. PipeTypes
    BY DEF BaseInv
  <2>2. queues' = [queues EXCEPT ![s[2]] = queues'[s[2]]] /\ UNCHANGED <<view, state_mailbox, bases>>
    BY <1>1, <2>1, OfferQueues
  <2>. QED
    BY <1>1, <2>1, <2>2, OfferTypes, Names DEF Quoted, PipeTypes
<1>. QED
  BY <1>2 DEF BaseInv, FeedInv, QuotedInv, ViewInv, MailInv, SeenInv, Viewed, Mailed, Possible,
     InTurn, feedVars

\* What the queue of crypto quotes is after a quote of the latest base price.
LEMMA QuotedGrows ==
    ASSUME NEW s \in Seq(EventsOf("crypto-quote")), NEW e \in EventsOf("crypto-quote"), InTurn(s),
           \A n \in 1..Len(s) : Later(BaseOf(s[n]), BaseOf(e))
    PROVE  /\ InTurn(Append(s, e)) /\ Len(Append(s, e)) = Len(s) + 1
           /\ \A n \in 1..Len(Append(s, e)) :
                Append(s, e)[n] = e \/ \E m \in 1..Len(s) : Append(s, e)[n] = s[m]
<1>1. /\ Len(Append(s, e)) = Len(s) + 1 /\ Len(s) \in Nat
      /\ Append(s, e)[Len(s) + 1] = e /\ \A n \in 1..Len(s) : Append(s, e)[n] = s[n]
  BY Appended
<1>2. ASSUME NEW m \in 1..Len(s) + 1, NEW n \in 1..Len(s) + 1, m < n
      PROVE  Later(BaseOf(Append(s, e)[m]), BaseOf(Append(s, e)[n]))
  <2>1. m \in 1..Len(s) /\ (n \in 1..Len(s) \/ n = Len(s) + 1)
    BY <1>1, <1>2
  <2>. QED
    BY <1>1, <1>2, <2>1 DEF InTurn
<1>3. InTurn(Append(s, e))
  BY <1>1, <1>2 DEF InTurn
<1>. QED
  BY <1>1, <1>3

LEMMA QuotedShrinks ==
    ASSUME NEW s \in Seq(EventsOf("crypto-quote")), s # <<>>, InTurn(s)
    PROVE  /\ InTurn(Tail(s)) /\ Tail(s) \in Seq(EventsOf("crypto-quote"))
           /\ 1 \in 1..Len(s) /\ Head(s) = s[1]
           /\ \A n \in 1..Len(Tail(s)) :
                Later(BaseOf(s[1]), BaseOf(Tail(s)[n])) /\ \E m \in 1..Len(s) : Tail(s)[n] = s[m]
<1>1. /\ Tail(s) \in Seq(EventsOf("crypto-quote")) /\ Len(s) \in Nat \ {0}
      /\ Len(Tail(s)) = Len(s) - 1 /\ Head(s) = s[1]
      /\ \A n \in 1..Len(s) - 1 : Tail(s)[n] = s[n + 1]
  BY Dropped
<1>2. \A n \in 1..Len(s) - 1 : n + 1 \in 1..Len(s) /\ 1 < n + 1
  BY <1>1
<1>3. InTurn(Tail(s))
  BY <1>1, <1>2 DEF InTurn
<1>. QED
  BY <1>1, <1>2, <1>3 DEF InTurn

\* A crypto quote sets the base price or carries the one there is.
LEMMA TickBase ==
    ASSUME BaseInv, NEW mid \in Prices, CryptoTick(mid)
    PROVE  BaseInv'
<1>1. /\ base_price' = base_price \/ (started_before_market /\ base_price = NoPrice /\ base_price' = mid)
      /\ started_before_market' = started_before_market /\ mid \in Nat
  BY FeedAssumption DEF CryptoTick, TakeQuote, TakesBase
<1>2. FeedInv'
  BY <1>1, PriceIsNot DEF BaseInv, FeedInv, Possible
<1>3. ASSUME base_price # NoPrice
      PROVE  base_price' = base_price
  BY <1>1, <1>3
<1>4. CASE base_price' = NoPrice
  <2>1. UNCHANGED <<pipeVars, histories>>
    BY <1>4 DEF CryptoTick, CryptoQuotes
  <2>2. UNCHANGED <<queues, view, state_mailbox, bases, base_price>>
    BY <1>1, <1>4, <2>1, PriceIsNot DEF pipeVars, histories
  <2>. QED
    BY <1>1, <1>2, <2>2 DEF BaseInv, PipeTypes, QuotedInv, ViewInv, MailInv, SeenInv, Viewed,
       Mailed, Possible, InTurn, Quoted
<1>5. CASE base_price' # NoPrice
  <2>1. PICK value : value = CryptoQuote(mid, base_price')
    OBVIOUS
  <2>2. /\ Offer(Crypto, value) /\ value \in CryptoRecord /\ value \in Values
        /\ value.base_price = base_price'
    BY <1>1, <1>2, <1>5, <2>1 DEF CryptoTick, CryptoQuotes, CryptoQuote, CryptoRecord, Values, FeedInv
  <2>3. PICK e : e = [source |-> Crypto, value |-> value]
    OBVIOUS
  <2>4. PipeTypes /\ Crypto \in Sources /\ Crypto[2] = "crypto-quote" /\ "crypto-quote" \in Queues
    BY Names DEF BaseInv
  <2>5. /\ e \in EventsOf("crypto-quote") /\ BaseOf(e) = base_price'
        /\ \/ Quoted' = Append(Quoted, e)
           \/ Quoted # <<>> /\ Quoted' = Append(Tail(Quoted), e)
        /\ UNCHANGED <<view, state_mailbox, bases>>
    BY <2>2, <2>3, <2>4, OfferQueues DEF Quoted, BaseOf
  <2>6. PICK kept : kept \in {Quoted, Tail(Quoted)} /\ Quoted' = Append(kept, e)
                    /\ (kept = Tail(Quoted) => Quoted # <<>> \/ kept = Quoted)
    BY <2>5
  <2>7. /\ kept \in Seq(EventsOf("crypto-quote")) /\ InTurn(kept)
        /\ \A n \in 1..Len(kept) : \E m \in 1..Len(Quoted) : kept[n] = Quoted[m]
    <3>1. Quoted \in Seq(EventsOf("crypto-quote")) /\ InTurn(Quoted)
      BY <2>4 DEF PipeTypes, Quoted, BaseInv, QuotedInv
    <3>2. CASE kept = Quoted
      BY <3>1, <3>2
    <3>3. CASE kept = Tail(Quoted) /\ Quoted # <<>>
      BY <3>1, <3>3, QuotedShrinks
    <3>. QED
      BY <2>6, <3>2, <3>3
  <2>8. \A n \in 1..Len(kept) :
          base_price # NoPrice /\ Possible(BaseOf(kept[n])) /\ Later(BaseOf(kept[n]), base_price')
    BY <1>3, <2>7 DEF BaseInv, QuotedInv
  <2>9. /\ InTurn(Append(kept, e))
        /\ \A n \in 1..Len(Append(kept, e)) :
             Append(kept, e)[n] = e \/ \E m \in 1..Len(kept) : Append(kept, e)[n] = kept[m]
    BY <2>5, <2>7, <2>8, QuotedGrows
  <2>10. Possible(base_price') /\ Later(base_price', base_price')
    BY <1>1, <1>2, <1>5 DEF FeedInv, Possible, Later
  <2>11. QuotedInv'
    BY <1>1, <1>5, <2>5, <2>6, <2>8, <2>9, <2>10 DEF QuotedInv, InTurn, Possible
  <2>12. ViewInv'
    <3>1. SUFFICES ASSUME Viewed PROVE ViewInv'
      BY <2>5 DEF ViewInv, Viewed
    <3>2. /\ Possible(view[Crypto].base_price) /\ base_price' = base_price
          /\ Later(view[Crypto].base_price, base_price')
          /\ \A n \in 1..Len(Quoted) : Later(view[Crypto].base_price, BaseOf(Quoted[n]))
      BY <1>3, <3>1 DEF BaseInv, ViewInv
    <3>3. \A n \in 1..Len(Quoted') : Later(view[Crypto].base_price, BaseOf(Quoted'[n]))
      BY <2>5, <2>6, <2>7, <2>9, <3>2, ZenonT(30)
    <3>. QED
      BY <1>1, <1>5, <2>5, <3>2, <3>3 DEF ViewInv, Possible
  <2>13. MailInv' /\ SeenInv'
    BY <1>1, <2>5 DEF BaseInv, MailInv, SeenInv, Viewed, Mailed, Possible
  <2>14. PipeTypes'
    BY <2>2, <2>4, OfferTypes
  <2>. QED
    BY <1>2, <2>11, <2>12, <2>13, <2>14 DEF BaseInv
<1>. QED
  BY <1>4, <1>5

-----------------------------------------------------------------------------
(* The steps.                                                              *)

\* The runtime state takes up the oldest event of a queue.
LEMMA UpdateBase ==
    ASSUME BaseInv, NEW q \in Queues, UpdateState(q)
    PROVE  BaseInv'
<1>1. PICK e, v : e = Head(queues[q]) /\ v = [view EXCEPT ![e.source] = e.value]
  OBVIOUS
<1>2. /\ queues[q] # <<>> /\ queues' = [queues EXCEPT ![q] = Tail(queues[q])] /\ view' = v
      /\ UNCHANGED <<feedVars, bases>>
      /\ \/ Complete(v) /\ state_mailbox' = <<[state |-> v, sides |-> indicators']>>
         \/ state_mailbox' = state_mailbox
  BY <1>1, Zenon DEF UpdateState, PutNewest, histories
<1>3. /\ queues[q] \in Seq(EventsOf(q)) /\ queues = [p \in Queues |-> queues[p]]
      /\ view \in [Sources -> Values \cup {Nothing}] /\ view[Crypto] \in CryptoRecord \cup {Nothing}
  BY DEF BaseInv, PipeTypes
<1>4. /\ Tail(queues[q]) \in Seq(EventsOf(q)) /\ e \in EventsOf(q)
  BY <1>1, <1>2, <1>3, Dropped
<1>5. e.source \in Sources /\ e.source[2] = q /\ e.value \in Values
      /\ (e.source = Crypto => e.value \in CryptoRecord)
  BY <1>4 DEF EventsOf
<1>6. e.source = Crypto <=> q = "crypto-quote"
  BY <1>5, Names
<1>7. /\ v \in [Sources -> Values \cup {Nothing}]
      /\ v[Crypto] = IF q = "crypto-quote" THEN e.value ELSE view[Crypto]
      /\ v[Crypto] \in CryptoRecord \cup {Nothing}
  BY <1>1, <1>3, <1>5, <1>6, Names
<1>8. PipeTypes'
  <2>1. queues' = [p \in Queues |-> queues'[p]] /\ \A p \in Queues : queues'[p] \in Seq(EventsOf(p))
    BY <1>2, <1>3, <1>4 DEF BaseInv, PipeTypes
  <2>. QED
    BY <1>2, <1>7, <2>1 DEF PipeTypes
<1>9. FeedInv' /\ base_price' = base_price /\ started_before_market' = started_before_market
  BY <1>2 DEF BaseInv, FeedInv, Possible, feedVars
<1>10. Quoted' = IF q = "crypto-quote" THEN Tail(Quoted) ELSE Quoted
  BY <1>2, <1>3, Names DEF Quoted
<1>11. QuotedInv' /\ ViewInv' /\ (Viewed => Viewed' /\ Later(view[Crypto].base_price, v[Crypto].base_price))
  <2>1. CASE q = "crypto-quote"
    <3>1. Quoted \in Seq(EventsOf("crypto-quote")) /\ Quoted # <<>> /\ InTurn(Quoted)
          /\ e = Quoted[1] /\ 1 \in 1..Len(Quoted)
      BY <1>1, <1>2, <1>3, <2>1, Dropped DEF Quoted, BaseInv, QuotedInv
    <3>2. /\ InTurn(Tail(Quoted))
          /\ \A n \in 1..Len(Tail(Quoted)) :
               Later(BaseOf(e), BaseOf(Tail(Quoted)[n])) /\ \E m \in 1..Len(Quoted) : Tail(Quoted)[n] = Quoted[m]
      BY <3>1, QuotedShrinks
    <3>3. \A n \in 1..Len(Quoted) :
            Possible(BaseOf(Quoted[n])) /\ base_price # NoPrice /\ Later(BaseOf(Quoted[n]), base_price)
      BY DEF BaseInv, QuotedInv
    <3>4. v[Crypto].base_price = BaseOf(e) /\ v[Crypto] \in CryptoRecord
      BY <1>5, <1>6, <1>7, <2>1 DEF BaseOf
    <3>5. QuotedInv'
      BY <1>9, <1>10, <2>1, <3>2, <3>3 DEF QuotedInv, Possible, InTurn
    <3>6. ViewInv'
      BY <1>2, <1>9, <1>10, <2>1, <3>1, <3>2, <3>3, <3>4 DEF ViewInv, Possible
    <3>7. Viewed => Later(view[Crypto].base_price, BaseOf(e))
      BY <3>1 DEF BaseInv, ViewInv
    <3>. QED
      BY <1>2, <3>4, <3>5, <3>6, <3>7 DEF Viewed
  <2>2. CASE q # "crypto-quote"
    BY <1>2, <1>7, <1>9, <1>10, <2>2 DEF BaseInv, QuotedInv, ViewInv, Viewed, Possible, InTurn, Later
  <2>. QED
    BY <2>1, <2>2
<1>12. CASE state_mailbox' = state_mailbox
  <2>1. MailInv'
    BY <1>2, <1>9, <1>11, <1>12, LaterStill DEF BaseInv, MailInv, Mailed, Possible
  <2>2. SeenInv'
    BY <1>2, <1>9, <1>11, <1>12, LaterStill DEF BaseInv, SeenInv, Mailed, Possible
  <2>. QED
    BY <1>8, <1>9, <1>11, <2>1, <2>2 DEF BaseInv
<1>13. CASE Complete(v) /\ state_mailbox' = <<[state |-> v, sides |-> indicators']>>
  <2>1. v[Crypto] \in CryptoRecord
    BY <1>7, <1>13 DEF Complete, Quotes
  <2>2. /\ Viewed' /\ Mailed' = v[Crypto].base_price /\ Possible(v[Crypto].base_price)' /\ view'[Crypto] = v[Crypto]
    BY <1>2, <1>11, <1>13, <2>1 DEF Viewed, Mailed, ViewInv
  <2>3. MailInv'
    BY <2>2 DEF MailInv, Later, Possible
  <2>4. SeenInv'
    BY <1>2, <1>9, <1>11, <2>2, LaterStill DEF BaseInv, SeenInv, Possible
  <2>. QED
    BY <1>8, <1>9, <1>11, <2>3, <2>4 DEF BaseInv
<1>. QED
  BY <1>2, <1>12, <1>13

\* The strategy sees the base price of the mailbox.
LEMMA PredictBase ==
    ASSUME BaseInv, Predict
    PROVE  BaseInv'
<1>1. PICK base : base = Mailed
  OBVIOUS
<1>2. /\ state_mailbox # <<>> /\ state_mailbox' = <<>>
      /\ bases' = IF bases # <<>> /\ Last(bases) = base THEN bases ELSE Append(bases, base)
      /\ UNCHANGED <<feedVars, queues, view>>
  BY <1>1, Zenon DEF Predict, Mailed
<1>3. /\ Viewed /\ Possible(base) /\ Later(base, view[Crypto].base_price)
      /\ bases \in Seq(Nat) /\ Len(bases) <= 2 /\ (Len(bases) = 2 => bases[2] = OpenPrice)
      /\ bases # <<>> => Possible(bases[Len(bases)]) /\ Later(bases[Len(bases)], base)
  BY <1>1, <1>2 DEF BaseInv, MailInv, SeenInv
<1>4. SeenInv'
  <2>1. CASE bases # <<>> /\ Last(bases) = base
    BY <1>2, <1>3, <2>1 DEF BaseInv, SeenInv, Viewed, Possible, feedVars
  <2>2. CASE ~(bases # <<>> /\ Last(bases) = base)
    <3>1. base \in Nat
      BY <1>3 DEF Possible
    <3>2. /\ bases' = Append(bases, base) /\ bases' \in Seq(Nat) /\ Len(bases') = Len(bases) + 1
          /\ Len(bases) \in Nat /\ bases'[Len(bases) + 1] = base
      BY <1>2, <1>3, <2>2, <3>1, Appended
    <3>3. Len(bases) = 0 \/ (Len(bases) = 1 /\ base = OpenPrice)
      <4>1. CASE bases = <<>>
        BY <4>1
      <4>2. CASE bases # <<>>
        <5>1. base = OpenPrice /\ bases[Len(bases)] # base
          BY <1>3, <2>2, <4>2 DEF Later, Last
        <5>2. Len(bases) \in {1, 2}
          <6>1. Len(bases) \in Nat /\ Len(bases) # 0 /\ Len(bases) <= 2
            BY <1>3, <4>2
          <6>2. \A k \in Nat : k # 0 /\ k <= 2 => k \in {1, 2}
            OBVIOUS
          <6>. QED
            BY <6>1, <6>2
        <5>. QED
          BY <1>3, <5>1, <5>2
      <4>. QED
        BY <4>1, <4>2
    <3>4. Len(bases') <= 2 /\ (Len(bases') = 2 => bases'[2] = OpenPrice) /\ bases'[Len(bases')] = base
      BY <3>2, <3>3
    <3>. QED
      BY <1>2, <1>3, <3>2, <3>4 DEF SeenInv, Viewed, Possible, feedVars
  <2>. QED
    BY <2>1, <2>2
<1>. QED
  BY <1>2, <1>4 DEF BaseInv, PipeTypes, FeedInv, QuotedInv, ViewInv, MailInv, Viewed, Possible,
     Quoted, InTurn, feedVars

\* The clock, and the answer of the API.
LEMMA FeedBase ==
    ASSUME BaseInv, FeedStep, UNCHANGED <<pipeVars, histories>>
    PROVE  BaseInv'
<1>1. /\ started_before_market' = started_before_market
      /\ base_price' = base_price \/ base_price' = OpenPrice
  BY DEF FeedStep, WindowOpens, MillisecondPasses, RefreshWakes, RefreshReturns, RefreshedOrKept
<1>2. UNCHANGED <<queues, view, state_mailbox, bases>>
  BY DEF pipeVars, histories
<1>3. FeedInv' /\ OpenPrice # NoPrice
  BY <1>1, FeedAssumption DEF BaseInv, FeedInv, Possible
<1>4. \A a : Later(a, base_price) => Later(a, base_price')
  BY <1>1 DEF Later
<1>5. base_price # NoPrice => base_price' # NoPrice
  BY <1>1, <1>3
<1>. QED
  BY <1>1, <1>2, <1>3, <1>4, <1>5 DEF BaseInv, PipeTypes, QuotedInv, ViewInv, MailInv, SeenInv,
     Viewed, Mailed, Possible, Quoted, InTurn

LEMMA StepBase == BaseInv /\ [Next]_vars => BaseInv'
<1> SUFFICES ASSUME BaseInv, [Next]_vars PROVE BaseInv'
  OBVIOUS
<1>1. ASSUME UNCHANGED <<feedVars, queues, view, state_mailbox, bases>> PROVE BaseInv'
  BY <1>1 DEF BaseInv, PipeTypes, FeedInv, QuotedInv, ViewInv, MailInv, SeenInv, Viewed, Mailed,
     Possible, Quoted, InTurn, feedVars
<1>2. ASSUME NEW token \in Tokens, NEW book \in Books, MarketTick(token, book) PROVE BaseInv'
  <2>1. PICK quote : quote = [token |-> token, book |-> book]
    OBVIOUS
  <2>2. Offer(Quote(token), book) /\ UNCHANGED feedVars
    BY <1>2, <2>1 DEF MarketTick, MarketQuotes
  <2>3. book \in Values
    BY DEF Values
  <2>. QED
    BY <2>2, <2>3, Names, OfferElsewhere
<1>3. ASSUME NEW token \in Tokens, NEW position \in Positions, PositionChanges(token, position)
      PROVE  BaseInv'
  <2>1. position \in Values /\ Offer(CurrentPosition(token), position) /\ UNCHANGED feedVars
    BY <1>3 DEF Values, PositionChanges
  <2>. QED
    BY <2>1, Names, OfferElsewhere
<1>4. CASE EngineTakesUp \/ EngineDone \/ UNCHANGED vars
  BY <1>1, <1>4 DEF EngineTakesUp, EngineDone, vars, pipeVars, histories
<1>. QED
  BY <1>2, <1>3, <1>4, TickBase, UpdateBase, PredictBase, FeedBase, Zenon DEF Next

\* The strategy sees the base price of its window move at most once, and then to
\* what the API says; a worker that started late only sees the API's (feed.py:28-89).
THEOREM BaseMovesOnceCorrect == Spec => []BaseMovesOnce
<1>1. BaseInv => BaseMovesOnce
  BY PriceIsNot DEF BaseInv, SeenInv, BaseMovesOnce, Possible, Last
<1>. QED
  BY <1>1, InitBase, StepBase, PTL DEF Spec
=============================================================================
