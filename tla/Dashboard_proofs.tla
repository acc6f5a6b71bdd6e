-------------------------- MODULE Dashboard_proofs --------------------------
(***************************************************************************)
(* Theorems about the dashboard, for any markets, clients and sizes of its *)
(* queues: what it shows of a market does not go back, and no client is    *)
(* left with an old state.                                                 *)
(***************************************************************************)
EXTENDS Dashboard, FiniteSetTheorems, TLAPS

Number == Nat \ {0}
MarketState == [market : Markets, number : Number]
Phase == {"away", "greeting", "listening", "closed"}
Visit == [phase : Phase, next : Nat, size : Nat, seen : [Markets -> Nat]]
Broadcast ==
    [phase : {"idle", "sending", "dead"}, state : MarketState \cup {NoState}, size : Nat,
     done : SUBSET Clients, failed : SUBSET Clients, swapped : BOOLEAN]

WorkerTypes ==
    /\ made \in [Markets -> Nat] /\ posting \in [Markets -> Nat]
    /\ states \in [Markets -> Seq(Number)]
    /\ requests \in SUBSET MarketState

ServerTypes ==
    /\ latest \in [Markets -> Nat]
    /\ slugs \in Seq(Markets) /\ backlog \in Seq(MarketState)

ClientTypes ==
    /\ clients \in SUBSET Clients /\ IsFiniteSet(clients)
    /\ visits \in [Clients -> Visit] /\ broadcast \in Broadcast
    /\ broadcast.phase = "sending" => broadcast.state \in MarketState
    /\ \A c \in Clients : visits[c].phase = "greeting" => visits[c].next > 0

\* As long as no POST of a market has timed out, the server is to read at most
\* the state its worker waits for, and what is queued is newer still.
InTurn(m) ==
    /\ \A s \in requests : s.market = m => s.number = posting[m]
    /\ posting[m] # 0 => latest[m] < posting[m]
    /\ latest[m] <= made[m] /\ posting[m] <= made[m]
    /\ \A i \in DOMAIN states[m] :
         /\ latest[m] < states[m][i] /\ posting[m] < states[m][i] /\ states[m][i] <= made[m]
         /\ \A j \in DOMAIN states[m] : i < j => states[m][i] < states[m][j]

TurnInv == \A m \in Markets : m \notin late => InTurn(m)

Queued(m) == \E i \in DOMAIN backlog : backlog[i].market = m

\* The last entry of a market in the backlog is its latest state, and so is
\* what is being sent of a market that has no entry.
NewestInv ==
    /\ \A i \in DOMAIN backlog :
         (\A j \in DOMAIN backlog : i < j => backlog[j].market # backlog[i].market)
            => backlog[i].number = latest[backlog[i].market]
    /\ broadcast.phase = "sending" =>
         LET m == broadcast.state.market IN
         Queued(m) \/ m \in missed \/ broadcast.state.number = latest[m]

\* A client is in the set from its greeting until its handler has ended, unless
\* a send to it has failed.
MembersInv ==
    \A c \in Clients :
        /\ Visiting(c) => c \in clients /\ c \notin broadcast.failed
        /\ visits[c].phase = "away" => c \notin clients /\ \A m \in Markets : visits[c].seen[m] = 0

\* A market that has had no state yet shows none.
SlugsInv == \A m \in Markets : latest[m] = 0 \/ \E i \in DOMAIN slugs : slugs[i] = m

\* The client's greeting has passed the market, or will not come to it.
Passed(c, m) ==
    \/ visits[c].phase = "listening"
    \/ visits[c].phase = "greeting" /\ \A i \in DOMAIN slugs : i >= visits[c].next => slugs[i] # m

\* A newer state of the market is on its way to the client.
ToCome(c, m) ==
    \/ Queued(m)
    \/ broadcast.phase = "sending" /\ broadcast.state.market = m /\ c \notin broadcast.done

UpToDate(c, m) == Passed(c, m) => ToCome(c, m) \/ visits[c].seen[m] = latest[m]

CurrentInv ==
    broadcast.phase # "dead" => \A c \in Clients : \A m \in Markets \ missed : UpToDate(c, m)

TypeInv == WorkerTypes /\ ServerTypes /\ ClientTypes

ClientInv == SlugsInv /\ MembersInv /\ NewestInv /\ CurrentInv

IInv == TypeInv /\ TurnInv /\ ClientInv

-----------------------------------------------------------------------------
(* A full queue that drops its oldest entry.                               *)

LEMMA PutFacts ==
    ASSUME NEW T, NEW q \in Seq(T), NEW x \in T, NEW n \in Nat \ {0},
           NEW p, p = PutDroppingOldest(q, x, n)
    PROVE  /\ p \in Seq(T) /\ Len(p) > 0 /\ p[Len(p)] = x
           /\ \E k \in {0, 1} :
                /\ Len(p) = Len(q) - k + 1
                /\ \A i \in 1..(Len(q) - k) : p[i] = q[i + k]
<1>1. CASE Len(q) = n
  BY <1>1 DEF PutDroppingOldest
<1>2. CASE Len(q) # n
  BY <1>2 DEF PutDroppingOldest
<1>. QED
  BY <1>1, <1>2

\* Entries keep their order, and the new one is last.
LEMMA PutKeepsOrder ==
    ASSUME NEW T, NEW q \in Seq(T), NEW x \in T, NEW n \in Nat \ {0},
           NEW p, p = PutDroppingOldest(q, x, n),
           NEW i \in DOMAIN p
    PROVE  \/ i = Len(p) /\ p[i] = x
           \/ /\ i < Len(p)
              /\ \E a \in DOMAIN q :
                   /\ p[i] = q[a]
                   /\ \A j \in DOMAIN p : i < j =>
                        \/ j = Len(p) /\ p[j] = x
                        \/ \E b \in DOMAIN q : a < b /\ p[j] = q[b]
<1>1. /\ p \in Seq(T) /\ Len(p) > 0 /\ p[Len(p)] = x
      /\ \E k \in {0, 1} :
           /\ Len(p) = Len(q) - k + 1
           /\ \A j \in 1..(Len(q) - k) : p[j] = q[j + k]
  BY PutFacts
<1>2. PICK k \in {0, 1} :
           /\ Len(p) = Len(q) - k + 1
           /\ \A j \in 1..(Len(q) - k) : p[j] = q[j + k]
  BY <1>1
<1>3. i \in 1..Len(p) /\ DOMAIN p = 1..Len(p) /\ DOMAIN q = 1..Len(q) /\ Len(q) \in Nat
  BY <1>1
<1>4. CASE i = Len(p)
  BY <1>1, <1>4
<1>5. CASE i # Len(p)
  <2>1. i \in 1..(Len(q) - k) /\ i < Len(p) /\ i + k \in DOMAIN q /\ p[i] = q[i + k]
    BY <1>2, <1>3, <1>5
  <2>2. ASSUME NEW j \in DOMAIN p, i < j, j # Len(p)
        PROVE  j + k \in DOMAIN q /\ i + k < j + k /\ p[j] = q[j + k]
    <3>1. j \in 1..(Len(q) - k)
      BY <1>2, <1>3, <2>2
    <3>2. p[j] = q[j + k]
      BY <1>2, <3>1
    <3>3. i \in Int /\ j \in Int /\ k \in {0, 1} /\ j >= 1 /\ j <= Len(q) - k
      BY <1>3, <3>1
    <3>4. j + k \in 1..Len(q) /\ i + k < j + k
      BY <1>3, <2>2, <3>3
    <3>. QED
      BY <1>3, <3>2, <3>4
  <2>. QED
    BY <1>1, <2>1, <2>2
<1>. QED
  BY <1>4, <1>5

\* Entries after the oldest are kept, and so is the oldest if there is room.
LEMMA TailFacts ==
    ASSUME NEW T, NEW q \in Seq(T), q # <<>>
    PROVE  /\ Tail(q) \in Seq(T) /\ Head(q) \in T /\ Head(q) = q[1] /\ 1 \in DOMAIN q
           /\ \A i \in DOMAIN Tail(q) : i + 1 \in DOMAIN q /\ Tail(q)[i] = q[i + 1]
           /\ \A i \in DOMAIN q : i # 1 => i - 1 \in DOMAIN Tail(q) /\ Tail(q)[i - 1] = q[i]
OBVIOUS

-----------------------------------------------------------------------------
(* The dashboard does not step back.                                       *)

LEMMA WorkerTypesStep == TypeInv /\ [Next]_vars => WorkerTypes' /\ late \subseteq late'
<1>. SUFFICES ASSUME TypeInv, [Next]_vars PROVE WorkerTypes' /\ late \subseteq late'
  OBVIOUS
<1>. USE DEF TypeInv, WorkerTypes
<1>1. ASSUME NEW m \in Markets, StateChanges(m) PROVE WorkerTypes' /\ late \subseteq late'
  <2>1. made[m] + 1 \in Number /\ states[m] \in Seq(Number) /\ QueueSize \in Nat \ {0}
    BY SizeAssumption DEF Number
  <2>2. PutDroppingOldest(states[m], made[m] + 1, QueueSize) \in Seq(Number)
    BY <2>1, PutFacts
  <2>. QED
    BY <1>1, <2>1, <2>2 DEF StateChanges, Number
<1>2. ASSUME NEW m \in Markets, Forward(m) PROVE WorkerTypes' /\ late \subseteq late'
  <2>1. Tail(states[m]) \in Seq(Number) /\ Head(states[m]) \in Number
    BY <1>2, TailFacts DEF Forward
  <2>2. State(m, Head(states[m])) \in MarketState
    BY <2>1 DEF State, MarketState
  <2>. QED
    BY <1>2, <2>1, <2>2 DEF Forward, Number
<1>3. ASSUME NEW m \in Markets, NEW reached \in BOOLEAN, ForwardFails(m, reached)
      PROVE  WorkerTypes' /\ late \subseteq late'
  BY <1>3 DEF ForwardFails
<1>4. ASSUME NEW s \in requests, UpdateState(s) PROVE WorkerTypes' /\ late \subseteq late'
  <2>1. posting' \in [Markets -> Nat]
    BY <1>4 DEF UpdateState
  <2>. QED
    BY <1>4, <2>1 DEF UpdateState
<1>5. ASSUME UNCHANGED <<worker, requests>> PROVE WorkerTypes' /\ late \subseteq late'
  BY <1>5 DEF worker
<1>6. ASSUME NEW c \in Clients, ClientStep(c) PROVE UNCHANGED <<worker, requests>>
  BY <1>6 DEF ClientStep, Connect, Greet, Close, Disconnected, BroadcastContinues
<1>. QED
  BY <1>1, <1>2, <1>3, <1>4, <1>5, <1>6
     DEF Next, vars, BroadcastStarts, BroadcastEnds, BroadcastDies

LEMMA SameState ==
    ASSUME NEW r \in MarketState, NEW s \in MarketState, r.market = s.market, r.number = s.number
    PROVE  r = s
<1>1. r = State(r.market, r.number)
  BY DEF MarketState, State
<1>2. s = State(s.market, s.number)
  BY DEF MarketState, State
<1>. QED
  BY <1>1, <1>2

LEMMA TurnStep == TypeInv /\ TurnInv /\ [Next]_vars => TurnInv'
<1>. SUFFICES ASSUME TypeInv, TurnInv, [Next]_vars, NEW n \in Markets, n \notin late'
              PROVE  InTurn(n)'
  BY DEF TurnInv
<1>0. n \notin late /\ InTurn(n)
  BY WorkerTypesStep DEF TurnInv
<1>. USE DEF TypeInv, WorkerTypes, ServerTypes
<1>1. ASSUME NEW m \in Markets, StateChanges(m) PROVE InTurn(n)'
  <2>1. CASE n # m
    BY <1>0, <1>1, <2>1 DEF StateChanges, InTurn, server
  <2>2. CASE n = m
    <3>. DEFINE q == states[m]
                x == made[m] + 1
                p == PutDroppingOldest(q, x, QueueSize)
    <3>1. /\ states'[n] = p /\ made'[n] = made[n] + 1 /\ posting' = posting /\ latest' = latest
          /\ requests' = requests
      BY <1>1, <2>2 DEF StateChanges, server
    <3>2. x \in Number /\ q \in Seq(Number) /\ QueueSize \in Nat \ {0}
      BY SizeAssumption DEF Number
    <3>3. /\ latest[n] < x /\ posting[n] < x /\ latest[n] <= x /\ posting[n] <= x
          /\ \A a \in DOMAIN q : q[a] < x /\ latest[n] < q[a] /\ posting[n] < q[a]
      <4>1. latest[n] \in Nat /\ posting[n] \in Nat /\ made[n] \in Nat
        OBVIOUS
      <4>2. \A a \in DOMAIN q : q[a] \in Nat
        BY <3>2 DEF Number
      <4>. QED
        BY <1>0, <2>2, <4>1, <4>2 DEF InTurn
    <3>4. \A a, b \in DOMAIN q : a < b => q[a] < q[b]
      BY <1>0, <2>2 DEF InTurn
    <3>. HIDE DEF q, x
    <3>5. ASSUME NEW i \in DOMAIN p
          PROVE  /\ latest[n] < p[i] /\ posting[n] < p[i] /\ p[i] <= x
                 /\ \A j \in DOMAIN p : i < j => p[i] < p[j]
      <4>1. \/ i = Len(p) /\ p[i] = x
            \/ /\ i < Len(p)
               /\ \E a \in DOMAIN q :
                    /\ p[i] = q[a]
                    /\ \A j \in DOMAIN p : i < j =>
                         \/ j = Len(p) /\ p[j] = x
                         \/ \E b \in DOMAIN q : a < b /\ p[j] = q[b]
        BY <3>2, PutKeepsOrder
      <4>2. p \in Seq(Number)
        BY <3>2, PutFacts
      <4>3. DOMAIN p = 1..Len(p) /\ Len(p) \in Nat /\ x \in Nat
        BY <3>2, <4>2 DEF Number
      <4>. HIDE DEF p
      <4>4. CASE i = Len(p) /\ p[i] = x
        BY <3>3, <4>3, <4>4
      <4>5. CASE \E a \in DOMAIN q :
                    /\ p[i] = q[a]
                    /\ \A j \in DOMAIN p : i < j =>
                         \/ j = Len(p) /\ p[j] = x
                         \/ \E b \in DOMAIN q : a < b /\ p[j] = q[b]
        <5>1. PICK a \in DOMAIN q :
                    /\ p[i] = q[a]
                    /\ \A j \in DOMAIN p : i < j =>
                         \/ j = Len(p) /\ p[j] = x
                         \/ \E b \in DOMAIN q : a < b /\ p[j] = q[b]
          BY <4>5
        <5>2. q[a] < x /\ latest[n] < q[a] /\ posting[n] < q[a] /\ q[a] \in Nat
          BY <3>2, <3>3 DEF Number
        <5>3. \A j \in DOMAIN p : i < j => p[i] < p[j]
          BY <3>4, <5>1, <5>2
        <5>. QED
          BY <4>3, <5>1, <5>2, <5>3
      <4>. QED
        BY <4>1, <4>4, <4>5
    <3>. HIDE DEF p
    <3>6. made'[n] = x
      BY <2>2, <3>1 DEF x
    <3>. QED
      BY <1>0, <3>1, <3>3, <3>5, <3>6 DEF InTurn
  <2>. QED
    BY <2>1, <2>2
<1>2. ASSUME NEW m \in Markets, Forward(m) PROVE InTurn(n)'
  <2>1. CASE n # m
    BY <1>0, <1>2, <2>1 DEF Forward, InTurn, server, State
  <2>2. CASE n = m
    <3>. DEFINE q == states[m]
    <3>1. /\ states'[n] = Tail(q) /\ posting'[n] = Head(q) /\ posting[n] = 0 /\ q # <<>>
          /\ requests' = requests \cup {State(n, Head(q))} /\ made' = made /\ latest' = latest
      BY <1>2, <2>2 DEF Forward, server, Answered
    <3>2. q \in Seq(Number)
      OBVIOUS
    <3>3. /\ Head(q) = q[1] /\ 1 \in DOMAIN q /\ Head(q) \in Number
          /\ \A i \in DOMAIN Tail(q) : i + 1 \in DOMAIN q /\ Tail(q)[i] = q[i + 1]
          /\ DOMAIN q = 1..Len(q) /\ Len(q) \in Nat /\ Tail(q) \in Seq(Number)
      BY <3>1, <3>2, TailFacts
    <3>4. \A s \in requests : s.market # n
      BY <1>0, <3>1 DEF InTurn, MarketState, Number
    <3>5. \A s \in requests' : s.market = n => s.number = posting'[n]
      BY <3>1, <3>4 DEF State
    <3>6. /\ \A i \in DOMAIN q : /\ latest[n] < q[i] /\ q[i] <= made[n]
                                /\ \A j \in DOMAIN q : i < j => q[i] < q[j]
          /\ latest[n] <= made[n]
      BY <1>0, <2>2 DEF InTurn
    <3>. HIDE DEF q
    <3>7. ASSUME NEW i \in DOMAIN Tail(q)
          PROVE  /\ latest[n] < Tail(q)[i] /\ Head(q) < Tail(q)[i] /\ Tail(q)[i] <= made[n]
                 /\ \A j \in DOMAIN Tail(q) : i < j => Tail(q)[i] < Tail(q)[j]
      <4>1. i \in Nat /\ i > 0 /\ i + 1 \in DOMAIN q /\ Tail(q)[i] = q[i + 1] /\ 1 < i + 1
        BY <3>3
      <4>2. \A j \in DOMAIN Tail(q) : i < j => i + 1 < j + 1
        BY <3>3
      <4>. QED
        BY <3>3, <3>6, <4>1, <4>2
    <3>. QED
      BY <3>1, <3>3, <3>5, <3>6, <3>7 DEF InTurn
  <2>. QED
    BY <2>1, <2>2
<1>3. ASSUME NEW m \in Markets, NEW reached \in BOOLEAN, ForwardFails(m, reached)
      PROVE  InTurn(n)'
  <2>1. CASE n # m
    BY <1>0, <1>3, <2>1 DEF ForwardFails, InTurn, server, State
  <2>2. CASE n = m
    <3>1. /\ ~reached /\ requests' = requests \ {State(n, posting[n])}
          /\ posting'[n] = 0 /\ states' = states /\ made' = made /\ latest' = latest
      BY <1>3, <2>2 DEF ForwardFails, server
    <3>2. \A s \in requests' : s.market # n
      <4>1. ASSUME NEW s \in requests, s.market = n PROVE s = State(n, posting[n])
        BY <1>0, <4>1 DEF InTurn, MarketState, State
      <4>. QED
        BY <3>1, <4>1
    <3>3. \A i \in DOMAIN states[n] : states[n][i] \in Nat /\ states[n][i] > 0
      BY DEF Number
    <3>. QED
      BY <1>0, <3>1, <3>2, <3>3 DEF InTurn
  <2>. QED
    BY <2>1, <2>2
<1>4. ASSUME NEW s \in requests, UpdateState(s) PROVE InTurn(n)'
  <2>0. s.market \in Markets /\ s.number \in Nat /\ s.number > 0
    BY DEF MarketState, Number
  <2>1. CASE n # s.market
    <3>1. /\ \A r \in requests' : r \in requests
          /\ posting'[n] = posting[n] /\ latest'[n] = latest[n] /\ states' = states /\ made' = made
      BY <1>4, <2>1 DEF UpdateState
    <3>. QED
      BY <1>0, <3>1 DEF InTurn
  <2>2. CASE n = s.market
    <3>1. s.number = posting[n]
      BY <1>0, <2>2 DEF InTurn
    <3>2. /\ requests' = requests \ {s} /\ posting'[n] = 0 /\ latest'[n] = posting[n]
          /\ states' = states /\ made' = made
      BY <1>4, <2>0, <2>2, <3>1 DEF UpdateState
    <3>3. \A r \in requests' : r.market # n
      <4>1. ASSUME NEW r \in requests, r.market = n PROVE r = s
        <5>1. r.number = posting[n] /\ s.number = posting[n] /\ r.market = s.market
          BY <1>0, <2>2, <4>1 DEF InTurn
        <5>2. r \in MarketState /\ s \in MarketState
          OBVIOUS
        <5>. QED
          BY <5>1, <5>2, SameState
      <4>. QED
        BY <3>2, <4>1
    <3>4. \A i \in DOMAIN states[n] : states[n][i] \in Nat /\ states[n][i] > 0
      BY DEF Number
    <3>. QED
      BY <1>0, <3>2, <3>3, <3>4 DEF InTurn
  <2>. QED
    BY <2>1, <2>2
<1>5. ASSUME UNCHANGED <<worker, requests, latest>> PROVE InTurn(n)'
  BY <1>0, <1>5 DEF InTurn, worker
<1>6. ASSUME NEW c \in Clients, ClientStep(c) PROVE UNCHANGED <<worker, requests, latest>>
  BY <1>6 DEF ClientStep, Connect, Greet, Close, Disconnected, BroadcastContinues, server
<1>. QED
  BY <1>1, <1>2, <1>3, <1>4, <1>5, <1>6
     DEF Next, vars, server, BroadcastStarts, BroadcastEnds, BroadcastDies

LEMMA NoStepBackStep ==
    TypeInv /\ TurnInv /\ [Next]_vars => \A m \in Markets : latest'[m] < latest[m] => m \in late
<1>. SUFFICES ASSUME TypeInv, TurnInv, [Next]_vars, NEW m \in Markets, m \notin late
              PROVE  ~(latest'[m] < latest[m])
  OBVIOUS
<1>. USE DEF TypeInv, WorkerTypes, ServerTypes
<1>1. ASSUME NEW s \in requests, UpdateState(s) PROVE ~(latest'[m] < latest[m])
  <2>1. s.market = m => latest'[m] = s.number /\ s.number = posting[m] /\ s.number \in Number
    BY <1>1 DEF UpdateState, TurnInv, InTurn, MarketState
  <2>2. s.market # m => latest'[m] = latest[m]
    BY <1>1 DEF UpdateState
  <2>. QED
    BY <2>1, <2>2 DEF TurnInv, InTurn, Number
<1>2. CASE latest' = latest
  BY <1>2
<1>3. ASSUME NEW c \in Clients, ClientStep(c) PROVE latest' = latest
  BY <1>3 DEF ClientStep, Connect, Greet, Close, Disconnected, BroadcastContinues, server
<1>. QED
  BY <1>1, <1>2, <1>3 DEF Next, vars, server, StateChanges, Forward, ForwardFails,
                          BroadcastStarts, BroadcastEnds, BroadcastDies

-----------------------------------------------------------------------------
(* What the parts of the client's handler and of the broadcast do.         *)

\* Everything of the broadcast but who has been sent the state.
SameBroadcast ==
    /\ broadcast' \in Broadcast
    /\ broadcast'.phase = broadcast.phase /\ broadcast'.state = broadcast.state

LEMMA GreetedFacts ==
    ASSUME ServerTypes, NEW v \in Visit, v.next > 0, v.phase = "greeting"
    PROVE  LET g == Greeted(v) IN
           /\ g \in Visit /\ g.next > 0
           /\ \/ v.next > Len(slugs) /\ g.phase = "listening" /\ g.seen = v.seen
              \/ /\ v.next \in DOMAIN slugs /\ g.phase = "greeting" /\ g.next = v.next + 1
                 /\ \A m \in Markets :
                      g.seen[m] = IF m = slugs[v.next] THEN latest[m] ELSE v.seen[m]
<1>1. slugs \in Seq(Markets) /\ Len(slugs) \in Nat /\ DOMAIN slugs = 1..Len(slugs)
      /\ v.next \in Nat
  BY DEF ServerTypes, Visit
<1>2. CASE v.next > Len(slugs)
  <2>1. Greeted(v) = [v EXCEPT !.phase = "listening"]
    BY <1>2 DEF Greeted
  <2>. QED
    BY <1>2, <2>1 DEF Visit, Phase
<1>3. CASE ~(v.next > Len(slugs))
  <2>1. v.next \in DOMAIN slugs /\ slugs[v.next] \in Markets
    BY <1>1, <1>3
  <2>2. Greeted(v) = [v EXCEPT !.next = @ + 1, !.seen[slugs[v.next]] = latest[slugs[v.next]]]
    BY <1>3 DEF Greeted
  <2>3. latest[slugs[v.next]] \in Nat
    BY <2>1 DEF ServerTypes
  <2>. DEFINE k == slugs[v.next]
              seen == [v.seen EXCEPT ![k] = latest[k]]
  <2>4. v.seen \in [Markets -> Nat] /\ v.size \in Nat /\ v.next + 1 \in Nat /\ v.next + 1 > 0
    BY <1>1 DEF Visit
  <2>5. seen \in [Markets -> Nat]
    BY <2>3, <2>4
  <2>6. \A m \in Markets : seen[m] = IF m = k THEN latest[m] ELSE v.seen[m]
    BY <2>4
  <2>7. Greeted(v) = [v EXCEPT !.next = v.next + 1, !.seen = seen]
    BY <2>2
  <2>. HIDE DEF seen, k
  <2>8. /\ Greeted(v) \in Visit /\ Greeted(v).next = v.next + 1 /\ Greeted(v).seen = seen
        /\ Greeted(v).phase = "greeting"
    BY <2>4, <2>5, <2>7 DEF Visit
  <2>. QED
    BY <2>1, <2>4, <2>6, <2>8 DEF k
<1>. QED
  BY <1>2, <1>3

LEMMA JoinFacts ==
    ASSUME ClientTypes, NEW c \in Clients, Member(visits'[c].phase), Join(c)
    PROVE  /\ clients' = clients \cup {c} /\ IsFiniteSet(clients')
           /\ SameBroadcast
           /\ c \notin clients => c \notin broadcast'.done /\ c \notin broadcast'.failed
           /\ \A d \in Clients : d # c \/ c \in clients =>
                /\ d \in broadcast'.done <=> d \in broadcast.done
                /\ d \in broadcast'.failed <=> d \in broadcast.failed
<1>1. clients' = clients \cup {c}
  BY DEF Join
<1>2. IsFiniteSet(clients')
  BY <1>1, FS_AddElement DEF ClientTypes
<1>3. CASE c \in clients
  BY <1>1, <1>2, <1>3 DEF Join, ClientTypes, SameBroadcast
<1>4. CASE c \notin clients
  <2>1. broadcast' = [[broadcast EXCEPT !.swapped = broadcast.phase = "sending"]
                        EXCEPT !.done = @ \ {c}, !.failed = @ \ {c}]
    BY <1>4 DEF Join, Swapped
  <2>. QED
    BY <1>1, <1>2, <1>4, <2>1 DEF ClientTypes, Broadcast, SameBroadcast
<1>. QED
  BY <1>3, <1>4

LEMMA DiscardFacts ==
    ASSUME ClientTypes, NEW c \in Clients, Discard(c)
    PROVE  /\ clients' = clients \ {c} /\ IsFiniteSet(clients')
           /\ SameBroadcast
           /\ broadcast'.done = broadcast.done /\ broadcast'.failed = broadcast.failed
<1>1. clients' = clients \ {c} /\ IsFiniteSet(clients')
  BY FS_RemoveElement DEF Discard, ClientTypes
<1>2. broadcast' \in {broadcast, [broadcast EXCEPT !.swapped = broadcast.phase = "sending"]}
  BY DEF Discard, Swapped
<1>. QED
  BY <1>1, <1>2 DEF ClientTypes, Broadcast, SameBroadcast

LEMMA SendFacts ==
    ASSUME ClientTypes, NEW c \in Clients, NEW b \in Broadcast, b.state \in MarketState,
           SendTo(c, b)
    PROVE  /\ visits' \in [Clients -> Visit]
           /\ \A d \in Clients : visits'[d].phase = visits[d].phase /\ visits'[d].next = visits[d].next
           /\ \A d \in Clients, m \in Markets :
                visits'[d].seen[m] = IF d = c /\ m = b.state.market /\ Visiting(c)
                                     THEN b.state.number ELSE visits[d].seen[m]
           /\ broadcast' \in Broadcast
           /\ broadcast'.phase = b.phase /\ broadcast'.state = b.state
           /\ broadcast'.done = b.done \cup {c}
           /\ broadcast'.failed = IF Visiting(c) THEN b.failed ELSE b.failed \cup {c}
<1>1. b.state.market \in Markets /\ b.state.number \in Nat
  BY DEF MarketState, Number
<1>2. broadcast' = [b EXCEPT !.done = @ \cup {c}, !.failed = IF Visiting(c) THEN @ ELSE @ \cup {c}]
  BY DEF SendTo
<1>3. /\ broadcast' \in Broadcast
      /\ broadcast'.phase = b.phase /\ broadcast'.state = b.state
      /\ broadcast'.done = b.done \cup {c}
      /\ broadcast'.failed = IF Visiting(c) THEN b.failed ELSE b.failed \cup {c}
  BY <1>2 DEF Broadcast
<1>4. CASE Visiting(c)
  <2>1. visits' = [visits EXCEPT ![c].seen[b.state.market] = b.state.number]
    BY <1>4 DEF SendTo
  <2>. QED
    BY <1>1, <1>3, <1>4, <2>1 DEF ClientTypes, Visit
<1>5. CASE ~Visiting(c)
  <2>1. visits' = visits
    BY <1>5 DEF SendTo
  <2>. QED
    BY <1>3, <1>5, <2>1 DEF ClientTypes
<1>. QED
  BY <1>4, <1>5

-----------------------------------------------------------------------------
(* Every step keeps the clients up to date.                                *)

\* A step of the server that leaves its data alone.
LEMMA NewestStays ==
    ASSUME NewestInv, UNCHANGED <<latest, backlog, missed>>, SameBroadcast
    PROVE  NewestInv'
  BY DEF NewestInv, Queued, SameBroadcast

\* A client moves by itself: what the others are to be sent stays.
LEMMA OneClientMoves ==
    ASSUME CurrentInv, NEW c \in Clients, UNCHANGED <<latest, slugs, backlog, missed>>,
           SameBroadcast, broadcast \in Broadcast,
           \A d \in Clients : d # c =>
               visits'[d] = visits[d] /\ (d \in broadcast'.done <=> d \in broadcast.done),
           broadcast.phase # "dead" => \A m \in Markets \ missed : UpToDate(c, m)'
    PROVE  CurrentInv'
<1>. SUFFICES ASSUME broadcast'.phase # "dead", NEW d \in Clients, NEW m \in Markets \ missed',
                     d # c
              PROVE  UpToDate(d, m)'
  BY DEF CurrentInv, SameBroadcast
<1>1. UpToDate(d, m)
  BY DEF CurrentInv, SameBroadcast
<1>. QED
  BY <1>1 DEF UpToDate, Passed, ToCome, Queued, SameBroadcast

\* A client whose handler ends is in nobody's way.
LEMMA LeaveKeeps ==
    ASSUME TypeInv, ClientInv, NEW c \in Clients, visits' = [visits EXCEPT ![c] = Away], Discard(c),
           UNCHANGED <<latest, slugs, backlog, missed>>
    PROVE  ServerTypes' /\ ClientTypes' /\ ClientInv'
<1>1. Away \in Visit /\ Away.phase = "away" /\ \A m \in Markets : Away.seen[m] = 0
  BY DEF Away, Visit, Phase
<1>2. /\ visits'[c] = Away /\ visits' \in [Clients -> Visit]
      /\ \A d \in Clients : d # c => visits'[d] = visits[d]
  BY <1>1 DEF TypeInv, ClientTypes
<1>3. /\ clients' = clients \ {c} /\ IsFiniteSet(clients')
      /\ SameBroadcast
      /\ broadcast'.done = broadcast.done /\ broadcast'.failed = broadcast.failed
  BY DiscardFacts DEF TypeInv
<1>4. ServerTypes' /\ SlugsInv'
  BY DEF TypeInv, ServerTypes, ClientInv, SlugsInv
<1>5. ClientTypes'
  BY <1>1, <1>2, <1>3 DEF TypeInv, ClientTypes, SameBroadcast
<1>6. MembersInv'
  BY <1>1, <1>2, <1>3 DEF ClientInv, MembersInv, Visiting
<1>7. NewestInv'
  BY <1>3, NewestStays DEF ClientInv
<1>8. \A m \in Markets : UpToDate(c, m)'
  BY <1>1, <1>2 DEF UpToDate, Passed
<1>9. CurrentInv'
  BY <1>2, <1>3, <1>8, OneClientMoves DEF ClientInv, TypeInv, ClientTypes
<1>. QED
  BY <1>4, <1>5, <1>6, <1>7, <1>9 DEF ClientInv

LEMMA ConnectKeeps ==
    ASSUME TypeInv, ClientInv, NEW c \in Clients, Connect(c)
    PROVE  ServerTypes' /\ ClientTypes' /\ ClientInv'
<1>. DEFINE v == [visits[c] EXCEPT !.phase = "greeting", !.next = 1, !.size = Len(slugs)]
            g == Greeted(v)
<1>1. /\ visits[c].phase = "away" /\ visits' = [visits EXCEPT ![c] = g] /\ Join(c)
      /\ UNCHANGED <<latest, slugs, backlog, missed>>
  BY DEF Connect, server
<1>2. /\ v \in Visit /\ v.next = 1 /\ v.phase = "greeting" /\ v.seen = visits[c].seen
      /\ c \notin clients /\ \A m \in Markets : v.seen[m] = 0
  <2>1. visits[c] \in Visit /\ Len(slugs) \in Nat
    BY DEF TypeInv, ClientTypes, ServerTypes
  <2>2. c \notin clients /\ \A m \in Markets : visits[c].seen[m] = 0
    BY <1>1 DEF ClientInv, MembersInv
  <2>. QED
    BY <2>1, <2>2 DEF Visit, Phase
<1>. HIDE DEF v
<1>3. /\ g \in Visit /\ g.next > 0
      /\ \/ v.next > Len(slugs) /\ g.phase = "listening" /\ g.seen = v.seen
         \/ /\ v.next \in DOMAIN slugs /\ g.phase = "greeting" /\ g.next = v.next + 1
            /\ \A m \in Markets :
                 g.seen[m] = IF m = slugs[v.next] THEN latest[m] ELSE v.seen[m]
  BY <1>2, GreetedFacts DEF TypeInv
<1>. HIDE DEF g
<1>4. /\ visits'[c] = g /\ visits' \in [Clients -> Visit]
      /\ \A d \in Clients : d # c => visits'[d] = visits[d]
  BY <1>1, <1>3 DEF TypeInv, ClientTypes
<1>5. /\ clients' = clients \cup {c} /\ IsFiniteSet(clients')
      /\ SameBroadcast
      /\ c \notin broadcast'.done /\ c \notin broadcast'.failed
      /\ \A d \in Clients : d # c =>
           /\ d \in broadcast'.done <=> d \in broadcast.done
           /\ d \in broadcast'.failed <=> d \in broadcast.failed
  BY <1>1, <1>2, <1>3, <1>4, JoinFacts DEF TypeInv, Member
<1>6. ServerTypes' /\ SlugsInv'
  BY <1>1 DEF TypeInv, ServerTypes, ClientInv, SlugsInv
<1>7. ClientTypes'
  BY <1>3, <1>4, <1>5 DEF TypeInv, ClientTypes, SameBroadcast
<1>8. MembersInv'
  BY <1>3, <1>4, <1>5 DEF ClientInv, MembersInv, Visiting
<1>9. NewestInv'
  BY <1>1, <1>5, NewestStays DEF ClientInv
<1>10. ASSUME NEW m \in Markets PROVE UpToDate(c, m)'
  <2>1. slugs \in Seq(Markets) /\ DOMAIN slugs = 1..Len(slugs) /\ Len(slugs) \in Nat
    BY DEF TypeInv, ServerTypes
  <2>2. latest[m] = 0 \/ \E i \in DOMAIN slugs : slugs[i] = m
    BY DEF ClientInv, SlugsInv
  <2>3. CASE g.phase = "listening"
    <3>1. latest[m] = 0 /\ g.seen[m] = 0
      BY <1>2, <1>3, <2>1, <2>2, <2>3
    <3>. QED
      BY <1>1, <1>4, <3>1 DEF UpToDate
  <2>4. CASE g.phase = "greeting" /\ ~\A i \in DOMAIN slugs : i >= g.next => slugs[i] # m
    BY <1>1, <1>4, <2>4 DEF UpToDate, Passed
  <2>5. CASE g.phase = "greeting" /\ \A i \in DOMAIN slugs : i >= g.next => slugs[i] # m
    <3>1. g.seen[m] = latest[m]
      BY <1>2, <1>3, <2>1, <2>2, <2>5
    <3>. QED
      BY <1>1, <1>4, <3>1 DEF UpToDate
  <2>. QED
    BY <1>3, <2>3, <2>4, <2>5
<1>11. CurrentInv'
  BY <1>1, <1>4, <1>5, <1>10, OneClientMoves DEF ClientInv, TypeInv, ClientTypes
<1>. QED
  BY <1>6, <1>7, <1>8, <1>9, <1>11 DEF ClientInv

\* The next market is greeted with its latest state.
LEMMA GreetKeeps ==
    ASSUME TypeInv, ClientInv, NEW c \in Clients, Greet(c)
    PROVE  ServerTypes' /\ ClientTypes' /\ ClientInv'
<1>. DEFINE v == visits[c]
            g == Greeted(v)
<1>1. /\ v \in Visit /\ v.phase = "greeting" /\ v.next > 0 /\ v.next \in Nat
      /\ c \in clients /\ c \notin broadcast.failed
      /\ UNCHANGED <<latest, slugs, backlog, missed>>
  BY DEF Greet, server, TypeInv, ClientTypes, ClientInv, MembersInv, Visiting, Visit
<1>2. ServerTypes' /\ SlugsInv'
  BY <1>1 DEF TypeInv, ServerTypes, ClientInv, SlugsInv
<1>3. CASE Len(slugs) = v.size
  <2>1. visits' = [visits EXCEPT ![c] = g] /\ Join(c)
    BY <1>3 DEF Greet
  <2>. HIDE DEF v
  <2>2. /\ g \in Visit /\ g.next > 0
        /\ \/ v.next > Len(slugs) /\ g.phase = "listening" /\ g.seen = v.seen
           \/ /\ v.next \in DOMAIN slugs /\ g.phase = "greeting" /\ g.next = v.next + 1
              /\ \A m \in Markets :
                   g.seen[m] = IF m = slugs[v.next] THEN latest[m] ELSE v.seen[m]
    BY <1>1, GreetedFacts DEF TypeInv
  <2>. HIDE DEF g
  <2>3. /\ visits'[c] = g /\ visits' \in [Clients -> Visit]
        /\ \A d \in Clients : d # c => visits'[d] = visits[d]
    BY <2>1, <2>2 DEF TypeInv, ClientTypes
  <2>4. /\ clients' = clients /\ IsFiniteSet(clients')
        /\ SameBroadcast
        /\ \A d \in Clients :
             /\ d \in broadcast'.done <=> d \in broadcast.done
             /\ d \in broadcast'.failed <=> d \in broadcast.failed
    <3>1. Member(visits'[c].phase)
      BY <2>2, <2>3 DEF Member
    <3>. QED
      BY <1>1, <2>1, <3>1, JoinFacts, ZenonT(30) DEF TypeInv
  <2>5. ClientTypes'
    BY <2>2, <2>3, <2>4 DEF TypeInv, ClientTypes, SameBroadcast
  <2>6. MembersInv'
    BY <1>1, <2>2, <2>3, <2>4 DEF ClientInv, MembersInv, Visiting
  <2>7. NewestInv'
    BY <1>1, <2>4, NewestStays DEF ClientInv
  <2>8. ASSUME NEW m \in Markets \ missed, broadcast.phase # "dead" PROVE UpToDate(c, m)'
    <3>1. slugs \in Seq(Markets) /\ DOMAIN slugs = 1..Len(slugs) /\ Len(slugs) \in Nat
      BY DEF TypeInv, ServerTypes
    <3>2. ASSUME Passed(c, m)'
          PROVE  Passed(c, m) \/ (v.next \in DOMAIN slugs /\ m = slugs[v.next])
      <4>1. \/ g.phase = "listening"
            \/ g.phase = "greeting" /\ \A i \in DOMAIN slugs : i >= g.next => slugs[i] # m
        BY <1>1, <2>3, <3>2 DEF Passed
      <4>2. \A i \in DOMAIN slugs : i >= v.next => slugs[i] # m \/ i = v.next
        BY <1>1, <2>2, <3>1, <4>1
      <4>3. CASE \A i \in DOMAIN slugs : i >= v.next => slugs[i] # m
        BY <1>1, <4>3 DEF Passed, v
      <4>. QED
        BY <4>2, <4>3
    <3>3. UpToDate(c, m)
      BY <2>8 DEF ClientInv, CurrentInv
    <3>4. ToCome(c, m) => ToCome(c, m)'
      BY <1>1, <2>4 DEF ToCome, Queued, SameBroadcast
    <3>5. CASE v.next \in DOMAIN slugs /\ m = slugs[v.next]
      BY <1>1, <2>2, <2>3, <3>1, <3>5 DEF UpToDate
    <3>6. CASE Passed(c, m) /\ ~(v.next \in DOMAIN slugs /\ m = slugs[v.next])
      BY <1>1, <2>2, <2>3, <3>3, <3>4, <3>6 DEF UpToDate, v
    <3>. QED
      BY <3>2, <3>5, <3>6 DEF UpToDate
  <2>9. CurrentInv'
    BY <1>1, <2>3, <2>4, <2>8, OneClientMoves DEF ClientInv, TypeInv, ClientTypes
  <2>. QED
    BY <1>2, <2>5, <2>6, <2>7, <2>9 DEF ClientInv
<1>4. CASE Len(slugs) # v.size
  <2>1. visits' = [visits EXCEPT ![c] = Away] /\ Discard(c)
    BY <1>4 DEF Greet
  <2>. QED
    BY <1>1, <1>2, <2>1, LeaveKeeps
<1>. QED
  BY <1>3, <1>4

LEMMA CloseKeeps ==
    ASSUME TypeInv, ClientInv, NEW c \in Clients, Close(c) \/ Disconnected(c)
    PROVE  ServerTypes' /\ ClientTypes' /\ ClientInv'
<1>1. UNCHANGED <<latest, slugs, backlog, missed>>
  BY DEF Close, Disconnected, server
<1>2. CASE Disconnected(c)
  BY <1>1, <1>2, LeaveKeeps DEF Disconnected
<1>3. CASE Close(c)
  <2>1. /\ visits' = [visits EXCEPT ![c] = [Away EXCEPT !.phase = "closed"]]
        /\ UNCHANGED <<clients, broadcast>> /\ Visiting(c)
    BY <1>3 DEF Close
  <2>2. [Away EXCEPT !.phase = "closed"] \in Visit /\ [Away EXCEPT !.phase = "closed"].phase = "closed"
    BY DEF Away, Visit, Phase
  <2>3. /\ visits'[c].phase = "closed" /\ visits' \in [Clients -> Visit]
        /\ \A d \in Clients : d # c => visits'[d] = visits[d]
    BY <2>1, <2>2 DEF TypeInv, ClientTypes
  <2>4. ServerTypes' /\ SlugsInv'
    BY <1>1 DEF TypeInv, ServerTypes, ClientInv, SlugsInv
  <2>5. ClientTypes' /\ SameBroadcast /\ broadcast \in Broadcast
    BY <2>1, <2>3 DEF TypeInv, ClientTypes, SameBroadcast
  <2>6. MembersInv'
    BY <2>1, <2>3 DEF ClientInv, MembersInv, Visiting
  <2>7. NewestInv'
    BY <1>1, <2>5, NewestStays DEF ClientInv
  <2>8. \A m \in Markets : UpToDate(c, m)'
    BY <2>3 DEF UpToDate, Passed
  <2>9. CurrentInv'
    BY <1>1, <2>1, <2>3, <2>5, <2>8, OneClientMoves DEF ClientInv
  <2>. QED
    BY <2>4, <2>5, <2>6, <2>7, <2>9 DEF ClientInv
<1>. QED
  BY <1>2, <1>3

\* A market whose state is read has an entry; the others keep theirs, or the
\* last one was dropped.
LEMMA UpdateKeeps ==
    ASSUME TypeInv, ClientInv, NEW s \in requests, UpdateState(s)
    PROVE  ServerTypes' /\ ClientTypes' /\ ClientInv'
<1>1. /\ s \in MarketState /\ s.market \in Markets /\ s.number \in Nat
      /\ backlog \in Seq(MarketState) /\ BacklogSize \in Nat \ {0}
      /\ latest \in [Markets -> Nat] /\ slugs \in Seq(Markets)
  BY SizeAssumption DEF TypeInv, WorkerTypes, ServerTypes, MarketState, Number
<1>. PICK p : p = PutDroppingOldest(backlog, s, BacklogSize)
  OBVIOUS
<1>2. /\ backlog' = p /\ latest' = [latest EXCEPT ![s.market] = s.number]
      /\ slugs' = (IF latest[s.market] = 0 THEN Append(slugs, s.market) ELSE slugs)
      /\ missed' = missed \cup Dropped /\ UNCHANGED <<clients, visits, broadcast>>
  BY DEF UpdateState
<1>3. /\ p \in Seq(MarketState) /\ Len(p) > 0 /\ p[Len(p)] = s
      /\ \E k \in {0, 1} :
           /\ Len(p) = Len(backlog) - k + 1
           /\ \A i \in 1..(Len(backlog) - k) : p[i] = backlog[i + k]
  <2>1. s \in MarketState /\ backlog \in Seq(MarketState) /\ BacklogSize \in Nat \ {0}
    BY <1>1
  <2>. QED
    BY <2>1, PutFacts
<1>4. DOMAIN p = 1..Len(p) /\ Len(p) \in Nat /\ DOMAIN backlog = 1..Len(backlog) /\ Len(backlog) \in Nat
  BY <1>1, <1>3
<1>5. /\ latest'[s.market] = s.number
      /\ \A m \in Markets : m # s.market => latest'[m] = latest[m]
  BY <1>1, <1>2
<1>6. Queued(s.market)'
  BY <1>2, <1>3, <1>4 DEF Queued
<1>7. ASSUME NEW m, Queued(m), m \notin missed' PROVE Queued(m)'
  BY <1>2, <1>7 DEF Queued, Dropped
<1>8. /\ \A i \in DOMAIN slugs : i \in DOMAIN slugs' /\ slugs'[i] = slugs[i]
      /\ \E i \in DOMAIN slugs' : latest[s.market] = 0 => slugs'[i] = s.market
      /\ slugs' \in Seq(Markets)
  <2>1. CASE latest[s.market] = 0
    <3>1. slugs' = Append(slugs, s.market)
      BY <1>2, <2>1
    <3>2. /\ DOMAIN slugs' = 1..Len(slugs) + 1 /\ slugs'[Len(slugs) + 1] = s.market
          /\ DOMAIN slugs = 1..Len(slugs) /\ Len(slugs) \in Nat
          /\ \A i \in 1..Len(slugs) : slugs'[i] = slugs[i]
          /\ slugs' \in Seq(Markets)
      BY <1>1, <3>1
    <3>. QED
      BY <3>2
  <2>2. CASE latest[s.market] # 0
    <3>1. slugs' = slugs
      BY <1>2, <2>2
    <3>2. \E i \in DOMAIN slugs : TRUE
      BY <1>1, <2>2 DEF ClientInv, SlugsInv
    <3>. QED
      BY <1>1, <2>2, <3>1, <3>2
  <2>. QED
    BY <2>1, <2>2
<1>9. ServerTypes' /\ ClientTypes'
  BY <1>1, <1>2, <1>3, <1>8 DEF ServerTypes, TypeInv, ClientTypes
<1>10. SlugsInv'
  <2>1. ASSUME NEW m \in Markets PROVE latest'[m] = 0 \/ \E i \in DOMAIN slugs' : slugs'[i] = m
    <3>1. latest[m] = 0 \/ \E i \in DOMAIN slugs : slugs[i] = m
      BY DEF ClientInv, SlugsInv
    <3>2. CASE \E i \in DOMAIN slugs : slugs[i] = m
      BY <1>8, <3>2
    <3>3. CASE latest[m] = 0
      BY <1>5, <1>8, <3>3
    <3>. QED
      BY <3>1, <3>2, <3>3
  <2>. QED
    BY <2>1 DEF SlugsInv
<1>11. MembersInv'
  BY <1>2 DEF ClientInv, MembersInv, Visiting
<1>12. NewestInv'
  <2>1. ASSUME NEW i \in DOMAIN p, \A j \in DOMAIN p : i < j => p[j].market # p[i].market
        PROVE  p[i].number = latest'[p[i].market]
    <3>1. PICK k \in {0, 1} : /\ Len(p) = Len(backlog) - k + 1
                              /\ \A a \in 1..(Len(backlog) - k) : p[a] = backlog[a + k]
      BY <1>3
    <3>2. CASE i = Len(p)
      BY <1>3, <1>5, <3>2
    <3>3. CASE i # Len(p)
      <4>1. i \in 1..(Len(backlog) - k) /\ i < Len(p) /\ i + k \in DOMAIN backlog
            /\ p[i] = backlog[i + k] /\ Len(p) \in DOMAIN p
        BY <1>3, <1>4, <3>1, <3>3
      <4>2. p[i].market # s.market /\ p[i] \in MarketState
        BY <1>3, <2>1, <4>1
      <4>3. ASSUME NEW b \in DOMAIN backlog, i + k < b
            PROVE  backlog[b].market # backlog[i + k].market
        <5>1. b - k \in 1..(Len(backlog) - k) /\ b - k \in DOMAIN p /\ i < b - k
          BY <1>4, <3>1, <4>1, <4>3
        <5>2. p[b - k] = backlog[(b - k) + k]
          BY <3>1, <5>1
        <5>3. (b - k) + k = b
          BY <1>4
        <5>. QED
          BY <2>1, <4>1, <5>1, <5>2, <5>3
      <4>4. backlog[i + k].number = latest[backlog[i + k].market]
        BY <4>1, <4>3 DEF ClientInv, NewestInv
      <4>5. p[i].market \in Markets
        BY <4>2 DEF MarketState
      <4>. QED
        BY <1>5, <4>1, <4>2, <4>4, <4>5
    <3>. QED
      BY <3>2, <3>3
  <2>2. ASSUME NEW m, broadcast.phase = "sending", m = broadcast.state.market
        PROVE  Queued(m)' \/ m \in missed' \/ broadcast.state.number = latest'[m]
    <3>1. Queued(m) \/ m \in missed \/ broadcast.state.number = latest[m]
      BY <2>2 DEF ClientInv, NewestInv
    <3>2. m \in Markets
      BY <2>2 DEF TypeInv, ClientTypes, MarketState
    <3>3. CASE m = s.market
      BY <1>6, <3>3
    <3>4. CASE m # s.market
      BY <1>2, <1>5, <1>7, <3>1, <3>2, <3>4
    <3>. QED
      BY <3>3, <3>4
  <2>. QED
    BY <1>2, <2>1, <2>2 DEF NewestInv, Queued
<1>13. CurrentInv'
  <2>1. ASSUME broadcast'.phase # "dead", NEW c \in Clients, NEW m \in Markets \ missed'
        PROVE  UpToDate(c, m)'
    <3>1. UpToDate(c, m)
      BY <1>2, <2>1 DEF ClientInv, CurrentInv
    <3>2. Passed(c, m)' => Passed(c, m)
      BY <1>2, <1>8 DEF Passed
    <3>3. CASE m = s.market
      BY <1>6, <3>3 DEF UpToDate, ToCome
    <3>4. CASE m # s.market
      <4>1. ToCome(c, m) => ToCome(c, m)'
        BY <1>2, <1>7 DEF ToCome
      <4>. QED
        BY <1>2, <1>5, <3>1, <3>2, <3>4, <4>1 DEF UpToDate
    <3>. QED
      BY <3>3, <3>4
  <2>. QED
    BY <2>1 DEF CurrentInv
<1>. QED
  BY <1>9, <1>10, <1>11, <1>12, <1>13 DEF ClientInv

\* A state is sent to one more client.  If no other state of its market is
\* queued then, it is the market's latest.
LEMMA SendKeeps ==
    ASSUME TypeInv, ClientInv, NEW c \in clients, NEW n \in Markets,
           NEW b \in Broadcast, b.phase = "sending", b.state \in MarketState, n = b.state.market,
           SendTo(c, b), b.failed \subseteq broadcast.failed,
           UNCHANGED <<latest, slugs, clients>>, ServerTypes', broadcast.phase # "dead",
           \A i \in DOMAIN backlog' :
             (\A j \in DOMAIN backlog' : i < j => backlog'[j].market # backlog'[i].market)
                => backlog'[i].number = latest[backlog'[i].market],
           Queued(n)' \/ n \in missed' \/ b.state.number = latest[n],
           \A d \in Clients, m \in Markets \ missed' :
             m # n \/ d \in b.done => m \notin missed /\ (ToCome(d, m) => Queued(m)')
    PROVE  ClientTypes' /\ ClientInv'
<1>1. c \in Clients /\ ClientTypes
  BY DEF TypeInv, ClientTypes
<1>2. /\ visits' \in [Clients -> Visit]
      /\ \A d \in Clients : visits'[d].phase = visits[d].phase /\ visits'[d].next = visits[d].next
      /\ \A d \in Clients, m \in Markets :
           visits'[d].seen[m] = IF d = c /\ m = n /\ Visiting(c)
                                THEN b.state.number ELSE visits[d].seen[m]
      /\ broadcast' \in Broadcast
      /\ broadcast'.phase = "sending" /\ broadcast'.state = b.state
      /\ broadcast'.done = b.done \cup {c}
      /\ broadcast'.failed = IF Visiting(c) THEN b.failed ELSE b.failed \cup {c}
  <2>1. /\ visits' \in [Clients -> Visit]
        /\ \A d \in Clients : visits'[d].phase = visits[d].phase /\ visits'[d].next = visits[d].next
        /\ \A d \in Clients, m \in Markets :
             visits'[d].seen[m] = IF d = c /\ m = b.state.market /\ Visiting(c)
                                  THEN b.state.number ELSE visits[d].seen[m]
        /\ broadcast' \in Broadcast
        /\ broadcast'.phase = b.phase /\ broadcast'.state = b.state
        /\ broadcast'.done = b.done \cup {c}
        /\ broadcast'.failed = IF Visiting(c) THEN b.failed ELSE b.failed \cup {c}
    BY <1>1, SendFacts, Zenon
  <2>. QED
    BY <2>1
<1>3. ClientTypes'
  BY <1>1, <1>2 DEF ClientTypes
<1>4. MembersInv'
  <2>1. ASSUME NEW d \in Clients
        PROVE  /\ Visiting(d)' => d \in clients' /\ d \notin broadcast'.failed
               /\ visits'[d].phase = "away" =>
                    d \notin clients' /\ \A m \in Markets : visits'[d].seen[m] = 0
    <3>1. /\ Visiting(d) => d \in clients /\ d \notin broadcast.failed
          /\ visits[d].phase = "away" => d \notin clients /\ \A m \in Markets : visits[d].seen[m] = 0
      BY DEF ClientInv, MembersInv
    <3>2. Visiting(d)' <=> Visiting(d)
      BY <1>2 DEF Visiting
    <3>3. Visiting(d) => d \notin broadcast'.failed
      BY <1>2, <3>1
    <3>4. visits[d].phase = "away" => d # c
      BY <3>1
    <3>. QED
      BY <1>2, <3>1, <3>2, <3>3, <3>4
  <2>. QED
    BY <2>1 DEF MembersInv
<1>5. SlugsInv'
  BY DEF ClientInv, SlugsInv
<1>6. NewestInv'
  BY <1>2 DEF NewestInv, Queued
<1>7. ASSUME NEW d \in Clients, NEW m \in Markets \ missed', Passed(d, m)'
      PROVE  ToCome(d, m)' \/ visits'[d].seen[m] = latest'[m]
  <2>1. Passed(d, m) /\ Visiting(d)
    BY <1>2, <1>7 DEF Passed, Visiting
  <2>2. CASE d = c /\ m = n
    BY <1>2, <2>1, <2>2 DEF ToCome
  <2>3. CASE d # c /\ m = n /\ d \notin b.done
    BY <1>2, <2>3 DEF ToCome
  <2>4. CASE (m # n \/ d \in b.done) /\ ~(d = c /\ m = n)
    <3>1. m \notin missed /\ (ToCome(d, m) => Queued(m)')
      BY <2>4
    <3>2. ToCome(d, m) \/ visits[d].seen[m] = latest[m]
      BY <2>1, <3>1 DEF ClientInv, CurrentInv, UpToDate
    <3>3. visits'[d].seen[m] = visits[d].seen[m]
      BY <1>2, <2>4
    <3>. QED
      BY <3>1, <3>2, <3>3 DEF ToCome
  <2>. QED
    BY <2>2, <2>3, <2>4
<1>8. CurrentInv'
  BY <1>7 DEF CurrentInv, UpToDate
<1>. QED
  BY <1>3, <1>4, <1>5, <1>6, <1>8 DEF ClientInv

\* The oldest entry is taken off the backlog, and sent if there is a client.
LEMMA BroadcastStartsKeeps ==
    ASSUME TypeInv, ClientInv, BroadcastStarts
    PROVE  ServerTypes' /\ ClientTypes' /\ ClientInv'
<1>0. /\ broadcast.phase = "idle" /\ backlog # <<>> /\ backlog' = Tail(backlog)
      /\ missed' = missed \ {Head(backlog).market} /\ UNCHANGED <<latest, slugs, clients>>
  BY DEF BroadcastStarts
<1>2. backlog \in Seq(MarketState)
  BY DEF TypeInv, ServerTypes
<1>. PICK h \in MarketState : h = Head(backlog)
  BY <1>0, <1>2, TailFacts
<1>1. /\ broadcast.phase = "idle" /\ backlog # <<>> /\ backlog' = Tail(backlog)
      /\ missed' = missed \ {h.market} /\ UNCHANGED <<latest, slugs, clients>>
  BY <1>0
<1>3. /\ backlog' \in Seq(MarketState) /\ h \in MarketState /\ h = backlog[1] /\ 1 \in DOMAIN backlog
      /\ \A i \in DOMAIN backlog' : i + 1 \in DOMAIN backlog /\ backlog'[i] = backlog[i + 1]
      /\ \A i \in DOMAIN backlog : i # 1 => i - 1 \in DOMAIN backlog' /\ backlog'[i - 1] = backlog[i]
      /\ DOMAIN backlog \subseteq Nat \ {0} /\ DOMAIN backlog' \subseteq Nat \ {0}
  BY <1>1, <1>2, TailFacts
<1>4. h.market \in Markets
  BY <1>3 DEF MarketState
<1>5. \A m : m # h.market /\ Queued(m) => Queued(m)'
  BY <1>3 DEF Queued
<1>6. ASSUME NEW i \in DOMAIN backlog',
             \A j \in DOMAIN backlog' : i < j => backlog'[j].market # backlog'[i].market
      PROVE  backlog'[i].number = latest[backlog'[i].market]
  <2>1. i + 1 \in DOMAIN backlog /\ backlog'[i] = backlog[i + 1] /\ i \in Nat
    BY <1>3
  <2>2. ASSUME NEW j \in DOMAIN backlog, i + 1 < j
        PROVE  backlog[j].market # backlog[i + 1].market
    <3>1. j # 1 /\ i < j - 1
      BY <1>3, <2>1, <2>2
    <3>. QED
      BY <1>3, <1>6, <2>1, <3>1
  <2>. QED
    BY <2>1, <2>2 DEF ClientInv, NewestInv
<1>7. Queued(h.market)' \/ h.number = latest[h.market]
  <2>1. ASSUME ~Queued(h.market)', NEW j \in DOMAIN backlog, 1 < j
        PROVE  backlog[j].market # h.market
    <3>1. j - 1 \in DOMAIN backlog' /\ backlog'[j - 1] = backlog[j]
      BY <1>3, <2>1
    <3>. QED
      BY <2>1, <3>1 DEF Queued
  <2>. QED
    BY <1>3, <2>1 DEF ClientInv, NewestInv
<1>8. ServerTypes'
  BY <1>1, <1>3 DEF TypeInv, ServerTypes
<1>9. CASE clients = {}
  <2>1. UNCHANGED <<visits, broadcast>>
    BY <1>9 DEF BroadcastStarts
  <2>2. ClientTypes' /\ SlugsInv' /\ MembersInv'
    BY <1>1, <2>1 DEF TypeInv, ClientTypes, ClientInv, SlugsInv, MembersInv, Visiting
  <2>3. NewestInv'
    BY <1>1, <1>6, <2>1 DEF NewestInv
  <2>4. \A c \in Clients, m \in Markets : ~Passed(c, m)'
    BY <1>1, <1>9, <2>1 DEF Passed, ClientInv, MembersInv, Visiting
  <2>5. CurrentInv'
    BY <2>4 DEF CurrentInv, UpToDate
  <2>. QED
    BY <1>8, <2>2, <2>3, <2>5 DEF ClientInv
<1>10. CASE clients # {}
  <2>. DEFINE b == [Idle EXCEPT !.phase = "sending", !.state = h, !.size = Cardinality(clients)]
  <2>1. PICK c \in clients : SendTo(c, b)
    BY <1>10 DEF BroadcastStarts
  <2>2. Cardinality(clients) \in Nat
    BY FS_CardinalityType DEF TypeInv, ClientTypes
  <2>3. /\ b \in Broadcast /\ b.phase = "sending" /\ b.state = h /\ b.done = {} /\ b.failed = {}
    BY <1>3, <2>2 DEF Idle, Broadcast
  <2>. HIDE DEF b
  <2>4. \A d \in Clients, m \in Markets \ missed' :
           m # h.market \/ d \in b.done => m \notin missed /\ (ToCome(d, m) => Queued(m)')
    BY <1>1, <1>5, <2>3 DEF ToCome
  <2>. QED
    BY <1>1, <1>3, <1>4, <1>6, <1>7, <1>8, <2>1, <2>3, <2>4, SendKeeps
<1>. QED
  BY <1>9, <1>10

LEMMA BroadcastContinuesKeeps ==
    ASSUME TypeInv, ClientInv, NEW c \in Clients, BroadcastContinues(c)
    PROVE  ServerTypes' /\ ClientTypes' /\ ClientInv'
<1>1. /\ broadcast.phase = "sending" /\ c \in clients /\ SendTo(c, broadcast)
      /\ UNCHANGED <<latest, slugs, backlog, missed, clients>>
  BY DEF BroadcastContinues, server
<1>2. ServerTypes'
  BY <1>1 DEF TypeInv, ServerTypes
<1>3. broadcast \in Broadcast /\ broadcast.state \in MarketState
  BY <1>1 DEF TypeInv, ClientTypes
<1>4. PICK m \in Markets : m = broadcast.state.market
  BY <1>3 DEF MarketState
<1>5. \A k : Queued(k)' <=> Queued(k)
  BY <1>1 DEF Queued
<1>6. Queued(m)' \/ m \in missed' \/ broadcast.state.number = latest[m]
  BY <1>1, <1>4, <1>5 DEF ClientInv, NewestInv
<1>7. \A d \in Clients, k \in Markets \ missed' :
         k # m \/ d \in broadcast.done => k \notin missed /\ (ToCome(d, k) => Queued(k)')
  BY <1>1, <1>4, <1>5 DEF ToCome
<1>8. \A i \in DOMAIN backlog' :
         (\A j \in DOMAIN backlog' : i < j => backlog'[j].market # backlog'[i].market)
            => backlog'[i].number = latest[backlog'[i].market]
  BY <1>1 DEF ClientInv, NewestInv
<1>. QED
  BY <1>1, <1>2, <1>3, <1>4, <1>6, <1>7, <1>8, SendKeeps

\* Whoever was not reached misses the state, or there is nobody.
LEMMA BroadcastEndsKeeps ==
    ASSUME TypeInv, ClientInv, BroadcastEnds \/ BroadcastDies
    PROVE  ServerTypes' /\ ClientTypes' /\ ClientInv'
<1>1. broadcast.phase = "sending" /\ UNCHANGED <<latest, slugs, backlog, visits>>
  BY DEF BroadcastEnds, BroadcastDies, server
<1>2. ServerTypes' /\ SlugsInv'
  BY <1>1 DEF TypeInv, ServerTypes, ClientInv, SlugsInv
<1>3. Idle \in Broadcast /\ Idle.phase = "idle" /\ Idle.failed = {}
  BY DEF Idle, Broadcast
<1>4. CASE BroadcastEnds
  <2>1. /\ clients' = clients \ broadcast.failed /\ broadcast' = Idle
        /\ missed' = IF clients \subseteq broadcast.done THEN missed
                     ELSE missed \cup {broadcast.state.market}
    BY <1>4 DEF BroadcastEnds
  <2>2. IsFiniteSet(clients')
    BY <2>1, FS_Difference DEF TypeInv, ClientTypes
  <2>3. ClientTypes'
    BY <1>1, <1>3, <2>1, <2>2 DEF TypeInv, ClientTypes
  <2>4. MembersInv'
    BY <1>1, <1>3, <2>1 DEF ClientInv, MembersInv, Visiting
  <2>5. NewestInv'
    BY <1>1, <1>3, <2>1 DEF ClientInv, NewestInv
  <2>6. ASSUME NEW c \in Clients, NEW m \in Markets \ missed', Passed(c, m)'
        PROVE  ToCome(c, m)' \/ visits'[c].seen[m] = latest'[m]
    <3>1. Passed(c, m) /\ c \in clients /\ m \notin missed
      BY <1>1, <2>1, <2>6 DEF Passed, ClientInv, MembersInv, Visiting
    <3>2. ToCome(c, m) \/ visits[c].seen[m] = latest[m]
      BY <1>1, <3>1 DEF ClientInv, CurrentInv, UpToDate
    <3>3. ToCome(c, m) => Queued(m)
      BY <2>1, <2>6, <3>1 DEF ToCome
    <3>. QED
      BY <1>1, <3>2, <3>3 DEF ToCome, Queued
  <2>7. CurrentInv'
    BY <2>6 DEF CurrentInv, UpToDate
  <2>. QED
    BY <1>2, <2>3, <2>4, <2>5, <2>7 DEF ClientInv
<1>5. CASE BroadcastDies
  <2>1. broadcast' = [Idle EXCEPT !.phase = "dead"] /\ UNCHANGED <<clients, missed>>
    BY <1>5 DEF BroadcastDies
  <2>2. broadcast' \in Broadcast /\ broadcast'.phase = "dead" /\ broadcast'.failed = {}
    BY <2>1 DEF Idle, Broadcast
  <2>3. ClientTypes'
    BY <1>1, <2>1, <2>2 DEF TypeInv, ClientTypes
  <2>4. MembersInv'
    BY <1>1, <2>1, <2>2 DEF ClientInv, MembersInv, Visiting
  <2>5. NewestInv' /\ CurrentInv'
    BY <1>1, <2>1, <2>2 DEF ClientInv, NewestInv, CurrentInv
  <2>. QED
    BY <1>2, <2>3, <2>4, <2>5 DEF ClientInv
<1>. QED
  BY <1>4, <1>5

LEMMA ClientStepKeeps ==
    TypeInv /\ ClientInv /\ [Next]_vars => ServerTypes' /\ ClientTypes' /\ ClientInv'
<1>. SUFFICES ASSUME TypeInv, ClientInv, [Next]_vars
              PROVE  ServerTypes' /\ ClientTypes' /\ ClientInv'
  OBVIOUS
<1>1. CASE UNCHANGED <<server, clients, visits, broadcast, missed>>
  BY <1>1 DEF server, TypeInv, ServerTypes, ClientTypes, ClientInv, SlugsInv, MembersInv, Visiting,
              NewestInv, Queued, CurrentInv, UpToDate, Passed, ToCome
<1>2. ASSUME NEW m \in Markets, StateChanges(m) \/ Forward(m)
      PROVE  UNCHANGED <<server, clients, visits, broadcast, missed>>
  BY <1>2 DEF StateChanges, Forward
<1>3. ASSUME NEW m \in Markets, NEW reached \in BOOLEAN, ForwardFails(m, reached)
      PROVE  UNCHANGED <<server, clients, visits, broadcast, missed>>
  BY <1>3 DEF ForwardFails
<1>4. ASSUME UNCHANGED vars PROVE UNCHANGED <<server, clients, visits, broadcast, missed>>
  BY <1>4 DEF vars
<1>5. ASSUME NEW c \in Clients, ClientStep(c) PROVE ServerTypes' /\ ClientTypes' /\ ClientInv'
  BY <1>5, ConnectKeeps, GreetKeeps, CloseKeeps, BroadcastContinuesKeeps DEF ClientStep
<1>. QED
  BY <1>1, <1>2, <1>3, <1>4, <1>5, UpdateKeeps, BroadcastStartsKeeps, BroadcastEndsKeeps DEF Next

-----------------------------------------------------------------------------
(* The theorems.                                                           *)

LEMMA InitIInv == Init => IInv
<1>. SUFFICES ASSUME Init PROVE IInv
  OBVIOUS
<1>1. WorkerTypes /\ ServerTypes
  BY DEF Init, WorkerTypes, ServerTypes
<1>2. Away \in Visit /\ Away.phase = "away" /\ \A m \in Markets : Away.seen[m] = 0
  BY DEF Away, Visit, Phase
<1>3. Idle \in Broadcast /\ Idle.phase = "idle"
  BY DEF Idle, Broadcast
<1>4. ClientTypes
  BY <1>2, <1>3, FS_EmptySet DEF Init, ClientTypes
<1>5. TurnInv
  BY DEF Init, TurnInv, InTurn
<1>6. SlugsInv /\ MembersInv
  BY <1>2 DEF Init, SlugsInv, MembersInv, Visiting
<1>7. NewestInv /\ CurrentInv
  BY <1>2, <1>3 DEF Init, NewestInv, CurrentInv, UpToDate, Passed
<1>. QED
  BY <1>1, <1>4, <1>5, <1>6, <1>7 DEF IInv, TypeInv, ClientInv

\* What is queued, read and sent of each market is in order, and every client is
\* up to date but for what is still to come.
THEOREM Invariance == Spec => []IInv
<1>1. IInv /\ [Next]_vars => IInv'
  BY WorkerTypesStep, TurnStep, ClientStepKeeps DEF IInv, TypeInv
<1>. QED
  BY <1>1, InitIInv, PTL DEF Spec

\* When the broadcast has nothing left to send, every client that has been greeted
\* shows the latest state of every market whose last state was not dropped or cut
\* short, in whatever order clients come, go and are sent to (server.py:86, :200).
THEOREM ClientsAreCurrent == Spec => []ClientsCurrent
<1>1. IInv => ClientsCurrent
  BY DEF IInv, ClientInv, CurrentInv, ClientsCurrent, UpToDate, Passed, ToCome, Queued
<1>. QED
  BY <1>1, Invariance, PTL

\* What the dashboard shows of a market steps back only if a POST of it has timed
\* out before: else a worker waits for each, so they are read as they were made
\* (component.py:28).
THEOREM NeverStepsBack == Spec => NoStepBack
<1>1. IInv /\ [Next]_vars => [\A m \in Markets : latest'[m] < latest[m] => m \in late]_vars
  BY NoStepBackStep DEF IInv
<1>. QED
  BY <1>1, Invariance, PTL DEF Spec, NoStepBack
=============================================================================
