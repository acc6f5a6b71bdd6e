-------------------------- MODULE EventBus_proofs --------------------------
(***************************************************************************)
(* What the bus does whatever the tasks, policies, sizes and subscriptions.*)
(* BusInv ties the parts of the state together: a task that has            *)
(* subscriptions to serve is inside publish with the last event it sent,   *)
(* and a task that waits for a place does so once, in the queue it has to  *)
(* serve next.  On it rest the accounts of every event (AccountInv, which  *)
(* needs that finitely many events are on their way), the wake-ups of      *)
(* waiting publishers (RoomTaken), what a drop_oldest queue keeps (Newest) *)
(* and the refinement of EventChannel, one lemma per action.               *)
(***************************************************************************)
EXTENDS EventBus, Collections_proofs

-----------------------------------------------------------------------------
(* No queue exceeds its bound                                              *)

\* A task that is inside publish, or waits in it, has an event to deliver.
Delivering(t) == pc[t] \in {"publishing", "woken"}

QueueInv ==
  /\ queue \in [Subscriptions -> Seq(Event)]
  /\ QueueBounded
  /\ putters \in [Subscriptions -> Seq(Tasks)]
  /\ pc \in [Tasks -> Steps]
  /\ event \in [Tasks -> Event \union {NoEvent}]
  /\ sent \in [Tasks -> Nat]
  /\ \A t \in Tasks : Delivering(t) => event[t] \in Event
  /\ \A s \in Subscriptions : \A i \in 1..Len(putters[s]) : event[putters[s][i]] \in Event

LEMMA QueueInvInit == Init => QueueInv
  BY BusAssumption DEF Init, QueueInv, QueueBounded, Delivering, Steps

LEMMA QueueInvPublish ==
  ASSUME QueueInv, NEW t \in Tasks, Publish(t)
  PROVE  QueueInv'
<1>1. PICK k \in Publishes[t] :
        event' = [event EXCEPT ![t] = [from |-> t, kind |-> k, seq |-> sent[t] + 1]]
  BY Zenon DEF Publish
<1>2. /\ pc' = [pc EXCEPT ![t] = "publishing"] /\ sent' = [sent EXCEPT ![t] = sent[t] + 1]
      /\ queue' = queue /\ putters' = putters
  BY DEF Publish
<1> DEFINE e == [from |-> t, kind |-> k, seq |-> sent[t] + 1]
<1>3. e \in Event
  BY BusAssumption DEF Event, QueueInv
<1> HIDE DEF e
<1>4. event' = [event EXCEPT ![t] = e]
  BY <1>1 DEF e
<1>5. \A u \in Tasks : event[u] \in Event => event'[u] \in Event
  BY <1>3, <1>4 DEF QueueInv
<1>6. event' \in [Tasks -> Event \union {NoEvent}] /\ event'[t] \in Event
  BY <1>3, <1>4 DEF QueueInv
<1>7. \A s \in Subscriptions : \A i \in 1..Len(putters[s]) : putters[s][i] \in Tasks
  BY DEF QueueInv
<1>8. sent' \in [Tasks -> Nat] /\ pc' \in [Tasks -> Steps]
  BY <1>2 DEF QueueInv, Steps
<1>9. \A u \in Tasks : Delivering(u)' => event'[u] \in Event
  BY <1>2, <1>5, <1>6 DEF QueueInv, Delivering
<1>10. \A s \in Subscriptions : \A i \in 1..Len(putters'[s]) : event'[putters'[s][i]] \in Event
  BY <1>2, <1>5, <1>7 DEF QueueInv
<1> QED
  BY <1>2, <1>6, <1>8, <1>9, <1>10 DEF QueueInv, QueueBounded

LEMMA QueueInvPut ==
  ASSUME QueueInv, NEW t \in Tasks, NEW s \in Subscriptions, Put(t, s)
  PROVE  QueueInv'
<1>1. /\ queue' = [queue EXCEPT ![s] = Append(queue[s], event[t])]
      /\ ~Full(s) /\ pc[t] = "publishing"
      /\ UNCHANGED <<putters, pc, event, sent>>
  BY DEF Put, Serving, Enqueue, books
<1>2. event[t] \in Event /\ queue[s] \in Seq(Event) /\ MaxSize[s] \in Nat
  BY <1>1, BusAssumption DEF QueueInv, Delivering
<1>3. /\ Append(queue[s], event[t]) \in Seq(Event)
      /\ Len(Append(queue[s], event[t])) = Len(queue[s]) + 1
  BY <1>2
<1>4. QueueBounded'
  BY <1>1, <1>2, <1>3 DEF QueueInv, QueueBounded, Full
<1> QED
  BY <1>1, <1>3, <1>4 DEF QueueInv, Delivering

LEMMA QueueInvDropOldest ==
  ASSUME QueueInv, NEW t \in Tasks, NEW s \in Subscriptions, DropOldest(t, s)
  PROVE  QueueInv'
<1>1. /\ queue' = [queue EXCEPT ![s] = Append(Tail(queue[s]), event[t])]
      /\ Full(s) /\ pc[t] = "publishing"
      /\ UNCHANGED <<putters, pc, event, sent>>
  BY DEF DropOldest, Serving, books
<1>2. event[t] \in Event /\ queue[s] \in Seq(Event) /\ queue[s] # <<>>
  <2>1. event[t] \in Event /\ queue[s] \in Seq(Event) /\ MaxSize[s] \in Nat
    BY <1>1, BusAssumption DEF QueueInv, Delivering
  <2>2. MaxSize[s] > 0 /\ Len(queue[s]) >= MaxSize[s]
    BY <1>1 DEF Full
  <2>3. Len(queue[s]) # 0
    BY <2>1, <2>2
  <2> QED
    BY <2>1, <2>3, EmptySeq
<1>3. /\ Append(Tail(queue[s]), event[t]) \in Seq(Event)
      /\ Len(Append(Tail(queue[s]), event[t])) = Len(queue[s])
  BY <1>2
<1>4. QueueBounded'
  BY <1>1, <1>3 DEF QueueInv, QueueBounded
<1> QED
  BY <1>1, <1>3, <1>4 DEF QueueInv, Delivering

LEMMA QueueInvWait ==
  ASSUME QueueInv, NEW t \in Tasks, NEW s \in Subscriptions, Wait(t, s)
  PROVE  QueueInv'
<1>1. /\ putters' = [putters EXCEPT ![s] = Append(putters[s], t)]
      /\ pc' = [pc EXCEPT ![t] = "waiting"] /\ pc[t] = "publishing"
      /\ UNCHANGED <<queue, event, sent>>
  BY DEF Wait, Serving, books
<1>2. event[t] \in Event /\ putters[s] \in Seq(Tasks)
  BY <1>1 DEF QueueInv, Delivering
<1>3. /\ Append(putters[s], t) \in Seq(Tasks)
      /\ \A i \in 1..Len(Append(putters[s], t)) : event[Append(putters[s], t)[i]] \in Event
  BY <1>2 DEF QueueInv
<1> QED
  BY <1>1, <1>3 DEF QueueInv, QueueBounded, Delivering, Steps

LEMMA QueueInvGet ==
  ASSUME QueueInv, NEW s \in Subscriptions, Get(s)
  PROVE  QueueInv'
<1> DEFINE t == Reader[s]
           woken == IF putters[s] = <<>> THEN <<>> ELSE Tail(putters[s])
<1>1. /\ queue[s] # <<>>
      /\ queue' = [queue EXCEPT ![s] = Tail(queue[s])]
      /\ putters' = [putters EXCEPT ![s] = woken]
      /\ pc' = [u \in Tasks |-> IF u = t THEN "handling"
                                ELSE IF putters[s] # <<>> /\ u = Head(putters[s]) THEN "woken"
                                ELSE pc[u]]
      /\ UNCHANGED <<event, sent>>
  BY DEF Get
<1>2. queue[s] \in Seq(Event) /\ putters[s] \in Seq(Tasks)
  BY DEF QueueInv
<1>3. Tail(queue[s]) \in Seq(Event) /\ Len(Tail(queue[s])) <= Len(queue[s])
  BY <1>1, <1>2
<1>4. /\ woken \in Seq(Tasks)
      /\ \A i \in 1..Len(woken) : event[woken[i]] \in Event
      /\ putters[s] # <<>> => event[Head(putters[s])] \in Event
  BY <1>2 DEF QueueInv
<1> HIDE DEF woken
<1>5. QueueBounded'
  <2> SUFFICES ASSUME NEW r \in Subscriptions, MaxSize[r] > 0 PROVE Len(queue'[r]) <= MaxSize[r]
    BY DEF QueueBounded
  <2>1. Len(queue[r]) <= MaxSize[r] /\ Len(queue[r]) \in Nat /\ MaxSize[r] \in Nat
    BY BusAssumption DEF QueueInv, QueueBounded
  <2>2. CASE r = s
    BY <1>1, <1>2, <1>3, <2>1, <2>2 DEF QueueInv
  <2>3. CASE r # s
    BY <1>1, <2>1, <2>3 DEF QueueInv
  <2> QED
    BY <2>2, <2>3
<1>6. pc' \in [Tasks -> Steps]
  BY <1>1 DEF QueueInv, Steps
<1>7. \A u \in Tasks : Delivering(u)' => event[u] \in Event
  BY <1>1, <1>4 DEF QueueInv, Delivering
<1> QED
  BY <1>1, <1>3, <1>4, <1>5, <1>6, <1>7 DEF QueueInv

\* The other steps change neither a queue nor an event, and give a task no
\* event to deliver that it did not have.
LEMMA QueueInvOther ==
  ASSUME QueueInv, UNCHANGED <<queue, putters, event, sent>>, pc' \in [Tasks -> Steps],
         \A t \in Tasks : Delivering(t)' => Delivering(t)
  PROVE  QueueInv'
  BY DEF QueueInv, QueueBounded

LEMMA QueueInvStep == QueueInv /\ [Next]_vars => QueueInv'
<1> SUFFICES ASSUME QueueInv, [Next]_vars PROVE QueueInv'
  OBVIOUS
<1>1. CASE UNCHANGED vars
  BY <1>1 DEF vars, QueueInv, QueueBounded, Delivering
<1>2. ASSUME NEW s \in Subscriptions, Subscribe(s) PROVE QueueInv'
  BY <1>2, QueueInvOther DEF Subscribe, books, QueueInv, Delivering
<1>3. ASSUME NEW s \in Subscriptions, Get(s) PROVE QueueInv'
  BY <1>3, QueueInvGet
<1>4. ASSUME NEW t \in Tasks, Publish(t) PROVE QueueInv'
  BY <1>4, QueueInvPublish
<1>5. ASSUME NEW t \in Tasks, NEW s \in Subscriptions, Deliver(t, s) PROVE QueueInv'
  <2>1. CASE Put(t, s)
    BY <2>1, QueueInvPut
  <2>2. CASE Wait(t, s)
    BY <2>2, QueueInvWait
  <2>3. CASE DropNewest(t, s)
    BY <2>3, QueueInvOther DEF DropNewest, books, QueueInv, Delivering
  <2>4. CASE DropOldest(t, s)
    BY <2>4, QueueInvDropOldest
  <2>5. CASE Raise(t, s)
    BY <2>5, QueueInvOther DEF Raise, books, QueueInv, Delivering, Steps
  <2> QED
    BY <1>5, <2>1, <2>2, <2>3, <2>4, <2>5 DEF Deliver
<1>6. ASSUME NEW t \in Tasks, PublishReturns(t) PROVE QueueInv'
  BY <1>6, QueueInvOther DEF PublishReturns, books, QueueInv, Delivering, Steps
<1>7. ASSUME NEW t \in Tasks, Resume(t) PROVE QueueInv'
  BY <1>7, QueueInvOther DEF Resume, books, QueueInv, Delivering, Steps
<1>8. ASSUME NEW t \in Tasks, Handled(t) PROVE QueueInv'
  BY <1>8, QueueInvOther DEF Handled, books, QueueInv, Delivering, Steps
<1> QED
  BY <1>1, <1>2, <1>3, <1>4, <1>5, <1>6, <1>7, <1>8 DEF Next, Runs

\* No queue of the bus ever holds more than its maxsize, for any number of
\* publishers that wait for, or barge into, its places (bus.py:77-107).
THEOREM QueuesStayBounded == Spec => []QueueBounded
<1>1. QueueInv => QueueBounded
  BY DEF QueueInv
<1> QED
  BY <1>1, QueueInvInit, QueueInvStep, PTL DEF Spec

-----------------------------------------------------------------------------
(* Sequences without repetition                                            *)

Distinct(w) == \A i, j \in 1..Len(w) : w[i] = w[j] => i = j

\* What is in a sequence.
LEMMA InRange ==
  ASSUME NEW T, NEW w \in Seq(T)
  PROVE  /\ \A x : x \in Range(w) <=> \E i \in 1..Len(w) : w[i] = x
         /\ Range(w) \subseteq T
<1>1. DOMAIN w = 1..Len(w) /\ \A i \in 1..Len(w) : w[i] \in T
  BY ElementOfSeq
<1>2. \A x : x \in Range(w) <=> \E i \in 1..Len(w) : w[i] = x
  BY <1>1, Zenon DEF Range
<1>. QED
  BY <1>1, <1>2

LEMMA RangeEmpty == Range(<<>>) = {}
  BY DEF Range

LEMMA TailDistinct ==
  ASSUME NEW T, NEW w \in Seq(T), w # <<>>, Distinct(w)
  PROVE  /\ Tail(w) \in Seq(T) /\ Distinct(Tail(w))
         /\ Head(w) \in T /\ Head(w) \in Range(w)
         /\ Range(Tail(w)) = Range(w) \ {Head(w)}
<1>1. /\ Tail(w) \in Seq(T) /\ Len(Tail(w)) = Len(w) - 1 /\ Len(w) \in Nat \ {0}
      /\ Head(w) = w[1] /\ w[1] \in T
      /\ \A i \in 1..Len(w) - 1 : Tail(w)[i] = w[i + 1]
  BY EmptySeq, HeadTailProperties, ElementOfSeq
<1> DEFINE v == Tail(w)
           n == Len(w)
<1>a. \A x : x \in Range(w) <=> \E i \in 1..n : w[i] = x
  BY InRange
<1> HIDE DEF v
<1>2. v \in Seq(T) /\ Len(v) = n - 1 /\ n \in Nat \ {0} /\ \A i \in 1..n - 1 : v[i] = w[i + 1]
  BY <1>1 DEF v
<1>b. \A x : x \in Range(v) <=> \E i \in 1..Len(v) : v[i] = x
  BY <1>2, InRange
<1>3. Distinct(v)
  <2> SUFFICES ASSUME NEW i \in 1..n - 1, NEW j \in 1..n - 1, v[i] = v[j] PROVE i = j
    BY <1>2 DEF Distinct
  <2>1. i + 1 \in 1..n /\ j + 1 \in 1..n /\ w[i + 1] = w[j + 1]
    BY <1>2
  <2>2. i + 1 = j + 1
    BY <2>1 DEF Distinct
  <2> QED
    BY <2>2
<1>4. Head(w) \in Range(w)
  BY <1>1, <1>a, <1>b
<1>5. ASSUME NEW x PROVE x \in Range(v) <=> x \in Range(w) /\ x # w[1]
  <2>1. ASSUME x \in Range(v) PROVE x \in Range(w) /\ x # w[1]
    <3>1. PICK i \in 1..n - 1 : v[i] = x
      BY <1>2, <2>1, <1>a, <1>b
    <3>2. i + 1 \in 1..n /\ w[i + 1] = x /\ 1 \in 1..n /\ i + 1 # 1
      BY <1>2, <3>1
    <3> QED
      BY <3>2, <1>a, <1>b DEF Distinct
  <2>2. ASSUME x \in Range(w), x # w[1] PROVE x \in Range(v)
    <3>1. PICK i \in 1..n : w[i] = x
      BY <2>2, <1>a, <1>b
    <3>2. i # 1
      BY <3>1, <2>2
    <3>3. i - 1 \in 1..n - 1 /\ v[i - 1] = w[(i - 1) + 1] /\ (i - 1) + 1 = i
      BY <1>2, <3>1, <3>2
    <3> QED
      BY <1>2, <3>1, <3>3, <1>a, <1>b
  <2> QED
    BY <2>1, <2>2
<1>6. Range(v) = Range(w) \ {w[1]}
  BY <1>5
<1> QED
  BY <1>1, <1>3, <1>4, <1>6 DEF v

LEMMA AppendDistinct ==
  ASSUME NEW T, NEW w \in Seq(T), NEW x \in T, x \notin Range(w), Distinct(w)
  PROVE  /\ Append(w, x) \in Seq(T) /\ Distinct(Append(w, x)) /\ Append(w, x) # <<>>
         /\ Range(Append(w, x)) = Range(w) \cup {x}
<1> DEFINE v == Append(w, x)
           n == Len(w)
<1>1. /\ v \in Seq(T) /\ Len(v) = n + 1 /\ n \in Nat /\ v[n + 1] = x /\ v # <<>>
      /\ \A i \in 1..n : v[i] = w[i]
  BY AppendProperties, EmptySeq
<1>a. \A y : y \in Range(w) <=> \E i \in 1..n : w[i] = y
  BY InRange
<1>b. \A y : y \in Range(v) <=> \E i \in 1..Len(v) : v[i] = y
  BY <1>1, InRange
<1> HIDE DEF v
<1>2. \A i \in 1..n : w[i] # x
  BY <1>a, <1>b
<1>3. Distinct(v)
  <2> SUFFICES ASSUME NEW i \in 1..n + 1, NEW j \in 1..n + 1, v[i] = v[j] PROVE i = j
    BY <1>1 DEF Distinct
  <2>1. CASE i = n + 1 \/ j = n + 1
    BY <1>1, <1>2, <2>1
  <2>2. CASE i # n + 1 /\ j # n + 1
    <3>1. i \in 1..n /\ j \in 1..n
      BY <1>1, <2>2
    <3> QED
      BY <1>1, <3>1 DEF Distinct
  <2> QED
    BY <2>1, <2>2
<1>4. ASSUME NEW y PROVE y \in Range(v) <=> y \in Range(w) \/ y = x
  <2>1. ASSUME y \in Range(v) PROVE y \in Range(w) \/ y = x
    <3>1. PICK i \in 1..n + 1 : v[i] = y
      BY <1>1, <2>1, <1>a, <1>b
    <3>2. CASE i = n + 1
      BY <1>1, <3>1, <3>2
    <3>3. CASE i # n + 1
      <4>1. i \in 1..n
        BY <1>1, <3>3
      <4> QED
        BY <1>1, <3>1, <4>1, <1>a, <1>b
    <3> QED
      BY <3>2, <3>3
  <2>2. ASSUME y \in Range(w) PROVE y \in Range(v)
    <3>1. PICK i \in 1..n : w[i] = y
      BY <2>2, <1>a, <1>b
    <3>2. i \in 1..n + 1 /\ v[i] = y
      BY <1>1, <3>1
    <3> QED
      BY <1>1, <3>2, <1>a, <1>b
  <2>3. x \in Range(v)
    <3>1. n + 1 \in 1..n + 1
      BY <1>1
    <3> QED
      BY <1>1, <3>1, <1>a, <1>b
  <2> QED
    BY <2>1, <2>2, <2>3
<1>5. Range(v) = Range(w) \cup {x}
  BY <1>4
<1> QED
  BY <1>1, <1>3, <1>5 DEF v

-----------------------------------------------------------------------------
(* Publishers and the queues they serve                                    *)

\* A task that has subscriptions to serve is inside publish, or waits in it for
\* the first of them, with the last event it sent.
TaskInv(t) ==
  /\ rest[t] \in Seq(Subscriptions) /\ Distinct(rest[t])
  /\ rest[t] # <<>> => /\ pc[t] \in {"publishing", "waiting", "woken"}
                       /\ event[t] \in EventsOf(t) /\ event[t].seq = sent[t]
  /\ pc[t] \in {"waiting", "woken"} => rest[t] # <<>>

\* Who waits for a place does so once, in the queue he has to serve next; nobody
\* waits for a queue with another policy.
PuttersInv(s) ==
  /\ Distinct(putters[s])
  /\ \A t \in Range(putters[s]) : pc[t] = "waiting" /\ s = Head(rest[t])
  /\ putters[s] # <<>> => Policy[s] = "block" /\ MaxSize[s] > 0

BusTypes ==
  /\ QueueInv
  /\ subscriptions \in Seq(Subscriptions) /\ Distinct(subscriptions)
  /\ dropped_count \in [Subscriptions -> Nat]
  /\ rest \in [Tasks -> Seq(Subscriptions)]
  /\ offered \in [Subscriptions -> Seq(Event)]
  /\ received \in [Subscriptions -> Seq(Event)]

BusInv ==
  /\ BusTypes
  /\ \A t \in Tasks : TaskInv(t)
  /\ \A s \in Subscriptions : PuttersInv(s)

LEMMA BusInvInit == Init => BusInv
<1> SUFFICES ASSUME Init PROVE BusInv
  OBVIOUS
<1>1. Distinct(<<>>) /\ Range(<<>>) = {}
  BY RangeEmpty DEF Distinct
<1>2. BusTypes
  BY <1>1, QueueInvInit, BusAssumption DEF Init, BusTypes
<1>3. \A t \in Tasks : TaskInv(t)
  BY <1>1 DEF Init, TaskInv
<1>4. \A s \in Subscriptions : PuttersInv(s)
  BY <1>1 DEF Init, PuttersInv
<1> QED
  BY <1>2, <1>3, <1>4 DEF BusInv

\* A step of one task, which nobody has waiting for a place.
LEMMA OneTaskMoves ==
  ASSUME BusInv, NEW t \in Tasks, pc[t] # "waiting", putters' = putters,
         \A u \in Tasks : u # t => /\ rest'[u] = rest[u] /\ pc'[u] = pc[u]
                                   /\ event'[u] = event[u] /\ sent'[u] = sent[u],
         BusTypes', TaskInv(t)'
  PROVE  BusInv'
<1>1. ASSUME NEW u \in Tasks PROVE TaskInv(u)'
  <2>1. CASE u = t
    BY <2>1
  <2>2. CASE u # t
    <3>1. TaskInv(u)
      BY DEF BusInv
    <3> QED
      BY <2>2, <3>1 DEF TaskInv
  <2> QED
    BY <2>1, <2>2
<1>2. ASSUME NEW s \in Subscriptions PROVE PuttersInv(s)'
  <2>1. PuttersInv(s) /\ putters[s] \in Seq(Tasks)
    BY DEF BusInv, BusTypes, QueueInv
  <2>2. Range(putters[s]) \subseteq Tasks
    BY <2>1, InRange
  <2>3. ASSUME NEW u \in Range(putters[s]) PROVE pc'[u] = "waiting" /\ s = Head(rest'[u])
    BY <2>1, <2>2, <2>3 DEF PuttersInv
  <2> QED
    BY <2>1, <2>3 DEF PuttersInv
<1> QED
  BY <1>1, <1>2 DEF BusInv

\* The subscription that is served, and what serving it leaves.
LEMMA ServingFacts ==
  ASSUME BusInv, NEW t \in Tasks, NEW s, Serving(t, s)
  PROVE  /\ s \in Subscriptions /\ s \in Range(rest[t]) /\ s = Head(rest[t])
         /\ Tail(rest[t]) \in Seq(Subscriptions) /\ Distinct(Tail(rest[t]))
         /\ Range(Tail(rest[t])) = Range(rest[t]) \ {s}
         /\ pc[t] = "publishing" /\ event[t] \in EventsOf(t) /\ event[t] \in Event
         /\ event[t].from = t /\ event[t].seq = sent[t]
<1>1. rest[t] \in Seq(Subscriptions) /\ Distinct(rest[t]) /\ rest[t] # <<>> /\ s = Head(rest[t])
      /\ pc[t] = "publishing" /\ event[t] \in EventsOf(t) /\ event[t].seq = sent[t]
  BY DEF BusInv, TaskInv, Serving
<1>2. /\ s \in Subscriptions /\ s \in Range(rest[t])
      /\ Tail(rest[t]) \in Seq(Subscriptions) /\ Distinct(Tail(rest[t]))
      /\ Range(Tail(rest[t])) = Range(rest[t]) \ {s}
  BY <1>1, TailDistinct
<1>3. event[t] \in Event /\ event[t].from = t
  BY <1>1 DEF Event, EventsOf
<1> QED
  BY <1>1, <1>2, <1>3

LEMMA ServedFacts ==
  ASSUME BusInv, NEW t \in Tasks, NEW s, Serving(t, s), Served(t),
         pc' = pc, event' = event, sent' = sent
  PROVE  /\ TaskInv(t)' /\ rest' \in [Tasks -> Seq(Subscriptions)]
         /\ rest'[t] = Tail(rest[t])
         /\ \A u \in Tasks : u # t => rest'[u] = rest[u]
<1>1. rest \in [Tasks -> Seq(Subscriptions)] /\ rest' = [rest EXCEPT ![t] = Tail(rest[t])]
  BY DEF BusInv, BusTypes, Served
<1>2. Tail(rest[t]) \in Seq(Subscriptions) /\ Distinct(Tail(rest[t]))
      /\ pc[t] = "publishing" /\ event[t] \in EventsOf(t) /\ event[t].seq = sent[t]
  BY ServingFacts
<1>3. rest'[t] = Tail(rest[t]) /\ \A u \in Tasks : u # t => rest'[u] = rest[u]
  BY <1>1
<1>4. rest' \in [Tasks -> Seq(Subscriptions)]
  BY <1>1, <1>2
<1>5. EventsOf(t)' = EventsOf(t)
  BY DEF EventsOf
<1>6. TaskInv(t)'
  BY <1>2, <1>3, <1>5 DEF TaskInv
<1> QED
  BY <1>3, <1>4, <1>6

\* The subscriptions that an event of class k goes to, each once.
LEMMA AudienceFacts ==
  ASSUME BusInv, NEW k, NEW w, w = Audience(k)
  PROVE  w \in Seq(Subscriptions) /\ Distinct(w) /\ Range(w) \subseteq Subscriptions
<1> DEFINE S == {s \in Subscriptions : k \in Matches[s]}
<1>1. subscriptions \in Seq(Subscriptions) /\ Distinct(subscriptions) /\ w = OnlyIn(subscriptions, S)
  BY DEF BusInv, BusTypes, Audience
<1> HIDE DEF S
<1>2. w \in Seq(Subscriptions)
  BY <1>1, SelectType
<1>3. \A i, j \in 1..Len(w) : w[i] = w[j] => i = j
  <2>1. \A i, j \in 1..Len(subscriptions) : subscriptions[i] = subscriptions[j] => i = j
    BY <1>1 DEF Distinct
  <2> QED
    BY <1>1, <2>1, SelectDistinct
<1>4. Range(w) \subseteq Subscriptions
  BY <1>2, InRange
<1> QED
  BY <1>2, <1>3, <1>4 DEF Distinct

\* What a publication changes, with the event and its audience.
Published(t, e, w) ==
  /\ e \in Event /\ e.from = t /\ e.seq = sent[t] + 1
  /\ Distinct(w) /\ Range(w) \subseteq Subscriptions
  /\ rest[t] = <<>> /\ pc[t] \in {"idle", "handling"}
  /\ event' = [event EXCEPT ![t] = e] /\ rest' = [rest EXCEPT ![t] = w]
  /\ offered' = [s \in Subscriptions |->
       IF s \in Range(w) THEN Append(offered[s], e) ELSE offered[s]]
  /\ pc' = [pc EXCEPT ![t] = "publishing"]
  /\ sent' = [sent EXCEPT ![t] = sent[t] + 1]
  /\ UNCHANGED <<subscriptions, queue, dropped_count, putters, received>>

LEMMA PublishFacts ==
  ASSUME BusInv, NEW t \in Tasks, Publish(t)
  PROVE  \E e \in EventsOf(t), w \in Seq(Subscriptions) : Published(t, e, w)
<1>1. PICK k \in Publishes[t] :
        /\ event' = [event EXCEPT ![t] = [from |-> t, kind |-> k, seq |-> sent[t] + 1]]
        /\ rest' = [rest EXCEPT ![t] = Audience(k)]
        /\ offered' = [s \in Subscriptions |->
             IF s \in Range(Audience(k)) THEN Append(offered[s], [from |-> t, kind |-> k, seq |-> sent[t] + 1])
             ELSE offered[s]]
  BY Zenon DEF Publish
<1> DEFINE e == [from |-> t, kind |-> k, seq |-> sent[t] + 1]
           w == Audience(k)
<1>2. k \in Kinds /\ sent[t] + 1 \in Nat
  BY BusAssumption DEF BusInv, BusTypes, QueueInv
<1>3. e \in EventsOf(t) /\ e \in Event /\ e.from = t /\ e.seq = sent[t] + 1
  BY <1>2 DEF EventsOf, Event
<1>4. w \in Seq(Subscriptions) /\ Distinct(w) /\ Range(w) \subseteq Subscriptions
  BY AudienceFacts
<1>5. pc[t] \in {"idle", "handling"}
  BY DEF Publish
<1>6. rest[t] = <<>>
  BY <1>5 DEF BusInv, TaskInv
<1>7. /\ pc' = [pc EXCEPT ![t] = "publishing"]
      /\ sent' = [sent EXCEPT ![t] = sent[t] + 1]
      /\ UNCHANGED <<subscriptions, queue, dropped_count, putters, received>>
  BY DEF Publish
<1>8. /\ event' = [event EXCEPT ![t] = e] /\ rest' = [rest EXCEPT ![t] = w]
      /\ offered' = [s \in Subscriptions |->
           IF s \in Range(w) THEN Append(offered[s], e) ELSE offered[s]]
  BY <1>1
<1> HIDE DEF e, w
<1> QED
  BY <1>3, <1>4, <1>5, <1>6, <1>7, <1>8, Zenon DEF Published

LEMMA BusInvPublish ==
  ASSUME BusInv, QueueInv', NEW t \in Tasks, Publish(t)
  PROVE  BusInv'
<1>p. PICK e \in EventsOf(t), w \in Seq(Subscriptions) : Published(t, e, w)
  BY PublishFacts, Zenon
<1>1. /\ e \in Event /\ e.from = t /\ e.seq = sent[t] + 1
      /\ Distinct(w) /\ Range(w) \subseteq Subscriptions
      /\ rest[t] = <<>> /\ pc[t] \in {"idle", "handling"}
      /\ event' = [event EXCEPT ![t] = e] /\ rest' = [rest EXCEPT ![t] = w]
      /\ offered' = [s \in Subscriptions |->
           IF s \in Range(w) THEN Append(offered[s], e) ELSE offered[s]]
      /\ pc' = [pc EXCEPT ![t] = "publishing"]
      /\ sent' = [sent EXCEPT ![t] = sent[t] + 1]
      /\ UNCHANGED <<subscriptions, queue, dropped_count, putters, received>>
  BY <1>p, Zenon DEF Published
<1>2. /\ event \in [Tasks -> Event \cup {NoEvent}] /\ pc \in [Tasks -> Steps] /\ sent \in [Tasks -> Nat]
      /\ rest \in [Tasks -> Seq(Subscriptions)] /\ offered \in [Subscriptions -> Seq(Event)]
  BY DEF BusInv, BusTypes, QueueInv
<1>3. /\ event'[t] = e /\ rest'[t] = w /\ pc'[t] = "publishing" /\ sent'[t] = sent[t] + 1
      /\ rest' \in [Tasks -> Seq(Subscriptions)]
  BY <1>1, <1>2
<1>4. \A u \in Tasks : u # t => /\ rest'[u] = rest[u] /\ pc'[u] = pc[u]
                                /\ event'[u] = event[u] /\ sent'[u] = sent[u]
  BY <1>1, <1>2
<1>5. offered' \in [Subscriptions -> Seq(Event)]
  <2>1. \A s \in Subscriptions : Append(offered[s], e) \in Seq(Event) /\ offered[s] \in Seq(Event)
    BY <1>1, <1>2
  <2> QED
    BY <1>1, <2>1
<1>6. EventsOf(t)' = EventsOf(t)
  BY DEF EventsOf
<1>7. TaskInv(t)'
  BY <1>1, <1>3, <1>6 DEF TaskInv
<1>8. BusTypes'
  BY <1>1, <1>3, <1>5 DEF BusInv, BusTypes
<1>9. pc[t] # "waiting" /\ putters' = putters
  BY <1>1
<1> QED
  BY <1>4, <1>7, <1>8, <1>9, OneTaskMoves

\* Steps that serve a subscription.
LEMMA BusInvServe ==
  ASSUME BusInv, QueueInv', NEW t \in Tasks, NEW s \in Subscriptions, Serving(t, s), Served(t),
         UNCHANGED <<subscriptions, putters, pc, event, books>>,
         dropped_count' \in [Subscriptions -> Nat]
  PROVE  BusInv'
<1>1. pc' = pc /\ event' = event /\ sent' = sent /\ putters' = putters /\ offered' = offered
      /\ received' = received /\ subscriptions' = subscriptions
  BY DEF books
<1>2. /\ TaskInv(t)' /\ rest' \in [Tasks -> Seq(Subscriptions)]
      /\ \A u \in Tasks : u # t => rest'[u] = rest[u]
  BY <1>1, ServedFacts
<1>3. BusTypes'
  BY <1>1, <1>2 DEF BusInv, BusTypes
<1>4. pc[t] # "waiting"
  BY DEF Serving
<1>5. \A u \in Tasks : u # t => /\ rest'[u] = rest[u] /\ pc'[u] = pc[u]
                                /\ event'[u] = event[u] /\ sent'[u] = sent[u]
  BY <1>1, <1>2
<1> QED
  BY <1>1, <1>2, <1>3, <1>4, <1>5, OneTaskMoves

\* Steps that only change what one task is doing.
LEMMA BusInvTurn ==
  ASSUME BusInv, QueueInv', NEW t \in Tasks, pc[t] # "waiting", NEW x \in Steps,
         x # "waiting", pc' = [pc EXCEPT ![t] = x],
         x = "woken" => rest[t] # <<>>,
         rest[t] # <<>> => x \in {"publishing", "woken"},
         UNCHANGED <<subscriptions, queue, dropped_count, putters, event, rest, books>>
  PROVE  BusInv'
<1>1. event' = event /\ sent' = sent /\ putters' = putters /\ offered' = offered /\ rest' = rest
      /\ received' = received /\ subscriptions' = subscriptions /\ dropped_count' = dropped_count
  BY DEF books
<1>2. pc \in [Tasks -> Steps] /\ TaskInv(t)
  BY DEF BusInv, BusTypes, QueueInv
<1>3. pc'[t] = x /\ \A u \in Tasks : u # t => pc'[u] = pc[u]
  BY <1>2
<1>4. EventsOf(t)' = EventsOf(t)
  BY DEF EventsOf
<1>5. TaskInv(t)'
  BY <1>1, <1>2, <1>3, <1>4 DEF TaskInv
<1>6. BusTypes'
  BY <1>1 DEF BusInv, BusTypes
<1>7. \A u \in Tasks : u # t => /\ rest'[u] = rest[u] /\ pc'[u] = pc[u]
                                /\ event'[u] = event[u] /\ sent'[u] = sent[u]
  BY <1>1, <1>3
<1> QED
  BY <1>1, <1>5, <1>6, <1>7, OneTaskMoves

LEMMA BusInvRaise ==
  ASSUME BusInv, QueueInv', NEW t \in Tasks, NEW s \in Subscriptions, Raise(t, s)
  PROVE  BusInv'
<1>1. event' = event /\ sent' = sent /\ putters' = putters /\ offered' = offered
      /\ received' = received /\ subscriptions' = subscriptions /\ dropped_count' = dropped_count
      /\ pc' = [pc EXCEPT ![t] = "failed"] /\ rest' = [rest EXCEPT ![t] = <<>>]
      /\ pc[t] = "publishing"
  BY DEF Raise, Serving, books
<1>2. pc \in [Tasks -> Steps] /\ rest \in [Tasks -> Seq(Subscriptions)]
  BY DEF BusInv, BusTypes, QueueInv
<1>3. pc'[t] = "failed" /\ rest'[t] = <<>> /\ rest' \in [Tasks -> Seq(Subscriptions)]
  BY <1>1, <1>2
<1>4. TaskInv(t)'
  BY <1>3 DEF TaskInv, Distinct
<1>5. BusTypes'
  BY <1>1, <1>3 DEF BusInv, BusTypes
<1>6. \A u \in Tasks : u # t => /\ rest'[u] = rest[u] /\ pc'[u] = pc[u]
                                /\ event'[u] = event[u] /\ sent'[u] = sent[u]
  BY <1>1, <1>2
<1> QED
  BY <1>1, <1>4, <1>5, <1>6, OneTaskMoves

LEMMA BusInvWait ==
  ASSUME BusInv, QueueInv', NEW t \in Tasks, NEW s \in Subscriptions, Wait(t, s)
  PROVE  BusInv'
<1>1. /\ event' = event /\ sent' = sent /\ offered' = offered /\ rest' = rest
      /\ received' = received /\ subscriptions' = subscriptions /\ dropped_count' = dropped_count
      /\ putters' = [putters EXCEPT ![s] = Append(putters[s], t)]
      /\ pc' = [pc EXCEPT ![t] = "waiting"]
      /\ pc[t] = "publishing" /\ rest[t] # <<>> /\ s = Head(rest[t])
      /\ MaxSize[s] > 0 /\ Policy[s] = "block"
  BY DEF Wait, Serving, Full, books
<1>2. pc \in [Tasks -> Steps] /\ putters \in [Subscriptions -> Seq(Tasks)]
  BY DEF BusInv, BusTypes, QueueInv
<1>3. pc'[t] = "waiting" /\ \A u \in Tasks : u # t => pc'[u] = pc[u]
  BY <1>1, <1>2
<1>4. /\ putters'[s] = Append(putters[s], t)
      /\ \A r \in Subscriptions : r # s => putters'[r] = putters[r]
  BY <1>1, <1>2
<1>5. ASSUME NEW u \in Tasks PROVE TaskInv(u)'
  <2>1. TaskInv(u)
    BY DEF BusInv
  <2>2. EventsOf(u)' = EventsOf(u)
    BY DEF EventsOf
  <2> QED
    BY <1>1, <1>3, <2>1, <2>2 DEF TaskInv
<1>6. ASSUME NEW r \in Subscriptions PROVE PuttersInv(r)'
  <2>1. PuttersInv(r) /\ putters[r] \in Seq(Tasks)
    BY <1>2 DEF BusInv
  <2>2. ASSUME NEW u \in Range(putters[r])
        PROVE  u \in Tasks /\ u # t /\ pc'[u] = "waiting" /\ r = Head(rest'[u])
    <3>1. u \in Tasks /\ pc[u] = "waiting" /\ r = Head(rest[u])
      BY <2>1, InRange DEF PuttersInv
    <3> QED
      BY <1>1, <1>3, <3>1
  <2>3. CASE r # s
    BY <1>4, <2>1, <2>2, <2>3 DEF PuttersInv
  <2>4. CASE r = s
    <3>1. t \notin Range(putters[s]) /\ Distinct(putters[s]) /\ putters[s] \in Seq(Tasks)
      BY <2>1, <2>2, <2>4 DEF PuttersInv
    <3>2. Distinct(putters'[s]) /\ Range(putters'[s]) = Range(putters[s]) \cup {t}
      BY <1>4, <3>1, AppendDistinct
    <3>3. \A u \in Range(putters'[s]) : pc'[u] = "waiting" /\ s = Head(rest'[u])
      BY <1>1, <1>3, <2>2, <2>4, <3>2
    <3> QED
      BY <1>1, <2>4, <3>2, <3>3 DEF PuttersInv
  <2> QED
    BY <2>3, <2>4
<1>7. BusTypes'
  BY <1>1 DEF BusInv, BusTypes
<1> QED
  BY <1>5, <1>6, <1>7 DEF BusInv

\* Reading an event: the reader handles it, the first publisher in line wakes.
LEMMA GetFacts ==
  ASSUME BusInv, NEW s \in Subscriptions, Get(s)
  PROVE  /\ Reader[s] \in Tasks /\ pc[Reader[s]] = "idle" /\ pc'[Reader[s]] = "handling"
         /\ \A u \in Tasks : u # Reader[s] /\ pc[u] # "waiting" => pc'[u] = pc[u]
         /\ \A u \in Tasks : u \notin Range(putters[s]) => u = Reader[s] \/ pc'[u] = pc[u]
         /\ queue[s] \in Seq(Event) /\ queue[s] # <<>>
         /\ received' = [received EXCEPT ![s] = Append(received[s], Head(queue[s]))]
         /\ queue' = [queue EXCEPT ![s] = Tail(queue[s])]
         /\ \A r \in Subscriptions : r # s => putters'[r] = putters[r]
         /\ putters[s] = <<>> => putters'[s] = <<>>
         /\ putters[s] # <<>> =>
              /\ Head(putters[s]) \in Tasks /\ Head(putters[s]) \in Range(putters[s])
              /\ pc[Head(putters[s])] = "waiting" /\ pc'[Head(putters[s])] = "woken"
              /\ rest[Head(putters[s])] # <<>> /\ s = Head(rest[Head(putters[s])])
              /\ putters'[s] = Tail(putters[s]) /\ Distinct(Tail(putters[s]))
              /\ Range(Tail(putters[s])) = Range(putters[s]) \ {Head(putters[s])}
              /\ \A u \in Tasks : u # Head(putters[s]) => u = Reader[s] \/ pc'[u] = pc[u]
         /\ UNCHANGED <<subscriptions, dropped_count, event, rest, sent, offered>>
<1> DEFINE t == Reader[s]
           first == Head(putters[s])
<1>1. /\ pc[t] = "idle" /\ queue[s] # <<>>
      /\ received' = [received EXCEPT ![s] = Append(received[s], Head(queue[s]))]
      /\ queue' = [queue EXCEPT ![s] = Tail(queue[s])]
      /\ putters' = [putters EXCEPT ![s] = IF putters[s] = <<>> THEN <<>> ELSE Tail(putters[s])]
      /\ pc' = [u \in Tasks |-> IF u = t THEN "handling"
                                ELSE IF putters[s] # <<>> /\ u = first THEN "woken"
                                ELSE pc[u]]
      /\ UNCHANGED <<subscriptions, dropped_count, event, rest, sent, offered>>
  BY DEF Get
<1>2. /\ queue[s] \in Seq(Event) /\ putters \in [Subscriptions -> Seq(Tasks)]
      /\ putters[s] \in Seq(Tasks) /\ t \in Tasks /\ PuttersInv(s)
      /\ \A u \in Tasks : TaskInv(u)
  BY BusAssumption DEF BusInv, BusTypes, QueueInv
<1>3. putters[s] # <<>> =>
        /\ first \in Tasks /\ first \in Range(putters[s])
        /\ Distinct(Tail(putters[s])) /\ Range(Tail(putters[s])) = Range(putters[s]) \ {first}
  BY <1>2, TailDistinct DEF PuttersInv
<1>4. putters[s] # <<>> =>
        pc[first] = "waiting" /\ first # t /\ rest[first] # <<>> /\ s = Head(rest[first])
  BY <1>1, <1>2, <1>3 DEF PuttersInv, TaskInv
<1>5. /\ \A r \in Subscriptions : r # s => putters'[r] = putters[r]
      /\ putters'[s] = IF putters[s] = <<>> THEN <<>> ELSE Tail(putters[s])
  BY <1>1, <1>2
<1> HIDE DEF t, first
<1>6. /\ pc'[t] = "handling" /\ putters[s] # <<>> => pc'[first] = "woken"
      /\ \A u \in Tasks : u # t /\ (putters[s] = <<>> \/ u # first) => pc'[u] = pc[u]
  BY <1>1, <1>2, <1>3, <1>4
<1>7. \A u \in Tasks : u # t /\ pc[u] # "waiting" => pc'[u] = pc[u]
  BY <1>4, <1>6
<1>8. \A u \in Tasks : u \notin Range(putters[s]) => u = t \/ pc'[u] = pc[u]
  BY <1>3, <1>6
<1>9. putters[s] # <<>> => \A u \in Tasks : u # first => u = t \/ pc'[u] = pc[u]
  BY <1>6
<1> QED
  BY <1>1, <1>2, <1>3, <1>4, <1>5, <1>6, <1>7, <1>8, <1>9, Zenon DEF t, first

LEMMA BusInvGet ==
  ASSUME BusInv, QueueInv', NEW s \in Subscriptions, Get(s)
  PROVE  BusInv'
<1> DEFINE t == Reader[s]
<1>1. /\ t \in Tasks /\ pc[t] = "idle" /\ pc'[t] = "handling"
      /\ \A u \in Tasks : u # t /\ pc[u] # "waiting" => pc'[u] = pc[u]
      /\ \A u \in Tasks : u \notin Range(putters[s]) => u = t \/ pc'[u] = pc[u]
      /\ \A r \in Subscriptions : r # s => putters'[r] = putters[r]
      /\ putters[s] = <<>> => putters'[s] = <<>>
      /\ UNCHANGED <<subscriptions, dropped_count, event, rest, sent, offered>>
  BY GetFacts, Zenon
<1>2. putters[s] # <<>> =>
        \E first \in Tasks :
           /\ first \in Range(putters[s])
           /\ pc[first] = "waiting" /\ pc'[first] = "woken" /\ rest[first] # <<>>
           /\ putters'[s] = Tail(putters[s]) /\ Distinct(Tail(putters[s]))
           /\ Range(Tail(putters[s])) = Range(putters[s]) \ {first}
           /\ \A u \in Tasks : u # first => u = t \/ pc'[u] = pc[u]
  BY GetFacts, Zenon
<1>3. /\ queue[s] \in Seq(Event) /\ queue[s] # <<>>
      /\ received' = [received EXCEPT ![s] = Append(received[s], Head(queue[s]))]
  BY GetFacts, Zenon
<1>4. /\ BusTypes /\ (\A u \in Tasks : TaskInv(u)) /\ (\A r \in Subscriptions : PuttersInv(r))
      /\ putters \in [Subscriptions -> Seq(Tasks)] /\ received \in [Subscriptions -> Seq(Event)]
  BY DEF BusInv, BusTypes, QueueInv
<1>5. received' \in [Subscriptions -> Seq(Event)]
  <2>1. Head(queue[s]) \in Event /\ received[s] \in Seq(Event)
    BY <1>3, <1>4
  <2>2. Append(received[s], Head(queue[s])) \in Seq(Event)
    BY <2>1
  <2> QED
    BY <1>3, <1>4, <2>2
<1>6. BusTypes'
  BY <1>1, <1>4, <1>5 DEF BusTypes
<1> HIDE DEF t
<1>7. ASSUME NEW u \in Tasks PROVE TaskInv(u)'
  <2>1. TaskInv(u)
    BY <1>4
  <2>2. EventsOf(u)' = EventsOf(u)
    BY DEF EventsOf
  <2>3. CASE u = t
    <3>1. rest[u] = <<>>
      BY <1>1, <2>1, <2>3 DEF TaskInv
    <3> QED
      BY <1>1, <2>1, <2>2, <2>3, <3>1 DEF TaskInv
  <2>4. CASE u # t /\ pc'[u] = pc[u]
    BY <1>1, <2>1, <2>2, <2>4 DEF TaskInv
  <2>5. CASE u # t /\ pc'[u] # pc[u]
    <3>1. u \in Range(putters[s])
      BY <1>1, <2>5
    <3>2. putters[s] # <<>>
      BY <3>1, RangeEmpty
    <3>3. pc[u] = "waiting" /\ pc'[u] = "woken"
      BY <1>2, <2>5, <3>2
    <3> QED
      BY <1>1, <2>1, <2>2, <3>3 DEF TaskInv
  <2> QED
    BY <2>3, <2>4, <2>5
<1>8. ASSUME NEW r \in Subscriptions PROVE PuttersInv(r)'
  <2>1. PuttersInv(r) /\ putters[r] \in Seq(Tasks)
    BY <1>4
  <2>2. ASSUME NEW u \in Range(putters[r]) PROVE u \in Tasks /\ pc[u] = "waiting" /\ r = Head(rest[u]) /\ u # t
    BY <1>1, <2>1, InRange DEF PuttersInv
  <2>3. CASE r # s
    <3>1. ASSUME NEW u \in Range(putters[r]) PROVE pc'[u] = "waiting" /\ r = Head(rest'[u])
      <4>1. u \in Tasks /\ pc[u] = "waiting" /\ r = Head(rest[u]) /\ u # t
        BY <2>2
      <4>2. u \notin Range(putters[s])
        BY <1>4, <2>3, <4>1 DEF PuttersInv
      <4>3. pc'[u] = pc[u]
        BY <1>1, <4>1, <4>2
      <4> QED
        BY <1>1, <4>1, <4>3
    <3>2. putters'[r] = putters[r]
      BY <1>1, <2>3
    <3> QED
      BY <2>1, <3>1, <3>2 DEF PuttersInv
  <2>4. CASE r = s /\ putters[s] = <<>>
    <3>1. putters'[r] = <<>>
      BY <1>1, <2>4
    <3> QED
      BY <3>1, RangeEmpty DEF PuttersInv, Distinct
  <2>5. CASE r = s /\ putters[s] # <<>>
    <3>1. PICK first \in Tasks :
           /\ putters'[s] = Tail(putters[s]) /\ Distinct(Tail(putters[s]))
           /\ Range(Tail(putters[s])) = Range(putters[s]) \ {first}
           /\ \A u \in Tasks : u # first => u = t \/ pc'[u] = pc[u]
      BY <1>2, <2>5
    <3>2. ASSUME NEW u \in Range(putters'[r]) PROVE pc'[u] = "waiting" /\ r = Head(rest'[u])
      <4>1. u \in Range(putters[r]) /\ u # first
        BY <2>5, <3>1
      <4>2. u \in Tasks /\ pc[u] = "waiting" /\ r = Head(rest[u]) /\ u # t
        BY <2>2, <4>1
      <4> QED
        BY <1>1, <3>1, <4>1, <4>2
    <3> QED
      BY <2>1, <2>5, <3>1, <3>2 DEF PuttersInv
  <2> QED
    BY <2>3, <2>4, <2>5
<1> QED
  BY <1>6, <1>7, <1>8 DEF BusInv

LEMMA BusInvSubscribe ==
  ASSUME BusInv, QueueInv', NEW s \in Subscriptions, Subscribe(s)
  PROVE  BusInv'
<1>1. /\ s \notin Range(subscriptions) /\ subscriptions' = Append(subscriptions, s)
      /\ UNCHANGED <<dropped_count, putters, pc, event, rest, sent, offered, received>>
  BY DEF Subscribe, books
<1>2. subscriptions' \in Seq(Subscriptions) /\ Distinct(subscriptions')
  BY <1>1, AppendDistinct DEF BusInv, BusTypes
<1>3. BusTypes'
  BY <1>1, <1>2 DEF BusInv, BusTypes
<1>4. ASSUME NEW u \in Tasks PROVE TaskInv(u)'
  BY <1>1 DEF BusInv, TaskInv, EventsOf
<1>5. ASSUME NEW r \in Subscriptions PROVE PuttersInv(r)'
  BY <1>1 DEF BusInv, PuttersInv
<1> QED
  BY <1>3, <1>4, <1>5 DEF BusInv

LEMMA BusInvStep == BusInv /\ [Next]_vars => BusInv'
<1> SUFFICES ASSUME BusInv, [Next]_vars PROVE BusInv'
  OBVIOUS
<1>0. QueueInv'
  BY QueueInvStep DEF BusInv, BusTypes
<1>t. dropped_count \in [Subscriptions -> Nat] /\ pc \in [Tasks -> Steps] /\ \A t \in Tasks : TaskInv(t)
  BY DEF BusInv, BusTypes, QueueInv
<1>1. CASE UNCHANGED vars
  BY <1>0, <1>1 DEF vars, BusInv, BusTypes, TaskInv, PuttersInv, EventsOf
<1>2. ASSUME NEW s \in Subscriptions, Subscribe(s) PROVE BusInv'
  BY <1>0, <1>2, BusInvSubscribe
<1>3. ASSUME NEW s \in Subscriptions, Get(s) PROVE BusInv'
  BY <1>0, <1>3, BusInvGet
<1>4. ASSUME NEW t \in Tasks, Publish(t) PROVE BusInv'
  BY <1>0, <1>4, BusInvPublish
<1>5. ASSUME NEW t \in Tasks, NEW s \in Subscriptions, Deliver(t, s) PROVE BusInv'
  <2>1. CASE Put(t, s)
    <3>1. /\ Serving(t, s) /\ Served(t) /\ UNCHANGED <<subscriptions, putters, pc, event, books>>
          /\ dropped_count' = dropped_count
      BY <2>1 DEF Put
    <3> QED
      BY <1>0, <1>t, <3>1, BusInvServe
  <2>2. CASE Wait(t, s)
    BY <1>0, <2>2, BusInvWait
  <2>3. CASE DropNewest(t, s)
    <3>1. /\ Serving(t, s) /\ Served(t) /\ UNCHANGED <<subscriptions, putters, pc, event, books>>
          /\ dropped_count' = [dropped_count EXCEPT ![s] = dropped_count[s] + 1]
      BY <2>3 DEF DropNewest
    <3> QED
      BY <1>0, <1>t, <3>1, BusInvServe
  <2>4. CASE DropOldest(t, s)
    <3>1. /\ Serving(t, s) /\ Served(t) /\ UNCHANGED <<subscriptions, putters, pc, event, books>>
          /\ dropped_count' = [dropped_count EXCEPT ![s] = dropped_count[s] + 1]
      BY <2>4 DEF DropOldest
    <3> QED
      BY <1>0, <1>t, <3>1, BusInvServe
  <2>5. CASE Raise(t, s)
    BY <1>0, <2>5, BusInvRaise
  <2> QED
    BY <1>5, <2>1, <2>2, <2>3, <2>4, <2>5 DEF Deliver
<1>6. ASSUME NEW t \in Tasks, PublishReturns(t) PROVE BusInv'
  <2>1. PICK x \in {"handling", "idle"} : pc' = [pc EXCEPT ![t] = x]
    BY <1>6 DEF PublishReturns
  <2>2. /\ pc[t] = "publishing" /\ rest[t] = <<>>
        /\ UNCHANGED <<subscriptions, queue, dropped_count, putters, event, rest, books>>
    BY <1>6 DEF PublishReturns
  <2> QED
    BY <1>0, <2>1, <2>2, BusInvTurn DEF Steps
<1>7. ASSUME NEW t \in Tasks, Resume(t) PROVE BusInv'
  <2>1. /\ pc[t] = "woken" /\ pc' = [pc EXCEPT ![t] = "publishing"]
        /\ UNCHANGED <<subscriptions, queue, dropped_count, putters, event, rest, books>>
    BY <1>7 DEF Resume
  <2> QED
    BY <1>0, <2>1, BusInvTurn DEF Steps
<1>8. ASSUME NEW t \in Tasks, Handled(t) PROVE BusInv'
  <2>1. /\ pc[t] = "handling" /\ pc' = [pc EXCEPT ![t] = "idle"]
        /\ UNCHANGED <<subscriptions, queue, dropped_count, putters, event, rest, books>>
    BY <1>8 DEF Handled
  <2>2. rest[t] = <<>>
    BY <1>t, <2>1 DEF TaskInv
  <2> QED
    BY <1>0, <2>1, <2>2, BusInvTurn DEF Steps
<1> QED
  BY <1>1, <1>2, <1>3, <1>4, <1>5, <1>6, <1>7, <1>8 DEF Next, Runs

LEMMA BusInvariance == Spec => []BusInv
  BY BusInvInit, BusInvStep, PTL DEF Spec

\* The types of the whole state, and the bound of every queue (bus.py:22-107).
THEOREM BusTypeCorrect == Spec => []TypeOK
<1>1. BusInv => TypeOK
  BY DEF BusInv, BusTypes, QueueInv, TypeOK
<1> QED
  BY <1>1, BusInvariance, PTL

-----------------------------------------------------------------------------
(* Counting                                                                *)

\* The steps that move no event: subscribing, returning, resuming, handling.
Quiet ==
  /\ UNCHANGED <<queue, dropped_count, putters, event, rest, books>>
  /\ \A u \in Tasks :
       /\ pc'[u] = "failed" <=> pc[u] = "failed"
       /\ rest[u] # <<>> => (Delivering(u)' <=> Delivering(u))

LEMMA QuietTurn ==
  ASSUME BusInv, NEW t \in Tasks, pc[t] # "failed", NEW x, x # "failed",
         pc' = [pc EXCEPT ![t] = x],
         rest[t] # <<>> => (pc[t] \in {"publishing", "woken"} <=> x \in {"publishing", "woken"}),
         UNCHANGED <<queue, dropped_count, putters, event, rest, books>>
  PROVE  Quiet
<1>1. pc \in [Tasks -> Steps]
  BY DEF BusInv, BusTypes, QueueInv
<1>2. pc'[t] = x /\ \A u \in Tasks : u # t => pc'[u] = pc[u]
  BY <1>1
<1> QED
  BY <1>2 DEF Quiet, Delivering

LEMMA StepKinds ==
  ASSUME BusInv, [Next]_vars
  PROVE  \/ Quiet
         \/ \E t \in Tasks : Publish(t)
         \/ \E t \in Tasks, s \in Subscriptions : Deliver(t, s)
         \/ \E s \in Subscriptions : Get(s)
<1>0. \A t \in Tasks : TaskInv(t)
  BY DEF BusInv
<1>1. CASE UNCHANGED vars
  BY <1>1 DEF vars, Quiet, Delivering, books
<1>2. ASSUME NEW s \in Subscriptions, Subscribe(s) PROVE Quiet
  BY <1>2 DEF Subscribe, Quiet, Delivering
<1>3. ASSUME NEW t \in Tasks, PublishReturns(t) PROVE Quiet
  <2>1. PICK x \in {"handling", "idle"} : pc' = [pc EXCEPT ![t] = x]
    BY <1>3 DEF PublishReturns
  <2>2. /\ pc[t] = "publishing" /\ rest[t] = <<>>
        /\ UNCHANGED <<queue, dropped_count, putters, event, rest, books>>
    BY <1>3 DEF PublishReturns
  <2> QED
    BY <2>1, <2>2, QuietTurn
<1>4. ASSUME NEW t \in Tasks, Resume(t) PROVE Quiet
  <2>1. /\ pc[t] = "woken" /\ pc' = [pc EXCEPT ![t] = "publishing"]
        /\ UNCHANGED <<queue, dropped_count, putters, event, rest, books>>
    BY <1>4 DEF Resume
  <2> QED
    BY <2>1, QuietTurn
<1>5. ASSUME NEW t \in Tasks, Handled(t) PROVE Quiet
  <2>1. /\ pc[t] = "handling" /\ pc' = [pc EXCEPT ![t] = "idle"]
        /\ UNCHANGED <<queue, dropped_count, putters, event, rest, books>>
    BY <1>5 DEF Handled
  <2>2. rest[t] = <<>>
    BY <1>0, <2>1 DEF TaskInv
  <2> QED
    BY <2>1, <2>2, QuietTurn
<1> QED
  BY <1>1, <1>2, <1>3, <1>4, <1>5 DEF Next, Runs

LEMMA PendingPublish ==
  ASSUME BusInv, NEW t \in Tasks, NEW w \in Seq(Subscriptions), rest[t] = <<>>,
         rest' = [rest EXCEPT ![t] = w], NEW s \in Subscriptions
  PROVE  /\ t \notin Pending(s)
         /\ Pending(s)' = IF s \in Range(w) THEN Pending(s) \cup {t} ELSE Pending(s)
<1>1. rest'[t] = w /\ \A u \in Tasks : u # t => rest'[u] = rest[u]
  BY DEF BusInv, BusTypes
<1>2. s \notin Range(rest[t])
  BY RangeEmpty
<1> QED
  BY <1>1, <1>2 DEF Pending

LEMMA PendingServed ==
  ASSUME BusInv, NEW t \in Tasks, NEW s \in Subscriptions, Serving(t, s), Served(t)
  PROVE  /\ t \in Pending(s) /\ Pending(s)' = Pending(s) \ {t}
         /\ \A r \in Subscriptions : r # s => Pending(r)' = Pending(r)
<1>1. s \in Range(rest[t]) /\ Range(Tail(rest[t])) = Range(rest[t]) \ {s}
  BY ServingFacts
<1>2. rest'[t] = Tail(rest[t]) /\ \A u \in Tasks : u # t => rest'[u] = rest[u]
  BY DEF BusInv, BusTypes, Served
<1> QED
  BY <1>1, <1>2 DEF Pending

FinitePending == \A s \in Subscriptions : IsFiniteSet(Pending(s))

LEMMA FinitePendingInit == Init => FinitePending
<1> SUFFICES ASSUME Init, NEW s \in Subscriptions PROVE IsFiniteSet(Pending(s))
  BY DEF FinitePending
<1>1. Pending(s) = {}
  BY RangeEmpty DEF Init, Pending
<1> QED
  BY <1>1, FS_EmptySet

LEMMA FinitePendingStep ==
  ASSUME BusInv, FinitePending, [Next]_vars
  PROVE  FinitePending'
<1>1. ASSUME NEW s \in Subscriptions, Pending(s)' \subseteq Pending(s) PROVE IsFiniteSet(Pending(s)')
  BY <1>1, FS_Subset DEF FinitePending
<1>2. CASE rest' = rest
  BY <1>1, <1>2 DEF FinitePending, Pending
<1>3. ASSUME NEW t \in Tasks, Publish(t) PROVE FinitePending'
  <2>1. PICK w \in Seq(Subscriptions) : rest[t] = <<>> /\ rest' = [rest EXCEPT ![t] = w]
    BY <1>3, PublishFacts, Zenon DEF Published
  <2>2. ASSUME NEW s \in Subscriptions PROVE IsFiniteSet(Pending(s)')
    <3>1. Pending(s)' = Pending(s) \/ Pending(s)' = Pending(s) \cup {t}
      BY <2>1, PendingPublish
    <3>2. IsFiniteSet(Pending(s)) /\ IsFiniteSet(Pending(s) \cup {t})
      BY FS_AddElement DEF FinitePending
    <3> QED
      BY <3>1, <3>2
  <2> QED
    BY <2>2 DEF FinitePending
<1>4. ASSUME NEW t \in Tasks, NEW s \in Subscriptions, Deliver(t, s), rest' # rest PROVE FinitePending'
  <2>1. (Served(t) /\ Serving(t, s)) \/ rest' = [rest EXCEPT ![t] = <<>>]
    BY <1>4 DEF Deliver, Put, Wait, DropNewest, DropOldest, Raise
  <2>2. CASE Served(t) /\ Serving(t, s)
    <3>1. \A r \in Subscriptions : Pending(r)' \subseteq Pending(r)
      BY <2>2, PendingServed
    <3> QED
      BY <1>1, <3>1 DEF FinitePending
  <2>3. CASE rest' = [rest EXCEPT ![t] = <<>>]
    <3>1. rest'[t] = <<>> /\ \A u \in Tasks : u # t => rest'[u] = rest[u]
      BY <2>3 DEF BusInv, BusTypes
    <3>2. \A r \in Subscriptions : Pending(r)' \subseteq Pending(r)
      BY <3>1, RangeEmpty DEF Pending
    <3> QED
      BY <1>1, <3>2 DEF FinitePending
  <2> QED
    BY <2>1, <2>2, <2>3
<1>5. ASSUME NEW s \in Subscriptions, Get(s) PROVE rest' = rest
  BY <1>5 DEF Get
<1>6. Quiet => rest' = rest
  BY DEF Quiet
<1> QED
  BY <1>2, <1>3, <1>4, <1>5, <1>6, StepKinds

-----------------------------------------------------------------------------
Calm == \A t \in Tasks : pc[t] # "failed"

\* A task that has failed stays so.
LEMMA FailureIsFinal ==
  ASSUME BusInv, [Next]_vars, Calm'
  PROVE  Calm
<1> SUFFICES ASSUME NEW u \in Tasks, pc[u] = "failed" PROVE pc'[u] = "failed"
  BY DEF Calm
<1>0. pc \in [Tasks -> Steps]
  BY DEF BusInv, BusTypes, QueueInv
<1>1. CASE Quiet
  BY <1>1 DEF Quiet
<1>2. ASSUME NEW t \in Tasks, Publish(t) PROVE pc'[u] = pc[u]
  <2>1. pc[t] # "failed" /\ pc' = [pc EXCEPT ![t] = "publishing"]
    BY <1>2 DEF Publish
  <2> QED
    BY <1>0, <2>1
<1>3. ASSUME NEW t \in Tasks, NEW s \in Subscriptions, Deliver(t, s) PROVE pc'[u] = pc[u]
  <2>1. pc[t] = "publishing"
    BY <1>3 DEF Deliver, Put, Wait, DropNewest, DropOldest, Raise, Serving
  <2>2. pc' = pc \/ pc' = [pc EXCEPT ![t] = "waiting"] \/ pc' = [pc EXCEPT ![t] = "failed"]
    BY <1>3 DEF Deliver, Put, Wait, DropNewest, DropOldest, Raise
  <2> QED
    BY <1>0, <2>1, <2>2
<1>4. ASSUME NEW s \in Subscriptions, Get(s) PROVE pc'[u] = pc[u]
  <2>1. pc[Reader[s]] = "idle" /\ \A v \in Tasks : v # Reader[s] /\ pc[v] # "waiting" => pc'[v] = pc[v]
    BY <1>4, GetFacts, Zenon
  <2> QED
    BY <2>1
<1> QED
  BY <1>1, <1>2, <1>3, <1>4, StepKinds

Accounted(s) ==
  Len(offered[s]) = Len(received[s]) + Len(queue[s]) + Cardinality(Pending(s)) + dropped_count[s]

LEMMA AccountedInit ==
  ASSUME Init, NEW s \in Subscriptions
  PROVE  Accounted(s)
<1>1. Pending(s) = {}
  BY RangeEmpty DEF Init, Pending
<1>2. Cardinality({}) = 0 /\ Len(<<>>) = 0
  BY FS_EmptySet
<1> QED
  BY <1>1, <1>2 DEF Init, Accounted

LEMMA AccountedStep ==
  ASSUME BusInv, FinitePending, [Next]_vars, Calm', NEW s \in Subscriptions, Accounted(s)
  PROVE  Accounted(s)'
<1> DEFINE p == Pending(s)
           all == Len(offered[s])
           read == Len(received[s])
           queued == Len(queue[s])
           coming == Cardinality(p)
           gone == dropped_count[s]
<1>0. /\ queue[s] \in Seq(Event) /\ offered[s] \in Seq(Event) /\ received[s] \in Seq(Event)
      /\ dropped_count[s] \in Nat /\ IsFiniteSet(p)
  BY DEF BusInv, BusTypes, QueueInv, FinitePending
<1>t. /\ queue \in [Subscriptions -> Seq(Event)] /\ offered \in [Subscriptions -> Seq(Event)]
      /\ received \in [Subscriptions -> Seq(Event)] /\ dropped_count \in [Subscriptions -> Nat]
  BY DEF BusInv, BusTypes, QueueInv
<1>n. /\ all \in Nat /\ read \in Nat /\ queued \in Nat /\ coming \in Nat /\ gone \in Nat
      /\ all = read + queued + coming + gone
  <2>1. coming \in Nat
    BY <1>0, FS_CardinalityType
  <2>2. all = read + queued + coming + gone
    BY Zenon DEF Accounted
  <2>3. all \in Nat /\ read \in Nat /\ queued \in Nat /\ gone \in Nat
    BY <1>0
  <2> QED
    BY <2>1, <2>2, <2>3, Zenon
<1>q. all' = read' + queued' + coming' + gone' => Accounted(s)'
  BY DEF Accounted
<1> HIDE DEF p, all, read, queued, coming, gone
<1>1. CASE Quiet
  BY <1>1 DEF Quiet, books, Accounted, Pending
<1>2. ASSUME NEW t \in Tasks, Publish(t) PROVE Accounted(s)'
  <2>p. PICK e \in EventsOf(t), w \in Seq(Subscriptions) : Published(t, e, w)
    BY <1>2, PublishFacts, Zenon
  <2>1. /\ e \in Event /\ rest[t] = <<>> /\ rest' = [rest EXCEPT ![t] = w]
        /\ offered' = [r \in Subscriptions |->
             IF r \in Range(w) THEN Append(offered[r], e) ELSE offered[r]]
        /\ UNCHANGED <<subscriptions, queue, dropped_count, putters, received>>
    BY <2>p, Zenon DEF Published
  <2>2. t \notin p /\ p' = IF s \in Range(w) THEN p \cup {t} ELSE p
    BY <2>1, PendingPublish DEF p
  <2>3. Cardinality(p \cup {t}) = coming + 1
    BY <1>0, <2>2, FS_AddElement DEF coming
  <2>4. read' = read /\ queued' = queued /\ gone' = gone
    BY <2>1 DEF read, queued, gone
  <2>5. CASE s \in Range(w)
    <3>1. offered'[s] = Append(offered[s], e)
      BY <2>1, <2>5
    <3>2. all' = all + 1
      BY <1>0, <2>1, <3>1 DEF all
    <3>3. coming' = coming + 1
      BY <2>2, <2>3, <2>5 DEF coming
    <3> QED
      BY <1>n, <1>q, <2>4, <3>2, <3>3
  <2>6. CASE s \notin Range(w)
    <3>1. all' = all
      BY <2>1, <2>6 DEF all
    <3>2. coming' = coming
      BY <2>2, <2>6 DEF coming
    <3> QED
      BY <1>n, <1>q, <2>4, <3>1, <3>2
  <2> QED
    BY <2>5, <2>6
<1>3. ASSUME NEW t \in Tasks, NEW r \in Subscriptions, Put(t, r) \/ DropNewest(t, r) \/ DropOldest(t, r)
      PROVE  Accounted(s)'
  <2>1. Serving(t, r) /\ Served(t) /\ offered' = offered /\ received' = received
    BY <1>3 DEF Put, DropNewest, DropOldest, books
  <2>2. event[t] \in Event
    BY <2>1, ServingFacts
  <2>3. all' = all /\ read' = read
    BY <2>1 DEF all, read
  <2>4. CASE r # s
    <3>1. p' = p
      BY <2>1, <2>4, PendingServed DEF p
    <3>2. queue'[s] = queue[s] /\ dropped_count'[s] = dropped_count[s]
      BY <1>3, <1>t, <2>4 DEF Put, DropNewest, DropOldest, Enqueue
    <3>3. queued' = queued /\ gone' = gone /\ coming' = coming
      BY <3>1, <3>2 DEF queued, gone, coming
    <3> QED
      BY <1>n, <1>q, <2>3, <3>3
  <2>5. CASE r = s
    <3>1. t \in p /\ p' = p \ {t}
      BY <2>1, <2>5, PendingServed DEF p
    <3>2. coming' = coming - 1
      BY <1>0, <3>1, FS_RemoveElement DEF coming
    <3>3. queued' \in Nat /\ gone' \in Nat /\ queued' + gone' = queued + gone + 1
      <4>1. CASE Put(t, r)
        <5>1. queue'[s] = Append(queue[s], event[t]) /\ gone' = gone
          BY <1>t, <2>5, <4>1 DEF Put, Enqueue, gone
        <5>2. queued' = queued + 1
          BY <1>0, <2>2, <5>1 DEF queued
        <5> QED
          BY <1>n, <5>1, <5>2
      <4>2. CASE DropNewest(t, r)
        <5>1. queued' = queued /\ gone' = gone + 1
          BY <1>t, <2>5, <4>2 DEF DropNewest, queued, gone
        <5> QED
          BY <1>n, <5>1
      <4>3. CASE DropOldest(t, r)
        <5>1. queue'[s] = Append(Tail(queue[s]), event[t]) /\ gone' = gone + 1
          BY <1>t, <2>5, <4>3 DEF DropOldest, gone
        <5>2. queue[s] # <<>>
          <6>1. MaxSize[s] > 0 /\ Len(queue[s]) >= MaxSize[s] /\ MaxSize[s] \in Nat
            BY BusAssumption, <2>5, <4>3 DEF DropOldest, Full
          <6>2. Len(queue[s]) # 0
            BY <1>0, <6>1
          <6> QED
            BY <1>0, <6>2, EmptySeq
        <5>3. queued' = queued
          BY <1>0, <2>2, <5>1, <5>2 DEF queued
        <5> QED
          BY <1>n, <5>1, <5>3
      <4> QED
        BY <1>3, <4>1, <4>2, <4>3
    <3>4. all' = read' + queued' + coming' + gone'
      <4>1. PICK x \in Nat, y \in Nat : x = queued' /\ y = gone' /\ x + y = queued + gone + 1
        BY <3>3
      <4>2. all = read + queued + coming + gone
        BY <1>n, Zenon
      <4>3. queued \in Nat /\ coming \in Nat /\ gone \in Nat /\ read \in Nat
        BY <1>n, Zenon
      <4>4. x + y = queued + gone + 1
        BY <4>1, Zenon
      <4>5. read + queued + coming + gone = read + x + (coming - 1) + y
        BY <4>3, <4>4
      <4>6. all = read + x + (coming - 1) + y
        BY <4>2, <4>5, Zenon
      <4> QED
        BY <2>3, <3>2, <4>1, <4>6
    <3> QED
      BY <1>q, <3>4
  <2> QED
    BY <2>4, <2>5
<1>4. ASSUME NEW t \in Tasks, NEW r \in Subscriptions, Wait(t, r) PROVE Accounted(s)'
  BY <1>4 DEF Wait, books, Accounted, Pending
<1>5. ASSUME NEW t \in Tasks, NEW r \in Subscriptions, Raise(t, r) PROVE FALSE
  <2>1. pc \in [Tasks -> Steps] /\ pc' = [pc EXCEPT ![t] = "failed"]
    BY <1>5 DEF Raise, BusInv, BusTypes, QueueInv
  <2> QED
    BY <2>1 DEF Calm
<1>6. ASSUME NEW r \in Subscriptions, Get(r) PROVE Accounted(s)'
  <2>1. /\ queue[r] \in Seq(Event) /\ queue[r] # <<>>
        /\ received' = [received EXCEPT ![r] = Append(received[r], Head(queue[r]))]
        /\ queue' = [queue EXCEPT ![r] = Tail(queue[r])]
        /\ UNCHANGED <<subscriptions, dropped_count, event, rest, sent, offered>>
    BY <1>6, GetFacts, Zenon
  <2>2. coming' = coming /\ all' = all /\ gone' = gone
    BY <2>1 DEF Pending, p, coming, all, gone
  <2>3. CASE r # s
    <3>1. read' = read /\ queued' = queued
      BY <1>t, <2>1, <2>3 DEF read, queued
    <3> QED
      BY <1>n, <1>q, <2>2, <3>1
  <2>4. CASE r = s
    <3>1. received'[s] = Append(received[s], Head(queue[s])) /\ queue'[s] = Tail(queue[s])
      BY <1>t, <2>1, <2>4
    <3>2. queued' = queued - 1
      <4>1. Len(Tail(queue[s])) = Len(queue[s]) - 1
        BY <2>1, <2>4
      <4> QED
        BY <3>1, <4>1 DEF queued
    <3>3. read' = read + 1
      BY <1>0, <2>1, <2>4, <3>1 DEF read
    <3> QED
      BY <1>n, <1>q, <2>2, <3>2, <3>3
  <2> QED
    BY <2>3, <2>4
<1> QED
  BY <1>1, <1>2, <1>3, <1>4, <1>5, <1>6, StepKinds DEF Deliver

AccountInv == FinitePending /\ EventsAccounted

LEMMA AccountInvInit == Init => AccountInv
  BY FinitePendingInit, AccountedInit DEF AccountInv, EventsAccounted, Accounted

LEMMA AccountInvStep == BusInv /\ AccountInv /\ [Next]_vars => AccountInv'
<1> SUFFICES ASSUME BusInv, AccountInv, [Next]_vars PROVE AccountInv'
  OBVIOUS
<1>1. FinitePending'
  BY FinitePendingStep DEF AccountInv
<1>2. ASSUME Calm', NEW s \in Subscriptions PROVE Accounted(s)'
  <2>1. Calm
    BY <1>2, FailureIsFinal
  <2>2. Accounted(s)
    BY <2>1 DEF AccountInv, EventsAccounted, Calm, Accounted
  <2> QED
    BY <1>2, <2>2, AccountedStep DEF AccountInv
<1>3. EventsAccounted'
  BY <1>2 DEF EventsAccounted, Calm, Accounted
<1> QED
  BY <1>1, <1>3 DEF AccountInv

\* As long as no publication has raised, every event offered to a subscription has
\* been read, is queued, is on its way or is counted as dropped (bus.py:77-107).
THEOREM EventsAccountedCorrect == Spec => []EventsAccounted
<1>1. AccountInv => EventsAccounted
  BY DEF AccountInv
<1> QED
  BY <1>1, BusInvariance, AccountInvInit, AccountInvStep, PTL DEF Spec

-----------------------------------------------------------------------------
(* Wake-ups                                                                *)

\* The tasks that are on their way to a place in the queue of s.
Arriving(s) == {t \in Pending(s) : pc[t] \in {"woken", "publishing"} /\ s = Head(rest[t])}

RoomTaken(s) == putters[s] # <<>> => MaxSize[s] - Len(queue[s]) <= Cardinality(Arriving(s))

\* Nobody leaves the way to s, and no place of its queue becomes free.
LEMMA RoomStays ==
  ASSUME BusInv, FinitePending', NEW s \in Subscriptions, RoomTaken(s),
         putters'[s] = putters[s], Len(queue'[s]) = Len(queue[s]),
         \A u \in Arriving(s) : u \in Arriving(s)'
  PROVE  RoomTaken(s)'
<1> DEFINE a == Cardinality(Arriving(s))
           b == Cardinality(Arriving(s)')
           n == Len(queue[s])
<1>1. IsFiniteSet(Arriving(s)') /\ Arriving(s) \subseteq Arriving(s)'
  BY FS_Subset DEF FinitePending, Arriving
<1>2. a <= b /\ a \in Nat /\ b \in Nat
  BY <1>1, FS_Subset, FS_CardinalityType
<1>3. n \in Nat /\ MaxSize[s] \in Nat
  BY BusAssumption DEF BusInv, BusTypes, QueueInv
<1>4. putters[s] # <<>> => MaxSize[s] - n <= a
  BY DEF RoomTaken
<1> HIDE DEF a, b, n
<1>5. putters[s] # <<>> => MaxSize[s] - n <= b
  BY <1>2, <1>3, <1>4
<1> QED
  BY <1>5 DEF RoomTaken, b, n

LEMMA FirstPending ==
  ASSUME BusInv, NEW t \in Tasks, NEW s \in Subscriptions, rest[t] # <<>>, s = Head(rest[t])
  PROVE  t \in Pending(s)
<1>1. rest[t] \in Seq(Subscriptions) /\ Distinct(rest[t])
  BY DEF BusInv, TaskInv
<1>2. s \in Range(rest[t])
  BY <1>1, TailDistinct
<1> QED
  BY <1>2 DEF Pending

LEMMA RoomTakenStep ==
  ASSUME BusInv, FinitePending, FinitePending', [Next]_vars, NEW s \in Subscriptions, RoomTaken(s)
  PROVE  RoomTaken(s)'
<1>0. /\ queue[s] \in Seq(Event) /\ MaxSize[s] \in Nat /\ PuttersInv(s)
      /\ \A t \in Tasks : TaskInv(t)
  BY BusAssumption DEF BusInv, BusTypes, QueueInv
<1>t. /\ queue \in [Subscriptions -> Seq(Event)] /\ putters \in [Subscriptions -> Seq(Tasks)]
      /\ pc \in [Tasks -> Steps] /\ rest \in [Tasks -> Seq(Subscriptions)]
  BY DEF BusInv, BusTypes, QueueInv
<1>f. IsFiniteSet(Arriving(s)) /\ IsFiniteSet(Arriving(s)')
      /\ Cardinality(Arriving(s)) \in Nat /\ Cardinality(Arriving(s)') \in Nat
  <2>1. IsFiniteSet(Arriving(s)) /\ IsFiniteSet(Arriving(s)')
    BY FS_Subset DEF FinitePending, Arriving
  <2> QED
    BY <2>1, FS_CardinalityType
<1>p. \A u \in Arriving(s) : u \in Tasks
  BY DEF Arriving, Pending
<1>1. CASE Quiet
  <2>1. ASSUME NEW u \in Arriving(s) PROVE u \in Arriving(s)'
    <3>1. u \in Tasks /\ rest[u] # <<>>
      BY RangeEmpty DEF Arriving, Pending
    <3> QED
      BY <1>1, <3>1 DEF Quiet, Arriving, Pending, Delivering
  <2>2. putters' = putters /\ queue' = queue
    BY <1>1 DEF Quiet
  <2> QED
    BY <2>1, <2>2, RoomStays
<1>2. ASSUME NEW t \in Tasks, Publish(t) PROVE RoomTaken(s)'
  <2>p. PICK e \in EventsOf(t), w \in Seq(Subscriptions) : Published(t, e, w)
    BY <1>2, PublishFacts, Zenon
  <2>1. /\ rest[t] = <<>> /\ rest' = [rest EXCEPT ![t] = w]
        /\ pc' = [pc EXCEPT ![t] = "publishing"]
        /\ UNCHANGED <<queue, putters>>
    BY <2>p, Zenon DEF Published
  <2>2. ASSUME NEW u \in Arriving(s) PROVE u \in Arriving(s)'
    <3>1. u # t /\ u \in Tasks
      BY <2>1, RangeEmpty DEF Arriving, Pending
    <3>2. rest'[u] = rest[u] /\ pc'[u] = pc[u]
      BY <1>t, <2>1, <3>1
    <3> QED
      BY <3>2 DEF Arriving, Pending
  <2> QED
    BY <2>1, <2>2, RoomStays
<1>3. ASSUME NEW t \in Tasks, NEW r \in Subscriptions, Put(t, r) \/ DropNewest(t, r) \/ DropOldest(t, r)
      PROVE  RoomTaken(s)'
  <2>1. Serving(t, r) /\ Served(t) /\ pc' = pc /\ putters' = putters
    BY <1>3 DEF Put, DropNewest, DropOldest
  <2>2. rest[t] # <<>> /\ r = Head(rest[t]) /\ rest' = [rest EXCEPT ![t] = Tail(rest[t])]
    BY <2>1 DEF Serving, Served
  <2>3. ASSUME NEW u \in Arriving(s), u # t PROVE u \in Arriving(s)'
    <3>1. rest'[u] = rest[u] /\ pc'[u] = pc[u]
      BY <1>p, <1>t, <2>1, <2>2, <2>3
    <3> QED
      BY <3>1 DEF Arriving, Pending
  <2>4. CASE r # s
    <3>1. t \notin Arriving(s)
      BY <2>2, <2>4 DEF Arriving
    <3>2. queue'[s] = queue[s]
      BY <1>3, <1>t, <2>4 DEF Put, DropNewest, DropOldest, Enqueue
    <3>3. \A u \in Arriving(s) : u \in Arriving(s)'
      BY <2>3, <3>1
    <3> QED
      BY <2>1, <3>2, <3>3, RoomStays
  <2>5. CASE r = s /\ putters[s] # <<>> /\ Put(t, r)
    <3>1. queue'[s] = Append(queue[s], event[t]) /\ event[t] \in Event
      BY <1>t, <2>1, <2>5, ServingFacts DEF Put, Enqueue
    <3>2. Len(queue'[s]) = Len(queue[s]) + 1
      BY <1>0, <3>1
    <3>3. t \in Arriving(s)
      BY <2>1, <2>2, <2>5, FirstPending DEF Arriving, Serving
    <3> DEFINE S == Arriving(s) \ {t}
               a == Cardinality(Arriving(s))
               b == Cardinality(Arriving(s)')
               c == Cardinality(S)
               n == Len(queue[s])
    <3>4. S \subseteq Arriving(s)'
      BY <2>3
    <3>5. c = a - 1
      BY <1>f, <3>3, FS_RemoveElement
    <3> HIDE DEF S
    <3>6. c <= b /\ c \in Nat
      BY <1>f, <3>4, FS_Subset, FS_CardinalityType
    <3>7. MaxSize[s] - n <= a
      BY <2>5 DEF RoomTaken
    <3>8. a \in Nat /\ b \in Nat /\ n \in Nat /\ MaxSize[s] \in Nat
      BY <1>0, <1>f
    <3>9. Len(queue'[s]) = n + 1
      BY <3>2
    <3> HIDE DEF a, b, c, n
    <3>10. MaxSize[s] - Len(queue'[s]) <= b
      BY <3>5, <3>6, <3>7, <3>8, <3>9
    <3> QED
      BY <3>10 DEF RoomTaken, b
  <2>6. CASE r = s /\ ~(putters[s] # <<>> /\ Put(t, r))
    <3>1. putters'[s] = <<>>
      BY <1>0, <1>3, <2>1, <2>6 DEF PuttersInv, DropNewest, DropOldest
    <3> QED
      BY <3>1 DEF RoomTaken
  <2> QED
    BY <2>4, <2>5, <2>6
<1>4. ASSUME NEW t \in Tasks, NEW r \in Subscriptions, Wait(t, r) \/ Raise(t, r) PROVE RoomTaken(s)'
  <2>1. Serving(t, r) /\ queue' = queue
    BY <1>4 DEF Wait, Raise
  <2>2. ASSUME r # s PROVE RoomTaken(s)'
    <3>1. putters'[s] = putters[s]
      BY <1>4, <1>t, <2>2 DEF Wait, Raise
    <3>2. ASSUME NEW u \in Arriving(s) PROVE u \in Arriving(s)'
      <4>1. u # t /\ u \in Tasks
        BY <2>1, <2>2 DEF Arriving, Serving, Pending
      <4>2. rest'[u] = rest[u] /\ pc'[u] = pc[u]
        BY <1>4, <1>t, <4>1 DEF Wait, Raise
      <4> QED
        BY <4>2 DEF Arriving, Pending
    <3> QED
      BY <2>1, <3>1, <3>2, RoomStays
  <2>3. ASSUME r = s, Wait(t, r) PROVE RoomTaken(s)'
    <3>1. Len(queue[s]) >= MaxSize[s] /\ Len(queue[s]) \in Nat
      BY <1>0, <2>3 DEF Wait, Full
    <3>2. MaxSize[s] - Len(queue[s]) <= 0
      BY <1>0, <3>1
    <3>3. MaxSize[s] - Len(queue[s]) <= Cardinality(Arriving(s)')
      BY <1>0, <1>f, <3>1, <3>2
    <3> QED
      BY <2>1, <3>3 DEF RoomTaken
  <2>4. ASSUME r = s, Raise(t, r) PROVE RoomTaken(s)'
    <3>1. putters'[s] = <<>>
      BY <1>0, <2>4 DEF PuttersInv, Raise
    <3> QED
      BY <3>1 DEF RoomTaken
  <2> QED
    BY <1>4, <2>2, <2>3, <2>4
<1>5. ASSUME NEW r \in Subscriptions, Get(r) PROVE RoomTaken(s)'
  <2>1. /\ pc[Reader[r]] = "idle" /\ Reader[r] \in Tasks
        /\ \A u \in Tasks : u # Reader[r] /\ pc[u] # "waiting" => pc'[u] = pc[u]
        /\ queue[r] \in Seq(Event) /\ queue[r] # <<>>
        /\ queue' = [queue EXCEPT ![r] = Tail(queue[r])]
        /\ \A q \in Subscriptions : q # r => putters'[q] = putters[q]
        /\ putters[r] = <<>> => putters'[r] = <<>>
        /\ rest' = rest
    BY <1>5, GetFacts, Zenon
  <2>2. ASSUME NEW u \in Arriving(s) PROVE u \in Arriving(s)'
    <3>1. u # Reader[r] /\ pc[u] # "waiting" /\ u \in Tasks
      BY <2>1 DEF Arriving, Pending
    <3>2. pc'[u] = pc[u]
      BY <2>1, <3>1
    <3> QED
      BY <2>1, <3>2 DEF Arriving, Pending
  <2>3. CASE r # s
    <3>1. putters'[s] = putters[s] /\ queue'[s] = queue[s]
      BY <1>t, <2>1, <2>3
    <3> QED
      BY <2>2, <3>1, RoomStays
  <2>4. CASE r = s /\ putters[s] = <<>>
    BY <2>1, <2>4 DEF RoomTaken
  <2>5. CASE r = s /\ putters[s] # <<>>
    <3>1. PICK first \in Tasks : /\ pc[first] = "waiting" /\ pc'[first] = "woken"
                                 /\ rest[first] # <<>> /\ s = Head(rest[first])
      BY <1>5, <2>5, GetFacts, Zenon
    <3>2. first \in Pending(s) /\ first \notin Arriving(s)
      BY <3>1, FirstPending DEF Arriving
    <3>3. first \in Arriving(s)'
      BY <2>1, <3>1, <3>2 DEF Arriving, Pending
    <3> DEFINE S == Arriving(s) \cup {first}
               a == Cardinality(Arriving(s))
               b == Cardinality(Arriving(s)')
               c == Cardinality(S)
               n == Len(queue[s])
    <3>4. S \subseteq Arriving(s)'
      BY <2>2, <3>3
    <3>5. c = a + 1
      BY <1>f, <3>2, FS_AddElement
    <3> HIDE DEF S
    <3>6. c <= b
      BY <1>f, <3>4, FS_Subset
    <3>7. MaxSize[s] - n <= a
      BY <2>5 DEF RoomTaken
    <3>8. a \in Nat /\ b \in Nat /\ n \in Nat /\ MaxSize[s] \in Nat
      BY <1>0, <1>f
    <3>9. Len(queue'[s]) = n - 1
      <4>1. queue'[s] = Tail(queue[s])
        BY <1>t, <2>1, <2>5
      <4>2. Len(Tail(queue[s])) = Len(queue[s]) - 1
        BY <2>1, <2>5
      <4> QED
        BY <4>1, <4>2
    <3> HIDE DEF a, b, c, n
    <3>10. MaxSize[s] - Len(queue'[s]) <= b
      BY <3>5, <3>6, <3>7, <3>8, <3>9
    <3> QED
      BY <3>10 DEF RoomTaken, b
  <2> QED
    BY <2>3, <2>4, <2>5
<1> QED
  BY <1>1, <1>2, <1>3, <1>4, <1>5, StepKinds DEF Deliver

LEMMA RoomInit == Init => NoLostWakeup
  BY DEF Init, NoLostWakeup

LEMMA RoomStep == BusInv /\ FinitePending /\ FinitePending' /\ NoLostWakeup /\ [Next]_vars => NoLostWakeup'
<1>1. NoLostWakeup <=> \A s \in Subscriptions : RoomTaken(s)
  BY DEF NoLostWakeup, RoomTaken, Arriving
<1>2. NoLostWakeup' <=> \A s \in Subscriptions : RoomTaken(s)'
  BY DEF NoLostWakeup, RoomTaken, Arriving
<1> QED
  BY <1>1, <1>2, RoomTakenStep

\* No wake-up is lost: while a publisher waits for a place, every free place of the
\* queue has a publisher on its way to it (bus.py:79, asyncio.Queue.put).
THEOREM WakeupsCorrect == Spec => []NoLostWakeup
<1>1. BusInv /\ FinitePending /\ [Next]_vars => FinitePending'
  BY FinitePendingStep
<1> QED
  BY <1>1, BusInvariance, FinitePendingInit, RoomInit, RoomStep, PTL DEF Spec

-----------------------------------------------------------------------------
(* The newest event                                                        *)

\* What the reader of s has had or will find, and what was offered by one task.
Held(s) == received[s] \o queue[s]
Own(s, t) == OnlyIn(offered[s], EventsOf(t))

\* The last event held is the last one offered by its task, unless that task is
\* on its way with a newer one; who is on the way brings the last one he offered.
Newest(s) ==
  /\ offered[s] # <<>> => Pending(s) # {} \/ Held(s) # <<>>
  /\ Held(s) # <<>> => \A e \in {Last(Held(s))} : e.from \in Pending(s) \/ e = Last(Own(s, e.from))
  /\ \A t \in Pending(s) : event[t] = Last(Own(s, t))

\* Adding to what waits adds to what is held; reading leaves that as it is.
LEMMA AddingExtends ==
  ASSUME NEW T, NEW a \in Seq(T), NEW q \in Seq(T), NEW x \in T
  PROVE  a \o Append(q, x) = Append(a \o q, x) /\ a \o q \in Seq(T)
  OBVIOUS

LEMMA ReadingMoves ==
  ASSUME NEW T, NEW a \in Seq(T), NEW q \in Seq(T), q # <<>>
  PROVE  Append(a, Head(q)) \o Tail(q) = a \o q
  OBVIOUS

LEMMA LastOfAppend ==
  ASSUME NEW T, NEW w \in Seq(T), NEW x \in T
  PROVE  Append(w, x) # <<>> /\ Append(w, x) \in Seq(T) /\ Last(Append(w, x)) = x
  BY DEF Last

LEMMA OwnGrows ==
  ASSUME NEW w \in Seq(Event), NEW t, NEW e \in EventsOf(t), e \in Event, NEW u
  PROVE  OnlyIn(Append(w, e), EventsOf(u)) =
           IF u = t THEN Append(OnlyIn(w, EventsOf(u)), e) ELSE OnlyIn(w, EventsOf(u))
<1>1. e \in EventsOf(u) <=> u = t
  BY DEF EventsOf
<1> QED
  BY <1>1, SelectAppend

LEMMA NewestSame ==
  ASSUME NEW s, Newest(s), offered'[s] = offered[s], Held(s)' = Held(s),
         Pending(s)' = Pending(s), \A t \in Pending(s) : event'[t] = event[t]
  PROVE  Newest(s)'
<1>1. \A t : Own(s, t)' = Own(s, t)
  BY DEF Own, EventsOf
<1> QED
  BY <1>1, Zenon DEF Newest

LEMMA NewestStep ==
  ASSUME BusInv, [Next]_vars, Calm', NEW s \in Subscriptions, Policy[s] = "drop_oldest", Newest(s)
  PROVE  Newest(s)'
<1>0. /\ queue[s] \in Seq(Event) /\ received[s] \in Seq(Event) /\ offered[s] \in Seq(Event)
      /\ Held(s) \in Seq(Event)
  BY DEF BusInv, BusTypes, QueueInv, Held
<1>t. /\ queue \in [Subscriptions -> Seq(Event)] /\ received \in [Subscriptions -> Seq(Event)]
      /\ event \in [Tasks -> Event \cup {NoEvent}] /\ \A t \in Pending(s) : t \in Tasks
  BY DEF BusInv, BusTypes, QueueInv, Pending
<1>1. CASE Quiet
  <2>1. offered' = offered /\ queue' = queue /\ received' = received /\ rest' = rest /\ event' = event
    BY <1>1 DEF Quiet, books
  <2> QED
    BY <2>1, NewestSame DEF Held, Pending
<1>2. ASSUME NEW t \in Tasks, Publish(t) PROVE Newest(s)'
  <2>p. PICK e \in EventsOf(t), w \in Seq(Subscriptions) : Published(t, e, w)
    BY <1>2, PublishFacts, Zenon
  <2>1. /\ e \in Event /\ rest[t] = <<>> /\ rest' = [rest EXCEPT ![t] = w]
        /\ event' = [event EXCEPT ![t] = e]
        /\ offered' = [r \in Subscriptions |->
             IF r \in Range(w) THEN Append(offered[r], e) ELSE offered[r]]
        /\ UNCHANGED <<subscriptions, queue, dropped_count, putters, received>>
    BY <2>p, Zenon DEF Published
  <2>2. t \notin Pending(s) /\ Pending(s)' = IF s \in Range(w) THEN Pending(s) \cup {t} ELSE Pending(s)
    BY <2>1, PendingPublish
  <2>3. event'[t] = e /\ \A u \in Tasks : u # t => event'[u] = event[u]
    BY <1>t, <2>1
  <2>4. Held(s)' = Held(s)
    BY <2>1 DEF Held
  <2>5. CASE s \notin Range(w)
    <3>1. offered'[s] = offered[s] /\ Pending(s)' = Pending(s)
      BY <2>1, <2>2, <2>5
    <3>2. \A u \in Pending(s) : event'[u] = event[u]
      BY <1>t, <2>2, <2>3
    <3> QED
      BY <2>4, <3>1, <3>2, NewestSame
  <2>6. CASE s \in Range(w)
    <3>1. offered'[s] = Append(offered[s], e) /\ Pending(s)' = Pending(s) \cup {t}
      BY <2>1, <2>2, <2>6
    <3>2. ASSUME NEW u PROVE Own(s, u)' = IF u = t THEN Append(Own(s, u), e) ELSE Own(s, u)
      <4>1. OnlyIn(Append(offered[s], e), EventsOf(u)) =
              IF u = t THEN Append(OnlyIn(offered[s], EventsOf(u)), e)
                       ELSE OnlyIn(offered[s], EventsOf(u))
        <5>1. PICK o \in Seq(Event) : o = offered[s]
          BY <1>0
        <5>2. OnlyIn(Append(o, e), EventsOf(u)) =
                IF u = t THEN Append(OnlyIn(o, EventsOf(u)), e) ELSE OnlyIn(o, EventsOf(u))
          BY <2>1, OwnGrows
        <5> QED
          BY <5>1, <5>2, Zenon
      <4>2. EventsOf(u)' = EventsOf(u)
        BY DEF EventsOf
      <4> QED
        BY <3>1, <4>1, <4>2, Zenon DEF Own
    <3>3. Last(Own(s, t)') = e
      <4>1. Own(s, t) \in Seq(Event)
        BY <1>0, SelectType DEF Own
      <4>2. Last(Append(Own(s, t), e)) = e
        BY <2>1, <4>1, LastOfAppend
      <4> QED
        BY <3>2, <4>2
    <3>4. ASSUME NEW u \in Pending(s)' PROVE event'[u] = Last(Own(s, u)')
      <4>1. CASE u = t
        BY <2>3, <3>3, <4>1
      <4>2. CASE u # t
        BY <1>t, <2>3, <3>1, <3>2, <4>2 DEF Newest
      <4> QED
        BY <4>1, <4>2
    <3>5. ASSUME NEW x, x = Last(Held(s)), Held(s) # <<>>
          PROVE  x.from \in Pending(s)' \/ x = Last(Own(s, x.from)')
      <4>1. x.from \in Pending(s) \/ x = Last(Own(s, x.from))
        BY <3>5, Zenon DEF Newest
      <4> QED
        BY <3>1, <3>2, <4>1
    <3>6. Pending(s)' # {}
      BY <3>1
    <3>7. Held(s)' # <<>> =>
            \A x \in {Last(Held(s)')} : x.from \in Pending(s)' \/ x = Last(Own(s, x.from)')
      BY <2>4, <3>5, Zenon
    <3> QED
      BY <3>4, <3>6, <3>7, Zenon DEF Newest
  <2> QED
    BY <2>5, <2>6
<1>3. ASSUME NEW t \in Tasks, NEW r \in Subscriptions, Put(t, r) \/ DropNewest(t, r) \/ DropOldest(t, r)
      PROVE  Newest(s)'
  <2>1. Serving(t, r) /\ Served(t) /\ offered' = offered /\ received' = received /\ event' = event
    BY <1>3 DEF Put, DropNewest, DropOldest, books
  <2>2. CASE r # s
    <3>1. Pending(s)' = Pending(s)
      BY <2>1, <2>2, PendingServed
    <3>2. queue'[s] = queue[s]
      BY <1>3, <1>t, <2>2 DEF Put, DropNewest, DropOldest, Enqueue
    <3> QED
      BY <2>1, <3>1, <3>2, NewestSame DEF Held
  <2>3. CASE r = s
    <3>1. event[t] \in Event /\ event[t].from = t
      BY <2>1, ServingFacts
    <3>2. PICK q \in Seq(Event) : queue'[s] = Append(q, event[t])
      <4>1. CASE Put(t, r)
        BY <1>0, <1>t, <2>3, <4>1 DEF Put, Enqueue
      <4>2. CASE DropOldest(t, r)
        <5>1. queue'[s] = Append(Tail(queue[s]), event[t])
          BY <1>t, <2>3, <4>2 DEF DropOldest
        <5>2. Len(queue[s]) # 0
          BY BusAssumption, <1>0, <2>3, <4>2 DEF DropOldest, Full
        <5>3. Tail(queue[s]) \in Seq(Event)
          BY <1>0, <5>2, EmptySeq
        <5> QED
          BY <5>1, <5>3
      <4>3. ~DropNewest(t, r)
        BY <2>3 DEF DropNewest
      <4> QED
        BY <1>3, <4>1, <4>2, <4>3
    <3>3. t \in Pending(s) /\ Pending(s)' = Pending(s) \ {t}
      BY <2>1, <2>3, PendingServed
    <3>4. Held(s)' # <<>> /\ Last(Held(s)') = event[t]
      <4>1. received[s] \o Append(q, event[t]) = Append(received[s] \o q, event[t])
        <5>1. PICK o \in Seq(Event), x \in Event : o = received[s] /\ x = event[t]
          BY <1>0, <3>1
        <5>2. o \o Append(q, x) = Append(o \o q, x)
          BY AddingExtends
        <5> QED
          BY <5>1, <5>2, Zenon
      <4>2. received[s] \o q \in Seq(Event)
        BY <1>0, AddingExtends
      <4>3. /\ Append(received[s] \o q, event[t]) # <<>>
            /\ Last(Append(received[s] \o q, event[t])) = event[t]
        BY <3>1, <4>2, LastOfAppend
      <4>4. Held(s)' = Append(received[s] \o q, event[t])
        BY <2>1, <3>2, <4>1, Zenon DEF Held
      <4> QED
        BY <4>3, <4>4, Zenon
    <3>5. \A u : Own(s, u)' = Own(s, u)
      BY <2>1 DEF Own, EventsOf
    <3>6. \A u \in Pending(s) : event[u] = Last(Own(s, u))
      BY DEF Newest
    <3>7. \A u \in Pending(s)' : event'[u] = Last(Own(s, u)')
      BY <2>1, <3>3, <3>5, <3>6
    <3>8. \A x \in {Last(Held(s)')} : x = Last(Own(s, x.from)')
      <4>1. Last(Own(s, t)') = event[t]
        BY <3>3, <3>5, <3>6
      <4> QED
        BY <3>1, <3>4, <4>1, Zenon
    <3> QED
      BY <3>4, <3>7, <3>8, Zenon DEF Newest
  <2> QED
    BY <2>2, <2>3
<1>4. ASSUME NEW t \in Tasks, NEW r \in Subscriptions, Wait(t, r) PROVE Newest(s)'
  <2>1. offered' = offered /\ queue' = queue /\ received' = received /\ rest' = rest /\ event' = event
    BY <1>4 DEF Wait, books
  <2> QED
    BY <2>1, NewestSame DEF Held, Pending
<1>5. ASSUME NEW t \in Tasks, NEW r \in Subscriptions, Raise(t, r) PROVE FALSE
  <2>1. pc \in [Tasks -> Steps] /\ pc' = [pc EXCEPT ![t] = "failed"]
    BY <1>5 DEF Raise, BusInv, BusTypes, QueueInv
  <2> QED
    BY <2>1 DEF Calm
<1>6. ASSUME NEW r \in Subscriptions, Get(r) PROVE Newest(s)'
  <2>1. /\ queue[r] \in Seq(Event) /\ queue[r] # <<>>
        /\ received' = [received EXCEPT ![r] = Append(received[r], Head(queue[r]))]
        /\ queue' = [queue EXCEPT ![r] = Tail(queue[r])]
        /\ UNCHANGED <<event, rest, offered>>
    BY <1>6, GetFacts, Zenon
  <2>2. CASE r # s
    <3>1. received'[s] = received[s] /\ queue'[s] = queue[s]
      BY <1>t, <2>1, <2>2
    <3> QED
      BY <2>1, <3>1, NewestSame DEF Held, Pending
  <2>3. CASE r = s
    <3>1. received'[s] = Append(received[s], Head(queue[s])) /\ queue'[s] = Tail(queue[s])
      BY <1>t, <2>1, <2>3
    <3>2. Append(received[s], Head(queue[s])) \o Tail(queue[s]) = received[s] \o queue[s]
      BY <1>0, <2>1, <2>3, ReadingMoves
    <3>3. Held(s)' = Held(s)
      BY <3>1, <3>2 DEF Held
    <3> QED
      BY <2>1, <3>3, NewestSame DEF Pending
  <2> QED
    BY <2>2, <2>3
<1> QED
  BY <1>1, <1>2, <1>3, <1>4, <1>5, <1>6, StepKinds DEF Deliver

NewestInv == Calm => \A s \in Subscriptions : Policy[s] = "drop_oldest" => Newest(s)

LEMMA NewestInit == Init => NewestInv
<1> SUFFICES ASSUME Init, NEW s \in Subscriptions PROVE Newest(s)
  BY DEF NewestInv
<1>1. offered[s] = <<>> /\ Held(s) = <<>>
  BY DEF Init, Held
<1>2. Pending(s) = {}
  BY RangeEmpty DEF Init, Pending
<1> QED
  BY <1>1, <1>2 DEF Newest

LEMMA NewestInvStep == BusInv /\ NewestInv /\ [Next]_vars => NewestInv'
<1> SUFFICES ASSUME BusInv, NewestInv, [Next]_vars, Calm', NEW s \in Subscriptions, Policy[s] = "drop_oldest"
             PROVE  Newest(s)'
  BY DEF NewestInv
<1>1. Calm
  BY FailureIsFinal
<1>2. Newest(s)
  BY <1>1 DEF NewestInv
<1> QED
  BY <1>2, NewestStep

\* A drop_oldest queue has kept or handed out the last event of the task its newest
\* event came from (bus.py:92-102).
THEOREM LatestCorrect == Spec => []LatestKept
<1>1. NewestInv => LatestKept
  <2> SUFFICES ASSUME NewestInv, Calm, NEW s \in Subscriptions,
                      Policy[s] = "drop_oldest", offered[s] # <<>>, Pending(s) = {}
               PROVE  Last(received[s] \o queue[s]) =
                        Last(OnlyIn(offered[s], EventsOf(Last(received[s] \o queue[s]).from)))
    BY Zenon DEF LatestKept, Calm
  <2>1. Newest(s)
    BY DEF NewestInv
  <2>2. Held(s) # <<>>
    BY <2>1, Zenon DEF Newest
  <2>3. Last(Held(s)).from \in Pending(s) \/ Last(Held(s)) = Last(Own(s, Last(Held(s)).from))
    BY <2>1, <2>2, Zenon DEF Newest
  <2>4. Last(Held(s)) = Last(Own(s, Last(Held(s)).from))
    BY <2>3
  <2> QED
    BY <2>4 DEF Held, Own
<1> QED
  BY <1>1, BusInvariance, NewestInit, NewestInvStep, PTL DEF Spec

-----------------------------------------------------------------------------
(* The numbers of one task's events in a sequence                          *)

LEMMA LengthIs ==
  ASSUME NEW T, NEW w \in Seq(T), NEW n \in Nat, DOMAIN w = 1..n
  PROVE  Len(w) = n
<1>1. Len(w) \in Nat /\ 1..Len(w) = 1..n
  BY LenProperties
<1>2. n \in 1..n \/ n = 0
  OBVIOUS
<1>3. Len(w) \in 1..Len(w) \/ Len(w) = 0
  BY <1>1
<1>4. n <= Len(w)
  BY <1>1, <1>2
<1>5. Len(w) <= n
  BY <1>1, <1>3
<1> QED
  BY <1>1, <1>4, <1>5

LEMMA FromOf ==
  ASSUME NEW e \in Event, NEW t
  PROVE  e \in EventsOf(t) <=> e.from = t
  BY DEF Event, EventsOf

LEMMA SeqsEmpty == ASSUME NEW t PROVE SeqsOf(<<>>, t) = <<>>
<1>1. OnlyIn(<<>>, EventsOf(t)) = <<>>
  BY SelectEmpty
<1> QED
  BY <1>1 DEF SeqsOf

LEMMA SeqsType ==
  ASSUME NEW w \in Seq(Event), NEW t
  PROVE  SeqsOf(w, t) \in Seq(Nat)
<1> DEFINE own == OnlyIn(w, EventsOf(t))
<1>1. own \in Seq(Event)
  BY SelectType
<1> HIDE DEF own
<1>2. DOMAIN own = 1..Len(own) /\ Len(own) \in Nat /\ \A i \in 1..Len(own) : own[i] \in Event
  BY <1>1, ElementOfSeq
<1>3. \A i \in 1..Len(own) : own[i].seq \in Nat
  BY <1>2 DEF Event
<1>4. [i \in 1..Len(own) |-> own[i].seq] \in Seq(Nat)
  BY <1>2, <1>3, IsASeq
<1> QED
  BY <1>2, <1>4, Zenon DEF SeqsOf, own

LEMMA SeqsAppend ==
  ASSUME NEW w \in Seq(Event), NEW e \in Event, NEW t
  PROVE  SeqsOf(Append(w, e), t) =
           IF e.from = t THEN Append(SeqsOf(w, t), e.seq) ELSE SeqsOf(w, t)
<1> DEFINE own == OnlyIn(w, EventsOf(t))
           more == OnlyIn(Append(w, e), EventsOf(t))
<1>1. own \in Seq(Event)
  BY SelectType
<1>2. more = IF e.from = t THEN Append(own, e) ELSE own
  BY SelectAppend, FromOf
<1>3. SeqsOf(w, t) = [i \in DOMAIN own |-> own[i].seq]
  BY DEF SeqsOf
<1>4. SeqsOf(Append(w, e), t) = [i \in DOMAIN more |-> more[i].seq]
  BY DEF SeqsOf
<1>5. SeqsOf(w, t) \in Seq(Nat)
  BY SeqsType
<1> HIDE DEF own, more
<1>6. CASE e.from # t
  BY <1>2, <1>3, <1>4, <1>6
<1>7. CASE e.from = t
  <2>1. more = Append(own, e)
    BY <1>2, <1>7
  <2>2. /\ Len(own) \in Nat /\ DOMAIN own = 1..Len(own) /\ DOMAIN more = 1..Len(own) + 1
        /\ more[Len(own) + 1] = e /\ \A i \in 1..Len(own) : more[i] = own[i]
    BY <1>1, <2>1
  <2> DEFINE a == SeqsOf(w, t)
             b == SeqsOf(Append(w, e), t)
             n == Len(own)
  <2>3. a \in Seq(Nat) /\ a = [i \in 1..n |-> own[i].seq] /\ n \in Nat
    BY <1>3, <1>5, <2>2
  <2>4. b = [i \in 1..n + 1 |-> more[i].seq]
    BY <1>4, <2>2
  <2>5. b \in Seq(Nat)
    <3>1. Append(w, e) \in Seq(Event)
      OBVIOUS
    <3> QED
      BY <3>1, SeqsType
  <2>6. /\ n \in Nat /\ more[n + 1] = e /\ \A i \in 1..n : more[i] = own[i]
    BY <2>2
  <2>7. e.seq \in Nat
    BY DEF Event
  <2> HIDE DEF a, b, n
  <2>8. Len(a) = n
    BY <2>3, LengthIs
  <2>9. Len(b) = n + 1
    BY <2>4, <2>5, <2>6, LengthIs
  <2>10. /\ Append(a, e.seq) \in Seq(Nat) /\ Len(Append(a, e.seq)) = n + 1
         /\ Append(a, e.seq)[n + 1] = e.seq /\ \A i \in 1..n : Append(a, e.seq)[i] = a[i]
    BY <2>3, <2>7, <2>8
  <2>11. ASSUME NEW i \in 1..n + 1 PROVE b[i] = Append(a, e.seq)[i]
    <3>1. CASE i = n + 1
      BY <2>4, <2>6, <2>10, <3>1
    <3>2. CASE i # n + 1
      <4>1. i \in 1..n
        BY <2>6, <3>2
      <4>2. b[i] = own[i].seq /\ a[i] = own[i].seq
        BY <2>3, <2>4, <2>6, <4>1
      <4> QED
        BY <2>10, <4>1, <4>2
    <3> QED
      BY <3>1, <3>2
  <2>12. b = Append(a, e.seq)
    BY <2>5, <2>9, <2>10, <2>11, SeqEqual
  <2> QED
    BY <1>7, <2>12 DEF a, b
<1> QED
  BY <1>6, <1>7

\* Taking the first event takes the first number of its task and no other.
LEMMA SeqsHead ==
  ASSUME NEW w \in Seq(Event), w # <<>>, NEW t
  PROVE  /\ Head(w) \in Event /\ Tail(w) \in Seq(Event)
         /\ Head(w).from = t => /\ SeqsOf(w, t) # <<>> /\ Head(SeqsOf(w, t)) = Head(w).seq
                                /\ SeqsOf(Tail(w), t) = Tail(SeqsOf(w, t))
         /\ Head(w).from # t => SeqsOf(Tail(w), t) = SeqsOf(w, t)
<1> DEFINE h == Head(w)
           own == OnlyIn(w, EventsOf(t))
           less == OnlyIn(Tail(w), EventsOf(t))
<1>1. h \in Event /\ Tail(w) \in Seq(Event)
  BY HeadTailProperties
<1>2. own \in Seq(Event) /\ less \in Seq(Event)
  BY <1>1, SelectType
<1>3. own = IF h \in EventsOf(t) THEN <<h>> \o less ELSE less
  BY SelectHead
<1>4. h \in EventsOf(t) <=> h.from = t
  BY <1>1, FromOf
<1>5. /\ SeqsOf(w, t) = [i \in DOMAIN own |-> own[i].seq]
      /\ SeqsOf(Tail(w), t) = [i \in DOMAIN less |-> less[i].seq]
  BY DEF SeqsOf
<1>6. SeqsOf(w, t) \in Seq(Nat) /\ SeqsOf(Tail(w), t) \in Seq(Nat)
  BY <1>1, SeqsType
<1> DEFINE a == SeqsOf(w, t)
           b == SeqsOf(Tail(w), t)
<1> HIDE DEF own, less, h, a, b
<1>7. CASE h.from # t
  <2>1. b = a
    BY <1>3, <1>4, <1>5, <1>7 DEF a, b
  <2> QED
    BY <1>1, <1>7, <2>1 DEF h, a, b
<1>8. CASE h.from = t
  <2> DEFINE n == Len(less)
  <2>1. own = <<h>> \o less /\ n \in Nat /\ <<h>> \in Seq(Event) /\ Len(<<h>>) = 1 /\ <<h>>[1] = h
    BY <1>1, <1>2, <1>3, <1>4, <1>8
  <2>2. /\ Len(own) = n + 1
        /\ \A i \in 1..n + 1 : own[i] = IF i <= 1 THEN <<h>>[i] ELSE less[i - 1]
    <3>1. /\ Len(<<h>> \o less) = Len(<<h>>) + Len(less)
          /\ \A i \in 1..Len(<<h>>) + Len(less) :
               (<<h>> \o less)[i] = IF i <= Len(<<h>>) THEN <<h>>[i] ELSE less[i - Len(<<h>>)]
      BY <1>2, <2>1, ConcatProperties
    <3>2. Len(<<h>>) + Len(less) = n + 1
      BY <2>1
    <3> QED
      BY <2>1, <3>1, <3>2
  <2>3. DOMAIN own = 1..n + 1 /\ DOMAIN less = 1..n
    BY <1>2, <2>1, <2>2
  <2>4. a \in Seq(Nat) /\ a = [i \in 1..n + 1 |-> own[i].seq]
    BY <1>5, <1>6, <2>3 DEF a
  <2>5. b \in Seq(Nat) /\ b = [i \in 1..n |-> less[i].seq]
    BY <1>5, <1>6, <2>3 DEF b
  <2>6. n \in Nat /\ own[1] = h /\ \A i \in 1..n : own[i + 1] = less[i]
    BY <2>1, <2>2
  <2> HIDE DEF n
  <2>7. Len(a) = n + 1 /\ Len(b) = n
    BY <2>4, <2>5, <2>6, LengthIs
  <2>8. a # <<>> /\ a[1] = h.seq
    BY <2>4, <2>6, <2>7
  <2>9. /\ Tail(a) \in Seq(Nat) /\ Len(Tail(a)) = n /\ \A i \in 1..n : Tail(a)[i] = a[i + 1]
        /\ Head(a) = h.seq
    <3>1. /\ Tail(a) \in Seq(Nat) /\ Len(Tail(a)) = Len(a) - 1
          /\ \A i \in 1..Len(Tail(a)) : Tail(a)[i] = a[i + 1]
      BY <2>4, <2>8, HeadTailProperties
    <3>2. Len(Tail(a)) = n
      BY <2>6, <2>7, <3>1
    <3>3. Head(a) = a[1]
      BY <2>4, <2>8
    <3> QED
      BY <2>8, <3>1, <3>2, <3>3
  <2>10. ASSUME NEW i \in 1..n PROVE b[i] = Tail(a)[i]
    <3>1. i + 1 \in 1..n + 1 /\ a[i + 1] = own[i + 1].seq /\ b[i] = less[i].seq
      BY <2>4, <2>5, <2>6
    <3> QED
      BY <2>6, <2>9, <3>1
  <2>11. b = Tail(a)
    BY <2>5, <2>7, <2>9, <2>10, SeqEqual
  <2> QED
    BY <1>1, <1>8, <2>8, <2>9, <2>11 DEF h, a, b
<1> QED
  BY <1>7, <1>8

\* The sequences of numbers that the steps of a channel make.
LEMMA AppendedNumber ==
  ASSUME NEW q \in Seq(Nat), NEW n \in Nat
  PROVE  /\ Append(q, n) \in Seq(Nat) /\ Append(q, n) # <<>>
         /\ Last(Append(q, n)) = n /\ Front(Append(q, n)) = q
         /\ Len(Append(q, n)) \in DOMAIN Append(q, n)
         /\ RemoveAt(Append(q, n), Len(Append(q, n))) = q
         /\ q # <<>> => Tail(Append(q, n)) = Append(Tail(q), n)
<1> DEFINE a == Append(q, n)
           m == Len(q)
<1>1. /\ a \in Seq(Nat) /\ Len(a) = m + 1 /\ m \in Nat /\ a[m + 1] = n
      /\ DOMAIN a = 1..m + 1 /\ \A i \in 1..m : a[i] = q[i]
  OBVIOUS
<1>2. a # <<>> /\ Last(a) = n /\ Len(a) \in DOMAIN a
  BY <1>1 DEF Last
<1> HIDE DEF a
<1>3. \A i \in 1..m : a[i] \in Nat
  BY <1>1
<1>4. SubSeq(a, 1, m) = q
  <2>1. /\ SubSeq(a, 1, m) \in Seq(Nat)
        /\ Len(SubSeq(a, 1, m)) = IF 1 <= m THEN m - 1 + 1 ELSE 0
        /\ \A i \in 1..m - 1 + 1 : SubSeq(a, 1, m)[i] = a[1 + i - 1]
    BY <1>1, <1>3, SubSeqProperties
  <2>2. Len(SubSeq(a, 1, m)) = m
    BY <1>1, <2>1
  <2>3. ASSUME NEW i \in 1..m PROVE SubSeq(a, 1, m)[i] = q[i]
    <3>1. i \in 1..m - 1 + 1 /\ 1 + i - 1 = i
      BY <1>1
    <3> QED
      BY <1>1, <2>1, <3>1
  <2> QED
    BY <2>1, <2>2, <2>3, SeqEqual
<1>5. Front(a) = q
  <2>1. Len(a) - 1 = m
    BY <1>1
  <2> QED
    BY <1>4, <2>1 DEF Front
<1>6. RemoveAt(a, Len(a)) = q
  <2>1. Len(a) - 1 = m
    BY <1>1
  <2>2. SubSeq(a, Len(a) + 1, Len(a)) = <<>>
    BY <1>1, SubSeqEmpty
  <2>3. q \o <<>> = q
    BY ConcatEmptySeq
  <2> QED
    BY <1>4, <2>1, <2>2, <2>3 DEF RemoveAt
<1>7. q # <<>> => Tail(a) = Append(Tail(q), n)
  BY DEF a
<1> QED
  BY <1>1, <1>2, <1>5, <1>6, <1>7 DEF a

LEMMA RemovedHead ==
  ASSUME NEW q \in Seq(Nat), q # <<>>
  PROVE  1 \in DOMAIN q /\ RemoveAt(q, 1) = Tail(q)
<1>1. SubSeq(q, 1, 0) = <<>>
  BY SubSeqEmpty
<1>2. Tail(q) = SubSeq(q, 2, Len(q)) /\ Tail(q) \in Seq(Nat)
  BY TailIsSubSeq, HeadTailProperties
<1>3. <<>> \o Tail(q) = Tail(q)
  BY <1>2, ConcatEmptySeq
<1>4. Len(q) \in Nat \ {0} /\ DOMAIN q = 1..Len(q)
  BY EmptySeq, LenProperties
<1>5. 1 - 1 = 0 /\ 1 + 1 = 2
  OBVIOUS
<1>6. RemoveAt(q, 1) = SubSeq(q, 1, 0) \o SubSeq(q, 2, Len(q))
  BY <1>5, Zenon DEF RemoveAt
<1> QED
  BY <1>1, <1>2, <1>3, <1>4, <1>6

-----------------------------------------------------------------------------
(* The refinement                                                          *)

Channels == [Tasks -> [Subscriptions -> Seq(Nat)]]

LEMMA SameChannels ==
  ASSUME NEW f \in Channels, NEW g \in Channels,
         \A u \in Tasks, s \in Subscriptions : f[u][s] = g[u][s]
  PROVE  f = g
<1>1. ASSUME NEW u \in Tasks PROVE f[u] = g[u]
  <2>1. f[u] \in [Subscriptions -> Seq(Nat)] /\ g[u] \in [Subscriptions -> Seq(Nat)]
    BY DEF Channels
  <2> QED
    BY <2>1
<1> QED
  BY <1>1 DEF Channels

\* The numbers of one task in the queue of a subscription.
Queued(s, t) == SeqsOf(queue[s], t)

\* The event a task is publishing comes after what is queued.
TransitIs(u, s) ==
  /\ Queued(s, u) \in Seq(Nat)
  /\ Transit[u][s] = IF u \in Pending(s) THEN Append(Queued(s, u), sent[u]) ELSE Queued(s, u)

LEMMA MapsNow ==
  BusInv => /\ OfferedTo \in Channels /\ Transit \in Channels /\ SeenBy \in Channels
            /\ \A u \in Tasks, s \in Subscriptions : TransitIs(u, s)
<1> SUFFICES ASSUME BusInv
             PROVE  /\ OfferedTo \in Channels /\ Transit \in Channels /\ SeenBy \in Channels
                    /\ \A u \in Tasks, s \in Subscriptions : TransitIs(u, s)
  OBVIOUS
<1>1. ASSUME NEW u \in Tasks, NEW s \in Subscriptions
      PROVE  /\ SeqsOf(offered[s], u) \in Seq(Nat) /\ SeqsOf(received[s], u) \in Seq(Nat)
             /\ SeqsOf(OnTheWay(s, u), u) \in Seq(Nat) /\ Queued(s, u) \in Seq(Nat)
             /\ SeqsOf(OnTheWay(s, u), u) =
                  IF u \in Pending(s) THEN Append(Queued(s, u), sent[u]) ELSE Queued(s, u)
  <2>1. queue[s] \in Seq(Event) /\ offered[s] \in Seq(Event) /\ received[s] \in Seq(Event) /\ TaskInv(u)
    BY DEF BusInv, BusTypes, QueueInv
  <2>2. SeqsOf(offered[s], u) \in Seq(Nat) /\ SeqsOf(received[s], u) \in Seq(Nat) /\ Queued(s, u) \in Seq(Nat)
    BY <2>1, SeqsType DEF Queued
  <2>3. CASE s \in Range(rest[u])
    <3>1. u \in Pending(s) /\ OnTheWay(s, u) = Append(queue[s], event[u])
      BY <2>3 DEF Pending, OnTheWay
    <3>2. event[u] \in EventsOf(u) /\ event[u].seq = sent[u]
      BY <2>1, <2>3, RangeEmpty DEF TaskInv
    <3>3. event[u] \in Event /\ event[u].from = u
      BY <3>2 DEF Event, EventsOf
    <3>4. SeqsOf(Append(queue[s], event[u]), u) = Append(SeqsOf(queue[s], u), event[u].seq)
      BY <2>1, <3>3, SeqsAppend
    <3>5. Append(queue[s], event[u]) \in Seq(Event)
      BY <2>1, <3>3
    <3>6. SeqsOf(Append(queue[s], event[u]), u) \in Seq(Nat)
      BY <3>5, SeqsType
    <3> QED
      BY <2>2, <3>1, <3>2, <3>4, <3>6 DEF Queued
  <2>4. CASE s \notin Range(rest[u])
    <3>1. u \notin Pending(s) /\ OnTheWay(s, u) = queue[s]
      BY <2>4 DEF Pending, OnTheWay
    <3> QED
      BY <2>2, <3>1 DEF Queued
  <2> QED
    BY <2>3, <2>4
<1>2. OfferedTo \in Channels /\ Transit \in Channels /\ SeenBy \in Channels
  BY <1>1 DEF OfferedTo, Transit, SeenBy, Channels
<1>3. \A u \in Tasks, s \in Subscriptions : Transit[u][s] = SeqsOf(OnTheWay(s, u), u)
  BY DEF Transit
<1> QED
  BY <1>1, <1>2, <1>3 DEF TransitIs

LEMMA MapsThen ==
  (BusInv => /\ OfferedTo \in Channels /\ Transit \in Channels /\ SeenBy \in Channels
             /\ \A u \in Tasks, s \in Subscriptions : TransitIs(u, s))'
  BY MapsNow, PTL

LEMMA ChannelInit == Init => Channel!Init
<1> SUFFICES ASSUME Init PROVE Channel!Init
  OBVIOUS
<1>1. ASSUME NEW u \in Tasks, NEW s \in Subscriptions
      PROVE  /\ SeqsOf(offered[s], u) = <<>> /\ SeqsOf(received[s], u) = <<>>
             /\ SeqsOf(OnTheWay(s, u), u) = <<>>
  <2>1. offered[s] = <<>> /\ received[s] = <<>> /\ OnTheWay(s, u) = <<>>
    BY RangeEmpty DEF Init, OnTheWay
  <2> QED
    BY <2>1, SeqsEmpty
<1>2. OfferedTo = Channel!Empty /\ Transit = Channel!Empty /\ SeenBy = Channel!Empty
  BY <1>1 DEF OfferedTo, Transit, SeenBy, Channel!Empty
<1>3. Failed = {} /\ sent = [t \in Tasks |-> 0]
  BY DEF Init, Failed
<1> QED
  BY <1>2, <1>3 DEF Channel!Init

\* Steps in which nothing is offered, moved, read or lost.
LEMMA ChannelStutter ==
  ASSUME BusInv, BusInv', sent' = sent, offered' = offered, received' = received,
         \A t \in Tasks : pc'[t] = "failed" <=> pc[t] = "failed",
         \A u \in Tasks, s \in Subscriptions : Transit'[u][s] = Transit[u][s]
  PROVE  UNCHANGED Channel!vars
<1>1. Transit \in Channels /\ Transit' \in Channels
  BY MapsNow, MapsThen
<1>2. Transit' = Transit
  BY <1>1, SameChannels
<1>3. OfferedTo' = OfferedTo /\ SeenBy' = SeenBy
  BY DEF OfferedTo, SeenBy, SeqsOf, EventsOf
<1>4. Failed' = Failed
  BY DEF Failed
<1> QED
  BY <1>2, <1>3, <1>4 DEF Channel!vars

\* What is queued and who is pending determine what is in transit.
LEMMA TransitSame ==
  ASSUME BusInv, BusInv', sent' = sent, NEW u \in Tasks, NEW s \in Subscriptions,
         Queued(s, u)' = Queued(s, u), u \in Pending(s)' <=> u \in Pending(s)
  PROVE  Transit'[u][s] = Transit[u][s]
<1>1. TransitIs(u, s) /\ TransitIs(u, s)'
  BY MapsNow, MapsThen
<1> QED
  BY <1>1 DEF TransitIs

LEMMA SameOperators ==
  \A w, i : /\ Channel!RemoveAt(w, i) = RemoveAt(w, i)
            /\ Channel!Front(w) = Front(w) /\ Channel!Last(w) = Last(w)
  BY DEF Channel!RemoveAt, RemoveAt, Channel!Front, Front, Channel!Last, Last

LEMMA OneChannel ==
  ASSUME NEW f \in Channels, NEW g \in Channels, NEW p \in Tasks, NEW s \in Subscriptions,
         NEW x \in Seq(Nat), g[p][s] = x,
         \A u \in Tasks, r \in Subscriptions : u # p \/ r # s => g[u][r] = f[u][r]
  PROVE  g = [f EXCEPT ![p][s] = x]
<1> DEFINE h == [f EXCEPT ![p][s] = x]
<1>1. \A u \in Tasks : f[u] \in [Subscriptions -> Seq(Nat)]
  BY DEF Channels
<1>2. [f[p] EXCEPT ![s] = x] \in [Subscriptions -> Seq(Nat)]
  BY <1>1
<1>3. h \in Channels
  BY <1>2 DEF Channels
<1>4. h[p] = [f[p] EXCEPT ![s] = x] /\ \A u \in Tasks : u # p => h[u] = f[u]
  BY DEF Channels
<1>5. \A u \in Tasks, r \in Subscriptions : g[u][r] = h[u][r]
  BY <1>1, <1>4
<1> HIDE DEF h
<1>6. g = h
  BY <1>3, <1>5, SameChannels
<1> QED
  BY <1>6 DEF h

LEMMA OnePublisher ==
  ASSUME NEW f \in Channels, NEW g \in Channels, NEW p \in Tasks,
         NEW x \in [Subscriptions -> Seq(Nat)],
         \A u \in Tasks, r \in Subscriptions : g[u][r] = IF u = p THEN x[r] ELSE f[u][r]
  PROVE  g = [f EXCEPT ![p] = x]
<1> DEFINE h == [f EXCEPT ![p] = x]
<1>1. h \in Channels
  BY DEF Channels
<1>2. h[p] = x /\ \A u \in Tasks : u # p => h[u] = f[u]
  BY DEF Channels
<1>3. \A u \in Tasks, r \in Subscriptions : g[u][r] = h[u][r]
  BY <1>2
<1> HIDE DEF h
<1>4. g = h
  BY <1>1, <1>3, SameChannels
<1> QED
  BY <1>4 DEF h

LEMMA ExtendedIs ==
  ASSUME NEW f \in Channels, NEW g \in Channels, NEW p \in Tasks, NEW A, NEW n \in Nat,
         \A u \in Tasks, r \in Subscriptions :
           g[u][r] = IF u = p /\ r \in A THEN Append(f[u][r], n) ELSE f[u][r]
  PROVE  g = Channel!Extended(f, p, A, n)
<1> DEFINE x == [s \in Subscriptions |-> IF s \in A THEN Append(f[p][s], n) ELSE f[p][s]]
<1>1. \A s \in Subscriptions : f[p][s] \in Seq(Nat)
  BY DEF Channels
<1>2. \A s \in Subscriptions : Append(f[p][s], n) \in Seq(Nat)
  BY <1>1
<1>3. x \in [Subscriptions -> Seq(Nat)]
  BY <1>1, <1>2
<1>4. \A u \in Tasks, r \in Subscriptions : g[u][r] = IF u = p THEN x[r] ELSE f[u][r]
  OBVIOUS
<1> HIDE DEF x
<1>5. g = [f EXCEPT ![p] = x]
  BY <1>3, <1>4, OnePublisher
<1> QED
  BY <1>5, Zenon DEF x, Channel!Extended

LEMMA QueuedThen ==
  ASSUME NEW s, NEW u PROVE Queued(s, u)' = SeqsOf(queue'[s], u)
  BY DEF Queued, SeqsOf, EventsOf

LEMMA FailedSame ==
  ASSUME \A t \in Tasks : pc'[t] = "failed" <=> pc[t] = "failed"
  PROVE  Failed' = Failed
  BY DEF Failed

LEMMA ChannelPublish ==
  ASSUME BusInv, BusInv', NEW t \in Tasks, Publish(t)
  PROVE  Channel!Publish(t)
<1>1. PICK e \in EventsOf(t), w \in Seq(Subscriptions) : Published(t, e, w)
  BY PublishFacts, Zenon
<1>2. /\ e \in Event /\ e.from = t /\ e.seq = sent[t] + 1
      /\ Range(w) \subseteq Subscriptions
      /\ rest[t] = <<>> /\ pc[t] \in {"idle", "handling"}
      /\ rest' = [rest EXCEPT ![t] = w]
      /\ offered' = [s \in Subscriptions |->
           IF s \in Range(w) THEN Append(offered[s], e) ELSE offered[s]]
      /\ pc' = [pc EXCEPT ![t] = "publishing"]
      /\ sent' = [sent EXCEPT ![t] = sent[t] + 1]
      /\ UNCHANGED <<subscriptions, queue, dropped_count, putters, received>>
  BY <1>1, Zenon DEF Published
<1>3. /\ OfferedTo \in Channels /\ Transit \in Channels /\ OfferedTo' \in Channels /\ Transit' \in Channels
      /\ \A u \in Tasks, s \in Subscriptions : TransitIs(u, s) /\ TransitIs(u, s)'
  BY MapsNow, MapsThen
<1>4. /\ pc \in [Tasks -> Steps] /\ sent \in [Tasks -> Nat]
      /\ \A s \in Subscriptions : offered[s] \in Seq(Event)
  BY DEF BusInv, BusTypes, QueueInv
<1>5. pc'[t] = "publishing" /\ \A u \in Tasks : u # t => pc'[u] = pc[u]
  BY <1>2, <1>4
<1>6. Failed' = Failed
  BY <1>2, <1>5, FailedSame
<1>7. t \notin Failed
  BY <1>2 DEF Failed
<1>8. OfferedTo' = Channel!Extended(OfferedTo, t, Range(w), sent[t] + 1)
  <2>1. ASSUME NEW u \in Tasks, NEW s \in Subscriptions
        PROVE  OfferedTo'[u][s] =
                 IF u = t /\ s \in Range(w) THEN Append(OfferedTo[u][s], sent[t] + 1) ELSE OfferedTo[u][s]
    <3>1. OfferedTo[u][s] = SeqsOf(offered[s], u)
      BY DEF OfferedTo
    <3>2. OfferedTo'[u][s] = SeqsOf(offered'[s], u)
      BY DEF OfferedTo, SeqsOf, EventsOf
    <3>3. SeqsOf(Append(offered[s], e), u) =
            IF u = t THEN Append(SeqsOf(offered[s], u), sent[t] + 1) ELSE SeqsOf(offered[s], u)
      <4>1. PICK o \in Seq(Event) : o = offered[s]
        BY <1>4
      <4>2. SeqsOf(Append(o, e), u) = IF e.from = u THEN Append(SeqsOf(o, u), e.seq) ELSE SeqsOf(o, u)
        BY <1>2, SeqsAppend
      <4> QED
        BY <1>2, <4>1, <4>2
    <3>4. offered'[s] = IF s \in Range(w) THEN Append(offered[s], e) ELSE offered[s]
      BY <1>2
    <3> QED
      BY <3>1, <3>2, <3>3, <3>4
  <2> QED
    BY <1>3, <1>4, <2>1, ExtendedIs
<1>9. Transit' = Channel!Extended(Transit, t, Range(w), sent[t] + 1)
  <2>1. ASSUME NEW u \in Tasks, NEW s \in Subscriptions
        PROVE  Transit'[u][s] =
                 IF u = t /\ s \in Range(w) THEN Append(Transit[u][s], sent[t] + 1) ELSE Transit[u][s]
    <3>1. t \notin Pending(s) /\ Pending(s)' = IF s \in Range(w) THEN Pending(s) \cup {t} ELSE Pending(s)
      BY <1>2, PendingPublish
    <3>2. Queued(s, u)' = Queued(s, u)
      BY <1>2, QueuedThen DEF Queued
    <3>3. sent'[t] = sent[t] + 1 /\ (u # t => sent'[u] = sent[u])
      BY <1>2, <1>4
    <3>4. TransitIs(u, s) /\ TransitIs(u, s)'
      BY <1>3
    <3>5. Transit'[u][s] = IF u \in Pending(s)' THEN Append(Queued(s, u)', sent'[u]) ELSE Queued(s, u)'
      BY <3>4 DEF TransitIs
    <3>6. Transit[u][s] = IF u \in Pending(s) THEN Append(Queued(s, u), sent[u]) ELSE Queued(s, u)
      BY <3>4 DEF TransitIs
    <3> QED
      BY <3>1, <3>2, <3>3, <3>5, <3>6
  <2> QED
    BY <1>3, <1>4, <2>1, ExtendedIs
<1>10. SeenBy' = SeenBy
  BY <1>2 DEF SeenBy, SeqsOf, EventsOf
<1>11. Range(w) \in SUBSET Subscriptions
  BY <1>2
<1> QED
  BY <1>2, <1>6, <1>7, <1>8, <1>9, <1>10, <1>11, Zenon DEF Channel!Publish

\* A task that serves a subscription with a place puts its event there.
LEMMA ChannelPut ==
  ASSUME BusInv, BusInv', NEW t \in Tasks, NEW s \in Subscriptions, Put(t, s)
  PROVE  UNCHANGED Channel!vars
<1>1. /\ Serving(t, s) /\ Served(t) /\ pc' = pc /\ sent' = sent /\ offered' = offered
      /\ received' = received /\ queue' = [queue EXCEPT ![s] = Append(queue[s], event[t])]
  BY DEF Put, Enqueue, books
<1>2. /\ t \in Pending(s) /\ Pending(s)' = Pending(s) \ {t}
      /\ \A r \in Subscriptions : r # s => Pending(r)' = Pending(r)
  BY <1>1, PendingServed
<1>3. event[t] \in Event /\ event[t].from = t /\ event[t].seq = sent[t]
  BY <1>1, ServingFacts
<1>4. queue \in [Subscriptions -> Seq(Event)]
  BY DEF BusInv, BusTypes, QueueInv
<1>5. ASSUME NEW u \in Tasks, NEW r \in Subscriptions PROVE Transit'[u][r] = Transit[u][r]
  <2>1. CASE r # s
    <3>1. Queued(r, u)' = Queued(r, u)
      BY <1>1, <1>4, <2>1, QueuedThen DEF Queued
    <3> QED
      BY <1>1, <1>2, <2>1, <3>1, TransitSame
  <2>2. CASE r = s
    <3>1. SeqsOf(Append(queue[s], event[t]), u) =
            IF event[t].from = u THEN Append(SeqsOf(queue[s], u), event[t].seq) ELSE SeqsOf(queue[s], u)
      BY <1>3, <1>4, SeqsAppend
    <3>2. Queued(s, u)' = IF u = t THEN Append(Queued(s, u), sent[t]) ELSE Queued(s, u)
      BY <1>1, <1>3, <1>4, <3>1, QueuedThen DEF Queued
    <3>3. TransitIs(u, s) /\ TransitIs(u, s)'
      BY MapsNow, MapsThen
    <3>4. Transit'[u][s] = IF u \in Pending(s)' THEN Append(Queued(s, u)', sent'[u]) ELSE Queued(s, u)'
      BY <3>3 DEF TransitIs
    <3>5. Transit[u][s] = IF u \in Pending(s) THEN Append(Queued(s, u), sent[u]) ELSE Queued(s, u)
      BY <3>3 DEF TransitIs
    <3> QED
      BY <1>1, <1>2, <2>2, <3>2, <3>4, <3>5
  <2> QED
    BY <2>1, <2>2
<1> QED
  BY <1>1, <1>5, ChannelStutter

\* A full drop_newest queue loses the last event of the publisher.
LEMMA ChannelDropNewest ==
  ASSUME BusInv, BusInv', NEW t \in Tasks, NEW s \in Subscriptions, DropNewest(t, s)
  PROVE  Channel!Lose(t, s)
<1>1. /\ Serving(t, s) /\ Served(t) /\ pc' = pc /\ sent' = sent /\ offered' = offered
      /\ received' = received /\ queue' = queue /\ MaxSize[s] > 0 /\ Policy[s] = "drop_newest"
  BY DEF DropNewest, Full, books
<1>2. /\ t \in Pending(s) /\ Pending(s)' = Pending(s) \ {t}
      /\ \A r \in Subscriptions : r # s => Pending(r)' = Pending(r)
  BY <1>1, PendingServed
<1>3. \A u \in Tasks, r \in Subscriptions : Queued(r, u)' = Queued(r, u)
  BY <1>1, QueuedThen DEF Queued
<1>4. /\ Transit \in Channels /\ Transit' \in Channels
      /\ TransitIs(t, s) /\ TransitIs(t, s)' /\ sent[t] \in Nat
  BY MapsNow, MapsThen DEF BusInv, BusTypes, QueueInv
<1> DEFINE q == Queued(s, t)
           w == Transit[t][s]
<1>5. q \in Seq(Nat) /\ w = Append(q, sent[t]) /\ Transit'[t][s] = q
  BY <1>2, <1>3, <1>4 DEF TransitIs
<1>6. Len(w) \in DOMAIN w /\ RemoveAt(w, Len(w)) = q
  BY <1>4, <1>5, AppendedNumber
<1>7. ASSUME NEW u \in Tasks, NEW r \in Subscriptions, u # t \/ r # s PROVE Transit'[u][r] = Transit[u][r]
  <2>1. u \in Pending(r)' <=> u \in Pending(r)
    BY <1>2, <1>7
  <2> QED
    BY <1>1, <1>3, <2>1, TransitSame
<1>8. Transit' = [Transit EXCEPT ![t][s] = q]
  BY <1>4, <1>5, <1>7, OneChannel
<1>9. OfferedTo' = OfferedTo /\ SeenBy' = SeenBy /\ Failed' = Failed
  BY <1>1 DEF OfferedTo, SeenBy, Failed, SeqsOf, EventsOf
<1>10. s \notin Lossless
  BY <1>1 DEF Lossless
<1>11. /\ Len(w) \in DOMAIN Transit[t][s]
       /\ Transit' = [Transit EXCEPT ![t][s] = Channel!RemoveAt(Transit[t][s], Len(w))]
  BY <1>6, <1>8, SameOperators
<1> HIDE DEF w
<1> QED
  BY <1>1, <1>9, <1>10, <1>11, Zenon DEF Channel!Lose

\* What is in transit to s from u without the head of the queue of s.
Behind(s, u) ==
  IF u \in Pending(s) THEN Append(SeqsOf(Tail(queue[s]), u), sent[u]) ELSE SeqsOf(Tail(queue[s]), u)

\* The head of a queue is the first number in transit of the task it came from.
\* Without it, what is in transit from that task is the rest, and from the others
\* what it was.
LEMMA HeadLeaves ==
  ASSUME BusInv, NEW s \in Subscriptions, queue[s] # <<>>, NEW u \in Tasks
  PROVE  /\ Head(queue[s]).from = u => /\ Transit[u][s] # <<>> /\ Behind(s, u) = Tail(Transit[u][s])
                                       /\ Head(Transit[u][s]) = Head(queue[s]).seq
         /\ Head(queue[s]).from # u => Behind(s, u) = Transit[u][s]
<1>1. TransitIs(u, s) /\ sent[u] \in Nat /\ queue[s] \in Seq(Event)
  BY MapsNow DEF BusInv, BusTypes, QueueInv
<1> DEFINE q == Queued(s, u)
           r == SeqsOf(Tail(queue[s]), u)
           w == Transit[u][s]
           h == Head(queue[s])
           y == Behind(s, u)
<1>2. /\ h.from = u => q # <<>> /\ Head(q) = h.seq /\ r = Tail(q)
      /\ h.from # u => r = q
  BY <1>1, SeqsHead DEF Queued
<1>3. q \in Seq(Nat) /\ w = IF u \in Pending(s) THEN Append(q, sent[u]) ELSE q
  BY <1>1 DEF TransitIs
<1>4. y = IF u \in Pending(s) THEN Append(r, sent[u]) ELSE r
  BY DEF Behind
<1> HIDE DEF q, r, w, h, y
<1>5. ASSUME h.from = u
      PROVE  w # <<>> /\ Head(w) = h.seq /\ y = Tail(w)
  <2>1. CASE u \notin Pending(s)
    BY <1>2, <1>3, <1>4, <1>5, <2>1
  <2>2. CASE u \in Pending(s)
    <3>1. w = Append(q, sent[u]) /\ q # <<>> /\ y = Append(Tail(q), sent[u]) /\ Head(q) = h.seq
      BY <1>2, <1>3, <1>4, <1>5, <2>2
    <3>2. w # <<>> /\ Tail(w) = Append(Tail(q), sent[u])
      BY <1>1, <1>3, <3>1, AppendedNumber
    <3>3. Head(Append(q, sent[u])) = Head(q)
      BY <1>1, <1>3, <3>1
    <3> QED
      BY <3>1, <3>2, <3>3
  <2> QED
    BY <2>1, <2>2
<1>6. ASSUME h.from # u PROVE y = w
  BY <1>2, <1>3, <1>4, <1>6
<1> QED
  BY <1>5, <1>6 DEF h, w, y

\* A full drop_oldest queue loses the event at its head.
LEMMA ChannelDropOldest ==
  ASSUME BusInv, BusInv', NEW t \in Tasks, NEW s \in Subscriptions, DropOldest(t, s)
  PROVE  \E p \in Tasks : Channel!Lose(p, s)
<1>1. /\ Serving(t, s) /\ Served(t) /\ pc' = pc /\ sent' = sent /\ offered' = offered
      /\ received' = received /\ queue' = [queue EXCEPT ![s] = Append(Tail(queue[s]), event[t])]
      /\ MaxSize[s] > 0 /\ Len(queue[s]) >= MaxSize[s] /\ Policy[s] = "drop_oldest"
  BY DEF DropOldest, Full, books
<1>2. /\ t \in Pending(s) /\ Pending(s)' = Pending(s) \ {t}
      /\ \A r \in Subscriptions : r # s => Pending(r)' = Pending(r)
  BY <1>1, PendingServed
<1>3. event[t] \in Event /\ event[t].from = t /\ event[t].seq = sent[t]
  BY <1>1, ServingFacts
<1>4. queue \in [Subscriptions -> Seq(Event)] /\ MaxSize[s] \in Nat
  BY BusAssumption DEF BusInv, BusTypes, QueueInv
<1>5. queue[s] # <<>>
  BY <1>1, <1>4
<1>6. /\ queue[s] \in Seq(Event) /\ Tail(queue[s]) \in Seq(Event) /\ Head(queue[s]) \in Event
      /\ queue'[s] = Append(Tail(queue[s]), event[t])
      /\ \A r \in Subscriptions : r # s => queue'[r] = queue[r]
  BY <1>1, <1>4, <1>5, HeadTailProperties
<1> DEFINE p == Head(queue[s]).from
           w == Transit[p][s]
<1>7. p \in Tasks
  BY <1>6 DEF Event
<1>8. Transit \in Channels /\ Transit' \in Channels
  BY MapsNow, MapsThen
<1>9. ASSUME NEW u \in Tasks
      PROVE  /\ p = u => Transit[u][s] # <<>> /\ Transit'[u][s] = Tail(Transit[u][s])
             /\ p # u => Transit'[u][s] = Transit[u][s]
  <2>1. SeqsOf(Append(Tail(queue[s]), event[t]), u) =
          IF event[t].from = u THEN Append(SeqsOf(Tail(queue[s]), u), event[t].seq)
          ELSE SeqsOf(Tail(queue[s]), u)
    <3>1. PICK o \in Seq(Event) : o = Tail(queue[s])
      BY <1>6
    <3> QED
      BY <1>3, <3>1, SeqsAppend
  <2>2. Queued(s, u)' = IF u = t THEN Append(SeqsOf(Tail(queue[s]), u), sent[t])
                        ELSE SeqsOf(Tail(queue[s]), u)
    BY <1>3, <1>6, <2>1, QueuedThen
  <2>3. TransitIs(u, s)'
    BY MapsThen
  <2>4. Transit'[u][s] = IF u \in Pending(s)' THEN Append(Queued(s, u)', sent'[u]) ELSE Queued(s, u)'
    BY <2>3 DEF TransitIs
  <2>5. Transit'[u][s] = Behind(s, u)
    BY <1>1, <1>2, <2>2, <2>4 DEF Behind
  <2> QED
    BY <1>5, <2>5, HeadLeaves
<1>10. ASSUME NEW u \in Tasks, NEW r \in Subscriptions, u # p \/ r # s
       PROVE  Transit'[u][r] = Transit[u][r]
  <2>1. CASE r = s
    BY <1>9, <1>10, <2>1
  <2>2. CASE r # s
    <3>1. Queued(r, u)' = Queued(r, u)
      BY <1>6, <2>2, QueuedThen DEF Queued
    <3> QED
      BY <1>1, <1>2, <2>2, <3>1, TransitSame
  <2> QED
    BY <2>1, <2>2
<1>11. w \in Seq(Nat) /\ w # <<>> /\ Transit'[p][s] = Tail(w)
  BY <1>7, <1>8, <1>9 DEF Channels
<1> HIDE DEF p
<1>12. PICK x \in Seq(Nat) : x = Tail(w)
  BY <1>11, HeadTailProperties
<1>13. Transit' = [Transit EXCEPT ![p][s] = x]
  <2>1. Transit'[p][s] = x
    BY <1>11, <1>12
  <2>2. \A u \in Tasks, r \in Subscriptions : u # p \/ r # s => Transit'[u][r] = Transit[u][r]
    BY <1>10
  <2> QED
    BY <1>7, <1>8, <2>1, <2>2, OneChannel
<1>14. 1 \in DOMAIN w /\ RemoveAt(w, 1) = Tail(w)
  BY <1>11, RemovedHead
<1>15. 1 \in DOMAIN Transit[p][s] /\ Transit' = [Transit EXCEPT ![p][s] = Channel!RemoveAt(Transit[p][s], 1)]
  BY <1>12, <1>13, <1>14, SameOperators
<1>16. OfferedTo' = OfferedTo /\ SeenBy' = SeenBy /\ Failed' = Failed
  BY <1>1 DEF OfferedTo, SeenBy, Failed, SeqsOf, EventsOf
<1>17. s \notin Lossless
  BY <1>1, <1>4 DEF Lossless
<1> HIDE DEF w
<1> QED
  BY <1>1, <1>7, <1>15, <1>16, <1>17, Zenon DEF Channel!Lose

\* Reading takes the first number in transit of the task the event came from.
LEMMA ChannelGet ==
  ASSUME BusInv, BusInv', NEW s \in Subscriptions, Get(s)
  PROVE  \E p \in Tasks : Channel!Receive(p, s)
<1>1. /\ queue[s] \in Seq(Event) /\ queue[s] # <<>>
      /\ received' = [received EXCEPT ![s] = Append(received[s], Head(queue[s]))]
      /\ queue' = [queue EXCEPT ![s] = Tail(queue[s])]
      /\ rest' = rest /\ sent' = sent /\ offered' = offered
  BY GetFacts
<1>2. \A u \in Tasks : pc'[u] = "failed" <=> pc[u] = "failed"
  BY GetFacts DEF PuttersInv, BusInv, Get
<1>3. /\ queue \in [Subscriptions -> Seq(Event)] /\ received \in [Subscriptions -> Seq(Event)]
      /\ received[s] \in Seq(Event)
  BY DEF BusInv, BusTypes, QueueInv
<1> DEFINE e == Head(queue[s])
           p == e.from
<1>4. /\ e \in Event /\ queue'[s] = Tail(queue[s]) /\ received'[s] = Append(received[s], e)
      /\ \A r \in Subscriptions : r # s => queue'[r] = queue[r] /\ received'[r] = received[r]
  BY <1>1, <1>3, HeadTailProperties
<1>5. p \in Tasks /\ e.seq \in Nat
  BY <1>4 DEF Event
<1>6. Transit \in Channels /\ Transit' \in Channels /\ SeenBy \in Channels /\ SeenBy' \in Channels
  BY MapsNow, MapsThen
<1>7. \A r \in Subscriptions : Pending(r)' = Pending(r)
  BY <1>1 DEF Pending
<1>8. ASSUME NEW u \in Tasks
      PROVE  /\ p = u => /\ Transit[u][s] # <<>> /\ Transit'[u][s] = Tail(Transit[u][s])
                         /\ Head(Transit[u][s]) = e.seq
             /\ p # u => Transit'[u][s] = Transit[u][s]
  <2>1. TransitIs(u, s)'
    BY MapsThen
  <2>2. Transit'[u][s] = IF u \in Pending(s)' THEN Append(Queued(s, u)', sent'[u]) ELSE Queued(s, u)'
    BY <2>1 DEF TransitIs
  <2>3. Queued(s, u)' = SeqsOf(Tail(queue[s]), u)
    BY <1>4, QueuedThen
  <2>4. Transit'[u][s] = Behind(s, u)
    BY <1>1, <1>7, <2>2, <2>3 DEF Behind
  <2> QED
    BY <1>1, <2>4, HeadLeaves
<1>9. ASSUME NEW u \in Tasks, NEW r \in Subscriptions, u # p \/ r # s
      PROVE  Transit'[u][r] = Transit[u][r] /\ SeenBy'[u][r] = SeenBy[u][r]
  <2>1. SeenBy[u][r] = SeqsOf(received[r], u)
    BY DEF SeenBy
  <2>2. SeenBy'[u][r] = SeqsOf(received'[r], u)
    BY DEF SeenBy, SeqsOf, EventsOf
  <2>3. CASE r = s
    <3>1. SeqsOf(Append(received[s], e), u) =
            IF e.from = u THEN Append(SeqsOf(received[s], u), e.seq) ELSE SeqsOf(received[s], u)
      BY <1>3, <1>4, SeqsAppend
    <3> QED
      BY <1>4, <1>8, <1>9, <2>1, <2>2, <2>3, <3>1
  <2>4. CASE r # s
    <3>1. Queued(r, u)' = Queued(r, u)
      BY <1>4, <2>4, QueuedThen DEF Queued
    <3> QED
      BY <1>1, <1>4, <1>7, <2>1, <2>2, <2>4, <3>1, TransitSame
  <2> QED
    BY <2>3, <2>4
<1>10. /\ Transit[p][s] \in Seq(Nat) /\ Transit[p][s] # <<>> /\ SeenBy[p][s] \in Seq(Nat)
       /\ Transit'[p][s] = Tail(Transit[p][s]) /\ Head(Transit[p][s]) = e.seq
  BY <1>5, <1>6, <1>8 DEF Channels
<1>11. SeenBy'[p][s] = Append(SeenBy[p][s], e.seq)
  <2>1. SeqsOf(Append(received[s], e), p) =
          IF e.from = p THEN Append(SeqsOf(received[s], p), e.seq) ELSE SeqsOf(received[s], p)
    BY <1>3, <1>4, SeqsAppend
  <2>2. SeenBy[p][s] = SeqsOf(received[s], p)
    BY <1>5 DEF SeenBy
  <2>3. SeenBy'[p][s] = SeqsOf(received'[s], p)
    BY <1>5 DEF SeenBy, SeqsOf, EventsOf
  <2> QED
    BY <1>4, <2>1, <2>2, <2>3
<1> HIDE DEF e, p
<1>12. PICK x \in Seq(Nat), y \in Seq(Nat) :
         x = Tail(Transit[p][s]) /\ y = Append(SeenBy[p][s], Head(Transit[p][s]))
  BY <1>5, <1>10, HeadTailProperties, AppendProperties
<1>13. Transit' = [Transit EXCEPT ![p][s] = x]
  <2>1. Transit'[p][s] = x
    BY <1>10, <1>12
  <2>2. \A u \in Tasks, r \in Subscriptions : u # p \/ r # s => Transit'[u][r] = Transit[u][r]
    BY <1>9
  <2> QED
    BY <1>5, <1>6, <2>1, <2>2, OneChannel
<1>14. SeenBy' = [SeenBy EXCEPT ![p][s] = y]
  <2>1. SeenBy'[p][s] = y
    BY <1>10, <1>11, <1>12
  <2>2. \A u \in Tasks, r \in Subscriptions : u # p \/ r # s => SeenBy'[u][r] = SeenBy[u][r]
    BY <1>9
  <2> QED
    BY <1>5, <1>6, <2>1, <2>2, OneChannel
<1>15. OfferedTo' = OfferedTo
  BY <1>1 DEF OfferedTo, SeqsOf, EventsOf
<1>16. Failed' = Failed
  BY <1>2, FailedSame
<1> QED
  BY <1>1, <1>5, <1>10, <1>12, <1>13, <1>14, <1>15, <1>16, Zenon DEF Channel!Receive

\* QueueFull takes the event back from the subscriptions it has not reached.
LEMMA ChannelRaise ==
  ASSUME BusInv, BusInv', NEW t \in Tasks, NEW s \in Subscriptions, Raise(t, s)
  PROVE  Channel!Fail(t)
<1>1. /\ pc[t] = "publishing" /\ pc' = [pc EXCEPT ![t] = "failed"]
      /\ rest' = [rest EXCEPT ![t] = <<>>] /\ queue' = queue
      /\ sent' = sent /\ offered' = offered /\ received' = received
  BY DEF Raise, Serving, books
<1>2. pc \in [Tasks -> Steps] /\ rest \in [Tasks -> Seq(Subscriptions)] /\ sent[t] \in Nat
  BY DEF BusInv, BusTypes, QueueInv
<1>3. t \notin Failed /\ Failed' = Failed \union {t}
  BY <1>1, <1>2 DEF Failed
<1>4. /\ rest'[t] = <<>> /\ \A u \in Tasks : u # t => rest'[u] = rest[u]
  BY <1>1, <1>2
<1>5. ASSUME NEW r \in Subscriptions PROVE Pending(r)' = Pending(r) \ {t}
  BY <1>4, RangeEmpty DEF Pending
<1>6. Transit \in Channels /\ Transit' \in Channels
  BY MapsNow, MapsThen
<1> DEFINE unreached == {r \in Subscriptions : t \in Pending(r)}
           x == [r \in Subscriptions |-> IF r \in unreached THEN Channel!Front(Transit[t][r])
                                         ELSE Transit[t][r]]
<1>7. ASSUME NEW r \in Subscriptions
      PROVE  /\ Transit'[t][r] = x[r]
             /\ r \in unreached => Transit[t][r] # <<>> /\ Channel!Last(Transit[t][r]) = sent[t]
  <2>1. TransitIs(t, r) /\ TransitIs(t, r)'
    BY MapsNow, MapsThen
  <2>2. Queued(r, t)' = Queued(r, t)
    BY <1>1, QueuedThen DEF Queued
  <2>3. Transit'[t][r] = IF t \in Pending(r)' THEN Append(Queued(r, t)', sent'[t]) ELSE Queued(r, t)'
    BY <2>1 DEF TransitIs
  <2>4. Transit'[t][r] = Queued(r, t)
    BY <1>5, <2>2, <2>3
  <2>5. /\ Queued(r, t) \in Seq(Nat)
        /\ Transit[t][r] = IF t \in Pending(r) THEN Append(Queued(r, t), sent[t]) ELSE Queued(r, t)
    BY <2>1 DEF TransitIs
  <2>6. PICK q \in Seq(Nat), n \in Nat : q = Queued(r, t) /\ n = sent[t]
    BY <1>2, <2>5
  <2>7. Append(q, n) # <<>> /\ Channel!Last(Append(q, n)) = n /\ Channel!Front(Append(q, n)) = q
    BY AppendedNumber, SameOperators
  <2>8. x[r] = IF t \in Pending(r) THEN Channel!Front(Transit[t][r]) ELSE Transit[t][r]
    OBVIOUS
  <2> HIDE DEF x
  <2>9. CASE t \in Pending(r)
    BY <2>4, <2>5, <2>6, <2>7, <2>8, <2>9
  <2>10. CASE t \notin Pending(r)
    BY <2>4, <2>5, <2>8, <2>10
  <2> QED
    BY <2>9, <2>10
<1>8. ASSUME NEW u \in Tasks, NEW r \in Subscriptions, u # t
      PROVE  Transit'[u][r] = Transit[u][r]
  <2>1. Queued(r, u)' = Queued(r, u)
    BY <1>1, QueuedThen DEF Queued
  <2>2. u \in Pending(r)' <=> u \in Pending(r)
    BY <1>5, <1>8
  <2> QED
    BY <1>1, <2>1, <2>2, TransitSame
<1>9. unreached \in SUBSET {r \in Subscriptions : Transit[t][r] # <<>> /\ Channel!Last(Transit[t][r]) = sent[t]}
  BY <1>7
<1>10. x \in [Subscriptions -> Seq(Nat)]
  <2>1. x = [r \in Subscriptions |-> x[r]]
    OBVIOUS
  <2>2. \A r \in Subscriptions : Transit'[t][r] \in Seq(Nat) /\ Transit'[t][r] = x[r]
    BY <1>6, <1>7 DEF Channels
  <2> HIDE DEF x
  <2> QED
    BY <2>1, <2>2
<1>11. PICK y \in [Subscriptions -> Seq(Nat)] : y = x
  BY <1>10
<1>12. Transit' = [Transit EXCEPT ![t] = y]
  <2>1. \A u \in Tasks, r \in Subscriptions : Transit'[u][r] = IF u = t THEN y[r] ELSE Transit[u][r]
    BY <1>7, <1>8, <1>11
  <2> QED
    BY <1>6, <2>1, OnePublisher
<1>13. OfferedTo' = OfferedTo /\ SeenBy' = SeenBy
  BY <1>1 DEF OfferedTo, SeenBy, SeqsOf, EventsOf
<1>14. Transit' = [Transit EXCEPT ![t] =
         [r \in Subscriptions |-> IF r \in unreached THEN Channel!Front(Transit[t][r]) ELSE Transit[t][r]]]
  BY <1>11, <1>12
<1> HIDE DEF unreached, x
<1> QED
  BY <1>1, <1>3, <1>9, <1>13, <1>14, Zenon DEF Channel!Fail

\* Waiting, resuming, returning, handling and subscribing move no event.
LEMMA ChannelQuiet ==
  ASSUME BusInv, BusInv',
         queue' = queue, rest' = rest, sent' = sent, offered' = offered, received' = received,
         \A t \in Tasks : pc'[t] = "failed" <=> pc[t] = "failed"
  PROVE  UNCHANGED Channel!vars
<1>1. ASSUME NEW u \in Tasks, NEW s \in Subscriptions PROVE Transit'[u][s] = Transit[u][s]
  <2>1. Queued(s, u)' = Queued(s, u)
    BY QueuedThen DEF Queued
  <2>2. u \in Pending(s)' <=> u \in Pending(s)
    BY DEF Pending
  <2> QED
    BY <2>1, <2>2, TransitSame
<1> QED
  BY <1>1, ChannelStutter

LEMMA ChannelWait ==
  ASSUME BusInv, BusInv', NEW t \in Tasks, NEW s \in Subscriptions, Wait(t, s)
  PROVE  UNCHANGED Channel!vars
<1>1. /\ pc[t] = "publishing" /\ pc' = [pc EXCEPT ![t] = "waiting"] /\ queue' = queue
      /\ rest' = rest /\ sent' = sent /\ offered' = offered /\ received' = received
  BY DEF Wait, Serving, books
<1>2. \A u \in Tasks : pc'[u] = "failed" <=> pc[u] = "failed"
  BY <1>1 DEF BusInv, BusTypes, QueueInv
<1> QED
  BY <1>1, <1>2, ChannelQuiet

\* Every step of the bus is a step of the channel or leaves it alone.
LEMMA ChannelStep ==
  BusInv /\ BusInv' /\ [Next]_vars => [Channel!Next]_(Channel!vars)
<1> SUFFICES ASSUME BusInv, BusInv', [Next]_vars PROVE Channel!Next \/ UNCHANGED Channel!vars
  BY DEF Channel!vars
<1>1. CASE Quiet
  BY <1>1, ChannelQuiet DEF Quiet, books
<1>2. ASSUME NEW t \in Tasks, Publish(t) PROVE Channel!Next
  BY <1>2, ChannelPublish, Zenon DEF Channel!Next
<1>3. ASSUME NEW t \in Tasks, NEW s \in Subscriptions, Deliver(t, s)
      PROVE  Channel!Next \/ UNCHANGED Channel!vars
  <2>1. CASE Put(t, s)
    BY <2>1, ChannelPut
  <2>2. CASE Wait(t, s)
    BY <2>2, ChannelWait
  <2>3. CASE DropNewest(t, s)
    BY <2>3, ChannelDropNewest, Zenon DEF Channel!Next
  <2>4. CASE DropOldest(t, s)
    BY <2>4, ChannelDropOldest, Zenon DEF Channel!Next
  <2>5. CASE Raise(t, s)
    BY <2>5, ChannelRaise, Zenon DEF Channel!Next
  <2> QED
    BY <1>3, <2>1, <2>2, <2>3, <2>4, <2>5 DEF Deliver
<1>4. ASSUME NEW s \in Subscriptions, Get(s) PROVE Channel!Next
  BY <1>4, ChannelGet, Zenon DEF Channel!Next
<1> QED
  BY <1>1, <1>2, <1>3, <1>4, StepKinds

\* The bus keeps the promise of EventChannel: per publisher and subscription, events
\* arrive in order and once, and only what a policy allows is lost (bus.py:70-107).
THEOREM BusImplementsChannel == Spec => ImplementsChannel
  BY ChannelInit, ChannelStep, BusInvariance, PTL DEF Spec, ImplementsChannel, Channel!Spec

-----------------------------------------------------------------------------
(* What the channel promises.  Both invariants speak of its Delivery, the   *)
(* events a subscriber has seen followed by those on their way to it:       *)
(* publishing appends to it, receiving leaves it as it is, and losing or    *)
(* withdrawing an event takes one out.                                      *)

\* Reading the head of what is on its way leaves the delivery as it is.
LEMMA ReadingKeeps ==
  ASSUME NEW a \in Seq(Nat), NEW t \in Seq(Nat), t # <<>>
  PROVE  /\ Append(a, Head(t)) \in Seq(Nat)
         /\ Tail(t) \in Seq(Nat)
         /\ Append(a, Head(t)) \o Tail(t) = a \o t
  BY SMTT(30)

\* An event appended to what is on its way is appended to the delivery.
LEMMA AppendingExtends ==
  ASSUME NEW a \in Seq(Nat), NEW t \in Seq(Nat), NEW n \in Nat
  PROVE  /\ Append(t, n) \in Seq(Nat)
         /\ a \o Append(t, n) = Append(a \o t, n)
  OBVIOUS

\* The sequences a subscriber may get from a publisher that has sent m events.
Bounded(w, m) == \A i \in 1..Len(w) : w[i] <= m

LEMMA AppendingOrdered ==
  ASSUME NEW w \in Seq(Nat), NEW m \in Nat, Channel!Increasing(w), Bounded(w, m)
  PROVE  /\ Channel!Increasing(Append(w, m + 1))
         /\ Bounded(Append(w, m + 1), m + 1)
  BY DEF Channel!Increasing, Bounded

\* Taking one event out of what is on its way keeps the rest in order.
LEMMA RemovingOrdered ==
  ASSUME NEW a \in Seq(Nat), NEW t \in Seq(Nat), NEW i \in 1..Len(t), NEW m \in Nat,
         Channel!Increasing(a \o t), Bounded(a \o t, m)
  PROVE  LET r == SubSeq(t, 1, i - 1) \o SubSeq(t, i + 1, Len(t))
         IN /\ r \in Seq(Nat)
            /\ Channel!Increasing(a \o r)
            /\ Bounded(a \o r, m)
<1> DEFINE w == a \o t
           first == SubSeq(t, 1, i - 1)
           second == SubSeq(t, i + 1, Len(t))
           r == first \o second
           v == a \o r
           from(k) == IF k < Len(a) + i THEN k ELSE k + 1
<1>0. Len(a) \in Nat /\ Len(t) \in Nat /\ i \in Nat \ {0} /\ i <= Len(t)
  OBVIOUS
<1>1. /\ first \in Seq(Nat) /\ Len(first) = i - 1
      /\ \A k \in 1..(i - 1) : first[k] = t[k]
  <2>1. \A k \in 1..(i - 1) : t[k] \in Nat
    BY <1>0, ElementOfSeq
  <2>2. i - 1 \in Int /\ 1 \in Int
    BY <1>0
  <2>3. /\ first \in Seq(Nat)
        /\ Len(first) = IF 1 <= i - 1 THEN (i - 1) - 1 + 1 ELSE 0
        /\ \A k \in 1..((i - 1) - 1 + 1) : first[k] = t[1 + k - 1]
    BY <2>1, <2>2, SubSeqProperties
  <2> HIDE DEF first
  <2>4. (i - 1) - 1 + 1 = i - 1
    BY <1>0
  <2>5. Len(first) = i - 1
    BY <2>3, <1>0
  <2>6. ASSUME NEW k \in 1..(i - 1) PROVE first[k] = t[k]
    <3>1. first[k] = t[1 + k - 1]
      BY <2>3, <2>4
    <3>2. 1 + k - 1 = k
      OBVIOUS
    <3> QED
      BY <3>1, <3>2
  <2> QED
    BY <2>3, <2>5, <2>6
<1>2. /\ second \in Seq(Nat) /\ Len(second) = Len(t) - i
      /\ \A k \in 1..(Len(t) - i) : second[k] = t[k + i]
  <2>1. \A k \in (i + 1)..Len(t) : t[k] \in Nat
    BY <1>0, ElementOfSeq
  <2>2. i + 1 \in Int /\ Len(t) \in Int
    BY <1>0
  <2>3. /\ second \in Seq(Nat)
        /\ Len(second) = IF i + 1 <= Len(t) THEN Len(t) - (i + 1) + 1 ELSE 0
        /\ \A k \in 1..(Len(t) - (i + 1) + 1) : second[k] = t[(i + 1) + k - 1]
    BY <2>1, <2>2, SubSeqProperties
  <2> HIDE DEF second
  <2>4. Len(t) - (i + 1) + 1 = Len(t) - i
    BY <1>0
  <2>5. Len(second) = Len(t) - i
    BY <2>3, <1>0
  <2>6. ASSUME NEW k \in 1..(Len(t) - i) PROVE second[k] = t[k + i]
    <3>1. second[k] = t[(i + 1) + k - 1]
      BY <2>3, <2>4
    <3>2. (i + 1) + k - 1 = k + i
      BY <1>0
    <3> QED
      BY <3>1, <3>2
  <2> QED
    BY <2>3, <2>5, <2>6
<1> HIDE DEF first, second
<1>3. /\ r \in Seq(Nat) /\ Len(r) = Len(t) - 1
      /\ \A k \in 1..Len(r) : r[k] = IF k < i THEN t[k] ELSE t[k + 1]
  <2>1. /\ r \in Seq(Nat) /\ Len(r) = Len(first) + Len(second)
        /\ \A k \in 1..(Len(first) + Len(second)) :
             r[k] = IF k <= Len(first) THEN first[k] ELSE second[k - Len(first)]
    BY <1>1, <1>2, ConcatProperties
  <2> HIDE DEF r
  <2>2. Len(r) = Len(t) - 1
    BY <2>1, <1>0, <1>1, <1>2
  <2>3. ASSUME NEW k \in 1..Len(r), k < i PROVE r[k] = t[k]
    BY <2>1, <2>2, <2>3, <1>0, <1>1, <1>2
  <2>4. ASSUME NEW k \in 1..Len(r), ~(k < i) PROVE r[k] = t[k + 1]
    <3>1. k - (i - 1) \in 1..(Len(t) - i) /\ (k - (i - 1)) + i = k + 1
      BY <2>2, <2>4, <1>0
    <3>2. r[k] = second[k - (i - 1)]
      BY <2>1, <2>2, <2>4, <1>0, <1>1, <1>2
    <3> QED
      BY <3>1, <3>2, <1>2
  <2> QED
    BY <2>1, <2>2, <2>3, <2>4
<1> HIDE DEF r
<1>4. /\ v \in Seq(Nat) /\ w \in Seq(Nat)
      /\ Len(w) = Len(a) + Len(t) /\ Len(v) = Len(a) + Len(r)
      /\ \A k \in 1..(Len(a) + Len(r)) : v[k] = IF k <= Len(a) THEN a[k] ELSE r[k - Len(a)]
      /\ \A k \in 1..(Len(a) + Len(t)) : w[k] = IF k <= Len(a) THEN a[k] ELSE t[k - Len(a)]
  BY <1>3, ConcatProperties
<1>5. Channel!Increasing(w) /\ Bounded(w, m)
  OBVIOUS
<1> HIDE DEF v, w
<1>6. \A k \in 1..Len(v) : from(k) \in 1..Len(w) /\ v[k] = w[from(k)]
  <2> TAKE k \in 1..Len(v)
  <2>1. k \in Int /\ 1 <= k /\ k <= Len(a) + Len(r) /\ Len(r) = Len(t) - 1
    BY <1>0, <1>3, <1>4
  <2>2. from(k) \in 1..(Len(a) + Len(t))
    BY <2>1, <1>0
  <2>3. /\ v[k] = IF k <= Len(a) THEN a[k] ELSE r[k - Len(a)]
        /\ w[from(k)] = IF from(k) <= Len(a) THEN a[from(k)] ELSE t[from(k) - Len(a)]
    <3> HIDE DEF from
    <3> QED
      BY <2>1, <2>2, <1>4
  <2>4. CASE k <= Len(a)
    <3>1. from(k) = k
      BY <2>1, <2>4, <1>0
    <3> HIDE DEF from
    <3> QED
      BY <3>1, <2>2, <2>3, <2>4, <1>4
  <2>5. CASE ~(k <= Len(a))
    <3>1. k - Len(a) \in 1..Len(r)
      BY <2>1, <2>5, <1>0
    <3>2. r[k - Len(a)] = IF k - Len(a) < i THEN t[k - Len(a)] ELSE t[(k - Len(a)) + 1]
      BY <3>1, <1>3
    <3>3. /\ from(k) - Len(a) = IF k - Len(a) < i THEN k - Len(a) ELSE (k - Len(a)) + 1
          /\ ~(from(k) <= Len(a))
      BY <2>1, <2>5, <1>0
    <3> HIDE DEF from
    <3> QED
      BY <2>2, <2>3, <2>5, <3>2, <3>3, <1>4
  <2> QED
    BY <2>4, <2>5
<1>7. \A k, l \in 1..Len(v) : k < l => from(k) < from(l)
  <2> TAKE k, l \in 1..Len(v)
  <2>1. k \in Int /\ l \in Int
    BY <1>4
  <2> QED
    BY <2>1, <1>0
<1> HIDE DEF from
<1>8. Channel!Increasing(v) /\ Bounded(v, m)
  BY <1>5, <1>6, <1>7 DEF Channel!Increasing, Bounded
<1> QED
  BY <1>3, <1>8 DEF v, r, first, second

-----------------------------------------------------------------------------
(* The invariants                                                          *)

\* InOrder is not inductive: that a new event is larger than those before it
\* follows from what has been sent.
OrderInv ==
  /\ Channel!TypeOK
  /\ \A p \in Tasks, s \in Subscriptions :
       Channel!Increasing(Channel!Delivery(p, s)) /\ Bounded(Channel!Delivery(p, s), sent[p])

ChannelInv == OrderInv /\ Channel!NothingLost

LEMMA ChannelInvInit == Channel!Init => ChannelInv
<1> SUFFICES ASSUME Channel!Init PROVE ChannelInv
  OBVIOUS
<1>1. Channel!TypeOK
  BY DEF Channel!Init, Channel!TypeOK, Channel!Channels, Channel!Empty
<1>2. ASSUME NEW p \in Tasks, NEW s \in Subscriptions
      PROVE  Channel!Delivery(p, s) = <<>> /\ OfferedTo[p][s] = <<>>
  BY DEF Channel!Init, Channel!Delivery, Channel!Empty
<1>3. Channel!Increasing(<<>>) /\ \A m : Bounded(<<>>, m)
  BY DEF Channel!Increasing, Bounded
<1> QED
  BY <1>1, <1>2, <1>3 DEF ChannelInv, OrderInv, Channel!NothingLost

LEMMA PublishInv ==
  ASSUME ChannelInv, NEW p \in Tasks, Channel!Publish(p)
  PROVE  ChannelInv'
<1>1. PICK audience \in SUBSET Subscriptions :
        /\ OfferedTo' = Channel!Extended(OfferedTo, p, audience, sent[p] + 1)
        /\ Transit' = Channel!Extended(Transit, p, audience, sent[p] + 1)
  BY DEF Channel!Publish
<1>2. /\ sent' = [sent EXCEPT ![p] = sent[p] + 1] /\ SeenBy' = SeenBy /\ Failed' = Failed
      /\ sent \in [Tasks -> Nat] /\ sent[p] + 1 \in Nat
      /\ OfferedTo \in Channel!Channels /\ Transit \in Channel!Channels /\ SeenBy \in Channel!Channels
      /\ Failed \subseteq Tasks
  BY DEF Channel!Publish, ChannelInv, OrderInv, Channel!TypeOK
<1>3. ASSUME NEW q \in Tasks, NEW s \in Subscriptions
      PROVE  /\ OfferedTo[q][s] \in Seq(Nat) /\ Transit[q][s] \in Seq(Nat) /\ SeenBy[q][s] \in Seq(Nat)
             /\ OfferedTo'[q][s] = IF q = p /\ s \in audience THEN Append(OfferedTo[q][s], sent[q] + 1)
                                 ELSE OfferedTo[q][s]
             /\ Transit'[q][s] = IF q = p /\ s \in audience THEN Append(Transit[q][s], sent[q] + 1)
                                 ELSE Transit[q][s]
             /\ sent'[q] = IF q = p THEN sent[q] + 1 ELSE sent[q]
             /\ sent[q] \in Nat
  BY <1>1, <1>2 DEF Channel!Extended, Channel!Channels
<1>4. Channel!TypeOK'
  <2>1. ASSUME NEW c \in Channel!Channels PROVE Channel!Extended(c, p, audience, sent[p] + 1) \in Channel!Channels
    BY <1>2 DEF Channel!Extended, Channel!Channels
  <2> QED
    BY <1>1, <1>2, <2>1 DEF Channel!TypeOK
<1>5. ASSUME NEW q \in Tasks, NEW s \in Subscriptions
      PROVE  /\ Channel!Increasing(Channel!Delivery(q, s))' /\ Bounded(Channel!Delivery(q, s), sent[q])'
             /\ Channel!Delivery(q, s) = OfferedTo[q][s] => (Channel!Delivery(q, s) = OfferedTo[q][s])'
  <2>1. Channel!Increasing(Channel!Delivery(q, s)) /\ Bounded(Channel!Delivery(q, s), sent[q])
    BY DEF ChannelInv, OrderInv
  <2>2. Channel!Delivery(q, s) \in Seq(Nat)
    BY <1>3, ConcatProperties DEF Channel!Delivery
  <2>3. CASE q = p /\ s \in audience
    <3>1. Channel!Delivery(q, s)' = Append(Channel!Delivery(q, s), sent[q] + 1)
      <4>1. sent[q] + 1 \in Nat
        BY <1>3
      <4>2. SeenBy[q][s] \o Append(Transit[q][s], sent[q] + 1)
              = Append(SeenBy[q][s] \o Transit[q][s], sent[q] + 1)
        <5>1. SeenBy[q][s] \in Seq(Nat) /\ Transit[q][s] \in Seq(Nat)
          BY <1>3
        <5> QED
          BY <4>1, <5>1, AppendingExtends
      <4> QED
        BY <4>2, <1>2, <1>3, <2>3 DEF Channel!Delivery
    <3>2. Channel!Increasing(Append(Channel!Delivery(q, s), sent[q] + 1))
          /\ Bounded(Append(Channel!Delivery(q, s), sent[q] + 1), sent[q] + 1)
      BY <2>1, <2>2, <1>3, AppendingOrdered
    <3> QED
      BY <3>1, <3>2, <1>3, <2>3 DEF Channel!Increasing, Bounded
  <2>4. CASE ~(q = p /\ s \in audience)
    <3>1. Channel!Delivery(q, s)' = Channel!Delivery(q, s)
      BY <1>2, <1>3, <2>4 DEF Channel!Delivery
    <3>2. sent[q] <= sent'[q] /\ sent'[q] \in Nat
      BY <1>3
    <3>3. Bounded(Channel!Delivery(q, s), sent'[q])
      <4> SUFFICES ASSUME NEW i \in 1..Len(Channel!Delivery(q, s)) PROVE Channel!Delivery(q, s)[i] <= sent'[q]
        BY DEF Bounded
      <4>1. Channel!Delivery(q, s)[i] \in Nat /\ Channel!Delivery(q, s)[i] <= sent[q]
        BY <2>1, <2>2, ElementOfSeq DEF Bounded
      <4> QED
        BY <4>1, <3>2, <1>3
    <3> QED
      BY <3>1, <3>3, <2>1, <1>3, <2>4 DEF Channel!Increasing, Bounded
  <2> QED
    BY <2>3, <2>4
<1>6. OrderInv'
  BY <1>4, <1>5 DEF OrderInv
<1>7. Channel!NothingLost'
  <2> SUFFICES ASSUME NEW q \in Tasks, q \notin Failed', NEW s \in Subscriptions, s \in Lossless
               PROVE  (Channel!Delivery(q, s) = OfferedTo[q][s])'
    BY DEF Channel!NothingLost
  <2> QED
    BY <1>2, <1>5 DEF ChannelInv, Channel!NothingLost
<1> QED
  BY <1>6, <1>7 DEF ChannelInv

\* Receiving changes no delivery.
LEMMA ReceiveInv ==
  ASSUME ChannelInv, NEW p \in Tasks, NEW s \in Subscriptions, Channel!Receive(p, s)
  PROVE  ChannelInv'
<1>1. /\ sent' = sent /\ OfferedTo' = OfferedTo /\ Failed' = Failed
      /\ Transit[p][s] # <<>>
      /\ SeenBy' = [SeenBy EXCEPT ![p][s] = Append(SeenBy[p][s], Head(Transit[p][s]))]
      /\ Transit' = [Transit EXCEPT ![p][s] = Tail(Transit[p][s])]
      /\ Channel!TypeOK
  BY DEF Channel!Receive, ChannelInv, OrderInv
<1>2. SeenBy[p][s] \in Seq(Nat) /\ Transit[p][s] \in Seq(Nat)
  BY <1>1 DEF Channel!TypeOK, Channel!Channels
<1>3. /\ Append(SeenBy[p][s], Head(Transit[p][s])) \in Seq(Nat)
      /\ Tail(Transit[p][s]) \in Seq(Nat)
      /\ Append(SeenBy[p][s], Head(Transit[p][s])) \o Tail(Transit[p][s])
           = SeenBy[p][s] \o Transit[p][s]
  BY <1>1, <1>2, ReadingKeeps
<1>4. Channel!TypeOK'
  BY <1>1, <1>3 DEF Channel!TypeOK, Channel!Channels
<1>5. ASSUME NEW q \in Tasks, NEW r \in Subscriptions
      PROVE  Channel!Delivery(q, r)' = Channel!Delivery(q, r)
  BY <1>1, <1>3 DEF Channel!Delivery, Channel!TypeOK, Channel!Channels
<1>6. OrderInv'
  BY <1>1, <1>4, <1>5 DEF ChannelInv, OrderInv, Channel!Increasing, Bounded
<1>7. Channel!NothingLost'
  BY <1>1, <1>5 DEF ChannelInv, Channel!NothingLost
<1> QED
  BY <1>6, <1>7 DEF ChannelInv

\* One event of p may be taken out on its way to each of the subscribers Cut.
Shortened(p, Cut) ==
  /\ sent' = sent /\ OfferedTo' = OfferedTo /\ SeenBy' = SeenBy
  /\ Transit' = [q \in Tasks |-> Transit'[q]]
  /\ \A q \in Tasks :
       /\ Transit'[q] = [s \in Subscriptions |-> Transit'[q][s]]
       /\ \A s \in Subscriptions :
            IF q = p /\ s \in Cut
            THEN \E i \in 1..Len(Transit[q][s]) :
                   Transit'[q][s] = SubSeq(Transit[q][s], 1, i - 1)
                                      \o SubSeq(Transit[q][s], i + 1, Len(Transit[q][s]))
            ELSE Transit'[q][s] = Transit[q][s]

LEMMA ShortenedInv ==
  ASSUME OrderInv, NEW p \in Tasks, NEW Cut, Shortened(p, Cut), Failed' \subseteq Tasks
  PROVE  /\ OrderInv'
         /\ \A q \in Tasks, s \in Subscriptions :
              ~(q = p /\ s \in Cut) => Channel!Delivery(q, s)' = Channel!Delivery(q, s)
<1>1. ASSUME NEW q \in Tasks, NEW s \in Subscriptions
      PROVE  /\ SeenBy[q][s] \in Seq(Nat) /\ Transit[q][s] \in Seq(Nat) /\ sent[q] \in Nat
             /\ Channel!Increasing(SeenBy[q][s] \o Transit[q][s])
             /\ Bounded(SeenBy[q][s] \o Transit[q][s], sent[q])
  BY DEF OrderInv, Channel!TypeOK, Channel!Channels, Channel!Delivery
<1>2. ASSUME NEW q \in Tasks, NEW s \in Subscriptions
      PROVE  /\ Transit'[q][s] \in Seq(Nat)
             /\ Channel!Increasing(SeenBy[q][s] \o Transit'[q][s])
             /\ Bounded(SeenBy[q][s] \o Transit'[q][s], sent[q])
  <2>1. CASE q = p /\ s \in Cut
    <3>1. PICK i \in 1..Len(Transit[q][s]) :
            Transit'[q][s] = SubSeq(Transit[q][s], 1, i - 1)
                               \o SubSeq(Transit[q][s], i + 1, Len(Transit[q][s]))
      BY <2>1 DEF Shortened
    <3> QED
      BY <3>1, <1>1, RemovingOrdered
  <2>2. CASE ~(q = p /\ s \in Cut)
    <3>1. Transit'[q][s] = Transit[q][s]
      BY <2>2 DEF Shortened
    <3> QED
      BY <3>1, <1>1
  <2> QED
    BY <2>1, <2>2
<1>3. Transit' \in Channel!Channels
  BY <1>2 DEF Shortened, Channel!Channels
<1>4. Channel!TypeOK'
  BY <1>3 DEF OrderInv, Channel!TypeOK, Shortened
<1>5. OrderInv'
  <2>1. sent' = sent /\ SeenBy' = SeenBy
    BY DEF Shortened
  <2>2. ASSUME NEW q \in Tasks, NEW s \in Subscriptions
        PROVE  Channel!Increasing(SeenBy'[q][s] \o Transit'[q][s]) /\ Bounded(SeenBy'[q][s] \o Transit'[q][s], sent'[q])
    BY <1>2, <2>1
  <2> QED
    BY <1>4, <2>2 DEF OrderInv, Channel!Delivery, Channel!Increasing, Bounded
<1>6. \A q \in Tasks, s \in Subscriptions :
        ~(q = p /\ s \in Cut) => Channel!Delivery(q, s)' = Channel!Delivery(q, s)
  BY DEF Shortened, Channel!Delivery
<1> QED
  BY <1>5, <1>6

LEMMA LoseInv ==
  ASSUME ChannelInv, NEW p \in Tasks, NEW s \in Subscriptions, Channel!Lose(p, s)
  PROVE  ChannelInv'
<1>1. s \notin Lossless /\ sent' = sent /\ OfferedTo' = OfferedTo /\ SeenBy' = SeenBy /\ Failed' = Failed
      /\ Channel!TypeOK /\ OrderInv
  BY DEF Channel!Lose, ChannelInv, OrderInv
<1>2. PICK i \in DOMAIN Transit[p][s] :
        Transit' = [Transit EXCEPT ![p][s] = Channel!RemoveAt(Transit[p][s], i)]
  BY DEF Channel!Lose
<1>3. i \in 1..Len(Transit[p][s])
  BY <1>1 DEF Channel!TypeOK, Channel!Channels
<1>4. Shortened(p, {s})
  <2>1. Transit \in [Tasks -> [Subscriptions -> Seq(Nat)]]
    BY <1>1 DEF Channel!TypeOK, Channel!Channels
  <2>2. Transit'[p][s] = SubSeq(Transit[p][s], 1, i - 1)
                           \o SubSeq(Transit[p][s], i + 1, Len(Transit[p][s]))
    BY <1>2, <2>1 DEF Channel!RemoveAt
  <2> QED
    BY <1>1, <1>2, <1>3, <2>1, <2>2 DEF Shortened
<1>5. Failed' \subseteq Tasks
  BY <1>1 DEF Channel!TypeOK
<1>6. OrderInv' /\ \A q \in Tasks, r \in Subscriptions :
                     ~(q = p /\ r \in {s}) => Channel!Delivery(q, r)' = Channel!Delivery(q, r)
  BY <1>1, <1>4, <1>5, ShortenedInv
<1>7. Channel!NothingLost'
  BY <1>1, <1>6 DEF ChannelInv, Channel!NothingLost
<1> QED
  BY <1>6, <1>7 DEF ChannelInv

LEMMA FailInv ==
  ASSUME ChannelInv, NEW p \in Tasks, Channel!Fail(p)
  PROVE  ChannelInv'
<1>1. sent' = sent /\ OfferedTo' = OfferedTo /\ SeenBy' = SeenBy /\ Failed' = Failed \union {p}
      /\ Channel!TypeOK /\ OrderInv
  BY DEF Channel!Fail, ChannelInv, OrderInv
<1>2. PICK unreached \in SUBSET {s \in Subscriptions :
               Transit[p][s] # <<>> /\ Channel!Last(Transit[p][s]) = sent[p]} :
        Transit' = [Transit EXCEPT ![p] =
          [s \in Subscriptions |-> IF s \in unreached THEN Channel!Front(Transit[p][s])
                                 ELSE Transit[p][s]]]
  BY DEF Channel!Fail
<1>3. Transit \in [Tasks -> [Subscriptions -> Seq(Nat)]]
  BY <1>1 DEF Channel!TypeOK, Channel!Channels
<1>4. ASSUME NEW s \in unreached
      PROVE  /\ Len(Transit[p][s]) \in 1..Len(Transit[p][s])
             /\ Channel!Front(Transit[p][s]) =
                  SubSeq(Transit[p][s], 1, Len(Transit[p][s]) - 1)
                    \o SubSeq(Transit[p][s], Len(Transit[p][s]) + 1, Len(Transit[p][s]))
  <2> DEFINE t == Transit[p][s]
  <2>1. t \in Seq(Nat) /\ t # <<>>
    BY <1>2, <1>3
  <2> HIDE DEF t
  <2>2. Len(t) \in 1..Len(t)
    BY <2>1
  <2>3. SubSeq(t, Len(t) + 1, Len(t)) = <<>>
    BY <2>2, SubSeqEmpty
  <2>4. SubSeq(t, 1, Len(t) - 1) \in Seq(Nat)
    <3>1. \A i \in 1..(Len(t) - 1) : t[i] \in Nat
      BY <2>1, <2>2, ElementOfSeq
    <3>2. Len(t) - 1 \in Int /\ 1 \in Int
      BY <2>2
    <3> QED
      BY <3>1, <3>2, SubSeqProperties
  <2>5. SubSeq(t, 1, Len(t) - 1) \o <<>> = SubSeq(t, 1, Len(t) - 1)
    BY <2>4, ConcatEmptySeq
  <2> QED
    BY <2>2, <2>3, <2>5 DEF t, Channel!Front
<1>5. Shortened(p, unreached)
  <2>1. \A s \in Subscriptions :
          Transit'[p][s] = IF s \in unreached THEN Channel!Front(Transit[p][s]) ELSE Transit[p][s]
    BY <1>2, <1>3
  <2>2. \A q \in Tasks, s \in Subscriptions : q # p => Transit'[q][s] = Transit[q][s]
    BY <1>2, <1>3
  <2>3. /\ Transit' = [q \in Tasks |-> Transit'[q]]
        /\ \A q \in Tasks : Transit'[q] = [s \in Subscriptions |-> Transit'[q][s]]
    BY <1>2, <1>3
  <2>4. ASSUME NEW s \in Subscriptions, s \in unreached
        PROVE  \E i \in 1..Len(Transit[p][s]) :
                 Transit'[p][s] = SubSeq(Transit[p][s], 1, i - 1)
                                    \o SubSeq(Transit[p][s], i + 1, Len(Transit[p][s]))
    <3>1. Transit'[p][s] = Channel!Front(Transit[p][s])
      BY <2>1, <2>4
    <3> QED
      BY <3>1, <2>4, <1>4
  <2>5. \A s \in Subscriptions : s \notin unreached => Transit'[p][s] = Transit[p][s]
    BY <2>1
  <2> QED
    BY <1>1, <2>2, <2>3, <2>4, <2>5, Zenon DEF Shortened
<1>6. Failed' \subseteq Tasks
  BY <1>1 DEF Channel!TypeOK
<1>7. OrderInv' /\ \A q \in Tasks, s \in Subscriptions :
                     ~(q = p /\ s \in unreached) => Channel!Delivery(q, s)' = Channel!Delivery(q, s)
  BY <1>1, <1>5, <1>6, ShortenedInv
<1>8. Channel!NothingLost'
  BY <1>1, <1>7 DEF ChannelInv, Channel!NothingLost
<1> QED
  BY <1>7, <1>8 DEF ChannelInv

LEMMA ChannelInvStep == ChannelInv /\ [Channel!Next]_(Channel!vars) => ChannelInv'
<1> SUFFICES ASSUME ChannelInv, [Channel!Next]_(Channel!vars) PROVE ChannelInv'
  OBVIOUS
<1>1. CASE UNCHANGED Channel!vars
  BY <1>1 DEF Channel!vars, ChannelInv, OrderInv, Channel!NothingLost, Channel!TypeOK, Channel!Delivery, Channel!Increasing, Bounded
<1>2. ASSUME NEW p \in Tasks, Channel!Publish(p) PROVE ChannelInv'
  BY <1>2, PublishInv
<1>3. ASSUME NEW p \in Tasks, Channel!Fail(p) PROVE ChannelInv'
  BY <1>3, FailInv
<1>4. ASSUME NEW p \in Tasks, NEW s \in Subscriptions, Channel!Receive(p, s) PROVE ChannelInv'
  BY <1>4, ReceiveInv
<1>5. ASSUME NEW p \in Tasks, NEW s \in Subscriptions, Channel!Lose(p, s) PROVE ChannelInv'
  BY <1>5, LoseInv
<1> QED
  BY <1>1, <1>2, <1>3, <1>4, <1>5 DEF Channel!Next

\* Whatever a channel loses and whoever fails, what a subscriber sees of a
\* publisher is in the order of publication and without repetition (bus.py:70-75).
THEOREM DeliveryInOrder == Channel!Spec => []Channel!InOrder
<1>1. ChannelInv => Channel!InOrder
  BY DEF ChannelInv, OrderInv, Channel!InOrder
<1> QED
  BY <1>1, ChannelInvInit, ChannelInvStep, PTL DEF Channel!Spec

\* A subscription that may not lose events has seen, or will see next, exactly
\* what was offered to it by a publisher that has not raised (bus.py:78-81).
THEOREM ReliableLosesNothing == Channel!Spec => []Channel!NothingLost
<1>1. ChannelInv => Channel!NothingLost
  BY DEF ChannelInv
<1> QED
  BY <1>1, ChannelInvInit, ChannelInvStep, PTL DEF Channel!Spec

\* So every subscription gets the events of a publisher in the order of its calls of
\* publish, each at most once, whatever the policies drop (bus.py:70-75).
THEOREM BusInOrder == Spec => []Channel!InOrder
  BY DeliveryInOrder, BusImplementsChannel, PTL DEF ImplementsChannel

\* And a blocking or unbounded subscription has read, or will read next, exactly what
\* was offered to it by a publisher that has not raised (bus.py:78-81).
THEOREM BusLosesNothing == Spec => []Channel!NothingLost
  BY ReliableLosesNothing, BusImplementsChannel, PTL DEF ImplementsChannel
=============================================================================
