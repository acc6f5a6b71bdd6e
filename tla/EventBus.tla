------------------------------ MODULE EventBus ------------------------------
(***************************************************************************)
(* bus.py: subscriptions with a bounded asyncio.Queue each and a policy for*)
(* a full queue, tasks that publish to all matching subscriptions in turn, *)
(* and tasks that read one subscription and may publish what they derive.  *)
(* Tasks share one event loop: a task that is inside publish runs alone    *)
(* until it returns or waits for a place in a full blocking queue.         *)
(***************************************************************************)
EXTENDS Integers, FiniteSets, SequencesExt, Selections

CONSTANTS
  Tasks,            \* asyncio tasks that use the bus
  Subscriptions,
  Kinds,            \* event classes
  Matches,          \* subscription -> the classes it asks for
  Policy,           \* subscription -> OverflowPolicy
  MaxSize,          \* subscription -> maxsize; 0 is an unbounded queue
  Reader,           \* subscription -> the task that iterates over it
  Publishes,        \* task -> the classes of event it may publish
  MaxEvents         \* bound: task -> number of events it publishes

Policies == {"block", "drop_oldest", "drop_newest", "raise"}

ASSUME BusAssumption ==
  /\ Matches \in [Subscriptions -> SUBSET Kinds]
  /\ Policy \in [Subscriptions -> Policies]
  /\ MaxSize \in [Subscriptions -> Nat]
  /\ Reader \in [Subscriptions -> Tasks]
  /\ Publishes \in [Tasks -> SUBSET Kinds]
  /\ MaxEvents \in [Tasks -> Nat]

VARIABLES
  subscriptions,    \* EventBus._subscriptions
  queue,            \* Subscription.queue
  dropped_count,    \* Subscription.dropped_count
  putters,          \* asyncio.Queue._putters: tasks waiting for a place, in order
  pc,               \* what each task is doing
  event,            \* the event a task is publishing (the last one it published)
  rest,             \* the subscriptions its publish call still has to serve
  sent,             \* history: events published by each task
  offered,          \* history: events whose publish call found the subscription
  received          \* history: events each subscription has handed out

vars == <<subscriptions, queue, dropped_count, putters, pc, event, rest, sent, offered, received>>
books == <<sent, offered, received>>

Event == [from : Tasks, kind : Kinds, seq : Nat]
EventsOf(t) == [from : {t}, kind : Kinds, seq : Nat]
NoEvent == [from |-> "none", kind |-> "none", seq |-> 0]

\* "idle": awaiting its stream or its subscription; "handling": between events
\* of its subscription; "publishing": running inside publish; "waiting": its
\* putter is queued; "woken": its putter is done, the task has not resumed;
\* "failed": publish raised and the task is over.
Steps == {"idle", "handling", "publishing", "waiting", "woken", "failed"}

IsReader(t) == \E s \in Subscriptions : Reader[s] = t
LoopFree == \A t \in Tasks : pc[t] # "publishing"
Full(s) == MaxSize[s] > 0 /\ Len(queue[s]) >= MaxSize[s]

Init ==
  /\ subscriptions = <<>>
  /\ queue = [s \in Subscriptions |-> <<>>]
  /\ dropped_count = [s \in Subscriptions |-> 0]
  /\ putters = [s \in Subscriptions |-> <<>>]
  /\ pc = [t \in Tasks |-> "idle"]
  /\ event = [t \in Tasks |-> NoEvent]
  /\ rest = [t \in Tasks |-> <<>>]
  /\ sent = [t \in Tasks |-> 0]
  /\ offered = [s \in Subscriptions |-> <<>>]
  /\ received = [s \in Subscriptions |-> <<>>]

Subscribe(s) ==
  /\ LoopFree
  /\ s \notin Range(subscriptions)
  /\ subscriptions' = Append(subscriptions, s)
  /\ UNCHANGED <<queue, dropped_count, putters, pc, event, rest, books>>

-----------------------------------------------------------------------------
(* publish and _deliver: one step per subscription served.                 *)

Audience(k) == OnlyIn(subscriptions, {s \in Subscriptions : k \in Matches[s]})

\* A stream's task publishes whenever its stream yields, a reader while it
\* handles an event.
Publish(t) ==
  /\ LoopFree
  /\ pc[t] = (IF IsReader(t) THEN "handling" ELSE "idle")
  /\ sent[t] < MaxEvents[t]
  /\ \E k \in Publishes[t] :
       LET e == [from |-> t, kind |-> k, seq |-> sent[t] + 1]
       IN /\ event' = [event EXCEPT ![t] = e]
          /\ rest' = [rest EXCEPT ![t] = Audience(k)]
          /\ offered' = [s \in Subscriptions |->
               IF s \in Range(Audience(k)) THEN Append(offered[s], e) ELSE offered[s]]
  /\ pc' = [pc EXCEPT ![t] = "publishing"]
  /\ sent' = [sent EXCEPT ![t] = sent[t] + 1]
  /\ UNCHANGED <<subscriptions, queue, dropped_count, putters, received>>

Serving(t, s) == pc[t] = "publishing" /\ rest[t] # <<>> /\ s = Head(rest[t])
Served(t) == rest' = [rest EXCEPT ![t] = Tail(rest[t])]
Enqueue(t, s) == queue' = [queue EXCEPT ![s] = Append(queue[s], event[t])]

\* queue.put and queue.put_nowait when there is a place.
Put(t, s) ==
  /\ Serving(t, s)
  /\ ~Full(s)
  /\ Enqueue(t, s)
  /\ Served(t)
  /\ UNCHANGED <<subscriptions, dropped_count, putters, pc, event, books>>

\* Mutant: a full blocking queue swallows the event.
WaitDropping(t, s) ==
  /\ Serving(t, s)
  /\ Full(s)
  /\ Policy[s] = "block"
  /\ Served(t)
  /\ UNCHANGED <<subscriptions, queue, dropped_count, putters, pc, event, books>>

\* queue.put on a full queue: the publisher waits.
Wait(t, s) ==
  /\ Serving(t, s)
  /\ Full(s)
  /\ Policy[s] = "block"
  /\ putters' = [putters EXCEPT ![s] = Append(putters[s], t)]
  /\ pc' = [pc EXCEPT ![t] = "waiting"]
  /\ UNCHANGED <<subscriptions, queue, dropped_count, event, rest, books>>

\* Mutant: the event that finds the queue full is not counted.
DropNewestUncounted(t, s) ==
  /\ Serving(t, s)
  /\ Full(s)
  /\ Policy[s] = "drop_newest"
  /\ Served(t)
  /\ UNCHANGED <<subscriptions, queue, dropped_count, putters, pc, event, books>>

DropNewest(t, s) ==
  /\ Serving(t, s)
  /\ Full(s)
  /\ Policy[s] = "drop_newest"
  /\ dropped_count' = [dropped_count EXCEPT ![s] = dropped_count[s] + 1]
  /\ Served(t)
  /\ UNCHANGED <<subscriptions, queue, putters, pc, event, books>>

\* Mutant: the wrong end of the queue goes.
DropOldestButNewest(t, s) ==
  /\ Serving(t, s)
  /\ Full(s)
  /\ Policy[s] = "drop_oldest"
  /\ dropped_count' = [dropped_count EXCEPT ![s] = dropped_count[s] + 1]
  /\ Served(t)
  /\ UNCHANGED <<subscriptions, queue, putters, pc, event, books>>

DropOldest(t, s) ==
  /\ Serving(t, s)
  /\ Full(s)
  /\ Policy[s] = "drop_oldest"
  /\ queue' = [queue EXCEPT ![s] = Append(Tail(queue[s]), event[t])]
  /\ dropped_count' = [dropped_count EXCEPT ![s] = dropped_count[s] + 1]
  /\ Served(t)
  /\ UNCHANGED <<subscriptions, putters, pc, event, books>>

\* QueueFull leaves publish and ends the task that called it.
Raise(t, s) ==
  /\ Serving(t, s)
  /\ Full(s)
  /\ Policy[s] = "raise"
  /\ pc' = [pc EXCEPT ![t] = "failed"]
  /\ rest' = [rest EXCEPT ![t] = <<>>]
  /\ UNCHANGED <<subscriptions, queue, dropped_count, putters, event, books>>

PublishReturns(t) ==
  /\ pc[t] = "publishing"
  /\ rest[t] = <<>>
  /\ pc' = [pc EXCEPT ![t] = IF IsReader(t) THEN "handling" ELSE "idle"]
  /\ UNCHANGED <<subscriptions, queue, dropped_count, putters, event, rest, books>>

\* Mutant: a woken putter takes its place for granted.
ResumeUnchecked(t) ==
  /\ LoopFree
  /\ pc[t] = "woken"
  /\ Enqueue(t, Head(rest[t]))
  /\ Served(t)
  /\ pc' = [pc EXCEPT ![t] = "publishing"]
  /\ UNCHANGED <<subscriptions, dropped_count, putters, event, books>>

\* Mutant: a woken putter that finds the queue full again gives up.
ResumeGivingUp(t) ==
  /\ LoopFree
  /\ pc[t] = "woken"
  /\ pc' = [pc EXCEPT ![t] = "publishing"]
  /\ rest' = [rest EXCEPT ![t] = IF Full(Head(rest[t])) THEN Tail(rest[t]) ELSE rest[t]]
  /\ UNCHANGED <<subscriptions, queue, dropped_count, putters, event, books>>

\* A woken putter starts over: `while self.full()' (asyncio.Queue.put).
Resume(t) ==
  /\ LoopFree
  /\ pc[t] = "woken"
  /\ pc' = [pc EXCEPT ![t] = "publishing"]
  /\ UNCHANGED <<subscriptions, queue, dropped_count, putters, event, rest, books>>

-----------------------------------------------------------------------------
(* The subscriber's side: `async for event in subscription'.               *)

\* Mutant: reading an event wakes nobody.
GetSilently(s) ==
  /\ LoopFree
  /\ s \in Range(subscriptions)
  /\ pc[Reader[s]] = "idle"
  /\ queue[s] # <<>>
  /\ received' = [received EXCEPT ![s] = Append(received[s], Head(queue[s]))]
  /\ queue' = [queue EXCEPT ![s] = Tail(queue[s])]
  /\ pc' = [pc EXCEPT ![Reader[s]] = "handling"]
  /\ UNCHANGED <<subscriptions, dropped_count, putters, event, rest, sent, offered>>

\* get_nowait takes the oldest event and wakes the first waiting publisher.
Get(s) ==
  LET t == Reader[s]
      first == Head(putters[s])
  IN /\ LoopFree
     /\ s \in Range(subscriptions)
     /\ pc[t] = "idle"
     /\ queue[s] # <<>>
     /\ received' = [received EXCEPT ![s] = Append(received[s], Head(queue[s]))]
     /\ queue' = [queue EXCEPT ![s] = Tail(queue[s])]
     /\ putters' = [putters EXCEPT ![s] = IF putters[s] = <<>> THEN <<>> ELSE Tail(putters[s])]
     /\ pc' = [u \in Tasks |-> IF u = t THEN "handling"
                               ELSE IF putters[s] # <<>> /\ u = first THEN "woken"
                               ELSE pc[u]]
     /\ UNCHANGED <<subscriptions, dropped_count, event, rest, sent, offered>>

\* The handler's body ends and the loop asks for the next event.
Handled(t) ==
  /\ LoopFree
  /\ pc[t] = "handling"
  /\ pc' = [pc EXCEPT ![t] = "idle"]
  /\ UNCHANGED <<subscriptions, queue, dropped_count, putters, event, rest, books>>

-----------------------------------------------------------------------------
Deliver(t, s) ==
  \/ Put(t, s)
  \/ Wait(t, s)
  \/ DropNewest(t, s)
  \/ DropOldest(t, s)
  \/ Raise(t, s)

\* What a task does without waiting for anything outside the program.
Runs(t) ==
  \/ \E s \in Subscriptions : Deliver(t, s)
  \/ PublishReturns(t)
  \/ Resume(t)
  \/ Handled(t)

\* The program has stopped when nothing is left to publish or to read.
Settled ==
  /\ \A t \in Tasks : pc[t] \in {"idle", "failed"}
  /\ \A s \in Subscriptions : pc[Reader[s]] = "idle" => queue[s] = <<>>

Next ==
  \/ \E s \in Subscriptions : Subscribe(s) \/ Get(s)
  \/ \E t \in Tasks : Publish(t) \/ Runs(t)
  \/ Settled /\ UNCHANGED vars

\* The event loop runs every task that is ready and never waits for a stream.
Fairness ==
  /\ \A t \in Tasks : WF_vars(Runs(t))
  /\ \A s \in Subscriptions : WF_vars(Get(s))

Spec == Init /\ [][Next]_vars /\ Fairness

-----------------------------------------------------------------------------
(* Properties                                                              *)

\* bus.py:77-107: a queue never exceeds its maxsize, also when a woken publisher
\* finds that another took the place it was woken for.
QueueBounded ==
  \A s \in Subscriptions : MaxSize[s] > 0 => Len(queue[s]) <= MaxSize[s]

\* bus.py:22-51: the types of the state, and the bound of the queues.
TypeOK ==
  /\ subscriptions \in Seq(Subscriptions)
  /\ queue \in [Subscriptions -> Seq(Event)]
  /\ QueueBounded
  /\ dropped_count \in [Subscriptions -> Nat]
  /\ putters \in [Subscriptions -> Seq(Tasks)]
  /\ pc \in [Tasks -> Steps]
  /\ event \in [Tasks -> Event \union {NoEvent}]
  /\ rest \in [Tasks -> Seq(Subscriptions)]
  /\ sent \in [Tasks -> Nat]
  /\ offered \in [Subscriptions -> Seq(Event)]
  /\ received \in [Subscriptions -> Seq(Event)]

Pending(s) == {t \in Tasks : s \in Range(rest[t])}

\* bus.py:77-107: every event offered to a subscription is read, queued, on its
\* way, or counted in dropped_count; nothing vanishes and nothing is doubled,
\* as long as no publication has raised.
EventsAccounted ==
  (\A t \in Tasks : pc[t] # "failed") =>
    \A s \in Subscriptions :
      Len(offered[s]) =
        Len(received[s]) + Len(queue[s]) + Cardinality(Pending(s)) + dropped_count[s]

\* asyncio.Queue as bus.py:79 uses it: publishers wait only as long as every free
\* place has a publisher on its way to it, so no wake-up is lost.
NoLostWakeup ==
  \A s \in Subscriptions :
    putters[s] # <<>> =>
      MaxSize[s] - Len(queue[s]) <=
        Cardinality({t \in Pending(s) : pc[t] \in {"woken", "publishing"} /\ s = Head(rest[t])})

\* bus.py:92-102: when nothing is on its way to a drop_oldest subscription, the
\* newest event its reader has or will find is the last of the task it came from:
\* what is dropped has always been replaced by something newer.
LatestKept ==
  (\A t \in Tasks : pc[t] # "failed") =>
    \A s \in Subscriptions :
      (Policy[s] = "drop_oldest" /\ offered[s] # <<>> /\ Pending(s) = {}) =>
        LET e == Last(received[s] \o queue[s])
        IN e = Last(OnlyIn(offered[s], EventsOf(e.from)))

Offered(s, t, n) == \E i \in DOMAIN offered[s] : offered[s][i].from = t /\ offered[s][i].seq = n
Seen(s, t, n) == \E i \in DOMAIN received[s] : received[s][i].from = t /\ received[s][i].seq = n

\* bus.py:43-46, 78-81, 92-102: every event offered to a blocking subscription is read
\* in the end, so no publisher is left behind at a full queue; the reader of a
\* drop_oldest subscription gets to its last event (see LatestKept).  A task that a
\* raising subscription has ended publishes and reads no more, and is excepted.
EventsArrive ==
  \A s \in Subscriptions :
    LET fails == \E t \in Tasks : pc[t] = "failed" IN
    /\ Policy[s] = "block" =>
         \A t \in Tasks : \A n \in 1..MaxEvents[t] :
           Offered(s, t, n) ~> Seen(s, t, n) \/ fails
    /\ Policy[s] = "drop_oldest" => (queue[s] # <<>> ~> queue[s] = <<>> \/ fails)

-----------------------------------------------------------------------------
(* The bus implements EventChannel: an event is in transit from the moment  *)
(* its publish call has listed the subscription until it is read or lost.  *)

SeqsOf(events, t) ==
  LET own == OnlyIn(events, EventsOf(t))
  IN [i \in DOMAIN own |-> own[i].seq]

OnTheWay(s, t) == IF s \in Range(rest[t]) THEN Append(queue[s], event[t]) ELSE queue[s]

OfferedTo == [t \in Tasks |-> [s \in Subscriptions |-> SeqsOf(offered[s], t)]]
Transit   == [t \in Tasks |-> [s \in Subscriptions |-> SeqsOf(OnTheWay(s, t), t)]]
SeenBy    == [t \in Tasks |-> [s \in Subscriptions |-> SeqsOf(received[s], t)]]
Failed    == {t \in Tasks : pc[t] = "failed"}
Lossless  == {s \in Subscriptions : Policy[s] = "block" \/ MaxSize[s] = 0}

Channel == INSTANCE EventChannel WITH
  Publishers <- Tasks, Subscribers <- Subscriptions, Reliable <- Lossless, sent <- sent,
  offered <- OfferedTo, transit <- Transit, seen <- SeenBy, failed <- Failed

\* bus.py:70-107: per publisher and subscription, events arrive in order and once,
\* and a blocking or unbounded queue loses none of them, whatever the other
\* subscriptions, their policies and the other tasks do.
ImplementsChannel == Channel!Spec
=============================================================================
