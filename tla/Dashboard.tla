----------------------------- MODULE Dashboard -----------------------------
(***************************************************************************)
(* The way of a runtime state to the dashboard's clients.  Each worker     *)
(* forwards its market's states one POST at a time, in a thread            *)
(* (src/src/dashboard/component.py); the server (dashboard/server.py), in  *)
(* the supervisor's process, keeps the latest state of every market, puts  *)
(* each on a backlog that drops its oldest entry, and a broadcast task     *)
(* sends it to every client in the set.                                    *)
(*                                                                         *)
(* The server is one asyncio loop.  What suspends, and lets the others     *)
(* run, is reading a request's body and sending to a client: so a client   *)
(* may come or go, and a market be added, in the middle of a loop over     *)
(* them.  Python ends such a loop with an error when the size has changed. *)
(* A state is its number in its market; 0 is none.                         *)
(***************************************************************************)
EXTENDS Integers, Sequences, FiniteSets

CONSTANTS
    Markets,      \* slugs: the markets that workers run for
    Clients,      \* the browsers that may connect
    QueueSize,    \* maxsize of a worker's subscription (200)
    BacklogSize,  \* maxsize of _broadcast_state (500)
    MaxStates     \* bound: states of one market

ASSUME SizeAssumption ==
    QueueSize \in Nat \ {0} /\ BacklogSize \in Nat \ {0} /\ MaxStates \in Nat

VARIABLES
    made,       \* number of states each market's worker has published
    states,     \* each worker's subscription queue
    posting,    \* the state whose POST each worker waits for, or 0
    requests,   \* states the server is still to read, timed out or not
    latest,     \* _latest_state: 0 where the market has no entry
    slugs,      \* its keys, in the order they were added
    backlog,    \* _broadcast_state
    clients,    \* _ws_clients
    visits,     \* for every client: its handler, and what it was sent last
    broadcast,  \* what the broadcast task is sending, and to whom it has
    late,       \* history: markets of which a POST has timed out
    missed      \* history: markets whose last broadcast state was dropped or cut short

worker == <<made, states, posting, late>>
server == <<latest, slugs, backlog>>
vars == <<worker, requests, server, clients, visits, broadcast, missed>>

-----------------------------------------------------------------------------
State(m, n) == [market |-> m, number |-> n]
NoState == [market |-> "none", number |-> 0]

Away == [phase |-> "away", next |-> 0, size |-> 0, seen |-> [m \in Markets |-> 0]]

Idle == [phase |-> "idle", state |-> NoState, size |-> 0, done |-> {}, failed |-> {},
         swapped |-> FALSE]

Visiting(c) == visits[c].phase \in {"greeting", "listening"}

PutDroppingOldest(queue, x, size) ==
    Append(IF Len(queue) = size THEN Tail(queue) ELSE queue, x)

Init ==
    /\ made = [m \in Markets |-> 0] /\ states = [m \in Markets |-> <<>>]
    /\ posting = [m \in Markets |-> 0] /\ requests = {}
    /\ latest = [m \in Markets |-> 0] /\ slugs = <<>> /\ backlog = <<>>
    /\ clients = {} /\ visits = [c \in Clients |-> Away] /\ broadcast = Idle
    /\ late = {} /\ missed = {}

(***************************************************************************)
(* A worker's DashboardComponent.                                          *)
(***************************************************************************)
StateChanges(m) ==
    /\ made[m] < MaxStates
    /\ made' = [made EXCEPT ![m] = @ + 1]
    /\ states' = [states EXCEPT ![m] = PutDroppingOldest(@, made[m] + 1, QueueSize)]
    /\ UNCHANGED <<posting, late, requests, server, clients, visits, broadcast, missed>>

\* Mutant: the thread of a POST is not awaited before the next is started.
NotAwaited(m) == TRUE

Answered(m) == posting[m] = 0

Forward(m) ==
    /\ states[m] # <<>> /\ Answered(m)
    /\ posting' = [posting EXCEPT ![m] = Head(states[m])]
    /\ requests' = requests \cup {State(m, Head(states[m]))}
    /\ states' = [states EXCEPT ![m] = Tail(@)]
    /\ UNCHANGED <<made, late, server, clients, visits, broadcast, missed>>

\* The server does not answer within a second: it may still read the state.
\* Or it cannot be reached, and never will.
ForwardFails(m, reached) ==
    /\ posting[m] # 0 /\ State(m, posting[m]) \in requests
    /\ posting' = [posting EXCEPT ![m] = 0]
    /\ IF reached
       THEN late' = late \cup {m} /\ requests' = requests
       ELSE late' = late /\ requests' = requests \ {State(m, posting[m])}
    /\ UNCHANGED <<made, states, server, clients, visits, broadcast, missed>>

(***************************************************************************)
(* update_state.                                                           *)
(***************************************************************************)
\* The market whose oldest state is dropped and that has no newer one queued.
Dropped == {backlog[i].market : i \in DOMAIN backlog} \ {backlog'[i].market : i \in DOMAIN backlog'}

UpdateState(s) ==
    /\ s \in requests /\ requests' = requests \ {s}
    /\ posting' = [posting EXCEPT ![s.market] = IF @ = s.number THEN 0 ELSE @]
    /\ latest' = [latest EXCEPT ![s.market] = s.number]
    /\ slugs' = IF latest[s.market] = 0 THEN Append(slugs, s.market) ELSE slugs
    /\ backlog' = PutDroppingOldest(backlog, s, BacklogSize)
    /\ missed' = missed \cup Dropped
    /\ UNCHANGED <<made, states, late, clients, visits, broadcast>>

(***************************************************************************)
(* websocket: the handler of one client.                                   *)
(***************************************************************************)
\* The set a loop of the broadcast goes over has changed.
Swapped == [broadcast EXCEPT !.swapped = broadcast.phase = "sending"]

\* Mutant: a client joins the set once it has been greeted.
MemberLater(phase) == phase = "listening"

Member(phase) == phase \in {"greeting", "listening"}

\* A client that comes back is another connection.
Join(c) ==
    IF Member(visits'[c].phase) /\ c \notin clients
    THEN /\ clients' = clients \cup {c}
         /\ broadcast' = [Swapped EXCEPT !.done = @ \ {c}, !.failed = @ \ {c}]
    ELSE UNCHANGED <<clients, broadcast>>

Discard(c) ==
    /\ clients' = clients \ {c}
    /\ broadcast' = IF c \in clients THEN Swapped ELSE broadcast

\* The next market's latest state is sent, or the greeting is over.
Greeted(visit) ==
    IF visit.next > Len(slugs) THEN [visit EXCEPT !.phase = "listening"]
    ELSE [visit EXCEPT !.next = @ + 1, !.seen[slugs[visit.next]] = latest[slugs[visit.next]]]

Connect(c) ==
    /\ visits[c].phase = "away"
    /\ visits' = [visits EXCEPT ![c] =
         Greeted([@ EXCEPT !.phase = "greeting", !.next = 1, !.size = Len(slugs)])]
    /\ Join(c)
    /\ UNCHANGED <<worker, requests, server, missed>>

\* A market added meanwhile ends the greeting, and with it the connection.
Greet(c) ==
    /\ visits[c].phase = "greeting"
    /\ IF Len(slugs) = visits[c].size
       THEN visits' = [visits EXCEPT ![c] = Greeted(@)] /\ Join(c)
       ELSE visits' = [visits EXCEPT ![c] = Away] /\ Discard(c)
    /\ UNCHANGED <<worker, requests, server, missed>>

Close(c) ==
    /\ Visiting(c)
    /\ visits' = [visits EXCEPT ![c] = [Away EXCEPT !.phase = "closed"]]
    /\ UNCHANGED <<worker, requests, server, clients, broadcast, missed>>

Disconnected(c) ==
    /\ visits[c].phase = "closed"
    /\ visits' = [visits EXCEPT ![c] = Away] /\ Discard(c)
    /\ UNCHANGED <<worker, requests, server, missed>>

(***************************************************************************)
(* _broadcast.                                                             *)
(***************************************************************************)
\* A send to a client whose connection is closed raises.
SendTo(c, b) ==
    /\ visits' = IF Visiting(c)
                 THEN [visits EXCEPT ![c].seen[b.state.market] = b.state.number] ELSE visits
    /\ broadcast' = [b EXCEPT !.done = @ \cup {c},
                              !.failed = IF Visiting(c) THEN @ ELSE @ \cup {c}]

BroadcastStarts ==
    /\ broadcast.phase = "idle" /\ backlog # <<>>
    /\ backlog' = Tail(backlog) /\ missed' = missed \ {Head(backlog).market}
    /\ IF clients = {}
       THEN UNCHANGED <<visits, broadcast>>
       ELSE \E c \in clients :
              SendTo(c, [Idle EXCEPT !.phase = "sending", !.state = Head(backlog),
                                     !.size = Cardinality(clients)])
    /\ UNCHANGED <<worker, requests, latest, slugs, clients>>

SameSize == Cardinality(clients) = broadcast.size

BroadcastContinues(c) ==
    /\ broadcast.phase = "sending" /\ SameSize /\ c \in clients \ broadcast.done
    /\ SendTo(c, broadcast)
    /\ UNCHANGED <<worker, requests, server, clients, missed>>

\* Whoever was in the set all along has been reached; if one client came and
\* another left, the loop may pass over any.
BroadcastEnds ==
    /\ broadcast.phase = "sending" /\ SameSize
    /\ clients \subseteq broadcast.done \/ broadcast.swapped
    /\ clients' = clients \ broadcast.failed
    /\ broadcast' = Idle
    /\ missed' = IF clients \subseteq broadcast.done THEN missed
                 ELSE missed \cup {broadcast.state.market}
    /\ UNCHANGED <<worker, requests, server, visits>>

\* The size has changed: the error is outside the try, and ends the task.
BroadcastDies ==
    /\ broadcast.phase = "sending" /\ ~SameSize
    /\ broadcast' = [Idle EXCEPT !.phase = "dead"]
    /\ UNCHANGED <<worker, requests, server, clients, visits, missed>>

-----------------------------------------------------------------------------
ClientStep(c) ==
    \/ Connect(c) \/ Greet(c) \/ Close(c) \/ Disconnected(c)
    \/ BroadcastContinues(c)

Next ==
    \/ \E m \in Markets : StateChanges(m) \/ Forward(m)
    \/ \E m \in Markets, reached \in BOOLEAN : ForwardFails(m, reached)
    \/ \E s \in requests : UpdateState(s)
    \/ \E c \in Clients : ClientStep(c)
    \/ BroadcastStarts \/ BroadcastEnds \/ BroadcastDies

Spec == Init /\ [][Next]_vars
-----------------------------------------------------------------------------
(* Properties.                                                             *)

\* When the broadcast task has nothing left to send, every client whose
\* greeting is over has been sent the latest state of every market, whatever
\* was sent to it while it was greeted (server.py:88-91).  What makes a
\* client miss one is a backlog that overflows, clients that trade places in
\* the middle of a broadcast, and the end of the broadcast task, and no more.
ClientsCurrent ==
    broadcast.phase = "idle" /\ backlog = <<>> =>
        \A c \in Clients : visits[c].phase = "listening" =>
            \A m \in Markets \ missed : visits[c].seen[m] = latest[m]

\* What the server shows of a market only goes back when a POST has timed
\* out and was read after the next one: a worker waits for each.
NoStepBack ==
    [][\A m \in Markets : latest'[m] < latest[m] => m \in late]_vars
=============================================================================
