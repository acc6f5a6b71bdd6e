---------------------------- MODULE EventChannel ----------------------------
(***************************************************************************)
(* What the event bus promises, with its queues, tasks and policies hidden.*)
(* Every publisher has a channel to every subscriber.  A subscriber sees a *)
(* publisher's events in the order they were published, each at most once, *)
(* and a reliable subscriber sees all of them unless the publisher fails   *)
(* in the middle of a publication.                                         *)
(***************************************************************************)
EXTENDS Integers, SequencesExt

CONSTANTS Publishers, Subscribers,
          Reliable        \* the subscribers that may not lose an event

VARIABLES sent,           \* publisher -> number of events it has published
          offered,        \* publisher -> subscriber -> events published to it
          transit,        \* publisher -> subscriber -> events on their way
          seen,           \* publisher -> subscriber -> events received
          failed          \* publishers whose last publication raised

vars == <<sent, offered, transit, seen, failed>>

Channels == [Publishers -> [Subscribers -> Seq(Nat)]]
Empty == [p \in Publishers |-> [s \in Subscribers |-> <<>>]]

\* Everything of publisher p that has reached s or is still to reach it.
Delivery(p, s) == seen[p][s] \o transit[p][s]

Init ==
  /\ sent = [p \in Publishers |-> 0]
  /\ offered = Empty
  /\ transit = Empty
  /\ seen = Empty
  /\ failed = {}

\* The channels of p after event n was sent to an audience.
Extended(channels, p, audience, n) ==
  [channels EXCEPT ![p] =
     [s \in Subscribers |-> IF s \in audience THEN Append(channels[p][s], n)
                            ELSE channels[p][s]]]

\* An event is offered to all the subscribers of the moment at once.
Publish(p) ==
  /\ p \notin failed
  /\ sent' = [sent EXCEPT ![p] = sent[p] + 1]
  /\ \E audience \in SUBSET Subscribers :
       /\ offered' = Extended(offered, p, audience, sent[p] + 1)
       /\ transit' = Extended(transit, p, audience, sent[p] + 1)
  /\ UNCHANGED <<seen, failed>>

Receive(p, s) ==
  /\ transit[p][s] # <<>>
  /\ seen' = [seen EXCEPT ![p][s] = Append(seen[p][s], Head(transit[p][s]))]
  /\ transit' = [transit EXCEPT ![p][s] = Tail(transit[p][s])]
  /\ UNCHANGED <<sent, offered, failed>>

\* Only a subscriber that is not reliable loses events.
Lose(p, s) ==
  /\ s \notin Reliable
  /\ \E i \in DOMAIN transit[p][s] :
       transit' = [transit EXCEPT ![p][s] = RemoveAt(transit[p][s], i)]
  /\ UNCHANGED <<sent, offered, seen, failed>>

\* A publication that raises withdraws its event from those it has not reached.
Fail(p) ==
  /\ p \notin failed
  /\ failed' = failed \union {p}
  /\ \E unreached \in SUBSET {s \in Subscribers :
         transit[p][s] # <<>> /\ Last(transit[p][s]) = sent[p]} :
       transit' = [transit EXCEPT ![p] =
         [s \in Subscribers |-> IF s \in unreached THEN Front(transit[p][s])
                                ELSE transit[p][s]]]
  /\ UNCHANGED <<sent, offered, seen>>

Next ==
  \E p \in Publishers :
    \/ Publish(p)
    \/ Fail(p)
    \/ \E s \in Subscribers : Receive(p, s) \/ Lose(p, s)

Spec == Init /\ [][Next]_vars

-----------------------------------------------------------------------------
TypeOK ==
  /\ sent \in [Publishers -> Nat]
  /\ offered \in Channels
  /\ transit \in Channels
  /\ seen \in Channels
  /\ failed \subseteq Publishers

Increasing(w) == \A i, j \in 1..Len(w) : i < j => w[i] < w[j]

\* bus.py:70-75: a subscriber sees the events of one publisher in the order they
\* were published, each at most once, whatever is lost on the way.
InOrder ==
  \A p \in Publishers, s \in Subscribers : Increasing(Delivery(p, s))

\* bus.py:78-81: what was offered to a subscriber that may not lose events has
\* been seen or is on its way, in that order, unless its publisher has raised.
NothingLost ==
  \A p \in Publishers \ failed, s \in Subscribers \intersect Reliable : Delivery(p, s) = offered[p][s]
=============================================================================
