----------------------------- MODULE Supervisor -----------------------------
(***************************************************************************)
(* The supervisor (src/src/main.py): it starts one worker process for the  *)
(* market that is open, then, ahead of every window, one for the next; it  *)
(* keeps a table of them that a watcher task per process clears, and       *)
(* terminates those it still knows of when it stops.                       *)
(*                                                                         *)
(* `ticks' is the monotonic clock asyncio sleeps by; the wall clock, which *)
(* decides what the current and the next market are, may be set back.      *)
(* sleep_until reads the wall clock once, when it starts.  Looking a       *)
(* market up is an HTTP call made on the event loop: no other task of the  *)
(* supervisor runs meanwhile.  A worker's inside is modelled elsewhere:    *)
(* here it boots, trades, settles and exits, or fails at any time.         *)
(***************************************************************************)
EXTENDS Integers, Sequences

CONSTANTS
    Window,    \* WINDOW_5M_S: length of a market
    Prewarm,   \* _MARKET_PREWARM_S: how long before its start a worker starts
    MaxTries,  \* _SETTLE_TIMEOUT_S: attempts to read a market's result
    Late,      \* bound: how long a wake, a lookup or a spawn may lag
    MaxBack,   \* bound: how far the wall clock is set back in all
    MaxTicks   \* bound: length of the run

ASSUME TimeAssumption ==
    /\ Window \in Nat \ {0} /\ Prewarm \in Nat /\ MaxTries \in Nat
    /\ Late \in Nat /\ MaxBack \in Nat /\ MaxTicks \in Nat

VARIABLES
    pc,        \* where run_supervisor is suspended or blocked
    market,    \* start of the market being looked up, awaited or spawned
    due,       \* tick at which the wake, the lookup or the spawn is due
    ticks,     \* the monotonic clock
    back,      \* how far the wall clock was set back
    procs,     \* every worker process ever created
    running,   \* the processes in the table, by market
    watchers   \* the processes whose watcher task waits for their exit

clocks == <<ticks, back>>
loop == <<pc, market, due>>
workers == <<procs, running, watchers>>
vars == <<loop, clocks, workers>>

-----------------------------------------------------------------------------
Wall == ticks - back

\* _current_window_s: start of the window the wall clock is in.
CurrentWindow == Wall - (Wall % Window)

\* Mutant: the market after the one that comes next.
NextButOne == CurrentWindow + 2 * Window

NextWindow == CurrentWindow + Window

\* sleep_until: the tick at which a sleep that starts now is over.  It does
\* not suspend for a time that is past, and then there is no wake to be late.
WakesAt(time) == IF time > Wall THEN ticks + time - Wall ELSE ticks - Late

ProcessRecord ==
    [market : Int, phase : {"booting", "trading", "settling", "exited", "reaped"},
     ends : Int, tries : Nat]

Process(m, phase) == [market |-> m, phase |-> phase, ends |-> 0, tries |-> 0]

Exited(i) == procs[i].phase \in {"exited", "reaped"}

\* proc.returncode is set once asyncio has reaped the process.
Reaped(i) == procs[i].phase = "reaped"

\* Mutant: the table is not consulted before a worker is started.
HasNoWorker(m) == FALSE

\* Whether the table holds a process of the market that is not over.
HasWorker(m) == \E i \in running : procs[i].market = m /\ ~Reaped(i)

Blocked == pc \in {"boot", "lookup"}

Active == {"boot", "spawn_first", "lookup", "prewarm", "spawn", "start"}

Init ==
    /\ ticks \in Window .. 2 * Window - 1 /\ back = 0
    /\ pc = "boot" /\ due = ticks /\ market = CurrentWindow
    /\ procs = <<>> /\ running = {} /\ watchers = {}

(***************************************************************************)
(* run_supervisor and _create_worker.                                      *)
(***************************************************************************)
\* The current market is found, and its worker is spawned.
BootReturns ==
    /\ pc = "boot" /\ pc' = "spawn_first" /\ due' = ticks
    /\ UNCHANGED <<market, clocks, workers>>

\* The next market is found: sleep until shortly before it starts.
LookupReturns ==
    /\ pc = "lookup" /\ pc' = "prewarm" /\ due' = WakesAt(market - Prewarm)
    /\ UNCHANGED <<market, clocks, workers>>

SleepUntilStart == pc' = "start" /\ due' = WakesAt(market) /\ market' = market

LookUpNext == pc' = "lookup" /\ due' = ticks /\ market' = NextWindow

\* A worker is not started twice, should the clock offer its market again.
PrewarmWakes ==
    /\ pc = "prewarm" /\ ticks >= due
    /\ IF HasWorker(market)
       THEN SleepUntilStart
       ELSE pc' = "spawn" /\ due' = ticks /\ market' = market
    /\ UNCHANGED <<clocks, workers>>

SpawnReturns ==
    /\ pc \in {"spawn_first", "spawn"}
    /\ procs' = Append(procs, Process(market, "booting"))
    /\ running' = {i \in running : procs[i].market # market} \cup {Len(procs) + 1}
    /\ watchers' = watchers \cup {Len(procs) + 1}
    /\ IF pc = "spawn" THEN SleepUntilStart ELSE LookUpNext
    /\ UNCHANGED clocks

StartWakes ==
    /\ pc = "start" /\ ticks >= due
    /\ LookUpNext
    /\ UNCHANGED <<clocks, workers>>

\* Cancelled while suspended, or a lookup or a spawn raises: the watchers
\* are cancelled on the way out.  asyncio kills a process whose spawn is
\* cancelled.
Stop ==
    /\ pc \in Active /\ pc' = "terminating"
    /\ watchers' = {}
    /\ UNCHANGED <<market, due, clocks, procs, running>>

\* _terminate_workers: SIGTERM ends a worker where it stands, with its orders
\* open; nothing is sent to one that asyncio knows is over.
Terminate ==
    /\ pc = "terminating" /\ pc' = "draining"
    /\ procs' = [i \in DOMAIN procs |->
                   IF i \in running /\ ~Exited(i)
                   THEN Process(procs[i].market, "exited") ELSE procs[i]]
    /\ UNCHANGED <<market, due, clocks, running, watchers>>

Drained ==
    /\ pc = "draining" /\ \A i \in running : Reaped(i)
    /\ pc' = "ended"
    /\ UNCHANGED <<market, due, clocks, workers>>

(***************************************************************************)
(* The processes, asyncio's notice of their exit, and _watch_worker.       *)
(***************************************************************************)
Becomes(i, phase) == procs' = [procs EXCEPT ![i] = Process(procs[i].market, phase)]

\* The worker has its market and its components run; its settlement task
\* sleeps until the end of the market.
WorkerBoots(i) ==
    /\ procs[i].phase = "booting"
    /\ procs' = [procs EXCEPT ![i] = [Process(@.market, "trading") EXCEPT
                                        !.ends = WakesAt(procs[i].market + Window)]]
    /\ UNCHANGED <<loop, clocks, running, watchers>>

MarketEnds(i) ==
    /\ procs[i].phase = "trading" /\ ticks >= procs[i].ends
    /\ Becomes(i, "settling")
    /\ UNCHANGED <<loop, clocks, running, watchers>>

\* The result is not there yet, and there are attempts left.
SettleAgain(i) ==
    /\ procs[i].phase = "settling" /\ procs[i].tries + 1 < MaxTries
    /\ procs' = [procs EXCEPT ![i].tries = @ + 1]
    /\ UNCHANGED <<loop, clocks, running, watchers>>

\* Settled, out of attempts, no such market, or an error of a component.
WorkerExits(i) ==
    /\ ~Exited(i)
    /\ Becomes(i, "exited")
    /\ UNCHANGED <<loop, clocks, running, watchers>>

Reap(i) ==
    /\ procs[i].phase = "exited" /\ ~Blocked
    /\ Becomes(i, "reaped")
    /\ UNCHANGED <<loop, clocks, running, watchers>>

\* Mutant: the entry of the market goes, whichever process it is.
WithoutMarket(i) == {j \in running : procs[j].market # procs[i].market}

Without(i) == running \ {i}

\* The watcher clears the table unless the entry is another process by now.
WatcherReturns(i) ==
    /\ i \in watchers /\ Reaped(i) /\ ~Blocked
    /\ running' = Without(i)
    /\ watchers' = watchers \ {i}
    /\ UNCHANGED <<loop, clocks, procs>>

(***************************************************************************)
(* The clocks.                                                             *)
(***************************************************************************)
Tick ==
    /\ ticks < MaxTicks
    /\ pc \in Active => ticks < due + Late
    /\ ticks' = ticks + 1
    /\ UNCHANGED <<loop, back, workers>>

SetBack ==
    /\ back < MaxBack
    /\ back' \in back + 1 .. MaxBack
    /\ UNCHANGED <<loop, ticks, workers>>

WorkerStep(i) ==
    \/ WorkerBoots(i) \/ MarketEnds(i) \/ SettleAgain(i)
    \/ WorkerExits(i) \/ Reap(i) \/ WatcherReturns(i)

Next ==
    \/ BootReturns \/ LookupReturns \/ PrewarmWakes \/ SpawnReturns
    \/ StartWakes \/ Stop \/ Terminate \/ Drained
    \/ \E i \in DOMAIN procs : WorkerStep(i)
    \/ Tick \/ SetBack

\* The way out is left to no one else: the loop runs, and asyncio reaps a
\* child that has exited.
Fairness ==
    /\ WF_vars(Terminate) /\ WF_vars(Drained)
    /\ WF_vars(pc = "draining" /\ \E i \in DOMAIN procs : Reap(i))

Spec == Init /\ [][Next]_vars /\ Fairness
-----------------------------------------------------------------------------
(* Properties.                                                             *)

\* Every variable has its type: the table and the watchers name processes
\* that were created, and nothing else.
TypeOK ==
    /\ pc \in Active \cup {"terminating", "draining", "ended"}
    /\ market \in Int /\ due \in Int /\ ticks \in Nat /\ back \in Nat
    /\ procs \in Seq(ProcessRecord)
    /\ running \subseteq DOMAIN procs /\ watchers \subseteq DOMAIN procs

\* No market is traded by two workers at a time: each would open the
\* position the strategy asks for.  The clock may offer a market twice, and
\* the process in the table may be over before its watcher has noticed
\* (main.py:198, main.py:236).
OneWorkerPerMarket ==
    \A i, j \in DOMAIN procs :
        procs[i].market = procs[j].market /\ ~Exited(i) /\ ~Exited(j) => i = j

\* Once the supervisor has ended, no worker it created is left trading:
\* every process that is not over is in the table it terminates from.
NoneLeftBehind == pc = "ended" => \A i \in DOMAIN procs : Exited(i)

\* Every market from the third on has a worker started for it by the time
\* it opens, or as late as the wake and the spawn before it were, wherever
\* the clock was set back: a market skipped is never come back to.  The
\* second is missed when it opens while the first worker is being spawned.
NoMarketSkipped ==
    pc \in Active /\ procs # <<>> =>
        \A m \in procs[1].market + 2 * Window .. Wall - 2 * Late :
            m % Window = 0 => \E i \in DOMAIN procs : procs[i].market = m

\* Once it stops, the supervisor ends, with no worker left trading: it waits
\* for the processes it has terminated, and for no other.
ShutdownCompletes ==
    pc = "terminating" ~> pc = "ended" /\ \A i \in DOMAIN procs : Exited(i)
=============================================================================
