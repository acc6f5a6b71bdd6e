------------------------- MODULE Supervisor_proofs -------------------------
(***************************************************************************)
(* No two workers of one market, and none left trading by a supervisor     *)
(* that has ended, whatever the lengths, the delays and the clock; and no  *)
(* market skipped, if the delays are short against a window.               *)
(***************************************************************************)
EXTENDS Supervisor, TLAPS

Steps == Active \cup {"terminating", "draining", "ended"}

\* A process that is not reaped is the table's entry of its market: so the
\* table, which is all that _create_worker and _terminate_workers look at,
\* tells of every process that may still run.
TableInv ==
    /\ procs \in Seq(ProcessRecord)
    /\ running \subseteq DOMAIN procs
    /\ \A i \in DOMAIN procs : ~Reaped(i) => i \in running
    /\ \A i, j \in running : procs[i].market = procs[j].market => i = j

\* What the table says where the supervisor is suspended: the guard of a
\* spawn still holds when it returns, and all are over at the end.
SpawnInv ==
    /\ pc \in Steps
    /\ pc \in {"boot", "spawn_first"} => procs = <<>>
    /\ pc = "spawn" => ~HasWorker(market)
    /\ pc = "ended" => \A i \in running : Reaped(i)

ClockInv ==
    /\ market \in Int /\ due \in Int /\ ticks \in Nat /\ back \in Nat
    /\ watchers \subseteq DOMAIN procs

IInv == TableInv /\ SpawnInv /\ ClockInv

-----------------------------------------------------------------------------
LEMMA ProcessInRecord ==
  ASSUME NEW m \in Int,
         NEW p \in {"booting", "trading", "settling", "exited", "reaped"}
  PROVE  /\ Process(m, p) \in ProcessRecord
         /\ Process(m, p).market = m /\ Process(m, p).phase = p
  BY DEF Process, ProcessRecord

LEMMA RecordFields ==
  ASSUME NEW r \in ProcessRecord
  PROVE  /\ r.market \in Int /\ r.tries \in Nat
         /\ r.phase \in {"booting", "trading", "settling", "exited", "reaped"}
  BY DEF ProcessRecord

LEMMA WakesAtInt ==
  ASSUME ClockInv, NEW time \in Int
  PROVE  WakesAt(time) \in Int
  BY TimeAssumption DEF ClockInv, WakesAt, Wall

LEMMA WindowInt ==
  ASSUME ticks \in Nat, back \in Nat
  PROVE  CurrentWindow \in Int /\ NextWindow \in Int
<1>1. Wall \in Int
  BY DEF Wall
<1>2. Wall % Window \in Int
  BY <1>1, TimeAssumption
<1> QED
  BY <1>1, <1>2, TimeAssumption DEF CurrentWindow, NextWindow

\* A process changes, but not its market, and what is reaped stays so.
LEMMA ProcessChanges ==
  ASSUME TableInv, NEW i \in DOMAIN procs, NEW r \in ProcessRecord,
         procs' = [procs EXCEPT ![i] = r], r.market = procs[i].market,
         Reaped(i) => r.phase = "reaped", running' = running
  PROVE  /\ TableInv' /\ DOMAIN procs' = DOMAIN procs
         /\ \A j \in DOMAIN procs : procs'[j].market = procs[j].market
         /\ \A j \in DOMAIN procs : Reaped(j) => Reaped(j)'
<1>1. procs' \in Seq(ProcessRecord) /\ DOMAIN procs' = DOMAIN procs
  BY DEF TableInv
<1>2. \A j \in DOMAIN procs : procs'[j] = IF j = i THEN r ELSE procs[j]
  BY DEF TableInv
<1>3. \A j \in DOMAIN procs : procs'[j].market = procs[j].market
  BY <1>2
<1>4. \A j \in DOMAIN procs : Reaped(j) => Reaped(j)'
  BY <1>2 DEF Reaped
<1>5. \A j \in DOMAIN procs' : ~Reaped(j)' => j \in running'
  BY <1>1, <1>4 DEF TableInv
<1>6. \A j, k \in running' : procs'[j].market = procs'[k].market => j = k
  BY <1>3 DEF TableInv
<1> QED
  BY <1>1, <1>3, <1>4, <1>5, <1>6 DEF TableInv

\* Such a change leaves what the supervisor relies on.
LEMMA SpawnInvKept ==
  ASSUME TableInv, SpawnInv, UNCHANGED loop, running' \subseteq running,
         DOMAIN procs' = DOMAIN procs,
         procs = <<>> => procs' = <<>>,
         \A j \in DOMAIN procs : procs'[j].market = procs[j].market,
         \A j \in DOMAIN procs : Reaped(j) => Reaped(j)'
  PROVE  SpawnInv'
<1>1. pc' = pc /\ market' = market
  BY DEF loop
<1>2. ~HasWorker(market) => ~HasWorker(market)'
  BY <1>1 DEF HasWorker, TableInv
<1>3. pc' = "ended" => \A i \in running' : Reaped(i)'
  BY <1>1 DEF SpawnInv, TableInv
<1> QED
  BY <1>1, <1>2, <1>3 DEF SpawnInv

LEMMA WorkerKeepsIInv ==
  ASSUME IInv, NEW i \in DOMAIN procs, NEW r \in ProcessRecord,
         procs' = [procs EXCEPT ![i] = r], r.market = procs[i].market,
         Reaped(i) => r.phase = "reaped",
         UNCHANGED <<loop, clocks, running, watchers>>
  PROVE  IInv'
<1>1. /\ TableInv' /\ DOMAIN procs' = DOMAIN procs
      /\ \A j \in DOMAIN procs : procs'[j].market = procs[j].market
      /\ \A j \in DOMAIN procs : Reaped(j) => Reaped(j)'
  BY ProcessChanges DEF IInv
<1>2. procs # <<>>
  OBVIOUS
<1>3. SpawnInv'
  BY <1>1, <1>2, SpawnInvKept DEF IInv
<1>4. ClockInv'
  BY <1>1 DEF IInv, ClockInv, loop, clocks
<1> QED
  BY <1>1, <1>3, <1>4 DEF IInv

-----------------------------------------------------------------------------
LEMMA InitIInv == Init => IInv
<1> SUFFICES ASSUME Init PROVE IInv
  OBVIOUS
<1>1. ticks \in Nat /\ back \in Nat
  BY TimeAssumption DEF Init
<1>2. market \in Int
  BY <1>1, WindowInt DEF Init
<1>3. TableInv
  BY DEF Init, TableInv
<1> QED
  BY <1>1, <1>2, <1>3 DEF Init, IInv, SpawnInv, ClockInv, Steps, Active

\* The supervisor moves on, and the table is not touched.
LEMMA LoopKeepsTable ==
  ASSUME IInv, UNCHANGED workers
  PROVE  TableInv' /\ watchers' \subseteq DOMAIN procs'
  BY DEF IInv, TableInv, ClockInv, workers, Reaped

LEMMA SleepUntilStartInt ==
  ASSUME ClockInv, SleepUntilStart
  PROVE  market' \in Int /\ due' \in Int /\ pc' = "start"
  BY WakesAtInt DEF SleepUntilStart, ClockInv

LEMMA LookUpNextInt ==
  ASSUME ClockInv, LookUpNext
  PROVE  market' \in Int /\ due' \in Int /\ pc' = "lookup"
  BY WindowInt DEF LookUpNext, ClockInv

LEMMA LookupKeepsIInv ==
  ASSUME IInv, BootReturns \/ LookupReturns \/ StartWakes
  PROVE  IInv'
<1>1. UNCHANGED <<clocks, workers>> /\ ClockInv
  BY DEF BootReturns, LookupReturns, StartWakes, IInv
<1>2. TableInv' /\ watchers' \subseteq DOMAIN procs'
  BY <1>1, LoopKeepsTable
<1>3. market' \in Int /\ due' \in Int
  <2>1. CASE BootReturns
    BY <1>1, <2>1 DEF BootReturns, ClockInv
  <2>2. CASE LookupReturns
    <3>1. market - Prewarm \in Int
      BY <1>1, TimeAssumption DEF ClockInv
    <3> QED
      BY <1>1, <2>2, <3>1, WakesAtInt DEF LookupReturns, ClockInv
  <2>3. CASE StartWakes
    BY <1>1, <2>3, LookUpNextInt DEF StartWakes
  <2> QED
    BY <2>1, <2>2, <2>3
<1>4. SpawnInv'
  <2>1. CASE BootReturns
    BY <2>1 DEF BootReturns, workers, IInv, SpawnInv, Steps, Active
  <2>2. CASE LookupReturns \/ StartWakes
    BY <2>2 DEF LookupReturns, StartWakes, LookUpNext, SpawnInv, Steps, Active
  <2> QED
    BY <2>1, <2>2
<1> QED
  BY <1>1, <1>2, <1>3, <1>4 DEF IInv, ClockInv, clocks

\* The guard of _create_worker, evaluated where the spawn begins.
LEMMA PrewarmKeepsIInv ==
  ASSUME IInv, PrewarmWakes
  PROVE  IInv'
<1>1. UNCHANGED <<clocks, workers>> /\ ClockInv
  BY DEF PrewarmWakes, IInv
<1>2. TableInv' /\ watchers' \subseteq DOMAIN procs'
  BY <1>1, LoopKeepsTable
<1>3. CASE HasWorker(market)
  <2>1. market' \in Int /\ due' \in Int /\ pc' = "start"
    BY <1>1, <1>3, SleepUntilStartInt DEF PrewarmWakes
  <2> QED
    BY <1>1, <1>2, <2>1 DEF IInv, ClockInv, SpawnInv, Steps, Active, clocks
<1>4. CASE ~HasWorker(market)
  <2>1. pc' = "spawn" /\ due' = ticks /\ market' = market
    BY <1>4 DEF PrewarmWakes
  <2>2. ~HasWorker(market)'
    BY <1>1, <1>4, <2>1 DEF HasWorker, Reaped, workers
  <2> QED
    BY <1>1, <1>2, <2>1, <2>2 DEF IInv, ClockInv, SpawnInv, Steps, Active, clocks
<1> QED
  BY <1>3, <1>4

\* The entry that a new process replaces is over, because the guard held
\* when the spawn began and what is reaped stays so.
LEMMA SpawnKeepsIInv ==
  ASSUME IInv, SpawnReturns
  PROVE  IInv'
<1> DEFINE n == Len(procs) + 1
           r == Process(market, "booting")
<1>1. r \in ProcessRecord /\ r.market = market /\ r.phase = "booting"
  BY ProcessInRecord DEF IInv, ClockInv
<1>2. procs' = Append(procs, r) /\ UNCHANGED clocks /\ ClockInv
  BY DEF SpawnReturns, IInv
<1>3. running' = {i \in running : procs[i].market # market} \cup {n}
  BY DEF SpawnReturns
<1>4. watchers' = watchers \cup {n}
  BY DEF SpawnReturns
<1> HIDE DEF r
<1>5. /\ procs' \in Seq(ProcessRecord) /\ DOMAIN procs' = DOMAIN procs \cup {n}
      /\ n \notin DOMAIN procs /\ procs'[n] = r
      /\ \A i \in DOMAIN procs : procs'[i] = procs[i]
  BY <1>1, <1>2 DEF IInv, TableInv
<1>6. \A i \in running : procs[i].market = market => Reaped(i)
  BY DEF IInv, SpawnInv, TableInv, SpawnReturns, HasWorker
<1>7. \A i \in DOMAIN procs' : ~Reaped(i)' => i \in running'
  BY <1>3, <1>5, <1>6 DEF IInv, TableInv, Reaped
<1>8. \A i, j \in running' : procs'[i].market = procs'[j].market => i = j
  BY <1>1, <1>3, <1>5 DEF IInv, TableInv
<1>9. TableInv'
  BY <1>3, <1>5, <1>7, <1>8 DEF IInv, TableInv
<1>10. market' \in Int /\ due' \in Int /\ pc' \in {"start", "lookup"}
  BY <1>2, SleepUntilStartInt, LookUpNextInt DEF SpawnReturns
<1>11. SpawnInv'
  BY <1>10 DEF SpawnInv, Steps, Active
<1>12. ClockInv'
  BY <1>2, <1>4, <1>5, <1>10 DEF ClockInv, clocks
<1> QED
  BY <1>9, <1>11, <1>12 DEF IInv

LEMMA StopKeepsIInv ==
  ASSUME IInv, Stop \/ Drained
  PROVE  IInv'
<1>1. /\ UNCHANGED <<market, due, clocks, procs, running>>
      /\ watchers' \subseteq watchers /\ pc' \in {"terminating", "ended"}
  BY DEF Stop, Drained, workers
<1>2. pc' = "ended" => \A i \in running : Reaped(i)
  BY DEF Stop, Drained
<1> QED
  BY <1>1, <1>2 DEF IInv, TableInv, SpawnInv, ClockInv, Reaped, Steps, Active, clocks

LEMMA TerminateKeepsIInv ==
  ASSUME IInv, Terminate
  PROVE  IInv'
<1> DEFINE q(i) == Process(procs[i].market, "exited")
<1>1. \A i \in DOMAIN procs : procs[i] \in ProcessRecord
  BY DEF IInv, TableInv
<1>2. \A i \in DOMAIN procs : q(i) \in ProcessRecord /\ q(i).market = procs[i].market
  BY <1>1, RecordFields, ProcessInRecord
<1> HIDE DEF q
<1>3. procs' = [i \in DOMAIN procs |->
                  IF i \in running /\ ~Exited(i) THEN q(i) ELSE procs[i]]
  BY DEF Terminate, q
<1>4. /\ DOMAIN procs' = DOMAIN procs
      /\ \A i \in DOMAIN procs :
           procs'[i] = IF i \in running /\ ~Exited(i) THEN q(i) ELSE procs[i]
  BY <1>3
<1>5. procs' \in Seq(ProcessRecord)
  <2>1. DOMAIN procs = 1 .. Len(procs) /\ Len(procs) \in Nat
    BY DEF IInv, TableInv
  <2>2. procs' \in [1 .. Len(procs) -> ProcessRecord]
    BY <1>1, <1>2, <1>3, <2>1
  <2> QED
    BY <2>1, <2>2
<1>6. \A i \in DOMAIN procs : procs'[i].market = procs[i].market
  BY <1>2, <1>4
<1>7. \A i \in DOMAIN procs : Reaped(i) => Reaped(i)'
  BY <1>4 DEF Reaped, Exited
<1>8. pc' = "draining" /\ UNCHANGED <<market, due, clocks, running, watchers>>
  BY DEF Terminate
<1>9. TableInv'
  BY <1>4, <1>5, <1>6, <1>7, <1>8 DEF IInv, TableInv
<1> QED
  BY <1>4, <1>8, <1>9 DEF IInv, SpawnInv, ClockInv, Steps, clocks

LEMMA WatcherKeepsIInv ==
  ASSUME IInv, NEW i \in DOMAIN procs, WatcherReturns(i)
  PROVE  IInv'
<1>1. /\ running' = running \ {i} /\ watchers' = watchers \ {i} /\ Reaped(i)
      /\ UNCHANGED <<loop, clocks, procs>>
  BY DEF WatcherReturns, Without
<1>2. \A j \in DOMAIN procs : Reaped(j)' = Reaped(j)
  BY <1>1 DEF Reaped
<1>3. TableInv'
  BY <1>1, <1>2 DEF IInv, TableInv
<1>4. SpawnInv'
  BY <1>1, <1>2, SpawnInvKept DEF IInv
<1> QED
  BY <1>1, <1>3, <1>4 DEF IInv, ClockInv, loop, clocks

LEMMA WorkerStepKeepsIInv ==
  ASSUME IInv, NEW i \in DOMAIN procs, WorkerStep(i)
  PROVE  IInv'
<1>1. procs[i] \in ProcessRecord
  BY DEF IInv, TableInv
<1>2. procs[i].market \in Int /\ procs[i].tries \in Nat
  BY <1>1, RecordFields
<1>3. CASE WorkerBoots(i)
  <2> DEFINE t == WakesAt(procs[i].market + Window)
             b == Process(procs[i].market, "trading")
             r == [b EXCEPT !.ends = t]
  <2>1. t \in Int
    BY <1>2, WakesAtInt, TimeAssumption DEF IInv
  <2>2. b \in ProcessRecord /\ b.market = procs[i].market
    BY <1>2, ProcessInRecord
  <2>3. procs' = [procs EXCEPT ![i] = r]
    BY <1>3 DEF WorkerBoots
  <2>4. ~Reaped(i) /\ UNCHANGED <<loop, clocks, running, watchers>>
    BY <1>3 DEF WorkerBoots, Reaped
  <2> HIDE DEF t, b
  <2>5. r \in ProcessRecord /\ r.market = procs[i].market
    BY <2>1, <2>2 DEF ProcessRecord
  <2> HIDE DEF r
  <2> QED
    BY <2>3, <2>4, <2>5, WorkerKeepsIInv
<1>4. CASE MarketEnds(i) \/ WorkerExits(i) \/ Reap(i)
  <2>1. PICK p \in {"settling", "exited", "reaped"} :
          /\ Becomes(i, p) /\ (Reaped(i) => p = "reaped")
          /\ UNCHANGED <<loop, clocks, running, watchers>>
    BY <1>4 DEF MarketEnds, WorkerExits, Reap, Reaped, Exited
  <2> DEFINE r == Process(procs[i].market, p)
  <2>2. r \in ProcessRecord /\ r.market = procs[i].market /\ r.phase = p
    BY <1>2, ProcessInRecord
  <2>3. procs' = [procs EXCEPT ![i] = r]
    BY <2>1 DEF Becomes
  <2> HIDE DEF r
  <2> QED
    BY <2>1, <2>2, <2>3, WorkerKeepsIInv
<1>5. CASE SettleAgain(i)
  <2> DEFINE r == [procs[i] EXCEPT !.tries = procs[i].tries + 1]
  <2>1. r \in ProcessRecord /\ r.market = procs[i].market /\ r.phase = procs[i].phase
    BY <1>1, <1>2 DEF ProcessRecord
  <2>2. procs' = [procs EXCEPT ![i] = r]
    BY <1>5 DEF SettleAgain, IInv, TableInv
  <2>3. ~Reaped(i) /\ UNCHANGED <<loop, clocks, running, watchers>>
    BY <1>5 DEF SettleAgain, Reaped
  <2> HIDE DEF r
  <2> QED
    BY <2>1, <2>2, <2>3, WorkerKeepsIInv
<1> QED
  BY <1>3, <1>4, <1>5, WatcherKeepsIInv DEF WorkerStep

LEMMA ClocksKeepIInv ==
  ASSUME IInv, Tick \/ SetBack
  PROVE  IInv'
<1>1. UNCHANGED <<loop, workers>>
  BY DEF Tick, SetBack
<1>2. ticks' \in Nat /\ back' \in Nat
  BY TimeAssumption DEF Tick, SetBack, IInv, ClockInv
<1>3. TableInv' /\ watchers' \subseteq DOMAIN procs'
  BY <1>1, LoopKeepsTable
<1>4. SpawnInv'
  BY <1>1, SpawnInvKept DEF IInv, workers, Reaped
<1> QED
  BY <1>1, <1>2, <1>3, <1>4 DEF IInv, ClockInv, loop

LEMMA NextIInv == IInv /\ [Next]_vars => IInv'
<1> SUFFICES ASSUME IInv, [Next]_vars PROVE IInv'
  OBVIOUS
<1>1. CASE UNCHANGED vars
  BY <1>1 DEF vars, loop, clocks, workers, IInv, TableInv, SpawnInv, ClockInv, HasWorker, Reaped
<1>2. CASE Next
  BY <1>2, LookupKeepsIInv, PrewarmKeepsIInv, SpawnKeepsIInv, StopKeepsIInv,
     TerminateKeepsIInv, WorkerStepKeepsIInv, ClocksKeepIInv DEF Next
<1> QED
  BY <1>1, <1>2

LEMMA Invariance == Spec => []IInv
<1> QED
  BY InitIInv, NextIInv, PTL DEF Spec

\* Every variable of the supervisor has its type; the table and the watchers
\* name only processes that were created (main.py:159-160).
THEOREM TypeCorrect == Spec => []TypeOK
<1>1. IInv => TypeOK
  BY DEF IInv, TableInv, SpawnInv, ClockInv, TypeOK, Steps
<1> QED
  BY <1>1, Invariance, PTL

\* Two workers never run for one market, wherever the clock is set and
\* however late the supervisor wakes (main.py:198, main.py:236): one that
\* is not reaped is the table's entry of its market, and only one can be.
THEOREM OneWorkerCorrect == Spec => []OneWorkerPerMarket
<1>1. IInv => OneWorkerPerMarket
  BY DEF IInv, TableInv, OneWorkerPerMarket, Exited, Reaped
<1> QED
  BY <1>1, Invariance, PTL

\* A supervisor that has ended leaves no worker trading: the table it
\* terminates from and waits for holds every process that is not reaped
\* (main.py:240-248).
THEOREM NoneLeftBehindCorrect == Spec => []NoneLeftBehind
<1>1. IInv => NoneLeftBehind
  BY DEF IInv, TableInv, SpawnInv, NoneLeftBehind, Exited, Reaped
<1> QED
  BY <1>1, Invariance, PTL

-----------------------------------------------------------------------------
(* Windows                                                                 *)

LEMMA Division ==
  ASSUME NEW x \in Int
  PROVE  /\ x \div Window \in Int
         /\ x = (Window * (x \div Window)) + (x % Window)
         /\ x % Window \in 0..Window - 1
<1>1. Window \in Int /\ Window > 0
  BY TimeAssumption
<1> QED
  BY <1>1

LEMMA StepOver ==
  ASSUME NEW a \in Int, NEW b \in Int, a > b
  PROVE  Window * a >= (Window * b) + Window
  BY TimeAssumption

\* Two windows start at the same time or a window apart.
LEMMA WindowsApart ==
  ASSUME NEW m \in Int, NEW n \in Int, m % Window = 0, n % Window = 0, m < n + Window
  PROVE  m <= n
<1> DEFINE a == m \div Window
           b == n \div Window
<1>1. a \in Int /\ b \in Int /\ m = Window * a /\ n = Window * b
  <2>1. a \in Int /\ m = (Window * a) + 0
    BY Division
  <2>2. b \in Int /\ n = (Window * b) + 0
    BY Division
  <2> QED
    BY <2>1, <2>2, TimeAssumption
<1> HIDE DEF a, b
<1>2. ASSUME a > b PROVE FALSE
  BY <1>1, <1>2, StepOver, TimeAssumption
<1>3. CASE a = b
  BY <1>1, <1>3
<1>4. CASE b > a
  BY <1>1, <1>4, StepOver, TimeAssumption
<1> QED
  BY <1>1, <1>2, <1>3, <1>4

LEMMA MultipleOfWindow ==
  ASSUME NEW a \in Int
  PROVE  (Window * a) % Window = 0
<1>1. Window \in Int /\ Window > 0
  BY TimeAssumption
<1> QED
  BY <1>1

\* The window a time is in, and the one after it.
LEMMA RoundedDown ==
  ASSUME NEW x \in Int
  PROVE  LET m == x - (x % Window)
         IN /\ m \in Int /\ m + Window \in Int
            /\ m % Window = 0 /\ (m + Window) % Window = 0
            /\ m <= x /\ x < m + Window
<1> DEFINE m == x - (x % Window)
           a == x \div Window
<1>1. a \in Int /\ x = (Window * a) + (x % Window) /\ x % Window \in 0..Window - 1
  BY Division
<1>2. Window \in Int /\ Window > 0
  BY TimeAssumption
<1> HIDE DEF a
<1>3. m = Window * a /\ m + Window = Window * (a + 1) /\ a + 1 \in Int /\ m \in Int /\ m + Window \in Int
  BY <1>1, <1>2
<1>4. m % Window = 0 /\ (m + Window) % Window = 0
  BY <1>1, <1>3, MultipleOfWindow
<1>5. m <= x /\ x < m + Window
  BY <1>1, <1>2
<1> QED
  BY <1>3, <1>4, <1>5

-----------------------------------------------------------------------------
(* No market skipped                                                       *)

\* Every market before a time, from the third on, has had a worker.
StartedBefore(time) ==
    \A m \in Int :
        (m % Window = 0 /\ procs[1].market + 2 * Window <= m /\ m < time)
            => \E i \in DOMAIN procs : procs[i].market = m

\* How far the wall clock may have come where the supervisor is suspended, and
\* which markets have had a worker by then.
InTime ==
    /\ pc \in Active => ticks <= due + Late
    /\ pc = "boot" => due - back < market + Window
    /\ pc = "spawn_first" => due - back < market + Window + Late
    /\ pc \in {"lookup", "prewarm"} => due - back < market
    /\ pc = "spawn" => due - back < market + Late
    /\ pc = "start" => due - back < market + Late \/ due - back <= market

Started ==
    /\ pc \in {"lookup", "prewarm", "spawn", "start"} => procs # <<>> /\ market % Window = 0
    /\ pc \in {"lookup", "prewarm", "spawn"} => StartedBefore(market)
    /\ pc = "start" => StartedBefore(market + Window)

SkipInv == InTime /\ Started

LEMMA WindowFacts ==
  ASSUME IInv
  PROVE  /\ market \in Int /\ due \in Int /\ ticks \in Int /\ back \in Int /\ Wall = ticks - back
         /\ Wall \in Int /\ CurrentWindow \in Int /\ NextWindow \in Int
         /\ CurrentWindow % Window = 0 /\ NextWindow % Window = 0
         /\ NextWindow = CurrentWindow + Window
         /\ CurrentWindow <= Wall /\ Wall < NextWindow
<1>1. market \in Int /\ due \in Int /\ ticks \in Int /\ back \in Int
  BY DEF IInv, ClockInv
<1>2. Wall = ticks - back /\ Wall \in Int
  BY <1>1 DEF Wall
<1> QED
  BY <1>1, <1>2, RoundedDown DEF CurrentWindow, NextWindow

\* A worker of the market makes the next one the first without.
LEMMA OneMoreStarted ==
  ASSUME market \in Int, market % Window = 0, StartedBefore(market),
         NEW i \in DOMAIN procs, procs[i].market = market
  PROVE  StartedBefore(market + Window)
<1> SUFFICES ASSUME NEW m \in Int, m % Window = 0, procs[1].market + 2 * Window <= m, m < market + Window
             PROVE  \E j \in DOMAIN procs : procs[j].market = m
  BY DEF StartedBefore
<1>1. m <= market
  BY WindowsApart
<1> QED
  BY <1>1 DEF StartedBefore

\* What a time was said of stays true while workers are added.
LEMMA StartedKept ==
  ASSUME TableInv, procs # <<>>, DOMAIN procs \subseteq DOMAIN procs',
         \A i \in DOMAIN procs : procs'[i].market = procs[i].market,
         NEW time, StartedBefore(time)
  PROVE  \A m \in Int :
           (m % Window = 0 /\ procs'[1].market + 2 * Window <= m /\ m < time)
             => \E i \in DOMAIN procs' : procs'[i].market = m
<1>1. 1 \in DOMAIN procs
  BY DEF TableInv
<1> QED
  BY <1>1 DEF StartedBefore

LEMMA SkipInvInit == IInv /\ Init => SkipInv
<1> SUFFICES ASSUME IInv, Init PROVE SkipInv
  OBVIOUS
<1>1. pc = "boot" /\ due = ticks /\ back = 0 /\ market = CurrentWindow
  BY DEF Init
<1> QED
  BY <1>1, WindowFacts, TimeAssumption DEF SkipInv, InTime, Started

\* Setting the clock back, or a tick that is not too late, keeps it in time.
LEMMA InTimeElsewhere ==
  ASSUME IInv, InTime, UNCHANGED loop,
         NEW k \in Int, back' = k, k >= back, pc \in Active => ticks' <= due + Late
  PROVE  InTime'
<1>1. pc' = pc /\ market' = market /\ due' = due
  BY DEF loop
<1>2. market \in Int /\ due \in Int /\ back \in Int /\ Late \in Int /\ Window \in Int
  BY TimeAssumption DEF IInv, ClockInv
<1>3. due - k <= due - back /\ due - k \in Int /\ due - back \in Int
  BY <1>2
<1>4. due' - back' = due - k
  BY <1>1
<1> QED
  BY <1>1, <1>2, <1>3, <1>4 DEF InTime

\* The supervisor stays where it is while workers change or the clock moves.
LEMMA SkipInvElsewhere ==
  ASSUME IInv, SkipInv, UNCHANGED loop, DOMAIN procs' = DOMAIN procs,
         procs # <<>> => procs' # <<>>,
         \A i \in DOMAIN procs : procs'[i].market = procs[i].market,
         NEW k \in Int, back' = k, k >= back, pc \in Active => ticks' <= due + Late
  PROVE  SkipInv'
<1>1. pc' = pc /\ market' = market /\ due' = due
  BY DEF loop
<1>2. InTime'
  BY InTimeElsewhere DEF SkipInv
<1>3. Started'
  BY <1>1, StartedKept DEF IInv, SkipInv, Started, StartedBefore
<1> QED
  BY <1>2, <1>3 DEF SkipInv

LEMMA SleepsUntil ==
  ASSUME IInv, SkipInv, pc \in Active, NEW time \in Int
  PROVE  /\ WakesAt(time) \in Int /\ ticks <= WakesAt(time) + Late
         /\ \/ WakesAt(time) - back = time
            \/ WakesAt(time) <= due
<1>1. /\ due \in Int /\ ticks \in Int /\ back \in Int /\ Wall = ticks - back /\ ticks <= due + Late
      /\ Late \in Nat
  BY WindowFacts, TimeAssumption DEF SkipInv, InTime
<1> QED
  BY <1>1 DEF WakesAt

\* The supervisor has moved on to a next market, looked up at a time at which all
\* before it have had a worker.
LEMMA LooksUp ==
  ASSUME IInv, LookUpNext, procs' # <<>>, ticks' = ticks, back' = back,
         \A m \in Int : (m % Window = 0 /\ procs'[1].market + 2 * Window <= m /\ m <= Wall)
                          => \E i \in DOMAIN procs' : procs'[i].market = m
  PROVE  SkipInv'
<1>1. pc' = "lookup" /\ due' = ticks /\ market' = NextWindow
  BY DEF LookUpNext
<1>2. InTime'
  BY <1>1, WindowFacts, TimeAssumption DEF InTime
<1>3. ASSUME NEW m \in Int, m % Window = 0, procs'[1].market + 2 * Window <= m, m < market'
      PROVE  \E i \in DOMAIN procs' : procs'[i].market = m
  <2>1. m <= CurrentWindow
    BY <1>1, <1>3, WindowFacts, WindowsApart
  <2> QED
    BY <1>3, <2>1, WindowFacts
<1>4. StartedBefore(market)'
  BY <1>3 DEF StartedBefore
<1> QED
  BY <1>1, <1>2, <1>4, WindowFacts DEF SkipInv, Started

\* It sleeps until the start of a market that has a worker.
LEMMA SleepsOn ==
  ASSUME IInv, SkipInv, pc \in {"prewarm", "spawn"}, SleepUntilStart, procs' # <<>>,
         ticks' = ticks, back' = back, StartedBefore(market + Window)'
  PROVE  SkipInv'
<1>1. pc' = "start" /\ due' = WakesAt(market) /\ market' = market
  BY DEF SleepUntilStart
<1>2. /\ market \in Int /\ due \in Int /\ back \in Int /\ Late \in Nat
      /\ due - back < market + Late /\ market % Window = 0
  BY TimeAssumption, WindowFacts DEF SkipInv, InTime, Started
<1>3. /\ WakesAt(market) \in Int /\ ticks <= WakesAt(market) + Late
      /\ WakesAt(market) - back = market \/ WakesAt(market) <= due
  BY <1>2, SleepsUntil DEF Active
<1>4. due' - back < market + Late \/ due' - back <= market
  BY <1>1, <1>2, <1>3
<1>5. InTime'
  BY <1>1, <1>3, <1>4 DEF InTime
<1> QED
  BY <1>1, <1>2, <1>5 DEF SkipInv, Started

LEMMA SkipInvBoot ==
  ASSUME IInv, SkipInv, BootReturns
  PROVE  SkipInv'
<1>1. pc = "boot" /\ pc' = "spawn_first" /\ due' = ticks /\ market' = market /\ back' = back /\ ticks' = ticks
  BY DEF BootReturns, clocks
<1>2. /\ ticks <= due + Late /\ due - back < market + Window /\ Late \in Nat /\ Window \in Int
      /\ market \in Int /\ due \in Int /\ ticks \in Int /\ back \in Int
  BY <1>1, WindowFacts, TimeAssumption DEF SkipInv, InTime, Active
<1>3. ticks - back < market + Window + Late /\ ticks <= ticks + Late
  BY <1>2
<1> QED
  BY <1>1, <1>3 DEF SkipInv, InTime, Started

LEMMA SkipInvLookup ==
  ASSUME Prewarm > 0, IInv, SkipInv, LookupReturns
  PROVE  SkipInv'
<1>1. /\ pc = "lookup" /\ pc' = "prewarm" /\ due' = WakesAt(market - Prewarm) /\ market' = market
      /\ back' = back /\ ticks' = ticks /\ procs' = procs
  BY DEF LookupReturns, clocks, workers
<1>2. /\ due - back < market /\ Prewarm \in Int
      /\ market \in Int /\ due \in Int /\ back \in Int /\ market - Prewarm \in Int
      /\ procs # <<>> /\ market % Window = 0 /\ StartedBefore(market)
  BY <1>1, WindowFacts, TimeAssumption DEF SkipInv, InTime, Started
<1>3. /\ WakesAt(market - Prewarm) \in Int /\ ticks <= WakesAt(market - Prewarm) + Late
      /\ WakesAt(market - Prewarm) - back = market - Prewarm \/ WakesAt(market - Prewarm) <= due
  BY <1>1, <1>2, SleepsUntil DEF Active
<1>4. due' - back < market
  BY <1>1, <1>2, <1>3
<1>5. InTime'
  BY <1>1, <1>3, <1>4 DEF InTime
<1>6. StartedBefore(market)'
  BY <1>1, <1>2 DEF StartedBefore
<1> QED
  BY <1>1, <1>2, <1>5, <1>6 DEF SkipInv, Started

LEMMA SkipInvPrewarm ==
  ASSUME IInv, SkipInv, PrewarmWakes
  PROVE  SkipInv'
<1>1. pc = "prewarm" /\ back' = back /\ ticks' = ticks /\ procs' = procs
  BY DEF PrewarmWakes, clocks, workers
<1>2. /\ ticks <= due + Late /\ due - back < market /\ Late \in Nat
      /\ market \in Int /\ due \in Int /\ ticks \in Int /\ back \in Int
      /\ procs # <<>> /\ market % Window = 0 /\ StartedBefore(market)
  BY <1>1, WindowFacts, TimeAssumption DEF SkipInv, InTime, Started, Active
<1>3. CASE HasWorker(market)
  <2>1. SleepUntilStart
    BY <1>3 DEF PrewarmWakes
  <2>2. PICK i \in DOMAIN procs : procs[i].market = market
    BY <1>3 DEF HasWorker, IInv, TableInv
  <2>3. StartedBefore(market + Window)
    BY <1>2, <2>2, OneMoreStarted
  <2>4. StartedBefore(market + Window)'
    BY <1>1, <2>1, <2>3 DEF StartedBefore, SleepUntilStart
  <2> QED
    BY <1>1, <1>2, <2>1, <2>4, SleepsOn
<1>4. CASE ~HasWorker(market)
  <2>1. pc' = "spawn" /\ due' = ticks /\ market' = market
    BY <1>4 DEF PrewarmWakes
  <2>2. ticks - back < market + Late /\ ticks <= ticks + Late
    BY <1>2
  <2>3. InTime'
    BY <1>1, <2>1, <2>2 DEF InTime
  <2>4. StartedBefore(market)'
    BY <1>1, <1>2, <2>1 DEF StartedBefore
  <2> QED
    BY <1>1, <1>2, <2>1, <2>3, <2>4 DEF SkipInv, Started
<1> QED
  BY <1>3, <1>4

LEMMA SpawnAdds ==
  ASSUME IInv, SpawnReturns
  PROVE  /\ procs' # <<>> /\ DOMAIN procs \subseteq DOMAIN procs'
         /\ \A i \in DOMAIN procs : procs'[i].market = procs[i].market
         /\ \E i \in DOMAIN procs' : procs'[i].market = market
         /\ procs = <<>> => procs'[1].market = market
<1> DEFINE r == Process(market, "booting")
<1>1. r \in ProcessRecord /\ r.market = market
  BY ProcessInRecord DEF IInv, ClockInv
<1>2. procs' = Append(procs, r) /\ procs \in Seq(ProcessRecord)
  BY DEF SpawnReturns, IInv, TableInv
<1> HIDE DEF r
<1>3. /\ DOMAIN procs' = 1 .. Len(procs) + 1 /\ DOMAIN procs = 1 .. Len(procs) /\ Len(procs) \in Nat
      /\ procs'[Len(procs) + 1] = r /\ \A i \in 1 .. Len(procs) : procs'[i] = procs[i]
  BY <1>1, <1>2
<1>4. Len(procs) + 1 \in DOMAIN procs' /\ procs' # <<>>
  BY <1>3
<1>5. procs = <<>> => Len(procs) = 0
  OBVIOUS
<1> QED
  BY <1>1, <1>3, <1>4, <1>5

\* Two lags take the clock into the next market at most.
LEMMA SkipInvSpawn ==
  ASSUME 2 * Late <= Window, IInv, SkipInv, SpawnReturns
  PROVE  SkipInv'
<1>1. pc \in {"spawn_first", "spawn"} /\ back' = back /\ ticks' = ticks
  BY DEF SpawnReturns, clocks
<1>2. /\ procs' # <<>> /\ DOMAIN procs \subseteq DOMAIN procs'
      /\ \A i \in DOMAIN procs : procs'[i].market = procs[i].market
      /\ \E i \in DOMAIN procs' : procs'[i].market = market
      /\ procs = <<>> => procs'[1].market = market
  BY SpawnAdds
<1>3. /\ ticks <= due + Late /\ Late \in Nat /\ Window \in Nat \ {0}
      /\ market \in Int /\ due \in Int /\ ticks \in Int /\ back \in Int /\ Wall = ticks - back
  BY <1>1, WindowFacts, TimeAssumption DEF SkipInv, InTime, Active
<1>4. CASE pc = "spawn_first"
  <2>1. LookUpNext /\ procs = <<>> /\ due - back < market + Window + Late
    BY <1>4 DEF SpawnReturns, IInv, SpawnInv, SkipInv, InTime
  <2>2. Wall < market + 2 * Window
    BY <1>3, <2>1
  <2>3. ASSUME NEW m \in Int, procs'[1].market + 2 * Window <= m, m <= Wall PROVE FALSE
    BY <1>2, <1>3, <2>1, <2>2, <2>3
  <2> QED
    BY <1>1, <1>2, <2>1, <2>3, LooksUp
<1>5. CASE pc = "spawn"
  <2>1. SleepUntilStart /\ market' = market
    BY <1>5 DEF SpawnReturns, SleepUntilStart
  <2>2. procs # <<>> /\ market % Window = 0 /\ StartedBefore(market)
    BY <1>5 DEF SkipInv, Started
  <2>3. \A m \in Int : (m % Window = 0 /\ procs'[1].market + 2 * Window <= m /\ m < market)
                         => \E i \in DOMAIN procs' : procs'[i].market = m
    BY <1>2, <2>2, StartedKept DEF IInv
  <2>4. ASSUME NEW m \in Int, m % Window = 0, procs'[1].market + 2 * Window <= m, m < market + Window
        PROVE  \E i \in DOMAIN procs' : procs'[i].market = m
    <3>1. m <= market
      BY <1>3, <2>2, <2>4, WindowsApart
    <3>2. CASE m = market
      BY <1>2, <3>2
    <3>3. CASE m < market
      BY <2>3, <2>4, <3>3
    <3> QED
      BY <1>3, <3>1, <3>2, <3>3
  <2>5. StartedBefore(market + Window)'
    BY <2>1, <2>4 DEF StartedBefore
  <2> QED
    BY <1>1, <1>2, <1>5, <2>1, <2>5, SleepsOn
<1> QED
  BY <1>1, <1>4, <1>5

LEMMA SkipInvStart ==
  ASSUME 2 * Late <= Window, IInv, SkipInv, StartWakes
  PROVE  SkipInv'
<1>1. pc = "start" /\ LookUpNext /\ back' = back /\ ticks' = ticks /\ procs' = procs
  BY DEF StartWakes, clocks, workers
<1>2. /\ ticks <= due + Late /\ (due - back < market + Late \/ due - back <= market)
      /\ Late \in Nat /\ Window \in Nat \ {0}
      /\ market \in Int /\ due \in Int /\ ticks \in Int /\ back \in Int /\ Wall = ticks - back
      /\ procs # <<>> /\ StartedBefore(market + Window)
  BY <1>1, WindowFacts, TimeAssumption DEF SkipInv, InTime, Started, Active
<1>3. Wall < market + Window
  BY <1>2
<1>4. ASSUME NEW m \in Int, m % Window = 0, procs'[1].market + 2 * Window <= m, m <= Wall
      PROVE  \E i \in DOMAIN procs' : procs'[i].market = m
  <2>1. m < market + Window
    BY <1>2, <1>3, <1>4
  <2> QED
    BY <1>1, <1>2, <1>4, <2>1 DEF StartedBefore
<1> QED
  BY <1>1, <1>2, <1>4, LooksUp

LEMMA WorkerStepMarkets ==
  ASSUME IInv, NEW i \in DOMAIN procs, WorkerStep(i)
  PROVE  /\ DOMAIN procs' = DOMAIN procs /\ procs' # <<>>
         /\ \A j \in DOMAIN procs : procs'[j].market = procs[j].market
         /\ UNCHANGED <<loop, clocks>>
<1>1. UNCHANGED <<loop, clocks>>
  BY DEF WorkerStep, WorkerBoots, MarketEnds, SettleAgain, WorkerExits, Reap, WatcherReturns
<1>2. PICK r : procs' = [procs EXCEPT ![i] = r] /\ r.market = procs[i].market
  <2>1. CASE WorkerBoots(i)
    <3> DEFINE r == [Process(procs[i].market, "trading") EXCEPT !.ends = WakesAt(procs[i].market + Window)]
    <3>1. procs' = [procs EXCEPT ![i] = r] /\ r.market = procs[i].market
      BY <2>1 DEF WorkerBoots, Process
    <3> QED
      BY <3>1
  <2>2. CASE MarketEnds(i) \/ WorkerExits(i) \/ Reap(i)
    <3>1. PICK p : procs' = [procs EXCEPT ![i] = Process(procs[i].market, p)]
      BY <2>2 DEF MarketEnds, WorkerExits, Reap, Becomes
    <3>2. Process(procs[i].market, p).market = procs[i].market
      BY DEF Process
    <3> QED
      BY <3>1, <3>2
  <2>3. CASE SettleAgain(i)
    <3>1. procs[i] \in ProcessRecord
      BY DEF IInv, TableInv
    <3> DEFINE r == [procs[i] EXCEPT !.tries = @ + 1]
    <3>2. procs' = [procs EXCEPT ![i] = r] /\ r.market = procs[i].market
      BY <2>3, <3>1 DEF SettleAgain, ProcessRecord
    <3> QED
      BY <3>2
  <2>4. CASE WatcherReturns(i)
    <3>1. procs' = procs /\ procs \in Seq(ProcessRecord)
      BY <2>4 DEF WatcherReturns, IInv, TableInv
    <3>2. procs' = [procs EXCEPT ![i] = procs[i]]
      BY <3>1
    <3> QED
      BY <3>2
  <2> QED
    BY <2>1, <2>2, <2>3, <2>4 DEF WorkerStep
<1>3. /\ DOMAIN procs' = DOMAIN procs
      /\ \A j \in DOMAIN procs : procs'[j] = IF j = i THEN r ELSE procs[j]
  BY <1>2 DEF IInv, TableInv
<1>4. procs' # <<>>
  BY <1>3
<1> QED
  BY <1>1, <1>2, <1>3, <1>4

LEMMA SkipInvClocks ==
  ASSUME IInv, SkipInv, Tick \/ SetBack
  PROVE  SkipInv'
<1>1. UNCHANGED <<loop, workers>>
  BY DEF Tick, SetBack
<1>2. procs' = procs /\ UNCHANGED loop
  BY <1>1 DEF workers
<1>3. /\ pc \in Active => ticks <= due + Late
      /\ ticks \in Int /\ due \in Int /\ Late \in Int /\ back \in Int
  BY WindowFacts, TimeAssumption DEF SkipInv, InTime
<1>4. PICK k \in Int : back' = k /\ k >= back
  <2>1. MaxBack \in Nat
    BY TimeAssumption
  <2> QED
    BY <1>3, <2>1 DEF Tick, SetBack
<1>5. pc \in Active => ticks' <= due + Late
  BY <1>3 DEF Tick, SetBack
<1> QED
  BY <1>2, <1>4, <1>5, SkipInvElsewhere

LEMMA SkipInvStep ==
  ASSUME Prewarm > 0, 2 * Late <= Window
  PROVE  IInv /\ SkipInv /\ [Next]_vars => SkipInv'
<1> SUFFICES ASSUME IInv, SkipInv, [Next]_vars PROVE SkipInv'
  OBVIOUS
<1>1. CASE UNCHANGED vars
  BY <1>1 DEF vars, loop, clocks, workers, SkipInv, InTime, Started, StartedBefore
<1>2. CASE Stop \/ Terminate \/ Drained
  <2>1. pc' \in {"terminating", "draining", "ended"}
    BY <1>2 DEF Stop, Terminate, Drained
  <2> QED
    BY <2>1 DEF SkipInv, InTime, Started, Active
<1>3. ASSUME NEW i \in DOMAIN procs, WorkerStep(i) PROVE SkipInv'
  <2>1. /\ DOMAIN procs' = DOMAIN procs /\ procs' # <<>> /\ UNCHANGED loop
        /\ \A j \in DOMAIN procs : procs'[j].market = procs[j].market
        /\ back' = back /\ ticks' = ticks
    BY <1>3, WorkerStepMarkets DEF clocks
  <2>2. (pc \in Active => ticks' <= due + Late) /\ back \in Int
    BY <2>1, WindowFacts DEF SkipInv, InTime
  <2> QED
    BY <2>1, <2>2, SkipInvElsewhere
<1> QED
  BY <1>1, <1>2, <1>3, SkipInvBoot, SkipInvLookup, SkipInvPrewarm, SkipInvSpawn, SkipInvStart,
     SkipInvClocks DEF Next

LEMMA NoneSkipped ==
  ASSUME Prewarm > 0, 2 * Late <= Window
  PROVE  IInv /\ SkipInv => NoMarketSkipped
<1> SUFFICES ASSUME IInv, SkipInv, pc \in Active, procs # <<>>,
                    NEW m \in procs[1].market + 2 * Window .. Wall - 2 * Late, m % Window = 0
             PROVE  \E i \in DOMAIN procs : procs[i].market = m
  BY DEF NoMarketSkipped
<1>1. /\ ticks <= due + Late /\ Late \in Nat /\ Window \in Nat \ {0}
      /\ market \in Int /\ due \in Int /\ ticks \in Int /\ back \in Int /\ Wall = ticks - back
  BY WindowFacts, TimeAssumption DEF SkipInv, InTime
<1>2. 1 \in DOMAIN procs /\ procs[1].market \in Int
  BY RecordFields DEF IInv, TableInv
<1>3. m \in Int /\ procs[1].market + 2 * Window <= m /\ m <= Wall - 2 * Late
  BY <1>1, <1>2
<1>4. pc \notin {"boot", "spawn_first"}
  BY DEF IInv, SpawnInv
<1>5. CASE pc \in {"lookup", "prewarm", "spawn"}
  <2>1. StartedBefore(market) /\ due - back < market + Late
    BY <1>1, <1>5 DEF SkipInv, InTime, Started
  <2>2. m < market
    BY <1>1, <1>3, <2>1
  <2> QED
    BY <1>3, <2>1, <2>2 DEF StartedBefore
<1>6. CASE pc = "start"
  <2>1. StartedBefore(market + Window) /\ (due - back < market + Late \/ due - back <= market)
    BY <1>6 DEF SkipInv, InTime, Started
  <2>2. m < market + Window
    BY <1>1, <1>3, <2>1
  <2> QED
    BY <1>3, <2>1, <2>2 DEF StartedBefore
<1> QED
  BY <1>4, <1>5, <1>6 DEF Active

\* No market is skipped from the third on, however often the clock is set back and
\* whichever workers end, if a worker is started ahead of its market and two lags
\* do not exceed a window (main.py:19, 300 seconds with a prewarm of 30).
THEOREM NoMarketSkippedCorrect ==
  ASSUME Prewarm > 0, 2 * Late <= Window
  PROVE  Spec => []NoMarketSkipped
  BY SkipInvInit, InitIInv, NextIInv, SkipInvStep, NoneSkipped, PTL DEF Spec
=============================================================================
