# EventLab in TLA+

EventLab trades Polymarket's five-minute Bitcoin markets. A supervisor starts
one worker process per market; a worker is one asyncio loop whose components
exchange events over an in-process bus. These modules model it from the quotes that
come in to the orders that go out, with both venues, and around that the
supervisor's processes and the dashboard. Line numbers refer to `src/src/`.

## 1. The system

| Component | State | Operations | Talks to |
|---|---|---|---|
| supervisor, worker (`main.py`, `app.py`) | running processes and their watchers; per worker the runtime task and the settlement task | start, watch and terminate workers; settle the market after its window | processes, engine |
| event bus (`bus.py`) | a bounded queue per subscription, with a policy when full | subscribe, publish, next event | all components |
| crypto, market data (`datasource/`) | last quotes, base price of the window | reconnecting sockets, a retried fetch | publish quotes |
| runtime state (`runtime/`) | last quotes and positions, last published signature | update by each event, publish if changed | quotes and positions in, states out |
| prediction (`prediction/`) | none (the strategy is a stub that keeps the position) | evaluate a state | states in, desired positions out |
| execution engine (`execution/engine.py`, `component.py`) | a lock | bring a token to its desired position; pass on order and trade events; settle | desired positions and events in, order manager |
| order manager (`execution/manager.py`) | orders, trades, positions, background tasks | buy, sell, cancel, submit/cancel/re-read workers, order and trade events, settlement | venue clients (threads), publishes positions |
| live venue (`execution/live/`) | HTTP clients, a reconnecting user stream | create, submit, cancel, get; parse reports | exchange; publishes events |
| paper venue (`execution/mock/`) | orders, trades, undelivered events, last quotes | the same calls from threads; fill on quotes and by timer; report | publishes events |
| dashboard (`dashboard/`) | connected clients, last states | accept, broadcast, save | states in |
| models, market metadata (`models.py`, `polymarket.py`), utilities (`utils/`) | none that matters here | HTTP lookups, logging, clock, notification | |

Events go round: quotes and positions make a state, a state makes desired
positions, desired positions make orders, the venue's reports change positions.

**Concurrency.** A coroutine gives way only where it really suspends: in
`asyncio.to_thread`, a sleep, an empty queue's `get`, a full queue's `put`, or a
lock that is held. The manager's lock is never held across such a point, and its
`CurrentPositionEvent` goes to a subscription that drops instead of blocking, so
a handler and the publication that ends it are one step. The engine's lock *is*
held while `create_order` runs in a thread. Every venue call runs in a worker
thread: it takes effect at one moment and its result is handled on the loop at a
later one, with the venue's own reports of the same event arriving in between.

**What is hard, and what should hold.**

- *Order manager*: reports overtake replies and each other, cancels are deferred,
  calls fail halfway, trades are reported several times. Quantities add up, what is
  pending and what has matched is all that was asked for, over is over, one cancel
  call at a time, every trade is booked once, money is conserved.
- *Engine*: it decides on a position that lags the venue. It never sells what it
  does not have, never buys the same difference twice, has one open order.
- *Paper venue*: threads interfere with the fill loop. Outcomes are final,
  reports of an order come in order and once, taker orders conclude.
- *Bus*: order and trade reports travel in separate queues; a blocking queue
  stalls its publisher. Delivery is in order, nothing that must arrive is dropped.
- *Live venue*: reports are lost while the stream reconnects, calls fail after they
  have taken effect, an order trades in parts, a trade may fail on the chain. What
  is called over is over, nothing is invented, shares and money end up right
  unless the one report they depend on was lost.
- *Runtime state, prediction*: states and decisions replace each other in mailboxes,
  queues overflow, and the signature leaves some changes out. The engine comes to
  act on the last of everything.
- *Data sources*: one base price per window, whichever source answers first.
- *Supervisor*: clocks are set back, wakes are late, workers die. At most one worker
  per window, no window without one, none left behind at the end.
- *Dashboard*: a client that comes or goes does not disturb a broadcast, and none
  is left with an old state.

## 2. Modules

| Module | What it is |
|---|---|
| `OrderManager` | `manager.py`, with the venue as a free environment |
| `OrderManager_proofs` | theorems: its orders one by one, that shares and money add up, what the strategy is told |
| `MockExchange` | the paper venue: store, stream, clock |
| `MockTrading` | engine, `OrderManager`, `MockExchange`, worker threads and report queues together |
| `MockTrading_proofs` | theorems: what manager, engine and paper venue agree on, what may be bought and sold, and where it ends up |
| `LiveReports` | `live/stream.py`: the events that the venue's messages become |
| `LiveVenue` | the exchange, `live/clients.py` and the user stream |
| `LiveTrading` | `OrderManager` and `LiveVenue` together, with worker threads and report queues |
| `LiveTrading_proofs` | theorems: what the manager may believe of an exchange whose reports get lost, and what is on its way |
| `QuoteFeeds` | `datasource/`: the crypto quotes with their base price, the market quotes |
| `DecisionPipeline`, `DecisionPipeline_proofs` | `QuoteFeeds`, the runtime state, prediction and the mailbox of the engine; a theorem on the base price |
| `Supervisor`, `Supervisor_proofs` | `main.py`: the table of worker processes under two clocks; theorems |
| `Dashboard`, `Dashboard_proofs` | `dashboard/`: forwarding, latest states, backlog, greeting and broadcast; theorems |
| `EventBus` | the bus of `bus.py`, with the tasks that publish and read |
| `EventChannel` | what the bus promises: a channel per publisher and subscriber |
| `EventBus_proofs` | theorems about both, and that the one implements the other |
| `Sums`, `Selections` | sums over finite sets, the part of a sequence within a set |
| `Collections_proofs` | lemmas about either, and about sequences without repetition |
| `MC…` | values and bounds for TLC |

**`OrderManager`.** `orders`, `trades`, `positions` are the three dictionaries;
an absent key is a record with status `UNTRACKED` (or an empty position).
`tasks[o]` counts the submit, cancel and re-read calls in flight: the state
between the two halves of a worker. `published` is the last position event.
`closed` and its updates are history: what settlement paid and what was written
off as dust, which the ledger needs. `CreateOrder` is the part of `buy`/`sell`
after `create_order` has returned; `SubmitSuccess`, `SubmitFailed`,
`CancelSuccess`, `CancelFailed`, `SyncReturns` and `SyncFails` are the second
halves of the workers, `raised` standing for the exception path. A record goes
through one operator per handler (`Submitted`, `SubmitRefused`,
`CancelRequested`, `CancelDone`, `Closed`, `Open`), which is also how the
proofs are organised. `Publish` takes the position *after* the step, as the
code does. Quantities are integers: the code rounds to 1e-6 everywhere, so the
unit is a fixed fraction of a share. `CostOf` rounds down, where the code rounds
the average price to the nearest; the ledger does not depend on it. Of the
environment two things are assumed. `Reportable`: an order is never reported as
matched beyond its size. `Repeats`: a trade keeps its terms, and a mined trade
stays mined.

**`MockExchange`.** Each method of the store is atomic (`threading.Lock`), the
loops over its results are not. `scan` is the rest of the list that `on_quote`
or the poll is working through, so that a submit or cancel from a thread falls
between listing and filling. `loop` says what the event loop is busy with,
`events` and `outbox` are the reports before and after `drain_events`. Time is
two growing facts: `aged` orders are past the taker delay, the first `ripe`
trades are past the settlement delay. An order fills completely or not at all.

**`MockTrading`** instantiates both: `Manager == INSTANCE OrderManager` shares its
variables, `Venue == INSTANCE MockExchange` likewise; an order's id is its number
and a trade has the id of its order, as an order fills with one trade.
`creating` is the call during which the engine holds its lock, `replies` is what
worker threads have read and not yet handed to the loop (re-reads may return in
another order than they were made), `orderQueue` and `tradeQueue` are the two
subscriptions. The strategy may desire any member of `DesiredShares` at any
time; whether an active order is stale and whether a quote crosses it are free
choices. After the settlement nothing moves: `run_worker` cancels the runtime.

**`EventBus`.** `queue`, `dropped_count` and `subscriptions` are the code's;
`putters` is the list of waiting publishers inside `asyncio.Queue`. `publish` is
one step per subscription served; a task with `pc` `publishing` runs alone, as a
coroutine does between two suspensions, so the only points where tasks
interleave are the code's: a full blocking queue, an empty queue, the end of a
handler. `event[t]` and `rest[t]` are the local variables of the call. Reading
wakes the *first* waiting publisher, which resumes later and tests the queue
again; in between another publisher may take the place. A task is a stream's
(`StreamComponent`) or the reader of a subscription, which publishes while it
handles an event. `sent`, `offered` and `received` are history. `RAISE` and
`DROP_NEWEST` are used by no component; they are modelled because the bus offers
them. The refinement mapping puts an event in transit from the moment `publish`
has listed the subscription until it is read or dropped.

**`LiveReports`, `LiveVenue`, `LiveTrading`.** `LiveReports` holds the pure functions
of `stream.py`: an operator returns the set of events a message yields, one or
none. `LiveVenue` keeps what the exchange knows (`exchange`, `deals`), what is on
its way (`orderWire`, `tradeWire`: websocket and bus queue in one, first in first
out per kind) and the websocket (`link`). A call's effect and its reply are
chosen separately, as a network error reads like a refusal (`clients.py:78`,
`:223`); an order accepted by a call that failed is a *ghost*. `Drop` keeps a prefix
of what was sent and loses the rest, `Tell` loses what is reported while the
stream connects. `lost` records which kinds of reports were, for the properties
to name the one they depend on. The parts of a trade may quote either token. The
exchange's `amount` is what it books; the message says the same in parts, which
`Total`, `PartShares` and `PartMoney` add up.
`LiveTrading` joins this to `OrderManager` as `MockTrading` does for the paper
venue, with one token and buys only: sells, the engine's sizes and the create call
are the subject of `MockTrading`.

**`QuoteFeeds`, `DecisionPipeline`.** Of the clock there is what the code tests:
`opened` (the window has begun) and `throttled` (a millisecond has not passed).
`refresh` is the task that checks the base price. `DecisionPipeline` adds the three
subscriptions of the runtime state (`queues`, one per kind and shared by both
tokens), `view` (the state's last events), `last_signature`, `indicators`, and the
two mailboxes. One loop iteration from taking an event to publishing is one step:
the lock is free, the publication goes to queues that drop. The strategy is a
function of the state, so `decision` is the state it was made of. A position is a
pair: what the signature counts, and what is settling. `latest`, `missed` and
`bases` are history.

**`Supervisor`.** `pc` is where `run_supervisor` stands, `running` the table, by
process, since a market has one entry, `watchers` the watcher tasks, `procs` every
process ever created. `ticks` is the monotonic clock that `asyncio.sleep` goes by,
`Wall` the wall clock, which may be set back; `sleep_until` reads it once. `Late` is
how long a wake, a lookup or a spawn may lag: `Tick` waits for the loop no longer.
Looking a market up is a synchronous HTTP call in `_from_window`, so `Blocked`
stops reaping and watchers. `Exited` and `Reaped` differ: `returncode` is `None`
until asyncio has seen the exit. `Stop` stands for Ctrl-C and for a lookup or a
spawn that raises, at any point.

**`Dashboard`.** A state is its number within its market. `posting` is the POST a
worker waits for, `requests` what the server is still to read, which outlives a
timeout. The server suspends where it sends or reads: one step per send, both in
the greeting (`visits`) and in the broadcast. Iterating the set or the dictionary
fails if its *size* has changed (`SameSize`, `Greet`); a set in which one client
replaced another is iterated on, over an unspecified part (`swapped`).

## 3. What TLC checks

| Run | Specification and bounds | Question |
|---|---|---|
| `order_lifecycle` | `OrderManager`; one order, sizes 10 and 100, seven matched quantities around half, 98 % and all; one trade of 1 or 5, two re-reads | what can status, quantities and flags of an order be, is a deferred cancel taken up, is the strategy told |
| `order_ledger` | `OrderManager`; two orders of 3, two trades of 2 or 3, dust 1, no re-reads | are shares and money counted once |
| `mock_trading` | `MockTrading`; two orders, one token, positions 2 and 8, one re-read at a time, no settlement (`Winners` empty) | is exposure bounded, is there one open order, do manager and venue agree, are outcomes final and reports in order |
| `mock_trading_live` | `MockTrading` with fairness; one order, two re-reads | do taker orders and cancels end |
| `event_bus` | `EventBus` with fairness; two streams (two events and one), a reader that publishes, a blocking and a `drop_oldest` queue of one place, or a raising and a `drop_newest` one, in any order of subscribing | are publishers woken, is the newest kept, is every event accounted for, does the bus implement `EventChannel` |
| `live_trading` | `LiveTrading` with fairness; one order of 2, maker or taker, two trades, one reconnect, one re-read at a time | what of an unreliable venue can be relied on |
| `decision_pipeline` | `DecisionPipeline` with fairness; queues of one place, five events, two prices, two books, three positions | does the engine come to act on the present; how often does the base price move |
| `supervisor` | `Supervisor` with fairness; windows of 4 ticks, workers started 1 ahead, 16 ticks from the second window on, delays of 1, clock set back by up to 2 in all, 2 attempts to settle | who runs, who is skipped, who is left |
| `dashboard` | `Dashboard`; two markets of two states, two clients, a queue of 1 and a backlog of 2 | is every client shown the latest states |
| `active_without_pending`, `canceled_without_invalid` | `MockTrading`, one order | two docstrings of `ManagedOrder`, refuted |
| `status_as_documented` | `LiveTrading`, as in `live_trading` | the comments of `ManagedOrderStatus` (`enums.py`), refuted |

*order_lifecycle.* `PendingIsWhole`, `SharesBounded` and
`CancelBookkeeping` relate status, quantities, flags and calls in flight. The
first is what is left of the statuses' meaning in `enums.py:37-44`, four of whose
lines do not hold (below): while an order has shares pending, they and the matched
ones are all it asked for and it is not called over, and the other three lines hold;
`NoResurrection` and `DeferredCancelHonoured` compare a state with the next;
`StrategyIsTold` says that a step which changes a position publishes it and changes
its signature as the runtime state computes it, with the exceptions the code has:
a trade that fails or is retried, a late match of an order that had nothing
pending (it only moves settling shares), a trade that settles into nothing but
written-off dust (the settling shares go, the holding stays empty), a submit call
that raises; trades of 1 are dust, so that the run meets the third;
`DeferredCancelResolved` is liveness. Orders do not touch
each other's records, so one is enough; sizes 10 and 100 make the 98 % rule and
the dust rule decide differently.

*order_ledger.* `EffectiveIsCommitted` and `CashLedger` are sums over all orders
and trades, so two of each are needed. `Uncancelled` (a state constraint) keeps
orders the maker's and uncancelled, since cancellation is covered by the first
run and does not touch positions; fees are charged by the trade's role, which
stays free. Trades may fail, succeed twice, exceed what is held, or arrive after
the settlement. Orders and trades are symmetric; the only temporal property is
an action property, for which symmetry is sound.

*mock_trading.* Two orders make a replacement, a second buy and a buy followed by
a sell, and let one be submitted, filled or canceled while the other is in `scan`.
2 and 8 lie on either side of `MAKER_SHARES_THRESHOLD`, so that either order may
be the maker's or the taker's, and apart by more than that threshold, so that a
second order would be wanted while the first is open: `OneOpenOrder` rests on the
active order being seen until it cannot trade. `ExposureBounded` is about the
venue's books, not the manager's: whatever the venue still makes of the orders
it has, sells stay within what was bought and delivered (`NeverOversold`), and
purchases less the sells that matched stay within a desired position and what was
written off as dust (`NeverOverbought`). `Dust < ReplaceGap` is assumed: the code's
dust is 0.01 shares (`manager.py:21`), and it orders no difference below 0.10
(`engine.py:35`). `QuietMeansAgreed` compares the two once nothing is
under way. `OutcomeIsFinal` and `ReportsInOrder` are the venue's own promises.
The settlement, which ends the worker and places no order, is left to
`mock_trading_live` and `order_ledger`.

*live_trading.* One order in two parts makes every report a partial one; two trades
are what one order can make of two shares. One reconnect, possibly the first
connection, loses any suffix of what was sent. `OverMeansOver` keeps the engine
from replacing an order that still trades, with two exceptions: a ghost, as nothing
tells the manager of an order it calls failed, and an order of which less is left
than the manager's 98 % rule and dust ask for, which may still trade that rest.
`NothingInvented` is about every moment: no match, settled trade or share in the
books that the exchange does not have. `HoldingAgrees` and `CommitmentAgrees` say when
the manager is right in the end, naming the reports that must not be lost: a lost
*settlement* leaves shares settling for ever, counted in the effective position but
not sellable, and a lost *order* report is made up for by the engine's cancel and
the re-read that follows, if there is one. `OverIsNoticed` says so: an order that is
over is noticed to be, provided that the engine goes on cancelling it. It need
not: a forced order has no time to live (`engine.py:137`), and at a steady price, or
with a difference below the gap (`:108`), it stays active for ever once its reports
are lost and its re-read has failed. Written-off dust counts as held in
both: the exchange keeps it, the manager does not. An order report does not matter for
the holding, nor does whether its submission was known to succeed. The parts of a
trade add up to its size here, so what `stream.py:172` does about a message whose
parts do not (take the quoted price for all of it) is in `LiveReports` and is not exercised.

*decision_pipeline.* Queues of one place overflow at once; five events fill in the
three quotes a state needs and leave two to overtake each other. `DecisionsCatchUp`
is stated as `[]<>` because events are bounded: the end of the run is the state at
rest. What a full queue has dropped is excepted (`Expected`), by source: both
tokens share each queue. `BaseMovesOnce` includes the worker that starts late.

*supervisor.* Sixteen ticks from the second window on reach into the fourth, past
two prewarm sleeps, also when the clock has been set back. `NoMarketSkipped` holds from the third window on: the second is
missed when it opens while the first worker is still being spawned
(`main.py:165-171`), as the code then asks for the market after the current one.
The clock goes back only, as a correction does; a leap forward skips what it leaps.

*dashboard.* Two clients make a set change its size and its members; a third would
add no kind of change. Two markets make a greeting that another market interrupts.
With two states each, a queue of one and a backlog of two, both overflow. What
makes a client miss a state is listed in `ClientsCurrent`; the end of the
broadcast task (`server.py:204`, where the set changes its size during a send) is
one of them, and it is final: nothing starts the task again.

*event_bus.* One place makes every queue full at once; two streams make one
publisher barge in before another that was woken, and two wait together. Here the
instance goes beyond the program, whose blocking queues have one publishing task
each, as it does with the two policies that no component subscribes with: both are
what `bus.py` offers, not what EventLab is exposed to. `OneSet` (a state constraint)
keeps those two apart from the others. It only ever excludes a `Subscribe`, which
is never obliged to happen, so the liveness properties are not affected. A raise
ends its task, and `EventsArrive` is about the runs without one.
`NoLostWakeup` counts: publishers sleep only if every free place has a task on its
way to it. `ImplementsChannel` is the refinement; with the theorems about
`EventChannel` it gives order and completeness per publisher and subscriber.
Order *between* publishers is not promised, nor does the code rely on it.
`LatestKept` and `EventsArrive` together say what the one-place mailboxes of
`prediction` and `execution` are for: the reader gets to the newest event.
`EventsArrive` needs every task to end its handler and be scheduled; that there
is no cycle of blocking queues, on which it also rests, is a fact about the
components (only the two report queues block, and their readers publish to
queues that drop), reflected in the instance.

**Fairness.** *Trading on paper.* A venue call returns: paper calls do at once, live ones are HTTP
requests with timeouts. A task that is ready runs, since the loop's ready queue
is first in, first out. Polls, publications and the ripening of trades are
interrupted again and again (by quotes, by polls) without being withdrawn, hence
strong fairness there. Nothing obliges the strategy to ask or a quote to cross.

*Trading live.* Threads run and calls return. A cancel or a re-read that is
made again and again is answered at last: strong fairness over the answers. The
engine may cancel an active order at any time and never has to: what it cancels
depends on prices and positions that may stay as they are (`engine.py:108`, `:137`).
Of the stream nothing is assumed. *Pipeline.* Loops run, the engine's calls return; no
quote ever has to come. *Supervisor.* The way out runs, and asyncio reaps a child
that has exited. *Dashboard.* No fairness: both properties are about safety.

`CHECK_DEADLOCK FALSE` wherever the system may rest: all orders used up and over,
or the market settled.

**Mutants.** Every property has a mutated definition in the modules (marked
`Mutant:`), a plausible slip in the handler it stands for, under which TLC finds
the property violated within the same bounds.

**Six disagreements with the source's own words.** `is_active` is documented as
"off_chain_pending_shares > 0" (`manager.py:69`) and `is_canceled` as
"off_chain_invalid_shares > 0" (`manager.py:78`). Neither holds. If a complete
match is handled before the submit call returns, the return sets `ZERO_MATCHED`
over `FULL_MATCHED` (`:286`): the order is active with nothing pending. A taker
order is put right by the re-read that follows (`TakerOrderEnds`); a maker order
only when the engine next cancels it and the refusal makes the manager re-read
it. If a `CANCELED` report is handled before the cancel call returns, the return
overwrites the invalid shares with zero (`:380`). Exposure is not affected in
either case: the composed invariants hold in the same model.

The comments of `ManagedOrderStatus` say of each status what quantities go with it.
`StatusAsDocumented` states all seven lines, and the run shows the first that TLC
finds. Four do not hold, all because the submit call returns after something was
heard of the order, or fails although the exchange has taken it; each falls when
it is checked alone:

- `ZERO_MATCHED`, "matched_shares == 0" (`enums.py:40`): as above, the match is
  handled before the call returns (`manager.py:286`).
- `SUB_FAILED`, "invalid_shares > 0" (`:39`): the exchange takes the order and the call
  fails; if a complete match is handled first, nothing is pending that could become
  invalid (`manager.py:311`).
- `ZERO_MATCHED_CANCELED`, "matched_shares == 0" (`:43`): the same, with a deferred
  cancel, which names the status without a look at what matched (`manager.py:317`).
- `FULL_MATCHED`, "matched_shares > threshold" (`:42`): an order called failed has
  nothing pending, so a later report of one share matched out of two makes it
  full (`manager.py:465`).

## 4. What is proved

Every theorem holds for any value of the constants that meets the named
assumption of its module, so for any number of orders, trades, tokens, tasks,
queues or markets. The bounds that keep TLC's instances finite (`MaxSyncs`,
`MaxOrders`, `MaxTicks`) may be any as well.

**`OrderManager_proofs`**, from `QuantityAssumption` (sizes and prices are natural
numbers) and `IdAssumption` (the placeholders are no ids):

| Theorem | Statement |
|---|---|
| `Invariance` | `Spec => []IInv` |
| `CoreTypeCorrect`, `PendingCorrect`, `SharesCorrect`, `CancelCorrect`, `PositionCorrect` | the invariants `CoreTypeOK`, `PendingIsWhole`, `SharesBounded`, `CancelBookkeeping`, `PositionIsClean` |
| `OverIsOver`, `DeferredCancelCorrect`, `TradesApplyOnce`, `StrategyToldCorrect` | the action properties `NoResurrection`, `DeferredCancelHonoured`, `TradeAppliedOnce`, `StrategyIsTold` |
| `WholeHolds` | `Spec => []WholeInv` |
| `BooksKept` | `Spec => []LedgerInv` |
| `EffectiveCorrect`, `CashCorrect`, `TypeCorrect` | the invariants `EffectiveIsCommitted`, `CashLedger`, `TypeOK` |

`IInv` is `OrderInv` for every order with its tasks and `PositionInv` for every
position. It strengthens the checked invariants where they are not inductive: an
untracked order has no task (so a returning call finds an order), a submitting
order is not being cancelled (so the deferred cancel that follows may start),
and the flags determine the counts of calls. Each handler is a function of a
record, so for each there is a lemma that it preserves `OrderInv`;
`OneOrderChanges` lifts that to a step, `StepIInv` to `Next`. The arithmetic is
in `CostOfBounded`, part of a position costs no more than the whole, and
`ClearDustInv`. For the action properties `StepChangesOrder` says what one step
may do to one order (`OrderChange`), and `OverStaysOver` and `DeferredIsHonoured`
reason about that record alone.

`BooksKept` and the next three are about sums over all orders and trades. `EffectiveIsCommitted` is
not inductive: a trade that settles moves shares out of
what an order has open into what is held. `LedgerInv` therefore adds to `IInv`
the other half of the book, `SharesLedger`: what is held, and what settlements
and dust took out, is what settled purchases exceed settled sells by. It also
adds `TrackingInv`, that finitely many ids are tracked, whatever the set of ids,
as sums are over the tracked ones. A step changes the summand of one order or
one trade, so each handler comes down to one number before and after.

`PendingCorrect` adds to the invariant `WholeInv`: while an order has shares pending,
they and the matched ones are all it asked for. `OrderInv` has them bounded only;
the equality is kept as both change together, in a report, or all that is pending
goes at once.

`StrategyToldCorrect` compares these sums between two states. A change of what is
pending or held is in the signature; what has to be shown is that nothing else
changes unseen. A report that matches more of an order must leave less of it
pending, which needs `WholeInv` again. A trade that settles and leaves the holding as
it was has moved its shares into `closed` (`SettledIntoDust`): the proof met this
case, and the property named it only then.

**`MockTrading_proofs`**, from `TradingAssumption`, is about the composition:

| Theorem | Statement |
|---|---|
| `ManagerImplemented` | every step of the composition is a step of `OrderManager` or leaves it alone, so the venue and the engine stay within what `OrderManager` assumes of its environment |
| `TypeCorrect`, `VerdictsCorrect`, `OneOpenCorrect` | `TypeOK`, `VerdictsAgree`, `OneOpenOrder` |
| `OutcomesFinal`, `ReportsCorrect` | `OutcomeIsFinal`, `ReportsInOrder` |

The invariant is `Ledger!TypeInv`, the manager's, with what ties the manager to the
venue (`Agreement`). `OrdersAgree` compares record, calls in flight and replies
with the venue's status: an order the manager has seen matched is matched, a
re-read not yet handed to the loop that says an order is over says how it ended.
`ReportsAgree` says that a report under way tells of a final status.
`CreatingAgrees` is the engine's lock: while it creates an order, none of that
token is open, which is what makes `OneOpenOrder` inductive. `HistoryInv` tells the
whole sequence of an order's reports, published, drained and yet to be drained,
as a function (`Story`) of what the venue has done with the order.

Its second half is about quantities: `OversoldCorrect`, `OverboughtCorrect` and
`ExposureCorrect` (`NeverOversold`, `NeverOverbought`, `ExposureBounded`),
`QuietCorrect` (`QuietMeansAgreed`). `DeliveryInv`: a published report is in
its queue or was handled. `RecordsInv`: an open order is pending in full and a
trade settles only after it was reported so. `Covered` bounds sells, purchases and
the create call under way by what has settled and what was desired. The
engine sells no more than its settled position, which by the manager's ledger
(`SharesLedger`) is what settled purchases exceed settled sells and dust by. Dust
cannot be written off under an open sell: a sale that leaves dust behind was the
last, for every order is of `ReplaceGap` or more.

**`LiveTrading_proofs`**, for any orders, sizes, prices, tolerance, number of trades
and of losses, from four assumptions. `QuantityAssumption` gives the types, and
`NameAssumption` keeps the names apart. `TakerAssumption`: a taker's order meets
strangers' orders at prices of at most `One`, and its average price is whole when
the parts account for all of its shares (the message says a price, the exchange
books money). `ChainAssumption`: the outcome of a trade is final.

| Theorem | Statement |
|---|---|
| `ManagerRefined`, `VenueIsExpected` | every step is a step of `OrderManager` or leaves it alone, and the live venue keeps `Reportable`, `Accepted` and `Repeats`, which `OrderManager` assumes of its environment |
| `Invariance`, `TypeCorrect` | `Spec => []Inv`; `TypeOK` |
| `OverCorrect`, `NothingInventedCorrect` | `OverMeansOver`, `NothingInvented` |
| `Delivered` | `Spec => [](Inv /\ Delivery)` |
| `HoldingCorrect`, `CommitmentCorrect` | `HoldingAgrees`, `CommitmentAgrees` |

`Inv` is the manager's `Ledger!TypeInv` with `VenueTypes`, `DealsSound` (the parts of
a deal are worth its shares and its money) and `Agreement`. None of the checked
invariants is inductive, as the manager learns of the exchange through calls,
re-reads and two wires. `OrdersAgree` therefore compares each record with the
exchange's while a call is out and after it: an order the exchange has not seen is
submitting or dead, a call that says "canceled" was right, and unless it is a ghost
a live order has all that it has not matched pending at the manager. `OrderWireTrue`, `ReadsTrue`: what is
reported or read was so, and still is if it is final. `TradeWireTrue`, `TradesAgree`:
a trade has the exchange's terms, and once a report of its outcome is sent, only
that outcome follows.

Truth is not enough for what holds in the end: `Delivery` says that what the
manager does not know is on its way, unless a report of that kind was lost.
`OrdersDelivered`: an order is caught up with or its latest report is on the wire, so
each step of the exchange has to send one, and each that is handled catches up.
`TradesDelivered`: the same of outcomes. `BooksAgree`: matched shares are traded shares
as sums (over orders, over deals), and only dust leaves the position.
`HoldingAgrees` then follows from the manager's own ledger, since on a quiet wire the
trades it has settled are those the exchange has. For `CommitmentAgrees` the sums
over an order's trades have to become a sum over all deals: `SumPartition` of
`Collections_proofs`.

**`EventBus_proofs`**, from `BusAssumption` (the types of the constants), for any tasks,
subscriptions and policies:

| Theorem | Statement |
|---|---|
| `BusTypeCorrect`, `QueuesStayBounded`, `EventsAccountedCorrect` | `TypeOK`, `QueueBounded`, `EventsAccounted` |
| `WakeupsCorrect` | `NoLostWakeup` |
| `LatestCorrect` | `LatestKept` |
| `BusImplementsChannel` | the refinement `ImplementsChannel` |
| `DeliveryInOrder`, `ReliableLosesNothing` | `InOrder` and `NothingLost`, of `EventChannel` |
| `BusInOrder`, `BusLosesNothing` | the same, of the bus |

`BusInv` is about the tasks: whoever has subscriptions left to serve is in `publish`
with the last event it has sent, and whoever waits is once in the list of the
queue it serves next. For accounting and wake-ups what counts are sets of tasks
(`Pending`, `Arriving`), which must be finite: they are, since a step adds at most
one. `RoomTaken` says it per queue, `Newest` says which event a dropping queue ends
with. The refinement has one lemma per kind of step: publishing is `Publish`,
reading is `Receive`, dropping (either end) is `Lose`, raising loses at every
subscription not served, and putting, waiting and waking change nothing that
the channel sees.

It ends with `DeliveryInOrder` and `ReliableLosesNothing` (`InOrder` and `NothingLost`
of `EventChannel`), proved of the channel's own specification for any publishers and
subscribers, and carried over. Both are about `Delivery`, what was seen followed by
what is on its way: publishing appends to it, receiving leaves it alone, losing takes
an event out. That a new event is larger than all before it needs the strengthening
that no event exceeds `sent`.

**`DecisionPipeline_proofs`**, from `QueueAssumption` (a queue has a place), `FeedAssumption`
and `NothingAssumption` (prices are numbers, the placeholders are neither price nor
quote), proves `BaseMovesOnceCorrect` (`BaseMovesOnce`), for any prices, books, positions
and queue sizes. The strategy sees the last link of a chain, so `BaseInv` has a part per
link: `FeedInv` for `base_price`, `QuotedInv` for what is queued, `ViewInv` for the runtime
state, `MailInv` for the mailbox, `SeenInv` for what was seen. Each says that from there
to the next newer one the base price is the same or has become the API's (`Later`), a
relation that is transitive and that dropping from the chain keeps; so the whole
way down it changes at most once. A worker that was there when its market opened
has no price but the API's (`Possible`), and a queue with a quote in it means that
the stream has a price, so that none is taken back.

**`Supervisor_proofs`**, from `TimeAssumption` (the lengths and bounds are natural
numbers, a window is not empty), proves `TypeCorrect`, `OneWorkerCorrect`
(`OneWorkerPerMarket`), `NoneLeftBehindCorrect` and `NoMarketSkippedCorrect`, for any
windows, delays and clock. The invariant (`TableInv`) is that a process asyncio has
not reaped is the table's only entry of its market: the table, all that
`_create_worker` and `_terminate_workers` look at, tells of every process that may
run. `SpawnInv` carries the guard of a spawn, no worker of this market, to its
return: between the two only workers end and watchers clear the table. A watcher
removes its own process only, and only when it is reaped, so what it removes is
not needed. `NoMarketSkippedCorrect` has two hypotheses, `Prewarm > 0` and
`2 * Late <= Window`: a lookup and a spawn lag one after the other, and the market
that is asked for next is computed from the wall clock after both. The code has
windows of 300 seconds and starts workers 30 ahead (`main.py:19`), so it needs that
no wake, lookup or spawn lags by more than 150. `SkipInv` bounds how far the
wall clock has come at each suspension (`InTime`) and says which markets have had a
worker by then (`Started`); setting the clock back only helps the bounds.

**`Dashboard_proofs`**, from `SizeAssumption` (queues have a place), proves
`ClientsAreCurrent` (`ClientsCurrent`) and `NeverStepsBack` (`NoStepBack`), for any
markets, clients and sizes. For the second, `InTurn`: unless a POST of the market has
timed out, what is queued in the worker, posted and shown of it is in ascending
order. For the first, `CurrentInv`: a client whose greeting has passed a market shows
its latest state, or has a state of it to come, in the backlog or from the send under
way. That what comes last is the latest is `NewestInv`; a client that joins twice is
not taken for one that has been sent to, by `MembersInv`.

**`Collections_proofs`** has the lemmas the others share: a sum over a finite set when
the set grows, is split or partitioned, or one summand changes, and a selection from a sequence when the
sequence grows. An induction theorem that takes an operator cannot be instantiated
here, so the induction is carried out by hand: on the smallest set, or the shortest
sequence, for which the claim fails, which exists because proper inclusion is
well-founded on finite sets.

**Only model-checked.** Liveness: `TakerOrderEnds`, `CancelEnds`, `DeferredCancelResolved`,
`OverIsNoticed`, `EventsArrive`, `DecisionsCatchUp`, `ShutdownCompletes`. It is out of the
prover's reach, as is `ENABLED`, on which the fairness conditions rest. Every invariant
and every action property that a passing run checks is stated by a theorem.

## 5. What is not modelled

- Prices, order ages and quote values of the paper venue (free choices where they
  decide something); timestamps, audit records, logging, notification, balances.
- `_sync_trade_status`, `get_orders_by_token`, `get_trade_by_id`,
  `get_trades_by_token`: no caller. A report for another market is ignored by the
  code and is no step here.
- A `create_order` call that raises ends the worker (`manager.py:226`, the engine's
  task group); so does a websocket handshake that is rejected, which is none of the
  exceptions the streams reconnect on (`stream.py:79`, `binance.py:62`). For the
  supervisor this is `WorkerExits`, at any time; within a worker nothing follows.
- In `LiveTrading`: sells, several tokens, the settlement of the market. Two orders
  with two trades each are out of TLC's reach with reports that may be lost.
- The cancellation of a waiting publisher, which happens only when the whole worker
  ends. A leap of the wall clock forward. A second Ctrl-C while the supervisor
  drains, and a SIGTERM to the supervisor, which Python does not turn into a clean
  exit: workers then outlive it.
- Orders left open by a worker that was terminated: the code does nothing about
  them, here or at the next start.
- The dashboard's market list and history (they read log files and keep no state),
  its page, the thread that runs its server; metadata parsing in `polymarket.py`;
  `utils/`.

**Observed while modelling.** *Supervisor:* the second market may be skipped (above). A lookup
that fails (`models.py:74`) ends the supervisor and, with it, all workers. *Dashboard:*
a client greeted with the latest state of a market may then be sent older ones from
the backlog; the display steps back until the backlog is drained.

## 6. Plan

Done, in this order: `OrderManager`, `MockExchange`, `MockTrading`,
`OrderManager_proofs`, `EventChannel` and `EventBus`, `LiveReports`, `LiveVenue` and
`LiveTrading`, `QuoteFeeds` and `DecisionPipeline`, `Supervisor`, `Dashboard`; then the
theorems of section 4: the manager's ledger, paper trading, the bus and its
refinement, no market skipped, the dashboard, live trading, the base price, what the
strategy is told. With the proofs came three corrections of what was claimed before,
each of a case the bounds had kept from TLC: `OverMeansOver` (an order matched within
the tolerance may still trade its rest), `HoldingAgrees` and `CommitmentAgrees` (dust
written off), `StrategyIsTold` (a trade that settles into dust). Two more were made
later: what is said of an order's statuses (`PendingIsWhole`, with four findings in
place of a property that allowed for them), and `OverIsNoticed`, which had the engine
cancel what it need not. Left:

1. A second order in `LiveTrading`'s run, so that a ghost and its replacement meet
   in TLC's instance too; sells, with the engine's sizes, against the live venue.
2. The dashboard's history and market list; metadata parsing.
