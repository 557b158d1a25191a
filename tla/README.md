# TLA+ verification of DAlpha Pro

This directory models the parts of the trading system under `src/src/` whose
correctness depends on the order of steps: threads, event-loop tasks, callbacks and
networks that fail, clocks that fail, batches that fail half way, and long sequences of
legal calls. TLC checks the models on small instances; TLAPS proves the main safety
properties for every value of the constants. Paths below are relative to `src/src/`.

## 1. Inventory

| Component | State | Operations | Hard behaviour | Correct when |
|---|---|---|---|---|
| **Order tracker** `execution/order_tracker.py` | table of `OrderState` by order id, under an `RLock` | `add`, `add_many`, `update_status` (legacy), `transition_status`, `remove`, `clear` | batches that fail late, a clock that raises, ids shared by venues | orders only move forward, failures change nothing |
| **Execution engine** `execution/execution_engine.py` | none of its own; the tracker, the venue | `execute` | concurrent callers with stale snapshots; a lost venue answer; tracker refuses after submission | the answer tells whether an order exists; limits overrun by a known amount at most |
| **Risk gates, risk manager** `risk/risk_orchestrator.py`, `portfolio_guard.py`, `drawdown_guard.py`, `pre_trade_validator.py`, `risk_manager.py` | none | `evaluate_trade`, `validate_trade`, remaining room | kill switch read twice, breaker reset on the way, values exactly at a limit, reported room rounded | approved exactly when nothing objects; a rejection is founded |
| **Kill switch, in-trade monitor** `risk/kill_switch.py`, `in_trade_monitor.py` | active flag, reason, time | `activate`, `deactivate`, `evaluate` | check-then-activate without a lock; direction guessed from the stop | nothing new is sent once it is on, up to calls in flight |
| **Position sizer** `risk/position_sizer.py` | none | `calculate_position_size` | rounding against its own tolerance | valid inputs get a size |
| **Circuit breaker** `risk/circuit_breaker.py` | `loss_counter`, `state` snapshot; no lock | `register_trade`, `activate`, `deactivate`, `can_trade` | clock failure at the decisive trade, clock set back, reset as a side effect of a query | streaks trip it, only a full cooldown releases it |
| **WebSocket manager, retry loop** `exchange/websocket.py`, `reconnect.py` | state, queue, three asyncio locks | `connect`, `disconnect`, `reconnect`, `publish`, `listen` | listener outlives its session, failing callbacks, two locks taken in turn | reported state matches the transport; no listener or caller hangs |
| **BingX websocket client** `exchange/bingx_websocket.py` | socket, running flag, stream set, two background tasks | `connect`, `disconnect`, `subscribe`, `unsubscribe`, loops | reconnect from inside the loop it restarts; set iterated across awaits and changed after them | nothing runs after `disconnect`; streams survive reconnects |
| **Exchange manager, adapter, REST client** `exchange/manager.py`, `bingx_adapter.py`, `bingx_client.py` | registry, open/closed flags, client, symbol cache | register, connect, disconnect, shutdown, signed requests with retries, orders | partial shutdown and its retry; lost and late answers; wrong symbol cached | an order acts at most once; answers are true; everything opened is closed |
| **Rate limiter** `exchange/ratelimiter.py` | reservation time | `acquire`, `reset` | clock read before the lock, delay slept later still | reserved slots are spaced and ordered; delays have an explanation |
| **Portfolio synchronizer** `execution/portfolio_sync.py` | one aggregate position, applied order ids, under an `RLock` | `apply`, `apply_many`, `apply_once`, `reset`, `equity`, `unrealized_pnl` | double delivery, half-affordable batches, two-lock reads | money is conserved, an order is applied once |
| **Position table** `execution/position_manager.py` | positions by symbol | open, update, reprice (one or many), risk levels, remove, exposures | a batch of prices of which one is refused | the PnL shown belongs to the price shown |
| **Portfolio table** `execution/portfolio_manager.py` | balance, shared live `Position` objects | add, replace, remove, update balance, `equity`, `available_balance` | several locked reads of objects written without the lock | a valuation was true at some instant |
| **Balance table** `execution/balance_tracker.py` | `AssetBalance` by asset | `update`, `update_many`, `replace_all`, `remove`, totals | batches refused late, totals that overflow | refused calls change nothing; parts make up the whole |
| **Histories** `execution/paper_trading.py`, `execution_history.py` | bounded histories | execute, add, find, recent | timestamp before lock; bound drops the oldest | the newest are kept, queries agree |
| **Routing and management** `execution/smart_router.py`, `execution_manager.py` | routes by name; none | register, unregister, route, execute; `execute_many`, `iter_execute` | route chosen, then looked up, then run; batches that stop half way | the executor that was chosen runs; each request once, in order |
| **Dispatch and services** `core/event_bus`, `data/router.py`, `core/kernel`, `core/lifecycle` | handler lists, service list, kernel state | subscribe, unsubscribe, publish; initialize, start, stop | lists changed while iterated, by handlers and by threads without a lock; half-started services | whoever stays subscribed is served; what a failure leaves up is known |
| **Backtesting** `backtesting/*.py` | one run at a time | replay, simulate, statistics, Monte Carlo, walk-forward, search | rounding compared with rounding; windows at the last candle | results agree with the trades they are made from |
| **Other exchange code, registry, container, market data, decision, AI, analysis, domain** | small tables, records, formulas | | numeric edges | not modelled, see section 6 |

**Interactions.** A caller (outside the repository) builds an `ExecutionRequest` with a
portfolio snapshot and calls `ExecutionEngine.execute`, directly or through
`ExecutionManager` or a route of `SmartRouter`. The engine asks
`RiskOrchestrator.validate_trade`, which reads the kill switch, then the circuit breaker
(possibly resetting it), then judges the request. The engine then reads its clock, calls
`place_order` of its venue and records the order in an `OrderTracker` that engines may
share. `InTradeMonitor` runs beside it and activates the same kill switch. Execution
reports go to `PortfolioSynchronizer`. `ExchangeManager` owns adapters by name; an adapter
owns a REST client, and every request of the client first waits for the rate limiter.
Market data arrives through `WebSocketManager.publish` and is consumed by `listen`;
`reconnect()` runs `ReconnectManager.run` over `connect`. All trading components are called
from threads; the exchange package runs on one asyncio event loop.

Not present in the code: persistence. A restart begins with empty tables, so there is no
crash-recovery behaviour to model. The failures the code does handle are modelled where it
handles them: lost and late HTTP answers, dropped sockets, raising callbacks, clocks and
services, cancelled tasks.

## 2. Plan

The order was: orders and the gates in front of them, the breaker, the connection, the
money, the pace of requests; then the exchange, the tables and the rest. All modules of
the plan are written:

1. `OrderLifecycle` (abstract) and `OrderTracker`, which implements it.
2. `ExecutionEngine`, which composes engine, gates, kill switch, monitors, venues and
   `OrderTracker`.
3. `CircuitBreaker`, the inside of the flag the engine's breaker gate reads.
4. `WebSocketManager` with `ReconnectManager`.
5. `PortfolioSync`.
6. `RateLimiter`, the schedule every REST request waits for.
7. `BingXClient` (requests, retries, network, venue, symbol cache) and `ExchangeManager`
   above it (registry, adapters, shutdown).
8. `BingXWebSocket`.
9. `PositionManager`, `PortfolioManager`, `BalanceTracker`, `TradeHistory`, `SmartRouter`,
   `ExecutionManager`, `RiskGates`, `Backtest`, `EventDispatch`, `Lifecycle`, and `Desk`,
   which holds them side by side.
10. `PositionSizer`.

The safety properties of every component are proved (section 6). Wanted next: the
refinement of the table modules of `Desk` to tables that only change whole.

## 3. Modules

**OrderLifecycle / OrderTracker.** Every tracker method runs under one `RLock`, so it is
one action. An order keeps its status and timestamp; symbol, quantity and price never
influence an operation. A failing call is an action that sets `outcome` to the reason and
leaves the table alone, in the code's order of checks (a batch: each item, repeated ids,
known ids, then insertion). `Malformed` stands for any item normalization refuses. The
legacy `update_status` may write any status over any other; the history variable
`overridden` remembers the orders it took off the lifecycle, and the refinement mapping
`Stage` shows these as untracked, because the promise ends there. Read-only queries return
copies and are left out.

**ExecutionEngine.** One action per stretch of `execute()` between two accesses to
something shared: snapshot, kill-switch gate, its second read (the reason), breaker,
limits, clock, `place_order`, tracker. `call[w]` is what worker `w` carries, `answer[w]`
how its last call ended. Two venues may hand out the same identifier. The numeric limits
are a free choice to reject, except `max_positions`, which is the one compared with a
snapshot that other workers make stale. The kill switch is off, on, or on with a reason of
more than 500 characters ("verbose"), the only property of its text the code tests. A
monitor is `InTradeMonitor.evaluate` with its two reads. The breaker is the flag
`can_trade()` answers from and may change at any time. Malformed requests raise before
anything is read and are left out. `slipped` counts orders accepted since the switch was
last off.

**CircuitBreaker.** The class has no lock, so one action is one read or write of a field or
one reading of the clock. `Serialized = TRUE` makes calls follow one another. The clock is
any value of `0..MaxTime` and moves in both directions, and a reading may raise. The
public `state` setter may adopt an activation of unknown age. `streak` counts losses
stored since a win or reset; `unarmed` remembers a failed activation.

**WebSocketManager.** Tasks of one event loop: an action ends where the code awaits. Locks
are queues of tasks, as asyncio's are. Each successful `connect` starts a numbered session
with its own queue; a listener keeps the session it looked up (`reads`). Callbacks return,
return `False`, raise or are cancelled, and a failed close may or may not have closed the
transport. `retries` is chosen once. The delay between attempts is only a point where other
tasks run. `receive_callback` mode, where a listener reads the transport itself, is not
modelled, nor are cancellations of a task that waits for a lock.

**PortfolioSync.** Locked methods are one action; `equity` and `unrealized_pnl`, which lock
twice, are two. The position is size and cost basis, of which the average price is the
quotient; amounts are integers, so float rounding is left out. `seen` (`witnessed` in `Desk`)
collects every true amount during a valuation, and the verdict says how the returned one
compares. Code that reads the live `state` object without the lock is not modelled.

**RateLimiter.** A caller reads the clock, reserves under the lock, starts to sleep, wakes no
earlier than its delay later, reads the clock again and stores it: six points, between which
time may pass and others may move. `tmp` is the one number it carries (a reading, a delay, a
deadline, the moment it passed). `slots` records the reservations since the last reset, and
`read` the first clock reading of a call. A delay counts from wherever the sleep begins, so a
slot says when its caller may pass at the earliest and nothing about when it does. Cancelled sleepers keep
their slot, as the docstring says; `reset()` leaves callers under way with the delay they
have.

**BingXClient / ExchangeManager.** A call is a task: an adapter operation that issues one
signed request, or a search for the symbol and then the request. Timestamp and signature
are made once, so `age` counts from `Issue`, through the limiter and every retry. A step
ends where the code awaits: permit, HTTP answer, sleep. `wire` holds requests that may
still reach the venue; a lost request is never delivered, a lost answer arrives after its
call timed out. The venue and the network are external and do what the code must expect of
them: carry out or refuse, answer `ok`, something unreadable, or a gateway's `busy`. A
symbol is only "right" or "wrong" for the order it is used with. After a search the request
proper goes through the client the adapter has by then (`Continue`), which a disconnect and a
connect may have replaced. `ExchangeManager` extends
the client with adapters (one client after another, each open, closed, or believed closed
although closing it failed) and the registry with its cancellable shutdown. `connect` and
`disconnect` of an adapter hold one lock from end to end and are one step. History variables remember
what was claimed, which closes failed, and which registrations a shutdown still owes.

**BingXWebSocket.** Processes are a controller, a subscriber and the listen tasks, numbered
by the connection that started them; the client only remembers the last one. `off` holds
from the return of `disconnect()` to the next call; `forgotten` tells whether a listen task
the client no longer knew was then alive; `excused` collects the streams whose loss has a
reason in the code. A subscription, also one of `_resubscribe`, sends in one step and adds to
the set in another, and so does an unsubscription; a stream added during the loop of
`_resubscribe` may or may not be met by it. One task subscribes and unsubscribes beside those
that resubscribe. `Hung` is a listen loop that never awaits: nothing else moves any more.

**PositionManager, BalanceTracker.** Locked tables of copies: a method is an action that
validates first. Amounts are integers and `Largest` the largest finite float, so products
and sums beyond it are the infinities the code refuses. A batch of positions, prices or
balances is refused whole; an accepted one is stored item by item under the lock
(`PutEach`, a recursive function over the batch). The totals are sums over the table.

**PortfolioManager.** The table shares its `Position` objects with their holders, who write
them without the lock. A valuation is several steps: read the balance, take the lock again,
add up the positions one by one; `seen` collects the true values meanwhile.

**TradeHistory.** `PaperTrading` reads the clock, then takes the lock and appends with
eviction; `ExecutionHistory` is a bounded sequence with queries.

**SmartRouter, ExecutionManager.** A routed call chooses a candidate, looks its executor up
under the lock, runs it outside and returns; `held` collects what was registered meanwhile. A batch
is handed to the engine one request per step, by `execute_many` or at a generator's pace.

**RiskGates.** `evaluate_trade` as the steps in which it reads switch and breaker, and the
guards as operators over small integers and ratios, at, below and above each limit, with
malformed values; the in-trade monitor's verdict; the lists of failures and the remaining room.
The room left of the drawdown is rounded as the code rounds it, ties to even, in
`DrawdownSteps` steps (`10^6` in the code, 2 in the run).

**Backtest.** One step per turn of a loop: signals come from the caller's iterator and
scores from its objective, and either may raise. Prices are integers and money is rounded to
cents with ties to even, as the code rounds; each record is checked as its class checks it.
The equity and the drawdown pass are recursive functions; counts and sums of wins and losses
are taken over the places where they stand. Sorting is by what it promises (`Ordered`): at a
place stands the value that fewer values are below than the place says, and at least so many are
not above.

**EventDispatch, Lifecycle.** Publishing walks a live list; a handler may publish, subscribe,
unsubscribe or raise, and so may other threads, for neither class has a lock. So the router's
subscription is a test (`Check`) and an append (`Add`), its unsubscription a test (`Find`) and a
removal (`TakeOut`), and the bus's unsubscription reads and filters the list (`Filter`) and then
puts the copy in place of whatever list there is (`Leave`). A lookup of the list and its use are
one step, because a list that has been replaced is reached by nobody but the loops that began
with it. `due` are the handlers whose subscription holds and `gone` those unsubscribed for good:
on the bus a subscription made during an unsubscription does not count as one that holds, nor
does one of two overlapping unsubscriptions as for good; `raced` are those a router was asked
for twice at once. Services are initialized, started and stopped in loops of one step per
service, which may raise or register another; one may be registered more than once.

**Desk.** `PortfolioSync` and the parts of the last six paragraphs share no object, so a behaviour of the
process is a behaviour of each. `Desk` declares them side by side and `focus` chooses the
one that moves: their state spaces add up instead of multiplying. `DeskInvariants` defines the
inductive invariants of the parts, for `DeskProofs`.

**PositionSizer.** Balances and prices are integers; only the size is rounded, to
`log10(Scale)` places. The code has 8 places and a tolerance of `10^-7`; the run has 4 places
and `10^-3`, both coarser by the same factor, because TLC's integers have 32 bits. What
matters is their quotient: sizes below 1/20 can differ by more than the tolerance in both.

Definitions marked "Mutant" are deliberate faults placed next to the definition they alter;
each makes one property fail, which shows that the property depends on the code.

## 4. Runs

| Run | What it shows | Bounds, and why they suffice |
|---|---|---|
| `tracker` | every call sequence implements `OrderLifecycle`; failures change nothing | two orders, two readings, batches of two: operations touch one order, or relate two items of a batch; proved for all sizes |
| `engine` | `CeilingSlack`, `KillSlack`, `AnswersAreHonest`, `RecordsAreNotShared` | two workers, two venues with the same two ids, one monitor, a ceiling of one: two workers can overshoot, share an id, and straddle an activation; proved for all sizes |
| `breaker` | `StreakTrips`, `CooldownHonoured` for calls that do not overlap | two threads, limit 2, counter to 3 (one past it), clock 0..2 with a cooldown of one: before, at and past expiry, and a clock set back; proved for all values |
| `socket` | `ConnectedMeansOpen`, `LiveQueueIsClean`, `DeliveredInOrder`, `HandlersExclude` | two controllers, two listeners, up to two retries, two sessions, one message each: a stale session needs a second one, contention a second task; a queue still holds a message and a stop marker; proved for all values |
| `socket_liveness` | `ListenersReturn`, `CallsReturn` | two controllers, one listener, one retry, no symmetry |
| `socket_stale` | finding: a stale listener reports the new session disconnected | one controller, one listener, a close that never fails |
| `limiter` | `SlotsInTurn`, `NeverEarly`, `DelaysExplained` | two callers, weights one and two, three slots, time to 3: a stale reading needs one other reservation or one tick; proved for all values and unbounded time |
| `limiter_bunched` | finding: permits pass together although their slots are apart | the same, without resets |
| `exchange` | `ActsOnceInTime`, `AnswersAreTrue`, `OnlyClaimsMislead`, `LeaksOnlyAfterFailedClose`, `FailuresStayRegistered` | two calls, two adapters of which one has an injected client, two names, two clients per adapter, one foreign order, one retry, a window of one tick, four stimuli (a call costs two): one retry can duplicate, one tick more than the window is too old, a failed close needs one shutdown and its retry another, and two calls are enough for one to close what the other sends; proved for all values |
| `bingx_socket` | `DisconnectIsFinal`, `SubscriptionsSurvive` | two streams, three connections, one reconnect attempt, two requests: one connection to lose, one reconnect that forgets a task, one that revives the client; proved for all values |
| `desk` | the properties of each part, see below | two or three of everything that is told apart; histories of two with three entries, so that one is evicted; numbers at, below and above each limit, and a balance whose room left rounds to nothing; two threads, two handlers and lists of two for dispatch, so that one change can come between the halves of another; for the synchronizer two orders, quantities 1-2, prices 2-3, cash 0 or 7 (broke, and enough for two or three fills but not for every batch) and batches of two; proved for all values, `BootstrapsAreOrdered` for fewer than 20000 simulations. About 1.2 million states; handlers, symbols and position objects are symmetric, since no property or order tells them apart |
| `sizer` | finding: a valid input whose size is refused | one balance, one percentage, three prices |

`MaxCounter`, `MaxTime`, `MaxSlots`, `MaxSessions`, `MaxMessages`, `MaxRetries`, `MaxBatch`,
`MaxClients`, `MaxStimuli`, `MaxSockets`, `MaxRequests`, `MaxChanges`, `MaxStored`, `MaxSignals`,
`MaxTrades`, `MaxSimulations`, `MaxData`, `MaxValues`, `MaxListeners`, `MaxServices` and `Largest` bound
what the code does not bound, or bounds much higher. Orders of `engine` are bounded by the
identifiers. Deadlock is not checked in `exchange`, `bingx_socket` and `desk`: their bounded
stimuli run out, a spinning listen loop stops everything, and a part of the desk may have
nothing more to do. In the others it is.

The properties of `desk`: `BooksBalance`, `AppliedOnce` and `NeverOverstates` for the
synchronizer, `RepricedPnLIsRight` (with the exposures) for positions,
`TornOnlyByTwoChanges` for valuations, `HistoriesAreFaithful` for order and eviction,
`CoordinatorsAreFaithful` for routes and batches, `DecisionsAreFounded` for verdicts,
`ReplaysAreFaithful` for replays, windows and searches, `BootstrapsAreOrdered` for
bootstraps, `TotalsAgree` for balances, `SubscribersAreServed` for dispatch and for services that are started and stopped.

**What the properties say beyond the documentation.** `max_positions` and the kill switch
are not exact under concurrency: the model gives the exact slack, `Workers - 1` positions
and one order per worker. With a single worker the ceiling is exact. A `False` of
`execute()` does not always mean that no order exists: an acceptance without a usable
identifier ends as "lost". `AnswersAreHonest` fixes precisely which endings can leave an
order behind. `AnswersAreTrue` does the same for the REST client: a refusal by the venue is
a promise that nothing happened, `NetworkError` and the other ambiguous errors are not.
`DisconnectIsFinal`, `LeaksOnlyAfterFailedClose`, `SubscriptionsSurvive`, `OnlyClaimsMislead` and
`TornOnlyByTwoChanges` each name the only ways in which the code can fall short.

**Fairness.** `FairSpec` assumes weak fairness of each task's started steps: the event loop
runs every ready task, and callbacks and handlers return. It assumes nothing about callers:
nobody has to connect, disconnect, publish or listen. `ListenersReturn` is conditional on
the manager staying disconnected. asyncio's first-come locks make weak fairness enough. No
liveness is stated for the BingX client, whose listen loop may starve the event loop, nor
for the REST client, where every wait is bounded by a timeout of the HTTP library.

## 5. Where the code and its documentation part

Three disagreements have a run of their own (details in `PROJECT.json`).

* `socket_stale`: after a reconnect a stale listener leaves `connected` `False` with an open
  transport; `publish` refuses and `disconnect` returns at once without closing.
* `sizer`: `calculate_position_size(100, 1, 60000, 57000)` raises `ValueError`; so does any
  small size whose eighth decimal matters.
* `limiter_bunched`: "Enforce a minimum interval between weighted request permits"
  (`ratelimiter.py:17`) holds of the reserved slots (`SlotsInTurn`) and not of the permits: a
  caller held up between its clock reading and its passage, or one that wakes late, passes
  together with the caller of the next slot. A delay counted from an old reading is also slept
  in full, so a caller may oversleep its slot; `DelaysExplained` bounds by how much.

The models contain these disagreements as well; they are named here and in the invariants
that carve them out.

* `RiskOrchestrator.validate_trade` "Return[s] whether all risk gates approve"
  (`risk_orchestrator.py:361`), but with a kill-switch reason over 500 characters, which
  `KillSwitch.activate` accepts, the rejection is a `ValueError` (`KillReason` of `ExecutionEngine`).
* "This prevents a successful exchange submission that cannot be timestamped/tracked"
  (`execution_engine.py:474`): two venues with the same identifier still lead to an order the
  tracker refuses (answer "duplicate").
* "The breaker blocks new trading activity after a configured number of consecutive losing
  trades" (`circuit_breaker.py:3`), except when its clock raises at the last of them
  (`unarmed`).
* `PortfolioSynchronizer.equity` (`portfolio_sync.py:568`) can return an amount the portfolio never
  had, though never one above all of them; `PortfolioManager.equity` likewise, when two things
  change during the call.
* `ExchangeManager.shutdown` keeps an adapter whose disconnect failed for a retry, but the
  retry does nothing, since the adapter already believes its client closed (`failedClose`).
* The BingX client's forgotten listen task reconnects after `disconnect()` (`forgotten`), and with
  `auto_reconnect` off the listen loop of a dropped connection spins and blocks its event loop
  (`Hung`).
* When a connection of the BingX client is replaced, a stream that is unsubscribed while
  `_resubscribe` sends its request is told off the wire and then added to the set again
  (`bingx_websocket.py:176`): it is in the set but not on the connection until the next one.
  The same is so of a request under way when the connection is replaced, and of the streams
  left over when `_resubscribe` raises (`excused`).
* A router that is unsubscribed from inside a handler, or by another thread, during a publication
  may pass over the next handler (`shrunk`); the bus, which replaces its list, does not.
* Under concurrent calls the bus loses a subscription made between the two halves of an
  unsubscription, and one of two overlapping unsubscriptions (or a `clear`) may be undone. Two
  overlapping subscriptions of one handler put it on a router's list twice (`raced`), where it
  is called twice, and once still after it was removed.
* `DrawdownGuard.remaining_drawdown` rounds to six decimals and may report 0.0 while `check`
  allows: a peak of 10000000, a balance of 8500001 and a limit of 0.15. It is off by half a step
  at most.
* Monte Carlo fills a legacy field when its probability is 0.00; with some twenty thousand
  simulations a rounded probability can be that by accident. Outside the bounds.

## 6. Proofs

All theorems hold for every value of the constants under the named assumptions of the
modules. Of the first eight modules of the plan: `WorkersAssumption`: a finite nonempty set;
`MaxPositionsAssumption`: positive; `LimitsAssumption` of the breaker and of the REST client,
whose adapters have at least one client; `LengthsAssumption`: slots have a positive length;
`BoundsAssumption` and `StimuliAssumption`: the bounds are numbers, of any size;
`MalformedAssumption`; `AdaptersAssumption`, `NoneAssumption`: `None` is no adapter, order or
symbol, and orders placed elsewhere are not ours; `CloseAssumption`; `StreamsAssumption`:
there are finitely many streams to subscribe to. Of the parts of `Desk`,
together `PartsAssumption`:

* amounts are integers, prices, quantities and sizes positive ones, which is what the
  constructors and validators let through (`AmountsAssumption` of the synchronizer and of the
  balances, `OffersAssumption`, `ShapesAssumption`); balances may be negative or malformed,
  since refusing those is what the table does;
* there are finitely many symbols and threads, histories hold at least one entry, and route
  priorities are numbers (`ShapesAssumption`, `HistoryAssumption`, `BoundsAssumption`);
* `Malformed`, `None` and `NoPrice` are not among the values they stand beside;
* the limits are numbers, the two ratios lie in 0..1, and the drawdown limit is not zero
  (`LimitsAssumption`). `DrawdownGuard` refuses a zero limit; with one, its "at the limit" would
  reject a drawdown of nothing;
* in backtests, the two rates are fractions in 0..1, prices and quantities whole numbers of
  their units, results and scores integers, and what is no score is not one of them
  (`RatesAssumption`).

* `OrderTrackerProofs`: `TypeCorrect`, by one lemma per way of writing the table; and
  `TrackerImplementsLifecycle`: initial states map to initial states and each step to
  `Track`, `Advance`, `Forget` or a stutter. The type invariant is the inductive invariant:
  the mapping needs only that statuses are statuses and `overridden` orders are tracked.
  `FailuresChangeNothing` needs no invariant: it is a fact about each step.
* `ExecutionEngineProofs`: `TypeCorrect` needs that a tracking worker holds an order and
  that `live` is finite. `KillSwitchBound` rests on `KillInv`: while the switch is on, orders
  that slipped plus workers past the gate (`Cleared`) are at most the workers, because nobody
  passes the gate and who sends leaves it. `KillSlack` alone is not inductive: it does not
  limit how many workers are still to send. `CeilingBound` rests on `CeilingInv`: live
  orders plus workers holding a snapshot below the ceiling (`Holding`) stay at most
  `MaxPositions + Workers - 1`. A new snapshot joins `Holding` only when the live orders are
  below the ceiling, so the sum is within it. `AnswersAlwaysHonest` and `RecordsNeverShared`
  rest on `HonestInv`: a worker under way has no answer and, before the tracker, no order
  (`Undecided`); an idle one with an order answered "true", "lost" or "duplicate" (`Accounted`);
  and a true answer stays true because placed orders and the shared table only grow here (`Recorded`).
* `CircuitBreakerProofs`, for callers that do not overlap (`ASSUME Serialized` in the
  theorems): `TypeCorrect`, `StreakAlwaysTrips`, `CooldownAlwaysHonoured`. The invariant says
  that at most one call is under way (`Solo`), what it knows at each point (`Knows`), and that the
  counter is the streak and a full streak is armed or about to be (`Counted`).
* `RateLimiterProofs`: `TypeCorrect`, `NobodyIsEarly`, `SlotsAlwaysInTurn`, `DelaysAlwaysExplained`.
  Two invariants: what each caller has computed is true of its slot (`Knows`), and every slot
  ends by `_next_available_at` (`Scheduling`); with the latter the order of slots is inductive.
* `ExchangeManagerProofs`, over the registry, the adapters and the calls together.
  `TypeCorrect` needs that a call goes to sleep only while it has an attempt left (`Counted`),
  and that the call under way was given a client that exists (`CallTypes`).
  `FailuresAlwaysStay`: during a shutdown the registry is as it was at its start (`Frozen`),
  because its lock is held. `AlwaysOnceInTime` rests on `OnceInv` (`Careful`): a call that
  changes something makes one attempt, has one packet under way at most, and none once it has
  acted; when it acts, the venue has compared its age with the window.
  `AnswersAlwaysTrue` rests on `TruthInv`: what was answered was true when it was given, and
  stays so because orders never vanish or reopen, which needs that nothing is placed twice.
  `ClaimsAloneMislead`: every remembered or used symbol is right or was claimed for that order
  (`SymbolInv`). `OnlyFailedClosesLeak` rests on `LeakInv`: a closed client has no open
  transport, and a client the adapter has left behind was closed or its close failed (`Kept`).
* `WebSocketManagerProofs`: `TypeCorrect`, `HandlersAlwaysExclude`, `ConnectedAlwaysOpen`,
  `LiveQueueAlwaysClean`, `AlwaysDeliveredInOrder`. `LockInv` says where a lock is held: a callback runs under the
  lifecycle lock, the retry loop under its own, a taking or handling listener under the listen
  lock, and who holds a lock heads its queue. With it a step of one task leaves the session of
  the others alone, and `ConnectedMeansOpen` and `LiveQueueIsClean` are inductive (`SessionInv`). The order of delivery
  rests on the positions of messages: what a listener has handled, what it holds in its hands
  and what is in its queue are one after another a part of what was published.
* `BingXWebSocketProofs`: `TypeCorrect`, which needs that what is counted and numbered is
  finite; `DisconnectAlwaysFinal` rests on `FinalInv`: listen tasks are
  numbered as connections are, only the newest is remembered (`Numbered`), so that, if none
  was forgotten, cancelling the remembered one leaves no listen task alive (`Quiet`), and the
  one connection not replaced is the one that is closed (`OneLink`, `Released`). `SubscriptionsAlwaysSurvive` rests on `CareInv`: every stream of the set is at
  each moment on the wire, excused, in the subscriber's hands or still to be subscribed again.

* `DeskProofs`: the parts of `Desk` share no variable, so each has an invariant of its own that
  needs nothing of the others, and a step of one part leaves the invariants of the rest alone.
  Two tools come first. `LeastNumber` (a nonempty set of naturals has a least element, because `<` on
  them is well founded) and `UpTo` give induction for a set of numbers, which is first-order;
  with it `Recursion` shows that a recursive function over `0..n` exists and satisfies its
  equation, so the loops over batches can be unfolded. The lemmas about `Summing` and `Total`
  say what a sum over a finite set is: independent of the order, additive, within the sum of
  bounds, and with one element taken out. That is all the tables need.
  - `AlwaysBooksBalance`, `AlwaysAppliedOnce`, `AlwaysNeverOverstates` (`SyncInv`): unless a
    reset spoilt it, the market value a thread has read is at most what the position is worth
    now, since executions only add to it, and what the valuation would return with the book as
    it is now was true during the call (`Founded`).
  - `AlwaysCoordinatorsAreFaithful` (`RouterInv`, `ManagerInv`): the executor a call looked up is
    among those `held` under its name since it was chosen; the manager has handed the engine
    exactly the first `Len(results)` requests (`Sending`).
  - `AlwaysDecisionsAreFounded` (`GateInv`): what an evaluation has recorded of the switches is
    one of the values they had since it began (`Recorded`), and a gate that was passed had no
    objection (`Past`); the numbers of a request never change on the way.
  - `AlwaysSubscribersAreServed` (`EventInv`, `CoreInv`): what is subscribed is in the list and in
    every copy the bus will put in its place, and what is gone in neither (`ListInv`). A loop whose
    list lost nothing has called the first of it, and that list still begins as it did; one whose
    list shrank runs over distinct handlers, those raced aside, and those it has called and that
    have stayed lie behind it (`RunInv`). What `start()` has passed is up, and what is up while
    `stop()` runs is what it has still to pass.
  - `AlwaysHistoriesAreFaithful` (`TradesInv`, `ReportsInv`): what is kept is a suffix of what was
    stored (`Kept`); the trades stored after one and stamped before it, with those that still
    wait for the lock, are fewer than the threads (`Bounded`), because they were all in the
    hands of other threads when it was stored.
  - `AlwaysRepricedPnLIsRight` (`BookInv`): a stored PnL is the one of the stored mark. The
    agreement of the exposures follows from the sum lemmas.
  - `AlwaysTotalsAgree` (`AccountsInv`): an asset stands in the table once, and storing a batch
    leaves each of its balances, and what it does not name, in the table (`PutEachKeeps`).
  - `AlwaysTornOnlyByTwoChanges` (`PortfolioInv`): until the lock is taken again, the
    sum is the balance unless that changed, and, if at most one thing has changed, the sum
    and what the positions are worth now were true together (`BeforeLock`); afterwards the
    same holds of the sum so far and the positions left, unless an object that changed stands
    under two symbols and may be counted before and after (`UnderLock`).

  - `AlwaysReplaysAreFaithful` (`JobInv`, by kind of loop): a run has recorded each of its
    signals (`Faithful`); the windows so far stand at the first multiples of the stride and all
    fit (`Walked`), and when the next one does not fit no later multiple does; the best
    combination is the first of the highest scores so far (`Searched`). The figures of a run
    are facts about any sequence of results. Each rounding is off by half a unit at most
    (`RoundedNear`), so three of them by one and a half (`SimulateNear`), and the three rates
    miss the whole by one unit at most (`RatesAddUp`). The drawdown pass knows the highest
    equity so far and the deepest fall from any earlier equity (`Highest`, `Deepest`), and the
    loss over a stretch is a difference of equities (`Stretch`). Gains and losses are the two
    parts of one sum (`WinsAndLosses`), which is why both engines agree.
  - `AlwaysBootstrapsAreOrdered` (`JobInv`, with `Drawn` for the loop of a bootstrap): a profit
    recorded is at most the best result as often as there are results, and a loss at most the
    drawdown recorded beside it, because the drawdown pass starts from a peak of nothing
    (`LossIsFall`). The rest is about the figures at the end. The value that `Ordered` promises at
    each place exists (`OrderedIs`) and rises with the place (`OrderedRises`); a percentile lies
    between the values at the two places around its position and rises with its share
    (`PercentileIs`, `PercentileOrder`); rounding, even with ties to the even cent and of fractions with
    different denominators, keeps the order and is odd (`RoundedOrder`, `RoundedOpposite`). So a profit
    whose rounded value is below a rounded percentile is itself below the value at the upper
    place, which leaves it one of few (`ProfitsAround`). The theorem assumes
    `Few(MaxSimulations)`, fewer than 20000, twenty times the default of `MonteCarloEngine.run`: from there on one
    profitable simulation has a probability that is rounded to nothing, and the property fails
    with the code (section 5).
  - `TypeCorrect`: most of the types are already in these invariants. What they lack is that the
    numbers of a table stay finite: a position keeps side, size and entry price of an offer whose
    notional was checked (`BookTyped`), objects are worth one of the profits their holder writes
    (`PortfolioTyped`), and trades carry stamps of the clock (`HistoriesTyped`).

**Only model-checked:** the liveness properties `ListenersReturn` and `CallsReturn`, since the
prover has no fairness reasoning.

## 7. Not modelled, and known limits

* Market data (`data/`), apart from the router: synchronous tables and builders with one
  caller. `CandleBuilder` ignores its timeframe, so no candle is ever closed by time and
  there is no rollover to model.
* Registry, container and order manager are one dictionary or list each. Exchange models,
  domain objects, execution reports and slippage are immutable records and formulas;
  decision, AI and analysis code are weighted sums and pattern detectors over floats, which a
  model would only repeat.
* Payload parsing, configuration, logging, the written reports, the Sharpe ratio and
  percentage returns. Cryptographic signing is only the moment at which it happens.
* `receive_callback` mode of the websocket manager, and cancellation of a task that waits for
  one of its locks; heartbeats of the BingX client, which only send pings.
* A breaker called by overlapping threads. With `Serialized = FALSE` the model violates
  `CooldownHonoured` (the age of one activation resets a newer one); the class promises
  nothing for threads, so this is recorded as a hazard and no property.
* `BingXAdapter.place_order` is a coroutine while the engine calls `place_order`
  synchronously and would take the coroutine's text for an identifier. The engine module models
  the synchronous interface of `interfaces/exchange_interface.py`.
* `PortfolioSynchronizer.apply` does not record order ids, so mixing it with
  `apply_once` books a report twice; no documentation excludes it. `RateLimiter.last_request_at`
  may go back when two callers store their times out of order; nothing reads it.
* Rounding of floats, except in `PositionSizer` and `Backtest`, where it is the subject, and in the
  room left that `RiskGates` reports.
