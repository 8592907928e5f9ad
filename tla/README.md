# QuantFlow: a verification of its execution core

TLA+ models, TLC runs and TLAPS proofs about QuantFlow, an automated trading
system written in Python (`quantflow/`). The work concentrates on what moves
money and is hard to test: orders, fills, timeouts, exposure limits, the
emergency stop, crash recovery, the circuit breaker, the session that holds
them together, and the bars it trades on.

| Component model | Abstract specification | Proofs | TLC instance |
|---|---|---|---|
| `OrderLifecycle`: the live order path | `FillLedger` | `OrderLifecycle_proofs` | `MCOrderLifecycle`, `order_*.cfg` |
| `KillSwitch`: the emergency stop and its callers | | `KillSwitch_proofs` | `MCKillSwitch`, `kill_*.cfg` |
| `SignalGate`: risk checks and reservations | | `SignalGate_proofs` | `MCSignalGate`, `signal_*.cfg` |
| `SessionRecovery`: crash, checkpoint, restart | | `SessionRecovery_proofs` | `MCSessionRecovery`, `session_recovery.cfg`, `recovery_orphan.cfg` |
| `ExchangeHealth`: the breaker, those who feed it and those who obey | `CircuitBreaker` | `ExchangeHealth_proofs` | `MCExchangeHealth`, `exchange_health.cfg`, `health_stuck.cfg` |
| `StationSession`: the Station's session manager | | `StationSession_proofs` | `MCStationSession`, `station_*.cfg` |
| `BarFeed`: polling, replay, loss baselines | | `BarFeed_proofs` | `MCBarFeed`, `bar_feed.cfg`, `feed_baseline.cfg` |
| `BarStore`: the partitioned bar files | `BarTable` | `BarStore_proofs` | `MCBarStore`, `bar_store.cfg` |

To repeat a check: `tlc -config order_ledger.cfg MCOrderLifecycle.tla`; to
repeat the proofs: `tlapm OrderLifecycle_proofs.tla`.

## 1. Inventory

QuantFlow is layered L1 (data) to L6 (monitoring). A trading session is one
asyncio event loop: code between two `await`s is atomic, and everything hard
comes from what happens during an `await`. The tasks of a live session are the
data loop (`TradingSession.run_data_loop`, the only task that submits orders),
the consumer of the exchange's `watch_orders` stream, background activations of
the kill switch, the metadata feeds, and the Station's HTTP handlers.

| Component | State | Operations | Hard behaviour | What makes it correct |
|---|---|---|---|---|
| Order manager (`execution/order_manager.py`) | `_orders`, `_pending` (id to time of submission) | `track`, `update`, `check_timeouts`, eviction | late and repeated updates, timeout against late fill | finished orders stay finished; open orders are timed |
| Execution engine (`execution/engine.py`) | gateway, order manager, `applied_filled_qty` of each order | `submit`, `_handle_fill`, `_on_order_update`, `cancel`, `sync_positions`, `check_timeouts` | REST response and push report one fill in either order; ambiguous timeouts | a fill is booked once and never ahead of the exchange; one fill event |
| OKX gateway (`execution/okx_gateway.py`) | connection, stream task | `send_order`, `cancel_order`, `cancel_all_orders`, `query_positions`, `subscribe` | calls that time out with an unknown effect, a stream that loses its buffer | failures are told from empty answers |
| Paper gateway (`execution/paper_gateway.py`) | simulated positions and prices | the same contract, synchronously | reduce-only caps, partial fills | parity with the live contract |
| Position manager, portfolio (`signal/portfolio.py`) | quantity and price per symbol, cash, pending reservations | `update_position`, `set_position`, `reserve`, `confirm`, `release`, `sweep` | overwritten by a sync while fills are reported | book equals position, exposure is never undercounted |
| Risk engine, funding gate (`signal/risk_engine.py`, `signal/funding_risk_gate.py`) | returns, P&L windows, pause reasons | `check`, drawdown stop | reasons shared between symbols | no new entry while a limit is broken |
| Kill switch (`execution/kill_switch.py`) | `_active`, `_reason` | `activate`, `deactivate` | several callers, every step may fail, orders in flight | no order but the one that had passed the gate is sent after it, positions end closed or reported |
| Trading session (`strategy/engine.py`) | `_running`, strategies, signal lock, background tasks | `start`, `on_bar`, `run_data_loop`, `stop`, checkpoint and recovery | cancellation in the middle of an await, crash between checkpoints | no trading on an unverified book |
| State store (`execution/state_store.py`) | last checkpoint on disk | `save`, `load` | crash between two saves | a torn or old file is noticed |
| Reconciliation (`reconciliation/engine.py`) | discrepancies found | `reconcile` | an exchange error in the middle | verified means that book and exchange agree |
| Exchange health (`execution/exchange_health.py`) | window of results, streaks, breaker | `record_*`, half-open probe | late results of old calls | opens on errors, closes only after recovery |
| Station session manager (`web/session_manager.py`) | the one runtime, a lock | `start`, `stop`, `trigger_kill_switch` | loop crash, start over a crashed session | at most one session trades |
| Alerts, caches, rate limits, model registry | small maps | `send`, `get`, `register` | concurrent misses, failed deliveries | no alert lost, no stale promotion |
| Bar feed (`data/fetcher.py`, `strategy/engine.py`) | `last_timestamps`, capped equity history, weekly pointer, daily baseline | `fetch_candles`, `on_bar`, replay | pages, failing requests, bars that raise, eviction under a pointer | no candle passed over, baselines name what they say |
| Bar store (`data/store.py`, tagging in `web/service.py`) | a Parquet file per symbol and month, thread locks, lock files | `save`, `tag_data_source` | two processes, partial failure, death between write and rename | no update lost, no bar twice |
| Indicators, strategies, research, CLI, frontend | features, results | compute, render | numeric | not protocol-like |

How they interact: the data loop calls strategies, the risk engine and the
portfolio, then `ExecutionEngine.submit`, which awaits the gateway through the
order router. Fills come back twice, in the response of `create_order` and as
pushes; both go through `_handle_fill` to the portfolio. The data loop times
orders out, cancels them and syncs positions. Risk events travel over the event
bus to `_on_risk_event`, which creates a task for the kill switch. The Station
reaches a session only through `StationSessionManager`, under its lock.

`PROJECT.json` lists every component with what is and is not modelled, and the
hazards of the modelled ones at their lines with the properties that would catch
them; those met elsewhere are at the end of section 7.

## 2. The modules

### OrderLifecycle and FillLedger

`OrderLifecycle` is the live order path. `pc` is the call the data loop awaits:
`idle`, `route` (create_order), `cancel`, `query` and `answered` (the two halves
of query_positions). The stream consumer has no program counter because
`_apply_order_update` contains no suspension.

| Model | Code |
|---|---|
| `tracked[o]` (status, filled, applied) | `OrderManager._orders[o]` with `filled_quantity` and `applied_filled_qty` |
| `pending`, `aged` | `_pending`, and the orders in it older than the timeout |
| `work`, `asked` | the list `run_data_loop` works off, and the cancels it sent |
| `book`, `booked`, `fees`, `fillEvents` | L4 quantity per symbol; what `update_position` was given per order; `EVENT_FILL` |
| `ex`, `exPos`, `stream` | the exchange (external) and the buffered pushes |
| `Submit`, `RouteReturns`, `RouteFails` | `submit`: before the await, after a response, after an exception |
| `OnOrderUpdate` (`ApplyOrderUpdate`, `EndOrder`, `StampFill`) | `_on_order_update`, `_apply_order_update` |
| `HandleFill`, `Delta`, `AppliedAfter`, `Mirror` | `_handle_fill`, and the mirroring onto the tracked copy at the end of `submit` |
| `CheckTimeouts`, `NextTimedOut`, `CancelReturns`, `QueryAnswered`, `SyncReturns`, `SyncFails` | the timeout loop of `run_data_loop` with `check_timeouts`, `cancel`, `sync_positions` |
| `StreamReconnects` | `_watch_orders_loop` after an exception; also a session without `ws_order_stream` |

A response carries any fill quantity up to what the exchange has now, since it
is a snapshot taken earlier; pushes arrive in order. `RouteFails` leaves the
order's fate open: the exchange may have it or get it later.

`FillLedger` is the promise behind all of it: a lot is booked at most once,
never before it is filled, and never for an order already declared dead.
`OrderLifecycle` refines it with `filled` read from the exchange, `booked` as it
is, and `dead` the orders tracked as CANCELLED or REJECTED.

### KillSwitch

`step` is the gateway call the stop awaits and `who` the caller whose
`activate()` it is: the data loop (drawdown breach in `on_bar`), a background
task (risk event or funding gate) or the operator. `active` is set before the
first await, so other callers return at once. `errors` and `status` are the
result. The session around it is modelled as far as the stop is concerned:
`loop` is where the data loop is (`bar` is every suspension of `on_bar` between
the check on entry and `submit`), `calls` what tasks and operator are doing,
`stopping` the two halves of the operator's stop, which holds the same lock as
`trigger_kill_switch` and cancels activations in the loop and in tasks.
`Submit` passes the gate in `ExecutionEngine.submit` and awaits
`ensure_connected`, which may reconnect and sleep; `SendOrder` calls
`create_order` without another look at the switch, `ConnectFails` is the end of
the last attempt. The order is on the exchange whenever it gets there.

The variables `cancelled`, `late` and `slipped` are history: whether the
exchange carried out `cancel_all_orders`, whether it accepted an order when that
was over, and which orders the session sent with the switch active. They guard
nothing; they say in which cases a flat book can be promised, and what passes
the gate.

### SignalGate

The pre-trade gate around the order path. `reserved` is the pending ledger of
the portfolio, keyed as the code keys it: by a fresh uuid on reservation, by
the exchange's id when the timeout loop releases. `Potential(o)` is what an
order may still add to the book. Entries and exits are orders alike: both are
submitted, answered, pushed, timed out and cancelled by the same actions; an
exit is reduce-only, passes no check and has no reservation.

| Model | Code |
|---|---|
| `Reserve`, `Release`, `PartialConfirm`, `PendingFor` | `reserve`, `confirm`/`release`, `partial_confirm`, `pending_view` of `PortfolioManager` |
| `PositionLimitPasses`, `PortfolioLimitPasses`, `ExchangeExposurePasses` | the checks of `RiskEngine.check` that read book and ledger |
| `Sizes` | the cap of `PositionSizer.size` |
| `EntrySignal`, `SubmitReturns` (`Settle`), `SubmitFails` | `_process_signal_inner` up to the await of `submit`, and its outcomes |
| `ExitSignal` | `_close_position_for_signal`: a reduce-only order over the position held |
| `Booking` | the signed delta `_handle_fill` gives to `update_position` |
| `PushFills`, `PushCanceled`, `TimeOut`, `CancelReturns`, `QueryAnswered`, `SyncReturns`, `SyncFails` | the stream and the timeout loop, with its four quadrants of cancel and sync |
| `Sweep`, `ReleaseAll` | `sweep_stale_pending`, `release_all` behind the kill switch |

`lost` (reported REJECTED, yet the exchange may have it) and `swept` (released
by the sweeper, with a critical alert) are the two ways in which the code gives
an exposure up knowingly. A third it does not know of: a sync overwrites the
book with a position from which lots of an exit are gone already, and the push
of these lots, still to come, subtracts them again. `counted` (history) are the
lots of each exit an answer takes into account, and `blurred` the pairs whose
book was overwritten with such an answer before the exit had been booked. What
`ReservationCovers` says is of orders neither lost nor swept; the bounds on
exposure are for tracked pairs, no order of which was lost or swept and which
are not blurred. `signal_exit_twice` shows what becomes of a blurred one.

### SessionRecovery

| Model | Code |
|---|---|
| `file`, `temp`, `SaveBegins`, `SaveEnds` | `StateStore.save_checkpoint`: write a sibling, replace |
| `Start`, `StartFrom`, `StartWithout` | `start()`: no file, an unreadable one, a checkpoint |
| `PositionsAnswered` (`Drifted`), `PositionsFail`, `OrdersAnswered` (`Orphan`), `OrdersFail`, `VerifyEnds` | `ReconciliationEngine.reconcile` and `_recovery_verified` |
| `Enter`, `Push`, `Flatten` | a session that may enter; fills and exits |
| `Crash` | the process ends at any step, memory is gone |
| `ExFill`, `ExDrop`, `Age`, `FileChanges` | the exchange goes on without the session; the file is damaged or removed |

`strays` is history: lots filled that no running session tracks, since the
exchange was last asked. No program can know them, so `RestoredBookIsTrue`
allows for exactly them.

### ExchangeHealth and CircuitBreaker

The monitor, composed with the gateway that records outcomes, the session whose
entries the risk engine refuses while the breaker is open, and the kill switch
that the opening arms. `samples[ok][age]` is the window, `since` the time since
`_opened_at`, `streak` the successes of the half-open state.

| Model | Code |
|---|---|
| `RecordFailure` (`ShouldTrip`, `Trip`, `Reanchor`), `RecordSuccess` (`Recovered`, `CloseCircuit`) | the `record_*` methods of `ExchangeHealthMonitor` |
| `Publish`, `Activate` | EVENT_RISK to `_on_risk_event`, and its task |
| `SendBegins`, `Reconnected`, `ReconnectFails`, `OrderPlaced`, `OrderFails`, `QueryFails`, `StreamFails` | `OKXGateway`, with what each records |
| `Enter` (`Admits`), `Exit` | risk check, gate of `submit` and `send_order` up to its first await; exits pass by the circuit check |
| `KillQueryAnswered`, `KillQueryFails`, `KillCloses` | the stop, which uses the same gateway and so feeds the same breaker |

An entry that waits in `ensure_connected` when the breaker opens is placed
afterwards, if there is a connection: `slipped` counts the entries placed
(`OrderPlaced`) since the first opening.

`CircuitBreaker` is the promise: the breaker closes only after a cooldown
without a failure and three successes without one. `BreakerState` is the
refinement mapping.

### StationSession

Requests queue for `asyncio.Lock`, which serves first come first served: a
request is its place in that order. Every write to the history may raise.

| Model | Code |
|---|---|
| `StartBegins`, `StartRefused`, `StartFails`, `SessionStarts`, `SnapshotRaises`, `StartedRaises` | `start()` and each place it can raise at |
| `StopsNothing`, `StopBegins`, `LoopCancelled`, `LoopRaises`, `SessionStops`, `SessionStopRaises`, `FlusherEnds` | `stop()` |
| `KillRefused`, `KillBegins`, `KillEnds` | `trigger_kill_switch()` |
| `Publish`, `Take`, `Write`, `FlushTask`, `Poll` | the bus handlers, `_flush_pending_events` and who calls it |
| `LoopEnds` | the loop finishes or crashes by itself |

### BarFeed

| Model | Code |
|---|---|
| `FetchPage`, `FetchFails`, `Query` | `fetch_candles`, page after page; the paper replay's query of the store |
| `BarBegins` (`Records`), `BarBreaksDrawdown`, `BarEnds`, `BarRaises`, `BarIgnored` | `on_bar` up to its first await, and how it ends |
| `HandedOn`, `NextTurn`, `RowsEnd`, `Rests` | `last_timestamps` and the rotation in `run_data_loop` |
| `Recorded`, `Shifted`, `WeeklyBase` | the capped `_equity_history`, `_weekly_base_idx` and `_weekly_base_equity` |

### BarStore and BarTable

| Model | Code |
|---|---|
| `TakeInner`, `TakeOuter`, `TimesOut`, `Release` | the lock of the process and the lock file of a month |
| `Read` (`Merged`, `Appends`, `Deduplicated`), `Open`, `Replace` | `DataStore.save`: read, merge on the fast or the slow path, write beside, rename |
| `Refused`, `Rewritten` | `tag_data_source` |
| `Fails`, `Answer`, `Crash` | an error, the answer that reads the store again, the death of a process |

`BarTable` is one table of bars that jobs change a month at a time, each month
at once. The refinement mapping forgets locks, temporary files and the place of
a job; the rename is `Put`.

## 3. The runs

| Run | States | Shows |
|---|---|---|
| `order_ledger` | 198,609 | `FillsBookedOnce`, `FillEventExact`, `OpenIsTimed`, `AbandonedIsAsked`, refinement of `FillLedger`; `OpenOrderEnds`: every open order ends |
| `kill_switch` | 1,033,297 | `OneSlipsPast`: at most the order that had passed the gate is sent after the activation; `ClosingOnlyReduces`, `StopIsThorough`, `ActivationEnds` |
| `signal_gate` | 2,477,629 | `ReservationCovers`: what an order may still add is reserved; hence, of tracked pairs, `ExposureSeen`, `ExposureBounded`, `PositionsBounded`; `EndedStaysEnded`: no outcome revives a reservation |
| `session_recovery` | 143,574 | `RestoredBookIsTrue`: a restored session that may enter knows what it holds; `CheckpointIsWhole`; `CleanRestartTrades`: fail-closed is not fail-stuck; `StartEnds` |
| `exchange_health` | 747,772 | refinement of `CircuitBreaker`; `OneEntryAfterTrip`: at most the entry under way is placed after the opening; `TripStops` |
| `station_session` | 208,957 | `EventsPersistedOnce`, `ConfirmedIsOwned`, `StopIsComplete`, `RequestsServed` |
| `bar_feed` | 150,849 | `CandlesInTurn`, `WeeklyBaseIsFirst`; `SteadyNotStarved`: failing symbols do not starve another |
| `bar_store` | 34,452 | `KeyedOnce`, refinement of `BarTable`, `JobsEnd` |
| `order_lost_fill` | violated | a push during the await of `create_order` is dropped as untracked; the fill is never booked |
| `kill_cancel` | violated | the gateway swallows a failed `cancel_all_orders`; the stop reports `activated` over an open order |
| `recovery_orphan` | violated | an old open order of the dead run is not found: its age is a difference of seconds and milliseconds |
| `station_orphan` | violated | a write that raises inside `start()` leaves a loop the manager does not know, and a second one is started beside it |

Each violated property states what a comment or docstring of the program says;
the findings in `PROJECT.json` quote it.

**Known deviations.** Nine more configurations reproduce, when run by hand,
disagreements between the code and its own text. TLC refutes the property in
each:

| Configuration | Property | What the code does |
|---|---|---|
| `order_pending` | `PendingIsNonTerminal` | a FILLED order stays on the timer: the stream handler stamps the status before `update` sees the order (`engine.py:242`) |
| `order_double_book` | `BookWithinPosition` | a synced snapshot and a push both add one fill to the book (`engine.py:603`) |
| `order_fees` | `FeesWithinCharge` | cumulative fees are debited with every partial fill (`engine.py:468`) |
| `kill_in_flight` | `InFlightIsStopped` | an order in flight at the activation survives a stop that reports `activated` |
| `kill_slips` | `NothingSentWhileActive` | an order that has passed the gate of `submit` and awaits the connection is sent with the switch active (`okx_gateway.py:204`, against the comment at `execution/engine.py:317-320`) |
| `signal_exit_twice` | `ExitsCountedOnce` | a sync writes a position without the lots of an exit, and their push subtracts them again (`engine.py:453-460`, `603`, against the docstring of `_handle_fill`): the checks see less than the exchange holds |
| `signal_timeout` | `TimeoutReleases` | the timeout loop releases under the exchange's id what was reserved under a uuid (`strategy/engine.py:877`, `1665`); only the sweeper ends such a reservation |
| `health_stuck` | `BreakerRecovers` | only placed orders and reconnects count as successes; once entries are refused nothing probes, and the breaker stays open on a healthy exchange |
| `feed_baseline` | `AnchoredOncePerDay` | a second symbol's older candles anchor an earlier day again (`strategy/engine.py:547`, against its comments 540-546 and 636-642) |

The properties of the passing runs hold in spite of these: `OpenOrderEnds` does
not need the timer to be exact, `OneSlipsPast` allows for the order that has
passed the gate, the exposure bounds are stated for pairs that are not blurred,
and `WeeklyBaseIsFirst` is stated for bars in order.

One more configuration holds, `signal_ends` (4,646 states; an entry and an exit
of one pair): `ReservationEnds`, no reservation freezes budget for good. It
follows from the fairness of the sweeper alone, which is why no run of the
project is spent on it.

**Bounds.** No run has a state constraint; the bounds are constants in the
guards. Symmetry is used in `signal_gate` only, between the two entries of one
pair, whose properties are invariants and an action property; the other orders
differ in pair, side or place.

- `order_*`: two orders of two lots on one pair. Two lots are the least for
  which a fill is partial, two orders the least for which one can be timed out
  and synced while the other is reported. `order_ledger` buys then sells over a
  lossy stream; the others only buy over one that loses nothing, so that
  neither causes the violation.
- `kill_*`: three one-lot orders on two pairs, a position entered and left, one
  beside it, and one background task: the least for which the quantity to close
  goes stale and one close fails while another follows, and for which a second
  order could slip past the gate.
- `signal_gate`: an exit, and `Entries` = 2 of three entries, over two pairs, so
  that the two are of one pair or of two, at most two lots each, with limits
  (`PositionLimit` = 2, `BookLimit` = 1, `MaxPositions` = 1) that a first order
  may or may not exhaust.
- `session_recovery`: `Starts` = 3: a run, a restart from its checkpoint, and a
  restart after the restart. Three orders over two pairs.
- `exchange_health`: a window of two ticks, a cooldown longer than that, and
  `MaxSamples` = 6, room for the streak of three rate limits to open a breaker
  that the error rate would not, and for the three successes that close it;
  `MaxPositions` = 3, as many as the kill switch must close to heal the breaker.
- `station_*`: `Asks` = 3 requests (a start, a stop that fails and its
  repetition, or another start) and `Events` = 2 (one stored and one lost, or
  one waiting behind one stored).
- `bar_feed`: two symbols, pages of two candles of `LastCandle` = 4, so that a
  full page is followed by another; a history of `HistoryMax` = 3, which is
  evicted.
- `bar_store`: two saves in two processes and one tagging; two months of two
  timestamps; four batches that append, overlap, meet at the last bar and span
  both months.

The runs do not check for deadlock: a session whose orders are used up, or that
was stopped, and jobs that have ended do nothing more.

**Fairness.** Every gateway call is bounded by `CALL_TIMEOUT`, so an awaited
call returns or raises. Besides this:

- `OrderLifecycle`: the data loop polls `check_timeouts` in every round, and
  time passes. Nothing is assumed of the exchange or of the stream.
- `KillSwitch`: a created task runs, and a stop that was begun goes on.
- `SignalGate`: the sweeper runs in every cycle of the loop (`signal_ends` only).
- `SessionRecovery`: the steps of the reconciliation only.
- `ExchangeHealth`: time passes, tasks run, and strategies keep signalling. No
  assumption on outages, save the premise of `BreakerRecovers`.
- `StationSession`: what the holder of the lock awaits ends, the first waiter
  is woken, and the flush task wakes from its sleep.
- `BarFeed`: strong fairness for the answers and bars of the last symbol of the
  rotation only; the other symbols may fail for ever.
- `BarStore`: threads run.

## 4. The proofs

For every value of the constants. Liveness is not proved.

**Order path.** None of the four checked invariants is inductive. That a
response does not book twice depends on `submit` awaiting an order that is sent
but not tracked (`RoutedIsSent`), for which nothing is booked yet
(`UntrackedIsBlank`); that a push does not book ahead depends on the stream
never reporting more than the exchange has (`StreamSound`); that a fill event is
not published twice depends on an open order having something left to book
(`OpenIsIncomplete`), which in turn needs `closed` to be said only of the whole
quantity; that a CANCELLED order is never left open on the exchange unasked
needs the stream to say `canceled` only of orders that are, and the list of
timed-out orders to be worked off before the loop goes on (`WorkIsDone`).
`IInv` is the conjunction of these with the type invariant and the four
invariants. There is one lemma per action; `InitInvariant`, `NextInvariant` and
`InductiveInvariant` put them together, the four invariants follow, and
`LedgerInit`, `LedgerNext` and `Implementation` prove that every step of the
order path is a step of `FillLedger` or a stutter of it. From the same
invariant, `FinishedStaysFinished`: no response, push, timeout or cancel makes a
finished order live again or books anything more of it. The invariant is needed
for one case only, the response of `create_order`, whose order is not tracked
yet. The price of this guard is what `order_lost_fill` and section 7 describe.

**Kill switch.** `StopIsThorough` speaks of the end of the stop; its invariant
`RowsAccounted` says, for every pair while the positions are being closed, how
the exchange's position, the quantity read, the closing order and the errors
recorded belong together. It rests on `SnapshotIsTrue` (the answer on its way is
still true) and that on `NoOrderOpen` (after `cancel_all_orders` nothing is left
to fill). `OnlyReduces` is an action property proved from the same invariant.
`OnePasses` has one of its own, `SlipInv`: as long as the data loop may still
pass the gate, or waits behind it, nothing has slipped past (`NothingSlippedYet`),
so what does is a single order (`AtMostOne`).

**Signal gate.** `ReservationCovers` is broken by no single step but needs to
know that during the await of `create_order` the whole size is reserved and
nothing is booked (`SubmitIsReserved`, `UntrackedIsUnbooked`), that the book
trails the exchange (`FillsInOrder`) and how far an order can be by its status
(`StatusFitsFills`). A key is a pair, so no release touches another's entry
(`KeyLemma`).

The three bounds on exposure have an invariant of their own, `EInv`, proved on
top of `IInv`. The book may be wrong in both directions: fills of entries and of
exits are late, are dropped, or are wiped out by a snapshot that was taken before
them. What makes the checks safe all the same is that the reservation of an
entry shrinks only when the session knows of the fill, and that a lot of an exit
is subtracted only after it was filled. `Cover(o)` is the part of the filled lots
that the reservation still stands for, `Owed(o)` the lots of an exit that are
filled and still to be subtracted, and `Trail(o)` the difference: `BookCovers`
says that the book plus the trails of a pair's orders reach the exchange's
position; `AnswerCovers` says the same of a snapshot on its way back, with what
will still be subtracted from that. A sync replaces the one by the other and so
does no harm, unless the book owes more after it than the answer allows for,
which is when the pair is blurred. `Seen` follows. An entry is admitted against
what is seen, so no entry takes a pair or the book further than one order past
its limit (`Bounded`). For `max_positions` the sum is a count: `PlacesBounded`
counts the pairs that are held, pending, or about to be held by an answer on its
way (`Answered`), and `PlacesSuffice` follows. These are sums over any finite set
of orders and pairs. The lemmas on `SumFunctionOnSet` (`SumStep`, `SumLeq`,
`SumUpdate`, `SumPlus` and others) are proved from its definition by taking a
smallest set for which they would fail.

`EndedIsOver` goes through every action that writes the ledger: only an entry
signal writes more than was there, and it reserves for an order of its own.
`NothingByExchangeId` is a by-product: no reservation is ever kept under the id
that the timeout loop releases by, so the deviation `signal_timeout` shows is
there for all parameters.

**Session recovery.** The heart is `MatchedSoFar`: a reconciliation that has
found nothing yet has shown book and position equal but for strays. It holds
because a session that is starting tracks nothing (`StartingIsBlank`) and is not
verified (`CheckingIsUnverified`). `SavedInTemp` keeps the checkpoint whole.
`CleanRestartTrades` needs the converse: what a reconciliation has found is real
(`FoundIsReal`: a position differs by more than the strays). A wrong orphan
would break that, but `OrphanSearchIsBlind` proves that there is never any
orphan at all, for every threshold, which is also why `recovery_orphan` is
violated.

**Exchange health.** The step simulation with `CircuitBreaker` needs that
successes are only counted in the half-open state (`StreakIsProbing`).
`OneEntryAfterTrip` rests on `TripArms`: a breaker that was ever open has armed
the switch, and until its task runs no time passes, so the breaker is still
open: either the one or the other refuses the entry (`NoneBegins`). So only the
one whose submit was under way can still be placed, and when it has been, the
session awaits no entry any more (`SlipInv`). `StuckForEver` completes
what `health_stuck` shows: a breaker still open when the switch has sent its
last close is open in every later state, since nothing that is still enabled
records a success.

**Station session.** `StartingIsNew` and `HeldIsOwned` say what the holder of
the lock knows across its await; with them `ConfirmedIsOwned` and
`StopIsComplete` are inductive. `LostIsGone` and `NothingBeyondPublished` do the
same for `EventsPersistedOnce`.

**Bar feed.** `HistorySorted` makes the pointer's loop correct; the lemmas on
`WeeklyBase`, `Recorded` and `Shifted` carry it across eviction. `RowsAreTheRest`
(what is left of a response is what lies beyond `last_timestamps`) gives
`CandlesInTurn`, which speaks of the candles of that response, and
`LastMovesForward`: a bar that was completed is never handed on again.
`AnchoredOnceInOrder` states the condition under which the promise about the
daily baseline does hold, that no bar is older than the one before it; the
deviation `feed_baseline` is what happens without it.

**Bar store.** `MergedIsFresh` says that what a job is about to write is still
the month of now with its change; it holds because the lock file is held by the
one job that works on the month (`OuterIsWork`, `OuterIsOne`). `Refinement` then
maps each step to a step or stutter of `BarTable`, and `KeyedOnce` justifies the
fast path. `Durable` is about the answer: a save that said ok has every key of
its batch in the store, for good. It rests on `DoneIsStored`, which says this of
each month a save is done with, and on the fact that nothing a job writes in
place of a month lacks a key of that month (`CoversLemma`).

The proofs assume what the modules state as `OrderAssumption`,
`KillSwitchAssumption`, `GateAssumption`, `RecoveryAssumption`,
`HealthAssumption`, `StationAssumption`, `FeedAssumption` and `StoreAssumption`:
types of the parameters, limits that are positive where a zero makes no sense,
finitely many orders and pairs where exposures are summed, names that are not
confused, and at most one tagging.

**Only model-checked:** liveness (`OpenOrderEnds`, `ActivationEnds`,
`StartEnds`, `TripStops`, `RequestsServed`, `SteadyNotStarved`,
`JobsEnd`), which is out of the prover's reach, and the violated properties.
Every invariant and every action property of a passing run is stated by a
theorem.

## 5. Abstractions

Quantities are lots, prices, P&L and message texts are left out. Every component
is a module of its own, with as much of its neighbours as its properties need.

- **Order path, kill switch.** Eviction of finished orders above
  `MAX_TRACKED_ORDERS`, `deactivate` (nothing calls it) and the switch's own
  `pause_reasons` (nothing reads them) are not modelled, nor are retries inside
  one gateway call, which are part of the call. In `KillSwitch` orders are one
  lot and the timeout loop's cancels are among `ExDrop`.
- **Signal gate.** One price and a fixed equity, long positions; the checks on
  returns and P&L are a signal that is not taken. A FLAT signal on a book that
  went below zero is a reduce-only buy, which an exchange where nothing is short
  refuses: it changes nothing and is left out. Between the activation of the
  switch and `release_all` no entry passes, so the two are one action; the entry
  that slips past the gate (`OneSlipsPast`) is one that was submitted before.
- **Session recovery.** `stop()` neither cancels orders nor saves, so for the
  memory it is a crash. Orders are of one lot; the drift threshold is below one.
- **Exchange health.** A tick is longer than a turn of the event loop; a sample
  is dropped when it leaves the window, since every reader purges first.
- **Station session.** The lock's order is a numbering of the requests; the
  rotation of the history files is left out.
- **Bar feed.** The equity at a bar is named by its candle. A failing connection
  attempt changes nothing and is a stutter. The paper replay's first query,
  which precedes its loop, is the first `Query`.
- **Bar store.** One tagging at a time, because a second one may list the
  temporary file of the first as a month (section 7). A batch has a bar once per key; the slow path's cleaning of
  duplicates inside a batch is left out. The state is the month files: the
  temporary files, one of which a dying process may leave behind, are not part
  of it, nor is what a reader makes of such a file (section 7).

The exchange is external throughout: it may accept an order at any time after it
was sent, fill, cancel or reject it, and refuses or cuts a reduce-only order
that would turn a position.

## 6. Plan

Done, in this order: `OrderLifecycle` with `FillLedger`, `KillSwitch`,
`SignalGate`, `SessionRecovery`, `ExchangeHealth` with `CircuitBreaker`,
`StationSession`, `BarFeed`, `BarStore` with `BarTable`, each with its proofs.

Worth adding next:

1. The paper gateway as a second implementation of the exchange the order path
   assumes; portfolio arithmetic against a reference fold over fills.
2. `TTLCache`, `AlertDedup` and `ModelRegistry`, small and last.

## 7. Not modelled

Indicators, strategies, research and validation are numeric; the HTTP handlers
other than those named above, the frontend and the command line read, render and
parse: they keep no state that others change concurrently. They are most of the
source lines, and a model of them would restate them. Data cleaning, quality
monitoring and the trade and feature stores are sequential passes over frames.
Metrics, logging and alerts are output only. The funding gate and regime gating
decide whether a signal is taken, which `SignalGate` leaves open.

Hazards that were met and lie outside the modules:

- `execution/order_manager.py:84` evicts terminal orders above a limit; a late
  push of an evicted order is then unknown.
- `strategy/engine.py:1405` shares one funding pause reason between symbols: the
  recovery of one lifts the pause of another.
- `execution/kill_switch.py:60`: after a failed or partial stop the switch is
  active, so a second activation closes nothing.
- `execution/paper_gateway.py:79` clears the simulated positions at every
  `connect`, while the book keeps its own; `:121` returns an id for a rejected
  order as for a filled one, which a stop then counts as closed.
- `execution/exchange_health.py`: a first failure in an empty window exceeds any
  error rate below one; a streak of rate limits is not interrupted by failures
  of another kind.
- `strategy/engine.py`: a start without a checkpoint is trusted with an empty
  book; a session left unverified is not verified again while it runs; the
  search for orphans asks only for held symbols.
- `strategy/engine.py`, `data/fetcher.py`: the candle that is still forming is
  processed when it opens, and its final values never are; after an outage
  longer than the first page the candles in between are not asked for, so
  `SteadyNotStarved` is a claim on `last_timestamps` and not on every candle.
- `web/service.py:1360`: the temporary file of a tagging, `MM.<pid>.tmp.parquet`,
  matches every listing of a symbol's files (`*/*.parquet`:
  `web/service.py:1343`, `data/store.py:488`, `549`, `645`). A tagging beside it
  takes it for a month, and one that dies between the write and the rename
  leaves it behind, so that its bars are read twice from then on. (The temporary
  files of `DataStore.save` match no listing.) The month files themselves, of
  which `KeyedOnce` and `ImplementsTable` speak, are not affected.
- `web/session_manager.py`: a session whose `start` raised keeps its gateway
  half open.
- `monitoring/alerts.py:176` remembers an alert before it is delivered, so one
  whose delivery failed is suppressed as a duplicate; `web/cache.py:65` may set
  a value computed before a `clear`; `strategy/model_registry.py:85`:
  a registration that is refused is written over an existing entry of that id.
