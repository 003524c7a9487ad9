# A TLA+ verification of HH-Modbus

HH-Modbus is a Home Assistant integration that polls Solis and SunSynk
inverters over Modbus (TCP dataloggers, TCP gateways, serial adapters) and
writes their settings. It is Python on one asyncio event loop: there are no
threads, but every `await` is a point where another coroutine may run, and
polls, entity writes, services, the two-minute watchdog, reloads and unloads all
meet on one link and one lock.

This directory holds TLA+ models of that behaviour, TLC configurations that
check them on small instances, and TLAPS proofs for all instances.
`PROJECT.json` maps each definition to the lines it models and lists components,
runs, mutants (plausible bugs each property catches), hazards, findings and
theorems.

Paths below are relative to `src/custom_components/hh_modbus_control/`.

## 1. Inventory

| Component | Source | State | Operations |
|---|---|---|---|
| Client registry | `client_manager.py` | per connection id: client, `ref_count`, `poll_lock`, `last_modbus_request` | `get_tcp_client`, `get_serial_client`, `release_client`, `close_if_released`, `inter_frame_wait` |
| Controller | `modbus_controller.py` | `_closed`, client, `connect_failures`, `write_queue`, `enabled`, `_sensor_groups` | `connect`, reads, queued writes, `process_write_queue`, `force_close`, `close_connection`, `enable/disable_connection`, `replace_sensor_group` |
| Poller and watchdog | `data_retrieval.py` | `_stopping`, `connection_check`, `first_poll`, timers, tasks, the two repair issues and their flags | `poll_controller`, `check_connection`, `async_stop`, `_update_connection_issue`, `_check_serial_slave_id` |
| Poll batches and register recovery | `data_retrieval.py`, `sensors/solis_base_sensor.py` | sensor groups, `enabled` of sensors, `poll_updating`, `poll_lock` of the poller | `get_modbus_updates`, `_recover_sensor_group_after_modbus_failure`, `_async_isolate_one_bad_register` |
| Register cache, entities that read-modify-write | `helpers.py`, `sensors/solis_binary_sensor.py`, `solis_select_entity.py`, `solis_number_sensor.py` | `hass.data[DOMAIN][VALUES]` | polls, optimistic `cache_save`, bit toggles, companions |
| Serial proxy client | `serial_proxy.py` | port handle, teardown task | `connect`, `close`, requests |
| Entry set-up, unload | `__init__.py`, `runtime.py` | `hass.data`, runtimes, references to clients | `async_setup_entry`, `async_unload_entry` |
| Register tables | `sensor_data/*.py`, `data/*.py` | constant: groups, sensors, switches, selects, features, profiles | read at set-up |
| Dispatch services | `__init__.py` | per-inverter lock | `service_dispatch`, `dispatch_stop`, schedule |
| Conversions | `sensors/solis_base_sensor.py`, `helpers.py` | none | 16/32-bit words, sign, bits |
| Clock drift, keep-alive, spike filter | `helpers.py`, `solis_binary_sensor.py`, `data_retrieval.py` | small counters and timers | |
| Config flow, diagnostics, simulator, the older twin `src/custom_components/solis_modbus`, the Sunsynk add-on | | | not modelled, reasons in `PROJECT.json` |

How they interact. `__init__.py` makes one controller and one poller per
inverter. Controllers with one connection id get the same registry entry, hence
the same client and the same `poll_lock`. The poller calls the controller's
reads and `connect`; entities and services only put writes in its
`write_queue`, which one `process_write_queue` task of the poller drains.
Values go to the cache, from where entities read. Unload calls
`DataRetrieval.async_stop` and then `close_connection`, which gives the
reference back. pymodbus also reconnects by itself, beneath all of this.

Which behaviour is hard.

* Concurrency: any number of coroutines wait for one lock; `connect` checks
  state before and after waiting and again after awaiting the transport; timers
  do not wait for their previous run.
* Failure: the link goes at any await, an answer is lost although the write was
  applied, an inverter refuses a block because of one register, the inverter is
  off every night.
* Cancellation and stop: `async_stop` cancels some tasks and not others, and
  runs in flight go on past it.
* Ordering and time: writes are queued and sent much later; frames keep a
  distance of 300 ms; freshness, back-off, night and slave-probe decisions
  depend on the clock.

What makes each component correct.

* Registry: the count is the number of users; the last user closes the client
  and nobody else does; frames are spaced.
* Controller: one task on the link; a closed controller connects no more and
  leaks no connection; writes are applied in queue order, at most once; every
  wait ends.
* Poller: one watchdog run at a time; it reconnects for ever; the issue tells
  the truth; nothing survives a stop.
* Batches: no sensor is lost or polled twice by a split; only refused registers
  cost a sensor; every batch ends; good sensors go on being polled.
* Tables and set-up: every entity a configuration makes is fed by a group that
  is polled; a group that is read once is read, and read once; a value comes
  from the block its register belongs to.
* Cache and entities: read-modify-write leaves the bits of others alone; a
  switch that is off stays off; cache and entities converge to the inverter.
* Dispatch: a word the caller omitted is kept; overlapping calls do not undo
  each other; every call ends.
* Serial proxy and entries: a port is opened by one client, which belongs to
  whoever is loaded; the last reference closes it; a loaded entry reconnects.
* Conversions (planned): they invert each other.

## 2. Plan

Order by importance; one module per component.

| | Module | Status |
|---|---|---|
| A | `ClientManager`, `ModbusController` (extends it), abstract `RegisterWrites` | modelled, checked, safety properties proved |
| B | `DataRetrieval` | modelled, checked, safety properties proved |
| C | `SensorGroups` | modelled, checked, safety properties proved (over `SensorGroups_lemmas`) |
| D | `RegisterCache` (over `ControlTables`), `DispatchServices` (extends it) | modelled, checked as one composed run, safety properties proved |
| E | `EntryPlan` over `GroupTables`, `SolisTables`, `BrandTables`, `ControlTables` | modelled and checked over the shipped tables; safety properties of the polls proved, one of them from what TLC finds of the tables |
| F | `SerialProxy`, `EntryLifecycle` (extends it) | modelled, checked as one composed run, safety properties proved |
| G | `SharedWatchdogs` | to do: two pollers over one link, one of whose inverters sleeps and force-closes it |
| H | `Codecs` | to do: 32-bit words, signs and bits as operators against reference definitions |
| I | `EntityTimers` | to do: clock drift counter and spike filter (the keep-alive timer is in D) |

Also to do: number and time entities (one queued word each) and the SunSynk
switches in D; an abstract specification for F (a port with one owner) and for D
(a register cell, last write wins).

## 3. Modules

A step is what one coroutine does from one `await` to the next; that is exact
for asyncio, where nothing else runs in between. `pc` names the await a
coroutine is suspended at. All state between is kept as the code keeps it.

### ClientManager (`client_manager.py`)

The registry for one connection id. It has no task of its own, so its methods
are action formulas (`GetClient`, `ReleaseClient`, `CloseIfReleased`,
`MustSpace`, `Stamp`) over `entry`, `refCount`, `stamped`, `made` and `link`.
Entries of different connection ids share nothing. `link[cl]` is the pymodbus
transport of a client object: closed, open, or being re-opened by pymodbus.
Time is the flag `stamped` ("the last request is less than 300 ms old").

### ModbusController (`modbus_controller.py`)

Any set of controllers on one link, each with any set of callers and a writer.
`life` is new, active, closed; a reload is a `CloseConnection` of one controller
and a `Create` of another, in either order. Tasks are `<<controller, caller>>`.

| Model | Code |
|---|---|
| `BeginRead`, `BeginConnect`, `BeginRawRead` | the read methods (with and without exception code), `async_unit_answers`, `connect`, the raw reads of the recovery |
| `GrantConnectLock`, `Establish`, `ConnectReturned`, `ConnectRaised` | `connect`, `_try_connect`: the checks before and under the lock, the awaited attempt, its outcome on a closed controller |
| `GrantRequestLock`, `EndSpacing`, `Issue` | lock, `inter_frame_wait`, the request |
| `Answer`, `Refuse`, `FrameRaises` | response, exception response, no answer or lost transport |
| `PutWrite`, `StartWriter`, `TakeWrite`, `LinkIsBack`, `Cancel` | the write queue and its task |
| `Create`, `CloseConnection`, `ForceClose` | constructor, `close_connection`, `force_close` |
| `LinkLost`, `AutoReconnect`, `Elapse` | peer, pymodbus, time |

Abstractions. A write is its number in the queue; a read has no value here.
`op` separates a caller that came to read from one that came to connect. Waiters
of the lock are served in any order (asyncio: first come, first served), so the
safety results do not rest on the order. `wire` is a history variable: a frame
went out less than 300 ms ago. `dropped` is one too.

### RegisterWrites

The promise behind the write queue: writes finish one by one, in order, each
applied at most once and only when it finishes. `ModbusController` implements it
with `finished = puts - Len(pending)`, checked in `link_queue`, proved in
`WritesRefine`.

### DataRetrieval (`data_retrieval.py`)

One poller. Runs of `check_connection` are `Poll` (made by `poll_controller`)
and `Ticks` (timer runs, which may overlap). `Check` is the code up to the first
await; `ProbeReturns`, `UpdateReturns`, `Connects`, `FailsToConnect` and
`BackoffEnds` are the resumptions; `Stop`, `PollCancelled` and `WriterCancelled`
are `async_stop` in its three steps, the last of which closes the controller as
`async_unload_entry` does. The repair issues and the flags that remember them
are separate variables, since they differ after a restart. Poll batches appear
as `BatchSucceeds` and `BatchFails`, by what they do to the link and to the time
of the last success. Frames and the lock are in `ModbusController`; here
`connect()` has the outcomes that module gives it. The first poll
(`modbus_update_all`) is taken to suspend whenever it may poll.

### SensorGroups (`data_retrieval.py`, `sensors/solis_base_sensor.py`)

The group list, the timer runs over it, and the recovery. A group is its set of
sensors, a sensor its set of registers; `Block(g)` is what the code reads:
`registrar_count` registers from `start_register` on. `ReadReturns` is the read
of a group in the loop of `get_modbus_updates`; `ProbeReturns` one probe of
`_async_isolate_one_bad_register`; `RereadReturns` the read of a part of a split
group. The recursion of the recovery is `stack` (blocks still to read, with
their depth), the one of the bisection is `span`. A run works on the snapshot of
the groups it took when its timer fired, and may wait for `poll_lock` with it:
the list can change under it. Inverter and link are free: `refused` registers
for good, `link` up, down, or "busy" (every request gets an exception for a
while). `BlameIsFair` speaks of the steps the link is up in.
Left out: the other poll speeds (their keys are separate and `poll_lock` keeps
them apart), the spike filter, and the cancellation of the first poll.
`GroupsAssumption` says that a sensor has registers and is in one group at the
start, and that no two share a register; `OnceAssumption` that a group which is
read once has no gaps between its registers. Both hold of every shipped table
that is polled this way (SunSynk 59, section 4, is not one).

### GroupTables, SolisTables, BrandTables, ControlTables (`sensor_data/*.py`)

The shipped register tables, as data. A group is written with the widths of
its sensors (`Run(first, widths)`), so that a block and its sensors are
consecutive by construction where the source lists them so, and explicitly where
it does not. `ControlTables` holds the switches, the options of the selects and
the registers of times and numbers; a word is the set of its bits that are 1.
Names, units, multipliers and the device classes are left out.

### EntryPlan (`__init__.py`, `sensor.py` and the other platforms, `data_retrieval.py`)

From a configuration to values. `Selected` is the choice of groups by
brand, inverter type, features, poll profile and options; `Entities` what the
platforms make of groups and controls. `StartBatch`, `ReadGroup`, `ReadFails`,
`SkipBatch`, `Reconnect` are the poll batches over the groups, with the removal
of groups that are read once. `unfed` are registers an entity still waits for;
`foreign` are cells of the cache that hold a value from a block of another
register type. The recovery of refused registers is in `SensorGroups`.

### RegisterCache (`helpers.py`, `sensors/solis_binary_sensor.py`, `sensors/solis_select_entity.py`)

`device`, `cache`, `queue` and the `frame` that holds the lock of the link.

| Model | Code |
|---|---|
| `TurnOn`, `TurnOff`, `SelectOption`, `TimerFires` | `async_turn_on`, `async_turn_off`, `async_select_option`, `_keep_alive_refresh` |
| `Start`, `Decide`, `LiveReadReturns`, `LiveReadGivesUp` | `set_register_bit` up to, and from, its live read |
| `PollStarts`, `PollReturns` | a read of `get_modbus_updates`, and its values stored and notified when the answer is handled |
| `WriteStarts`, `WriteReturns`, `FrameFails` | `process_write_queue`, the store of the written word, the lost frame |
| `LinkLost`, `LinkBack` | environment |
| `Resets`, `Reverting` | environment; the inverter puts a register that has an RC timeout (`SWITCH_KEEP_ALIVE`, 44280) back to 0 as a whole, port bits included |

A poll copies `device` into its frame when it is sent and stores it when it
returns, so a toggle may fall in between: that is the window of the module.
`Served` is `PARALLEL_UPDATES`: Home Assistant runs one call of a platform at a
time.

### DispatchServices (`__init__.py`)

`dispatch`, `dispatch_schedule` and `dispatch_stop` over the same device, queue
and link. `phase` names the await of a call: for the dispatch lock, for
`write_queue.join` (with its 30 seconds, `FlushTimesOut`), for the read-back.
`dispatch_stop` takes no lock. Of a block only the words are kept that
properties tell apart: master, failsafe, mode, function, reserve, PV limit.

### SerialProxy and EntryLifecycle (`serial_proxy.py`, `__init__.py`, `client_manager.py`)

`Close` is synchronous and leaves a task that tears the connection down; whoever
opens the port waits for the teardowns it knows of (`AwaitTeardown`), and the
port opens when it is free (external). `EntryLifecycle` adds set-up, failing
set-up, unload and failing unload of entries that share the port, with the
registry's reference count, and the runs of their pollers: `connect()` looks at
its controller again under the lock, a request does not. `pinned` are entries of
other brands than Solis whose set-up failed: their set-up has no `except` branch
and keeps its reference.

## 4. Runs

| Run | Shows |
|---|---|
| `link_reload` | Two controllers, a caller and a writer with one write each, two client objects, all orders of construction, close, link loss and force-close: `OneTaskOnTheLink`, `RefCountIsExact`, `ReleasedClientIsClosed`, `ClosedNeverConnects`, `SharedClientSurvives`, `FramesSpaced` |
| `link_queue` | One serial controller, two callers, a writer, two writes: `TypeOK`, `WritesImplemented` and, under fairness, `EveryWaitEnds`, `WritesAreDone`, `OrphansAreClosed` |
| `watchdog` | A poller on a serial link, two overlapping timer runs, a night option, an unload at any await: `OneCheck`, `QuietAfterStop`, `IssueFlagHonest`, `DuskClears` (an issue that is up at dusk does not stay up for the night), `WatchdogReconnects`, `IssueClears`, `StopEnds` |
| `groups` | Two groups of four sensors on registers 1 to 4 and 7, any subset of {2, 4} refused, two runs: `TypeOK`, `NoSensorLost`, `GuardExact`, `BlameIsFair`, `BatchEnds`, `GoodSensorsRead`, `BadSensorsFound` |
| `entry_plan` | Thirty-six configurations over the shipped tables: `TypeOK`, `NothingDead`, `SourceIsOwn`, `ReadOnce`, `EveryEntityFed` |
| `registers` | Two calls of switches, selects or dispatch against polls, live reads, queued writes, a keep-alive timer, a lost frame or link and a reset by the inverter: `DispatchTypeOK`, `OffStaysOff`, `SelectRoundTrip`, `OtherBitsSurvive`, `OmittedIsKept`, `CacheConverges`, `CallsEnd` |
| `lifecycle` | Two entries of two brands on one serial proxy port, set up, failing, unloaded and set up again, with two overlapping runs: `ClientFollowsEntries`, `ReleasedPortIsClosed`, `ReconnectsUnlessStray` |

The other runs each check one statement of the repository that the code does
not keep; TLC prints the shortest behaviour (see also "findings" in
`PROJECT.json`):

| Run | The statement, and what happens |
|---|---|
| `link_drop` | `modbus_controller.py:151`, a write is not acknowledged while disconnected. The link is checked, then the writer waits for the lock or the interval; if the link goes meanwhile the write is logged, acknowledged and lost. |
| `start_event_leak` | `data_retrieval.py:233`, no tasks leak on reload. Started by the Home Assistant start event, `poll_controller` is in no task `async_stop` knows of, and starts timers and a writer after the stop. |
| `groups_link_loss` | `data_retrieval.py:153`, find the bad register and disable its sensors. If the link goes down during the bisection, each probe fails for that reason, the left-most register is blamed and healthy sensors are disabled. |
| `givenergy_cells` | `sensor_data/givenergy_sensors.py:564`, device information is read once at start-up. The input block 0-59 and the holding block 0-21 share the cells of the cache, so the identity of the inverter shows measurements from the next fast poll on. |
| `toggle_lost` | `sensor_data/select_sensors.py:5`, read-modify-write preserves other bits. A poll that was read before a queued write is stored after it was noted; the next toggle of the register starts from the old word and takes the first toggle back. |

### Seen while modelling, without a run

Places where the code does something a reader may not expect, each at its line
and most in "hazards":

* `modbus_controller.py:458`: on a serial link the debug message of a failed
  attempt reads `self.port`, which does not exist there; the `except` branch
  counts the attempt a second time.
* `data_retrieval.py:410`: a timer run in flight at `async_stop` can raise the
  issue again after the stop deleted it.
* `modbus_controller.py:508`: only polls look at the `enabled` flag of a
  connection; queued writes go out on a disabled one.
* `client_manager.py:45`: the time stamp of the last request goes with the
  registry entry, so a reload sends its first frame without the interval.
* `modbus_controller.py:529`, `serial_proxy.py:132`: a request that waited for
  the lock across an unload opens the port again on a released client, and keeps
  it. `ReconnectsUnlessStray` and `ReleasedPortIsClosed` exclude exactly this case.
* `__init__.py:747`: only the Solis set-up gives its reference back when it
  fails (`pinned`).
* `sensor_data/switch_sensors.py:50`: the switch Reserve Battery Mode, put on
  under Feed-In Priority, leaves both mode bits set (0, 4 and 6); the switch Time
  of Use under Peak Shaving sets bit 0 beside bit 11. The options of the select
  have no such combinations (`SelectRoundTrip`).
* `sensors/solis_binary_sensor.py:155`: register 44280 reverts to 0 as a whole
  after the RC timeout, the bits of the AC and battery ports included
  (`sensor_data/switch_sensors.py:215`). A word of PV shutdown that was read,
  cached or queued before the reset is then force-written by the next toggle or
  keep-alive refresh and selects the ports again. `OtherBitsSurvive` excludes exactly this case
  (`Unreset`). Asked of all `BitRegisters` in every step but the reset itself, TLC
  finds it violated: a live read of PV shutdown is on its way, the inverter
  resets the register, the answer is stored, the word is written.
* `sensors/solis_binary_sensor.py:149`: two keep-alive switches of one register (43135)
  write their words in turn; the timer is not set again after a reload.
* Switches with a write register of their own note only that one in the cache.
* SunSynk group 59 reads a block that overlaps the next; text sensors of 3 to
  14 registers are decoded as numbers.

### Bounds, and why they are enough

* Two controllers with a caller and a writer each (`link_reload`), and one with two callers and a writer (`link_queue`), give
  every pair of conflicts on the lock (same controller, different controllers,
  holder and waiter, two waiters); two client objects give one reload. The
  theorems of section 5 remove these bounds for what they cover.
* `MaxWrites = 2` gives order, loss and duplication; `FailureCap` saturates
  `connect_failures`, of which only "0", "below" and "reached" matter (0 where
  no property looks at it).
* `IssueAfter = 2` in place of 5: attempts below, at and beyond the threshold.
  Two timer runs overlap with each other and with the first poll.
* `MaxDepth = 1` in place of 24 makes the depth limit reachable with two bad
  registers; the block of four registers gives bisections of depth two with an
  uneven remainder after a split. `Refusable` covers a sensor with one register,
  a sensor with two (its second one), none and both.
* `entry_plan` has every poll profile, brand and option, each feature alone,
  all, none and the defaults; one failed read (`MaxFailures`) can hit any group,
  and `groups` has more. Features act on groups one by one, so pairs add nothing
  new.
* `registers`: two calls are what it takes for one to overlap the other, one
  lost frame or link (`MaxFailures`) and one reset (`MaxResets`) fall at any
  point of them. `MaxQueue` bounds how far a timer can run ahead of a link that
  is down. The registers are one of each kind: bits shared by select and
  switches, a value with companions, a register kept alive (with no port selected,
  and with one), the dispatch blocks
  (realtime, enabled period, disabled period).
* `lifecycle`: two entries and two client objects give one reload of a shared
  client; `MaxSetups = 2` makes one of them come back; two teardowns may
  overlap. The theorems of section 5 hold for any of these numbers.
* Symmetry (controllers, callers, clients) is used only in runs without liveness
  properties.
* `CHECK_DEADLOCK FALSE` in the runs of `ModbusController`, `registers`,
  `toggle_lost` and `lifecycle`, where the system may really stop: the set of
  controllers, the calls and the set-ups are finite. The other models cannot
  stop.

### Fairness

One event loop runs every coroutine whose await is over, timers fire, and every
await of the code ends: pymodbus requests and connection attempts have
timeouts, sleeps are finite. That is weak fairness of the resuming actions.
Strong fairness is assumed of two things: being granted an `asyncio.Lock`
(`GrantConnectLock`, `GrantRequestLock`, `GetLock`), since asyncio serves
waiters first come, first served while the models serve them in any order; and
`BatchSucceeds`, a poll batch every few seconds on a link that is up again and
again. In the same way `PollStarts`, `LiveReadStarts`, `WriteStarts` and
`ReadBackStarts` of the register models are granted the lock of a link that is
up again and again, while their answers, and the awaits of a dispatch, only have
weak fairness (a request has a timeout, the flush 30 seconds). In
`EntryLifecycle` timers start a connect again and again, the lock is granted,
and an attempt on a port that is free succeeds now and then (`SF` of `Opened`);
in `EntryPlan` the batch of each speed is started again and again. Nothing is
assumed of inverter, peer, user, unload, callers, or the
order in which timers meet; the liveness properties say "if from some time on
the inverter stays within reach (the link stays up)" in their premise.

## 5. Proofs

The modules with proofs extend the module they are about. `ModbusController_proofs`
proves, for all sets of controllers, callers and
clients, both connection types and all values of the bounds:

| Theorem | Property |
|---|---|
| `TypeCorrect` | `TypeOK` |
| `Exclusion` | `OneTaskOnTheLink` |
| `ExactCount` | `RefCountIsExact` |
| `NoLeakedLink` | `ReleasedClientIsClosed` |
| `FramesApart` | `FramesSpaced` |
| `ClosedStaysDown` | `ClosedNeverConnects` |
| `OthersKeepTheirLink` | `SharedClientSurvives` |
| `WritesInOrder` | `LastWriteWins` (a step applies a later write than those before) |
| `WritesRefine` | `WritesImplemented` |

They use only `ClientAssumption` and `ControllerAssumption`, which TLC evaluates
in the `link_*` runs.

The argument rests on `IndInv` (theorem `Inductive`). None of the properties is
inductive alone. The lock invariant needs to know that a task's client never
changes once its controller exists (`ObjectInv`), otherwise the holder of
`ClientOf(t)` could become someone else's. `ReleasedClientIsClosed` needs both
the lock (at most one attempt on a client) and the count (the entry is dropped
with the last active controller, so the attempt that is left belongs to a
closed one), and `UnmadeInv` for the client the next entry gets. `QueueInv` says
the unfinished writes are the last ones queued, that the writer has one in hand
wherever it is not waiting for the next, and that the inverter has applied only
finished ones; `LastWriteWins` and the refinement follow from it step by step.

The 16 actions of a task do few different things to each part of the state. The proof
first puts every step into one of a few shapes (`TaskStepMoves`,
`TaskStepQueue`, `TaskStepPlain`, `TaskStepLink`, `EnvStepMoves`): how a task
moved between "resting", "waiting" and "holding" and what that did to the
holder; what happened to the head of the queue; which variables stayed; which
link opened or closed. Each conjunct of the invariant is then shown to survive
each shape, and `NextIndInv` puts the conjuncts together.

`FramesApart` needs that a frame in the last 300 ms left its stamp in the entry
(`SpacingInv`), and that a task past the interval still holds the lock, so that
no other frame went out since it looked. `OthersKeepTheirLink` comes down to two
steps that may close a client: a close, which closes nothing while the count says
that somebody else is active (`CloseSpares`), and the late end of the attempt of
a closed controller, which closes a client the registry does not hold
(`OrphanSpares`).

`DataRetrieval_proofs` proves, for any number of timer runs, both ways of
starting and all options:

| Theorem | Property |
|---|---|
| `PollerTypes` | `TypeOK` |
| `OneCheckAtATime` | `OneCheck` |
| `StopIsQuiet` | `QuietAfterStop`, for `StartedBy = "task"` (run `start_event_leak` shows that it needs this) |
| `FlagIsHonest` | `IssueFlagHonest` |

They use only `RetrievalAssumption`. `OneCheck` is not inductive, because
`async_stop` sets `connection_check` to `False` while a run may still be inside:
from there on the guard alone would let a second run in. What prevents that is
that nothing can start one: the timers are gone (`Late` in `GuardInv`), and
`poll_controller` has either returned or is the run inside. The timers come back
only when `poll_controller` returns, and then no run is inside and the guard is
exact again. `StopIsQuiet` follows the order of `async_stop`: a poll task that
is cancelled first can start no writer, and the writer it has started is the one
awaited next (`StopInv`, `TaskInv`).

`EntryLifecycle_proofs`, for any entries, clients and runs:

| Theorem | Property |
|---|---|
| `References` | the inductive invariant |
| `TypeCorrect` | `TypeOK` |
| `ClientsFollow` | `ClientFollowsEntries` |
| `NoLeakedPort` | `ReleasedPortIsClosed` |

It uses `EntryAssumption` and `ProxyAssumption`. The count is the number of
entries that hold a reference, pinned ones included (`Cardinality`, with the
lemmas of FiniteSetTheorems): only that makes "the last one closes the client"
the same as "nobody polls on it". `NoLeakedPort` adds to it that a run on an
open controller is on the client of the registry (`OpenRuns`). A connection that
comes up on any other client is then one of a closed controller; if no request
does that, it is a `connect`, which tears it down in the same step. The premise
of the property (`[]NoStray`) is used in that step alone.

`DispatchServices_proofs`, for any registers, tables of controls and requests,
and any number of calls, failures and resets:

| Theorem | Property |
|---|---|
| `DispatchInvariant` | the inductive invariant |
| `DispatchTypes` | `DispatchTypeOK` |
| `OffStays` | `OffStaysOff` |
| `OthersSurvive` | `OtherBitsSurvive` |
| `OmittedAreKept` | `OmittedIsKept` |
| `SelectsShow` | `SelectRoundTrip` |

It uses `CacheAssumption`, `ControlAssumption` (no register has both bits and
values; a control of bits writes the register it reads) and `DispatchAssumption`
(no control writes a register of a dispatch), which hold of the shipped tables
the runs instantiate. `OtherBitsSurvive` speaks of the inverter, but a word that
reaches it was computed from the cache, waited in the queue and travelled in a
frame, while the inverter changed under it. `BitsInv` therefore says of all
three places that a word there agrees with the inverter, now, in the bits that
belong to no entity; each step keeps that, but for a reset by the inverter, which
clears those bits and leaves the old word in the three places. Property and
invariant are therefore about the registers without an RC timeout, and about the
others as long as the inverter has reset none (`Unreset`). After a reset the
property does not hold of 44280 (section 4, "Seen while modelling").
`OffStaysOff` needs that a call that waits for its live read, and will arm the
timer then, is the last command to its switch: calls of a platform are served
one at a time (`TimerInv`, `AskInv`). `OmittedIsKept` rests on `LockInv`: one
call holds the dispatch lock, and from the end of its flush to its read-back
nothing queued or on the link writes its two words, so that what it read is what
the register will hold when the queue has run; in its last step exactly one of
its blocks writes them. `SelectsShow` is about the tables: an option of a storage
mode clears all bits of the modes and sets its own, by which the options differ,
so that `current_option` finds it and no other, whatever the other bits are. It
asks that a select chooses among the storage modes or among values; lemma
`SelectsOfTables` says that those of every inverter do.

`SensorGroups_proofs`, for any sensors, groups, refused registers, recovery
depth and number of runs:

| Theorem | Property |
|---|---|
| `GuardIsExact` | `GuardExact` |
| `OneRunReads` | one run at most is past `poll_lock` |
| `GroupsInvariant` | the inductive invariant |
| `TypesHold` | `TypeOK` |
| `NoneIsLost` | `NoSensorLost` |
| `OnlyRefusedBlamed` | `BlameIsFair` |

The guard needs no assumption on the constants. A read has many outcomes
(values, a refusal, a bisection step, a split of the group, the end of the
batch), but for the guard only two: the run goes on with its key, or it ends and
gives it up (`StepMoves`). A key is taken from the groups at the start, while a
recovery by another run may change the groups meanwhile; that is why the guard
compares keys and why the key of an ended run must be no other's (`EndingKeeps`).

The others use `GroupsAssumption` and `OnceAssumption`. That a sensor is in
exactly one group of the list is not inductive: a group to be read once leaves
the list, and the sensors it takes along are only those of which every register
is in the cache. The invariant `GroupsInv` therefore says of each enabled sensor
that it is in one group of the list or was read for good, of each marked group
that it was read, of the blocks of a recovery and of the groups of each run's
snapshot that they are *sound* (not empty, finite, and without gaps if they are
read once), and of the recovery that it stays within its depth and has a block at
hand while it reads. Soundness
is what needs `OnceAssumption`: the code reads `registrar_count` registers from
the lowest one on, which are the registers of the group only if there is no gap.
A run works on a snapshot, so a group it splits may no longer be in the list;
`replace_sensor_group` then changes nothing, and the sensors are where the run
before has put them.

The operators have a module of lemmas of their own, `SensorGroups_lemmas`: a
finite set of numbers can be sorted, and `Sorted` is strictly increasing over
exactly that set (`SortedIs`); the clusters of a set of sensors cover it, are
disjoint, and have no gaps if each sensor has none (`ClustersAre`); to replace a
group by its clusters without the bad register keeps the place of every other
sensor, and puts each of the group's into one cluster (`ReplaceIs`,
`ReplaceKeeps`); the block of a group without gaps is its registers
(`SolidBlock`). None of them needs induction over data: sorting and clusters are
defined by what they return, and least and greatest members come from the
well-foundedness of the numbers.

`OnlyRefusedBlamed` does not need that the bisection finds the right register: a
blame follows the refusal of a probe of one register, so that the register is
refused, or the link was not up. (The run `groups_link_loss` is about the other
case.)

`EntryPlan_proofs`, for any configurations and any number of failing reads:

| Theorem | Property |
|---|---|
| `PlanInvariant` | the inductive invariant |
| `TypesHold` | `TypeOK` |
| `OnceIsOnce` | `ReadOnce` |
| `PollingKillsNothing` | `NothingDead`, for configurations that are `Complete` |

They use `PlanAssumption`. `ReadOnce` rests on two facts the code never states: a
batch has nothing left of what it marked, and what was read once and is still
listed is marked (`BatchIsAhead`, `OnceIsMarked`); a batch that is broken off
keeps the second, since it removes what it marked. For `NothingDead` the registers without a value are
none of those a group has read (`UnfedIsUnread`), so the group selected for one
of them is still polled.

Which groups, blocks and entities a configuration has is computed from the
tables by folds, which no prover here evaluates. `PollingKillsNothing` therefore
has a hypothesis on the configurations: each register an entity needs is in the
block of a selected group (`Complete`). For the shipped tables that is
`NothingDead` in an initial state, which the run `entry_plan` decides for its
thirty-six configurations. The theorem says the rest: polling, failures and
removals add no other way to starve an entity. `SourceIsOwn` comes down to which
groups of the tables overlap and has no theorem; TLC checks it over the tables,
and refutes it for GivEnergy (run `givenergy_cells`).

Checked by TLC only: the liveness properties (`EveryWaitEnds`, `WritesAreDone`,
`OrphansAreClosed`, `WatchdogReconnects`, `IssueClears`, `DuskClears`, `StopEnds`,
`BatchEnds`, `GoodSensorsRead`, `BadSensorsFound`, `EveryEntityFed`,
`CacheConverges`, `CallsEnd`, `ReconnectsUnlessStray`), since liveness under
fairness and ENABLED are beyond the prover; `SourceIsOwn`; and that the shipped
tables are `Complete`. Every other property of a passing run is a theorem. The type invariants of `DataRetrieval` and `EntryLifecycle` are
theorems only, and no run repeats them.

## 6. Not modelled

To do, in section 2: two watchdogs on one link, conversions, clock drift and
spike filter, number and time entities. Left out for good: config flow,
migrations and diagnostics (sequential, no state to disagree about, covered by
unit tests), translations (text), device registry and service registration, the
simulator (its role is the environment's), the older twin of the integration (a
near-identical earlier copy) and the Sunsynk add-on (a separate program that the
integration imports nothing of). Hazards without a property are listed in
`PROJECT.json` with the reason.
