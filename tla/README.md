# MeshNet: TLA+ models, model checks and proofs

MeshNet is a Home Assistant integration that connects Meshtastic and MeshCore
radios to Home Assistant. It runs on one asyncio event loop, with SQLite and
some provider SDKs on executor threads. This directory holds TLA+ models of the
parts of `src/custom_components/meshnet/` whose correctness depends on the order
in which tasks, callbacks, cancellations, crashes and timers meet, the TLC runs
that check them, and TLAPS proofs of the most important properties.

File names below are relative to `src/custom_components/meshnet/` unless they
begin with `src/`, `docs/` or `tla/`.

## 1. Inventory

| component | code | state it keeps | operations | what must hold |
|---|---|---|---|---|
| message outbox | `coordinator.py` (send, flush, delete), `store.py` (messages) | message rows, active direct sends, outbox lock, gateway generation and fences | send, flush, delete history, reload, shutdown, restart | one deliverer at a time, chosen route, no row written and no provider call begun behind a fence, a deleted row stays deleted, queued rows drain |
| maintenance scheduler | `maintenance_scan.py`, `coordinator.py` (candidate, request, guard) | cycle, budget, due instants, attempted set, activity generation | start, tick, choose, request, quiesce, resume | spacing, idle window, no retry in a cycle, no catch-up, cycles go on |
| metadata airtime | `store.py` (four tables), `coordinator.py`, `remote_services.py` | durable cooldowns | reserve, store result, prune, upgrade | floors survive races, cancellation, restart and pruning |
| gateway lifecycle | `coordinator.py`, `gateway.py` | generation, fences, watchdogs, startup task, last known states | start, status callback, reconnect, reload, shutdown | a lost gateway is retried, events tell the truth, nothing restarts behind a fence |
| Meshtastic adapter | `meshtastic_client.py` | one start task, one stop task, interface | start, stop, status reports, packets | one constructor at a time, late constructor is closed |
| MeshCore adapter | `meshcore_client.py` | lifecycle epoch, interface | start, stop, poll, packets | only the newest epoch publishes |
| SQLite store | `store.py` | connection, FIFO operation lock, close task | open, operation, close | a thread never loses its connection; cancellation never releases the turn of running work |
| remote administration | `remote_admin.py`, `remote_health.py`, `remote_services.py` | snapshots, one-use previews, per-target locks | get, preview, apply, reboot, quiesce, resume | a preview is used once, against the state it showed |
| gateway settings | `gateway_settings.py`, `*_settings.py` | snapshots, previews, locks, pending connection update | get, preview, apply, quiesce, resume | single use, partial outcomes reported, hand-off of connection changes |
| Bluetooth client | `aiomeshtastic/client.py`, `aiomeshtastic/bluetooth.py` | supervisor, connection, reader and heartbeat, generation of the connection, waiters, settings transaction | start, stop, connect, session, clean up, request, apply a plan | one owner of the radio's GATT endpoint, a stop that reports success has freed it, honest verdicts, no answer of an old session |
| Bluetooth pairing | `bluetooth_pairing.py`, the flows of `config_flow.py` | attempts, process-wide lock, agent, proof of the bonds made, what each flow holds | begin, pair, submit PIN, verify, roll back, cancel, release, forget | a rollback removes only what the attempt made, a bond made is never orphaned, no rival bond, no proof left behind |
| config and options flows | `config_flow.py`, `config_helpers.py` | list of gateways, ownership marks of bonds, general and maintenance settings | add, edit, pair, remove, forget, advanced list, import | an ownership mark is earned, and it leaves only through its guided removal |
| config entry and SQLite connection | `__init__.py`, `store.py` (open, run, close) | state of the entry, update listener, coordinator, connection with its lock and close task | setup, roll back, unload, reload, open, operate, close | what is saved is what runs, one thread on a connection, every connection is closed |
| node cache and devices | `coordinator.py` (nodes), `store.py` (nodes), `entity.py` and the platforms | raw records, rows, view, redirects, devices, labels, entity budget, cleanup tasks | load and trim, hear, evict, refresh, mark stale, clean up, reload | the published nodes follow the records; rows, cache, view and devices agree once all is quiet |
| node identity | `node_identity.py`, `models.py` | none: pure functions of the records | evidence, groups, representative, merge, redirects | no two disagreeing records are folded |
| packet intake | `dedupe.py`, `rate_limiter.py` | recent fingerprints, tokens | accept, acquire | window and capacity |
| websocket API, device discovery, diagnostics, values of entities, panel | `websocket_api.py`, `bluetooth_devices.py`, `serial_devices.py`, `diagnostics.py`, `entities/`, `frontend/` | projections, one request at a time | | stateless over the operations above: not modelled |

How they interact: adapters call the status, packet and node callbacks of the
coordinator in whatever task reports; a connected status cancels the watchdog
of that gateway and flushes the outbox; the outbox and the direct sends call
the adapters; everything that is durable goes through the serialised queue of
the store; the maintenance scheduler asks the coordinator for candidates and
requests and is told of every activity; a reload or a shutdown raises a fence
(`_reconnect_suspended`, `_shutting_down`), drains each kind of work within a
bound, stops the adapters and either rebuilds them as a new generation or closes
the store.

What makes it hard: state read before an `await` and used after it (a page of
queued rows, `previous_connected`, the idle gates), cancellation of a task that
another task joins, executor work that outlives the task that asked for it,
bounded drains that give up, durable cooldowns that older releases wrote
elsewhere, packets that run a callback in the middle of a start, and a config
entry whose update listener would reload the operation that updated it. Bluetooth adds its own: teardowns that stay
pending behind a bounded wait, a daemon that restarts, a controller that is
swapped, other clients of the same bond; and dialogs add a list that is read
before an await and saved after it. The list
of hazards, each at its line with the properties that cover it, is `hazards` in
`PROJECT.json`; `components` there says what is modelled of each part.

## 2. Plan

Modules in the order of their importance for a user of the integration.

| module | models | composed with | state |
|---|---|---|---|
| `MeshOutbox` | sends, replay, deletion, fences | its `StatusCallback` is what `GatewayLifecycle` runs for a connected gateway | checked and proved |
| `MaintenanceScan` | the scheduler with its three injected callbacks | asks for the grants of `MetadataAirtime` | checked and proved |
| `AirtimeSlots` | abstract specification of the reservations | refined by `MetadataAirtime` | |
| `MetadataAirtime` | the reservations in the tables of the store | `Slots == INSTANCE AirtimeSlots` | checked, refinement proved |
| `GatewayLifecycle` | startup, callbacks, watchdogs, adapters, reload, shutdown | | checked and proved |
| `GatewaySettings` | previews, apply, readback, PIN hand-off, fence | | checked and proved |
| `RemoteAdmin` | remote snapshots, previews, section writes, reboots, the fence of an unload | its reserved checks and reboots take the grants of `MetadataAirtime` | checked and proved |
| `BluetoothPairing` | attempts over BlueZ, their rollback, the flows that own the bonds, the forgetting of a bond | its outcomes are the one await of pairing in `OptionsFlow` | checked and proved |
| `BleClient` | supervisor, connections, teardowns, requests, the settings transaction | its starts and stops are those of an adapter of `GatewayLifecycle` | checked and proved |
| `OptionsFlow` | the dialogs and the flow that creates the entry | extended by `EntryStore` | checked and proved |
| `EntryStore` | setup, rollback, unload and reload of the entry, the SQLite connection | EXTENDS `OptionsFlow`: a save is what its update listener hears | checked and proved |
| `NodeIdentity` | the projection of records onto nodes | extended by `NodeCache` | through `NodeCache`; its operators have lemmas |
| `NodeCache` | the window of records, its rows, view and devices | EXTENDS `NodeIdentity` | checked and proved |

What would come next: a proof of `Watched`, which is stated and not yet proved; the deduplicator at capacity and the token bucket; and one abstract specification of a single-use
ticket that both `GatewaySettings` and `RemoteAdmin` implement.

## 3. How the models are built

**Atomicity.** MeshNet runs on one event loop, so an action is the code between
two awaits, with every state change in it. An await is a value of a program
counter (`spc`, `fpc`, `runner`, `phase`, `attempt`, `callback`, `watchdog`,
`op[o].pc`). Executor work, provider calls and other clients of a radio are
actions of their own.

**Scenarios.** `MeshOutbox`, `MetadataAirtime`, `GatewayLifecycle`,
`GatewaySettings` and `RemoteAdmin` have a variable `scenario`, chosen from the constant
`Scenarios` in `Init` and never changed. It says which gateways, tasks and
requests exist and which faults the environment may cause; `world` in
`OptionsFlow` and `EntryStore`, and the members of `Worlds` in `NodeCache`, do the
same. One run then covers
several situations, each with its own small bounds, where the product of all
faults with all tasks would be out of reach. The theorems hold for every value
of `Scenarios`.

**History variables** (marked in each module) record what the code does not keep
and the properties speak of: transmissions, deletions, grants, the last event,
the commands sent for a preview, what happened behind a pairing attempt's back
(`since` in `tx`), what a radio reported or took since a plan began (`seen`,
`committed` in `radio`), the addresses whose bond a pairing made (`earned`), a save
that nobody heard (`missed` of `EntryStore`), a loss whose report scheduled no watchdog
(`missed` of `GatewayLifecycle`), the records a callback left half done (`cut`,
`whole`). They never guard an action; the bounds
(`MaxReloads`, `MaxCrashes`, `MaxClock`, `MaxEdits`, `MaxDrops`, `MaxUpdates`,
`MaxUnloads`, `NumMsgs`, `MaxAttempts`, `MaxEvents`, `MaxConns`, `MaxSetups`,
`MaxTime`, the counts in `world` and `allowed`) do.

**Mutated forms.** Next to a definition there may be a second one commented
"Mutated form": what a plausible slip in that line would be. No specification
uses them; they show that a property depends on the line.

### MeshOutbox

`_async_send_message_record` is `Submit` (up to the first store write),
`SendStored`, `SendLimited` (after the rate limiter, up to the provider call),
`SendTried` (the provider has its lock or its thread and transmits), `SendReturned`
(the call returns), `SendStatusStored` and `SendRefreshed`, with `SendCancelled` at each
of them; `spc` is where it waits. `_flush_outbox` is `FlushLock` (the lock is
granted), `FlushRead` (a page arrives), `FlushLimited`, `FlushTried`, `FlushReturned` and
`FlushStatusStored`; the loop over a page is `NextRecord` and `PageEnd`, used
by all that come back to it. `Connect`, `Disconnect` and `StatusCallback` are status
callbacks, `StartupFlush` the one of the startup task. `DeleteAll`, `DeleteBegin`
(the active ids are captured and the first page is read), `DeleteScan` (a page
arrives) and `DeleteRows` (a statement is done) are `async_delete_message_history`,
one deletion at a time; a page and a statement have `ScanLimit` rows (500 in the code).
A cancellation that arrives while a provider waits for its lock transmits nothing; the
SDK call in an executor thread goes on and ends before its caller does (a
second cancellation, which leaves the thread alone, is not modelled). `BeginReload`,
`FinishReload`, `DeferReload`, `BeginShutdown` and `Restart` are the fences.
Store operations run in the order of issue and survive the cancellation of their
caller, so they take effect when they are issued and `storeq` is the order in
which the callers wake up. Message contents, rendering, delivery receipts and
the numeric pace of the limiter are left out; a message is its number in the
order of the queue (timestamp, id).

### MaintenanceScan

The single background task is `runner`. `Start`, `ScanTick`, `Choose`,
`ChooseFails`, `Reserved`, `Submit`, `RequestEnds` and `CancelLands` are
`_async_run` with the selector and the request of the coordinator inlined;
`Quiesce`, `QuiesceTimeout` and `Resume` its lifecycle; `Activity` and
`Foreground` the traffic and the other owners of the radio. Instants are
countdowns (`toCycle`, `toRequest`) and ages (`sinceActivity`), so that runs have
no horizon.

### MetadataAirtime and AirtimeSlots

A request reads the clock when it is made (`Ask`) and runs its transaction later
(`Transact`: `Reserve` or `Refuse`), behind the other work of the store; a caller that is
cancelled leaves its transaction running (`Cancel`). `ReserveTraceroute`,
`ReserveNeighborInfo`, `ReserveProbe` and `ReserveReboot` are the four
transactions on the four tables. `Prune`, `Restart` (which takes over the
cooldowns of older tables) and `Tick` complete it. `AirtimeSlots` states what
these promise with one variable, the set of grants; the refinement mapping is
the identity on `grants`.

### GatewayLifecycle

`watchdog[g]` is the task in `_reconnect_tasks`, from `WatchdogHead` to
`WatchdogCleared`; `attempt[g][r]` is the start that runner `r` makes
(`OpenFails`, `Open`, `Announced`, `Refreshed`, `RefreshFails`, `Undone`), which
for a Meshtastic adapter is always the client's own task, joined behind a
shield, and for a MeshCore adapter the task of the caller, fenced by the
lifecycle epoch. `callback[g][c]` is a status callback that waits for its outbox
flush with what it captured. `Lose`, `Restore` and `Traffic` are what the radio
does; `BeginReload` to `FinishReload` and `BeginShutdown` to `FinishShutdown` go
through the drains in the order of the code, each of which may run out.

### GatewaySettings

One MeshCore gateway and two fields: `name`, an ordinary one, and `pin`, the
credential of the connection, written last. `RequestGet`, `RequestPreview` and
`RequestApply` are the entry points up to the lock of the gateway (an apply
takes its preview out of the manager there, whatever comes of it), `TakeLock` to
`ApplyRead` the live read behind it, `SendFirst`, `Answer` and `Verify` the
adapter (`_apply_locked`, `_write_then_verify`, with the connection compared
before and after every command), `AfterRead` the result and the start of the
hand-off, `Acknowledged` and `AckTimeout` its end. `Interrupt` is the deadline
or the cancellation, at any await. `Listener`, `BeginReload`, `FinishReload` and
`GiveUpReload` are the config entry. The revision of a snapshot is the state of
the radio it shows; a command that is sent may take effect or not whatever its
answer says, but a rejected one does not.

### RemoteAdmin

One remote node, administered through Bluetooth gateways. `RequestGet`,
`RequestCheck`, `RequestReboot`, `RequestPreview` and `RequestApply` are the
entry points up to the lock of the pair of gateway and target; `StartGet`,
`StartCheck`, `StartReboot`, `StartApply` and `MakePreview` what is done when the
lock is granted (a preview ends there, since it awaits nothing). `ReadSection`
is one request of `_async_load_remote_settings_locked`; after the last one
`FinishGet` stores the snapshot, `CompareRevision` goes on or gives up, and
`FinishApply` verifies. `SendBegin`, `SendSection` and `SendCommit` are the
packets of the plan, each of which may or may not reach the node whatever comes
back; `WriteCut` is the deadline. `ReserveProbe`, `FinishCheck` and `RebootStep`
are the other operations, `Quiesce` to `CloseEntry` the unload of the entry,
`Interrupt` the cancellation it sends. The revision of a snapshot is the state
it shows; that a node reads back what it was sent only after a reboot is part of
"may reach the node or not".

### BluetoothPairing

One radio below one adapter path. `bond` is what BlueZ knows on each controller,
`plugged` the controller behind the path now, `gen` the generation of the daemon
(the unique owner name an attempt pins). `Begin` to `EndAttempt` are
`PairingAttempt._run` and `_BlueZPairingBackend.async_pair`: `Resolve` (under the
process-wide lock), `VerifyOld` (a bond that was there), `CallPair`, `AskPin` and
`SubmitPin` (the agent), `BluezPairs` (the daemon's side of `Device1.Pair`),
`PairReturns` (the ownership boundary) and `VerifyNew`. `AttemptFails` and `Cancel`
enter the shielded cleanup at any await: `RollbackRead`, `RollbackRemove` and
`RollbackCheck` are `rollback_created_bond`, `LateRollback` the decision before the
bus is closed, `Commits` and `Outcome` what the attempt's task ends with, `Record`
is `_record_created_bond`. `FlowReturns`, `FlowFinishes`, `FlowRemoved` and
`FlowCleanup` are the flow that started it (`_provisional_bonds` is `held`),
`ForgetResolves` to `ForgetEnds` is `async_forget_current_bond`. `OtherPairs`,
`OtherRemoves`, `BluezRestarts` and `Swap` are the world. A radio has two object
paths, and an address that is that of its path or, once bonded, its identity.

### BleClient

`run` is the supervisor task (`_run_supervisor` with `_cleanup_session`), `link`
and `disc` are each connection's GATT link and a disconnect that outlived its
bounded wait, `session` its reader and heartbeat, one of which may ignore its
cancellation (`"stuck"`). `connRef` and `taskRef` are `_connection` and
`_reader_task`, the only references the client has to all that. `Start`,
`StartRefused`, `StartReturns` are `async_start`, `StopBegins` to `StopEnds` the
stages of `async_stop`; `OwnersPending` is `_cleanup_owners_pending`. `AskOnce`,
`Answered`, `AskEnds` are a request for one answer; `Plan` to `PlanTimesOut` are
`async_apply_settings_plan`, with `radio` the radio's side of the edit
transaction. The framing of packets, the handshake inside BlueZ and file
transfers are left out; the sections of a plan are one value.

### OptionsFlow and EntryStore

`OptionsFlow` is a dialog per flow object: `fpc` where it is, `flist` the list it
read before its await. Every step of `config_flow.py` that reads or writes the
list is an action; where the code saves the list it read before a connection
test or the removal of a bond, so does the action (`Validated`, `Forgotten`),
where it reads again, so does the action (`PairSaved`). `SaveGateways` writes the
options as they are at that moment, as `_save` does.

`EntryStore` EXTENDS it with what a save means: `Saved` makes one task of the
update listener. `SetupEntry` to `SetupDone` are `async_setup_entry`, `Rollback`
to `RolledBack` its failure, `BeginUnload` to `Unloaded` the two fences, the
platforms and the shutdown of `async_unload_entry`. A store is `db` (the
connection itself), `conn` (`_conn`), `queue` (holder and waiters of its lock),
`inflight` (threads on the connection) and `closer` (`_close_task` or the task
that closes a connection whose open was cancelled); `StartWork` to `FinishClose`
are `_run_serialized`, `async_open` and `async_close`. Each setup makes a new
coordinator and store, the old ones stay with their threads.

### NodeIdentity and NodeCache

`NodeIdentity` is `node_identity.py` without state: `Valid` (the evidence of a
record), `UnsafeKeys`, `Representative`, `Merged`, `Redirects` and `Effective`
(the distinct nodes). `NodeCache` publishes through it: `Hear` to `Deleted` are
one node callback (`_handle_node`) with its awaits, `BeginUpdate` to `FinishUpdate` `_async_update_data`, `LoadAndTrim`,
`TrimToBudget` and `Project` the start, `CleanUp` the task that removes devices in
batches, `BeginReload` and `EndReload` the replacement of the gateways. `Evicted`
is the window with its protected records, `NodeCeiling` the entity budget,
`RefreshOne` the partial projection of `_refresh_effective_node_projection`.
Records carry identity, the time last heard and `online`; topology, positions and
telemetry are left out.

## 4. The runs

`tlc -config <name>.cfg <module>`, with the configuration named after the run.

| run | module | distinct states | result |
|---|---|---|---|
| `outbox_safety` | `MC_MeshOutbox` | 3.3 million | holds |
| `outbox_live` | `MC_MeshOutbox` | 100 thousand | holds |
| `maint_all` | `MC_MaintenanceScan` | 9.8 thousand | holds |
| `airtime_safety` | `MC_MetadataAirtime` | 660 thousand | holds |
| `lifecycle_all` | `MC_GatewayLifecycle` | 710 thousand | holds |
| `settings_all` | `MC_GatewaySettings` | 2.2 million | holds |
| `remote_all` | `MC_RemoteAdmin` | 1.1 million (up to symmetry) | holds |
| `pairing_all` | `MC_BluetoothPairing` | 2.6 million (up to symmetry) | holds |
| `ble_all` | `MC_BleClient` | 5.6 million | holds |
| `entry_all` | `MC_EntryStore` | 0.6 million | holds |
| `nodes_all` | `MC_NodeCache` | 0.5 million (up to symmetry) | holds |
| `nodes_favorite` | `MC_NodeCache` | stops early | refuted |

**`outbox_safety`** covers seven scenarios. *Routing*: two gateways of different
protocols that connect, disconnect, are reloaded and removed from the
configuration, with messages pinned to one of them or to the protocol of a node.
*Targets*: identities that stop being safe while a send or a
replay waits. *Pages*: three messages in pages of two rows
with failing deliveries, so that a pass crosses a page boundary with a failed
head row. *Races*: two flushes and two sends under
cancellation, failures and disconnects (`OneDelivery`). *Fences*:
reload, shutdown and restart against a flush and two sends
(`OldGenerationDrained`, `FenceHolds`): behind a fence no row is written and no message
is handed to a provider, but a provider call that waits for its lock or its thread
still transmits. *Deletions* in pages and statements of one row, at every point of two
sends and a flush, with messages submitted between two pages
(`DeletedStaysDeleted`). *Replay*: two callbacks that flush at once
(`ReplayedOnce`). Delivery is at least once: a process that ends, or an
acknowledgement that is lost, between the provider and the row makes a message
go out again, so no property counts transmissions except where only
disconnects happen.

**`outbox_live`**: two messages, pages of one row, two flushes, and gateways that
keep hearing traffic: whatever flushes and sends are doing, the queue drains once
the gateways stay connected.

**`maint_all`**: three candidates, a budget of two per cycle, an interval of 4, a
spacing of 3 and a quiet window of 2 ticks, so that the spacing ends in the next
cycle, the budget ends a cycle before its candidates do, and activity falls
before, within and after every await.

**`airtime_safety`**: two callers and three scenarios: every request that shares
the network-wide floor over two gateways; reboots of two nodes, whose attempts
delete the expired rows of both; a database of an older release with running
cooldowns. Retention is shorter than every floor, so pruning meets running
cooldowns.

**`lifecycle_all`** covers eight scenarios, described in
`MC_GatewayLifecycle`; `EventsConverge` leaves out what the refuted properties of
section 7 show to be possible, and says so. `Recovers`, its
one liveness property, speaks of the scenarios in which only the radios
misbehave, of either kind: refused, lost, restored and heard in any order, a gateway is
connected again and again or ends `Forgotten`. Forgotten it is when the report of its
loss found a cancelled or finished watchdog still registered, so that
`_schedule_reconnect` made no new one (`coordinator.py:4530`; `WatchdogAfterLoss` in section 7).
The history variable `missed` records just that report; a loss at any other moment
has a watchdog, and every watchdog goes on until the gateway is connected or it
is cancelled.

**`settings_all`** covers four scenarios: three operations on a radio that
somebody else edits (one preview applied by two clients, a preview replaced by a
later one, an apply between preview and apply); two with a link that drops; two
with a PIN that reaches the entry while the user changes the entry, with reloads
that complete or give up; and a gateway that keeps no PIN (USB or TCP without
one), whose verified change asks for recovery. `SentOnce`, `ReportedIsReal` and
`WritesOnWhatWasShown` are about the radio, `PinAccounted` and `NoUpdateLost` about
the config entry.

**`remote_all`** covers three scenarios of four handlers: drafts of one or two
sections on one gateway, while somebody else edits the node and the link drops;
reads, previews, applies, checks and reboots while the entry is unloaded, up to
two times; and two gateways that administer the node at once. `DraftsAreCurrent`
and `SentOnce` are about the previews, `OnlyTheDraft` about what the node holds
afterwards. Handlers are interchangeable, and no
liveness is checked, so their symmetry is sound.

**`pairing_all`**: two flows with one attempt each, two controllers behind one
adapter path, a radio with two object paths and an identity, and one act of the
world (restart, swap, another client). Every await of an attempt can fail, time
out or be cancelled. `RollbackIsOwn` is the promise that a pairing error never
removes somebody else's bond; it excepts a bond of another client that took the
place of the attempt's own after `Pair()`, and a controller swapped between the
look and the removal, which BlueZ gives no means to exclude. `OwnershipKept` says
that a bond made stays somebody's to settle, `NoProofLeft` that proof does not
outlive its flows, `NoRivalBond` that proof keeps a second attempt off.

**`ble_all`**: up to three connections, one request and one settings transaction
at a time. A teardown may be refused, ignored or late at each stage of a reconnect
and of a stop (`OneOwner`, `StoppedIsFree`), answers and commits may be lost
(`VerdictIsHonest`), and a radio may keep an answer over a reconnect
(`AnswerIsOwn`). Three connections let the third begin while the first is still
being released and the second was lost.

**`entry_all`** covers dialogs (two options dialogs on an entry whose bond
is owned, found or absent, and the first setup), reloads (saves at every point of
setup, unload and reload) and the store (setups that are cancelled or fail, callers
that are cancelled, closes that stop waiting, unloads that give up).
`MarkIsEarned` and `OwnedLeavesKnowingly` are about the dialogs, `RunsWhatIsSaved`
about the listener, `OneThread` and `ConnectionsClose` about the connection.

**`nodes_all`** starts on a store that is empty, of an older release, beyond the
window or beyond the entity budget, and lets two callbacks, a refresh, the cleanup
tasks, a reload, a raising store and a new favorite meet in every order.
`ViewIsFresh` compares the view, which is rebuilt one node at a time, with the
projection of all records; `Settled` compares rows, cache, view and devices once
nothing runs. **`nodes_favorite`** is the refuted one, section 6.

**Bounds.** Two gateways are what routing can confuse; two flushes and two sends
are what can overtake each other (a third waits for the same lock); a page of
one or two rows crosses a boundary with two or three messages, and a deletion in
pages and statements of one row meets a send between any two of them; one reload and
one restart suffice because each erases what the one before it left, except the
generation, and the proofs do not have these bounds. The clock of
`MetadataAirtime` is longer than the longest floor, so cooldowns run out and
begin again. In `GatewaySettings` two field values tell "changed" from "not
changed", and one foreign edit, one lost link and one change of the user each can
fall at every point of an operation. In `RemoteAdmin` two settings share a section,
so that a write may roll a companion back, and a third has its own, so that an
apply may fail half way; four handlers are a read, two previews and an apply, or
two applies of one preview. In `BluetoothPairing` two flows meet once each (an
attempt of a flow waits for the one before it), and one act of the world falls at
every point of both; the proofs do not have these bounds. In `EntryStore` two
setups are an old and a new coordinator. In `NodeCache` a
window of two records with four keys makes every callback able to evict, and the
four keys are one radio under three keys and another radio, so that a group can
form, fall apart and change its representative. All runs but `maint_all` and
`airtime_safety` may stop (all work done, a process that shut down, or a bound
reached), so only these two check deadlock.

**Fairness.** *MeshOutbox*: weak fairness of the steps of sends, flushes, reload,
startup and deletion, since the event loop runs what is ready, every provider
call has a timeout and a reload waits a bounded time for each task; strong
fairness of taking the lock, because `asyncio.Lock` is FIFO. `BusySpec` adds that
a connected gateway goes on reporting its status, which it does with every
packet. Nothing is assumed of connections, submissions, failures or deletions.
*MaintenanceScan*: the task runs when it can and time passes. *GatewayLifecycle*:
tasks run, waits end, and a start that is tried again and again opens some time
(strong fairness of `Open`), without which nothing could promise a connection.
*EntryStore*: the executor finishes the work it was given, and the task that
waits for it goes on (weak fairness of `Serve`, `CloseLate`, `Detach`,
`FinishClose`); nothing is assumed of dialogs, setups, unloads or new jobs.
*GatewaySettings*, *RemoteAdmin*, *BluetoothPairing*, *BleClient* and *NodeCache*
state safety only.

## 5. The proofs

Checked by TLAPS, for every value of the constants that satisfies the named
assumptions (finite bounds, `None` outside the other sets, natural numbers,
`Spacing <= Interval`, `Floor <= TargetFloor`, an entry that begins with a list MeshNet
wrote, `MarkerAssumption`: `None` is no marker of the settings suppression,
`OrderAssumption`: no two node keys have the same text, `NodeInputsAssumption`: what is
observed or stored is a record under a key; the maintenance constants of
`const.py` and the cooldowns of `store.py` satisfy them).

**`MeshOutbox_proofs`.** `TypeCorrect` goes first, one lemma for each action. The
safety properties are not inductive: nothing in `OneDelivery` says why a flush
cannot take a message that becomes active later. The inductive invariant is
`TypeOK /\ LockInv /\ RowInv /\ HandInv /\ AirInv /\ OldGenerationDrained`:
a flush is inside the lock exactly when it holds it (`LockInv`); only a submitted
message has a row (`RowInv`); pages hold submitted messages and a record is taken
in hand only after its direct send is over, which never becomes active again
(`HandInv`); what was put on the air was counted (`AirInv`). From it follow
`DeliveredByOne`, `SentWasOnTheAir` and `ReloadDrains`. `FencesHold` needs it too: behind a
fence a task can only leave a provider call, never enter one, and what it transmits
is the message it has in hand.

Two more invariants stand on `IInv`. `GoneInv` says that a row deleted
while no flush and no later send held it has nobody left to write it: its direct
send is over. For that it looks at the deletion under way: a row in its scope that had been submitted
when it began has a direct send that is over, and the rows it has found are in its scope;
`DeletionIsFinal` follows. `ReplayInv` speaks of
behaviours whose only fault is a lost connection. There no task ever meets a fence
(`Calm`); a page holds queued rows only, and what a flush has in hand of a message that its
direct send left queued is the row as it is, unreported until it is marked
(`HoldInv`); and while the row waits, the message was never on the air, but for the one
delivery that has not come back (`OnceInv`). The lock makes the step of one flush
leave the others without such a message (`OthersRest`), and `ReplayIsOnce` follows
for any number of messages, callbacks and gateways.

**`GatewayLifecycle_proofs`.** Startup, watchdogs, events, reload and shutdown all touch the
same adapters, but a step for one gateway leaves the others alone, so the invariant is a
conjunction over gateways (`Local`) beside the fences and the lifecycle (`LifeInv`: a
startup task that outlives its wait has been cancelled, and only a shutdown stops gateways
beside living tasks). For one gateway, a start that runs in a task is at a place where that
task is (`RunAt`), in the task its kind of adapter uses (`KindAt`), and there is an
interface exactly when a start owns it. While a stop is under way nobody may publish, and
a watchdog that has stopped its adapter finds nothing published (`StopAt`); so a start that
may still publish finds no interface (`StartAt`), from which `OneOwner` follows. What has
been stopped behind a shutdown stays closed whatever is still running (`LeakAt`):
`ShutdownCloses`. For the events, `ToldAt` says that what was told is not ahead of what is
known, nor that of what is so, and that a connection nobody was told of has a callback
under way that captured "not connected", or a start that is being undone, which will report
the loss; a reload that is deferred loses such reports, so it is stated where reloads
complete (`EventAt`). When nothing is under way no such callback is left: `ToldIsSo`.
`FreshAt` and `IdleAt` say where a startup and a rebuild find everything at rest.
`NothingStarts` and `OldCallbacksEnd` are action properties: each call of `async_start` looks at
the fence in the same step, and only the end of a provider's callback compares
generations. They hold for any gateways of both kinds, any tasks for events, any number of
reloads and every set of faults; the assumptions are that the roles and `None` are apart
from the other names.

**`Maintenance_proofs`.** For `MetadataAirtime`, `IInv` says that no stamp is older than the first
instant (`ClockInv`), that the shared row outlasts the rows of both older tables
(`TablesInv`) and that every grant is still recorded in a row that blocks as
long as its floor runs, or its floor is past for everybody who waits
(`GrantInv`). `SlotsImplemented` is the refinement of `AirtimeSlots`, initial
states and every step; `ProbeRespects` shows that the probe, which reads one
table, respects all three. `CooldownsKept` goes through every action: a transaction
is allowed only when the rows it overwrites were past when it was asked for, and the
clock has not gone back since.

For `MaintenanceScan`, `ScanIInv` adds to the types: who runs and is cancelled
(`TaskInv`), the budget (`BudgetInv`), and two relations between what is left to
wait and what has been waited, `toRequest + sinceAttempt >= Spacing` inside a
cycle and `toCycle + sinceAttempt >= Spacing` outside (`SpacingInv`), and the
same for the interval since the scheduler was armed (`FreshInv`); who was chosen
once is excluded (`PickedInv`). `NoRetry`, `Spaced`, `Fresh` and `Idle` follow.

**`GatewaySettings_proofs`.** An apply goes through seven kinds of await, so `PlaceInv` says of
each await what the operation has done and holds there, and the other parts lean on
it. One apply destroys a preview, and nobody else can name that preview afterwards
(`PreviewInv`), so what was sent for it is what that apply has written (`SentInv`:
`PreviewSentOnce`). It alone writes while it holds the lock, so between its check and its
first command, and from each command to its readback, the radio is as its plan says but
for what others have touched (`PlanInv`, `RadioInv`: `PlanMeetsItsRadio`,
`VerifiedIsOnTheRadio`). For the PIN, a hand-off saves what the radio holds, and an
answer that the client can rely on leaves the two equal (`PinInv`: `PinNeverDrifts`). The marker of the
suppression belongs to the operation that waits for the listener, whose own update is
still to be heard (`ArmInv`), and the running configuration differs from the entry only by
an update still to be heard or by that PIN (`ConfigInv`): `UpdatesAreHeard`. Without
other updates the hand-off reloads nothing (`SelfInv`: `HandOffKeepsTheEntry`), and
behind the fence no preview is kept and only cancelled work is left (`FenceInv`: `ReloadIsFenced`).

**`RemoteAdmin_proofs`.** `SentOnce` and `OnlyTheDraft` are about what an apply
does many steps after it took its lock, so the invariant has to carry what it
relies on until then. `IInv` adds to the types, and to the rule that a lock is
held by exactly the operation that awaits with it: only applies write
(`StageInv`); behind the fence nothing is kept and only cancelled work is left
(`FenceInv`); a live preview was answered and changes something (`PreviewInv`);
nothing was sent for a preview before it was destroyed (`UnsentInv`); an apply is
the only one that can still name the preview it destroyed, no new preview of its
gateway can appear beside it, and what it has still to write was never sent
(`ApplyInv`); and, as long as nobody else has touched the node, what it has read
is what the node holds, and only the draft was written since (`NodeInv`).
`DraftsCorrect`, `SentCorrect`, `OnlyDraftCorrect` and `FenceCorrect` follow. That
an apply is alone with its preview rests on the lock: a snapshot, a preview and
an apply of one gateway exclude each other, which `LocksApart` states once.

**`BleClient_proofs`.** The client keeps two references, `_connection` and
`_reader_task`, and the argument of `OneOwner` is that they reach everything that is
busy: a connection with a link, a disconnect that has not returned or a session is the
one `_connection` names, and a session is also the one `_reader_task` names; while
the supervisor resolves, waits or connects everything is free, and past its connect
it works on just that connection (`EndpointInv`). `FreeInv` says what a stop that reported success
found, `CallInv` that a waiting request belongs to the connection of the session
that may answer it, `PlanInv` relates the baselines of a plan to the downloads that
came after it and to what the radio took. With `TypeOK` and the count of
connections (`CountInv`) they are inductive, and `OwnerIsOne`, `StopFrees`,
`VerdictsHonest` and `AnswersOwn` follow, for any number of connections, requests
and reconnects.

**`StoredState_proofs`, the dialogs** (`DialogInvariant`, `DialogsTyped`). What makes `MarkIsEarned` and `OwnedLeavesKnowingly` hold is
what a dialog has in hand while it waits. `OptInv` says, for each dialog (`Work`), that its list
was the saved list once, so its marks are earned and its identifiers are told apart
(`Seen`); that a submit which waits for a test or a pairing works on a record
without any mark; and that a pairing in place of a record was begun when that record was
not owned. With the list of the flow that creates the entry (`SetupInv`) and the entry
(`EntryInv`) it is inductive. The assumption `ScenariosAssumption` is about the entry
a run begins with: identifiers and addresses are unique, and a mark stands on a bond on
record.

**`StoredState_proofs`, the entry.** `ImplementsOptions` is the composition: every step of the entry
and its stores is a step of the dialogs or leaves their variables alone, so the two
properties of the dialogs hold with setups and reloads around them
(`MarksEarnedInEntry`, `OwnershipKeptInEntry`). For the store, `Lease` says that executor
work belongs to the holder of the lock and runs only while the connection is published;
`Owner` relates the connection, its publication, the close task and the state of the
entry, so that an open connection that is not published belongs to a task that closes
it. `ConfigInv` says that what the running coordinator was made with is what is saved,
until a save is owed a reload or counted as missed; `ListenInv` says when the
update listener is there. `OneThreadAtATime`, `NoConnectionIsLost` and `SavedOptionsRun`
follow, for any number of setups, jobs and dialogs.

**`BluetoothPairing_proofs`.** The lock lets one attempt talk to BlueZ at a time
(`LockInv`), so a step of one attempt leaves the others as they were (`OfOneFlow`), and
`PairInv` follows each attempt from its `Pair()` to the hand-over to its flow. `Place` says
what it has resolved and done where it stands; `Rival` that no proof of the same radio lies
beside an attempt that may pair; `Same` that a change of the controller is noticed; `Whose`
that the bond at its path is its own unless another client came in between; `Keeps` that a bond
it made is never called rolled back while it stands, and is in the hands of its flow
afterwards. `ProofInv` says that there is one proof for a key and that the flow that made it
will release it. The conjunction is inductive, and `RollbackTakesItsOwn`,
`NoBondBesideAProof`, `OwnershipIsKept` and `ProofsAreReleased` follow for any flows,
controllers, paths and attempts, and any number of restarts, swaps and acts of other clients.

**`StoredState_proofs`, the nodes.** `ViewIsFresh` is the one property here that rests on
what an algorithm computes. `Twins` says that two caches carry
the same evidence under each key of a set; then they have the same valid keys, groups and
unsafe keys there (`TwinFolds`), so only the content of the changed group can differ. A group has one representative
and one freshest member, because ranks are numbers and `Order` tells keys apart: a set of
numbers has a least member (`LeastNat`), and so no CHOOSE depends on anything else.
`OneNode` concludes that the partial projection equals the whole one, under the two
conditions `RefreshOne` has: the record keeps its signature, and its
aliases project to one node, the published one.

The invariant `NodesInv` then relates the five copies of a node. The rows are the cached
records but for the keys that the holder of the lock has in hand (`Going`, `Saving`) and those
an interrupted callback left (`RowsFollow`); what is published is cached or on its way out
(`ViewFollows`); the platforms have seen what is published unless an update or a cleanup is still to
come (`ViewSeen`); what they have seen has a device, or a cleanup task will tell them it went
(`SeenHasDevice`); and a device without a record is on the list of such a task
(`DevicesFollow`). `KeptView` covers the await between a merge and its refresh: a view that is to be
patched is that of the records as they were, whose signature was the same. `ViewFollowsRecords`
and `StoriesAgree` follow, for any nodes, labels, callbacks, reloads, raising stores and
limits. What an observation is stays a constant: the theorems quantify over every set of
well-formed records, not over the packets they come from.

What is only model-checked: the liveness properties (`QueueDrains`, `CyclesGoOn`,
`Recovers`, `ConnectionsClose`), since the prover reasons neither about fairness nor
ENABLED. `FavoritesStay` is refuted (section 6). Some properties are proved
and not in a configuration, because the theorem says more than a run would:
`SentWasAired` of `MeshOutbox`, `FreshInterval` and `AttemptsIdle` of
`MaintenanceScan`, `FenceHolds` of `RemoteAdmin`, `FenceHolds` and `NoSelfReload` of
`GatewaySettings`, `OneInterface` of `GatewayLifecycle`, `NoStrayConnection` of
`EntryStore`. The type invariant of `NodeCache` is proved too (`NodesTyped`). The properties `Watched`
and `FencesOpenAgain` hold in the same instances: naming one in the configuration of
its module checks it. No theorem needs induction over data, and no module declares a
RECURSIVE operator.

## 6. Where the code and its documents disagree

**A favorite does not survive a start** (`nodes_favorite`, `coordinator.py:1322`).
`README.md` of the integration says (lines 349-351) that "gateway-owned nodes and
**MeshNet Favorite** nodes are never evicted". The start trims the stored records
before the view exists that favorites are read from, and before any gateway knows its
own id; `_protected_node_keys` is empty then. A store above its window (an older
release, a lowered `node_limit`, a smaller entity budget) loses the favorite's record,
its row, and with the device the label. The counterexample is two steps long.

The same protection has three more holes, which `FavoritesStay` shows once the start
is left out: the label is looked up on the device of the representative of the view,
not on those of its aliases (`_favorite_raw_node_keys` passes none), so a record that becomes
the alias of another loses it; a label given between the eviction and the deletion of
the row is not seen; and gateway-owned nodes are unknown from a reload until the
gateway reports its id.

## 7. Further divergences, without a run of their own

These properties are stated in the modules; naming one in a configuration of the
same module, with the scenario given, shows its counterexample.

| property | module, scenarios | what happens |
|---|---|---|
| `OneSentEvent` | `MC_MeshOutbox`, `CalmScenarios` | a flush reads a page, is busy with an earlier record while the direct send of a later one finishes, and then delivers its stale copy: a second "sent" event without any fault (`coordinator.py:4320`) |
| `NoResurrection` | `MC_MeshOutbox`, `DeletionScenarios` | the deletion keeps messages whose direct send is in flight when it begins, neither the record the outbox is delivering nor a message submitted since that lands on a later page; the acknowledgement of either writes the row back (`coordinator.py:3958`, `store.py:561-602`). The docstring at `coordinator.py:3945` says "a late provider acknowledgement cannot resurrect a deleted row"; so do `docs/SECURITY.md:413-414`, `docs/API.md:70-71` and `docs/USAGE.md:311-312` |
| `NoLateResurrection` | `MC_MeshOutbox`, `DeletionScenarios` | the second of the two alone, without a flush: the history has more than one page, a send begins while the first is read, its row is deleted while its provider answers, and the answer stores it again |
| `QueueDrains` under `FairSpec` instead of `BusySpec` | `MC_MeshOutbox`, `LoneScenarios` | the flush of the connecting gateway skips an id that is still active although its send has already decided to queue; the row waits until the next status report of any gateway (`coordinator.py:4320`) |
| `BlockedIsFinal` | `MC_MeshOutbox`, `SafetyScenarios` | a flush transmits its stale copy of a row that the direct send has blocked meanwhile, once the identity is safe again |
| `OnlySafeTargets` | `MC_MeshOutbox`, `UnsafeScenarios` | the target is proven "immediately before entering the provider coroutine" (`coordinator.py:2044`), which then waits for its lock (`aiomeshtastic/client.py:608`) or for a thread: the identity may change before it transmits |
| `NothingAiredBehindFence` | `MC_MeshOutbox`, `UnsafeScenarios` | the same wait crosses the fence of a reload or a shutdown: the message goes on the air, its result is dropped, its row stays queued and is transmitted again (no document promises otherwise; `FenceHolds` says what does hold) |
| `NoLateEvent` | `MC_MeshOutbox`, `UnsafeScenarios` | the "blocked" event of a send is fired behind the fence (`coordinator.py:2056`) |
| `RequestsAreSent` | `MC_MaintenanceScan` | the idle guard counts the Bluetooth operation the request itself runs in, so none is transmitted (`coordinator.py:1231`); the safety properties of `maint_all` are about the attempts |
| `AirSpaced` | `MC_MetadataAirtime`, `TracerouteScenarios` | the floor counts from the reservation, the request may wait for the send lock without a bound (`coordinator.py:2259`) |
| `ResultOfReservation` | `MC_MetadataAirtime`, `TracerouteScenarios` | a late answer is stored in the row of a newer reservation (`store.py:962`; its docstring speaks of "an existing cooldown reservation") |
| `WatchdogAfterLoss` | `MC_GatewayLifecycle`, `LossyScenarios` or `MeshCoreScenarios` | `docs/ARCHITECTURE.md:126` promises a watchdog after "a connected-status loss". A link is lost, restored, which cancels the watchdog, and lost again before the cancelled task has been cleared: it is still registered, so nothing is scheduled (`coordinator.py:4530`). Or a packet arrives while a MeshCore watchdog is inside its own start and cancels it, which discards the interface (`coordinator.py:4141`). The gateway stays down; `Recovers` and `Watched` name the state `Forgotten` |
| `RealChangesOnly` | `MC_GatewayLifecycle`, `TrafficScenarios` | two overlapping callbacks fire the same event twice (`coordinator.py:4133`) |
| `SensorIsOff` | `MC_GatewayLifecycle`, `RefreshScenarios` | a start whose last refresh fails closes its interface and leaves the status connected (`meshtastic_client.py:1627`) |
| `SessionCoherent` | `MC_GatewaySettings`, `AllScenarios` | the deadline of an apply arrives together with the acknowledgement of the listener: the reload has been suppressed and the running configuration keeps the old PIN (`coordinator.py:3048`; the comment at 3054 says "Keep this running session coherent") |
| `RefusedIsUnwritten` | `MC_RemoteAdmin`, `AllScenarios` | an apply ends with a refusal or "no response" of the mesh although one of its sections is on the node: `_REMOTE_ROUTING_ERRORS` (`aiomeshtastic/client.py:79`) gives the routing errors of a write the codes of a read; `docs/ADVANCED_MESH_OPERATIONS.md:230` calls a write that "may have left Home Assistant but was not verified" an unknown outcome |
| `OneOperationPerTarget` | `MC_RemoteAdmin`, `AllScenarios` | the locks belong to pairs of gateway and target (`remote_admin.py:326`): two gateways administer one node at once; `docs/ADVANCED_MESH_OPERATIONS.md:165` says "One target may have only one admin operation in flight." |
| `NothingOrphaned` | `MC_BluetoothPairing` | after a swap of the controller the rollback finds no device object at the path and calls that a success before it compares the controllers, while the old controller keeps the bond; the comment at `bluetooth_pairing.py:1245-1247` raises its error "instead of orphaning" |
| `OwnedNeedsRemoval` | `MC_EntryStore`, `EntryScenarios` | a dialog that read the list before an await saves it over a bond that another dialog has earned since; the comment at `config_flow.py:941-944` says moving the marker "requires guided removal" |
| `ReloadsOnChange` | `MC_EntryStore`, `EntryScenarios` | options saved after the coordinator was made and before its listener is registered reload nothing (`__init__.py`, `_async_update_listener`: "Reload on options changes"); `RunsWhatIsSaved` leaves just these saves out |

Four more follow from reading the same states and have no property of their own.
With the cause of `SessionCoherent`, `docs/TROUBLESHOOTING.md:900` ("If a MeshCore
Bluetooth PIN was verified, MeshNet updates that gateway's saved connection PIN") does
not hold for a deadline or a reload that falls between the verification and the
commit; `PinAccounted` therefore speaks of operations that have answered. A flow that
closes releases proof by controller and address alone, so also the proof of a later
attempt of another flow for the same radio. A node callback that is stopped by a
store error or a reload after it evicted leaves the devices of the evicted records
(`coordinator.py:3485`), which `Settled` leaves out as `cut`. An unload that gives up
because radio work did not drain leaves the radio operations fenced
(`__init__.py:142`), which `FencesOpenAgain` leaves out.

## 8. What is not modelled, and why

- Message rendering, normalisation of packets, field schemas, telemetry, the panel
  and the forms' layout: stateless conversions.
- The websocket API, diagnostics, repairs, redaction and device lists: projections of
  state and request schemas over the operations modelled here.
- `dedupe.py` and `rate_limiter.py`: no await between a read and a write of their
  state; how a send waits for the limiter is in `MeshOutbox`.
- A clock that is set back or forward: cooldowns are wall-clock instants, and the
  model has one monotonic clock.
- `async_reload_gateways` has no caller in the integration outside its tests (Home
  Assistant unloads the entry and sets it up again). It is modelled, because it is
  the documented fence; a reload that is deferred leaves gateways that were down
  without a watchdog, which `Watched` leaves out.
- Adapters: the executor bookkeeping of the SDK, MQTT topics, REST polling, and the
  clean-up after a late start of a Bluetooth transport.
- For the settings manager: an unload whose platforms refuse to unload, several
  gateways behind one settings manager (each has its own lock; the limit of 32
  previews is shared), and the sanitising of snapshots. For remote administration: the
  sections no draft touches, the age of a session key, and the batches of
  `remote_services.py`.
- Bluetooth pairing: the throttle of attempts (a refusal that changes nothing), the
  text of the PIN, several adapter paths. Bluetooth client: framing, file transfers,
  the queue of packets below the session.
- The flows: the probes behind a connection test (their outcome is a choice), and
  the lists of discovered devices.
- The store: history queries, schema migration, and the tables no other module uses.
- The node cache: topology, position history and telemetry; registry removals that
  fail; a failure between marking nodes stale and publishing; an unload that cancels
  cleanup tasks; a restart of the process in the middle of a run (every run begins
  with what a restart may find); the sharing of one record object by cache and view.
