-------------------------- MODULE GatewayLifecycle --------------------------
(***************************************************************************)
(* How MeshNetCoordinator keeps its gateways connected (coordinator.py):   *)
(* the background startup, the status callback of every adapter, the       *)
(* reconnect watchdog each callback schedules or cancels, and the reload   *)
(* and the shutdown that fence and drain all of them.                      *)
(*                                                                         *)
(* Two adapters differ in what a cancelled caller does to a start.  The    *)
(* start of MeshtasticClient runs in a task of its own, which its callers  *)
(* join behind a shield; the start of MeshCoreClient runs in the task that *)
(* called it, and only the newest lifecycle epoch may publish.             *)
(*                                                                         *)
(* All of it runs on one event loop: an action is the code between two     *)
(* awaits.  The outbox flush that a connected status runs is one await     *)
(* here (MeshOutbox is its model).                                         *)
(***************************************************************************)
EXTENDS Naturals, FiniteSets

CONSTANTS
  GatewayIds,   \* gateway ids
  EventTasks,   \* tasks a provider event may run its status callback in
  MaxReloads,   \* bound on completed reloads
  Scenarios,    \* the situations considered, see ScenariosAssumption
  None          \* "nothing"

FaultKinds == {"refuse", "loss", "return", "traffic", "refresh", "reload",
               "shutdown", "busy", "stubborn", "raise"}

\* Who may run a start, and what may be under way in an adapter ("stop" runs
\* async_stop).
Runners  == {"startup", "watchdog", "client"}
Roles    == Runners \cup {"stop"}

\* A scenario: the gateways, those of them whose adapter is MeshtasticClient
\* (the others are MeshCore), the tasks for events, and what the environment
\* may do.
ASSUME ScenariosAssumption ==
  Scenarios \subseteq [gateways : SUBSET GatewayIds, meshtastic : SUBSET GatewayIds,
                      slots : SUBSET EventTasks, faults : SUBSET FaultKinds]
ASSUME ReloadsAssumption == MaxReloads \in Nat
ASSUME TasksAssumption   == EventTasks \cap Roles = {}
ASSUME NoneAssumption ==
  None \notin GatewayIds \cup EventTasks \cup Roles \cup [prev : BOOLEAN, gen : 1..(MaxReloads + 1)]

VARIABLES
  shutting,   \* _shutting_down
  suspended,  \* _reconnect_suspended
  generation, \* _gateway_generation
  life,       \* where async_reload_gateways or async_shutdown is
  drained,    \* whether all it waited for so far has ended in time
  stopped,    \* gateways it has stopped
  connected,  \* status.connected of each adapter
  link,       \* its interface: "none", "up" or "lost"
  owner,      \* the start that published the interface
  epoch,      \* the start that may publish: the newest, None when stopping
  attempt,    \* where the start each runner makes is, and the stop
  known,      \* _gateway_connected_states
  told,       \* history: what the last gateway event said
  repeated,   \* history: gateways of which an event repeated the one before
  missed,     \* history: gateways whose last report of being down scheduled no
              \* watchdog, because a cancelled or finished one was registered
  callback,   \* status callbacks that wait for their flush: what they captured
  startup,    \* where _gateway_startup_task is
  joined,     \* what the start of each gateway returned to the startup
  cancelled,  \* tasks whose cancellation has yet to reach them
  watchdog,   \* where the task in _reconnect_tasks is
  scenario    \* the situation, chosen at the start and never changed

Gateways   == scenario.gateways
Meshtastic == scenario.meshtastic
Slots      == scenario.slots
Faults     == scenario.faults

\* Where a status callback may run.
Contexts == Runners \cup Slots

lifecycle == <<shutting, suspended, generation, life, drained, stopped>>
adapter   == <<connected, link, owner, epoch, attempt>>
news      == <<known, told, repeated, missed>>
events    == <<news, callback>>
tasks     == <<startup, joined, cancelled, watchdog>>
system    == <<lifecycle, adapter, events, tasks>>
vars      == <<system, scenario>>

-----------------------------------------------------------------------------
(* Helpers *)

\* Mutated form: the generation is not compared.
CurrentIgnoringGeneration(n) == ~shutting /\ ~suspended

\* _gateway_callback_is_current.
Current(n) == ~shutting /\ ~suspended /\ n = generation
Fenced == shutting \/ suspended

\* A start of a Meshtastic adapter runs in the adapter's own task.
Runner(g, caller) == IF g \in Meshtastic THEN "client" ELSE caller

\* MeshtasticClient.start_pending; MeshCore adapters have no such attribute.
StartPending(g) == g \in Meshtastic /\ attempt[g]["client"] \notin {"none", "late"}

WatchdogTask(g) == <<"watchdog", g>>
StartupTask == <<"startup", None>>
Cancelled(t) == t \in cancelled

\* A registered watchdog that has not finished; one that runs at pc.
Alive(g) == watchdog[g] \notin {"none", "ended"}
WatchdogAt(g, pc) == watchdog[g] = pc /\ ~Cancelled(WatchdogTask(g))
WatchdogGo(g, pc) == watchdog' = [watchdog EXCEPT ![g] = pc]

\* A runner that has been cancelled takes no further step of its start.
Runs(g, r) ==
  /\ r = "startup"  => ~Cancelled(StartupTask)
  /\ r = "watchdog" => ~Cancelled(WatchdogTask(g))

\* Mutated form: a lost gateway is left to whatever comes next.
ScheduleNever(w, g) == w

\* _schedule_reconnect on watchdogs w: one task a gateway, none behind a fence.
Schedule(w, g) ==
  IF ~Fenced /\ w[g] = "none" THEN [w EXCEPT ![g] = "head"] ELSE w

\* Mutated form: the state remembered is the one before the flush.
ConcludeWithStale(g, prev) ==
  /\ known' = [known EXCEPT ![g] = connected[g]]
  /\ told'  = [told EXCEPT ![g] = IF prev # TRUE THEN TRUE ELSE @]
  /\ UNCHANGED <<repeated, missed>>

\* The part of _handle_gateway_status after the flush: compare the live status
\* with what was captured before, remember it, tell it if it changed.
Conclude(g, prev) ==
  /\ known' = [known EXCEPT ![g] = connected[g]]
  /\ told'  = [told EXCEPT ![g] = IF prev # connected[g] THEN connected[g] ELSE @]
  /\ repeated' = IF prev # connected[g] /\ told[g] = connected[g]
                   THEN repeated \cup {g} ELSE repeated
  /\ UNCHANGED missed

\* What the callback that context c runs does after its flush: nothing, when it
\* is not current any more.
ConcludeIn(g, c) ==
  /\ callback' = [callback EXCEPT ![g][c] = None]
  /\ IF callback[g][c] # None /\ Current(callback[g][c].gen)
       THEN Conclude(g, callback[g][c].prev)
       ELSE UNCHANGED news

\* A connected status cancels the watchdog, unless it runs in it.
CancelWatchdog(g, c) ==
  IF Alive(g) /\ c # "watchdog" THEN cancelled \cup {WatchdogTask(g)} ELSE cancelled

\* The adapter reports that it is connected, from context c: its watchdog is
\* cancelled and the callback waits for its flush.
ReportUp(g, c) ==
  /\ connected' = [connected EXCEPT ![g] = TRUE]
  /\ callback' = IF Fenced THEN callback
       ELSE [callback EXCEPT ![g][c] = [prev |-> known[g], gen |-> generation]]
  /\ cancelled' = IF Fenced THEN cancelled ELSE CancelWatchdog(g, c)

\* A watchdog that has been cancelled or has finished stays registered until its
\* done callback runs: till then _schedule_reconnect returns early.
Expiring(g) == watchdog[g] = "ended" \/ Cancelled(WatchdogTask(g))

\* The callback of a status that is not connected has no await; its event goes
\* out when the remembered state was "connected".
TellDown(g) ==
  IF Fenced THEN UNCHANGED news
  ELSE /\ known' = [known EXCEPT ![g] = FALSE]
       /\ told' = [told EXCEPT ![g] = IF known[g] THEN FALSE ELSE @]
       /\ repeated' = IF known[g] /\ ~told[g] THEN repeated \cup {g} ELSE repeated
       /\ missed' = IF Expiring(g) THEN missed \cup {g} ELSE missed \ {g}

\* The adapter reports that it is not connected; w are the watchdogs so far.
ReportDown(g, w) ==
  /\ connected' = [connected EXCEPT ![g] = FALSE]
  /\ TellDown(g)
  /\ watchdog' = Schedule(w, g)

-----------------------------------------------------------------------------
(* Adapters: async_start *)

\* Task "caller" calls async_start on the gateways of S: a Meshtastic start
\* that is under way is joined (once a stop is over), a MeshCore start is a new
\* epoch.
CallStart(S, caller) ==
  /\ \A g \in S \cap Meshtastic : attempt[g]["stop"] = "none"
  /\ epoch' = [g \in Gateways |-> IF g \in S THEN Runner(g, caller) ELSE epoch[g]]
  /\ attempt' = [g \in Gateways |->
       IF g \in S /\ attempt[g][Runner(g, caller)] \in {"none", "late"}
         THEN [attempt[g] EXCEPT ![Runner(g, caller)] = "opening"] ELSE attempt[g]]

\* The start that r runs is over: those who wait for it get its result.  A
\* Meshtastic start that returns behind a stop has its interface closed later.
Return(g, r, result) ==
  /\ attempt' = [attempt EXCEPT ![g][r] =
       IF r = "client" /\ epoch[g] = None /\ link[g] # "none" THEN "late" ELSE "none"]
  /\ joined' = IF r # "watchdog" /\ startup = "starting" /\ joined[g] = "waiting"
                 THEN [joined EXCEPT ![g] = result] ELSE joined

\* Where the watchdog goes on when the start that r ran is over.
WatchdogReturn(g, r, result) ==
  IF r = "startup" \/ Cancelled(WatchdogTask(g)) THEN watchdog
  ELSE CASE watchdog[g] = "joining"  -> [watchdog EXCEPT ![g] = "head"]
         [] watchdog[g] = "starting" -> [watchdog EXCEPT ![g] = result]
         [] OTHER                    -> watchdog

\* The endpoint cannot be opened: the error is reported, unless the start is no
\* longer current.
OpenFails(g, r) ==
  /\ "refuse" \in Faults
  /\ attempt[g][r] = "opening" /\ Runs(g, r)
  /\ LET result == IF g \in Meshtastic \/ epoch[g] = r THEN "failed" ELSE "ok"
     IN /\ Return(g, r, result)
        /\ IF epoch[g] = r /\ ~connected[g]
             THEN /\ TellDown(g)
                  /\ watchdog' = Schedule(WatchdogReturn(g, r, result), g)
             ELSE /\ watchdog' = WatchdogReturn(g, r, result)
                  /\ UNCHANGED news
  /\ UNCHANGED <<scenario, lifecycle, connected, link, owner, epoch, callback,
                 startup, cancelled>>

\* _lifecycle_is_current, or not _stopping.
MayPublish(g, r) == epoch[g] = r

\* The endpoint is open: publish the interface and report it, or close it when
\* the start is no longer current.
Open(g, r) ==
  /\ attempt[g][r] = "opening" /\ Runs(g, r)
  /\ IF MayPublish(g, r)
       THEN /\ attempt' = [attempt EXCEPT ![g][r] = "announce"]
            /\ link' = [link EXCEPT ![g] = "up"]
            /\ owner' = [owner EXCEPT ![g] = r]
            /\ ReportUp(g, r)
            /\ UNCHANGED <<joined, watchdog>>
       ELSE /\ Return(g, r, "ok")
            /\ watchdog' = WatchdogReturn(g, r, "ok")
            /\ UNCHANGED <<connected, link, owner, callback, cancelled>>
  /\ UNCHANGED <<scenario, lifecycle, epoch, news, startup>>

\* The connected callback returned: refresh the nodes, or return when the
\* start is no longer current (whoever stopped it owns the interface).
Announced(g, r) ==
  /\ attempt[g][r] = "announce" /\ Runs(g, r)
  /\ ConcludeIn(g, r)
  /\ IF epoch[g] = r
       THEN /\ attempt' = [attempt EXCEPT ![g][r] = "refresh"]
            /\ UNCHANGED <<joined, watchdog>>
       ELSE /\ Return(g, r, "ok")
            /\ watchdog' = WatchdogReturn(g, r, "ok")
  /\ UNCHANGED <<scenario, lifecycle, connected, link, owner, epoch, startup,
                 cancelled>>

Refreshed(g, r) ==
  /\ attempt[g][r] = "refresh" /\ Runs(g, r)
  /\ Return(g, r, "ok")
  /\ watchdog' = WatchdogReturn(g, r, "ok")
  /\ UNCHANGED <<scenario, lifecycle, connected, link, owner, epoch, events, startup,
                 cancelled>>

\* MeshtasticClient: the refresh at the end of a start raises; the interface is
\* closed and the status is left as it is.
RefreshFails(g) ==
  /\ "refresh" \in Faults
  /\ g \in Meshtastic /\ attempt[g]["client"] = "refresh"
  /\ link' = [link EXCEPT ![g] = "none"]
  /\ owner' = [owner EXCEPT ![g] = None]
  /\ Return(g, "client", "failed")
  /\ watchdog' = WatchdogReturn(g, "client", "failed")
  /\ UNCHANGED <<scenario, lifecycle, connected, epoch, events, startup, cancelled>>

\* A cancelled caller: a MeshCore start closes the interface it published and a
\* MeshCore stop ends where it is, while a Meshtastic one goes on alone ...
Discard(g, r, stopping) ==
  /\ attempt' = [attempt EXCEPT
       ![g][r] = IF @ \in {"announce", "refresh"} /\ owner[g] = r THEN "undo" ELSE "none",
       ![g]["stop"] = IF stopping /\ g \notin Meshtastic THEN "none" ELSE @]
  /\ callback' = [callback EXCEPT ![g][r] = None]
  /\ IF attempt[g][r] # "none" /\ owner[g] = r
       THEN /\ link' = [link EXCEPT ![g] = "none"]
            /\ owner' = [owner EXCEPT ![g] = None]
       ELSE UNCHANGED <<link, owner>>

\* ... and then reports the gateway as not connected, in the same task.
Undone(g, r) ==
  /\ attempt[g][r] = "undo"
  /\ attempt' = [attempt EXCEPT ![g][r] = "none"]
  /\ IF connected[g]
       THEN ReportDown(g, watchdog)
       ELSE UNCHANGED <<connected, news, watchdog>>
  /\ UNCHANGED <<scenario, lifecycle, link, owner, epoch, callback, startup, joined,
                 cancelled>>

-----------------------------------------------------------------------------
(* Adapters: async_stop *)

\* async_stop is called: nothing may be published from here on.
CallStop(g) ==
  /\ epoch' = [epoch EXCEPT ![g] = None]
  /\ attempt' = [attempt EXCEPT ![g]["stop"] = "closing"]

\* The stop is over: the interface is closed and the status says so.  A
\* Meshtastic stop waits for a start under way, but only so long.
StopDone(g) ==
  /\ attempt[g]["stop"] = "closing"
  /\ StartPending(g) => "stubborn" \in Faults
  /\ attempt' = [attempt EXCEPT ![g]["stop"] = "none"]
  /\ link' = [link EXCEPT ![g] = "none"]
  /\ owner' = [owner EXCEPT ![g] = None]
  /\ stopped' = IF life = "stopping" THEN stopped \cup {g} ELSE stopped
  /\ ReportDown(g, IF WatchdogAt(g, "stopping")
                     THEN [watchdog EXCEPT ![g] = "stopped"] ELSE watchdog)
  /\ UNCHANGED <<scenario, shutting, suspended, generation, life, drained, epoch,
                 callback, startup, joined, cancelled>>

\* The stop raises (Meshtastic Bluetooth: a start, an operation or the GATT
\* teardown did not end in time) and the interface stays.  A shutdown goes on,
\* a reload gives up.
StopRaises(g) ==
  /\ "raise" \in Faults /\ g \in Meshtastic
  /\ attempt[g]["stop"] = "closing"
  /\ attempt' = [attempt EXCEPT ![g]["stop"] = "none"]
  /\ watchdog' = IF WatchdogAt(g, "stopping")
                   THEN [watchdog EXCEPT ![g] = "failed"] ELSE watchdog
  /\ IF life # "stopping" THEN UNCHANGED <<suspended, life, stopped>>
     ELSE IF shutting
       THEN stopped' = stopped \cup {g} /\ UNCHANGED <<suspended, life>>
       ELSE suspended' = FALSE /\ life' = "run" /\ stopped' = {}
  /\ UNCHANGED <<scenario, shutting, generation, drained, connected, link, owner,
                 epoch, events, startup, joined, cancelled>>

\* _async_cleanup_after_late_start: what a start left behind a stop is closed,
\* without a report, unless the adapter has been started again.
LateCleanup(g) ==
  /\ attempt[g]["client"] = "late"
  /\ attempt' = [attempt EXCEPT ![g]["client"] = "none"]
  /\ IF epoch[g] = None
       THEN link' = [link EXCEPT ![g] = "none"] /\ owner' = [owner EXCEPT ![g] = None]
       ELSE UNCHANGED <<link, owner>>
  /\ UNCHANGED <<scenario, lifecycle, connected, epoch, events, tasks>>

-----------------------------------------------------------------------------
(* Provider events, each in a task of its own *)

\* An interface whose handlers are attached.
Attached(g) == owner[g] # None /\ epoch[g] = owner[g]

\* The link is lost and the adapter reports it.
Lose(g) ==
  /\ "loss" \in Faults
  /\ Attached(g) /\ link[g] = "up" /\ connected[g]
  /\ link' = [link EXCEPT ![g] = "lost"]
  /\ ReportDown(g, watchdog)
  /\ UNCHANGED <<scenario, lifecycle, owner, epoch, attempt, callback, startup,
                 joined, cancelled>>

\* The adapter restores the link on its own (BLE supervisor, SDK reconnect).
Restore(g, c) ==
  /\ "return" \in Faults
  /\ Attached(g) /\ link[g] = "lost" /\ callback[g][c] = None
  /\ link' = [link EXCEPT ![g] = "up"]
  /\ ReportUp(g, c)
  /\ UNCHANGED <<scenario, lifecycle, owner, epoch, attempt, news, startup, joined,
                 watchdog>>

\* A packet, or an error of a connected adapter, makes it report its status.
Traffic(g, c) ==
  /\ "traffic" \in Faults
  /\ Attached(g) /\ link[g] = "up" /\ connected[g] /\ callback[g][c] = None
  /\ ReportUp(g, c)
  /\ UNCHANGED <<scenario, lifecycle, link, owner, epoch, attempt, news, startup,
                 joined, watchdog>>

\* The flush of such a callback is over.
EventConcluded(g, c) ==
  /\ callback[g][c] # None
  /\ ConcludeIn(g, c)
  /\ UNCHANGED <<scenario, lifecycle, adapter, tasks>>

-----------------------------------------------------------------------------
(* The reconnect watchdog: _delayed_reconnect *)

\* Head of the loop: nothing to do, a start to join, or a delay.
WatchdogHead(g) ==
  /\ WatchdogAt(g, "head")
  /\ \/ /\ Fenced \/ connected[g]
        /\ WatchdogGo(g, "ended")
        /\ UNCHANGED <<epoch, attempt>>
     \/ /\ ~Fenced /\ ~connected[g] /\ StartPending(g)
        /\ WatchdogGo(g, "joining")
        /\ CallStart({g}, "watchdog")
     \/ /\ ~Fenced /\ ~connected[g] /\ ~StartPending(g)
        /\ WatchdogGo(g, "sleep")
        /\ UNCHANGED <<epoch, attempt>>
  /\ UNCHANGED <<scenario, lifecycle, connected, link, owner, events, startup, joined,
                 cancelled>>

\* The delay is over: look again, and stop the adapter before starting it.
WatchdogWake(g) ==
  /\ WatchdogAt(g, "sleep")
  /\ \/ /\ Fenced \/ connected[g]
        /\ WatchdogGo(g, "ended")
        /\ UNCHANGED <<epoch, attempt>>
     \/ /\ ~Fenced /\ ~connected[g] /\ StartPending(g)
        /\ WatchdogGo(g, "head")
        /\ UNCHANGED <<epoch, attempt>>
     \/ /\ ~Fenced /\ ~connected[g] /\ ~StartPending(g)
        /\ WatchdogGo(g, "stopping")
        /\ CallStop(g)
  /\ UNCHANGED <<scenario, lifecycle, connected, link, owner, events, startup, joined,
                 cancelled>>

\* Mutated form: the fence is not looked at after the stop.
NeverStopsHere == FALSE

\* The fence is up when the stop returns.
StopsHere == Fenced

\* The stop has returned: start the adapter, unless the fence went up meanwhile.
WatchdogStart(g) ==
  /\ WatchdogAt(g, "stopped")
  /\ IF StopsHere
       THEN /\ WatchdogGo(g, "ended")
            /\ UNCHANGED <<epoch, attempt>>
       ELSE /\ WatchdogGo(g, "starting")
            /\ CallStart({g}, "watchdog")
  /\ UNCHANGED <<scenario, lifecycle, connected, link, owner, events, startup, joined,
                 cancelled>>

\* The stop or the start raised: report it (a gateway that says it is connected
\* runs its flush), then look at the status.
WatchdogFailed(g) ==
  /\ WatchdogAt(g, "failed")
  /\ \/ Fenced /\ WatchdogGo(g, "ended") /\ UNCHANGED events
     \/ /\ ~Fenced /\ ~connected[g]
        /\ WatchdogGo(g, "head")
        /\ TellDown(g)
        /\ UNCHANGED callback
     \/ /\ ~Fenced /\ connected[g]
        /\ WatchdogGo(g, "error")
        /\ callback' = [callback EXCEPT ![g]["watchdog"] =
                          [prev |-> known[g], gen |-> generation]]
        /\ UNCHANGED news
  /\ UNCHANGED <<scenario, lifecycle, adapter, startup, joined, cancelled>>

\* The start returned, or the report of its error did.
WatchdogLooks(g) ==
  /\ WatchdogAt(g, "ok") \/ WatchdogAt(g, "error")
  /\ ConcludeIn(g, "watchdog")
  /\ WatchdogGo(g, IF connected[g] THEN "ended" ELSE "head")
  /\ UNCHANGED <<scenario, lifecycle, adapter, startup, joined, cancelled>>

\* A cancellation reaches the watchdog: a MeshCore start it runs is undone, a
\* Meshtastic start or stop goes on without it.
WatchdogUnwinds(g) ==
  /\ Cancelled(WatchdogTask(g)) /\ Alive(g) /\ watchdog[g] # "unwinding"
  /\ WatchdogGo(g, "unwinding")
  /\ Discard(g, "watchdog", watchdog[g] = "stopping")
  /\ UNCHANGED <<scenario, lifecycle, connected, epoch, news, startup, joined,
                 cancelled>>

WatchdogUnwound(g) ==
  /\ watchdog[g] = "unwinding" /\ attempt[g]["watchdog"] = "none"
  /\ WatchdogGo(g, "ended")
  /\ UNCHANGED <<scenario, lifecycle, adapter, events, startup, joined, cancelled>>

\* The done callback of the task clears its registration.
WatchdogCleared(g) ==
  /\ watchdog[g] = "ended"
  /\ WatchdogGo(g, "none")
  /\ cancelled' = cancelled \ {WatchdogTask(g)}
  /\ UNCHANGED <<scenario, lifecycle, adapter, events, startup, joined>>

-----------------------------------------------------------------------------
(* Startup: async_start_gateways *)

\* The task begins: all gateways are started at once.
StartupBegins ==
  /\ startup = "created" /\ ~Cancelled(StartupTask)
  /\ IF shutting
       THEN startup' = "none" /\ UNCHANGED <<epoch, attempt, joined>>
       ELSE /\ startup' = "starting"
            /\ joined' = [g \in Gateways |-> "waiting"]
            /\ CallStart(Gateways, "startup")
  /\ UNCHANGED <<scenario, lifecycle, connected, link, owner, events, cancelled,
                 watchdog>>

\* All starts have returned: a gateway whose start raised gets a watchdog.
StartupGathered ==
  /\ startup = "starting" /\ ~Cancelled(StartupTask)
  /\ \A g \in Gateways : joined[g] # "waiting"
  /\ startup' = IF shutting THEN "none" ELSE "flush"
  /\ joined' = [g \in Gateways |-> "idle"]
  /\ watchdog' = [g \in Gateways |->
       IF joined[g] = "failed" THEN Schedule(watchdog, g)[g] ELSE watchdog[g]]
  /\ UNCHANGED <<scenario, lifecycle, adapter, events, cancelled>>

\* The outbox has been flushed and the maintenance scheduler started.
StartupFlushed ==
  /\ startup = "flush" /\ ~Cancelled(StartupTask)
  /\ startup' = "none"
  /\ UNCHANGED <<scenario, lifecycle, adapter, events, joined, cancelled, watchdog>>

\* A cancellation reaches the startup task and the starts it gathers.
StartupUnwinds ==
  /\ Cancelled(StartupTask) /\ startup \in {"created", "starting", "flush"}
  /\ startup' = "unwinding"
  /\ joined' = [g \in Gateways |-> "idle"]
  /\ LET Published(g) == owner[g] = "startup" /\ attempt[g]["startup"] # "none"
     IN /\ attempt' = [g \in Gateways |-> [attempt[g] EXCEPT !["startup"] =
             IF Published(g) THEN "undo" ELSE "none"]]
        /\ link' = [g \in Gateways |-> IF Published(g) THEN "none" ELSE link[g]]
        /\ owner' = [g \in Gateways |-> IF Published(g) THEN None ELSE owner[g]]
  /\ callback' = [g \in Gateways |-> [callback[g] EXCEPT !["startup"] = None]]
  /\ UNCHANGED <<scenario, lifecycle, connected, epoch, news, cancelled, watchdog>>

StartupUnwound ==
  /\ startup = "unwinding" /\ \A g \in Gateways : attempt[g]["startup"] = "none"
  /\ startup' = "none"
  /\ cancelled' = cancelled \ {StartupTask}
  /\ UNCHANGED <<scenario, lifecycle, adapter, events, joined, watchdog>>

-----------------------------------------------------------------------------
(* Reload and shutdown *)

\* Both raise the fence and wait for radio operations and settings first.
BeginReload ==
  /\ "reload" \in Faults
  /\ life = "run" /\ ~Fenced /\ generation <= MaxReloads
  /\ suspended' = TRUE /\ life' = "quiesce" /\ drained' = TRUE
  /\ UNCHANGED <<scenario, shutting, generation, stopped, adapter, events, tasks>>

BeginShutdown ==
  /\ "shutdown" \in Faults
  /\ life = "run" /\ ~shutting
  /\ shutting' = TRUE /\ suspended' = TRUE /\ life' = "quiesce" /\ drained' = TRUE
  /\ UNCHANGED <<scenario, generation, stopped, adapter, events, tasks>>

\* Whether all that a fence waits for beside its tasks has ended in time.
Outcome == IF "busy" \in Faults THEN {drained, FALSE} ELSE {drained}

Quiesced ==
  /\ life = "quiesce" /\ life' = "startup"
  /\ drained' \in Outcome
  /\ cancelled' = IF startup = "none" THEN cancelled ELSE cancelled \cup {StartupTask}
  /\ UNCHANGED <<scenario, shutting, suspended, generation, stopped, adapter, events,
                 startup, joined, watchdog>>

\* The startup task has ended, or its bound has passed.
StartupDrained ==
  /\ life = "startup" /\ life' = "watchdogs"
  /\ \/ startup = "none" /\ UNCHANGED drained
     \/ "stubborn" \in Faults /\ startup # "none" /\ drained' = FALSE
  /\ cancelled' = cancelled \cup {WatchdogTask(g) : g \in {h \in Gateways : Alive(h)}}
  /\ UNCHANGED <<scenario, shutting, suspended, generation, stopped, adapter, events,
                 startup, joined, watchdog>>

\* A shutdown goes on behind its fences, a reload only when all has ended.
GoesOn(all) == shutting \/ all

\* The watchdogs have ended and are taken out of the registry, or their bound has
\* passed; so have the flush and the direct sends.  A deferred reload lowers the
\* fence and starts nothing.
WatchdogsDrained ==
  /\ life = "watchdogs"
  /\ \/ (\A g \in Gateways : ~Alive(g)) /\ drained' \in Outcome
     \/ "stubborn" \in Faults /\ (\E g \in Gateways : Alive(g)) /\ drained' = FALSE
  /\ IF GoesOn(drained')
       THEN life' = "stopping" /\ UNCHANGED suspended
       ELSE life' = "run" /\ suspended' = FALSE
  /\ watchdog' = [g \in Gateways |-> IF Alive(g) THEN watchdog[g] ELSE "none"]
  /\ cancelled' = cancelled \ {WatchdogTask(g) : g \in {h \in Gateways : ~Alive(h)}}
  /\ UNCHANGED <<scenario, shutting, generation, stopped, adapter, events, startup,
                 joined>>

\* Mutated form: a gateway that is not connected is not stopped.
StopNextConnected(g) ==
  /\ life = "stopping" /\ g \notin stopped
  /\ \A h \in Gateways : attempt[h]["stop"] = "none"
  /\ IF connected[g]
       THEN CallStop(g) /\ UNCHANGED stopped
       ELSE stopped' = stopped \cup {g} /\ UNCHANGED <<epoch, attempt>>
  /\ UNCHANGED <<scenario, shutting, suspended, generation, life, drained, connected,
                 link, owner, events, tasks>>

\* The gateways are stopped one after the other.
StopNext(g) ==
  /\ life = "stopping" /\ g \notin stopped
  /\ \A h \in Gateways : attempt[h]["stop"] = "none"
  /\ CallStop(g)
  /\ UNCHANGED <<scenario, lifecycle, connected, link, owner, events, tasks>>

\* _rebuild_gateways: a new generation of adapters, with nothing remembered.
\* (A Meshtastic constructor that outlived the stop of the old adapter closes
\* its own result.)
FinishReload ==
  /\ life = "stopping" /\ stopped = Gateways /\ ~shutting
  /\ generation' = generation + 1
  /\ suspended' = FALSE /\ life' = "run" /\ stopped' = {}
  /\ connected' = [g \in Gateways |-> FALSE]
  /\ link' = [g \in Gateways |-> "none"]
  /\ owner' = [g \in Gateways |-> None]
  /\ epoch' = [g \in Gateways |-> None]
  /\ attempt' = [g \in Gateways |-> [r \in Roles |-> "none"]]
  /\ known' = [g \in Gateways |-> FALSE]
  /\ told' = [g \in Gateways |-> FALSE]
  /\ missed' = {}
  /\ startup' = "created"
  /\ UNCHANGED <<scenario, shutting, drained, repeated, callback, joined, cancelled,
                 watchdog>>

FinishShutdown ==
  /\ life = "stopping" /\ stopped = Gateways /\ shutting
  /\ life' = "closed"
  /\ UNCHANGED <<scenario, shutting, suspended, generation, drained, stopped, adapter,
                 events, tasks>>

-----------------------------------------------------------------------------
(* Specification *)

\* Config-entry setup has built the gateways and created the startup task.
Init ==
  /\ scenario \in Scenarios
  /\ shutting = FALSE /\ suspended = FALSE /\ generation = 1
  /\ life = "run" /\ drained = TRUE /\ stopped = {}
  /\ connected = [g \in Gateways |-> FALSE]
  /\ link = [g \in Gateways |-> "none"]
  /\ owner = [g \in Gateways |-> None]
  /\ epoch = [g \in Gateways |-> None]
  /\ attempt = [g \in Gateways |-> [r \in Roles |-> "none"]]
  /\ known = [g \in Gateways |-> FALSE]
  /\ told = [g \in Gateways |-> FALSE]
  /\ repeated = {} /\ missed = {}
  /\ callback = [g \in Gateways |-> [c \in Contexts |-> None]]
  /\ startup = "created"
  /\ joined = [g \in Gateways |-> "idle"]
  /\ cancelled = {}
  /\ watchdog = [g \in Gateways |-> "none"]

StartStep(g, r) ==
  OpenFails(g, r) \/ Open(g, r) \/ Announced(g, r) \/ Refreshed(g, r) \/ Undone(g, r)

WatchdogStep(g) ==
  \/ WatchdogHead(g) \/ WatchdogWake(g) \/ WatchdogStart(g) \/ WatchdogFailed(g)
  \/ WatchdogLooks(g) \/ WatchdogUnwinds(g) \/ WatchdogUnwound(g) \/ WatchdogCleared(g)

StartupStep == \/ StartupBegins \/ StartupGathered \/ StartupFlushed
               \/ StartupUnwinds \/ StartupUnwound

LifeStep == \/ Quiesced \/ StartupDrained \/ WatchdogsDrained
            \/ FinishReload \/ FinishShutdown

Next ==
  \/ \E g \in Gateways :
       \/ \E r \in Runners : StartStep(g, r)
       \/ RefreshFails(g) \/ StopDone(g) \/ StopRaises(g) \/ LateCleanup(g)
       \/ WatchdogStep(g) \/ StopNext(g) \/ Lose(g)
       \/ \E c \in Slots : Restore(g, c) \/ Traffic(g, c) \/ EventConcluded(g, c)
  \/ StartupStep \/ LifeStep \/ BeginReload \/ BeginShutdown

Spec == Init /\ [][Next]_vars

\* The event loop runs every task that is ready and every wait has a bound
\* (connect deadlines, _STOP_WAIT_TIMEOUT, _GATEWAY_TASK_CANCEL_TIMEOUT); a
\* radio that is tried for ever answers some time.
Fairness ==
  /\ \A g \in GatewayIds :
       /\ \A r \in Runners : /\ WF_vars(g \in Gateways /\ StartStep(g, r))
                             /\ SF_vars(g \in Gateways /\ Open(g, r))
       /\ WF_vars(g \in Gateways /\ (StopDone(g) \/ StopRaises(g)))
       /\ WF_vars(g \in Gateways /\ LateCleanup(g))
       /\ WF_vars(g \in Gateways /\ WatchdogStep(g))
       /\ WF_vars(g \in Gateways /\ StopNext(g))
       /\ \A c \in EventTasks :
            WF_vars(g \in Gateways /\ c \in Slots /\ EventConcluded(g, c))
  /\ WF_vars(StartupStep) /\ WF_vars(LifeStep)

FairSpec == Spec /\ Fairness

-----------------------------------------------------------------------------
(* Invariants *)

\* Type invariant.
TypeOK ==
  /\ scenario \in Scenarios
  /\ shutting \in BOOLEAN /\ suspended \in BOOLEAN /\ drained \in BOOLEAN
  /\ generation \in 1..(MaxReloads + 1)
  /\ life \in {"run", "quiesce", "startup", "watchdogs", "stopping", "closed"}
  /\ stopped \subseteq Gateways
  /\ connected \in [Gateways -> BOOLEAN]
  /\ link \in [Gateways -> {"none", "up", "lost"}]
  /\ owner \in [Gateways -> Runners \cup {None}]
  /\ epoch \in [Gateways -> Runners \cup {None}]
  /\ attempt \in [Gateways -> [Roles ->
       {"none", "opening", "announce", "refresh", "undo", "late", "closing"}]]
  /\ known \in [Gateways -> BOOLEAN] /\ told \in [Gateways -> BOOLEAN]
  /\ repeated \subseteq Gateways /\ missed \subseteq Gateways
  /\ callback \in [Gateways -> [Contexts ->
       {None} \cup [prev: BOOLEAN, gen: 1..(MaxReloads + 1)]]]
  /\ startup \in {"none", "created", "starting", "flush", "unwinding"}
  /\ joined \in [Gateways -> {"idle", "waiting", "ok", "failed"}]
  /\ cancelled \subseteq {StartupTask} \cup {WatchdogTask(g) : g \in Gateways}
  /\ watchdog \in [Gateways -> {"none", "head", "joining", "sleep", "stopping",
       "stopped", "starting", "ok", "failed", "error", "unwinding", "ended"}]

\* Nothing is under way for gateway g: no startup, reload, start or callback.
Quiet(g) ==
  /\ life = "run" /\ ~Fenced /\ startup = "none"
  /\ \A c \in Contexts : callback[g][c] = None
  /\ \A r \in Roles : attempt[g][r] = "none"

\* Nothing in the scenario makes a reload give up.
ReloadsComplete == "reload" \in Faults => Faults \cap {"busy", "stubborn", "raise"} = {}

\* A gateway that is down with nothing under way for it has a live watchdog
\* that nobody has cancelled.
WatchdogLives(g) ==
  Quiet(g) /\ ~connected[g] => Alive(g) /\ ~Cancelled(WatchdogTask(g))

\* A gateway that is down and that no watchdog will start: its last report found
\* a cancelled or finished watchdog registered, so that _schedule_reconnect made
\* no new one, and that watchdog is going or gone.
Forgotten(g) ==
  ~connected[g] /\ g \in missed /\ (Expiring(g) \/ watchdog[g] = "none")

\* Nothing else leaves a gateway without a watchdog, whatever is refused, lost,
\* restored or raised, in whichever task (_handle_gateway_status,
\* _start_gateways).  A deferred reload does, which cancels the watchdogs first.
Watched ==
  ReloadsComplete => \A g \in Gateways : WatchdogLives(g) \/ Forgotten(g)

\* With nothing under way, what the last event said is what the status says:
\* overlapping callbacks may repeat an event, they never leave the wrong one
\* last (_handle_gateway_status reads the live status after its flush).  What an
\* adapter reports behind the fence of a reload that is then deferred is lost.
EventsConverge ==
  ReloadsComplete =>
    \A g \in Gateways : Quiet(g) => told[g] = connected[g] /\ known[g] = connected[g]

\* Once async_shutdown is over no gateway says it is connected and no interface
\* that a start has published is left, whatever starts, watchdogs and waits that
\* ran out were under way; unless a stop has raised, which the shutdown only logs.
NothingLeaks ==
  life = "closed" /\ "raise" \notin Faults =>
    \A g \in Gateways : ~connected[g] /\ link[g] = "none"

-----------------------------------------------------------------------------
(* Action properties *)

\* An adapter never publishes an interface over one that it has not closed,
\* whoever starts it: startup, watchdog or both at once (stop before start,
\* lifecycle epochs).  This is about MeshCoreClient.  Every start of a
\* MeshtasticClient runs in one task, so that its interface has one owner.
OneInterface ==
  [][\A g \in Gateways :
       owner'[g] # owner[g] /\ owner'[g] # None => link[g] = "none"]_vars

\* Once async_shutdown has begun nothing begins a start.
NoStartAfterShutdown ==
  [][\A g \in Gateways, r \in Runners :
       shutting /\ attempt[g][r] # "opening" => attempt'[g][r] # "opening"]_vars

\* What a callback of an older generation captured never reaches the state or
\* the events of the gateways that replaced it.
OldCallbacksAreSilent ==
  [][\A g \in Gateways, c \in Slots :
       callback[g][c] # None /\ callback'[g][c] = None =>
         callback[g][c].gen = generation \/ UNCHANGED <<known, told>>]_vars

-----------------------------------------------------------------------------
(* Liveness *)

\* Where only the radios misbehave, refused, lost, restored and heard in any
\* order, a gateway is connected again and again, or ends forgotten (see
\* WatchdogAfterLoss): a report that it is down schedules a watchdog, unless a
\* cancelled or finished one is still registered (_schedule_reconnect), and every
\* watchdog goes on until the gateway is connected or it is cancelled.
Recovers ==
  Faults \subseteq {"refuse", "loss", "return", "traffic"} =>
    \A g \in GatewayIds : []<>(g \in Gateways => connected[g] \/ Forgotten(g))

-----------------------------------------------------------------------------
(* What the documents of the repository say, which the code does not do *)

\* docs/ARCHITECTURE.md:126: the coordinator "schedules its single-flight,
\* jittered stop-before-start watchdog after either an initial failure or a
\* connected-status loss": a gateway that is down is watched.
WatchdogAfterLoss == \A g \in Gateways : WatchdogLives(g)

\* docs/USAGE.md:563: the event is fired when "a gateway connection or failure
\* state really changes": it never repeats the one before.
RealChangesOnly == repeated = {}

\* docs/ADVANCED_MESH_OPERATIONS.md:551: the connectivity sensor of a gateway
\* "is off when that adapter is disconnected".
SensorIsOff ==
  \A g \in Gateways : Quiet(g) /\ connected[g] => link[g] = "up"

=============================================================================
