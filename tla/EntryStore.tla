----------------------------- MODULE EntryStore -----------------------------
(***************************************************************************)
(* The config entry of MeshNet and the SQLite store of its coordinator, on *)
(* top of the options that module OptionsFlow writes.  Home Assistant sets *)
(* the entry up, unloads it and reloads it, one at a time; every setup     *)
(* makes a new coordinator with a store of its own.  A store has one       *)
(* connection, used by executor threads; a lock, first come first served,  *)
(* gives it to one operation at a time, and the operation keeps it until   *)
(* its thread is done even when nobody waits for it any more.              *)
(***************************************************************************)
EXTENDS OptionsFlow, Sequences

CONSTANTS
  MaxSetups,          \* bound: coordinators made
  Jobs                \* operations other tasks ask of the stores

ASSUME EntryAssumption ==
  /\ MaxSetups \in Nat \ {0} /\ Jobs \cap {"setup", "close"} = {}
  /\ \A w \in Scenarios : w.setups \in 0..MaxSetups

Coords == 1..MaxSetups
Holders == Jobs \cup {"setup", "close"}

VARIABLES
  estate,      \* state of the entry for Home Assistant
  epc,         \* where its setup, its rollback or its unload is
  cur,         \* the latest coordinator, 0 before the first
  registered,  \* the coordinator in hass.data, or 0
  forwarded,   \* forwarding_started
  listener,    \* the update listener is registered
  reloads,     \* listener tasks that have not reloaded yet
  config,      \* per coordinator: the options it was made with
  shut,        \* per coordinator: _shutting_down
  db,          \* per coordinator: the connection itself
  conn,        \* per coordinator: _conn is set
  queue,       \* per coordinator: the holder of the lock and those who wait
  inflight,    \* per coordinator: executor work on the connection
  closer,      \* per coordinator: _close_task
  jobs,        \* per job: the store it works on, 0 when free
  radio,       \* the radio fence of the coordinator is open
  missed       \* ghost: options were saved while nobody listened

entVars == <<estate, epc, cur, registered, forwarded, listener, reloads>>
coordVars == <<config, shut, radio, missed>>
storeVars == <<db, conn, queue, inflight, closer, jobs>>
vars == <<optVars, entVars, coordVars, storeVars>>

-----------------------------------------------------------------------------
\* What MeshNetCoordinator.__init__ takes from the options: the gateways, the
\* general settings, and the gateway of the maintenance scans, which must be
\* one of the Bluetooth gateways of the same list.
Options ==
  [gws |-> gws, general |-> general,
   scans |-> IF maint \in MaintenanceChoices(gws) THEN maint ELSE None]

NoConfig == [gws |-> {}, general |-> 0, scans |-> None]

Init ==
  /\ OptInit
  /\ estate = "not_loaded" /\ epc = "none" /\ cur = 0 /\ registered = 0
  /\ forwarded = FALSE /\ listener = FALSE /\ reloads = 0
  /\ config = [c \in Coords |-> NoConfig] /\ shut = [c \in Coords |-> FALSE]
  /\ radio = TRUE /\ missed = FALSE
  /\ db = [c \in Coords |-> "none"] /\ conn = [c \in Coords |-> FALSE]
  /\ queue = [c \in Coords |-> <<>>] /\ inflight = [c \in Coords |-> {}]
  /\ closer = [c \in Coords |-> "none"] /\ jobs = [j \in Jobs |-> 0]

Step(state, pc) == estate' = state /\ epc' = pc

-----------------------------------------------------------------------------
\* The store.

\* _run_serialized: an owner task asks for the connection.
Ask(c, h) == queue' = [queue EXCEPT ![c] = Append(@, h)]
Release(c) == queue' = [queue EXCEPT ![c] = Tail(@)]

Holds(c, h) == queue[c] # <<>> /\ Head(queue[c]) = h

\* _async_run_serialized has the lock: the work starts in a thread.
StartWork(c, h) ==
  /\ Holds(c, h) /\ h # "close" /\ conn[c] /\ h \notin inflight[c]
  /\ inflight' = [inflight EXCEPT ![c] = @ \cup {h}]
  /\ UNCHANGED <<optVars, entVars, coordVars, db, conn, queue, closer, jobs>>

\* ... or finds no connection, gives the lock back and raises.
FindNoConnection(c, j) ==
  /\ j \in Jobs /\ Holds(c, j) /\ ~conn[c]
  /\ Release(c) /\ jobs' = [jobs EXCEPT ![j] = 0]
  /\ UNCHANGED <<optVars, entVars, coordVars, db, conn, inflight, closer>>

\* Mutated form: a caller that is cancelled gives the lock back at once.
CallerLeavesEarly(c, j) ==
  /\ j \in Jobs /\ Holds(c, j) /\ j \in inflight[c] /\ jobs[j] = c
  /\ jobs' = [jobs EXCEPT ![j] = 0] /\ Release(c)
  /\ UNCHANGED <<optVars, entVars, coordVars, db, conn, inflight, closer>>

\* The caller of a job is cancelled: the owner task keeps the lock until the
\* thread is done.
CallerLeaves(c, j) ==
  /\ j \in Jobs /\ Holds(c, j) /\ j \in inflight[c] /\ jobs[j] = c
  /\ jobs' = [jobs EXCEPT ![j] = 0]
  /\ UNCHANGED <<optVars, entVars, coordVars, db, conn, queue, inflight, closer>>

\* The thread is done: its callbacks release the lock.
WorkDone(c, j) ==
  /\ j \in Jobs /\ j \in inflight[c]
  /\ inflight' = [inflight EXCEPT ![c] = @ \ {j}]
  /\ queue' = [queue EXCEPT ![c] = IF Holds(c, j) THEN Tail(@) ELSE @]
  /\ jobs' = [jobs EXCEPT ![j] = IF @ = c THEN 0 ELSE @]
  /\ UNCHANGED <<optVars, entVars, coordVars, db, conn, closer>>

\* A task of the coordinator asks something of the store: a node to save, a
\* message to record, a deletion.  Tasks of an old coordinator may still do so.
AskJob(c, j) ==
  /\ j \in world.work /\ c =< cur /\ jobs[j] = 0 /\ db[c] \in {"open", "closed"}
  /\ \A d \in Coords : j \notin inflight[d]
  /\ Ask(c, j) /\ jobs' = [jobs EXCEPT ![j] = c]
  /\ UNCHANGED <<optVars, entVars, coordVars, db, conn, inflight, closer>>

\* Mutated form: the connection of a cancelled open is nobody's.
NoLateCloser(c) == UNCHANGED closer

\* async_open, cancelled while the connection is being made: a task is kept
\* that will close it.
LateCloser(c) == closer' = [closer EXCEPT ![c] = "late"]

\* _async_close_cancelled_open: the connection came, or failed.
CloseLate(c) ==
  /\ closer[c] = "late" /\ db[c] \in {"open", "failed"}
  /\ db' = [db EXCEPT ![c] = IF @ = "open" THEN "closed" ELSE @]
  /\ closer' = [closer EXCEPT ![c] = "none"]
  /\ UNCHANGED <<optVars, entVars, coordVars, conn, queue, inflight, jobs>>

\* async_close: one close task at a time, which queues for the lock.
BeginClose(c) ==
  IF closer[c] = "none"
  THEN closer' = [closer EXCEPT ![c] = "asked"] /\ Ask(c, "close")
  ELSE UNCHANGED <<closer, queue>>

\* _async_close_serialized has the lock: the connection is taken from the store.
Detach(c) ==
  /\ closer[c] = "asked" /\ Holds(c, "close") /\ Release(c)
  /\ conn' = [conn EXCEPT ![c] = FALSE]
  /\ closer' = [closer EXCEPT ![c] = IF conn[c] THEN "draining" ELSE "none"]
  /\ UNCHANGED <<optVars, entVars, coordVars, db, inflight, jobs>>

\* _async_finish_close: after every thread that was working on it.
FinishClose(c) ==
  /\ closer[c] = "draining" /\ inflight[c] = {}
  /\ db' = [db EXCEPT ![c] = "closed"] /\ closer' = [closer EXCEPT ![c] = "none"]
  /\ UNCHANGED <<optVars, entVars, coordVars, conn, queue, inflight, jobs>>

-----------------------------------------------------------------------------
\* Setup.

\* async_setup_entry: the coordinator reads the options when it is made, and
\* async_open starts a thread that connects.  A reload that was pending is then
\* done.
SetupEntry(pending) ==
  /\ present /\ estate \in {"not_loaded", "setup_failed"} /\ cur < world.setups
  /\ cur' = cur + 1 /\ Step("setup", "connect")
  /\ forwarded' = FALSE
  /\ pending => reloads > 0
  /\ reloads' = IF pending THEN reloads - 1 ELSE reloads
  /\ config' = [config EXCEPT ![cur + 1] = Options]
  /\ db' = [db EXCEPT ![cur + 1] = "connecting"]
  /\ radio' = TRUE /\ missed' = FALSE
  /\ UNCHANGED <<optVars, registered, listener, shut, conn, queue, inflight,
                 closer, jobs>>

\* The rollback: the platforms first, when they had been started for it.
Rollback ==
  IF forwarded /\ registered = cur
  THEN Step("rollback", "platforms") ELSE Step("rollback", "drain")

\* The thread connects.  The waiting setup publishes the connection and asks
\* for the schema; for a cancelled setup it only becomes open.
Connected(c) ==
  /\ db[c] = "connecting" /\ db' = [db EXCEPT ![c] = "open"]
  /\ IF c = cur /\ estate = "setup" /\ epc = "connect"
     THEN /\ conn' = [conn EXCEPT ![c] = TRUE] /\ Step("setup", "schema")
          /\ Ask(c, "setup")
     ELSE UNCHANGED <<conn, estate, epc, queue>>
  /\ UNCHANGED <<optVars, cur, registered, forwarded, listener, reloads,
                 coordVars, inflight, closer, jobs>>

ConnectFails(c) ==
  /\ "fail" \in world.faults
  /\ db[c] = "connecting" /\ db' = [db EXCEPT ![c] = "failed"]
  /\ IF c = cur /\ estate = "setup" /\ epc = "connect"
     THEN Rollback ELSE UNCHANGED <<estate, epc>>
  /\ UNCHANGED <<optVars, cur, registered, forwarded, listener, reloads,
                 coordVars, conn, queue, inflight, closer, jobs>>

\* The thread of an operation of the setup is done: the schema, then the
\* snapshot and the pruning, then the platforms.  Or it failed.
SetupWorkDone(c, fails) ==
  /\ "setup" \in inflight[c] /\ (fails => "fail" \in world.faults)
  /\ inflight' = [inflight EXCEPT ![c] = @ \ {"setup"}]
  /\ IF c = cur /\ estate = "setup" /\ epc \in {"schema", "load"}
     THEN /\ queue' = [queue EXCEPT ![c] =
               IF ~fails /\ epc = "schema" THEN Append(Tail(@), "setup")
               ELSE Tail(@)]
          /\ IF fails THEN Rollback /\ UNCHANGED <<registered, forwarded>>
             ELSE IF epc = "schema"
             THEN Step("setup", "load") /\ UNCHANGED <<registered, forwarded>>
             ELSE /\ Step("setup", "platforms") /\ registered' = c
                  /\ forwarded' = TRUE
     ELSE /\ queue' = [queue EXCEPT ![c] = Tail(@)]
          /\ UNCHANGED <<estate, epc, registered, forwarded>>
  /\ UNCHANGED <<optVars, cur, listener, reloads, coordVars, db, conn,
                 closer, jobs>>

\* The platforms are set up: the gateways start in the background and the
\* update listener is registered.
SetupDone ==
  /\ estate = "setup" /\ epc = "platforms" /\ Step("loaded", "none")
  /\ listener' = TRUE
  /\ UNCHANGED <<optVars, cur, registered, forwarded, reloads, coordVars,
                 storeVars>>

PlatformsFail ==
  /\ estate = "setup" /\ epc = "platforms" /\ "platforms" \in world.faults /\ Rollback
  /\ UNCHANGED <<optVars, cur, registered, forwarded, listener, reloads,
                 coordVars, storeVars>>

\* Home Assistant cancels the setup.
CancelSetup ==
  /\ estate = "setup" /\ "cancel" \in world.faults /\ Rollback
  /\ IF epc = "connect" THEN LateCloser(cur) ELSE UNCHANGED closer
  /\ UNCHANGED <<optVars, cur, registered, forwarded, listener, reloads,
                 coordVars, db, conn, queue, inflight, jobs>>

\* The platforms are unloaded, whatever comes of it.
RollbackPlatforms ==
  /\ estate = "rollback" /\ epc = "platforms" /\ Step("rollback", "drain")
  /\ UNCHANGED <<optVars, cur, registered, forwarded, listener, reloads,
                 coordVars, storeVars>>

\* MeshNetCoordinator.async_shutdown: fences, bounded drains, the gateways, and
\* then the store is closed.
ShutDown(state) ==
  /\ estate = state /\ epc = "drain" /\ Step(state, "close")
  /\ shut' = [shut EXCEPT ![cur] = TRUE] /\ radio' = FALSE
  /\ BeginClose(cur)
  /\ UNCHANGED <<optVars, cur, registered, forwarded, listener, reloads,
                 config, missed, db, conn, inflight, jobs>>

\* async_close waits for the close task, two seconds at most.
Waited(c) == closer[c] = "none" \/ "slow" \in world.faults

\* The registration is dropped if it is still this coordinator's.
RolledBack ==
  /\ estate = "rollback" /\ epc = "close" /\ Waited(cur)
  /\ Step("setup_failed", "none")
  /\ registered' = IF registered = cur THEN 0 ELSE registered
  /\ UNCHANGED <<optVars, cur, forwarded, listener, reloads, coordVars,
                 storeVars>>

-----------------------------------------------------------------------------
\* Unload and reload.

\* Mutated form: only a change of the gateways reloads.
SavedGateways ==
  IF gws' = gws THEN UNCHANGED <<reloads, missed>>
  ELSE IF listener THEN reloads' = reloads + 1 /\ UNCHANGED missed
  ELSE missed' = TRUE /\ UNCHANGED reloads

\* async_update_entry: a change of the options makes one task of every update
\* listener.
Saved ==
  IF <<gws, general, maint>>' = <<gws, general, maint>>
  THEN UNCHANGED <<reloads, missed>>
  ELSE IF listener THEN reloads' = reloads + 1 /\ UNCHANGED missed
  ELSE missed' = TRUE /\ UNCHANGED reloads

\* _async_update_listener reloads the entry (the update that the coordinator
\* wrote itself is module GatewaySettings); the user may unload it.  The radio
\* work is fenced first.
BeginUnload(reload) ==
  /\ estate = "loaded" /\ (reload => reloads > 0)
  /\ Step("unloading", "radio")
  /\ reloads' = IF reload THEN reloads - 1 ELSE reloads
  /\ radio' = FALSE
  /\ UNCHANGED <<optVars, cur, registered, forwarded, listener, config, shut,
                 missed, storeVars>>

\* The radio work is drained; or it is not, and the unload is given up.
RadioDrained(ok) ==
  /\ estate = "unloading" /\ epc = "radio" /\ (~ok => "stuck" \in world.faults)
  /\ IF ok THEN Step("unloading", "settings") ELSE Step("failed_unload", "radio")
  /\ UNCHANGED <<optVars, cur, registered, forwarded, listener, reloads,
                 coordVars, storeVars>>

\* The same for the settings work, which opens the radio fence again.
SettingsDrained(ok) ==
  /\ estate = "unloading" /\ epc = "settings" /\ (~ok => "stuck" \in world.faults)
  /\ IF ok THEN Step("unloading", "platforms") ELSE Step("failed_unload", "none")
  /\ radio' = ~ok
  /\ UNCHANGED <<optVars, cur, registered, forwarded, listener, reloads,
                 config, shut, missed, storeVars>>

\* async_unload_platforms: unloaded, refused or raised.
PlatformsUnloaded(ok) ==
  /\ estate = "unloading" /\ epc = "platforms" /\ (~ok => "platforms" \in world.faults)
  /\ IF ok THEN Step("unloading", "drain") ELSE Step("failed_unload", "none")
  /\ radio' = ~ok
  /\ UNCHANGED <<optVars, cur, registered, forwarded, listener, reloads,
                 config, shut, missed, storeVars>>

\* Home Assistant refuses to reload an entry whose unload failed.
ReloadRefused ==
  /\ estate = "failed_unload" /\ reloads > 0 /\ reloads' = reloads - 1
  /\ UNCHANGED <<optVars, estate, epc, cur, registered, forwarded, listener,
                 coordVars, storeVars>>

\* The coordinator is shut down, its registration and the listener dropped.
Unloaded ==
  /\ estate = "unloading" /\ epc = "close" /\ Waited(cur)
  /\ Step("not_loaded", "none") /\ listener' = FALSE
  /\ registered' = IF registered = cur THEN 0 ELSE registered
  /\ UNCHANGED <<optVars, cur, forwarded, reloads, coordVars, storeVars>>

-----------------------------------------------------------------------------
OptionsStep ==
  /\ OptNext /\ Saved
  /\ UNCHANGED <<estate, epc, cur, registered, forwarded, listener,
                 config, shut, radio, storeVars>>

SetupSteps ==
  \/ (\E pending \in BOOLEAN : SetupEntry(pending)) \/ SetupDone \/ PlatformsFail \/ CancelSetup
  \/ RollbackPlatforms \/ ShutDown("rollback") \/ RolledBack
  \/ \E c \in Coords : \/ Connected(c) \/ ConnectFails(c)
                       \/ \E fails \in BOOLEAN : SetupWorkDone(c, fails)

UnloadSteps ==
  \/ \E reload \in BOOLEAN : BeginUnload(reload)
  \/ \E ok \in BOOLEAN : \/ RadioDrained(ok) \/ SettingsDrained(ok)
                         \/ PlatformsUnloaded(ok)
  \/ ShutDown("unloading") \/ Unloaded \/ ReloadRefused

StoreStep(c) ==
  \/ CloseLate(c) \/ Detach(c) \/ FinishClose(c)
  \/ \E h \in Holders : \/ StartWork(c, h) \/ FindNoConnection(c, h)
                        \/ CallerLeaves(c, h) \/ WorkDone(c, h)

JobSteps == \E c \in Coords, j \in Jobs : AskJob(c, j)

Next ==
  \/ OptionsStep \/ SetupSteps \/ UnloadSteps \/ JobSteps
  \/ \E c \in Coords : StoreStep(c)

Spec == Init /\ [][Next]_vars

\* The holder of the lock goes on: its work starts, ends, or cannot start.
Serve(c) ==
  \/ \E fails \in BOOLEAN : SetupWorkDone(c, fails)
  \/ \E h \in Holders : StartWork(c, h) \/ FindNoConnection(c, h) \/ WorkDone(c, h)

\* The executor finishes what it was given, and a task that can go on does.
FairSpec ==
  /\ Spec
  /\ \A c \in Coords : /\ WF_vars(Serve(c)) /\ WF_vars(CloseLate(c))
                        /\ WF_vars(Detach(c)) /\ WF_vars(FinishClose(c))

-----------------------------------------------------------------------------
TypeOK ==
  /\ OptTypeOK
  /\ estate \in {"not_loaded", "setup", "rollback", "setup_failed", "loaded",
                 "unloading", "failed_unload"}
  /\ epc \in {"none", "connect", "schema", "load", "platforms", "drain", "close",
              "radio", "settings"}
  /\ cur \in 0..MaxSetups /\ registered \in 0..MaxSetups
  /\ forwarded \in BOOLEAN /\ listener \in BOOLEAN
  /\ reloads \in 0..world.saves /\ radio \in BOOLEAN /\ missed \in BOOLEAN
  /\ config \in [Coords -> [gws : SUBSET Gateways, general : Versions \cup {0},
                           scans : Ids \cup {None}]] /\ shut \in [Coords -> BOOLEAN]
  /\ db \in [Coords -> {"none", "connecting", "open", "closed", "failed"}]
  /\ conn \in [Coords -> BOOLEAN]
  /\ \A c \in Coords : queue[c] \in Seq(Holders)
  /\ inflight \in [Coords -> SUBSET Holders]
  /\ closer \in [Coords -> {"none", "late", "asked", "draining"}]
  /\ jobs \in [Jobs -> 0..MaxSetups]

\* At most one thread works on a connection, and never on one that is closed:
\* the lease outlives a caller that is cancelled, and the close waits for it
\* (async_close: "Never close SQLite beneath a running thread").
OneThread ==
  \A c \in Coords : /\ \A h, k \in inflight[c] : h = k
                    /\ inflight[c] # {} => db[c] = "open"

\* An open connection always has an owner that will close it: the entry while
\* it is being set up, loaded or unloaded, or a close task that is kept
\* (async_open: "Retain an exact owner that closes the late connection instead
\* of losing it").
NoStrayConnection ==
  \A c \in Coords : db[c] = "open"
    => closer[c] # "none" \/ (c = cur /\ estate \notin {"not_loaded", "setup_failed"})

\* Every connection of a coordinator that is gone is closed in the end.
ConnectionsClose ==
  \A c \in Coords : (shut[c] /\ db[c] = "open") ~> db[c] = "closed"

\* A coordinator that goes on because an unload was given up accepts radio work
\* again, unless the radio work itself was what did not stop.
FencesOpenAgain == estate = "failed_unload" /\ epc # "radio" => radio

\* A loaded coordinator with no reload to come runs with the gateways and the
\* settings that are saved, and its maintenance scans use a gateway that still
\* is in the list, unless the save fell between its making and its listener:
\* a save during an unload or a reload is not lost (_async_update_listener).
RunsWhatIsSaved ==
  estate = "loaded" /\ reloads = 0 /\ ~missed
    => /\ config[cur].gws = gws /\ config[cur].general = general
       /\ config[cur].scans \in (MaintenanceChoices(gws) \cap {maint}) \cup {None}

\* "Reload on options changes" (_async_update_listener).
ReloadsOnChange == estate = "loaded" /\ reloads = 0 => config[cur] = Options

=============================================================================
