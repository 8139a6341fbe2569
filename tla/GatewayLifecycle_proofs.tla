----------------------- MODULE GatewayLifecycle_proofs -----------------------
(***************************************************************************)
(* For any gateways, kinds of adapters, tasks, reloads and faults: the     *)
(* state of GatewayLifecycle is typed, events converge, a shutdown leaves  *)
(* no interface, nothing starts behind it, a start publishes over no other *)
(* interface, and callbacks of an older generation stay silent.            *)
(*                                                                         *)
(* The argument: what a step does to one gateway it does to no other, so   *)
(* the invariant is about one gateway (Local) beside the fences and the    *)
(* lifecycle (LifeInv).  A start runs in a task that is where that start   *)
(* is; stop before start and the epochs leave at most one start that may   *)
(* publish, and it finds no interface; and a connection that has not been  *)
(* told has a callback under way that captured "not connected", or a start *)
(* that is being undone.                                                   *)
(***************************************************************************)
EXTENDS GatewayLifecycle, TLAPS

\* What a scenario names is among the constants, and no task has two roles.
LEMMA ScenarioFacts ==
  ASSUME scenario \in Scenarios
  PROVE  /\ Gateways \subseteq GatewayIds /\ Slots \subseteq EventTasks
         /\ Slots \cap Roles = {} /\ Runners \subseteq Roles /\ "stop" \in Roles
         /\ Runners \subseteq Contexts /\ Slots \subseteq Contexts
         /\ None \notin Roles /\ None \notin Contexts
  BY ScenariosAssumption, TasksAssumption, NoneAssumption
     DEF Gateways, Slots, Roles, Runners, Contexts

\* A scenario is never changed, so that what it says is not either.
LEMMA SameWorld ==
  ASSUME scenario' = scenario
  PROVE  /\ Gateways' = Gateways /\ Meshtastic' = Meshtastic /\ Slots' = Slots
         /\ Faults' = Faults /\ Contexts' = Contexts
         /\ ReloadsComplete' <=> ReloadsComplete
  BY DEF Gateways, Meshtastic, Slots, Faults, Contexts, ReloadsComplete

-----------------------------------------------------------------------------
(* Type correctness *)

Stages == {"none", "opening", "announce", "refresh", "undo", "late", "closing"}
Places == {"none", "head", "joining", "sleep", "stopping", "stopped", "starting", "ok",
           "failed", "error", "unwinding", "ended"}
Captured == [prev : BOOLEAN, gen : 1..(MaxReloads + 1)]
Tasks == {StartupTask} \cup {WatchdogTask(g) : g \in Gateways}

\* The type invariant, one part per group of variables.
TypeLife ==
  /\ shutting \in BOOLEAN /\ suspended \in BOOLEAN /\ drained \in BOOLEAN
  /\ generation \in 1..(MaxReloads + 1)
  /\ life \in {"run", "quiesce", "startup", "watchdogs", "stopping", "closed"}
  /\ stopped \subseteq Gateways
TypeAdapter ==
  /\ connected \in [Gateways -> BOOLEAN]
  /\ link \in [Gateways -> {"none", "up", "lost"}]
  /\ owner \in [Gateways -> Runners \cup {None}]
  /\ epoch \in [Gateways -> Runners \cup {None}]
TypeAttempt == attempt \in [Gateways -> [Roles -> Stages]]
TypeNews ==
  known \in [Gateways -> BOOLEAN] /\ told \in [Gateways -> BOOLEAN] /\ repeated \cup missed \subseteq Gateways
TypeCallback == callback \in [Gateways -> [Contexts -> {None} \cup Captured]]
TypeTasks ==
  /\ startup \in {"none", "created", "starting", "flush", "unwinding"}
  /\ joined \in [Gateways -> {"idle", "waiting", "ok", "failed"}]
  /\ cancelled \subseteq Tasks
TypeWatchdog == watchdog \in [Gateways -> Places]

\* The type invariant is the conjunction of its parts.
LEMMA TypeParts ==
  TypeOK <=> /\ scenario \in Scenarios /\ TypeLife /\ TypeAdapter /\ TypeAttempt
             /\ TypeNews /\ TypeCallback /\ TypeTasks /\ TypeWatchdog
  BY DEF TypeOK, TypeLife, TypeAdapter, TypeAttempt, TypeNews, TypeCallback, TypeTasks,
         TypeWatchdog, Stages, Places, Captured, Tasks

\* A part whose variables a step leaves alone stays typed.
LEMMA TypeFrame ==
  ASSUME TypeOK, scenario' = scenario
  PROVE  /\ (scenario \in Scenarios)'
         /\ UNCHANGED lifecycle => TypeLife'
         /\ UNCHANGED <<connected, link, owner, epoch>> => TypeAdapter'
         /\ UNCHANGED attempt => TypeAttempt'
         /\ UNCHANGED news => TypeNews'
         /\ UNCHANGED callback => TypeCallback'
         /\ UNCHANGED <<startup, joined, cancelled>> => TypeTasks'
         /\ UNCHANGED watchdog => TypeWatchdog'
  <1>1. (scenario \in Scenarios)'  BY DEF TypeOK
  <1>2. UNCHANGED lifecycle => TypeLife'
    BY SameWorld, TypeParts DEF TypeLife, lifecycle
  <1>3. UNCHANGED <<connected, link, owner, epoch>> => TypeAdapter'
    BY SameWorld, TypeParts DEF TypeAdapter
  <1>4. UNCHANGED attempt => TypeAttempt'
    BY SameWorld, TypeParts DEF TypeAttempt
  <1>5. UNCHANGED news => TypeNews'
    BY SameWorld, TypeParts DEF TypeNews, news
  <1>6. UNCHANGED callback => TypeCallback'
    BY SameWorld, TypeParts DEF TypeCallback
  <1>7. UNCHANGED <<startup, joined, cancelled>> => TypeTasks'
    BY SameWorld, TypeParts DEF TypeTasks, Tasks, StartupTask, WatchdogTask
  <1>8. UNCHANGED watchdog => TypeWatchdog'
    BY SameWorld, TypeParts DEF TypeWatchdog
  <1>9. QED  BY <1>1, <1>2, <1>3, <1>4, <1>5, <1>6, <1>7, <1>8

-----------------------------------------------------------------------------
(* What the helpers of the model do *)

\* A start that is over leaves one entry of the attempts, and the others alone.
LEMMA ReturnEffect ==
  ASSUME TypeOK, NEW g \in Gateways, NEW r \in Runners, NEW res \in {"ok", "failed"},
         Return(g, r, res)
  PROVE  /\ attempt' \in [Gateways -> [Roles -> Stages]]
         /\ joined' \in [Gateways -> {"idle", "waiting", "ok", "failed"}]
         /\ attempt'[g][r] \in {"none", "late"}
         /\ attempt'[g][r] = "late" => r = "client"
         /\ \A s \in Roles : s # r => attempt'[g][s] = attempt[g][s]
         /\ \A q \in Gateways : q # g => attempt'[q] = attempt[q]
  <1>1. r \in Roles  BY DEF Roles
  <1>2. attempt \in [Gateways -> [Roles -> Stages]]  BY TypeParts DEF TypeAttempt
  <1>3. PICK x \in {"none", "late"} : attempt' = [attempt EXCEPT ![g][r] = x] /\ (x = "late" => r = "client")
    BY DEF Return
  <1>4. attempt' \in [Gateways -> [Roles -> Stages]]  BY ONLY <1>1, <1>2, <1>3 DEF Stages
  <1>5. joined' \in [Gateways -> {"idle", "waiting", "ok", "failed"}]
    BY TypeParts DEF Return, TypeTasks
  <1>6. /\ attempt'[g][r] = x
        /\ \A s \in Roles : s # r => attempt'[g][s] = attempt[g][s]
        /\ \A q \in Gateways : q # g => attempt'[q] = attempt[q]
    BY ONLY <1>1, <1>2, <1>3
  <1>7. QED  BY <1>3, <1>4, <1>5, <1>6

\* A watchdog that waits for a start goes on when it is over; no other moves.
LEMMA WatchdogReturnEffect ==
  ASSUME TypeOK, NEW g \in Gateways, NEW r \in Runners, NEW res \in {"ok", "failed"}
  PROVE  /\ WatchdogReturn(g, r, res) \in [Gateways -> Places]
         /\ \A q \in Gateways : q # g => WatchdogReturn(g, r, res)[q] = watchdog[q]
         /\ \/ WatchdogReturn(g, r, res)[g] = watchdog[g]
            \/ /\ r # "startup" /\ watchdog[g] \in {"joining", "starting"}
               /\ WatchdogReturn(g, r, res)[g] \in {"head", "ok", "failed"}
  BY TypeParts DEF WatchdogReturn, TypeWatchdog, Places

\* A watchdog is scheduled where none is registered, and not behind a fence.
LEMMA ScheduleEffect ==
  ASSUME NEW w \in [Gateways -> Places], NEW g \in Gateways
  PROVE  /\ Schedule(w, g) \in [Gateways -> Places]
         /\ \A q \in Gateways : q # g => Schedule(w, g)[q] = w[q]
         /\ \/ Schedule(w, g)[g] = w[g]
            \/ ~Fenced /\ w[g] = "none" /\ Schedule(w, g)[g] = "head"
  BY DEF Schedule, Places

\* A status that is not connected is remembered and told, unless the fence is up.
LEMMA TellDownEffect ==
  ASSUME TypeOK, NEW g \in Gateways, TellDown(g)
  PROVE  /\ known' \in [Gateways -> BOOLEAN] /\ told' \in [Gateways -> BOOLEAN]
         /\ repeated' \cup missed' \subseteq Gateways
         /\ \A q \in Gateways : q # g => known'[q] = known[q] /\ told'[q] = told[q]
         /\ Fenced => known'[g] = known[g] /\ told'[g] = told[g]
         /\ ~Fenced => ~known'[g] /\ (told'[g] => told[g] /\ ~known[g])
  <1>1. known \in [Gateways -> BOOLEAN] /\ told \in [Gateways -> BOOLEAN] /\ repeated \cup missed \subseteq Gateways
    BY TypeParts DEF TypeNews
  <1>2. CASE Fenced
    BY <1>1, <1>2 DEF TellDown, news
  <1>3. CASE ~Fenced
    <2>1. /\ known' = [known EXCEPT ![g] = FALSE]
          /\ told' = [told EXCEPT ![g] = IF known[g] THEN FALSE ELSE told[g]]
          /\ repeated' = IF known[g] /\ ~told[g] THEN repeated \cup {g} ELSE repeated
          /\ missed' \in {missed \cup {g}, missed \ {g}}
      BY <1>3 DEF TellDown
    <2>2. (IF known[g] THEN FALSE ELSE told[g]) \in BOOLEAN  BY <1>1, Zenon
    <2>3. known' \in [Gateways -> BOOLEAN] /\ told' \in [Gateways -> BOOLEAN]
      BY ONLY <1>1, <2>1, <2>2
    <2>4. repeated' \cup missed' \subseteq Gateways  BY ONLY <1>1, <2>1
    <2>5. \A q \in Gateways : q # g => known'[q] = known[q] /\ told'[q] = told[q]
      BY ONLY <1>1, <2>1
    <2>6. ~known'[g] /\ (told'[g] => told[g] /\ ~known[g])
      BY ONLY <1>1, <2>1
    <2>7. QED  BY ONLY <1>3, <2>3, <2>4, <2>5, <2>6
  <1>4. QED  BY <1>2, <1>3

\* A report that a gateway is not connected.
LEMMA ReportDownEffect ==
  ASSUME TypeOK, NEW g \in Gateways, NEW w, ReportDown(g, w)
  PROVE  /\ connected' \in [Gateways -> BOOLEAN] /\ ~connected'[g]
         /\ \A q \in Gateways : q # g => connected'[q] = connected[q]
         /\ TellDown(g) /\ watchdog' = Schedule(w, g)
  BY TypeParts DEF ReportDown, TypeAdapter

\* A report that a gateway is connected: its callback captures what was known.
LEMMA ReportUpEffect ==
  ASSUME TypeOK, NEW g \in Gateways, NEW c \in Contexts, ReportUp(g, c)
  PROVE  /\ connected' \in [Gateways -> BOOLEAN] /\ connected'[g]
         /\ \A q \in Gateways : q # g => connected'[q] = connected[q]
         /\ callback' \in [Gateways -> [Contexts -> {None} \cup Captured]]
         /\ \A q \in Gateways : q # g => callback'[q] = callback[q]
         /\ \A d \in Contexts : d # c => callback'[g][d] = callback[g][d]
         /\ Fenced => callback' = callback
         /\ ~Fenced => callback'[g][c] = [prev |-> known[g], gen |-> generation]
         /\ cancelled' \subseteq Tasks
         /\ StartupTask \in cancelled' <=> StartupTask \in cancelled
  <1>1. /\ connected \in [Gateways -> BOOLEAN] /\ known \in [Gateways -> BOOLEAN]
        /\ callback \in [Gateways -> [Contexts -> {None} \cup Captured]]
        /\ cancelled \subseteq Tasks /\ generation \in 1..(MaxReloads + 1)
    BY TypeParts DEF TypeAdapter, TypeNews, TypeCallback, TypeTasks, TypeLife
  <1>2. /\ connected' = [connected EXCEPT ![g] = TRUE]
        /\ callback' = IF Fenced THEN callback
             ELSE [callback EXCEPT ![g][c] = [prev |-> known[g], gen |-> generation]]
        /\ cancelled' = IF Fenced THEN cancelled ELSE CancelWatchdog(g, c)
    BY DEF ReportUp
  <1>3. connected' \in [Gateways -> BOOLEAN] /\ connected'[g]
    BY ONLY <1>1, <1>2
  <1>4. \A q \in Gateways : q # g => connected'[q] = connected[q]  BY ONLY <1>1, <1>2
  <1>5. known[g] \in BOOLEAN  BY ONLY <1>1
  <1>6. [prev |-> known[g], gen |-> generation] \in Captured
    BY ONLY <1>1, <1>5, Zenon DEF Captured
  <1>7. callback' \in [Gateways -> [Contexts -> {None} \cup Captured]]  BY ONLY <1>1, <1>2, <1>6
  <1>8. \A q \in Gateways : q # g => callback'[q] = callback[q]  BY ONLY <1>1, <1>2
  <1>9. \A d \in Contexts : d # c => callback'[g][d] = callback[g][d]  BY ONLY <1>1, <1>2
  <1>10. ~Fenced => callback'[g][c] = [prev |-> known[g], gen |-> generation]  BY ONLY <1>1, <1>2
  <1>11. WatchdogTask(g) \in Tasks /\ StartupTask # WatchdogTask(g)
    BY DEF Tasks, StartupTask, WatchdogTask
  <1>12. cancelled' \subseteq Tasks /\ (StartupTask \in cancelled' <=> StartupTask \in cancelled)
    BY ONLY <1>1, <1>2, <1>11 DEF CancelWatchdog
  <1>13. Fenced => callback' = callback  BY ONLY <1>2
  <1>14. QED
    BY ONLY <1>3, <1>4, <1>7, <1>8, <1>9, <1>10, <1>12, <1>13

\* The end of a callback remembers the live status, and tells it if it differs from
\* what was captured.
LEMMA ConcludeEffect ==
  ASSUME TypeOK, NEW g \in Gateways, NEW p \in BOOLEAN, Conclude(g, p)
  PROVE  /\ known' \in [Gateways -> BOOLEAN] /\ told' \in [Gateways -> BOOLEAN]
         /\ repeated' \cup missed' \subseteq Gateways
         /\ \A q \in Gateways : q # g => known'[q] = known[q] /\ told'[q] = told[q]
         /\ known'[g] <=> connected[g]
         /\ told'[g] <=> IF p = connected[g] THEN told[g] ELSE connected[g]
  <1>1. /\ known \in [Gateways -> BOOLEAN] /\ told \in [Gateways -> BOOLEAN] /\ repeated \cup missed \subseteq Gateways
        /\ connected \in [Gateways -> BOOLEAN]
    BY TypeParts DEF TypeNews, TypeAdapter
  <1>2. /\ known' = [known EXCEPT ![g] = connected[g]]
        /\ told' = [told EXCEPT ![g] = IF p # connected[g] THEN connected[g] ELSE told[g]]
        /\ repeated' \in {repeated, repeated \cup {g}} /\ missed' = missed
    BY DEF Conclude
  <1>3. connected[g] \in BOOLEAN /\ (IF p # connected[g] THEN connected[g] ELSE told[g]) \in BOOLEAN
    BY <1>1, Zenon
  <1>4. known' \in [Gateways -> BOOLEAN] /\ told' \in [Gateways -> BOOLEAN]  BY ONLY <1>1, <1>2, <1>3
  <1>5. repeated' \cup missed' \subseteq Gateways  BY ONLY <1>1, <1>2
  <1>6. \A q \in Gateways : q # g => known'[q] = known[q] /\ told'[q] = told[q]  BY ONLY <1>1, <1>2
  <1>7. known'[g] <=> connected[g]  BY ONLY <1>1, <1>2
  <1>8. told'[g] = IF p # connected[g] THEN connected[g] ELSE told[g]  BY ONLY <1>1, <1>2
  <1>9. told'[g] <=> IF p = connected[g] THEN told[g] ELSE connected[g]
    BY ONLY <1>8, Zenon
  <1>10. QED  BY ONLY <1>4, <1>5, <1>6, <1>7, <1>9

\* The end of a callback that may have been overtaken by a fence or a generation.
LEMMA ConcludeInEffect ==
  ASSUME TypeOK, NEW g \in Gateways, NEW c \in Contexts, ConcludeIn(g, c)
  PROVE  /\ callback' \in [Gateways -> [Contexts -> {None} \cup Captured]]
         /\ callback'[g][c] = None
         /\ \A q \in Gateways : q # g => callback'[q] = callback[q]
         /\ \A d \in Contexts : d # c => callback'[g][d] = callback[g][d]
         /\ known' \in [Gateways -> BOOLEAN] /\ told' \in [Gateways -> BOOLEAN]
         /\ repeated' \cup missed' \subseteq Gateways
         /\ \A q \in Gateways : q # g => known'[q] = known[q] /\ told'[q] = told[q]
         /\ \/ /\ callback[g][c] # None /\ Current(callback[g][c].gen)
               /\ known'[g] <=> connected[g]
               /\ told'[g] <=> IF callback[g][c].prev = connected[g] THEN told[g] ELSE connected[g]
            \/ /\ ~(callback[g][c] # None /\ Current(callback[g][c].gen))
               /\ UNCHANGED news
  <1>1. /\ known \in [Gateways -> BOOLEAN] /\ told \in [Gateways -> BOOLEAN] /\ repeated \cup missed \subseteq Gateways
        /\ callback \in [Gateways -> [Contexts -> {None} \cup Captured]]
    BY TypeParts DEF TypeNews, TypeCallback
  <1>2. callback' = [callback EXCEPT ![g][c] = None]  BY DEF ConcludeIn
  <1>3. callback' \in [Gateways -> [Contexts -> {None} \cup Captured]]
    BY ONLY <1>1, <1>2
  <1>4. /\ callback'[g][c] = None
        /\ \A q \in Gateways : q # g => callback'[q] = callback[q]
        /\ \A d \in Contexts : d # c => callback'[g][d] = callback[g][d]
    BY ONLY <1>1, <1>2
  <1>5. CASE callback[g][c] # None /\ Current(callback[g][c].gen)
    <2>1. callback[g][c] \in Captured  BY ONLY <1>1, <1>5
    <2>2. callback[g][c].prev \in BOOLEAN  BY ONLY <2>1 DEF Captured
    <2>3. Conclude(g, callback[g][c].prev)  BY <1>5 DEF ConcludeIn
    <2>4. QED  BY <1>3, <1>4, <1>5, <2>2, <2>3, ConcludeEffect
  <1>6. CASE ~(callback[g][c] # None /\ Current(callback[g][c].gen))
    <2>1. UNCHANGED news  BY <1>6 DEF ConcludeIn
    <2>2. QED  BY ONLY <1>1, <1>3, <1>4, <1>6, <2>1 DEF news
  <1>7. QED  BY <1>5, <1>6

\* A call of async_start on some gateways touches the attempts of these only.
LEMMA CallStartEffect ==
  ASSUME TypeOK, NEW S \in SUBSET Gateways, NEW caller \in {"startup", "watchdog"},
         CallStart(S, caller)
  PROVE  /\ epoch' \in [Gateways -> Runners \cup {None}]
         /\ attempt' \in [Gateways -> [Roles -> Stages]]
         /\ \A q \in Gateways : q \notin S => epoch'[q] = epoch[q] /\ attempt'[q] = attempt[q]
         /\ \A q \in S : /\ Runner(q, caller) \in Runners
                         /\ epoch'[q] = Runner(q, caller)
                         /\ q \in Meshtastic => attempt[q]["stop"] = "none"
         /\ \A q \in S, s \in Roles :
              attempt'[q][s] = IF s = Runner(q, caller) /\ attempt[q][s] \in {"none", "late"}
                                 THEN "opening" ELSE attempt[q][s]
  <1>1. epoch \in [Gateways -> Runners \cup {None}] /\ attempt \in [Gateways -> [Roles -> Stages]]
    BY TypeParts DEF TypeAdapter, TypeAttempt
  <1>2. /\ \A q \in S \cap Meshtastic : attempt[q]["stop"] = "none"
        /\ epoch' = [q \in Gateways |-> IF q \in S THEN Runner(q, caller) ELSE epoch[q]]
        /\ attempt' = [q \in Gateways |->
             IF q \in S /\ attempt[q][Runner(q, caller)] \in {"none", "late"}
               THEN [attempt[q] EXCEPT ![Runner(q, caller)] = "opening"] ELSE attempt[q]]
    BY DEF CallStart
  <1>3. \A q : Runner(q, caller) \in Runners /\ Runner(q, caller) \in Roles
    BY DEF Runner, Runners, Roles
  <1>4. epoch' \in [Gateways -> Runners \cup {None}]  BY ONLY <1>1, <1>2, <1>3
  <1>5. attempt' \in [Gateways -> [Roles -> Stages]]
    <2>1. "opening" \in Stages  BY DEF Stages
    <2>2. ASSUME NEW q \in Gateways PROVE [attempt[q] EXCEPT ![Runner(q, caller)] = "opening"] \in [Roles -> Stages]
      BY ONLY <1>1, <1>3, <2>1
    <2>3. QED  BY ONLY <1>1, <1>2, <2>2
  <1>6. \A q \in Gateways : q \notin S => epoch'[q] = epoch[q] /\ attempt'[q] = attempt[q]
    BY ONLY <1>2
  <1>7. \A q \in S : epoch'[q] = Runner(q, caller)  BY ONLY <1>2
  <1>8. ASSUME NEW q \in S, NEW s \in Roles
        PROVE  attempt'[q][s] = IF s = Runner(q, caller) /\ attempt[q][s] \in {"none", "late"}
                                  THEN "opening" ELSE attempt[q][s]
    BY ONLY <1>1, <1>2, <1>3, <1>8
  <1>9. QED  BY ONLY <1>2, <1>3, <1>4, <1>5, <1>6, <1>7, <1>8

\* A call of async_stop.
LEMMA CallStopEffect ==
  ASSUME TypeOK, NEW g \in Gateways, CallStop(g)
  PROVE  /\ epoch' \in [Gateways -> Runners \cup {None}]
         /\ attempt' \in [Gateways -> [Roles -> Stages]]
         /\ epoch'[g] = None /\ attempt'[g]["stop"] = "closing"
         /\ \A s \in Roles : s # "stop" => attempt'[g][s] = attempt[g][s]
         /\ \A q \in Gateways : q # g => epoch'[q] = epoch[q] /\ attempt'[q] = attempt[q]
  <1>1. epoch \in [Gateways -> Runners \cup {None}] /\ attempt \in [Gateways -> [Roles -> Stages]]
    BY TypeParts DEF TypeAdapter, TypeAttempt
  <1>2. "stop" \in Roles /\ "closing" \in Stages  BY DEF Roles, Stages
  <1>3. QED  BY ONLY <1>1, <1>2, CallStop(g) DEF CallStop

\* A watchdog that is cancelled gives up the start it runs.
LEMMA DiscardEffect ==
  ASSUME TypeOK, NEW g \in Gateways, NEW stopping \in BOOLEAN, Discard(g, "watchdog", stopping)
  PROVE  /\ attempt' \in [Gateways -> [Roles -> Stages]]
         /\ attempt'[g]["watchdog"] =
              IF attempt[g]["watchdog"] \in {"announce", "refresh"} /\ owner[g] = "watchdog"
                THEN "undo" ELSE "none"
         /\ attempt'[g]["stop"] \in {attempt[g]["stop"], "none"}
         /\ \A s \in Roles : s \notin {"watchdog", "stop"} => attempt'[g][s] = attempt[g][s]
         /\ callback' \in [Gateways -> [Contexts -> {None} \cup Captured]]
         /\ callback'[g]["watchdog"] = None
         /\ \A d \in Contexts : d # "watchdog" => callback'[g][d] = callback[g][d]
         /\ link' \in [Gateways -> {"none", "up", "lost"}]
         /\ owner' \in [Gateways -> Runners \cup {None}]
         /\ IF attempt[g]["watchdog"] # "none" /\ owner[g] = "watchdog"
              THEN link'[g] = "none" /\ owner'[g] = None
              ELSE link'[g] = link[g] /\ owner'[g] = owner[g]
         /\ \A q \in Gateways : q # g =>
              /\ attempt'[q] = attempt[q] /\ callback'[q] = callback[q]
              /\ link'[q] = link[q] /\ owner'[q] = owner[q]
  <1>1. /\ attempt \in [Gateways -> [Roles -> Stages]]
        /\ callback \in [Gateways -> [Contexts -> {None} \cup Captured]]
        /\ link \in [Gateways -> {"none", "up", "lost"}] /\ owner \in [Gateways -> Runners \cup {None}]
    BY TypeParts DEF TypeAdapter, TypeAttempt, TypeCallback
  <1>2. "watchdog" \in Roles /\ "stop" \in Roles /\ "watchdog" \in Contexts
    BY DEF Roles, Runners, Contexts
  <1>3. PICK x \in {attempt[g]["stop"], "none"} :
          attempt' = [attempt EXCEPT
            ![g]["watchdog"] = IF attempt[g]["watchdog"] \in {"announce", "refresh"} /\ owner[g] = "watchdog"
                                 THEN "undo" ELSE "none",
            ![g]["stop"] = x]
    BY <1>1, <1>2 DEF Discard
  <1>4. attempt[g]["stop"] \in Stages /\ "none" \in Stages /\ "undo" \in Stages
    BY <1>1, <1>2 DEF Stages
  <1>5. attempt' \in [Gateways -> [Roles -> Stages]]  BY ONLY <1>1, <1>2, <1>3, <1>4
  <1>6. /\ attempt'[g]["watchdog"] =
             IF attempt[g]["watchdog"] \in {"announce", "refresh"} /\ owner[g] = "watchdog"
               THEN "undo" ELSE "none"
        /\ attempt'[g]["stop"] = x
        /\ \A s \in Roles : s \notin {"watchdog", "stop"} => attempt'[g][s] = attempt[g][s]
        /\ \A q \in Gateways : q # g => attempt'[q] = attempt[q]
    BY ONLY <1>1, <1>2, <1>3
  <1>7. callback' = [callback EXCEPT ![g]["watchdog"] = None]  BY DEF Discard
  <1>8. /\ callback' \in [Gateways -> [Contexts -> {None} \cup Captured]]
        /\ callback'[g]["watchdog"] = None
        /\ \A d \in Contexts : d # "watchdog" => callback'[g][d] = callback[g][d]
        /\ \A q \in Gateways : q # g => callback'[q] = callback[q]
    BY ONLY <1>1, <1>2, <1>7
  <1>9. /\ link' \in [Gateways -> {"none", "up", "lost"}]
        /\ owner' \in [Gateways -> Runners \cup {None}]
        /\ IF attempt[g]["watchdog"] # "none" /\ owner[g] = "watchdog"
             THEN link'[g] = "none" /\ owner'[g] = None
             ELSE link'[g] = link[g] /\ owner'[g] = owner[g]
        /\ \A q \in Gateways : q # g => link'[q] = link[q] /\ owner'[q] = owner[q]
    BY ONLY <1>1, Discard(g, "watchdog", stopping) DEF Discard
  <1>10. QED  BY ONLY <1>5, <1>6, <1>8, <1>9

\* A watchdog moves, alone.
LEMMA GoEffect ==
  ASSUME TypeOK, NEW g \in Gateways, NEW pc \in Places, WatchdogGo(g, pc)
  PROVE  /\ watchdog' \in [Gateways -> Places] /\ watchdog'[g] = pc
         /\ \A q \in Gateways : q # g => watchdog'[q] = watchdog[q]
  BY TypeParts DEF WatchdogGo, TypeWatchdog

-----------------------------------------------------------------------------
(* Type correctness *)

\* The types of the next state, read over the gateways of this one.
LEMMA TypeNext ==
  ASSUME scenario' = scenario, TypeOK
  PROVE  /\ /\ connected' \in [Gateways -> BOOLEAN]
            /\ link' \in [Gateways -> {"none", "up", "lost"}]
            /\ owner' \in [Gateways -> Runners \cup {None}]
            /\ epoch' \in [Gateways -> Runners \cup {None}]
            => TypeAdapter'
         /\ attempt' \in [Gateways -> [Roles -> Stages]] => TypeAttempt'
         /\ /\ known' \in [Gateways -> BOOLEAN] /\ told' \in [Gateways -> BOOLEAN]
            /\ repeated' \cup missed' \subseteq Gateways
            => TypeNews'
         /\ callback' \in [Gateways -> [Contexts -> {None} \cup Captured]] => TypeCallback'
         /\ /\ startup' \in {"none", "created", "starting", "flush", "unwinding"}
            /\ joined' \in [Gateways -> {"idle", "waiting", "ok", "failed"}]
            /\ cancelled' \subseteq Tasks
            => TypeTasks'
         /\ watchdog' \in [Gateways -> Places] => TypeWatchdog'
  <1>1. Gateways' = Gateways /\ Contexts' = Contexts  BY SameWorld
  <1>2. Tasks' = Tasks  BY <1>1 DEF Tasks, StartupTask, WatchdogTask
  <1>3. /\ connected' \in [Gateways -> BOOLEAN]
        /\ link' \in [Gateways -> {"none", "up", "lost"}]
        /\ owner' \in [Gateways -> Runners \cup {None}]
        /\ epoch' \in [Gateways -> Runners \cup {None}]
        => TypeAdapter'
    BY ONLY <1>1 DEF TypeAdapter
  <1>4. attempt' \in [Gateways -> [Roles -> Stages]] => TypeAttempt'  BY ONLY <1>1 DEF TypeAttempt
  <1>5. /\ known' \in [Gateways -> BOOLEAN] /\ told' \in [Gateways -> BOOLEAN]
        /\ repeated' \cup missed' \subseteq Gateways
        => TypeNews'
    BY ONLY <1>1 DEF TypeNews
  <1>6. callback' \in [Gateways -> [Contexts -> {None} \cup Captured]] => TypeCallback'
    BY ONLY <1>1 DEF TypeCallback
  <1>7. /\ startup' \in {"none", "created", "starting", "flush", "unwinding"}
        /\ joined' \in [Gateways -> {"idle", "waiting", "ok", "failed"}]
        /\ cancelled' \subseteq Tasks
        => TypeTasks'
    BY ONLY <1>1, <1>2 DEF TypeTasks
  <1>8. watchdog' \in [Gateways -> Places] => TypeWatchdog'  BY ONLY <1>1 DEF TypeWatchdog
  <1>9. QED  BY ONLY <1>3, <1>4, <1>5, <1>6, <1>7, <1>8

\* What is typed now, over the gateways.
LEMMA TypesNow ==
  ASSUME TypeOK
  PROVE  /\ connected \in [Gateways -> BOOLEAN]
         /\ link \in [Gateways -> {"none", "up", "lost"}]
         /\ owner \in [Gateways -> Runners \cup {None}]
         /\ epoch \in [Gateways -> Runners \cup {None}]
         /\ attempt \in [Gateways -> [Roles -> Stages]]
         /\ known \in [Gateways -> BOOLEAN] /\ told \in [Gateways -> BOOLEAN]
         /\ repeated \cup missed \subseteq Gateways
         /\ callback \in [Gateways -> [Contexts -> {None} \cup Captured]]
         /\ startup \in {"none", "created", "starting", "flush", "unwinding"}
         /\ joined \in [Gateways -> {"idle", "waiting", "ok", "failed"}]
         /\ cancelled \subseteq Tasks
         /\ watchdog \in [Gateways -> Places]
  BY TypeParts DEF TypeAdapter, TypeAttempt, TypeNews, TypeCallback, TypeTasks, TypeWatchdog

\* The type invariant of the next state, from its parts.
LEMMA TypePartsNext ==
  ASSUME (scenario \in Scenarios)', TypeLife', TypeAdapter', TypeAttempt', TypeNews',
         TypeCallback', TypeTasks', TypeWatchdog'
  PROVE  TypeOK'
  BY DEF TypeOK, TypeLife, TypeAdapter, TypeAttempt, TypeNews, TypeCallback, TypeTasks,
         TypeWatchdog, Stages, Places, Captured, Tasks

\* Each action keeps the types: one lemma for each, in the order of the model.
LEMMA OpenFailsTyped ==
  ASSUME TypeOK, NEW g \in Gateways, NEW r \in Runners, OpenFails(g, r)
  PROVE  TypeOK'
  <1>1. /\ UNCHANGED <<scenario, lifecycle, connected, link, owner, epoch, callback, startup, cancelled>>
        /\ scenario' = scenario
    BY DEF OpenFails
  <1>2. PICK result \in {"ok", "failed"} :
          /\ Return(g, r, result)
          /\ \/ TellDown(g) /\ watchdog' = Schedule(WatchdogReturn(g, r, result), g)
             \/ UNCHANGED news /\ watchdog' = WatchdogReturn(g, r, result)
    BY DEF OpenFails
  <1>3. TypeAttempt' /\ TypeTasks'
    BY <1>1, <1>2, ReturnEffect, TypeNext, TypesNow
  <1>4. TypeWatchdog'
    <2>1. WatchdogReturn(g, r, result) \in [Gateways -> Places]  BY WatchdogReturnEffect
    <2>2. Schedule(WatchdogReturn(g, r, result), g) \in [Gateways -> Places]
      BY ONLY <2>1, ScheduleEffect, g \in Gateways
    <2>3. watchdog' \in [Gateways -> Places]  BY <1>2, <2>1, <2>2
    <2>4. QED  BY <1>1, <2>3, TypeNext
  <1>5. TypeNews'  BY <1>1, <1>2, TellDownEffect, TypeNext, TypeFrame
  <1>6. QED  BY <1>1, <1>3, <1>4, <1>5, TypeFrame, TypePartsNext

\* A start publishes its interface, or closes it.
LEMMA OpenTyped ==
  ASSUME TypeOK, NEW g \in Gateways, NEW r \in Runners, Open(g, r)
  PROVE  TypeOK'
  <1>0. UNCHANGED <<scenario, lifecycle, epoch, news, startup>> /\ scenario' = scenario /\ UNCHANGED lifecycle
    BY DEF Open
  <1>1. CASE MayPublish(g, r)
    <2>1. /\ attempt' = [attempt EXCEPT ![g][r] = "announce"]
          /\ link' = [link EXCEPT ![g] = "up"]
          /\ owner' = [owner EXCEPT ![g] = r]
          /\ ReportUp(g, r)
          /\ UNCHANGED <<joined, watchdog>>
      BY <1>1 DEF Open
    <2>2. r \in Contexts  BY TypeParts, ScenarioFacts
    <2>3. attempt' \in [Gateways -> [Roles -> Stages]]
      BY ONLY <2>1, TypeOK, TypesNow, r \in Runners DEF Stages, Roles
    <2>4. link' \in [Gateways -> {"none", "up", "lost"}] /\ owner' \in [Gateways -> Runners \cup {None}]
      BY <2>1, TypesNow
    <2>5. QED
      BY <1>0, <2>1, <2>2, <2>3, <2>4, ReportUpEffect, TypesNow, TypeNext, TypeFrame, TypePartsNext
  <1>2. CASE ~MayPublish(g, r)
    <2>1. /\ Return(g, r, "ok") /\ watchdog' = WatchdogReturn(g, r, "ok")
          /\ UNCHANGED <<connected, link, owner, callback, cancelled>>
      BY <1>2 DEF Open
    <2>2. QED
      BY <1>0, <2>1, ReturnEffect, WatchdogReturnEffect, TypesNow, TypeNext, TypeFrame, TypePartsNext
  <1>3. QED  BY <1>1, <1>2

\* The connected callback of a start returns.
LEMMA AnnouncedTyped ==
  ASSUME TypeOK, NEW g \in Gateways, NEW r \in Runners, Announced(g, r)
  PROVE  TypeOK'
  <1>0. /\ UNCHANGED <<connected, link, owner, epoch, startup, cancelled>>
        /\ scenario' = scenario /\ UNCHANGED lifecycle /\ ConcludeIn(g, r)
    BY DEF Announced
  <1>1. r \in Contexts  BY TypeParts, ScenarioFacts
  <1>2. TypeCallback' /\ TypeNews'  BY <1>0, <1>1, ConcludeInEffect, TypeNext
  <1>3. TypeAttempt' /\ TypeTasks' /\ TypeWatchdog'
    <2>1. CASE epoch[g] = r
      <3>1. attempt' = [attempt EXCEPT ![g][r] = "refresh"] /\ UNCHANGED <<joined, watchdog>>
        BY <2>1 DEF Announced
      <3>2. attempt' \in [Gateways -> [Roles -> Stages]]
        BY ONLY <3>1, TypeOK, TypesNow, r \in Runners DEF Stages, Roles
      <3>3. QED  BY <1>0, <3>1, <3>2, TypeNext, TypeFrame
    <2>2. CASE epoch[g] # r
      <3>1. Return(g, r, "ok") /\ watchdog' = WatchdogReturn(g, r, "ok")
        BY <2>2 DEF Announced
      <3>2. QED  BY <1>0, <3>1, ReturnEffect, WatchdogReturnEffect, TypesNow, TypeNext
    <2>3. QED  BY <2>1, <2>2
  <1>4. QED  BY <1>0, <1>2, <1>3, TypeFrame, TypePartsNext

\* The refresh of a start returns.
LEMMA RefreshedTyped ==
  ASSUME TypeOK, NEW g \in Gateways, NEW r \in Runners, Refreshed(g, r)
  PROVE  TypeOK'
  <1>1. /\ UNCHANGED <<connected, link, owner, epoch, startup, cancelled>>
        /\ scenario' = scenario /\ UNCHANGED lifecycle /\ UNCHANGED <<news, callback>>
        /\ Return(g, r, "ok") /\ watchdog' = WatchdogReturn(g, r, "ok")
    BY DEF Refreshed, events
  <1>2. QED
    BY <1>1, ReturnEffect, WatchdogReturnEffect, TypesNow, TypeNext, TypeFrame, TypePartsNext

\* The refresh of a start raises.
LEMMA RefreshFailsTyped ==
  ASSUME TypeOK, NEW g \in Gateways, RefreshFails(g)
  PROVE  TypeOK'
  <1>1. /\ UNCHANGED <<connected, epoch, startup, cancelled>>
        /\ scenario' = scenario /\ UNCHANGED lifecycle /\ UNCHANGED <<news, callback>>
        /\ link' = [link EXCEPT ![g] = "none"] /\ owner' = [owner EXCEPT ![g] = None]
        /\ Return(g, "client", "failed") /\ watchdog' = WatchdogReturn(g, "client", "failed")
    BY DEF RefreshFails, events
  <1>2. link' \in [Gateways -> {"none", "up", "lost"}] /\ owner' \in [Gateways -> Runners \cup {None}]
    BY <1>1, TypesNow
  <1>3. "client" \in Runners  BY DEF Runners
  <1>4. QED
    BY <1>1, <1>2, <1>3, ReturnEffect, WatchdogReturnEffect, TypesNow, TypeNext, TypeFrame, TypePartsNext

\* A start that was cancelled reports its gateway as not connected.
LEMMA UndoneTyped ==
  ASSUME TypeOK, NEW g \in Gateways, NEW r \in Runners, Undone(g, r)
  PROVE  TypeOK'
  <1>1. /\ UNCHANGED <<link, owner, epoch, callback, startup, joined, cancelled>>
        /\ scenario' = scenario /\ UNCHANGED lifecycle
        /\ attempt' = [attempt EXCEPT ![g][r] = "none"]
        /\ \/ ReportDown(g, watchdog)
           \/ UNCHANGED connected /\ UNCHANGED news /\ UNCHANGED watchdog
    BY DEF Undone
  <1>2. attempt' \in [Gateways -> [Roles -> Stages]]
    BY ONLY <1>1, TypeOK, TypesNow, r \in Runners DEF Stages, Roles
  <1>3. TypeAdapter' /\ TypeNews' /\ TypeWatchdog'
    <2>1. CASE ReportDown(g, watchdog)
      BY <1>1, <2>1, ReportDownEffect, TellDownEffect, ScheduleEffect, TypesNow, TypeNext
    <2>2. CASE UNCHANGED connected /\ UNCHANGED news /\ UNCHANGED watchdog
      BY <1>1, <2>2, TypeFrame
    <2>3. QED  BY <1>1, <2>1, <2>2
  <1>4. QED  BY <1>1, <1>2, <1>3, TypeNext, TypeFrame, TypePartsNext

\* A report that a gateway is not connected keeps the types of what it sets.
LEMMA ReportDownTyped ==
  ASSUME TypeOK, NEW g \in Gateways, NEW w \in [Gateways -> Places], ReportDown(g, w)
  PROVE  /\ connected' \in [Gateways -> BOOLEAN]
         /\ known' \in [Gateways -> BOOLEAN] /\ told' \in [Gateways -> BOOLEAN]
         /\ repeated' \cup missed' \subseteq Gateways
         /\ watchdog' \in [Gateways -> Places]
  <1>1. connected' \in [Gateways -> BOOLEAN] /\ TellDown(g) /\ watchdog' = Schedule(w, g)
    BY ReportDownEffect
  <1>2. QED  BY <1>1, TellDownEffect, ScheduleEffect

\* A stop returns.
LEMMA StopDoneTyped ==
  ASSUME TypeOK, NEW g \in Gateways, StopDone(g)
  PROVE  TypeOK'
  <1>1. /\ UNCHANGED <<shutting, suspended, generation, life, drained, epoch, callback,
                       startup, joined, cancelled>>
        /\ scenario' = scenario
        /\ attempt' = [attempt EXCEPT ![g]["stop"] = "none"]
        /\ link' = [link EXCEPT ![g] = "none"] /\ owner' = [owner EXCEPT ![g] = None]
        /\ stopped' \in {stopped, stopped \cup {g}}
    BY DEF StopDone
  <1>2. PICK w \in {watchdog, [watchdog EXCEPT ![g] = "stopped"]} : ReportDown(g, w)
    BY DEF StopDone
  <1>3. w \in [Gateways -> Places]  BY <1>2, TypesNow DEF Places
  <1>4. TypeLife'  BY <1>1, TypeParts, SameWorld DEF TypeLife
  <1>5. link' \in [Gateways -> {"none", "up", "lost"}] /\ owner' \in [Gateways -> Runners \cup {None}]
    BY <1>1, TypesNow
  <1>6. attempt' \in [Gateways -> [Roles -> Stages]]
    BY ONLY <1>1, TypeOK, TypesNow DEF Stages, Roles
  <1>7. TypeAdapter' /\ TypeNews' /\ TypeWatchdog'
    BY <1>1, <1>2, <1>3, <1>5, ReportDownTyped, TypesNow, TypeNext
  <1>8. QED  BY <1>1, <1>4, <1>6, <1>7, TypeNext, TypeFrame, TypePartsNext

\* A stop raises.
LEMMA StopRaisesTyped ==
  ASSUME TypeOK, NEW g \in Gateways, StopRaises(g)
  PROVE  TypeOK'
  <1>1. /\ UNCHANGED <<shutting, generation, drained, connected, link, owner, epoch, news,
                       callback, startup, joined, cancelled>>
        /\ scenario' = scenario
        /\ attempt' = [attempt EXCEPT ![g]["stop"] = "none"]
        /\ watchdog' \in {watchdog, [watchdog EXCEPT ![g] = "failed"]}
        /\ suspended' \in {suspended, FALSE} /\ life' \in {life, "run"}
        /\ stopped' \in {stopped, stopped \cup {g}, {}}
    BY DEF StopRaises, events
  <1>2. TypeLife'  BY <1>1, TypeParts, SameWorld DEF TypeLife
  <1>3. attempt' \in [Gateways -> [Roles -> Stages]]
    BY ONLY <1>1, TypeOK, TypesNow DEF Stages, Roles
  <1>4. watchdog' \in [Gateways -> Places]  BY <1>1, TypesNow DEF Places
  <1>5. UNCHANGED news /\ UNCHANGED <<connected, link, owner, epoch>>
    BY <1>1
  <1>6. QED  BY <1>1, <1>2, <1>3, <1>4, <1>5, TypeNext, TypeFrame, TypePartsNext

\* What a start left behind a stop is closed.
LEMMA LateCleanupTyped ==
  ASSUME TypeOK, NEW g \in Gateways, LateCleanup(g)
  PROVE  TypeOK'
  <1>1. /\ UNCHANGED <<connected, epoch, news, callback, startup, joined, cancelled, watchdog>>
        /\ scenario' = scenario /\ UNCHANGED lifecycle
        /\ attempt' = [attempt EXCEPT ![g]["client"] = "none"]
        /\ link' \in {link, [link EXCEPT ![g] = "none"]}
        /\ owner' \in {owner, [owner EXCEPT ![g] = None]}
    BY DEF LateCleanup, events, tasks
  <1>2. attempt' \in [Gateways -> [Roles -> Stages]]
    BY ONLY <1>1, TypeOK, TypesNow DEF Stages, Roles, Runners
  <1>3. link' \in [Gateways -> {"none", "up", "lost"}] /\ owner' \in [Gateways -> Runners \cup {None}]
    BY <1>1, TypesNow
  <1>4. UNCHANGED news  BY <1>1
  <1>5. QED  BY <1>1, <1>2, <1>3, <1>4, TypesNow, TypeNext, TypeFrame, TypePartsNext

\* The next gateway is stopped.
LEMMA StopNextTyped ==
  ASSUME TypeOK, NEW g \in Gateways, StopNext(g)
  PROVE  TypeOK'
  <1>1. /\ UNCHANGED <<connected, link, owner, news, callback, startup, joined, cancelled, watchdog>>
        /\ scenario' = scenario /\ UNCHANGED lifecycle /\ CallStop(g) /\ UNCHANGED news
    BY DEF StopNext, events, tasks
  <1>2. QED  BY <1>1, CallStopEffect, TypesNow, TypeNext, TypeFrame, TypePartsNext

\* A link is lost.
LEMMA LoseTyped ==
  ASSUME TypeOK, NEW g \in Gateways, Lose(g)
  PROVE  TypeOK'
  <1>1. /\ UNCHANGED <<owner, epoch, attempt, callback, startup, joined, cancelled>>
        /\ scenario' = scenario /\ UNCHANGED lifecycle
        /\ link' = [link EXCEPT ![g] = "lost"] /\ ReportDown(g, watchdog)
    BY DEF Lose
  <1>2. link' \in [Gateways -> {"none", "up", "lost"}]  BY <1>1, TypesNow
  <1>3. TypeAdapter' /\ TypeNews' /\ TypeWatchdog'
    BY <1>1, <1>2, ReportDownTyped, TypesNow, TypeNext
  <1>4. QED  BY <1>1, <1>3, TypeFrame, TypePartsNext

\* A provider event reports that the gateway is connected.
LEMMA ReportedTyped ==
  ASSUME TypeOK, NEW g \in Gateways, NEW c \in Slots, Restore(g, c) \/ Traffic(g, c)
  PROVE  TypeOK'
  <1>1. /\ UNCHANGED <<owner, epoch, attempt, news, startup, joined, watchdog>>
        /\ scenario' = scenario /\ UNCHANGED lifecycle /\ UNCHANGED news
        /\ link' \in {link, [link EXCEPT ![g] = "up"]} /\ ReportUp(g, c)
    BY DEF Restore, Traffic
  <1>2. link' \in [Gateways -> {"none", "up", "lost"}]  BY <1>1, TypesNow
  <1>3. c \in Contexts  BY TypeParts, ScenarioFacts
  <1>4. TypeAdapter' /\ TypeCallback' /\ TypeTasks'
    BY <1>1, <1>2, <1>3, ReportUpEffect, TypesNow, TypeNext
  <1>5. QED  BY <1>1, <1>4, TypeFrame, TypePartsNext

\* The flush of a provider event is over.
LEMMA EventConcludedTyped ==
  ASSUME TypeOK, NEW g \in Gateways, NEW c \in Slots, EventConcluded(g, c)
  PROVE  TypeOK'
  <1>1. /\ UNCHANGED <<connected, link, owner, epoch>> /\ UNCHANGED <<startup, joined, cancelled>>
        /\ UNCHANGED attempt /\ UNCHANGED watchdog
        /\ scenario' = scenario /\ UNCHANGED lifecycle /\ ConcludeIn(g, c)
    BY DEF EventConcluded, adapter, tasks
  <1>2. c \in Contexts  BY TypeParts, ScenarioFacts
  <1>3. TypeCallback' /\ TypeNews'  BY <1>1, <1>2, ConcludeInEffect, TypeNext
  <1>4. QED  BY <1>1, <1>3, TypeFrame, TypePartsNext

\* A watchdog that may call async_start or async_stop.
LEMMA WatchdogCallsTyped ==
  ASSUME TypeOK, NEW g \in Gateways, WatchdogHead(g) \/ WatchdogWake(g) \/ WatchdogStart(g)
  PROVE  TypeOK'
  <1>1. /\ UNCHANGED <<connected, link, owner, news, callback, startup, joined, cancelled>>
        /\ scenario' = scenario /\ UNCHANGED lifecycle /\ UNCHANGED news
    BY DEF WatchdogHead, WatchdogWake, WatchdogStart, events
  <1>2. PICK pc \in Places : WatchdogGo(g, pc)
    BY DEF WatchdogHead, WatchdogWake, WatchdogStart, Places
  <1>3. (UNCHANGED <<epoch, attempt>>) \/ CallStop(g) \/ CallStart({g}, "watchdog")
    BY DEF WatchdogHead, WatchdogWake, WatchdogStart
  <1>4. epoch' \in [Gateways -> Runners \cup {None}] /\ attempt' \in [Gateways -> [Roles -> Stages]]
    <2>1. CASE UNCHANGED <<epoch, attempt>>  BY <2>1, TypesNow
    <2>2. CASE CallStop(g)  BY <2>2, CallStopEffect
    <2>3. CASE CallStart({g}, "watchdog")
      <3>1. {g} \in SUBSET Gateways  OBVIOUS
      <3>2. QED  BY <2>3, <3>1, CallStartEffect
    <2>4. QED  BY <1>3, <2>1, <2>2, <2>3
  <1>5. QED  BY <1>1, <1>2, <1>4, GoEffect, TypesNow, TypeNext, TypeFrame, TypePartsNext

\* A watchdog whose stop or start raised.
LEMMA WatchdogFailedTyped ==
  ASSUME TypeOK, NEW g \in Gateways, WatchdogFailed(g)
  PROVE  TypeOK'
  <1>1. /\ UNCHANGED <<connected, link, owner, epoch>> /\ UNCHANGED <<startup, joined, cancelled>>
        /\ UNCHANGED attempt /\ scenario' = scenario /\ UNCHANGED lifecycle
    BY DEF WatchdogFailed, adapter
  <1>2. PICK pc \in Places : WatchdogGo(g, pc)
    BY DEF WatchdogFailed, Places
  <1>3. TypeNews'
    BY <1>1, TellDownEffect, TypeNext, TypeFrame DEF WatchdogFailed, events
  <1>4. callback' \in [Gateways -> [Contexts -> {None} \cup Captured]]
    <2>1. \/ UNCHANGED callback
          \/ callback' = [callback EXCEPT ![g]["watchdog"] = [prev |-> known[g], gen |-> generation]]
      BY DEF WatchdogFailed, events
    <2>2. known[g] \in BOOLEAN /\ generation \in 1..(MaxReloads + 1)
      BY TypeParts DEF TypeNews, TypeLife
    <2>3. [prev |-> known[g], gen |-> generation] \in Captured  BY ONLY <2>2, Zenon DEF Captured
    <2>4. "watchdog" \in Contexts  BY DEF Contexts, Runners
    <2>5. callback \in [Gateways -> [Contexts -> {None} \cup Captured]]  BY TypesNow
    <2>6. QED  BY ONLY <2>1, <2>3, <2>4, <2>5
  <1>5. QED  BY <1>1, <1>2, <1>3, <1>4, GoEffect, TypeNext, TypeFrame, TypePartsNext

\* A watchdog whose start returned.
LEMMA WatchdogLooksTyped ==
  ASSUME TypeOK, NEW g \in Gateways, WatchdogLooks(g)
  PROVE  TypeOK'
  <1>1. /\ UNCHANGED <<connected, link, owner, epoch>> /\ UNCHANGED <<startup, joined, cancelled>>
        /\ UNCHANGED attempt /\ scenario' = scenario /\ UNCHANGED lifecycle
        /\ ConcludeIn(g, "watchdog")
    BY DEF WatchdogLooks, adapter
  <1>2. PICK pc \in Places : WatchdogGo(g, pc)
    BY DEF WatchdogLooks, Places
  <1>3. "watchdog" \in Contexts  BY DEF Contexts, Runners
  <1>4. TypeCallback' /\ TypeNews'  BY <1>1, <1>3, ConcludeInEffect, TypeNext
  <1>5. QED  BY <1>1, <1>2, <1>4, GoEffect, TypeNext, TypeFrame, TypePartsNext

\* A cancellation reaches a watchdog.
LEMMA WatchdogUnwindsTyped ==
  ASSUME TypeOK, NEW g \in Gateways, WatchdogUnwinds(g)
  PROVE  TypeOK'
  <1>1. /\ UNCHANGED <<connected, epoch, news, startup, joined, cancelled>>
        /\ scenario' = scenario /\ UNCHANGED lifecycle /\ UNCHANGED news
        /\ WatchdogGo(g, "unwinding") /\ Discard(g, "watchdog", watchdog[g] = "stopping")
    BY DEF WatchdogUnwinds
  <1>2. (watchdog[g] = "stopping") \in BOOLEAN /\ "unwinding" \in Places  BY DEF Places
  <1>3. QED  BY <1>1, <1>2, DiscardEffect, GoEffect, TypesNow, TypeNext, TypeFrame, TypePartsNext

\* A watchdog ends, and its registration is cleared.
LEMMA WatchdogEndsTyped ==
  ASSUME TypeOK, NEW g \in Gateways, WatchdogUnwound(g) \/ WatchdogCleared(g)
  PROVE  TypeOK'
  <1>1. /\ UNCHANGED <<connected, link, owner, epoch, news, callback, startup, joined>>
        /\ UNCHANGED attempt /\ UNCHANGED news /\ scenario' = scenario /\ UNCHANGED lifecycle
        /\ cancelled' \subseteq cancelled
    BY DEF WatchdogUnwound, WatchdogCleared, adapter, events
  <1>2. PICK pc \in Places : WatchdogGo(g, pc)
    BY DEF WatchdogUnwound, WatchdogCleared, Places
  <1>3. cancelled' \subseteq Tasks  BY <1>1, TypesNow
  <1>4. QED  BY <1>1, <1>2, <1>3, GoEffect, TypesNow, TypeNext, TypeFrame, TypePartsNext

\* The startup begins.
LEMMA StartupBeginsTyped ==
  ASSUME TypeOK, StartupBegins
  PROVE  TypeOK'
  <1>1. /\ UNCHANGED <<connected, link, owner, news, callback, cancelled, watchdog>>
        /\ scenario' = scenario /\ UNCHANGED lifecycle /\ UNCHANGED news
        /\ startup' \in {"none", "starting"}
        /\ joined' \in {joined, [g \in Gateways |-> "waiting"]}
        /\ (UNCHANGED <<epoch, attempt>>) \/ CallStart(Gateways, "startup")
    BY DEF StartupBegins, events
  <1>2. epoch' \in [Gateways -> Runners \cup {None}] /\ attempt' \in [Gateways -> [Roles -> Stages]]
    BY <1>1, TypesNow, CallStartEffect
  <1>3. joined' \in [Gateways -> {"idle", "waiting", "ok", "failed"}]  BY <1>1, TypesNow
  <1>4. QED  BY <1>1, <1>2, <1>3, TypesNow, TypeNext, TypeFrame, TypePartsNext

\* The startup has gathered its starts.
LEMMA StartupGatheredTyped ==
  ASSUME TypeOK, StartupGathered
  PROVE  TypeOK'
  <1>1. /\ UNCHANGED <<connected, link, owner, epoch>> /\ UNCHANGED attempt /\ UNCHANGED news
        /\ UNCHANGED callback /\ scenario' = scenario /\ UNCHANGED lifecycle
        /\ startup' \in {"none", "flush"} /\ cancelled' = cancelled
        /\ joined' = [g \in Gateways |-> "idle"]
        /\ watchdog' = [g \in Gateways |->
             IF joined[g] = "failed" THEN Schedule(watchdog, g)[g] ELSE watchdog[g]]
    BY DEF StartupGathered, adapter, events
  <1>2. joined' \in [Gateways -> {"idle", "waiting", "ok", "failed"}]  BY <1>1
  <1>3. watchdog' \in [Gateways -> Places]
    <2>1. watchdog \in [Gateways -> Places]  BY TypesNow
    <2>2. \A g \in Gateways : Schedule(watchdog, g) \in [Gateways -> Places]  BY <2>1, ScheduleEffect
    <2>3. QED  BY ONLY <1>1, <2>1, <2>2
  <1>4. QED  BY <1>1, <1>2, <1>3, TypesNow, TypeNext, TypeFrame, TypePartsNext

\* A cancellation reaches the startup.
LEMMA StartupUnwindsTyped ==
  ASSUME TypeOK, StartupUnwinds
  PROVE  TypeOK'
  <1>1. /\ UNCHANGED <<connected, epoch, news, cancelled, watchdog>> /\ UNCHANGED news
        /\ scenario' = scenario /\ UNCHANGED lifecycle
        /\ startup' = "unwinding" /\ joined' = [g \in Gateways |-> "idle"]
    BY DEF StartupUnwinds
  <1> DEFINE Published(g) == owner[g] = "startup" /\ attempt[g]["startup"] # "none"
  <1>2. /\ attempt' = [g \in Gateways |-> [attempt[g] EXCEPT !["startup"] =
             IF Published(g) THEN "undo" ELSE "none"]]
        /\ link' = [g \in Gateways |-> IF Published(g) THEN "none" ELSE link[g]]
        /\ owner' = [g \in Gateways |-> IF Published(g) THEN None ELSE owner[g]]
        /\ callback' = [g \in Gateways |-> [callback[g] EXCEPT !["startup"] = None]]
    BY DEF StartupUnwinds
  <1> HIDE DEF Published
  <1>3. "startup" \in Roles /\ "startup" \in Contexts /\ {"undo", "none"} \subseteq Stages
    BY DEF Roles, Runners, Contexts, Stages
  <1>4. /\ attempt \in [Gateways -> [Roles -> Stages]]
        /\ callback \in [Gateways -> [Contexts -> {None} \cup Captured]]
        /\ link \in [Gateways -> {"none", "up", "lost"}] /\ owner \in [Gateways -> Runners \cup {None}]
    BY TypesNow
  <1>5. attempt' \in [Gateways -> [Roles -> Stages]]
    <2>1. ASSUME NEW g \in Gateways
          PROVE  [attempt[g] EXCEPT !["startup"] = IF Published(g) THEN "undo" ELSE "none"] \in [Roles -> Stages]
      BY ONLY <1>3, <1>4
    <2>2. QED  BY ONLY <1>2, <2>1
  <1>6. callback' \in [Gateways -> [Contexts -> {None} \cup Captured]]
    <2>1. ASSUME NEW g \in Gateways
          PROVE  [callback[g] EXCEPT !["startup"] = None] \in [Contexts -> {None} \cup Captured]
      BY ONLY <1>3, <1>4
    <2>2. QED  BY ONLY <1>2, <2>1
  <1>7. link' \in [Gateways -> {"none", "up", "lost"}] /\ owner' \in [Gateways -> Runners \cup {None}]
    BY ONLY <1>2, <1>4
  <1>8. joined' \in [Gateways -> {"idle", "waiting", "ok", "failed"}]  BY <1>1
  <1>9. QED  BY <1>1, <1>5, <1>6, <1>7, <1>8, TypesNow, TypeNext, TypeFrame, TypePartsNext

\* The startup ends.
LEMMA StartupEndsTyped ==
  ASSUME TypeOK, StartupFlushed \/ StartupUnwound
  PROVE  TypeOK'
  <1>1. /\ UNCHANGED <<connected, link, owner, epoch>> /\ UNCHANGED attempt /\ UNCHANGED news
        /\ UNCHANGED callback /\ UNCHANGED watchdog /\ scenario' = scenario /\ UNCHANGED lifecycle
        /\ startup' = "none" /\ joined' = joined /\ cancelled' \subseteq cancelled
    BY DEF StartupFlushed, StartupUnwound, adapter, events
  <1>2. cancelled' \subseteq Tasks  BY <1>1, TypesNow
  <1>3. QED  BY <1>1, <1>2, TypesNow, TypeNext, TypeFrame, TypePartsNext

\* The fence goes up, or a shutdown is over.
LEMMA FencesTyped ==
  ASSUME TypeOK, BeginReload \/ BeginShutdown \/ FinishShutdown
  PROVE  TypeOK'
  <1>1. /\ UNCHANGED <<connected, link, owner, epoch>> /\ UNCHANGED attempt /\ UNCHANGED news
        /\ UNCHANGED callback /\ UNCHANGED watchdog /\ UNCHANGED <<startup, joined, cancelled>>
        /\ scenario' = scenario /\ UNCHANGED <<generation, stopped>>
        /\ shutting' \in {shutting, TRUE} /\ suspended' \in {suspended, TRUE}
        /\ drained' \in {drained, TRUE} /\ life' \in {"quiesce", "closed"}
    BY DEF BeginReload, BeginShutdown, FinishShutdown, adapter, events, tasks
  <1>2. TypeLife'  BY <1>1, TypeParts, SameWorld DEF TypeLife
  <1>3. QED  BY <1>1, <1>2, TypeFrame, TypePartsNext

\* The steps that wait behind a fence.
LEMMA DrainsTyped ==
  ASSUME TypeOK, Quiesced \/ StartupDrained \/ WatchdogsDrained
  PROVE  TypeOK'
  <1>1. /\ UNCHANGED <<connected, link, owner, epoch>> /\ UNCHANGED attempt /\ UNCHANGED news
        /\ UNCHANGED callback /\ startup' = startup /\ joined' = joined
        /\ scenario' = scenario /\ UNCHANGED <<shutting, generation, stopped>>
        /\ suspended' \in {suspended, FALSE} /\ drained' \in {drained, FALSE}
        /\ life' \in {"startup", "watchdogs", "stopping", "run"}
    BY DEF Quiesced, StartupDrained, WatchdogsDrained, adapter, events, Outcome
  <1>2. TypeLife'  BY <1>1, TypeParts, SameWorld DEF TypeLife
  <1>3. cancelled' \subseteq Tasks
    BY TypesNow DEF Quiesced, StartupDrained, WatchdogsDrained, Tasks
  <1>4. watchdog' \in [Gateways -> Places]
    BY TypesNow DEF Quiesced, StartupDrained, WatchdogsDrained, Places
  <1>5. QED  BY <1>1, <1>2, <1>3, <1>4, TypesNow, TypeNext, TypeFrame, TypePartsNext

\* A reload ends: the counter of generations stays within its bound.
LEMMA FinishReloadTyped ==
  ASSUME TypeOK, generation <= MaxReloads, FinishReload
  PROVE  TypeOK'
  <1>1. /\ UNCHANGED callback /\ UNCHANGED watchdog /\ joined' = joined /\ cancelled' = cancelled
        /\ scenario' = scenario /\ startup' = "created" /\ repeated' = repeated /\ missed' = {}
        /\ UNCHANGED <<shutting, drained>> /\ generation' = generation + 1
        /\ suspended' = FALSE /\ life' = "run" /\ stopped' = {}
        /\ connected' = [g \in Gateways |-> FALSE]
        /\ link' = [g \in Gateways |-> "none"]
        /\ owner' = [g \in Gateways |-> None]
        /\ epoch' = [g \in Gateways |-> None]
        /\ attempt' = [g \in Gateways |-> [r \in Roles |-> "none"]]
        /\ known' = [g \in Gateways |-> FALSE]
        /\ told' = [g \in Gateways |-> FALSE]
    BY DEF FinishReload
  <1>2. TypeLife'
    <2>1. generation + 1 \in 1..(MaxReloads + 1)
      BY TypeParts, ReloadsAssumption DEF TypeLife
    <2>2. QED  BY <1>1, <2>1, TypeParts, SameWorld DEF TypeLife
  <1>3. attempt' \in [Gateways -> [Roles -> Stages]]  BY <1>1 DEF Stages
  <1>4. TypeAdapter' /\ TypeNews' /\ TypeTasks'  BY <1>1, TypesNow, TypeNext
  <1>5. QED  BY <1>1, <1>2, <1>3, <1>4, TypeNext, TypeFrame, TypePartsNext

\* The first state is typed.
LEMMA InitTyped ==
  ASSUME Init
  PROVE  TypeOK
  <1>1. generation \in 1..(MaxReloads + 1)  BY ReloadsAssumption DEF Init
  <1>2. TypeLife  BY <1>1 DEF Init, TypeLife
  <1>3. TypeAdapter  BY DEF Init, TypeAdapter
  <1>4. TypeAttempt  BY DEF Init, TypeAttempt, Stages
  <1>5. TypeNews  BY DEF Init, TypeNews
  <1>6. TypeCallback  BY DEF Init, TypeCallback
  <1>7. TypeTasks  BY DEF Init, TypeTasks
  <1>8. TypeWatchdog  BY DEF Init, TypeWatchdog, Places
  <1>9. QED  BY <1>2, <1>3, <1>4, <1>5, <1>6, <1>7, <1>8, TypeParts DEF Init

-----------------------------------------------------------------------------
(* The invariant *)

\* The fences, the lifecycle and what it has waited for.  A startup task that
\* outlives its wait is one that has been cancelled; a reload gives up unless
\* all has ended, so that only a shutdown stops gateways beside living tasks.
LifeInv ==
  /\ life = "run" <=> ~Fenced
  /\ life = "closed" => shutting /\ stopped = Gateways
  /\ stopped # {} => life \in {"stopping", "closed"}
  /\ life \in {"startup", "watchdogs", "stopping", "closed"} /\ startup # "none" => Cancelled(StartupTask)
  /\ life \in {"watchdogs", "stopping"} /\ drained => startup = "none"
  /\ life = "stopping" /\ ~shutting => drained
  /\ life # "run" /\ ~shutting => "reload" \in Faults /\ generation <= MaxReloads
  /\ "reload" \in Faults /\ ReloadsComplete => drained

\* Gateways are stopped without a watchdog, unless waits have run out.
IdleAt(g) == life = "stopping" /\ drained => watchdog[g] = "none"

\* A startup task that has yet to run finds its gateways as they were built.
FreshAt(g) ==
  startup = "created" /\ ~Cancelled(StartupTask) =>
    /\ watchdog[g] = "none" /\ epoch[g] = None /\ owner[g] = None
    /\ \A r \in Roles : attempt[g][r] = "none"

\* Who runs the starts of an adapter of either kind.
KindAt(g) ==
  /\ g \in Meshtastic => attempt[g]["startup"] = "none" /\ attempt[g]["watchdog"] = "none"
  /\ g \notin Meshtastic => attempt[g]["client"] = "none"
  /\ \A r \in Runners : attempt[g][r] # "closing"
  /\ attempt[g]["stop"] \in {"none", "closing"}
  /\ link[g] = "none" <=> owner[g] = None

\* A start that runs in a task is at a place where that task is.
RunAt(g) ==
  /\ attempt[g]["watchdog"] = "undo" => watchdog[g] = "unwinding"
  /\ attempt[g]["watchdog"] \in {"opening", "announce", "refresh"} => watchdog[g] = "starting"
  /\ attempt[g]["startup"] = "undo" => startup = "unwinding"
  /\ attempt[g]["client"] # "undo"
  /\ attempt[g]["watchdog"] # "late" /\ attempt[g]["startup"] # "late"

\* While a stop is under way nobody may publish; only behind a shutdown does a
\* watchdog that has stopped its adapter meet another stop.
StopAt(g) ==
  /\ attempt[g]["stop"] = "closing" => epoch[g] = None
  /\ attempt[g]["stop"] = "closing" /\ watchdog[g] = "stopped" => shutting
  /\ watchdog[g] = "stopped" => epoch[g] = None /\ owner[g] = None

\* A start that may still publish finds no interface.
StartAt(g) ==
  \A r \in Runners :
    attempt[g][r] = "opening" /\ (epoch[g] = r \/ g \in Meshtastic) => owner[g] = None

\* A callback that will tell that gateway g is connected.
Announces(g, c) ==
  /\ callback[g][c] # None /\ callback[g][c].gen = generation /\ ~callback[g][c].prev
  /\ c \in Runners => attempt[g][c] = "announce" /\ owner[g] = c

\* What was told is not ahead of what is known, nor that of what is so; a
\* connection not told yet has a callback under way, or its end is.
ToldAt(g) ==
  /\ told[g] => known[g]
  /\ known[g] => connected[g]
  /\ connected[g] /\ ~told[g] =>
       (\E c \in Contexts : Announces(g, c)) \/ \E r \in Runners : attempt[g][r] = "undo"
EventAt(g) == ReloadsComplete /\ ~Fenced => ToldAt(g)

\* Behind a shutdown what has been stopped stays closed.
LeakAt(g) ==
  shutting /\ "raise" \notin Faults /\ g \in stopped =>
    epoch[g] = None /\ owner[g] = None /\ ~connected[g]

Local(g) == /\ IdleAt(g) /\ FreshAt(g) /\ KindAt(g) /\ RunAt(g) /\ StopAt(g) /\ StartAt(g)
            /\ EventAt(g) /\ LeakAt(g)

IInv == TypeOK /\ LifeInv /\ \A g \in Gateways : Local(g)

-----------------------------------------------------------------------------
(* What a step leaves alone *)

\* The lifecycle and the startup task are left alone.
Steady ==
  /\ scenario' = scenario /\ UNCHANGED lifecycle /\ startup' = startup
  /\ StartupTask \in cancelled' <=> StartupTask \in cancelled

\* Gateway q is left alone.
Untouched(q) ==
  /\ connected'[q] = connected[q] /\ link'[q] = link[q] /\ owner'[q] = owner[q]
  /\ epoch'[q] = epoch[q] /\ attempt'[q] = attempt[q]
  /\ known'[q] = known[q] /\ told'[q] = told[q]
  /\ callback'[q] = callback[q] /\ watchdog'[q] = watchdog[q]

\* What is read of the lifecycle is the same after a steady step.
LEMMA SteadyFacts ==
  ASSUME Steady
  PROVE  /\ Fenced' <=> Fenced
         /\ Cancelled(StartupTask)' <=> Cancelled(StartupTask)
         /\ startup' = startup /\ generation' = generation /\ life' = life /\ drained' = drained
         /\ shutting' = shutting /\ stopped' = stopped
         /\ Gateways' = Gateways /\ Meshtastic' = Meshtastic /\ Contexts' = Contexts
         /\ Faults' = Faults /\ (ReloadsComplete' <=> ReloadsComplete)
  <1>1. StartupTask' = StartupTask  BY DEF StartupTask
  <1>2. QED  BY SameWorld, <1>1 DEF Steady, Fenced, Cancelled, lifecycle

\* A steady step keeps the invariant of the lifecycle ...
LEMMA LifeSteady ==
  ASSUME Steady, LifeInv
  PROVE  LifeInv'
  BY ONLY SteadyFacts, Steady, LifeInv DEF LifeInv

\* ... and that of a gateway it leaves alone.
LEMMA LocalUntouched ==
  ASSUME Steady, NEW q \in Gateways, Untouched(q), Local(q)
  PROVE  Local(q)'
  <1>1. IdleAt(q)'  BY ONLY SteadyFacts, Steady, Untouched(q), Local(q) DEF Untouched, Local, IdleAt
  <1>2. FreshAt(q)'  BY ONLY SteadyFacts, Steady, Untouched(q), Local(q) DEF Untouched, Local, FreshAt
  <1>3. KindAt(q)'  BY ONLY SteadyFacts, Steady, Untouched(q), Local(q) DEF Untouched, Local, KindAt
  <1>4. RunAt(q)'  BY ONLY SteadyFacts, Steady, Untouched(q), Local(q) DEF Untouched, Local, RunAt
  <1>5. StopAt(q)'  BY ONLY SteadyFacts, Steady, Untouched(q), Local(q) DEF Untouched, Local, StopAt
  <1>6. StartAt(q)'  BY ONLY SteadyFacts, Steady, Untouched(q), Local(q) DEF Untouched, Local, StartAt
  <1>7. EventAt(q)'
    BY ONLY SteadyFacts, Steady, Untouched(q), Local(q) DEF Untouched, Local, EventAt, ToldAt, Announces
  <1>8. LeakAt(q)'  BY ONLY SteadyFacts, Steady, Untouched(q), Local(q) DEF Untouched, Local, LeakAt
  <1>9. QED  BY ONLY <1>1, <1>2, <1>3, <1>4, <1>5, <1>6, <1>7, <1>8 DEF Local

\* A step of one gateway.
LEMMA OneGateway ==
  ASSUME Steady, \A q \in Gateways : Local(q), LifeInv, NEW g \in Gateways,
         \A q \in Gateways : q # g => Untouched(q), Local(g)'
  PROVE  LifeInv' /\ (\A q \in Gateways : Local(q))'
  <1>1. \A q \in Gateways : Local(q)'  BY LocalUntouched
  <1>2. Gateways' = Gateways  BY SteadyFacts
  <1>3. QED  BY <1>1, <1>2, LifeSteady, Zenon

-----------------------------------------------------------------------------
(* Starts *)

\* A start that ends leaves everything but the events in order.
LEMMA ReturnLocal ==
  ASSUME Steady, TypeOK, LifeInv, NEW g \in Gateways, Local(g),
         NEW r \in Runners, NEW res \in {"ok", "failed"},
         attempt[g][r] \in {"opening", "announce", "refresh"}, Return(g, r, res),
         \/ watchdog' = WatchdogReturn(g, r, res)
         \/ watchdog' = Schedule(WatchdogReturn(g, r, res), g),
         epoch' = epoch, connected' = connected,
         \/ link'[g] = link[g] /\ owner'[g] = owner[g]
         \/ link'[g] = "none" /\ owner'[g] = None
  PROVE  IdleAt(g)' /\ FreshAt(g)' /\ KindAt(g)' /\ RunAt(g)' /\ StopAt(g)' /\ StartAt(g)' /\ LeakAt(g)'
  <1>1. /\ attempt'[g][r] \in {"none", "late"}
        /\ attempt'[g][r] = "late" => r = "client"
        /\ \A s \in Roles : s # r => attempt'[g][s] = attempt[g][s]
    BY ReturnEffect
  <1>2. \/ watchdog'[g] = watchdog[g]
        \/ /\ r # "startup" /\ watchdog[g] \in {"joining", "starting"}
           /\ watchdog'[g] \in {"head", "ok", "failed"}
        \/ ~Fenced /\ watchdog[g] = "none" /\ watchdog'[g] = "head"
    <2>1. /\ WatchdogReturn(g, r, res) \in [Gateways -> Places]
          /\ \/ WatchdogReturn(g, r, res)[g] = watchdog[g]
             \/ /\ r # "startup" /\ watchdog[g] \in {"joining", "starting"}
                /\ WatchdogReturn(g, r, res)[g] \in {"head", "ok", "failed"}
      BY WatchdogReturnEffect
    <2>2. \/ Schedule(WatchdogReturn(g, r, res), g)[g] = WatchdogReturn(g, r, res)[g]
          \/ /\ ~Fenced /\ WatchdogReturn(g, r, res)[g] = "none"
             /\ Schedule(WatchdogReturn(g, r, res), g)[g] = "head"
      BY ONLY <2>1, ScheduleEffect, g \in Gateways
    <2>3. CASE watchdog' = WatchdogReturn(g, r, res)  BY ONLY <2>1, <2>3
    <2>4. CASE watchdog' = Schedule(WatchdogReturn(g, r, res), g)  BY ONLY <2>1, <2>2, <2>4
    <2>5. QED  BY <2>3, <2>4
  <1>3. r \in Roles /\ r # "stop" /\ {"stop", "startup", "watchdog", "client"} \subseteq Roles
    BY DEF Roles, Runners

  <1>4. ~(startup = "created" /\ ~Cancelled(StartupTask))
    BY ONLY <1>3, Local(g), attempt[g][r] \in {"opening", "announce", "refresh"} DEF Local, FreshAt
  <1>5. IdleAt(g)'
    BY ONLY <1>2, Local(g), SteadyFacts, Steady, LifeInv DEF Local, IdleAt, LifeInv
  <1>6. FreshAt(g)'  BY ONLY <1>4, SteadyFacts, Steady DEF FreshAt
  <1>7. KindAt(g)'
    BY ONLY <1>1, <1>3, Local(g), SteadyFacts, Steady, r \in Runners,
            attempt[g][r] \in {"opening", "announce", "refresh"},
            \/ link'[g] = link[g] /\ owner'[g] = owner[g]
            \/ link'[g] = "none" /\ owner'[g] = None
       DEF Local, KindAt, Runners
  <1>8. RunAt(g)'
    BY ONLY <1>1, <1>2, <1>3, Local(g), SteadyFacts, Steady, r \in Runners,
            attempt[g][r] \in {"opening", "announce", "refresh"}
       DEF Local, KindAt, RunAt, Runners
  <1>9. StopAt(g)'
    BY ONLY <1>1, <1>2, <1>3, Local(g), SteadyFacts, Steady, r \in Runners, epoch' = epoch,
            \/ link'[g] = link[g] /\ owner'[g] = owner[g]
            \/ link'[g] = "none" /\ owner'[g] = None
       DEF Local, StopAt
  <1>10. StartAt(g)'
    BY ONLY <1>1, <1>3, Local(g), SteadyFacts, Steady, r \in Runners, epoch' = epoch,
            \/ link'[g] = link[g] /\ owner'[g] = owner[g]
            \/ link'[g] = "none" /\ owner'[g] = None
       DEF Local, StartAt, Runners, Roles
  <1>11. LeakAt(g)'
    BY ONLY Local(g), SteadyFacts, Steady, epoch' = epoch, connected' = connected,
            \/ link'[g] = link[g] /\ owner'[g] = owner[g]
            \/ link'[g] = "none" /\ owner'[g] = None
       DEF Local, LeakAt
  <1>12. QED  BY ONLY <1>5, <1>6, <1>7, <1>8, <1>9, <1>10, <1>11

-----------------------------------------------------------------------------
(* Events *)

\* A step that changes neither the status nor what is known and told keeps the events
\* in order when no callback that has something to tell is lost.
LEMMA EventKept ==
  ASSUME Steady, NEW g \in Gateways, EventAt(g),
         connected'[g] = connected[g], known'[g] = known[g], told'[g] = told[g],
         \A c \in Contexts : Announces(g, c) =>
           Announces(g, c)' \/ \E r \in Runners : attempt'[g][r] = "undo",
         \A r \in Runners : attempt[g][r] = "undo" => attempt'[g][r] = "undo"
  PROVE  EventAt(g)'
  <1> SUFFICES ASSUME ReloadsComplete', ~Fenced' PROVE ToldAt(g)'
    BY DEF EventAt
  <1>1. ToldAt(g)  BY SteadyFacts DEF EventAt
  <1>2. (told[g] => known[g])' /\ (known[g] => connected[g])'  BY <1>1 DEF ToldAt
  <1>3. ASSUME (connected[g] /\ ~told[g])'
        PROVE  (\E c \in Contexts : Announces(g, c)') \/ \E r \in Runners : attempt'[g][r] = "undo"
    BY <1>1, <1>3 DEF ToldAt
  <1>4. Contexts' = Contexts  BY SteadyFacts
  <1>5. (connected[g] /\ ~told[g])' =>
          ((\E c \in Contexts : Announces(g, c)) \/ \E r \in Runners : attempt[g][r] = "undo")'
    BY <1>3, <1>4
  <1>6. QED  BY ONLY <1>2, <1>5 DEF ToldAt

\* A report that a gateway is down leaves nothing to tell.
LEMMA EventDown ==
  ASSUME Steady, TypeOK, NEW g \in Gateways, EventAt(g), TellDown(g), ~connected'[g]
  PROVE  EventAt(g)'
  <1> SUFFICES ASSUME ReloadsComplete', ~Fenced' PROVE ToldAt(g)'
    BY DEF EventAt
  <1>1. ToldAt(g) /\ ~Fenced  BY SteadyFacts DEF EventAt
  <1>2. ~known'[g] /\ (told'[g] => told[g] /\ ~known[g])  BY <1>1, TellDownEffect
  <1>3. ~told'[g]  BY <1>1, <1>2 DEF ToldAt
  <1>4. QED  BY ONLY <1>2, <1>3, ~connected'[g] DEF ToldAt

\* A callback that ends tells what is so, unless it finds that told.
LEMMA EventConcludes ==
  ASSUME Steady, TypeOK, NEW g \in Gateways, NEW c \in Contexts, EventAt(g),
         ConcludeIn(g, c), connected'[g] = connected[g],
         \A d \in Contexts : d # c /\ Announces(g, d) => Announces(g, d)',
         \A r \in Runners : attempt[g][r] = "undo" => attempt'[g][r] = "undo"
  PROVE  EventAt(g)'
  <1> SUFFICES ASSUME ReloadsComplete', ~Fenced' PROVE ToldAt(g)'
    BY DEF EventAt
  <1>1. ToldAt(g) /\ ~Fenced  BY SteadyFacts DEF EventAt
  <1>2. Contexts' = Contexts  BY SteadyFacts
  <1>3. ASSUME connected[g], ~told[g], ~Announces(g, c)
        PROVE  (\E d \in Contexts : Announces(g, d)') \/ \E r \in Runners : attempt'[g][r] = "undo"
    BY <1>1, <1>3 DEF ToldAt
  <1>4. CASE callback[g][c] # None /\ Current(callback[g][c].gen)
    <2>1. /\ known'[g] <=> connected[g]
          /\ told'[g] <=> IF callback[g][c].prev = connected[g] THEN told[g] ELSE connected[g]
      BY <1>4, ConcludeInEffect
    <2>2. (told[g] => known[g])'  BY ONLY <1>1, <2>1 DEF ToldAt
    <2>3. (known[g] => connected[g])'  BY ONLY <2>1, connected'[g] = connected[g]
    <2>4. connected[g] \in BOOLEAN /\ callback[g][c] \in Captured
      BY <1>4, TypesNow
    <2>5. callback[g][c].prev \in BOOLEAN  BY <2>4 DEF Captured
    <2>6. ASSUME (connected[g] /\ ~told[g])'
          PROVE  connected[g] /\ ~told[g] /\ ~Announces(g, c)
      BY ONLY <2>1, <2>4, <2>5, <2>6, connected'[g] = connected[g] DEF Announces
    <2>7. QED  BY ONLY <1>2, <1>3, <2>2, <2>3, <2>6 DEF ToldAt
  <1>5. CASE ~(callback[g][c] # None /\ Current(callback[g][c].gen))
    <2>1. known' = known /\ told' = told
      <3>1. UNCHANGED news  BY <1>5, ConcludeInEffect
      <3>2. QED  BY ONLY <3>1 DEF news
    <2>2. ~Announces(g, c)  BY ONLY <1>1, <1>5 DEF Announces, Current, Fenced
    <2>3. QED  BY ONLY <1>1, <1>2, <1>3, <2>1, <2>2, connected'[g] = connected[g] DEF ToldAt
  <1>6. QED  BY <1>4, <1>5

\* A report that a gateway is up has its callback under way.
LEMMA EventUp ==
  ASSUME Steady, TypeOK, NEW g \in Gateways, NEW c \in Contexts, EventAt(g), ~Announces(g, c),
         ReportUp(g, c), known' = known, told' = told,
         c \in Runners => attempt'[g][c] = "announce" /\ owner'[g] = c,
         \A d \in Contexts : d # c /\ Announces(g, d) => Announces(g, d)',
         \A r \in Runners : attempt[g][r] = "undo" => attempt'[g][r] = "undo"
  PROVE  EventAt(g)'
  <1> SUFFICES ASSUME ReloadsComplete', ~Fenced' PROVE ToldAt(g)'
    BY DEF EventAt
  <1>1. ToldAt(g) /\ ~Fenced /\ generation' = generation  BY SteadyFacts DEF EventAt
  <1>2. Contexts' = Contexts  BY SteadyFacts
  <1>3. connected'[g] /\ callback'[g][c] = [prev |-> known[g], gen |-> generation]
    BY <1>1, ReportUpEffect
  <1>4. known[g] \in BOOLEAN /\ callback'[g][c] # None
    <2>1. known[g] \in BOOLEAN  BY TypesNow
    <2>2. generation \in 1..(MaxReloads + 1)  BY TypeParts DEF TypeLife
    <2>3. None # [prev |-> known[g], gen |-> generation]
      BY <2>1, <2>2, NoneAssumption
    <2>4. QED  BY <1>3, <2>1, <2>3
  <1>5. CASE ~known[g]
    <2>1. Announces(g, c)'  BY ONLY <1>1, <1>3, <1>4, <1>5,
            c \in Runners => attempt'[g][c] = "announce" /\ owner'[g] = c DEF Announces
    <2>2. QED  BY ONLY <1>1, <1>2, <1>3, <2>1, c \in Contexts, known' = known, told' = told DEF ToldAt
  <1>6. CASE known[g]
    <2>1. connected[g]  BY <1>1, <1>6 DEF ToldAt
    <2>2. ~told[g] => (\E d \in Contexts : Announces(g, d)') \/ \E r \in Runners : attempt'[g][r] = "undo"
      BY <1>1, <2>1 DEF ToldAt
    <2>3. QED  BY ONLY <1>1, <1>2, <1>3, <2>2, known' = known, told' = told DEF ToldAt
  <1>7. QED  BY <1>4, <1>5, <1>6

-----------------------------------------------------------------------------
(* Starts *)

\* A start that ends without a report.
LEMMA ReturnQuietly ==
  ASSUME Steady, TypeOK, LifeInv, \A q \in Gateways : Local(q), NEW g \in Gateways,
         NEW r \in Runners, attempt[g][r] \in {"opening", "announce", "refresh"},
         NEW res \in {"ok", "failed"}, Return(g, r, res), watchdog' = WatchdogReturn(g, r, res),
         connected' = connected, epoch' = epoch, known' = known, told' = told, callback' = callback,
         \A q \in Gateways : q # g => link'[q] = link[q] /\ owner'[q] = owner[q],
         \/ link'[g] = link[g] /\ owner'[g] = owner[g] /\ attempt[g][r] # "announce"
         \/ /\ link'[g] = "none" /\ owner'[g] = None /\ attempt[g][r] # "announce"
            /\ g \in Meshtastic /\ r = "client"
  PROVE  LifeInv' /\ (\A q \in Gateways : Local(q))'
  <1>1. /\ \A s \in Roles : s # r => attempt'[g][s] = attempt[g][s]
        /\ \A q \in Gateways : q # g => attempt'[q] = attempt[q]
    BY ReturnEffect
  <1>2. \A q \in Gateways : q # g => watchdog'[q] = watchdog[q]  BY WatchdogReturnEffect
  <1>3. \A q \in Gateways : q # g => Untouched(q)  BY <1>1, <1>2 DEF Untouched
  <1>4. Local(g) /\ EventAt(g)  BY DEF Local
  <1>5. IdleAt(g)' /\ FreshAt(g)' /\ KindAt(g)' /\ RunAt(g)' /\ StopAt(g)' /\ StartAt(g)' /\ LeakAt(g)'
    BY <1>4, ReturnLocal
  <1>6. EventAt(g)'
    <2>1. \A c \in Contexts : Announces(g, c) => Announces(g, c)'
      <3>1. \A c \in Runners : g \in Meshtastic /\ attempt[g][c] = "announce" => c = "client"
        BY ONLY <1>4 DEF Local, KindAt, Runners
      <3>2. Runners \subseteq Roles  BY DEF Roles
      <3>3. QED
        BY ONLY <1>1, <3>1, <3>2, Steady, SteadyFacts, callback' = callback,
            \/ link'[g] = link[g] /\ owner'[g] = owner[g] /\ attempt[g][r] # "announce"
            \/ /\ link'[g] = "none" /\ owner'[g] = None /\ attempt[g][r] # "announce"
               /\ g \in Meshtastic /\ r = "client"
           DEF Announces
    <2>2. \A s \in Runners : attempt[g][s] = "undo" => attempt'[g][s] = "undo"
      BY <1>1 DEF Roles
    <2>3. QED  BY <1>4, <2>1, <2>2, EventKept
  <1>7. Local(g)'  BY ONLY <1>5, <1>6 DEF Local
  <1>8. QED  BY <1>3, <1>7, OneGateway

\* The endpoint cannot be opened.
LEMMA OpenFailsLocal ==
  ASSUME IInv, NEW g \in Gateways, NEW r \in Runners, OpenFails(g, r)
  PROVE  LifeInv' /\ (\A q \in Gateways : Local(q))'
  <1>0. TypeOK /\ LifeInv /\ (\A q \in Gateways : Local(q)) /\ Local(g)  BY DEF IInv
  <1>1. /\ UNCHANGED <<connected, link, owner, epoch, callback>>
        /\ Steady /\ attempt[g][r] = "opening"
    BY DEF OpenFails, Steady
  <1>2. PICK res \in {"ok", "failed"} :
          /\ Return(g, r, res)
          /\ \/ TellDown(g) /\ ~connected[g] /\ watchdog' = Schedule(WatchdogReturn(g, r, res), g)
             \/ UNCHANGED news /\ watchdog' = WatchdogReturn(g, r, res)
    BY DEF OpenFails
  <1>3. /\ \A s \in Roles : s # r => attempt'[g][s] = attempt[g][s]
        /\ \A q \in Gateways : q # g => attempt'[q] = attempt[q]
    BY <1>0, <1>2, ReturnEffect
  <1>4. \A q \in Gateways : q # g => Untouched(q)
    <2>1. /\ WatchdogReturn(g, r, res) \in [Gateways -> Places]
          /\ \A q \in Gateways : q # g => WatchdogReturn(g, r, res)[q] = watchdog[q]
      BY <1>0, WatchdogReturnEffect
    <2>2. \A q \in Gateways : q # g =>
            Schedule(WatchdogReturn(g, r, res), g)[q] = WatchdogReturn(g, r, res)[q]
      BY ONLY <2>1, ScheduleEffect, g \in Gateways
    <2>3. \A q \in Gateways : q # g => watchdog'[q] = watchdog[q]  BY ONLY <1>2, <2>1, <2>2
    <2>4. \A q \in Gateways : q # g => known'[q] = known[q] /\ told'[q] = told[q]
      <3>1. CASE TellDown(g)  BY <1>0, <3>1, TellDownEffect
      <3>2. CASE UNCHANGED news  BY ONLY <3>2 DEF news
      <3>3. QED  BY <1>2, <3>1, <3>2
    <2>5. QED  BY ONLY <1>1, <1>3, <2>3, <2>4 DEF Untouched
  <1>5. IdleAt(g)' /\ FreshAt(g)' /\ KindAt(g)' /\ RunAt(g)' /\ StopAt(g)' /\ StartAt(g)' /\ LeakAt(g)'
    BY <1>0, <1>1, <1>2, ReturnLocal
  <1>6. EventAt(g)'
    <2>0. EventAt(g) /\ r \in Roles  BY <1>0 DEF Local, Roles
    <2>1. CASE TellDown(g) /\ ~connected[g]
      BY <1>0, <1>1, <2>0, <2>1, EventDown
    <2>2. CASE UNCHANGED news
      <3>1. known' = known /\ told' = told  BY ONLY <2>2 DEF news
      <3>2. \A c \in Contexts : Announces(g, c) => Announces(g, c)'
        BY ONLY <1>1, <1>3, SteadyFacts DEF Announces, Runners, Roles
      <3>3. \A s \in Runners : attempt[g][s] = "undo" => attempt'[g][s] = "undo"
        BY ONLY <1>1, <1>3 DEF Roles
      <3>4. QED  BY <1>1, <2>0, <3>1, <3>2, <3>3, EventKept
    <2>3. QED  BY <1>2, <2>1, <2>2
  <1>7. Local(g)'  BY ONLY <1>5, <1>6 DEF Local
  <1>8. QED  BY <1>0, <1>1, <1>4, <1>7, OneGateway

\* The endpoint is open.
LEMMA OpenLocal ==
  ASSUME IInv, NEW g \in Gateways, NEW r \in Runners, Open(g, r)
  PROVE  LifeInv' /\ (\A q \in Gateways : Local(q))'
  <1>0. TypeOK /\ LifeInv /\ (\A q \in Gateways : Local(q)) /\ Local(g) /\ EventAt(g)  BY DEF IInv, Local
  <1>1. UNCHANGED <<scenario, lifecycle, epoch, news, startup>> /\ attempt[g][r] = "opening"
    BY DEF Open
  <1>2. known' = known /\ told' = told /\ epoch' = epoch  BY ONLY <1>1 DEF news
  <1>t. /\ {"stop", "startup", "watchdog", "client"} \subseteq Roles /\ r \in Roles /\ r \in Contexts
        /\ Runners = {"startup", "watchdog", "client"} /\ r # "stop"
        /\ attempt \in [Gateways -> [Roles -> Stages]] /\ owner \in [Gateways -> Runners \cup {None}]
        /\ link \in [Gateways -> {"none", "up", "lost"}] /\ None \notin Runners
    BY <1>0, TypesNow, TypeParts, ScenarioFacts DEF Roles, Runners
  <1>3. CASE MayPublish(g, r)
    <2>1. /\ attempt' = [attempt EXCEPT ![g][r] = "announce"]
          /\ link' = [link EXCEPT ![g] = "up"]
          /\ owner' = [owner EXCEPT ![g] = r]
          /\ ReportUp(g, r)
          /\ UNCHANGED <<joined, watchdog>>
      BY <1>3 DEF Open
    <2>2. /\ attempt'[g][r] = "announce" /\ link'[g] = "up" /\ owner'[g] = r
          /\ \A s \in Roles : s # r => attempt'[g][s] = attempt[g][s]
          /\ \A q \in Gateways : q # g =>
               attempt'[q] = attempt[q] /\ link'[q] = link[q] /\ owner'[q] = owner[q]
      BY ONLY <1>t, <2>1
    <2>3. /\ connected'[g] /\ (StartupTask \in cancelled' <=> StartupTask \in cancelled)
          /\ \A q \in Gateways : q # g => connected'[q] = connected[q] /\ callback'[q] = callback[q]
          /\ \A d \in Contexts : d # r => callback'[g][d] = callback[g][d]
      BY <1>0, <1>t, <2>1, ReportUpEffect
    <2>4. Steady  BY ONLY <1>1, <2>3 DEF Steady
    <2>5. epoch[g] = r /\ owner[g] = None
      <3>1. epoch[g] = r  BY <1>3 DEF MayPublish
      <3>2. QED  BY ONLY <1>0, <1>1, <3>1 DEF Local, StartAt
    <2>6. \A q \in Gateways : q # g => Untouched(q)
      BY ONLY <1>2, <2>1, <2>2, <2>3 DEF Untouched
    <2>7. IdleAt(g)'
      BY ONLY <1>0, <2>1, <2>4, SteadyFacts DEF Local, IdleAt
    <2>8. FreshAt(g)'
      BY ONLY <1>0, <1>1, <1>t, <2>4, SteadyFacts DEF Local, FreshAt
    <2>9. KindAt(g)'
      BY ONLY <1>0, <1>1, <1>t, <2>2, <2>4, SteadyFacts DEF Local, KindAt
    <2>10. RunAt(g)'
      BY ONLY <1>0, <1>1, <1>t, <2>1, <2>2, <2>4, SteadyFacts DEF Local, RunAt
    <2>11. StopAt(g)'
      BY ONLY <1>0, <1>1, <1>2, <1>t, <2>1, <2>2, <2>4, <2>5, SteadyFacts DEF Local, StopAt
    <2>12. StartAt(g)'
      BY ONLY <1>0, <1>1, <1>2, <1>t, <2>2, <2>4, <2>5, SteadyFacts DEF Local, KindAt, StartAt
    <2>13. LeakAt(g)'
      BY ONLY <1>0, <1>2, <1>t, <2>4, <2>5, SteadyFacts DEF Local, LeakAt
    <2>14. EventAt(g)'
      <3>1. ~Announces(g, r)  BY ONLY <1>1, r \in Runners DEF Announces
      <3>2. \A d \in Contexts : d # r /\ Announces(g, d) => Announces(g, d)'
        BY ONLY <1>t, <2>2, <2>3, <2>4, <2>5, SteadyFacts DEF Announces
      <3>3. \A s \in Runners : attempt[g][s] = "undo" => attempt'[g][s] = "undo"
        BY ONLY <1>1, <1>t, <2>2
      <3>4. QED  BY <1>0, <1>2, <1>t, <2>1, <2>2, <2>4, <3>1, <3>2, <3>3, EventUp
    <2>15. Local(g)'
      BY ONLY <2>7, <2>8, <2>9, <2>10, <2>11, <2>12, <2>13, <2>14 DEF Local
    <2>16. QED  BY <1>0, <2>4, <2>6, <2>15, OneGateway
  <1>4. CASE ~MayPublish(g, r)
    <2>1. /\ Return(g, r, "ok") /\ watchdog' = WatchdogReturn(g, r, "ok")
          /\ UNCHANGED <<connected, link, owner, callback, cancelled>>
      BY <1>4 DEF Open
    <2>2. Steady  BY ONLY <1>1, <2>1 DEF Steady
    <2>3. QED  BY <1>0, <1>1, <1>2, <2>1, <2>2, ReturnQuietly
  <1>5. QED  BY <1>3, <1>4

\* The connected callback of a start has returned.
LEMMA AnnouncedLocal ==
  ASSUME IInv, NEW g \in Gateways, NEW r \in Runners, Announced(g, r)
  PROVE  LifeInv' /\ (\A q \in Gateways : Local(q))'
  <1>0. TypeOK /\ LifeInv /\ (\A q \in Gateways : Local(q)) /\ Local(g) /\ EventAt(g)  BY DEF IInv, Local
  <1>1. /\ UNCHANGED <<connected, link, owner, epoch>> /\ Steady
        /\ attempt[g][r] = "announce" /\ ConcludeIn(g, r)
    BY DEF Announced, Steady
  <1>t. /\ {"stop", "startup", "watchdog", "client"} \subseteq Roles /\ r \in Roles /\ r \in Contexts
        /\ Runners = {"startup", "watchdog", "client"} /\ r # "stop"
        /\ attempt \in [Gateways -> [Roles -> Stages]]
    BY <1>0, TypesNow, TypeParts, ScenarioFacts DEF Roles, Runners
  <1>2. /\ \A q \in Gateways : q # g =>
             callback'[q] = callback[q] /\ known'[q] = known[q] /\ told'[q] = told[q]
        /\ \A d \in Contexts : d # r => callback'[g][d] = callback[g][d]
    BY <1>0, <1>1, <1>t, ConcludeInEffect
  <1>3. \/ attempt' = [attempt EXCEPT ![g][r] = "refresh"] /\ watchdog' = watchdog
        \/ Return(g, r, "ok") /\ watchdog' = WatchdogReturn(g, r, "ok")
    BY DEF Announced
  <1>4. /\ \A s \in Roles : s # r => attempt'[g][s] = attempt[g][s]
        /\ \A q \in Gateways : q # g => attempt'[q] = attempt[q] /\ watchdog'[q] = watchdog[q]
    <2>1. CASE attempt' = [attempt EXCEPT ![g][r] = "refresh"] /\ watchdog' = watchdog
      BY ONLY <1>t, <2>1
    <2>2. CASE Return(g, r, "ok") /\ watchdog' = WatchdogReturn(g, r, "ok")
      BY <1>0, <2>2, ReturnEffect, WatchdogReturnEffect
    <2>3. QED  BY <1>3, <2>1, <2>2
  <1>5. \A q \in Gateways : q # g => Untouched(q)  BY ONLY <1>1, <1>2, <1>4 DEF Untouched
  <1>6. EventAt(g)'
    <2>1. \A d \in Contexts : d # r /\ Announces(g, d) => Announces(g, d)'
      BY ONLY <1>1, <1>2, <1>4, <1>t, SteadyFacts DEF Announces
    <2>2. \A s \in Runners : attempt[g][s] = "undo" => attempt'[g][s] = "undo"
      BY ONLY <1>1, <1>4, <1>t
    <2>3. QED  BY <1>0, <1>1, <1>t, <2>1, <2>2, EventConcludes
  <1>7. IdleAt(g)' /\ FreshAt(g)' /\ KindAt(g)' /\ RunAt(g)' /\ StopAt(g)' /\ StartAt(g)' /\ LeakAt(g)'
    <2>1. CASE attempt' = [attempt EXCEPT ![g][r] = "refresh"] /\ watchdog' = watchdog
      <3>1. attempt'[g][r] = "refresh"  BY ONLY <1>t, <2>1
      <3>2. IdleAt(g)'  BY ONLY <1>0, <1>1, <2>1, SteadyFacts DEF Local, IdleAt
      <3>3. FreshAt(g)'  BY ONLY <1>0, <1>1, <1>t, SteadyFacts DEF Local, FreshAt
      <3>4. KindAt(g)'  BY ONLY <1>0, <1>1, <1>4, <1>t, <3>1, SteadyFacts DEF Local, KindAt
      <3>5. RunAt(g)'  BY ONLY <1>0, <1>1, <1>4, <1>t, <2>1, <3>1, SteadyFacts DEF Local, RunAt
      <3>6. StopAt(g)'  BY ONLY <1>0, <1>1, <1>4, <1>t, <2>1, SteadyFacts DEF Local, StopAt
      <3>7. StartAt(g)'  BY ONLY <1>0, <1>1, <1>4, <1>t, <3>1, SteadyFacts DEF Local, StartAt
      <3>8. LeakAt(g)'  BY ONLY <1>0, <1>1, SteadyFacts DEF Local, LeakAt
      <3>9. QED  BY ONLY <3>2, <3>3, <3>4, <3>5, <3>6, <3>7, <3>8
    <2>2. CASE Return(g, r, "ok") /\ watchdog' = WatchdogReturn(g, r, "ok")
      BY <1>0, <1>1, <2>2, ReturnLocal
    <2>3. QED  BY <1>3, <2>1, <2>2
  <1>8. Local(g)'  BY ONLY <1>6, <1>7 DEF Local
  <1>9. QED  BY <1>0, <1>1, <1>5, <1>8, OneGateway

\* The refresh of a start has returned, or raised.
LEMMA RefreshedLocal ==
  ASSUME IInv, NEW g \in Gateways, NEW r \in Runners, Refreshed(g, r)
  PROVE  LifeInv' /\ (\A q \in Gateways : Local(q))'
  <1>1. /\ UNCHANGED <<connected, link, owner, epoch>> /\ Steady /\ UNCHANGED <<callback, known, told>>
        /\ attempt[g][r] = "refresh" /\ Return(g, r, "ok") /\ watchdog' = WatchdogReturn(g, r, "ok")
    BY DEF Refreshed, Steady, events, news
  <1>2. QED  BY <1>1, ReturnQuietly DEF IInv

\* The refresh of a start raises: only a client closes its interface this way.
LEMMA RefreshFailsLocal ==
  ASSUME IInv, NEW g \in Gateways, RefreshFails(g)
  PROVE  LifeInv' /\ (\A q \in Gateways : Local(q))'
  <1>1. /\ UNCHANGED <<connected, epoch>> /\ Steady /\ UNCHANGED <<callback, known, told>>
        /\ attempt[g]["client"] = "refresh" /\ g \in Meshtastic
        /\ link' = [link EXCEPT ![g] = "none"] /\ owner' = [owner EXCEPT ![g] = None]
        /\ Return(g, "client", "failed") /\ watchdog' = WatchdogReturn(g, "client", "failed")
    BY DEF RefreshFails, Steady, events, news
  <1>2. /\ link'[g] = "none" /\ owner'[g] = None
        /\ \A q \in Gateways : q # g => link'[q] = link[q] /\ owner'[q] = owner[q]
    BY <1>1, TypesNow DEF IInv
  <1>3. "client" \in Runners  BY DEF Runners
  <1>4. QED  BY <1>1, <1>2, <1>3, ReturnQuietly DEF IInv

\* A start that was cancelled reports its gateway as not connected.
LEMMA UndoneLocal ==
  ASSUME IInv, NEW g \in Gateways, NEW r \in Runners, Undone(g, r)
  PROVE  LifeInv' /\ (\A q \in Gateways : Local(q))'
  <1>0. TypeOK /\ LifeInv /\ (\A q \in Gateways : Local(q)) /\ Local(g) /\ EventAt(g)  BY DEF IInv, Local
  <1>1. /\ UNCHANGED <<link, owner, epoch, callback>> /\ Steady
        /\ attempt[g][r] = "undo" /\ attempt' = [attempt EXCEPT ![g][r] = "none"]
        /\ IF connected[g] THEN ReportDown(g, watchdog) ELSE UNCHANGED <<connected, news, watchdog>>
    BY DEF Undone, Steady
  <1>t. /\ {"stop", "startup", "watchdog", "client"} \subseteq Roles /\ r \in Roles
        /\ Runners = {"startup", "watchdog", "client"} /\ r # "stop"
        /\ attempt \in [Gateways -> [Roles -> Stages]] /\ watchdog \in [Gateways -> Places]
    BY <1>0, TypesNow DEF Roles, Runners
  <1>2. /\ attempt'[g][r] = "none"
        /\ \A s \in Roles : s # r => attempt'[g][s] = attempt[g][s]
        /\ \A q \in Gateways : q # g => attempt'[q] = attempt[q]
    BY ONLY <1>1, <1>t
  <1>3. ~connected'[g]
    BY <1>0, <1>1, ReportDownEffect
  <1>4. /\ \A q \in Gateways : q # g =>
             /\ connected'[q] = connected[q] /\ known'[q] = known[q] /\ told'[q] = told[q]
             /\ watchdog'[q] = watchdog[q]
        /\ \/ watchdog'[g] = watchdog[g]
           \/ ~Fenced /\ watchdog[g] = "none" /\ watchdog'[g] = "head"
    <2>1. CASE connected[g]
      <3>1. TellDown(g) /\ watchdog' = Schedule(watchdog, g)
            /\ \A q \in Gateways : q # g => connected'[q] = connected[q]
        BY <1>0, <1>1, <2>1, ReportDownEffect
      <3>2. \A q \in Gateways : q # g => known'[q] = known[q] /\ told'[q] = told[q]
        BY <1>0, <3>1, TellDownEffect
      <3>3. /\ \A q \in Gateways : q # g => Schedule(watchdog, g)[q] = watchdog[q]
            /\ \/ Schedule(watchdog, g)[g] = watchdog[g]
               \/ ~Fenced /\ watchdog[g] = "none" /\ Schedule(watchdog, g)[g] = "head"
        BY ONLY <1>t, ScheduleEffect, g \in Gateways
      <3>4. QED  BY ONLY <3>1, <3>2, <3>3
    <2>2. CASE ~connected[g]
      <3>1. connected' = connected /\ known' = known /\ told' = told /\ watchdog' = watchdog
        BY ONLY <1>1, <2>2 DEF news
      <3>2. QED  BY ONLY <3>1
    <2>3. QED  BY <2>1, <2>2
  <1>5. \A q \in Gateways : q # g => Untouched(q)  BY ONLY <1>1, <1>2, <1>4 DEF Untouched
  <1>6. EventAt(g)'
    <2>1. CASE connected[g]
      <3>1. TellDown(g)  BY <1>0, <1>1, <2>1, ReportDownEffect
      <3>2. QED  BY <1>0, <1>1, <1>3, <3>1, EventDown
    <2>2. CASE ~connected[g]
      <3>1. known' = known /\ told' = told  BY <1>1, <2>2 DEF news
      <3>2. QED  BY ONLY <1>0, <1>1, <1>3, <2>2, <3>1, SteadyFacts DEF EventAt, ToldAt
    <2>3. QED  BY <2>1, <2>2
  <1>7. Local(g)'
    <2>1. IdleAt(g)'  BY ONLY <1>0, <1>1, <1>4, SteadyFacts DEF Local, IdleAt, LifeInv
    <2>2. FreshAt(g)'  BY ONLY <1>0, <1>1, <1>t, SteadyFacts DEF Local, FreshAt
    <2>3. KindAt(g)'  BY ONLY <1>0, <1>1, <1>2, <1>t, SteadyFacts DEF Local, KindAt
    <2>4. RunAt(g)'  BY ONLY <1>0, <1>1, <1>2, <1>4, <1>t, SteadyFacts DEF Local, RunAt
    <2>5. StopAt(g)'  BY ONLY <1>0, <1>1, <1>2, <1>4, <1>t, SteadyFacts DEF Local, StopAt
    <2>6. StartAt(g)'  BY ONLY <1>0, <1>1, <1>2, <1>t, SteadyFacts DEF Local, StartAt
    <2>7. LeakAt(g)'  BY ONLY <1>0, <1>1, <1>3, SteadyFacts DEF Local, LeakAt
    <2>8. QED  BY ONLY <1>6, <2>1, <2>2, <2>3, <2>4, <2>5, <2>6, <2>7 DEF Local
  <1>8. QED  BY <1>0, <1>1, <1>5, <1>7, OneGateway

-----------------------------------------------------------------------------
(* Stops *)

\* The stop is over: nothing is published and nobody may publish.
LEMMA StopDoneLocal ==
  ASSUME IInv, NEW g \in Gateways, StopDone(g)
  PROVE  LifeInv' /\ (\A q \in Gateways : Local(q))'
  <1>0. TypeOK /\ LifeInv /\ (\A q \in Gateways : Local(q)) /\ Local(g) /\ EventAt(g)  BY DEF IInv, Local
  <1>1. /\ UNCHANGED <<shutting, suspended, generation, life, drained, epoch, callback, startup, cancelled>>
        /\ scenario' = scenario /\ attempt[g]["stop"] = "closing"
        /\ attempt' = [attempt EXCEPT ![g]["stop"] = "none"]
        /\ link' = [link EXCEPT ![g] = "none"] /\ owner' = [owner EXCEPT ![g] = None]
        /\ stopped' = IF life = "stopping" THEN stopped \cup {g} ELSE stopped
    BY DEF StopDone
  <1>2. PICK w \in {watchdog, [watchdog EXCEPT ![g] = "stopped"]} :
          ReportDown(g, w) /\ (w # watchdog => watchdog[g] = "stopping")
    BY DEF StopDone, WatchdogAt
  <1>t. /\ {"stop", "startup", "watchdog", "client"} \subseteq Roles
        /\ Runners = {"startup", "watchdog", "client"}
        /\ attempt \in [Gateways -> [Roles -> Stages]] /\ watchdog \in [Gateways -> Places]
        /\ link \in [Gateways -> {"none", "up", "lost"}] /\ owner \in [Gateways -> Runners \cup {None}]
    BY <1>0, TypesNow DEF Roles, Runners
  <1>3. /\ w \in [Gateways -> Places] /\ \A q \in Gateways : q # g => w[q] = watchdog[q]
        /\ w[g] = watchdog[g] \/ (watchdog[g] = "stopping" /\ w[g] = "stopped")
    <2>1. CASE w = watchdog  BY ONLY <1>t, <2>1
    <2>2. CASE w = [watchdog EXCEPT ![g] = "stopped"] /\ watchdog[g] = "stopping"
      <3>1. "stopped" \in Places  BY DEF Places
      <3>2. QED  BY ONLY <1>t, <2>2, <3>1
    <2>3. QED  BY ONLY <1>2, <2>1, <2>2
  <1>4. /\ ~connected'[g] /\ \A q \in Gateways : q # g => connected'[q] = connected[q]
        /\ TellDown(g) /\ watchdog' = Schedule(w, g)
    BY <1>0, <1>2, ReportDownEffect
  <1>5. /\ \A q \in Gateways : q # g => known'[q] = known[q] /\ told'[q] = told[q]
        /\ Fenced => known'[g] = known[g] /\ told'[g] = told[g]
        /\ ~Fenced => ~known'[g] /\ (told'[g] => told[g] /\ ~known[g])
    BY <1>0, <1>4, TellDownEffect
  <1>6. /\ \A q \in Gateways : q # g => watchdog'[q] = watchdog[q]
        /\ \/ watchdog'[g] = watchdog[g]
           \/ watchdog[g] = "stopping" /\ watchdog'[g] = "stopped"
           \/ ~Fenced /\ watchdog[g] = "none" /\ watchdog'[g] = "head"
    <2>1. /\ \A q \in Gateways : q # g => Schedule(w, g)[q] = w[q]
          /\ \/ Schedule(w, g)[g] = w[g]
             \/ ~Fenced /\ w[g] = "none" /\ Schedule(w, g)[g] = "head"
      BY ONLY <1>3, ScheduleEffect, g \in Gateways
    <2>2. QED  BY ONLY <1>3, <1>4, <2>1
  <1>7. /\ attempt'[g]["stop"] = "none" /\ link'[g] = "none" /\ owner'[g] = None
        /\ \A s \in Roles : s # "stop" => attempt'[g][s] = attempt[g][s]
        /\ \A q \in Gateways : q # g =>
             attempt'[q] = attempt[q] /\ link'[q] = link[q] /\ owner'[q] = owner[q]
    BY ONLY <1>1, <1>t
  <1>8. \A q \in Gateways : q # g => Untouched(q)
    BY ONLY <1>1, <1>4, <1>5, <1>6, <1>7 DEF Untouched
  <1>w. /\ Gateways' = Gateways /\ Meshtastic' = Meshtastic /\ Faults' = Faults
        /\ (ReloadsComplete' <=> ReloadsComplete) /\ (Fenced' <=> Fenced)
        /\ (Cancelled(StartupTask)' <=> Cancelled(StartupTask))
        /\ Contexts' = Contexts
    BY <1>1, SameWorld DEF Fenced, Cancelled, StartupTask
  <1>9. LifeInv'  BY ONLY <1>0, <1>1, <1>w DEF LifeInv
  <1>10. ASSUME NEW q \in Gateways, q # g PROVE Local(q)'
    <2>1. Untouched(q) /\ Local(q) /\ (q \in stopped' <=> q \in stopped)
      BY ONLY <1>0, <1>1, <1>8, <1>10
    <2>2. IdleAt(q)'  BY ONLY <1>1, <2>1 DEF Untouched, Local, IdleAt
    <2>3. FreshAt(q)'  BY ONLY <1>1, <1>w, <2>1 DEF Untouched, Local, FreshAt
    <2>4. KindAt(q)'  BY ONLY <1>1, <1>w, <2>1 DEF Untouched, Local, KindAt
    <2>5. RunAt(q)'  BY ONLY <1>1, <2>1 DEF Untouched, Local, RunAt
    <2>6. StopAt(q)'  BY ONLY <1>1, <2>1 DEF Untouched, Local, StopAt
    <2>7. StartAt(q)'  BY ONLY <1>1, <1>w, <2>1 DEF Untouched, Local, StartAt
    <2>8. EventAt(q)'  BY ONLY <1>1, <1>w, <2>1 DEF Untouched, Local, EventAt, ToldAt, Announces
    <2>9. LeakAt(q)'  BY ONLY <1>1, <1>w, <2>1 DEF Untouched, Local, LeakAt
    <2>10. QED  BY ONLY <2>2, <2>3, <2>4, <2>5, <2>6, <2>7, <2>8, <2>9 DEF Local
  <1>11. Local(g)'
    <2>1. IdleAt(g)'  BY ONLY <1>0, <1>1, <1>6 DEF Local, IdleAt, LifeInv
    <2>2. FreshAt(g)'  BY ONLY <1>0, <1>1, <1>t, <1>w DEF Local, FreshAt
    <2>3. KindAt(g)'  BY ONLY <1>0, <1>7, <1>t, <1>w DEF Local, KindAt
    <2>4. RunAt(g)'  BY ONLY <1>0, <1>1, <1>6, <1>7, <1>t DEF Local, RunAt
    <2>5. StopAt(g)'  BY ONLY <1>0, <1>1, <1>6, <1>7, <1>t DEF Local, StopAt
    <2>6. StartAt(g)'  BY ONLY <1>7 DEF StartAt
    <2>7. EventAt(g)'
      BY ONLY <1>0, <1>4, <1>5, <1>w DEF EventAt, ToldAt
    <2>8. LeakAt(g)'  BY ONLY <1>0, <1>1, <1>4, <1>7, <1>t DEF Local, StopAt, LeakAt
    <2>9. QED  BY ONLY <2>1, <2>2, <2>3, <2>4, <2>5, <2>6, <2>7, <2>8 DEF Local
  <1>12. \A q \in Gateways : Local(q)'  BY <1>10, <1>11
  <1>13. QED  BY <1>9, <1>12, <1>w

\* The stop raises: a shutdown goes on, a reload gives up.
LEMMA StopRaisesLocal ==
  ASSUME IInv, NEW g \in Gateways, StopRaises(g)
  PROVE  LifeInv' /\ (\A q \in Gateways : Local(q))'
  <1>0. TypeOK /\ LifeInv /\ (\A q \in Gateways : Local(q))  BY DEF IInv
  <1>1. /\ UNCHANGED <<shutting, generation, drained, connected, link, owner, epoch, known, told,
                       callback, startup, cancelled>>
        /\ scenario' = scenario /\ "raise" \in Faults
        /\ attempt' = [attempt EXCEPT ![g]["stop"] = "none"]
        /\ watchdog' = IF WatchdogAt(g, "stopping")
                         THEN [watchdog EXCEPT ![g] = "failed"] ELSE watchdog
    BY DEF StopRaises, events, news
  <1>2. \/ life' = life /\ suspended' = suspended /\ (stopped' = stopped \/ life = "stopping")
           /\ stopped' \subseteq Gateways
        \/ /\ life = "stopping" /\ ~shutting
           /\ suspended' = FALSE /\ life' = "run" /\ stopped' = {}
    BY <1>0, TypeParts DEF StopRaises, TypeLife
  <1>t. /\ {"stop", "startup", "watchdog", "client"} \subseteq Roles
        /\ Runners = {"startup", "watchdog", "client"}
        /\ attempt \in [Gateways -> [Roles -> Stages]] /\ watchdog \in [Gateways -> Places]
    BY <1>0, TypesNow DEF Roles, Runners
  <1>3. \A q \in Gateways :
          /\ attempt'[q]["stop"] \in {attempt[q]["stop"], "none"}
          /\ \A s \in Roles : s # "stop" => attempt'[q][s] = attempt[q][s]
          /\ \/ watchdog'[q] = watchdog[q]
             \/ watchdog[q] = "stopping" /\ watchdog'[q] = "failed"
    BY ONLY <1>1, <1>t DEF WatchdogAt
  <1>w. /\ Gateways' = Gateways /\ Meshtastic' = Meshtastic /\ Faults' = Faults
        /\ (ReloadsComplete' <=> ReloadsComplete) /\ Contexts' = Contexts
        /\ (Cancelled(StartupTask)' <=> Cancelled(StartupTask))
    BY <1>1, SameWorld DEF Cancelled, StartupTask
  <1>4. LifeInv'
    BY ONLY <1>0, <1>1, <1>2, <1>w DEF LifeInv, Fenced
  <1>5. ASSUME NEW q \in Gateways PROVE Local(q)'
    <2>1. Local(q)  BY <1>0
    <2>2. IdleAt(q)'  BY ONLY <1>1, <1>2, <1>3, <2>1 DEF Local, IdleAt
    <2>3. FreshAt(q)'
      BY ONLY <1>1, <1>3, <1>t, <1>w, <2>1 DEF Local, FreshAt
    <2>4. KindAt(q)'  BY ONLY <1>1, <1>3, <1>t, <1>w, <2>1 DEF Local, KindAt
    <2>5. RunAt(q)'  BY ONLY <1>1, <1>3, <1>t, <2>1 DEF Local, RunAt
    <2>6. StopAt(q)'  BY ONLY <1>1, <1>3, <1>t, <2>1 DEF Local, StopAt
    <2>7. StartAt(q)'  BY ONLY <1>1, <1>3, <1>t, <1>w, <2>1 DEF Local, StartAt
    <2>8. EventAt(q)'
      <3>1. CASE life' = life /\ suspended' = suspended
        <4>1. \A c \in Contexts : Announces(q, c) => Announces(q, c)'
          BY ONLY <1>1, <1>3, <1>t, <1>w DEF Announces
        <4>2. \A r \in Runners : attempt[q][r] = "undo" => attempt'[q][r] = "undo"
          BY ONLY <1>3, <1>t
        <4>3. QED  BY ONLY <1>1, <1>w, <2>1, <3>1, <4>1, <4>2 DEF Local, EventAt, ToldAt, Fenced
      <3>2. CASE life = "stopping" /\ ~shutting
        BY ONLY <1>0, <1>1, <1>w, <3>2 DEF LifeInv, EventAt, ReloadsComplete
      <3>3. QED  BY <1>2, <3>1, <3>2
    <2>9. LeakAt(q)'  BY ONLY <1>1, <1>w DEF LeakAt
    <2>10. QED  BY ONLY <2>2, <2>3, <2>4, <2>5, <2>6, <2>7, <2>8, <2>9 DEF Local
  <1>6. QED  BY <1>4, <1>5, <1>w

\* What a start left behind a stop is closed.
LEMMA LateCleanupLocal ==
  ASSUME IInv, NEW g \in Gateways, LateCleanup(g)
  PROVE  LifeInv' /\ (\A q \in Gateways : Local(q))'
  <1>0. TypeOK /\ LifeInv /\ (\A q \in Gateways : Local(q)) /\ Local(g) /\ EventAt(g)  BY DEF IInv, Local
  <1>1. /\ UNCHANGED <<connected, epoch, known, told, callback, watchdog>> /\ Steady
        /\ attempt[g]["client"] = "late" /\ attempt' = [attempt EXCEPT ![g]["client"] = "none"]
        /\ \/ link' = link /\ owner' = owner
           \/ link' = [link EXCEPT ![g] = "none"] /\ owner' = [owner EXCEPT ![g] = None]
    BY DEF LateCleanup, Steady, events, news, tasks
  <1>t. /\ {"stop", "startup", "watchdog", "client"} \subseteq Roles
        /\ Runners = {"startup", "watchdog", "client"}
        /\ attempt \in [Gateways -> [Roles -> Stages]]
        /\ link \in [Gateways -> {"none", "up", "lost"}] /\ owner \in [Gateways -> Runners \cup {None}]
    BY <1>0, TypesNow DEF Roles, Runners
  <1>2. /\ attempt'[g]["client"] = "none"
        /\ \A s \in Roles : s # "client" => attempt'[g][s] = attempt[g][s]
        /\ \/ link'[g] = link[g] /\ owner'[g] = owner[g]
           \/ link'[g] = "none" /\ owner'[g] = None
        /\ \A q \in Gateways : q # g =>
             attempt'[q] = attempt[q] /\ link'[q] = link[q] /\ owner'[q] = owner[q]
    BY ONLY <1>1, <1>t
  <1>3. \A q \in Gateways : q # g => Untouched(q)  BY ONLY <1>1, <1>2 DEF Untouched
  <1>4. g \in Meshtastic  BY ONLY <1>0, <1>1 DEF Local, KindAt
  <1>5. IdleAt(g)'  BY ONLY <1>0, <1>1, SteadyFacts DEF Local, IdleAt
  <1>6. FreshAt(g)'  BY ONLY <1>0, <1>1, <1>t, SteadyFacts DEF Local, FreshAt
  <1>7. KindAt(g)'  BY ONLY <1>0, <1>1, <1>2, <1>t, SteadyFacts DEF Local, KindAt
  <1>8. RunAt(g)'  BY ONLY <1>0, <1>1, <1>2, <1>t, SteadyFacts DEF Local, RunAt
  <1>9. StopAt(g)'  BY ONLY <1>0, <1>1, <1>2, <1>t, SteadyFacts DEF Local, StopAt
  <1>10. StartAt(g)'  BY ONLY <1>0, <1>1, <1>2, <1>t, SteadyFacts DEF Local, StartAt
  <1>11. LeakAt(g)'  BY ONLY <1>0, <1>1, <1>2, SteadyFacts DEF Local, LeakAt
  <1>12. EventAt(g)'
    <2>1. \A c \in Runners : attempt[g][c] # "announce"
      BY ONLY <1>0, <1>1, <1>4, <1>t DEF Local, KindAt
    <2>2. \A c \in Contexts : Announces(g, c) => Announces(g, c)'
      BY ONLY <1>1, <2>1, SteadyFacts DEF Announces
    <2>3. \A r \in Runners : attempt[g][r] = "undo" => attempt'[g][r] = "undo"
      BY ONLY <1>1, <1>2, <1>t
    <2>4. QED  BY <1>0, <1>1, <2>2, <2>3, EventKept
  <1>13. Local(g)'
    BY ONLY <1>5, <1>6, <1>7, <1>8, <1>9, <1>10, <1>11, <1>12 DEF Local
  <1>14. QED  BY <1>0, <1>1, <1>3, <1>13, OneGateway

\* A reload or a shutdown stops the next gateway.
LEMMA StopNextLocal ==
  ASSUME IInv, NEW g \in Gateways, StopNext(g)
  PROVE  LifeInv' /\ (\A q \in Gateways : Local(q))'
  <1>0. TypeOK /\ LifeInv /\ (\A q \in Gateways : Local(q)) /\ Local(g)  BY DEF IInv
  <1>1. /\ UNCHANGED <<connected, link, owner, known, told, callback, watchdog>> /\ Steady
        /\ life = "stopping" /\ CallStop(g)
    BY DEF StopNext, Steady, events, news, tasks
  <1>t. /\ {"stop", "startup", "watchdog", "client"} \subseteq Roles /\ None \notin Runners
        /\ Runners = {"startup", "watchdog", "client"}
    BY <1>0, TypeParts, ScenarioFacts DEF Roles, Runners
  <1>2. /\ epoch'[g] = None /\ attempt'[g]["stop"] = "closing"
        /\ \A s \in Roles : s # "stop" => attempt'[g][s] = attempt[g][s]
        /\ \A q \in Gateways : q # g => epoch'[q] = epoch[q] /\ attempt'[q] = attempt[q]
    BY <1>0, <1>1, CallStopEffect
  <1>3. \A q \in Gateways : q # g => Untouched(q)  BY ONLY <1>1, <1>2 DEF Untouched
  <1>4. IdleAt(g)'  BY ONLY <1>0, <1>1, SteadyFacts DEF Local, IdleAt
  <1>5. FreshAt(g)'  BY ONLY <1>0, <1>1, SteadyFacts DEF LifeInv, FreshAt
  <1>6. KindAt(g)'  BY ONLY <1>0, <1>1, <1>2, <1>t, SteadyFacts DEF Local, KindAt
  <1>7. RunAt(g)'  BY ONLY <1>0, <1>1, <1>2, <1>t, SteadyFacts DEF Local, RunAt
  <1>8. StopAt(g)'
    BY ONLY <1>0, <1>1, <1>2, <1>t, SteadyFacts DEF Local, StopAt, IdleAt, LifeInv
  <1>9. StartAt(g)'  BY ONLY <1>0, <1>1, <1>2, <1>t, SteadyFacts DEF Local, StartAt
  <1>10. EventAt(g)'  BY ONLY <1>0, <1>1, SteadyFacts DEF LifeInv, EventAt
  <1>11. LeakAt(g)'  BY ONLY <1>0, <1>1, <1>2, SteadyFacts DEF Local, LeakAt
  <1>12. Local(g)'
    BY ONLY <1>4, <1>5, <1>6, <1>7, <1>8, <1>9, <1>10, <1>11 DEF Local
  <1>13. QED  BY <1>0, <1>1, <1>3, <1>12, OneGateway

-----------------------------------------------------------------------------
(* Provider events *)

\* A link is lost.
LEMMA LoseLocal ==
  ASSUME IInv, NEW g \in Gateways, Lose(g)
  PROVE  LifeInv' /\ (\A q \in Gateways : Local(q))'
  <1>0. TypeOK /\ LifeInv /\ (\A q \in Gateways : Local(q)) /\ Local(g) /\ EventAt(g)  BY DEF IInv, Local
  <1>1. /\ UNCHANGED <<owner, epoch, attempt, callback>> /\ Steady
        /\ link' = [link EXCEPT ![g] = "lost"] /\ ReportDown(g, watchdog) /\ link[g] = "up"
    BY DEF Lose, Steady
  <1>t. link \in [Gateways -> {"none", "up", "lost"}] /\ watchdog \in [Gateways -> Places]
    BY <1>0, TypesNow
  <1>2. link'[g] = "lost" /\ \A q \in Gateways : q # g => link'[q] = link[q]  BY ONLY <1>1, <1>t
  <1>3. /\ ~connected'[g] /\ \A q \in Gateways : q # g => connected'[q] = connected[q]
        /\ TellDown(g) /\ watchdog' = Schedule(watchdog, g)
    BY <1>0, <1>1, ReportDownEffect
  <1>4. \A q \in Gateways : q # g => known'[q] = known[q] /\ told'[q] = told[q]
    BY <1>0, <1>3, TellDownEffect
  <1>5. /\ \A q \in Gateways : q # g => watchdog'[q] = watchdog[q]
        /\ \/ watchdog'[g] = watchdog[g]
           \/ ~Fenced /\ watchdog[g] = "none" /\ watchdog'[g] = "head"
    BY ONLY <1>t, <1>3, ScheduleEffect, g \in Gateways
  <1>6. \A q \in Gateways : q # g => Untouched(q)
    BY ONLY <1>1, <1>2, <1>3, <1>4, <1>5 DEF Untouched
  <1>7. IdleAt(g)'  BY ONLY <1>0, <1>1, <1>5, SteadyFacts DEF Local, IdleAt, LifeInv
  <1>8. FreshAt(g)'
    BY ONLY <1>0, <1>1, SteadyFacts DEF Local, FreshAt, KindAt
  <1>9. KindAt(g)'  BY ONLY <1>0, <1>1, <1>2, SteadyFacts DEF Local, KindAt
  <1>10. RunAt(g)'  BY ONLY <1>0, <1>1, <1>5, SteadyFacts DEF Local, RunAt
  <1>11. StopAt(g)'  BY ONLY <1>0, <1>1, <1>5, SteadyFacts DEF Local, StopAt
  <1>12. StartAt(g)'  BY ONLY <1>0, <1>1, SteadyFacts DEF Local, StartAt
  <1>13. EventAt(g)'  BY <1>0, <1>1, <1>3, EventDown
  <1>14. LeakAt(g)'  BY ONLY <1>0, <1>1, <1>3, SteadyFacts DEF Local, LeakAt
  <1>15. Local(g)'
    BY ONLY <1>7, <1>8, <1>9, <1>10, <1>11, <1>12, <1>13, <1>14 DEF Local
  <1>16. QED  BY <1>0, <1>1, <1>6, <1>15, OneGateway

\* The adapter restores its link, or a packet reports the status.
LEMMA ReportedLocal ==
  ASSUME IInv, NEW g \in Gateways, NEW c \in Slots, Restore(g, c) \/ Traffic(g, c)
  PROVE  LifeInv' /\ (\A q \in Gateways : Local(q))'
  <1>0. TypeOK /\ LifeInv /\ (\A q \in Gateways : Local(q)) /\ Local(g) /\ EventAt(g)  BY DEF IInv, Local
  <1>1. /\ UNCHANGED <<owner, epoch, attempt, known, told, watchdog>>
        /\ scenario' = scenario /\ UNCHANGED lifecycle /\ startup' = startup
        /\ link' = [link EXCEPT ![g] = "up"] \/ link' = link
        /\ owner[g] # None /\ callback[g][c] = None /\ ReportUp(g, c)
    BY DEF Restore, Traffic, Attached, news
  <1>t. /\ link \in [Gateways -> {"none", "up", "lost"}] /\ c \in Contexts /\ c \notin Runners
    BY <1>0, TypesNow, TypeParts, ScenarioFacts DEF Roles
  <1>2. /\ link'[g] = "up" \/ link'[g] = link[g]
        /\ \A q \in Gateways : q # g => link'[q] = link[q]
    BY ONLY <1>1, <1>t, g \in Gateways
  <1>3. /\ \A q \in Gateways : q # g => connected'[q] = connected[q] /\ callback'[q] = callback[q]
        /\ \A d \in Contexts : d # c => callback'[g][d] = callback[g][d]
        /\ StartupTask \in cancelled' <=> StartupTask \in cancelled
    BY <1>0, <1>1, <1>t, ReportUpEffect
  <1>4. Steady  BY ONLY <1>1, <1>3 DEF Steady
  <1>5. \A q \in Gateways : q # g => Untouched(q)  BY ONLY <1>1, <1>2, <1>3 DEF Untouched
  <1>6. IdleAt(g)'  BY ONLY <1>0, <1>1, <1>4, SteadyFacts DEF Local, IdleAt
  <1>7. FreshAt(g)'  BY ONLY <1>0, <1>1, <1>4, SteadyFacts DEF Local, FreshAt
  <1>8. KindAt(g)'  BY ONLY <1>0, <1>1, <1>2, <1>4, SteadyFacts DEF Local, KindAt
  <1>9. RunAt(g)'  BY ONLY <1>0, <1>1, <1>4, SteadyFacts DEF Local, RunAt
  <1>10. StopAt(g)'  BY ONLY <1>0, <1>1, <1>4, SteadyFacts DEF Local, StopAt
  <1>11. StartAt(g)'  BY ONLY <1>0, <1>1, <1>4, SteadyFacts DEF Local, StartAt
  <1>12. LeakAt(g)'  BY ONLY <1>0, <1>1, <1>4, SteadyFacts DEF Local, LeakAt
  <1>13. EventAt(g)'
    <2>1. ~Announces(g, c)  BY ONLY <1>1 DEF Announces
    <2>2. \A d \in Contexts : d # c /\ Announces(g, d) => Announces(g, d)'
      BY ONLY <1>1, <1>3, <1>4, SteadyFacts DEF Announces
    <2>3. QED  BY <1>0, <1>1, <1>4, <1>t, <2>1, <2>2, EventUp
  <1>14. Local(g)'
    BY ONLY <1>6, <1>7, <1>8, <1>9, <1>10, <1>11, <1>12, <1>13 DEF Local
  <1>15. QED  BY <1>0, <1>4, <1>5, <1>14, OneGateway

\* The flush of such a callback is over.
LEMMA EventConcludedLocal ==
  ASSUME IInv, NEW g \in Gateways, NEW c \in Slots, EventConcluded(g, c)
  PROVE  LifeInv' /\ (\A q \in Gateways : Local(q))'
  <1>0. TypeOK /\ LifeInv /\ (\A q \in Gateways : Local(q)) /\ Local(g) /\ EventAt(g)  BY DEF IInv, Local
  <1>1. /\ UNCHANGED <<connected, link, owner, epoch, attempt, watchdog>> /\ Steady /\ ConcludeIn(g, c)
    BY DEF EventConcluded, Steady, adapter, tasks
  <1>2. c \in Contexts  BY <1>0, TypeParts, ScenarioFacts
  <1>3. /\ \A q \in Gateways : q # g =>
             callback'[q] = callback[q] /\ known'[q] = known[q] /\ told'[q] = told[q]
        /\ \A d \in Contexts : d # c => callback'[g][d] = callback[g][d]
    BY <1>0, <1>1, <1>2, ConcludeInEffect
  <1>4. \A q \in Gateways : q # g => Untouched(q)  BY ONLY <1>1, <1>3 DEF Untouched
  <1>5. IdleAt(g)'  BY ONLY <1>0, <1>1, SteadyFacts DEF Local, IdleAt
  <1>6. FreshAt(g)'  BY ONLY <1>0, <1>1, SteadyFacts DEF Local, FreshAt
  <1>7. KindAt(g)'  BY ONLY <1>0, <1>1, SteadyFacts DEF Local, KindAt
  <1>8. RunAt(g)'  BY ONLY <1>0, <1>1, SteadyFacts DEF Local, RunAt
  <1>9. StopAt(g)'  BY ONLY <1>0, <1>1, SteadyFacts DEF Local, StopAt
  <1>10. StartAt(g)'  BY ONLY <1>0, <1>1, SteadyFacts DEF Local, StartAt
  <1>11. LeakAt(g)'  BY ONLY <1>0, <1>1, SteadyFacts DEF Local, LeakAt
  <1>12. EventAt(g)'
    <2>1. \A d \in Contexts : d # c /\ Announces(g, d) => Announces(g, d)'
      BY ONLY <1>1, <1>3, SteadyFacts DEF Announces
    <2>2. QED  BY <1>0, <1>1, <1>2, <2>1, EventConcludes
  <1>13. Local(g)'
    BY ONLY <1>5, <1>6, <1>7, <1>8, <1>9, <1>10, <1>11, <1>12 DEF Local
  <1>14. QED  BY <1>0, <1>1, <1>4, <1>13, OneGateway

-----------------------------------------------------------------------------
(* The reconnect watchdog *)

\* A watchdog that moves on, and nothing else, disturbs no start or stop.
LEMMA MoveLocal ==
  ASSUME Steady, TypeOK, NEW g \in Gateways, Local(g), NEW pc \in Places, WatchdogGo(g, pc),
         UNCHANGED <<connected, link, owner, epoch, attempt>>,
         watchdog[g] \notin {"none", "starting"}, pc # "stopped",
         watchdog[g] = "unwinding" => attempt[g]["watchdog"] = "none"
  PROVE  /\ IdleAt(g)' /\ FreshAt(g)' /\ KindAt(g)' /\ RunAt(g)' /\ StopAt(g)' /\ StartAt(g)' /\ LeakAt(g)'
         /\ \A q \in Gateways : q # g => watchdog'[q] = watchdog[q]
         /\ attempt[g]["watchdog"] \notin {"opening", "announce", "refresh"}
  <1>1. watchdog'[g] = pc /\ \A q \in Gateways : q # g => watchdog'[q] = watchdog[q]
    BY GoEffect
  <1>2. attempt[g]["watchdog"] \notin {"opening", "announce", "refresh", "undo"}
    BY ONLY Local(g), watchdog[g] \notin {"none", "starting"},
            watchdog[g] = "unwinding" => attempt[g]["watchdog"] = "none"
       DEF Local, RunAt
  <1>3. IdleAt(g)'
    BY ONLY Local(g), Steady, SteadyFacts, watchdog[g] \notin {"none", "starting"} DEF Local, IdleAt
  <1>4. FreshAt(g)'
    BY ONLY Local(g), Steady, SteadyFacts, watchdog[g] \notin {"none", "starting"} DEF Local, FreshAt
  <1>5. KindAt(g)'
    BY ONLY Local(g), Steady, SteadyFacts, UNCHANGED <<connected, link, owner, epoch, attempt>>
       DEF Local, KindAt
  <1>6. RunAt(g)'
    BY ONLY <1>2, Local(g), Steady, SteadyFacts, UNCHANGED <<connected, link, owner, epoch, attempt>>
       DEF Local, RunAt
  <1>7. StopAt(g)'
    BY ONLY <1>1, Local(g), Steady, SteadyFacts, pc # "stopped",
            UNCHANGED <<connected, link, owner, epoch, attempt>>
       DEF Local, StopAt
  <1>8. StartAt(g)'
    BY ONLY Local(g), Steady, SteadyFacts, UNCHANGED <<connected, link, owner, epoch, attempt>>
       DEF Local, StartAt
  <1>9. LeakAt(g)'
    BY ONLY Local(g), Steady, SteadyFacts, UNCHANGED <<connected, link, owner, epoch, attempt>>
       DEF Local, LeakAt
  <1>10. QED  BY ONLY <1>1, <1>2, <1>3, <1>4, <1>5, <1>6, <1>7, <1>8, <1>9

\* A watchdog that moves on without a word.
LEMMA MoveQuietly ==
  ASSUME Steady, IInv, NEW g \in Gateways, NEW pc \in Places, WatchdogGo(g, pc),
         UNCHANGED <<connected, link, owner, epoch, attempt, known, told, callback>>,
         watchdog[g] \notin {"none", "starting"}, pc # "stopped",
         watchdog[g] = "unwinding" => attempt[g]["watchdog"] = "none"
  PROVE  LifeInv' /\ (\A q \in Gateways : Local(q))'
  <1>0. TypeOK /\ LifeInv /\ (\A q \in Gateways : Local(q)) /\ Local(g)  BY DEF IInv
  <1>1. /\ IdleAt(g)' /\ FreshAt(g)' /\ KindAt(g)' /\ RunAt(g)' /\ StopAt(g)' /\ StartAt(g)' /\ LeakAt(g)'
        /\ \A q \in Gateways : q # g => watchdog'[q] = watchdog[q]
    BY <1>0, MoveLocal
  <1>2. \A q \in Gateways : q # g => Untouched(q)  BY <1>1 DEF Untouched
  <1>3. EventAt(g)'
    BY ONLY <1>0, Steady, SteadyFacts,
            UNCHANGED <<connected, link, owner, epoch, attempt, known, told, callback>>
       DEF Local, EventAt, ToldAt, Announces
  <1>4. Local(g)'  BY ONLY <1>1, <1>3 DEF Local
  <1>5. QED  BY <1>0, <1>2, <1>4, OneGateway

\* A watchdog that calls async_start or async_stop without a word.
LEMMA CallQuietly ==
  ASSUME Steady, IInv, NEW g \in Gateways, NEW pc \in Places, WatchdogGo(g, pc),
         UNCHANGED <<connected, link, owner, known, told, callback>>,
         ~Fenced, watchdog[g] \in {"head", "sleep", "stopped"}, pc # "stopped",
         \A q \in Gateways : q # g => epoch'[q] = epoch[q] /\ attempt'[q] = attempt[q],
         \A s \in Runners : attempt'[g][s] # attempt[g][s] =>
           /\ attempt[g][s] \in {"none", "late"} /\ attempt'[g][s] = "opening"
           /\ s = IF g \in Meshtastic THEN "client" ELSE "watchdog",
         pc = "starting" \/ attempt'[g]["watchdog"] = attempt[g]["watchdog"],
         attempt'[g]["stop"] \in {"none", "closing"},
         attempt'[g]["stop"] = "closing" => epoch'[g] = None,
         epoch'[g] # None => owner[g] = None \/ g \in Meshtastic,
         \A s \in Runners : attempt'[g][s] # attempt[g][s] => owner[g] = None
  PROVE  LifeInv' /\ (\A q \in Gateways : Local(q))'
  <1>0. TypeOK /\ LifeInv /\ (\A q \in Gateways : Local(q)) /\ Local(g)  BY DEF IInv
  <1>t. /\ {"stop", "startup", "watchdog", "client"} \subseteq Roles /\ None \notin Runners
        /\ Runners = {"startup", "watchdog", "client"}
    BY <1>0, TypeParts, ScenarioFacts DEF Roles, Runners
  <1>1. watchdog'[g] = pc /\ \A q \in Gateways : q # g => watchdog'[q] = watchdog[q]
    BY <1>0, GoEffect
  <1>2. \A q \in Gateways : q # g => Untouched(q)  BY <1>1 DEF Untouched
  <1>3. life = "run" /\ ~shutting  BY ONLY <1>0, ~Fenced DEF LifeInv, Fenced
  <1>4. IdleAt(g)'  BY ONLY <1>3, Steady, SteadyFacts DEF IdleAt
  <1>5. FreshAt(g)'
    BY ONLY <1>0, Steady, SteadyFacts, watchdog[g] \in {"head", "sleep", "stopped"} DEF Local, FreshAt
  <1>6. KindAt(g)'
    BY ONLY <1>0, <1>t, Steady, SteadyFacts, UNCHANGED <<connected, link, owner, known, told, callback>>,
            \A s \in Runners : attempt'[g][s] # attempt[g][s] =>
              /\ attempt[g][s] \in {"none", "late"} /\ attempt'[g][s] = "opening"
              /\ s = IF g \in Meshtastic THEN "client" ELSE "watchdog",
            attempt'[g]["stop"] \in {"none", "closing"}
       DEF Local, KindAt
  <1>7. RunAt(g)'
    BY ONLY <1>0, <1>1, <1>t, Steady, SteadyFacts, watchdog[g] \in {"head", "sleep", "stopped"},
            \A s \in Runners : attempt'[g][s] # attempt[g][s] =>
              /\ attempt[g][s] \in {"none", "late"} /\ attempt'[g][s] = "opening"
              /\ s = IF g \in Meshtastic THEN "client" ELSE "watchdog",
            pc = "starting" \/ attempt'[g]["watchdog"] = attempt[g]["watchdog"]
       DEF Local, RunAt
  <1>8. StopAt(g)'
    BY ONLY <1>1, pc # "stopped", attempt'[g]["stop"] = "closing" => epoch'[g] = None DEF StopAt
  <1>9. StartAt(g)'
    BY ONLY <1>0, <1>t, Steady, SteadyFacts, UNCHANGED <<connected, link, owner, known, told, callback>>,
            epoch'[g] # None => owner[g] = None \/ g \in Meshtastic,
            \A s \in Runners : attempt'[g][s] # attempt[g][s] => owner[g] = None
       DEF Local, StartAt
  <1>10. LeakAt(g)'  BY ONLY <1>3, Steady, SteadyFacts DEF LeakAt
  <1>11. EventAt(g)'
    <2>1. \A c \in Contexts : Announces(g, c) => Announces(g, c)'
      BY ONLY Steady, SteadyFacts, UNCHANGED <<connected, link, owner, known, told, callback>>,
              \A s \in Runners : attempt'[g][s] # attempt[g][s] =>
                /\ attempt[g][s] \in {"none", "late"} /\ attempt'[g][s] = "opening"
                /\ s = IF g \in Meshtastic THEN "client" ELSE "watchdog"
         DEF Announces
    <2>2. \A s \in Runners : attempt[g][s] = "undo" => attempt'[g][s] = "undo"
      BY ONLY \A s \in Runners : attempt'[g][s] # attempt[g][s] =>
                /\ attempt[g][s] \in {"none", "late"} /\ attempt'[g][s] = "opening"
                /\ s = IF g \in Meshtastic THEN "client" ELSE "watchdog"
    <2>3. EventAt(g)  BY <1>0 DEF Local
    <2>4. QED  BY <2>1, <2>2, <2>3, EventKept
  <1>12. Local(g)'
    BY ONLY <1>4, <1>5, <1>6, <1>7, <1>8, <1>9, <1>10, <1>11 DEF Local
  <1>13. QED  BY <1>0, <1>2, <1>12, OneGateway

\* The head of the loop.
LEMMA WatchdogHeadLocal ==
  ASSUME IInv, NEW g \in Gateways, WatchdogHead(g)
  PROVE  LifeInv' /\ (\A q \in Gateways : Local(q))'
  <1>0. TypeOK /\ LifeInv /\ Local(g)  BY DEF IInv
  <1>1. /\ UNCHANGED <<connected, link, owner, known, told, callback>> /\ Steady /\ watchdog[g] = "head"
    BY DEF WatchdogHead, WatchdogAt, Steady, events, news
  <1>2. {"head", "ended", "sleep", "joining"} \subseteq Places  BY DEF Places
  <1>3. CASE UNCHANGED <<epoch, attempt>> /\ (WatchdogGo(g, "ended") \/ WatchdogGo(g, "sleep"))
    BY <1>1, <1>2, <1>3, MoveQuietly
  <1>4. CASE ~Fenced /\ StartPending(g) /\ WatchdogGo(g, "joining") /\ CallStart({g}, "watchdog")
    <2>1. g \in Meshtastic /\ attempt[g]["client"] \notin {"none", "late"}
      BY ONLY <1>4 DEF StartPending
    <2>2. /\ {g} \in SUBSET Gateways /\ "watchdog" \in {"startup", "watchdog"}
          /\ Runner(g, "watchdog") = "client"
      BY <2>1 DEF Runner
    <2>3. /\ \A q \in Gateways : q \notin {g} => epoch'[q] = epoch[q] /\ attempt'[q] = attempt[q]
          /\ epoch'[g] = "client" /\ attempt[g]["stop"] = "none"
          /\ \A s \in Roles :
               attempt'[g][s] = IF s = Runner(g, "watchdog") /\ attempt[g][s] \in {"none", "late"}
                                  THEN "opening" ELSE attempt[g][s]
      BY <1>0, <1>4, <2>1, <2>2, CallStartEffect
    <2>4. \A s \in Roles : attempt'[g][s] = attempt[g][s]  BY ONLY <2>1, <2>2, <2>3
    <2>5. Runners \subseteq Roles /\ "stop" \in Roles /\ "watchdog" \in Roles  BY DEF Roles, Runners
    <2>6. \A q \in Gateways : q # g => epoch'[q] = epoch[q] /\ attempt'[q] = attempt[q]
      BY ONLY <2>3
    <2>7. \A s \in Runners : attempt'[g][s] = attempt[g][s]  BY ONLY <2>4, <2>5
    <2>8. attempt'[g]["stop"] = "none" /\ attempt'[g]["watchdog"] = attempt[g]["watchdog"]
      BY ONLY <2>3, <2>4, <2>5
    <2>9. QED  BY <1>1, <1>2, <1>4, <2>1, <2>6, <2>7, <2>8, CallQuietly
  <1>5. QED  BY <1>3, <1>4 DEF WatchdogHead

\* The delay is over.
LEMMA WatchdogWakeLocal ==
  ASSUME IInv, NEW g \in Gateways, WatchdogWake(g)
  PROVE  LifeInv' /\ (\A q \in Gateways : Local(q))'
  <1>0. TypeOK /\ LifeInv /\ Local(g)  BY DEF IInv
  <1>1. /\ UNCHANGED <<connected, link, owner, known, told, callback>> /\ Steady /\ watchdog[g] = "sleep"
    BY DEF WatchdogWake, WatchdogAt, Steady, events, news
  <1>2. {"head", "ended", "stopping"} \subseteq Places  BY DEF Places
  <1>3. CASE UNCHANGED <<epoch, attempt>> /\ (WatchdogGo(g, "ended") \/ WatchdogGo(g, "head"))
    BY <1>1, <1>2, <1>3, MoveQuietly
  <1>4. CASE ~Fenced /\ WatchdogGo(g, "stopping") /\ CallStop(g)
    <2>1. /\ epoch'[g] = None /\ attempt'[g]["stop"] = "closing"
          /\ \A s \in Roles : s # "stop" => attempt'[g][s] = attempt[g][s]
          /\ \A q \in Gateways : q # g => epoch'[q] = epoch[q] /\ attempt'[q] = attempt[q]
      BY <1>0, <1>4, CallStopEffect
    <2>2. \A s \in Runners : s \in Roles /\ s # "stop"  BY DEF Roles, Runners
    <2>3. \A s \in Runners : attempt'[g][s] = attempt[g][s]  BY ONLY <2>1, <2>2
    <2>4. attempt'[g]["watchdog"] = attempt[g]["watchdog"]  BY <2>3 DEF Runners
    <2>5. QED  BY <1>1, <1>2, <1>4, <2>1, <2>3, <2>4, CallQuietly
  <1>5. QED  BY <1>3, <1>4 DEF WatchdogWake

\* The stop has returned.
LEMMA WatchdogStartLocal ==
  ASSUME IInv, NEW g \in Gateways, WatchdogStart(g)
  PROVE  LifeInv' /\ (\A q \in Gateways : Local(q))'
  <1>0. TypeOK /\ LifeInv /\ Local(g)  BY DEF IInv
  <1>1. /\ UNCHANGED <<connected, link, owner, known, told, callback>> /\ Steady /\ watchdog[g] = "stopped"
    BY DEF WatchdogStart, WatchdogAt, Steady, events, news
  <1>2. {"ended", "starting"} \subseteq Places  BY DEF Places
  <1>3. CASE UNCHANGED <<epoch, attempt>> /\ WatchdogGo(g, "ended")
    BY <1>1, <1>2, <1>3, MoveQuietly
  <1>4. CASE ~Fenced /\ WatchdogGo(g, "starting") /\ CallStart({g}, "watchdog")
    <2>1. /\ {g} \in SUBSET Gateways /\ "watchdog" \in {"startup", "watchdog"}
          /\ Runner(g, "watchdog") = IF g \in Meshtastic THEN "client" ELSE "watchdog"
      BY DEF Runner
    <2>2. /\ \A q \in Gateways : q \notin {g} => epoch'[q] = epoch[q] /\ attempt'[q] = attempt[q]
          /\ \A s \in Roles :
               attempt'[g][s] = IF s = Runner(g, "watchdog") /\ attempt[g][s] \in {"none", "late"}
                                  THEN "opening" ELSE attempt[g][s]
      BY <1>0, <1>4, <2>1, CallStartEffect
    <2>3. Runners \subseteq Roles /\ "stop" \in Roles /\ "stop" \notin Runners  BY DEF Roles, Runners
    <2>4. \A q \in Gateways : q # g => epoch'[q] = epoch[q] /\ attempt'[q] = attempt[q]
      BY ONLY <2>2
    <2>5. \A s \in Runners : attempt'[g][s] # attempt[g][s] =>
            /\ attempt[g][s] \in {"none", "late"} /\ attempt'[g][s] = "opening"
            /\ s = IF g \in Meshtastic THEN "client" ELSE "watchdog"
      BY ONLY <2>1, <2>2, <2>3
    <2>6. ~shutting  BY <1>4 DEF Fenced
    <2>7. attempt[g]["stop"] = "none" /\ owner[g] = None
      BY ONLY <1>0, <1>1, <2>6 DEF Local, KindAt, StopAt
    <2>8. attempt'[g]["stop"] = "none"
      BY <2>1, <2>2, <2>3, <2>7
    <2>9. QED  BY <1>1, <1>2, <1>4, <2>4, <2>5, <2>7, <2>8, CallQuietly
  <1>5. QED  BY <1>3, <1>4 DEF WatchdogStart, StopsHere

\* The stop or the start of the watchdog raised.
LEMMA WatchdogFailedLocal ==
  ASSUME IInv, NEW g \in Gateways, WatchdogFailed(g)
  PROVE  LifeInv' /\ (\A q \in Gateways : Local(q))'
  <1>0. TypeOK /\ LifeInv /\ (\A q \in Gateways : Local(q)) /\ Local(g) /\ EventAt(g)  BY DEF IInv, Local
  <1>1. /\ UNCHANGED <<connected, link, owner, epoch, attempt>> /\ Steady /\ watchdog[g] = "failed"
    BY DEF WatchdogFailed, WatchdogAt, Steady, adapter
  <1>2. {"head", "ended", "error"} \subseteq Places  BY DEF Places
  <1>3. CASE UNCHANGED events /\ WatchdogGo(g, "ended")
    <2>1. UNCHANGED <<known, told, callback>>  BY <1>3 DEF events, news
    <2>2. QED  BY <1>1, <1>2, <1>3, <2>1, MoveQuietly
  <1>4. CASE ~connected[g] /\ WatchdogGo(g, "head") /\ TellDown(g) /\ callback' = callback
    <2>1. /\ IdleAt(g)' /\ FreshAt(g)' /\ KindAt(g)' /\ RunAt(g)' /\ StopAt(g)' /\ StartAt(g)' /\ LeakAt(g)'
          /\ \A q \in Gateways : q # g => watchdog'[q] = watchdog[q]
      BY <1>0, <1>1, <1>2, <1>4, MoveLocal
    <2>2. EventAt(g)'  BY <1>0, <1>1, <1>4, EventDown
    <2>3. \A q \in Gateways : q # g => known'[q] = known[q] /\ told'[q] = told[q]
      BY <1>0, <1>4, TellDownEffect
    <2>4. \A q \in Gateways : q # g => Untouched(q)  BY ONLY <1>1, <1>4, <2>1, <2>3 DEF Untouched
    <2>5. Local(g)'  BY ONLY <2>1, <2>2 DEF Local
    <2>6. QED  BY <1>0, <1>1, <2>4, <2>5, OneGateway
  <1>5. CASE /\ WatchdogGo(g, "error") /\ UNCHANGED news
             /\ callback' = [callback EXCEPT ![g]["watchdog"] = [prev |-> known[g], gen |-> generation]]
    <2>1. /\ IdleAt(g)' /\ FreshAt(g)' /\ KindAt(g)' /\ RunAt(g)' /\ StopAt(g)' /\ StartAt(g)' /\ LeakAt(g)'
          /\ \A q \in Gateways : q # g => watchdog'[q] = watchdog[q]
          /\ attempt[g]["watchdog"] \notin {"opening", "announce", "refresh"}
      BY <1>0, <1>1, <1>2, <1>5, MoveLocal
    <2>2. callback \in [Gateways -> [Contexts -> {None} \cup Captured]]  BY <1>0, TypesNow
    <2>3. /\ \A q \in Gateways : q # g => callback'[q] = callback[q]
          /\ \A c \in Contexts : c # "watchdog" => callback'[g][c] = callback[g][c]
      BY ONLY <1>5, <2>2
    <2>4. known' = known /\ told' = told  BY <1>5 DEF news
    <2>5. "watchdog" \in Runners  BY DEF Runners
    <2>6. \A c \in Contexts : Announces(g, c) => Announces(g, c)'
      BY ONLY <1>1, <2>1, <2>3, <2>5, SteadyFacts DEF Announces
    <2>7. EventAt(g)'  BY <1>0, <1>1, <2>4, <2>6, EventKept
    <2>8. \A q \in Gateways : q # g => Untouched(q)
      BY ONLY <1>1, <2>1, <2>3, <2>4 DEF Untouched
    <2>9. Local(g)'  BY ONLY <2>1, <2>7 DEF Local
    <2>10. QED  BY <1>0, <1>1, <2>8, <2>9, OneGateway
  <1>6. QED  BY <1>3, <1>4, <1>5 DEF WatchdogFailed

\* The start of the watchdog returned.
LEMMA WatchdogLooksLocal ==
  ASSUME IInv, NEW g \in Gateways, WatchdogLooks(g)
  PROVE  LifeInv' /\ (\A q \in Gateways : Local(q))'
  <1>0. TypeOK /\ LifeInv /\ (\A q \in Gateways : Local(q)) /\ Local(g) /\ EventAt(g)  BY DEF IInv, Local
  <1>1. /\ UNCHANGED <<connected, link, owner, epoch, attempt>> /\ Steady /\ watchdog[g] \in {"ok", "error"}
        /\ ConcludeIn(g, "watchdog")
    BY DEF WatchdogLooks, WatchdogAt, Steady, adapter
  <1>2. PICK pc \in {"head", "ended"} : WatchdogGo(g, pc)  BY DEF WatchdogLooks
  <1>3. pc \in Places /\ pc # "stopped"  BY DEF Places
  <1>4. "watchdog" \in Contexts  BY DEF Contexts, Runners
  <1>5. /\ IdleAt(g)' /\ FreshAt(g)' /\ KindAt(g)' /\ RunAt(g)' /\ StopAt(g)' /\ StartAt(g)' /\ LeakAt(g)'
        /\ \A q \in Gateways : q # g => watchdog'[q] = watchdog[q]
    BY <1>0, <1>1, <1>2, <1>3, MoveLocal
  <1>6. /\ \A q \in Gateways : q # g => callback'[q] = callback[q]
        /\ \A d \in Contexts : d # "watchdog" => callback'[g][d] = callback[g][d]
        /\ \A q \in Gateways : q # g => known'[q] = known[q] /\ told'[q] = told[q]
    BY <1>0, <1>1, <1>4, ConcludeInEffect
  <1>7. \A d \in Contexts : d # "watchdog" /\ Announces(g, d) => Announces(g, d)'
    BY ONLY <1>1, <1>6, SteadyFacts DEF Announces
  <1>8. EventAt(g)'  BY <1>0, <1>1, <1>4, <1>7, EventConcludes
  <1>9. \A q \in Gateways : q # g => Untouched(q)  BY ONLY <1>1, <1>5, <1>6 DEF Untouched
  <1>10. Local(g)'  BY ONLY <1>5, <1>8 DEF Local
  <1>11. QED  BY <1>0, <1>1, <1>9, <1>10, OneGateway

\* A cancellation reaches the watchdog: what it published it closes, and what it
\* was about to tell it undoes.
LEMMA WatchdogUnwindsLocal ==
  ASSUME IInv, NEW g \in Gateways, WatchdogUnwinds(g)
  PROVE  LifeInv' /\ (\A q \in Gateways : Local(q))'
  <1>0. TypeOK /\ LifeInv /\ (\A q \in Gateways : Local(q)) /\ Local(g) /\ EventAt(g)  BY DEF IInv, Local
  <1>1. /\ connected' = connected /\ epoch' = epoch /\ known' = known /\ told' = told /\ Steady
        /\ watchdog[g] \notin {"none", "ended", "unwinding"}
        /\ WatchdogGo(g, "unwinding") /\ Discard(g, "watchdog", watchdog[g] = "stopping")
    BY DEF WatchdogUnwinds, Steady, news, Alive
  <1>2. (watchdog[g] = "stopping") \in BOOLEAN /\ "unwinding" \in Places  BY DEF Places
  <1>3. /\ attempt'[g]["watchdog"] =
             IF attempt[g]["watchdog"] \in {"announce", "refresh"} /\ owner[g] = "watchdog"
               THEN "undo" ELSE "none"
        /\ attempt'[g]["stop"] \in {attempt[g]["stop"], "none"}
        /\ \A s \in Roles : s \notin {"watchdog", "stop"} => attempt'[g][s] = attempt[g][s]
        /\ \A d \in Contexts : d # "watchdog" => callback'[g][d] = callback[g][d]
        /\ IF attempt[g]["watchdog"] # "none" /\ owner[g] = "watchdog"
             THEN link'[g] = "none" /\ owner'[g] = None
             ELSE link'[g] = link[g] /\ owner'[g] = owner[g]
        /\ \A q \in Gateways : q # g =>
             /\ attempt'[q] = attempt[q] /\ callback'[q] = callback[q]
             /\ link'[q] = link[q] /\ owner'[q] = owner[q]
    BY <1>0, <1>1, <1>2, DiscardEffect
  <1>4. watchdog'[g] = "unwinding" /\ \A q \in Gateways : q # g => watchdog'[q] = watchdog[q]
    BY <1>0, <1>1, <1>2, GoEffect
  <1>t. /\ {"stop", "startup", "watchdog", "client"} \subseteq Roles /\ None \notin Runners
        /\ Runners = {"startup", "watchdog", "client"}
    BY <1>0, TypeParts, ScenarioFacts DEF Roles, Runners
  <1>5. IdleAt(g)'  BY ONLY <1>0, <1>1, SteadyFacts DEF Local, IdleAt
  <1>6. FreshAt(g)'  BY ONLY <1>0, <1>1, SteadyFacts DEF Local, FreshAt
  <1>7. KindAt(g)'  BY ONLY <1>0, <1>3, <1>t, <1>1, SteadyFacts DEF Local, KindAt
  <1>8. RunAt(g)'  BY ONLY <1>0, <1>1, <1>3, <1>4, <1>t, SteadyFacts DEF Local, RunAt
  <1>9. StopAt(g)'  BY ONLY <1>0, <1>1, <1>3, <1>4, SteadyFacts DEF Local, StopAt
  <1>10. StartAt(g)'  BY ONLY <1>0, <1>1, <1>3, <1>t, SteadyFacts DEF Local, StartAt
  <1>11. LeakAt(g)'  BY ONLY <1>0, <1>1, <1>3, SteadyFacts DEF Local, LeakAt
  <1>12. EventAt(g)'
    <2>1. ASSUME NEW c \in Contexts, Announces(g, c)
          PROVE  Announces(g, c)' \/ \E r \in Runners : attempt'[g][r] = "undo"
      <3>1. CASE c = "watchdog"
        <4>1. attempt'[g]["watchdog"] = "undo"  BY ONLY <1>3, <1>t, <2>1, <3>1 DEF Announces
        <4>2. QED  BY <4>1, <1>t
      <3>2. CASE c # "watchdog"
        BY ONLY <1>1, <1>3, <1>t, <2>1, <3>2, SteadyFacts DEF Announces
      <3>3. QED  BY <3>1, <3>2
    <2>2. \A r \in Runners : attempt[g][r] = "undo" => attempt'[g][r] = "undo"
      BY ONLY <1>0, <1>1, <1>3, <1>t DEF Local, RunAt
    <2>3. QED  BY <1>0, <1>1, <2>1, <2>2, EventKept
  <1>13. \A q \in Gateways : q # g => Untouched(q)  BY ONLY <1>1, <1>3, <1>4 DEF Untouched
  <1>14. Local(g)'
    BY ONLY <1>5, <1>6, <1>7, <1>8, <1>9, <1>10, <1>11, <1>12 DEF Local
  <1>15. QED  BY <1>0, <1>1, <1>13, <1>14, OneGateway

\* A watchdog ends, and its registration is cleared.
LEMMA WatchdogEndsLocal ==
  ASSUME IInv, NEW g \in Gateways, WatchdogUnwound(g) \/ WatchdogCleared(g)
  PROVE  LifeInv' /\ (\A q \in Gateways : Local(q))'
  <1>1. StartupTask # WatchdogTask(g)  BY DEF StartupTask, WatchdogTask
  <1>2. /\ UNCHANGED <<connected, link, owner, epoch, attempt, known, told, callback>> /\ Steady
        /\ watchdog[g] \in {"unwinding", "ended"}
        /\ watchdog[g] = "unwinding" => attempt[g]["watchdog"] = "none"
    BY <1>1 DEF WatchdogUnwound, WatchdogCleared, Steady, adapter, events, news
  <1>3. PICK pc \in {"ended", "none"} : WatchdogGo(g, pc)  BY DEF WatchdogUnwound, WatchdogCleared
  <1>4. pc \in Places /\ pc # "stopped"  BY DEF Places
  <1>5. QED  BY <1>2, <1>3, <1>4, MoveQuietly

-----------------------------------------------------------------------------
(* Startup *)

\* The startup starts gateways that are as they were built.
LEMMA StartupBeginsLocal ==
  ASSUME IInv, StartupBegins
  PROVE  LifeInv' /\ (\A q \in Gateways : Local(q))'
  <1>0. TypeOK /\ LifeInv /\ (\A q \in Gateways : Local(q))  BY DEF IInv
  <1>1. /\ UNCHANGED <<connected, link, owner, known, told, callback, cancelled, watchdog>>
        /\ scenario' = scenario /\ UNCHANGED lifecycle
        /\ startup = "created" /\ ~Cancelled(StartupTask) /\ startup' \in {"none", "starting"}
        /\ (UNCHANGED <<epoch, attempt>>) \/ (~shutting /\ CallStart(Gateways, "startup"))
    BY DEF StartupBegins, events, news
  <1>w. /\ Gateways' = Gateways /\ Meshtastic' = Meshtastic /\ Faults' = Faults
        /\ (ReloadsComplete' <=> ReloadsComplete) /\ Contexts' = Contexts
        /\ (Cancelled(StartupTask)' <=> Cancelled(StartupTask)) /\ (Fenced' <=> Fenced)
        /\ UNCHANGED <<shutting, suspended, generation, life, drained, stopped>>
    BY <1>1, SameWorld DEF Cancelled, StartupTask, Fenced, lifecycle
  <1>t. /\ {"stop", "startup", "watchdog", "client"} \subseteq Roles
        /\ Runners = {"startup", "watchdog", "client"}
    BY DEF Roles, Runners
  <1>2. life \in {"run", "quiesce"}
    BY ONLY <1>0, <1>1, TypeParts DEF LifeInv, TypeLife
  <1>3. LifeInv'
    BY ONLY <1>0, <1>1, <1>2, <1>w DEF LifeInv
  <1>4. ASSUME NEW q \in Gateways PROVE Local(q)'
    <2>1. /\ Local(q) /\ watchdog[q] = "none" /\ epoch[q] = None /\ owner[q] = None
          /\ \A r \in Roles : attempt[q][r] = "none"
      BY ONLY <1>0, <1>1, <1>4 DEF Local, FreshAt
    <2>2. \/ epoch'[q] = epoch[q] /\ attempt'[q] = attempt[q]
          \/ /\ ~shutting
             /\ \A s \in Roles : attempt'[q][s] =
                  IF s = IF q \in Meshtastic THEN "client" ELSE "startup" THEN "opening" ELSE "none"
      <3>1. CASE UNCHANGED <<epoch, attempt>>  BY <3>1
      <3>2. CASE ~shutting /\ CallStart(Gateways, "startup")
        <4>1. \A s \in Roles :
                attempt'[q][s] = IF s = Runner(q, "startup") /\ attempt[q][s] \in {"none", "late"}
                                   THEN "opening" ELSE attempt[q][s]
          BY <1>0, <3>2, CallStartEffect
        <4>2. QED  BY ONLY <2>1, <3>2, <4>1 DEF Runner
      <3>3. QED  BY <1>1, <3>1, <3>2
    <2>3. \A s \in Roles : attempt'[q][s] \in {"none", "opening"}
      BY ONLY <2>1, <2>2
    <2>4. IdleAt(q)'  BY ONLY <1>2, <1>w DEF IdleAt
    <2>5. FreshAt(q)'  BY ONLY <1>1 DEF FreshAt
    <2>6. KindAt(q)'  BY ONLY <1>1, <1>t, <1>w, <2>1, <2>2 DEF Local, KindAt
    <2>7. RunAt(q)'  BY ONLY <1>1, <1>t, <1>w, <2>1, <2>2 DEF Local, RunAt
    <2>8. StopAt(q)'  BY ONLY <1>1, <1>t, <2>1, <2>3 DEF StopAt
    <2>9. StartAt(q)'  BY ONLY <1>1, <2>1 DEF StartAt
    <2>10. LeakAt(q)'  BY ONLY <1>1, <1>w, <2>1, <2>2 DEF Local, LeakAt
    <2>11. EventAt(q)'
      <3>1. \A c \in Contexts : Announces(q, c) => Announces(q, c)'
        BY ONLY <1>1, <1>t, <1>w, <2>1 DEF Announces
      <3>2. \A r \in Runners : attempt[q][r] # "undo"  BY ONLY <2>1, <1>t
      <3>3. QED  BY ONLY <1>1, <1>w, <2>1, <3>1, <3>2 DEF Local, EventAt, ToldAt
    <2>12. QED  BY ONLY <2>4, <2>5, <2>6, <2>7, <2>8, <2>9, <2>10, <2>11 DEF Local
  <1>5. QED  BY <1>3, <1>4, <1>w

\* The starts have returned, or the flush that follows them; a gateway whose
\* start raised gets a watchdog.
LEMMA StartupGathersLocal ==
  ASSUME IInv, StartupGathered \/ StartupFlushed
  PROVE  LifeInv' /\ (\A q \in Gateways : Local(q))'
  <1>0. TypeOK /\ LifeInv /\ (\A q \in Gateways : Local(q))  BY DEF IInv
  <1>1. /\ UNCHANGED <<connected, link, owner, epoch, attempt, known, told, callback, cancelled>>
        /\ scenario' = scenario /\ UNCHANGED lifecycle
        /\ startup \in {"starting", "flush"} /\ ~Cancelled(StartupTask) /\ startup' \in {"none", "flush"}
        /\ \/ watchdog' = watchdog
           \/ watchdog' = [g \in Gateways |->
                IF joined[g] = "failed" THEN Schedule(watchdog, g)[g] ELSE watchdog[g]]
    BY DEF StartupGathered, StartupFlushed, adapter, events, news
  <1>w. /\ Gateways' = Gateways /\ Meshtastic' = Meshtastic /\ Faults' = Faults
        /\ (ReloadsComplete' <=> ReloadsComplete) /\ Contexts' = Contexts
        /\ (Cancelled(StartupTask)' <=> Cancelled(StartupTask)) /\ (Fenced' <=> Fenced)
        /\ UNCHANGED <<shutting, suspended, generation, life, drained, stopped>>
    BY <1>1, SameWorld DEF Cancelled, StartupTask, Fenced, lifecycle
  <1>t. {"stop", "startup", "watchdog", "client"} \subseteq Roles  BY DEF Roles, Runners
  <1>2. life \in {"run", "quiesce"}
    BY ONLY <1>0, <1>1, TypeParts DEF LifeInv, TypeLife
  <1>3. LifeInv'
    BY ONLY <1>0, <1>1, <1>2, <1>w DEF LifeInv
  <1>4. ASSUME NEW q \in Gateways PROVE Local(q)'
    <2>1. Local(q) /\ (startup # "unwinding")  BY <1>0, <1>1
    <2>2. \/ watchdog'[q] = watchdog[q]
          \/ watchdog[q] = "none" /\ watchdog'[q] = "head"
      <3>1. watchdog \in [Gateways -> Places]  BY <1>0, TypesNow
      <3>2. \/ Schedule(watchdog, q)[q] = watchdog[q]
            \/ watchdog[q] = "none" /\ Schedule(watchdog, q)[q] = "head"
        BY ONLY <1>4, <3>1, ScheduleEffect
      <3>3. QED  BY ONLY <1>1, <1>4, <3>2
    <2>3. IdleAt(q)'  BY ONLY <1>2, <1>w DEF IdleAt
    <2>4. FreshAt(q)'  BY ONLY <1>1 DEF FreshAt
    <2>5. KindAt(q)'  BY ONLY <1>1, <1>w, <2>1 DEF Local, KindAt
    <2>6. RunAt(q)'  BY ONLY <1>1, <1>t, <1>w, <2>1, <2>2 DEF Local, RunAt
    <2>7. StopAt(q)'  BY ONLY <1>1, <1>w, <2>1, <2>2 DEF Local, StopAt
    <2>8. StartAt(q)'  BY ONLY <1>1, <1>w, <2>1 DEF Local, StartAt
    <2>9. LeakAt(q)'  BY ONLY <1>1, <1>w, <2>1 DEF Local, LeakAt
    <2>10. EventAt(q)'  BY ONLY <1>1, <1>w, <2>1 DEF Local, EventAt, ToldAt, Announces
    <2>11. QED  BY ONLY <2>3, <2>4, <2>5, <2>6, <2>7, <2>8, <2>9, <2>10 DEF Local
  <1>5. QED  BY <1>3, <1>4, <1>w

\* A cancellation reaches the startup and the starts it gathers.
LEMMA StartupUnwindsLocal ==
  ASSUME IInv, StartupUnwinds
  PROVE  LifeInv' /\ (\A q \in Gateways : Local(q))'
  <1>0. TypeOK /\ LifeInv /\ (\A q \in Gateways : Local(q))  BY DEF IInv
  <1> DEFINE Published(g) == owner[g] = "startup" /\ attempt[g]["startup"] # "none"
  <1>1. /\ UNCHANGED <<connected, epoch, known, told, cancelled, watchdog>>
        /\ scenario' = scenario /\ UNCHANGED lifecycle
        /\ startup \in {"created", "starting", "flush"} /\ Cancelled(StartupTask) /\ startup' = "unwinding"
        /\ attempt' = [g \in Gateways |-> [attempt[g] EXCEPT !["startup"] =
             IF Published(g) THEN "undo" ELSE "none"]]
        /\ link' = [g \in Gateways |-> IF Published(g) THEN "none" ELSE link[g]]
        /\ owner' = [g \in Gateways |-> IF Published(g) THEN None ELSE owner[g]]
        /\ callback' = [g \in Gateways |-> [callback[g] EXCEPT !["startup"] = None]]
    BY DEF StartupUnwinds, news
  <1> HIDE DEF Published
  <1>w. /\ Gateways' = Gateways /\ Meshtastic' = Meshtastic /\ Faults' = Faults
        /\ (ReloadsComplete' <=> ReloadsComplete) /\ Contexts' = Contexts
        /\ (Cancelled(StartupTask)' <=> Cancelled(StartupTask)) /\ (Fenced' <=> Fenced)
        /\ UNCHANGED <<shutting, suspended, generation, life, drained, stopped>>
    BY <1>1, SameWorld DEF Cancelled, StartupTask, Fenced, lifecycle
  <1>t. /\ {"stop", "startup", "watchdog", "client"} \subseteq Roles /\ None \notin Runners
        /\ Runners = {"startup", "watchdog", "client"}
    BY <1>0, TypeParts, ScenarioFacts DEF Roles, Runners
  <1>2. /\ attempt \in [Gateways -> [Roles -> Stages]]
        /\ callback \in [Gateways -> [Contexts -> {None} \cup Captured]]
    BY <1>0, TypesNow
  <1>3. LifeInv'
    BY ONLY <1>0, <1>1, <1>w DEF LifeInv
  <1>4. ASSUME NEW q \in Gateways PROVE Local(q)'
    <2>1. Local(q)  BY <1>0
    <2>2. /\ attempt'[q]["startup"] = IF Published(q) THEN "undo" ELSE "none"
          /\ \A s \in Roles : s # "startup" => attempt'[q][s] = attempt[q][s]
          /\ \A c \in Contexts : c # "startup" => callback'[q][c] = callback[q][c]
          /\ link'[q] = IF Published(q) THEN "none" ELSE link[q]
          /\ owner'[q] = IF Published(q) THEN None ELSE owner[q]
      <3>1. attempt'[q] = [attempt[q] EXCEPT !["startup"] = IF Published(q) THEN "undo" ELSE "none"]
        BY ONLY <1>1, <1>4
      <3>2. callback'[q] = [callback[q] EXCEPT !["startup"] = None]  BY ONLY <1>1, <1>4
      <3>3. attempt[q] \in [Roles -> Stages] /\ callback[q] \in [Contexts -> {None} \cup Captured]
        BY ONLY <1>2, <1>4
      <3>4. QED  BY ONLY <1>1, <1>4, <1>t, <3>1, <3>2, <3>3
    <2>3. IdleAt(q)'  BY ONLY <1>1, <1>w, <2>1 DEF Local, IdleAt
    <2>4. FreshAt(q)'  BY ONLY <1>1 DEF FreshAt
    <2>5. KindAt(q)'  BY ONLY <1>1, <1>t, <1>w, <2>1, <2>2 DEF Local, KindAt, Published
    <2>6. RunAt(q)'  BY ONLY <1>1, <1>t, <1>w, <2>1, <2>2 DEF Local, RunAt
    <2>7. StopAt(q)'  BY ONLY <1>1, <1>t, <1>w, <2>1, <2>2 DEF Local, StopAt
    <2>8. StartAt(q)'  BY ONLY <1>1, <1>t, <1>w, <2>1, <2>2 DEF Local, StartAt
    <2>9. LeakAt(q)'  BY ONLY <1>1, <1>w, <2>1, <2>2 DEF Local, LeakAt
    <2>10. EventAt(q)'
      <3>1. ASSUME NEW c \in Contexts, Announces(q, c)
            PROVE  Announces(q, c)' \/ \E r \in Runners : attempt'[q][r] = "undo"
        <4>1. CASE c = "startup"
          <5>1. attempt'[q]["startup"] = "undo"
            BY ONLY <1>t, <2>2, <3>1, <4>1 DEF Announces, Published
          <5>2. QED  BY <1>t, <5>1
        <4>2. CASE c # "startup"
          BY ONLY <1>1, <1>t, <1>w, <2>2, <3>1, <4>2 DEF Announces, Published
        <4>3. QED  BY <4>1, <4>2
      <3>2. \A r \in Runners : attempt[q][r] = "undo" => attempt'[q][r] = "undo"
        BY ONLY <1>1, <1>t, <2>1, <2>2 DEF Local, RunAt
      <3>3. (\E c \in Contexts : Announces(q, c)) \/ (\E r \in Runners : attempt[q][r] = "undo")
            => (\E c \in Contexts : Announces(q, c)') \/ \E r \in Runners : attempt'[q][r] = "undo"
        BY <3>1, <3>2
      <3>4. QED  BY ONLY <1>1, <1>w, <2>1, <3>3 DEF Local, EventAt, ToldAt
    <2>11. QED  BY ONLY <2>3, <2>4, <2>5, <2>6, <2>7, <2>8, <2>9, <2>10 DEF Local
  <1>5. QED  BY <1>3, <1>4, <1>w

\* The startup has ended.
LEMMA StartupUnwoundLocal ==
  ASSUME IInv, StartupUnwound
  PROVE  LifeInv' /\ (\A q \in Gateways : Local(q))'
  <1>0. TypeOK /\ LifeInv /\ (\A q \in Gateways : Local(q))  BY DEF IInv
  <1>1. /\ UNCHANGED <<connected, link, owner, epoch, attempt, known, told, callback, watchdog>>
        /\ scenario' = scenario /\ UNCHANGED lifecycle /\ startup' = "none"
        /\ \A q \in Gateways : attempt[q]["startup"] = "none"
    BY DEF StartupUnwound, adapter, events, news
  <1>w. /\ Gateways' = Gateways /\ Meshtastic' = Meshtastic /\ Faults' = Faults
        /\ (ReloadsComplete' <=> ReloadsComplete) /\ Contexts' = Contexts /\ (Fenced' <=> Fenced)
        /\ UNCHANGED <<shutting, suspended, generation, life, drained, stopped>>
    BY <1>1, SameWorld DEF Fenced, lifecycle
  <1>2. LifeInv'  BY ONLY <1>0, <1>1, <1>w DEF LifeInv
  <1>3. ASSUME NEW q \in Gateways PROVE Local(q)'
    <2>1. Local(q) /\ attempt[q]["startup"] = "none"  BY <1>0, <1>1
    <2>2. IdleAt(q)'  BY ONLY <1>1, <1>w, <2>1 DEF Local, IdleAt
    <2>3. FreshAt(q)'  BY ONLY <1>1 DEF FreshAt
    <2>4. KindAt(q)'  BY ONLY <1>1, <1>w, <2>1 DEF Local, KindAt
    <2>5. RunAt(q)'  BY ONLY <1>1, <2>1 DEF Local, RunAt
    <2>6. StopAt(q)'  BY ONLY <1>1, <1>w, <2>1 DEF Local, StopAt
    <2>7. StartAt(q)'  BY ONLY <1>1, <1>w, <2>1 DEF Local, StartAt
    <2>8. LeakAt(q)'  BY ONLY <1>1, <1>w, <2>1 DEF Local, LeakAt
    <2>9. EventAt(q)'  BY ONLY <1>1, <1>w, <2>1 DEF Local, EventAt, ToldAt, Announces
    <2>10. QED  BY ONLY <2>2, <2>3, <2>4, <2>5, <2>6, <2>7, <2>8, <2>9 DEF Local
  <1>4. QED  BY <1>2, <1>3, <1>w

-----------------------------------------------------------------------------
(* Reload and shutdown *)

\* A step of the lifecycle that leaves adapters, events and the startup alone.
LEMMA FenceLocal ==
  ASSUME TypeOK, NEW q \in Gateways, Local(q), scenario' = scenario,
         UNCHANGED <<connected, link, owner, epoch, attempt, known, told, callback, generation,
                     startup, stopped>>,
         Cancelled(StartupTask) => Cancelled(StartupTask)',
         watchdog'[q] \in {watchdog[q], "none"},
         watchdog'[q] # watchdog[q] => watchdog[q] = "ended" \/ watchdog[q] = "none",
         IdleAt(q)', shutting => shutting', stopped # {} => shutting' = shutting,
         ReloadsComplete => Fenced'
  PROVE  Local(q)'
  <1>w. /\ Gateways' = Gateways /\ Meshtastic' = Meshtastic /\ Faults' = Faults
        /\ (ReloadsComplete' <=> ReloadsComplete)
    BY SameWorld
  <1>t. {"stop", "startup", "watchdog", "client"} \subseteq Roles  BY DEF Roles, Runners
  <1>h. /\ connected' = connected /\ link' = link /\ owner' = owner /\ epoch' = epoch
        /\ attempt' = attempt /\ startup' = startup /\ stopped' = stopped
    OBVIOUS
  <1>1. FreshAt(q)'
    BY ONLY <1>h, Local(q), Cancelled(StartupTask) => Cancelled(StartupTask)',
            watchdog'[q] \in {watchdog[q], "none"}
       DEF Local, FreshAt
  <1>2. KindAt(q)'  BY ONLY <1>h, <1>w, Local(q) DEF Local, KindAt
  <1>3. RunAt(q)'
    BY ONLY <1>h, <1>t, Local(q), watchdog'[q] # watchdog[q] => watchdog[q] = "ended" \/ watchdog[q] = "none"
       DEF Local, RunAt
  <1>4. StopAt(q)'
    BY ONLY <1>h, Local(q), shutting => shutting', watchdog'[q] \in {watchdog[q], "none"}
       DEF Local, StopAt
  <1>5. StartAt(q)'  BY ONLY <1>h, <1>w, Local(q) DEF Local, StartAt
  <1>6. EventAt(q)'  BY ONLY <1>w, ReloadsComplete => Fenced' DEF EventAt
  <1>7. LeakAt(q)'
    BY ONLY <1>h, <1>w, Local(q), stopped # {} => shutting' = shutting DEF Local, LeakAt
  <1>8. QED  BY ONLY IdleAt(q)', <1>1, <1>2, <1>3, <1>4, <1>5, <1>6, <1>7 DEF Local

\* The fence goes up, or a shutdown is over.
LEMMA FencesLocal ==
  ASSUME IInv, BeginReload \/ BeginShutdown \/ FinishShutdown
  PROVE  LifeInv' /\ (\A q \in Gateways : Local(q))'
  <1>0. TypeOK /\ LifeInv /\ (\A q \in Gateways : Local(q))  BY DEF IInv
  <1>1. /\ UNCHANGED <<connected, link, owner, epoch, attempt, known, told, callback, generation,
                       startup, stopped, cancelled, watchdog>>
        /\ scenario' = scenario
        /\ \/ /\ "reload" \in Faults /\ life = "run" /\ ~Fenced /\ generation <= MaxReloads
              /\ shutting' = shutting /\ suspended' = TRUE /\ life' = "quiesce" /\ drained' = TRUE
           \/ /\ life = "run" /\ shutting' = TRUE /\ life' = "quiesce" /\ drained' = TRUE
           \/ /\ life = "stopping" /\ stopped = Gateways /\ shutting /\ shutting' = shutting
              /\ drained' = drained /\ life' = "closed"
    BY DEF BeginReload, BeginShutdown, FinishShutdown, adapter, events, news, tasks
  <1>w. /\ Gateways' = Gateways /\ Faults' = Faults /\ (ReloadsComplete' <=> ReloadsComplete)
        /\ (Cancelled(StartupTask)' <=> Cancelled(StartupTask))
    BY <1>1, SameWorld DEF Cancelled, StartupTask
  <1>2. shutting \in BOOLEAN /\ suspended \in BOOLEAN  BY <1>0, TypeParts DEF TypeLife
  <1>3. Fenced' /\ (shutting => shutting') /\ (stopped # {} => shutting' = shutting)
    BY ONLY <1>0, <1>1, <1>2 DEF LifeInv, Fenced
  <1>4. LifeInv'  BY ONLY <1>0, <1>1, <1>2, <1>3, <1>w DEF LifeInv
  <1>5. ASSUME NEW q \in Gateways PROVE Local(q)'
    <2>1. Local(q) /\ IdleAt(q)'  BY ONLY <1>0, <1>1, <1>5 DEF IdleAt
    <2>2. QED  BY <1>0, <1>1, <1>3, <1>w, <2>1, FenceLocal
  <1>6. QED  BY <1>4, <1>5, <1>w

\* Radio operations and the startup have ended, or their bound has passed.
LEMMA QuiescesLocal ==
  ASSUME IInv, Quiesced \/ StartupDrained
  PROVE  LifeInv' /\ (\A q \in Gateways : Local(q))'
  <1>0. TypeOK /\ LifeInv /\ (\A q \in Gateways : Local(q))  BY DEF IInv
  <1>1. /\ UNCHANGED <<connected, link, owner, epoch, attempt, known, told, callback, generation,
                       startup, stopped, watchdog>>
        /\ scenario' = scenario /\ UNCHANGED <<shutting, suspended>>
        /\ cancelled \subseteq cancelled'
        /\ \/ /\ life = "quiesce" /\ life' = "startup"
              /\ drained' = drained \/ "busy" \in Faults
              /\ startup # "none" => StartupTask \in cancelled'
           \/ /\ life = "startup" /\ life' = "watchdogs"
              /\ \/ startup = "none" /\ drained' = drained
                 \/ "stubborn" \in Faults /\ drained' = FALSE
    BY DEF Quiesced, StartupDrained, Outcome, adapter, events, news
  <1>w. /\ Gateways' = Gateways /\ Faults' = Faults /\ (ReloadsComplete' <=> ReloadsComplete)
        /\ (Cancelled(StartupTask) => Cancelled(StartupTask)') /\ (Fenced' <=> Fenced)
        /\ (Cancelled(StartupTask)' <=> StartupTask \in cancelled')
    BY <1>1, SameWorld DEF Cancelled, StartupTask, Fenced
  <1>2. Fenced  BY ONLY <1>0, <1>1 DEF LifeInv
  <1>3. LifeInv'
    <2>1. (life = "run" <=> ~Fenced)' /\ (life = "closed" => shutting /\ stopped = Gateways)'
      BY ONLY <1>1, <1>2, <1>w
    <2>2. (stopped # {} => life \in {"stopping", "closed"})'  BY ONLY <1>0, <1>1 DEF LifeInv
    <2>3. (life \in {"startup", "watchdogs", "stopping", "closed"} /\ startup # "none"
             => Cancelled(StartupTask))'
      BY ONLY <1>0, <1>1, <1>w DEF LifeInv
    <2>4. (life \in {"watchdogs", "stopping"} /\ drained => startup = "none")'
      BY ONLY <1>1
    <2>5. (life # "run" /\ ~shutting => "reload" \in Faults /\ generation <= MaxReloads)'
      BY ONLY <1>0, <1>1, <1>w DEF LifeInv
    <2>6. ("reload" \in Faults /\ ReloadsComplete => drained)'
      BY ONLY <1>0, <1>1, <1>w DEF LifeInv, ReloadsComplete
    <2>7. QED  BY ONLY <1>1, <2>1, <2>2, <2>3, <2>4, <2>5, <2>6 DEF LifeInv
  <1>4. ASSUME NEW q \in Gateways PROVE Local(q)'
    <2>1. Local(q) /\ IdleAt(q)'  BY ONLY <1>0, <1>1, <1>4 DEF IdleAt
    <2>2. QED  BY <1>0, <1>1, <1>2, <1>w, <2>1, FenceLocal
  <1>5. QED  BY <1>3, <1>4, <1>w

\* The watchdogs have ended, or their bound has passed; a reload whose waits have
\* run out is deferred.
LEMMA WatchdogsDrainedLocal ==
  ASSUME IInv, WatchdogsDrained
  PROVE  LifeInv' /\ (\A q \in Gateways : Local(q))'
  <1>0. TypeOK /\ LifeInv /\ (\A q \in Gateways : Local(q))  BY DEF IInv
  <1>1. /\ UNCHANGED <<connected, link, owner, epoch, attempt, known, told, callback, generation,
                       startup, stopped>>
        /\ scenario' = scenario /\ shutting' = shutting /\ life = "watchdogs"
        /\ \/ (\A g \in Gateways : ~Alive(g)) /\ (drained' = drained \/ ("busy" \in Faults /\ ~drained'))
           \/ "stubborn" \in Faults /\ ~drained'
        /\ \/ (shutting \/ drained') /\ life' = "stopping" /\ suspended' = suspended
           \/ ~shutting /\ ~drained' /\ life' = "run" /\ suspended' = FALSE
        /\ watchdog' = [g \in Gateways |-> IF Alive(g) THEN watchdog[g] ELSE "none"]
        /\ cancelled' = cancelled \ {WatchdogTask(g) : g \in {h \in Gateways : ~Alive(h)}}
    BY DEF WatchdogsDrained, GoesOn, Outcome, adapter, events, news
  <1>2. \A g : StartupTask # WatchdogTask(g)  BY DEF StartupTask, WatchdogTask
  <1>w. /\ Gateways' = Gateways /\ Faults' = Faults /\ (ReloadsComplete' <=> ReloadsComplete)
        /\ (Cancelled(StartupTask)' <=> Cancelled(StartupTask))
    BY <1>1, <1>2, SameWorld DEF Cancelled, StartupTask
  <1>3. shutting \in BOOLEAN /\ suspended \in BOOLEAN /\ drained \in BOOLEAN
    BY <1>0, TypeParts DEF TypeLife
  <1>4. Fenced /\ stopped = {} /\ (startup # "none" => Cancelled(StartupTask))
    BY ONLY <1>0, <1>1 DEF LifeInv
  <1>5. life' = "run" => ~ReloadsComplete /\ "reload" \in Faults
    BY ONLY <1>0, <1>1, <1>3 DEF LifeInv, ReloadsComplete
  <1>6. life' = "run" <=> ~Fenced'
    BY ONLY <1>1, <1>3, <1>4 DEF Fenced
  <1>7. LifeInv'
    <2>1. (life \in {"watchdogs", "stopping"} /\ drained => startup = "none")'
      BY ONLY <1>0, <1>1 DEF LifeInv
    <2>2. ("reload" \in Faults /\ ReloadsComplete => drained)'
      BY ONLY <1>0, <1>1, <1>w DEF LifeInv, ReloadsComplete
    <2>3. (life # "run" /\ ~shutting => "reload" \in Faults /\ generation <= MaxReloads)'
      BY ONLY <1>0, <1>1, <1>w DEF LifeInv
    <2>4. QED  BY ONLY <1>1, <1>4, <1>6, <1>w, <2>1, <2>2, <2>3 DEF LifeInv
  <1>8. ASSUME NEW q \in Gateways PROVE Local(q)'
    <2>1. /\ watchdog'[q] \in {watchdog[q], "none"}
          /\ watchdog'[q] # watchdog[q] => watchdog[q] = "ended" \/ watchdog[q] = "none"
          /\ ~Alive(q) => watchdog'[q] = "none"
      BY ONLY <1>1, <1>8 DEF Alive
    <2>2. Local(q) /\ IdleAt(q)'  BY ONLY <1>0, <1>1, <1>8, <2>1 DEF IdleAt
    <2>3. ReloadsComplete => Fenced'  BY ONLY <1>1, <1>5, <1>6
    <2>4. QED  BY <1>0, <1>1, <1>4, <1>w, <2>1, <2>2, <2>3, FenceLocal
  <1>9. QED  BY <1>7, <1>8, <1>w

\* A new generation of adapters, with nothing of the old one under way.
LEMMA FinishReloadLocal ==
  ASSUME IInv, FinishReload
  PROVE  LifeInv' /\ (\A q \in Gateways : Local(q))'
  <1>0. TypeOK /\ LifeInv /\ (\A q \in Gateways : Local(q))  BY DEF IInv
  <1>1. /\ watchdog' = watchdog /\ scenario' = scenario /\ startup' = "created" /\ drained' = drained
        /\ life = "stopping" /\ ~shutting /\ shutting' = shutting
        /\ suspended' = FALSE /\ life' = "run" /\ stopped' = {}
        /\ connected' = [g \in Gateways |-> FALSE]
        /\ link' = [g \in Gateways |-> "none"]
        /\ owner' = [g \in Gateways |-> None]
        /\ epoch' = [g \in Gateways |-> None]
        /\ attempt' = [g \in Gateways |-> [r \in Roles |-> "none"]]
        /\ known' = [g \in Gateways |-> FALSE]
        /\ told' = [g \in Gateways |-> FALSE]
    BY DEF FinishReload
  <1>w. Gateways' = Gateways /\ Faults' = Faults /\ (ReloadsComplete' <=> ReloadsComplete)
    BY <1>1, SameWorld
  <1>t. /\ {"stop", "startup", "watchdog", "client"} \subseteq Roles
        /\ Runners = {"startup", "watchdog", "client"}
    BY DEF Roles, Runners
  <1>2. LifeInv'
    BY ONLY <1>0, <1>1, <1>w DEF LifeInv, Fenced
  <1>3. ASSUME NEW q \in Gateways PROVE Local(q)'
    <2>1. watchdog[q] = "none"  BY ONLY <1>0, <1>1, <1>3 DEF LifeInv, Local, IdleAt
    <2>2. /\ ~connected'[q] /\ link'[q] = "none" /\ owner'[q] = None /\ epoch'[q] = None
          /\ ~known'[q] /\ ~told'[q] /\ watchdog'[q] = "none"
          /\ \A r \in Roles : attempt'[q][r] = "none"
      BY ONLY <1>1, <1>3, <2>1
    <2>3. IdleAt(q)'  BY ONLY <2>2 DEF IdleAt
    <2>4. FreshAt(q)'  BY ONLY <2>2 DEF FreshAt
    <2>5. KindAt(q)'  BY ONLY <1>t, <2>2 DEF KindAt
    <2>6. RunAt(q)'  BY ONLY <1>t, <2>2 DEF RunAt
    <2>7. StopAt(q)'  BY ONLY <1>t, <2>2 DEF StopAt
    <2>8. StartAt(q)'  BY ONLY <2>2 DEF StartAt
    <2>9. EventAt(q)'  BY ONLY <2>2 DEF EventAt, ToldAt
    <2>10. LeakAt(q)'  BY ONLY <1>1 DEF LeakAt
    <2>11. QED  BY ONLY <2>3, <2>4, <2>5, <2>6, <2>7, <2>8, <2>9, <2>10 DEF Local
  <1>4. QED  BY <1>2, <1>3, <1>w

-----------------------------------------------------------------------------
(* The invariant is inductive *)

\* The first state satisfies the invariant.
LEMMA InitInv ==
  ASSUME Init
  PROVE  IInv
  <1>1. TypeOK  BY InitTyped
  <1>2. LifeInv  BY DEF Init, LifeInv, Fenced
  <1>t. /\ {"stop", "startup", "watchdog", "client"} \subseteq Roles
        /\ Runners = {"startup", "watchdog", "client"}
    BY DEF Roles, Runners
  <1>3. ASSUME NEW q \in Gateways PROVE Local(q)
    <2>1. /\ ~connected[q] /\ link[q] = "none" /\ owner[q] = None /\ epoch[q] = None
          /\ ~known[q] /\ ~told[q] /\ watchdog[q] = "none"
          /\ \A r \in Roles : attempt[q][r] = "none"
      BY <1>3 DEF Init
    <2>2. ~shutting  BY DEF Init
    <2>3. IdleAt(q) /\ FreshAt(q)  BY ONLY <2>1 DEF IdleAt, FreshAt
    <2>4. KindAt(q) /\ RunAt(q)  BY ONLY <1>t, <2>1 DEF KindAt, RunAt
    <2>5. StopAt(q) /\ StartAt(q)  BY ONLY <1>t, <2>1 DEF StopAt, StartAt
    <2>6. EventAt(q) /\ LeakAt(q)  BY ONLY <2>1, <2>2 DEF EventAt, ToldAt, LeakAt
    <2>7. QED  BY ONLY <2>3, <2>4, <2>5, <2>6 DEF Local
  <1>4. QED  BY <1>1, <1>2, <1>3 DEF IInv

\* A step of a start, or of the client's own task.
LEMMA StartStepInv ==
  ASSUME IInv, NEW g \in Gateways, NEW r \in Runners, StartStep(g, r)
  PROVE  IInv'
  <1>1. TypeOK  BY DEF IInv
  <1>2. CASE OpenFails(g, r)  BY <1>1, <1>2, OpenFailsTyped, OpenFailsLocal DEF IInv
  <1>3. CASE Open(g, r)       BY <1>1, <1>3, OpenTyped, OpenLocal DEF IInv
  <1>4. CASE Announced(g, r)  BY <1>1, <1>4, AnnouncedTyped, AnnouncedLocal DEF IInv
  <1>5. CASE Refreshed(g, r)  BY <1>1, <1>5, RefreshedTyped, RefreshedLocal DEF IInv
  <1>6. CASE Undone(g, r)     BY <1>1, <1>6, UndoneTyped, UndoneLocal DEF IInv
  <1>7. QED  BY <1>2, <1>3, <1>4, <1>5, <1>6 DEF StartStep

\* A step of an adapter outside its starts, or the next stop of a gateway.
LEMMA AdapterStepInv ==
  ASSUME IInv, NEW g \in Gateways,
         RefreshFails(g) \/ StopDone(g) \/ StopRaises(g) \/ LateCleanup(g) \/ StopNext(g) \/ Lose(g)
  PROVE  IInv'
  <1>1. TypeOK  BY DEF IInv
  <1>2. CASE RefreshFails(g)  BY <1>1, <1>2, RefreshFailsTyped, RefreshFailsLocal DEF IInv
  <1>3. CASE StopDone(g)      BY <1>1, <1>3, StopDoneTyped, StopDoneLocal DEF IInv
  <1>4. CASE StopRaises(g)    BY <1>1, <1>4, StopRaisesTyped, StopRaisesLocal DEF IInv
  <1>5. CASE LateCleanup(g)   BY <1>1, <1>5, LateCleanupTyped, LateCleanupLocal DEF IInv
  <1>6. CASE StopNext(g)      BY <1>1, <1>6, StopNextTyped, StopNextLocal DEF IInv
  <1>7. CASE Lose(g)          BY <1>1, <1>7, LoseTyped, LoseLocal DEF IInv
  <1>8. QED  BY <1>2, <1>3, <1>4, <1>5, <1>6, <1>7

\* A step of a provider event.
LEMMA EventStepInv ==
  ASSUME IInv, NEW g \in Gateways, NEW c \in Slots,
         Restore(g, c) \/ Traffic(g, c) \/ EventConcluded(g, c)
  PROVE  IInv'
  <1>1. TypeOK  BY DEF IInv
  <1>2. CASE Restore(g, c) \/ Traffic(g, c)  BY <1>1, <1>2, ReportedTyped, ReportedLocal DEF IInv
  <1>3. CASE EventConcluded(g, c)  BY <1>1, <1>3, EventConcludedTyped, EventConcludedLocal DEF IInv
  <1>4. QED  BY <1>2, <1>3

\* A step of a watchdog.
LEMMA WatchdogStepInv ==
  ASSUME IInv, NEW g \in Gateways, WatchdogStep(g)
  PROVE  IInv'
  <1>1. TypeOK  BY DEF IInv
  <1>2. CASE WatchdogHead(g)   BY <1>1, <1>2, WatchdogCallsTyped, WatchdogHeadLocal DEF IInv
  <1>3. CASE WatchdogWake(g)   BY <1>1, <1>3, WatchdogCallsTyped, WatchdogWakeLocal DEF IInv
  <1>4. CASE WatchdogStart(g)  BY <1>1, <1>4, WatchdogCallsTyped, WatchdogStartLocal DEF IInv
  <1>5. CASE WatchdogFailed(g)  BY <1>1, <1>5, WatchdogFailedTyped, WatchdogFailedLocal DEF IInv
  <1>6. CASE WatchdogLooks(g)   BY <1>1, <1>6, WatchdogLooksTyped, WatchdogLooksLocal DEF IInv
  <1>7. CASE WatchdogUnwinds(g)  BY <1>1, <1>7, WatchdogUnwindsTyped, WatchdogUnwindsLocal DEF IInv
  <1>8. CASE WatchdogUnwound(g) \/ WatchdogCleared(g)
    BY <1>1, <1>8, WatchdogEndsTyped, WatchdogEndsLocal DEF IInv
  <1>9. QED  BY <1>2, <1>3, <1>4, <1>5, <1>6, <1>7, <1>8 DEF WatchdogStep

\* A step of the startup.
LEMMA StartupStepInv ==
  ASSUME IInv, StartupStep
  PROVE  IInv'
  <1>1. TypeOK  BY DEF IInv
  <1>2. CASE StartupBegins    BY <1>1, <1>2, StartupBeginsTyped, StartupBeginsLocal DEF IInv
  <1>3. CASE StartupGathered  BY <1>1, <1>3, StartupGatheredTyped, StartupGathersLocal DEF IInv
  <1>4. CASE StartupFlushed   BY <1>1, <1>4, StartupEndsTyped, StartupGathersLocal DEF IInv
  <1>5. CASE StartupUnwinds   BY <1>1, <1>5, StartupUnwindsTyped, StartupUnwindsLocal DEF IInv
  <1>6. CASE StartupUnwound   BY <1>1, <1>6, StartupEndsTyped, StartupUnwoundLocal DEF IInv
  <1>7. QED  BY <1>2, <1>3, <1>4, <1>5, <1>6 DEF StartupStep

\* A step of a reload or a shutdown.
LEMMA LifeStepInv ==
  ASSUME IInv, LifeStep \/ BeginReload \/ BeginShutdown
  PROVE  IInv'
  <1>1. TypeOK /\ LifeInv  BY DEF IInv
  <1>2. CASE BeginReload \/ BeginShutdown \/ FinishShutdown
    BY <1>1, <1>2, FencesTyped, FencesLocal DEF IInv
  <1>3. CASE Quiesced \/ StartupDrained
    BY <1>1, <1>3, DrainsTyped, QuiescesLocal DEF IInv
  <1>4. CASE WatchdogsDrained  BY <1>1, <1>4, DrainsTyped, WatchdogsDrainedLocal DEF IInv
  <1>5. CASE FinishReload
    <2>1. generation <= MaxReloads  BY <1>1, <1>5 DEF FinishReload, LifeInv
    <2>2. QED  BY <1>1, <1>5, <2>1, FinishReloadTyped, FinishReloadLocal DEF IInv
  <1>6. QED  BY <1>2, <1>3, <1>4, <1>5 DEF LifeStep

\* A step that changes nothing.
LEMMA StutterInv ==
  ASSUME IInv, UNCHANGED vars
  PROVE  IInv'
  <1>1. /\ UNCHANGED <<connected, link, owner, epoch, known, told, repeated, startup, joined, cancelled>>
        /\ UNCHANGED attempt /\ UNCHANGED callback /\ UNCHANGED watchdog /\ UNCHANGED news
        /\ scenario' = scenario /\ UNCHANGED lifecycle
    BY DEF vars, system, adapter, events, news, tasks
  <1>2. TypeOK /\ LifeInv /\ \A q \in Gateways : Local(q)  BY DEF IInv
  <1>3. TypeOK'  BY <1>1, <1>2, TypeFrame, TypePartsNext
  <1>4. Steady  BY <1>1 DEF Steady
  <1>5. \A q \in Gateways : Untouched(q)  BY <1>1 DEF Untouched
  <1>6. \A q \in Gateways : Local(q)'  BY <1>2, <1>4, <1>5, LocalUntouched
  <1>7. LifeInv' /\ Gateways' = Gateways  BY <1>2, <1>4, LifeSteady, SteadyFacts
  <1>8. QED  BY <1>3, <1>6, <1>7 DEF IInv

\* Every step of the system.
LEMMA StepInv ==
  ASSUME IInv, [Next]_vars
  PROVE  IInv'
  <1>1. CASE Next
    BY <1>1, StartStepInv, AdapterStepInv, EventStepInv, WatchdogStepInv, StartupStepInv, LifeStepInv
       DEF Next
  <1>2. CASE UNCHANGED vars  BY <1>2, StutterInv
  <1>3. QED  BY <1>1, <1>2

\* The invariant holds in every state of every instance.
THEOREM InductiveInvariant == Spec => []IInv
  <1>1. Init => IInv  BY InitInv
  <1>2. IInv /\ [Next]_vars => IInv'  BY StepInv
  <1>3. QED  BY <1>1, <1>2, PTL DEF Spec

\* Type correctness: every variable of the coordinator and of its adapters keeps
\* its type, for every number of gateways, tasks, reloads and scenarios.
THEOREM TypeCorrect == Spec => []TypeOK
  <1>1. IInv => TypeOK  BY DEF IInv
  <1>2. QED  BY <1>1, InductiveInvariant, PTL

-----------------------------------------------------------------------------
(* What follows from it *)

\* With nothing under way nobody is left to tell: what was told is what is so.
LEMMA QuietIsTold ==
  ASSUME IInv
  PROVE  EventsConverge
  <1> SUFFICES ASSUME ReloadsComplete, NEW g \in Gateways, Quiet(g)
               PROVE  told[g] = connected[g] /\ known[g] = connected[g]
    BY DEF EventsConverge
  <1>1. TypeOK /\ Local(g) /\ ~Fenced  BY DEF IInv, Quiet
  <1>2. ToldAt(g)  BY <1>1 DEF Local, EventAt
  <1>3. ~\E c \in Contexts : Announces(g, c)  BY DEF Quiet, Announces
  <1>4. ~\E r \in Runners : attempt[g][r] = "undo"  BY DEF Quiet, Roles
  <1>5. connected[g] \in BOOLEAN /\ known[g] \in BOOLEAN /\ told[g] \in BOOLEAN
    BY <1>1, TypesNow
  <1>6. (told[g] <=> connected[g]) /\ (known[g] <=> connected[g])
    BY ONLY <1>2, <1>3, <1>4 DEF ToldAt
  <1>7. QED  BY <1>5, <1>6, Zenon

\* EventsConverge: with nothing under way, what the last gateway event said, and
\* what _handle_gateway_status remembers, is what the status of the gateway says,
\* however the callbacks of starts, watchdogs and provider events overlap.
THEOREM ToldIsSo == Spec => []EventsConverge
  <1>1. IInv => EventsConverge  BY QuietIsTold
  <1>2. QED  BY <1>1, InductiveInvariant, PTL

\* When a shutdown is over it has stopped every gateway.
LEMMA ClosedIsClosed ==
  ASSUME IInv
  PROVE  NothingLeaks
  <1> SUFFICES ASSUME life = "closed", "raise" \notin Faults, NEW g \in Gateways
               PROVE  ~connected[g] /\ link[g] = "none"
    BY DEF NothingLeaks
  <1>1. LifeInv /\ Local(g)  BY DEF IInv
  <1>2. shutting /\ g \in stopped  BY <1>1 DEF LifeInv
  <1>3. QED  BY <1>1, <1>2 DEF Local, LeakAt, KindAt

\* NothingLeaks: async_shutdown leaves no gateway that says it is connected and no
\* interface that a start has published, whatever it met.
THEOREM ShutdownCloses == Spec => []NothingLeaks
  <1>1. IInv => NothingLeaks  BY ClosedIsClosed
  <1>2. QED  BY <1>1, InductiveInvariant, PTL

\* OneInterface: a start publishes only where it finds no interface, since stop
\* before start and the epochs leave at most one start that may publish.
THEOREM OneOwner == Spec => OneInterface
  <1>1. ASSUME IInv, [Next]_vars
        PROVE  [\A g \in Gateways :
                  owner'[g] # owner[g] /\ owner'[g] # None => link[g] = "none"]_vars
    <2> SUFFICES ASSUME Next, NEW g \in Gateways, owner'[g] # owner[g], owner'[g] # None
                 PROVE  link[g] = "none"
      BY <1>1
    <2>1. TypeOK /\ Local(g) /\ owner \in [Gateways -> Runners \cup {None}]
      BY <1>1, TypesNow DEF IInv
    <2>2. ASSUME NEW h \in Gateways, NEW r \in Runners, Open(h, r) PROVE link[g] = "none"
      <3>1. /\ attempt[h][r] = "opening"
            /\ (MayPublish(h, r) /\ owner' = [owner EXCEPT ![h] = r]) \/ owner' = owner
        BY <2>2 DEF Open
      <3>2. h = g /\ epoch[g] = r
        BY ONLY <2>1, <2>2, <3>1, owner'[g] # owner[g] DEF MayPublish
      <3>3. QED  BY ONLY <2>1, <2>2, <3>1, <3>2 DEF Local, StartAt, KindAt
    <2>3. CASE UNCHANGED owner  BY <2>3
    <2>4. ASSUME NEW h \in Gateways, owner' = [owner EXCEPT ![h] = None] PROVE FALSE
      BY <2>1, <2>4
    <2>5. ASSUME NEW h \in Gateways, WatchdogUnwinds(h) PROVE FALSE
      <3>1. owner' = owner \/ owner' = [owner EXCEPT ![h] = None]
        BY <2>5 DEF WatchdogUnwinds, Discard
      <3>2. QED  BY <2>4, <3>1
    <2>6. CASE FinishReload \/ StartupUnwinds
      <3>1. owner'[g] \in {owner[g], None}  BY <2>6 DEF FinishReload, StartupUnwinds
      <3>2. QED  BY <3>1
    <2>7. ASSUME NEW h \in Gateways, NEW r \in Runners, StartStep(h, r) PROVE link[g] = "none"
      BY <2>2, <2>3, <2>7 DEF StartStep, OpenFails, Announced, Refreshed, Undone
    <2>8. ASSUME NEW h \in Gateways,
                 RefreshFails(h) \/ StopDone(h) \/ StopRaises(h) \/ LateCleanup(h) \/ StopNext(h) \/ Lose(h)
          PROVE  link[g] = "none"
      BY <2>3, <2>4, <2>8 DEF RefreshFails, StopDone, StopRaises, LateCleanup, StopNext, Lose
    <2>9. ASSUME NEW h \in Gateways, NEW c \in Slots,
                 Restore(h, c) \/ Traffic(h, c) \/ EventConcluded(h, c)
          PROVE  link[g] = "none"
      BY <2>3, <2>9 DEF Restore, Traffic, EventConcluded, adapter
    <2>10. ASSUME NEW h \in Gateways, WatchdogStep(h) PROVE link[g] = "none"
      BY <2>3, <2>5, <2>10
         DEF WatchdogStep, WatchdogHead, WatchdogWake, WatchdogStart, WatchdogFailed, WatchdogLooks,
             WatchdogUnwound, WatchdogCleared, adapter
    <2>11. CASE StartupStep \/ LifeStep \/ BeginReload \/ BeginShutdown
      BY <2>3, <2>6, <2>11
         DEF StartupStep, StartupBegins, StartupGathered, StartupFlushed, StartupUnwound,
             LifeStep, Quiesced, StartupDrained, WatchdogsDrained, FinishShutdown,
             BeginReload, BeginShutdown, adapter
    <2>12. QED  BY <2>7, <2>8, <2>9, <2>10, <2>11 DEF Next
  <1>2. QED  BY <1>1, InductiveInvariant, PTL DEF Spec, OneInterface

\* A step that sets one entry of attempt, and not to "opening".
LEMMA NothingOpens ==
  ASSUME TypeOK, NEW h \in Gateways, NEW s \in Roles, NEW x, x # "opening",
         attempt' = [attempt EXCEPT ![h][s] = x]
  PROVE  \A q \in Gateways, r \in Runners : attempt'[q][r] = "opening" => attempt[q][r] = "opening"
  <1>1. attempt \in [Gateways -> [Roles -> Stages]] /\ Runners \subseteq Roles
    BY TypesNow DEF Roles
  <1>2. QED  BY ONLY <1>1, x # "opening", attempt' = [attempt EXCEPT ![h][s] = x], h \in Gateways, s \in Roles

\* NoStartAfterShutdown: behind a shutdown the watchdogs and the startup that are
\* still under way call no async_start, and no stop or cleanup brings one back.
THEOREM NothingStarts == Spec => NoStartAfterShutdown
  <1>1. ASSUME IInv, [Next]_vars
        PROVE  [\A g \in Gateways, r \in Runners :
                  shutting /\ attempt[g][r] # "opening" => attempt'[g][r] # "opening"]_vars
    <2> DEFINE Starts == \A q \in Gateways, r \in Runners :
                           attempt'[q][r] = "opening" => attempt[q][r] = "opening"
    <2> SUFFICES ASSUME Next, shutting PROVE Starts
      BY <1>1
    <2>1. TypeOK /\ attempt \in [Gateways -> [Roles -> Stages]] /\ Fenced
      BY <1>1, TypesNow DEF IInv, Fenced
    <2>2. \A r \in Runners : r \in Roles  BY DEF Roles
    <2>3. CASE attempt' = attempt  BY ONLY <2>3
    <2>4. ASSUME NEW h \in Gateways, NEW s \in Roles, NEW x, x # "opening",
                 attempt' = [attempt EXCEPT ![h][s] = x]
          PROVE  Starts
      BY <2>1, <2>4, NothingOpens
    <2> HIDE DEF Starts
    <2>5. ASSUME NEW h \in Gateways, NEW r \in Runners, StartStep(h, r) PROVE Starts
      <3>1. \E x : x # "opening" /\ attempt' = [attempt EXCEPT ![h][r] = x]
        BY <2>5 DEF StartStep, OpenFails, Open, Announced, Refreshed, Undone, Return
      <3>2. QED  BY <2>2, <2>4, <3>1
    <2>6. ASSUME NEW h \in Gateways,
                 RefreshFails(h) \/ StopDone(h) \/ StopRaises(h) \/ LateCleanup(h) \/ StopNext(h) \/ Lose(h)
          PROVE  Starts
      <3>1. "stop" \in Roles /\ "client" \in Roles  BY DEF Roles, Runners
      <3>2. \/ attempt' = attempt
            \/ \E s \in {"stop", "client"} : \E x : x # "opening" /\ attempt' = [attempt EXCEPT ![h][s] = x]
        BY <2>6 DEF RefreshFails, StopDone, StopRaises, LateCleanup, StopNext, Lose, Return, CallStop
      <3>3. QED  BY <2>3, <2>4, <3>1, <3>2
    <2>7. ASSUME NEW h \in Gateways, NEW c \in Slots,
                 Restore(h, c) \/ Traffic(h, c) \/ EventConcluded(h, c)
          PROVE  Starts
      BY <2>3, <2>7 DEF Restore, Traffic, EventConcluded, adapter
    <2>8. ASSUME NEW h \in Gateways, WatchdogUnwinds(h) PROVE Starts
      <3>1. (watchdog[h] = "stopping") \in BOOLEAN /\ Discard(h, "watchdog", watchdog[h] = "stopping")
        BY <2>8 DEF WatchdogUnwinds
      <3>2. /\ attempt'[h]["watchdog"] # "opening"
            /\ \A s \in Roles : s \notin {"watchdog", "stop"} => attempt'[h][s] = attempt[h][s]
            /\ \A q \in Gateways : q # h => attempt'[q] = attempt[q]
        BY <2>1, <3>1, DiscardEffect
      <3>3. "stop" \notin Runners  BY DEF Runners
      <3>4. QED  BY ONLY <2>2, <3>2, <3>3 DEF Starts
    <2>9. ASSUME NEW h \in Gateways, WatchdogStep(h) PROVE Starts
      BY <2>1, <2>3, <2>8, <2>9
         DEF WatchdogStep, WatchdogHead, WatchdogWake, WatchdogStart, WatchdogFailed, WatchdogLooks,
             WatchdogUnwound, WatchdogCleared, StopsHere, adapter
    <2>10. CASE StartupUnwinds
      <3>1. /\ {"startup"} \subseteq Roles
            /\ attempt' = [g \in Gateways |-> [attempt[g] EXCEPT !["startup"] =
                 IF owner[g] = "startup" /\ attempt[g]["startup"] # "none" THEN "undo" ELSE "none"]]
        BY <2>10 DEF StartupUnwinds, Roles, Runners
      <3>2. ASSUME NEW q \in Gateways, NEW r \in Runners
            PROVE  attempt'[q][r] = "opening" => attempt[q][r] = "opening"
        <4>1. attempt'[q] = [attempt[q] EXCEPT !["startup"] =
                IF owner[q] = "startup" /\ attempt[q]["startup"] # "none" THEN "undo" ELSE "none"]
          BY ONLY <3>1, <3>2
        <4>2. attempt[q] \in [Roles -> Stages]  BY ONLY <2>1, <3>2
        <4>3. QED  BY ONLY <2>2, <3>1, <3>2, <4>1, <4>2
      <3>3. QED  BY ONLY <3>2 DEF Starts
    <2>11. CASE FinishReload
      <3>1. attempt' = [g \in Gateways |-> [r \in Roles |-> "none"]]  BY <2>11 DEF FinishReload
      <3>2. QED  BY ONLY <2>2, <3>1 DEF Starts
    <2>12. CASE StartupStep \/ LifeStep \/ BeginReload \/ BeginShutdown
      BY <2>3, <2>10, <2>11, <2>12
         DEF StartupStep, StartupBegins, StartupGathered, StartupFlushed, StartupUnwound,
             LifeStep, Quiesced, StartupDrained, WatchdogsDrained, FinishShutdown,
             BeginReload, BeginShutdown, adapter
    <2>13. QED  BY <2>5, <2>6, <2>7, <2>9, <2>12 DEF Next
  <1>2. QED  BY <1>1, InductiveInvariant, PTL DEF Spec, NoStartAfterShutdown

\* OldCallbacksAreSilent: a callback of a provider event leaves only at its own
\* end, where it compares the generation it captured with the current one.
THEOREM OldCallbacksEnd == Spec => OldCallbacksAreSilent
  <1>1. ASSUME IInv, [Next]_vars
        PROVE  [\A g \in Gateways, c \in Slots :
                  callback[g][c] # None /\ callback'[g][c] = None =>
                    callback[g][c].gen = generation \/ UNCHANGED <<known, told>>]_vars
    <2> SUFFICES ASSUME Next, NEW g \in Gateways, NEW c \in Slots,
                        callback[g][c] # None, callback'[g][c] = None
                 PROVE  callback[g][c].gen = generation \/ UNCHANGED <<known, told>>
      BY <1>1
    <2>1. TypeOK /\ callback \in [Gateways -> [Contexts -> {None} \cup Captured]]
      BY <1>1, TypesNow DEF IInv
    <2>2. c \in Contexts /\ c \notin Runners /\ Runners \subseteq Contexts
      BY <2>1, TypeParts, ScenarioFacts DEF Roles
    <2>3. CASE UNCHANGED callback  BY <2>3
    <2>4. ASSUME NEW h \in Gateways, NEW d \in Contexts, ~(h = g /\ d = c),
                 \A q \in Gateways : q # h => callback'[q] = callback[q],
                 \A e \in Contexts : e # d => callback'[h][e] = callback[h][e]
          PROVE  FALSE
      BY ONLY <2>2, <2>4, callback[g][c] # None, callback'[g][c] = None, g \in Gateways
    <2>5. ASSUME NEW h \in Gateways, NEW d \in Contexts, ConcludeIn(h, d)
          PROVE  callback[g][c].gen = generation \/ UNCHANGED <<known, told>>
      <3>1. /\ \A q \in Gateways : q # h => callback'[q] = callback[q]
            /\ \A e \in Contexts : e # d => callback'[h][e] = callback[h][e]
            /\ \/ Current(callback[h][d].gen)
               \/ UNCHANGED news
        BY <2>1, <2>5, ConcludeInEffect
      <3>2. h = g /\ d = c  BY <2>4, <3>1
      <3>3. QED  BY ONLY <3>1, <3>2 DEF Current, news
    <2>6. ASSUME NEW h \in Gateways, NEW r \in Runners, StartStep(h, r)
          PROVE  callback[g][c].gen = generation \/ UNCHANGED <<known, told>>
      <3>1. r \in Contexts /\ r # c  BY <2>2
      <3>2. CASE Open(h, r)
        <4>1. (UNCHANGED callback) \/ ReportUp(h, r)  BY <3>2 DEF Open
        <4>2. CASE ReportUp(h, r)
          <5>1. /\ \A q \in Gateways : q # h => callback'[q] = callback[q]
                /\ \A e \in Contexts : e # r => callback'[h][e] = callback[h][e]
            BY <2>1, <3>1, <4>2, ReportUpEffect
          <5>2. QED  BY <2>4, <3>1, <5>1
        <4>3. QED  BY <2>3, <4>1, <4>2
      <3>3. CASE Announced(h, r)
        <4>1. ConcludeIn(h, r)  BY <3>3 DEF Announced
        <4>2. QED  BY <2>5, <3>1, <4>1
      <3>4. QED
        BY <2>3, <2>6, <3>2, <3>3 DEF StartStep, OpenFails, Refreshed, Undone, events
    <2>7. ASSUME NEW h \in Gateways,
                 RefreshFails(h) \/ StopDone(h) \/ StopRaises(h) \/ LateCleanup(h) \/ StopNext(h) \/ Lose(h)
          PROVE  callback[g][c].gen = generation \/ UNCHANGED <<known, told>>
      BY <2>3, <2>7 DEF RefreshFails, StopDone, StopRaises, LateCleanup, StopNext, Lose, events
    <2>8. ASSUME NEW h \in Gateways, NEW d \in Slots,
                 Restore(h, d) \/ Traffic(h, d) \/ EventConcluded(h, d)
          PROVE  callback[g][c].gen = generation \/ UNCHANGED <<known, told>>
      <3>1. d \in Contexts  BY <2>1, TypeParts, ScenarioFacts
      <3>2. CASE Restore(h, d) \/ Traffic(h, d)
        <4>1. ReportUp(h, d) /\ callback[h][d] = None  BY <3>2 DEF Restore, Traffic
        <4>2. ~(h = g /\ d = c)  BY <4>1
        <4>3. QED  BY <2>1, <2>4, <3>1, <4>1, <4>2, ReportUpEffect
      <3>3. CASE EventConcluded(h, d)
        <4>1. ConcludeIn(h, d)  BY <3>3 DEF EventConcluded
        <4>2. QED  BY <2>5, <3>1, <4>1
      <3>4. QED  BY <2>8, <3>2, <3>3
    <2>9. ASSUME NEW h \in Gateways, WatchdogStep(h)
          PROVE  callback[g][c].gen = generation \/ UNCHANGED <<known, told>>
      <3>1. "watchdog" \in Contexts /\ "watchdog" # c  BY <2>2 DEF Runners
      <3>2. CASE WatchdogLooks(h)
        <4>1. ConcludeIn(h, "watchdog")  BY <3>2 DEF WatchdogLooks
        <4>2. QED  BY <2>5, <3>1, <4>1
      <3>3. CASE WatchdogFailed(h)
        <4>1. \/ UNCHANGED callback
              \/ callback' = [callback EXCEPT ![h]["watchdog"] = [prev |-> known[h], gen |-> generation]]
          BY <3>3 DEF WatchdogFailed, events
        <4>2. callback'[g][c] = callback[g][c]  BY ONLY <2>1, <2>2, <3>1, <4>1, g \in Gateways
        <4>3. QED  BY <4>2
      <3>4. CASE WatchdogUnwinds(h)
        <4>1. callback' = [callback EXCEPT ![h]["watchdog"] = None]
          BY <3>4 DEF WatchdogUnwinds, Discard
        <4>2. callback'[g][c] = callback[g][c]  BY ONLY <2>1, <2>2, <3>1, <4>1, g \in Gateways
        <4>3. QED  BY <4>2
      <3>5. QED
        BY <2>3, <2>9, <3>2, <3>3, <3>4
           DEF WatchdogStep, WatchdogHead, WatchdogWake, WatchdogStart, WatchdogUnwound,
               WatchdogCleared, events
    <2>10. CASE StartupUnwinds
      <3>1. /\ "startup" # c
            /\ callback' = [q \in Gateways |-> [callback[q] EXCEPT !["startup"] = None]]
        BY <2>2, <2>10 DEF StartupUnwinds, Runners
      <3>2. callback'[g] = [callback[g] EXCEPT !["startup"] = None]  BY ONLY <3>1, g \in Gateways
      <3>3. callback'[g][c] = callback[g][c]  BY ONLY <2>1, <2>2, <3>1, <3>2, g \in Gateways
      <3>4. QED  BY <3>3
    <2>11. CASE StartupStep \/ LifeStep \/ BeginReload \/ BeginShutdown
      BY <2>3, <2>10, <2>11
         DEF StartupStep, StartupBegins, StartupGathered, StartupFlushed, StartupUnwound,
             LifeStep, Quiesced, StartupDrained, WatchdogsDrained, FinishReload, FinishShutdown,
             BeginReload, BeginShutdown, events
    <2>12. QED  BY <2>6, <2>7, <2>8, <2>9, <2>11 DEF Next
  <1>2. QED  BY <1>1, InductiveInvariant, PTL DEF Spec, OldCallbacksAreSilent

=============================================================================
