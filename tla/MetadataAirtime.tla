---------------------------- MODULE MetadataAirtime ----------------------------
(***************************************************************************)
(* The durable reservations of store.py (tables metadata_airtime,          *)
(* traceroutes, neighbor_info_requests and remote_reboots) and the         *)
(* requests of coordinator.py, remote_admin.py and remote_services.py that *)
(* take them before they transmit.                                         *)
(*                                                                         *)
(* A request reads the clock when it is made and runs its transaction      *)
(* later, behind the other work of the store.  Instants are numbers; a row *)
(* that was never written has next instant 0, the same as an expired one.  *)
(***************************************************************************)
EXTENDS Naturals, FiniteSets

CONSTANTS
  Requests,     \* concurrent callers
  Gateways, Targets,
  Floor,        \* MANUAL_TRACEROUTE_COOLDOWN_SECONDS, and the probe's 60 s
  TargetFloor,  \* MANUAL_NEIGHBOR_INFO_TARGET_COOLDOWN_SECONDS
  RebootFloor,  \* one hour
  Retention,    \* history_days
  Scenarios,    \* the situations considered, see ScenariosAssumption
  MaxClock      \* bound of the clock, for TLC only

Operations == {"traceroute", "neighbor_info", "remote_health", "reboot"}

\* A scenario: what is asked for, over which gateways and for which nodes, and
\* the instants a database of an older release may have reserved.
ASSUME ScenariosAssumption ==
  Scenarios \subseteq [operations : SUBSET Operations, gateways : SUBSET Gateways,
                      targets : SUBSET Targets, legacy : SUBSET Nat]
ASSUME FloorsAssumption ==
  /\ Floor \in Nat \ {0} /\ TargetFloor \in Nat \ {0} /\ RebootFloor \in Nat \ {0}
  /\ Floor <= TargetFloor
ASSUME ClockAssumption == Retention \in Nat /\ MaxClock \in Nat \ {0}

VARIABLES
  clock,
  phase,    \* where each request is
  job,      \* what it asks for: [op, gw, target]
  stamp,    \* the instant it read
  metadata, \* metadata_airtime: next_allowed_at of the one row
  traces,   \* traceroutes, by gateway and target: [reserved, next, result]
  neighbors,\* neighbor_info_requests, by target: [gw, reserved, global, next, result]
  reboots,  \* remote_reboots, by target: next_allowed_at
  grants,   \* history: every reservation made
  lastAir,  \* history: the instant of the last transmission, 0 before the first
  scenario  \* the situation, chosen at the start and never changed

tables == <<metadata, traces, neighbors, reboots>>
system == <<clock, phase, job, stamp, tables, grants, lastAir>>
vars   == <<system, scenario>>

\* "queued": in the store's queue; "left": its caller was cancelled, its
\* transaction still runs; "granted": waits for the provider and its send lock.
Phases == {"idle", "queued", "left", "granted", "aired"}

Jobs == [op : Operations, gw : Gateways, target : Targets]
Wanted == [op : scenario.operations, gw : scenario.gateways, target : scenario.targets]

\* The local state of a request that is over, or was never made.
NoJob == [op |-> "none", gw |-> CHOOSE g \in Gateways : TRUE,
          target |-> CHOOSE t \in Targets : TRUE]

Record(r) == [at |-> stamp[r], op |-> job[r].op, target |-> job[r].target]

-----------------------------------------------------------------------------
(* The transactions, as seen by the request r *)

\* SELECT 1 FROM traceroutes WHERE next_allowed_at > ?
TracesFree(r) == \A g \in Gateways, t \in Targets : traces[g][t].next <= stamp[r]

\* SELECT 1 FROM neighbor_info_requests WHERE global_next_allowed_at > ?
NeighborsFree(r) == \A t \in Targets : neighbors[t].global <= stamp[r]

\* SELECT 1 FROM metadata_airtime WHERE next_allowed_at > ?
MetadataFree(r) == metadata <= stamp[r]

\* Mutated form: the floor belongs to the gateway that asks.
TargetFreeHere(r) ==
  neighbors[job[r].target].gw = job[r].gw => neighbors[job[r].target].next <= stamp[r]

\* ... WHERE target_node = ? AND target_next_allowed_at > ?
TargetFree(r) == neighbors[job[r].target].next <= stamp[r]

\* The row that is DELETEd when it has expired, before INSERT OR IGNORE.
RebootFree(r) == reboots[job[r].target] <= stamp[r]

\* The condition under which each kind of reservation is made.
Allowed(r) ==
  CASE job[r].op = "traceroute"    -> TracesFree(r) /\ NeighborsFree(r) /\ MetadataFree(r)
    [] job[r].op = "neighbor_info" -> /\ TracesFree(r) /\ NeighborsFree(r)
                                      /\ MetadataFree(r) /\ TargetFree(r)
    [] job[r].op = "remote_health" -> MetadataFree(r)
    [] job[r].op = "reboot"        -> RebootFree(r)

\* The row of the key is written or reset, and so is the shared row.
ReserveTraceroute(r) ==
  /\ metadata' = stamp[r] + Floor
  /\ traces' = [traces EXCEPT ![job[r].gw][job[r].target] =
                  [reserved |-> stamp[r], next |-> stamp[r] + Floor, result |-> 0]]
  /\ UNCHANGED <<neighbors, reboots>>

ReserveNeighborInfo(r) ==
  /\ metadata' = stamp[r] + Floor
  /\ neighbors' = [neighbors EXCEPT ![job[r].target] =
                     [gw |-> job[r].gw, reserved |-> stamp[r], global |-> stamp[r] + Floor,
                      next |-> stamp[r] + TargetFloor, result |-> 0]]
  /\ UNCHANGED <<traces, reboots>>

ReserveProbe(r) ==
  /\ metadata' = stamp[r] + Floor
  /\ UNCHANGED <<traces, neighbors, reboots>>

\* Every expired row is deleted, the row of the target is inserted.
ReserveReboot(r) ==
  /\ reboots' = [t \in Targets |->
                   IF t = job[r].target THEN stamp[r] + RebootFloor
                   ELSE IF reboots[t] <= stamp[r] THEN 0 ELSE reboots[t]]
  /\ UNCHANGED <<metadata, traces, neighbors>>

Reserve(r) ==
  CASE job[r].op = "traceroute"    -> ReserveTraceroute(r)
    [] job[r].op = "neighbor_info" -> ReserveNeighborInfo(r)
    [] job[r].op = "remote_health" -> ReserveProbe(r)
    [] job[r].op = "reboot"        -> ReserveReboot(r)

\* A reboot that is refused has still deleted the expired rows.
Refuse(r) ==
  /\ reboots' = IF job[r].op = "reboot"
                  THEN [t \in Targets |-> IF reboots[t] <= stamp[r] THEN 0 ELSE reboots[t]]
                  ELSE reboots
  /\ UNCHANGED <<metadata, traces, neighbors>>

-----------------------------------------------------------------------------
(* Requests *)

\* The coroutine of r returns or raises.
Done(r) ==
  /\ phase' = [phase EXCEPT ![r] = "idle"]
  /\ job' = [job EXCEPT ![r] = NoJob]
  /\ stamp' = [stamp EXCEPT ![r] = 0]

\* A caller passed the checks of its operation and asks for its reservation.
Ask(r) ==
  /\ phase[r] = "idle"
  /\ \E j \in Wanted : job' = [job EXCEPT ![r] = j]
  /\ stamp' = [stamp EXCEPT ![r] = clock]
  /\ phase' = [phase EXCEPT ![r] = "queued"]
  /\ UNCHANGED <<scenario, clock, tables, grants, lastAir>>

\* The store runs its work in the order it was asked for.
Waiting == {r \in Requests : phase[r] \in {"queued", "left"}}
First(r) == r \in Waiting /\ \A q \in Waiting : stamp[r] <= stamp[q]

\* BEGIN IMMEDIATE ... COMMIT: the request is granted or sees the cooldown.
Transact(r) ==
  /\ First(r)
  /\ \/ /\ Allowed(r)
        /\ Reserve(r)
        /\ grants' = grants \cup {Record(r)}
        /\ IF phase[r] = "left"
             THEN Done(r)
             ELSE phase' = [phase EXCEPT ![r] = "granted"] /\ UNCHANGED <<job, stamp>>
     \/ /\ ~Allowed(r)
        /\ Refuse(r)
        /\ Done(r)
        /\ UNCHANGED grants
  /\ UNCHANGED <<scenario, clock, lastAir>>

\* The provider has its send lock, after any wait, and writes the request.
Transmit(r) ==
  /\ phase[r] = "granted"
  /\ phase' = [phase EXCEPT ![r] = "aired"]
  /\ lastAir' = clock
  /\ UNCHANGED <<scenario, clock, job, stamp, tables, grants>>

\* The answer is validated and stored in the row of the key it was asked under:
\* an UPDATE, which may find a newer reservation there, or none.
StoreResult(r) ==
  /\ phase[r] = "aired"
  /\ Done(r)
  /\ LET g == job[r].gw
         t == job[r].target IN
     /\ traces' = IF job[r].op = "traceroute" /\ traces[g][t].next > 0
                    THEN [traces EXCEPT ![g][t].result = stamp[r]] ELSE traces
     /\ neighbors' = IF job[r].op = "neighbor_info" /\ neighbors[t].gw = g
                          /\ neighbors[t].next > 0
                       THEN [neighbors EXCEPT ![t].result = stamp[r]] ELSE neighbors
  /\ UNCHANGED <<scenario, clock, metadata, reboots, grants, lastAir>>

\* Timeout, provider failure, lifecycle change: the reservation stays used.
Fail(r) ==
  /\ phase[r] \in {"granted", "aired"}
  /\ Done(r)
  /\ UNCHANGED <<scenario, clock, tables, grants, lastAir>>

\* A cancelled caller: the transaction it waits for is owned by the store.
Cancel(r) ==
  /\ phase[r] = "queued"
  /\ phase' = [phase EXCEPT ![r] = "left"]
  /\ UNCHANGED <<scenario, clock, job, stamp, tables, grants, lastAir>>

-----------------------------------------------------------------------------
(* The store *)

\* A row that does not exist.
NoTrace    == [reserved |-> 0, next |-> 0, result |-> 0]
NoNeighbor == [gw |-> CHOOSE g \in Gateways : TRUE, reserved |-> 0, global |-> 0,
               next |-> 0, result |-> 0]

\* The latest instant reserved by a row of the tables: one, as a set.
LatestIn(instants) == {n \in instants : \A m \in instants : m <= n}

\* Mutated form: only the NeighborInfo rows are taken over.
UpgradedNeighbors(tr, nb) == LatestIn({nb[t].global : t \in Targets} \cup {0})

\* INSERT OR IGNORE INTO metadata_airtime ... ORDER BY next_allowed_at DESC,
\* the last step of creating the tables, over the rows of an older release.
Upgraded(tr, nb) ==
  LatestIn({tr[g][t].next : g \in Gateways, t \in Targets}
             \cup {nb[t].global : t \in Targets} \cup {0})

\* Mutated form: the retention time alone decides.
PrunedByAge(reserved, next) == reserved + Retention < clock

\* DELETE ... WHERE reserved_at < ? AND next_allowed_at <= ?
Pruned(reserved, next) == reserved + Retention < clock /\ next <= clock

\* async_prune, at an update of the coordinator; the requests that read an
\* earlier instant are done by then.
Prune ==
  /\ Waiting = {}
  /\ traces' = [g \in Gateways |-> [t \in Targets |->
                  IF Pruned(traces[g][t].reserved, traces[g][t].next)
                    THEN NoTrace ELSE traces[g][t]]]
  /\ neighbors' = [t \in Targets |->
                     IF /\ Pruned(neighbors[t].reserved, neighbors[t].global)
                        /\ Pruned(neighbors[t].reserved, neighbors[t].next)
                       THEN NoNeighbor ELSE neighbors[t]]
  /\ UNCHANGED <<scenario, clock, phase, job, stamp, metadata, reboots, grants, lastAir>>

\* A crash or a restart: the requests are gone, the tables are not.  The
\* upgrade finds its row, or nothing to take over.
Restart ==
  /\ phase' = [r \in Requests |-> "idle"]
  /\ job' = [r \in Requests |-> NoJob] /\ stamp' = [r \in Requests |-> 0]
  /\ metadata' \in IF metadata = 0 THEN Upgraded(traces, neighbors) ELSE {metadata}
  /\ UNCHANGED <<scenario, clock, traces, neighbors, reboots, grants, lastAir>>

Tick ==
  /\ clock < MaxClock
  /\ clock' = clock + 1
  /\ UNCHANGED <<scenario, phase, job, stamp, tables, grants, lastAir>>

-----------------------------------------------------------------------------
(* Specification *)

\* The tables of an older release, which kept the two cooldowns apart.
LegacyTraces ==
  [Gateways -> [Targets -> [reserved : {0}, next : scenario.legacy \cup {0}, result : {0}]]]
LegacyNeighbors ==
  {nb \in [Targets -> [gw : Gateways, reserved : {0}, global : scenario.legacy \cup {0},
                       next : scenario.legacy \cup {0}, result : {0}]] :
     \A t \in Targets : /\ nb[t].global <= nb[t].next
                        /\ nb[t].next = 0 => nb[t] = NoNeighbor}

Init ==
  /\ scenario \in Scenarios
  /\ clock = 1
  /\ phase = [r \in Requests |-> "idle"]
  /\ job = [r \in Requests |-> NoJob] /\ stamp = [r \in Requests |-> 0]
  /\ traces \in LegacyTraces /\ neighbors \in LegacyNeighbors
  /\ metadata \in Upgraded(traces, neighbors)
  /\ reboots = [t \in Targets |-> 0]
  /\ grants = {} /\ lastAir = 0

Next ==
  \/ \E r \in Requests :
       Ask(r) \/ Transact(r) \/ Transmit(r) \/ StoreResult(r) \/ Fail(r) \/ Cancel(r)
  \/ Prune \/ Restart \/ Tick

Spec == Init /\ [][Next]_vars

-----------------------------------------------------------------------------
(* Properties *)

\* Type invariant.
TypeOK ==
  /\ scenario \in Scenarios
  /\ clock \in Nat
  /\ phase \in [Requests -> Phases] /\ job \in [Requests -> Jobs \cup {NoJob}]
  /\ stamp \in [Requests -> Nat]
  /\ metadata \in Nat
  /\ traces \in [Gateways -> [Targets -> [reserved : Nat, next : Nat, result : Nat]]]
  /\ neighbors \in [Targets -> [gw : Gateways, reserved : Nat, global : Nat,
                                next : Nat, result : Nat]]
  /\ reboots \in [Targets -> Nat]
  /\ grants \subseteq [at : Nat, op : Operations, target : Targets]
  /\ lastAir \in Nat
  /\ \A r \in Requests :
       /\ stamp[r] <= clock
       /\ phase[r] # "idle" => job[r] \in Jobs

\* What the reservations promise.
Slots == INSTANCE AirtimeSlots WITH Instants <- 0..MaxClock

\* The tables keep the promise: whatever callers race, are cancelled, crash or
\* wait behind other work, and whatever is pruned, the grants stay spaced.
SlotsKept == Slots!Spec

\* The probe looks at metadata_airtime alone, so that row must speak for the two
\* tables older releases wrote: never is a probe granted while a traceroute or
\* a NeighborInfo request of the database still blocks the network.
ProbeRespectsAll ==
  [][\A r \in Requests :
       /\ job[r].op = "remote_health" /\ phase[r] \in {"queued", "left"}
       /\ Record(r) \in grants' \ grants
       => TracesFree(r) /\ NeighborsFree(r)]_vars

\* async_prune: "Prune old history without deleting an active RF cooldown": no
\* step of any kind shortens a cooldown that is running.
CooldownsLast ==
  [][/\ \A g \in Gateways, t \in Targets :
          traces[g][t].next > clock => traces'[g][t].next = traces[g][t].next
     /\ \A t \in Targets :
          /\ neighbors[t].next > clock => neighbors'[t].next = neighbors[t].next
          /\ reboots[t] > clock => reboots'[t] = reboots[t]
     /\ metadata > clock => metadata' = metadata]_vars

\* store.py:865: "One recent transmission blocks every gateway and destination":
\* two requests are never on the air less than Floor apart.
AirSpaced ==
  [][lastAir' # lastAir /\ lastAir > 0 => lastAir' >= lastAir + Floor]_vars

\* async_store_traceroute_result: "Attach one sanitized result to an existing
\* cooldown reservation": a row shows the result of its own reservation.
ResultOfReservation ==
  \A g \in Gateways, t \in Targets :
    traces[g][t].result \in {0, traces[g][t].reserved}

=============================================================================
