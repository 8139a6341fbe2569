--------------------------- MODULE Maintenance_proofs ---------------------------
(***************************************************************************)
(* The reservations of the metadata airtime and the scheduler that asks    *)
(* for them, for every value of their constants.                           *)
(*                                                                         *)
(* MetadataAirtime: reservations are typed, implement AirtimeSlots and     *)
(* never cut a running cooldown short, and the probe respects the          *)
(* cooldowns of all tables.  metadata_airtime is never below a row of the  *)
(* other tables nor below a grant's floor, and a per-target row that is    *)
(* deleted has expired for the clock and for every transaction waiting.    *)
(*                                                                         *)
(* MaintenanceScan: the scheduler is typed, spaces its requests, waits a   *)
(* full interval after it is armed and asks no node twice a cycle.  While  *)
(* requests are accepted, the countdown that gates the next request and    *)
(* the time since the last one add up to the spacing; a task that is not   *)
(* cancelled exists only while requests are accepted.                      *)
(***************************************************************************)
EXTENDS MetadataAirtime, MaintenanceScan, TLAPS

USE FloorsAssumption, ClockAssumption

TraceRow    == [reserved : Nat, next : Nat, result : Nat]
NeighborRow == [gw : Gateways, reserved : Nat, global : Nat, next : Nat, result : Nat]

\* The instants stay within the clock.
ClockInv ==
  /\ 1 <= clock /\ clock <= MaxClock
  /\ \A r \in Waiting : 1 <= stamp[r]

\* No row outlasts the shared one.
TablesInv ==
  /\ \A g \in Gateways : \A t \in Targets : traces[g][t].next <= metadata
  /\ \A t \in Targets : neighbors[t].global <= metadata

\* The instant until is still recorded as n, or past for everybody.
Kept(n, until) ==
  \/ until <= n
  \/ until <= clock /\ \A q \in Waiting : until <= stamp[q]

\* Every grant is still felt.
GrantInv ==
  \A g \in grants :
    /\ g.op # "reboot" => g.at + Floor <= metadata
    /\ g.op = "neighbor_info" => Kept(neighbors[g.target].next, g.at + TargetFloor)
    /\ g.op = "reboot" => Kept(reboots[g.target], g.at + RebootFloor)

IInv == TypeOK /\ ClockInv /\ TablesInv /\ GrantInv

-----------------------------------------------------------------------------
(* Types *)

\* What the type invariant says of a request under way.
LEMMA JobTyped ==
  ASSUME TypeOK, NEW r \in Requests, phase[r] # "idle"
  PROVE  /\ job[r] \in Jobs /\ job[r].op \in Operations /\ job[r].gw \in Gateways
         /\ job[r].target \in Targets /\ stamp[r] \in Nat
  BY DEF TypeOK, Jobs

\* A finished request leaves its variables well typed.
LEMMA DoneTyped ==
  ASSUME TypeOK, NEW r \in Requests, Done(r), clock' = clock
  PROVE  /\ phase' \in [Requests -> Phases] /\ job' \in [Requests -> Jobs \cup {NoJob}]
         /\ stamp' \in [Requests -> Nat]
         /\ \A q \in Requests : /\ stamp'[q] <= clock'
                                /\ phase'[q] # "idle" => job'[q] \in Jobs
  BY DEF TypeOK, Done, Phases

\* The tables and the history after a granted reservation.
LEMMA ReserveTyped ==
  ASSUME TypeOK, NEW r \in Requests, phase[r] # "idle", Reserve(r)
  PROVE  /\ metadata' \in Nat /\ traces' \in [Gateways -> [Targets -> TraceRow]]
         /\ neighbors' \in [Targets -> NeighborRow] /\ reboots' \in [Targets -> Nat]
  <1>1. /\ job[r].op \in Operations /\ job[r].gw \in Gateways
        /\ job[r].target \in Targets /\ stamp[r] \in Nat
    BY JobTyped
  <1>2. /\ metadata \in Nat /\ traces \in [Gateways -> [Targets -> TraceRow]]
        /\ neighbors \in [Targets -> NeighborRow] /\ reboots \in [Targets -> Nat]
    BY DEF TypeOK, TraceRow, NeighborRow
  <1>3. CASE ReserveTraceroute(r)
    BY ONLY <1>1, <1>2, <1>3, FloorsAssumption DEF ReserveTraceroute, TraceRow
  <1>4. CASE ReserveNeighborInfo(r)
    BY ONLY <1>1, <1>2, <1>4, FloorsAssumption DEF ReserveNeighborInfo, NeighborRow
  <1>5. CASE ReserveProbe(r)
    BY ONLY <1>1, <1>2, <1>5, FloorsAssumption DEF ReserveProbe
  <1>6. CASE ReserveReboot(r)
    BY ONLY <1>1, <1>2, <1>6, FloorsAssumption DEF ReserveReboot
  <1> QED BY <1>1, <1>3, <1>4, <1>5, <1>6 DEF Reserve, Operations

\* One transaction keeps the types.
LEMMA TransactTyped ==
  ASSUME TypeOK, scenario' = scenario, NEW r \in Requests, Transact(r)
  PROVE  TypeOK'
  <1>1. phase[r] # "idle" /\ clock' = clock /\ lastAir' = lastAir
    BY DEF Transact, First, Waiting
  <1>2. Record(r) \in [at : Nat, op : Operations, target : Targets]
    BY <1>1, JobTyped DEF Record
  <1>3. /\ metadata' \in Nat /\ traces' \in [Gateways -> [Targets -> TraceRow]]
        /\ neighbors' \in [Targets -> NeighborRow] /\ reboots' \in [Targets -> Nat]
    <2>1. CASE Reserve(r)
      BY <2>1, <1>1, ReserveTyped
    <2>2. CASE Refuse(r)
      BY <2>2, <1>1, JobTyped DEF TypeOK, Refuse, TraceRow, NeighborRow
    <2> QED BY <2>1, <2>2 DEF Transact
  <1>4. grants' \subseteq [at : Nat, op : Operations, target : Targets]
    BY <1>2 DEF TypeOK, Transact
  <1>5. /\ phase' \in [Requests -> Phases] /\ job' \in [Requests -> Jobs \cup {NoJob}]
        /\ stamp' \in [Requests -> Nat]
        /\ \A q \in Requests : /\ stamp'[q] <= clock'
                               /\ phase'[q] # "idle" => job'[q] \in Jobs
    <2>1. CASE Done(r)
      BY <2>1, <1>1, DoneTyped
    <2>2. CASE phase' = [phase EXCEPT ![r] = "granted"] /\ UNCHANGED <<job, stamp>>
      BY <2>2, <1>1 DEF TypeOK, Phases
    <2> QED BY <2>1, <2>2 DEF Transact
  <1> QED
    BY <1>1, <1>3, <1>4, <1>5 DEF TypeOK, TraceRow, NeighborRow

\* A stored result keeps the types.
LEMMA StoreResultTyped ==
  ASSUME TypeOK, scenario' = scenario, NEW r \in Requests, StoreResult(r)
  PROVE  TypeOK'
  <1>1. phase[r] # "idle" /\ clock' = clock /\ lastAir' = lastAir /\ grants' = grants
        /\ metadata' = metadata /\ reboots' = reboots
    BY DEF StoreResult
  <1>2. /\ job[r].gw \in Gateways /\ job[r].target \in Targets /\ stamp[r] \in Nat
    BY <1>1, JobTyped
  <1>3. traces' \in [Gateways -> [Targets -> TraceRow]]
    <2>1. traces \in [Gateways -> [Targets -> TraceRow]]
      BY DEF TypeOK, TraceRow
    <2>2. traces' = traces \/ traces' = [traces EXCEPT ![job[r].gw][job[r].target].result = stamp[r]]
      BY ONLY StoreResult(r) DEF StoreResult
    <2>3. ASSUME NEW g \in Gateways, NEW t \in Targets PROVE traces[g][t] \in TraceRow
      BY <2>1
    <2>4. [traces[job[r].gw][job[r].target] EXCEPT !.result = stamp[r]] \in TraceRow
      <3>1. traces[job[r].gw][job[r].target] \in TraceRow
        BY <1>2, <2>3
      <3> QED BY ONLY <3>1, <1>2 DEF TraceRow
    <2>5. CASE traces' = [traces EXCEPT ![job[r].gw][job[r].target].result = stamp[r]]
      BY ONLY <2>1, <2>4, <2>5, <1>2
    <2> QED BY <2>1, <2>2, <2>5
  <1>4. neighbors' \in [Targets -> NeighborRow]
    <2>1. neighbors \in [Targets -> NeighborRow]
      BY DEF TypeOK, NeighborRow
    <2> QED BY ONLY <2>1, <1>2, StoreResult(r) DEF StoreResult, NeighborRow
  <1>5. /\ phase' \in [Requests -> Phases] /\ job' \in [Requests -> Jobs \cup {NoJob}]
        /\ stamp' \in [Requests -> Nat]
        /\ \A q \in Requests : /\ stamp'[q] <= clock'
                               /\ phase'[q] # "idle" => job'[q] \in Jobs
    BY <1>1, DoneTyped DEF StoreResult
  <1> QED BY <1>1, <1>3, <1>4, <1>5 DEF TypeOK, TraceRow, NeighborRow

\* Pruning keeps the types.
LEMMA PruneTyped ==
  ASSUME TypeOK, scenario' = scenario, Prune
  PROVE  TypeOK'
  <1>1. traces' \in [Gateways -> [Targets -> TraceRow]]
    <2>1. traces \in [Gateways -> [Targets -> TraceRow]] /\ NoTrace \in TraceRow
      BY DEF TypeOK, TraceRow, NoTrace
    <2> QED BY ONLY <2>1, Prune DEF Prune
  <1>2. neighbors' \in [Targets -> NeighborRow]
    <2>1. neighbors \in [Targets -> NeighborRow]
      BY DEF TypeOK, NeighborRow
    <2>2. Gateways # {} => NoNeighbor \in NeighborRow
      BY DEF NeighborRow, NoNeighbor
    <2>3. Targets # {} => Gateways # {}
      BY <2>1 DEF NeighborRow
    <2> QED BY ONLY <2>1, <2>2, <2>3, Prune DEF Prune
  <1> QED BY <1>1, <1>2 DEF TypeOK, Prune, TraceRow, NeighborRow

\* A restart keeps the types.
LEMMA RestartTyped ==
  ASSUME TypeOK, scenario' = scenario, Restart
  PROVE  TypeOK'
  <1>1. metadata' \in Nat
    <2>1. \A g \in Gateways : \A t \in Targets : traces[g][t].next \in Nat
      BY DEF TypeOK
    <2>2. \A t \in Targets : neighbors[t].global \in Nat
      BY DEF TypeOK
    <2> QED BY <2>1, <2>2 DEF Restart, Upgraded, LatestIn, TypeOK
  <1> QED BY <1>1 DEF TypeOK, Restart, Phases

\* The first state is well typed.
LEMMA InitTyped ==
  ASSUME Init
  PROVE  TypeOK
  <1>1. traces \in [Gateways -> [Targets -> TraceRow]]
    <2>1. [reserved : {0}, next : scenario.legacy \cup {0}, result : {0}] \subseteq TraceRow
      <3>1. scenario.legacy \cup {0} \subseteq Nat /\ {0} \subseteq Nat
        BY ScenariosAssumption DEF Init
      <3>2. ASSUME NEW x \in [reserved : {0}, next : scenario.legacy \cup {0}, result : {0}]
            PROVE  x \in TraceRow
        <4>1. x = [reserved |-> x.reserved, next |-> x.next, result |-> x.result]
              /\ x.reserved \in {0} /\ x.next \in scenario.legacy \cup {0} /\ x.result \in {0}
          OBVIOUS
        <4> QED BY ONLY <3>1, <4>1 DEF TraceRow
      <3> QED BY ONLY <3>2
    <2>2. [Targets -> [reserved : {0}, next : scenario.legacy \cup {0}, result : {0}]]
             \subseteq [Targets -> TraceRow]
      BY ONLY <2>1
    <2>3. traces \in [Gateways -> [Targets -> [reserved : {0}, next : scenario.legacy \cup {0},
                                              result : {0}]]]
      BY DEF Init, LegacyTraces
    <2> QED BY ONLY <2>2, <2>3
  <1>2. neighbors \in [Targets -> NeighborRow]
    <2>1. [gw : Gateways, reserved : {0}, global : scenario.legacy \cup {0},
           next : scenario.legacy \cup {0}, result : {0}] \subseteq NeighborRow
      <3>1. scenario.legacy \cup {0} \subseteq Nat /\ {0} \subseteq Nat
        BY ScenariosAssumption DEF Init
      <3>2. ASSUME NEW x \in [gw : Gateways, reserved : {0}, global : scenario.legacy \cup {0},
                              next : scenario.legacy \cup {0}, result : {0}]
            PROVE  x \in NeighborRow
        <4>1. x = [gw |-> x.gw, reserved |-> x.reserved, global |-> x.global,
                   next |-> x.next, result |-> x.result]
              /\ x.gw \in Gateways /\ x.reserved \in {0} /\ x.global \in scenario.legacy \cup {0}
              /\ x.next \in scenario.legacy \cup {0} /\ x.result \in {0}
          OBVIOUS
        <4> QED BY ONLY <3>1, <4>1 DEF NeighborRow
      <3> QED BY ONLY <3>2
    <2>2. neighbors \in [Targets -> [gw : Gateways, reserved : {0}, global : scenario.legacy \cup {0},
                                     next : scenario.legacy \cup {0}, result : {0}]]
      BY DEF Init, LegacyNeighbors
    <2> QED BY ONLY <2>1, <2>2
  <1>3. metadata \in Nat
    BY <1>1, <1>2 DEF Init, Upgraded, LatestIn, TraceRow, NeighborRow
  <1> QED BY <1>1, <1>2, <1>3 DEF Init, TypeOK, Phases, TraceRow, NeighborRow

\* Every step keeps the types.
LEMMA StepTyped ==
  ASSUME TypeOK, [Next]_vars
  PROVE  TypeOK'
  <1>0. scenario' = scenario
    BY ONLY [Next]_vars
    DEF Next, Ask, Transact, Transmit, StoreResult, Fail, Cancel, Prune, Restart, Tick, vars
  <1> USE <1>0
  <1>1. ASSUME NEW r \in Requests, Ask(r) PROVE TypeOK'
    <2>1. PICK j \in Wanted : job' = [job EXCEPT ![r] = j]
      BY <1>1 DEF Ask
    <2>2. j \in Jobs
      BY ScenariosAssumption DEF TypeOK, Wanted, Jobs
    <2> QED BY <1>1, <2>1, <2>2 DEF Ask, TypeOK, Phases, tables
  <1>2. ASSUME NEW r \in Requests, Transact(r) PROVE TypeOK'
    BY <1>2, TransactTyped
  <1>3. ASSUME NEW r \in Requests, Transmit(r) PROVE TypeOK'
    BY <1>3 DEF Transmit, TypeOK, Phases, tables
  <1>4. ASSUME NEW r \in Requests, StoreResult(r) PROVE TypeOK'
    BY <1>4, StoreResultTyped
  <1>5. ASSUME NEW r \in Requests, Fail(r) PROVE TypeOK'
    <2>1. clock' = clock /\ Done(r) /\ UNCHANGED <<metadata, traces, neighbors, reboots, grants, lastAir>>
      BY <1>5 DEF Fail, tables
    <2> QED BY <2>1, DoneTyped DEF TypeOK
  <1>6. ASSUME NEW r \in Requests, Cancel(r) PROVE TypeOK'
    BY <1>6 DEF Cancel, TypeOK, Phases, tables
  <1>7. CASE Prune
    BY <1>7, PruneTyped
  <1>8. CASE Restart
    BY <1>8, RestartTyped
  <1>9. CASE Tick
    BY <1>9 DEF Tick, TypeOK, tables
  <1>10. CASE UNCHANGED vars
    BY <1>10 DEF vars, system, TypeOK, tables
  <1> QED
    BY <1>1, <1>2, <1>3, <1>4, <1>5, <1>6, <1>7, <1>8, <1>9, <1>10 DEF Next

-----------------------------------------------------------------------------
(* The inductive invariant *)

\* What the first state has of the invariant.
LEMMA InitInv ==
  ASSUME Init
  PROVE  IInv
  <1>1. TypeOK
    BY InitTyped
  <1>2. ClockInv
    BY DEF Init, ClockInv, Waiting
  <1>3. TablesInv
    BY DEF Init, TablesInv, Upgraded, LatestIn
  <1>4. GrantInv
    BY DEF Init, GrantInv
  <1> QED BY <1>1, <1>2, <1>3, <1>4 DEF IInv

\* What a step may do to the set of waiting transactions: only a request made
\* now joins it, and nobody's instant changes.
WaitingShrinks ==
  /\ clock <= clock'
  /\ \A q \in Waiting' : (q \in Waiting /\ stamp'[q] = stamp[q]) \/ stamp'[q] = clock

\* The instant n is past, after the step, for the clock and whoever waits.
PastNext(n) == n <= clock' /\ \A q \in Waiting' : n <= stamp'[q]

\* Something kept stays kept when its row grows, or is dropped once it is past.
LEMMA KeptStays ==
  ASSUME TypeOK, TypeOK', WaitingShrinks, NEW n \in Nat, NEW m \in Nat, NEW until \in Nat,
         Kept(n, until), n <= m \/ PastNext(n)
  PROVE  until <= m \/ PastNext(until)
  <1>1. clock \in Nat /\ clock' \in Nat /\ Waiting' \subseteq Requests
        /\ (\A q \in Requests : stamp'[q] \in Nat)
    BY DEF TypeOK, Waiting
  <1>2. CASE until <= n /\ n <= m
    BY <1>2
  <1>3. CASE until <= n /\ PastNext(n)
    <2>1. until <= clock'
      BY <1>1, <1>3 DEF PastNext
    <2>2. \A q \in Waiting' : until <= stamp'[q]
      BY <1>1, <1>3 DEF PastNext
    <2> QED BY <2>1, <2>2 DEF PastNext
  <1>4. CASE until <= clock /\ \A q \in Waiting : until <= stamp[q]
    <2>1. until <= clock'
      BY <1>1, <1>4 DEF WaitingShrinks
    <2>2. \A q \in Waiting' : until <= stamp'[q]
      BY <1>1, <1>4 DEF WaitingShrinks
    <2> QED BY <2>1, <2>2 DEF PastNext
  <1> QED BY <1>2, <1>3, <1>4 DEF Kept

\* What every step does to the rows that guard the old grants.
RowsGrow ==
  /\ metadata <= metadata'
  /\ \A t \in Targets : neighbors[t].next <= neighbors'[t].next \/ PastNext(neighbors[t].next)
  /\ \A t \in Targets : reboots[t] <= reboots'[t] \/ PastNext(reboots[t])

\* Then the old grants are still felt.
LEMMA OldGrantsStay ==
  ASSUME TypeOK, TypeOK', GrantInv, WaitingShrinks, RowsGrow
  PROVE  \A g \in grants :
           /\ g.op # "reboot" => g.at + Floor <= metadata'
           /\ g.op = "neighbor_info" => Kept(neighbors[g.target].next, g.at + TargetFloor)'
           /\ g.op = "reboot" => Kept(reboots[g.target], g.at + RebootFloor)'
  <1> SUFFICES ASSUME NEW g \in grants
      PROVE  /\ g.op # "reboot" => g.at + Floor <= metadata'
             /\ g.op = "neighbor_info" => Kept(neighbors[g.target].next, g.at + TargetFloor)'
             /\ g.op = "reboot" => Kept(reboots[g.target], g.at + RebootFloor)'
    OBVIOUS
  <1>1. g.at \in Nat /\ g.target \in Targets
    BY DEF TypeOK
  <1>2. /\ metadata \in Nat /\ metadata' \in Nat
        /\ neighbors[g.target].next \in Nat /\ neighbors'[g.target].next \in Nat
        /\ reboots[g.target] \in Nat /\ reboots'[g.target] \in Nat
        /\ g.at + TargetFloor \in Nat /\ g.at + RebootFloor \in Nat /\ g.at + Floor \in Nat
    BY <1>1 DEF TypeOK
  <1>3. g.op # "reboot" => g.at + Floor <= metadata'
    <2>1. g.op # "reboot" => g.at + Floor <= metadata
      BY DEF GrantInv
    <2> QED BY <2>1, <1>2 DEF RowsGrow
  <1>4. g.op = "neighbor_info" => Kept(neighbors[g.target].next, g.at + TargetFloor)'
    <2>1. g.op = "neighbor_info" => Kept(neighbors[g.target].next, g.at + TargetFloor)
      BY DEF GrantInv
    <2>2. neighbors[g.target].next <= neighbors'[g.target].next
            \/ PastNext(neighbors[g.target].next)
      BY <1>1 DEF RowsGrow
    <2>3. g.op = "neighbor_info" => g.at + TargetFloor <= neighbors'[g.target].next
                                     \/ PastNext(g.at + TargetFloor)
      BY <2>1, <2>2, <1>2, KeptStays
    <2> QED BY <2>3 DEF Kept, PastNext
  <1>5. g.op = "reboot" => Kept(reboots[g.target], g.at + RebootFloor)'
    <2>1. g.op = "reboot" => Kept(reboots[g.target], g.at + RebootFloor)
      BY DEF GrantInv
    <2>2. reboots[g.target] <= reboots'[g.target] \/ PastNext(reboots[g.target])
      BY <1>1 DEF RowsGrow
    <2>3. g.op = "reboot" => g.at + RebootFloor <= reboots'[g.target]
                              \/ PastNext(g.at + RebootFloor)
      BY <2>1, <2>2, <1>2, KeptStays
    <2> QED BY <2>3 DEF Kept, PastNext
  <1> QED BY <1>3, <1>4, <1>5

-----------------------------------------------------------------------------
(* The transaction *)

\* A finished transaction leaves the queue; the ones that stay are younger.
LEMMA TransactWaiting ==
  ASSUME TypeOK, ClockInv, NEW r \in Requests, Transact(r)
  PROVE  /\ WaitingShrinks /\ ClockInv'
         /\ \A n \in Nat : n <= stamp[r] => PastNext(n)
         /\ r \in Waiting /\ stamp[r] \in Nat /\ stamp[r] <= clock
  <1>1. clock' = clock /\ clock \in Nat /\ r \in Waiting /\ Waiting \subseteq Requests
        /\ \A q \in Requests : stamp[q] \in Nat /\ stamp[q] <= clock
    BY DEF Transact, First, TypeOK, Waiting
  <1>2. \A q \in Waiting' : q \in Waiting /\ stamp'[q] = stamp[q]
    <2>1. CASE Done(r)
      BY <2>1 DEF Done, Waiting, TypeOK
    <2>2. CASE phase' = [phase EXCEPT ![r] = "granted"] /\ UNCHANGED <<job, stamp>>
      BY <2>2 DEF Waiting, TypeOK
    <2> QED BY <2>1, <2>2 DEF Transact
  <1>3. \A q \in Waiting : stamp[r] <= stamp[q]
    BY DEF Transact, First
  <1>4. WaitingShrinks
    BY <1>1, <1>2 DEF WaitingShrinks
  <1>5. ClockInv'
    BY <1>1, <1>2 DEF ClockInv
  <1>6. ASSUME NEW n \in Nat, n <= stamp[r] PROVE PastNext(n)
    BY <1>1, <1>2, <1>3, <1>6 DEF PastNext
  <1> QED BY <1>1, <1>4, <1>5, <1>6

\* A granted reservation: the rows grow, the shared row covers them, and the
\* new grant is felt.
LEMMA ReserveInv ==
  ASSUME IInv, TypeOK', NEW r \in Requests, Transact(r), Allowed(r), Reserve(r)
  PROVE  /\ RowsGrow /\ TablesInv'
         /\ job[r].op # "reboot" => stamp[r] + Floor <= metadata'
         /\ job[r].op = "neighbor_info" =>
              stamp[r] + TargetFloor <= neighbors'[job[r].target].next
         /\ job[r].op = "reboot" => stamp[r] + RebootFloor <= reboots'[job[r].target]
  <1>1. phase[r] # "idle"
    BY DEF Transact, First, Waiting
  <1>2. /\ job[r].op \in Operations /\ job[r].gw \in Gateways
        /\ job[r].target \in Targets /\ stamp[r] \in Nat
    BY <1>1, JobTyped DEF IInv
  <1>3. \A n \in Nat : n <= stamp[r] => PastNext(n)
    BY TransactWaiting DEF IInv
  <1>4. /\ metadata \in Nat /\ traces \in [Gateways -> [Targets -> TraceRow]]
        /\ neighbors \in [Targets -> NeighborRow] /\ reboots \in [Targets -> Nat]
    BY DEF IInv, TypeOK, TraceRow, NeighborRow
  <1>5. TablesInv
    BY DEF IInv
  <1>6. CASE job[r].op = "traceroute"
    <2>1. metadata <= stamp[r] /\ ReserveTraceroute(r)
      BY <1>6 DEF Allowed, Reserve, MetadataFree
    <2> QED BY ONLY <2>1, <1>6, <1>2, <1>4, <1>5, FloorsAssumption
           DEF ReserveTraceroute, RowsGrow, TablesInv, TraceRow, NeighborRow
  <1>7. CASE job[r].op = "neighbor_info"
    <2>1. metadata <= stamp[r] /\ neighbors[job[r].target].next <= stamp[r]
          /\ ReserveNeighborInfo(r)
      BY <1>7 DEF Allowed, Reserve, MetadataFree, TargetFree
    <2> QED BY ONLY <2>1, <1>7, <1>2, <1>4, <1>5, FloorsAssumption
           DEF ReserveNeighborInfo, RowsGrow, TablesInv, TraceRow, NeighborRow
  <1>8. CASE job[r].op = "remote_health"
    <2>1. metadata <= stamp[r] /\ ReserveProbe(r)
      BY <1>8 DEF Allowed, Reserve, MetadataFree
    <2> QED BY ONLY <2>1, <1>8, <1>2, <1>4, <1>5, FloorsAssumption
           DEF ReserveProbe, RowsGrow, TablesInv, TraceRow, NeighborRow
  <1>9. CASE job[r].op = "reboot"
    <2>1. reboots[job[r].target] <= stamp[r] /\ ReserveReboot(r)
      BY <1>9 DEF Allowed, Reserve, RebootFree
    <2> QED BY ONLY <2>1, <1>9, <1>2, <1>3, <1>4, <1>5, FloorsAssumption
           DEF ReserveReboot, RowsGrow, TablesInv, TraceRow, NeighborRow
  <1> QED BY <1>2, <1>6, <1>7, <1>8, <1>9 DEF Operations

\* A refused reservation may only drop reboot rows that are past.
LEMMA RefuseInv ==
  ASSUME IInv, TypeOK', NEW r \in Requests, Transact(r), Refuse(r)
  PROVE  RowsGrow /\ TablesInv'
  <1>1. \A n \in Nat : n <= stamp[r] => PastNext(n)
    BY TransactWaiting DEF IInv
  <1>2. /\ metadata \in Nat /\ \A t \in Targets : reboots[t] \in Nat /\ neighbors[t].next \in Nat
    BY DEF IInv, TypeOK
  <1>3. TablesInv'
    BY DEF IInv, TablesInv, Refuse
  <1>4. \A t \in Targets : reboots[t] <= reboots'[t] \/ PastNext(reboots[t])
    BY <1>1, <1>2 DEF Refuse
  <1> QED BY <1>2, <1>3, <1>4 DEF RowsGrow, Refuse

\* One transaction keeps the invariant.
LEMMA TransactInv ==
  ASSUME IInv, TypeOK', NEW r \in Requests, Transact(r)
  PROVE  IInv'
  <1>1. TypeOK'
    OBVIOUS
  <1>2. WaitingShrinks /\ ClockInv'
    BY TransactWaiting DEF IInv
  <1>3. CASE Allowed(r) /\ Reserve(r) /\ grants' = grants \cup {Record(r)}
    <2>1. RowsGrow /\ TablesInv'
      BY <1>1, <1>3, ReserveInv
    <2>2. ASSUME NEW g \in grants' PROVE
           /\ g.op # "reboot" => g.at + Floor <= metadata'
           /\ g.op = "neighbor_info" => Kept(neighbors[g.target].next, g.at + TargetFloor)'
           /\ g.op = "reboot" => Kept(reboots[g.target], g.at + RebootFloor)'
      <3>1. CASE g \in grants
        BY <3>1, <1>1, <1>2, <2>1, OldGrantsStay DEF IInv
      <3>2. CASE g = Record(r)
        <4>1. g.at = stamp[r] /\ g.op = job[r].op /\ g.target = job[r].target
          BY <3>2 DEF Record
        <4>2. /\ job[r].op # "reboot" => stamp[r] + Floor <= metadata'
              /\ job[r].op = "neighbor_info" =>
                   stamp[r] + TargetFloor <= neighbors'[job[r].target].next
              /\ job[r].op = "reboot" => stamp[r] + RebootFloor <= reboots'[job[r].target]
          BY <1>1, <1>3, ReserveInv
        <4> QED BY <4>1, <4>2 DEF Kept
      <3> QED BY <1>3, <3>1, <3>2
    <2> QED BY <1>1, <1>2, <2>1, <2>2 DEF IInv, GrantInv
  <1>4. CASE Refuse(r) /\ grants' = grants
    <2>1. RowsGrow /\ TablesInv'
      BY <1>1, <1>4, RefuseInv
    <2>2. GrantInv'
      BY <1>1, <1>2, <1>4, <2>1, OldGrantsStay DEF IInv, GrantInv
    <2> QED BY <1>1, <1>2, <2>1, <2>2 DEF IInv
  <1> QED BY <1>3, <1>4 DEF Transact

-----------------------------------------------------------------------------
(* The other steps *)

\* A step that makes no grant keeps the invariant when rows and queue behave.
LEMMA QuietStep ==
  ASSUME IInv, TypeOK', WaitingShrinks, ClockInv', RowsGrow, TablesInv', grants' = grants
  PROVE  IInv'
  <1>1. GrantInv'
    BY OldGrantsStay DEF IInv, GrantInv
  <1> QED BY <1>1 DEF IInv

\* A step that leaves clock, tables and grants alone and queues nobody.
LEMMA TablesAlone ==
  ASSUME IInv, TypeOK', UNCHANGED <<clock, tables, grants>>,
         \A q \in Waiting' : q \in Waiting /\ stamp'[q] = stamp[q]
  PROVE  IInv'
  <1>1. UNCHANGED <<clock, metadata, traces, neighbors, reboots, grants>>
    BY DEF tables
  <1>2. /\ clock \in Nat /\ metadata \in Nat
        /\ \A t \in Targets : neighbors[t].next \in Nat /\ reboots[t] \in Nat
    BY DEF IInv, TypeOK
  <1>3. WaitingShrinks /\ RowsGrow
    BY <1>1, <1>2 DEF WaitingShrinks, RowsGrow
  <1>4. ClockInv' /\ TablesInv'
    BY <1>1 DEF IInv, ClockInv, TablesInv
  <1> QED BY <1>1, <1>3, <1>4, QuietStep

\* A request that is made.
LEMMA AskInv ==
  ASSUME IInv, TypeOK', NEW r \in Requests, Ask(r)
  PROVE  IInv'
  <1>1. UNCHANGED <<clock, metadata, traces, neighbors, reboots, grants>>
    BY DEF Ask, tables
  <1>2. /\ clock \in Nat /\ metadata \in Nat /\ 1 <= clock /\ clock <= MaxClock
        /\ \A t \in Targets : neighbors[t].next \in Nat /\ reboots[t] \in Nat
    BY DEF IInv, TypeOK, ClockInv
  <1>3. \A q \in Waiting' : (q \in Waiting /\ stamp'[q] = stamp[q]) \/ stamp'[q] = clock
    BY DEF Ask, Waiting, IInv, TypeOK
  <1>4. WaitingShrinks /\ RowsGrow
    BY <1>1, <1>2, <1>3 DEF WaitingShrinks, RowsGrow
  <1>5. ClockInv' /\ TablesInv'
    BY <1>1, <1>2, <1>3 DEF IInv, ClockInv, TablesInv
  <1> QED BY <1>1, <1>4, <1>5, QuietStep

\* A stored result changes no instant.
LEMMA StoreResultInv ==
  ASSUME IInv, TypeOK', NEW r \in Requests, StoreResult(r)
  PROVE  IInv'
  <1>1. UNCHANGED <<clock, metadata, reboots, grants>>
    BY DEF StoreResult
  <1>2. /\ clock \in Nat /\ metadata \in Nat /\ traces \in [Gateways -> [Targets -> TraceRow]]
        /\ neighbors \in [Targets -> NeighborRow] /\ \A t \in Targets : reboots[t] \in Nat
    BY DEF IInv, TypeOK, TraceRow, NeighborRow
  <1>3. \A q \in Waiting' : q \in Waiting /\ stamp'[q] = stamp[q]
    BY DEF StoreResult, Done, Waiting, IInv, TypeOK
  <1>4. \A t \in Targets : neighbors'[t].next = neighbors[t].next
                           /\ neighbors'[t].global = neighbors[t].global
    BY ONLY <1>2, StoreResult(r) DEF StoreResult, NeighborRow
  <1>5. \A g \in Gateways : \A t \in Targets : traces'[g][t].next = traces[g][t].next
    BY ONLY <1>2, StoreResult(r) DEF StoreResult, TraceRow
  <1>6. WaitingShrinks
    BY <1>1, <1>2, <1>3 DEF WaitingShrinks
  <1>7. RowsGrow
    BY ONLY <1>1, <1>2, <1>4 DEF RowsGrow, NeighborRow
  <1>8. ClockInv' /\ TablesInv'
    BY <1>1, <1>3, <1>4, <1>5 DEF IInv, ClockInv, TablesInv
  <1> QED BY <1>1, <1>6, <1>7, <1>8, QuietStep

\* Only rows that are past are pruned, while nothing waits.
LEMMA PruneInv ==
  ASSUME IInv, TypeOK', Prune
  PROVE  IInv'
  <1>1. UNCHANGED <<clock, metadata, reboots, grants, phase, stamp>> /\ Waiting = {}
    BY DEF Prune
  <1>2. /\ clock \in Nat /\ metadata \in Nat /\ \A t \in Targets : reboots[t] \in Nat
        /\ \A t \in Targets : neighbors[t].next \in Nat
    BY DEF IInv, TypeOK
  <1>3. Waiting' = {}
    BY <1>1 DEF Waiting
  <1>4. \A n \in Nat : n <= clock => PastNext(n)
    BY <1>1, <1>3 DEF PastNext
  <1>5. \A t \in Targets : neighbors[t].next <= neighbors'[t].next \/ neighbors[t].next <= clock
    BY <1>2 DEF Prune, Pruned
  <1>6. WaitingShrinks
    BY <1>1, <1>2, <1>3 DEF WaitingShrinks
  <1>7. RowsGrow
    BY <1>1, <1>2, <1>4, <1>5 DEF RowsGrow
  <1>8. ClockInv'
    BY <1>1, <1>3 DEF IInv, ClockInv
  <1>9. TablesInv'
    BY <1>1, <1>2 DEF IInv, TablesInv, Prune, NoTrace, NoNeighbor
  <1> QED BY <1>1, <1>6, <1>7, <1>8, <1>9, QuietStep

\* A restart may only raise the shared row, and only when it was missing.
LEMMA RestartInv ==
  ASSUME IInv, TypeOK', Restart
  PROVE  IInv'
  <1>1. UNCHANGED <<clock, traces, neighbors, reboots, grants>>
    BY DEF Restart
  <1>2. /\ clock \in Nat /\ metadata \in Nat /\ metadata' \in Nat
        /\ \A t \in Targets : neighbors[t].next \in Nat /\ reboots[t] \in Nat
    BY DEF IInv, TypeOK
  <1>3. Waiting' = {}
    BY DEF Restart, Waiting
  <1>4. metadata <= metadata'
    BY <1>2 DEF Restart
  <1>5. TablesInv'
    <2>1. CASE metadata = 0
      BY <2>1, <1>1 DEF Restart, Upgraded, LatestIn, TablesInv
    <2>2. CASE metadata # 0
      BY <2>2, <1>1 DEF Restart, IInv, TablesInv
    <2> QED BY <2>1, <2>2
  <1>6. WaitingShrinks /\ RowsGrow
    BY <1>1, <1>2, <1>3, <1>4 DEF WaitingShrinks, RowsGrow
  <1>7. ClockInv'
    BY <1>1, <1>3 DEF IInv, ClockInv
  <1> QED BY <1>1, <1>5, <1>6, <1>7, QuietStep

\* Time that passes.
LEMMA TickInv ==
  ASSUME IInv, TypeOK', Tick
  PROVE  IInv'
  <1>1. UNCHANGED <<metadata, traces, neighbors, reboots, grants, phase, stamp>>
        /\ clock' = clock + 1 /\ clock < MaxClock
    BY DEF Tick, tables
  <1>2. /\ clock \in Nat /\ metadata \in Nat
        /\ \A t \in Targets : neighbors[t].next \in Nat /\ reboots[t] \in Nat
    BY DEF IInv, TypeOK
  <1>3. Waiting' = Waiting
    BY <1>1 DEF Waiting
  <1>4. WaitingShrinks /\ RowsGrow
    BY <1>1, <1>2, <1>3 DEF WaitingShrinks, RowsGrow
  <1>5. ClockInv' /\ TablesInv'
    BY <1>1, <1>2, <1>3 DEF IInv, ClockInv, TablesInv
  <1> QED BY <1>1, <1>4, <1>5, QuietStep

\* Every step keeps the invariant.
LEMMA StepInv ==
  ASSUME IInv, [Next]_vars
  PROVE  IInv'
  <1>1. TypeOK'
    BY StepTyped DEF IInv
  <1>2. ASSUME NEW r \in Requests, Ask(r) PROVE IInv'
    BY <1>1, <1>2, AskInv
  <1>3. ASSUME NEW r \in Requests, Transact(r) PROVE IInv'
    BY <1>1, <1>3, TransactInv
  <1>4. ASSUME NEW r \in Requests, Transmit(r) PROVE IInv'
    <2>1. \A q \in Waiting' : q \in Waiting /\ stamp'[q] = stamp[q]
      BY <1>4 DEF Transmit, Waiting, IInv, TypeOK
    <2>2. UNCHANGED <<clock, tables, grants>>
      BY <1>4 DEF Transmit
    <2> QED BY <1>1, <2>1, <2>2, TablesAlone
  <1>5. ASSUME NEW r \in Requests, StoreResult(r) PROVE IInv'
    BY <1>1, <1>5, StoreResultInv
  <1>6. ASSUME NEW r \in Requests, Fail(r) PROVE IInv'
    <2>1. \A q \in Waiting' : q \in Waiting /\ stamp'[q] = stamp[q]
      BY <1>6 DEF Fail, Done, Waiting, IInv, TypeOK
    <2>2. UNCHANGED <<clock, tables, grants>>
      BY <1>6 DEF Fail
    <2> QED BY <1>1, <2>1, <2>2, TablesAlone
  <1>7. ASSUME NEW r \in Requests, Cancel(r) PROVE IInv'
    <2>1. \A q \in Waiting' : q \in Waiting /\ stamp'[q] = stamp[q]
      BY <1>7 DEF Cancel, Waiting, IInv, TypeOK
    <2>2. UNCHANGED <<clock, tables, grants>>
      BY <1>7 DEF Cancel
    <2> QED BY <1>1, <2>1, <2>2, TablesAlone
  <1>8. CASE Prune
    BY <1>1, <1>8, PruneInv
  <1>9. CASE Restart
    BY <1>1, <1>9, RestartInv
  <1>10. CASE Tick
    BY <1>1, <1>10, TickInv
  <1>11. CASE UNCHANGED vars
    <2>1. \A q \in Waiting' : q \in Waiting /\ stamp'[q] = stamp[q]
      BY <1>11 DEF vars, system, Waiting
    <2>2. UNCHANGED <<clock, tables, grants>>
      BY <1>11 DEF vars, system
    <2> QED BY <1>1, <2>1, <2>2, TablesAlone
  <1> QED
    BY <1>2, <1>3, <1>4, <1>5, <1>6, <1>7, <1>8, <1>9, <1>10, <1>11 DEF Next

-----------------------------------------------------------------------------
(* Theorems *)

\* The invariant holds in every state of every behaviour.
THEOREM InductiveInvariant == Spec => []IInv
  <1>1. Init => IInv
    BY InitInv
  <1>2. IInv /\ [Next]_vars => IInv'
    BY StepInv
  <1> QED BY <1>1, <1>2, PTL DEF Spec

\* Type correctness of the tables and of the requests that use them.
THEOREM TypeCorrect == Spec => []TypeOK
  <1>1. IInv => TypeOK
    BY DEF IInv
  <1> QED BY <1>1, InductiveInvariant, PTL

\* The gap an old grant still imposes is over when a request is allowed.
LEMMA GapOver ==
  ASSUME IInv, NEW r \in Requests, r \in Waiting, Allowed(r), NEW g \in grants
  PROVE  Slots!Gap(g, job[r].op, job[r].target) > 0
           => stamp[r] >= g.at + Slots!Gap(g, job[r].op, job[r].target)
  <1>1. /\ job[r].op \in Operations /\ job[r].gw \in Gateways
        /\ job[r].target \in Targets /\ stamp[r] \in Nat
    BY JobTyped DEF IInv, Waiting
  <1>2. g.at \in Nat /\ metadata \in Nat /\ neighbors[job[r].target].next \in Nat
        /\ reboots[job[r].target] \in Nat
    BY <1>1 DEF IInv, TypeOK
  <1>3. g.op # "reboot" => g.at + Floor <= metadata
    BY DEF IInv, GrantInv
  <1>4. job[r].op # "reboot" => metadata <= stamp[r]
    BY <1>1 DEF Allowed, MetadataFree, Operations
  <1>5. CASE job[r].op = "reboot"
    <2>1. reboots[job[r].target] <= stamp[r]
      BY <1>5 DEF Allowed, RebootFree
    <2>2. g.op = "reboot" /\ g.target = job[r].target => g.at + RebootFloor <= stamp[r]
      BY <2>1, <1>1, <1>2 DEF IInv, GrantInv, Kept
    <2> QED BY ONLY <1>5, <2>2, <1>1, <1>2 DEF Slots!Gap
  <1>6. CASE job[r].op = "neighbor_info" /\ g.op = "neighbor_info" /\ g.target = job[r].target
    <2>1. neighbors[job[r].target].next <= stamp[r]
      BY <1>6 DEF Allowed, TargetFree
    <2>2. g.at + TargetFloor <= stamp[r]
      BY <2>1, <1>6, <1>1, <1>2 DEF IInv, GrantInv, Kept
    <2> QED BY ONLY <1>6, <2>2, <1>1, <1>2, FloorsAssumption DEF Slots!Gap
  <1>7. CASE job[r].op # "reboot"
             /\ ~(job[r].op = "neighbor_info" /\ g.op = "neighbor_info"
                    /\ g.target = job[r].target)
    <2>1. Slots!Gap(g, job[r].op, job[r].target) = IF g.op = "reboot" THEN 0 ELSE Floor
      BY ONLY <1>7 DEF Slots!Gap
    <2> QED BY <2>1, <1>7, <1>3, <1>4, <1>1, <1>2
  <1> QED BY <1>5, <1>6, <1>7

\* The tables implement AirtimeSlots: whatever callers, gateways, cancellations,
\* slow transactions, restarts and pruning do, reservations stay spaced.
THEOREM SlotsImplemented == Spec => SlotsKept
  <1>1. Init => Slots!Init
    BY DEF Init, Slots!Init
  <1>2. IInv /\ [Next]_vars => [Slots!Next]_grants
    <2> SUFFICES ASSUME IInv, [Next]_vars PROVE [Slots!Next]_grants
      OBVIOUS
    <2>1. ASSUME NEW r \in Requests, Transact(r) PROVE [Slots!Next]_grants
      <3>1. CASE Allowed(r) /\ grants' = grants \cup {Record(r)}
        <4>1. r \in Waiting /\ phase[r] # "idle"
          BY <2>1 DEF Transact, First, Waiting
        <4>2. job[r].op \in Operations /\ job[r].target \in Targets /\ stamp[r] \in Nat
          BY <4>1, JobTyped DEF IInv
        <4>3. stamp[r] \in 0..MaxClock
          BY <4>2 DEF IInv, TypeOK, ClockInv
        <4>4. Slots!Grant(job[r].op, job[r].target, stamp[r])
          BY <3>1, <4>1, GapOver DEF Slots!Grant, Record
        <4> QED BY <4>2, <4>3, <4>4 DEF Slots!Next
      <3>2. CASE grants' = grants
        BY <3>2
      <3> QED BY <2>1, <3>1, <3>2 DEF Transact
    <2>2. ASSUME NEW r \in Requests, Ask(r) PROVE grants' = grants
      BY <2>2 DEF Ask
    <2>3. ASSUME NEW r \in Requests, Transmit(r) PROVE grants' = grants
      BY <2>3 DEF Transmit
    <2>4. ASSUME NEW r \in Requests, StoreResult(r) PROVE grants' = grants
      BY <2>4 DEF StoreResult
    <2>5. ASSUME NEW r \in Requests, Fail(r) PROVE grants' = grants
      BY <2>5 DEF Fail
    <2>6. ASSUME NEW r \in Requests, Cancel(r) PROVE grants' = grants
      BY <2>6 DEF Cancel
    <2>7. Prune \/ Restart \/ Tick \/ UNCHANGED vars => grants' = grants
      BY DEF Prune, Restart, Tick, vars, system
    <2> QED BY <2>1, <2>2, <2>3, <2>4, <2>5, <2>6, <2>7 DEF Next
  <1> QED BY <1>1, <1>2, InductiveInvariant, PTL DEF Spec, SlotsKept, Slots!Spec

\* The probe, which reads the shared row only, is never granted while a row of
\* the other two tables, of this or of an older release, still blocks.
THEOREM ProbeRespects == Spec => ProbeRespectsAll
  <1>1. IInv /\ [Next]_vars
          => [\A r \in Requests :
                /\ job[r].op = "remote_health" /\ phase[r] \in {"queued", "left"}
                /\ Record(r) \in grants' \ grants
                => TracesFree(r) /\ NeighborsFree(r)]_vars
    <2> SUFFICES ASSUME IInv, [Next]_vars, NEW r \in Requests,
                        job[r].op = "remote_health", phase[r] \in {"queued", "left"},
                        Record(r) \in grants' \ grants
                 PROVE  TracesFree(r) /\ NeighborsFree(r)
      OBVIOUS
    <2>1. PICK q \in Requests : Transact(q) /\ Allowed(q) /\ grants' = grants \cup {Record(q)}
      <3>1. ASSUME NEW q \in Requests, Ask(q) \/ Transmit(q) \/ StoreResult(q) \/ Fail(q) \/ Cancel(q)
            PROVE  grants' = grants
        BY <3>1 DEF Ask, Transmit, StoreResult, Fail, Cancel
      <3>2. Prune \/ Restart \/ Tick \/ UNCHANGED vars => grants' = grants
        BY DEF Prune, Restart, Tick, vars, system
      <3>3. PICK q \in Requests : Transact(q)
        BY <3>1, <3>2 DEF Next
      <3> QED BY <3>3 DEF Transact
    <2>2. job[q].op = "remote_health" /\ stamp[q] = stamp[r]
      BY <2>1 DEF Record
    <2>3. metadata <= stamp[r]
      BY <2>1, <2>2 DEF Allowed, MetadataFree
    <2>4. stamp[r] \in Nat /\ metadata \in Nat
          /\ (\A g \in Gateways : \A t \in Targets : traces[g][t].next \in Nat)
          /\ (\A t \in Targets : neighbors[t].global \in Nat)
      BY DEF IInv, TypeOK
    <2> QED BY <2>3, <2>4 DEF IInv, TablesInv, TracesFree, NeighborsFree
  <1> QED BY <1>1, InductiveInvariant, PTL DEF Spec, ProbeRespectsAll

\* What a step may do to the cooldowns: every one that is running goes on.
CooldownsRun ==
  /\ \A g \in Gateways, t \in Targets :
       traces[g][t].next > clock => traces'[g][t].next = traces[g][t].next
  /\ \A t \in Targets :
       /\ neighbors[t].next > clock => neighbors'[t].next = neighbors[t].next
       /\ reboots[t] > clock => reboots'[t] = reboots[t]
  /\ metadata > clock => metadata' = metadata

\* A transaction replaces no cooldown that is running: the rows it writes were
\* past when it was asked for.
LEMMA TransactRuns ==
  ASSUME TypeOK, NEW r \in Requests, Transact(r)
  PROVE  CooldownsRun
  <1>1. /\ job[r].op \in Operations /\ job[r].gw \in Gateways /\ job[r].target \in Targets
        /\ stamp[r] \in Nat /\ clock \in Nat /\ stamp[r] <= clock /\ metadata \in Nat
        /\ traces \in [Gateways -> [Targets -> TraceRow]]
        /\ neighbors \in [Targets -> NeighborRow] /\ reboots \in [Targets -> Nat]
    BY JobTyped DEF TypeOK, Transact, First, Waiting, TraceRow, NeighborRow
  <1>2. /\ \A g \in Gateways, t \in Targets : traces[g][t].next \in Nat
        /\ \A t \in Targets : neighbors[t].next \in Nat
    BY ONLY <1>1 DEF TraceRow, NeighborRow
  <1>3. CASE Refuse(r)
    <2>1. /\ UNCHANGED <<metadata, traces, neighbors>>
          /\ \A t \in Targets : reboots'[t] = reboots[t] \/ reboots[t] <= stamp[r]
      BY ONLY <1>3 DEF Refuse
    <2> QED BY ONLY <1>1, <2>1 DEF CooldownsRun
  <1>4. CASE Allowed(r) /\ Reserve(r)
    <2>1. CASE job[r].op = "traceroute"
      <3>1. ReserveTraceroute(r) /\ TracesFree(r) /\ MetadataFree(r)
        BY ONLY <1>4, <2>1 DEF Reserve, Allowed
      <3>2. metadata <= clock /\ UNCHANGED <<neighbors, reboots>>
        BY ONLY <1>1, <3>1 DEF ReserveTraceroute, MetadataFree
      <3>3. \A g \in Gateways, t \in Targets : traces[g][t].next <= clock
        BY ONLY <1>1, <1>2, <3>1 DEF TracesFree
      <3> QED BY ONLY <1>1, <1>2, <3>2, <3>3 DEF CooldownsRun
    <2>2. CASE job[r].op = "neighbor_info"
      <3>1. ReserveNeighborInfo(r) /\ TargetFree(r) /\ MetadataFree(r)
        BY ONLY <1>4, <2>2 DEF Reserve, Allowed
      <3>2. /\ metadata <= clock /\ neighbors[job[r].target].next <= clock
            /\ UNCHANGED <<traces, reboots>>
        BY ONLY <1>1, <1>2, <3>1 DEF ReserveNeighborInfo, MetadataFree, TargetFree
      <3>3. \A t \in Targets : t # job[r].target => neighbors'[t] = neighbors[t]
        BY ONLY <1>1, <3>1 DEF ReserveNeighborInfo
      <3> QED BY ONLY <1>1, <1>2, <3>2, <3>3 DEF CooldownsRun
    <2>3. CASE job[r].op = "remote_health"
      <3>1. ReserveProbe(r) /\ MetadataFree(r)
        BY ONLY <1>4, <2>3 DEF Reserve, Allowed
      <3> QED BY ONLY <1>1, <3>1 DEF ReserveProbe, MetadataFree, CooldownsRun
    <2>4. CASE job[r].op = "reboot"
      <3>1. ReserveReboot(r) /\ RebootFree(r)
        BY ONLY <1>4, <2>4 DEF Reserve, Allowed
      <3>2. /\ UNCHANGED <<metadata, traces, neighbors>>
            /\ \A t \in Targets : reboots'[t] = reboots[t] \/ reboots[t] <= stamp[r]
        BY ONLY <1>1, <3>1 DEF ReserveReboot, RebootFree
      <3> QED BY ONLY <1>1, <3>2 DEF CooldownsRun
    <2> QED BY ONLY <1>1, <2>1, <2>2, <2>3, <2>4 DEF Operations
  <1> QED BY ONLY Transact(r), <1>3, <1>4 DEF Transact

\* No step of any kind shortens a cooldown that is running: not a later request,
\* not a refused reboot that deletes expired rows, not the pruning of old history,
\* not a restart.
THEOREM CooldownsKept == Spec => CooldownsLast
  <1>1. IInv /\ [Next]_vars => [CooldownsRun]_vars
    <2> SUFFICES ASSUME IInv, [Next]_vars PROVE CooldownsRun
      OBVIOUS
    <2>1. /\ TypeOK /\ clock \in Nat /\ metadata \in Nat
          /\ traces \in [Gateways -> [Targets -> TraceRow]] /\ neighbors \in [Targets -> NeighborRow]
      BY DEF IInv, TypeOK, TraceRow, NeighborRow
    <2>2. ASSUME NEW r \in Requests, Transact(r) PROVE CooldownsRun
      BY ONLY <2>1, <2>2, TransactRuns
    <2>3. ASSUME NEW r \in Requests, StoreResult(r) PROVE CooldownsRun
      <3>1. UNCHANGED <<metadata, reboots>> /\ phase[r] # "idle"
        BY ONLY <2>3 DEF StoreResult
      <3>2. job[r].gw \in Gateways /\ job[r].target \in Targets
        BY ONLY <2>1, <2>3, <3>1, JobTyped
      <3>3. \A t \in Targets : neighbors'[t].next = neighbors[t].next
        BY ONLY <2>1, <2>3 DEF StoreResult, NeighborRow
      <3>4. \A g \in Gateways : \A t \in Targets : traces'[g][t].next = traces[g][t].next
        BY ONLY <2>1, <2>3 DEF StoreResult, TraceRow
      <3> QED BY ONLY <3>1, <3>3, <3>4 DEF CooldownsRun
    <2>4. CASE Prune
      <3>1. /\ UNCHANGED <<metadata, reboots>>
            /\ \A g \in Gateways : \A t \in Targets :
                 traces'[g][t] = traces[g][t] \/ traces[g][t].next <= clock
            /\ \A t \in Targets : neighbors'[t] = neighbors[t] \/ neighbors[t].next <= clock
        BY ONLY <2>4 DEF Prune, Pruned
      <3>2. /\ \A g \in Gateways : \A t \in Targets : traces[g][t].next \in Nat
            /\ \A t \in Targets : neighbors[t].next \in Nat
        BY ONLY <2>1 DEF TraceRow, NeighborRow
      <3> QED BY ONLY <2>1, <3>1, <3>2 DEF CooldownsRun
    <2>5. CASE Restart
      BY ONLY <2>1, <2>5 DEF Restart, CooldownsRun
    <2>6. ASSUME NEW r \in Requests, Ask(r) \/ Transmit(r) \/ Fail(r) \/ Cancel(r) PROVE CooldownsRun
      BY ONLY <2>6 DEF Ask, Transmit, Fail, Cancel, tables, CooldownsRun
    <2>7. CASE Tick \/ UNCHANGED vars
      BY ONLY <2>7 DEF Tick, vars, system, tables, CooldownsRun
    <2> QED BY ONLY [Next]_vars, <2>2, <2>3, <2>4, <2>5, <2>6, <2>7 DEF Next
  <1> QED BY <1>1, InductiveInvariant, PTL DEF Spec, CooldownsLast, CooldownsRun


-----------------------------------------------------------------------------
(* MaintenanceScan *)

USE TimesAssumption, IntervalAssumption, TroublesAssumption

\* A cancelled task is a task; one that is not cancelled is accepted.
TaskInv ==
  /\ cancelled => runner # "none" /\ ~accepting
  /\ runner # "none" /\ ~cancelled => accepting
  /\ runner = "choosing" => cycleActive /\ toRequest = 0 /\ count < MaxRequests

\* A cycle that goes on has budget left whenever its task waits.
BudgetInv ==
  /\ accepting /\ runner \in {"none", "waiting"} /\ cycleActive => count < MaxRequests
  /\ ~cycleActive => attempted = {}

\* What is left to wait, with what was waited since the last request.
SpacingInv ==
  accepting =>
    /\ cycleActive => toRequest + sinceAttempt >= Spacing
    /\ ~cycleActive => toCycle + sinceAttempt >= Spacing

\* What is left to wait, with what was waited since the scheduler was armed.
FreshInv ==
  accepting =>
    /\ cycleActive => sinceResume = Interval
    /\ ~cycleActive => toCycle + sinceResume >= Interval

\* Who was chosen once is excluded.
PickedInv ==
  cycleActive => \A c \in Candidates : picked[c] <= (IF c \in attempted THEN 1 ELSE 0)

\* The type invariant, in groups.
TaskTypes ==
  /\ accepting \in BOOLEAN /\ runner \in ScanPhases
  /\ cancelled \in BOOLEAN /\ draining \in BOOLEAN /\ (draining => cancelled)
TimeTypes ==
  /\ wait \in 0..TickSeconds /\ toCycle \in 0..Interval /\ toRequest \in 0..Interval
  /\ sinceActivity \in 0..QuietSeconds
  /\ sinceAttempt \in 0..Spacing /\ sinceResume \in 0..Interval
ActiveTypes == cycleActive \in BOOLEAN
CycleTypes == count \in 0..MaxRequests
SetTypes == attempted \subseteq Candidates
FlagTypes == disturbed \in BOOLEAN /\ foreground \in BOOLEAN /\ aired \in BOOLEAN
PickTypes == picked \in [Candidates -> 0..2]

ScanIInv == ScanTypeOK /\ TaskInv /\ BudgetInv /\ SpacingInv /\ FreshInv /\ PickedInv

-----------------------------------------------------------------------------
(* The first state and the steps *)

\* The groups are the type invariant.
LEMMA TypeGroups == ScanTypeOK <=> TaskTypes /\ TimeTypes /\ ActiveTypes /\ CycleTypes /\ SetTypes /\ FlagTypes /\ PickTypes
  BY DEF ScanTypeOK, TaskTypes, TimeTypes, ActiveTypes, CycleTypes, SetTypes, FlagTypes, PickTypes

\* So they are after a step.
LEMMA TypeGroupsNext ==
  ScanTypeOK' <=> TaskTypes' /\ TimeTypes' /\ ActiveTypes' /\ CycleTypes' /\ SetTypes' /\ FlagTypes' /\ PickTypes'
  BY DEF ScanTypeOK, TaskTypes, TimeTypes, ActiveTypes, CycleTypes, SetTypes, FlagTypes, PickTypes

\* The first state has the invariant.
LEMMA ScanInitInv ==
  ASSUME ScanInit
  PROVE  ScanIInv
  <1>1. ScanTypeOK
    <2>1. TaskTypes
      BY DEF ScanInit, TaskTypes, ScanPhases
    <2>2. TimeTypes
      BY DEF ScanInit, TimeTypes
    <2>3. ActiveTypes
      BY DEF ScanInit, ActiveTypes
    <2>4. CycleTypes /\ SetTypes
      BY DEF ScanInit, CycleTypes, SetTypes
    <2>5. FlagTypes
      BY DEF ScanInit, FlagTypes
    <2>6. PickTypes
      BY DEF ScanInit, PickTypes
    <2> QED BY ONLY <2>1, <2>2, <2>3, <2>4, <2>5, <2>6, TypeGroups
  <1>2. TaskInv /\ BudgetInv
    BY DEF ScanInit, TaskInv, BudgetInv
  <1>3. SpacingInv /\ FreshInv /\ PickedInv
    BY DEF ScanInit, SpacingInv, FreshInv, PickedInv
  <1> QED BY <1>1, <1>2, <1>3 DEF ScanIInv

\* Starting the task.
LEMMA StartInv ==
  ASSUME ScanTypeOK, TaskInv, BudgetInv, SpacingInv, FreshInv, PickedInv, Start
  PROVE  ScanIInv'
  <1>1. ScanTypeOK'
    <2>1. TaskTypes'
      BY ONLY ScanTypeOK, TypeGroups, TaskInv, Start, TimesAssumption, IntervalAssumption
         DEF TaskTypes, TaskInv, ScanPhases, Start, WaitAgain, task, cycle, env, hist
    <2>2. TimeTypes'
      BY ONLY ScanTypeOK, TypeGroups, Start, TimesAssumption, IntervalAssumption
         DEF TimeTypes, ScanPhases, Start, WaitAgain, task, cycle, env, hist
    <2>3. ActiveTypes'
      BY ONLY ScanTypeOK, TypeGroups, Start, TimesAssumption, IntervalAssumption
         DEF ActiveTypes, ScanPhases, Start, WaitAgain, task, cycle, env, hist
    <2>4. CycleTypes'
      BY ONLY ScanTypeOK, TypeGroups, TaskInv, BudgetInv, Start, TimesAssumption, IntervalAssumption
         DEF CycleTypes, TaskTypes, TaskInv, BudgetInv, ScanPhases, Start, WaitAgain, task, cycle, env, hist
    <2>5. SetTypes'
      BY ONLY ScanTypeOK, TypeGroups, Start, TimesAssumption, IntervalAssumption
         DEF SetTypes, ScanPhases, Start, WaitAgain, task, cycle, env, hist
    <2>6. FlagTypes'
      BY ONLY ScanTypeOK, TypeGroups, Start, TimesAssumption, IntervalAssumption
         DEF FlagTypes, TaskTypes, ScanPhases, Start, WaitAgain, task, cycle, env, hist
    <2>7. PickTypes'
      BY ONLY ScanTypeOK, TypeGroups, Start, TimesAssumption, IntervalAssumption
         DEF PickTypes, ScanPhases, Start, WaitAgain, task, cycle, env, hist
    <2> QED BY ONLY <2>1, <2>2, <2>3, <2>4, <2>5, <2>6, <2>7, TypeGroupsNext
  <1>2. TaskInv'
    BY ONLY ScanTypeOK, TaskInv, BudgetInv, Start, TimesAssumption, IntervalAssumption
       DEF ScanTypeOK, TaskInv, BudgetInv, ScanPhases, Start, WaitAgain, task, cycle, env, hist
  <1>3. BudgetInv'
    BY ONLY ScanTypeOK, TaskInv, BudgetInv, Start, TimesAssumption, IntervalAssumption
       DEF ScanTypeOK, TaskInv, BudgetInv, ScanPhases, Start, WaitAgain, task, cycle, env, hist
  <1>4. SpacingInv'
    BY ONLY ScanTypeOK, TaskInv, SpacingInv, Start, TimesAssumption, IntervalAssumption
       DEF ScanTypeOK, TaskInv, SpacingInv, ScanPhases, Start, WaitAgain, task, cycle, env, hist
  <1>5. FreshInv'
    BY ONLY ScanTypeOK, TaskInv, FreshInv, Start, TimesAssumption, IntervalAssumption
       DEF ScanTypeOK, TaskInv, FreshInv, ScanPhases, Start, WaitAgain, task, cycle, env, hist
  <1>6. PickedInv'
    BY ONLY ScanTypeOK, BudgetInv, PickedInv, Start, TimesAssumption, IntervalAssumption
       DEF ScanTypeOK, BudgetInv, PickedInv, ScanPhases, Start, WaitAgain, task, cycle, env, hist
  <1> QED BY <1>1, <1>2, <1>3, <1>4, <1>5, <1>6 DEF ScanIInv

\* A tick of the task, up to the selection.
LEMMA ScanTickInv ==
  ASSUME ScanTypeOK, TaskInv, BudgetInv, SpacingInv, FreshInv, PickedInv, ScanTick
  PROVE  ScanIInv'
  <1>1. ScanTypeOK'
    <2>1. TaskTypes'
      BY ONLY ScanTypeOK, TypeGroups, TaskInv, ScanTick, TimesAssumption, IntervalAssumption
         DEF TaskTypes, TaskInv, ScanPhases, ScanTick, Gates, Due, WaitAgain, CompleteCycle, task, cycle, env, hist
    <2>2. TimeTypes'
      BY ONLY ScanTypeOK, TypeGroups, ScanTick, TimesAssumption, IntervalAssumption
         DEF TimeTypes, ScanPhases, ScanTick, Gates, Due, WaitAgain, CompleteCycle, task, cycle, env, hist
    <2>3. ActiveTypes'
      BY ONLY ScanTypeOK, TypeGroups, ScanTick, TimesAssumption, IntervalAssumption
         DEF ActiveTypes, ScanPhases, ScanTick, Gates, Due, WaitAgain, CompleteCycle, task, cycle, env, hist
    <2>4. CycleTypes'
      BY ONLY ScanTypeOK, TypeGroups, TaskInv, BudgetInv, ScanTick, TimesAssumption, IntervalAssumption
         DEF CycleTypes, TaskTypes, TaskInv, BudgetInv, ScanPhases, ScanTick, Gates, Due, WaitAgain, CompleteCycle, task, cycle, env, hist
    <2>5. SetTypes'
      BY ONLY ScanTypeOK, TypeGroups, ScanTick, TimesAssumption, IntervalAssumption
         DEF SetTypes, ScanPhases, ScanTick, Gates, Due, WaitAgain, CompleteCycle, task, cycle, env, hist
    <2>6. FlagTypes'
      BY ONLY ScanTypeOK, TypeGroups, ScanTick, TimesAssumption, IntervalAssumption
         DEF FlagTypes, TaskTypes, ScanPhases, ScanTick, Gates, Due, WaitAgain, CompleteCycle, task, cycle, env, hist
    <2>7. PickTypes'
      BY ONLY ScanTypeOK, TypeGroups, ScanTick, TimesAssumption, IntervalAssumption
         DEF PickTypes, ScanPhases, ScanTick, Gates, Due, WaitAgain, CompleteCycle, task, cycle, env, hist
    <2> QED BY ONLY <2>1, <2>2, <2>3, <2>4, <2>5, <2>6, <2>7, TypeGroupsNext
  <1>2. TaskInv'
    BY ONLY ScanTypeOK, TaskInv, BudgetInv, ScanTick, TimesAssumption, IntervalAssumption
       DEF ScanTypeOK, TaskInv, BudgetInv, ScanPhases, ScanTick, Gates, Due, WaitAgain, CompleteCycle, task, cycle, env, hist
  <1>3. BudgetInv'
    BY ONLY ScanTypeOK, TaskInv, BudgetInv, ScanTick, TimesAssumption, IntervalAssumption
       DEF ScanTypeOK, TaskInv, BudgetInv, ScanPhases, ScanTick, Gates, Due, WaitAgain, CompleteCycle, task, cycle, env, hist
  <1>4. SpacingInv'
    BY ONLY ScanTypeOK, TaskInv, SpacingInv, ScanTick, TimesAssumption, IntervalAssumption
       DEF ScanTypeOK, TaskInv, SpacingInv, ScanPhases, ScanTick, Gates, Due, WaitAgain, CompleteCycle, task, cycle, env, hist
  <1>5. FreshInv'
    BY ONLY ScanTypeOK, TaskInv, FreshInv, ScanTick, TimesAssumption, IntervalAssumption
       DEF ScanTypeOK, TaskInv, FreshInv, ScanPhases, ScanTick, Gates, Due, WaitAgain, CompleteCycle, task, cycle, env, hist
  <1>6. PickedInv'
    <2>1. CASE ~Gates \/ UNCHANGED cycleActive
      <3>1. cycleActive' => UNCHANGED <<attempted, picked>> /\ cycleActive
        BY ONLY <2>1, ScanTypeOK, TaskInv, ScanTick
           DEF ScanTypeOK, ScanTick, CompleteCycle, cycle
      <3> QED BY ONLY <3>1, PickedInv DEF PickedInv
    <2>2. CASE ~cycleActive /\ cycleActive'
      <3>1. attempted' = {} /\ picked' = [c \in Candidates |-> 0]
        BY ONLY <2>2, ScanTick DEF ScanTick, CompleteCycle, cycle
      <3> QED BY ONLY <3>1 DEF PickedInv
    <2>3. CASE ~cycleActive'
      BY ONLY <2>3 DEF PickedInv
    <2> QED BY ONLY <2>1, <2>2, <2>3, ScanTypeOK, <1>1 DEF ScanTypeOK
  <1> QED BY <1>1, <1>2, <1>3, <1>4, <1>5, <1>6 DEF ScanIInv

\* A candidate is chosen, and turned away or asked.
LEMMA ChooseInv ==
  ASSUME ScanTypeOK, TaskInv, BudgetInv, SpacingInv, FreshInv, PickedInv, Choose
  PROVE  ScanIInv'
  <1>1. ScanTypeOK'
    <2>1. TaskTypes'
      BY ONLY ScanTypeOK, TypeGroups, TaskInv, Choose, TimesAssumption, IntervalAssumption
         DEF TaskTypes, TaskInv, ScanPhases, Choose, Excluded, WaitAgain, Plus1, task, cycle, env, hist
    <2>2. TimeTypes'
      BY ONLY ScanTypeOK, TypeGroups, Choose, TimesAssumption, IntervalAssumption
         DEF TimeTypes, ScanPhases, Choose, Excluded, WaitAgain, Plus1, task, cycle, env, hist
    <2>3. ActiveTypes'
      BY ONLY ScanTypeOK, TypeGroups, Choose, TimesAssumption, IntervalAssumption
         DEF ActiveTypes, ScanPhases, Choose, Excluded, WaitAgain, Plus1, task, cycle, env, hist
    <2>4. CycleTypes'
      BY ONLY ScanTypeOK, TypeGroups, TaskInv, BudgetInv, Choose, TimesAssumption, IntervalAssumption
         DEF CycleTypes, TaskTypes, TaskInv, BudgetInv, ScanPhases, Choose, Excluded, WaitAgain, Plus1, task, cycle, env, hist
    <2>5. SetTypes'
      BY ONLY ScanTypeOK, TypeGroups, Choose, TimesAssumption, IntervalAssumption
         DEF SetTypes, ScanPhases, Choose, Excluded, WaitAgain, Plus1, task, cycle, env, hist
    <2>6. FlagTypes'
      BY ONLY ScanTypeOK, TypeGroups, Choose, TimesAssumption, IntervalAssumption
         DEF FlagTypes, TaskTypes, ScanPhases, Choose, Excluded, WaitAgain, Plus1, task, cycle, env, hist
    <2>7. PickTypes'
      BY ONLY ScanTypeOK, TypeGroups, Choose, TimesAssumption, IntervalAssumption
         DEF PickTypes, ScanPhases, Choose, Excluded, WaitAgain, Plus1, task, cycle, env, hist
    <2> QED BY ONLY <2>1, <2>2, <2>3, <2>4, <2>5, <2>6, <2>7, TypeGroupsNext
  <1>2. TaskInv'
    BY ONLY ScanTypeOK, TaskInv, BudgetInv, Choose, TimesAssumption, IntervalAssumption
       DEF ScanTypeOK, TaskInv, BudgetInv, ScanPhases, Choose, Excluded, WaitAgain, Plus1, task, cycle, env, hist
  <1>3. BudgetInv'
    BY ONLY ScanTypeOK, TaskInv, BudgetInv, Choose, TimesAssumption, IntervalAssumption
       DEF ScanTypeOK, TaskInv, BudgetInv, ScanPhases, Choose, Excluded, WaitAgain, Plus1, task, cycle, env, hist
  <1>4. SpacingInv'
    BY ONLY ScanTypeOK, TaskInv, SpacingInv, Choose, TimesAssumption, IntervalAssumption
       DEF ScanTypeOK, TaskInv, SpacingInv, ScanPhases, Choose, Excluded, WaitAgain, Plus1, task, cycle, env, hist
  <1>5. FreshInv'
    BY ONLY ScanTypeOK, TaskInv, FreshInv, Choose, TimesAssumption, IntervalAssumption
       DEF ScanTypeOK, TaskInv, FreshInv, ScanPhases, Choose, Excluded, WaitAgain, Plus1, task, cycle, env, hist
  <1>6. PickedInv'
    BY ONLY ScanTypeOK, BudgetInv, PickedInv, Choose, TimesAssumption, IntervalAssumption
       DEF ScanTypeOK, BudgetInv, PickedInv, ScanPhases, Choose, Excluded, WaitAgain, Plus1, task, cycle, env, hist
  <1> QED BY <1>1, <1>2, <1>3, <1>4, <1>5, <1>6 DEF ScanIInv

\* The selection fails.
LEMMA ChooseFailsInv ==
  ASSUME ScanTypeOK, TaskInv, BudgetInv, SpacingInv, FreshInv, PickedInv, ChooseFails
  PROVE  ScanIInv'
  <1>1. ScanTypeOK'
    <2>1. TaskTypes'
      BY ONLY ScanTypeOK, TypeGroups, TaskInv, ChooseFails, TimesAssumption, IntervalAssumption
         DEF TaskTypes, TaskInv, ScanPhases, ChooseFails, WaitAgain, CompleteCycle, task, cycle, env, hist
    <2>2. TimeTypes'
      BY ONLY ScanTypeOK, TypeGroups, ChooseFails, TimesAssumption, IntervalAssumption
         DEF TimeTypes, ScanPhases, ChooseFails, WaitAgain, CompleteCycle, task, cycle, env, hist
    <2>3. ActiveTypes'
      BY ONLY ScanTypeOK, TypeGroups, ChooseFails, TimesAssumption, IntervalAssumption
         DEF ActiveTypes, ScanPhases, ChooseFails, WaitAgain, CompleteCycle, task, cycle, env, hist
    <2>4. CycleTypes'
      BY ONLY ScanTypeOK, TypeGroups, TaskInv, BudgetInv, ChooseFails, TimesAssumption, IntervalAssumption
         DEF CycleTypes, TaskTypes, TaskInv, BudgetInv, ScanPhases, ChooseFails, WaitAgain, CompleteCycle, task, cycle, env, hist
    <2>5. SetTypes'
      BY ONLY ScanTypeOK, TypeGroups, ChooseFails, TimesAssumption, IntervalAssumption
         DEF SetTypes, ScanPhases, ChooseFails, WaitAgain, CompleteCycle, task, cycle, env, hist
    <2>6. FlagTypes'
      BY ONLY ScanTypeOK, TypeGroups, ChooseFails, TimesAssumption, IntervalAssumption
         DEF FlagTypes, TaskTypes, ScanPhases, ChooseFails, WaitAgain, CompleteCycle, task, cycle, env, hist
    <2>7. PickTypes'
      BY ONLY ScanTypeOK, TypeGroups, ChooseFails, TimesAssumption, IntervalAssumption
         DEF PickTypes, ScanPhases, ChooseFails, WaitAgain, CompleteCycle, task, cycle, env, hist
    <2> QED BY ONLY <2>1, <2>2, <2>3, <2>4, <2>5, <2>6, <2>7, TypeGroupsNext
  <1>2. TaskInv'
    BY ONLY ScanTypeOK, TaskInv, BudgetInv, ChooseFails, TimesAssumption, IntervalAssumption
       DEF ScanTypeOK, TaskInv, BudgetInv, ScanPhases, ChooseFails, WaitAgain, CompleteCycle, task, cycle, env, hist
  <1>3. BudgetInv'
    BY ONLY ScanTypeOK, TaskInv, BudgetInv, ChooseFails, TimesAssumption, IntervalAssumption
       DEF ScanTypeOK, TaskInv, BudgetInv, ScanPhases, ChooseFails, WaitAgain, CompleteCycle, task, cycle, env, hist
  <1>4. SpacingInv'
    BY ONLY ScanTypeOK, TaskInv, SpacingInv, ChooseFails, TimesAssumption, IntervalAssumption
       DEF ScanTypeOK, TaskInv, SpacingInv, ScanPhases, ChooseFails, WaitAgain, CompleteCycle, task, cycle, env, hist
  <1>5. FreshInv'
    BY ONLY ScanTypeOK, TaskInv, FreshInv, ChooseFails, TimesAssumption, IntervalAssumption
       DEF ScanTypeOK, TaskInv, FreshInv, ScanPhases, ChooseFails, WaitAgain, CompleteCycle, task, cycle, env, hist
  <1>6. PickedInv'
    BY ONLY ScanTypeOK, BudgetInv, PickedInv, ChooseFails, TimesAssumption, IntervalAssumption
       DEF ScanTypeOK, BudgetInv, PickedInv, ScanPhases, ChooseFails, WaitAgain, CompleteCycle, task, cycle, env, hist
  <1> QED BY <1>1, <1>2, <1>3, <1>4, <1>5, <1>6 DEF ScanIInv

\* The reservation is granted.
LEMMA ReservedInv ==
  ASSUME ScanTypeOK, TaskInv, BudgetInv, SpacingInv, FreshInv, PickedInv, Reserved
  PROVE  ScanIInv'
  <1>1. ScanTypeOK'
    <2>1. TaskTypes'
      BY ONLY ScanTypeOK, TypeGroups, TaskInv, Reserved, TimesAssumption, IntervalAssumption
         DEF TaskTypes, TaskInv, ScanPhases, Reserved, EndRequest, WaitAgain, CompleteCycle, task, cycle, env, hist
    <2>2. TimeTypes'
      BY ONLY ScanTypeOK, TypeGroups, Reserved, TimesAssumption, IntervalAssumption
         DEF TimeTypes, ScanPhases, Reserved, EndRequest, WaitAgain, CompleteCycle, task, cycle, env, hist
    <2>3. ActiveTypes'
      BY ONLY ScanTypeOK, TypeGroups, Reserved, TimesAssumption, IntervalAssumption
         DEF ActiveTypes, ScanPhases, Reserved, EndRequest, WaitAgain, CompleteCycle, task, cycle, env, hist
    <2>4. CycleTypes'
      BY ONLY ScanTypeOK, TypeGroups, TaskInv, BudgetInv, Reserved, TimesAssumption, IntervalAssumption
         DEF CycleTypes, TaskTypes, TaskInv, BudgetInv, ScanPhases, Reserved, EndRequest, WaitAgain, CompleteCycle, task, cycle, env, hist
    <2>5. SetTypes'
      BY ONLY ScanTypeOK, TypeGroups, Reserved, TimesAssumption, IntervalAssumption
         DEF SetTypes, ScanPhases, Reserved, EndRequest, WaitAgain, CompleteCycle, task, cycle, env, hist
    <2>6. FlagTypes'
      BY ONLY ScanTypeOK, TypeGroups, Reserved, TimesAssumption, IntervalAssumption
         DEF FlagTypes, TaskTypes, ScanPhases, Reserved, EndRequest, WaitAgain, CompleteCycle, task, cycle, env, hist
    <2>7. PickTypes'
      BY ONLY ScanTypeOK, TypeGroups, Reserved, TimesAssumption, IntervalAssumption
         DEF PickTypes, ScanPhases, Reserved, EndRequest, WaitAgain, CompleteCycle, task, cycle, env, hist
    <2> QED BY ONLY <2>1, <2>2, <2>3, <2>4, <2>5, <2>6, <2>7, TypeGroupsNext
  <1>2. TaskInv'
    BY ONLY ScanTypeOK, TaskInv, BudgetInv, Reserved, TimesAssumption, IntervalAssumption
       DEF ScanTypeOK, TaskInv, BudgetInv, ScanPhases, Reserved, EndRequest, WaitAgain, CompleteCycle, task, cycle, env, hist
  <1>3. BudgetInv'
    BY ONLY ScanTypeOK, TaskInv, BudgetInv, Reserved, TimesAssumption, IntervalAssumption
       DEF ScanTypeOK, TaskInv, BudgetInv, ScanPhases, Reserved, EndRequest, WaitAgain, CompleteCycle, task, cycle, env, hist
  <1>4. SpacingInv'
    BY ONLY ScanTypeOK, TaskInv, SpacingInv, Reserved, TimesAssumption, IntervalAssumption
       DEF ScanTypeOK, TaskInv, SpacingInv, ScanPhases, Reserved, EndRequest, WaitAgain, CompleteCycle, task, cycle, env, hist
  <1>5. FreshInv'
    BY ONLY ScanTypeOK, TaskInv, FreshInv, Reserved, TimesAssumption, IntervalAssumption
       DEF ScanTypeOK, TaskInv, FreshInv, ScanPhases, Reserved, EndRequest, WaitAgain, CompleteCycle, task, cycle, env, hist
  <1>6. PickedInv'
    BY ONLY ScanTypeOK, BudgetInv, PickedInv, Reserved, TimesAssumption, IntervalAssumption
       DEF ScanTypeOK, BudgetInv, PickedInv, ScanPhases, Reserved, EndRequest, WaitAgain, CompleteCycle, task, cycle, env, hist
  <1> QED BY <1>1, <1>2, <1>3, <1>4, <1>5, <1>6 DEF ScanIInv

\* The provider asks the guard.
LEMMA SubmitInv ==
  ASSUME ScanTypeOK, TaskInv, BudgetInv, SpacingInv, FreshInv, PickedInv, Submit
  PROVE  ScanIInv'
  <1>1. ScanTypeOK'
    <2>1. TaskTypes'
      BY ONLY ScanTypeOK, TypeGroups, TaskInv, Submit, TimesAssumption, IntervalAssumption
         DEF TaskTypes, TaskInv, ScanPhases, Submit, EndRequest, WaitAgain, CompleteCycle, task, cycle, env, hist
    <2>2. TimeTypes'
      BY ONLY ScanTypeOK, TypeGroups, Submit, TimesAssumption, IntervalAssumption
         DEF TimeTypes, ScanPhases, Submit, EndRequest, WaitAgain, CompleteCycle, task, cycle, env, hist
    <2>3. ActiveTypes'
      BY ONLY ScanTypeOK, TypeGroups, Submit, TimesAssumption, IntervalAssumption
         DEF ActiveTypes, ScanPhases, Submit, EndRequest, WaitAgain, CompleteCycle, task, cycle, env, hist
    <2>4. CycleTypes'
      BY ONLY ScanTypeOK, TypeGroups, TaskInv, BudgetInv, Submit, TimesAssumption, IntervalAssumption
         DEF CycleTypes, TaskTypes, TaskInv, BudgetInv, ScanPhases, Submit, EndRequest, WaitAgain, CompleteCycle, task, cycle, env, hist
    <2>5. SetTypes'
      BY ONLY ScanTypeOK, TypeGroups, Submit, TimesAssumption, IntervalAssumption
         DEF SetTypes, ScanPhases, Submit, EndRequest, WaitAgain, CompleteCycle, task, cycle, env, hist
    <2>6. FlagTypes'
      BY ONLY ScanTypeOK, TypeGroups, Submit, TimesAssumption, IntervalAssumption
         DEF FlagTypes, TaskTypes, ScanPhases, Submit, EndRequest, WaitAgain, CompleteCycle, task, cycle, env, hist
    <2>7. PickTypes'
      BY ONLY ScanTypeOK, TypeGroups, Submit, TimesAssumption, IntervalAssumption
         DEF PickTypes, ScanPhases, Submit, EndRequest, WaitAgain, CompleteCycle, task, cycle, env, hist
    <2> QED BY ONLY <2>1, <2>2, <2>3, <2>4, <2>5, <2>6, <2>7, TypeGroupsNext
  <1>2. TaskInv'
    BY ONLY ScanTypeOK, TaskInv, BudgetInv, Submit, TimesAssumption, IntervalAssumption
       DEF ScanTypeOK, TaskInv, BudgetInv, ScanPhases, Submit, EndRequest, WaitAgain, CompleteCycle, task, cycle, env, hist
  <1>3. BudgetInv'
    BY ONLY ScanTypeOK, TaskInv, BudgetInv, Submit, TimesAssumption, IntervalAssumption
       DEF ScanTypeOK, TaskInv, BudgetInv, ScanPhases, Submit, EndRequest, WaitAgain, CompleteCycle, task, cycle, env, hist
  <1>4. SpacingInv'
    BY ONLY ScanTypeOK, TaskInv, SpacingInv, Submit, TimesAssumption, IntervalAssumption
       DEF ScanTypeOK, TaskInv, SpacingInv, ScanPhases, Submit, EndRequest, WaitAgain, CompleteCycle, task, cycle, env, hist
  <1>5. FreshInv'
    BY ONLY ScanTypeOK, TaskInv, FreshInv, Submit, TimesAssumption, IntervalAssumption
       DEF ScanTypeOK, TaskInv, FreshInv, ScanPhases, Submit, EndRequest, WaitAgain, CompleteCycle, task, cycle, env, hist
  <1>6. PickedInv'
    BY ONLY ScanTypeOK, BudgetInv, PickedInv, Submit, TimesAssumption, IntervalAssumption
       DEF ScanTypeOK, BudgetInv, PickedInv, ScanPhases, Submit, EndRequest, WaitAgain, CompleteCycle, task, cycle, env, hist
  <1> QED BY <1>1, <1>2, <1>3, <1>4, <1>5, <1>6 DEF ScanIInv

\* The request is over.
LEMMA RequestEndsInv ==
  ASSUME ScanTypeOK, TaskInv, BudgetInv, SpacingInv, FreshInv, PickedInv, RequestEnds
  PROVE  ScanIInv'
  <1>1. ScanTypeOK'
    <2>1. TaskTypes'
      BY ONLY ScanTypeOK, TypeGroups, TaskInv, RequestEnds, TimesAssumption, IntervalAssumption
         DEF TaskTypes, TaskInv, ScanPhases, RequestEnds, EndRequest, WaitAgain, CompleteCycle, task, cycle, env, hist
    <2>2. TimeTypes'
      BY ONLY ScanTypeOK, TypeGroups, RequestEnds, TimesAssumption, IntervalAssumption
         DEF TimeTypes, ScanPhases, RequestEnds, EndRequest, WaitAgain, CompleteCycle, task, cycle, env, hist
    <2>3. ActiveTypes'
      BY ONLY ScanTypeOK, TypeGroups, RequestEnds, TimesAssumption, IntervalAssumption
         DEF ActiveTypes, ScanPhases, RequestEnds, EndRequest, WaitAgain, CompleteCycle, task, cycle, env, hist
    <2>4. CycleTypes'
      BY ONLY ScanTypeOK, TypeGroups, TaskInv, BudgetInv, RequestEnds, TimesAssumption, IntervalAssumption
         DEF CycleTypes, TaskTypes, TaskInv, BudgetInv, ScanPhases, RequestEnds, EndRequest, WaitAgain, CompleteCycle, task, cycle, env, hist
    <2>5. SetTypes'
      BY ONLY ScanTypeOK, TypeGroups, RequestEnds, TimesAssumption, IntervalAssumption
         DEF SetTypes, ScanPhases, RequestEnds, EndRequest, WaitAgain, CompleteCycle, task, cycle, env, hist
    <2>6. FlagTypes'
      BY ONLY ScanTypeOK, TypeGroups, RequestEnds, TimesAssumption, IntervalAssumption
         DEF FlagTypes, TaskTypes, ScanPhases, RequestEnds, EndRequest, WaitAgain, CompleteCycle, task, cycle, env, hist
    <2>7. PickTypes'
      BY ONLY ScanTypeOK, TypeGroups, RequestEnds, TimesAssumption, IntervalAssumption
         DEF PickTypes, ScanPhases, RequestEnds, EndRequest, WaitAgain, CompleteCycle, task, cycle, env, hist
    <2> QED BY ONLY <2>1, <2>2, <2>3, <2>4, <2>5, <2>6, <2>7, TypeGroupsNext
  <1>2. TaskInv'
    BY ONLY ScanTypeOK, TaskInv, BudgetInv, RequestEnds, TimesAssumption, IntervalAssumption
       DEF ScanTypeOK, TaskInv, BudgetInv, ScanPhases, RequestEnds, EndRequest, WaitAgain, CompleteCycle, task, cycle, env, hist
  <1>3. BudgetInv'
    BY ONLY ScanTypeOK, TaskInv, BudgetInv, RequestEnds, TimesAssumption, IntervalAssumption
       DEF ScanTypeOK, TaskInv, BudgetInv, ScanPhases, RequestEnds, EndRequest, WaitAgain, CompleteCycle, task, cycle, env, hist
  <1>4. SpacingInv'
    BY ONLY ScanTypeOK, TaskInv, SpacingInv, RequestEnds, TimesAssumption, IntervalAssumption
       DEF ScanTypeOK, TaskInv, SpacingInv, ScanPhases, RequestEnds, EndRequest, WaitAgain, CompleteCycle, task, cycle, env, hist
  <1>5. FreshInv'
    BY ONLY ScanTypeOK, TaskInv, FreshInv, RequestEnds, TimesAssumption, IntervalAssumption
       DEF ScanTypeOK, TaskInv, FreshInv, ScanPhases, RequestEnds, EndRequest, WaitAgain, CompleteCycle, task, cycle, env, hist
  <1>6. PickedInv'
    BY ONLY ScanTypeOK, BudgetInv, PickedInv, RequestEnds, TimesAssumption, IntervalAssumption
       DEF ScanTypeOK, BudgetInv, PickedInv, ScanPhases, RequestEnds, EndRequest, WaitAgain, CompleteCycle, task, cycle, env, hist
  <1> QED BY <1>1, <1>2, <1>3, <1>4, <1>5, <1>6 DEF ScanIInv

\* The task notices its cancellation.
LEMMA CancelLandsInv ==
  ASSUME ScanTypeOK, TaskInv, BudgetInv, SpacingInv, FreshInv, PickedInv, CancelLands
  PROVE  ScanIInv'
  <1>1. ScanTypeOK'
    <2>1. TaskTypes'
      BY ONLY ScanTypeOK, TypeGroups, TaskInv, CancelLands, TimesAssumption, IntervalAssumption
         DEF TaskTypes, TaskInv, ScanPhases, CancelLands, task, cycle, env, hist
    <2>2. TimeTypes'
      BY ONLY ScanTypeOK, TypeGroups, CancelLands, TimesAssumption, IntervalAssumption
         DEF TimeTypes, ScanPhases, CancelLands, task, cycle, env, hist
    <2>3. ActiveTypes'
      BY ONLY ScanTypeOK, TypeGroups, CancelLands, TimesAssumption, IntervalAssumption
         DEF ActiveTypes, ScanPhases, CancelLands, task, cycle, env, hist
    <2>4. CycleTypes'
      BY ONLY ScanTypeOK, TypeGroups, TaskInv, BudgetInv, CancelLands, TimesAssumption, IntervalAssumption
         DEF CycleTypes, TaskTypes, TaskInv, BudgetInv, ScanPhases, CancelLands, task, cycle, env, hist
    <2>5. SetTypes'
      BY ONLY ScanTypeOK, TypeGroups, CancelLands, TimesAssumption, IntervalAssumption
         DEF SetTypes, ScanPhases, CancelLands, task, cycle, env, hist
    <2>6. FlagTypes'
      BY ONLY ScanTypeOK, TypeGroups, CancelLands, TimesAssumption, IntervalAssumption
         DEF FlagTypes, TaskTypes, ScanPhases, CancelLands, task, cycle, env, hist
    <2>7. PickTypes'
      BY ONLY ScanTypeOK, TypeGroups, CancelLands, TimesAssumption, IntervalAssumption
         DEF PickTypes, ScanPhases, CancelLands, task, cycle, env, hist
    <2> QED BY ONLY <2>1, <2>2, <2>3, <2>4, <2>5, <2>6, <2>7, TypeGroupsNext
  <1>2. TaskInv'
    BY ONLY ScanTypeOK, TaskInv, BudgetInv, CancelLands, TimesAssumption, IntervalAssumption
       DEF ScanTypeOK, TaskInv, BudgetInv, ScanPhases, CancelLands, task, cycle, env, hist
  <1>3. BudgetInv'
    BY ONLY ScanTypeOK, TaskInv, BudgetInv, CancelLands, TimesAssumption, IntervalAssumption
       DEF ScanTypeOK, TaskInv, BudgetInv, ScanPhases, CancelLands, task, cycle, env, hist
  <1>4. SpacingInv'
    BY ONLY ScanTypeOK, TaskInv, SpacingInv, CancelLands, TimesAssumption, IntervalAssumption
       DEF ScanTypeOK, TaskInv, SpacingInv, ScanPhases, CancelLands, task, cycle, env, hist
  <1>5. FreshInv'
    BY ONLY ScanTypeOK, TaskInv, FreshInv, CancelLands, TimesAssumption, IntervalAssumption
       DEF ScanTypeOK, TaskInv, FreshInv, ScanPhases, CancelLands, task, cycle, env, hist
  <1>6. PickedInv'
    BY ONLY ScanTypeOK, BudgetInv, PickedInv, CancelLands, TimesAssumption, IntervalAssumption
       DEF ScanTypeOK, BudgetInv, PickedInv, ScanPhases, CancelLands, task, cycle, env, hist
  <1> QED BY <1>1, <1>2, <1>3, <1>4, <1>5, <1>6 DEF ScanIInv

\* The fence closes.
LEMMA QuiesceInv ==
  ASSUME ScanTypeOK, TaskInv, BudgetInv, SpacingInv, FreshInv, PickedInv, Quiesce
  PROVE  ScanIInv'
  <1>1. ScanTypeOK'
    <2>1. TaskTypes'
      BY ONLY ScanTypeOK, TypeGroups, TaskInv, Quiesce, TimesAssumption, IntervalAssumption
         DEF TaskTypes, TaskInv, ScanPhases, Quiesce, task, cycle, env, hist
    <2>2. TimeTypes'
      BY ONLY ScanTypeOK, TypeGroups, Quiesce, TimesAssumption, IntervalAssumption
         DEF TimeTypes, ScanPhases, Quiesce, task, cycle, env, hist
    <2>3. ActiveTypes'
      BY ONLY ScanTypeOK, TypeGroups, Quiesce, TimesAssumption, IntervalAssumption
         DEF ActiveTypes, ScanPhases, Quiesce, task, cycle, env, hist
    <2>4. CycleTypes'
      BY ONLY ScanTypeOK, TypeGroups, TaskInv, BudgetInv, Quiesce, TimesAssumption, IntervalAssumption
         DEF CycleTypes, TaskTypes, TaskInv, BudgetInv, ScanPhases, Quiesce, task, cycle, env, hist
    <2>5. SetTypes'
      BY ONLY ScanTypeOK, TypeGroups, Quiesce, TimesAssumption, IntervalAssumption
         DEF SetTypes, ScanPhases, Quiesce, task, cycle, env, hist
    <2>6. FlagTypes'
      BY ONLY ScanTypeOK, TypeGroups, Quiesce, TimesAssumption, IntervalAssumption
         DEF FlagTypes, TaskTypes, ScanPhases, Quiesce, task, cycle, env, hist
    <2>7. PickTypes'
      BY ONLY ScanTypeOK, TypeGroups, Quiesce, TimesAssumption, IntervalAssumption
         DEF PickTypes, ScanPhases, Quiesce, task, cycle, env, hist
    <2> QED BY ONLY <2>1, <2>2, <2>3, <2>4, <2>5, <2>6, <2>7, TypeGroupsNext
  <1>2. TaskInv'
    BY ONLY ScanTypeOK, TaskInv, BudgetInv, Quiesce, TimesAssumption, IntervalAssumption
       DEF ScanTypeOK, TaskInv, BudgetInv, ScanPhases, Quiesce, task, cycle, env, hist
  <1>3. BudgetInv'
    BY ONLY ScanTypeOK, TaskInv, BudgetInv, Quiesce, TimesAssumption, IntervalAssumption
       DEF ScanTypeOK, TaskInv, BudgetInv, ScanPhases, Quiesce, task, cycle, env, hist
  <1>4. SpacingInv'
    BY ONLY ScanTypeOK, TaskInv, SpacingInv, Quiesce, TimesAssumption, IntervalAssumption
       DEF ScanTypeOK, TaskInv, SpacingInv, ScanPhases, Quiesce, task, cycle, env, hist
  <1>5. FreshInv'
    BY ONLY ScanTypeOK, TaskInv, FreshInv, Quiesce, TimesAssumption, IntervalAssumption
       DEF ScanTypeOK, TaskInv, FreshInv, ScanPhases, Quiesce, task, cycle, env, hist
  <1>6. PickedInv'
    BY ONLY ScanTypeOK, BudgetInv, PickedInv, Quiesce, TimesAssumption, IntervalAssumption
       DEF ScanTypeOK, BudgetInv, PickedInv, ScanPhases, Quiesce, task, cycle, env, hist
  <1> QED BY <1>1, <1>2, <1>3, <1>4, <1>5, <1>6 DEF ScanIInv

\* The fence gives up waiting.
LEMMA QuiesceTimeoutInv ==
  ASSUME ScanTypeOK, TaskInv, BudgetInv, SpacingInv, FreshInv, PickedInv, QuiesceTimeout
  PROVE  ScanIInv'
  <1>1. ScanTypeOK'
    <2>1. TaskTypes'
      BY ONLY ScanTypeOK, TypeGroups, TaskInv, QuiesceTimeout, TimesAssumption, IntervalAssumption
         DEF TaskTypes, TaskInv, ScanPhases, QuiesceTimeout, task, cycle, env, hist
    <2>2. TimeTypes'
      BY ONLY ScanTypeOK, TypeGroups, QuiesceTimeout, TimesAssumption, IntervalAssumption
         DEF TimeTypes, ScanPhases, QuiesceTimeout, task, cycle, env, hist
    <2>3. ActiveTypes'
      BY ONLY ScanTypeOK, TypeGroups, QuiesceTimeout, TimesAssumption, IntervalAssumption
         DEF ActiveTypes, ScanPhases, QuiesceTimeout, task, cycle, env, hist
    <2>4. CycleTypes'
      BY ONLY ScanTypeOK, TypeGroups, TaskInv, BudgetInv, QuiesceTimeout, TimesAssumption, IntervalAssumption
         DEF CycleTypes, TaskTypes, TaskInv, BudgetInv, ScanPhases, QuiesceTimeout, task, cycle, env, hist
    <2>5. SetTypes'
      BY ONLY ScanTypeOK, TypeGroups, QuiesceTimeout, TimesAssumption, IntervalAssumption
         DEF SetTypes, ScanPhases, QuiesceTimeout, task, cycle, env, hist
    <2>6. FlagTypes'
      BY ONLY ScanTypeOK, TypeGroups, QuiesceTimeout, TimesAssumption, IntervalAssumption
         DEF FlagTypes, TaskTypes, ScanPhases, QuiesceTimeout, task, cycle, env, hist
    <2>7. PickTypes'
      BY ONLY ScanTypeOK, TypeGroups, QuiesceTimeout, TimesAssumption, IntervalAssumption
         DEF PickTypes, ScanPhases, QuiesceTimeout, task, cycle, env, hist
    <2> QED BY ONLY <2>1, <2>2, <2>3, <2>4, <2>5, <2>6, <2>7, TypeGroupsNext
  <1>2. TaskInv'
    BY ONLY ScanTypeOK, TaskInv, BudgetInv, QuiesceTimeout, TimesAssumption, IntervalAssumption
       DEF ScanTypeOK, TaskInv, BudgetInv, ScanPhases, QuiesceTimeout, task, cycle, env, hist
  <1>3. BudgetInv'
    BY ONLY ScanTypeOK, TaskInv, BudgetInv, QuiesceTimeout, TimesAssumption, IntervalAssumption
       DEF ScanTypeOK, TaskInv, BudgetInv, ScanPhases, QuiesceTimeout, task, cycle, env, hist
  <1>4. SpacingInv'
    BY ONLY ScanTypeOK, TaskInv, SpacingInv, QuiesceTimeout, TimesAssumption, IntervalAssumption
       DEF ScanTypeOK, TaskInv, SpacingInv, ScanPhases, QuiesceTimeout, task, cycle, env, hist
  <1>5. FreshInv'
    BY ONLY ScanTypeOK, TaskInv, FreshInv, QuiesceTimeout, TimesAssumption, IntervalAssumption
       DEF ScanTypeOK, TaskInv, FreshInv, ScanPhases, QuiesceTimeout, task, cycle, env, hist
  <1>6. PickedInv'
    BY ONLY ScanTypeOK, BudgetInv, PickedInv, QuiesceTimeout, TimesAssumption, IntervalAssumption
       DEF ScanTypeOK, BudgetInv, PickedInv, ScanPhases, QuiesceTimeout, task, cycle, env, hist
  <1> QED BY <1>1, <1>2, <1>3, <1>4, <1>5, <1>6 DEF ScanIInv

\* The scheduler is armed afresh.
LEMMA ResumeInv ==
  ASSUME ScanTypeOK, TaskInv, BudgetInv, SpacingInv, FreshInv, PickedInv, Resume
  PROVE  ScanIInv'
  <1>1. ScanTypeOK'
    <2>1. TaskTypes'
      BY ONLY ScanTypeOK, TypeGroups, TaskInv, Resume, TimesAssumption, IntervalAssumption
         DEF TaskTypes, TaskInv, ScanPhases, Resume, WaitAgain, task, cycle, env, hist
    <2>2. TimeTypes'
      BY ONLY ScanTypeOK, TypeGroups, Resume, TimesAssumption, IntervalAssumption
         DEF TimeTypes, ScanPhases, Resume, WaitAgain, task, cycle, env, hist
    <2>3. ActiveTypes'
      BY ONLY ScanTypeOK, TypeGroups, Resume, TimesAssumption, IntervalAssumption
         DEF ActiveTypes, ScanPhases, Resume, WaitAgain, task, cycle, env, hist
    <2>4. CycleTypes'
      BY ONLY ScanTypeOK, TypeGroups, TaskInv, BudgetInv, Resume, TimesAssumption, IntervalAssumption
         DEF CycleTypes, TaskTypes, TaskInv, BudgetInv, ScanPhases, Resume, WaitAgain, task, cycle, env, hist
    <2>5. SetTypes'
      BY ONLY ScanTypeOK, TypeGroups, Resume, TimesAssumption, IntervalAssumption
         DEF SetTypes, ScanPhases, Resume, WaitAgain, task, cycle, env, hist
    <2>6. FlagTypes'
      BY ONLY ScanTypeOK, TypeGroups, Resume, TimesAssumption, IntervalAssumption
         DEF FlagTypes, TaskTypes, ScanPhases, Resume, WaitAgain, task, cycle, env, hist
    <2>7. PickTypes'
      BY ONLY ScanTypeOK, TypeGroups, Resume, TimesAssumption, IntervalAssumption
         DEF PickTypes, ScanPhases, Resume, WaitAgain, task, cycle, env, hist
    <2> QED BY ONLY <2>1, <2>2, <2>3, <2>4, <2>5, <2>6, <2>7, TypeGroupsNext
  <1>2. TaskInv'
    BY ONLY ScanTypeOK, TaskInv, BudgetInv, Resume, TimesAssumption, IntervalAssumption
       DEF ScanTypeOK, TaskInv, BudgetInv, ScanPhases, Resume, WaitAgain, task, cycle, env, hist
  <1>3. BudgetInv'
    BY ONLY ScanTypeOK, TaskInv, BudgetInv, Resume, TimesAssumption, IntervalAssumption
       DEF ScanTypeOK, TaskInv, BudgetInv, ScanPhases, Resume, WaitAgain, task, cycle, env, hist
  <1>4. SpacingInv'
    BY ONLY ScanTypeOK, TaskInv, SpacingInv, Resume, TimesAssumption, IntervalAssumption
       DEF ScanTypeOK, TaskInv, SpacingInv, ScanPhases, Resume, WaitAgain, task, cycle, env, hist
  <1>5. FreshInv'
    BY ONLY ScanTypeOK, TaskInv, FreshInv, Resume, TimesAssumption, IntervalAssumption
       DEF ScanTypeOK, TaskInv, FreshInv, ScanPhases, Resume, WaitAgain, task, cycle, env, hist
  <1>6. PickedInv'
    BY ONLY ScanTypeOK, BudgetInv, PickedInv, Resume, TimesAssumption, IntervalAssumption
       DEF ScanTypeOK, BudgetInv, PickedInv, ScanPhases, Resume, WaitAgain, task, cycle, env, hist
  <1> QED BY <1>1, <1>2, <1>3, <1>4, <1>5, <1>6 DEF ScanIInv

\* Traffic is recorded.
LEMMA ActivityInv ==
  ASSUME ScanTypeOK, TaskInv, BudgetInv, SpacingInv, FreshInv, PickedInv, Activity
  PROVE  ScanIInv'
  <1>1. ScanTypeOK'
    <2>1. TaskTypes'
      BY ONLY ScanTypeOK, TypeGroups, TaskInv, Activity, TimesAssumption, IntervalAssumption
         DEF TaskTypes, TaskInv, ScanPhases, Activity, task, cycle, env, hist
    <2>2. TimeTypes'
      BY ONLY ScanTypeOK, TypeGroups, Activity, TimesAssumption, IntervalAssumption
         DEF TimeTypes, ScanPhases, Activity, task, cycle, env, hist
    <2>3. ActiveTypes'
      BY ONLY ScanTypeOK, TypeGroups, Activity, TimesAssumption, IntervalAssumption
         DEF ActiveTypes, ScanPhases, Activity, task, cycle, env, hist
    <2>4. CycleTypes'
      BY ONLY ScanTypeOK, TypeGroups, TaskInv, BudgetInv, Activity, TimesAssumption, IntervalAssumption
         DEF CycleTypes, TaskTypes, TaskInv, BudgetInv, ScanPhases, Activity, task, cycle, env, hist
    <2>5. SetTypes'
      BY ONLY ScanTypeOK, TypeGroups, Activity, TimesAssumption, IntervalAssumption
         DEF SetTypes, ScanPhases, Activity, task, cycle, env, hist
    <2>6. FlagTypes'
      BY ONLY ScanTypeOK, TypeGroups, Activity, TimesAssumption, IntervalAssumption
         DEF FlagTypes, TaskTypes, ScanPhases, Activity, task, cycle, env, hist
    <2>7. PickTypes'
      BY ONLY ScanTypeOK, TypeGroups, Activity, TimesAssumption, IntervalAssumption
         DEF PickTypes, ScanPhases, Activity, task, cycle, env, hist
    <2> QED BY ONLY <2>1, <2>2, <2>3, <2>4, <2>5, <2>6, <2>7, TypeGroupsNext
  <1>2. TaskInv'
    BY ONLY ScanTypeOK, TaskInv, BudgetInv, Activity, TimesAssumption, IntervalAssumption
       DEF ScanTypeOK, TaskInv, BudgetInv, ScanPhases, Activity, task, cycle, env, hist
  <1>3. BudgetInv'
    BY ONLY ScanTypeOK, TaskInv, BudgetInv, Activity, TimesAssumption, IntervalAssumption
       DEF ScanTypeOK, TaskInv, BudgetInv, ScanPhases, Activity, task, cycle, env, hist
  <1>4. SpacingInv'
    BY ONLY ScanTypeOK, TaskInv, SpacingInv, Activity, TimesAssumption, IntervalAssumption
       DEF ScanTypeOK, TaskInv, SpacingInv, ScanPhases, Activity, task, cycle, env, hist
  <1>5. FreshInv'
    BY ONLY ScanTypeOK, TaskInv, FreshInv, Activity, TimesAssumption, IntervalAssumption
       DEF ScanTypeOK, TaskInv, FreshInv, ScanPhases, Activity, task, cycle, env, hist
  <1>6. PickedInv'
    BY ONLY ScanTypeOK, BudgetInv, PickedInv, Activity, TimesAssumption, IntervalAssumption
       DEF ScanTypeOK, BudgetInv, PickedInv, ScanPhases, Activity, task, cycle, env, hist
  <1> QED BY <1>1, <1>2, <1>3, <1>4, <1>5, <1>6 DEF ScanIInv

\* Another owner of the radio comes or goes.
LEMMA ForegroundInv ==
  ASSUME ScanTypeOK, TaskInv, BudgetInv, SpacingInv, FreshInv, PickedInv, Foreground
  PROVE  ScanIInv'
  <1>1. ScanTypeOK'
    <2>1. TaskTypes'
      BY ONLY ScanTypeOK, TypeGroups, TaskInv, Foreground, TimesAssumption, IntervalAssumption
         DEF TaskTypes, TaskInv, ScanPhases, Foreground, task, cycle, env, hist
    <2>2. TimeTypes'
      BY ONLY ScanTypeOK, TypeGroups, Foreground, TimesAssumption, IntervalAssumption
         DEF TimeTypes, ScanPhases, Foreground, task, cycle, env, hist
    <2>3. ActiveTypes'
      BY ONLY ScanTypeOK, TypeGroups, Foreground, TimesAssumption, IntervalAssumption
         DEF ActiveTypes, ScanPhases, Foreground, task, cycle, env, hist
    <2>4. CycleTypes'
      BY ONLY ScanTypeOK, TypeGroups, TaskInv, BudgetInv, Foreground, TimesAssumption, IntervalAssumption
         DEF CycleTypes, TaskTypes, TaskInv, BudgetInv, ScanPhases, Foreground, task, cycle, env, hist
    <2>5. SetTypes'
      BY ONLY ScanTypeOK, TypeGroups, Foreground, TimesAssumption, IntervalAssumption
         DEF SetTypes, ScanPhases, Foreground, task, cycle, env, hist
    <2>6. FlagTypes'
      BY ONLY ScanTypeOK, TypeGroups, Foreground, TimesAssumption, IntervalAssumption
         DEF FlagTypes, TaskTypes, ScanPhases, Foreground, task, cycle, env, hist
    <2>7. PickTypes'
      BY ONLY ScanTypeOK, TypeGroups, Foreground, TimesAssumption, IntervalAssumption
         DEF PickTypes, ScanPhases, Foreground, task, cycle, env, hist
    <2> QED BY ONLY <2>1, <2>2, <2>3, <2>4, <2>5, <2>6, <2>7, TypeGroupsNext
  <1>2. TaskInv'
    BY ONLY ScanTypeOK, TaskInv, BudgetInv, Foreground, TimesAssumption, IntervalAssumption
       DEF ScanTypeOK, TaskInv, BudgetInv, ScanPhases, Foreground, task, cycle, env, hist
  <1>3. BudgetInv'
    BY ONLY ScanTypeOK, TaskInv, BudgetInv, Foreground, TimesAssumption, IntervalAssumption
       DEF ScanTypeOK, TaskInv, BudgetInv, ScanPhases, Foreground, task, cycle, env, hist
  <1>4. SpacingInv'
    BY ONLY ScanTypeOK, TaskInv, SpacingInv, Foreground, TimesAssumption, IntervalAssumption
       DEF ScanTypeOK, TaskInv, SpacingInv, ScanPhases, Foreground, task, cycle, env, hist
  <1>5. FreshInv'
    BY ONLY ScanTypeOK, TaskInv, FreshInv, Foreground, TimesAssumption, IntervalAssumption
       DEF ScanTypeOK, TaskInv, FreshInv, ScanPhases, Foreground, task, cycle, env, hist
  <1>6. PickedInv'
    BY ONLY ScanTypeOK, BudgetInv, PickedInv, Foreground, TimesAssumption, IntervalAssumption
       DEF ScanTypeOK, BudgetInv, PickedInv, ScanPhases, Foreground, task, cycle, env, hist
  <1> QED BY <1>1, <1>2, <1>3, <1>4, <1>5, <1>6 DEF ScanIInv

\* A unit of time passes.
LEMMA TimePassesInv ==
  ASSUME ScanTypeOK, TaskInv, BudgetInv, SpacingInv, FreshInv, PickedInv, TimePasses
  PROVE  ScanIInv'
  <1>1. ScanTypeOK'
    <2>1. TaskTypes'
      BY ONLY ScanTypeOK, TypeGroups, TaskInv, TimePasses, TimesAssumption, IntervalAssumption
         DEF TaskTypes, TaskInv, ScanPhases, TimePasses, Minus1, Plus1, task, cycle, env, hist
    <2>2. TimeTypes'
      BY ONLY ScanTypeOK, TypeGroups, TimePasses, TimesAssumption, IntervalAssumption
         DEF TimeTypes, ScanPhases, TimePasses, Minus1, Plus1, task, cycle, env, hist
    <2>3. ActiveTypes'
      BY ONLY ScanTypeOK, TypeGroups, TimePasses, TimesAssumption, IntervalAssumption
         DEF ActiveTypes, ScanPhases, TimePasses, Minus1, Plus1, task, cycle, env, hist
    <2>4. CycleTypes'
      BY ONLY ScanTypeOK, TypeGroups, TaskInv, BudgetInv, TimePasses, TimesAssumption, IntervalAssumption
         DEF CycleTypes, TaskTypes, TaskInv, BudgetInv, ScanPhases, TimePasses, Minus1, Plus1, task, cycle, env, hist
    <2>5. SetTypes'
      BY ONLY ScanTypeOK, TypeGroups, TimePasses, TimesAssumption, IntervalAssumption
         DEF SetTypes, ScanPhases, TimePasses, Minus1, Plus1, task, cycle, env, hist
    <2>6. FlagTypes'
      BY ONLY ScanTypeOK, TypeGroups, TimePasses, TimesAssumption, IntervalAssumption
         DEF FlagTypes, TaskTypes, ScanPhases, TimePasses, Minus1, Plus1, task, cycle, env, hist
    <2>7. PickTypes'
      BY ONLY ScanTypeOK, TypeGroups, TimePasses, TimesAssumption, IntervalAssumption
         DEF PickTypes, ScanPhases, TimePasses, Minus1, Plus1, task, cycle, env, hist
    <2> QED BY ONLY <2>1, <2>2, <2>3, <2>4, <2>5, <2>6, <2>7, TypeGroupsNext
  <1>2. TaskInv'
    BY ONLY ScanTypeOK, TaskInv, BudgetInv, TimePasses, TimesAssumption, IntervalAssumption
       DEF ScanTypeOK, TaskInv, BudgetInv, ScanPhases, TimePasses, Minus1, Plus1, task, cycle, env, hist
  <1>3. BudgetInv'
    BY ONLY ScanTypeOK, TaskInv, BudgetInv, TimePasses, TimesAssumption, IntervalAssumption
       DEF ScanTypeOK, TaskInv, BudgetInv, ScanPhases, TimePasses, Minus1, Plus1, task, cycle, env, hist
  <1>4. SpacingInv'
    BY ONLY ScanTypeOK, TaskInv, SpacingInv, TimePasses, TimesAssumption, IntervalAssumption
       DEF ScanTypeOK, TaskInv, SpacingInv, ScanPhases, TimePasses, Minus1, Plus1, task, cycle, env, hist
  <1>5. FreshInv'
    BY ONLY ScanTypeOK, TaskInv, FreshInv, TimePasses, TimesAssumption, IntervalAssumption
       DEF ScanTypeOK, TaskInv, FreshInv, ScanPhases, TimePasses, Minus1, Plus1, task, cycle, env, hist
  <1>6. PickedInv'
    BY ONLY ScanTypeOK, BudgetInv, PickedInv, TimePasses, TimesAssumption, IntervalAssumption
       DEF ScanTypeOK, BudgetInv, PickedInv, ScanPhases, TimePasses, Minus1, Plus1, task, cycle, env, hist
  <1> QED BY <1>1, <1>2, <1>3, <1>4, <1>5, <1>6 DEF ScanIInv

\* Every step keeps the invariant.
LEMMA ScanStepInv ==
  ASSUME ScanIInv, [ScanNext]_scanVars
  PROVE  ScanIInv'
  <1>1. ScanTypeOK /\ TaskInv /\ BudgetInv /\ SpacingInv /\ FreshInv /\ PickedInv
    BY DEF ScanIInv
  <1>2. CASE Start
    BY <1>1, <1>2, StartInv
  <1>3. CASE ScanTick
    BY <1>1, <1>3, ScanTickInv
  <1>4. CASE Choose
    BY <1>1, <1>4, ChooseInv
  <1>5. CASE ChooseFails
    BY <1>1, <1>5, ChooseFailsInv
  <1>6. CASE Reserved
    BY <1>1, <1>6, ReservedInv
  <1>7. CASE Submit
    BY <1>1, <1>7, SubmitInv
  <1>8. CASE RequestEnds
    BY <1>1, <1>8, RequestEndsInv
  <1>9. CASE CancelLands
    BY <1>1, <1>9, CancelLandsInv
  <1>10. CASE Quiesce
    BY <1>1, <1>10, QuiesceInv
  <1>11. CASE QuiesceTimeout
    BY <1>1, <1>11, QuiesceTimeoutInv
  <1>12. CASE Resume
    BY <1>1, <1>12, ResumeInv
  <1>13. CASE Activity
    BY <1>1, <1>13, ActivityInv
  <1>14. CASE Foreground
    BY <1>1, <1>14, ForegroundInv
  <1>15. CASE TimePasses
    BY <1>1, <1>15, TimePassesInv
  <1>16. CASE UNCHANGED scanVars
    <2>1. UNCHANGED <<accepting, runner, cancelled, draining, wait, cycleActive, count, attempted,
                      toCycle, toRequest, disturbed, foreground, sinceActivity, sinceAttempt,
                      sinceResume, picked, aired>>
      BY <1>16 DEF scanVars, task, cycle, env, hist
    <2>2. ScanTypeOK'
      BY <1>1, <2>1 DEF ScanTypeOK
    <2>3. TaskInv' /\ BudgetInv'
      BY <1>1, <2>1 DEF TaskInv, BudgetInv
    <2>4. SpacingInv' /\ FreshInv' /\ PickedInv'
      BY <1>1, <2>1 DEF SpacingInv, FreshInv, PickedInv
    <2> QED BY <2>2, <2>3, <2>4 DEF ScanIInv
  <1> QED
    BY <1>2, <1>3, <1>4, <1>5, <1>6, <1>7, <1>8, <1>9, <1>10, <1>11, <1>12, <1>13, <1>14, <1>15,
       <1>16 DEF ScanNext, Run

-----------------------------------------------------------------------------
(* Theorems *)

\* The invariant holds in every state of every behaviour.
THEOREM ScanInductiveInvariant == ScanSpec => []ScanIInv
  <1>1. ScanInit => ScanIInv
    BY ScanInitInv
  <1>2. ScanIInv /\ [ScanNext]_scanVars => ScanIInv'
    BY ScanStepInv
  <1> QED BY <1>1, <1>2, PTL DEF ScanSpec

\* Type correctness.
THEOREM ScanTypeCorrect == ScanSpec => []ScanTypeOK
  <1>1. ScanIInv => ScanTypeOK
    BY DEF ScanIInv
  <1> QED BY <1>1, ScanInductiveInvariant, PTL

\* No candidate is chosen twice in a cycle, whatever turned it away.
THEOREM NoRetry == ScanSpec => []NoRetryInCycle
  <1>1. ScanIInv => NoRetryInCycle
    <2> SUFFICES ASSUME ScanIInv, cycleActive, NEW c \in Candidates PROVE picked[c] <= 1
      BY DEF NoRetryInCycle
    <2>1. picked[c] <= (IF c \in attempted THEN 1 ELSE 0) /\ picked[c] \in 0..2
      BY DEF ScanIInv, PickedInv, ScanTypeOK
    <2> QED BY <2>1
  <1> QED BY <1>1, ScanInductiveInvariant, PTL

\* Only the task, not cancelled, in an accepting scheduler makes an attempt, in an
\* active cycle whose next request is due.
LEMMA AttemptIsChoice ==
  ASSUME ScanIInv, [ScanNext]_scanVars, Attempt
  PROVE  /\ Choose /\ LateGates /\ accepting /\ cycleActive /\ toRequest = 0
         /\ ScanTypeOK /\ SpacingInv /\ FreshInv
  <1>1. runner = "choosing" /\ runner' = "reserving"
    BY DEF Attempt
  <1>2. Choose
    BY ONLY <1>1, [ScanNext]_scanVars
       DEF ScanNext, Run, Start, ScanTick, ChooseFails, Reserved, Submit, RequestEnds, EndRequest,
           CancelLands, Quiesce, QuiesceTimeout, Resume, Activity, Foreground, TimePasses,
           WaitAgain, scanVars, task
  <1>3. ~cancelled /\ LateGates
    BY ONLY <1>1, <1>2 DEF Choose, WaitAgain
  <1> QED BY <1>1, <1>2, <1>3 DEF ScanIInv, TaskInv

\* Requests stay Spacing apart over cycles that end early, cancellations, reloads
\* and resumes.
THEOREM Spaced == ScanSpec => AttemptsSpaced
  <1>1. ScanIInv /\ [ScanNext]_scanVars => [Attempt => sinceAttempt = Spacing]_scanVars
    <2> SUFFICES ASSUME ScanIInv, [ScanNext]_scanVars, Attempt PROVE sinceAttempt = Spacing
      OBVIOUS
    <2>1. toRequest = 0 /\ toRequest + sinceAttempt >= Spacing /\ sinceAttempt \in 0..Spacing
      BY AttemptIsChoice DEF SpacingInv, ScanTypeOK
    <2> QED BY <2>1
  <1> QED BY <1>1, ScanInductiveInvariant, PTL DEF ScanSpec, AttemptsSpaced

\* A scheduler that was created or resumed waits a full interval.
THEOREM Fresh == ScanSpec => FreshInterval
  <1>1. ScanIInv /\ [ScanNext]_scanVars => [Attempt => sinceResume = Interval]_scanVars
    <2> SUFFICES ASSUME ScanIInv, [ScanNext]_scanVars, Attempt PROVE sinceResume = Interval
      OBVIOUS
    <2> QED BY AttemptIsChoice DEF FreshInv
  <1> QED BY <1>1, ScanInductiveInvariant, PTL DEF ScanSpec, FreshInterval

\* A request begins in an idle window that nothing has disturbed since the
\* selection began.
THEOREM Idle == ScanSpec => AttemptsIdle
  <1>1. ScanIInv /\ [ScanNext]_scanVars
          => [Attempt => sinceActivity = QuietSeconds /\ ~foreground /\ ~disturbed]_scanVars
    <2> SUFFICES ASSUME ScanIInv, [ScanNext]_scanVars, Attempt
                 PROVE  sinceActivity = QuietSeconds /\ ~foreground /\ ~disturbed
      OBVIOUS
    <2>1. LateGates /\ sinceActivity \in 0..QuietSeconds
      BY AttemptIsChoice DEF ScanTypeOK
    <2> QED BY ONLY <2>1, TimesAssumption DEF LateGates, Quiet, Busy
  <1> QED BY <1>1, ScanInductiveInvariant, PTL DEF ScanSpec, AttemptsIdle

=============================================================================
