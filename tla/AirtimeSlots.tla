----------------------------- MODULE AirtimeSlots -----------------------------
(***************************************************************************)
(* What the durable reservations promise (docs/ARCHITECTURE.md, docs/      *)
(* NETWORK_MAINTENANCE.md): whatever the order of requests, gateways,      *)
(* cancellations and restarts, two metadata requests are granted at least  *)
(* Floor apart, two NeighborInfo requests to one node TargetFloor apart,   *)
(* and two reboots of one node RebootFloor apart.                          *)
(***************************************************************************)
EXTENDS Naturals

CONSTANTS Operations, Targets, Floor, TargetFloor, RebootFloor,
          Instants  \* the instants considered, a subset of Nat

VARIABLE grants  \* every grant so far: [at, op, target]

\* How long after grant g a grant for op and target is refused.
Gap(g, op, target) ==
  CASE op = "reboot" ->
         IF g.op = "reboot" /\ g.target = target THEN RebootFloor ELSE 0
    [] op = "neighbor_info" /\ g.op = "neighbor_info" /\ g.target = target ->
         IF TargetFloor > Floor THEN TargetFloor ELSE Floor
    [] OTHER -> IF g.op = "reboot" THEN 0 ELSE Floor

Grant(op, target, at) ==
  /\ \A g \in grants : Gap(g, op, target) > 0 => at >= g.at + Gap(g, op, target)
  /\ grants' = grants \cup {[at |-> at, op |-> op, target |-> target]}

Init == grants = {}
Next == \E op \in Operations, target \in Targets, at \in Instants : Grant(op, target, at)
Spec == Init /\ [][Next]_grants

=============================================================================
