-------------------------- MODULE MC_MetadataAirtime --------------------------
(* MetadataAirtime on small instances. *)
EXTENDS MetadataAirtime, TLC

CONSTANTS g1, g2, t1, t2

World(operations, gateways, targets, legacy) ==
  [operations |-> operations, gateways |-> gateways, targets |-> targets, legacy |-> legacy]

\* Every request that shares the network-wide floor, over two gateways.
Shared == World({"traceroute", "neighbor_info", "remote_health"}, {g1, g2}, {t1}, {})
\* Reboots of two nodes, whose attempts delete the expired rows of both.
Reboots == World({"reboot"}, {g1}, {t1, t2}, {})
\* A database of an older release, with running cooldowns of either kind.
Legacy == World({"traceroute", "remote_health"}, {g1}, {t1}, {3})

SafetyScenarios == {Shared, Reboots, Legacy}
TracerouteScenarios == {World({"traceroute"}, {g1}, {t1}, {})}

RequestSymmetry == Permutations(Requests)

=============================================================================
