------------------------ MODULE MC_GatewayLifecycle ------------------------
(* Small instances of GatewayLifecycle for TLC. *)
EXTENDS GatewayLifecycle

CONSTANTS g1, g2, e1, e2

World(gateways, meshtastic, slots, faults) ==
  [gateways |-> gateways, meshtastic |-> meshtastic, slots |-> slots, faults |-> faults]

\* What a radio does on its own.
Radio == {"refuse", "loss", "return", "traffic"}
\* A Meshtastic radio under overlapping events, with stops that raise.
Meshtastics == World({g1}, {g1}, {e1, e2}, Radio \cup {"raise"})
\* The same radio with one event at a time, which recovers.
Lossy == World({g1}, {g1}, {e1}, Radio)
\* The same for a MeshCore gateway, whose starts its packets can interrupt.
LossyMeshCore == World({g1}, {}, {e1}, Radio)
\* A MeshCore and a Meshtastic gateway started by one startup task while their
\* watchdogs start them too.
Both == World({g1, g2}, {g2}, {e1}, {"refuse", "loss"})
\* A Meshtastic gateway under every fault, and a reload and a shutdown whose
\* waits may run out.
FencesMeshtastic ==
  World({g1}, {g1}, {e1}, Radio \cup {"refresh", "reload", "shutdown", "busy",
                                      "stubborn", "raise"})
\* A MeshCore gateway, whose starts run in the task that is cancelled.
FencesMeshCore ==
  World({g1}, {}, {e1}, Radio \cup {"refresh", "reload", "shutdown", "busy",
                                  "stubborn"})
\* A Meshtastic constructor that outlives the stop of its adapter.
Closing ==
  World({g1}, {g1}, {e1}, Radio \cup {"refresh", "shutdown", "busy", "stubborn"})

\* A reload of a Meshtastic gateway that waits for all it has to wait for.
Reloading == World({g1}, {g1}, {e1}, Radio \cup {"reload"})

AllScenarios      ==
  {Meshtastics, Lossy, LossyMeshCore, Both, Reloading, FencesMeshtastic,
   FencesMeshCore, Closing}
LossyScenarios    == {Lossy}
MeshCoreScenarios == {World({g1}, {}, {e1}, {"refuse", "traffic"})}
TrafficScenarios  == {World({g1}, {g1}, {e1}, {"traffic"})}
RefreshScenarios  == {World({g1}, {g1}, {e1}, {"refresh"})}

=============================================================================
