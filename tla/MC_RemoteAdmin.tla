---------------------------- MODULE MC_RemoteAdmin ----------------------------
(* Small instances of RemoteAdmin for TLC. *)
EXTENDS RemoteAdmin, TLC

CONSTANTS g1, g2, o1, o2, o3, o4

\* The owner record has two settings in one section, the device another.
MCPaths     == {"long_name", "short_name", "role"}
MCSections  == {"owner", "device"}
MCSectionOf == [x \in MCPaths |-> IF x = "role" THEN "device" ELSE "owner"]
MCValues    == {0, 1}

Draft(changes) == [x \in MCPaths |-> IF x \in changes THEN 1 ELSE None]

World(gateways, drafts, faults) ==
  [gateways |-> gateways, drafts |-> drafts, faults |-> faults,
   start |-> {[x \in MCPaths |-> 0]}]

\* Handlers are interchangeable.
Handlers == Permutations({o1, o2, o3, o4})

AllScenarios ==
  { World({g1}, {Draft({"short_name"}), Draft({"short_name", "role"})}, {"edit", "drop"}),
    World({g1}, {Draft({"short_name"})}, {"unload", "check", "edit"}),
    World({g1, g2}, {Draft({"short_name"})}, {"unload"}) }

=============================================================================
