-------------------------- MODULE MC_GatewaySettings --------------------------
(* Small instances of GatewaySettings for TLC. *)
EXTENDS GatewaySettings

CONSTANTS o1, o2, o3

World(ops, handsOver, faults) == [ops |-> ops, handsOver |-> handsOver, faults |-> faults]

AllScenarios ==
  { \* two clients that apply the same preview, on a radio somebody else edits
    World({o1, o2, o3}, TRUE, {"edit"}),
    World({o1, o2}, TRUE, {"edit", "drop", "get"}),
    \* one apply whose PIN reaches the entry while the user changes it
    World({o1, o2}, TRUE, {"update", "stubborn", "edit"}),
    World({o1, o2}, FALSE, {"update"}) }

=============================================================================
