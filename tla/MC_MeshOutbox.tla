--------------------------- MODULE MC_MeshOutbox ---------------------------
(* Small instances of MeshOutbox for TLC. *)
EXTENDS MeshOutbox, TLC

CONSTANTS g1, g2, f1, f2, mt, mc

\* One Meshtastic and one MeshCore gateway.
MCGwProto == [g \in Gateways |-> IF g = g1 THEN mt ELSE mc]

\* Broadcasts without a gateway and with an explicit one, and a direct message
\* to a Meshtastic node on automatic routing.
ToAll      == [gw |-> None, proto |-> None]
ToAllViaG2 == [gw |-> g2, proto |-> None]
ToNode     == [gw |-> None, proto |-> mt]

MCRequests == {ToAll, ToAllViaG2, ToNode}

World(faults, requests, flushers, msgs) ==
  [faults |-> faults, gateways |-> {g1}, requests |-> requests,
   flushers |-> flushers, msgs |-> msgs]

\* Two gateways of different protocols that come, go and are reconfigured.
Routing == [World({"disconnect", "reload", "unconfigure"}, {ToAllViaG2, ToNode}, {f1}, 2)
              EXCEPT !.gateways = {g1, g2}]
\* Identities that become unsafe while sends and a flush wait.
Targets == World({"identity", "provider"}, {ToNode}, {f1}, 2)
\* Three messages in pages of two rows, with deliveries that fail.
Pages == World({"provider"}, {ToAll}, {f1}, 3)
\* Two flushes and two sends, with failures, cancellations and disconnects.
Races == World({"cancel", "provider", "disconnect"}, {ToAll}, {f1, f2}, 2)
\* Every fence, against a flush and two sends.
Fences == World({"cancel", "reload", "shutdown", "crash"}, {ToAll}, {f1}, 2)
\* A history deletion, in pages and statements of one row, at every point of two
\* sends and of a flush.
Deletions == World({"delete", "disconnect"}, {ToAll}, {f1}, 2)
\* Two callbacks that flush at the same time.
Replay == World({"disconnect"}, {ToAll}, {f1, f2}, 2)

SafetyScenarios    == {Routing, Targets, Pages, Races, Fences, Deletions, Replay}
LiveScenarios      == {Replay}
CalmScenarios      == {World({}, {ToAll}, {f1}, 2)}
DeletionScenarios  == {World({"delete"}, {ToAll}, {f1}, 2)}
UnsafeScenarios    == {World({"identity", "reload"}, {ToNode}, {f1}, 1)}
LoneScenarios      == {World({}, {ToAll}, {f1}, 1)}

=============================================================================
