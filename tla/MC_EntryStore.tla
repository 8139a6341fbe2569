---------------------------- MODULE MC_EntryStore ----------------------------
(* Small instances of EntryStore, and of OptionsFlow within it, for TLC. *)
EXTENDS EntryStore, TLC

CONSTANTS f1, f2, a, b, d, x, y, j1, j2

\* Gateway a with a bond that MeshNet made, one it found, and over the network.
OwnedAtX   == [id |-> a, addr |-> x, key |-> TRUE, mark |-> TRUE]
FoundAtX   == [OwnedAtX EXCEPT !.mark = FALSE]
Networked  == [id |-> a, addr |-> None, key |-> FALSE, mark |-> FALSE]

\* Two dialogs on an entry with one gateway, and a first setup.
DialogWorlds ==
  {World({f1, f2}, 3, {{OwnedAtX}, {FoundAtX}, {Networked}}, 0, {}, {}),
   World({f1}, 2, {}, 0, {}, {})}
\* Saves while the entry is set up, reloaded and unloaded.
ReloadWorlds ==
  {World({f1}, 2, {{Networked}, {FoundAtX}}, 2, {"stuck", "platforms"}, {})}
\* The store under every failure of setup and unload.
StoreWorlds ==
  {World({}, 0, {{Networked}}, 2, {"fail", "cancel", "platforms", "slow", "stuck"}, {j1, j2})}
EntryScenarios == DialogWorlds \cup ReloadWorlds \cup StoreWorlds

=============================================================================
