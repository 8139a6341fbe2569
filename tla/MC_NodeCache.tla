---------------------------- MODULE MC_NodeCache ----------------------------
(***************************************************************************)
(* One radio that is known by its routing id alone, by the id with a MAC   *)
(* and by a MAC of an older release, and a second radio.                   *)
(***************************************************************************)
EXTENDS NodeCache, TLC

CONSTANTS h1, h2, id1, id2, mac1

KeyOf(kind, id, mac) == [kind |-> kind, id |-> id, mac |-> mac, pub |-> Absent]

plain1 == KeyOf("meshtastic", id1, Absent)
proof1 == KeyOf("meshtastic-proof", id1, mac1)
legacy1 == KeyOf("mac", Absent, mac1)
plain2 == KeyOf("meshtastic", id2, Absent)

TheKeys == {plain1, proof1, legacy1, plain2}

\* The digests and prefixes in the order of their text.
TheOrder == (legacy1 :> 1 @@ plain1 :> 2 @@ plain2 :> 3 @@ proof1 :> 4)

Record(id, mac, heard) ==
    [proto |-> "meshtastic", id |-> id, mac |-> mac, pub |-> Absent,
     heard |-> heard, online |-> heard # 0]

TheObservations ==
    {[key |-> plain1, node |-> Record(id1, Absent, 0)],
     [key |-> proof1, node |-> Record(id1, mac1, 0)],
     [key |-> plain2, node |-> Record(id2, Absent, 0)]}

\* What an earlier run may have left: nothing, a record of an older release, or
\* more records than the window or the entity budget hold.
Nothing == Empty
Older == legacy1 :> Record(id1, mac1, 1)
Full == plain2 :> Record(id2, Absent, 0) @@ proof1 :> Record(id1, mac1, 1)
           @@ legacy1 :> Record(id1, mac1, 0) @@ plain1 :> Record(id1, Absent, 1)
Tight == plain1 :> Record(id1, Absent, 1) @@ plain2 :> Record(id2, Absent, 1)

World(store, calls, updates, reloads, faults, favors) ==
    [store |-> store,
     allowed |-> [heard |-> calls, updates |-> updates, reloads |-> reloads,
                  faults |-> faults, labels |-> favors]]

TheWorlds ==
    {World(Nothing, 3, 0, 1, 0, 0), World(Nothing, 2, 1, 0, 1, 0),
     World(Older, 2, 1, 0, 0, 1), World(Older, 2, 0, 1, 1, 0), World(Full, 2, 1, 0, 0, 0),
     World(Tight, 1, 0, 1, 0, 1)}

Hearers == Permutations({h1, h2})
=============================================================================
