------------------------------ MODULE NodeCache -----------------------------
(***************************************************************************)
(* coordinator.py: the rolling window of cached node records, the view of  *)
(* distinct nodes made from it, the rows that keep it, and the Home        *)
(* Assistant devices that follow it.                                       *)
(*                                                                         *)
(* A node callback merges its observation into the cache and saves it      *)
(* under _node_update_lock, measures the entity budget for a new record,   *)
(* evicts the records heard longest ago, deletes their rows, publishes the *)
(* view and has the evicted devices removed by a task of its own.  The     *)
(* periodic refresh evicts under the same lock and marks stale nodes       *)
(* without it.  Every await lets callbacks, the refresh, the cleanup tasks *)
(* and a gateway reload in; a callback whose gateways were replaced stops  *)
(* at its next check and leaves what it did.  Start-up loads and trims the *)
(* rows before any gateway exists.                                         *)
(*                                                                         *)
(* cut and whole are history: the keys that a stopped or failed callback   *)
(* left half done, and whether none did since the view was last built from *)
(* all the records.                                                        *)
(***************************************************************************)
EXTENDS NodeIdentity, Sequences, SequencesExt

CONSTANTS
    Handlers,       \* node callbacks that may be under way at once
    Observations,   \* what adapters report: [key, node] with heard unset
    Worlds,         \* what a start may find and what may happen then:
                    \*   [store : functions from keys to records, allowed : Allowances]
    LocalIds,       \* the routing ids of the gateways' own radios
    NodeLimit,      \* node_limit, after bounded_node_limit
    MinLimit,       \* MIN_NODE_LIMIT
    Budget,         \* entity_budget(entity_cap())
    OtherEntities,  \* enabled entities that belong to no node
    YieldEvery,     \* _NODE_WINDOW_REGISTRY_YIELD_EVERY
    Timeout,        \* node_timeout
    MaxTime         \* bound: the clock

Free == "free"
Periodic == "periodic"

Records == [proto : Protocols, id : {k.id : k \in Keys} \cup {Absent, Bad},
            mac : {k.mac : k \in Keys} \cup {Absent, Bad},
            pub : {k.pub : k \in Keys} \cup {Absent, Bad},
            heard : 0..MaxTime, online : BOOLEAN]

ASSUME NodeBoundsAssumption ==
    /\ {NodeLimit, MinLimit, Budget, YieldEvery, MaxTime} \subseteq Nat \ {0}
    /\ {OtherEntities, Timeout} \subseteq Nat
    /\ MinLimit <= NodeLimit

ASSUME NodeInputsAssumption ==
    /\ {Free, Periodic} \cap Handlers = {}
    /\ \A o \in Observations : o.key \in Keys /\ o.node \in Records
    /\ \A w \in Worlds :
        DOMAIN w.store \subseteq Keys /\ w.store \in [DOMAIN w.store -> Records]

VARIABLES
    raw,        \* _raw_nodes
    rows,       \* the nodes table
    view,       \* snapshot.nodes
    to,         \* _node_alias_redirects
    ceiling,    \* node_ceiling of _entity_budget_state
    owner,      \* who holds _node_update_lock
    hear,       \* the callbacks: [pc, key, node, gen, known, kept, gone]
    update,     \* the periodic refresh, and start-up before the first one: [pc, gone]
    cleanups,   \* the cleanup tasks: [keys, todo]
    devices,    \* the node devices of the registry, each with its entity
    labels,     \* the devices that carry the favorite label
    seen,       \* the nodes the platforms have made entities for
    local,      \* the ids gateways know to be their own
    gen,        \* _gateway_generation
    suspended,  \* _reconnect_suspended
    up,         \* the platforms are set up and the gateways may start
    clock,
    allowed,    \* bound: how many callbacks, refreshes, reloads, raising store
                \*   calls and favorite labels may still come
    cut, whole  \* history

nodeVars ==
    <<raw, rows, view, to, ceiling, owner, hear, update, cleanups, devices, labels, seen, local,
      gen, suspended, up, clock, allowed, cut, whole>>

Idle == [pc |-> "idle", key |-> Absent, node |-> Absent, gen |-> 0, known |-> FALSE,
         kept |-> FALSE, gone |-> {}]

Empty == [k \in {} |-> Absent]

Pending == cleanups # <<>>

Spend(what) == allowed' = [allowed EXCEPT ![what] = @ - 1]

Without(f, S) == [k \in DOMAIN f \ S |-> f[k]]

With(f, k, v) == [j \in DOMAIN f \cup {k} |-> IF j = k THEN v ELSE f[j]]

-----------------------------------------------------------------------------
(* Data *)

\* A later observation of the same key, written into its record.
MergedInto(n, new) ==
    LET later == new.heard # 0 /\ new.heard >= n.heard IN
    [n EXCEPT
        !.id = Either(new.id, n.id),
        !.mac = Either(new.mac, n.mac),
        !.pub = Either(new.pub, n.pub),
        !.heard = IF later THEN new.heard ELSE n.heard,
        !.online = IF later THEN new.online ELSE n.online]

Signature(n) == <<n.proto, n.id, n.mac, n.pub>>

\* Every evicted and present device counts until it is removed.
Enabled == Cardinality(devices) + OtherEntities

\* The nodes that fit the budget, or Absent when one more surely does.
NodeCeiling(enabled, cached) ==
    LET perNode == (enabled + cached - 1) \div cached IN
    IF enabled = 0 \/ cached = 0 \/ enabled + perNode <= Budget
    THEN Absent
    ELSE (cached * Budget) \div enabled

EffectiveLimit(c) ==
    LET lowered == IF c < MinLimit THEN MinLimit ELSE c IN
    IF c = Absent \/ NodeLimit < lowered THEN NodeLimit ELSE lowered

\* The ceiling a refresh of the budget leaves; not measured during a cleanup.
Measured(nodes) ==
    IF Pending THEN ceiling ELSE NodeCeiling(Enabled, Cardinality(DOMAIN nodes))

Aliases(e) == {k \in DOMAIN to : to[k] = e}

\* The label is looked up on the device of each node of the view, not on the
\* devices of its aliases.
Favorites == DOMAIN view \cap labels

FavoriteKeys == UNION {{e} \cup Aliases(e) : e \in Favorites}

ProtectedKeys(nodes) == {k \in DOMAIN nodes : nodes[k].id \in local} \cup FavoriteKeys

\* Never heard goes first, then the one heard longest ago.
GoesBefore(nodes, j, k) ==
    \/ nodes[j].heard < nodes[k].heard
    \/ nodes[j].heard = nodes[k].heard /\ Before(j, k)

\* The records to evict so that the window is kept.
Evicted(nodes, c, spared) ==
    LET candidates == DOMAIN nodes \ (ProtectedKeys(nodes) \cup spared)
        overflow == Cardinality(DOMAIN nodes) - EffectiveLimit(c) IN
    {k \in candidates :
        Cardinality({j \in candidates : GoesBefore(nodes, j, k)}) < overflow}

-----------------------------------------------------------------------------
(* Steps that several actions end with *)

\* The view is built again from every record.
RefreshAll(nodes) ==
    /\ view' = Effective(nodes)
    /\ to' = Redirects(nodes)
    /\ whole' = TRUE

\* Mutated form: the record that was heard is published as its node.
RefreshOneRaw(nodes, k) ==
    IF k \in DOMAIN to
    THEN view' = With(view, to[k], nodes[k]) /\ UNCHANGED <<to, whole>>
    ELSE RefreshAll(nodes)

\* Only the node of k is built again, from the records it was made of.
RefreshOne(nodes, k) ==
    LET e == to[k]
        part == [j \in Aliases(e) |-> nodes[j]] IN
    IF /\ k \in DOMAIN to
       /\ Aliases(e) \subseteq DOMAIN nodes
       /\ DOMAIN Effective(part) = {e}
    THEN view' = With(view, e, Effective(part)[e]) /\ UNCHANGED <<to, whole>>
    ELSE RefreshAll(nodes)

Refresh(nodes, k, sameIdentity) ==
    IF sameIdentity THEN RefreshOne(nodes, k) ELSE RefreshAll(nodes)

\* The platforms make the entities that are missing, unless devices are
\* still being removed.
AddMissing(nodes, made, registered, waiting) ==
    /\ seen' = IF waiting THEN made ELSE made \cup DOMAIN nodes
    /\ devices' = IF waiting THEN registered ELSE registered \cup (DOMAIN nodes \ made)

\* async_set_updated_data
Publish(waiting) == AddMissing(view', seen, devices, waiting)

ScheduleCleanup(keys) == cleanups' = Append(cleanups, [keys |-> keys, todo |-> keys])

Current(g) == ~suspended /\ g = gen

DeleteRows(keys) == rows' = Without(rows, keys)

\* The callback ends before it is done.
CutShort(i, keys) ==
    /\ hear' = [hear EXCEPT ![i] = Idle]
    /\ owner' = Free
    /\ cut' = cut \cup keys
    /\ whole' = FALSE

-----------------------------------------------------------------------------
(* Start-up *)

InitWith(store, registry, favorites, events) ==
    /\ rows = store
    /\ devices = registry
    /\ labels = favorites
    /\ raw = Empty /\ view = Empty /\ to = Empty
    /\ ceiling = Absent
    /\ owner = Free
    /\ hear = [i \in Handlers |-> Idle]
    /\ update = [pc |-> "load", gone |-> {}]
    /\ cleanups = <<>>
    /\ seen = {} /\ local = {}
    /\ gen = 0
    /\ suspended = FALSE /\ up = FALSE
    /\ clock = 1
    /\ allowed = events
    /\ cut = {} /\ whole = TRUE

\* The store and the registry are as an earlier run left them.
NodesInit == \E w \in Worlds :
            \E favorites \in SUBSET DOMAIN Effective(w.store) :
                InitWith(w.store, DOMAIN Effective(w.store), favorites, w.allowed)

\* Evict from a start that nobody else takes part in, and go on.
TrimAtStart(nodes, c, next) ==
    LET gone == Evicted(nodes, c, {}) IN
    /\ raw' = Without(nodes, gone)
    /\ DeleteRows(gone)
    /\ IF gone = {} THEN UNCHANGED cleanups ELSE ScheduleCleanup(gone)
    /\ update' = [update EXCEPT !.pc = next]

Untouched == UNCHANGED <<owner, hear, labels, local, suspended, clock, allowed>>

LoadAndTrim ==
    /\ update.pc = "load"
    /\ TrimAtStart(rows, ceiling, "budget")
    /\ Untouched
    /\ UNCHANGED <<view, to, ceiling, devices, seen, gen, up, cut, whole>>

TrimToBudget ==
    /\ update.pc = "budget"
    /\ ceiling' = Measured(raw)
    /\ IF Pending
       THEN /\ update' = [update EXCEPT !.pc = "project"]
            /\ UNCHANGED <<raw, rows, cleanups>>
       ELSE TrimAtStart(raw, ceiling', "project")
    /\ Untouched
    /\ UNCHANGED <<view, to, devices, seen, gen, up, cut, whole>>

\* The view is published and the gateways are built; the first refresh follows.
Project ==
    /\ update.pc = "project"
    /\ RefreshAll(raw)
    /\ gen' = gen + 1
    /\ update' = [update EXCEPT !.pc = "wait"]
    /\ Untouched
    /\ UNCHANGED <<raw, rows, ceiling, cleanups, devices, seen, up, cut>>

-----------------------------------------------------------------------------
(* A node callback *)

\* Its position sample is written before the lock is asked for.
Hear(i) ==
    /\ up /\ ~suspended
    /\ hear[i].pc = "idle"
    /\ allowed.heard > 0
    /\ \E o \in Observations, t \in 0..clock :
        hear' = [hear EXCEPT ![i] =
            [Idle EXCEPT !.pc = "locating", !.key = o.key, !.gen = gen,
                         !.node = [o.node EXCEPT !.heard = t, !.online = t # 0]]]
    /\ Spend("heard")
    /\ UNCHANGED <<raw, rows, view, to, ceiling, owner, update, cleanups, devices, labels,
                   seen, local, gen, suspended, up, clock, cut, whole>>

\* The gateways were replaced during that write, or somebody has the lock.
Located(i) ==
    /\ hear[i].pc = "locating"
    /\ hear' = [hear EXCEPT ![i] =
            IF Current(@.gen) THEN [@ EXCEPT !.pc = "waiting"] ELSE Idle]
    /\ UNCHANGED <<raw, rows, view, to, ceiling, owner, update, cleanups, devices, labels,
                   seen, local, gen, suspended, up, clock, allowed, cut, whole>>

\* With the lock: no check of the generation here.
Merge(i) ==
    LET k == hear[i].key
        new == hear[i].node
        known == k \in DOMAIN raw
        node == IF known THEN MergedInto(raw[k], new) ELSE new IN
    /\ hear[i].pc = "waiting"
    /\ owner = Free
    /\ owner' = i
    /\ raw' = With(raw, k, node)
    /\ hear' = [hear EXCEPT ![i].pc = "saving", ![i].node = node,
                            ![i].known = known,
                            ![i].kept = known /\ Signature(node) = Signature(raw[k])]
    /\ UNCHANGED <<rows, view, to, ceiling, update, cleanups, devices, labels, seen, local,
                   gen, suspended, up, clock, allowed, cut, whole>>

SaveRow(i) == rows' = With(rows, hear[i].key, hear[i].node)

\* The row cannot be written, and the exception goes to the adapter.
SaveFails(i) ==
    /\ hear[i].pc = "saving"
    /\ allowed.faults > 0
    /\ Spend("faults")
    /\ CutShort(i, {hear[i].key})
    /\ UNCHANGED <<raw, rows, view, to, ceiling, update, cleanups, devices, labels, seen,
                   local, gen, suspended, up, clock>>

SavedTooLate(i) ==
    /\ hear[i].pc = "saving"
    /\ ~Current(hear[i].gen)
    /\ SaveRow(i)
    /\ CutShort(i, {hear[i].key})
    /\ UNCHANGED <<raw, view, to, ceiling, update, cleanups, devices, labels, seen, local,
                   gen, suspended, up, clock, allowed>>

\* Saved: a record that was not cached before has the budget measured first.
MeasuredFor(i) == IF hear[i].known THEN ceiling ELSE Measured(raw)

GoneFor(i) == Evicted(raw, MeasuredFor(i), {hear[i].key})

\* Nothing has to go: the view is published.
SavedAndDone(i) ==
    /\ hear[i].pc = "saving"
    /\ Current(hear[i].gen)
    /\ GoneFor(i) = {}
    /\ SaveRow(i)
    /\ ceiling' = MeasuredFor(i)
    /\ Refresh(raw, hear[i].key, hear[i].kept)
    /\ cut' = cut \ {hear[i].key}
    /\ hear' = [hear EXCEPT ![i] = Idle]
    /\ owner' = Free
    /\ Publish(Pending)
    /\ UNCHANGED <<raw, update, cleanups, labels, local, gen, suspended, up, clock, allowed>>

\* The evicted records leave the cache before their rows are deleted.
SavedAndEvict(i) ==
    /\ hear[i].pc = "saving"
    /\ Current(hear[i].gen)
    /\ GoneFor(i) # {}
    /\ SaveRow(i)
    /\ ceiling' = MeasuredFor(i)
    /\ raw' = Without(raw, GoneFor(i))
    /\ hear' = [hear EXCEPT ![i].pc = "deleting", ![i].gone = GoneFor(i)]
    /\ UNCHANGED <<view, to, owner, update, cleanups, devices, labels, seen, local, gen,
                   suspended, up, clock, allowed, cut, whole>>

DeleteFails(i) ==
    /\ hear[i].pc = "deleting"
    /\ allowed.faults > 0
    /\ Spend("faults")
    /\ CutShort(i, hear[i].gone \cup {hear[i].key})
    /\ UNCHANGED <<raw, rows, view, to, ceiling, update, cleanups, devices, labels, seen,
                   local, gen, suspended, up, clock>>

\* The gateways were replaced: the view and the devices stay as they were.
DeletedTooLate(i) ==
    /\ hear[i].pc = "deleting"
    /\ ~Current(hear[i].gen)
    /\ DeleteRows(hear[i].gone)
    /\ CutShort(i, hear[i].gone \cup {hear[i].key})
    /\ UNCHANGED <<raw, view, to, ceiling, update, cleanups, devices, labels, seen, local,
                   gen, suspended, up, clock, allowed>>

Deleted(i) ==
    /\ hear[i].pc = "deleting"
    /\ Current(hear[i].gen)
    /\ DeleteRows(hear[i].gone)
    /\ RefreshAll(raw)
    /\ ScheduleCleanup(hear[i].gone)
    /\ cut' = cut \ (hear[i].gone \cup {hear[i].key})
    /\ hear' = [hear EXCEPT ![i] = Idle]
    /\ owner' = Free
    /\ Publish(TRUE)
    /\ UNCHANGED <<raw, ceiling, update, labels, local, gen, suspended, up, clock, allowed>>

-----------------------------------------------------------------------------
(* The periodic refresh *)

BeginUpdate ==
    /\ up
    /\ update.pc = "idle"
    /\ allowed.updates > 0
    /\ Spend("updates")
    /\ update' = [update EXCEPT !.pc = "wait"]
    /\ UNCHANGED <<raw, rows, view, to, ceiling, owner, hear, cleanups, devices, labels,
                   seen, local, gen, suspended, up, clock, cut, whole>>

\* The budget is enforced under the lock; not at all during a cleanup.
Enforce ==
    LET gone == IF Pending THEN {} ELSE Evicted(raw, Measured(raw), {}) IN
    /\ update.pc = "wait"
    /\ owner = Free
    /\ ceiling' = Measured(raw)
    /\ raw' = Without(raw, gone)
    /\ owner' = IF gone = {} THEN Free ELSE Periodic
    /\ update' = [pc |-> IF gone = {} THEN "prune" ELSE "deleting", gone |-> gone]
    /\ UNCHANGED <<rows, view, to, hear, cleanups, devices, labels, seen, local, gen,
                   suspended, up, clock, allowed, cut, whole>>

Enforced ==
    /\ update.pc = "deleting"
    /\ DeleteRows(update.gone)
    /\ RefreshAll(raw)
    /\ ScheduleCleanup(update.gone)
    /\ cut' = cut \ update.gone
    /\ owner' = Free
    /\ update' = [pc |-> "prune", gone |-> {}]
    /\ UNCHANGED <<raw, ceiling, hear, devices, labels, seen, local, gen, suspended, up,
                   clock, allowed>>

\* The rows cannot be deleted: the refresh fails.
EnforceFails ==
    /\ up
    /\ update.pc = "deleting"
    /\ allowed.faults > 0
    /\ Spend("faults")
    /\ cut' = cut \cup update.gone
    /\ whole' = FALSE
    /\ owner' = Free
    /\ update' = [pc |-> "idle", gone |-> {}]
    /\ UNCHANGED <<raw, rows, view, to, ceiling, hear, cleanups, devices, labels, seen,
                   local, gen, suspended, up, clock>>

Stale(n) == n.heard # 0 /\ clock - n.heard > Timeout

\* After the store is pruned, without the lock.
MarkStale ==
    LET marked == [k \in DOMAIN raw |->
                    IF Stale(raw[k]) THEN [raw[k] EXCEPT !.online = FALSE] ELSE raw[k]] IN
    /\ update.pc = "prune"
    /\ raw' = marked
    /\ IF marked # raw THEN RefreshAll(marked) ELSE UNCHANGED <<view, to, whole>>
    /\ update' = [update EXCEPT !.pc = "counting"]
    /\ UNCHANGED <<rows, ceiling, owner, hear, cleanups, devices, labels, seen, local, gen,
                   suspended, up, clock, allowed, cut>>

\* The messages are counted and the listeners called; after the first refresh
\* the platforms are set up and the gateways start.
FinishUpdate ==
    /\ update.pc = "counting"
    /\ update' = [update EXCEPT !.pc = "idle"]
    /\ up' = TRUE
    /\ AddMissing(view, seen, devices, Pending)
    /\ UNCHANGED <<raw, rows, view, to, ceiling, owner, hear, cleanups, labels, local, gen,
                   suspended, clock, allowed, cut, whole>>

-----------------------------------------------------------------------------
(* The cleanup tasks *)

\* The devices the task removes before it lets others run.
Batch(c) ==
    {k \in c.todo : Cardinality({j \in c.todo : Before(j, k)}) < YieldEvery}

\* The platforms' listeners are told which nodes went and, when no other task
\* is left, are called to add what they held back.
TellAndWake(keys, left, more) == AddMissing(view, seen \ keys, left, ~up \/ more)

\* Mutated form: the platforms are not told which nodes went.
CleanUpSilently(j) ==
    LET c == cleanups[j]
        left == devices \ Batch(c) IN
    /\ labels' = labels \ Batch(c)
    /\ cleanups' = IF c.todo # Batch(c) THEN [cleanups EXCEPT ![j].todo = @ \ Batch(c)]
                   ELSE RemoveAt(cleanups, j)
    /\ AddMissing(view, seen, left, ~up \/ cleanups' # <<>>)
    /\ UNCHANGED <<raw, rows, view, to, ceiling, owner, hear, update, local, gen, suspended,
                   up, clock, allowed, cut, whole>>

CleanUp(j) ==
    LET c == cleanups[j]
        left == devices \ Batch(c) IN
    /\ labels' = labels \ Batch(c)
    /\ IF c.todo # Batch(c)
       THEN /\ cleanups' = [cleanups EXCEPT ![j].todo = @ \ Batch(c)]
            /\ devices' = left
            /\ UNCHANGED seen
       ELSE /\ cleanups' = RemoveAt(cleanups, j)
            /\ TellAndWake(c.keys, left, cleanups' # <<>>)
    /\ UNCHANGED <<raw, rows, view, to, ceiling, owner, hear, update, local, gen, suspended,
                   up, clock, allowed, cut, whole>>

-----------------------------------------------------------------------------
(* Gateways and the world *)

BeginReload ==
    /\ up /\ ~suspended
    /\ allowed.reloads > 0
    /\ Spend("reloads")
    /\ suspended' = TRUE
    /\ UNCHANGED <<raw, rows, view, to, ceiling, owner, hear, update, cleanups, devices,
                   labels, seen, local, gen, up, clock, cut, whole>>

\* New gateways that know no radio yet, or none when old work did not stop.
EndReload ==
    /\ suspended
    /\ suspended' = FALSE
    /\ \/ gen' = gen + 1 /\ local' = {}
       \/ UNCHANGED <<gen, local>>
    /\ UNCHANGED <<raw, rows, view, to, ceiling, owner, hear, update, cleanups, devices,
                   labels, seen, up, clock, allowed, cut, whole>>

\* A gateway connects and learns its own id.
Connect ==
    /\ up /\ ~suspended
    /\ local # LocalIds
    /\ local' = LocalIds
    /\ UNCHANGED <<raw, rows, view, to, ceiling, owner, hear, update, cleanups, devices,
                   labels, seen, gen, suspended, up, clock, allowed, cut, whole>>

\* The user gives a node device the favorite label.
Favor(k) ==
    /\ k \in devices \ labels
    /\ allowed.labels > 0
    /\ Spend("labels")
    /\ labels' = labels \cup {k}
    /\ UNCHANGED <<raw, rows, view, to, ceiling, owner, hear, update, cleanups, devices,
                   seen, local, gen, suspended, up, clock, cut, whole>>

Tick ==
    /\ up
    /\ clock < MaxTime
    /\ clock' = clock + 1
    /\ UNCHANGED <<raw, rows, view, to, ceiling, owner, hear, update, cleanups, devices,
                   labels, seen, local, gen, suspended, up, allowed, cut, whole>>

Callback(i) ==
    \/ Hear(i) \/ Located(i) \/ Merge(i)
    \/ SaveFails(i) \/ SavedTooLate(i) \/ SavedAndDone(i) \/ SavedAndEvict(i)
    \/ DeleteFails(i) \/ DeletedTooLate(i) \/ Deleted(i)

NodesNext ==
    \/ LoadAndTrim \/ TrimToBudget \/ Project
    \/ \E i \in Handlers : Callback(i)
    \/ BeginUpdate \/ Enforce \/ Enforced \/ EnforceFails \/ MarkStale \/ FinishUpdate
    \/ \E j \in DOMAIN cleanups : CleanUp(j)
    \/ BeginReload \/ EndReload \/ Connect \/ Tick
    \/ \E k \in Keys : Favor(k)

NodesSpec == NodesInit /\ [][NodesNext]_nodeVars

-----------------------------------------------------------------------------
(* Properties *)

\* Shapes: the caches hold records of known keys, the lock has at most one
\* owner and that owner is at a step that needs it.
NodesTypeOK ==
    /\ \A f \in {raw, rows, view} : DOMAIN f \subseteq Keys /\ f \in [DOMAIN f -> Records]
    /\ DOMAIN to \subseteq Keys /\ \A k \in DOMAIN to : to[k] \in DOMAIN view
    /\ \A i \in Handlers : hear[i].pc \in {"saving", "deleting"} <=> owner = i
    /\ owner = Periodic <=> update.pc = "deleting"
    /\ devices \subseteq Keys /\ labels \subseteq devices /\ seen \subseteq Keys

\* Whenever nobody holds the node lock and no callback was cut short since the
\* view was last built as a whole, the published nodes are exactly what the
\* cached records project to: rebuilding only the node that was heard
\* (_refresh_effective_node_projection), evicting an alias and marking nodes
\* stale beside a callback never leave a node of the panel behind its records.
ViewIsFresh ==
    owner = Free /\ whole /\ gen > 0 => view = Effective(raw) /\ to = Redirects(raw)

\* Nobody is between two steps that belong together.
Quiet ==
    /\ up /\ owner = Free /\ cleanups = <<>> /\ update.pc = "idle"

SameButOnline(m, n) == [m EXCEPT !.online = n.online] = n

\* Once callbacks, the refresh and the cleanup tasks have come to rest, the
\* rows, the cache, the view and the device registry tell the same story of
\* every node no callback was cut short on: a cached record is stored as it is
\* cached, a published node has its device, and no device outlives its record,
\* even when a node is heard again while its device is being removed.
Settled ==
    Quiet =>
        \A k \in Keys \ cut :
            /\ k \in DOMAIN raw <=> k \in DOMAIN rows
            /\ k \in DOMAIN raw => SameButOnline(rows[k], raw[k])
            /\ k \in DOMAIN view => k \in devices
            /\ k \in devices => k \in DOMAIN raw

\* README.md:349-351: "MeshNet Favorite nodes are never evicted".  A stored
\* record whose own device carries the favorite label keeps its row.
FavoritesStay ==
    [][\A k \in DOMAIN rows : k \in labels => k \in DOMAIN rows']_nodeVars
=============================================================================
