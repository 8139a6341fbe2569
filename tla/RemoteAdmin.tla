----------------------------- MODULE RemoteAdmin -----------------------------
(***************************************************************************)
(* Settings of a remote Meshtastic node, administered over the mesh through *)
(* the Bluetooth gateways: the RemoteAdminManager (a cached snapshot and    *)
(* single-use previews for every gateway and target, behind a lock of that  *)
(* pair), the Bluetooth client that reads the node section by section and   *)
(* writes whole sections, and the unloading of the config entry, which      *)
(* fences and drains the manager.                                           *)
(*                                                                          *)
(* There is one target: nothing but the fence and the connection crosses    *)
(* targets.  The revision of a snapshot is the state of the node it shows.  *)
(* A packet may reach the node or not, whatever becomes of its answer.  An  *)
(* apply has just read with a session of its own; a reboot may have to ask  *)
(* for one first.                                                           *)
(***************************************************************************)
EXTENDS Naturals, FiniteSets

CONSTANTS
  Gateways,    \* connected over Bluetooth
  Ops,         \* handler tasks: reads, previews, applies, checks and reboots
  Paths,       \* the settings with a reviewed write contract
  Sections,    \* what one packet reads or writes
  SectionOf,   \* the section of every path
  Values, None,
  Scenarios,   \* what a behaviour may meet: gateways, drafts of clients, faults
  MaxEdits,    \* bound: changes of the node by somebody else
  MaxDrops,    \* bound: losses of a connection
  MaxUnloads   \* bound: attempts to unload the entry

Nodes  == [Paths -> Values]
NoNode == CHOOSE n \in Nodes : TRUE
Drafts == [Paths -> Values \cup {None}]
\* A plan: the gateway and the revision it is bound to, and its changes.
Plans  == [gw : Gateways, rev : Nodes, want : Drafts]

ASSUME RemoteAssumption ==
  /\ Gateways # {} /\ Values # {} /\ None \notin Ops \cup Values \cup Nodes
  /\ SectionOf \in [Paths -> Sections]
  /\ \A s \in Scenarios : /\ s.gateways \subseteq Gateways
                          /\ s.start \subseteq Nodes /\ s.drafts \subseteq Drafts
                          /\ s.faults \subseteq {"edit", "drop", "unload", "check"}
  /\ MaxEdits \in Nat /\ MaxDrops \in Nat /\ MaxUnloads \in Nat

VARIABLES
  scenario,   \* one of Scenarios; it never changes
  node,       \* what the target holds
  connected,  \* status.connected of every gateway
  hit,        \* operations whose connection was lost under them
  snapshots,  \* _snapshots: the state the last read of a gateway has shown
  previews,   \* _previews: the operations whose preview is alive
  plan,       \* the plan of every preview
  lock,       \* _locks: the operation that holds the lock of a gateway
  pc, kind, gw, of,  \* where every operation is, and what was asked of it
  read,       \* what an operation has read of the node so far
  seen,       \* the sections it has read
  todo,       \* the sections an apply still has to write
  outcome,    \* what an operation has answered
  accepting,  \* _accepting of the manager
  cancelled,  \* operations the fence has cancelled
  life,       \* where the config entry is
  \* history
  sent,       \* packets sent for every preview and section
  touched,    \* settings others changed since an operation took the lock
  landed,     \* applies that have changed the node
  edits, drops, unloads

radio   == <<node, touched, edits>>
link    == <<connected, hit, drops>>
manager == <<snapshots, previews, plan>>
request == <<kind, gw, of>>
task    == <<lock, pc, outcome, read, seen, todo>>
writes  == <<sent, landed>>
entry   == <<accepting, cancelled, life, unloads>>
vars == <<scenario, radio, link, manager, request, task, writes, entry>>

Meets(fault) == fault \in scenario.faults

\* Where an operation awaits with the lock of its gateway in its hands.
Loads   == {"loading", "readback"}
Writes  == {"begin", "writing", "commit"}
Holding == Loads \cup Writes \cup {"reserving", "checking", "session", "rebooting"}
Kinds   == {"none", "get", "preview", "apply", "check", "reboot"}
\* The public errors are told apart as far as they say what became of a write.
Outcomes == {"none", "ready", "result", "verified", "error", "refused", "unknown"}

Active == {o \in Ops : pc[o] \in Holding \cup {"waiting"}}
Free(o) == o \notin cancelled
\* An answer can still reach the operation.
Linked(o) == connected[gw[o]] /\ o \notin hit

-----------------------------------------------------------------------------
(* Helpers *)

Drafted(p) == {x \in Paths : plan[p].want[x] # None}

\* The node as the plan wants it: its changes on top of the revision it was
\* made for, which is what the client has read when it plans.
Planned(p) ==
  [x \in Paths |-> IF plan[p].want[x] = None THEN plan[p].rev[x] ELSE plan[p].want[x]]

\* build_plan: the sections the changes fall into.
Touches(p) == {SectionOf[x] : x \in Drafted(p)}

\* Sections are read and written in a fixed order.
NextOf(sections) == CHOOSE s \in sections : TRUE

\* Mutated form: a new snapshot leaves the drafts of the old one alone.
InvalidatedNever(g) == previews

\* The previews without those of gateway g.
Invalidated(g) == {p \in previews : plan[p].gw # g}

\* The operation answers, gives its lock back and forgets what it has read.
Leave(o, answer) ==
  /\ pc' = [pc EXCEPT ![o] = "done"]
  /\ outcome' = [outcome EXCEPT ![o] = answer]
  /\ lock' = [g \in Gateways |-> IF lock[g] = o THEN None ELSE lock[g]]
  /\ read' = [read EXCEPT ![o] = NoNode] /\ seen' = [seen EXCEPT ![o] = {}]
  /\ todo' = [todo EXCEPT ![o] = {}]

Go(o, place) ==
  /\ pc' = [pc EXCEPT ![o] = place]
  /\ UNCHANGED <<lock, outcome, read, seen, todo>>

\* Others have changed `moved` while the operations in progress have their lock.
Touch(o, moved) ==
  touched' = [q \in Ops |-> IF q # o /\ pc[q] \in Holding THEN touched[q] \cup moved
                            ELSE touched[q]]

-----------------------------------------------------------------------------
(* Requests: the gateway must be connected and the manager must accept *)

Ask(o, g, what) ==
  /\ g \in scenario.gateways /\ connected[g] /\ accepting /\ pc[o] = "new"
  /\ Go(o, "waiting")
  /\ kind' = [kind EXCEPT ![o] = what] /\ gw' = [gw EXCEPT ![o] = g]
  /\ UNCHANGED <<scenario, radio, link, snapshots, previews, writes, entry>>

RequestGet(o, g)    == Ask(o, g, "get") /\ UNCHANGED <<of, plan>>
RequestCheck(o, g)  == Meets("check") /\ Ask(o, g, "check") /\ UNCHANGED <<of, plan>>
RequestReboot(o, g) == Meets("check") /\ Ask(o, g, "reboot") /\ UNCHANGED <<of, plan>>

\* A draft for the revision that was loaded through this gateway; it may be
\* replaced while the preview waits.
RequestPreview(o, g) ==
  /\ snapshots[g] # None /\ Ask(o, g, "preview")
  /\ \E want \in scenario.drafts :
       plan' = [plan EXCEPT ![o] = [gw |-> g, rev |-> snapshots[g], want |-> want]]
  /\ UNCHANGED of

\* An apply of a preview that was answered, of this gateway or another.
RequestApply(o, g) ==
  /\ Ask(o, g, "apply")
  /\ \E p \in Ops : outcome[p] = "ready" /\ of' = [of EXCEPT ![o] = p]
  /\ UNCHANGED plan

\* The timer of a preview ends its life.
Expire(p) ==
  /\ p \in previews /\ previews' = previews \ {p}
  /\ UNCHANGED <<scenario, radio, link, snapshots, plan, request, task, writes, entry>>

-----------------------------------------------------------------------------
(* Taking the lock of the gateway and the target *)

Turn(o, what) == pc[o] = "waiting" /\ kind[o] = what /\ Free(o) /\ lock[gw[o]] = None

\* The operation takes the lock and awaits at `place`.
Take(o, place) ==
  /\ lock' = [lock EXCEPT ![gw[o]] = o]
  /\ pc' = [pc EXCEPT ![o] = place]
  /\ touched' = [touched EXCEPT ![o] = {}]
  /\ UNCHANGED <<node, edits, outcome, read, seen, todo>>

StartGet(o) ==
  /\ Turn(o, "get") /\ Take(o, "loading")
  /\ UNCHANGED <<scenario, link, manager, request, writes, entry>>

StartCheck(o) ==
  /\ Turn(o, "check") /\ Take(o, "reserving")
  /\ UNCHANGED <<scenario, link, manager, request, writes, entry>>

\* A reboot forgets what was loaded and drafted; without a live session it asks
\* for one first.
StartReboot(o) ==
  /\ Turn(o, "reboot")
  /\ \E place \in {"session", "rebooting"} : Take(o, place)
  /\ snapshots' = [snapshots EXCEPT ![gw[o]] = None]
  /\ previews' = Invalidated(gw[o])
  /\ UNCHANGED <<scenario, link, plan, request, writes, entry>>

\* A preview needs the revision of the cached snapshot, keeps the paths that
\* change something, and replaces the earlier preview.
MakePreview(o) ==
  LET shown   == snapshots[gw[o]]
      changed == [x \in Paths |-> IF plan[o].want[x] = plan[o].rev[x] THEN None
                                  ELSE plan[o].want[x]]
      usable  == shown = plan[o].rev /\ \E x \in Paths : changed[x] # None
  IN /\ Turn(o, "preview")
     /\ \/ /\ usable /\ Leave(o, "ready")
           /\ plan' = [plan EXCEPT ![o].want = changed]
           /\ previews' = Invalidated(gw[o]) \cup {o}
        \/ /\ ~usable /\ Leave(o, "error") /\ UNCHANGED <<previews, plan>>
     /\ UNCHANGED <<scenario, radio, link, snapshots, request, writes, entry>>

\* Mutated form: a preview lives until its result.
ConsumedLate(p) == previews

\* A preview ends its life before the first packet of its apply.
Consumed(p) == previews \ {p}

\* _async_apply: the preview it names is destroyed, whether it fits or not
\* (in time, of this gateway, with its revision), before anything is sent.
StartApply(o) ==
  LET p == of[o] IN
  /\ Turn(o, "apply")
  /\ previews' = Consumed(p)
  /\ IF p \in previews /\ plan[p].gw = gw[o]
     THEN Take(o, "loading")
     ELSE Leave(o, "error") /\ UNCHANGED radio
  /\ UNCHANGED <<scenario, link, snapshots, plan, request, writes, entry>>

-----------------------------------------------------------------------------
(* Reading the node *)

\* One request and its answer: a section of the node as it is now.
ReadSection(o) ==
  LET s == NextOf(Sections \ seen[o]) IN
  /\ pc[o] \in Loads /\ seen[o] # Sections /\ Free(o) /\ Linked(o)
  /\ read' = [read EXCEPT ![o] = [x \in Paths |-> IF SectionOf[x] = s THEN node[x]
                                                  ELSE read[o][x]]]
  /\ seen' = [seen EXCEPT ![o] = @ \cup {s}]
  /\ UNCHANGED <<scenario, radio, link, manager, request, lock, pc, outcome, todo, writes,
                 entry>>

Loaded(o, place) == pc[o] = place /\ seen[o] = Sections /\ Free(o) /\ Linked(o)

FinishGet(o) ==
  /\ kind[o] = "get" /\ Loaded(o, "loading") /\ Leave(o, "result")
  /\ snapshots' = [snapshots EXCEPT ![gw[o]] = read[o]]
  /\ previews' = Invalidated(gw[o])
  /\ UNCHANGED <<scenario, radio, link, plan, request, writes, entry>>

\* Mutated form: the fresh read is not compared.
StillShownAlways(o) == TRUE

\* The node is still what the preview showed.
StillShown(o) == read[o] = plan[of[o]].rev

\* The node must still be what the preview showed; if not, its state is the
\* new snapshot.  The client plans on the sections it has just read.
CompareRevision(o) ==
  /\ kind[o] = "apply" /\ Loaded(o, "loading")
  /\ \/ /\ StillShown(o)
        /\ pc' = [pc EXCEPT ![o] = "begin"]
        /\ todo' = [todo EXCEPT ![o] = Touches(of[o])]
        /\ read' = [read EXCEPT ![o] = NoNode] /\ seen' = [seen EXCEPT ![o] = {}]
        /\ UNCHANGED <<lock, outcome, snapshots>>
     \/ /\ ~StillShown(o)
        /\ Leave(o, "error")
        /\ snapshots' = [snapshots EXCEPT ![gw[o]] = read[o]]
  /\ UNCHANGED <<scenario, radio, link, previews, plan, request, writes, entry>>

\* No route, no answer, a lost connection, or the deadline.  After a write
\* that is an unknown outcome.
ReadFails(o) ==
  /\ pc[o] \in Loads /\ Free(o)
  /\ Leave(o, IF pc[o] = "readback" THEN "unknown" ELSE "error")
  /\ UNCHANGED <<scenario, radio, link, manager, request, writes, entry>>

-----------------------------------------------------------------------------
(* Writing the node: begin_edit, whole sections, commit_edit *)

\* A packet of an apply is acknowledged and the next one follows, the mesh
\* answers with a routing error that has a public code ("refused"), or with none
\* that has one, or not at all.
Packet(o, at, next) ==
  /\ pc[o] = at /\ Free(o) /\ Linked(o)
  /\ Go(o, next) \/ \E answer \in {"refused", "unknown"} : Leave(o, answer)
  /\ UNCHANGED <<scenario, radio, link, manager, request, writes, entry>>

SendBegin(o)  == Packet(o, "begin", "writing")
SendCommit(o) == Packet(o, "commit", "readback")

\* A section packet: it overwrites every setting of the section.
SendSection(o) ==
  LET p == of[o]
      s == NextOf(todo[o])
      written == [x \in Paths |-> IF SectionOf[x] = s THEN Planned(p)[x] ELSE node[x]]
  IN /\ pc[o] = "writing" /\ Free(o) /\ Linked(o)
     /\ sent' = [sent EXCEPT ![p][s] = IF @ < 2 THEN @ + 1 ELSE @]
     /\ \E lands \in BOOLEAN :
          /\ node' = IF lands THEN written ELSE node
          /\ landed' = IF node' # node THEN landed \cup {o} ELSE landed
          /\ Touch(o, {x \in Paths : node'[x] # node[x]})
          /\ \/ /\ pc' = [pc EXCEPT ![o] = IF todo[o] = {s} THEN "commit" ELSE "writing"]
                /\ todo' = [todo EXCEPT ![o] = @ \ {s}]
                /\ UNCHANGED <<lock, outcome, read, seen>>
             \/ \E answer \in {"refused", "unknown"} : Leave(o, answer)
     /\ UNCHANGED <<scenario, edits, link, manager, request, entry>>

\* The deadline passes, or the connection changes, before the next packet; or
\* the plan is blocked, or has no session, before the first.
WriteCut(o) ==
  /\ pc[o] \in Writes /\ Free(o)
  /\ \/ Leave(o, "unknown")
     \/ pc[o] = "begin" /\ Leave(o, "error")
  /\ UNCHANGED <<scenario, radio, link, manager, request, writes, entry>>

\* verify_plan: a change counts as verified when the whole section reads as it
\* was written.  A result, verified or not, takes the snapshot away.
FinishApply(o) ==
  /\ kind[o] = "apply" /\ Loaded(o, "readback")
  /\ Leave(o, IF \A x \in Paths : SectionOf[x] \in Touches(of[o])
                                    => read[o][x] = Planned(of[o])[x]
              THEN "verified" ELSE "result")
  /\ snapshots' = [snapshots EXCEPT ![gw[o]] = None]
  /\ UNCHANGED <<scenario, radio, link, previews, plan, request, writes, entry>>

-----------------------------------------------------------------------------
(* Checks and reboots *)

\* The slot of the shared airtime is granted or not (MetadataAirtime).
ReserveProbe(o) ==
  /\ pc[o] = "reserving" /\ Free(o)
  /\ Go(o, "checking") \/ Leave(o, "error")
  /\ UNCHANGED <<scenario, radio, link, manager, request, writes, entry>>

FinishCheck(o) ==
  /\ pc[o] = "checking" /\ Free(o)
  /\ (Linked(o) /\ Leave(o, "result")) \/ Leave(o, "error")
  /\ UNCHANGED <<scenario, radio, link, manager, request, writes, entry>>

\* A session is asked for, and then the one reboot packet is sent.
RebootStep(o) ==
  /\ pc[o] \in {"session", "rebooting"} /\ Free(o)
  /\ \/ pc[o] = "session" /\ Linked(o) /\ Go(o, "rebooting")
     \/ pc[o] = "session" /\ Leave(o, "error")
     \/ pc[o] = "rebooting" /\ Linked(o) /\ \E a \in {"result", "refused"} : Leave(o, a)
     \/ pc[o] = "rebooting" /\ Leave(o, "unknown")
  /\ UNCHANGED <<scenario, radio, link, manager, request, writes, entry>>

-----------------------------------------------------------------------------
(* The node and the connections *)

\* Somebody else, or MeshNet of another house, changes a setting.
EditNode ==
  /\ Meets("edit") /\ edits < MaxEdits /\ edits' = edits + 1
  /\ \E x \in Paths, v \in Values :
       /\ v # node[x] /\ node' = [node EXCEPT ![x] = v]
       /\ Touch(None, {x})
  /\ UNCHANGED <<scenario, link, manager, request, task, writes, entry>>

\* _fail_pending_admin_responses: whoever awaits an answer loses it.
Disconnect(g) ==
  /\ Meets("drop") /\ connected[g] /\ drops < MaxDrops /\ drops' = drops + 1
  /\ connected' = [connected EXCEPT ![g] = FALSE]
  /\ hit' = hit \cup {o \in Ops : pc[o] \in Holding /\ gw[o] = g}
  /\ UNCHANGED <<scenario, radio, manager, request, task, writes, entry>>

Reconnect(g) ==
  /\ ~connected[g] /\ life # "closed"
  /\ connected' = [connected EXCEPT ![g] = TRUE]
  /\ UNCHANGED <<scenario, radio, hit, drops, manager, request, task, writes, entry>>

-----------------------------------------------------------------------------
(* Unloading the config entry *)

\* async_quiesce: fence, forget every snapshot and preview, cancel.
Quiesce ==
  /\ Meets("unload") /\ life = "loaded" /\ unloads < MaxUnloads
  /\ unloads' = unloads + 1 /\ life' = "draining"
  /\ accepting' = FALSE
  /\ snapshots' = [g \in Gateways |-> None] /\ previews' = {}
  /\ cancelled' = cancelled \cup Active
  /\ UNCHANGED <<scenario, radio, link, plan, request, task, writes>>

\* A cancelled operation ends wherever it awaits.
Interrupt(o) ==
  /\ o \in cancelled /\ pc[o] # "done" /\ Leave(o, "error")
  /\ UNCHANGED <<scenario, radio, link, manager, request, writes, entry>>

\* The wait of the fence is over: everything has ended in time, with the other
\* radio work, or the unload is given up and the fence stays as it is.
FenceDecided ==
  /\ life = "draining"
  /\ \/ Active = {} /\ life' = "fenced"
     \/ life' = "deferred"
  /\ UNCHANGED <<scenario, radio, link, manager, request, task, writes,
                 accepting, cancelled, unloads>>

\* The settings did not drain, or the platforms did not unload: resume, which
\* accepts again unless an old operation is still under way.
Resume ==
  /\ life = "fenced" /\ life' = "loaded" /\ accepting' = (Active = {})
  /\ UNCHANGED <<scenario, radio, link, manager, request, task, writes,
                 cancelled, unloads>>

\* async_shutdown: the fence once more, and the transports stop.
CloseEntry ==
  /\ life = "fenced" /\ life' = "closed"
  /\ accepting' = FALSE
  /\ snapshots' = [g \in Gateways |-> None] /\ previews' = {}
  /\ cancelled' = cancelled \cup Active
  /\ connected' = [g \in Gateways |-> FALSE]
  /\ UNCHANGED <<scenario, radio, hit, drops, plan, request, task, writes, unloads>>

-----------------------------------------------------------------------------
(* Specification *)

AnyPlan == [gw |-> CHOOSE g \in Gateways : TRUE, rev |-> NoNode,
            want |-> [x \in Paths |-> None]]

Init ==
  /\ scenario \in Scenarios /\ node \in scenario.start
  /\ connected = [g \in Gateways |-> TRUE] /\ hit = {}
  /\ snapshots = [g \in Gateways |-> None] /\ previews = {}
  /\ plan = [o \in Ops |-> AnyPlan] /\ lock = [g \in Gateways |-> None]
  /\ pc = [o \in Ops |-> "new"] /\ kind = [o \in Ops |-> "none"]
  /\ gw = [o \in Ops |-> AnyPlan.gw] /\ of = [o \in Ops |-> o]
  /\ read = [o \in Ops |-> NoNode] /\ seen = [o \in Ops |-> {}]
  /\ todo = [o \in Ops |-> {}] /\ outcome = [o \in Ops |-> "none"]
  /\ accepting = TRUE /\ cancelled = {} /\ life = "loaded"
  /\ sent = [p \in Ops |-> [s \in Sections |-> 0]]
  /\ touched = [o \in Ops |-> {}] /\ landed = {}
  /\ edits = 0 /\ drops = 0 /\ unloads = 0

Request(o) ==
  \E g \in Gateways : \/ RequestGet(o, g) \/ RequestPreview(o, g) \/ RequestApply(o, g)
                     \/ RequestCheck(o, g) \/ RequestReboot(o, g)

Start(o) == \/ StartGet(o) \/ StartCheck(o) \/ StartReboot(o) \/ MakePreview(o)
            \/ StartApply(o)

OpStep(o) == \/ ReadSection(o) \/ ReadFails(o) \/ FinishGet(o) \/ CompareRevision(o)
             \/ SendBegin(o) \/ SendSection(o) \/ SendCommit(o) \/ WriteCut(o)
             \/ FinishApply(o) \/ ReserveProbe(o) \/ FinishCheck(o) \/ RebootStep(o)
             \/ Interrupt(o)

Next ==
  \/ \E o \in Ops : Request(o) \/ Start(o) \/ OpStep(o) \/ Expire(o)
  \/ \E g \in Gateways : Disconnect(g) \/ Reconnect(g)
  \/ EditNode \/ Quiesce \/ FenceDecided \/ Resume \/ CloseEntry

Spec == Init /\ [][Next]_vars

-----------------------------------------------------------------------------
(* Properties *)

\* Type invariant; the lock of a gateway is held exactly by the operation that
\* awaits with it.
TypeOK ==
  /\ scenario \in Scenarios /\ node \in Nodes
  /\ connected \in [Gateways -> BOOLEAN] /\ hit \subseteq Ops
  /\ snapshots \in [Gateways -> Nodes \cup {None}] /\ previews \subseteq Ops
  /\ plan \in [Ops -> Plans] /\ lock \in [Gateways -> Ops \cup {None}]
  /\ pc \in [Ops -> Holding \cup {"new", "waiting", "done"}]
  /\ kind \in [Ops -> Kinds] /\ gw \in [Ops -> Gateways] /\ of \in [Ops -> Ops]
  /\ read \in [Ops -> Nodes] /\ seen \in [Ops -> SUBSET Sections]
  /\ todo \in [Ops -> SUBSET Sections] /\ outcome \in [Ops -> Outcomes]
  /\ accepting \in BOOLEAN /\ cancelled \subseteq Ops
  /\ life \in {"loaded", "draining", "deferred", "fenced", "closed"}
  /\ sent \in [Ops -> [Sections -> 0..2]] /\ touched \in [Ops -> SUBSET Paths]
  /\ landed \subseteq Ops
  /\ edits \in Nat /\ drops \in Nat /\ unloads \in Nat
  /\ \A o \in Ops, g \in Gateways : lock[g] = o <=> pc[o] \in Holding /\ gw[o] = g

\* A preview that can still be applied is one for what its gateway shows now,
\* and there is one at most: whatever is read, rebooted, applied, found changed
\* or fenced in between takes the draft away with the revision it was made for.
DraftsAreCurrent ==
  /\ \A p \in previews : snapshots[plan[p].gw] = plan[p].rev
  /\ \A p, q \in previews : plan[p].gw = plan[q].gw => p = q

\* docs/API.md: "A failed/timeout write cannot be blindly replayed with the same
\* token": whatever times out, is interrupted or is applied by two clients at
\* once, no section of a preview is put on the air twice.
SentOnce == \A p \in Ops, s \in Sections : sent[p][s] <= 1

\* A packet overwrites a whole section.  Unless others change the node while the
\* apply has its lock, the node is never left with anything but what was shown
\* and the changes of the draft (no companion of a drafted setting is rolled
\* back), and is called verified only when it holds all of them.
OnlyTheDraft ==
  [][\A o \in Ops :
       /\ pc[o] = "writing" /\ sent'[of[o]] # sent[of[o]] /\ touched[o] = {}
            => \A x \in Paths : node'[x] \in {plan[of[o]].rev[x], Planned(of[o])[x]}
       /\ outcome[o] # "verified" /\ outcome'[o] = "verified" /\ touched[o] = {}
            => node = Planned(of[o])]_vars

\* Behind the fence of an unload nothing is kept, work that began before it does
\* nothing but end, and when the unload goes on no work is left.
FenceHolds ==
  [][~accepting =>
       /\ previews = {} /\ \A g \in Gateways : snapshots[g] = None
       /\ \A o \in Ops : pc'[o] \in {pc[o], "done"}
       /\ life \in {"fenced", "closed"} => Active = {}]_vars

-----------------------------------------------------------------------------
(* What the documents of the repository say, which the code does not do *)

\* docs/ADVANCED_MESH_OPERATIONS.md:165: "One target may have only one admin
\* operation in flight".
OneOperationPerTarget ==
  \A o, q \in Ops : pc[o] \in Holding /\ pc[q] \in Holding => o = q

\* docs/ADVANCED_MESH_OPERATIONS.md:230: a write that "may have left Home
\* Assistant but was not verified" is an unknown outcome, never a refusal.
RefusedIsUnwritten == \A o \in Ops : outcome[o] = "refused" => o \notin landed

=============================================================================
