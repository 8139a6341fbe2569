-------------------------- MODULE GatewaySettings --------------------------
(***************************************************************************)
(* Local settings of one MeshCore gateway: the GatewaySettingsManager       *)
(* (single-use previews behind a lock, one deadline per operation, the      *)
(* fence of a reload), the adapter that writes a plan field by field and    *)
(* reads every field back, and the hand-off of a verified Bluetooth PIN to  *)
(* the config entry, whose update listener must not reload the entry under  *)
(* the very operation that changed it.                                      *)
(*                                                                          *)
(* Two fields stand for the plan: "name", an ordinary field, and "pin", the *)
(* connection credential, which is written last.  The revision of a         *)
(* snapshot is the state of the radio it shows.  A command that is sent may *)
(* take effect or not, whatever its answer says; a rejected one does not.   *)
(* An operation may be interrupted wherever it awaits: by its deadline, or  *)
(* because a reload cancels it.                                             *)
(***************************************************************************)
EXTENDS Naturals, FiniteSets

CONSTANTS
  Ops,         \* handler tasks: reads, previews and applies
  None,
  Scenarios,   \* what a behaviour may meet: the operations, the gateway, the faults
  MaxEdits,    \* bound: changes of the radio by somebody else
  MaxDrops,    \* bound: losses of the connection
  MaxUpdates   \* bound: changes of the config entry by the user

ASSUME SettingsAssumption ==
  /\ None \notin Ops /\ IsFiniteSet(Ops)
  /\ \A s \in Scenarios :
       /\ s.ops \subseteq Ops /\ s.handsOver \in BOOLEAN
       /\ s.faults \subseteq {"edit", "drop", "update", "stubborn", "get"}
  /\ MaxEdits \in Nat /\ MaxDrops \in Nat /\ MaxUpdates \in Nat

Paths  == {"name", "pin"}
Values == {0, 1}
Radios == [Paths -> Values]
\* The options of the config entry: the saved PIN, and everything else.
Options == [pin : Values, other : Values]
\* A plan: the revision it was made for, and the fields it changes.
Plans  == [rev : Radios, want : [Paths -> Values \cup {None}]]

\* The options that the next listener is expected to find, and who waits for it.
Markers == [options : Options, by : Ops]

ASSUME MarkerAssumption == None \notin Markers

Outcomes == {"none", "ready", "expired", "unconfirmed", "conflict", "unavailable",
             "interrupted", "reported"}

VARIABLES
  scenario,   \* one of Scenarios; it never changes
  radio,      \* what the radio holds
  connected,  \* status.connected of the adapter
  epoch,      \* _lifecycle_epoch: one for each connection
  fence,      \* "open" while _accepting; a reload is "draining", or "stuck"
  previews,   \* _previews: the operations whose preview is alive
  plan,       \* the plan of every preview
  lock,       \* the operation that holds the lock of the gateway
  op,         \* where every operation is, and what it answers
  cancelled,  \* operations a reload has cancelled
  entry,      \* the options of the config entry
  running,    \* the configuration the adapters run with
  armed,      \* _connection_update_reload_options and its waiter
  listeners,  \* scheduled update listeners
  reloads,    \* reloads they asked for
  \* history
  sent,       \* commands sent for every preview and field
  touched,    \* fields others changed since an operation took the lock
  torn,       \* an acknowledgement arrived and was not acted on
  pinTouched, \* the PIN of the radio or of the entry was changed by somebody else
  edits, drops, updates

link    == <<connected, epoch, drops>>
config  == <<entry, running, armed, listeners, reloads, torn>>
manager == <<fence, previews, cancelled>>
bounds  == <<edits, updates, pinTouched>>
vars == <<scenario, radio, link, manager, plan, lock, op, config, sent, touched, bounds>>

\* The gateway keeps its PIN: it uses Bluetooth, or a PIN is configured.
HandsOver == scenario.handsOver
Meets(fault) == fault \in scenario.faults

Idle   == [pc |-> "new", kind |-> "none", of |-> None, epoch |-> 0, at |-> "name",
           ack |-> "none", written |-> {}, verified |-> {}, answer |-> "none",
           outcome |-> "none", recovery |-> FALSE]
\* Where an operation awaits.
Awaits == {"waiting", "reading", "validating", "acking", "verifying", "after", "ack"}
Active == {o \in Ops : op[o].pc \in Awaits}
Free(o) == o \notin cancelled

-----------------------------------------------------------------------------
(* Helpers *)

\* The lock of the gateway goes back with whatever ends the operation.
Release(o, outcome) == IF lock = o THEN None ELSE lock

\* The operation ends and gives the lock back.
Leave(o, outcome, recovery) ==
  /\ op' = [op EXCEPT ![o].pc = "done", ![o].outcome = outcome, ![o].recovery = recovery,
                      ![o].epoch = 0, ![o].at = "name", ![o].ack = "none"]
  /\ lock' = Release(o, outcome)

\* _ensure_current: the connection is still the one the adapter captured.
Current(o) == connected /\ epoch = op[o].epoch

\* The fields an apply still has to write; the credential is last.
Pending(o)  == {x \in Paths : plan[op[o].of].want[x] # None} \ op[o].written
NextPath(o) == IF "name" \in Pending(o) THEN "name" ELSE "pin"

\* One command: it may take effect, and may be answered, time out or be
\* rejected.
Transmit(o, x, verified) ==
  \E ack \in {"ok", "timeout", "rejected"}, lands \in BOOLEAN :
    /\ ack = "rejected" => ~lands
    /\ LET p == op[o].of IN
       /\ radio' = IF lands THEN [radio EXCEPT ![x] = plan[p].want[x]] ELSE radio
       /\ sent'  = [sent EXCEPT ![p][x] = IF @ < 2 THEN @ + 1 ELSE @]
    /\ touched' = [q \in Ops |-> IF lands /\ q # o THEN touched[q] \cup {x} ELSE touched[q]]
    /\ op' = [op EXCEPT ![o].pc = "acking", ![o].at = x, ![o].ack = ack,
                        ![o].written = @ \cup {x}, ![o].verified = verified]

-----------------------------------------------------------------------------
(* Requests *)

RequestGet(o) ==
  /\ Meets("get") /\ o \in scenario.ops /\ op[o].pc = "new" /\ fence = "open"
  /\ op' = [op EXCEPT ![o].pc = "waiting", ![o].kind = "get"]
  /\ UNCHANGED <<scenario, radio, link, manager, plan, lock, config, sent, touched, bounds>>

\* A draft made on what the radio shows now; a plain field is only kept when it
\* changes, a secret one always.
RequestPreview(o) ==
  /\ o \in scenario.ops /\ op[o].pc = "new" /\ fence = "open"
  /\ \E want \in [Paths -> Values \cup {None}] :
       /\ want # [x \in Paths |-> None] /\ want["name"] # radio["name"]
       /\ plan' = [plan EXCEPT ![o] = [rev |-> radio, want |-> want]]
  /\ op' = [op EXCEPT ![o].pc = "waiting", ![o].kind = "preview"]
  /\ UNCHANGED <<scenario, radio, link, manager, lock, config, sent, touched, bounds>>

\* Mutated form: the preview is only looked up.
ConsumeNever(p) == previews' = previews

\* An apply takes its preview out of the manager, whatever comes of it.
Consume(p) == previews' = previews \ {p}

\* async_apply up to its lock: of preview p, with its revision or another one,
\* with the confirmation that a critical plan needs or without.
RequestApply(o) ==
  /\ o \in scenario.ops /\ op[o].pc = "new" /\ fence = "open"
  /\ \E p \in {q \in Ops : op[q].outcome = "ready"}, matches \in BOOLEAN,
       confirmed \in BOOLEAN :
       /\ Consume(p)
       /\ op' = [op EXCEPT ![o].kind = "apply", ![o].of = p,
            ![o].pc = IF p \in previews /\ matches
                         /\ (plan[p].want["pin"] # None => confirmed)
                      THEN "waiting" ELSE "done",
            ![o].outcome = IF p \notin previews \/ ~matches THEN "expired"
                           ELSE IF plan[p].want["pin"] # None /\ ~confirmed
                           THEN "unconfirmed" ELSE "none"]
  /\ UNCHANGED <<scenario, radio, link, fence, cancelled, plan, lock, config, sent,
                 touched, bounds>>

\* The timer of a preview ends its life.
Expire(p) ==
  /\ p \in previews
  /\ previews' = previews \ {p}
  /\ UNCHANGED <<scenario, radio, link, fence, cancelled, plan, lock, op, config, sent,
                 touched, bounds>>

-----------------------------------------------------------------------------
(* Operations behind the lock of the gateway *)

TakeLock(o) ==
  /\ op[o].pc = "waiting" /\ Free(o) /\ lock = None
  /\ lock' = o
  /\ op' = [op EXCEPT ![o].pc = "reading"]
  /\ touched' = [touched EXCEPT ![o] = {}]
  /\ UNCHANGED <<scenario, radio, link, manager, plan, config, sent, bounds>>

\* The live read fails or times out.
ReadFails(o) ==
  /\ op[o].pc = "reading" /\ Free(o)
  /\ Leave(o, "unavailable", FALSE)
  /\ UNCHANGED <<scenario, radio, link, manager, plan, config, sent, touched, bounds>>

GetRead(o) ==
  /\ op[o].pc = "reading" /\ op[o].kind = "get" /\ Free(o) /\ connected
  /\ Leave(o, "reported", FALSE)
  /\ UNCHANGED <<scenario, radio, link, manager, plan, config, sent, touched, bounds>>

\* A preview replaces the earlier one of the gateway, unless the radio moved on.
PreviewRead(o) ==
  /\ op[o].pc = "reading" /\ op[o].kind = "preview" /\ Free(o) /\ connected
  /\ \/ /\ plan[o].rev # radio
        /\ Leave(o, "conflict", FALSE)
        /\ UNCHANGED previews
     \/ /\ plan[o].rev = radio
        /\ Leave(o, "ready", FALSE)
        /\ previews' = {o}
  /\ UNCHANGED <<scenario, radio, link, fence, cancelled, plan, config, sent, touched,
                 bounds>>

\* Mutated form: the plan is applied to whatever the radio holds.
ApplyReadBlindly(o) ==
  /\ op[o].pc = "reading" /\ op[o].kind = "apply" /\ Free(o) /\ connected
  /\ op' = [op EXCEPT ![o].pc = "validating", ![o].epoch = epoch] /\ UNCHANGED lock
  /\ UNCHANGED <<scenario, radio, link, manager, plan, config, sent, touched, bounds>>

\* The stale-state read of an apply; then the adapter captures its connection
\* and reads the radio once more.
ApplyRead(o) ==
  /\ op[o].pc = "reading" /\ op[o].kind = "apply" /\ Free(o) /\ connected
  /\ \/ /\ plan[op[o].of].rev # radio
        /\ Leave(o, "conflict", FALSE)
     \/ /\ plan[op[o].of].rev = radio
        /\ op' = [op EXCEPT ![o].pc = "validating", ![o].epoch = epoch]
        /\ UNCHANGED lock
  /\ UNCHANGED <<scenario, radio, link, manager, plan, config, sent, touched, bounds>>

\* The adapter has validated the plan and sends its first field.
SendFirst(o) ==
  /\ op[o].pc = "validating" /\ Free(o)
  /\ \/ /\ Leave(o, "unavailable", FALSE)
        /\ UNCHANGED <<radio, sent, touched>>
     \/ /\ Current(o)
        /\ Transmit(o, NextPath(o), {})
        /\ UNCHANGED lock
  /\ UNCHANGED <<scenario, link, manager, plan, config, bounds>>

\* A command was answered.  A connection that changed and a rejection end the
\* plan; an answer that did not come leaves its outcome to the readback.
Answer(o) ==
  /\ op[o].pc = "acking" /\ Free(o)
  /\ \/ /\ ~Current(o) \/ op[o].ack = "rejected"
        /\ Leave(o, "unavailable", FALSE)
     \/ /\ Current(o) /\ op[o].ack # "rejected"
        /\ op' = [op EXCEPT ![o].pc = "verifying"]
        /\ UNCHANGED lock
  /\ UNCHANGED <<scenario, radio, link, manager, plan, config, sent, touched, bounds>>

\* Mutated form: the answer of the radio counts as its verification.
ConfirmedByAnswer(o) == op[o].ack = "ok" \/ radio[op[o].at] = plan[op[o].of].want[op[o].at]

\* The readback shows the value that was written.
Confirmed(o) == radio[op[o].at] = plan[op[o].of].want[op[o].at]

\* A field that was acknowledged and could not be verified stops the plan.
Stops(o) == ~Confirmed(o)

\* The readback of a field: either it fails, or it confirms the value or not.
Verify(o) ==
  /\ op[o].pc = "verifying" /\ Free(o)
  /\ \E readable \in BOOLEAN :
       LET x == op[o].at
           proved == IF readable /\ Confirmed(o) THEN op[o].verified \cup {x}
                     ELSE op[o].verified
           goesOn == ~(~readable \/ Stops(o)) /\ Pending(o) # {}
           unknown == op[o].ack = "timeout" /\ ~(readable /\ Confirmed(o)) IN
       \/ /\ ~Current(o) \/ unknown
          /\ Leave(o, "unavailable", FALSE)
          /\ UNCHANGED <<radio, sent, touched>>
       \/ /\ Current(o) /\ ~unknown /\ goesOn
          /\ Transmit(o, NextPath(o), proved)
          /\ UNCHANGED lock
       \/ /\ Current(o) /\ ~unknown /\ ~goesOn
          /\ op' = [op EXCEPT ![o].pc = "after", ![o].verified = proved]
          /\ UNCHANGED <<radio, sent, touched, lock>>
  /\ UNCHANGED <<scenario, link, manager, plan, config, bounds>>

-----------------------------------------------------------------------------
(* The answer, and the hand-off of a verified PIN *)

WantsPin(o)    == plan[op[o].of].want["pin"] # None
HandsPinOver(o) == WantsPin(o) /\ "pin" \in op[o].verified /\ HandsOver

\* Mutated form: a PIN that was not verified needs no recovery.
NeedsRecoveryNever(o) == FALSE

\* connection_recovery_required without a hand-off.
NeedsRecovery(o) == WantsPin(o) /\ ~HandsPinOver(o)

\* The next listener is expected to find exactly these options.
Arm(o, options) == armed' = [options |-> options, by |-> o]

\* The read that follows the plan (its failure is tolerated).  A verified PIN
\* is committed to the entry, behind the suppression of the one listener it
\* schedules; an entry that does not change schedules none.
AfterRead(o) ==
  /\ op[o].pc = "after" /\ Free(o)
  /\ LET saved == [entry EXCEPT !.pin = plan[op[o].of].want["pin"]] IN
     \/ /\ ~HandsPinOver(o)
        /\ Leave(o, "reported", NeedsRecovery(o))
        /\ UNCHANGED config
     \/ /\ HandsPinOver(o) /\ saved = entry
        /\ running' = [running EXCEPT !.pin = saved.pin]
        /\ Leave(o, "reported", FALSE)
        /\ UNCHANGED <<entry, armed, listeners, reloads, torn>>
     \/ /\ HandsPinOver(o) /\ saved # entry
        /\ entry' = saved /\ listeners' = listeners + 1
        /\ Arm(o, saved)
        /\ op' = [op EXCEPT ![o].pc = "ack"]
        /\ UNCHANGED <<running, reloads, torn, lock>>
  /\ UNCHANGED <<scenario, radio, link, manager, plan, sent, touched, bounds>>

\* The listener answered: the running configuration takes the PIN over, or the
\* update was superseded.
Acknowledged(o) ==
  /\ op[o].pc = "ack" /\ op[o].answer # "none" /\ Free(o)
  /\ running' = IF op[o].answer = "matched"
                THEN [running EXCEPT !.pin = plan[op[o].of].want["pin"]] ELSE running
  /\ Leave(o, "reported", op[o].answer # "matched")
  /\ UNCHANGED <<scenario, radio, link, manager, plan, entry, armed, listeners, reloads,
                 torn, sent, touched, bounds>>

\* Mutated form: the suppression stays armed.
DisarmNever(o) == armed' = armed

\* Whoever leaves the wait withdraws its own suppression.
Disarm(o) == armed' = IF armed # None /\ armed.by = o THEN None ELSE armed

\* The listener was not heard of in _CONNECTION_UPDATE_ACK_TIMEOUT.
AckTimeout(o) ==
  /\ op[o].pc = "ack" /\ Free(o)
  /\ Disarm(o)
  /\ torn' = (torn \/ op[o].answer = "matched")
  /\ Leave(o, "reported", TRUE)
  /\ UNCHANGED <<scenario, radio, link, manager, plan, entry, running, listeners,
                 reloads, sent, touched, bounds>>

\* The deadline of the operation, or the cancellation of a reload, at any await.
Interrupt(o) ==
  /\ op[o].pc \in Awaits
  /\ Disarm(o)
  /\ torn' = (torn \/ (op[o].pc = "ack" /\ op[o].answer = "matched"))
  /\ Leave(o, "interrupted", FALSE)
  /\ UNCHANGED <<scenario, radio, link, manager, plan, entry, running, listeners,
                 reloads, sent, touched, bounds>>

-----------------------------------------------------------------------------
(* The config entry and the reload *)

\* The listener finds the entry as the suppression expects it.
Matches == armed # None /\ armed.options = entry

\* _async_update_listener: an expected update is consumed, any other one asks
\* for a reload.  The marker is gone either way.
Listener ==
  /\ listeners > 0
  /\ listeners' = listeners - 1
  /\ armed' = None
  /\ reloads' = IF Matches THEN reloads ELSE reloads + 1
  /\ op' = [o \in Ops |-> IF armed # None /\ o = armed.by
                          THEN [op[o] EXCEPT !.answer = IF Matches THEN "matched"
                                                          ELSE "missed"]
                          ELSE op[o]]
  /\ UNCHANGED <<scenario, radio, link, manager, plan, lock, entry, running, torn, sent,
                 touched, bounds>>

\* The user changes the options of the entry, the saved PIN or others.
UserUpdate ==
  /\ Meets("update") /\ updates < MaxUpdates
  /\ \E options \in Options \ {entry} :
       /\ entry' = options
       /\ pinTouched' = (pinTouched \/ options.pin # entry.pin)
  /\ updates' = updates + 1 /\ listeners' = listeners + 1
  /\ UNCHANGED <<scenario, radio, link, manager, plan, lock, op, running, armed,
                 reloads, torn, sent, touched, edits>>

CancelAll == cancelled' = Active

\* A reload fences the manager, forgets the previews and cancels what runs ...
BeginReload ==
  /\ reloads > 0 /\ fence = "open"
  /\ reloads' = reloads - 1
  /\ fence' = "draining" /\ previews' = {}
  /\ CancelAll
  /\ UNCHANGED <<scenario, radio, link, plan, lock, op, entry, running, armed,
                 listeners, torn, sent, touched, bounds>>

\* ... and, when that has ended, sets the entry up again from its options.
FinishReload ==
  /\ fence = "draining" /\ Active = {}
  /\ fence' = "open" /\ cancelled' = {}
  /\ running' = entry /\ armed' = None
  /\ connected' = FALSE
  /\ UNCHANGED <<scenario, radio, epoch, drops, previews, plan, lock, op, entry,
                 listeners, reloads, torn, sent, touched, bounds>>

\* An operation that does not end in SETTINGS_QUIESCE_TIMEOUT_SECONDS makes the
\* unload fail; the manager stays fenced.
GiveUpReload ==
  /\ Meets("stubborn") /\ fence = "draining" /\ Active # {}
  /\ fence' = "stuck"
  /\ UNCHANGED <<scenario, radio, link, previews, cancelled, plan, lock, op, config,
                 sent, touched, bounds>>

-----------------------------------------------------------------------------
(* The radio and its link *)

\* Somebody changes a field on the radio itself.
Edit(x) ==
  /\ Meets("edit") /\ edits < MaxEdits
  /\ edits' = edits + 1
  /\ radio' = [radio EXCEPT ![x] = 1 - @]
  /\ touched' = [o \in Ops |-> touched[o] \cup {x}]
  /\ pinTouched' = (pinTouched \/ x = "pin")
  /\ UNCHANGED <<scenario, link, manager, plan, lock, op, config, sent, updates>>

Drop ==
  /\ Meets("drop") /\ connected /\ drops < MaxDrops
  /\ connected' = FALSE /\ drops' = drops + 1
  /\ UNCHANGED <<scenario, radio, epoch, manager, plan, lock, op, config, sent, touched,
                 bounds>>

Reconnect ==
  /\ ~connected
  /\ connected' = TRUE /\ epoch' = epoch + 1
  /\ UNCHANGED <<scenario, radio, drops, manager, plan, lock, op, config, sent, touched,
                 bounds>>

-----------------------------------------------------------------------------
(* Specification *)

Init ==
  /\ scenario \in Scenarios
  /\ radio = [x \in Paths |-> 0]
  /\ connected = TRUE /\ epoch = 0
  /\ fence = "open" /\ previews = {} /\ cancelled = {}
  /\ plan = [o \in Ops |-> [rev |-> radio, want |-> [x \in Paths |-> None]]]
  /\ lock = None
  /\ op = [o \in Ops |-> Idle]
  /\ entry = [pin |-> 0, other |-> 0] /\ running = entry
  /\ armed = None /\ listeners = 0 /\ reloads = 0
  /\ sent = [o \in Ops |-> [x \in Paths |-> 0]]
  /\ touched = [o \in Ops |-> {}]
  /\ torn = FALSE /\ pinTouched = FALSE
  /\ edits = 0 /\ drops = 0 /\ updates = 0

Next ==
  \/ \E o \in Ops :
       \/ RequestGet(o) \/ RequestPreview(o) \/ RequestApply(o) \/ Expire(o)
       \/ TakeLock(o) \/ ReadFails(o) \/ GetRead(o) \/ PreviewRead(o) \/ ApplyRead(o)
       \/ SendFirst(o) \/ Answer(o) \/ Verify(o)
       \/ AfterRead(o) \/ Acknowledged(o) \/ AckTimeout(o) \/ Interrupt(o)
  \/ Listener \/ UserUpdate \/ BeginReload \/ FinishReload \/ GiveUpReload
  \/ \E x \in Paths : Edit(x)
  \/ Drop \/ Reconnect

Spec == Init /\ [][Next]_vars

-----------------------------------------------------------------------------
(* Properties *)

\* Type invariant; the manager keeps at most one preview for the gateway, and
\* the lock is held exactly from the first read to the end of an operation.
TypeOK ==
  /\ scenario \in Scenarios
  /\ radio \in Radios /\ connected \in BOOLEAN /\ epoch \in Nat
  /\ fence \in {"open", "draining", "stuck"}
  /\ previews \subseteq Ops /\ Cardinality(previews) <= 1
  /\ plan \in [Ops -> Plans]
  /\ op \in [Ops -> [pc : Awaits \cup {"new", "done"},
                     kind : {"none", "get", "preview", "apply"}, of : Ops \cup {None},
                     epoch : Nat, at : Paths, ack : {"none", "ok", "timeout", "rejected"},
                     written : SUBSET Paths, verified : SUBSET Paths,
                     answer : {"none", "matched", "missed"},
                     outcome : Outcomes, recovery : BOOLEAN]]
  /\ \A o \in Ops : lock = o <=> op[o].pc \in Awaits \ {"waiting"}
  /\ lock \in Ops \cup {None} /\ cancelled \subseteq Ops
  /\ entry \in Options /\ running \in Options
  /\ armed \in {None} \cup Markers
  /\ listeners \in Nat /\ reloads \in Nat
  /\ sent \in [Ops -> [Paths -> 0..2]] /\ touched \in [Ops -> SUBSET Paths]
  /\ torn \in BOOLEAN /\ pinTouched \in BOOLEAN
  /\ edits \in Nat /\ drops \in Nat /\ updates \in Nat

\* "Each operation is sent once, and the preview cannot be reused": whatever
\* times out, is interrupted or is applied by two clients at once, no field of
\* a preview is put on the wire twice.
SentOnce == \A p \in Ops, x \in Paths : sent[p][x] <= 1

\* A plan reaches the radio only on top of the state its preview showed: no
\* operation of MeshNet, and nobody else before the lock was taken, has changed
\* that field or any other.
WritesOnWhatWasShown ==
  [][\A o \in Ops :
       (op[o].pc = "validating" /\ op'[o].pc = "acking" /\ touched[o] = {})
         => radio = plan[op[o].of].rev]_vars

\* What an answer calls verified is what the radio holds, unless somebody else
\* has changed the field since.
ReportedIsReal ==
  \A o \in Ops :
    op[o].outcome = "reported" =>
      \A x \in op[o].verified \ touched[o] : radio[x] = plan[op[o].of].want[x]

\* When every apply that sent a PIN has answered without asking for recovery,
\* and nobody else changed the PIN, the saved PIN is the one of the radio: a
\* credential never drifts apart in silence.
PinAccounted ==
  (/\ HandsOver /\ ~pinTouched
   /\ \A o \in Ops : (op[o].kind = "apply" /\ op[o].of # None /\ sent[op[o].of]["pin"] > 0)
                       => op[o].outcome \in {"reported", "expired"} /\ ~op[o].recovery)
    => entry.pin = radio["pin"]

\* The suppression of the update listener never swallows an update: when no
\* listener and no reload is outstanding and nobody waits for one, the adapters
\* run with the options of the entry (but for an acknowledgement that arrived
\* together with a deadline).
NoUpdateLost ==
  (/\ listeners = 0 /\ reloads = 0 /\ fence = "open" /\ ~torn
   /\ \A o \in Ops : op[o].pc # "ack") => running = entry

\* Behind the fence of a reload nothing is kept and, once the reload goes on,
\* nothing runs: no secret-bearing preview appears, and no operation that began
\* before the reload survives it.
FenceHolds ==
  /\ fence # "open" => previews = {}
  /\ fence = "draining" => Active \subseteq cancelled

\* "This verified credential persistence cannot tear down its own apply task":
\* unless the user changes the entry, or an operation leaves its wait without the
\* answer of the listener, no hand-off of a PIN makes the entry reload.
NoSelfReload ==
  (updates = 0 /\ \A o \in Ops : op[o].outcome # "interrupted" /\ ~op[o].recovery)
    => reloads = 0 /\ fence = "open"

\* "Keep this running session coherent": the adapters run with the options of
\* the entry whenever nothing is outstanding.
SessionCoherent ==
  (/\ listeners = 0 /\ reloads = 0 /\ fence = "open"
   /\ \A o \in Ops : op[o].pc # "ack") => running = entry

=============================================================================
