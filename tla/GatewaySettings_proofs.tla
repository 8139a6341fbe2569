------------------------ MODULE GatewaySettings_proofs ------------------------
(***************************************************************************)
(* For any operations, radios and updates: GatewaySettings is typed, no    *)
(* field of a preview is sent twice, a plan is written on the state its    *)
(* preview showed, what an answer calls verified is on the radio, a PIN    *)
(* does not drift apart from the entry in silence, and the suppression of  *)
(* the update listener swallows no update.                                 *)
(*                                                                         *)
(* The argument: one apply destroys a preview and is alone with it from    *)
(* then on, and it alone writes while it holds the lock; and a marker of   *)
(* the suppression belongs to the operation that waits for the listener,   *)
(* whose own update is still to be heard.                                  *)
(***************************************************************************)
EXTENDS GatewaySettings, TLAPS, FiniteSetTheorems

USE SettingsAssumption

OpTypes == [pc : Awaits \cup {"new", "done"},
            kind : {"none", "get", "preview", "apply"}, of : Ops \cup {None},
            epoch : Nat, at : Paths, ack : {"none", "ok", "timeout", "rejected"},
            written : SUBSET Paths, verified : SUBSET Paths,
            answer : {"none", "matched", "missed"},
            outcome : Outcomes, recovery : BOOLEAN]

LockRule == \A o \in Ops : lock = o <=> op[o].pc \in Awaits \ {"waiting"}

\* An apply that has destroyed its preview.
Own(r) == r.kind = "apply" /\ r.outcome \notin {"expired", "unconfirmed"}

Writing == {"validating", "acking", "verifying", "after", "ack"}

\* What an operation has behind it where it stands.
Place(r) ==
  /\ r.pc = "new" => r = Idle
  /\ r.pc \in {"waiting", "reading"} => r.kind # "none"
  /\ r.pc \in {"waiting", "reading", "validating"} => r.written = {}
  /\ r.pc \in Writing => r.kind = "apply"
  /\ r.pc \in {"acking", "verifying"} => r.at \in r.written \ r.verified
  /\ r.verified \subseteq r.written
  /\ r.written # {} => Own(r)
  /\ r.pc = "done" <=> r.outcome # "none"
  /\ r.outcome = "ready" => r.kind = "preview"
  /\ r.pc \notin {"ack", "done"} => r.answer = "none"
  /\ r.recovery => r.pc = "done"
  /\ r.kind = "apply" <=> r.of # None

PlaceInv == \A o \in Ops : Place(op[o])

\* A preview changes something; an apply works on a preview that was answered,
\* and writes the fields of its plan.
PlanInv ==
  \A o \in Ops :
    /\ op[o].kind = "preview" => \E x \in Paths : plan[o].want[x] # None
    /\ op[o].kind = "apply" =>
         /\ op[op[o].of].outcome = "ready"
         /\ \A x \in op[o].written : plan[op[o].of].want[x] # None

\* One apply destroys a preview.
PreviewInv ==
  /\ \A p \in previews : op[p].outcome = "ready"
  /\ \A o \in Ops : Own(op[o]) => op[o].of \notin previews
  /\ \A o, q \in Ops : Own(op[o]) /\ Own(op[q]) /\ op[o].of = op[q].of => o = q

\* What was sent for a preview is what that apply has written.
SentInv ==
  /\ \A o \in Ops : Own(op[o]) =>
       \A x \in Paths : sent[op[o].of][x] = IF x \in op[o].written THEN 1 ELSE 0
  /\ \A p \in Ops : (\A o \in Ops : Own(op[o]) => op[o].of # p) =>
       \A x \in Paths : sent[p][x] = 0

\* Before its first command the radio is as the plan expects it, and a verified
\* field holds its value, but for what others have touched.
RadioInv ==
  \A o \in Ops :
    /\ op[o].pc = "validating" /\ touched[o] = {} => radio = plan[op[o].of].rev
    /\ \A x \in op[o].verified \ touched[o] : radio[x] = plan[op[o].of].want[x]

\* An answer that the client can rely on.
Settled(r) == r.outcome = "reported" /\ ~r.recovery

\* While nobody else touches the PIN: a hand-off under way has saved the PIN
\* that the radio holds, and so has every hand-off that was answered.
PinInv ==
  /\ \A o \in Ops :
       /\ ~pinTouched /\ lock = o => "pin" \notin touched[o]
       /\ op[o].pc = "ack" => /\ HandsPinOver(o)
                              /\ ~pinTouched => entry.pin = plan[op[o].of].want["pin"]
  /\ (/\ HandsOver /\ ~pinTouched
      /\ \A o \in Ops : "pin" \in op[o].written => Settled(op[o])) => entry.pin = radio["pin"]

\* The marker belongs to the operation that waits for the listener.
ArmInv ==
  \A o \in Ops : op[o].pc = "ack" /\ op[o].answer = "none" <=> armed # None /\ armed.by = o

Quiet == reloads = 0 /\ fence = "open" /\ ~torn

\* The configuration that runs, once it has taken over the PIN of the hand-off.
TakenOver(o) == [running EXCEPT !.pin = plan[op[o].of].want["pin"]]

\* The configuration that runs differs from the entry by an update that is
\* still to be heard, or by the PIN of a hand-off under way.
ConfigInv ==
  /\ listeners = 0 /\ Quiet /\ (\A o \in Ops : op[o].pc = "ack" => op[o].answer # "matched")
       => running = entry
  /\ \A o \in Ops : op[o].pc = "ack" /\ op[o].answer = "matched" /\ listeners = 0 /\ Quiet
                     => entry = TakenOver(o)
  /\ armed # None => listeners > 0 /\ (listeners = 1 /\ Quiet => entry = TakenOver(armed.by))

\* Behind the fence nothing is kept, and only cancelled work is left.
FenceInv == fence # "open" => previews = {} /\ Active \subseteq cancelled

\* Without updates of the user, the listener to come is the one of a hand-off.
SelfInv ==
  (updates = 0 /\ \A o \in Ops : op[o].outcome # "interrupted" /\ ~op[o].recovery) =>
     /\ reloads = 0 /\ fence = "open"
     /\ listeners > 0 => listeners = 1 /\ Matches

ListenInv == ArmInv /\ ConfigInv /\ SelfInv
IInv == /\ TypeOK /\ PlaceInv /\ PlanInv /\ PreviewInv /\ SentInv /\ RadioInv /\ PinInv
        /\ ListenInv /\ FenceInv

-----------------------------------------------------------------------------
(* Steps of one operation *)

\* Every operation is an operation, and all but o stay as they are.
Only(o) == op' \in [Ops -> OpTypes] /\ \A q \in Ops : q # o => op'[q] = op[q]

\* The operation q keeps its plan and what it has written and verified.
Same(q) ==
  /\ op'[q].kind = "apply" <=> op[q].kind = "apply"
  /\ op[q].kind = "apply" => plan'[op[q].of] = plan[op[q].of]
  /\ op'[q].of = op[q].of /\ op'[q].written = op[q].written /\ op'[q].verified = op[q].verified
  /\ Own(op'[q]) <=> Own(op[q])
  /\ op[q].outcome = "ready" => op'[q].outcome = "ready"

\* The operation q waits for the listener as before, and keeps what it ended with.
SameWait(q) ==
  /\ op'[q].pc = "ack" <=> op[q].pc = "ack"
  /\ op'[q].answer = op[q].answer
  /\ op[q].pc = "ack" => op'[q].of = op[q].of /\ plan'[op[q].of] = plan[op[q].of]
  /\ op[q].outcome = "interrupted" => op'[q].outcome = "interrupted"
  /\ op[q].recovery => op'[q].recovery

\* What an ended operation has become, and the lock.
LEMMA LeaveFacts ==
  ASSUME TypeOK, NEW o \in Ops, op[o].pc \in Awaits, NEW outcome \in Outcomes,
         NEW recovery \in BOOLEAN, Leave(o, outcome, recovery)
  PROVE /\ Only(o)
        /\ op'[o].pc = "done" /\ op'[o].outcome = outcome /\ op'[o].recovery = recovery
        /\ op'[o].kind = op[o].kind /\ op'[o].of = op[o].of
        /\ op'[o].written = op[o].written /\ op'[o].verified = op[o].verified
        /\ op'[o].answer = op[o].answer
        /\ lock' \in {lock, None} /\ LockRule' /\ lock' \in Ops \cup {None}
        /\ op[o].pc # "waiting" => lock' = None
  <1>1. op \in [Ops -> OpTypes] /\ LockRule /\ lock \in Ops \cup {None}
    BY DEF TypeOK, OpTypes, LockRule
  <1>2. op' = [op EXCEPT ![o].pc = "done", ![o].outcome = outcome, ![o].recovery = recovery,
                         ![o].epoch = 0, ![o].at = "name", ![o].ack = "none"]
        /\ lock' = IF lock = o THEN None ELSE lock
    BY DEF Leave, Release
  <1>3. op[o] \in OpTypes
    BY <1>1
  <1>4. op'[o] = [op[o] EXCEPT !.pc = "done", !.outcome = outcome, !.recovery = recovery,
                         !.epoch = 0, !.at = "name", !.ack = "none"]
        /\ DOMAIN op' = Ops /\ \A q \in Ops : q # o => op'[q] = op[q]
    BY <1>1, <1>2
  <1>5. /\ op'[o] \in OpTypes
        /\ op'[o].pc = "done" /\ op'[o].outcome = outcome /\ op'[o].recovery = recovery
        /\ op'[o].kind = op[o].kind /\ op'[o].of = op[o].of
        /\ op'[o].written = op[o].written /\ op'[o].verified = op[o].verified
        /\ op'[o].answer = op[o].answer
    <2>1. op[o].of \in Ops \cup {None} /\ "name" \in Paths
      BY <1>3 DEF OpTypes, Paths
    <2>2. op'[o] = [pc |-> "done", kind |-> op[o].kind, of |-> op[o].of, epoch |-> 0, at |-> "name",
                    ack |-> "none", written |-> op[o].written, verified |-> op[o].verified,
                    answer |-> op[o].answer, outcome |-> outcome, recovery |-> recovery]
      BY <1>3, <1>4 DEF OpTypes
    <2>3. op'[o] \in OpTypes
      BY <1>3, <2>1, <2>2 DEF OpTypes
    <2> QED BY <2>2, <2>3
  <1>6. Only(o)
    BY <1>1, <1>2, <1>4, <1>5 DEF Only
  <1>7. LockRule' /\ (op[o].pc # "waiting" => lock' = None)
    <2>1. lock = o <=> op[o].pc # "waiting"
      BY <1>1 DEF LockRule
    <2>2. lock' # o /\ (op[o].pc # "waiting" => lock' = None)
      BY ONLY <1>2, <2>1, o \in Ops, SettingsAssumption
    <2>3. ASSUME NEW q \in Ops, q # o
          PROVE lock' = q <=> op'[q].pc \in Awaits \ {"waiting"}
      BY ONLY <1>1, <1>2, <1>4, <2>3, SettingsAssumption DEF LockRule
    <2>4. lock' = o <=> op'[o].pc \in Awaits \ {"waiting"}
      BY ONLY <1>5, <2>2 DEF Awaits
    <2> QED BY ONLY <2>2, <2>3, <2>4 DEF LockRule
  <1> QED BY <1>1, <1>2, <1>5, <1>6, <1>7

-----------------------------------------------------------------------------
(* What a step leaves alone *)

\* Nobody begins an apply, and nothing is sent.
LEMMA PlansStay ==
  ASSUME PlanInv, PreviewInv, SentInv, op \in [Ops -> OpTypes], op' \in [Ops -> OpTypes],
         PlaceInv, \A q \in Ops : Same(q), sent' = sent,
         \A q \in Ops : op'[q].kind = "preview" => \E x \in Paths : plan'[q].want[x] # None,
         previews' \subseteq previews, previews \subseteq Ops
  PROVE PlanInv' /\ PreviewInv' /\ SentInv'
  <1>1. \A o \in Ops : op[o].kind = "apply" => op[o].of \in Ops
    BY DEF PlaceInv, Place, OpTypes
  <1>2. PlanInv'
    BY <1>1 DEF PlanInv, Same
  <1>3. PreviewInv'
    BY <1>1 DEF PreviewInv, Same
  <1>4. SentInv'
    BY <1>1 DEF SentInv, Same
  <1> QED BY <1>2, <1>3, <1>4

\* Every preview changes something still.
LEMMA PlansAsk ==
  ASSUME PlanInv, plan' = plan, \A q \in Ops : op'[q].kind = op[q].kind
  PROVE \A q \in Ops : op'[q].kind = "preview" => \E x \in Paths : plan'[q].want[x] # None
  BY DEF PlanInv

\* The radio stays as it is, and no apply is about to write.
LEMMA RadioStays ==
  ASSUME RadioInv, PlaceInv, \A q \in Ops : Same(q), UNCHANGED <<radio, touched>>,
         \A q \in Ops : op'[q].pc = "validating" => op[q].pc = "validating"
  PROVE RadioInv'
  BY DEF RadioInv, Same, PlaceInv, Place, Writing, Own

\* Nobody begins or ends a hand-off, and the entry stays as it is.
LEMMA ListenStays ==
  ASSUME ListenInv, UNCHANGED <<scenario, config, fence, updates>>,
         op \in [Ops -> OpTypes], op' \in [Ops -> OpTypes], armed # None => armed.by \in Ops,
         \A q \in Ops : SameWait(q)
  PROVE ListenInv'
  <1>1. UNCHANGED <<entry, running, armed, listeners, reloads, torn>>
    BY DEF config
  <1>2. ArmInv'
    BY <1>1 DEF ListenInv, ArmInv, SameWait
  <1>3. armed # None => TakenOver(armed.by)' = TakenOver(armed.by)
    BY <1>1 DEF ListenInv, ArmInv, TakenOver, SameWait
  <1>4. ConfigInv'
    BY <1>1, <1>3 DEF ListenInv, ConfigInv, Quiet, TakenOver, SameWait
  <1>5. SelfInv'
    BY <1>1 DEF ListenInv, SelfInv, Matches, SameWait
  <1> QED BY <1>2, <1>4, <1>5 DEF ListenInv

\* No operation begins, and no preview appears.
LEMMA FenceStays ==
  ASSUME FenceInv, UNCHANGED <<fence, cancelled>>, previews' \subseteq previews,
         \A q \in Ops : op'[q].pc \in Awaits => op[q].pc \in Awaits
  PROVE FenceInv'
  BY DEF FenceInv, Active

\* No operation takes the lock or begins a hand-off, and none that sent a PIN is
\* answered for good.
LEMMA PinStays ==
  ASSUME PinInv, PlaceInv, UNCHANGED <<scenario, entry, pinTouched, radio, touched>>,
         lock' \in {lock, None}, \A q \in Ops : Same(q),
         \A q \in Ops : op'[q].pc = "ack" => op[q].pc = "ack",
         \A q \in Ops : Settled(op'[q]) => Settled(op[q]) \/ "pin" \notin op[q].written
  PROVE PinInv'
  <1>1. \A q \in Ops : op[q].pc = "ack" =>
          HandsPinOver(q)' = HandsPinOver(q) /\ plan'[op'[q].of] = plan[op[q].of]
    BY DEF HandsPinOver, WantsPin, HandsOver, Same, PlaceInv, Place, Writing
  <1>2. ASSUME NEW o \in Ops
        PROVE /\ ~pinTouched' /\ lock' = o => "pin" \notin touched'[o]
              /\ op'[o].pc = "ack" => /\ HandsPinOver(o)'
                                      /\ ~pinTouched' => entry'.pin = plan'[op'[o].of].want["pin"]
    BY <1>1 DEF PinInv, Same
  <1>3. (HandsOver' /\ ~pinTouched' /\ \A o \in Ops : "pin" \in op'[o].written => Settled(op'[o]))
           => entry'.pin = radio'["pin"]
    BY DEF PinInv, Same, HandsOver
  <1> QED BY <1>2, <1>3 DEF PinInv

-----------------------------------------------------------------------------
(* The end of an operation *)

OpOK == op \in [Ops -> OpTypes] /\ LockRule /\ lock \in Ops \cup {None}

RestOK ==
  /\ scenario \in Scenarios
  /\ radio \in Radios /\ connected \in BOOLEAN /\ epoch \in Nat
  /\ fence \in {"open", "draining", "stuck"}
  /\ previews \subseteq Ops /\ Cardinality(previews) <= 1
  /\ plan \in [Ops -> Plans] /\ cancelled \subseteq Ops
  /\ entry \in Options /\ running \in Options
  /\ armed \in {None} \cup Markers
  /\ listeners \in Nat /\ reloads \in Nat
  /\ sent \in [Ops -> [Paths -> 0..2]] /\ touched \in [Ops -> SUBSET Paths]
  /\ torn \in BOOLEAN /\ pinTouched \in BOOLEAN
  /\ edits \in Nat /\ drops \in Nat /\ updates \in Nat

\* The type invariant speaks of the operations with their lock, and of the rest.
LEMMA TypeParts ==
  /\ TypeOK <=> OpOK /\ RestOK
  /\ TypeOK' <=> OpOK' /\ RestOK'
  BY DEF TypeOK, OpOK, RestOK, OpTypes, LockRule

\* The rest keeps its types when nothing in it changes.
LEMMA RestStays ==
  ASSUME RestOK,
         UNCHANGED <<scenario, radio, link, manager, plan, config, sent, touched, bounds>>
  PROVE RestOK'
  BY DEF RestOK, link, manager, config, bounds

\* An operation that ends keeps its plan.
LEMMA LeaveKeeps ==
  ASSUME TypeOK, PlaceInv, NEW o \in Ops, op[o].pc \in Awaits,
         NEW outcome \in Outcomes \ {"none", "expired", "unconfirmed"},
         outcome = "ready" => op[o].kind = "preview",
         NEW recovery \in BOOLEAN, Leave(o, outcome, recovery), plan' = plan
  PROVE PlaceInv' /\ OpOK' /\ \A q \in Ops : Same(q)
  <1>1. /\ Only(o)
        /\ op'[o].pc = "done" /\ op'[o].outcome = outcome /\ op'[o].recovery = recovery
        /\ op'[o].kind = op[o].kind /\ op'[o].of = op[o].of
        /\ op'[o].written = op[o].written /\ op'[o].verified = op[o].verified
        /\ op'[o].answer = op[o].answer
        /\ lock' \in {lock, None} /\ LockRule' /\ lock' \in Ops \cup {None}
    BY LeaveFacts
  <1>2. Place(op[o]) /\ op[o].outcome = "none"
    BY DEF PlaceInv, Place, Awaits
  <1>3. Place(op'[o])
    BY <1>1, <1>2 DEF Place, Own, Writing
  <1>4. PlaceInv'
    BY <1>1, <1>3 DEF PlaceInv, Only
  <1>5. \A q \in Ops : Same(q)
    BY <1>1, <1>2 DEF Only, Same, Own
  <1>6. OpOK'
    BY <1>1 DEF OpOK, Only
  <1> QED BY <1>4, <1>5, <1>6

\* Taking previews away leaves at most one.
LEMMA FewerPreviews ==
  ASSUME RestOK, NEW S \in SUBSET previews
  PROVE Cardinality(S) <= 1
  <1>1. IsFiniteSet(previews) /\ Cardinality(previews) <= 1
    BY FS_Subset DEF RestOK
  <1>2. Cardinality(S) \in Nat /\ Cardinality(previews) \in Nat
        /\ Cardinality(S) <= Cardinality(previews)
    BY <1>1, FS_Subset, FS_CardinalityType
  <1> QED BY <1>1, <1>2

\* What the invariants of an operation under way say.
LEMMA Parts ==
  ASSUME IInv
  PROVE /\ TypeOK /\ PlaceInv /\ PlanInv /\ PreviewInv /\ SentInv /\ RadioInv /\ PinInv
        /\ ListenInv /\ FenceInv
        /\ OpOK /\ RestOK /\ op \in [Ops -> OpTypes] /\ previews \subseteq Ops
        /\ armed # None => armed.by \in Ops
  <1>1. IInv
    OBVIOUS
  <1>2. armed # None => armed.by \in Ops
    BY <1>1 DEF IInv, TypeOK, Markers
  <1>3. OpOK /\ RestOK
    BY <1>1, TypeParts DEF IInv
  <1> QED BY <1>1, <1>2, <1>3 DEF IInv, TypeOK, OpOK

\* The operation o moves and nothing else does.
LEMMA CalmStep ==
  ASSUME IInv, NEW o \in Ops, Only(o), OpOK', Place(op'[o]), Same(o), SameWait(o),
         lock' \in {lock, None}, op'[o].pc \notin {"validating", "ack"},
         fence = "open" \/ op[o].pc \in Awaits,
         Settled(op'[o]) => "pin" \notin op[o].written,
         op'[o].kind = "preview" => op[o].kind = "preview",
         UNCHANGED <<scenario, radio, link, manager, plan, config, sent, touched, bounds>>
  PROVE IInv'
  <1>1. /\ TypeOK /\ PlaceInv /\ PlanInv /\ PreviewInv /\ SentInv /\ RadioInv /\ PinInv
        /\ ListenInv /\ FenceInv
        /\ OpOK /\ RestOK /\ op \in [Ops -> OpTypes] /\ previews \subseteq Ops
        /\ armed # None => armed.by \in Ops
    BY Parts
  <1>2. op' \in [Ops -> OpTypes] /\ \A q \in Ops : q # o => op'[q] = op[q]
    BY DEF Only
  <1>3. \A q \in Ops : Same(q) /\ SameWait(q)
    BY <1>2 DEF Same, SameWait
  <1>4. UNCHANGED <<fence, cancelled, previews, pinTouched, updates>> /\ entry' = entry
    BY DEF manager, bounds, config
  <1>5. PlaceInv'
    BY <1>2 , <1>1 DEF PlaceInv
  <1>6. TypeOK'
    <2>1. RestOK'
      BY <1>1, RestStays
    <2> QED BY <2>1, TypeParts
  <1>7. PlanInv' /\ PreviewInv' /\ SentInv'
    <2>1. \A q \in Ops : op'[q].kind = "preview" => \E x \in Paths : plan'[q].want[x] # None
      BY <1>1, <1>2 DEF PlanInv
    <2> QED BY <1>1, <1>2, <1>3, <1>4, <2>1, PlansStay
  <1>8. RadioInv'
    BY <1>1, <1>2, <1>3, RadioStays
  <1>9. PinInv'
    <2>1. \A q \in Ops : Settled(op'[q]) => Settled(op[q]) \/ "pin" \notin op[q].written
      BY <1>2 DEF Settled
    <2>2. \A q \in Ops : op'[q].pc = "ack" => op[q].pc = "ack"
      BY <1>2
    <2> QED BY <1>1, <1>3, <1>4, <2>1, <2>2, PinStays
  <1>10. ListenInv'
    <2>1. UNCHANGED <<scenario, config, fence, updates>>
      BY <1>4
    <2> QED BY ONLY <1>1, <1>2, <1>3, <2>1, ListenStays
  <1>11. FenceInv'
    BY <1>1, <1>2, <1>4 DEF FenceInv, Active
  <1> QED BY <1>5, <1>6, <1>7, <1>8, <1>9, <1>10, <1>11 DEF IInv

\* An operation that ends outside a hand-off, with an answer that calls a PIN
\* settled only where none was written.
LEMMA EndStep ==
  ASSUME IInv, NEW o \in Ops, op[o].pc \in Awaits \ {"ack"},
         NEW outcome \in Outcomes \ {"none", "expired", "unconfirmed", "ready"},
         NEW recovery \in BOOLEAN, Leave(o, outcome, recovery),
         outcome = "reported" => recovery \/ "pin" \notin op[o].written,
         UNCHANGED <<scenario, radio, link, manager, plan, config, sent, touched, bounds>>
  PROVE IInv'
  <1>1. TypeOK /\ PlaceInv
    BY DEF IInv
  <1>2. PlaceInv' /\ OpOK' /\ \A q \in Ops : Same(q)
    BY <1>1, LeaveKeeps
  <1>3. /\ Only(o)
        /\ op'[o].pc = "done" /\ op'[o].outcome = outcome /\ op'[o].recovery = recovery
        /\ op'[o].answer = op[o].answer /\ lock' \in {lock, None} /\ op'[o].kind = op[o].kind
    BY <1>1, LeaveFacts
  <1>4. op[o].outcome = "none" /\ ~op[o].recovery
    BY <1>1 DEF PlaceInv, Place, Awaits
  <1>5. Place(op'[o]) /\ Same(o)
    BY <1>2 DEF PlaceInv
  <1>6. SameWait(o)
    BY <1>3, <1>4 DEF SameWait
  <1>7. Settled(op'[o]) => "pin" \notin op[o].written
    BY <1>3 DEF Settled
  <1> QED BY <1>2, <1>3, <1>5, <1>6, <1>7, CalmStep

-----------------------------------------------------------------------------
(* Operations up to their first command *)

\* The live read fails, or shows what a get reports.
LEMMA ReadEnds ==
  ASSUME IInv, NEW o \in Ops, ReadFails(o) \/ GetRead(o)
  PROVE IInv'
  <1>1. op[o].pc = "reading" /\ op[o].written = {}
    BY DEF ReadFails, GetRead, IInv, PlaceInv, Place
  <1>2. UNCHANGED <<scenario, radio, link, manager, plan, config, sent, touched, bounds>>
    BY DEF ReadFails, GetRead
  <1>3. \E outcome \in {"unavailable", "reported"} : Leave(o, outcome, FALSE)
    BY DEF ReadFails, GetRead
  <1>4. {"unavailable", "reported"} \subseteq Outcomes
    BY DEF Outcomes
  <1>5. op[o].pc \in Awaits \ {"ack"}
    BY <1>1 DEF Awaits
  <1> QED BY <1>1, <1>2, <1>3, <1>4, <1>5, EndStep

\* A handler that has not begun.
LEMMA IdleIs ==
  /\ Idle.pc = "new" /\ Idle.kind = "none" /\ Idle.of = None /\ Idle.written = {}
  /\ Idle.verified = {} /\ Idle.answer = "none" /\ Idle.outcome = "none" /\ Idle.recovery = FALSE
  BY DEF Idle

\* A new operation waits for the lock.
LEMMA Begins ==
  ASSUME OpOK, NEW o \in Ops, op[o] = Idle, NEW kind \in {"get", "preview"}, lock' = lock,
         op' = [op EXCEPT ![o].pc = "waiting", ![o].kind = kind]
  PROVE /\ Only(o) /\ OpOK' /\ Place(op'[o])
        /\ op'[o].pc = "waiting" /\ op'[o].kind = kind /\ op'[o].of = op[o].of
        /\ op'[o].written = op[o].written /\ op'[o].verified = op[o].verified
        /\ op'[o].outcome = op[o].outcome /\ op'[o].answer = op[o].answer
        /\ op'[o].recovery = op[o].recovery
  <1>1. op \in [Ops -> OpTypes] /\ LockRule
    BY DEF OpOK
  <1>2. /\ op'[o] = [op[o] EXCEPT !.pc = "waiting", !.kind = kind]
        /\ \A q \in Ops : q # o => op'[q] = op[q]
        /\ DOMAIN op' = Ops /\ op' = [op EXCEPT ![o] = op'[o]]
    BY <1>1
  <1>3. op[o] \in OpTypes
    BY <1>1
  <1>4. op'[o] = [pc |-> "waiting", kind |-> kind, of |-> op[o].of, epoch |-> op[o].epoch,
                  at |-> op[o].at, ack |-> op[o].ack, written |-> op[o].written,
                  verified |-> op[o].verified, answer |-> op[o].answer,
                  outcome |-> op[o].outcome, recovery |-> op[o].recovery]
    BY <1>1, <1>2, <1>3 DEF OpTypes
  <1>5. op'[o] \in OpTypes
    <2>1. kind \in {"none", "get", "preview", "apply"} /\ "waiting" \in Awaits \cup {"new", "done"}
      BY DEF Awaits
    <2> QED BY ONLY <1>3, <1>4, <2>1 DEF OpTypes
  <1>6. Only(o)
    BY <1>1, <1>2, <1>5 DEF Only
  <1>7. LockRule'
    BY <1>1, <1>2, <1>4 DEF LockRule, Awaits, Idle
  <1>8. OpOK'
    BY <1>6, <1>7 DEF OpOK, Only
  <1>9. Place(op'[o])
    <2>1. kind \notin {"apply", "none"}
      OBVIOUS
    <2>2. /\ op'[o].pc = "waiting" /\ op'[o].kind = kind /\ op'[o].of = None
          /\ op'[o].written = {} /\ op'[o].verified = {} /\ op'[o].answer = "none"
          /\ op'[o].outcome = "none"
      BY ONLY <1>4, op[o] = Idle, IdleIs
    <2>3. op'[o].recovery = Idle.recovery
      BY <1>4
    <2>4. ~op'[o].recovery
      BY ONLY <2>3, IdleIs
    <2> QED BY ONLY <2>1, <2>2, <2>4 DEF Place, Own, Writing
  <1> QED BY <1>4, <1>6, <1>8, <1>9

\* A read of the settings is asked for.
LEMMA RequestGetStep ==
  ASSUME IInv, NEW o \in Ops, RequestGet(o)
  PROVE IInv'
  <1>1. OpOK /\ PlaceInv
    BY Parts
  <1>2. /\ op[o].pc = "new" /\ fence = "open" /\ lock' = lock
        /\ op' = [op EXCEPT ![o].pc = "waiting", ![o].kind = "get"]
        /\ UNCHANGED <<scenario, radio, link, manager, plan, config, sent, touched, bounds>>
    BY DEF RequestGet
  <1>3. op[o] = Idle
    BY <1>1, <1>2 DEF PlaceInv, Place
  <1>4. /\ Only(o) /\ OpOK' /\ Place(op'[o])
        /\ op'[o].pc = "waiting" /\ op'[o].kind = "get" /\ op'[o].of = op[o].of
        /\ op'[o].written = op[o].written /\ op'[o].verified = op[o].verified
        /\ op'[o].outcome = op[o].outcome /\ op'[o].answer = op[o].answer
        /\ op'[o].recovery = op[o].recovery
    BY ONLY <1>1, <1>2, <1>3, Begins
  <1>5. Same(o) /\ SameWait(o)
    BY ONLY <1>2, <1>3, <1>4, IdleIs DEF Same, SameWait, Own
  <1>6. op'[o].pc \notin {"validating", "ack"} /\ op[o].written = {}
    BY <1>3, <1>4, IdleIs
  <1> QED BY <1>2, <1>4, <1>5, <1>6, CalmStep

\* A draft is made on what the radio shows: its plan is new, and nobody applies it yet.
LEMMA RequestPreviewStep ==
  ASSUME IInv, NEW o \in Ops, RequestPreview(o)
  PROVE IInv'
  <1>1. /\ TypeOK /\ PlaceInv /\ PlanInv /\ PreviewInv /\ SentInv /\ RadioInv /\ PinInv
        /\ ListenInv /\ FenceInv
        /\ OpOK /\ RestOK /\ op \in [Ops -> OpTypes] /\ previews \subseteq Ops
        /\ armed # None => armed.by \in Ops
    BY Parts
  <1>2. /\ op[o].pc = "new" /\ fence = "open" /\ lock' = lock
        /\ op' = [op EXCEPT ![o].pc = "waiting", ![o].kind = "preview"]
        /\ UNCHANGED <<scenario, radio, link, manager, config, sent, touched, bounds>>
    BY DEF RequestPreview
  <1>3. PICK want \in [Paths -> Values \cup {None}] :
          /\ want # [x \in Paths |-> None]
          /\ plan' = [plan EXCEPT ![o] = [rev |-> radio, want |-> want]]
    BY DEF RequestPreview
  <1>4. op[o] = Idle
    BY <1>1, <1>2 DEF PlaceInv, Place
  <1>5. /\ Only(o) /\ OpOK' /\ Place(op'[o]) /\ op'[o].pc = "waiting"
        /\ op'[o].kind = "preview" /\ op'[o].of = op[o].of
        /\ op'[o].written = op[o].written /\ op'[o].verified = op[o].verified
        /\ op'[o].outcome = op[o].outcome /\ op'[o].answer = op[o].answer
        /\ op'[o].recovery = op[o].recovery
    BY ONLY <1>1, <1>2, <1>4, Begins
  <1>6. /\ plan' \in [Ops -> Plans] /\ \A q \in Ops : q # o => plan'[q] = plan[q]
        /\ \E x \in Paths : plan'[o].want[x] # None
    <2>1. plan \in [Ops -> Plans] /\ radio \in Radios
      BY <1>1 DEF RestOK
    <2>2. plan'[o] = [rev |-> radio, want |-> want] /\ \A q \in Ops : q # o => plan'[q] = plan[q]
      BY <1>3, <2>1
    <2>3. \E x \in Paths : want[x] # None
      BY <1>3
    <2> QED BY <1>3, <2>1, <2>2, <2>3 DEF Plans
  <1>7. UNCHANGED <<fence, cancelled, previews, pinTouched, updates>> /\ entry' = entry
    BY <1>2 DEF manager, bounds, config
  <1>8. \A q \in Ops : op[q].kind = "apply" => plan'[op[q].of] = plan[op[q].of]
    BY ONLY <1>1, <1>4, <1>6, IdleIs DEF PlanInv, PlaceInv, Place, OpTypes
  <1>9. \A q \in Ops : Same(q)
    BY ONLY <1>4, <1>5, <1>8, IdleIs DEF Only, Same, Own
  <1>10. \A q \in Ops : SameWait(q)
    BY ONLY <1>1, <1>4, <1>5, <1>8, IdleIs DEF Only, SameWait, PlaceInv, Place, Writing
  <1>11. PlaceInv'
    BY ONLY <1>1, <1>5 DEF PlaceInv, Only
  <1>12. TypeOK'
    <2>1. UNCHANGED <<scenario, radio, connected, epoch, fence, previews, cancelled, entry, running,
                      armed, listeners, reloads, torn, sent, touched, edits, drops, updates,
                      pinTouched>>
      BY ONLY <1>2 DEF link, manager, config, bounds
    <2>2. RestOK'
      BY ONLY <1>1, <1>6, <2>1 DEF RestOK
    <2> QED BY ONLY <1>5, <2>2, TypeParts
  <1>13. PlanInv' /\ PreviewInv' /\ SentInv'
    <2>1. \A q \in Ops : op'[q].kind = "preview" => \E x \in Paths : plan'[q].want[x] # None
      BY ONLY <1>1, <1>5, <1>6 DEF PlanInv, Only
    <2> QED BY ONLY <1>1, <1>2, <1>5, <1>7, <1>9, <2>1, PlansStay DEF Only
  <1>14. RadioInv'
    BY ONLY <1>1, <1>2, <1>5, <1>9, RadioStays DEF Only
  <1>15. PinInv'
    <2>1. \A q \in Ops : Settled(op'[q]) => Settled(op[q]) \/ "pin" \notin op[q].written
      BY ONLY <1>4, <1>5, IdleIs DEF Settled, Only
    <2>2. \A q \in Ops : op'[q].pc = "ack" => op[q].pc = "ack"
      BY ONLY <1>5 DEF Only
    <2> QED BY ONLY <1>1, <1>2, <1>7, <1>9, <2>1, <2>2, PinStays
  <1>16. ListenInv'
    <2>1. UNCHANGED <<scenario, config, fence, updates>>
      BY <1>2, <1>7
    <2> QED BY ONLY <1>1, <1>5, <1>10, <2>1, ListenStays DEF Only
  <1>17. FenceInv'
    BY ONLY <1>2, <1>7 DEF FenceInv
  <1> QED BY ONLY <1>11, <1>12, <1>13, <1>14, <1>15, <1>16, <1>17 DEF IInv

\* Somebody applies a preview: it is gone, whatever comes of it.
LEMMA RequestApplyStep ==
  ASSUME IInv, NEW o \in Ops, RequestApply(o)
  PROVE IInv'
  <1>1. /\ TypeOK /\ PlaceInv /\ PlanInv /\ PreviewInv /\ SentInv /\ RadioInv /\ PinInv
        /\ ListenInv /\ FenceInv
        /\ OpOK /\ RestOK /\ op \in [Ops -> OpTypes] /\ previews \subseteq Ops
        /\ armed # None => armed.by \in Ops
    BY Parts
  <1>2. /\ op[o].pc = "new" /\ fence = "open"
        /\ UNCHANGED <<scenario, radio, link, fence, cancelled, plan, lock, config, sent,
                       touched, bounds>>
    BY DEF RequestApply
  <1>3. PICK p \in {q \in Ops : op[q].outcome = "ready"}, matches \in BOOLEAN, confirmed \in BOOLEAN :
          /\ Consume(p)
          /\ op' = [op EXCEPT ![o].kind = "apply", ![o].of = p,
               ![o].pc = IF p \in previews /\ matches
                            /\ (plan[p].want["pin"] # None => confirmed)
                         THEN "waiting" ELSE "done",
               ![o].outcome = IF p \notin previews \/ ~matches THEN "expired"
                              ELSE IF plan[p].want["pin"] # None /\ ~confirmed
                              THEN "unconfirmed" ELSE "none"]
    BY DEF RequestApply
  <1> DEFINE pc == IF p \in previews /\ matches /\ (plan[p].want["pin"] # None => confirmed)
                   THEN "waiting" ELSE "done"
             outcome == IF p \notin previews \/ ~matches THEN "expired"
                        ELSE IF plan[p].want["pin"] # None /\ ~confirmed
                        THEN "unconfirmed" ELSE "none"
  <1>4. /\ p \in Ops /\ op[p].outcome = "ready" /\ previews' = previews \ {p}
        /\ op' = [op EXCEPT ![o].kind = "apply", ![o].of = p, ![o].pc = pc, ![o].outcome = outcome]
        /\ pc = "waiting" <=> outcome = "none"
        /\ outcome = "none" => p \in previews
        /\ pc \in {"waiting", "done"} /\ outcome \in {"none", "expired", "unconfirmed"}
    BY <1>3 DEF Consume
  <1> HIDE DEF pc, outcome
  <1>5. op[o] = Idle /\ p # o
    BY <1>1, <1>2, <1>4, IdleIs DEF PlaceInv, Place
  <1>6. op'[o] = [op[o] EXCEPT !.kind = "apply", !.of = p, !.pc = pc, !.outcome = outcome]
        /\ DOMAIN op' = Ops /\ \A q \in Ops : q # o => op'[q] = op[q]
    BY ONLY <1>1, <1>4
  <1>7. op[o] \in OpTypes
    BY <1>1
  <1>8. op'[o] = [pc |-> pc, kind |-> "apply", of |-> p, epoch |-> op[o].epoch,
                  at |-> op[o].at, ack |-> op[o].ack, written |-> op[o].written,
                  verified |-> op[o].verified, answer |-> op[o].answer,
                  outcome |-> outcome, recovery |-> op[o].recovery]
    BY ONLY <1>6, <1>7 DEF OpTypes
  <1>9. op'[o] \in OpTypes
    <2>1. pc \in Awaits \cup {"new", "done"} /\ outcome \in Outcomes
      BY ONLY <1>4 DEF Awaits, Outcomes
    <2>2. p \in Ops
      BY ONLY <1>4
    <2> QED BY ONLY <1>7, <1>8, <2>1, <2>2 DEF OpTypes
  <1>10. Only(o)
    <2>1. op' = [op EXCEPT ![o] = op'[o]]
      BY ONLY <1>1, <1>4, <1>6
    <2> QED BY ONLY <1>1, <1>6, <1>9, <2>1 DEF Only
  <1>11. /\ op'[o].pc = pc /\ op'[o].kind = "apply" /\ op'[o].of = p /\ op'[o].written = {}
         /\ op'[o].verified = {} /\ op'[o].answer = "none" /\ op'[o].outcome = outcome
    BY ONLY <1>5, <1>8, IdleIs
  <1>12. ~op'[o].recovery
    <2>1. op'[o].recovery = Idle.recovery
      BY ONLY <1>5, <1>8
    <2> QED BY ONLY <2>1, IdleIs
  <1>13. OpOK'
    <2>1. LockRule'
      BY ONLY <1>1, <1>2, <1>4, <1>5, <1>6, <1>11, IdleIs DEF LockRule, Awaits, OpOK
    <2> QED BY ONLY <1>1, <1>2, <1>10, <2>1 DEF OpOK, Only
  <1>14. PlaceInv'
    <2>1. Place(op'[o])
      BY ONLY <1>4, <1>11, <1>12, SettingsAssumption DEF Place, Own, Writing
    <2> QED BY ONLY <1>1, <1>6, <2>1 DEF PlaceInv
  <1>15. TypeOK'
    <2>1. UNCHANGED <<scenario, radio, connected, epoch, fence, cancelled, entry, running,
                      armed, listeners, reloads, torn, sent, touched, edits, drops, updates,
                      pinTouched, plan>>
      BY ONLY <1>2 DEF link, config, bounds
    <2>2. Cardinality(previews') <= 1
      BY <1>1, <1>4, FewerPreviews
    <2>3. RestOK'
      BY ONLY <1>1, <1>4, <2>1, <2>2 DEF RestOK
    <2> QED BY ONLY <1>13, <2>3, TypeParts
  <1>16. PlanInv'
    <2>1. \A q \in Ops : q # o /\ op'[q].kind = "apply" =>
            op'[q] = op[q] /\ op[q].of \in Ops /\ op[q].of # o
      BY ONLY <1>1, <1>5, <1>6, IdleIs DEF PlanInv, PlaceInv, Place, OpTypes
    <2>2. ASSUME NEW q \in Ops, op'[q].kind = "apply"
          PROVE op'[op'[q].of].outcome = "ready"
                /\ \A x \in op'[q].written : plan'[op'[q].of].want[x] # None
      <3>1. CASE q = o
        BY ONLY <1>4, <1>5, <1>6, <1>11, <3>1
      <3>2. CASE q # o
        BY ONLY <1>1, <1>2, <1>6, <2>1, <2>2, <3>2 DEF PlanInv
      <3> QED BY <3>1, <3>2
    <2>3. \A q \in Ops : op'[q].kind = "preview" => \E x \in Paths : plan'[q].want[x] # None
      <3>1. \A q \in Ops : op[q].kind = "preview" => \E x \in Paths : plan[q].want[x] # None
        BY ONLY <1>1 DEF PlanInv
      <3> QED BY ONLY <1>2, <1>6, <1>11, <3>1
    <2> QED BY ONLY <2>2, <2>3 DEF PlanInv
  <1>17. \A q \in Ops : q # o => (Own(op'[q]) <=> Own(op[q])) /\ op'[q].of = op[q].of
    BY ONLY <1>6
  <1>18. Own(op'[o]) => p \in previews
    BY ONLY <1>4, <1>11 DEF Own
  <1>19. PreviewInv'
    <2>1. \A q \in previews' : op'[q].outcome = "ready"
      BY ONLY <1>1, <1>4, <1>5, <1>6, IdleIs DEF PreviewInv
    <2>2. \A q \in Ops : Own(op'[q]) => op'[q].of \notin previews'
      BY ONLY <1>1, <1>4, <1>11, <1>17 DEF PreviewInv
    <2>3. \A q, r \in Ops : Own(op'[q]) /\ Own(op'[r]) /\ op'[q].of = op'[r].of => q = r
      BY ONLY <1>1, <1>11, <1>17, <1>18 DEF PreviewInv
    <2> QED BY <2>1, <2>2, <2>3 DEF PreviewInv
  <1>20. SentInv'
    <2>1. Own(op'[o]) => \A x \in Paths : sent[p][x] = 0
      BY ONLY <1>1, <1>4, <1>18 DEF SentInv, PreviewInv
    <2>2. \A q \in Ops : Own(op'[q]) =>
            \A x \in Paths : sent'[op'[q].of][x] = IF x \in op'[q].written THEN 1 ELSE 0
      <3>1. ASSUME NEW q \in Ops, q # o, Own(op'[q]), NEW x \in Paths
            PROVE sent'[op'[q].of][x] = IF x \in op'[q].written THEN 1 ELSE 0
        BY ONLY <1>1, <1>2, <1>6, <3>1 DEF SentInv
      <3>2. ASSUME Own(op'[o]), NEW x \in Paths
            PROVE sent'[op'[o].of][x] = IF x \in op'[o].written THEN 1 ELSE 0
        BY ONLY <1>2, <1>11, <2>1, <3>2
      <3> QED BY ONLY <3>1, <3>2
    <2>3. ~Own(op[o])
      BY ONLY <1>5, IdleIs DEF Own
    <2>4. \A q \in Ops : (\A r \in Ops : Own(op'[r]) => op'[r].of # q) =>
            \A x \in Paths : sent'[q][x] = 0
      BY ONLY <1>1, <1>2, <1>17, <2>3 DEF SentInv
    <2> QED BY ONLY <2>2, <2>4 DEF SentInv
  <1>21. RadioInv'
    BY ONLY <1>1, <1>2, <1>4, <1>6, <1>11 DEF RadioInv
  <1>22. UNCHANGED <<pinTouched, updates>> /\ entry' = entry
    BY <1>2 DEF bounds, config
  <1>23. PinInv'
    <2>1. \A q \in Ops : q # o => HandsPinOver(q)' = HandsPinOver(q)
      BY ONLY <1>2, <1>6 DEF HandsPinOver, WantsPin, HandsOver
    <2>2. \A q \in Ops :
            /\ ~pinTouched' /\ lock' = q => "pin" \notin touched'[q]
            /\ op'[q].pc = "ack" => /\ HandsPinOver(q)'
                                    /\ ~pinTouched' => entry'.pin = plan'[op'[q].of].want["pin"]
      BY ONLY <1>1, <1>2, <1>4, <1>6, <1>11, <1>22, <2>1 DEF PinInv
    <2>3. (HandsOver' /\ ~pinTouched' /\ \A q \in Ops : "pin" \in op'[q].written => Settled(op'[q]))
             => entry'.pin = radio'["pin"]
      BY ONLY <1>1, <1>2, <1>5, <1>6, <1>22, IdleIs DEF PinInv, HandsOver
    <2> QED BY ONLY <2>2, <2>3 DEF PinInv
  <1>24. ListenInv'
    <2>1. \A q \in Ops : SameWait(q)
      BY ONLY <1>2, <1>4, <1>5, <1>6, <1>11, <1>12, IdleIs DEF SameWait
    <2>2. UNCHANGED <<scenario, config, fence, updates>>
      BY <1>2, <1>22
    <2> QED BY ONLY <1>1, <1>10, <2>1, <2>2, ListenStays DEF Only
  <1>25. FenceInv'
    BY ONLY <1>2 DEF FenceInv
  <1> QED BY ONLY <1>14, <1>15, <1>16, <1>19, <1>20, <1>21, <1>23, <1>24, <1>25 DEF IInv

\* The operations, their plans and the lock stay as they are.
LEMMA OpsStay ==
  ASSUME IInv, op' = op, lock' = lock, plan' = plan
  PROVE /\ OpOK' /\ PlaceInv' /\ op' \in [Ops -> OpTypes]
        /\ \A q \in Ops : Same(q) /\ SameWait(q)
        /\ \A q \in Ops : op'[q].kind = "preview" => \E x \in Paths : plan'[q].want[x] # None
  <1>1. OpOK /\ PlaceInv /\ PlanInv /\ op \in [Ops -> OpTypes]
    BY Parts
  <1>2. OpOK'
    BY <1>1 DEF OpOK, LockRule
  <1>3. PlaceInv'
    BY <1>1 DEF PlaceInv
  <1>4. \A q \in Ops : Same(q) /\ SameWait(q)
    BY DEF Same, SameWait, Own
  <1> QED BY <1>1, <1>2, <1>3, <1>4 DEF PlanInv

\* A preview ends.
LEMMA ExpireStep ==
  ASSUME IInv, NEW p \in Ops, Expire(p)
  PROVE IInv'
  <1>1. /\ TypeOK /\ PlaceInv /\ PlanInv /\ PreviewInv /\ SentInv /\ RadioInv /\ PinInv
        /\ ListenInv /\ FenceInv
        /\ OpOK /\ RestOK /\ op \in [Ops -> OpTypes] /\ previews \subseteq Ops
        /\ armed # None => armed.by \in Ops
    BY Parts
  <1>2. /\ previews' = previews \ {p}
        /\ UNCHANGED <<scenario, radio, link, fence, cancelled, plan, lock, op, config, sent,
                       touched, bounds>>
    BY DEF Expire
  <1>3. /\ OpOK' /\ PlaceInv' /\ op' \in [Ops -> OpTypes]
        /\ \A q \in Ops : Same(q) /\ SameWait(q)
        /\ \A q \in Ops : op'[q].kind = "preview" => \E x \in Paths : plan'[q].want[x] # None
    BY ONLY IInv, <1>2, OpsStay
  <1>4. UNCHANGED <<scenario, radio, connected, epoch, fence, cancelled, entry, running,
                      armed, listeners, reloads, torn, sent, touched, edits, drops, updates,
                      pinTouched, plan>>
    BY ONLY <1>2 DEF link, config, bounds
  <1>5. TypeOK'
    <2>1. Cardinality(previews') <= 1
      BY ONLY <1>1, <1>2, FewerPreviews
    <2>2. RestOK'
      BY ONLY <1>1, <1>2, <1>4, <2>1 DEF RestOK
    <2> QED BY ONLY <1>3, <2>2, TypeParts
  <1>6. PlanInv' /\ PreviewInv' /\ SentInv'
    BY ONLY <1>1, <1>2, <1>3, <1>4, PlansStay
  <1>7. RadioInv'
    BY ONLY <1>1, <1>2, <1>3, <1>4, RadioStays
  <1>8. PinInv'
    BY ONLY <1>1, <1>2, <1>3, <1>4, PinStays
  <1>9. ListenInv'
    BY ONLY <1>1, <1>2, <1>3, <1>4, ListenStays
  <1>10. FenceInv'
    BY ONLY <1>1, <1>2, <1>4, FenceStays
  <1> QED BY ONLY <1>3, <1>5, <1>6, <1>7, <1>8, <1>9, <1>10 DEF IInv

\* The lock of the gateway comes to a waiting operation.
LEMMA TakeLockStep ==
  ASSUME IInv, NEW o \in Ops, TakeLock(o)
  PROVE IInv'
  <1>1. /\ TypeOK /\ PlaceInv /\ PlanInv /\ PreviewInv /\ SentInv /\ RadioInv /\ PinInv
        /\ ListenInv /\ FenceInv
        /\ OpOK /\ RestOK /\ op \in [Ops -> OpTypes] /\ previews \subseteq Ops
        /\ armed # None => armed.by \in Ops
    BY Parts
  <1>2. /\ op[o].pc = "waiting" /\ lock = None /\ lock' = o
        /\ op' = [op EXCEPT ![o].pc = "reading"]
        /\ touched' = [touched EXCEPT ![o] = {}]
        /\ UNCHANGED <<scenario, radio, link, manager, plan, config, sent, bounds>>
    BY DEF TakeLock
  <1>3. op[o] \in OpTypes /\ Place(op[o])
    BY ONLY <1>1, o \in Ops DEF PlaceInv
  <1>4. op'[o] = [op[o] EXCEPT !.pc = "reading"] /\ \A q \in Ops : q # o => op'[q] = op[q]
    BY ONLY <1>1, <1>2
  <1>5. /\ op'[o] \in OpTypes
        /\ op'[o].pc = "reading" /\ op'[o].kind = op[o].kind /\ op'[o].of = op[o].of
        /\ op'[o].written = op[o].written /\ op'[o].verified = op[o].verified
        /\ op'[o].outcome = op[o].outcome /\ op'[o].answer = op[o].answer
        /\ op'[o].recovery = op[o].recovery
    BY ONLY <1>3, <1>4 DEF OpTypes, Awaits
  <1>6. Only(o)
    BY ONLY <1>1, <1>2, <1>4, <1>5 DEF Only
  <1>7. OpOK'
    <2>1. LockRule'
      BY ONLY <1>1, <1>2, <1>4, <1>5, SettingsAssumption DEF LockRule, OpOK, Awaits
    <2> QED BY ONLY <1>2, <1>6, <2>1, o \in Ops DEF OpOK, Only
  <1>8. PlaceInv'
    <2>1. Place(op'[o])
      BY ONLY <1>2, <1>3, <1>5 DEF Place, Own, Writing
    <2> QED BY ONLY <1>1, <1>4, <2>1 DEF PlaceInv
  <1>9. \A q \in Ops : Same(q) /\ SameWait(q)
    BY ONLY <1>2, <1>4, <1>5 DEF Same, SameWait, Own
  <1>10. UNCHANGED <<scenario, radio, connected, epoch, fence, previews, cancelled, entry, running,
                      armed, listeners, reloads, torn, sent, edits, drops, updates,
                      pinTouched, plan>>
    BY ONLY <1>2 DEF link, manager, config, bounds
  <1>11. touched' \in [Ops -> SUBSET Paths] /\ touched'[o] = {}
         /\ \A q \in Ops : q # o => touched'[q] = touched[q]
    BY ONLY <1>1, <1>2, o \in Ops DEF RestOK
  <1>12. TypeOK'
    <2>1. RestOK'
      BY ONLY <1>1, <1>10, <1>11 DEF RestOK
    <2> QED BY ONLY <1>7, <2>1, TypeParts
  <1>13. PlanInv' /\ PreviewInv' /\ SentInv'
    <2>1. \A q \in Ops : op'[q].kind = "preview" => \E x \in Paths : plan'[q].want[x] # None
      BY ONLY <1>1, <1>4, <1>5, <1>10, PlansAsk
    <2> QED BY ONLY <1>1, <1>6, <1>9, <1>10, <2>1, PlansStay DEF Only
  <1>14. RadioInv'
    BY ONLY <1>1, <1>2, <1>3, <1>4, <1>5, <1>10, <1>11 DEF RadioInv, Place
  <1>15. PinInv'
    <2>1. \A q \in Ops : HandsPinOver(q)' = HandsPinOver(q)
      <3>1. \A q \in Ops : op'[q].of = op[q].of /\ op'[q].verified = op[q].verified
        BY ONLY <1>4, <1>5
      <3>2. scenario' = scenario /\ plan' = plan
        BY ONLY <1>10
      <3> QED BY ONLY <3>1, <3>2 DEF HandsPinOver, WantsPin, HandsOver
    <2>2. \A q \in Ops :
            /\ ~pinTouched' /\ lock' = q => "pin" \notin touched'[q]
            /\ op'[q].pc = "ack" => /\ HandsPinOver(q)'
                                    /\ ~pinTouched' => entry'.pin = plan'[op'[q].of].want["pin"]
      BY ONLY <1>1, <1>2, <1>4, <1>5, <1>10, <1>11, <2>1 DEF PinInv
    <2>3. (HandsOver' /\ ~pinTouched' /\ \A q \in Ops : "pin" \in op'[q].written => Settled(op'[q]))
             => entry'.pin = radio'["pin"]
      BY ONLY <1>1, <1>2, <1>4, <1>5, <1>10 DEF PinInv, HandsOver, Settled
    <2> QED BY ONLY <2>2, <2>3 DEF PinInv
  <1>16. ListenInv'
    BY ONLY <1>1, <1>2, <1>6, <1>9, <1>10, ListenStays DEF Only
  <1>17. FenceInv'
    BY ONLY <1>1, <1>2, <1>4, <1>10, FenceStays DEF Awaits
  <1> QED BY ONLY <1>8, <1>12, <1>13, <1>14, <1>15, <1>16, <1>17 DEF IInv

\* The radio is as the preview expects it; or the gateway gets a new preview, or
\* the operation ends.
LEMMA PreviewReadStep ==
  ASSUME IInv, NEW o \in Ops, PreviewRead(o)
  PROVE IInv'
  <1>1. /\ TypeOK /\ PlaceInv /\ PlanInv /\ PreviewInv /\ SentInv /\ RadioInv /\ PinInv
        /\ ListenInv /\ FenceInv
        /\ OpOK /\ RestOK /\ op \in [Ops -> OpTypes] /\ previews \subseteq Ops
        /\ armed # None => armed.by \in Ops
    BY Parts
  <1>2. /\ op[o].pc = "reading" /\ op[o].kind = "preview" /\ Free(o)
        /\ UNCHANGED <<scenario, radio, link, fence, cancelled, plan, config, sent, touched,
                       bounds>>
        /\ \/ Leave(o, "conflict", FALSE) /\ previews' = previews
           \/ Leave(o, "ready", FALSE) /\ previews' = {o}
    BY DEF PreviewRead
  <1>3. /\ op[o].pc \in Awaits \ {"ack"} /\ op[o].written = {} /\ op[o].outcome = "none"
        /\ ~op[o].recovery
    BY ONLY <1>1, <1>2, o \in Ops DEF Awaits, PlaceInv, Place
  <1>4. CASE Leave(o, "conflict", FALSE) /\ previews' = previews
    <2>1. "conflict" \in Outcomes \ {"none", "expired", "unconfirmed", "ready"}
      BY DEF Outcomes
    <2>2. UNCHANGED <<scenario, radio, link, manager, plan, config, sent, touched, bounds>>
      BY ONLY <1>2, <1>4 DEF manager
    <2> QED BY ONLY IInv, o \in Ops, <1>3, <1>4, <2>1, <2>2, EndStep
  <1>5. ASSUME Leave(o, "ready", FALSE), previews' = {o}
        PROVE IInv'
    <2>1. "ready" \in Outcomes \ {"none", "expired", "unconfirmed"} /\ op[o].pc \in Awaits
      BY ONLY <1>3 DEF Outcomes
    <2>2. plan' = plan
      BY ONLY <1>2
    <2>3. PlaceInv' /\ OpOK' /\ \A q \in Ops : Same(q)
      BY ONLY <1>1, <1>2, <1>5, <2>1, <2>2, o \in Ops, LeaveKeeps
    <2>4. /\ Only(o)
          /\ op'[o].pc = "done" /\ op'[o].outcome = "ready" /\ op'[o].recovery = FALSE
          /\ op'[o].kind = op[o].kind /\ op'[o].of = op[o].of /\ op'[o].answer = op[o].answer
          /\ lock' \in {lock, None}
      BY ONLY <1>1, <1>5, <2>1, o \in Ops, LeaveFacts
    <2>5. UNCHANGED <<scenario, radio, connected, epoch, fence, cancelled, entry, running,
                      armed, listeners, reloads, torn, sent, touched, edits, drops, updates,
                      pinTouched, plan>>
      BY ONLY <1>2 DEF link, config, bounds
    <2>6. op' \in [Ops -> OpTypes] /\ \A q \in Ops : q # o => op'[q] = op[q]
      BY ONLY <2>4 DEF Only
    <2>7. TypeOK'
      <3>1. Cardinality(previews') <= 1
        BY ONLY <1>5, FS_Singleton
      <3>2. RestOK'
        BY ONLY <1>1, <1>5, o \in Ops, <2>5, <3>1 DEF RestOK
      <3> QED BY ONLY <2>3, <3>2, TypeParts
    <2>8. \A q \in Ops : op'[q].kind = op[q].kind
      BY ONLY <2>4, <2>6
    <2>9. PlanInv' /\ SentInv' /\ (\A q, r \in Ops : Own(op'[q]) /\ Own(op'[r]) /\ op'[q].of = op'[r].of
                                      => q = r)
      <3>1. \A q \in Ops : op'[q].kind = "preview" => \E x \in Paths : plan'[q].want[x] # None
        BY ONLY <1>1, <2>5, <2>8, PlansAsk
      <3>2. \A q \in Ops : op[q].kind = "apply" => op[q].of \in Ops
        BY ONLY <1>1 DEF PlaceInv, Place, OpTypes
      <3>3. PlanInv'
        BY ONLY <1>1, <2>3, <2>5, <3>1, <3>2 DEF PlanInv, Same
      <3>4. SentInv'
        BY ONLY <1>1, <2>3, <2>5 DEF SentInv, Same
      <3> QED BY ONLY <1>1, <2>3, <3>3, <3>4 DEF PreviewInv, Same
    <2>10. PreviewInv'
      <3>1. ASSUME NEW q \in Ops, Own(op'[q])
            PROVE op'[q].of # o
        BY ONLY <1>1, <1>3, <2>3, <3>1 DEF PlanInv, Own, Same
      <3> QED BY ONLY <1>5, <2>4, <2>9, <3>1 DEF PreviewInv
    <2>11. RadioInv'
      <3>1. \A q \in Ops : op'[q].pc = "validating" => op[q].pc = "validating"
        BY ONLY <2>4, <2>6
      <3> QED BY ONLY <1>1, <2>3, <2>5, <3>1, RadioStays
    <2>12. PinInv'
      <3>1. \A q \in Ops : Settled(op'[q]) => Settled(op[q]) \/ "pin" \notin op[q].written
        BY ONLY <2>4, <2>6 DEF Settled
      <3>2. \A q \in Ops : op'[q].pc = "ack" => op[q].pc = "ack"
        BY ONLY <2>4, <2>6
      <3> QED BY ONLY <1>1, <2>3, <2>4, <2>5, <3>1, <3>2, PinStays
    <2>13. ListenInv'
      <3>1. \A q \in Ops : SameWait(q)
        BY ONLY <1>2, <1>3, <2>4, <2>5, <2>6 DEF SameWait
      <3> QED BY ONLY <1>1, <1>2, <2>5, <2>6, <3>1, ListenStays
    <2>14. FenceInv'
      <3>1. fence = "open"
        BY ONLY <1>1, <1>2, <2>1, o \in Ops DEF FenceInv, Free, Active
      <3> QED BY ONLY <2>5, <3>1 DEF FenceInv
    <2> QED BY ONLY <2>3, <2>7, <2>9, <2>10, <2>11, <2>12, <2>13, <2>14 DEF IInv
  <1> QED BY ONLY <1>2, <1>4, <1>5

\* The radio is as the plan expects it, and the adapter begins; or the apply ends.
LEMMA ApplyReadStep ==
  ASSUME IInv, NEW o \in Ops, ApplyRead(o)
  PROVE IInv'
  <1>1. /\ TypeOK /\ PlaceInv /\ PlanInv /\ PreviewInv /\ SentInv /\ RadioInv /\ PinInv
        /\ ListenInv /\ FenceInv
        /\ OpOK /\ RestOK /\ op \in [Ops -> OpTypes] /\ previews \subseteq Ops
        /\ armed # None => armed.by \in Ops
    BY Parts
  <1>2. /\ op[o].pc = "reading" /\ op[o].kind = "apply"
        /\ UNCHANGED <<scenario, radio, link, manager, plan, config, sent, touched, bounds>>
        /\ \/ Leave(o, "conflict", FALSE)
           \/ /\ plan[op[o].of].rev = radio /\ lock' = lock
              /\ op' = [op EXCEPT ![o].pc = "validating", ![o].epoch = epoch]
    BY DEF ApplyRead
  <1>3. /\ op[o].pc \in Awaits \ {"ack"} /\ op[o].written = {} /\ op[o].verified = {}
    BY ONLY <1>1, <1>2, o \in Ops DEF Awaits, PlaceInv, Place
  <1>4. CASE Leave(o, "conflict", FALSE)
    <2>1. "conflict" \in Outcomes \ {"none", "expired", "unconfirmed", "ready"}
      BY DEF Outcomes
    <2> QED BY ONLY IInv, o \in Ops, <1>2, <1>3, <1>4, <2>1, EndStep
  <1>5. ASSUME plan[op[o].of].rev = radio, lock' = lock,
               op' = [op EXCEPT ![o].pc = "validating", ![o].epoch = epoch]
        PROVE IInv'
    <2>1. op[o] \in OpTypes /\ Place(op[o]) /\ epoch \in Nat
      BY ONLY <1>1, o \in Ops DEF PlaceInv, RestOK
    <2>2. op'[o] = [op[o] EXCEPT !.pc = "validating", !.epoch = epoch]
          /\ \A q \in Ops : q # o => op'[q] = op[q]
      BY ONLY <1>1, <1>5
    <2>3. /\ op'[o] \in OpTypes
          /\ op'[o].pc = "validating" /\ op'[o].kind = op[o].kind /\ op'[o].of = op[o].of
          /\ op'[o].written = op[o].written /\ op'[o].verified = op[o].verified
          /\ op'[o].outcome = op[o].outcome /\ op'[o].answer = op[o].answer
          /\ op'[o].recovery = op[o].recovery
      BY ONLY <2>1, <2>2 DEF OpTypes, Awaits
    <2>4. Only(o)
      BY ONLY <1>1, <1>5, <2>2, <2>3 DEF Only
    <2>5. OpOK'
      <3>1. LockRule'
        BY ONLY <1>1, <1>2, <1>5, <2>2, <2>3 DEF LockRule, OpOK, Awaits
      <3> QED BY ONLY <1>1, <1>5, <2>4, <3>1 DEF OpOK, Only
    <2>6. PlaceInv'
      <3>1. Place(op'[o])
        BY ONLY <1>2, <2>1, <2>3 DEF Place, Own, Writing
      <3> QED BY ONLY <1>1, <2>2, <3>1 DEF PlaceInv
    <2>7. UNCHANGED <<scenario, radio, connected, epoch, fence, previews, cancelled, entry, running,
                      armed, listeners, reloads, torn, sent, touched, edits, drops, updates,
                      pinTouched, plan>>
      BY ONLY <1>2 DEF link, manager, config, bounds
    <2>8. \A q \in Ops : Same(q) /\ SameWait(q) /\ op'[q].kind = op[q].kind
      <3>1. plan' = plan
        BY ONLY <2>7
      <3>2. Same(o) /\ SameWait(o) /\ op'[o].kind = op[o].kind
        BY ONLY <1>2, <2>3, <3>1 DEF Same, SameWait, Own
      <3>3. \A q \in Ops : q # o => Same(q) /\ SameWait(q) /\ op'[q].kind = op[q].kind
        BY ONLY <2>2, <3>1 DEF Same, SameWait, Own
      <3> QED BY ONLY <3>2, <3>3
    <2>9. TypeOK'
      <3>1. RestOK'
        BY ONLY <1>1, <1>2, RestStays
      <3> QED BY ONLY <2>5, <3>1, TypeParts
    <2>10. PlanInv' /\ PreviewInv' /\ SentInv'
      <3>1. \A q \in Ops : op'[q].kind = "preview" => \E x \in Paths : plan'[q].want[x] # None
        BY ONLY <1>1, <2>7, <2>8, PlansAsk
      <3> QED BY ONLY <1>1, <2>4, <2>7, <2>8, <3>1, PlansStay DEF Only
    <2>11. RadioInv'
      BY ONLY <1>1, <1>3, <1>5, <2>2, <2>3, <2>7 DEF RadioInv
    <2>12. PinInv'
      <3>1. \A q \in Ops : Settled(op'[q]) => Settled(op[q]) \/ "pin" \notin op[q].written
        BY ONLY <1>3, <2>2 DEF Settled
      <3>2. \A q \in Ops : op'[q].pc = "ack" => op[q].pc = "ack"
        BY ONLY <2>2, <2>3
      <3> QED BY ONLY <1>1, <1>5, <2>7, <2>8, <3>1, <3>2, PinStays
    <2>13. ListenInv'
      BY ONLY <1>1, <1>2, <2>4, <2>7, <2>8, ListenStays DEF Only
    <2>14. FenceInv'
      <3>1. \A q \in Ops : op'[q].pc \in Awaits => op[q].pc \in Awaits
        BY ONLY <1>3, <2>2
      <3> QED BY ONLY <1>1, <2>7, <3>1, FenceStays
    <2> QED BY ONLY <2>6, <2>9, <2>10, <2>11, <2>12, <2>13, <2>14 DEF IInv
  <1> QED BY ONLY <1>2, <1>4, <1>5

-----------------------------------------------------------------------------
(* Commands and their readback *)

\* While something is pending, the next field is: it was not written, and the
\* plan has a value for it.
LEMMA NextIsPending ==
  ASSUME NEW o \in Ops, op[o].of \in Ops, plan \in [Ops -> Plans], Pending(o) # {}
  PROVE /\ NextPath(o) \in Paths /\ NextPath(o) \notin op[o].written
        /\ plan[op[o].of].want[NextPath(o)] # None
        /\ plan[op[o].of].want[NextPath(o)] \in Values
  <1>1. NextPath(o) \in Pending(o)
    BY DEF NextPath, Pending, Paths
  <1>2. plan[op[o].of].want \in [Paths -> Values \cup {None}]
    BY DEF Plans
  <1> QED BY <1>1, <1>2 DEF Pending

\* The holder of the lock is the only one with work in hand.
LEMMA HolderWorks ==
  ASSUME OpOK, NEW o \in Ops, op[o].pc \in Writing, NEW q \in Ops, q # o
  PROVE lock = o /\ lock # q /\ op[q].pc \notin Writing
  BY DEF OpOK, LockRule, Writing, Awaits

\* A command of the plan: what it may do to the radio, and who takes notice.
LEMMA TransmitStep ==
  ASSUME IInv, NEW o \in Ops, op[o].pc \in {"validating", "verifying"}, Pending(o) # {},
         NEW proved \in SUBSET Paths, proved \subseteq op[o].written,
         \A x \in proved \ touched[o] : radio[x] = plan[op[o].of].want[x],
         Transmit(o, NextPath(o), proved), lock' = lock,
         UNCHANGED <<scenario, link, manager, plan, config, bounds>>
  PROVE IInv'
  <1>1. /\ TypeOK /\ PlaceInv /\ PlanInv /\ PreviewInv /\ SentInv /\ RadioInv /\ PinInv
        /\ ListenInv /\ FenceInv
        /\ OpOK /\ RestOK /\ op \in [Ops -> OpTypes] /\ previews \subseteq Ops
        /\ armed # None => armed.by \in Ops
    BY Parts
  <1>2. op[o] \in OpTypes /\ Place(op[o])
    BY ONLY <1>1, o \in Ops DEF PlaceInv
  <1>3. /\ op[o].kind = "apply" /\ op[o].outcome = "none" /\ op[o].of \in Ops
        /\ op[o].answer = "none" /\ ~op[o].recovery /\ Own(op[o])
    BY ONLY <1>2, op[o].pc \in {"validating", "verifying"} DEF Place, OpTypes, Writing, Own
  <1> DEFINE p == op[o].of
             x == NextPath(o)
             v == plan[p].want[x]
  <1>4. p \in Ops /\ x \in Paths /\ x \notin op[o].written /\ v # None /\ v \in Values
    BY <1>1, <1>3, NextIsPending DEF RestOK
  <1>5. PICK ack \in {"ok", "timeout", "rejected"}, lands \in BOOLEAN :
          /\ radio' = IF lands THEN [radio EXCEPT ![x] = v] ELSE radio
          /\ sent' = [sent EXCEPT ![p][x] = IF @ < 2 THEN @ + 1 ELSE @]
          /\ touched' = [q \in Ops |-> IF lands /\ q # o THEN touched[q] \cup {x} ELSE touched[q]]
          /\ op' = [op EXCEPT ![o].pc = "acking", ![o].at = x, ![o].ack = ack,
                              ![o].written = @ \cup {x}, ![o].verified = proved]
    BY ONLY Transmit(o, NextPath(o), proved) DEF Transmit
  <1>6. p = op[o].of /\ x = NextPath(o) /\ v = plan[p].want[x]
    OBVIOUS
  <1> HIDE DEF p, x, v
  <1>7. op'[o] = [op[o] EXCEPT !.pc = "acking", !.at = x, !.ack = ack,
                               !.written = op[o].written \cup {x}, !.verified = proved]
        /\ \A q \in Ops : q # o => op'[q] = op[q]
    BY ONLY <1>1, <1>5
  <1>8. /\ op'[o] \in OpTypes
        /\ op'[o].pc = "acking" /\ op'[o].kind = op[o].kind /\ op'[o].of = p /\ op'[o].at = x
        /\ op'[o].written = op[o].written \cup {x} /\ op'[o].verified = proved
        /\ op'[o].outcome = op[o].outcome /\ op'[o].answer = op[o].answer
        /\ op'[o].recovery = op[o].recovery
    <2>1. /\ ack \in {"none", "ok", "timeout", "rejected"} /\ "acking" \in Awaits \cup {"new", "done"}
          /\ op[o].written \cup {x} \in SUBSET Paths /\ proved \in SUBSET Paths /\ x \in Paths
      BY ONLY <1>2, <1>4, ack \in {"ok", "timeout", "rejected"}, proved \in SUBSET Paths
         DEF OpTypes, Awaits
    <2>2. op'[o] = [pc |-> "acking", kind |-> op[o].kind, of |-> op[o].of, epoch |-> op[o].epoch,
                    at |-> x, ack |-> ack, written |-> op[o].written \cup {x},
                    verified |-> proved, answer |-> op[o].answer, outcome |-> op[o].outcome,
                    recovery |-> op[o].recovery]
      BY ONLY <1>2, <1>7 DEF OpTypes
    <2>3. op'[o] \in OpTypes
      BY ONLY <1>2, <2>1, <2>2 DEF OpTypes
    <2> QED BY ONLY <1>6, <2>2, <2>3
  <1>9. Only(o)
    <2>1. op' = [op EXCEPT ![o] = op'[o]]
      BY ONLY <1>1, <1>5, <1>7
    <2> QED BY ONLY <1>1, <1>7, <1>8, <2>1 DEF Only
  <1>10. op[o].pc \in Writing \ {"ack"}
    BY DEF Writing
  <1>11. OpOK'
    <2>1. LockRule'
      BY ONLY <1>1, <1>7, <1>8, <1>10, lock' = lock DEF LockRule, OpOK, Awaits, Writing
    <2> QED BY ONLY <1>1, <1>9, <2>1, lock' = lock DEF OpOK, Only
  <1>12. PlaceInv'
    <2>1. Place(op'[o])
      BY ONLY <1>2, <1>3, <1>4, <1>6, <1>8, proved \subseteq op[o].written DEF Place, Own, Writing
    <2> QED BY ONLY <1>1, <1>7, <2>1 DEF PlaceInv
  <1>13. UNCHANGED <<scenario, connected, epoch, fence, previews, cancelled, entry, running,
                      armed, listeners, reloads, torn, edits, drops, updates, pinTouched, plan>>
    BY ONLY UNCHANGED <<scenario, link, manager, plan, config, bounds>>
       DEF link, manager, config, bounds
  <1>14. /\ radio' \in Radios /\ \A y \in Paths : y # x => radio'[y] = radio[y]
         /\ ~lands => radio' = radio
    BY ONLY <1>1, <1>4, <1>5 DEF RestOK, Radios
  <1>15. /\ touched' \in [Ops -> SUBSET Paths] /\ touched'[o] = touched[o]
         /\ \A q \in Ops : touched[q] \subseteq touched'[q]
         /\ lands => \A q \in Ops : q # o => x \in touched'[q]
    BY ONLY <1>1, <1>4, <1>5, o \in Ops DEF RestOK
  <1>16. /\ sent' \in [Ops -> [Paths -> 0..2]] /\ \A q \in Ops : q # p => sent'[q] = sent[q]
         /\ \A y \in Paths : y # x => sent'[p][y] = sent[p][y]
         /\ sent[p][x] = 0 => sent'[p][x] = 1
    <2>1. sent[p][x] \in 0..2 /\ sent \in [Ops -> [Paths -> 0..2]]
      BY ONLY <1>1, <1>4 DEF RestOK
    <2>2. (IF sent[p][x] < 2 THEN sent[p][x] + 1 ELSE sent[p][x]) \in 0..2
      BY ONLY <2>1
    <2> QED BY ONLY <1>4, <1>5, <2>1, <2>2
  <1>17. TypeOK'
    <2>1. RestOK'
      BY ONLY <1>1, <1>13, <1>14, <1>15, <1>16 DEF RestOK
    <2> QED BY ONLY <1>11, <2>1, TypeParts
  <1>18. \A q \in Ops : /\ op'[q].kind = op[q].kind /\ op'[q].of = op[q].of
                        /\ op'[q].outcome = op[q].outcome
                        /\ Own(op'[q]) <=> Own(op[q])
    BY ONLY <1>6, <1>7, <1>8 DEF Own
  <1>19. PlanInv'
    <2>1. \A q \in Ops : op'[q].kind = "preview" => \E y \in Paths : plan'[q].want[y] # None
      BY ONLY <1>1, <1>13, <1>18, PlansAsk
    <2>2. \A q \in Ops : op[q].kind = "apply" => op[q].of \in Ops
      BY ONLY <1>1 DEF PlaceInv, Place, OpTypes
    <2>3. ASSUME NEW q \in Ops, op'[q].kind = "apply"
          PROVE op'[op'[q].of].outcome = "ready"
      BY ONLY <1>1, <1>18, <2>2, <2>3 DEF PlanInv
    <2>4. ASSUME NEW q \in Ops, op'[q].kind = "apply", NEW y \in op'[q].written
          PROVE plan'[op'[q].of].want[y] # None
      <3>1. CASE q # o
        BY ONLY <1>1, <1>7, <1>13, <2>4, <3>1 DEF PlanInv
      <3>2. CASE q = o
        BY ONLY <1>1, <1>3, <1>4, <1>6, <1>8, <1>13, <2>4, <3>2 DEF PlanInv
      <3> QED BY <3>1, <3>2
    <2> QED BY ONLY <2>1, <2>3, <2>4 DEF PlanInv
  <1>20. PreviewInv'
    <2>1. \A q \in previews' : op'[q].outcome = "ready"
      BY ONLY <1>1, <1>13, <1>18 DEF PreviewInv
    <2> QED BY ONLY <1>1, <1>13, <1>18, <2>1 DEF PreviewInv
  <1>21. \A q \in Ops : q # o /\ Own(op[q]) => op[q].of # p
    BY ONLY <1>1, <1>3, <1>6, o \in Ops DEF PreviewInv
  <1>22. SentInv'
    <2>1. sent'[p][x] = 1 /\ \A y \in Paths : y # x => sent'[p][y] = IF y \in op[o].written THEN 1 ELSE 0
      BY ONLY <1>1, <1>3, <1>4, <1>6, <1>16, o \in Ops DEF SentInv
    <2>2. ASSUME NEW q \in Ops, Own(op'[q]), NEW y \in Paths
          PROVE sent'[op'[q].of][y] = IF y \in op'[q].written THEN 1 ELSE 0
      <3>1. CASE q = o
        BY ONLY <1>8, <2>1, <3>1, y \in Paths
      <3>2. CASE q # o
        <4>1. op[q].of \in Ops /\ op[q].of # p /\ Own(op[q]) /\ op'[q] = op[q]
          BY ONLY <1>1, <1>7, <1>18, <1>21, <2>2, <3>2 DEF PlaceInv, Place, OpTypes, Own
        <4> QED BY ONLY <1>1, <1>16, <4>1, y \in Paths, q \in Ops DEF SentInv
      <3> QED BY <3>1, <3>2
    <2>3. ASSUME NEW q \in Ops, \A r \in Ops : Own(op'[r]) => op'[r].of # q, NEW y \in Paths
          PROVE sent'[q][y] = 0
      <3>1. q # p
        BY ONLY <1>3, <1>6, <1>18, <2>3, o \in Ops
      <3> QED BY ONLY <1>1, <1>16, <1>18, <2>3, <3>1 DEF SentInv
    <2> QED BY ONLY <2>2, <2>3 DEF SentInv
  <1>23. \A q \in Ops : q # o => lock = o /\ lock # q /\ op[q].pc \notin Writing
    BY ONLY <1>1, <1>10, o \in Ops, HolderWorks
  <1>24. RadioInv'
    <2>1. ASSUME NEW q \in Ops, NEW y \in op'[q].verified \ touched'[q]
          PROVE radio'[y] = plan'[op'[q].of].want[y]
      <3>1. CASE q = o
        <4>1. y \in proved /\ y \in Paths /\ y # x /\ y \notin touched[o]
          BY ONLY <1>4, <1>8, <1>15, <2>1, <3>1, proved \in SUBSET Paths, proved \subseteq op[o].written
        <4> QED BY ONLY <1>6, <1>8, <1>13, <1>14, <3>1, <4>1,
               \A z \in proved \ touched[o] : radio[z] = plan[op[o].of].want[z]
      <3>2. CASE q # o
        <4>1. y \in op[q].verified \ touched[q] /\ (lands => y # x) /\ y \in Paths
          BY ONLY <1>1, <1>7, <1>15, <2>1, <3>2 DEF OpTypes
        <4> QED BY ONLY <1>1, <1>7, <1>13, <1>14, <3>2, <4>1, q \in Ops DEF RadioInv
      <3> QED BY <3>1, <3>2
    <2>2. ASSUME NEW q \in Ops, op'[q].pc = "validating"
          PROVE FALSE
      BY ONLY <1>7, <1>8, <1>23, <2>2 DEF Writing
    <2> QED BY ONLY <2>1, <2>2 DEF RadioInv
  <1>25. PinInv'
    <2>1. \A q \in Ops : ~pinTouched' /\ lock' = q => "pin" \notin touched'[q]
      BY ONLY <1>1, <1>13, <1>15, <1>23, lock' = lock DEF PinInv
    <2>2. \A q \in Ops : op'[q].pc # "ack"
      BY ONLY <1>7, <1>8, <1>23 DEF Writing
    <2>3. (HandsOver' /\ ~pinTouched' /\ \A q \in Ops : "pin" \in op'[q].written => Settled(op'[q]))
             => entry'.pin = radio'["pin"]
      <3>1. SUFFICES ASSUME HandsOver', ~pinTouched',
                            \A q \in Ops : "pin" \in op'[q].written => Settled(op'[q])
                     PROVE entry'.pin = radio'["pin"]
        BY ONLY <3>1
      <3>2. ~Settled(op'[o])
        BY ONLY <1>3, <1>8 DEF Settled
      <3>3. "pin" \notin op[o].written /\ x # "pin"
        BY ONLY <1>8, <3>1, <3>2, o \in Ops
      <3>4. \A q \in Ops : "pin" \in op[q].written => Settled(op[q])
        BY ONLY <1>7, <3>1, <3>3
      <3>5. entry.pin = radio["pin"]
        BY ONLY <1>1, <1>13, <3>1, <3>4 DEF PinInv, HandsOver
      <3> QED BY ONLY <1>13, <1>14, <3>3, <3>5 DEF Paths
    <2> QED BY ONLY <2>1, <2>2, <2>3 DEF PinInv
  <1>26. ListenInv'
    <2>1. \A q \in Ops : SameWait(q)
      BY ONLY <1>3, <1>7, <1>8, <1>10, <1>13, <1>6 DEF SameWait
    <2>2. UNCHANGED <<scenario, config, fence, updates>>
      BY <1>13
    <2> QED BY ONLY <1>1, <1>9, <2>1, <2>2, ListenStays DEF Only
  <1>27. FenceInv'
    <2>1. \A q \in Ops : op'[q].pc \in Awaits => op[q].pc \in Awaits
      BY ONLY <1>7, <1>10 DEF Writing, Awaits
    <2> QED BY ONLY <1>1, <1>13, <2>1, FenceStays
  <1> QED BY ONLY <1>12, <1>17, <1>19, <1>20, <1>22, <1>24, <1>25, <1>26, <1>27 DEF IInv

\* An operation that writes goes on to another place with the lock.
Goes(o, pc, proved) ==
  /\ op[o].pc \in Writing /\ lock' = lock
  /\ op'[o] = [op[o] EXCEPT !.pc = pc, !.verified = proved]
  /\ op' = [op EXCEPT ![o] = op'[o]]

\* It keeps what it is, the lock and what it has written.
LEMMA GoesOn ==
  ASSUME OpOK, NEW o \in Ops, NEW pc \in Writing, NEW proved \in SUBSET Paths,
         Goes(o, pc, proved)
  PROVE /\ Only(o) /\ OpOK' /\ \A q \in Ops : q # o => op'[q] = op[q]
        /\ op'[o].pc = pc /\ op'[o].kind = op[o].kind /\ op'[o].of = op[o].of
        /\ op'[o].at = op[o].at /\ op'[o].written = op[o].written /\ op'[o].verified = proved
        /\ op'[o].outcome = op[o].outcome /\ op'[o].answer = op[o].answer
        /\ op'[o].recovery = op[o].recovery
  <1> /\ op[o].pc \in Writing /\ lock' = lock
      /\ op'[o] = [op[o] EXCEPT !.pc = pc, !.verified = proved]
      /\ op' = [op EXCEPT ![o] = op'[o]]
    BY DEF Goes
  <1>1. op \in [Ops -> OpTypes] /\ op[o] \in OpTypes /\ pc \in Awaits
    BY DEF OpOK, Writing, Awaits
  <1>2. \A q \in Ops : q # o => op'[q] = op[q]
    BY ONLY <1>1, op' = [op EXCEPT ![o] = op'[o]]
  <1>3. /\ op'[o] \in OpTypes
        /\ op'[o].pc = pc /\ op'[o].kind = op[o].kind /\ op'[o].of = op[o].of
        /\ op'[o].at = op[o].at /\ op'[o].written = op[o].written /\ op'[o].verified = proved
        /\ op'[o].outcome = op[o].outcome /\ op'[o].answer = op[o].answer
        /\ op'[o].recovery = op[o].recovery
    BY ONLY <1>1, proved \in SUBSET Paths, op'[o] = [op[o] EXCEPT !.pc = pc, !.verified = proved]
       DEF OpTypes
  <1>4. Only(o)
    BY ONLY <1>1, <1>2, <1>3, op' = [op EXCEPT ![o] = op'[o]] DEF Only
  <1>5. LockRule'
    BY ONLY OpOK, <1>2, <1>3, lock' = lock, op[o].pc \in Writing, pc \in Writing
       DEF LockRule, OpOK, Awaits, Writing
  <1>6. OpOK'
    BY ONLY OpOK, <1>4, <1>5, lock' = lock DEF OpOK, Only
  <1> QED BY ONLY <1>2, <1>3, <1>4, <1>6

\* The adapter sends its first field, or finds that it cannot.
LEMMA SendFirstStep ==
  ASSUME IInv, NEW o \in Ops, SendFirst(o)
  PROVE IInv'
  <1>1. OpOK /\ RestOK /\ PlaceInv /\ PlanInv /\ op \in [Ops -> OpTypes]
    BY Parts
  <1>2. /\ op[o].pc = "validating" /\ UNCHANGED <<scenario, link, manager, plan, config, bounds>>
        /\ \/ Leave(o, "unavailable", FALSE) /\ UNCHANGED <<radio, sent, touched>>
           \/ Transmit(o, NextPath(o), {}) /\ lock' = lock
    BY DEF SendFirst
  <1>3. /\ op[o].pc \in Awaits \ {"ack"} /\ op[o].written = {} /\ op[o].kind = "apply"
        /\ op[o].of \in Ops
    BY ONLY <1>1, <1>2, o \in Ops DEF Awaits, PlaceInv, Place, Writing, OpTypes
  <1>4. CASE Leave(o, "unavailable", FALSE) /\ UNCHANGED <<radio, sent, touched>>
    <2>1. "unavailable" \in Outcomes \ {"none", "expired", "unconfirmed", "ready"}
      BY DEF Outcomes
    <2>2. UNCHANGED <<scenario, radio, link, manager, plan, config, sent, touched, bounds>>
      BY ONLY <1>2, <1>4
    <2> QED BY ONLY IInv, o \in Ops, <1>3, <1>4, <2>1, <2>2, EndStep
  <1>5. CASE Transmit(o, NextPath(o), {}) /\ lock' = lock
    <2>1. op[op[o].of].kind = "preview"
      BY ONLY <1>1, <1>3, o \in Ops DEF PlanInv, PlaceInv, Place
    <2>2. \E x \in Paths : plan[op[o].of].want[x] # None
      BY ONLY <1>1, <1>3, <2>1 DEF PlanInv
    <2>3. Pending(o) # {}
      BY ONLY <1>3, <2>2 DEF Pending
    <2> QED BY ONLY IInv, o \in Ops, <1>2, <1>5, <2>3, TransmitStep
  <1> QED BY ONLY <1>2, <1>4, <1>5

\* A command was answered, or its answer did not come.
LEMMA AnswerStep ==
  ASSUME IInv, NEW o \in Ops, Answer(o)
  PROVE IInv'
  <1>1. OpOK /\ PlaceInv /\ op \in [Ops -> OpTypes]
    BY Parts
  <1>2. /\ op[o].pc = "acking"
        /\ UNCHANGED <<scenario, radio, link, manager, plan, config, sent, touched, bounds>>
        /\ \/ Leave(o, "unavailable", FALSE)
           \/ op' = [op EXCEPT ![o].pc = "verifying"] /\ lock' = lock
    BY DEF Answer
  <1>3. op[o].pc \in Awaits \ {"ack"} /\ op[o] \in OpTypes /\ Place(op[o])
    BY ONLY <1>1, <1>2, o \in Ops DEF Awaits, PlaceInv
  <1>4. CASE Leave(o, "unavailable", FALSE)
    <2>1. "unavailable" \in Outcomes \ {"none", "expired", "unconfirmed", "ready"}
      BY DEF Outcomes
    <2> QED BY ONLY IInv, o \in Ops, <1>2, <1>3, <1>4, <2>1, EndStep
  <1>5. ASSUME op' = [op EXCEPT ![o].pc = "verifying"], lock' = lock
        PROVE IInv'
    <2>1. op'[o] = [op[o] EXCEPT !.pc = "verifying"] /\ op' = [op EXCEPT ![o] = op'[o]]
      BY ONLY <1>1, <1>5
    <2>2. op'[o] = [op[o] EXCEPT !.pc = "verifying", !.verified = op[o].verified]
      BY ONLY <1>3, <2>1 DEF OpTypes
    <2>3. /\ "verifying" \in Writing /\ op[o].verified \in SUBSET Paths
          /\ Goes(o, "verifying", op[o].verified)
      BY ONLY <1>2, <1>3, <1>5, <2>1, <2>2 DEF Writing, OpTypes, Goes
    <2>4. /\ Only(o) /\ OpOK' /\ \A q \in Ops : q # o => op'[q] = op[q]
          /\ op'[o].pc = "verifying" /\ op'[o].kind = op[o].kind /\ op'[o].of = op[o].of
          /\ op'[o].at = op[o].at /\ op'[o].written = op[o].written
          /\ op'[o].verified = op[o].verified
          /\ op'[o].outcome = op[o].outcome /\ op'[o].answer = op[o].answer
          /\ op'[o].recovery = op[o].recovery
      BY ONLY <1>1, <2>3, o \in Ops, GoesOn
    <2>5. Place(op'[o])
      BY ONLY <1>2, <1>3, <2>4 DEF Place, Own, Writing
    <2>6. Same(o) /\ SameWait(o)
      BY ONLY <1>2, <2>4 DEF Same, SameWait, Own
    <2>7. ~Settled(op'[o])
      BY ONLY <1>2, <1>3, <2>4 DEF Place, Settled
    <2>8. lock' \in {lock, None} /\ op'[o].pc \notin {"validating", "ack"} /\ op[o].pc \in Awaits
      BY ONLY <1>3, <1>5, <2>4
    <2> QED BY ONLY IInv, o \in Ops, <1>2, <2>4, <2>5, <2>6, <2>7, <2>8, CalmStep
  <1> QED BY ONLY <1>2, <1>4, <1>5

\* A field was read back: the next one is sent, the plan has ended, or the
\* outcome is not known.
LEMMA VerifyStep ==
  ASSUME IInv, NEW o \in Ops, Verify(o)
  PROVE IInv'
  <1>1. /\ TypeOK /\ PlaceInv /\ PlanInv /\ PreviewInv /\ SentInv /\ RadioInv /\ PinInv
        /\ ListenInv /\ FenceInv
        /\ OpOK /\ RestOK /\ op \in [Ops -> OpTypes] /\ previews \subseteq Ops
        /\ armed # None => armed.by \in Ops
    BY Parts
  <1>2. /\ op[o].pc = "verifying" /\ UNCHANGED <<scenario, link, manager, plan, config, bounds>>
    BY DEF Verify
  <1>3. PICK proved \in {op[o].verified, op[o].verified \cup {op[o].at}} :
          /\ op[o].at \in proved \ op[o].verified =>
               radio[op[o].at] = plan[op[o].of].want[op[o].at]
          /\ \/ Leave(o, "unavailable", FALSE) /\ UNCHANGED <<radio, sent, touched>>
             \/ Pending(o) # {} /\ Transmit(o, NextPath(o), proved) /\ lock' = lock
             \/ /\ op' = [op EXCEPT ![o].pc = "after", ![o].verified = proved]
                /\ UNCHANGED <<radio, sent, touched, lock>>
    <2>1. PICK readable \in BOOLEAN :
            LET proved == IF readable /\ Confirmed(o) THEN op[o].verified \cup {op[o].at}
                          ELSE op[o].verified IN
            \/ Leave(o, "unavailable", FALSE) /\ UNCHANGED <<radio, sent, touched>>
            \/ Pending(o) # {} /\ Transmit(o, NextPath(o), proved) /\ lock' = lock
            \/ /\ op' = [op EXCEPT ![o].pc = "after", ![o].verified = proved]
               /\ UNCHANGED <<radio, sent, touched, lock>>
      BY DEF Verify
    <2>2. CASE readable /\ Confirmed(o)
      <3>1. WITNESS op[o].verified \cup {op[o].at}
              \in {op[o].verified, op[o].verified \cup {op[o].at}}
      <3> QED BY ONLY <2>1, <2>2 DEF Confirmed
    <2>3. CASE ~(readable /\ Confirmed(o))
      <3>1. WITNESS op[o].verified \in {op[o].verified, op[o].verified \cup {op[o].at}}
      <3> QED BY ONLY <2>1, <2>3
    <2> QED BY ONLY <2>2, <2>3
  <1>4. /\ op[o] \in OpTypes /\ Place(op[o]) /\ op[o].pc \in Awaits \ {"ack"}
    BY ONLY <1>1, <1>2, o \in Ops DEF PlaceInv, Awaits
  <1>5. proved \in SUBSET Paths /\ proved \subseteq op[o].written
    BY ONLY <1>2, <1>4, proved \in {op[o].verified, op[o].verified \cup {op[o].at}}
       DEF Place, OpTypes
  <1>6. \A x \in proved \ touched[o] : radio[x] = plan[op[o].of].want[x]
    BY ONLY <1>1, <1>3, o \in Ops, proved \in {op[o].verified, op[o].verified \cup {op[o].at}}
       DEF RadioInv
  <1>7. CASE Leave(o, "unavailable", FALSE) /\ UNCHANGED <<radio, sent, touched>>
    <2>1. "unavailable" \in Outcomes \ {"none", "expired", "unconfirmed", "ready"}
      BY DEF Outcomes
    <2>2. UNCHANGED <<scenario, radio, link, manager, plan, config, sent, touched, bounds>>
      BY ONLY <1>2, <1>7
    <2> QED BY ONLY IInv, o \in Ops, <1>4, <1>7, <2>1, <2>2, EndStep
  <1>8. CASE Pending(o) # {} /\ Transmit(o, NextPath(o), proved) /\ lock' = lock
    BY ONLY IInv, o \in Ops, <1>2, <1>5, <1>6, <1>8, TransmitStep
  <1>9. ASSUME op' = [op EXCEPT ![o].pc = "after", ![o].verified = proved],
               UNCHANGED <<radio, sent, touched, lock>>
        PROVE IInv'
    <2>1. /\ op'[o] = [op[o] EXCEPT !.pc = "after", !.verified = proved]
          /\ op' = [op EXCEPT ![o] = op'[o]]
      BY ONLY <1>1, <1>9
    <2>2. "after" \in Writing /\ Goes(o, "after", proved)
      BY ONLY <1>2, <1>9, <2>1 DEF Writing, Goes
    <2>3. /\ Only(o) /\ OpOK' /\ \A q \in Ops : q # o => op'[q] = op[q]
          /\ op'[o].pc = "after" /\ op'[o].kind = op[o].kind /\ op'[o].of = op[o].of
          /\ op'[o].at = op[o].at /\ op'[o].written = op[o].written /\ op'[o].verified = proved
          /\ op'[o].outcome = op[o].outcome /\ op'[o].answer = op[o].answer
          /\ op'[o].recovery = op[o].recovery
      BY ONLY <1>1, <1>5, <2>2, o \in Ops, GoesOn
    <2>4. PlaceInv'
      <3>1. Place(op'[o])
        BY ONLY <1>2, <1>4, <1>5, <2>3 DEF Place, Own, Writing
      <3> QED BY ONLY <1>1, <2>3, <3>1 DEF PlaceInv
    <2>5. UNCHANGED <<scenario, radio, connected, epoch, fence, previews, cancelled, entry, running,
                      armed, listeners, reloads, torn, sent, touched, edits, drops, updates,
                      pinTouched, plan>>
      BY ONLY <1>2, <1>9 DEF link, manager, config, bounds
    <2>6. TypeOK'
      <3>1. RestOK'
        BY ONLY <1>1, <2>5 DEF RestOK
      <3> QED BY ONLY <2>3, <3>1, TypeParts
    <2>7. \A q \in Ops : /\ op'[q].kind = op[q].kind /\ op'[q].of = op[q].of
                         /\ op'[q].written = op[q].written /\ op'[q].outcome = op[q].outcome
                         /\ Own(op'[q]) <=> Own(op[q])
      BY ONLY <2>3 DEF Own
    <2>8. PlanInv'
      <3>1. \A q \in Ops : op[q].kind = "apply" => op[q].of \in Ops
        BY ONLY <1>1 DEF PlaceInv, Place, OpTypes
      <3>2. \A q \in Ops : op'[q].kind = "preview" => \E y \in Paths : plan'[q].want[y] # None
        BY ONLY <1>1, <2>5, <2>7, PlansAsk
      <3> QED BY ONLY <1>1, <2>5, <2>7, <3>1, <3>2 DEF PlanInv
    <2>9. PreviewInv' /\ SentInv'
      <3>1. PreviewInv'
        BY ONLY <1>1, <2>5, <2>7 DEF PreviewInv
      <3>2. SentInv'
        BY ONLY <1>1, <2>5, <2>7 DEF SentInv
      <3> QED BY <3>1, <3>2
    <2>10. RadioInv'
      BY ONLY <1>1, <1>6, <2>3, <2>5 DEF RadioInv
    <2>11. PinInv'
      <3>1. \A q \in Ops : op'[q].pc = "ack" => q # o /\ op'[q] = op[q]
        BY ONLY <2>3
      <3>2. \A q \in Ops :
              /\ ~pinTouched' /\ lock' = q => "pin" \notin touched'[q]
              /\ op'[q].pc = "ack" => /\ HandsPinOver(q)'
                                      /\ ~pinTouched' => entry'.pin = plan'[op'[q].of].want["pin"]
        BY ONLY <1>1, <1>9, <2>5, <3>1 DEF PinInv, HandsPinOver, WantsPin, HandsOver
      <3>3. \A q \in Ops : Settled(op'[q]) <=> Settled(op[q])
        BY ONLY <2>3, <1>4, <1>2 DEF Settled, Place
      <3>4. (HandsOver' /\ ~pinTouched' /\ \A q \in Ops : "pin" \in op'[q].written => Settled(op'[q]))
               => entry'.pin = radio'["pin"]
        BY ONLY <1>1, <2>5, <2>7, <3>3 DEF PinInv, HandsOver
      <3> QED BY ONLY <3>2, <3>4 DEF PinInv
    <2>12. ListenInv'
      <3>1. \A q \in Ops : SameWait(q)
        BY ONLY <1>2, <2>3, <2>5 DEF SameWait
      <3> QED BY ONLY <1>1, <1>2, <2>3, <2>5, <3>1, ListenStays DEF Only
    <2>13. FenceInv'
      <3>1. \A q \in Ops : op'[q].pc \in Awaits => op[q].pc \in Awaits
        BY ONLY <1>4, <2>3
      <3> QED BY ONLY <1>1, <2>5, <3>1, FenceStays
    <2> QED BY ONLY <2>4, <2>6, <2>8, <2>9, <2>10, <2>11, <2>12, <2>13 DEF IInv
  <1> QED BY ONLY <1>3, <1>7, <1>8, <1>9

-----------------------------------------------------------------------------
(* The hand-off of a PIN *)

\* While an operation writes or waits for the listener, the marker can only be
\* its own.
LEMMA MarkerIsOwn ==
  ASSUME OpOK, ArmInv, NEW o \in Ops, op[o].pc \in Writing, armed # None => armed.by \in Ops
  PROVE /\ armed # None => armed.by = o /\ op[o].pc = "ack" /\ op[o].answer = "none"
        /\ \A q \in Ops : op[q].pc = "ack" => q = o
  <1>1. \A q \in Ops : op[q].pc \in Writing => q = o
    BY HolderWorks
  <1> QED BY <1>1 DEF ArmInv, Writing

\* An operation whose PIN is in the entry ends.
LEMMA WaitEnds ==
  ASSUME IInv, NEW o \in Ops, op[o].pc \in {"after", "ack"}, HandsPinOver(o),
         ~pinTouched => entry.pin = plan[op[o].of].want["pin"], NEW outcome \in {"reported", "interrupted"},
         NEW recovery \in BOOLEAN, Leave(o, outcome, recovery),
         UNCHANGED <<scenario, radio, link, manager, plan, entry, listeners, reloads, sent,
                     touched, bounds>>,
         armed' = None, running' \in Options, torn' \in BOOLEAN,
         recovery \/ outcome = "interrupted" \/ armed = None,
         listeners = 0 /\ reloads = 0 /\ fence = "open" /\ ~torn' => running' = entry
  PROVE IInv'
  <1>1. /\ TypeOK /\ PlaceInv /\ PlanInv /\ PreviewInv /\ SentInv /\ RadioInv /\ PinInv
        /\ ListenInv /\ FenceInv
        /\ OpOK /\ RestOK /\ op \in [Ops -> OpTypes] /\ previews \subseteq Ops
        /\ armed # None => armed.by \in Ops
    BY Parts
  <1>2. /\ outcome \in Outcomes \ {"none", "expired", "unconfirmed"} /\ outcome \in Outcomes
        /\ outcome # "ready" /\ op[o].pc \in Awaits /\ plan' = plan
    BY DEF Outcomes, Awaits
  <1>3. PlaceInv' /\ OpOK' /\ \A q \in Ops : Same(q)
    BY ONLY <1>1, <1>2, o \in Ops, recovery \in BOOLEAN, Leave(o, outcome, recovery), LeaveKeeps
  <1>4. /\ Only(o)
        /\ op'[o].pc = "done" /\ op'[o].outcome = outcome /\ op'[o].recovery = recovery
        /\ op'[o].kind = op[o].kind /\ op'[o].written = op[o].written /\ lock' \in {lock, None}
    BY ONLY <1>1, <1>2, o \in Ops, recovery \in BOOLEAN, Leave(o, outcome, recovery), LeaveFacts
  <1>5. UNCHANGED <<scenario, radio, connected, epoch, fence, previews, cancelled, entry, listeners,
                    reloads, sent, touched, edits, drops, updates, pinTouched, plan>>
    BY ONLY UNCHANGED <<scenario, radio, link, manager, plan, entry, listeners, reloads, sent,
                     touched, bounds>> DEF link, manager, bounds
  <1>6. op' \in [Ops -> OpTypes] /\ \A q \in Ops : q # o => op'[q] = op[q]
    BY ONLY <1>4 DEF Only
  <1>7. TypeOK'
    <2>1. RestOK'
      BY ONLY <1>1, <1>5, armed' = None, running' \in Options, torn' \in BOOLEAN DEF RestOK
    <2> QED BY ONLY <1>3, <2>1, TypeParts
  <1>8. PlanInv' /\ PreviewInv' /\ SentInv'
    <2>1. \A q \in Ops : op'[q].kind = "preview" => \E x \in Paths : plan'[q].want[x] # None
      BY ONLY <1>1, <1>4, <1>5, <1>6, PlansAsk
    <2> QED BY ONLY <1>1, <1>3, <1>5, <1>6, <2>1, PlansStay
  <1>9. RadioInv'
    <2>1. \A q \in Ops : op'[q].pc = "validating" => op[q].pc = "validating"
      BY ONLY <1>4, <1>6
    <2> QED BY ONLY <1>1, <1>3, <1>5, <2>1, RadioStays
  <1>10. op[o].pc \in Writing
    BY DEF Writing
  <1>11. /\ lock = o /\ \A q \in Ops : q # o => op[q].pc # "ack"
         /\ \A q \in Ops : op'[q].pc # "ack"
    <2>1. lock = o
      BY ONLY <1>1, o \in Ops, op[o].pc \in {"after", "ack"} DEF OpOK, LockRule, Awaits
    <2>2. \A q \in Ops : q # o => op[q].pc # "ack"
      BY ONLY <1>1, <1>10, o \in Ops, MarkerIsOwn DEF ListenInv
    <2> QED BY ONLY <2>1, <2>2, <1>4, <1>6
  <1>12. PinInv'
    <2>1. \A q \in Ops : ~pinTouched' /\ lock' = q => "pin" \notin touched'[q]
      BY ONLY <1>1, <1>4, <1>5, SettingsAssumption DEF PinInv
    <2>2. HandsOver /\ ~pinTouched => entry.pin = radio["pin"]
      <3>1. SUFFICES ASSUME HandsOver, ~pinTouched
                     PROVE entry.pin = radio["pin"]
        BY ONLY <3>1
      <3>2. "pin" \in op[o].verified \ touched[o] /\ entry.pin = plan[op[o].of].want["pin"]
        BY ONLY <1>1, <1>11, <3>1, o \in Ops, HandsPinOver(o),
           ~pinTouched => entry.pin = plan[op[o].of].want["pin"] DEF PinInv, HandsPinOver
      <3> QED BY ONLY <1>1, <3>2, o \in Ops DEF RadioInv
    <2>3. HandsOver' /\ ~pinTouched' => entry'.pin = radio'["pin"]
      BY ONLY <1>5, <2>2 DEF HandsOver
    <2> QED BY ONLY <1>11, <2>1, <2>3 DEF PinInv
  <1>13. ListenInv'
    <2>1. ArmInv'
      BY ONLY <1>11, armed' = None DEF ArmInv
    <2>2. ConfigInv'
      BY ONLY <1>5, <1>11, armed' = None,
         listeners = 0 /\ reloads = 0 /\ fence = "open" /\ ~torn' => running' = entry
         DEF ConfigInv, Quiet
    <2>3. SelfInv'
      <3>1. ASSUME updates = 0,
                   \A q \in Ops : op'[q].outcome # "interrupted" /\ ~op'[q].recovery
            PROVE reloads = 0 /\ fence = "open" /\ ~(listeners > 0)
        <4>1. \A q \in Ops : op[q].outcome # "interrupted" /\ ~op[q].recovery
          BY ONLY <1>1, <1>6, <3>1, op[o].pc \in {"after", "ack"} DEF PlaceInv, Place
        <4>2. armed = None
          BY ONLY <1>4, <3>1, o \in Ops, recovery \/ outcome = "interrupted" \/ armed = None
        <4> QED BY ONLY <1>1, <3>1, <4>1, <4>2 DEF ListenInv, SelfInv, Matches
      <3> QED BY ONLY <1>5, <3>1 DEF SelfInv
    <2> QED BY ONLY <2>1, <2>2, <2>3 DEF ListenInv
  <1>14. FenceInv'
    <2>1. \A q \in Ops : op'[q].pc \in Awaits => op[q].pc \in Awaits
      BY ONLY <1>2, <1>6
    <2> QED BY ONLY <1>1, <1>5, <2>1, FenceStays
  <1> QED BY ONLY <1>3, <1>7, <1>8, <1>9, <1>12, <1>13, <1>14 DEF IInv

\* The listener has answered.
LEMMA AcknowledgedStep ==
  ASSUME IInv, NEW o \in Ops, Acknowledged(o)
  PROVE IInv'
  <1>1. /\ OpOK /\ RestOK /\ ListenInv /\ (armed # None => armed.by \in Ops)
        /\ PlanInv /\ PinInv /\ PlaceInv /\ op \in [Ops -> OpTypes]
    BY Parts
  <1>2. /\ op[o].pc = "ack" /\ op[o].answer # "none"
        /\ running' = IF op[o].answer = "matched"
                      THEN [running EXCEPT !.pin = plan[op[o].of].want["pin"]] ELSE running
        /\ Leave(o, "reported", op[o].answer # "matched")
        /\ UNCHANGED <<scenario, radio, link, manager, plan, entry, armed, listeners, reloads,
                       torn, sent, touched, bounds>>
    BY DEF Acknowledged
  <1>3. op[o].pc \in Writing
    BY ONLY <1>2 DEF Writing
  <1>4. armed = None /\ \A q \in Ops : op[q].pc = "ack" => q = o
    BY ONLY <1>1, <1>2, <1>3, o \in Ops, MarkerIsOwn DEF ListenInv
  <1>5. running' \in Options
    <2>1. plan[op[o].of].want["pin"] \in Values
      <3>1. op[o].of \in Ops /\ plan[op[o].of].want["pin"] # None
        BY ONLY <1>1, <1>2, <1>3, o \in Ops DEF PlaceInv, Place, OpTypes, PinInv, HandsPinOver, WantsPin
      <3> QED BY ONLY <1>1, <3>1 DEF RestOK, Plans, Paths
    <2> QED BY ONLY <1>1, <1>2, <2>1 DEF RestOK, Options
  <1>6. torn' \in BOOLEAN /\ armed' = None
    BY ONLY <1>1, <1>2, <1>4 DEF RestOK
  <1>7. listeners = 0 /\ reloads = 0 /\ fence = "open" /\ ~torn' => running' = entry
    <2>1. SUFFICES ASSUME listeners = 0, Quiet
                   PROVE running' = entry
      BY ONLY <1>2, <2>1 DEF Quiet
    <2>2. CASE op[o].answer = "matched"
      BY ONLY <1>1, <1>2, <2>1, <2>2, o \in Ops DEF ListenInv, ConfigInv, TakenOver
    <2>3. CASE op[o].answer # "matched"
      BY ONLY <1>1, <1>2, <1>4, <2>1, <2>3 DEF ListenInv, ConfigInv
    <2> QED BY <2>2, <2>3
  <1> DEFINE recovery == op[o].answer # "matched"
  <1>8. recovery \in BOOLEAN /\ Leave(o, "reported", recovery)
    BY ONLY <1>2
  <1> HIDE DEF recovery
  <1>9. UNCHANGED <<scenario, radio, link, manager, plan, entry, listeners, reloads, sent,
                    touched, bounds>>
    BY ONLY <1>2
  <1>10. /\ op[o].pc \in {"after", "ack"} /\ HandsPinOver(o)
         /\ ~pinTouched => entry.pin = plan[op[o].of].want["pin"]
    BY ONLY <1>1, <1>2, o \in Ops DEF PinInv
  <1> QED BY ONLY IInv, o \in Ops, <1>4, <1>5, <1>6, <1>7, <1>8, <1>9, <1>10, WaitEnds

\* A wait for the listener that ends without acting on its answer.
LEMMA WaitGivenUp ==
  ASSUME IInv, NEW o \in Ops, op[o].pc = "ack", Disarm(o),
         torn' = (torn \/ op[o].answer = "matched"),
         UNCHANGED <<scenario, radio, link, manager, plan, entry, running, listeners, reloads, sent,
                     touched, bounds>>,
         Leave(o, "reported", TRUE) \/ Leave(o, "interrupted", FALSE)
  PROVE IInv'
  <1>1. /\ OpOK /\ RestOK /\ ListenInv /\ (armed # None => armed.by \in Ops) /\ PlaceInv
        /\ op \in [Ops -> OpTypes] /\ PinInv
    BY Parts
  <1>2. op[o].pc \in Writing
    BY DEF Writing
  <1>3. /\ armed # None => armed.by = o
        /\ \A q \in Ops : op[q].pc = "ack" => q = o
    BY ONLY <1>1, <1>2, o \in Ops, MarkerIsOwn DEF ListenInv
  <1>4. armed' = None
    BY ONLY <1>3, Disarm(o) DEF Disarm
  <1>5. torn' \in BOOLEAN /\ running' = running /\ running' \in Options
    BY ONLY <1>1, torn' = (torn \/ op[o].answer = "matched"),
       UNCHANGED <<scenario, radio, link, manager, plan, entry, running, listeners, reloads, sent,
                   touched, bounds>> DEF RestOK
  <1>6. listeners = 0 /\ reloads = 0 /\ fence = "open" /\ ~torn' => running' = entry
    <2>1. SUFFICES ASSUME listeners = 0, reloads = 0, fence = "open", ~torn'
                   PROVE running = entry
      BY ONLY <1>5, <2>1
    <2>2. ~torn /\ op[o].answer # "matched"
      BY ONLY <2>1, torn' = (torn \/ op[o].answer = "matched")
    <2> QED BY ONLY <1>1, <1>3, <2>1, <2>2 DEF ListenInv, ConfigInv, Quiet
  <1>7. UNCHANGED <<scenario, radio, link, manager, plan, entry, listeners, reloads, sent,
                    touched, bounds>>
    BY ONLY UNCHANGED <<scenario, radio, link, manager, plan, entry, running, listeners, reloads,
                        sent, touched, bounds>>
  <1>8. /\ op[o].pc \in {"after", "ack"} /\ HandsPinOver(o)
        /\ ~pinTouched => entry.pin = plan[op[o].of].want["pin"]
    BY ONLY <1>1, op[o].pc = "ack", o \in Ops DEF PinInv
  <1>9. CASE Leave(o, "reported", TRUE)
    BY ONLY IInv, o \in Ops, <1>4, <1>5, <1>6, <1>7, <1>8, <1>9, WaitEnds
  <1>10. CASE Leave(o, "interrupted", FALSE)
    BY ONLY IInv, o \in Ops, <1>4, <1>5, <1>6, <1>7, <1>8, <1>10, WaitEnds
  <1> QED BY <1>9, <1>10

\* The listener was not heard of in time.
LEMMA AckTimeoutStep ==
  ASSUME IInv, NEW o \in Ops, AckTimeout(o)
  PROVE IInv'
  BY WaitGivenUp DEF AckTimeout

\* The deadline of the operation, or the cancellation by a reload.
LEMMA InterruptStep ==
  ASSUME IInv, NEW o \in Ops, Interrupt(o)
  PROVE IInv'
  <1>1. /\ OpOK /\ RestOK /\ ListenInv /\ (armed # None => armed.by \in Ops) /\ PlaceInv
        /\ op \in [Ops -> OpTypes]
    BY Parts
  <1>2. /\ op[o].pc \in Awaits /\ Disarm(o) /\ Leave(o, "interrupted", FALSE)
        /\ torn' = (torn \/ (op[o].pc = "ack" /\ op[o].answer = "matched"))
        /\ UNCHANGED <<scenario, radio, link, manager, plan, entry, running, listeners, reloads,
                       sent, touched, bounds>>
    BY DEF Interrupt
  <1>3. CASE op[o].pc = "ack"
    <2>1. torn' = (torn \/ op[o].answer = "matched")
      BY ONLY <1>2, <1>3
    <2> QED BY ONLY IInv, o \in Ops, <1>2, <1>3, <2>1, WaitGivenUp
  <1>4. CASE op[o].pc # "ack"
    <2>1. armed' = armed
      BY ONLY <1>1, <1>2, <1>4, o \in Ops DEF Disarm, ListenInv, ArmInv
    <2>2. torn' = torn
      <3>1. torn \in BOOLEAN
        BY ONLY <1>1 DEF RestOK
      <3> QED BY ONLY <3>1, <1>2, <1>4
    <2>3. UNCHANGED <<scenario, radio, link, manager, plan, config, sent, touched, bounds>>
      BY ONLY <1>2, <2>1, <2>2 DEF config
    <2>4. "interrupted" \in Outcomes \ {"none", "expired", "unconfirmed", "ready"}
          /\ op[o].pc \in Awaits \ {"ack"}
      BY ONLY <1>2, <1>4 DEF Outcomes
    <2> QED BY ONLY IInv, o \in Ops, <1>2, <2>3, <2>4, EndStep
  <1> QED BY <1>3, <1>4

\* The plan has ended: it is reported, or its PIN is handed to the entry.
LEMMA AfterReadStep ==
  ASSUME IInv, NEW o \in Ops, AfterRead(o)
  PROVE IInv'
  <1>1. /\ TypeOK /\ PlaceInv /\ PlanInv /\ PreviewInv /\ SentInv /\ RadioInv /\ PinInv
        /\ ListenInv /\ FenceInv
        /\ OpOK /\ RestOK /\ op \in [Ops -> OpTypes] /\ previews \subseteq Ops
        /\ armed # None => armed.by \in Ops
    BY Parts
  <1> DEFINE saved == [entry EXCEPT !.pin = plan[op[o].of].want["pin"]]
  <1>2. /\ op[o].pc = "after"
        /\ UNCHANGED <<scenario, radio, link, manager, plan, sent, touched, bounds>>
        /\ \/ /\ ~HandsPinOver(o) /\ Leave(o, "reported", NeedsRecovery(o)) /\ UNCHANGED config
           \/ /\ HandsPinOver(o) /\ saved = entry
              /\ running' = [running EXCEPT !.pin = saved.pin]
              /\ Leave(o, "reported", FALSE)
              /\ UNCHANGED <<entry, armed, listeners, reloads, torn>>
           \/ /\ HandsPinOver(o) /\ saved # entry
              /\ entry' = saved /\ listeners' = listeners + 1
              /\ Arm(o, saved)
              /\ op' = [op EXCEPT ![o].pc = "ack"]
              /\ UNCHANGED <<running, reloads, torn, lock>>
    BY DEF AfterRead
  <1>3. /\ op[o] \in OpTypes /\ Place(op[o]) /\ op[o].pc \in Awaits \ {"ack"} /\ op[o].pc \in Writing
        /\ op[o].kind = "apply" /\ op[o].of \in Ops /\ op[o].outcome = "none"
        /\ op[o].answer = "none" /\ ~op[o].recovery
    BY ONLY <1>1, <1>2, o \in Ops DEF PlaceInv, Place, Awaits, Writing, OpTypes
  <1>4. /\ armed = None /\ lock = o
        /\ \A q \in Ops : op[q].pc # "ack"
    <2>1. \A q \in Ops : op[q].pc = "ack" => q = o
      BY ONLY <1>1, <1>3, o \in Ops, MarkerIsOwn DEF ListenInv
    <2>2. armed = None
      BY ONLY <1>1, <1>2, <1>3, o \in Ops, MarkerIsOwn DEF ListenInv
    <2>3. lock = o
      BY ONLY <1>1, <1>2, o \in Ops DEF OpOK, LockRule, Awaits
    <2> QED BY ONLY <1>2, <2>1, <2>2, <2>3
  <1>5. HandsPinOver(o) => plan[op[o].of].want["pin"] \in Values
    BY ONLY <1>1, <1>3 DEF HandsPinOver, WantsPin, RestOK, Plans, Paths
  <1>6. CASE ~HandsPinOver(o) /\ Leave(o, "reported", NeedsRecovery(o)) /\ UNCHANGED config
    <2> DEFINE recovery == NeedsRecovery(o)
    <2>1. recovery \in BOOLEAN /\ (recovery \/ "pin" \notin op[o].written)
      BY ONLY <1>1, <1>3, <1>6, o \in Ops DEF NeedsRecovery, WantsPin, PlanInv
    <2>2. Leave(o, "reported", recovery)
      BY ONLY <1>6
    <2> HIDE DEF recovery
    <2>3. "reported" \in Outcomes \ {"none", "expired", "unconfirmed", "ready"}
      BY DEF Outcomes
    <2>4. UNCHANGED <<scenario, radio, link, manager, plan, config, sent, touched, bounds>>
      BY ONLY <1>2, <1>6
    <2> QED BY ONLY IInv, o \in Ops, <1>3, <2>1, <2>2, <2>3, <2>4, EndStep
  <1>7. ASSUME HandsPinOver(o), saved = entry, running' = [running EXCEPT !.pin = saved.pin],
               Leave(o, "reported", FALSE), UNCHANGED <<entry, armed, listeners, reloads, torn>>
        PROVE IInv'
    <2>1. entry \in Options /\ running \in Options
      BY ONLY <1>1 DEF RestOK
    <2>2. saved.pin = plan[op[o].of].want["pin"]
      BY ONLY <2>1 DEF Options
    <2>3. entry.pin = plan[op[o].of].want["pin"] /\ running' = [running EXCEPT !.pin = entry.pin]
      BY ONLY <1>7, <2>2
    <2>4. running' \in Options
      BY ONLY <2>1, <2>3 DEF Options
    <2>5. listeners = 0 /\ reloads = 0 /\ fence = "open" /\ ~torn' => running' = entry
      <3>1. listeners = 0 /\ reloads = 0 /\ fence = "open" /\ ~torn => running = entry
        BY ONLY <1>1, <1>4 DEF ListenInv, ConfigInv, Quiet
      <3>2. running = entry => [running EXCEPT !.pin = entry.pin] = entry
        BY ONLY <2>1 DEF Options
      <3> QED BY ONLY <1>7, <2>3, <3>1, <3>2
    <2>6. torn' \in BOOLEAN /\ armed' = None
      BY ONLY <1>1, <1>4, <1>7 DEF RestOK
    <2>7. UNCHANGED <<scenario, radio, link, manager, plan, entry, listeners, reloads, sent,
                      touched, bounds>>
      BY ONLY <1>2, <1>7
    <2>8. op[o].pc \in {"after", "ack"} /\ HandsPinOver(o) /\ Leave(o, "reported", FALSE)
      BY ONLY <1>2, <1>7
    <2> QED BY ONLY IInv, o \in Ops, <1>4, <2>3, <2>4, <2>5, <2>6, <2>7, <2>8, WaitEnds
  <1>8. ASSUME HandsPinOver(o), saved # entry, entry' = saved, listeners' = listeners + 1,
               Arm(o, saved), op' = [op EXCEPT ![o].pc = "ack"],
               UNCHANGED <<running, reloads, torn, lock>>
        PROVE IInv'
    <2>1. entry \in Options /\ running \in Options
      BY ONLY <1>1 DEF RestOK
    <2>2. /\ entry' \in Options /\ entry'.pin = plan[op[o].of].want["pin"]
          /\ entry' = [entry EXCEPT !.pin = plan[op[o].of].want["pin"]]
      BY ONLY <1>5, <1>8, <2>1 DEF Options
    <2>3. /\ armed' \in Markers /\ armed' # None
          /\ armed'.by = o /\ armed'.options = entry'
      <3>1. armed' = [options |-> entry', by |-> o]
        BY ONLY <1>8 DEF Arm
      <3>2. armed' \in Markers
        BY ONLY <2>2, <3>1, o \in Ops DEF Markers
      <3>3. armed' # None
        BY ONLY <3>2, MarkerAssumption
      <3> QED BY ONLY <3>1, <3>2, <3>3
    <2>4. /\ op'[o] = [op[o] EXCEPT !.pc = "ack"] /\ op' = [op EXCEPT ![o] = op'[o]]
      BY ONLY <1>1, <1>8
    <2>5. /\ "ack" \in Writing /\ op[o].verified \in SUBSET Paths
          /\ Goes(o, "ack", op[o].verified)
      <3>1. op'[o] = [op[o] EXCEPT !.pc = "ack", !.verified = op[o].verified]
        BY ONLY <1>3, <2>4 DEF OpTypes
      <3> QED BY ONLY <1>3, <1>8, <2>4, <3>1 DEF Writing, OpTypes, Goes
    <2>6. /\ Only(o) /\ OpOK' /\ \A q \in Ops : q # o => op'[q] = op[q]
          /\ op'[o].pc = "ack" /\ op'[o].kind = op[o].kind /\ op'[o].of = op[o].of
          /\ op'[o].at = op[o].at /\ op'[o].written = op[o].written
          /\ op'[o].verified = op[o].verified
          /\ op'[o].outcome = op[o].outcome /\ op'[o].answer = op[o].answer
          /\ op'[o].recovery = op[o].recovery
      BY ONLY <1>1, <2>5, o \in Ops, GoesOn
    <2>7. PlaceInv'
      <3>1. Place(op'[o])
        BY ONLY <1>2, <1>3, <2>6 DEF Place, Own, Writing
      <3> QED BY ONLY <1>1, <2>6, <3>1 DEF PlaceInv
    <2>8. UNCHANGED <<scenario, radio, connected, epoch, fence, previews, cancelled, running,
                      reloads, torn, sent, touched, edits, drops, updates, pinTouched, plan, lock>>
      BY ONLY <1>2, <1>8 DEF link, manager, bounds
    <2>9. listeners \in Nat /\ listeners' \in Nat /\ listeners' = listeners + 1
      BY ONLY <1>1, <1>8 DEF RestOK
    <2>10. TypeOK'
      <3>1. RestOK'
        BY ONLY <1>1, <2>2, <2>3, <2>8, <2>9 DEF RestOK
      <3> QED BY ONLY <2>6, <3>1, TypeParts
    <2>11. \A q \in Ops : Same(q) /\ op'[q].kind = op[q].kind
      BY ONLY <2>6, <2>8 DEF Same, Own
    <2>12. PlanInv' /\ PreviewInv' /\ SentInv'
      <3>1. \A q \in Ops : op'[q].kind = "preview" => \E x \in Paths : plan'[q].want[x] # None
        BY ONLY <1>1, <2>8, <2>11, PlansAsk
      <3> QED BY ONLY <1>1, <2>6, <2>8, <2>11, <3>1, PlansStay DEF Only
    <2>13. RadioInv'
      <3>1. \A q \in Ops : op'[q].pc = "validating" => op[q].pc = "validating"
        BY ONLY <2>6
      <3> QED BY ONLY <1>1, <2>8, <2>11, <3>1, RadioStays
    <2>14. PinInv'
      <3>1. \A q \in Ops : ~pinTouched' /\ lock' = q => "pin" \notin touched'[q]
        BY ONLY <1>1, <2>8 DEF PinInv
      <3>2. ASSUME NEW q \in Ops, op'[q].pc = "ack"
            PROVE /\ HandsPinOver(q)'
                  /\ ~pinTouched' => entry'.pin = plan'[op'[q].of].want["pin"]
        <4>1. q = o
          BY ONLY <1>4, <2>6, <3>2
        <4> QED BY ONLY <1>8, <2>2, <2>6, <2>8, <4>1 DEF HandsPinOver, WantsPin, HandsOver
      <3>3. ~(\A q \in Ops : "pin" \in op'[q].written => Settled(op'[q]))
        <4>1. "pin" \in op'[o].written
          BY ONLY <1>3, <1>8, <2>6 DEF HandsPinOver, Place
        <4>2. ~Settled(op'[o])
          BY ONLY <1>3, <2>6 DEF Settled
        <4> QED BY ONLY <4>1, <4>2, o \in Ops
      <3> QED BY ONLY <3>1, <3>2, <3>3 DEF PinInv
    <2>15. ListenInv'
      <3>1. ArmInv'
        BY ONLY <1>3, <1>4, <2>3, <2>6 DEF ArmInv
      <3>2. listeners' > 0 /\ (listeners' = 1 <=> listeners = 0)
        BY ONLY <2>9
      <3>3. listeners' = 1 /\ Quiet' => entry' = TakenOver(armed.by)'
        <4>1. SUFFICES ASSUME listeners = 0, Quiet
                       PROVE entry' = TakenOver(armed.by)'
          BY ONLY <2>8, <3>2, <4>1 DEF Quiet
        <4>2. running = entry
          BY ONLY <1>1, <1>4, <4>1 DEF ListenInv, ConfigInv
        <4> QED BY ONLY <2>2, <2>3, <2>6, <2>8, <4>2 DEF TakenOver
      <3>4. ConfigInv'
        BY ONLY <1>3, <1>4, <2>6, <3>2, <3>3 DEF ConfigInv
      <3>5. SelfInv'
        <4>1. SUFFICES ASSUME updates' = 0,
                              \A q \in Ops : op'[q].outcome # "interrupted" /\ ~op'[q].recovery
                       PROVE reloads' = 0 /\ fence' = "open" /\ listeners' = 1 /\ Matches'
          BY ONLY <4>1 DEF SelfInv
        <4>2. \A q \in Ops : op[q].outcome # "interrupted" /\ ~op[q].recovery
          BY ONLY <1>3, <2>6, <4>1
        <4>3. reloads = 0 /\ fence = "open" /\ ~(listeners > 0)
          BY ONLY <1>1, <1>4, <2>8, <4>1, <4>2 DEF ListenInv, SelfInv, Matches
        <4> QED BY ONLY <2>3, <2>8, <2>9, <4>3 DEF Matches
      <3> QED BY ONLY <3>1, <3>4, <3>5 DEF ListenInv
    <2>16. FenceInv'
      <3>1. \A q \in Ops : op'[q].pc \in Awaits => op[q].pc \in Awaits
        BY ONLY <1>3, <2>6
      <3> QED BY ONLY <1>1, <2>8, <3>1, FenceStays
    <2> QED BY ONLY <2>7, <2>10, <2>12, <2>13, <2>14, <2>15, <2>16 DEF IInv
  <1> QED BY ONLY <1>2, <1>6, <1>7, <1>8

-----------------------------------------------------------------------------
(* The entry and its reload *)

\* An update listener runs: the marker is gone, and who waited for it has its
\* answer.
LEMMA ListenerStep ==
  ASSUME IInv, Listener
  PROVE IInv'
  <1>1. /\ TypeOK /\ PlaceInv /\ PlanInv /\ PreviewInv /\ SentInv /\ RadioInv /\ PinInv
        /\ ListenInv /\ FenceInv
        /\ OpOK /\ RestOK /\ op \in [Ops -> OpTypes] /\ previews \subseteq Ops
        /\ armed # None => armed.by \in Ops
    BY Parts
  <1> DEFINE answer == IF Matches THEN "matched" ELSE "missed"
             Heard(q) == armed # None /\ q = armed.by
  <1>2. /\ listeners > 0 /\ listeners' = listeners - 1 /\ armed' = None
        /\ reloads' = IF Matches THEN reloads ELSE reloads + 1
        /\ op' = [q \in Ops |-> IF Heard(q) THEN [op[q] EXCEPT !.answer = answer] ELSE op[q]]
        /\ UNCHANGED <<scenario, radio, link, manager, plan, lock, entry, running, torn, sent,
                       touched, bounds>>
    BY DEF Listener
  <1>3. answer \in {"matched", "missed"} /\ (answer = "matched" <=> Matches)
    OBVIOUS
  <1>4. \A q \in Ops : Heard(q) => op[q].pc = "ack"
    BY ONLY <1>1 DEF ListenInv, ArmInv
  <1>5. \A q \in Ops : op[q].pc = "ack" /\ op[q].answer = "none" => Heard(q)
    BY ONLY <1>1 DEF ListenInv, ArmInv
  <1>6. Matches => armed # None /\ \A q \in Ops : Heard(q) <=> q = armed.by
    BY DEF Matches
  <1> HIDE DEF answer, Heard
  <1>7. ASSUME NEW q \in Ops
        PROVE /\ op'[q] \in OpTypes
              /\ op'[q].pc = op[q].pc /\ op'[q].kind = op[q].kind /\ op'[q].of = op[q].of
              /\ op'[q].at = op[q].at /\ op'[q].written = op[q].written
              /\ op'[q].verified = op[q].verified /\ op'[q].outcome = op[q].outcome
              /\ op'[q].recovery = op[q].recovery
              /\ op'[q].answer = IF Heard(q) THEN answer ELSE op[q].answer
    <2>1. op[q] \in OpTypes
      BY ONLY <1>1, q \in Ops
    <2>2. CASE Heard(q)
      <3>1. op'[q] = [op[q] EXCEPT !.answer = answer]
        BY ONLY <1>2, <2>2, q \in Ops
      <3> QED BY ONLY <1>3, <2>1, <2>2, <3>1 DEF OpTypes
    <2>3. CASE ~Heard(q)
      <3>1. op'[q] = op[q]
        BY ONLY <1>2, <2>3, q \in Ops
      <3> QED BY ONLY <2>1, <2>3, <3>1
    <2> QED BY ONLY <2>2, <2>3
  <1>8. op' \in [Ops -> OpTypes]
    BY ONLY <1>2, <1>7
  <1>9. UNCHANGED <<scenario, radio, connected, epoch, fence, previews, cancelled, entry, running,
                    torn, sent, touched, edits, drops, updates, pinTouched, plan, lock>>
    BY ONLY <1>2 DEF link, manager, bounds
  <1>10. OpOK'
    <2>1. LockRule'
      BY ONLY <1>1, <1>7, <1>9 DEF LockRule, OpOK
    <2> QED BY ONLY <1>1, <1>8, <1>9, <2>1 DEF OpOK
  <1>11. /\ listeners \in Nat /\ listeners' \in Nat /\ reloads \in Nat /\ reloads' \in Nat
         /\ listeners' = 0 <=> listeners = 1
         /\ reloads' = 0 => Matches /\ reloads = 0
         /\ Matches => reloads' = reloads
    BY ONLY <1>1, <1>2 DEF RestOK
  <1>12. TypeOK'
    <2>1. RestOK'
      BY ONLY <1>1, <1>2, <1>9, <1>11 DEF RestOK
    <2> QED BY ONLY <1>10, <2>1, TypeParts
  <1>13. PlaceInv'
    <2>1. ASSUME NEW q \in Ops
          PROVE Place(op'[q])
      <3>1. Place(op[q]) /\ (op[q].pc \notin {"ack", "done"} => op'[q].answer = "none")
        BY ONLY <1>1, <1>4, <1>7, q \in Ops DEF PlaceInv, Place
      <3>2. op[q].pc = "new" => op'[q] = op[q]
        <4>1. op[q].pc = "new" => ~Heard(q)
          BY ONLY <1>4, q \in Ops
        <4> QED BY ONLY <1>2, <4>1, q \in Ops
      <3> QED BY ONLY <1>7, <3>1, <3>2, q \in Ops DEF Place, Own
    <2> QED BY ONLY <2>1 DEF PlaceInv
  <1>14. \A q \in Ops : Same(q) /\ op'[q].kind = op[q].kind
    BY ONLY <1>7, <1>9 DEF Same, Own
  <1>15. PlanInv' /\ PreviewInv' /\ SentInv'
    <2>1. \A q \in Ops : op'[q].kind = "preview" => \E x \in Paths : plan'[q].want[x] # None
      BY ONLY <1>1, <1>9, <1>14, PlansAsk
    <2> QED BY ONLY <1>1, <1>8, <1>9, <1>14, <2>1, PlansStay
  <1>16. RadioInv'
    <2>1. \A q \in Ops : op'[q].pc = "validating" => op[q].pc = "validating"
      BY ONLY <1>7
    <2> QED BY ONLY <1>1, <1>9, <1>14, <2>1, RadioStays
  <1>17. PinInv'
    <2>1. \A q \in Ops : Settled(op'[q]) => Settled(op[q]) \/ "pin" \notin op[q].written
      BY ONLY <1>7 DEF Settled
    <2>2. \A q \in Ops : op'[q].pc = "ack" => op[q].pc = "ack"
      BY ONLY <1>7
    <2> QED BY ONLY <1>1, <1>9, <1>14, <2>1, <2>2, PinStays
  <1>18. ListenInv'
    <2>1. ArmInv'
      <3>1. ASSUME NEW q \in Ops, op'[q].pc = "ack"
            PROVE op'[q].answer # "none"
        BY ONLY <1>3, <1>5, <1>7, <3>1
      <3> QED BY ONLY <1>2, <3>1 DEF ArmInv
    <2>2. ConfigInv'
      <3>1. ASSUME listeners' = 0, Quiet'
            PROVE armed # None /\ Matches /\ entry = TakenOver(armed.by)
        <4>1. Matches /\ Quiet /\ listeners = 1
          BY ONLY <1>9, <1>11, <3>1 DEF Quiet
        <4> QED BY ONLY <1>1, <1>6, <4>1 DEF ListenInv, ConfigInv
      <3>2. ASSUME listeners' = 0, Quiet', \A q \in Ops : op'[q].pc = "ack" => op'[q].answer # "matched"
            PROVE FALSE
        <4>1. armed # None /\ Matches /\ armed.by \in Ops /\ Heard(armed.by)
          BY ONLY <1>1, <1>6, <3>1, <3>2
        <4> QED BY ONLY <1>3, <1>4, <1>7, <3>2, <4>1
      <3>3. ASSUME NEW q \in Ops, op'[q].pc = "ack", listeners' = 0, Quiet'
            PROVE entry' = TakenOver(q)'
        <4>1. armed # None /\ Matches /\ armed.by \in Ops /\ Heard(armed.by) /\ entry = TakenOver(armed.by)
          BY ONLY <1>1, <1>6, <3>1, <3>3
        <4>2. q = armed.by
          <5>1. op[q].pc = "ack" /\ op[armed.by].pc = "ack"
            BY ONLY <1>4, <1>7, <3>3, <4>1
          <5> QED BY ONLY <1>1, <3>3, <4>1, <5>1, HolderWorks DEF Writing
        <4> QED BY ONLY <1>7, <1>9, <4>1, <4>2 DEF TakenOver
      <3> QED BY ONLY <1>2, <3>2, <3>3 DEF ConfigInv
    <2>3. SelfInv'
      <3>1. ASSUME updates = 0, \A q \in Ops : op[q].outcome # "interrupted" /\ ~op[q].recovery
            PROVE reloads' = 0 /\ fence = "open" /\ listeners' = 0
        BY ONLY <1>1, <1>2, <1>11, <3>1 DEF ListenInv, SelfInv
      <3>2. (\A q \in Ops : op'[q].outcome # "interrupted" /\ ~op'[q].recovery) =>
               \A q \in Ops : op[q].outcome # "interrupted" /\ ~op[q].recovery
        BY ONLY <1>7
      <3> QED BY ONLY <1>9, <3>1, <3>2 DEF SelfInv
    <2> QED BY ONLY <2>1, <2>2, <2>3 DEF ListenInv
  <1>19. FenceInv'
    <2>1. \A q \in Ops : op'[q].pc \in Awaits => op[q].pc \in Awaits
      BY ONLY <1>7
    <2> QED BY ONLY <1>1, <1>9, <2>1, FenceStays
  <1> QED BY ONLY <1>12, <1>13, <1>15, <1>16, <1>17, <1>18, <1>19 DEF IInv

\* The user changes the entry: a listener is to come.
LEMMA UserUpdateStep ==
  ASSUME IInv, UserUpdate
  PROVE IInv'
  <1>1. /\ TypeOK /\ PlaceInv /\ PlanInv /\ PreviewInv /\ SentInv /\ RadioInv /\ PinInv
        /\ ListenInv /\ FenceInv
        /\ OpOK /\ RestOK /\ op \in [Ops -> OpTypes] /\ previews \subseteq Ops
        /\ armed # None => armed.by \in Ops
    BY Parts
  <1>2. /\ entry' \in Options /\ pinTouched' = (pinTouched \/ entry'.pin # entry.pin)
        /\ updates' = updates + 1 /\ listeners' = listeners + 1
        /\ UNCHANGED <<scenario, radio, link, manager, plan, lock, op, running, armed,
                       reloads, torn, sent, touched, edits>>
    BY DEF UserUpdate
  <1>3. /\ OpOK' /\ PlaceInv' /\ op' \in [Ops -> OpTypes]
        /\ \A q \in Ops : Same(q) /\ SameWait(q)
        /\ \A q \in Ops : op'[q].kind = "preview" => \E x \in Paths : plan'[q].want[x] # None
    BY ONLY IInv, <1>2, OpsStay
  <1>4. UNCHANGED <<scenario, radio, connected, epoch, fence, cancelled, previews, running,
                      armed, reloads, torn, sent, touched, edits, drops, plan, lock, op>>
    BY ONLY <1>2 DEF link, manager
  <1>5. /\ updates \in Nat /\ listeners \in Nat /\ updates' \in Nat /\ listeners' \in Nat
        /\ updates' # 0 /\ listeners' # 0 /\ (listeners > 0 => listeners' # 1)
        /\ listeners' > 0 /\ pinTouched' \in BOOLEAN
    BY ONLY <1>1, <1>2 DEF RestOK
  <1>6. TypeOK'
    <2>1. RestOK'
      BY ONLY <1>1, <1>2, <1>4, <1>5 DEF RestOK
    <2> QED BY ONLY <1>3, <2>1, TypeParts
  <1>7. PlanInv' /\ PreviewInv' /\ SentInv'
    BY ONLY <1>1, <1>3, <1>4, PlansStay
  <1>8. RadioInv'
    BY ONLY <1>1, <1>3, <1>4, RadioStays
  <1>9. PinInv'
    <2>1. ~pinTouched' => ~pinTouched /\ entry'.pin = entry.pin
      BY ONLY <1>2
    <2>2. \A q \in Ops : HandsPinOver(q)' = HandsPinOver(q)
      BY ONLY <1>4 DEF HandsPinOver, WantsPin, HandsOver
    <2> QED BY ONLY <1>1, <1>4, <2>1, <2>2 DEF PinInv, HandsOver
  <1>10. ListenInv'
    <2>1. ArmInv'
      BY ONLY <1>1, <1>4 DEF ListenInv, ArmInv
    <2>2. ConfigInv'
      BY ONLY <1>1, <1>4, <1>5 DEF ListenInv, ConfigInv
    <2> QED BY ONLY <1>5, <2>1, <2>2 DEF ListenInv, SelfInv
  <1>11. FenceInv'
    BY ONLY <1>1, <1>4 DEF FenceInv, Active
  <1> QED BY ONLY <1>3, <1>6, <1>7, <1>8, <1>9, <1>10, <1>11 DEF IInv

\* A reload begins, ends, or is given up.
LEMMA ReloadStep ==
  ASSUME IInv, BeginReload \/ FinishReload \/ GiveUpReload
  PROVE IInv'
  <1>1. /\ TypeOK /\ PlaceInv /\ PlanInv /\ PreviewInv /\ SentInv /\ RadioInv /\ PinInv
        /\ ListenInv /\ FenceInv
        /\ OpOK /\ RestOK /\ op \in [Ops -> OpTypes] /\ previews \subseteq Ops
        /\ armed # None => armed.by \in Ops
    BY Parts
  <1>2. UNCHANGED <<scenario, radio, epoch, drops, plan, lock, op, entry, listeners, torn, sent,
                    touched, edits, updates, pinTouched>>
    BY DEF BeginReload, FinishReload, GiveUpReload, config, link, bounds
  <1>3. /\ OpOK' /\ PlaceInv' /\ op' \in [Ops -> OpTypes]
        /\ \A q \in Ops : Same(q) /\ SameWait(q)
        /\ \A q \in Ops : op'[q].kind = "preview" => \E x \in Paths : plan'[q].want[x] # None
    BY ONLY IInv, <1>2, OpsStay
  <1>4. \/ /\ fence' \in {"draining", "stuck"} /\ UNCHANGED <<running, armed, connected>>
           /\ reloads' \in Nat /\ previews' = {} /\ Active \subseteq cancelled' /\ cancelled' \subseteq Ops
           /\ reloads > 0 \/ fence # "open"
        \/ /\ Active = {} /\ fence = "draining" /\ fence' = "open" /\ running' = entry /\ armed' = None
           /\ reloads' = reloads /\ connected' = FALSE /\ previews' = previews /\ cancelled' = {}
    <2>1. CASE BeginReload
      <3>1. reloads' \in Nat
        BY <1>1, <2>1 DEF BeginReload, RestOK
      <3> QED BY <1>1, <2>1, <3>1 DEF BeginReload, CancelAll, Active, link
    <2>2. CASE FinishReload
      BY <2>2 DEF FinishReload
    <2>3. CASE GiveUpReload
      BY <1>1, <2>3 DEF GiveUpReload, FenceInv, RestOK, config, link
    <2> QED BY <2>1, <2>2, <2>3
  <1>5. previews' \subseteq previews
    BY ONLY <1>4
  <1>6. TypeOK'
    <2>1. Cardinality(previews') <= 1
      BY ONLY <1>1, <1>5, FewerPreviews
    <2>2. fence' \in {"open", "draining", "stuck"} /\ reloads' \in Nat /\ cancelled' \subseteq Ops
          /\ running' \in Options /\ armed' \in {None} \cup Markers /\ connected' \in BOOLEAN
      BY ONLY <1>1, <1>4 DEF RestOK
    <2>3. RestOK'
      BY ONLY <1>1, <1>2, <1>5, <2>1, <2>2 DEF RestOK
    <2> QED BY ONLY <1>3, <2>3, TypeParts
  <1>7. PlanInv' /\ PreviewInv' /\ SentInv'
    BY ONLY <1>1, <1>2, <1>3, <1>5, PlansStay
  <1>8. RadioInv'
    BY ONLY <1>1, <1>2, <1>3, RadioStays
  <1>9. PinInv'
    BY ONLY <1>1, <1>2, <1>3, PinStays
  <1>10. ListenInv'
    <2>1. SelfInv'
      BY ONLY <1>1, <1>2, <1>4 DEF ListenInv, SelfInv
    <2>2. CASE fence' = "open" /\ Active = {} /\ running' = entry /\ armed' = None
      <3>1. \A q \in Ops : op'[q].pc # "ack"
        BY ONLY <1>2, <2>2 DEF Active, Awaits
      <3> QED BY ONLY <1>2, <2>1, <2>2, <3>1 DEF ListenInv, ArmInv, ConfigInv
    <2>3. CASE fence' # "open" /\ armed' = armed
      BY ONLY <1>1, <1>2, <2>1, <2>3 DEF ListenInv, ArmInv, ConfigInv, Quiet
    <2> QED BY ONLY <1>4, <2>2, <2>3
  <1>11. FenceInv'
    <2>1. Active' = Active
      BY ONLY <1>2 DEF Active
    <2> QED BY ONLY <1>4, <2>1 DEF FenceInv
  <1> QED BY ONLY <1>3, <1>6, <1>7, <1>8, <1>9, <1>10, <1>11 DEF IInv

-----------------------------------------------------------------------------
(* The radio and its link *)

\* Somebody changes a field on the radio.
LEMMA EditStep ==
  ASSUME IInv, NEW x \in Paths, Edit(x)
  PROVE IInv'
  <1>1. /\ TypeOK /\ PlaceInv /\ PlanInv /\ PreviewInv /\ SentInv /\ RadioInv /\ PinInv
        /\ ListenInv /\ FenceInv
        /\ OpOK /\ RestOK /\ op \in [Ops -> OpTypes] /\ previews \subseteq Ops
        /\ armed # None => armed.by \in Ops
    BY Parts
  <1>2. /\ edits' = edits + 1 /\ radio' = [radio EXCEPT ![x] = 1 - @]
        /\ touched' = [o \in Ops |-> touched[o] \cup {x}]
        /\ pinTouched' = (pinTouched \/ x = "pin")
        /\ UNCHANGED <<scenario, link, manager, plan, lock, op, config, sent, updates>>
    BY DEF Edit
  <1>3. /\ OpOK' /\ PlaceInv' /\ op' \in [Ops -> OpTypes]
        /\ \A q \in Ops : Same(q) /\ SameWait(q)
        /\ \A q \in Ops : op'[q].kind = "preview" => \E y \in Paths : plan'[q].want[y] # None
    BY ONLY IInv, <1>2, OpsStay
  <1>4. UNCHANGED <<scenario, connected, epoch, fence, cancelled, previews, entry, running, updates,
                      listeners, armed, reloads, torn, sent, drops, plan, lock, op>>
    BY ONLY <1>2 DEF link, manager, config
  <1>5. /\ radio' \in Radios /\ \A y \in Paths : y # x => radio'[y] = radio[y]
        /\ touched' \in [Ops -> SUBSET Paths] /\ edits' \in Nat /\ pinTouched' \in BOOLEAN
        /\ \A q \in Ops : touched'[q] = touched[q] \cup {x}
    BY ONLY <1>1, <1>2, x \in Paths DEF RestOK, Radios, Values
  <1>6. TypeOK'
    <2>1. RestOK'
      BY ONLY <1>1, <1>4, <1>5 DEF RestOK
    <2> QED BY ONLY <1>3, <2>1, TypeParts
  <1>7. PlanInv' /\ PreviewInv' /\ SentInv'
    BY ONLY <1>1, <1>3, <1>4, PlansStay
  <1>8. RadioInv'
    <2>1. ASSUME NEW q \in Ops, NEW y \in op'[q].verified \ touched'[q]
          PROVE radio'[y] = plan'[op'[q].of].want[y]
      <3>1. y \in op[q].verified \ touched[q] /\ y # x /\ y \in Paths
        BY ONLY <1>1, <1>4, <1>5, <2>1 DEF OpTypes
      <3> QED BY ONLY <1>1, <1>4, <1>5, <2>1, <3>1 DEF RadioInv
    <2>2. \A q \in Ops : touched'[q] # {}
      BY ONLY <1>5
    <2> QED BY ONLY <2>1, <2>2 DEF RadioInv
  <1>9. PinInv'
    <2>1. ~pinTouched' => ~pinTouched /\ x # "pin" /\ radio'["pin"] = radio["pin"]
      BY ONLY <1>2, <1>5 DEF Paths
    <2>2. \A q \in Ops : HandsPinOver(q)' = HandsPinOver(q)
      BY ONLY <1>4 DEF HandsPinOver, WantsPin, HandsOver
    <2> QED BY ONLY <1>1, <1>4, <1>5, <2>1, <2>2 DEF PinInv, HandsOver
  <1>10. ListenInv'
    BY ONLY <1>1, <1>2, <1>3, <1>4, ListenStays
  <1>11. FenceInv'
    BY ONLY <1>1, <1>4 DEF FenceInv, Active
  <1> QED BY ONLY <1>3, <1>6, <1>7, <1>8, <1>9, <1>10, <1>11 DEF IInv

\* The connection is lost or comes back.
LEMMA LinkStep ==
  ASSUME IInv, Drop \/ Reconnect
  PROVE IInv'
  <1>1. /\ TypeOK /\ PlaceInv /\ PlanInv /\ PreviewInv /\ SentInv /\ RadioInv /\ PinInv
        /\ ListenInv /\ FenceInv
        /\ OpOK /\ RestOK /\ op \in [Ops -> OpTypes] /\ previews \subseteq Ops
        /\ armed # None => armed.by \in Ops
    BY Parts
  <1>2. /\ UNCHANGED <<scenario, radio, manager, plan, lock, op, config, sent, touched, bounds>>
        /\ connected' \in BOOLEAN /\ epoch' \in Nat /\ drops' \in Nat
    <2>1. CASE Drop
      <3>1. /\ connected' = FALSE /\ drops' = drops + 1 /\ epoch' = epoch
            /\ UNCHANGED <<scenario, radio, manager, plan, lock, op, config, sent, touched, bounds>>
        BY ONLY <2>1 DEF Drop
      <3>2. epoch \in Nat /\ drops \in Nat
        BY ONLY <1>1 DEF RestOK
      <3>3. drops' \in Nat
        BY ONLY <3>1, <3>2
      <3> QED BY ONLY <3>1, <3>2, <3>3
    <2>2. CASE Reconnect
      BY <1>1, <2>2 DEF Reconnect, RestOK
    <2> QED BY <2>1, <2>2
  <1>3. /\ OpOK' /\ PlaceInv' /\ op' \in [Ops -> OpTypes]
        /\ \A q \in Ops : Same(q) /\ SameWait(q)
        /\ \A q \in Ops : op'[q].kind = "preview" => \E y \in Paths : plan'[q].want[y] # None
    BY ONLY IInv, <1>2, OpsStay
  <1>4. UNCHANGED <<scenario, radio, fence, cancelled, previews, entry, running, updates, edits,
                    listeners, armed, reloads, torn, sent, touched, pinTouched, plan, lock, op>>
    BY ONLY <1>2 DEF manager, config, bounds
  <1>5. TypeOK'
    <2>1. RestOK'
      BY ONLY <1>1, <1>2, <1>4 DEF RestOK
    <2> QED BY ONLY <1>3, <2>1, TypeParts
  <1>6. PlanInv' /\ PreviewInv' /\ SentInv'
    BY ONLY <1>1, <1>3, <1>4, PlansStay
  <1>7. RadioInv'
    BY ONLY <1>1, <1>3, <1>4, RadioStays
  <1>8. PinInv'
    BY ONLY <1>1, <1>3, <1>4, PinStays
  <1>9. ListenInv'
    BY ONLY <1>1, <1>2, <1>3, <1>4, ListenStays
  <1>10. FenceInv'
    BY ONLY <1>1, <1>4 DEF FenceInv, Active
  <1> QED BY ONLY <1>3, <1>5, <1>6, <1>7, <1>8, <1>9, <1>10 DEF IInv


-----------------------------------------------------------------------------
(* The invariant *)

\* Nothing has begun, and the adapters run with the options of the entry.
LEMMA InitIInv == Init => IInv
  <1> SUFFICES ASSUME Init PROVE IInv
    OBVIOUS
  <1>1. /\ scenario \in Scenarios /\ radio = [x \in Paths |-> 0]
        /\ connected = TRUE /\ epoch = 0
        /\ fence = "open" /\ previews = {} /\ cancelled = {}
        /\ plan = [o \in Ops |-> [rev |-> radio, want |-> [x \in Paths |-> None]]]
        /\ lock = None /\ op = [o \in Ops |-> Idle]
        /\ entry = [pin |-> 0, other |-> 0] /\ running = entry
        /\ armed = None /\ listeners = 0 /\ reloads = 0
        /\ sent = [o \in Ops |-> [x \in Paths |-> 0]]
        /\ touched = [o \in Ops |-> {}]
        /\ torn = FALSE /\ pinTouched = FALSE
        /\ edits = 0 /\ drops = 0 /\ updates = 0
    BY DEF Init
  <1>2. \A o \in Ops : op[o] = Idle
    BY ONLY <1>1
  <1>3. TypeOK
    <2>1. Idle \in OpTypes
      BY DEF Idle, OpTypes, Awaits, Paths, Outcomes
    <2>2. OpOK
      <3>1. op \in [Ops -> OpTypes]
        BY ONLY <1>1, <2>1
      <3>2. LockRule
        BY ONLY <1>1, <1>2, IdleIs, SettingsAssumption DEF LockRule, Awaits
      <3> QED BY ONLY <1>1, <3>1, <3>2 DEF OpOK
    <2>3. radio \in Radios /\ plan \in [Ops -> Plans]
      <3>1. radio \in Radios
        BY ONLY <1>1 DEF Radios, Values
      <3>2. [rev |-> radio, want |-> [x \in Paths |-> None]] \in Plans
        BY ONLY <3>1 DEF Plans
      <3> QED BY ONLY <1>1, <3>1, <3>2
    <2>4. previews \subseteq Ops /\ Cardinality(previews) <= 1
      BY <1>1, FS_EmptySet
    <2>5. entry \in Options /\ running \in Options
      BY ONLY <1>1 DEF Options, Values
    <2>6. sent \in [Ops -> [Paths -> 0..2]] /\ touched \in [Ops -> SUBSET Paths]
      BY ONLY <1>1
    <2>7. RestOK
      BY ONLY <1>1, <2>3, <2>4, <2>5, <2>6 DEF RestOK
    <2> QED BY ONLY <2>2, <2>7, TypeParts
  <1>4. PlaceInv
    <2>1. ~Idle.recovery
      BY IdleIs
    <2>2. Place(Idle)
      BY ONLY <2>1, IdleIs DEF Place, Own, Writing
    <2> QED BY ONLY <1>2, <2>2 DEF PlaceInv
  <1>5. PlanInv /\ PreviewInv /\ SentInv /\ RadioInv
    BY ONLY <1>1, <1>2, IdleIs DEF PlanInv, PreviewInv, SentInv, RadioInv, Own
  <1>6. PinInv
    BY ONLY <1>1, <1>2, IdleIs, SettingsAssumption DEF PinInv, Paths
  <1>7. ListenInv
    BY ONLY <1>1, <1>2, IdleIs DEF ListenInv, ArmInv, ConfigInv, SelfInv
  <1>8. FenceInv
    BY ONLY <1>1 DEF FenceInv
  <1> QED BY ONLY <1>3, <1>4, <1>5, <1>6, <1>7, <1>8 DEF IInv

\* Every action keeps the invariant.
LEMMA StepIInv == IInv /\ [Next]_vars => IInv'
  <1> SUFFICES ASSUME IInv, [Next]_vars PROVE IInv'
    OBVIOUS
  <1>1. CASE UNCHANGED vars
    <2>1. UNCHANGED <<scenario, radio, connected, epoch, drops, fence, previews, cancelled, plan,
                      lock, op, entry, running, armed, listeners, reloads, torn, sent, touched,
                      edits, updates, pinTouched>>
      BY ONLY <1>1 DEF vars, link, manager, config, bounds
    <2>2. OpOK' /\ RestOK'
      BY ONLY IInv, Parts, <2>1 DEF OpOK, RestOK, LockRule
    <2>3. PlaceInv' /\ PlanInv' /\ PreviewInv' /\ SentInv' /\ RadioInv'
      BY ONLY IInv, <2>1 DEF IInv, PlaceInv, PlanInv, PreviewInv, SentInv, RadioInv
    <2>4. PinInv'
      BY ONLY IInv, <2>1 DEF IInv, PinInv, HandsPinOver, WantsPin, HandsOver
    <2>5. ListenInv' /\ FenceInv'
      BY ONLY IInv, <2>1
         DEF IInv, ListenInv, ArmInv, ConfigInv, SelfInv, Quiet, TakenOver, Matches, FenceInv, Active
    <2> QED BY ONLY <2>2, <2>3, <2>4, <2>5, TypeParts DEF IInv
  <1>2. ASSUME NEW o \in Ops,
               RequestGet(o) \/ RequestPreview(o) \/ RequestApply(o) \/ Expire(o)
        PROVE IInv'
    BY ONLY IInv, <1>2, RequestGetStep, RequestPreviewStep, RequestApplyStep, ExpireStep
  <1>3. ASSUME NEW o \in Ops,
               TakeLock(o) \/ ReadFails(o) \/ GetRead(o) \/ PreviewRead(o) \/ ApplyRead(o)
        PROVE IInv'
    BY ONLY IInv, <1>3, TakeLockStep, ReadEnds, PreviewReadStep, ApplyReadStep
  <1>4. ASSUME NEW o \in Ops, SendFirst(o) \/ Answer(o) \/ Verify(o)
        PROVE IInv'
    BY ONLY IInv, <1>4, SendFirstStep, AnswerStep, VerifyStep
  <1>5. ASSUME NEW o \in Ops,
               AfterRead(o) \/ Acknowledged(o) \/ AckTimeout(o) \/ Interrupt(o)
        PROVE IInv'
    BY ONLY IInv, <1>5, AfterReadStep, AcknowledgedStep, AckTimeoutStep, InterruptStep
  <1>6. CASE Listener \/ UserUpdate \/ BeginReload \/ FinishReload \/ GiveUpReload
    BY ONLY IInv, <1>6, ListenerStep, UserUpdateStep, ReloadStep
  <1>7. CASE (\E x \in Paths : Edit(x)) \/ Drop \/ Reconnect
    BY ONLY IInv, <1>7, EditStep, LinkStep
  <1> QED BY <1>1, <1>2, <1>3, <1>4, <1>5, <1>6, <1>7 DEF Next

\* The inductive invariant of the manager, its radio and the hand-off: it holds in
\* every state, whatever is requested, lost, changed or interrupted.
THEOREM SettingsInvariant == Spec => []IInv
  BY InitIInv, StepIInv, PTL DEF Spec

-----------------------------------------------------------------------------
(* What it means *)

\* The manager keeps at most one preview, and the lock is held exactly from the
\* first read to the end of an operation.
THEOREM SettingsTyped == Spec => []TypeOK
  <1>1. IInv => TypeOK
    BY DEF IInv
  <1> QED BY <1>1, SettingsInvariant, PTL

\* No field of a preview is put on the wire twice.
THEOREM PreviewSentOnce == Spec => []SentOnce
  <1>1. IInv => SentOnce
    <2> SUFFICES ASSUME IInv, NEW p \in Ops, NEW x \in Paths PROVE sent[p][x] <= 1
      BY DEF SentOnce
    <2>1. SentInv
      BY DEF IInv
    <2>2. CASE \E o \in Ops : Own(op[o]) /\ op[o].of = p
      BY <2>1, <2>2 DEF SentInv
    <2>3. CASE ~\E o \in Ops : Own(op[o]) /\ op[o].of = p
      BY <2>1, <2>3 DEF SentInv
    <2> QED BY <2>2, <2>3
  <1> QED BY <1>1, SettingsInvariant, PTL

\* A plan reaches the radio only on top of the state its preview showed.
THEOREM PlanMeetsItsRadio == Spec => WritesOnWhatWasShown
  <1>1. IInv => \A o \in Ops : (op[o].pc = "validating" /\ op'[o].pc = "acking" /\ touched[o] = {})
                                 => radio = plan[op[o].of].rev
    BY DEF IInv, RadioInv
  <1> QED BY <1>1, SettingsInvariant, PTL DEF WritesOnWhatWasShown

\* What an answer calls verified is what the radio holds.
THEOREM VerifiedIsOnTheRadio == Spec => []ReportedIsReal
  <1>1. IInv => ReportedIsReal
    BY DEF IInv, RadioInv, ReportedIsReal
  <1> QED BY <1>1, SettingsInvariant, PTL

\* A PIN that was sent and answered without recovery is the saved one.
THEOREM PinNeverDrifts == Spec => []PinAccounted
  <1>1. IInv => PinAccounted
    <2> SUFFICES ASSUME IInv, HandsOver, ~pinTouched,
                        \A o \in Ops :
                          (op[o].kind = "apply" /\ op[o].of # None /\ sent[op[o].of]["pin"] > 0)
                            => op[o].outcome \in {"reported", "expired"} /\ ~op[o].recovery
                 PROVE entry.pin = radio["pin"]
      BY DEF PinAccounted
    <2>1. PlaceInv /\ SentInv /\ PinInv
      BY DEF IInv
    <2>2. ASSUME NEW o \in Ops, "pin" \in op[o].written PROVE Settled(op[o])
      <3>1. Own(op[o]) /\ op[o].of # None /\ op[o].kind = "apply"
        BY <2>1, <2>2 DEF PlaceInv, Place, Own
      <3>2. sent[op[o].of]["pin"] = 1
        BY <2>1, <2>2, <3>1 DEF SentInv, Paths
      <3>3. op[o].outcome \in {"reported", "expired"} /\ ~op[o].recovery
        BY <3>1, <3>2
      <3> QED BY <3>1, <3>3 DEF Own, Settled
    <2> QED BY <2>1, <2>2 DEF PinInv
  <1> QED BY <1>1, SettingsInvariant, PTL

\* The suppression of the update listener swallows no update.
THEOREM UpdatesAreHeard == Spec => []NoUpdateLost
  <1>1. IInv => NoUpdateLost
    BY DEF IInv, ListenInv, ConfigInv, Quiet, NoUpdateLost
  <1> QED BY <1>1, SettingsInvariant, PTL

\* Behind the fence nothing is kept, and nothing survives that began before it.
THEOREM ReloadIsFenced == Spec => []FenceHolds
  <1>1. IInv => FenceHolds
    BY DEF IInv, FenceInv, FenceHolds
  <1> QED BY <1>1, SettingsInvariant, PTL

\* Unless the user changes the entry, or a wait for the listener ends without its
\* answer, a hand-off does not make the entry reload under its own operation.
THEOREM HandOffKeepsTheEntry == Spec => []NoSelfReload
  <1>1. IInv => NoSelfReload
    BY DEF IInv, ListenInv, SelfInv, NoSelfReload
  <1> QED BY <1>1, SettingsInvariant, PTL

=============================================================================
