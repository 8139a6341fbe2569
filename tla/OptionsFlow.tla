---------------------------- MODULE OptionsFlow ----------------------------
(***************************************************************************)
(* The configuration and options flows of MeshNet: how the list of gateways*)
(* and the settings of the config entry are written.  A dialog of Home     *)
(* Assistant is one flow object; several can be open at once.  Each submit *)
(* is a coroutine: it reads the list, may await a connection test, a       *)
(* pairing or the removal of a bond, and then saves.  A save is one write  *)
(* of the entry's options, made from the options as they are at that time. *)
(*                                                                         *)
(* A gateway is [id, addr, key, mark]: `addr' is the Bluetooth address of a*)
(* Meshtastic Bluetooth gateway and None for every other one; `key' says   *)
(* that the adapter of its bond is on record, `mark' that the record claims*)
(* the bond as MeshNet's own (CONF_BLUETOOTH_BOND_MANAGED).  Pairing itself*)
(* is module BluetoothPairing; here it is one await with its outcomes.     *)
(***************************************************************************)
EXTENDS Naturals, FiniteSets

CONSTANTS
  Flows,       \* the options dialogs that can be open at once
  Ids,         \* gateway identifiers
  Addrs,       \* Bluetooth addresses
  Versions,    \* values of the general settings
  Scenarios,   \* what a behaviour of the model may contain, see World
  None

ASSUME OptionsAssumption ==
  None \notin Ids \cup Addrs

Gateways == [id : Ids, addr : Addrs \cup {None}, key : BOOLEAN, mark : BOOLEAN]

\* What one behaviour contains: the dialogs that are opened, how often they
\* save, the lists that an entry may hold at the start (none: there is no entry
\* yet), and, for module EntryStore, the setups, the faults and the store work.
World(flows, numSaves, initial, setups, faults, work) ==
  [flows |-> flows, saves |-> numSaves, initial |-> initial,
   setups |-> setups, faults |-> faults, work |-> work]

VARIABLES
  world,     \* the scenario of the behaviour
  present,   \* the config entry exists
  gws,       \* its gateways
  general,   \* its retention and polling settings
  maint,     \* the gateway chosen for maintenance, or None
  fpc,       \* where each dialog is
  fact,      \* what its pending submit will do: add, edit or remove
  frec,      \* the gateway it works on
  flist,     \* the list it read
  setup,     \* the config flow that creates the entry: [pc, list, rec]
  saves,     \* number of saves so far
  used,      \* ghost: identifiers that were given to a gateway
  earned     \* ghost: addresses whose bond a pairing of MeshNet has made

flowVars == <<fpc, fact, frec, flist>>
entryVars == <<present, gws, general, maint>>
optVars == <<world, entryVars, flowVars, setup, saves, used, earned>>

NoGateway == [id |-> None, addr |-> None, key |-> FALSE, mark |-> FALSE]

-----------------------------------------------------------------------------
\* _is_meshtastic_bluetooth.
Bluetooth(g) == g.addr # None

\* _configured_bond_key: the adapter and the address of the bond are known.
ConfiguredKey(g) == Bluetooth(g) /\ g.key

\* _has_meshnet_owned_bond: the record claims the bond as MeshNet's own.
Owned(g) == g.mark /\ ConfiguredKey(g)

\* _validate_unique_gateways: identifiers and Bluetooth addresses are unique.
Unique(list) ==
  \A g, h \in list : g # h => g.id # h.id /\ (Bluetooth(g) => g.addr # h.addr)

\* gateway_from_form: a form never carries bond metadata.
FromForm(id, addr) == [id |-> id, addr |-> addr, key |-> FALSE, mark |-> FALSE]

\* The list with the gateway of the same identifier replaced.
Replaced(list, g) == {IF h.id = g.id THEN g ELSE h : h \in list}

IdsOf(list) == {g.id : g \in list}
Find(list, id) == CHOOSE g \in list : g.id = id

\* _preserve_bluetooth_ownership: ownership is kept for the same address only.
Preserved(old, new) ==
  IF old.addr = new.addr /\ Owned(old)
  THEN [new EXCEPT !.key = TRUE, !.mark = TRUE] ELSE new

\* _strip_untrusted_bluetooth_ownership: a YAML import brings no ownership.
Stripped(g) == [g EXCEPT !.key = FALSE, !.mark = FALSE]

\* _require_guided_setup_for_new_bluetooth.
NeedsGuidedSetup(current, proposed) ==
  \E g \in proposed : /\ Bluetooth(g)
                      /\ ~\E h \in current : h.id = g.id /\ h.addr = g.addr

\* The owned record of the list that a proposed gateway stands for.
SameOwned(current, g) ==
  \E h \in current : Owned(h) /\ h.id = g.id /\ h.addr = g.addr

\* Mutated form: an owned gateway may be missing from the proposed list.
RefusedForged(current, proposed) ==
  \E g \in proposed : g.mark /\ ~SameOwned(current, g)

\* _reconcile_advanced_bluetooth_ownership, the refusals: a forged claim, and
\* an owned record that the list leaves out.
Refused(current, proposed) ==
  \/ \E g \in proposed : g.mark /\ ~SameOwned(current, g)
  \/ \E h \in current : /\ Owned(h)
                        /\ ~\E g \in proposed : h.id = g.id /\ h.addr = g.addr

\* The same function, its result: owned records keep their metadata and every
\* other record loses it.
Reconciled(current, proposed) ==
  {LET own == SameOwned(current, g)
   IN  [g EXCEPT !.key = own, !.mark = own] : g \in proposed}

\* _maintenance_gateway_choices.
MaintenanceChoices(list) == {g.id : g \in {h \in list : Bluetooth(h)}}

\* An entry holds a list that MeshNet wrote: gateways are told apart by their
\* identifiers, and a mark stands on a bond on record only.
ASSUME ScenariosAssumption ==
  \A w \in Scenarios :
    /\ w.saves \in Nat
    /\ \A list \in w.initial :
         list \subseteq Gateways /\ Unique(list) /\ \A g \in list : g.mark => Owned(g)

-----------------------------------------------------------------------------
OptInit ==
  /\ world \in Scenarios
  /\ IF world.initial = {} THEN present = FALSE /\ gws = {}
     ELSE present = TRUE /\ gws \in world.initial
  /\ general = 0 /\ maint = None
  /\ fpc = [f \in Flows |-> "closed"] /\ fact = [f \in Flows |-> "none"]
  /\ frec = [f \in Flows |-> NoGateway] /\ flist = [f \in Flows |-> {}]
  /\ setup = [pc |-> "none", list |-> {}, rec |-> NoGateway]
  /\ saves = 0 /\ used = IdsOf(gws) /\ earned = {g.addr : g \in {h \in gws : h.mark}}

Goto(f, pc, act, rec, list) ==
  /\ fpc' = [fpc EXCEPT ![f] = pc] /\ fact' = [fact EXCEPT ![f] = act]
  /\ frec' = [frec EXCEPT ![f] = rec] /\ flist' = [flist EXCEPT ![f] = list]

Close(f) == Goto(f, "closed", "none", NoGateway, {})

\* _save of a gateway list: the other options are those of this moment.  The
\* dialog ends.
SaveGateways(f, list) ==
  /\ saves < world.saves /\ saves' = saves + 1
  /\ gws' = list
  /\ Close(f) /\ UNCHANGED <<world, present, general, maint, setup>>

\* The user opens Configure.
OpenFlow(f) ==
  /\ present /\ f \in world.flows /\ saves < world.saves /\ fpc[f] = "closed"
  /\ Goto(f, "menu", "none", NoGateway, {})
  /\ UNCHANGED <<world, entryVars, setup, saves, used, earned>>

\* new_gateway_id: an identifier that was never used.
NewId(id) == id \notin used /\ used' = used \cup {id}

\* async_step_add_details of another transport, the connection test on: the
\* list is read and extended, then the test is awaited.
AddVerified(f, id) ==
  LET g == FromForm(id, None) IN
  /\ fpc[f] = "menu" /\ NewId(id)
  /\ Goto(f, "validating", "add", g, gws)
  /\ UNCHANGED <<world, entryVars, setup, saves, earned>>

\* async_step_add_details with the connection test off: saved at once.
AddUnverified(f, id) ==
  /\ fpc[f] = "menu" /\ NewId(id)
  /\ SaveGateways(f, gws \cup {FromForm(id, None)})
  /\ UNCHANGED earned

\* async_step_add_details of Meshtastic Bluetooth: guided pairing.
AddBluetooth(f, id, addr) ==
  LET g == FromForm(id, addr) IN
  /\ fpc[f] = "menu" /\ NewId(id) /\ Unique(gws \cup {g})
  /\ Goto(f, "pairing", "add", g, gws)
  /\ UNCHANGED <<world, entryVars, setup, saves, earned>>

\* async_step_edit_gateway: one of the gateways is chosen.
ChooseEdit(f, id) ==
  /\ fpc[f] = "menu" /\ id \in IdsOf(gws)
  /\ Goto(f, "editing", "edit", Find(gws, id), {})
  /\ UNCHANGED <<world, entryVars, setup, saves, used, earned>>

\* async_step_edit_details looks the gateway up again; a gateway that is gone
\* ends the dialog with an error.  The transport is that of the choice.
EditGone(f) ==
  /\ fpc[f] = "editing" /\ frec[f].id \notin IdsOf(gws)
  /\ Close(f) /\ UNCHANGED <<world, entryVars, setup, saves, used, earned>>

\* Another transport: the connection test is awaited with the list in hand, or
\* skipped.
EditVerified(f) ==
  /\ fpc[f] = "editing" /\ ~Bluetooth(frec[f]) /\ frec[f].id \in IdsOf(gws)
  /\ Goto(f, "validating", "edit", FromForm(frec[f].id, None), gws)
  /\ UNCHANGED <<world, entryVars, setup, saves, used, earned>>

EditUnverified(f) ==
  /\ fpc[f] = "editing" /\ ~Bluetooth(frec[f]) /\ frec[f].id \in IdsOf(gws)
  /\ SaveGateways(f, Replaced(gws, FromForm(frec[f].id, None)))
  /\ UNCHANGED <<used, earned>>

\* Mutated form: the address of an owned bond may be edited.
EditOwnedAnywhere(f, addr) ==
  LET old == Find(gws, frec[f].id)
      g == [FromForm(old.id, addr) EXCEPT !.key = TRUE, !.mark = TRUE] IN
  /\ fpc[f] = "editing" /\ Bluetooth(frec[f]) /\ frec[f].id \in IdsOf(gws)
  /\ Owned(old) /\ Unique(Replaced(gws, g))
  /\ SaveGateways(f, Replaced(gws, g))
  /\ UNCHANGED <<used, earned>>

\* Meshtastic Bluetooth with an owned bond: another address is refused, the
\* rest is saved with the ownership kept.
EditOwned(f, addr) ==
  LET old == Find(gws, frec[f].id)
      g == Preserved(old, FromForm(old.id, addr)) IN
  /\ fpc[f] = "editing" /\ Bluetooth(frec[f]) /\ frec[f].id \in IdsOf(gws)
  /\ Owned(old) /\ old.addr = addr /\ Unique(Replaced(gws, g))
  /\ SaveGateways(f, Replaced(gws, g))
  /\ UNCHANGED <<used, earned>>

\* Meshtastic Bluetooth without one: it is paired again.
EditUnowned(f, addr) ==
  LET old == Find(gws, frec[f].id)
      g == FromForm(old.id, addr) IN
  /\ fpc[f] = "editing" /\ Bluetooth(frec[f]) /\ frec[f].id \in IdsOf(gws)
  /\ ~Owned(old) /\ Unique(Replaced(gws, g))
  /\ Goto(f, "pairing", "edit", g, gws)
  /\ UNCHANGED <<world, entryVars, setup, saves, used, earned>>

\* The connection test answers: the list of before the await is saved.
Validated(f) ==
  LET g == frec[f] IN
  /\ fpc[f] = "validating"
  /\ SaveGateways(f, IF fact[f] = "add" THEN flist[f] \cup {g}
                     ELSE Replaced(flist[f], g))
  /\ UNCHANGED <<used, earned>>

\* async_step_pair_finish and _async_save_paired_gateway: pairing has verified
\* the radio and may have created the bond.  The list is read again.
PairSaved(f, created) ==
  LET g == [frec[f] EXCEPT !.key = TRUE, !.mark = created]
      list == IF fact[f] = "add" THEN gws \cup {g} ELSE Replaced(gws, g) IN
  /\ fpc[f] = "pairing" /\ Unique(list)
  /\ SaveGateways(f, list)
  /\ earned' = IF created THEN earned \cup {g.addr} ELSE earned
  /\ UNCHANGED used

\* The list no longer admits the gateway: the save raises and the dialog is
\* removed (its bond is then rolled back: module BluetoothPairing).
PairRefused(f, created) ==
  LET g == [frec[f] EXCEPT !.key = TRUE, !.mark = created] IN
  /\ fpc[f] = "pairing"
  /\ ~Unique(IF fact[f] = "add" THEN gws \cup {g} ELSE Replaced(gws, g))
  /\ Close(f) /\ UNCHANGED <<world, entryVars, setup, saves, used, earned>>

\* The test, the pairing or the removal fails or the user gives up: the form
\* is shown again and nothing is saved.
StepFails(f) ==
  /\ fpc[f] \in {"validating", "pairing", "forgetting"}
  /\ Goto(f, "menu", "none", NoGateway, {})
  /\ UNCHANGED <<world, entryVars, setup, saves, used, earned>>

\* async_step_remove_gateway with the bond: its removal is awaited, with the
\* list in hand.
RemoveWithBond(f, id) ==
  /\ fpc[f] = "menu" /\ id \in IdsOf(gws) /\ ConfiguredKey(Find(gws, id))
  /\ Goto(f, "forgetting", "remove", Find(gws, id), gws)
  /\ UNCHANGED <<world, entryVars, setup, saves, used, earned>>

\* ... and without it: saved at once.
RemovePlain(f, id) ==
  /\ fpc[f] = "menu" /\ id \in IdsOf(gws)
  /\ SaveGateways(f, {g \in gws : g.id # id})
  /\ UNCHANGED <<used, earned>>

\* async_forget_current_bond returns: the list of before is saved, without the
\* gateway.
Forgotten(f) ==
  /\ fpc[f] = "forgetting"
  /\ SaveGateways(f, {g \in flist[f] : g.id # frec[f].id})
  /\ UNCHANGED <<used, earned>>

\* async_step_advanced: any list, checked against the one of this moment.
Advanced(f, proposed) ==
  /\ fpc[f] = "menu" /\ Unique(proposed)
  /\ ~NeedsGuidedSetup(gws, proposed) /\ ~Refused(gws, proposed)
  /\ SaveGateways(f, Reconciled(gws, proposed))
  /\ used' = used \cup IdsOf(proposed) /\ UNCHANGED earned

\* async_step_general.
General(f, v) ==
  /\ fpc[f] = "menu" /\ saves < world.saves /\ saves' = saves + 1
  /\ general' = v /\ Close(f)
  /\ UNCHANGED <<world, present, gws, maint, setup, used, earned>>

\* async_step_maintenance: enabled with one of the Bluetooth gateways, or
\* disabled, which forgets a gateway that is not among the choices.
Maintenance(f, id) ==
  /\ fpc[f] = "menu" /\ saves < world.saves /\ saves' = saves + 1
  /\ id \in MaintenanceChoices(gws) \cup {None}
  /\ maint' = id /\ Close(f)
  /\ UNCHANGED <<world, present, gws, general, setup, used, earned>>

\* Home Assistant removes the dialog.
CloseFlow(f) ==
  /\ fpc[f] \in {"menu", "editing"} /\ Close(f)
  /\ UNCHANGED <<world, entryVars, setup, saves, used, earned>>

-----------------------------------------------------------------------------
Setup(pc, list, rec) == setup' = [pc |-> pc, list |-> list, rec |-> rec]

\* The config flow: the unique id of the integration admits one at a time.
SetupStart ==
  /\ ~present /\ setup.pc = "none" /\ Setup("gateway", {}, NoGateway)
  /\ UNCHANGED <<world, entryVars, flowVars, saves, used, earned>>

\* async_step_gateway: Bluetooth is paired, everything else tested or not.
SetupGateway(g) ==
  /\ setup.pc = "gateway" /\ Unique(setup.list \cup {g})
  /\ g.id \notin IdsOf(setup.list)
  /\ \/ Bluetooth(g) /\ Setup("pairing", setup.list, g)
     \/ ~Bluetooth(g) /\ Setup("more", setup.list \cup {g}, NoGateway)
  /\ UNCHANGED <<world, entryVars, flowVars, saves, used, earned>>

\* async_step_more and async_step_settings.
SetupMore ==
  /\ setup.pc = "more" /\ Setup("gateway", setup.list, NoGateway)
  /\ UNCHANGED <<world, entryVars, flowVars, saves, used, earned>>

Create(list) ==
  /\ present' = TRUE /\ gws' = list /\ used' = IdsOf(list)
  /\ Setup("none", {}, NoGateway)
  /\ UNCHANGED <<world, general, maint, flowVars, saves>>

SetupCreate ==
  /\ setup.pc = "more" /\ ~present /\ Create(setup.list) /\ UNCHANGED earned

\* MeshNetConfigFlow._async_save_paired_gateway: the entry is created at once.
SetupPaired(created) ==
  LET g == [setup.rec EXCEPT !.key = TRUE, !.mark = created] IN
  /\ setup.pc = "pairing" /\ ~present /\ Create(setup.list \cup {g})
  /\ earned' = IF created THEN earned \cup {g.addr} ELSE earned

\* The pairing fails, or the flow is removed.
SetupEnds ==
  /\ setup.pc # "none"
  /\ \/ setup.pc = "pairing" /\ Setup("gateway", setup.list, NoGateway)
     \/ Setup("none", {}, NoGateway)
  /\ UNCHANGED <<world, entryVars, flowVars, saves, used, earned>>

\* async_step_import: stripped of ownership, Bluetooth refused.
Import(list) ==
  LET clean == {Stripped(g) : g \in list} IN
  /\ ~present /\ setup.pc = "none" /\ list # {} /\ Unique(clean)
  /\ ~\E g \in clean : Bluetooth(g)
  /\ Create(clean) /\ UNCHANGED earned

-----------------------------------------------------------------------------
\* The lists of up to two gateways that a user can write in the advanced form or
\* in YAML.  What they say of the adapter is dropped in both.
Writable == {g \in Gateways : ~g.key}
Written == {l \in {{g, h} : g \in Writable, h \in Writable} : Unique(l)} \cup {{}}

FlowStep(f) ==
  \/ OpenFlow(f) \/ CloseFlow(f) \/ EditGone(f)
  \/ EditVerified(f) \/ EditUnverified(f)
  \/ Validated(f) \/ StepFails(f) \/ Forgotten(f)
  \/ \E id \in Ids : \/ AddVerified(f, id) \/ AddUnverified(f, id)
                     \/ ChooseEdit(f, id)
                     \/ RemoveWithBond(f, id) \/ RemovePlain(f, id)
                     \/ Maintenance(f, id)
  \/ \E id \in Ids, addr \in Addrs : AddBluetooth(f, id, addr)
  \/ \E addr \in Addrs : EditOwned(f, addr) \/ EditUnowned(f, addr)
  \/ \E created \in BOOLEAN : PairSaved(f, created) \/ PairRefused(f, created)
  \/ \E v \in Versions : General(f, v)
  \/ \E list \in Written : Advanced(f, list)
  \/ Maintenance(f, None)

SetupStep ==
  \/ SetupStart \/ SetupMore \/ SetupCreate \/ SetupEnds
  \/ \E id \in Ids, addr \in Addrs \cup {None} : SetupGateway(FromForm(id, addr))
  \/ \E created \in BOOLEAN : SetupPaired(created)
  \/ \E list \in Written : Import(list)

OptNext == SetupStep \/ \E f \in Flows : FlowStep(f)

OptSpec == OptInit /\ [][OptNext]_optVars

-----------------------------------------------------------------------------
OptTypeOK ==
  /\ present \in BOOLEAN /\ gws \subseteq Gateways
  /\ general \in Versions \cup {0} /\ maint \in Ids \cup {None}
  /\ fpc \in [Flows -> {"closed", "menu", "editing", "validating", "pairing",
                        "forgetting"}]
  /\ fact \in [Flows -> {"none", "add", "edit", "remove"}]
  /\ frec \in [Flows -> Gateways \cup {NoGateway}]
  /\ flist \in [Flows -> SUBSET Gateways]
  /\ setup \in [pc : {"none", "gateway", "pairing", "more"},
                list : SUBSET Gateways, rec : Gateways \cup {NoGateway}]
  /\ saves \in 0..world.saves /\ used \subseteq Ids /\ earned \subseteq Addrs

\* A record claims a bond as MeshNet's own only for an address whose bond a
\* pairing of MeshNet has made: neither an edit, a JSON list, an import nor the
\* stale list of another dialog can move or forge the claim (config_flow.py:
\* _preserve_, _strip_ and _reconcile_...).
MarkIsEarned == \A g \in gws : g.mark => g.addr \in earned

\* The removal of one gateway through its form.
Removes(f, id) ==
  \/ fpc[f] = "menu" /\ RemovePlain(f, id)
  \/ fpc[f] = "forgetting" /\ frec[f].id = id /\ Forgotten(f)

\* A save that was decided when the record was not owned yet: from the list of
\* before an await, or for a gateway that had another transport when the dialog
\* chose it.
DecidedBefore(f, g) ==
  /\ fpc'[f] = "closed"
  /\ \/ fpc[f] \in {"validating", "pairing", "forgetting"} /\ g \notin flist[f]
     \/ fact[f] = "edit" /\ frec[f].id = g.id /\ frec[f].addr # g.addr

\* Ownership that a dialog could see is given up only by the guided removal of
\* that gateway: any other save that loses an owned record was decided when the
\* record was not owned yet (config_flow.py:938, 1017).
OwnedLeavesKnowingly ==
  [][\A g \in gws : Owned(g) /\ g \notin gws'
        => \E f \in Flows : Removes(f, g.id) \/ DecidedBefore(f, g)]_optVars

\* "Moving that marker requires guided removal followed by a fresh add"
\* (async_step_edit_details).
OwnedNeedsRemoval ==
  [][\A g \in gws : Owned(g) /\ g \notin gws'
        => \E f \in Flows : Removes(f, g.id)]_optVars

=============================================================================
