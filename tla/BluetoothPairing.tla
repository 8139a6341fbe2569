--------------------------- MODULE BluetoothPairing ---------------------------
(***************************************************************************)
(* Local Bluetooth pairing: the transaction that bluetooth_pairing.py runs *)
(* against BlueZ (pair, verify, roll back), the manager's process-local    *)
(* proof of the bonds it made, and the config or options flows of          *)
(* config_flow.py that start an attempt, take its result and release the   *)
(* proof.                                                                  *)
(*                                                                         *)
(* One radio is seen by BlueZ below one adapter path.  The controller      *)
(* behind that path can be swapped, BlueZ can restart, and another         *)
(* Bluetooth client can make or remove a bond at any time.  The radio may  *)
(* be known under several object paths (resolvable private addresses) and, *)
(* once bonded, under its identity address.                                *)
(***************************************************************************)
EXTENDS Naturals, FiniteSets

CONSTANTS Flows,        \* open config and options flows
          Controllers,  \* stable controller addresses
          Paths,        \* Device1 paths of the radio; an unbonded one shows its own address
          Identity,     \* the identity address BlueZ may show after pairing
          Other,        \* another Bluetooth client
          None,
          MaxAttempts,  \* bound: attempts per flow
          MaxEvents     \* bound: restarts, swaps and acts of the other client

ASSUME NoneAssumption == None \notin Flows \cup Controllers \cup Paths \cup {Identity, Other}
ASSUME OtherAssumption == Other \notin Flows
ASSUME ForgetAssumption == "forget" \notin Flows \cup {None}
ASSUME IdentityAssumption == Identity \notin Paths
ASSUME BoundsAssumption == MaxAttempts \in Nat /\ MaxEvents \in Nat

VARIABLES
    gen,      \* generation of the BlueZ daemon (its unique D-Bus owner)
    plugged,  \* the controller now behind the adapter path
    bond,     \* the radio's bond on each controller, or None
    events,   \* environment steps taken so far
    lock,     \* holder of the process-wide pairing lock, "forget", or None
    created,  \* the manager's proof of created bonds
    pc,       \* per flow: where its attempt stands
    tx,       \* per flow: the local state of that attempt
    out,      \* per flow: the outcome of its last attempt
    flow,     \* per flow: "open", "removed" (async_remove ran) or "closed"
    held,     \* per flow: _provisional_bonds
    tries,    \* per flow: attempts begun
    forget    \* the confirmed removal of a bond from the options form

bluezVars == <<gen, plugged, bond, events>>
flowVars == <<flow, held, tries>>
vars == <<gen, plugged, bond, events, lock, created, pc, tx, out, flow, held, tries, forget>>

Makers == Flows \cup {Other}
Addresses == Paths \cup {Identity}
Bond == [maker : Makers, path : Paths, addr : Addresses]
Key == [ctrl : Controllers, addr : Addresses]
Proof == [ctrl : Controllers, addr : Addresses, path : Paths, gen : Nat, by : Flows]

Talking == {"verifyOld", "agent", "pair", "bonded", "verify"}
Cleanup == {"rbRead", "rbRemove", "rbCheck", "unregister"}

\* The local state of one attempt: what it resolved, whether its Pair() returned,
\* and the flags its shielded cleanup shares with the code that waits for it.
Tx == [want : Addresses, gen : Nat, ctrl : Controllers \cup {None}, path : Paths \cup {None},
       addr : Addresses \cup {None}, prompt : {"none", "asked", "given"},
       own : BOOLEAN, ready : BOOLEAN, requested : BOOLEAN, cancelled : BOOLEAN,
       attempted : BOOLEAN, succeeded : BOOLEAN, retired : SUBSET Key,
       since : SUBSET {"swap", "moved", "foreign"}]

TypeOK ==
    /\ gen \in Nat /\ events \in 0..MaxEvents
    /\ plugged \in Controllers
    /\ bond \in [Controllers -> Bond \cup {None}]
    /\ lock \in Flows \cup {"forget", None}
    /\ created \subseteq Proof
    /\ pc \in [Flows -> {"idle", "wait"} \cup Talking \cup Cleanup]
    /\ tx \in [Flows -> Tx]
    /\ out \in [Flows -> {"none", "created", "existing", "incomplete", "failed"}]
    /\ flow \in [Flows -> {"open", "removed", "closed"}]
    /\ held \in [Flows -> SUBSET Key]
    /\ tries \in [Flows -> 0..MaxAttempts]
    /\ forget \in [pc : {"idle", "remove", "check", "done"}, key : Key \cup {None}, gen : Nat]

NewTx(a) ==
    [want |-> a, gen |-> 0, ctrl |-> None, path |-> None, addr |-> None, prompt |-> "none",
     own |-> FALSE, ready |-> FALSE, requested |-> FALSE, cancelled |-> FALSE,
     attempted |-> FALSE, succeeded |-> FALSE, retired |-> {}, since |-> {}]

Init ==
    /\ gen = 0 /\ events = 0
    /\ plugged \in Controllers
    /\ bond \in [Controllers -> {None} \cup {b \in Bond : b.maker = Other /\ b.addr \in {b.path, Identity}}]
    /\ lock = None
    /\ created = {}
    /\ pc = [f \in Flows |-> "idle"]
    /\ tx = [f \in Flows |-> NewTx(Identity)]
    /\ out = [f \in Flows |-> "none"]
    /\ flow = [f \in Flows |-> "open"]
    /\ held = [f \in Flows |-> {}]
    /\ tries = [f \in Flows |-> 0]
    /\ forget = [pc |-> "idle", key |-> None, gen |-> 0]

-----------------------------------------------------------------------------
(* What a read of BlueZ's objects shows.                                     *)

PairedAt(p) == bond[plugged] # None /\ bond[plugged].path = p

AddressAt(p) == IF PairedAt(p) THEN bond[plugged].addr ELSE p

\* The unique path whose Address is the selected one; a radio bonded under one
\* path is not advertised under another.
Resolves(a, p) ==
    /\ AddressAt(p) = a
    /\ bond[plugged] # None => PairedAt(p)

\* Calls go to the unique owner of the daemon the attempt pinned.
SameDaemon(f) == tx[f].gen = gen

\* The selected controller is still the one behind the path, valid and powered.
SameController(f) == tx[f].ctrl = plugged

KeyOf(r) == [ctrl |-> r.ctrl, addr |-> r.addr]

\* Pending proof by stable controller plus address or object path.
Matching(c, a, p) == {r \in created : r.ctrl = c /\ (r.addr = a \/ r.path = p)}

\* Mutated form: earlier proof refuses nothing.
UnambiguousAlways(c, a, p) == TRUE

\* _ensure_candidate_unambiguous: proof of a daemon that is gone is released;
\* anything else refuses the candidate.
Unambiguous(c, a, p) == \A r \in Matching(c, a, p) : r.gen # gen

Stale(c, a, p) == {r \in Matching(c, a, p) : r.gen # gen}

\* rollback of the attempt: Pair() returned and no verified result is ready.
MustRollBack(f) == tx[f].own /\ ~tx[f].ready

-----------------------------------------------------------------------------
(* The attempt: PairingAttempt._run and _BlueZPairingBackend.async_pair.     *)

\* async_begin: the throttle may refuse instead, which changes nothing here.
Begin(f, a) ==
    /\ flow[f] = "open" /\ pc[f] = "idle" /\ out[f] = "none"
    /\ tries[f] < MaxAttempts
    /\ tries' = [tries EXCEPT ![f] = @ + 1]
    /\ tx' = [tx EXCEPT ![f] = NewTx(a)]
    /\ pc' = [pc EXCEPT ![f] = "wait"]
    /\ UNCHANGED <<bluezVars, lock, created, out, flow, held, forget>>

\* Under the lock: open the bus, pin the owner, resolve the selection.  A bonded
\* radio is verified again; an unbonded one must be unambiguous before any Pair().
Resolve(f) ==
    /\ pc[f] = "wait" /\ lock = None
    /\ lock' = f
    /\ \E p \in Paths :
        /\ Resolves(tx[f].want, p)
        /\ tx' = [tx EXCEPT ![f].gen = gen, ![f].ctrl = plugged, ![f].path = p,
                            ![f].addr = tx[f].want]
        /\ IF PairedAt(p)
           THEN pc' = [pc EXCEPT ![f] = "verifyOld"] /\ UNCHANGED created
           ELSE /\ Unambiguous(plugged, tx[f].want, p)
                /\ created' = created \ Stale(plugged, tx[f].want, p)
                /\ pc' = [pc EXCEPT ![f] = "agent"]
    /\ UNCHANGED <<bluezVars, out, flowVars, forget>>

\* No such device, an ambiguous one, proof of an earlier flow, or no BlueZ: the
\* attempt ends before anything was exported.
ResolveFails(f) ==
    /\ pc[f] = "wait" /\ lock = None
    /\ pc' = [pc EXCEPT ![f] = "idle"]
    /\ out' = [out EXCEPT ![f] = "failed"]
    /\ tx' = [tx EXCEPT ![f] = NewTx(Identity)]
    /\ UNCHANGED <<bluezVars, lock, created, flowVars, forget>>

\* A pre-existing bond, read a second time: verified, never owned.
VerifyOld(f) ==
    /\ pc[f] = "verifyOld"
    /\ SameDaemon(f) /\ SameController(f)
    /\ PairedAt(tx[f].path) /\ AddressAt(tx[f].path) = tx[f].want
    /\ Unambiguous(plugged, tx[f].addr, tx[f].path)
    /\ created' = created \ Stale(plugged, tx[f].addr, tx[f].path)
    /\ tx' = [tx EXCEPT ![f].ready = TRUE]
    /\ pc' = [pc EXCEPT ![f] = "unregister"]
    /\ UNCHANGED <<bluezVars, lock, out, flowVars, forget>>

\* Register the agent, read owner and objects once more, then call Device1.Pair()
\* on the pinned path.
CallPair(f) ==
    /\ pc[f] = "agent"
    /\ SameDaemon(f) /\ SameController(f)
    /\ ~PairedAt(tx[f].path)
    /\ tx' = [tx EXCEPT ![f].since = {}]
    /\ pc' = [pc EXCEPT ![f] = "pair"]
    /\ UNCHANGED <<bluezVars, lock, created, out, flowVars, forget>>

\* Agent1 asks once for the PIN; the pin form answers it.
AskPin(f) ==
    /\ pc[f] = "pair" /\ SameDaemon(f) /\ tx[f].prompt = "none"
    /\ tx' = [tx EXCEPT ![f].prompt = "asked"]
    /\ UNCHANGED <<bluezVars, lock, created, pc, out, flowVars, forget>>

SubmitPin(f) ==
    /\ pc[f] = "pair" /\ tx[f].prompt = "asked" /\ flow[f] = "open"
    /\ tx' = [tx EXCEPT ![f].prompt = "given"]
    /\ UNCHANGED <<bluezVars, lock, created, pc, out, flowVars, forget>>

\* BlueZ makes the bond on whatever controller is there; its reply is under way.
BluezPairs(f) ==
    /\ pc[f] = "pair" /\ SameDaemon(f) /\ tx[f].prompt # "asked"
    /\ bond[plugged] = None
    /\ \E a \in {tx[f].path, Identity} :
          bond' = [bond EXCEPT ![plugged] = [maker |-> f, path |-> tx[f].path, addr |-> a]]
    /\ pc' = [pc EXCEPT ![f] = "bonded"]
    /\ UNCHANGED <<gen, plugged, events, lock, created, tx, out, flowVars, forget>>

\* The method return is the ownership boundary.
PairReturns(f) ==
    /\ pc[f] = "bonded" /\ SameDaemon(f)
    /\ tx' = [tx EXCEPT ![f].own = TRUE]
    /\ pc' = [pc EXCEPT ![f] = "verify"]
    /\ UNCHANGED <<bluezVars, lock, created, out, flowVars, forget>>

\* Trust the new bond, then read owner and objects: the address may by now be the
\* identity; controller, path and bond must stand.
VerifyNew(f) ==
    /\ pc[f] = "verify"
    /\ SameDaemon(f) /\ SameController(f)
    /\ PairedAt(tx[f].path)
    /\ tx' = [tx EXCEPT ![f].ready = TRUE, ![f].addr = AddressAt(tx[f].path)]
    /\ pc' = [pc EXCEPT ![f] = "unregister"]
    /\ UNCHANGED <<bluezVars, lock, created, out, flowVars, forget>>

-----------------------------------------------------------------------------
(* Failure and cancellation: the finally block and the shielded cleanup.     *)

\* A cancelled Pair() is first cancelled in BlueZ (CancelPairing, on the same
\* controller only); a pairing the daemon has completed stays.
StartCleanup(f, a, cancelled) ==
    /\ tx' = [tx EXCEPT ![f].addr = a, ![f].cancelled = cancelled]
    /\ pc' = [pc EXCEPT ![f] = IF MustRollBack(f) THEN "rbRead" ELSE "unregister"]

\* A refused Pair(), a failed verification, a lost reply, a prompt that timed
\* out, an ambiguous candidate, a D-Bus error: any step before the result.  A
\* verification that read the objects has already taken over the address it saw.
AttemptFails(f) ==
    /\ pc[f] \in Talking
    /\ \/ StartCleanup(f, tx[f].addr, FALSE)
       \/ /\ pc[f] = "verify" /\ SameDaemon(f) /\ SameController(f)
          /\ StartCleanup(f, AddressAt(tx[f].path), FALSE)
    /\ UNCHANGED <<bluezVars, lock, created, out, flowVars, forget>>

\* The overall timeout, or the flow that is removed, cancels the task.  In the
\* cleanup a cancellation only asks for the rollback of a bond that is ours.
Cancel(f) ==
    \/ /\ pc[f] = "wait"
       /\ pc' = [pc EXCEPT ![f] = "idle"]
       /\ out' = [out EXCEPT ![f] = "failed"]
       /\ tx' = [tx EXCEPT ![f] = NewTx(Identity)]
       /\ UNCHANGED <<bluezVars, lock, created, flowVars, forget>>
    \/ /\ pc[f] \in Talking
       /\ StartCleanup(f, tx[f].addr, TRUE)
       /\ UNCHANGED <<bluezVars, lock, created, out, flowVars, forget>>
    \/ /\ pc[f] \in Cleanup /\ ~tx[f].cancelled
       /\ tx' = [tx EXCEPT ![f].cancelled = TRUE, ![f].requested = tx[f].own]
       /\ UNCHANGED <<bluezVars, lock, created, pc, out, flowVars, forget>>

\* Mutated form: no look at the controller.
MayRemoveAnywhere(f) == SameDaemon(f) /\ PairedAt(tx[f].path)

\* The exact bond on the exact controller, read just now.
MayRemove(f) == SameDaemon(f) /\ SameController(f) /\ PairedAt(tx[f].path)

\* rollback_created_bond: never across controllers.  A device object that is gone
\* counts as success, and so does an unpaired one; the read itself may fail.
RollbackRead(f) ==
    /\ pc[f] = "rbRead"
    /\ \E remove, done \in BOOLEAN :
        /\ remove => MayRemove(f) /\ ~done
        /\ done => SameDaemon(f) /\ ~PairedAt(tx[f].path)
        /\ tx' = [tx EXCEPT ![f].attempted = TRUE, ![f].succeeded = done, ![f].since = @ \ {"swap"}]
        /\ pc' = [pc EXCEPT ![f] = IF remove THEN "rbRemove" ELSE "unregister"]
    /\ UNCHANGED <<bluezVars, lock, created, out, flowVars, forget>>

\* Adapter1.RemoveDevice; a call that fails or times out may still have acted.
RollbackRemove(f) ==
    /\ pc[f] = "rbRemove"
    /\ \E acted, answered \in BOOLEAN :
        /\ answered => acted
        /\ acted => SameDaemon(f)
        /\ bond' = IF acted /\ PairedAt(tx[f].path) THEN [bond EXCEPT ![plugged] = None] ELSE bond
        /\ pc' = [pc EXCEPT ![f] = IF answered THEN "rbCheck" ELSE "unregister"]
    /\ UNCHANGED <<gen, plugged, events, lock, created, tx, out, flowVars, forget>>

RollbackCheck(f) ==
    /\ pc[f] = "rbCheck"
    /\ \E seen \in BOOLEAN :
          tx' = [tx EXCEPT ![f].succeeded = seen /\ SameDaemon(f) /\ ~PairedAt(tx[f].path)]
    /\ pc' = [pc EXCEPT ![f] = "unregister"]
    /\ UNCHANGED <<bluezVars, lock, created, out, flowVars, forget>>

\* The last ownership decision, before the bus is closed: a cancellation that
\* came after the rollback step still gets its rollback.
LateRollback(f) ==
    /\ pc[f] = "unregister" /\ tx[f].requested /\ ~tx[f].attempted
    /\ pc' = [pc EXCEPT ![f] = "rbRead"]
    /\ UNCHANGED <<bluezVars, lock, created, tx, out, flowVars, forget>>

\* Mutated form: a rollback that cannot be verified counts as done.
CommitsClean(f) == tx[f].own /\ ~MustRollBack(f) /\ ~tx[f].requested

\* commit_irrevocable: the result must reach the manager.  That is so when no
\* rollback was wanted, and when a rollback could not be verified.
Commits(f) ==
    /\ tx[f].own
    /\ \/ ~MustRollBack(f) /\ (~tx[f].requested \/ (tx[f].attempted /\ ~tx[f].succeeded))
       \/ MustRollBack(f) /\ tx[f].attempted /\ ~tx[f].succeeded

\* The outcome the attempt's task ends with.
Outcome(f) ==
    IF tx[f].own
    THEN IF Commits(f) THEN (IF tx[f].ready THEN "created" ELSE "incomplete") ELSE "failed"
    ELSE IF tx[f].ready /\ ~tx[f].cancelled
            /\ Matching(tx[f].ctrl, tx[f].addr, tx[f].path) = {}
         THEN "existing" ELSE "failed"

ProofOf(f) == [ctrl |-> tx[f].ctrl, addr |-> tx[f].addr, path |-> tx[f].path,
               gen |-> tx[f].gen, by |-> f]

\* _record_created_bond: the new proof retires every alias of the same radio.
\* Only a result tells its flow what it retired; the rest of the attempt's locals
\* end with it.
Left(f, retired) ==
    [NewTx(Identity) EXCEPT !.ctrl = tx[f].ctrl, !.addr = tx[f].addr, !.own = tx[f].own,
                            !.retired = retired, !.since = tx[f].since \cap {"moved"}]

Record(f) ==
    LET old == Matching(tx[f].ctrl, tx[f].addr, tx[f].path)
    IN /\ created' = (created \ old) \cup {ProofOf(f)}
       /\ tx' = [tx EXCEPT ![f] = Left(f, IF tx[f].ready THEN {KeyOf(r) : r \in old} ELSE {})]

\* Unregister, close the bus, leave the lock; _accept_result has no await.
EndAttempt(f) ==
    /\ pc[f] = "unregister" /\ ~(tx[f].requested /\ ~tx[f].attempted)
    /\ lock' = None
    /\ pc' = [pc EXCEPT ![f] = "idle"]
    /\ out' = [out EXCEPT ![f] = Outcome(f)]
    /\ IF Outcome(f) \in {"created", "incomplete"}
       THEN Record(f)
       ELSE tx' = [tx EXCEPT ![f] = Left(f, {})] /\ UNCHANGED created
    /\ UNCHANGED <<bluezVars, flowVars, forget>>

-----------------------------------------------------------------------------
(* The flows of config_flow.py.                                              *)

\* Mutated form: only a result is remembered, not the handle of a failed rollback.
SettledResult(f) ==
    IF out[f] = "created" THEN (held[f] \ tx[f].retired) \cup {KeyOf(tx[f])} ELSE held[f]

\* What the flow keeps of its last attempt: the key of a bond it must settle,
\* and the keys its new proof has superseded.
Settled(f) ==
    IF out[f] \in {"created", "incomplete"}
    THEN (held[f] \ tx[f].retired) \cup {KeyOf(tx[f])}
    ELSE held[f]

\* async_step_pairing / _pairing_submit after an error: back to the form.
FlowReturns(f) ==
    /\ flow[f] = "open" /\ out[f] \in {"failed", "incomplete"}
    /\ held' = [held EXCEPT ![f] = Settled(f)]
    /\ out' = [out EXCEPT ![f] = "none"]
    /\ UNCHANGED <<bluezVars, lock, created, pc, tx, flow, tries, forget>>

\* async_step_pair_finish: remember the bond, ask for the entry to be saved.
\* Home Assistant then commits or aborts and removes the flow.
FlowFinishes(f) ==
    /\ flow[f] = "open" /\ out[f] \in {"created", "existing"}
    /\ held' = [held EXCEPT ![f] = Settled(f)]
    /\ out' = [out EXCEPT ![f] = "none"]
    /\ flow' = [flow EXCEPT ![f] = "removed"]
    /\ UNCHANGED <<bluezVars, lock, created, pc, tx, tries, forget>>

\* async_remove of an abandoned flow: the cleanup task cancels the attempt.
FlowRemoved(f) ==
    /\ flow[f] = "open"
    /\ flow' = [flow EXCEPT ![f] = "removed"]
    /\ UNCHANGED <<bluezVars, lock, created, pc, tx, out, held, tries, forget>>

\* release_created of every key: exact key and adapter name, no generation.
Released(keys) == {r \in created : KeyOf(r) \in keys}

\* _async_cleanup_removed_pairing_flow, once the attempt has ended.
FlowCleanup(f) ==
    /\ flow[f] = "removed" /\ pc[f] = "idle"
    /\ created' = created \ Released(Settled(f))
    /\ held' = [held EXCEPT ![f] = {}]
    /\ out' = [out EXCEPT ![f] = "none"]
    /\ flow' = [flow EXCEPT ![f] = "closed"]
    /\ tx' = [tx EXCEPT ![f] = NewTx(Identity)]
    /\ UNCHANGED <<bluezVars, lock, pc, tries, forget>>

-----------------------------------------------------------------------------
(* Configure -> Remove gateway, with the bond: async_forget_current_bond.    *)

\* The controller by its stable address, and on it the radio by its address.
OwnedAndPaired(k) == plugged = k.ctrl /\ \E p \in Paths : PairedAt(p) /\ AddressAt(p) = k.addr

\* Under the lock; without such a bond there is nothing to remove.
ForgetResolves(k) ==
    /\ forget.pc = "idle" /\ lock = None
    /\ lock' = "forget"
    /\ forget' = [key |-> k, gen |-> gen,
                  pc |-> IF OwnedAndPaired(k) THEN "remove" ELSE "check"]
    /\ UNCHANGED <<bluezVars, created, pc, tx, out, flowVars>>

\* Adapter1.RemoveDevice of the resolved path.
ForgetRemoves ==
    /\ forget.pc = "remove" /\ forget.gen = gen
    /\ bond' = IF bond[plugged] # None THEN [bond EXCEPT ![plugged] = None] ELSE bond
    /\ forget' = [forget EXCEPT !.pc = "check"]
    /\ UNCHANGED <<gen, plugged, events, lock, created, pc, tx, out, flowVars>>

\* Verified or failed; only success releases the process proof.
ForgetEnds(ok) ==
    /\ forget.pc \in {"remove", "check"}
    /\ ok => forget.pc = "check" /\ forget.gen = gen
    /\ lock' = None
    /\ created' = IF ok THEN created \ Released({forget.key}) ELSE created
    /\ forget' = [pc |-> "done", key |-> None, gen |-> 0]
    /\ UNCHANGED <<bluezVars, pc, tx, out, flowVars>>

-----------------------------------------------------------------------------
(* The environment.                                                          *)

\* Remember, per running attempt, what happened to the bonds behind its back.
Noticed(what) ==
    tx' = [f \in Flows |-> [tx[f] EXCEPT !.since = IF pc[f] \in {"idle", "wait"} THEN @ ELSE @ \cup what]]

OtherPairs(p, a) ==
    /\ events < MaxEvents /\ events' = events + 1
    /\ bond[plugged] = None /\ a \in {p, Identity}
    /\ bond' = [bond EXCEPT ![plugged] = [maker |-> Other, path |-> p, addr |-> a]]
    /\ Noticed({"foreign"})
    /\ UNCHANGED <<gen, plugged, lock, created, pc, out, flowVars, forget>>

OtherRemoves ==
    /\ events < MaxEvents /\ events' = events + 1
    /\ bond[plugged] # None
    /\ bond' = [bond EXCEPT ![plugged] = None]
    /\ UNCHANGED <<gen, plugged, lock, created, pc, tx, out, flowVars, forget>>

BluezRestarts ==
    /\ events < MaxEvents /\ events' = events + 1
    /\ gen' = gen + 1
    /\ UNCHANGED <<plugged, bond, lock, created, pc, tx, out, flowVars, forget>>

Swap(c) ==
    /\ events < MaxEvents /\ events' = events + 1
    /\ plugged # c /\ plugged' = c
    /\ Noticed({"swap", "moved"})
    /\ UNCHANGED <<gen, bond, lock, created, pc, out, flowVars, forget>>

-----------------------------------------------------------------------------
\* What the event loop drives forward.
Attempt(f) ==
    \/ Resolve(f) \/ ResolveFails(f) \/ VerifyOld(f) \/ CallPair(f)
    \/ PairReturns(f) \/ VerifyNew(f)
    \/ RollbackRead(f) \/ RollbackRemove(f) \/ RollbackCheck(f)
    \/ LateRollback(f) \/ EndAttempt(f)

ForgetGoesOn == ForgetRemoves \/ ForgetEnds(TRUE) \/ ForgetEnds(FALSE)

Environment ==
    \/ \E p \in Paths, a \in Addresses : OtherPairs(p, a)
    \/ OtherRemoves \/ BluezRestarts
    \/ \E c \in Controllers : Swap(c)

Next ==
    \/ \E f \in Flows :
        \/ Attempt(f) \/ AskPin(f) \/ SubmitPin(f) \/ BluezPairs(f)
        \/ AttemptFails(f) \/ Cancel(f)
        \/ FlowReturns(f) \/ FlowFinishes(f) \/ FlowRemoved(f) \/ FlowCleanup(f)
        \/ \E a \in Addresses : Begin(f, a)
    \/ \E k \in Key : ForgetResolves(k)
    \/ ForgetGoesOn
    \/ Environment

Spec == Init /\ [][Next]_vars

-----------------------------------------------------------------------------
(* Properties.                                                               *)

\* A rollback takes away a bond only when the attempt's own Pair() returned, and
\* then that very bond, unless a bond of another client took its place after
\* Pair() or the controller was swapped after the last look at it
\* (bluetooth_pairing.py:816-866, "a Pair error must never remove a bond another
\* client may have made").
RollbackIsOwn ==
    [][\A f \in Flows :
          pc[f] = "rbRemove" /\ pc'[f] # "rbRemove" /\ bond' # bond
          => /\ tx[f].own
             /\ \/ bond[plugged].maker = f /\ plugged = tx[f].ctrl
                \/ "foreign" \in tx[f].since
                \/ "swap" \in tx[f].since]_vars

\* A bond whose Pair() returned to an attempt is never orphaned: once the attempt
\* is over and while the bond stands, the flow that started it holds its key,
\* whatever was cancelled, timed out or failed in between.  (A swap of the
\* controller under the attempt is left to NothingOrphaned.)
OwnershipKept ==
    \A f \in Flows, c \in Controllers :
        /\ pc[f] = "idle" /\ flow[f] = "open" /\ tx[f].own /\ tx[f].ctrl = c
        /\ bond[c] # None /\ bond[c].maker = f /\ "moved" \notin tx[f].since
        => KeyOf(tx[f]) \in Settled(f)

\* No attempt obtains a bond while proof of an earlier one for the same radio
\* and the same daemon is unresolved, unless the controller was swapped under
\* the call.
NoRivalBond ==
    [][\A f \in Flows :
          pc[f] = "pair" /\ pc'[f] = "bonded" /\ "swap" \notin tx[f].since
          => \A r \in Matching(plugged, tx[f].addr, tx[f].path) : r.gen # gen]_vars

\* When every flow is gone no proof is left behind that would refuse the radio
\* until the next restart.
NoProofLeft == (\A f \in Flows : flow[f] = "closed") => created = {}

\* What the comment above the handle of an unfinished rollback says: it is raised
\* "instead of orphaning" the bond (bluetooth_pairing.py:1245-1247).  The code
\* does orphan one: after a swap of the controller the rollback finds no device
\* object at the path and calls the rollback a success before it compares the
\* controllers, while the old controller keeps the bond.
NothingOrphaned ==
    \A f \in Flows, c \in Controllers :
        /\ pc[f] = "idle" /\ flow[f] = "open" /\ tx[f].own /\ tx[f].ctrl = c
        /\ bond[c] # None /\ bond[c].maker = f
        => KeyOf(tx[f]) \in Settled(f)
=============================================================================
