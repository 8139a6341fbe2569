----------------------- MODULE BluetoothPairing_proofs -----------------------
(***************************************************************************)
(* For any flows, controllers and paths, any number of attempts and any    *)
(* acts of the world: a rollback removes the attempt's own bond only, a    *)
(* bond that was made stays with its flow, no second bond is made beside a *)
(* proof, and no proof outlives its flows.                                 *)
(*                                                                         *)
(* The argument: the lock lets one attempt talk to BlueZ at a time, so the *)
(* others can be taken as they were; and one attempt is followed from its  *)
(* Pair() to the hand-over to its flow, by what it knows and by what was   *)
(* done behind its back.                                                   *)
(***************************************************************************)
EXTENDS BluetoothPairing, TLAPS

USE NoneAssumption, OtherAssumption, ForgetAssumption, IdentityAssumption, BoundsAssumption

Busy == Talking \cup Cleanup
BackOut == {"rbRead", "rbRemove", "rbCheck"}

\* What a flow keeps of an attempt with these locals and this outcome.
Kept(t, o, h) ==
    IF o \in {"created", "incomplete"} THEN (h \ t.retired) \cup {KeyOf(t)} ELSE h

\* An attempt past its call of Pair().
Past(p, t) == p \in {"pair", "bonded"} \/ (p \in Busy /\ t.own)

\* What an attempt has resolved and done, by where it is.
Place(p, t, o, fl, h) ==
    /\ p \in {"idle", "wait"} \cup Busy
    /\ t \in Tx /\ h \in SUBSET Key
    /\ o \in {"none", "created", "existing", "incomplete", "failed"}
    /\ fl \in {"open", "removed", "closed"}
    /\ p # "idle" => o = "none" /\ fl # "closed"
    /\ p \in Busy \/ o \in {"created", "incomplete"} => t.ctrl \in Controllers /\ t.addr \in Addresses
    /\ p \in Busy => t.path \in Paths
    /\ t.requested \/ p \in BackOut => t.own
    /\ p \in Talking => (t.own <=> p = "verify")
    /\ p \in Talking \cup {"wait"} => ~t.ready /\ ~t.attempted /\ ~t.succeeded
    /\ p = "wait" => ~t.own
    /\ p = "unregister" /\ t.own /\ ~t.ready => t.attempted
    /\ p \in {"rbRemove", "rbCheck"} => t.attempted

\* No proof of the same radio beside an attempt that may pair.
Rival(p, t, cr) ==
    p \in {"agent", "pair"}
      => \A r \in cr : ~(r.ctrl = t.ctrl /\ (r.addr = t.addr \/ r.path = t.path))

\* A change of the controller is noticed.
Same(p, t, pl) ==
    /\ Past(p, t) /\ "moved" \notin t.since => pl = t.ctrl
    /\ p \in {"pair", "rbRemove"} /\ "swap" \notin t.since => pl = t.ctrl

\* Whose bond is at the path the attempt called Pair() on.
Whose(f, p, t, b) ==
    Past(p, t) /\ "foreign" \notin t.since /\ b[t.ctrl] # None /\ b[t.ctrl].path = t.path
      => b[t.ctrl].maker = f

\* A bond of the attempt on its controller: at its path and not rolled back
\* while it runs, in the hands of its flow afterwards.
Keeps(f, p, t, o, fl, h, b) ==
    t.ctrl \in Controllers /\ b[t.ctrl] # None /\ b[t.ctrl].maker = f /\ "moved" \notin t.since
      => /\ p = "bonded" \/ (p \in Busy /\ t.own) => b[t.ctrl].path = t.path /\ ~t.succeeded
         /\ p = "idle" /\ fl = "open" /\ t.own => KeyOf(t) \in Kept(t, o, h)

FlowInv(f, p, t, o, fl, h, cr, pl, b) ==
    /\ Place(p, t, o, fl, h) /\ Rival(p, t, cr) /\ Same(p, t, pl)
    /\ Whose(f, p, t, b) /\ Keeps(f, p, t, o, fl, h, b)

BluezInv ==
    /\ gen \in Nat /\ events \in 0..MaxEvents /\ plugged \in Controllers
    /\ bond \in [Controllers -> Bond \cup {None}]
    /\ tries \in [Flows -> 0..MaxAttempts]
    /\ forget \in [pc : {"idle", "remove", "check", "done"}, key : Key \cup {None}, gen : Nat]

\* The lock is held by the attempt that talks to BlueZ, or by the removal.
LockInv ==
    /\ lock \in Flows \cup {"forget", None}
    /\ \A f \in Flows : pc[f] \in Busy <=> lock = f
    /\ forget.pc \in {"remove", "check"} => lock = "forget"

\* One proof for a key, and the flow that made it will release it.
ProofInv ==
    /\ created \subseteq Proof
    /\ \A r, s \in created : KeyOf(r) = KeyOf(s) => r = s
    /\ \A r \in created : flow[r.by] # "closed" /\ KeyOf(r) \in Kept(tx[r.by], out[r.by], held[r.by])

Funs ==
    /\ pc = [f \in Flows |-> pc[f]] /\ tx = [f \in Flows |-> tx[f]] /\ out = [f \in Flows |-> out[f]]
    /\ flow = [f \in Flows |-> flow[f]] /\ held = [f \in Flows |-> held[f]]

PairInv ==
    /\ BluezInv /\ LockInv /\ ProofInv /\ Funs
    /\ \A f \in Flows : FlowInv(f, pc[f], tx[f], out[f], flow[f], held[f], created, plugged, bond)

\* A step that touches one flow and leaves it so.
At(f, p, t, o, fl, h) ==
    /\ Funs'
    /\ pc'[f] = p /\ tx'[f] = t /\ out'[f] = o /\ flow'[f] = fl /\ held'[f] = h
    /\ \A k \in Flows \ {f} : /\ pc'[k] = pc[k] /\ tx'[k] = tx[k] /\ out'[k] = out[k]
                              /\ flow'[k] = flow[k] /\ held'[k] = held[k]

-----------------------------------------------------------------------------
(* Frames *)

\* A flow is not disturbed by proofs and bonds that go.
LEMMA LessIsFine ==
    ASSUME NEW f, NEW p, NEW t, NEW o, NEW fl, NEW h, NEW cr, NEW pl, NEW b, NEW cr2, NEW b2,
           FlowInv(f, p, t, o, fl, h, cr, pl, b), cr2 \subseteq cr,
           \A c \in Controllers : b2[c] \in {b[c], None}
    PROVE  FlowInv(f, p, t, o, fl, h, cr2, pl, b2)
  <1>1. Rival(p, t, cr2)
    BY DEF FlowInv, Rival
  <1>2. Past(p, t) => t.ctrl \in Controllers
    BY DEF FlowInv, Place, Past, Busy, Talking
  <1>3. Whose(f, p, t, b2)
    BY <1>2 DEF FlowInv, Whose
  <1>4. Keeps(f, p, t, o, fl, h, b2)
    BY DEF FlowInv, Keeps
  <1> QED BY <1>1, <1>3, <1>4 DEF FlowInv

\* A flow that does not hold the lock is not disturbed by new proofs, nor by
\* bonds of others.
LEMMA WaitingIsFine ==
    ASSUME NEW f, NEW p, NEW t, NEW o, NEW fl, NEW h, NEW cr, NEW pl, NEW b, NEW cr2, NEW pl2, NEW b2,
           FlowInv(f, p, t, o, fl, h, cr, pl, b), p \notin Busy,
           \A c \in Controllers : b2[c] = b[c] \/ b2[c] = None \/ b2[c].maker # f
    PROVE  FlowInv(f, p, t, o, fl, h, cr2, pl2, b2)
  <1>1. ~Past(p, t) /\ p \notin {"agent", "pair", "rbRemove", "bonded"}
    BY DEF Past, Busy, Talking, Cleanup
  <1>2. Rival(p, t, cr2) /\ Same(p, t, pl2) /\ Whose(f, p, t, b2)
    BY <1>1 DEF Rival, Same, Whose
  <1>3. Keeps(f, p, t, o, fl, h, b2)
    BY <1>1 DEF FlowInv, Keeps
  <1> QED BY <1>2, <1>3 DEF FlowInv

\* Steps of one flow.
LEMMA OfOneFlow ==
    ASSUME PairInv, NEW f \in Flows, NEW p, NEW t, NEW o, NEW fl, NEW h, At(f, p, t, o, fl, h),
           UNCHANGED <<gen, plugged, events, forget>>,
           bond' \in [Controllers -> Bond \cup {None}], tries' \in [Flows -> 0..MaxAttempts],
           p \in Busy <=> lock' = f, lock' = lock \/ {lock, lock'} \subseteq {f, None},
           ProofInv', FlowInv(f, p, t, o, fl, h, created', plugged, bond'),
           \/ created' \subseteq created /\ \A c \in Controllers : bond'[c] \in {bond[c], None}
           \/ lock = f /\ \A c \in Controllers : bond'[c] = bond[c] \/ bond'[c].maker = f
    PROVE  PairInv'
  <1>1. BluezInv' /\ Funs'
    BY DEF PairInv, BluezInv, At
  <1>2. LockInv'
    <2>1. lock' \in Flows \cup {"forget", None} /\ (lock = "forget" => lock' = "forget")
      BY DEF PairInv, LockInv
    <2>2. ASSUME NEW k \in Flows PROVE pc'[k] \in Busy <=> lock' = k
      <3>1. CASE k = f
        BY <3>1 DEF At
      <3>2. CASE k # f
        <4>1. pc'[k] = pc[k] /\ (pc[k] \in Busy <=> lock = k)
          BY <3>2 DEF At, PairInv, LockInv
        <4>2. lock' = k <=> lock = k
          BY <3>2
        <4> QED BY <4>1, <4>2
      <3> QED BY <3>1, <3>2
    <2> QED BY <2>1, <2>2 DEF PairInv, LockInv
  <1>3. ASSUME NEW k \in Flows
        PROVE  FlowInv(k, pc'[k], tx'[k], out'[k], flow'[k], held'[k], created', plugged', bond')
    <2>1. CASE k = f
      BY <2>1 DEF At
    <2>2. CASE k # f
      <3>1. /\ pc'[k] = pc[k] /\ tx'[k] = tx[k] /\ out'[k] = out[k]
            /\ flow'[k] = flow[k] /\ held'[k] = held[k]
        BY <2>2 DEF At
      <3>2. FlowInv(k, pc[k], tx[k], out[k], flow[k], held[k], created, plugged, bond)
        BY DEF PairInv
      <3>3. CASE created' \subseteq created /\ \A c \in Controllers : bond'[c] \in {bond[c], None}
        <4>1. FlowInv(k, pc[k], tx[k], out[k], flow[k], held[k], created', plugged, bond')
          BY ONLY <3>2, <3>3, LessIsFine
        <4> QED BY <3>1, <4>1
      <3>4. CASE lock = f /\ \A c \in Controllers : bond'[c] = bond[c] \/ bond'[c].maker = f
        <4>1. pc[k] \notin Busy
          BY <2>2, <3>4 DEF PairInv, LockInv
        <4>2. \A c \in Controllers : bond'[c] = bond[c] \/ bond'[c] = None \/ bond'[c].maker # k
          BY <2>2, <3>4
        <4>3. FlowInv(k, pc[k], tx[k], out[k], flow[k], held[k], created', plugged', bond')
          BY ONLY <3>2, <4>1, <4>2, WaitingIsFine
        <4> QED BY <3>1, <4>3
      <3> QED BY <3>3, <3>4
    <2> QED BY <2>1, <2>2
  <1> QED BY <1>1, <1>2, <1>3 DEF PairInv

\* Proofs that only go, while the flow keeps what it must release.
LEMMA ProofsGo ==
    ASSUME PairInv, NEW f \in Flows, NEW p, NEW t, NEW o, NEW fl, NEW h, At(f, p, t, o, fl, h),
           created' \subseteq created,
           \A r \in created' : r.by = f => fl # "closed" /\ KeyOf(r) \in Kept(t, o, h)
    PROVE  ProofInv'
  <1>1. ASSUME NEW r \in created'
        PROVE  flow'[r.by] # "closed" /\ KeyOf(r) \in Kept(tx'[r.by], out'[r.by], held'[r.by])
    <2>1. r.by \in Flows /\ flow[r.by] # "closed" /\ KeyOf(r) \in Kept(tx[r.by], out[r.by], held[r.by])
      BY DEF PairInv, ProofInv, Proof
    <2>2. CASE r.by = f
      BY <2>2 DEF At
    <2>3. CASE r.by # f
      BY <2>1, <2>3 DEF At
    <2> QED BY <2>2, <2>3
  <1> QED BY <1>1 DEF PairInv, ProofInv

\* An attempt that goes on, or ends without an outcome to keep.
LEMMA GoesOn ==
    ASSUME PairInv, NEW f \in Flows, pc[f] # "idle", NEW p, NEW t, NEW o, o \in {"none", "failed"},
           At(f, p, t, o, flow[f], held[f]), UNCHANGED <<bluezVars, tries, forget>>,
           created' \subseteq created,
           p \in Busy <=> lock' = f, lock' = lock \/ {lock, lock'} \subseteq {f, None},
           FlowInv(f, p, t, o, flow[f], held[f], created', plugged, bond)
    PROVE  PairInv'
  <1>1. out[f] = "none" /\ flow[f] # "closed"
    BY DEF PairInv, FlowInv, Place
  <1>2. \A r \in created' : r.by = f => KeyOf(r) \in Kept(t, o, held[f])
    BY <1>1 DEF Kept, PairInv, ProofInv
  <1>3. ProofInv'
    BY <1>1, <1>2, ProofsGo
  <1>4. /\ bond' \in [Controllers -> Bond \cup {None}] /\ tries' \in [Flows -> 0..MaxAttempts]
        /\ UNCHANGED <<gen, plugged, events, forget>> /\ bond' = bond
    BY DEF bluezVars, PairInv, BluezInv
  <1> QED BY <1>3, <1>4, OfOneFlow

-----------------------------------------------------------------------------
(* The locals of an attempt *)

\* What a copy of the locals has in common with them.
Like(u, t) ==
    /\ u \in Tx
    /\ u.ctrl = t.ctrl /\ u.path = t.path /\ u.own = t.own /\ u.retired = t.retired
    /\ u.requested => t.requested \/ t.own

\* New locals.
LEMMA NewLocals ==
    ASSUME NEW a \in Addresses
    PROVE  /\ NewTx(a) \in Tx /\ NewTx(a).want = a /\ NewTx(a).ctrl = None
           /\ ~NewTx(a).requested /\ ~NewTx(a).own /\ ~NewTx(a).ready
           /\ ~NewTx(a).attempted /\ ~NewTx(a).succeeded
  BY DEF NewTx, Tx

\* One flag of the locals.
LEMMA FlaggedLocals ==
    ASSUME NEW t \in Tx
    PROVE  /\ LET u == [t EXCEPT !.ready = TRUE]
              IN  /\ Like(u, t) /\ u.addr = t.addr /\ u.since = t.since /\ u.ready
                  /\ u.attempted = t.attempted /\ u.succeeded = t.succeeded
           /\ LET u == [t EXCEPT !.since = {}]
              IN  /\ Like(u, t) /\ u.addr = t.addr /\ u.ready = t.ready
                  /\ u.attempted = t.attempted /\ u.succeeded = t.succeeded
           /\ \A w \in {"asked", "given"} :
                LET u == [t EXCEPT !.prompt = w]
                IN  /\ Like(u, t) /\ u.addr = t.addr /\ u.since = t.since /\ u.ready = t.ready
                    /\ u.attempted = t.attempted /\ u.succeeded = t.succeeded
  BY DEF Like, Tx

\* The locals of an attempt whose Pair() returned, and of one that is verified.
LEMMA OwnedLocals ==
    ASSUME NEW t \in Tx, NEW a \in Addresses
    PROVE  /\ LET u == [t EXCEPT !.own = TRUE]
              IN  /\ u \in Tx /\ u.ctrl = t.ctrl /\ u.path = t.path /\ u.addr = t.addr /\ u.own
                  /\ u.since = t.since /\ u.ready = t.ready
                  /\ u.attempted = t.attempted /\ u.succeeded = t.succeeded
           /\ LET u == [t EXCEPT !.ready = TRUE, !.addr = a]
              IN  /\ Like(u, t) /\ u.addr = a /\ u.since = t.since /\ u.ready
                  /\ u.attempted = t.attempted /\ u.succeeded = t.succeeded
  BY DEF Like, Tx

\* The locals that an attempt leaves.
LEMMA LeftLocals ==
    ASSUME NEW f, tx[f] \in Tx, NEW keys \in SUBSET Key
    PROVE  /\ Left(f, keys) \in Tx /\ Left(f, keys).ctrl = tx[f].ctrl
           /\ Left(f, keys).addr = tx[f].addr /\ Left(f, keys).own = tx[f].own
           /\ ~Left(f, keys).requested
           /\ Left(f, keys).retired = keys /\ Left(f, keys).since = tx[f].since \cap {"moved"}
  <1> DEFINE t == tx[f]
             n == NewTx(Identity)
             s == t.since \cap {"moved"}
             u == [n EXCEPT !.ctrl = t.ctrl, !.addr = t.addr, !.own = t.own, !.retired = keys, !.since = s]
  <1>1. n \in Tx /\ ~n.requested
    BY NewLocals DEF Addresses
  <1>2. t \in Tx /\ s \in SUBSET {"swap", "moved", "foreign"}
    OBVIOUS
  <1>3. Left(f, keys) = u
    BY DEF Left
  <1> HIDE DEF t, n, s
  <1>4. u \in Tx /\ u.ctrl = t.ctrl /\ u.addr = t.addr /\ u.own = t.own /\ u.retired = keys
        /\ u.since = s /\ ~u.requested
    BY ONLY <1>1, <1>2, keys \in SUBSET Key DEF Tx
  <1> QED BY <1>3, <1>4 DEF t, s

\* What happens behind the back of an attempt is added to its locals.
LEMMA NoticedLocals ==
    ASSUME NEW t \in Tx, NEW what \in SUBSET {"swap", "moved", "foreign"}
    PROVE  LET u == [t EXCEPT !.since = @ \cup what]
           IN  /\ Like(u, t) /\ u.addr = t.addr /\ u.since = t.since \cup what /\ u.ready = t.ready
               /\ u.attempted = t.attempted /\ u.succeeded = t.succeeded
  BY DEF Like, Tx

\* What is known of one flow.
LEMMA OneFlow ==
    ASSUME PairInv, NEW f \in Flows
    PROVE  /\ Place(pc[f], tx[f], out[f], flow[f], held[f]) /\ Rival(pc[f], tx[f], created)
           /\ Same(pc[f], tx[f], plugged) /\ Whose(f, pc[f], tx[f], bond)
           /\ Keeps(f, pc[f], tx[f], out[f], flow[f], held[f], bond)
           /\ tx[f] \in Tx /\ (pc[f] \in Busy <=> lock = f)
           /\ plugged \in Controllers /\ gen \in Nat
           /\ bond \in [Controllers -> Bond \cup {None}]
           /\ \A c \in Controllers : bond[c] # None => bond[c] \in Bond
  BY DEF PairInv, FlowInv, Place, BluezInv, LockInv

\* The address that BlueZ shows at a path.
LEMMA AddressShown ==
    ASSUME PairInv, NEW p \in Paths
    PROVE  AddressAt(p) \in Addresses
  BY DEF AddressAt, PairedAt, PairInv, BluezInv, Bond, Addresses

-----------------------------------------------------------------------------
(* The steps of the attempt *)

\* Pair() is called: the bond that may come of it is the attempt's own.
LEMMA CallPairKeeps ==
    ASSUME PairInv, NEW f \in Flows, CallPair(f)
    PROVE  PairInv'
  <1> DEFINE t == tx[f]
             u == [t EXCEPT !.since = {}]
  <1>1. /\ pc[f] = "agent" /\ t.ctrl = plugged /\ ~PairedAt(t.path)
        /\ At(f, "pair", u, out[f], flow[f], held[f])
        /\ created' = created /\ lock' = lock /\ UNCHANGED <<bluezVars, tries, forget>>
    BY DEF CallPair, SameController, At, PairInv, Funs, flowVars
  <1>2. Like(u, t) /\ u.since = {} /\ u.addr = t.addr /\ ~u.ready /\ ~u.attempted /\ ~u.succeeded
        /\ ~u.own /\ out[f] = "none"
    <2>1. t \in Tx /\ Place(pc[f], t, out[f], flow[f], held[f])
      BY OneFlow
    <2>2. ~t.own /\ ~t.ready /\ ~t.attempted /\ ~t.succeeded /\ out[f] = "none"
      BY ONLY <1>1, <2>1 DEF Place, Talking
    <2>3. Like(u, t) /\ u.addr = t.addr /\ u.ready = t.ready /\ u.attempted = t.attempted
          /\ u.succeeded = t.succeeded /\ u.since = {}
      BY ONLY <2>1, FlaggedLocals DEF Tx
    <2> QED BY ONLY <2>2, <2>3 DEF Like
  <1>3. lock = f
    BY <1>1, OneFlow DEF Busy, Talking
  <1> HIDE DEF u
  <1>4. Place("pair", u, out[f], flow[f], held[f])
    <2>1. Place(pc[f], t, out[f], flow[f], held[f])
      BY OneFlow
    <2> QED BY ONLY <1>1, <1>2, <2>1 DEF Place, Like, Busy, Talking, Cleanup, BackOut
  <1>5. Rival("pair", u, created) /\ Same("pair", u, plugged)
    <2>1. Rival(pc[f], t, created)
      BY OneFlow
    <2> QED BY ONLY <1>1, <1>2, <2>1 DEF Rival, Same, Like
  <1>6. Whose(f, "pair", u, bond) /\ Keeps(f, "pair", u, out[f], flow[f], held[f], bond)
    BY ONLY <1>1, <1>2 DEF Whose, Keeps, Like, PairedAt
  <1>7. FlowInv(f, "pair", u, out[f], flow[f], held[f], created', plugged, bond)
    BY <1>1, <1>4, <1>5, <1>6 DEF FlowInv
  <1> QED BY ONLY PairInv, f \in Flows, <1>1, <1>2, <1>3, <1>7, GoesOn DEF Busy, Talking

\* The agent asks for the PIN, and the form answers.
LEMMA PinKeeps ==
    ASSUME PairInv, NEW f \in Flows, AskPin(f) \/ SubmitPin(f)
    PROVE  PairInv'
  <1> DEFINE t == tx[f]
             u(w) == [t EXCEPT !.prompt = w]
  <1>1. PICK w \in {"asked", "given"} :
          /\ pc[f] = "pair" /\ At(f, "pair", u(w), out[f], flow[f], held[f])
          /\ created' = created /\ lock' = lock /\ UNCHANGED <<bluezVars, tries, forget>>
    BY DEF AskPin, SubmitPin, At, PairInv, Funs, flowVars
  <1>2. Like(u(w), t) /\ u(w).since = t.since /\ u(w).addr = t.addr /\ u(w).ready = t.ready
        /\ u(w).attempted = t.attempted /\ u(w).succeeded = t.succeeded
    BY OneFlow, FlaggedLocals
  <1>3. lock = f /\ "pair" \in Busy /\ out[f] = "none"
    BY <1>1, OneFlow DEF Busy, Talking, Place
  <1> HIDE DEF u
  <1>4. FlowInv(f, "pair", u(w), out[f], flow[f], held[f], created', plugged, bond)
    <2>1. FlowInv(f, "pair", t, out[f], flow[f], held[f], created, plugged, bond)
      BY <1>1 DEF PairInv
    <2>2. Place("pair", u(w), out[f], flow[f], held[f])
      BY ONLY <1>2, <2>1 DEF FlowInv, Place, Like
    <2>3. Rival("pair", u(w), created) /\ Same("pair", u(w), plugged)
      BY ONLY <1>2, <2>1 DEF FlowInv, Rival, Same, Like, Past
    <2>4. Whose(f, "pair", u(w), bond) /\ Keeps(f, "pair", u(w), out[f], flow[f], held[f], bond)
      BY ONLY <1>2, <2>1 DEF FlowInv, Whose, Keeps, Like, Past
    <2> QED BY <1>1, <2>2, <2>3, <2>4 DEF FlowInv
  <1> QED BY ONLY PairInv, f \in Flows, <1>1, <1>3, <1>4, GoesOn

\* Pair() returns: from here on the bond is the attempt's to roll back.
LEMMA PairReturnsKeeps ==
    ASSUME PairInv, NEW f \in Flows, PairReturns(f)
    PROVE  PairInv'
  <1> DEFINE t == tx[f]
             u == [t EXCEPT !.own = TRUE]
  <1>1. /\ pc[f] = "bonded" /\ At(f, "verify", u, out[f], flow[f], held[f])
        /\ created' = created /\ lock' = lock /\ UNCHANGED <<bluezVars, tries, forget>>
    BY DEF PairReturns, At, PairInv, Funs, flowVars
  <1>2. /\ u \in Tx /\ u.ctrl = t.ctrl /\ u.path = t.path /\ u.addr = t.addr /\ u.own
        /\ u.since = t.since /\ u.ready = t.ready
        /\ u.attempted = t.attempted /\ u.succeeded = t.succeeded
    <2>1. t \in Tx /\ t.addr \in Addresses
      BY <1>1, OneFlow DEF Place, Busy, Talking
    <2> QED BY ONLY <2>1, OwnedLocals
  <1>3. lock = f /\ {"bonded", "verify"} \subseteq Busy /\ out[f] = "none"
    BY <1>1, OneFlow DEF Busy, Talking, Place
  <1> HIDE DEF u
  <1>4. FlowInv(f, "verify", u, out[f], flow[f], held[f], created', plugged, bond)
    <2>1. FlowInv(f, "bonded", t, out[f], flow[f], held[f], created, plugged, bond)
      BY <1>1 DEF PairInv
    <2>2. Place("verify", u, out[f], flow[f], held[f])
      BY ONLY <1>2, <1>3, <2>1 DEF FlowInv, Place, Talking, Cleanup, BackOut
    <2>3. Rival("verify", u, created) /\ Same("verify", u, plugged)
      BY ONLY <1>2, <2>1 DEF FlowInv, Rival, Same, Past
    <2>4. Whose(f, "verify", u, bond) /\ Keeps(f, "verify", u, out[f], flow[f], held[f], bond)
      BY ONLY <1>2, <2>1 DEF FlowInv, Whose, Keeps, Past
    <2> QED BY <1>1, <2>2, <2>3, <2>4 DEF FlowInv
  <1> QED BY ONLY PairInv, f \in Flows, <1>1, <1>3, <1>4, GoesOn

\* The new bond is verified.
LEMMA VerifyNewKeeps ==
    ASSUME PairInv, NEW f \in Flows, VerifyNew(f)
    PROVE  PairInv'
  <1> DEFINE t == tx[f]
             a == AddressAt(t.path)
             u == [t EXCEPT !.ready = TRUE, !.addr = a]
  <1>1. /\ pc[f] = "verify" /\ At(f, "unregister", u, out[f], flow[f], held[f])
        /\ created' = created /\ lock' = lock /\ UNCHANGED <<bluezVars, tries, forget>>
    BY DEF VerifyNew, At, PairInv, Funs, flowVars
  <1>2. /\ Like(u, t) /\ u.addr = a /\ a \in Addresses /\ u.since = t.since /\ u.ready
        /\ u.attempted = t.attempted /\ u.succeeded = t.succeeded
    <2>1. t \in Tx /\ t.path \in Paths
      BY <1>1, OneFlow DEF Place, Busy, Talking
    <2>2. a \in Addresses
      BY <2>1, AddressShown
    <2> HIDE DEF a
    <2> QED BY ONLY <2>1, <2>2, OwnedLocals
  <1>3. lock = f /\ {"verify", "unregister"} \subseteq Busy /\ out[f] = "none"
    BY <1>1, OneFlow DEF Busy, Talking, Cleanup, Place
  <1> HIDE DEF u, a
  <1>4. FlowInv(f, "unregister", u, out[f], flow[f], held[f], created', plugged, bond)
    <2>1. FlowInv(f, "verify", t, out[f], flow[f], held[f], created, plugged, bond)
      BY <1>1 DEF PairInv
    <2>2. Place("unregister", u, out[f], flow[f], held[f])
      BY ONLY <1>2, <1>3, <2>1 DEF FlowInv, Place, Like, Talking, BackOut
    <2>3. Rival("unregister", u, created) /\ Same("unregister", u, plugged)
      BY ONLY <1>2, <1>3, <2>1 DEF FlowInv, Rival, Same, Like, Past
    <2>4. Whose(f, "unregister", u, bond) /\ Keeps(f, "unregister", u, out[f], flow[f], held[f], bond)
      BY ONLY <1>2, <1>3, <2>1 DEF FlowInv, Whose, Keeps, Like, Past
    <2> QED BY <1>1, <2>2, <2>3, <2>4 DEF FlowInv
  <1> QED BY ONLY PairInv, f \in Flows, <1>1, <1>3, <1>4, GoesOn

\* An earlier bond is verified: proof of it that a gone daemon left is released.
LEMMA VerifyOldKeeps ==
    ASSUME PairInv, NEW f \in Flows, VerifyOld(f)
    PROVE  PairInv'
  <1> DEFINE t == tx[f]
             u == [t EXCEPT !.ready = TRUE]
  <1>1. /\ pc[f] = "verifyOld" /\ At(f, "unregister", u, out[f], flow[f], held[f])
        /\ created' \subseteq created /\ lock' = lock /\ UNCHANGED <<bluezVars, tries, forget>>
    BY DEF VerifyOld, At, PairInv, Funs, flowVars
  <1>2. /\ Like(u, t) /\ u.addr = t.addr /\ u.since = t.since /\ u.ready
        /\ u.attempted = t.attempted /\ u.succeeded = t.succeeded
    BY OneFlow, FlaggedLocals
  <1>3. lock = f /\ {"verifyOld", "unregister"} \subseteq Busy /\ out[f] = "none"
    BY <1>1, OneFlow DEF Busy, Talking, Cleanup, Place
  <1> HIDE DEF u
  <1>4. FlowInv(f, "unregister", u, out[f], flow[f], held[f], created', plugged, bond)
    <2>1. FlowInv(f, "verifyOld", t, out[f], flow[f], held[f], created, plugged, bond)
      BY <1>1 DEF PairInv
    <2>2. ~u.own
      BY ONLY <1>2, <2>1 DEF FlowInv, Place, Like, Talking
    <2>3. Place("unregister", u, out[f], flow[f], held[f])
      BY ONLY <1>2, <1>3, <2>1, <2>2 DEF FlowInv, Place, Like, Talking, BackOut
    <2>4. /\ Rival("unregister", u, created') /\ Same("unregister", u, plugged)
          /\ Whose(f, "unregister", u, bond)
          /\ Keeps(f, "unregister", u, out[f], flow[f], held[f], bond)
      BY ONLY <2>2 DEF Rival, Same, Whose, Keeps, Past
    <2> QED BY <2>3, <2>4 DEF FlowInv
  <1> QED BY ONLY PairInv, f \in Flows, <1>1, <1>3, <1>4, GoesOn

\* An attempt fails or is cancelled before its result: a bond of its own is to
\* be rolled back.
LEMMA BacksOut ==
    ASSUME PairInv, NEW f \in Flows, pc[f] \in Talking, NEW a \in Addresses, NEW x \in BOOLEAN,
           StartCleanup(f, a, x),
           UNCHANGED <<bluezVars, lock, created, out, flowVars, forget>>
    PROVE  PairInv'
  <1> DEFINE t == tx[f]
             u == [t EXCEPT !.addr = a, !.cancelled = x]
             p == IF t.own /\ ~t.ready THEN "rbRead" ELSE "unregister"
  <1>1. /\ At(f, p, u, out[f], flow[f], held[f])
        /\ created' = created /\ lock' = lock /\ UNCHANGED <<bluezVars, tries, forget>>
    BY DEF StartCleanup, MustRollBack, At, PairInv, Funs, flowVars
  <1>2. /\ Like(u, t) /\ u.addr = a /\ u.since = t.since /\ u.ready = t.ready
        /\ u.attempted = t.attempted /\ u.succeeded = t.succeeded
    <2>1. t \in Tx
      BY OneFlow
    <2> HIDE DEF t
    <2> QED BY ONLY <2>1, a \in Addresses, x \in BOOLEAN DEF Like, Tx
  <1>3. lock = f /\ pc[f] \in Busy /\ p \in Busy /\ out[f] = "none" /\ pc[f] # "idle"
    BY OneFlow DEF Busy, Talking, Cleanup, Place
  <1>4. p \in {"rbRead", "unregister"} /\ (p = "rbRead" => t.own) /\ (p # "rbRead" => ~t.own \/ t.ready)
    OBVIOUS
  <1> HIDE DEF u, p
  <1>5. FlowInv(f, p, u, out[f], flow[f], held[f], created', plugged, bond)
    <2>1. FlowInv(f, pc[f], t, out[f], flow[f], held[f], created, plugged, bond)
      BY <1>1 DEF PairInv
    <2>2. Place(p, u, out[f], flow[f], held[f])
      BY ONLY <1>2, <1>3, <1>4, <2>1, a \in Addresses DEF FlowInv, Place, Like, Talking, BackOut
    <2>3. Rival(p, u, created) /\ Same(p, u, plugged)
      BY ONLY <1>2, <1>3, <1>4, <2>1 DEF FlowInv, Rival, Same, Like, Past
    <2>4. Whose(f, p, u, bond) /\ Keeps(f, p, u, out[f], flow[f], held[f], bond)
      BY ONLY <1>2, <1>3, <1>4, <2>1 DEF FlowInv, Whose, Keeps, Like, Past
    <2> QED BY <1>1, <2>2, <2>3, <2>4 DEF FlowInv
  <1> QED BY ONLY PairInv, f \in Flows, <1>1, <1>3, <1>5, GoesOn

\* A step before the result fails.
LEMMA AttemptFailsKeeps ==
    ASSUME PairInv, NEW f \in Flows, AttemptFails(f)
    PROVE  PairInv'
  <1>1. tx[f].addr \in Addresses /\ tx[f].path \in Paths /\ pc[f] \in Talking
    BY OneFlow DEF AttemptFails, Place, Busy
  <1>2. AddressAt(tx[f].path) \in Addresses
    BY <1>1, AddressShown
  <1>3. PICK a \in Addresses : /\ StartCleanup(f, a, FALSE)
                               /\ UNCHANGED <<bluezVars, lock, created, out, flowVars, forget>>
    BY <1>1, <1>2 DEF AttemptFails
  <1> QED BY <1>1, <1>3, BacksOut

\* An attempt that never began to talk to BlueZ.
LEMMA GivesUp ==
    ASSUME PairInv, NEW f \in Flows, pc[f] = "wait",
           pc' = [pc EXCEPT ![f] = "idle"], out' = [out EXCEPT ![f] = "failed"],
           tx' = [tx EXCEPT ![f] = NewTx(Identity)],
           UNCHANGED <<bluezVars, lock, created, flowVars, forget>>
    PROVE  PairInv'
  <1> DEFINE u == NewTx(Identity)
  <1>1. /\ At(f, "idle", u, "failed", flow[f], held[f])
        /\ created' = created /\ lock' = lock /\ UNCHANGED <<bluezVars, tries, forget>>
    BY DEF At, PairInv, Funs, flowVars
  <1>2. u \in Tx /\ ~u.own /\ ~u.requested
    BY NewLocals DEF Addresses
  <1>3. lock # f /\ "wait" \notin Busy /\ "idle" \notin Busy
    BY OneFlow DEF Busy, Talking, Cleanup
  <1> HIDE DEF u
  <1>4. FlowInv(f, "idle", u, "failed", flow[f], held[f], created', plugged, bond)
    <2>1. Place("wait", tx[f], out[f], flow[f], held[f])
      BY OneFlow
    <2>2. Place("idle", u, "failed", flow[f], held[f])
      BY ONLY <1>2, <1>3, <2>1 DEF Place, Talking, BackOut
    <2>3. /\ Rival("idle", u, created') /\ Same("idle", u, plugged)
          /\ Whose(f, "idle", u, bond)
          /\ Keeps(f, "idle", u, "failed", flow[f], held[f], bond)
      BY ONLY <1>2 DEF Rival, Same, Whose, Keeps, Past
    <2> QED BY <2>2, <2>3 DEF FlowInv
  <1> QED BY ONLY PairInv, f \in Flows, pc[f] = "wait", <1>1, <1>3, <1>4, GoesOn

\* The resolution of the selected radio fails.
LEMMA ResolveFailsKeeps ==
    ASSUME PairInv, NEW f \in Flows, ResolveFails(f)
    PROVE  PairInv'
  BY GivesUp DEF ResolveFails

\* An attempt on its way out: what its cancellation writes is no part of the rest.
LEMMA AlikeIsFine ==
    ASSUME NEW f, NEW p, NEW t, NEW u, NEW o, NEW fl, NEW h, NEW cr, NEW pl, NEW b,
           FlowInv(f, p, t, o, fl, h, cr, pl, b),
           Like(u, t), u.addr = t.addr, u.since = t.since, u.ready = t.ready,
           u.attempted = t.attempted, u.succeeded = t.succeeded
    PROVE  FlowInv(f, p, u, o, fl, h, cr, pl, b)
  <1>1. Place(p, u, o, fl, h)
    BY DEF FlowInv, Place, Like
  <1>2. Rival(p, u, cr) /\ Same(p, u, pl)
    BY DEF FlowInv, Rival, Same, Like, Past
  <1>3. Whose(f, p, u, b)
    BY DEF FlowInv, Whose, Like, Past
  <1>4. KeyOf(u) = KeyOf(t) /\ Kept(u, o, h) = Kept(t, o, h)
    BY DEF Like, KeyOf, Kept
  <1>5. Keeps(f, p, u, o, fl, h, b)
    BY <1>4 DEF FlowInv, Keeps, Like
  <1> QED BY <1>1, <1>2, <1>3, <1>5 DEF FlowInv

\* The timeout, or a flow that is removed.
LEMMA CancelKeeps ==
    ASSUME PairInv, NEW f \in Flows, Cancel(f)
    PROVE  PairInv'
  <1>1. CASE pc[f] = "wait" /\ pc' = [pc EXCEPT ![f] = "idle"]
    <2>1. /\ out' = [out EXCEPT ![f] = "failed"] /\ tx' = [tx EXCEPT ![f] = NewTx(Identity)]
          /\ UNCHANGED <<bluezVars, lock, created, flowVars, forget>>
      BY <1>1 DEF Cancel, Talking, Cleanup
    <2> QED BY <1>1, <2>1, GivesUp
  <1>2. CASE pc[f] \in Talking
    <2>1. tx[f].addr \in Addresses
      BY <1>2, OneFlow DEF Place, Busy
    <2>2. StartCleanup(f, tx[f].addr, TRUE) /\ UNCHANGED <<bluezVars, lock, created, out, flowVars, forget>>
      BY <1>2 DEF Cancel, Talking, Cleanup
    <2> QED BY <1>2, <2>1, <2>2, BacksOut
  <1>3. CASE pc[f] \in Cleanup
    <2> DEFINE t == tx[f]
               u == [t EXCEPT !.cancelled = TRUE, !.requested = t.own]
    <2>1. /\ At(f, pc[f], u, out[f], flow[f], held[f])
          /\ created' = created /\ lock' = lock /\ UNCHANGED <<bluezVars, tries, forget>>
      BY <1>3 DEF Cancel, Talking, Cleanup, At, PairInv, Funs, flowVars
    <2>2. /\ Like(u, t) /\ u.addr = t.addr /\ u.since = t.since /\ u.ready = t.ready
          /\ u.attempted = t.attempted /\ u.succeeded = t.succeeded
      <3>1. t \in Tx
        BY OneFlow
      <3> HIDE DEF t
      <3> QED BY ONLY <3>1 DEF Like, Tx
    <2>3. pc[f] \in Busy /\ lock = f /\ out[f] = "none" /\ pc[f] # "idle"
      BY <1>3, OneFlow DEF Place, Busy, Cleanup
    <2> HIDE DEF u
    <2>4. FlowInv(f, pc[f], t, out[f], flow[f], held[f], created, plugged, bond)
      BY DEF PairInv
    <2>5. FlowInv(f, pc[f], u, out[f], flow[f], held[f], created', plugged, bond)
      BY ONLY <2>1, <2>2, <2>4, AlikeIsFine
    <2> QED BY ONLY PairInv, f \in Flows, <2>1, <2>3, <2>5, GoesOn
  <1> QED BY <1>1, <1>2, <1>3 DEF Cancel

\* The selection is resolved; what is left of the proofs is of other radios.
LEMMA ResolveKeeps ==
    ASSUME PairInv, NEW f \in Flows, Resolve(f)
    PROVE  PairInv'
  <1> DEFINE t == tx[f]
             u(p) == [t EXCEPT !.gen = gen, !.ctrl = plugged, !.path = p, !.addr = t.want]
  <1>1. PICK p \in Paths, q \in {"verifyOld", "agent"} :
          /\ pc[f] = "wait" /\ lock = None /\ lock' = f
          /\ At(f, q, u(p), out[f], flow[f], held[f])
          /\ created' \subseteq created /\ UNCHANGED <<bluezVars, tries, forget>>
          /\ q = "agent" => \A r \in created' : r \notin Matching(plugged, t.want, p)
    <2>1. PICK p \in Paths :
            /\ tx' = [tx EXCEPT ![f].gen = gen, ![f].ctrl = plugged, ![f].path = p, ![f].addr = t.want]
            /\ \/ pc' = [pc EXCEPT ![f] = "verifyOld"] /\ created' = created
               \/ /\ pc' = [pc EXCEPT ![f] = "agent"] /\ Unambiguous(plugged, t.want, p)
                  /\ created' = created \ Stale(plugged, t.want, p)
      BY DEF Resolve
    <2>2. tx' = [tx EXCEPT ![f] = u(p)]
      BY <2>1 DEF PairInv, Funs
    <2>3. /\ pc[f] = "wait" /\ lock = None /\ lock' = f /\ UNCHANGED <<bluezVars, tries, forget>>
          /\ UNCHANGED <<out, flow, held>>
      BY DEF Resolve, flowVars
    <2> HIDE DEF u
    <2>4. CASE pc' = [pc EXCEPT ![f] = "verifyOld"] /\ created' = created
      <3>1. At(f, "verifyOld", u(p), out[f], flow[f], held[f])
        BY <2>2, <2>3, <2>4 DEF At, PairInv, Funs
      <3> QED BY <2>3, <2>4, <3>1
    <2>5. CASE /\ pc' = [pc EXCEPT ![f] = "agent"] /\ Unambiguous(plugged, t.want, p)
               /\ created' = created \ Stale(plugged, t.want, p)
      <3>1. At(f, "agent", u(p), out[f], flow[f], held[f])
        BY <2>2, <2>3, <2>5 DEF At, PairInv, Funs
      <3>2. \A r \in created' : r \notin Matching(plugged, t.want, p)
        BY <2>5 DEF Unambiguous, Stale
      <3> QED BY <2>3, <2>5, <3>1, <3>2
    <2> QED BY <2>1, <2>4, <2>5
  <1>2. /\ u(p) \in Tx /\ u(p).ctrl = plugged /\ u(p).path = p /\ u(p).addr = t.want
        /\ t.want \in Addresses /\ u(p).own = t.own /\ u(p).ready = t.ready
        /\ u(p).attempted = t.attempted /\ u(p).succeeded = t.succeeded
        /\ u(p).requested = t.requested
    <2>1. t \in Tx /\ gen \in Nat /\ plugged \in Controllers
      BY OneFlow
    <2> HIDE DEF t
    <2> QED BY ONLY <2>1, p \in Paths DEF Tx
  <1>3. q \in Busy /\ plugged \in Controllers /\ out[f] = "none"
    BY <1>1, OneFlow DEF Busy, Talking, Place
  <1> HIDE DEF u
  <1>4. FlowInv(f, q, u(p), out[f], flow[f], held[f], created', plugged, bond)
    <2>1. Place("wait", t, out[f], flow[f], held[f])
      BY <1>1, OneFlow
    <2>2. ~u(p).own
      BY ONLY <1>2, <2>1 DEF Place
    <2>3. Place(q, u(p), out[f], flow[f], held[f])
      BY ONLY <1>2, <1>3, <2>1, q \in {"verifyOld", "agent"}, p \in Paths DEF Place, Talking, BackOut
    <2>4. Rival(q, u(p), created')
      BY ONLY <1>1, <1>2 DEF Rival, Matching
    <2>5. Same(q, u(p), plugged) /\ Whose(f, q, u(p), bond)
          /\ Keeps(f, q, u(p), out[f], flow[f], held[f], bond)
      BY ONLY <2>2, q \in {"verifyOld", "agent"} DEF Same, Whose, Keeps, Past
    <2> QED BY <2>3, <2>4, <2>5 DEF FlowInv
  <1> QED BY ONLY PairInv, f \in Flows, <1>1, <1>3, <1>4, GoesOn

\* What the rollback read: a bond it calls gone is gone.
LEMMA RollbackReadKeeps ==
    ASSUME PairInv, NEW f \in Flows, RollbackRead(f)
    PROVE  PairInv'
  <1> DEFINE t == tx[f]
             u(done) == [t EXCEPT !.attempted = TRUE, !.succeeded = done, !.since = @ \ {"swap"}]
  <1>1. PICK q \in {"rbRemove", "unregister"}, done \in BOOLEAN :
          /\ pc[f] = "rbRead" /\ At(f, q, u(done), out[f], flow[f], held[f])
          /\ q = "rbRemove" => t.ctrl = plugged
          /\ done => ~PairedAt(t.path)
          /\ created' = created /\ lock' = lock /\ UNCHANGED <<bluezVars, tries, forget>>
    BY DEF RollbackRead, MayRemove, SameController, At, PairInv, Funs, flowVars
  <1>2. /\ Like(u(done), t) /\ u(done).addr = t.addr /\ u(done).since = t.since \ {"swap"}
        /\ u(done).ready = t.ready /\ u(done).attempted /\ u(done).succeeded = done
    <2>1. t \in Tx
      BY OneFlow
    <2> HIDE DEF t
    <2> QED BY ONLY <2>1, done \in BOOLEAN DEF Like, Tx
  <1>3. lock = f /\ {"rbRead", q} \subseteq Busy /\ out[f] = "none"
    BY <1>1, OneFlow DEF Busy, Talking, Cleanup, Place
  <1> HIDE DEF u
  <1>4. FlowInv(f, q, u(done), out[f], flow[f], held[f], created', plugged, bond)
    <2>1. FlowInv(f, "rbRead", t, out[f], flow[f], held[f], created, plugged, bond)
      BY <1>1 DEF PairInv
    <2>2. t.own
      BY ONLY <2>1 DEF FlowInv, Place, BackOut
    <2>3. Place(q, u(done), out[f], flow[f], held[f])
      BY ONLY <1>2, <1>3, <2>1, <2>2, q \in {"rbRemove", "unregister"}
      DEF FlowInv, Place, Like, Talking, BackOut
    <2>4. Rival(q, u(done), created) /\ Same(q, u(done), plugged)
      BY ONLY <1>1, <1>2, <1>3, <2>1, <2>2, q \in {"rbRemove", "unregister"}
      DEF FlowInv, Rival, Same, Like, Past
    <2>5. Whose(f, q, u(done), bond)
      BY ONLY <1>2, <1>3, <2>1, <2>2 DEF FlowInv, Whose, Like, Past
    <2>6. Keeps(f, q, u(done), out[f], flow[f], held[f], bond)
      <3>1. bond[t.ctrl] # None /\ bond[t.ctrl].path = t.path /\ "moved" \notin t.since => ~done
        BY ONLY <1>1, <1>3, <2>1, <2>2 DEF FlowInv, Same, Past, PairedAt
      <3> QED BY ONLY <1>2, <1>3, <2>1, <2>2, <3>1, q \in {"rbRemove", "unregister"}
              DEF FlowInv, Keeps, Like
    <2> QED BY <1>1, <2>3, <2>4, <2>5, <2>6 DEF FlowInv
  <1> QED BY ONLY PairInv, f \in Flows, <1>1, <1>3, <1>4, GoesOn

\* And what it saw after its removal.
LEMMA RollbackCheckKeeps ==
    ASSUME PairInv, NEW f \in Flows, RollbackCheck(f)
    PROVE  PairInv'
  <1> DEFINE t == tx[f]
             u(done) == [t EXCEPT !.succeeded = done]
  <1>1. PICK done \in BOOLEAN :
          /\ pc[f] = "rbCheck" /\ At(f, "unregister", u(done), out[f], flow[f], held[f])
          /\ done => ~PairedAt(t.path)
          /\ created' = created /\ lock' = lock /\ UNCHANGED <<bluezVars, tries, forget>>
    <2>1. PICK seen \in BOOLEAN :
            tx' = [tx EXCEPT ![f].succeeded = seen /\ SameDaemon(f) /\ ~PairedAt(tx[f].path)]
      BY DEF RollbackCheck
    <2> DEFINE done == seen /\ SameDaemon(f) /\ ~PairedAt(tx[f].path)
    <2>2. done \in BOOLEAN /\ (done => ~PairedAt(t.path))
      OBVIOUS
    <2>3. tx' = [tx EXCEPT ![f].succeeded = done]
      BY <2>1
    <2> HIDE DEF done
    <2>4. At(f, "unregister", u(done), out[f], flow[f], held[f])
      BY <2>3 DEF RollbackCheck, At, PairInv, Funs, flowVars
    <2> QED BY <2>2, <2>4 DEF RollbackCheck, flowVars
  <1>2. /\ Like(u(done), t) /\ u(done).addr = t.addr /\ u(done).since = t.since
        /\ u(done).ready = t.ready /\ u(done).attempted = t.attempted /\ u(done).succeeded = done
    <2>1. t \in Tx
      BY OneFlow
    <2> HIDE DEF t
    <2> QED BY ONLY <2>1, done \in BOOLEAN DEF Like, Tx
  <1>3. lock = f /\ {"rbCheck", "unregister"} \subseteq Busy /\ out[f] = "none"
    BY <1>1, OneFlow DEF Busy, Talking, Cleanup, Place
  <1> HIDE DEF u
  <1>4. FlowInv(f, "unregister", u(done), out[f], flow[f], held[f], created', plugged, bond)
    <2>1. FlowInv(f, "rbCheck", t, out[f], flow[f], held[f], created, plugged, bond)
      BY <1>1 DEF PairInv
    <2>2. t.own /\ t.attempted
      BY ONLY <2>1 DEF FlowInv, Place, BackOut
    <2>3. Place("unregister", u(done), out[f], flow[f], held[f])
      BY ONLY <1>2, <1>3, <2>1, <2>2 DEF FlowInv, Place, Like, Talking, BackOut
    <2>4. Rival("unregister", u(done), created) /\ Same("unregister", u(done), plugged)
      BY ONLY <1>2, <1>3, <2>1, <2>2 DEF FlowInv, Rival, Same, Like, Past
    <2>5. Whose(f, "unregister", u(done), bond)
      BY ONLY <1>2, <1>3, <2>1, <2>2 DEF FlowInv, Whose, Like, Past
    <2>6. Keeps(f, "unregister", u(done), out[f], flow[f], held[f], bond)
      <3>1. bond[t.ctrl] # None /\ bond[t.ctrl].path = t.path /\ "moved" \notin t.since => ~done
        BY ONLY <1>1, <1>3, <2>1, <2>2 DEF FlowInv, Same, Past, PairedAt
      <3> QED BY ONLY <1>2, <1>3, <2>1, <2>2, <3>1 DEF FlowInv, Keeps, Like
    <2> QED BY <1>1, <2>3, <2>4, <2>5, <2>6 DEF FlowInv
  <1> QED BY ONLY PairInv, f \in Flows, <1>1, <1>3, <1>4, GoesOn

\* A late cancellation still has its rollback.
LEMMA LateRollbackKeeps ==
    ASSUME PairInv, NEW f \in Flows, LateRollback(f)
    PROVE  PairInv'
  <1> DEFINE t == tx[f]
  <1>1. /\ pc[f] = "unregister" /\ t.requested /\ At(f, "rbRead", t, out[f], flow[f], held[f])
        /\ created' = created /\ lock' = lock /\ UNCHANGED <<bluezVars, tries, forget>>
    BY DEF LateRollback, At, PairInv, Funs, flowVars
  <1>2. lock = f /\ {"rbRead", "unregister"} \subseteq Busy /\ out[f] = "none"
    BY <1>1, OneFlow DEF Busy, Talking, Cleanup, Place
  <1>3. FlowInv(f, "rbRead", t, out[f], flow[f], held[f], created', plugged, bond)
    <2>1. FlowInv(f, "unregister", t, out[f], flow[f], held[f], created, plugged, bond)
      BY <1>1 DEF PairInv
    <2>2. Place("rbRead", t, out[f], flow[f], held[f])
      BY ONLY <1>1, <1>2, <2>1 DEF FlowInv, Place, Talking, BackOut
    <2>3. Rival("rbRead", t, created) /\ Same("rbRead", t, plugged)
      BY ONLY <1>2, <2>1 DEF FlowInv, Rival, Same, Past
    <2>4. Whose(f, "rbRead", t, bond) /\ Keeps(f, "rbRead", t, out[f], flow[f], held[f], bond)
      BY ONLY <1>2, <2>1 DEF FlowInv, Whose, Keeps, Past
    <2> QED BY <1>1, <2>2, <2>3, <2>4 DEF FlowInv
  <1> QED BY ONLY PairInv, f \in Flows, <1>1, <1>2, <1>3, GoesOn

\* BlueZ makes the bond.
LEMMA BluezPairsKeeps ==
    ASSUME PairInv, NEW f \in Flows, BluezPairs(f)
    PROVE  PairInv'
  <1> DEFINE t == tx[f]
  <1>1. PICK a \in {t.path, Identity} :
          /\ pc[f] = "pair" /\ At(f, "bonded", t, out[f], flow[f], held[f])
          /\ bond' = [bond EXCEPT ![plugged] = [maker |-> f, path |-> t.path, addr |-> a]]
          /\ created' = created /\ lock' = lock
          /\ UNCHANGED <<gen, plugged, events, forget>> /\ tries' = tries
    BY DEF BluezPairs, At, PairInv, Funs, flowVars
  <1>2. /\ lock = f /\ {"pair", "bonded"} \subseteq Busy /\ out[f] = "none" /\ flow[f] # "closed"
        /\ t.path \in Paths /\ plugged \in Controllers
        /\ FlowInv(f, "pair", t, out[f], flow[f], held[f], created, plugged, bond)
    BY <1>1, OneFlow DEF PairInv, Busy, Talking, Place
  <1>3. /\ bond' \in [Controllers -> Bond \cup {None}]
        /\ bond'[plugged].maker = f /\ bond'[plugged].path = t.path
        /\ \A c \in Controllers \ {plugged} : bond'[c] = bond[c]
    <2>1. [maker |-> f, path |-> t.path, addr |-> a] \in Bond
      BY <1>2 DEF Bond, Makers, Addresses
    <2>2. bond \in [Controllers -> Bond \cup {None}]
      BY OneFlow
    <2> QED BY ONLY <1>1, <1>2, <2>1, <2>2
  <1>4. FlowInv(f, "bonded", t, out[f], flow[f], held[f], created', plugged, bond')
    <2>1. Place("bonded", t, out[f], flow[f], held[f])
      BY ONLY <1>2 DEF FlowInv, Place, Talking, BackOut
    <2>2. t.ctrl \in Controllers /\ ~t.succeeded
      BY ONLY <1>2 DEF FlowInv, Place, Talking
    <2>3. Rival("bonded", t, created') /\ Same("bonded", t, plugged)
      BY ONLY <1>2 DEF FlowInv, Rival, Same, Past
    <2>4. Whose(f, "bonded", t, bond')
      BY ONLY <1>2, <1>3, <2>2 DEF FlowInv, Whose, Past
    <2>5. Keeps(f, "bonded", t, out[f], flow[f], held[f], bond')
      BY ONLY <1>2, <1>3, <2>2, <2>3 DEF Keeps, Same, Past
    <2> QED BY <2>1, <2>3, <2>4, <2>5 DEF FlowInv
  <1>5. ProofInv'
    <2>1. \A r \in created' : r.by = f => flow[f] # "closed" /\ KeyOf(r) \in Kept(t, out[f], held[f])
      BY <1>1, <1>2 DEF PairInv, ProofInv
    <2> QED BY ONLY PairInv, f \in Flows, <1>1, <2>1, ProofsGo
  <1>6. /\ tries' \in [Flows -> 0..MaxAttempts]
        /\ \A c \in Controllers : bond'[c] = bond[c] \/ bond'[c].maker = f
    BY <1>1, <1>3 DEF PairInv, BluezInv
  <1> QED BY ONLY PairInv, f \in Flows, <1>1, <1>2, <1>3, <1>4, <1>5, <1>6, OfOneFlow

\* The rollback removes what is at the attempt's path.
LEMMA RollbackRemoveKeeps ==
    ASSUME PairInv, NEW f \in Flows, RollbackRemove(f)
    PROVE  PairInv'
  <1> DEFINE t == tx[f]
  <1>1. PICK q \in {"rbCheck", "unregister"} :
          /\ pc[f] = "rbRemove" /\ At(f, q, t, out[f], flow[f], held[f])
          /\ bond' = bond \/ bond' = [bond EXCEPT ![plugged] = None]
          /\ created' = created /\ lock' = lock
          /\ UNCHANGED <<gen, plugged, events, forget>> /\ tries' = tries
    BY DEF RollbackRemove, At, PairInv, Funs, flowVars
  <1>2. /\ lock = f /\ {"rbRemove", q} \subseteq Busy /\ out[f] = "none" /\ flow[f] # "closed"
        /\ plugged \in Controllers
        /\ FlowInv(f, "rbRemove", t, out[f], flow[f], held[f], created, plugged, bond)
    BY <1>1, OneFlow DEF PairInv, Busy, Talking, Cleanup, Place
  <1>3. /\ bond' \in [Controllers -> Bond \cup {None}]
        /\ \A c \in Controllers : bond'[c] \in {bond[c], None}
    <2>1. bond \in [Controllers -> Bond \cup {None}]
      BY OneFlow
    <2> QED BY ONLY <1>1, <1>2, <2>1
  <1>4. FlowInv(f, q, t, out[f], flow[f], held[f], created', plugged, bond')
    <2>1. Place(q, t, out[f], flow[f], held[f])
      BY ONLY <1>2, q \in {"rbCheck", "unregister"} DEF FlowInv, Place, Talking, BackOut
    <2>2. Rival(q, t, created) /\ Same(q, t, plugged)
      BY ONLY <1>2, q \in {"rbCheck", "unregister"} DEF FlowInv, Rival, Same, Past
    <2>3. Whose(f, q, t, bond)
      BY ONLY <1>2, q \in {"rbCheck", "unregister"} DEF FlowInv, Whose, Past
    <2>4. Keeps(f, q, t, out[f], flow[f], held[f], bond)
      BY ONLY <1>2, q \in {"rbCheck", "unregister"} DEF FlowInv, Keeps
    <2>5. FlowInv(f, q, t, out[f], flow[f], held[f], created, plugged, bond)
      BY <2>1, <2>2, <2>3, <2>4 DEF FlowInv
    <2> QED BY ONLY <1>1, <1>3, <2>5, LessIsFine
  <1>5. ProofInv'
    <2>1. \A r \in created' : r.by = f => flow[f] # "closed" /\ KeyOf(r) \in Kept(t, out[f], held[f])
      BY <1>1, <1>2 DEF PairInv, ProofInv
    <2> QED BY ONLY PairInv, f \in Flows, <1>1, <2>1, ProofsGo
  <1>6. tries' \in [Flows -> 0..MaxAttempts]
    BY <1>1 DEF PairInv, BluezInv
  <1> QED BY ONLY PairInv, f \in Flows, <1>1, <1>2, <1>3, <1>4, <1>5, <1>6, OfOneFlow

\* A flow begins an attempt.
LEMMA BeginKeeps ==
    ASSUME PairInv, NEW f \in Flows, NEW a \in Addresses, Begin(f, a)
    PROVE  PairInv'
  <1> DEFINE u == NewTx(a)
  <1>1. /\ pc[f] = "idle" /\ out[f] = "none" /\ flow[f] = "open"
        /\ At(f, "wait", u, "none", "open", held[f])
        /\ created' = created /\ lock' = lock /\ bond' = bond
        /\ UNCHANGED <<gen, plugged, events, forget>>
    BY DEF Begin, At, PairInv, Funs, bluezVars
  <1>2. /\ u \in Tx /\ ~u.requested /\ ~u.own /\ ~u.ready /\ ~u.attempted /\ ~u.succeeded
    BY NewLocals
  <1>3. lock # f /\ "wait" \notin Busy
    BY <1>1, OneFlow DEF Busy, Talking, Cleanup
  <1> HIDE DEF u
  <1>4. FlowInv(f, "wait", u, "none", "open", held[f], created', plugged, bond')
    <2>1. Place("wait", u, "none", "open", held[f])
      <3>1. held[f] \in SUBSET Key
        BY OneFlow DEF Place
      <3> QED BY ONLY <1>2, <1>3, <3>1 DEF Place, Talking, BackOut
    <2>2. /\ Rival("wait", u, created') /\ Same("wait", u, plugged) /\ Whose(f, "wait", u, bond')
          /\ Keeps(f, "wait", u, "none", "open", held[f], bond')
      BY ONLY <1>2 DEF Rival, Same, Whose, Keeps, Past
    <2> QED BY <2>1, <2>2 DEF FlowInv
  <1>5. ProofInv'
    <2>1. \A r \in created' : r.by = f => "open" # "closed" /\ KeyOf(r) \in Kept(u, "none", held[f])
      BY <1>1 DEF PairInv, ProofInv, Kept
    <2> QED BY ONLY PairInv, f \in Flows, <1>1, <2>1, ProofsGo
  <1>6. /\ tries' \in [Flows -> 0..MaxAttempts] /\ bond' \in [Controllers -> Bond \cup {None}]
    <2>1. tries \in [Flows -> 0..MaxAttempts] /\ bond \in [Controllers -> Bond \cup {None}]
      BY DEF PairInv, BluezInv
    <2>2. tries' = [tries EXCEPT ![f] = @ + 1] /\ tries[f] < MaxAttempts
      BY DEF Begin
    <2> QED BY ONLY <1>1, <2>1, <2>2, f \in Flows, BoundsAssumption
  <1>7. created' \subseteq created /\ \A c \in Controllers : bond'[c] \in {bond[c], None}
    BY <1>1
  <1> QED BY ONLY PairInv, f \in Flows, <1>1, <1>3, <1>4, <1>5, <1>6, <1>7, OfOneFlow

\* A bond that the attempt made and did not roll back is handed over.
LEMMA OwnIsCommitted ==
    ASSUME PairInv, NEW f \in Flows, pc[f] = "unregister",
           ~(tx[f].requested /\ ~tx[f].attempted), tx[f].own, ~tx[f].succeeded
    PROVE  Outcome(f) \in {"created", "incomplete"}
  <1>1. ~tx[f].ready => tx[f].attempted
    BY OneFlow DEF Place
  <1>2. Commits(f)
    BY <1>1 DEF Commits, MustRollBack
  <1> QED BY <1>2 DEF Outcome

\* The attempt ends with proof of its bond: it takes the place of what it retired.
LEMMA EndsWithProof ==
    ASSUME PairInv, NEW f \in Flows, EndAttempt(f), Outcome(f) \in {"created", "incomplete"}
    PROVE  PairInv'
  <1> DEFINE t == tx[f]
             old == Matching(t.ctrl, t.addr, t.path)
             keys == IF t.ready THEN {KeyOf(r) : r \in old} ELSE {}
             u == Left(f, keys)
             o == Outcome(f)
  <1>1. /\ pc[f] = "unregister" /\ At(f, "idle", u, o, flow[f], held[f])
        /\ created' = (created \ old) \cup {ProofOf(f)} /\ lock' = None /\ bond' = bond
        /\ UNCHANGED <<gen, plugged, events, forget>> /\ tries' = tries
    <2>1. tx' = [tx EXCEPT ![f] = u] /\ created' = (created \ old) \cup {ProofOf(f)}
      BY DEF EndAttempt, Record
    <2> HIDE DEF u
    <2>2. At(f, "idle", u, o, flow[f], held[f])
      BY <2>1 DEF EndAttempt, At, PairInv, Funs, flowVars
    <2> QED BY <2>1, <2>2 DEF EndAttempt, bluezVars, flowVars
  <1>2. /\ lock = f /\ out[f] = "none" /\ flow[f] # "closed" /\ held[f] \in SUBSET Key
        /\ t \in Tx /\ t.ctrl \in Controllers /\ t.addr \in Addresses /\ t.path \in Paths
        /\ flow[f] \in {"open", "removed", "closed"}
    BY <1>1, OneFlow DEF Place, Busy, Cleanup
  <1>3. keys \in SUBSET Key
    BY DEF Matching, PairInv, ProofInv, Proof, KeyOf, Key
  <1>4. /\ u \in Tx /\ u.ctrl = t.ctrl /\ u.addr = t.addr /\ u.own = t.own /\ ~u.requested
        /\ u.retired = keys /\ u.since = t.since \cap {"moved"}
    <2> HIDE DEF keys
    <2> QED BY <1>2, <1>3, LeftLocals
  <1>5. o \in {"created", "incomplete"} /\ "idle" \notin Busy /\ lock' # f
    BY <1>1 DEF Busy, Talking, Cleanup
  <1>6. ProofOf(f) \in Proof /\ KeyOf(ProofOf(f)) = KeyOf(u) /\ ProofOf(f).by = f
    BY <1>2, <1>4 DEF ProofOf, Proof, KeyOf, Tx
  <1> HIDE DEF u, o
  <1>7. FlowInv(f, "idle", u, o, flow[f], held[f], created', plugged, bond')
    <2>1. Place("idle", u, o, flow[f], held[f])
      BY ONLY <1>2, <1>4, <1>5 DEF Place, Talking, BackOut
    <2>2. Rival("idle", u, created') /\ Same("idle", u, plugged) /\ Whose(f, "idle", u, bond')
      BY ONLY <1>5 DEF Rival, Same, Whose, Past
    <2>3. Keeps(f, "idle", u, o, flow[f], held[f], bond')
      BY ONLY <1>5 DEF Keeps, Kept
    <2> QED BY <2>1, <2>2, <2>3 DEF FlowInv
  <1>8. ProofInv'
    <2>1. \A r \in created \ old : KeyOf(r) # KeyOf(ProofOf(f))
      BY DEF Matching, KeyOf, ProofOf
    <2>2. \A r \in created \ old : KeyOf(r) \notin keys
      BY DEF PairInv, ProofInv, Matching
    <2>3. \A r \in created \ old : r.by = f => KeyOf(r) \in held[f]
      BY <1>2 DEF PairInv, ProofInv, Kept
    <2>4. created' \subseteq Proof
      BY <1>1, <1>6 DEF PairInv, ProofInv
    <2>5. \A r, s \in created' : KeyOf(r) = KeyOf(s) => r = s
      <3>1. \A r, s \in created : KeyOf(r) = KeyOf(s) => r = s
        BY DEF PairInv, ProofInv
      <3> HIDE DEF old
      <3> QED BY ONLY <1>1, <2>1, <3>1
    <2>6. ASSUME NEW r \in created'
          PROVE  flow'[r.by] # "closed" /\ KeyOf(r) \in Kept(tx'[r.by], out'[r.by], held'[r.by])
      <3>1. CASE r = ProofOf(f)
        BY <1>1, <1>2, <1>5, <1>6, <3>1 DEF At, Kept
      <3>2. CASE r \in created \ old /\ r.by = f
        <4>1. KeyOf(r) \in held[f] \ u.retired
          BY <1>4, <2>2, <2>3, <3>2
        <4>2. flow'[f] = flow[f] /\ tx'[f] = u /\ out'[f] = o /\ held'[f] = held[f]
          BY <1>1 DEF At
        <4> HIDE DEF keys, old, t
        <4> QED BY ONLY <1>2, <1>5, <3>2, <4>1, <4>2 DEF Kept
      <3>3. CASE r \in created \ old /\ r.by # f
        <4>1. r.by \in Flows /\ flow[r.by] # "closed" /\ KeyOf(r) \in Kept(tx[r.by], out[r.by], held[r.by])
          BY <3>3 DEF PairInv, ProofInv, Proof
        <4> QED BY <1>1, <3>3, <4>1 DEF At
      <3> QED BY <1>1, <3>1, <3>2, <3>3
    <2> QED BY <2>4, <2>5, <2>6 DEF ProofInv
  <1>9. /\ bond' \in [Controllers -> Bond \cup {None}] /\ tries' \in [Flows -> 0..MaxAttempts]
        /\ \A c \in Controllers : bond'[c] = bond[c] \/ bond'[c].maker = f
    BY <1>1 DEF PairInv, BluezInv
  <1> HIDE DEF t
  <1> QED BY ONLY PairInv, f \in Flows, <1>1, <1>2, <1>5, <1>7, <1>8, <1>9, OfOneFlow

\* The attempt ends without: then no bond of its own is left.
LEMMA EndsWithout ==
    ASSUME PairInv, NEW f \in Flows, EndAttempt(f), Outcome(f) \notin {"created", "incomplete"}
    PROVE  PairInv'
  <1> DEFINE t == tx[f]
             u == Left(f, {})
             o == Outcome(f)
  <1>1. /\ pc[f] = "unregister" /\ At(f, "idle", u, o, flow[f], held[f])
        /\ created' = created /\ lock' = None /\ bond' = bond
        /\ UNCHANGED <<gen, plugged, events, forget>> /\ tries' = tries
        /\ ~(t.requested /\ ~t.attempted)
    <2>1. tx' = [tx EXCEPT ![f] = u] /\ created' = created
      BY DEF EndAttempt
    <2> HIDE DEF u
    <2>2. At(f, "idle", u, o, flow[f], held[f])
      BY <2>1 DEF EndAttempt, At, PairInv, Funs, flowVars
    <2> QED BY <2>1, <2>2 DEF EndAttempt, bluezVars, flowVars
  <1>2. /\ lock = f /\ out[f] = "none" /\ flow[f] # "closed" /\ held[f] \in SUBSET Key
        /\ flow[f] \in {"open", "removed", "closed"} /\ t \in Tx
    BY <1>1, OneFlow DEF Place, Busy, Cleanup
  <1>3. u \in Tx /\ u.ctrl = t.ctrl /\ u.own = t.own /\ ~u.requested /\ u.since = t.since \cap {"moved"}
    BY <1>2, LeftLocals
  <1>4. o \in {"existing", "failed"} /\ "idle" \notin Busy /\ "unregister" \in Busy /\ lock' # f
    BY <1>1 DEF Outcome, Busy, Talking, Cleanup
  <1>5. t.own => t.succeeded
    BY <1>1, OwnIsCommitted
  <1> HIDE DEF u, o
  <1>6. FlowInv(f, "idle", u, o, flow[f], held[f], created', plugged, bond')
    <2>1. Place("idle", u, o, flow[f], held[f])
      BY ONLY <1>2, <1>3, <1>4 DEF Place, Talking, BackOut
    <2>2. Rival("idle", u, created') /\ Same("idle", u, plugged) /\ Whose(f, "idle", u, bond')
      BY ONLY <1>4 DEF Rival, Same, Whose, Past
    <2>3. Keeps(f, "idle", u, o, flow[f], held[f], bond')
      <3>1. Keeps(f, "unregister", t, out[f], flow[f], held[f], bond)
        BY <1>1, OneFlow
      <3> QED BY ONLY <1>1, <1>3, <1>4, <1>5, <3>1 DEF Keeps
    <2> QED BY <2>1, <2>2, <2>3 DEF FlowInv
  <1>7. ProofInv'
    <2>1. \A r \in created' : r.by = f => flow[f] # "closed" /\ KeyOf(r) \in Kept(u, o, held[f])
      BY <1>1, <1>2, <1>4 DEF PairInv, ProofInv, Kept
    <2> QED BY ONLY PairInv, f \in Flows, <1>1, <2>1, ProofsGo
  <1>8. /\ bond' \in [Controllers -> Bond \cup {None}] /\ tries' \in [Flows -> 0..MaxAttempts]
        /\ \A c \in Controllers : bond'[c] = bond[c] \/ bond'[c].maker = f
    BY <1>1 DEF PairInv, BluezInv
  <1> HIDE DEF t
  <1> QED BY ONLY PairInv, f \in Flows, <1>1, <1>2, <1>4, <1>6, <1>7, <1>8, OfOneFlow

-----------------------------------------------------------------------------
(* The steps of the flows *)

\* A flow takes over what its attempt left it, and goes on or is done.
LEMMA Settles ==
    ASSUME PairInv, NEW f \in Flows, flow[f] = "open", out[f] # "none", NEW fl \in {"open", "removed"},
           At(f, pc[f], tx[f], "none", fl, Settled(f)),
           UNCHANGED <<bluezVars, lock, created, tries, forget>>
    PROVE  PairInv'
  <1> DEFINE t == tx[f]
             h == Settled(f)
  <1>1. h = Kept(t, out[f], held[f])
    BY DEF Settled, Kept
  <1>2. pc[f] = "idle" /\ lock # f /\ "idle" \notin Busy
    BY OneFlow DEF Place, Busy, Talking, Cleanup
  <1>3. FlowInv(f, "idle", t, out[f], "open", held[f], created, plugged, bond)
    BY <1>2 DEF PairInv
  <1>4. UNCHANGED <<gen, plugged, events, forget>> /\ bond' = bond /\ created' = created /\ lock' = lock
    BY DEF bluezVars
  <1>5. At(f, "idle", t, "none", fl, h)
    BY <1>2
  <1> HIDE DEF h
  <1>6. FlowInv(f, "idle", t, "none", fl, h, created', plugged, bond')
    <2>1. Place("idle", t, "none", fl, h)
      <3>1. out[f] \in {"created", "incomplete"} => KeyOf(t) \in Key
        BY ONLY <1>3 DEF FlowInv, Place, KeyOf, Key
      <3>2. h \in SUBSET Key
        BY ONLY <1>1, <1>3, <3>1 DEF FlowInv, Place, Kept
      <3> QED BY ONLY <1>2, <1>3, <3>2, fl \in {"open", "removed"} DEF FlowInv, Place, Talking, BackOut
    <2>2. Rival("idle", t, created') /\ Same("idle", t, plugged) /\ Whose(f, "idle", t, bond')
      BY ONLY <1>2 DEF Rival, Same, Whose, Past
    <2>3. Keeps(f, "idle", t, "none", fl, h, bond')
      <3>1. Kept(t, "none", h) = h
        BY DEF Kept
      <3> QED BY ONLY <1>1, <1>2, <1>3, <1>4, <3>1, fl \in {"open", "removed"} DEF FlowInv, Keeps
    <2> QED BY <2>1, <2>2, <2>3 DEF FlowInv
  <1>7. ProofInv'
    <2>1. \A r \in created' : r.by = f => fl # "closed" /\ KeyOf(r) \in Kept(t, "none", h)
      BY <1>1, <1>4 DEF PairInv, ProofInv, Kept
    <2> QED BY ONLY PairInv, f \in Flows, <1>4, <1>5, <2>1, ProofsGo
  <1>8. /\ bond' \in [Controllers -> Bond \cup {None}] /\ tries' \in [Flows -> 0..MaxAttempts]
        /\ created' \subseteq created /\ \A c \in Controllers : bond'[c] \in {bond[c], None}
    BY <1>4 DEF PairInv, BluezInv
  <1> HIDE DEF t
  <1> QED BY ONLY PairInv, f \in Flows, <1>2, <1>4, <1>5, <1>6, <1>7, <1>8, OfOneFlow

\* Back to the form, and on to the entry.
LEMMA ReturnsAndFinishesKeep ==
    ASSUME PairInv, NEW f \in Flows, FlowReturns(f) \/ FlowFinishes(f)
    PROVE  PairInv'
  <1>1. PICK fl \in {"open", "removed"} : At(f, pc[f], tx[f], "none", fl, Settled(f))
    <2> DEFINE h == Settled(f)
    <2>1. /\ held' = [held EXCEPT ![f] = h] /\ out' = [out EXCEPT ![f] = "none"]
          /\ pc' = pc /\ tx' = tx
          /\ \/ flow[f] = "open" /\ flow' = flow
             \/ flow' = [flow EXCEPT ![f] = "removed"]
      BY DEF FlowReturns, FlowFinishes
    <2> HIDE DEF h
    <2>2. \E fl \in {"open", "removed"} : At(f, pc[f], tx[f], "none", fl, h)
      BY <2>1 DEF At, PairInv, Funs
    <2> QED BY <2>2 DEF h
  <1>2. flow[f] = "open" /\ out[f] # "none" /\ UNCHANGED <<bluezVars, lock, created, tries, forget>>
    BY DEF FlowReturns, FlowFinishes
  <1> QED BY <1>1, <1>2, Settles

\* A flow is abandoned; its attempt may still run.
LEMMA FlowRemovedKeeps ==
    ASSUME PairInv, NEW f \in Flows, FlowRemoved(f)
    PROVE  PairInv'
  <1>1. /\ flow[f] = "open" /\ At(f, pc[f], tx[f], out[f], "removed", held[f])
        /\ UNCHANGED <<gen, plugged, events, forget, tries>>
        /\ bond' = bond /\ created' = created /\ lock' = lock
    BY DEF FlowRemoved, At, PairInv, Funs, bluezVars
  <1>2. FlowInv(f, pc[f], tx[f], out[f], "removed", held[f], created', plugged, bond')
    <2>1. FlowInv(f, pc[f], tx[f], out[f], "open", held[f], created, plugged, bond)
      BY <1>1 DEF PairInv
    <2>2. Place(pc[f], tx[f], out[f], "removed", held[f])
      BY ONLY <2>1 DEF FlowInv, Place
    <2>3. Keeps(f, pc[f], tx[f], out[f], "removed", held[f], bond)
      BY ONLY <2>1 DEF FlowInv, Keeps
    <2> QED BY ONLY <1>1, <2>1, <2>2, <2>3 DEF FlowInv
  <1>3. ProofInv'
    <2>1. \A r \in created' : r.by = f => "removed" # "closed" /\ KeyOf(r) \in Kept(tx[f], out[f], held[f])
      BY <1>1 DEF PairInv, ProofInv
    <2> QED BY ONLY PairInv, f \in Flows, <1>1, <2>1, ProofsGo
  <1>4. pc[f] \in Busy <=> lock' = f
    BY <1>1, OneFlow
  <1>5. bond' \in [Controllers -> Bond \cup {None}] /\ tries' \in [Flows -> 0..MaxAttempts]
    BY <1>1 DEF PairInv, BluezInv
  <1>6. created' \subseteq created /\ \A c \in Controllers : bond'[c] \in {bond[c], None}
    BY <1>1
  <1> QED BY ONLY PairInv, f \in Flows, <1>1, <1>2, <1>3, <1>4, <1>5, <1>6, OfOneFlow

\* The cleanup releases every proof of the flow.
LEMMA FlowCleanupKeeps ==
    ASSUME PairInv, NEW f \in Flows, FlowCleanup(f)
    PROVE  PairInv'
  <1> DEFINE u == NewTx(Identity)
  <1>1. /\ pc[f] = "idle" /\ created' = created \ Released(Settled(f))
        /\ At(f, "idle", u, "none", "closed", {})
        /\ UNCHANGED <<gen, plugged, events, forget, tries>> /\ bond' = bond /\ lock' = lock
    BY DEF FlowCleanup, At, PairInv, Funs, bluezVars
  <1>2. u \in Tx /\ ~u.own /\ ~u.requested
    BY NewLocals DEF Addresses
  <1>3. lock' # f /\ "idle" \notin Busy
    BY <1>1, OneFlow DEF Busy, Talking, Cleanup
  <1> HIDE DEF u
  <1>4. FlowInv(f, "idle", u, "none", "closed", {}, created', plugged, bond')
    <2>1. Place("idle", u, "none", "closed", {})
      BY ONLY <1>2, <1>3 DEF Place, Talking, BackOut
    <2>2. /\ Rival("idle", u, created') /\ Same("idle", u, plugged) /\ Whose(f, "idle", u, bond')
          /\ Keeps(f, "idle", u, "none", "closed", {}, bond')
      BY ONLY <1>2 DEF Rival, Same, Whose, Keeps, Past
    <2> QED BY <2>1, <2>2 DEF FlowInv
  <1>5. ProofInv'
    <2>1. Settled(f) = Kept(tx[f], out[f], held[f])
      BY DEF Settled, Kept
    <2>2. \A r \in created' : r.by # f
      BY <1>1, <2>1 DEF PairInv, ProofInv, Released
    <2> QED BY ONLY PairInv, f \in Flows, <1>1, <2>2, ProofsGo
  <1>6. bond' \in [Controllers -> Bond \cup {None}] /\ tries' \in [Flows -> 0..MaxAttempts]
    BY <1>1 DEF PairInv, BluezInv
  <1>7. created' \subseteq created /\ \A c \in Controllers : bond'[c] \in {bond[c], None}
    BY <1>1
  <1> QED BY ONLY PairInv, f \in Flows, <1>1, <1>3, <1>4, <1>5, <1>6, <1>7, OfOneFlow

-----------------------------------------------------------------------------
(* The steps of the removal and of the world *)

\* Steps that leave every flow alone and only take bonds and proofs away.
LEMMA OnlyTakesAway ==
    ASSUME PairInv, BluezInv', LockInv', UNCHANGED <<pc, tx, out, flow, held, plugged>>,
           created' \subseteq created, \A c \in Controllers : bond'[c] \in {bond[c], None}
    PROVE  PairInv'
  <1>1. ASSUME NEW f \in Flows
        PROVE  FlowInv(f, pc'[f], tx'[f], out'[f], flow'[f], held'[f], created', plugged', bond')
    <2>1. FlowInv(f, pc[f], tx[f], out[f], flow[f], held[f], created, plugged, bond)
      BY DEF PairInv
    <2>2. FlowInv(f, pc[f], tx[f], out[f], flow[f], held[f], created', plugged, bond')
      BY ONLY <2>1, created' \subseteq created,
              \A c \in Controllers : bond'[c] \in {bond[c], None}, LessIsFine
    <2> QED BY <2>2
  <1>2. ProofInv' /\ Funs'
    BY DEF PairInv, ProofInv, Funs
  <1> QED BY <1>1, <1>2 DEF PairInv

\* The confirmed removal.
LEMMA ForgetResolvesKeeps ==
    ASSUME PairInv, NEW k \in Key, ForgetResolves(k)
    PROVE  PairInv'
  <1>1. /\ UNCHANGED <<gen, plugged, bond, events, created, pc, tx, out, flow, held, tries>>
        /\ forget.pc = "idle" /\ lock = None /\ lock' = "forget"
    BY DEF ForgetResolves, bluezVars, flowVars
  <1>2. BluezInv'
    <2>1. forget' \in [pc : {"idle", "remove", "check", "done"}, key : Key \cup {None}, gen : Nat]
      BY DEF ForgetResolves, PairInv, BluezInv
    <2> QED BY <1>1, <2>1 DEF PairInv, BluezInv
  <1>3. LockInv'
    <2>1. \A f \in Flows : pc'[f] \notin Busy /\ lock' # f
      BY <1>1 DEF PairInv, LockInv
    <2> QED BY <1>1, <2>1 DEF LockInv
  <1> QED BY ONLY PairInv, <1>1, <1>2, <1>3, OnlyTakesAway

\* Its removal and its end.
LEMMA ForgetGoesOnKeeps ==
    ASSUME PairInv, ForgetGoesOn
    PROVE  PairInv'
  <1>1. /\ UNCHANGED <<gen, plugged, events, pc, tx, out, flow, held, tries>>
        /\ forget.pc \in {"remove", "check"} /\ lock = "forget"
        /\ created' \subseteq created
        /\ bond' = bond \/ bond' = [bond EXCEPT ![plugged] = None]
        /\ \/ forget' = [forget EXCEPT !.pc = "check"] /\ lock' = lock
           \/ forget' = [pc |-> "done", key |-> None, gen |-> 0] /\ lock' = None
    BY DEF ForgetGoesOn, ForgetRemoves, ForgetEnds, bluezVars, flowVars, PairInv, LockInv
  <1>2. /\ bond' \in [Controllers -> Bond \cup {None}]
        /\ \A c \in Controllers : bond'[c] \in {bond[c], None}
    <2>1. bond \in [Controllers -> Bond \cup {None}] /\ plugged \in Controllers
      BY DEF PairInv, BluezInv
    <2> QED BY ONLY <1>1, <2>1
  <1>3. BluezInv'
    <2>1. forget' \in [pc : {"idle", "remove", "check", "done"}, key : Key \cup {None}, gen : Nat]
      BY <1>1 DEF PairInv, BluezInv
    <2> QED BY <1>1, <1>2, <2>1 DEF PairInv, BluezInv
  <1>4. LockInv'
    <2>1. \A f \in Flows : pc'[f] \notin Busy /\ lock' # f
      BY <1>1 DEF PairInv, LockInv
    <2>2. lock' # "forget" => forget'.pc = "done"
      BY <1>1
    <2> QED BY <1>1, <2>1, <2>2 DEF LockInv
  <1> QED BY ONLY PairInv, <1>1, <1>2, <1>3, <1>4, OnlyTakesAway

\* A bond that another client removes, and a restart of the daemon.
LEMMA RemovalAndRestartKeep ==
    ASSUME PairInv, OtherRemoves \/ BluezRestarts
    PROVE  PairInv'
  <1>1. /\ UNCHANGED <<plugged, created, lock, forget, pc, tx, out, flow, held, tries>>
        /\ gen' = gen \/ gen' = gen + 1
        /\ events < MaxEvents /\ events' = events + 1
        /\ bond' = bond \/ bond' = [bond EXCEPT ![plugged] = None]
    BY DEF OtherRemoves, BluezRestarts, flowVars
  <1>2. /\ bond' \in [Controllers -> Bond \cup {None}]
        /\ \A c \in Controllers : bond'[c] \in {bond[c], None}
    <2>1. bond \in [Controllers -> Bond \cup {None}] /\ plugged \in Controllers
      BY DEF PairInv, BluezInv
    <2> QED BY ONLY <1>1, <2>1
  <1>3. BluezInv'
    <2>1. gen' \in Nat /\ events' \in 0..MaxEvents
      BY <1>1 DEF PairInv, BluezInv
    <2> QED BY <1>1, <1>2, <2>1 DEF PairInv, BluezInv
  <1>4. LockInv'
    BY <1>1 DEF PairInv, LockInv
  <1> QED BY ONLY PairInv, <1>1, <1>2, <1>3, <1>4, OnlyTakesAway

\* What is done behind the back of an attempt excuses it.
LEMMA NoticedIsFine ==
    ASSUME NEW f \in Flows, NEW p, NEW t, NEW u, NEW o, NEW fl, NEW h, NEW cr, NEW pl, NEW b,
           NEW pl2, NEW b2, NEW what,
           FlowInv(f, p, t, o, fl, h, cr, pl, b),
           Like(u, t), u.addr = t.addr, u.ready = t.ready, u.attempted = t.attempted,
           u.succeeded = t.succeeded,
           u.since = IF p \in Busy THEN t.since \cup what ELSE t.since,
           \/ what = {"foreign"} /\ pl2 = pl /\ \A c \in Controllers : b2[c] = b[c] \/ b2[c].maker = Other
           \/ what = {"swap", "moved"} /\ b2 = b
    PROVE  FlowInv(f, p, u, o, fl, h, cr, pl2, b2)
  <1>1. Place(p, u, o, fl, h)
    BY DEF FlowInv, Place, Like
  <1>2. Past(p, u) => p \in Busy /\ Past(p, t) /\ u.since = t.since \cup what
    BY DEF Past, Like, Busy, Talking
  <1>3. {"pair", "rbRemove"} \subseteq Busy
    BY DEF Busy, Talking, Cleanup
  <1>4. Rival(p, u, cr) /\ Same(p, u, pl2)
    BY <1>2, <1>3 DEF FlowInv, Rival, Same, Like
  <1>5. Whose(f, p, u, b2)
    BY <1>2 DEF FlowInv, Whose, Like
  <1>6. Keeps(f, p, u, o, fl, h, b2)
    <2>1. KeyOf(u) = KeyOf(t) /\ Kept(u, o, h) = Kept(t, o, h)
      BY DEF Like, KeyOf, Kept
    <2>2. u.ctrl \in Controllers /\ b2[u.ctrl].maker = f => b2[u.ctrl] = b[t.ctrl]
      BY DEF Like
    <2>3. "moved" \notin u.since => "moved" \notin t.since
      OBVIOUS
    <2>4. Keeps(f, p, t, o, fl, h, b)
      BY DEF FlowInv
    <2> QED BY ONLY <2>1, <2>2, <2>3, <2>4, Like(u, t), u.succeeded = t.succeeded DEF Keeps, Like
  <1> QED BY <1>1, <1>4, <1>5, <1>6 DEF FlowInv

\* A bond of another client, and a change of the controller.
LEMMA ForeignAndSwapKeep ==
    ASSUME PairInv,
           \/ \E p \in Paths, a \in Addresses : OtherPairs(p, a)
           \/ \E c \in Controllers : Swap(c)
    PROVE  PairInv'
  <1>1. PICK what \in SUBSET {"swap", "moved", "foreign"} :
          /\ Noticed(what)
          /\ UNCHANGED <<gen, created, lock, forget, pc, out, flow, held, tries>>
          /\ events < MaxEvents /\ events' = events + 1
          /\ \/ /\ what = {"foreign"} /\ plugged' = plugged
                /\ \E b \in Bond : b.maker = Other /\ bond' = [bond EXCEPT ![plugged] = b]
             \/ what = {"swap", "moved"} /\ bond' = bond /\ plugged' \in Controllers
    <2>1. CASE \E p \in Paths, a \in Addresses : OtherPairs(p, a)
      <3>1. PICK p \in Paths, a \in Addresses : OtherPairs(p, a)
        BY <2>1
      <3> DEFINE b == [maker |-> Other, path |-> p, addr |-> a]
      <3>2. b \in Bond /\ b.maker = Other
        BY DEF Bond, Makers
      <3>3. bond' = [bond EXCEPT ![plugged] = b] /\ plugged' = plugged /\ Noticed({"foreign"})
            /\ UNCHANGED <<gen, created, lock, forget, pc, out, flow, held, tries>>
            /\ events < MaxEvents /\ events' = events + 1
        BY <3>1 DEF OtherPairs, flowVars
      <3> HIDE DEF b
      <3> QED BY <3>2, <3>3
    <2>2. CASE \E c \in Controllers : Swap(c)
      BY <2>2 DEF Swap, flowVars
    <2> QED BY <2>1, <2>2
  <1>2. /\ bond' \in [Controllers -> Bond \cup {None}] /\ plugged' \in Controllers
        /\ \/ what = {"foreign"} /\ plugged' = plugged
              /\ \A c \in Controllers : bond'[c] = bond[c] \/ bond'[c].maker = Other
           \/ what = {"swap", "moved"} /\ bond' = bond
    <2>1. bond \in [Controllers -> Bond \cup {None}] /\ plugged \in Controllers
      BY DEF PairInv, BluezInv
    <2> QED BY ONLY <1>1, <2>1
  <1>3. BluezInv'
    <2>1. events' \in 0..MaxEvents
      BY <1>1 DEF PairInv, BluezInv
    <2> QED BY <1>1, <1>2, <2>1 DEF PairInv, BluezInv
  <1>4. LockInv'
    BY <1>1 DEF PairInv, LockInv
  <1>5. ASSUME NEW f \in Flows
        PROVE  /\ Like(tx'[f], tx[f]) /\ tx'[f].addr = tx[f].addr /\ tx'[f].ready = tx[f].ready
               /\ tx'[f].attempted = tx[f].attempted /\ tx'[f].succeeded = tx[f].succeeded
               /\ tx'[f].since = IF pc[f] \in Busy THEN tx[f].since \cup what ELSE tx[f].since
    <2>1. tx'[f] = [tx[f] EXCEPT !.since = IF pc[f] \in Busy THEN @ \cup what ELSE @]
      <3>1. pc[f] \in {"idle", "wait"} <=> pc[f] \notin Busy
        BY OneFlow DEF Place, Busy, Talking, Cleanup
      <3> QED BY <1>1, <3>1 DEF Noticed
    <2>2. tx[f] \in Tx
      BY OneFlow
    <2>3. CASE pc[f] \in Busy
      <3>1. tx'[f] = [tx[f] EXCEPT !.since = @ \cup what]
        BY <2>1, <2>3
      <3> QED BY ONLY <2>2, <2>3, <3>1, NoticedLocals, what \in SUBSET {"swap", "moved", "foreign"}
    <2>4. CASE pc[f] \notin Busy
      <3>1. tx'[f] = tx[f]
        BY <2>1, <2>2, <2>4 DEF Tx
      <3> QED BY <2>2, <2>4, <3>1 DEF Like
    <2> QED BY <2>3, <2>4
  <1>6. ASSUME NEW f \in Flows
        PROVE  FlowInv(f, pc'[f], tx'[f], out'[f], flow'[f], held'[f], created', plugged', bond')
    <2>1. FlowInv(f, pc[f], tx[f], out[f], flow[f], held[f], created, plugged, bond)
      BY DEF PairInv
    <2>2. FlowInv(f, pc[f], tx'[f], out[f], flow[f], held[f], created, plugged', bond')
      BY ONLY <1>2, <1>5, <2>1, f \in Flows, NoticedIsFine
    <2> QED BY <1>1, <2>2
  <1>7. ProofInv'
    <2>1. ASSUME NEW r \in created'
          PROVE  flow'[r.by] # "closed" /\ KeyOf(r) \in Kept(tx'[r.by], out'[r.by], held'[r.by])
      <3>1. r.by \in Flows /\ flow[r.by] # "closed" /\ KeyOf(r) \in Kept(tx[r.by], out[r.by], held[r.by])
        BY <1>1 DEF PairInv, ProofInv, Proof
      <3>2. Kept(tx'[r.by], out[r.by], held[r.by]) = Kept(tx[r.by], out[r.by], held[r.by])
        BY <1>5, <3>1 DEF Kept, KeyOf, Like
      <3> QED BY <1>1, <3>1, <3>2
    <2> QED BY <1>1, <2>1 DEF PairInv, ProofInv
  <1>8. Funs'
    BY <1>1 DEF Noticed, PairInv, Funs
  <1> QED BY <1>3, <1>4, <1>6, <1>7, <1>8 DEF PairInv

-----------------------------------------------------------------------------
(* The invariant *)

\* It holds at first.
LEMMA InitInv ==
    ASSUME Init
    PROVE  PairInv
  <1>1. BluezInv
    BY DEF Init, BluezInv
  <1>2. LockInv
    BY DEF Init, LockInv, Busy, Talking, Cleanup
  <1>3. ProofInv /\ Funs
    BY DEF Init, ProofInv, Funs
  <1>4. ASSUME NEW f \in Flows
        PROVE  FlowInv(f, pc[f], tx[f], out[f], flow[f], held[f], created, plugged, bond)
    <2> DEFINE u == NewTx(Identity)
    <2>1. u \in Tx /\ ~u.own /\ ~u.requested
      BY NewLocals DEF Addresses
    <2>2. pc[f] = "idle" /\ tx[f] = u /\ out[f] = "none" /\ flow[f] = "open" /\ held[f] = {}
      BY DEF Init
    <2> HIDE DEF u
    <2>3. Place("idle", u, "none", "open", {})
      BY ONLY <2>1 DEF Place, Busy, Talking, Cleanup, BackOut
    <2>4. /\ Rival("idle", u, created) /\ Same("idle", u, plugged) /\ Whose(f, "idle", u, bond)
          /\ Keeps(f, "idle", u, "none", "open", {}, bond)
      BY ONLY <2>1 DEF Rival, Same, Whose, Keeps, Past
    <2> QED BY <2>2, <2>3, <2>4 DEF FlowInv
  <1> QED BY <1>1, <1>2, <1>3, <1>4 DEF PairInv

\* And every step keeps it.
LEMMA StepInv ==
    ASSUME PairInv, [Next]_vars
    PROVE  PairInv'
  <1>1. ASSUME NEW f \in Flows, Attempt(f)
        PROVE  PairInv'
    <2>1. CASE EndAttempt(f)
      BY <2>1, EndsWithProof, EndsWithout
    <2>2. CASE ~EndAttempt(f)
      BY <1>1, <2>2, ResolveKeeps, ResolveFailsKeeps, VerifyOldKeeps, CallPairKeeps,
         PairReturnsKeeps, VerifyNewKeeps, RollbackReadKeeps, RollbackRemoveKeeps,
         RollbackCheckKeeps, LateRollbackKeeps DEF Attempt
    <2> QED BY <2>1, <2>2
  <1>2. ASSUME NEW f \in Flows,
               \/ AskPin(f) \/ SubmitPin(f) \/ BluezPairs(f) \/ AttemptFails(f) \/ Cancel(f)
               \/ \E a \in Addresses : Begin(f, a)
        PROVE  PairInv'
    BY <1>2, PinKeeps, BluezPairsKeeps, AttemptFailsKeeps, CancelKeeps, BeginKeeps
  <1>3. ASSUME NEW f \in Flows, FlowReturns(f) \/ FlowFinishes(f) \/ FlowRemoved(f) \/ FlowCleanup(f)
        PROVE  PairInv'
    BY <1>3, ReturnsAndFinishesKeep, FlowRemovedKeeps, FlowCleanupKeeps
  <1>4. ASSUME (\E k \in Key : ForgetResolves(k)) \/ ForgetGoesOn \/ Environment
        PROVE  PairInv'
    BY <1>4, ForgetResolvesKeeps, ForgetGoesOnKeeps, RemovalAndRestartKeep, ForeignAndSwapKeep
    DEF Environment
  <1>5. CASE UNCHANGED vars
    <2>1. UNCHANGED <<gen, plugged, bond, events, lock, created, pc, tx, out, flow, held, tries, forget>>
      BY <1>5 DEF vars
    <2>2. BluezInv' /\ LockInv'
      BY <2>1 DEF PairInv, BluezInv, LockInv
    <2>3. created' \subseteq created /\ \A c \in Controllers : bond'[c] \in {bond[c], None}
      BY <2>1
    <2> QED BY ONLY PairInv, <2>1, <2>2, <2>3, OnlyTakesAway
  <1> QED BY <1>1, <1>2, <1>3, <1>4, <1>5 DEF Next

\* The argument holds of every reachable state.
THEOREM PairInvHolds == Spec => []PairInv
  <1>1. Init => PairInv
    BY InitInv
  <1>2. PairInv /\ [Next]_vars => PairInv'
    BY StepInv
  <1> QED BY <1>1, <1>2, PTL DEF Spec

\* Every variable keeps its type.
THEOREM TypeCorrect == Spec => []TypeOK
  <1>1. PairInv => TypeOK
    <2> SUFFICES ASSUME PairInv PROVE TypeOK
      OBVIOUS
    <2>1. /\ pc = [f \in Flows |-> pc[f]] /\ tx = [f \in Flows |-> tx[f]]
          /\ out = [f \in Flows |-> out[f]] /\ flow = [f \in Flows |-> flow[f]]
          /\ held = [f \in Flows |-> held[f]]
      BY DEF PairInv, Funs
    <2>2. \A f \in Flows : Place(pc[f], tx[f], out[f], flow[f], held[f])
      BY OneFlow
    <2>3. \A f \in Flows : /\ pc[f] \in {"idle", "wait"} \cup Talking \cup Cleanup /\ tx[f] \in Tx
                           /\ out[f] \in {"none", "created", "existing", "incomplete", "failed"}
                           /\ flow[f] \in {"open", "removed", "closed"} /\ held[f] \in SUBSET Key
      BY ONLY <2>2 DEF Place, Busy
    <2>4. /\ pc \in [Flows -> {"idle", "wait"} \cup Talking \cup Cleanup]
          /\ tx \in [Flows -> Tx] /\ held \in [Flows -> SUBSET Key]
          /\ out \in [Flows -> {"none", "created", "existing", "incomplete", "failed"}]
          /\ flow \in [Flows -> {"open", "removed", "closed"}]
      BY ONLY <2>1, <2>3
    <2> QED BY <2>4 DEF TypeOK, PairInv, BluezInv, LockInv, ProofInv
  <1> QED BY <1>1, PairInvHolds, PTL

-----------------------------------------------------------------------------
(* What it shows *)

\* Every flow that is closed has released its proofs.
THEOREM ProofsAreReleased == Spec => []NoProofLeft
  <1>1. PairInv => NoProofLeft
    BY DEF PairInv, ProofInv, Proof, NoProofLeft
  <1> QED BY <1>1, PairInvHolds, PTL

\* A bond that Pair() returned to an attempt is in the hands of its flow.
THEOREM OwnershipIsKept == Spec => []OwnershipKept
  <1>1. ASSUME PairInv, NEW f \in Flows, NEW c \in Controllers,
               pc[f] = "idle" /\ flow[f] = "open" /\ tx[f].own /\ tx[f].ctrl = c,
               bond[c] # None /\ bond[c].maker = f /\ "moved" \notin tx[f].since
        PROVE  KeyOf(tx[f]) \in Settled(f)
    <2>1. Keeps(f, pc[f], tx[f], out[f], flow[f], held[f], bond)
      BY <1>1, OneFlow
    <2>2. KeyOf(tx[f]) \in Kept(tx[f], out[f], held[f])
      BY <1>1, <2>1 DEF Keeps
    <2> QED BY <2>2 DEF Kept, Settled
  <1>2. PairInv => OwnershipKept
    BY <1>1 DEF OwnershipKept
  <1> QED BY <1>2, PairInvHolds, PTL

\* Which steps remove a bond for an attempt, and which make one for it.
LEMMA WhichStep ==
    ASSUME PairInv, Next, NEW f \in Flows
    PROVE  /\ pc[f] = "rbRemove" /\ pc'[f] # "rbRemove" => RollbackRemove(f)
           /\ pc[f] = "pair" /\ pc'[f] = "bonded" => BluezPairs(f)
  <1>1. ASSUME NEW k \in Flows, Attempt(k)
        PROVE  /\ pc[f] = "rbRemove" /\ pc'[f] # "rbRemove" => RollbackRemove(f)
               /\ pc[f] = "pair" => pc'[f] # "bonded"
    BY <1>1 DEF Attempt, Resolve, ResolveFails, VerifyOld, CallPair, PairReturns, VerifyNew,
       RollbackRead, RollbackRemove, RollbackCheck, LateRollback, EndAttempt, PairInv, Funs
  <1>2. ASSUME NEW k \in Flows,
               AskPin(k) \/ SubmitPin(k) \/ BluezPairs(k) \/ AttemptFails(k) \/ Cancel(k)
        PROVE  /\ pc[f] = "rbRemove" => pc'[f] = "rbRemove"
               /\ pc[f] = "pair" /\ pc'[f] = "bonded" => BluezPairs(f)
    BY <1>2 DEF AskPin, SubmitPin, BluezPairs, AttemptFails, Cancel, StartCleanup, Talking, Cleanup,
       PairInv, Funs
  <1>3. ASSUME NEW k \in Flows, FlowReturns(k) \/ FlowFinishes(k) \/ FlowRemoved(k) \/ FlowCleanup(k)
        PROVE  pc' = pc
    BY <1>3 DEF FlowReturns, FlowFinishes, FlowRemoved, FlowCleanup
  <1>4. ASSUME NEW k \in Flows, NEW a \in Addresses, Begin(k, a)
        PROVE  pc'[f] = pc[f] \/ pc[f] = "idle"
    BY <1>4 DEF Begin, PairInv, Funs
  <1>5. ASSUME (\E k \in Key : ForgetResolves(k)) \/ ForgetGoesOn \/ Environment
        PROVE  pc' = pc
    BY <1>5 DEF ForgetResolves, ForgetGoesOn, ForgetRemoves, ForgetEnds, Environment, OtherPairs,
       OtherRemoves, BluezRestarts, Swap
  <1> QED BY <1>1, <1>2, <1>3, <1>4, <1>5 DEF Next

\* A rollback takes the attempt's own bond, or what the world put in its place.
THEOREM RollbackTakesItsOwn == Spec => RollbackIsOwn
  <1>1. ASSUME PairInv, Next, NEW f \in Flows,
               pc[f] = "rbRemove" /\ pc'[f] # "rbRemove" /\ bond' # bond
        PROVE  /\ tx[f].own
               /\ \/ bond[plugged].maker = f /\ plugged = tx[f].ctrl
                  \/ "foreign" \in tx[f].since
                  \/ "swap" \in tx[f].since
    <2>1. RollbackRemove(f)
      BY <1>1, WhichStep
    <2>2. PairedAt(tx[f].path)
      BY <1>1, <2>1 DEF RollbackRemove
    <2>3. tx[f].own /\ Same("rbRemove", tx[f], plugged) /\ Whose(f, "rbRemove", tx[f], bond)
      BY <1>1, OneFlow DEF Place, BackOut
    <2> QED BY <2>2, <2>3 DEF Same, Whose, Past, Busy, Cleanup, PairedAt
  <1>2. PairInv /\ [Next]_vars => [\A f \in Flows :
          pc[f] = "rbRemove" /\ pc'[f] # "rbRemove" /\ bond' # bond
          => /\ tx[f].own
             /\ \/ bond[plugged].maker = f /\ plugged = tx[f].ctrl
                \/ "foreign" \in tx[f].since
                \/ "swap" \in tx[f].since]_vars
    BY <1>1
  <1> QED BY <1>2, PairInvHolds, PTL DEF Spec, RollbackIsOwn

\* No bond is made beside a proof of the same radio.
THEOREM NoBondBesideAProof == Spec => NoRivalBond
  <1>1. ASSUME PairInv, Next, NEW f \in Flows,
               pc[f] = "pair" /\ pc'[f] = "bonded" /\ "swap" \notin tx[f].since
        PROVE  \A r \in Matching(plugged, tx[f].addr, tx[f].path) : r.gen # gen
    <2>1. Rival("pair", tx[f], created) /\ Same("pair", tx[f], plugged)
      BY <1>1, OneFlow
    <2> QED BY <1>1, <2>1 DEF Rival, Same, Matching
  <1>2. PairInv /\ [Next]_vars => [\A f \in Flows :
          pc[f] = "pair" /\ pc'[f] = "bonded" /\ "swap" \notin tx[f].since
          => \A r \in Matching(plugged, tx[f].addr, tx[f].path) : r.gen # gen]_vars
    BY <1>1
  <1> QED BY <1>2, PairInvHolds, PTL DEF Spec, NoRivalBond
=============================================================================
