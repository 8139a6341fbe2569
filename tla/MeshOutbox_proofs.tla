------------------------- MODULE MeshOutbox_proofs -------------------------
(* Proofs about MeshOutbox. *)
EXTENDS MeshOutbox, TLAPS

USE NumMsgsAssumption, BoundsAssumption, NoneAssumption, GwProtoAssumption,
    RequestsAssumption

\* The gateway _select_gateway chooses is a gateway or none.
LEMMA SelectedType ==
  ASSUME connected \subseteq Gateways, NEW gw, NEW p
  PROVE  \A g \in Selected(gw, p) : g \in Gateways \cup {None}
  BY DEF Selected, Candidates

\* What a scenario offers is among the requests and the gateways.
LEMMA ScenarioType ==
  ASSUME scenario \in Scenarios
  PROVE  scenario.requests \subseteq Requests /\ scenario.gateways \subseteq Gateways
  BY ScenariosAssumption

\* Queue operations keep the queue a sequence of tasks.
LEMMA QueueType ==
  ASSUME NEW T, storeq \in Seq(T), NEW a \in T
  PROVE  /\ Issue(a) => storeq' \in Seq(T)
         /\ Ready(a) /\ Resume => storeq' \in Seq(T)
         /\ Ready(a) /\ Reissue(a) => storeq' \in Seq(T)
         /\ Unwait(a) => storeq' \in Seq(T)
  <1>1. Issue(a) => storeq' \in Seq(T)  BY DEF Issue
  <1>2. Ready(a) /\ Resume => storeq' \in Seq(T)  BY DEF Ready, Resume
  <1>3. Ready(a) /\ Reissue(a) => storeq' \in Seq(T)  BY DEF Ready, Reissue
  <1>4. ASSUME Unwait(a) PROVE storeq' \in Seq(T)
    <2>1. CASE UNCHANGED storeq  BY <2>1
    <2>2. ASSUME NEW i \in DOMAIN storeq,
                 storeq' = SubSeq(storeq, 1, i - 1) \o SubSeq(storeq, i + 1, Len(storeq))
          PROVE  storeq' \in Seq(T)
      <3>1. i \in 1..Len(storeq)  OBVIOUS
      <3>2. SubSeq(storeq, 1, i - 1) \in Seq(T)  BY <3>1
      <3>3. SubSeq(storeq, i + 1, Len(storeq)) \in Seq(T)  BY <3>1
      <3>4. QED  BY <2>2, <3>2, <3>3
    <2>3. QED  BY <1>4, <2>1, <2>2 DEF Unwait
  <1>5. QED  BY <1>1, <1>2, <1>3, <1>4

-----------------------------------------------------------------------------
(* Type correctness *)

\* TypeOK, one part per component of the state.
TypeLife == /\ generation \in 1..(MaxReloads + 1) /\ (reloading => generation <= MaxReloads)
            /\ suspended \in BOOLEAN /\ shutting \in BOOLEAN
            /\ reloading \in BOOLEAN /\ startup \in BOOLEAN
TypeRadio == configured \subseteq Gateways /\ connected \subseteq configured /\ targetSafe \in BOOLEAN
TypeRows == /\ req \in [Msgs -> Requests \cup {None}]
            /\ route \in [Msgs -> Gateways \cup {None}]
            /\ proto \in [Msgs -> Protocols \cup {None}]
            /\ status \in [Msgs -> {"absent", "queued", "sent", "blocked"}]
TypeSend == /\ spc \in [Msgs -> SendBusy \cup {"new", "done"}]
            /\ sgen \in [Msgs -> 0..(MaxReloads + 1)]
            /\ sgw \in [Msgs -> Gateways \cup {None}]
TypeFlush == /\ fpc \in [Flushers -> FlushHolds \cup {"idle", "waiting"}]
             /\ fgen \in [Flushers -> 0..(MaxReloads + 1)]
             /\ fgw \in [Flushers -> Gateways \cup {None}]
             /\ fpage \in [Flushers -> SUBSET Msgs]
             /\ fcur \in [Flushers -> 0..NumMsgs]
             /\ fvia \in [Flushers -> Gateways \cup {None}]
             /\ flast \in [Flushers -> BOOLEAN]
             /\ lock \in Flushers \cup {None}
Tasks == Msgs \cup Flushers \cup {None}
TypeQueue == storeq \in Seq(Tasks)
TypeHist == /\ delScan \in DeletionState \cup {None}
            /\ deleted \in [Msgs -> {"no", "held", "late", "idle"}]
            /\ tx \in [Msgs -> 0..2] /\ sentEvents \in [Msgs -> 0..2]
            /\ lateEvent \in BOOLEAN /\ crashes \in 0..MaxCrashes

\* The type invariant is the conjunction of its parts, one per group of variables.
LEMMA TypeParts == TypeOK <=> /\ scenario \in Scenarios /\ TypeLife /\ TypeRadio /\ TypeRows /\ TypeSend
                              /\ TypeFlush /\ TypeQueue /\ TypeHist
  BY DEF TypeOK, TypeLife, TypeRadio, TypeRows, TypeSend, TypeFlush, TypeQueue,
         TypeHist, Tasks

\* The coordinator starts well typed (_async_setup).
LEMMA InitType == Init => TypeOK
  <1> SUFFICES ASSUME Init PROVE TypeOK
    OBVIOUS
  <1> USE DEF Init
  <1>1. TypeLife
    <2>1. generation \in 1..(MaxReloads + 1)  BY DEF TypeLife
    <2>2. ~reloading  OBVIOUS
    <2>3. suspended \in BOOLEAN /\ shutting \in BOOLEAN  BY DEF TypeLife
    <2>4. reloading \in BOOLEAN /\ startup \in BOOLEAN  BY DEF TypeLife
    <2>5. QED  BY <2>1, <2>2, <2>3, <2>4, Zenon DEF TypeLife
  <1>2. TypeRadio  BY ScenarioType DEF TypeRadio, radio
  <1>3. TypeRows  BY DEF TypeRows, rows, Msgs
  <1>4. TypeSend  BY DEF TypeSend, sender, SendBusy, Msgs
  <1>5. TypeFlush  BY DEF TypeFlush, flush, FlushHolds, FlushBusy, Msgs
  <1>6. TypeQueue  BY DEF TypeQueue, Tasks
  <1>7. TypeHist
    <2>1. crashes \in 0..MaxCrashes  OBVIOUS
    <2>6. lateEvent \in BOOLEAN  BY Zenon
    <2>2. delScan \in DeletionState \cup {None}  OBVIOUS
    <2>3. deleted \in [Msgs -> {"no", "held", "late", "idle"}]  OBVIOUS
    <2>4. tx \in [Msgs -> 0..2] /\ sentEvents \in [Msgs -> 0..2]  OBVIOUS
    <2>5. QED  BY <2>1, <2>2, <2>3, <2>4, <2>6 DEF TypeHist
  <1>8. QED  BY <1>1, <1>2, <1>3, <1>4, <1>5, <1>6, <1>7, TypeParts

\* The parts of the state, assumed well typed, for the proof of each step.
Typed == TypeLife /\ TypeRadio /\ TypeRows /\ TypeSend /\ TypeFlush /\ TypeQueue /\ TypeHist

\* A task that leaves the flush resets its own locals and only its own lock.
LEMMA LeaveType ==
  ASSUME TypeFlush, NEW f \in Flushers, Leave(f)
  PROVE  TypeFlush'
  <1> USE DEF TypeFlush, Leave
  <1>1. fpc' \in [Flushers -> FlushHolds \cup {"idle", "waiting"}]  OBVIOUS
  <1>2. fgen' \in [Flushers -> 0..(MaxReloads + 1)]  OBVIOUS
  <1>3. fgw' \in [Flushers -> Gateways \cup {None}]  OBVIOUS
  <1>4. fpage' \in [Flushers -> SUBSET Msgs]  OBVIOUS
  <1>5. fcur' \in [Flushers -> 0..NumMsgs]  OBVIOUS
  <1>6. fvia' \in [Flushers -> Gateways \cup {None}]  OBVIOUS
  <1>7. flast' \in [Flushers -> BOOLEAN]  OBVIOUS
  <1>8. lock' \in Flushers \cup {None}  OBVIOUS
  <1>9. QED  BY <1>1, <1>2, <1>3, <1>4, <1>5, <1>6, <1>7, <1>8

\* The loop over a page leaves the locals of the flush well typed.
LEMMA LoopType ==
  ASSUME TypeFlush, TypeRadio, NEW f \in Flushers, NextRecord(f) \/ PageEnd(f)
  PROVE  TypeFlush'
  <1>1. ASSUME NextRecord(f) PROVE TypeFlush'
    <2>1. PICK m \in fpage[f] :
            /\ fcur' = [fcur EXCEPT ![f] = m]
            /\ fpage' = [fpage EXCEPT ![f] = {k \in @ : k > m}]
            /\ \/ /\ fpc' = [fpc EXCEPT ![f] = "blocking"]
                  /\ fvia' = [fvia EXCEPT ![f] = None]
               \/ /\ fpc' = [fpc EXCEPT ![f] = "limiter"]
                  /\ \E g \in Selected(Desired(f, m), proto[m]) : fvia' = [fvia EXCEPT ![f] = g]
            /\ UNCHANGED <<fgen, fgw, flast, lock>>
      BY <1>1, Zenon DEF NextRecord
    <2>2. m \in Msgs  BY DEF TypeFlush
    <2>3. fcur' \in [Flushers -> 0..NumMsgs]  BY <2>1, <2>2 DEF TypeFlush, Msgs
    <2>4. fpage' \in [Flushers -> SUBSET Msgs]  BY <2>1 DEF TypeFlush
    <2>5. fpc' \in [Flushers -> FlushHolds \cup {"idle", "waiting"}]
      BY <2>1 DEF TypeFlush, FlushHolds, FlushBusy
    <2>6. fvia' \in [Flushers -> Gateways \cup {None}]
      BY <2>1, SelectedType DEF TypeFlush, TypeRadio
    <2>7. QED  BY <2>1, <2>3, <2>4, <2>5, <2>6 DEF TypeFlush
  <1>2. ASSUME PageEnd(f) PROVE TypeFlush'
    <2>1. CASE Leave(f)  BY <2>1, LeaveType
    <2>2. CASE ~Leave(f)
      <3>1. PICK c \in fpage[f] \cup {fcur[f]} :
              /\ fcur' = [fcur EXCEPT ![f] = c]
              /\ fpc' = [fpc EXCEPT ![f] = "waiting"]
              /\ fpage' = [fpage EXCEPT ![f] = {}]
              /\ fvia' = [fvia EXCEPT ![f] = None]
              /\ lock' = None
              /\ UNCHANGED <<fgen, fgw, flast>>
        BY <1>2, <2>2 DEF PageEnd
      <3>2. c \in 0..NumMsgs  BY DEF TypeFlush, Msgs
      <3>3. QED  BY ONLY TypeFlush, <3>1, <3>2 DEF TypeFlush
    <2>3. QED  BY <2>1, <2>2
  <1>3. QED  BY <1>1, <1>2

\* Submit leaves every variable well typed.
LEMMA TypeSubmit ==
  ASSUME Typed, scenario \in Scenarios, NEW m \in Msgs, Submit(m)
  PROVE  Typed'
  <1> USE DEF Typed, Submit
  <1>1. TypeLife'  BY DEF TypeLife, life
  <1>2. TypeRadio'  BY DEF TypeRadio, radio
  <1>3. TypeRows'  BY ScenarioType, SelectedType DEF TypeRows, rows, Msgs, TypeRadio
  <1>4. TypeSend'  BY ScenarioType, SelectedType DEF TypeSend, sender, SendBusy, Msgs, TypeRadio, TypeLife
  <1>5. TypeFlush'  BY ScenarioType, SelectedType DEF TypeFlush, flush, FlushHolds, FlushBusy, Msgs, TypeRadio, TypeLife
  <1>6. TypeQueue'  BY QueueType DEF TypeQueue, Tasks
  <1>7. TypeHist'  BY DEF TypeHist, hist, Inc, Msgs
  <1>8. QED  BY <1>1, <1>2, <1>3, <1>4, <1>5, <1>6, <1>7 DEF Typed

\* SendStored leaves every variable well typed.
LEMMA TypeSendStored ==
  ASSUME Typed, NEW m \in Msgs, SendStored(m)
  PROVE  Typed'
  <1> USE DEF Typed, SendStored
  <1>1. TypeLife'  BY DEF TypeLife, life
  <1>2. TypeRadio'  BY DEF TypeRadio, radio
  <1>3. TypeRows'  BY DEF TypeRows, rows, Msgs
  <1>4. TypeSend'  BY DEF TypeSend, sender, SendBusy, Msgs, TypeLife
  <1>5. TypeFlush'  BY DEF TypeFlush, flush, FlushHolds, FlushBusy, Msgs, TypeLife
  <1>6. TypeQueue'  BY QueueType DEF TypeQueue, Tasks
  <1>7. TypeHist'  BY DEF TypeHist, hist, Inc, Msgs
  <1>8. QED  BY <1>1, <1>2, <1>3, <1>4, <1>5, <1>6, <1>7 DEF Typed

\* SendLimited leaves every variable well typed.
LEMMA TypeSendLimited ==
  ASSUME Typed, NEW m \in Msgs, SendLimited(m)
  PROVE  Typed'
  <1> USE DEF Typed, SendLimited
  <1>1. TypeLife'  BY DEF TypeLife, life
  <1>2. TypeRadio'  BY DEF TypeRadio, radio
  <1>3. TypeRows'  BY DEF TypeRows, rows, Msgs
  <1>4. TypeSend'  BY DEF TypeSend, sender, SendBusy, Msgs, TypeLife
  <1>5. TypeFlush'  BY DEF TypeFlush, flush, FlushHolds, FlushBusy, Msgs, TypeLife
  <1>6. TypeQueue'  BY QueueType DEF TypeQueue, Tasks
  <1>7. TypeHist'  BY DEF TypeHist, hist, Inc, Msgs
  <1>8. QED  BY <1>1, <1>2, <1>3, <1>4, <1>5, <1>6, <1>7 DEF Typed

\* What a provider does to the count of transmissions, whoever called it.
LEMMA TriedCounts ==
  ASSUME TypeHist, NEW m, NEW air \in BOOLEAN, tx' = [tx EXCEPT ![m] = IF air THEN Inc(@) ELSE @]
  PROVE  /\ air => tx' = [tx EXCEPT ![m] = Inc(tx[m])]
         /\ ~air => tx' = tx
         /\ tx' \in [Msgs -> 0..2]
  <1>1. CASE air
    <2>1. tx' = [tx EXCEPT ![m] = Inc(tx[m])]
      BY <1>1
    <2>2. m \in Msgs => Inc(tx[m]) \in 0..2
      BY DEF TypeHist, Inc
    <2>3. QED  BY <1>1, <2>1, <2>2 DEF TypeHist
  <1>2. CASE ~air
    <2>1. tx' = [tx EXCEPT ![m] = tx[m]]
      BY <1>2
    <2>2. QED  BY <1>2, <2>1 DEF TypeHist
  <1>3. QED  BY <1>1, <1>2

\* SendTried leaves every variable well typed.
LEMMA TypeSendTried ==
  ASSUME Typed, NEW m \in Msgs, SendTried(m)
  PROVE  Typed'
  <1> USE DEF Typed, SendTried, Aired
  <1>1. TypeLife'  BY DEF TypeLife, life
  <1>2. TypeRadio'  BY DEF TypeRadio, radio
  <1>3. TypeRows'  BY DEF TypeRows, rows, Msgs
  <1>4. TypeSend'  BY DEF TypeSend, sender, SendBusy, Msgs, TypeLife
  <1>5. TypeFlush'  BY DEF TypeFlush, flush, FlushHolds, FlushBusy, Msgs, TypeLife
  <1>6. TypeQueue'  BY QueueType DEF TypeQueue, Tasks
  <1>7. TypeHist'
    <2>1. tx' \in [Msgs -> 0..2]  BY TriedCounts
    <2>2. QED  BY <2>1 DEF TypeHist
  <1>8. QED  BY <1>1, <1>2, <1>3, <1>4, <1>5, <1>6, <1>7 DEF Typed

\* SendReturned leaves every variable well typed.
LEMMA TypeSendReturned ==
  ASSUME Typed, NEW m \in Msgs, SendReturned(m)
  PROVE  Typed'
  <1> USE DEF Typed, SendReturned
  <1>1. TypeLife'  BY DEF TypeLife, life
  <1>2. TypeRadio'  BY DEF TypeRadio, radio
  <1>3. TypeRows'  BY DEF TypeRows, rows, Msgs
  <1>4. TypeSend'  BY DEF TypeSend, sender, SendBusy, Msgs, TypeLife
  <1>5. TypeFlush'  BY DEF TypeFlush, flush, FlushHolds, FlushBusy, Msgs, TypeLife
  <1>6. TypeQueue'  BY QueueType DEF TypeQueue, Tasks
  <1>7. TypeHist'  BY DEF TypeHist, hist, Inc, Msgs
  <1>8. QED  BY <1>1, <1>2, <1>3, <1>4, <1>5, <1>6, <1>7 DEF Typed

\* SendStatusStored leaves every variable well typed.
LEMMA TypeSendStatusStored ==
  ASSUME Typed, NEW m \in Msgs, SendStatusStored(m)
  PROVE  Typed'
  <1> USE DEF Typed, SendStatusStored
  <1>1. TypeLife'  BY DEF TypeLife, life
  <1>2. TypeRadio'  BY DEF TypeRadio, radio
  <1>3. TypeRows'  BY DEF TypeRows, rows, Msgs
  <1>4. TypeSend'  BY DEF TypeSend, sender, SendBusy, Msgs, TypeLife
  <1>5. TypeFlush'  BY DEF TypeFlush, flush, FlushHolds, FlushBusy, Msgs, TypeLife
  <1>6. TypeQueue'  BY QueueType DEF TypeQueue, Tasks
  <1>7. TypeHist'  BY DEF TypeHist, hist, Inc, Msgs
  <1>8. QED  BY <1>1, <1>2, <1>3, <1>4, <1>5, <1>6, <1>7 DEF Typed

\* SendRefreshed leaves every variable well typed.
LEMMA TypeSendRefreshed ==
  ASSUME Typed, NEW m \in Msgs, SendRefreshed(m)
  PROVE  Typed'
  <1> USE DEF Typed, SendRefreshed
  <1>1. TypeLife'  BY DEF TypeLife, life
  <1>2. TypeRadio'  BY DEF TypeRadio, radio
  <1>3. TypeRows'  BY DEF TypeRows, rows, Msgs
  <1>4. TypeSend'  BY DEF TypeSend, sender, SendBusy, Msgs, TypeLife
  <1>5. TypeFlush'  BY DEF TypeFlush, flush, FlushHolds, FlushBusy, Msgs, TypeLife
  <1>6. TypeQueue'  BY QueueType DEF TypeQueue, Tasks
  <1>7. TypeHist'  BY DEF TypeHist, hist, Inc, Msgs
  <1>8. QED  BY <1>1, <1>2, <1>3, <1>4, <1>5, <1>6, <1>7 DEF Typed

\* SendCancelled leaves every variable well typed.
LEMMA TypeSendCancelled ==
  ASSUME Typed, NEW m \in Msgs, SendCancelled(m)
  PROVE  Typed'
  <1> USE DEF Typed, SendCancelled
  <1>1. TypeLife'  BY DEF TypeLife, life
  <1>2. TypeRadio'  BY DEF TypeRadio, radio
  <1>3. TypeRows'  BY DEF TypeRows, rows, Msgs
  <1>4. TypeSend'  BY DEF TypeSend, sender, SendBusy, Msgs, TypeLife
  <1>5. TypeFlush'  BY DEF TypeFlush, flush, FlushHolds, FlushBusy, Msgs, TypeLife
  <1>6. TypeQueue'  BY QueueType DEF TypeQueue, Tasks
  <1>7. TypeHist'  BY DEF TypeHist, hist, Inc, Msgs
  <1>8. QED  BY <1>1, <1>2, <1>3, <1>4, <1>5, <1>6, <1>7 DEF Typed

\* FlushLock leaves every variable well typed.
LEMMA TypeFlushLock ==
  ASSUME Typed, NEW f \in Flushers, FlushLock(f)
  PROVE  Typed'
  <1> USE DEF Typed, FlushLock, Leave, Page, QueuedAfter
  <1>1. TypeLife'  BY DEF TypeLife, life
  <1>2. TypeRadio'  BY DEF TypeRadio, radio
  <1>3. TypeRows'  BY DEF TypeRows, rows, Msgs
  <1>4. TypeSend'  BY DEF TypeSend, sender, SendBusy, Msgs, TypeLife
  <1>5. TypeFlush'
    <2>1. CASE ~Current(fgen[f]) BY <2>1, LeaveType DEF LockFree
    <2>2. CASE Current(fgen[f])
      <3>1. Page(fcur[f]) \subseteq Msgs  OBVIOUS
      <3>2. (Cardinality(Page(fcur[f])) < PageLimit) \in BOOLEAN  OBVIOUS
      <3>3. QED  BY ONLY <2>2, <3>1, <3>2, TypeFlush, f \in Flushers, FlushLock(f)
                 DEF FlushLock, TypeFlush, FlushHolds
    <2>3. QED  BY <2>1, <2>2
  <1>6. TypeQueue'  BY QueueType DEF TypeQueue, Tasks
  <1>7. TypeHist'  BY DEF TypeHist, hist, Inc, Msgs
  <1>8. QED  BY <1>1, <1>2, <1>3, <1>4, <1>5, <1>6, <1>7 DEF Typed

\* FlushRead leaves every variable well typed.
LEMMA TypeFlushRead ==
  ASSUME Typed, NEW f \in Flushers, FlushRead(f)
  PROVE  Typed'
  <1> USE DEF Typed, FlushRead, Leave, NextRecord, PageEnd
  <1>1. TypeLife'  BY DEF TypeLife, life
  <1>2. TypeRadio'  BY DEF TypeRadio, radio
  <1>3. TypeRows'  BY SelectedType DEF TypeRows, rows, Msgs
  <1>4. TypeSend'  BY SelectedType DEF TypeSend, sender, SendBusy, Msgs, TypeLife
  <1>5. TypeFlush'
    <2>1. CASE Leave(f)  BY <2>1, LeaveType
    <2>2. CASE NextRecord(f) \/ PageEnd(f)  BY <2>2, LoopType
    <2>3. QED  BY <2>1, <2>2
  <1>6. TypeQueue'  BY QueueType DEF TypeQueue, Tasks
  <1>7. TypeHist'  BY DEF TypeHist, hist, Inc, Msgs
  <1>8. QED  BY <1>1, <1>2, <1>3, <1>4, <1>5, <1>6, <1>7 DEF Typed

\* FlushLimited leaves every variable well typed.
LEMMA TypeFlushLimited ==
  ASSUME Typed, NEW f \in Flushers, FlushLimited(f)
  PROVE  Typed'
  <1> USE DEF Typed, FlushLimited
  <1>1. TypeLife'  BY DEF TypeLife, life
  <1>2. TypeRadio'  BY DEF TypeRadio, radio
  <1>3. TypeRows'  BY DEF TypeRows, rows, Msgs
  <1>4. TypeSend'  BY DEF TypeSend, sender, SendBusy, Msgs, TypeLife
  <1>5. TypeFlush'
    <2>1. CASE Leave(f)  BY <2>1, LeaveType
    <2>2. CASE ~Leave(f)
      <3>1. /\ fpc' \in [Flushers -> FlushHolds \cup {"idle", "waiting"}]
            /\ UNCHANGED <<fgen, fgw, fpage, fcur, fvia, flast, lock>>
        BY <2>2 DEF TypeFlush, FlushHolds, FlushBusy
      <3>2. QED  BY ONLY TypeFlush, <3>1 DEF TypeFlush
    <2>3. QED  BY <2>1, <2>2
  <1>6. TypeQueue'  BY QueueType DEF TypeQueue, Tasks
  <1>7. TypeHist'  BY DEF TypeHist, hist, Inc, Msgs
  <1>8. QED  BY <1>1, <1>2, <1>3, <1>4, <1>5, <1>6, <1>7 DEF Typed

\* FlushTried leaves every variable well typed.
LEMMA TypeFlushTried ==
  ASSUME Typed, NEW f \in Flushers, FlushTried(f)
  PROVE  Typed'
  <1> USE DEF Typed, FlushTried, Aired
  <1>1. TypeLife'  BY DEF TypeLife, life
  <1>2. TypeRadio'  BY DEF TypeRadio, radio
  <1>3. TypeRows'  BY DEF TypeRows, rows, Msgs
  <1>4. TypeSend'  BY DEF TypeSend, sender, SendBusy, Msgs, TypeLife
  <1>5. TypeFlush'  BY DEF TypeFlush, FlushHolds, FlushBusy, Msgs
  <1>6. TypeQueue'  BY QueueType DEF TypeQueue, Tasks
  <1>7. TypeHist'
    <2>1. tx' \in [Msgs -> 0..2]  BY TriedCounts
    <2>2. QED  BY <2>1 DEF TypeHist
  <1>8. QED  BY <1>1, <1>2, <1>3, <1>4, <1>5, <1>6, <1>7 DEF Typed

\* FlushReturned leaves every variable well typed.
LEMMA TypeFlushReturned ==
  ASSUME Typed, NEW f \in Flushers, FlushReturned(f)
  PROVE  Typed'
  <1> USE DEF Typed, FlushReturned
  <1>1. TypeLife'  BY DEF TypeLife, life
  <1>2. TypeRadio'  BY DEF TypeRadio, radio
  <1>3. TypeRows'  BY DEF TypeRows, rows, Msgs
  <1>4. TypeSend'  BY DEF TypeSend, sender, SendBusy, Msgs, TypeLife
  <1>5. TypeFlush'
    <2>1. CASE Leave(f)  BY <2>1, LeaveType
    <2>2. CASE ~Leave(f)
      <3>1. /\ fpc' \in [Flushers -> FlushHolds \cup {"idle", "waiting"}]
            /\ UNCHANGED <<fgen, fgw, fpage, fcur, fvia, flast, lock>>
        BY <2>2 DEF TypeFlush, FlushHolds, FlushBusy
      <3>2. QED  BY ONLY TypeFlush, <3>1 DEF TypeFlush
    <2>3. QED  BY <2>1, <2>2
  <1>6. TypeQueue'  BY QueueType DEF TypeQueue, Tasks
  <1>7. TypeHist'  BY DEF TypeHist, hist, Inc, Msgs
  <1>8. QED  BY <1>1, <1>2, <1>3, <1>4, <1>5, <1>6, <1>7 DEF Typed

\* FlushStatusStored leaves every variable well typed.
LEMMA TypeFlushStatusStored ==
  ASSUME Typed, NEW f \in Flushers, FlushStatusStored(f)
  PROVE  Typed'
  <1> USE DEF Typed, FlushStatusStored, Leave, NextRecord, PageEnd
  <1>1. TypeLife'  BY DEF TypeLife, life
  <1>2. TypeRadio'  BY DEF TypeRadio, radio
  <1>3. TypeRows'  BY SelectedType DEF TypeRows, rows, Msgs
  <1>4. TypeSend'  BY SelectedType DEF TypeSend, sender, SendBusy, Msgs, TypeLife
  <1>5. TypeFlush'
    <2>1. CASE Leave(f)  BY <2>1, LeaveType
    <2>2. CASE NextRecord(f) \/ PageEnd(f)  BY <2>2, LoopType
    <2>3. QED  BY <2>1, <2>2
  <1>6. TypeQueue'  BY QueueType DEF TypeQueue, Tasks
  <1>7. TypeHist'
    <2>1. UNCHANGED <<delScan, deleted, tx, lateEvent, crashes>>
      BY ONLY FlushStatusStored(f) DEF FlushStatusStored
    <2>2. sentEvents' \in [Msgs -> 0..2]
      BY ONLY FlushStatusStored(f), TypeHist, NumMsgsAssumption DEF FlushStatusStored, TypeHist, Inc, Msgs
    <2>3. QED  BY ONLY <2>1, <2>2, TypeHist DEF TypeHist
  <1>8. QED  BY <1>1, <1>2, <1>3, <1>4, <1>5, <1>6, <1>7 DEF Typed

\* FlushCancelled leaves every variable well typed.
LEMMA TypeFlushCancelled ==
  ASSUME Typed, NEW f \in Flushers, FlushCancelled(f)
  PROVE  Typed'
  <1> USE DEF Typed, FlushCancelled, Leave
  <1>1. TypeLife'  BY DEF TypeLife, life
  <1>2. TypeRadio'  BY DEF TypeRadio, radio
  <1>3. TypeRows'  BY DEF TypeRows, rows, Msgs
  <1>4. TypeSend'  BY DEF TypeSend, sender, SendBusy, Msgs, TypeLife
  <1>5. TypeFlush'  BY DEF TypeFlush, flush, FlushHolds, FlushBusy, Msgs, TypeLife
  <1>6. TypeQueue'  BY QueueType DEF TypeQueue, Tasks
  <1>7. TypeHist'  BY DEF TypeHist, hist, Inc, Msgs
  <1>8. QED  BY <1>1, <1>2, <1>3, <1>4, <1>5, <1>6, <1>7 DEF Typed

\* Connect leaves every variable well typed.
LEMMA TypeConnect ==
  ASSUME Typed, NEW g \in Gateways, Connect(g)
  PROVE  Typed'
  <1> USE DEF Typed, Connect, StartFlush
  <1>1. TypeLife'  BY DEF TypeLife, life
  <1>2. TypeRadio'  BY DEF TypeRadio, radio
  <1>3. TypeRows'  BY DEF TypeRows, rows, Msgs
  <1>4. TypeSend'  BY DEF TypeSend, sender, SendBusy, Msgs, TypeLife
  <1>5. TypeFlush'  BY DEF TypeFlush, flush, FlushHolds, FlushBusy, Msgs, TypeLife
  <1>6. TypeQueue'  BY QueueType DEF TypeQueue, Tasks
  <1>7. TypeHist'  BY DEF TypeHist, hist, Inc, Msgs
  <1>8. QED  BY <1>1, <1>2, <1>3, <1>4, <1>5, <1>6, <1>7 DEF Typed

\* StatusCallback leaves every variable well typed.
LEMMA TypeStatusCallback ==
  ASSUME Typed, NEW g \in Gateways, StatusCallback(g)
  PROVE  Typed'
  <1> USE DEF Typed, StatusCallback, StartFlush
  <1>1. TypeLife'  BY DEF TypeLife, life
  <1>2. TypeRadio'  BY DEF TypeRadio, radio
  <1>3. TypeRows'  BY DEF TypeRows, rows, Msgs
  <1>4. TypeSend'  BY DEF TypeSend, sender, SendBusy, Msgs, TypeLife
  <1>5. TypeFlush'  BY DEF TypeFlush, flush, FlushHolds, FlushBusy, Msgs, TypeLife
  <1>6. TypeQueue'  BY QueueType DEF TypeQueue, Tasks
  <1>7. TypeHist'  BY DEF TypeHist, hist, Inc, Msgs
  <1>8. QED  BY <1>1, <1>2, <1>3, <1>4, <1>5, <1>6, <1>7 DEF Typed

\* Disconnect leaves every variable well typed.
LEMMA TypeDisconnect ==
  ASSUME Typed, NEW g \in Gateways, Disconnect(g)
  PROVE  Typed'
  <1> USE DEF Typed, Disconnect
  <1>1. TypeLife'  BY DEF TypeLife, life
  <1>2. TypeRadio'  BY DEF TypeRadio, radio
  <1>3. TypeRows'  BY DEF TypeRows, rows, Msgs
  <1>4. TypeSend'  BY DEF TypeSend, sender, SendBusy, Msgs, TypeLife
  <1>5. TypeFlush'  BY DEF TypeFlush, flush, FlushHolds, FlushBusy, Msgs, TypeLife
  <1>6. TypeQueue'  BY QueueType DEF TypeQueue, Tasks
  <1>7. TypeHist'  BY DEF TypeHist, hist, Inc, Msgs
  <1>8. QED  BY <1>1, <1>2, <1>3, <1>4, <1>5, <1>6, <1>7 DEF Typed

\* StartupFlush leaves every variable well typed.
LEMMA TypeStartupFlush ==
  ASSUME Typed, StartupFlush
  PROVE  Typed'
  <1> USE DEF Typed, StartupFlush, StartFlush
  <1>1. TypeLife'  BY DEF TypeLife, life
  <1>2. TypeRadio'  BY DEF TypeRadio, radio
  <1>3. TypeRows'  BY DEF TypeRows, rows, Msgs
  <1>4. TypeSend'  BY DEF TypeSend, sender, SendBusy, Msgs, TypeLife
  <1>5. TypeFlush'  BY DEF TypeFlush, flush, FlushHolds, FlushBusy, Msgs, TypeLife
  <1>6. TypeQueue'  BY QueueType DEF TypeQueue, Tasks
  <1>7. TypeHist'  BY DEF TypeHist, hist, Inc, Msgs
  <1>8. QED  BY <1>1, <1>2, <1>3, <1>4, <1>5, <1>6, <1>7 DEF Typed

\* IdentityChange leaves every variable well typed.
LEMMA TypeIdentityChange ==
  ASSUME Typed, IdentityChange
  PROVE  Typed'
  <1> USE DEF Typed, IdentityChange
  <1>1. TypeLife'  BY DEF TypeLife, life
  <1>2. TypeRadio'  BY DEF TypeRadio, radio
  <1>3. TypeRows'  BY DEF TypeRows, rows, Msgs
  <1>4. TypeSend'  BY DEF TypeSend, sender, SendBusy, Msgs, TypeLife
  <1>5. TypeFlush'  BY DEF TypeFlush, flush, FlushHolds, FlushBusy, Msgs, TypeLife
  <1>6. TypeQueue'  BY QueueType DEF TypeQueue, Tasks
  <1>7. TypeHist'  BY DEF TypeHist, hist, Inc, Msgs
  <1>8. QED  BY <1>1, <1>2, <1>3, <1>4, <1>5, <1>6, <1>7 DEF Typed

\* Deleting rows leaves the rows and the history well typed.
LEMMA RemoveType ==
  ASSUME TypeRows, TypeHist, NEW S, NEW before, Remove(S, before)
  PROVE  /\ status' \in [Msgs -> {"absent", "queued", "sent", "blocked"}]
         /\ deleted' \in [Msgs -> {"no", "held", "late", "idle"}]
  BY DEF TypeRows, TypeHist, Remove

\* So does a statement of a deletion, and what is left for the next ones.
LEMMA FirstType ==
  ASSUME Typed, delScan # None, Ready(None), NEW S \in SUBSET Msgs, DeleteFirst(S)
  PROVE  /\ status' \in [Msgs -> {"absent", "queued", "sent", "blocked"}]
         /\ deleted' \in [Msgs -> {"no", "held", "late", "idle"}]
         /\ delScan' \in DeletionState \cup {None}
         /\ TypeQueue'
  <1>t. TypeRows /\ TypeHist /\ TypeQueue
    BY DEF Typed
  <1>1. CASE delScan' = None /\ Resume /\ UNCHANGED <<status, deleted>>
    BY ONLY <1>t, <1>1, Ready(None), QueueType DEF TypeRows, TypeHist, TypeQueue, Tasks
  <1>2. CASE /\ Remove(FirstRows(S), delScan.before)
             /\ delScan' = [delScan EXCEPT !.page = {}, !.rows = S \ FirstRows(S), !.scanning = FALSE]
             /\ Reissue(None)
    <2>1. delScan' \in DeletionState
      BY ONLY <1>t, <1>2, delScan # None, S \in SUBSET Msgs DEF TypeHist, DeletionState
    <2>2. TypeQueue'
      BY ONLY <1>t, <1>2, Ready(None), QueueType DEF TypeQueue, Tasks
    <2>3. QED  BY ONLY <1>t, <1>2, <2>1, <2>2, RemoveType
  <1>3. QED  BY ONLY DeleteFirst(S), <1>1, <1>2 DEF DeleteFirst

\* DeleteAll leaves every variable well typed.
LEMMA TypeDeleteAll ==
  ASSUME Typed, DeleteAll
  PROVE  Typed'
  <1> USE DEF Typed, DeleteAll
  <1>1. TypeLife'  BY DEF TypeLife, life
  <1>2. TypeRadio'  BY DEF TypeRadio, radio
  <1>3. TypeRows'  BY RemoveType DEF TypeRows, rows
  <1>4. TypeSend'  BY DEF TypeSend, sender, SendBusy, Msgs, TypeLife
  <1>5. TypeFlush'  BY DEF TypeFlush, flush, FlushHolds, FlushBusy, Msgs, TypeLife
  <1>6. TypeQueue'  BY QueueType DEF TypeQueue, Tasks
  <1>7. TypeHist'  BY RemoveType DEF TypeHist, hist
  <1>8. QED  BY <1>1, <1>2, <1>3, <1>4, <1>5, <1>6, <1>7 DEF Typed

\* DeleteBegin leaves every variable well typed.
LEMMA TypeDeleteBegin ==
  ASSUME Typed, DeleteBegin
  PROVE  Typed'
  <1> USE DEF Typed, DeleteBegin
  <1>1. TypeLife'  BY DEF TypeLife, life
  <1>2. TypeRadio'  BY DEF TypeRadio, radio
  <1>3. TypeRows'  BY DEF TypeRows, rows, Msgs
  <1>4. TypeSend'  BY DEF TypeSend, sender, SendBusy, Msgs, TypeLife
  <1>5. TypeFlush'  BY DEF TypeFlush, flush, FlushHolds, FlushBusy, Msgs, TypeLife
  <1>6. TypeQueue'  BY QueueType DEF TypeQueue, Tasks
  <1>7. TypeHist'  
    <2>1. Submitted \subseteq Msgs /\ ScanPage(Msgs) \subseteq Msgs
      BY ONLY TRUE DEF Submitted, ScanPage, FirstRows
    <2>2. delScan' \in DeletionState
      BY <2>1 DEF DeletionState
    <2>3. QED  BY <2>2 DEF TypeHist, hist
  <1>8. QED  BY <1>1, <1>2, <1>3, <1>4, <1>5, <1>6, <1>7 DEF Typed

\* DeleteScan leaves every variable well typed.
LEMMA TypeDeleteScan ==
  ASSUME Typed, DeleteScan
  PROVE  Typed'
  <1> DEFINE found == delScan.rows \cup (delScan.page \cap delScan.scope)
  <1>d. delScan # None /\ Ready(None) /\ delScan \in DeletionState /\ found \in SUBSET Msgs
    BY DEF Typed, DeleteScan, TypeHist, DeletionState
  <1>n. \/ /\ \E P \in SUBSET Msgs : delScan' = [delScan EXCEPT !.rows = found, !.page = P]
           /\ Reissue(None)
           /\ UNCHANGED <<status, deleted>>
        \/ DeleteFirst(found)
    BY Zenon DEF DeleteScan, ScanPage, FirstRows
  <1>s. /\ status' \in [Msgs -> {"absent", "queued", "sent", "blocked"}]
        /\ deleted' \in [Msgs -> {"no", "held", "late", "idle"}]
        /\ delScan' \in DeletionState \cup {None}
        /\ TypeQueue'
    <2>1. CASE DeleteFirst(found)
      BY ONLY Typed, <1>d, <2>1, FirstType
    <2>2. CASE /\ \E P \in SUBSET Msgs : delScan' = [delScan EXCEPT !.rows = found, !.page = P]
               /\ Reissue(None)
               /\ UNCHANGED <<status, deleted>>
      <3>1. delScan' \in DeletionState
        BY ONLY <1>d, <2>2 DEF DeletionState
      <3>2. TypeQueue'
        BY ONLY Typed, <1>d, <2>2, QueueType DEF Typed, TypeQueue, Tasks
      <3>3. QED  BY ONLY Typed, <2>2, <3>1, <3>2 DEF Typed, TypeRows, TypeHist
    <2>3. QED  BY ONLY <1>n, <2>1, <2>2
  <1> HIDE DEF found
  <1> USE DEF Typed, DeleteScan
  <1>1. TypeLife'  BY DEF TypeLife, life
  <1>2. TypeRadio'  BY DEF TypeRadio, radio
  <1>3. TypeRows'  BY <1>s DEF TypeRows, rows
  <1>4. TypeSend'  BY DEF TypeSend, sender, SendBusy, Msgs, TypeLife
  <1>5. TypeFlush'  BY DEF TypeFlush, flush, FlushHolds, FlushBusy, Msgs, TypeLife
  <1>6. TypeQueue'  BY <1>s
  <1>7. TypeHist'  BY <1>s DEF TypeHist
  <1>8. QED  BY <1>1, <1>2, <1>3, <1>4, <1>5, <1>6, <1>7 DEF Typed

\* DeleteRows leaves every variable well typed.
LEMMA TypeDeleteRows ==
  ASSUME Typed, DeleteRows
  PROVE  Typed'
  <1>s. /\ status' \in [Msgs -> {"absent", "queued", "sent", "blocked"}]
        /\ deleted' \in [Msgs -> {"no", "held", "late", "idle"}]
        /\ delScan' \in DeletionState \cup {None}
        /\ TypeQueue'
    <2>1. delScan # None /\ Ready(None) /\ delScan.rows \in SUBSET Msgs /\ DeleteFirst(delScan.rows)
      BY DEF Typed, DeleteRows, TypeHist, DeletionState
    <2>2. QED  BY ONLY Typed, <2>1, FirstType
  <1> USE DEF Typed, DeleteRows
  <1>1. TypeLife'  BY DEF TypeLife, life
  <1>2. TypeRadio'  BY DEF TypeRadio, radio
  <1>3. TypeRows'  BY <1>s DEF TypeRows, rows
  <1>4. TypeSend'  BY DEF TypeSend, sender, SendBusy, Msgs, TypeLife
  <1>5. TypeFlush'  BY DEF TypeFlush, flush, FlushHolds, FlushBusy, Msgs, TypeLife
  <1>6. TypeQueue'  BY <1>s
  <1>7. TypeHist'  BY <1>s DEF TypeHist
  <1>8. QED  BY <1>1, <1>2, <1>3, <1>4, <1>5, <1>6, <1>7 DEF Typed

\* BeginReload leaves every variable well typed.
LEMMA TypeBeginReload ==
  ASSUME Typed, BeginReload
  PROVE  Typed'
  <1> USE DEF Typed, BeginReload
  <1>1. TypeLife'  BY DEF TypeLife, life
  <1>2. TypeRadio'  BY DEF TypeRadio, radio
  <1>3. TypeRows'  BY DEF TypeRows, rows, Msgs
  <1>4. TypeSend'  BY DEF TypeSend, sender, SendBusy, Msgs, TypeLife
  <1>5. TypeFlush'  BY DEF TypeFlush, flush, FlushHolds, FlushBusy, Msgs, TypeLife
  <1>6. TypeQueue'  BY QueueType DEF TypeQueue, Tasks
  <1>7. TypeHist'  BY DEF TypeHist, hist, Inc, Msgs
  <1>8. QED  BY <1>1, <1>2, <1>3, <1>4, <1>5, <1>6, <1>7 DEF Typed

\* FinishReload leaves every variable well typed.
LEMMA TypeFinishReload ==
  ASSUME Typed, scenario \in Scenarios, FinishReload
  PROVE  Typed'
  <1> USE DEF Typed, FinishReload
  <1>1. TypeLife'
    <2>1. generation' \in 1..(MaxReloads + 1)  BY DEF TypeLife
    <2>2. ~reloading'  OBVIOUS
    <2>3. suspended' \in BOOLEAN /\ shutting' \in BOOLEAN  BY DEF TypeLife
    <2>4. reloading' \in BOOLEAN /\ startup' \in BOOLEAN  BY DEF TypeLife
    <2>5. QED  BY <2>1, <2>2, <2>3, <2>4, Zenon DEF TypeLife
  <1>2. TypeRadio'  BY ScenarioType DEF TypeRadio, radio
  <1>3. TypeRows'  BY DEF TypeRows, rows, Msgs
  <1>4. TypeSend'  BY DEF TypeSend, sender, SendBusy, Msgs, TypeLife
  <1>5. TypeFlush'  BY DEF TypeFlush, flush, FlushHolds, FlushBusy, Msgs, TypeLife
  <1>6. TypeQueue'  BY QueueType DEF TypeQueue, Tasks
  <1>7. TypeHist'  BY DEF TypeHist, hist, Inc, Msgs
  <1>8. QED  BY <1>1, <1>2, <1>3, <1>4, <1>5, <1>6, <1>7 DEF Typed

\* DeferReload leaves every variable well typed.
LEMMA TypeDeferReload ==
  ASSUME Typed, DeferReload
  PROVE  Typed'
  <1> USE DEF Typed, DeferReload
  <1>1. TypeLife'  BY DEF TypeLife, life
  <1>2. TypeRadio'  BY DEF TypeRadio, radio
  <1>3. TypeRows'  BY DEF TypeRows, rows, Msgs
  <1>4. TypeSend'  BY DEF TypeSend, sender, SendBusy, Msgs, TypeLife
  <1>5. TypeFlush'  BY DEF TypeFlush, flush, FlushHolds, FlushBusy, Msgs, TypeLife
  <1>6. TypeQueue'  BY QueueType DEF TypeQueue, Tasks
  <1>7. TypeHist'  BY DEF TypeHist, hist, Inc, Msgs
  <1>8. QED  BY <1>1, <1>2, <1>3, <1>4, <1>5, <1>6, <1>7 DEF Typed

\* BeginShutdown leaves every variable well typed.
LEMMA TypeBeginShutdown ==
  ASSUME Typed, BeginShutdown
  PROVE  Typed'
  <1> USE DEF Typed, BeginShutdown
  <1>1. TypeLife'  BY DEF TypeLife, life
  <1>2. TypeRadio'  BY DEF TypeRadio, radio
  <1>3. TypeRows'  BY DEF TypeRows, rows, Msgs
  <1>4. TypeSend'  BY DEF TypeSend, sender, SendBusy, Msgs, TypeLife
  <1>5. TypeFlush'  BY DEF TypeFlush, flush, FlushHolds, FlushBusy, Msgs, TypeLife
  <1>6. TypeQueue'  BY QueueType DEF TypeQueue, Tasks
  <1>7. TypeHist'  BY DEF TypeHist, hist, Inc, Msgs
  <1>8. QED  BY <1>1, <1>2, <1>3, <1>4, <1>5, <1>6, <1>7 DEF Typed

\* Restart leaves every variable well typed.
LEMMA TypeRestart ==
  ASSUME Typed, Restart
  PROVE  Typed'
  <1> USE DEF Typed, Restart
  <1>1. TypeLife'
    <2>1. generation' \in 1..(MaxReloads + 1)  BY DEF TypeLife
    <2>2. ~reloading'  OBVIOUS
    <2>3. suspended' \in BOOLEAN /\ shutting' \in BOOLEAN  BY DEF TypeLife
    <2>4. reloading' \in BOOLEAN /\ startup' \in BOOLEAN  BY DEF TypeLife
    <2>5. QED  BY <2>1, <2>2, <2>3, <2>4, Zenon DEF TypeLife
  <1>2. TypeRadio'  BY DEF TypeRadio, radio
  <1>3. TypeRows'  BY DEF TypeRows, rows, Msgs
  <1>4. TypeSend'  BY DEF TypeSend, sender, SendBusy, Msgs, TypeLife
  <1>5. TypeFlush'  BY DEF TypeFlush, flush, FlushHolds, FlushBusy, Msgs, TypeLife
  <1>6. TypeQueue'  BY QueueType DEF TypeQueue, Tasks
  <1>7. TypeHist'  BY DEF TypeHist, hist, Inc, Msgs
  <1>8. QED  BY <1>1, <1>2, <1>3, <1>4, <1>5, <1>6, <1>7 DEF Typed

\* A step that changes nothing keeps the types.
LEMMA TypeStutter ==
  ASSUME Typed, UNCHANGED vars
  PROVE  Typed'
  BY DEF Typed, TypeLife, TypeRadio, TypeRows, TypeSend, TypeFlush, TypeQueue,
         TypeHist, system, vars, life, radio, rows, sender, flush, hist

\* What a behaviour may meet is fixed from its start.
LEMMA ScenarioKept ==
  ASSUME [Next]_vars
  PROVE  scenario' = scenario
  BY DEF Next, SendStep, FlushStep, vars, Submit, SendStored, SendLimited, SendTried,
         SendReturned, SendStatusStored, SendRefreshed, SendCancelled, FlushLock, FlushRead, FlushLimited,
         FlushTried, FlushReturned, FlushStatusStored, FlushCancelled, Connect, StatusCallback, Disconnect,
         StartupFlush, IdentityChange, DeleteAll, DeleteBegin, DeleteScan, DeleteRows, BeginReload,
         FinishReload, DeferReload, BeginShutdown, Restart

\* Every step keeps the types.
LEMMA StepType == TypeOK /\ [Next]_vars => TypeOK'
  <1>0. ASSUME TypeOK, [Next]_vars PROVE (scenario \in Scenarios)'
    BY <1>0, ScenarioKept DEF TypeOK
  <1> SUFFICES ASSUME Typed, scenario \in Scenarios, [Next]_vars PROVE Typed'
    BY <1>0, TypeParts DEF Typed, TypeOK, TypeLife, TypeRadio, TypeRows, TypeSend, TypeFlush,
                     TypeQueue, TypeHist, Tasks
  <1>1. ASSUME NEW m \in Msgs,
            \/ Submit(m)
            \/ SendStored(m)
            \/ SendLimited(m)
            \/ SendTried(m)
            \/ SendReturned(m)
            \/ SendStatusStored(m)
            \/ SendRefreshed(m)
            \/ SendCancelled(m)
      PROVE  Typed'
    BY <1>1, TypeSubmit, TypeSendStored, TypeSendLimited, TypeSendTried, TypeSendReturned, TypeSendStatusStored, TypeSendRefreshed, TypeSendCancelled
  <1>2. ASSUME NEW f \in Flushers,
            \/ FlushLock(f)
            \/ FlushRead(f)
            \/ FlushLimited(f)
            \/ FlushTried(f)
            \/ FlushReturned(f)
            \/ FlushStatusStored(f)
            \/ FlushCancelled(f)
      PROVE  Typed'
    BY <1>2, TypeFlushLock, TypeFlushRead, TypeFlushLimited, TypeFlushTried,
       TypeFlushReturned, TypeFlushStatusStored, TypeFlushCancelled
  <1>3. ASSUME NEW g \in Gateways,
            \/ Connect(g)
            \/ StatusCallback(g)
            \/ Disconnect(g)
      PROVE  Typed'
    BY <1>3, TypeConnect, TypeStatusCallback, TypeDisconnect
  <1>4. ASSUME StartupFlush \/ IdentityChange \/ DeleteAll \/ DeleteBegin
               \/ DeleteScan \/ DeleteRows \/ BeginReload \/ FinishReload \/ DeferReload \/ BeginShutdown \/ Restart
      PROVE  Typed'
    BY <1>4, TypeStartupFlush, TypeIdentityChange, TypeDeleteAll, TypeDeleteBegin,
       TypeDeleteScan, TypeDeleteRows, TypeBeginReload, TypeFinishReload, TypeDeferReload, TypeBeginShutdown, TypeRestart
  <1>5. CASE UNCHANGED vars  BY <1>5, TypeStutter
  <1>6. QED  BY <1>1, <1>2, <1>3, <1>4, <1>5 DEF Next, SendStep, FlushStep

\* Type correctness of every reachable state.
THEOREM TypeCorrect == Spec => []TypeOK
  <1>1. TypeOK /\ [Next]_vars => TypeOK'  BY StepType
  <1>2. QED  BY InitType, <1>1, PTL DEF Spec

-----------------------------------------------------------------------------
(* The inductive invariant behind the safety properties *)

\* A flush task is inside the "async with" exactly when it holds the lock.
LockInv == \A f \in Flushers : fpc[f] \in FlushHolds <=> lock = f

\* Only a submitted message has a row.
RowInv == \A m \in Msgs : spc[m] = "new" => status[m] = "absent"

\* A page holds submitted messages, and a flush only takes in hand a message
\* whose direct send is over (and which therefore never becomes active again).
HandInv ==
  \A f \in Flushers :
    /\ \A m \in fpage[f] : spc[m] # "new"
    /\ fpc[f] \in FlushBusy => fcur[f] \in Msgs /\ spc[fcur[f]] = "done"

\* A call that was put on the air has been counted, and so has a "sent" row.
AirInv ==
  /\ \A m \in Msgs : spc[m] = "aired" => tx[m] > 0
  /\ \A f \in Flushers : fpc[f] = "aired" => tx[fcur[f]] > 0
  /\ SentWasAired

IInv == TypeOK /\ LockInv /\ RowInv /\ HandInv /\ AirInv /\ OldGenerationDrained

\* What the loop over a page may do: take a record that is not being sent
\* directly, or end the page and give up the lock.
Took(f) ==
  /\ \E m \in fpage[f] :
       /\ m \notin Active
       /\ fcur' = [fcur EXCEPT ![f] = m]
       /\ fpage' = [fpage EXCEPT ![f] = {k \in @ : k > m}]
       /\ \/ status' = status /\ fpc' = [fpc EXCEPT ![f] = "limiter"]
          \/ status' = [status EXCEPT ![m] = "blocked"] /\ fpc' = [fpc EXCEPT ![f] = "blocking"]
  /\ lock' = lock /\ fgen' = fgen

Ended(f) ==
  /\ status' = status
  /\ fpage' = [fpage EXCEPT ![f] = {}]
  /\ \E p \in {"idle", "waiting"} : fpc' = [fpc EXCEPT ![f] = p]
  /\ lock' = None \/ (lock' = lock /\ lock # f)
  /\ \E k \in {0, fgen[f]} : fgen' = [fgen EXCEPT ![f] = k]
  /\ \E c : fcur' = [fcur EXCEPT ![f] = c]

\* A flush that leaves its loop has ended: it holds neither record nor lock.
LEMMA LeaveEnds ==
  ASSUME NEW f \in Flushers, Leave(f), status' = status
  PROVE  Ended(f)
  BY DEF Leave, Ended

\* The loop over a page either takes one record no direct send owns, or ends.
LEMMA LoopCases ==
  ASSUME NEW f \in Flushers, TypeFlush, NextRecord(f) \/ PageEnd(f)
  PROVE  Took(f) \/ Ended(f)
  <1>1. ASSUME NEW m \in fpage[f], ~Skipped(f, m) PROVE m \notin Active
    BY <1>1 DEF Skipped
  <1>2. CASE NextRecord(f)  BY <1>1, <1>2 DEF NextRecord, Took
  <1>3. CASE PageEnd(f)
    <2>1. CASE Leave(f)  BY <1>3, <2>1, LeaveEnds DEF PageEnd
    <2>2. CASE ~Leave(f)
      <3>1. /\ status' = status
            /\ fpc' = [fpc EXCEPT ![f] = "waiting"]
            /\ fpage' = [fpage EXCEPT ![f] = {}]
            /\ lock' = None /\ fgen' = fgen
            /\ \E c : fcur' = [fcur EXCEPT ![f] = c]
        BY ONLY <1>3, <2>2, Zenon DEF PageEnd
      <3>2. fgen' = [fgen EXCEPT ![f] = fgen[f]]  BY <3>1 DEF TypeFlush
      <3>3. QED  BY ONLY <3>1, <3>2 DEF Ended
    <2>3. QED  BY <2>1, <2>2
  <1>4. QED  BY <1>2, <1>3

\* The two steps that run the loop leave everything else alone.
LEMMA ReadCases ==
  ASSUME NEW f \in Flushers, TypeFlush, FlushRead(f)
  PROVE  /\ Took(f) \/ Ended(f)
         /\ fpc[f] \in FlushHolds
         /\ UNCHANGED <<generation, spc, sgen, tx>>
  <1>1. fpc[f] \in FlushHolds  BY DEF FlushRead, FlushHolds
  <1>2. UNCHANGED <<generation, spc, sgen, tx>>  BY DEF FlushRead, life, sender, hist
  <1>3. \/ Leave(f) /\ UNCHANGED status
        \/ NextRecord(f) \/ PageEnd(f)
    BY DEF FlushRead
  <1>4. QED  BY <1>1, <1>2, <1>3, LeaveEnds, LoopCases

\* So does the loop after a status write, which changes no direct send.
LEMMA StoredCases ==
  ASSUME NEW f \in Flushers, TypeFlush, FlushStatusStored(f)
  PROVE  /\ Took(f) \/ Ended(f)
         /\ fpc[f] \in FlushHolds
         /\ UNCHANGED <<generation, spc, sgen, tx>>
  <1>1. fpc[f] \in FlushHolds  BY DEF FlushStatusStored, FlushHolds, FlushBusy
  <1>2. UNCHANGED <<generation, spc, sgen, tx>>  BY DEF FlushStatusStored, life, sender
  <1>3. \/ Leave(f) /\ UNCHANGED status
        \/ NextRecord(f) \/ PageEnd(f)
    BY DEF FlushStatusStored
  <1>4. QED  BY <1>1, <1>2, <1>3, LeaveEnds, LoopCases

\* The loop keeps the lock with the one flush that has a page or a record.
LEMMA LoopLock ==
  ASSUME NEW f \in Flushers, TypeFlush, LockInv, fpc[f] \in FlushHolds,
         Took(f) \/ Ended(f)
  PROVE  LockInv'
  <1>1. CASE Took(f)
    <2>1. fpc'[f] \in FlushHolds  BY <1>1 DEF Took, TypeFlush, FlushHolds, FlushBusy
    <2>2. \A k \in Flushers : k # f => fpc'[k] = fpc[k]  BY <1>1 DEF Took, TypeFlush
    <2>3. QED  BY <1>1, <2>1, <2>2 DEF Took, LockInv
  <1>2. CASE Ended(f)
    <2>1. fpc'[f] \notin FlushHolds  BY <1>2 DEF Ended, TypeFlush, FlushHolds, FlushBusy
    <2>2. \A k \in Flushers : k # f => fpc'[k] = fpc[k]  BY <1>2 DEF Ended, TypeFlush
    <2>3. lock = f /\ lock' = None  BY <1>2 DEF Ended, LockInv
    <2>4. QED  BY <2>1, <2>2, <2>3 DEF LockInv
  <1>3. QED  BY <1>1, <1>2

\* The loop never takes a record that a direct send has in hand.
LEMMA LoopHand ==
  ASSUME NEW f \in Flushers, TypeFlush, TypeSend, HandInv, UNCHANGED spc,
         Took(f) \/ Ended(f)
  PROVE  HandInv'
  <1>1. CASE Took(f)
    <2>1. PICK m \in fpage[f] :
            /\ m \notin Active
            /\ fcur' = [fcur EXCEPT ![f] = m]
            /\ fpage' = [fpage EXCEPT ![f] = {k \in @ : k > m}]
      BY <1>1 DEF Took
    <2>2. m \in Msgs /\ spc[m] = "done"
      BY <2>1 DEF TypeFlush, TypeSend, HandInv, Active
    <2>3. \A k \in Flushers : k # f => fpc'[k] = fpc[k]  BY <1>1 DEF Took, TypeFlush
    <2>4. QED  BY <2>1, <2>2, <2>3 DEF TypeFlush, HandInv
  <1>2. CASE Ended(f)
    <2>1. fpc'[f] \notin FlushBusy  BY <1>2 DEF Ended, TypeFlush, FlushBusy
    <2>2. \A k \in Flushers : k # f => fpc'[k] = fpc[k] /\ fcur'[k] = fcur[k]
      BY <1>2 DEF Ended, TypeFlush
    <2>3. fpage' = [fpage EXCEPT ![f] = {}]  BY <1>2 DEF Ended
    <2>4. QED  BY <2>1, <2>2, <2>3 DEF TypeFlush, HandInv
  <1>3. QED  BY <1>1, <1>2

\* The loop puts nothing on the air and forgets nothing that went on the air.
LEMMA LoopAir ==
  ASSUME NEW f \in Flushers, TypeFlush, TypeRows, AirInv, UNCHANGED <<spc, tx>>,
         Took(f) \/ Ended(f)
  PROVE  AirInv'
  <1>1. \A k \in Flushers : fpc'[k] = "aired" => fpc[k] = "aired" /\ fcur'[k] = fcur[k]
    BY DEF Took, Ended, TypeFlush
  <1>2. \A m \in Msgs : status'[m] = "sent" => status[m] = "sent"
    BY DEF Took, Ended, TypeRows, TypeFlush
  <1>3. QED  BY <1>1, <1>2 DEF AirInv, SentWasAired

\* The loop stays in the generation the flush captured.
LEMMA LoopGeneration ==
  ASSUME NEW f \in Flushers, TypeFlush, OldGenerationDrained, fpc[f] \in FlushHolds,
         UNCHANGED <<generation, spc, sgen>>, Took(f) \/ Ended(f)
  PROVE  OldGenerationDrained'
  <1>1. \A k \in Flushers :
          fpc'[k] \in FlushHolds => fpc[k] \in FlushHolds /\ fgen'[k] = fgen[k]
    <2>1. CASE Took(f)
      <3>1. \A k \in Flushers : k # f => fpc'[k] = fpc[k]  BY <2>1 DEF Took, TypeFlush
      <3>2. QED  BY <2>1, <3>1 DEF Took
    <2>2. CASE Ended(f)  BY <2>2 DEF Ended, TypeFlush, FlushHolds, FlushBusy
    <2>3. QED  BY <2>1, <2>2
  <1>2. QED  BY <1>1 DEF OldGenerationDrained

\* The inductive invariant holds before the first send.
LEMMA InitIInv == Init => IInv
  <1> SUFFICES ASSUME Init PROVE IInv
    OBVIOUS
  <1>1. TypeOK  BY InitType
  <1>2. LockInv  BY DEF Init, LockInv, FlushHolds, FlushBusy
  <1>3. RowInv  BY DEF Init, RowInv
  <1>4. HandInv  BY DEF Init, HandInv, FlushBusy
  <1>5. AirInv  BY DEF Init, AirInv, SentWasAired
  <1>6. OldGenerationDrained
    BY DEF Init, OldGenerationDrained, SendBusy, FlushHolds, FlushBusy
  <1>7. QED  BY <1>1, <1>2, <1>3, <1>4, <1>5, <1>6 DEF IInv

\* A history deletion removes rows and moves no other task.
LEMMA DeletionTakes ==
  ASSUME DeleteAll \/ DeleteBegin \/ DeleteScan \/ DeleteRows
  PROVE  /\ UNCHANGED <<generation, spc, sgen, sgw, fpc, fgen, fpage, fcur, lock, tx, sentEvents>>
         /\ \A m \in Msgs : status'[m] \in {status[m], "absent"}
  <1>1. UNCHANGED <<generation, spc, sgen, sgw, fpc, fgen, fpage, fcur, lock, tx, sentEvents>>
    BY DEF DeleteAll, DeleteBegin, DeleteScan, DeleteRows, life, sender, flush, hist
  <1>2. status' = status \/ \E S, before : Remove(S, before)
    BY DEF DeleteAll, DeleteBegin, DeleteScan, DeleteRows, DeleteFirst
  <1>3. QED  BY ONLY <1>1, <1>2 DEF Remove

\* Every step leaves the outbox lock with the flush that has a page (_outbox_lock).
LEMMA StepLock == TypeOK /\ LockInv /\ [Next]_vars => LockInv'
  <1> SUFFICES ASSUME TypeOK, LockInv, [Next]_vars PROVE LockInv'
    OBVIOUS
  <1> USE DEF TypeOK, LockInv, FlushHolds, FlushBusy, life, radio, rows, sender, flush, hist, system, vars
  <1>1. ASSUME NEW m \in Msgs, Submit(m) PROVE LockInv'
    BY <1>1 DEF Submit
  <1>2. ASSUME NEW m \in Msgs, SendStored(m) PROVE LockInv'
    BY <1>2 DEF SendStored
  <1>3. ASSUME NEW m \in Msgs, SendLimited(m) PROVE LockInv'
    BY <1>3 DEF SendLimited
  <1>21. ASSUME NEW m \in Msgs, SendTried(m) PROVE LockInv'
    BY <1>21 DEF SendTried
  <1>4. ASSUME NEW m \in Msgs, SendReturned(m) PROVE LockInv'
    BY <1>4 DEF SendReturned, Succeeded
  <1>5. ASSUME NEW m \in Msgs, SendStatusStored(m) PROVE LockInv'
    BY <1>5 DEF SendStatusStored
  <1>6. ASSUME NEW m \in Msgs, SendRefreshed(m) PROVE LockInv'
    BY <1>6 DEF SendRefreshed
  <1>7. ASSUME NEW m \in Msgs, SendCancelled(m) PROVE LockInv'
    BY <1>7 DEF SendCancelled
  <1>8. ASSUME NEW f \in Flushers, FlushLock(f) PROVE LockInv'
    BY <1>8 DEF FlushLock, Leave, LockFree
  <1>9. ASSUME NEW f \in Flushers, FlushRead(f) PROVE LockInv'
    BY ONLY <1>9, TypeParts, TypeOK, LockInv, ReadCases, LoopLock
  <1>10. ASSUME NEW f \in Flushers, FlushLimited(f) PROVE LockInv'
    BY <1>10 DEF FlushLimited, Leave
  <1>22. ASSUME NEW f \in Flushers, FlushTried(f) PROVE LockInv'
    BY <1>22 DEF FlushTried
  <1>11. ASSUME NEW f \in Flushers, FlushReturned(f) PROVE LockInv'
    BY <1>11 DEF FlushReturned, Leave, Succeeded
  <1>12. ASSUME NEW f \in Flushers, FlushStatusStored(f) PROVE LockInv'
    BY ONLY <1>12, TypeParts, TypeOK, LockInv, StoredCases, LoopLock
  <1>13. ASSUME NEW f \in Flushers, FlushCancelled(f) PROVE LockInv'
    BY <1>13 DEF FlushCancelled, Leave
  <1>14. ASSUME NEW g \in Gateways, Connect(g) \/ StatusCallback(g) \/ Disconnect(g) PROVE LockInv'
    BY <1>14 DEF Connect, StatusCallback, Disconnect, StartFlush
  <1>15. ASSUME StartupFlush \/ IdentityChange PROVE LockInv'
    BY <1>15 DEF StartupFlush, IdentityChange, StartFlush
  <1>16. ASSUME DeleteAll \/ DeleteBegin \/ DeleteScan \/ DeleteRows PROVE LockInv'
    BY ONLY <1>16, LockInv, DeletionTakes DEF LockInv, flush, sender
  <1>17. ASSUME BeginReload \/ FinishReload \/ DeferReload PROVE LockInv'
    BY <1>17 DEF BeginReload, FinishReload, DeferReload
  <1>18. ASSUME BeginShutdown \/ Restart PROVE LockInv'
    BY <1>18 DEF BeginShutdown, Restart
  <1>19. CASE UNCHANGED vars  BY <1>19
  <1>20. QED
    BY <1>1, <1>2, <1>3, <1>4, <1>5, <1>6, <1>7, <1>8, <1>9, <1>10, <1>11, <1>12, <1>13, <1>14, <1>15, <1>16, <1>17, <1>18, <1>19,
       <1>21, <1>22 DEF Next, SendStep, FlushStep

\* A message that was not submitted has no row, after every step.
LEMMA StepRow == TypeOK /\ RowInv /\ HandInv /\ [Next]_vars => RowInv'
  <1> SUFFICES ASSUME TypeOK, RowInv, HandInv, [Next]_vars PROVE RowInv'
    OBVIOUS
  <1> USE DEF TypeOK, RowInv, HandInv, SendBusy, FlushBusy, Msgs, life, radio, rows, sender, flush, hist, system, vars
  <1>1. ASSUME NEW m \in Msgs, Submit(m) PROVE RowInv'
    BY <1>1 DEF Submit
  <1>2. ASSUME NEW m \in Msgs, SendStored(m) PROVE RowInv'
    BY <1>2 DEF SendStored
  <1>3. ASSUME NEW m \in Msgs, SendLimited(m) PROVE RowInv'
    <2>1. \A k \in Msgs : k # m => spc'[k] = spc[k] /\ status'[k] = status[k]
      BY ONLY <1>3, TypeParts, TypeOK DEF SendLimited, TypeRows, TypeSend
    <2>2. spc'[m] # "new"
      BY ONLY <1>3, TypeParts, TypeOK DEF SendLimited, TypeSend
    <2>3. QED  BY ONLY <2>1, <2>2, RowInv DEF RowInv
  <1>21. ASSUME NEW m \in Msgs, SendTried(m) PROVE RowInv'
    <2>1. status' = status /\ \A k \in Msgs : spc'[k] = "new" => spc[k] = "new"
      BY ONLY <1>21, TypeParts, TypeOK DEF SendTried, TypeSend
    <2>2. QED  BY ONLY <2>1, RowInv DEF RowInv
  <1>4. ASSUME NEW m \in Msgs, SendReturned(m) PROVE RowInv'
    <2>1. \A k \in Msgs : k # m => spc'[k] = spc[k] /\ status'[k] = status[k]
      BY ONLY <1>4, TypeParts, TypeOK DEF SendReturned, TypeRows, TypeSend
    <2>2. spc'[m] # "new"
      BY ONLY <1>4, TypeParts, TypeOK DEF SendReturned, TypeSend
    <2>3. QED  BY ONLY <2>1, <2>2, RowInv DEF RowInv
  <1>5. ASSUME NEW m \in Msgs, SendStatusStored(m) PROVE RowInv'
    BY <1>5 DEF SendStatusStored
  <1>6. ASSUME NEW m \in Msgs, SendRefreshed(m) PROVE RowInv'
    BY <1>6 DEF SendRefreshed
  <1>7. ASSUME NEW m \in Msgs, SendCancelled(m) PROVE RowInv'
    BY <1>7 DEF SendCancelled
  <1>8. ASSUME NEW f \in Flushers, FlushLock(f) PROVE RowInv'
    BY <1>8 DEF FlushLock, Leave
  <1>9. ASSUME NEW f \in Flushers, FlushRead(f) PROVE RowInv'
    BY <1>9 DEF FlushRead, Leave, NextRecord, PageEnd
  <1>10. ASSUME NEW f \in Flushers, FlushLimited(f) PROVE RowInv'
    BY <1>10 DEF FlushLimited, Leave
  <1>22. ASSUME NEW f \in Flushers, FlushTried(f) PROVE RowInv'
    BY <1>22 DEF FlushTried
  <1>11. ASSUME NEW f \in Flushers, FlushReturned(f) PROVE RowInv'
    BY <1>11 DEF FlushReturned, Leave, Succeeded
  <1>12. ASSUME NEW f \in Flushers, FlushStatusStored(f) PROVE RowInv'
    BY <1>12 DEF FlushStatusStored, Leave, NextRecord, PageEnd
  <1>13. ASSUME NEW f \in Flushers, FlushCancelled(f) PROVE RowInv'
    BY <1>13 DEF FlushCancelled, Leave
  <1>14. ASSUME NEW g \in Gateways, Connect(g) \/ StatusCallback(g) \/ Disconnect(g) PROVE RowInv'
    BY <1>14 DEF Connect, StatusCallback, Disconnect, StartFlush
  <1>15. ASSUME StartupFlush \/ IdentityChange PROVE RowInv'
    BY <1>15 DEF StartupFlush, IdentityChange, StartFlush
  <1>16. ASSUME DeleteAll \/ DeleteBegin \/ DeleteScan \/ DeleteRows PROVE RowInv'
    BY ONLY <1>16, RowInv, DeletionTakes DEF RowInv
  <1>17. ASSUME BeginReload \/ FinishReload \/ DeferReload PROVE RowInv'
    BY <1>17 DEF BeginReload, FinishReload, DeferReload
  <1>18. ASSUME BeginShutdown \/ Restart PROVE RowInv'
    BY <1>18 DEF BeginShutdown, Restart
  <1>19. CASE UNCHANGED vars  BY <1>19
  <1>20. QED
    BY <1>1, <1>2, <1>3, <1>4, <1>5, <1>6, <1>7, <1>8, <1>9, <1>10, <1>11, <1>12, <1>13, <1>14, <1>15, <1>16, <1>17, <1>18, <1>19,
       <1>21, <1>22 DEF Next, SendStep, FlushStep

\* A step of a direct send moves a send that is under way, and no flush.
LEMMA SendTakes ==
  ASSUME TypeOK, NEW m \in Msgs, SendStep(m)
  PROVE  /\ \A k \in Msgs : IF k = m THEN spc'[k] # "new" ELSE spc'[k] = spc[k]
         /\ spc[m] \in SendBusy
         /\ UNCHANGED flush
  <1>1. \A k \in Msgs : k # m => spc'[k] = spc[k]
    BY ONLY SendStep(m), TypeParts, TypeOK
       DEF SendStep, SendStored, SendLimited, SendTried, SendReturned, SendStatusStored,
           SendRefreshed,
           TypeSend
  <1>2. spc'[m] # "new"
    BY ONLY SendStep(m), TypeParts, TypeOK
       DEF SendStep, SendStored, SendLimited, SendTried, SendReturned, SendStatusStored,
           SendRefreshed,
           TypeSend
  <1>3. spc[m] \in SendBusy
    BY ONLY SendStep(m)
       DEF SendStep, SendStored, SendLimited, SendTried, SendReturned, SendStatusStored,
           SendRefreshed,
           SendBusy
  <1>4. UNCHANGED flush
    BY ONLY SendStep(m)
       DEF SendStep, SendStored, SendLimited, SendTried, SendReturned, SendStatusStored,
           SendRefreshed
  <1>5. QED  BY ONLY <1>1, <1>2, <1>3, <1>4

\* It takes no record out of the hands of a flush.
LEMMA SendHand ==
  ASSUME TypeOK, HandInv, NEW m \in Msgs, SendStep(m)
  PROVE  HandInv'
  <1>1. /\ \A k \in Msgs : IF k = m THEN spc'[k] # "new" ELSE spc'[k] = spc[k]
        /\ spc[m] \in SendBusy /\ UNCHANGED flush
    BY ONLY SendTakes, TypeOK, SendStep(m), m \in Msgs
  <1>2. UNCHANGED <<fpc, fcur, fpage>>
    BY ONLY <1>1 DEF flush
  <1>3. spc[m] # "done"
    BY ONLY <1>1 DEF SendBusy
  <1>4. \A f \in Flushers : \A k \in fpage[f] : k \in Msgs
    BY ONLY TypeParts, TypeOK DEF TypeFlush
  <1>5. QED  BY ONLY HandInv, <1>1, <1>2, <1>3, <1>4 DEF HandInv

\* Every step keeps flushes and direct sends apart (_active_send_message_ids).
LEMMA StepHand == TypeOK /\ RowInv /\ HandInv /\ [Next]_vars => HandInv'
  <1> SUFFICES ASSUME TypeOK, RowInv, HandInv, [Next]_vars PROVE HandInv'
    OBVIOUS
  <1> USE DEF TypeOK, RowInv, HandInv, SendBusy, FlushBusy, Msgs, life, radio, rows, sender, flush, hist, system, vars
  <1>1. ASSUME NEW m \in Msgs, Submit(m) PROVE HandInv'
    BY <1>1 DEF Submit
  <1>2. ASSUME NEW m \in Msgs, SendStored(m) PROVE HandInv'
    BY ONLY TypeOK, HandInv, <1>2, SendHand DEF SendStep
  <1>3. ASSUME NEW m \in Msgs, SendLimited(m) PROVE HandInv'
    BY ONLY TypeOK, HandInv, <1>3, SendHand DEF SendStep
  <1>21. ASSUME NEW m \in Msgs, SendTried(m) PROVE HandInv'
    BY ONLY TypeOK, HandInv, <1>21, SendHand DEF SendStep
  <1>4. ASSUME NEW m \in Msgs, SendReturned(m) PROVE HandInv'
    BY ONLY TypeOK, HandInv, <1>4, SendHand DEF SendStep
  <1>5. ASSUME NEW m \in Msgs, SendStatusStored(m) PROVE HandInv'
    BY ONLY TypeOK, HandInv, <1>5, SendHand DEF SendStep
  <1>6. ASSUME NEW m \in Msgs, SendRefreshed(m) PROVE HandInv'
    BY ONLY TypeOK, HandInv, <1>6, SendHand DEF SendStep
  <1>7. ASSUME NEW m \in Msgs, SendCancelled(m) PROVE HandInv'
    BY <1>7 DEF SendCancelled
  <1>8. ASSUME NEW f \in Flushers, FlushLock(f) PROVE HandInv'
    <2>1. \A k \in Flushers : fpc'[k] \in FlushBusy => fpc[k] \in FlushBusy /\ fcur'[k] = fcur[k]
      BY <1>8 DEF FlushLock, Leave
    <2>2. Page(fcur[f]) \subseteq {m \in Msgs : status[m] = "queued"}
      BY ONLY TRUE DEF Page, QueuedAfter
    <2>3. \A k \in Flushers : \A m \in fpage'[k] : m \in fpage[k] \/ (m \in Msgs /\ status[m] = "queued")
      <3>1. fpage' = [fpage EXCEPT ![f] = {}] \/ fpage' = [fpage EXCEPT ![f] = Page(fcur[f])]
        BY ONLY <1>8 DEF FlushLock, Leave
      <3>2. QED  BY ONLY <2>2, <3>1, TypeParts, TypeOK DEF TypeFlush
    <2>4. spc' = spc  BY <1>8 DEF FlushLock
    <2>5. QED  BY ONLY <2>1, <2>3, <2>4, HandInv, RowInv DEF HandInv, RowInv
  <1>9. ASSUME NEW f \in Flushers, FlushRead(f) PROVE HandInv'
    BY ONLY <1>9, TypeParts, TypeOK, HandInv, ReadCases, LoopHand
  <1>10. ASSUME NEW f \in Flushers, FlushLimited(f) PROVE HandInv'
    <2>0. /\ \A k \in Flushers : k # f => fpc'[k] = fpc[k] /\ fcur'[k] = fcur[k]
          /\ fpc[f] \in FlushBusy
      BY ONLY <1>10, TypeParts, TypeOK DEF FlushLimited, Leave, TypeFlush, FlushBusy
    <2>5. fpc'[f] \in FlushBusy => fcur'[f] = fcur[f]
      <3>1. CASE Leave(f)
        BY ONLY <3>1, TypeParts, TypeOK, f \in Flushers DEF Leave, TypeFlush, FlushBusy
      <3>2. CASE ~Leave(f)
        BY ONLY <1>10, <3>2 DEF FlushLimited
      <3>3. QED  BY ONLY <3>1, <3>2
    <2>1. \A k \in Flushers : fpc'[k] \in FlushBusy => fpc[k] \in FlushBusy /\ fcur'[k] = fcur[k]
      BY ONLY <2>0, <2>5
    <2>2. \A k \in Flushers : fpage'[k] \subseteq fpage[k]
      BY ONLY <1>10, TypeParts, TypeOK DEF FlushLimited, Leave, TypeFlush
    <2>3. spc' = spc  BY <1>10 DEF FlushLimited
    <2>4. QED  BY ONLY <2>1, <2>2, <2>3, HandInv DEF HandInv
  <1>22. ASSUME NEW f \in Flushers, FlushTried(f) PROVE HandInv'
    <2>1. UNCHANGED <<spc, fpage, fcur>>
      BY ONLY <1>22 DEF FlushTried, sender
    <2>2. \A k \in Flushers : fpc'[k] \in FlushBusy => fpc[k] \in FlushBusy
      BY ONLY <1>22, TypeParts, TypeOK DEF FlushTried, TypeFlush, FlushBusy
    <2>3. QED  BY ONLY <2>1, <2>2, HandInv DEF HandInv
  <1>11. ASSUME NEW f \in Flushers, FlushReturned(f) PROVE HandInv'
    <2>1. \A k \in Flushers : fpc'[k] \in FlushBusy => fpc[k] \in FlushBusy /\ fcur'[k] = fcur[k]
      BY ONLY <1>11, TypeParts, TypeOK DEF FlushReturned, Leave, TypeFlush, FlushBusy
    <2>2. \A k \in Flushers : fpage'[k] \subseteq fpage[k]
      BY ONLY <1>11, TypeParts, TypeOK DEF FlushReturned, Leave, TypeFlush
    <2>3. spc' = spc  BY ONLY <1>11 DEF FlushReturned, sender
    <2>4. QED  BY ONLY <2>1, <2>2, <2>3, HandInv DEF HandInv
  <1>12. ASSUME NEW f \in Flushers, FlushStatusStored(f) PROVE HandInv'
    BY ONLY <1>12, TypeParts, TypeOK, HandInv, StoredCases, LoopHand
  <1>13. ASSUME NEW f \in Flushers, FlushCancelled(f) PROVE HandInv'
    BY <1>13 DEF FlushCancelled, Leave
  <1>14. ASSUME NEW g \in Gateways, Connect(g) \/ StatusCallback(g) \/ Disconnect(g) PROVE HandInv'
    BY <1>14 DEF Connect, StatusCallback, Disconnect, StartFlush
  <1>15. ASSUME StartupFlush \/ IdentityChange PROVE HandInv'
    BY <1>15 DEF StartupFlush, IdentityChange, StartFlush
  <1>16. ASSUME DeleteAll \/ DeleteBegin \/ DeleteScan \/ DeleteRows PROVE HandInv'
    BY ONLY <1>16, HandInv, DeletionTakes DEF HandInv
  <1>17. ASSUME BeginReload \/ FinishReload \/ DeferReload PROVE HandInv'
    BY <1>17 DEF BeginReload, FinishReload, DeferReload
  <1>18. ASSUME BeginShutdown \/ Restart PROVE HandInv'
    <2>1. CASE BeginShutdown
      BY ONLY <2>1, HandInv DEF BeginShutdown, HandInv, sender, flush
    <2>2. CASE Restart
      <3>1. \A f \in Flushers : fpage'[f] = {} /\ fpc'[f] = "idle"
        BY ONLY <2>2 DEF Restart
      <3>2. QED  BY ONLY <3>1 DEF HandInv, FlushBusy
    <2>3. QED  BY ONLY <1>18, <2>1, <2>2
  <1>19. CASE UNCHANGED vars  BY <1>19
  <1>20. QED
    BY <1>1, <1>2, <1>3, <1>4, <1>5, <1>6, <1>7, <1>8, <1>9, <1>10, <1>11, <1>12, <1>13, <1>14, <1>15, <1>16, <1>17, <1>18, <1>19,
       <1>21, <1>22 DEF Next, SendStep, FlushStep

\* Counting a transmission never brings a count back to zero.
LEMMA IncTx ==
  ASSUME TypeHist, NEW m \in Msgs
  PROVE  tx' = tx \/ tx' = [tx EXCEPT ![m] = Inc(tx[m])]
           => /\ \A k \in Msgs : tx[k] > 0 => tx'[k] > 0
              /\ tx' = [tx EXCEPT ![m] = Inc(tx[m])] => tx'[m] > 0
  <1>1. Inc(tx[m]) > 0  BY DEF TypeHist, Inc
  <1>2. QED  BY ONLY <1>1, TypeHist DEF TypeHist

\* Every step marks a row as sent only after a provider accepted it.
LEMMA StepAir == TypeOK /\ RowInv /\ HandInv /\ AirInv /\ [Next]_vars => AirInv'
  <1> SUFFICES ASSUME TypeOK, RowInv, HandInv, AirInv, [Next]_vars PROVE AirInv'
    OBVIOUS
  <1> USE DEF TypeOK, RowInv, HandInv, AirInv, SendBusy, FlushBusy, Msgs, SentWasAired, life, radio, rows, sender, flush, hist, system, vars
  <1>1. ASSUME NEW m \in Msgs, Submit(m) PROVE AirInv'
    BY <1>1 DEF Submit
  <1>2. ASSUME NEW m \in Msgs, SendStored(m) PROVE AirInv'
    BY <1>2 DEF SendStored
  <1>3. ASSUME NEW m \in Msgs, SendLimited(m) PROVE AirInv'
    <2>1. UNCHANGED <<tx, fpc, fcur>>  BY ONLY <1>3 DEF SendLimited, hist, flush
    <2>2. \A k \in Msgs : spc'[k] = "aired" => spc[k] = "aired"
      BY ONLY <1>3, TypeParts, TypeOK DEF SendLimited, TypeSend
    <2>3. \A k \in Msgs : status'[k] = "sent" => status[k] = "sent"
      BY ONLY <1>3, TypeParts, TypeOK DEF SendLimited, TypeRows
    <2>4. QED  BY ONLY <2>1, <2>2, <2>3, AirInv DEF AirInv, SentWasAired
  <1>21. ASSUME NEW m \in Msgs, SendTried(m) PROVE AirInv'
    <2>0. tx' = tx \/ tx' = [tx EXCEPT ![m] = Inc(@)]
      BY ONLY <1>21, TypeParts, TypeOK, TriedCounts DEF SendTried, Aired
    <2>1. \A k \in Msgs : tx[k] > 0 => tx'[k] > 0
      BY ONLY <2>0, IncTx, TypeParts, TypeOK
    <2>2. \A k \in Msgs : spc'[k] = "aired" => spc[k] = "aired" \/ tx'[k] > 0
      <3>1. \A k \in Msgs : k # m => spc'[k] = spc[k]
        BY ONLY <1>21, TypeParts, TypeOK DEF SendTried, TypeSend
      <3>2. spc'[m] = "aired" => tx' = [tx EXCEPT ![m] = Inc(@)]
        BY ONLY <1>21, TypeParts, TypeOK DEF SendTried, TypeSend
      <3>3. QED  BY ONLY <3>1, <3>2, m \in Msgs, IncTx, TypeParts, TypeOK
    <2>3. \A k \in Msgs : status'[k] = "sent" => status[k] = "sent"
      BY ONLY <1>21, TypeParts, TypeOK DEF SendTried, TypeRows
    <2>4. UNCHANGED <<fpc, fcur>>  BY <1>21 DEF SendTried
    <2>5. \A k \in Flushers : fpc[k] = "aired" => fcur[k] \in Msgs
      BY ONLY HandInv DEF HandInv, FlushBusy
    <2>6. QED  BY ONLY <2>1, <2>2, <2>3, <2>4, <2>5, AirInv DEF AirInv, SentWasAired
  <1>4. ASSUME NEW m \in Msgs, SendReturned(m) PROVE AirInv'
    <2>1. UNCHANGED <<tx, fpc, fcur>>  BY ONLY <1>4 DEF SendReturned, hist, flush
    <2>2. \A k \in Msgs : spc'[k] = "aired" => spc[k] = "aired"
      BY ONLY <1>4, TypeParts, TypeOK DEF SendReturned, TypeSend
    <2>3. \A k \in Msgs : status'[k] = "sent" => status[k] = "sent" \/ spc[k] = "aired"
      BY ONLY <1>4, TypeParts, TypeOK DEF SendReturned, Succeeded, TypeRows
    <2>4. QED  BY ONLY <2>1, <2>2, <2>3, AirInv DEF AirInv, SentWasAired
  <1>5. ASSUME NEW m \in Msgs, SendStatusStored(m) PROVE AirInv'
    <2>1. UNCHANGED <<tx, fpc, fcur, status>>  BY ONLY <1>5 DEF SendStatusStored, flush
    <2>2. \A k \in Msgs : spc'[k] = "aired" => spc[k] = "aired"
      BY ONLY <1>5, TypeParts, TypeOK DEF SendStatusStored, TypeSend
    <2>3. QED  BY ONLY <2>1, <2>2, AirInv DEF AirInv, SentWasAired
  <1>6. ASSUME NEW m \in Msgs, SendRefreshed(m) PROVE AirInv'
    BY <1>6 DEF SendRefreshed
  <1>7. ASSUME NEW m \in Msgs, SendCancelled(m) PROVE AirInv'
    BY <1>7 DEF SendCancelled
  <1>8. ASSUME NEW f \in Flushers, FlushLock(f) PROVE AirInv'
    BY <1>8 DEF FlushLock, Leave
  <1>9. ASSUME NEW f \in Flushers, FlushRead(f) PROVE AirInv'
    BY ONLY <1>9, TypeParts, TypeOK, AirInv, ReadCases, LoopAir
  <1>10. ASSUME NEW f \in Flushers, FlushLimited(f) PROVE AirInv'
    <2>1. tx' = tx /\ spc' = spc  BY ONLY <1>10 DEF FlushLimited, hist, sender
    <2>2. \A k \in Flushers : fpc'[k] = "aired" => fpc[k] = "aired" /\ fcur'[k] = fcur[k]
      BY ONLY <1>10, TypeParts, TypeOK DEF FlushLimited, Leave, TypeFlush
    <2>3. \A m \in Msgs : status'[m] = "sent" => status[m] = "sent"
      BY ONLY <1>10, TypeParts, TypeOK DEF FlushLimited, TypeRows
    <2>4. QED  BY ONLY <2>1, <2>2, <2>3, AirInv DEF AirInv, SentWasAired
  <1>22. ASSUME NEW f \in Flushers, FlushTried(f) PROVE AirInv'
    <2>1. fcur[f] \in Msgs  BY ONLY <1>22, HandInv DEF FlushTried, HandInv, FlushBusy
    <2>2. \A k \in Msgs : tx[k] > 0 => tx'[k] > 0
      <3>1. tx' = tx \/ tx' = [tx EXCEPT ![fcur[f]] = Inc(@)]
        BY ONLY <1>22, TypeParts, TypeOK DEF FlushTried, TypeHist
      <3>2. QED  BY ONLY <3>1, <2>1, IncTx, TypeParts, TypeOK
    <2>3. \A k \in Flushers : fpc'[k] = "aired" =>
            fcur'[k] = fcur[k] /\ (fpc[k] = "aired" \/ tx'[fcur[k]] > 0)
      <3>1. /\ \A k \in Flushers : k # f => fpc'[k] = fpc[k] /\ fcur'[k] = fcur[k]
            /\ fpc'[f] = "aired" => fcur' = fcur
        BY ONLY <1>22, TypeParts, TypeOK DEF FlushTried, TypeFlush
      <3>2. fpc'[f] = "aired" => tx' = [tx EXCEPT ![fcur[f]] = Inc(@)]
        BY ONLY <1>22, TypeParts, TypeOK DEF FlushTried, TypeFlush
      <3>3. QED  BY ONLY <3>1, <3>2, <2>1, IncTx, TypeParts, TypeOK
    <2>4. \A k \in Msgs : status'[k] = "sent" => status[k] = "sent"
      BY ONLY <1>22, TypeParts, TypeOK DEF FlushTried, TypeRows
    <2>5. spc' = spc  BY <1>22 DEF FlushTried
    <2>6. \A k \in Flushers : fpc[k] = "aired" => fcur[k] \in Msgs
      BY ONLY HandInv DEF HandInv, FlushBusy
    <2>7. QED  BY ONLY <2>2, <2>3, <2>4, <2>5, <2>6, AirInv DEF AirInv, SentWasAired
  <1>11. ASSUME NEW f \in Flushers, FlushReturned(f) PROVE AirInv'
    <2>1. tx' = tx /\ spc' = spc  BY ONLY <1>11 DEF FlushReturned, hist, sender
    <2>2. \A k \in Flushers : fpc'[k] = "aired" => fpc[k] = "aired" /\ fcur'[k] = fcur[k]
      BY ONLY <1>11, TypeParts, TypeOK DEF FlushReturned, Leave, TypeFlush
    <2>3. \A m \in Msgs : status'[m] = "sent"
             => status[m] = "sent" \/ (m = fcur[f] /\ fpc[f] = "aired")
      BY ONLY <1>11, TypeParts, TypeOK DEF FlushReturned, Leave, Succeeded, TypeRows
    <2>4. QED  BY ONLY <2>1, <2>2, <2>3, AirInv DEF AirInv, SentWasAired
  <1>12. ASSUME NEW f \in Flushers, FlushStatusStored(f) PROVE AirInv'
    BY ONLY <1>12, TypeParts, TypeOK, AirInv, StoredCases, LoopAir
  <1>13. ASSUME NEW f \in Flushers, FlushCancelled(f) PROVE AirInv'
    BY <1>13 DEF FlushCancelled, Leave
  <1>14. ASSUME NEW g \in Gateways, Connect(g) \/ StatusCallback(g) \/ Disconnect(g) PROVE AirInv'
    <2>1. UNCHANGED <<spc, tx, status>>
      BY <1>14 DEF Connect, StatusCallback, Disconnect
    <2>2. \A k \in Flushers : fpc'[k] = "aired" => fpc[k] = "aired" /\ fcur'[k] = fcur[k]
      BY ONLY <1>14, TypeParts, TypeOK
      DEF Connect, StatusCallback, Disconnect, StartFlush, TypeFlush, flush
    <2>3. QED  BY ONLY <2>1, <2>2, AirInv DEF AirInv, SentWasAired
  <1>15. ASSUME StartupFlush \/ IdentityChange PROVE AirInv'
    <2>1. UNCHANGED <<spc, tx, status>>  BY <1>15 DEF StartupFlush, IdentityChange
    <2>2. \A k \in Flushers : fpc'[k] = "aired" => fpc[k] = "aired" /\ fcur'[k] = fcur[k]
      BY ONLY <1>15, TypeParts, TypeOK
      DEF StartupFlush, IdentityChange, StartFlush, TypeFlush, flush
    <2>3. QED  BY ONLY <2>1, <2>2, AirInv DEF AirInv, SentWasAired
  <1>16. ASSUME DeleteAll \/ DeleteBegin \/ DeleteScan \/ DeleteRows PROVE AirInv'
    BY ONLY <1>16, AirInv, DeletionTakes DEF AirInv, SentWasAired
  <1>17. ASSUME BeginReload \/ FinishReload \/ DeferReload PROVE AirInv'
    BY <1>17 DEF BeginReload, FinishReload, DeferReload
  <1>18. ASSUME BeginShutdown \/ Restart PROVE AirInv'
    <2>1. UNCHANGED <<tx, status>>  BY <1>18 DEF BeginShutdown, Restart
    <2>2. \A k \in Flushers : fpc'[k] = "aired" => fpc[k] = "aired" /\ fcur'[k] = fcur[k]
      BY ONLY <1>18 DEF BeginShutdown, Restart, flush
    <2>3. \A m \in Msgs : spc'[m] = "aired" => spc[m] = "aired"
      BY ONLY <1>18 DEF BeginShutdown, Restart, sender
    <2>4. QED  BY ONLY <2>1, <2>2, <2>3, AirInv DEF AirInv, SentWasAired
  <1>19. CASE UNCHANGED vars  BY <1>19
  <1>20. QED
    BY <1>1, <1>2, <1>3, <1>4, <1>5, <1>6, <1>7, <1>8, <1>9, <1>10, <1>11, <1>12, <1>13, <1>14, <1>15, <1>16, <1>17, <1>18, <1>19,
       <1>21, <1>22 DEF Next, SendStep, FlushStep

\* A flush that starts holds nothing yet, and disturbs no other.
LEMMA StartHolds ==
  ASSUME TypeOK, NEW g, UNCHANGED <<fpc, fgen>> \/ \E f \in Flushers : StartFlush(f, g)
  PROVE  \A k \in Flushers : fpc'[k] \in FlushHolds => fpc[k] \in FlushHolds /\ fgen'[k] = fgen[k]
  <1>1. CASE UNCHANGED <<fpc, fgen>>
    BY ONLY <1>1
  <1>2. ASSUME NEW f \in Flushers, StartFlush(f, g)
        PROVE  \A k \in Flushers : fpc'[k] \in FlushHolds => fpc[k] \in FlushHolds /\ fgen'[k] = fgen[k]
    <2>1. \A k \in Flushers : k # f => fpc'[k] = fpc[k] /\ fgen'[k] = fgen[k]
      BY ONLY <1>2, TypeParts, TypeOK DEF StartFlush, TypeFlush
    <2>2. fpc'[f] = "waiting"
      BY ONLY <1>2, TypeParts, TypeOK DEF StartFlush, TypeFlush
    <2>3. fpc'[f] \notin FlushHolds
      BY ONLY <2>2 DEF FlushHolds, FlushBusy
    <2>4. QED  BY ONLY <2>1, <2>3
  <1>3. QED  BY <1>1, <1>2

\* Every step keeps the tasks with a call under way in the current generation
\* (_gateway_callback_is_current).
LEMMA StepGeneration == TypeOK /\ LockInv /\ OldGenerationDrained /\ [Next]_vars => OldGenerationDrained'
  <1> SUFFICES ASSUME TypeOK, LockInv, OldGenerationDrained, [Next]_vars PROVE OldGenerationDrained'
    OBVIOUS
  <1> USE DEF TypeOK, LockInv, OldGenerationDrained, SendBusy, FlushBusy, FlushHolds, Msgs, life, radio, rows, sender, flush, hist, system, vars
  <1>1. ASSUME NEW m \in Msgs, Submit(m) PROVE OldGenerationDrained'
    BY <1>1 DEF Submit
  <1>2. ASSUME NEW m \in Msgs, SendStored(m) PROVE OldGenerationDrained'
    BY <1>2 DEF SendStored
  <1>3. ASSUME NEW m \in Msgs, SendLimited(m) PROVE OldGenerationDrained'
    BY <1>3 DEF SendLimited
  <1>21. ASSUME NEW m \in Msgs, SendTried(m) PROVE OldGenerationDrained'
    BY <1>21 DEF SendTried
  <1>4. ASSUME NEW m \in Msgs, SendReturned(m) PROVE OldGenerationDrained'
    <2>1. UNCHANGED <<generation, sgen, fpc, fgen>>
      BY ONLY <1>4 DEF SendReturned, life, flush
    <2>2. \A k \in Msgs : spc'[k] \in SendBusy => spc[k] \in SendBusy
      BY ONLY <1>4, TypeParts, TypeOK DEF SendReturned, TypeSend, SendBusy
    <2>3. QED  BY ONLY <2>1, <2>2, OldGenerationDrained DEF OldGenerationDrained
  <1>5. ASSUME NEW m \in Msgs, SendStatusStored(m) PROVE OldGenerationDrained'
    BY <1>5 DEF SendStatusStored
  <1>6. ASSUME NEW m \in Msgs, SendRefreshed(m) PROVE OldGenerationDrained'
    BY <1>6 DEF SendRefreshed
  <1>7. ASSUME NEW m \in Msgs, SendCancelled(m) PROVE OldGenerationDrained'
    BY <1>7 DEF SendCancelled
  <1>8. ASSUME NEW f \in Flushers, FlushLock(f) PROVE OldGenerationDrained'
    BY <1>8 DEF FlushLock, Leave, Current, LockFree
  <1>9. ASSUME NEW f \in Flushers, FlushRead(f) PROVE OldGenerationDrained'
    BY ONLY <1>9, TypeParts, TypeOK, OldGenerationDrained, ReadCases, LoopGeneration
  <1>10. ASSUME NEW f \in Flushers, FlushLimited(f) PROVE OldGenerationDrained'
    BY <1>10 DEF FlushLimited, Leave
  <1>22. ASSUME NEW f \in Flushers, FlushTried(f) PROVE OldGenerationDrained'
    BY <1>22 DEF FlushTried
  <1>11. ASSUME NEW f \in Flushers, FlushReturned(f) PROVE OldGenerationDrained'
    BY <1>11 DEF FlushReturned, Leave, Succeeded
  <1>12. ASSUME NEW f \in Flushers, FlushStatusStored(f) PROVE OldGenerationDrained'
    BY ONLY <1>12, TypeParts, TypeOK, OldGenerationDrained, StoredCases, LoopGeneration
  <1>13. ASSUME NEW f \in Flushers, FlushCancelled(f) PROVE OldGenerationDrained'
    BY <1>13 DEF FlushCancelled, Leave
  <1>14. ASSUME NEW g \in Gateways, Connect(g) \/ StatusCallback(g) \/ Disconnect(g) PROVE OldGenerationDrained'
    <2>1. UNCHANGED <<generation, spc, sgen>>
      BY <1>14 DEF Connect, StatusCallback, Disconnect
    <2>2. \A k \in Flushers : fpc'[k] \in FlushHolds => fpc[k] \in FlushHolds /\ fgen'[k] = fgen[k]
      <3>1. UNCHANGED <<fpc, fgen>> \/ \E f \in Flushers : StartFlush(f, g)
        BY ONLY <1>14 DEF Connect, StatusCallback, Disconnect, flush
      <3>2. QED  BY ONLY <3>1, TypeOK, StartHolds
    <2>3. QED  BY ONLY <2>1, <2>2, OldGenerationDrained DEF OldGenerationDrained
  <1>15. ASSUME StartupFlush \/ IdentityChange PROVE OldGenerationDrained'
    <2>1. UNCHANGED <<generation, spc, sgen>>
      BY ONLY <1>15 DEF StartupFlush, IdentityChange, sender, life
    <2>2. \A k \in Flushers : fpc'[k] \in FlushHolds => fpc[k] \in FlushHolds /\ fgen'[k] = fgen[k]
      <3>1. UNCHANGED <<fpc, fgen>> \/ \E f \in Flushers : StartFlush(f, None)
        BY ONLY <1>15 DEF StartupFlush, IdentityChange, flush
      <3>2. QED  BY ONLY <3>1, TypeOK, StartHolds
    <2>3. QED  BY ONLY <2>1, <2>2, OldGenerationDrained DEF OldGenerationDrained
  <1>16. ASSUME DeleteAll \/ DeleteBegin \/ DeleteScan \/ DeleteRows PROVE OldGenerationDrained'
    BY ONLY <1>16, OldGenerationDrained, DeletionTakes DEF OldGenerationDrained, flush, sender
  <1>17. ASSUME BeginReload \/ FinishReload \/ DeferReload PROVE OldGenerationDrained'
    <2>1. CASE BeginReload \/ DeferReload
      BY <2>1 DEF BeginReload, DeferReload
    <2>2. CASE FinishReload
      <3>1. UNCHANGED <<spc, sgen, fpc, fgen>>  BY <2>2 DEF FinishReload
      <3>2. \A m \in Msgs : spc[m] \notin SendBusy
        BY ONLY <2>2, Zenon DEF FinishReload, Drained, Active
      <3>3. \A k \in Flushers : fpc[k] \notin FlushHolds
        BY ONLY <2>2, LockInv, NoneAssumption DEF FinishReload, Drained, LockInv
      <3>4. QED  BY ONLY <3>1, <3>2, <3>3 DEF OldGenerationDrained
    <2>3. QED  BY <1>17, <2>1, <2>2
  <1>18. ASSUME BeginShutdown \/ Restart PROVE OldGenerationDrained'
    <2>1. CASE BeginShutdown  BY <2>1 DEF BeginShutdown
    <2>2. CASE Restart
      <3>1. \A m \in Msgs : spc'[m] \notin SendBusy
        BY ONLY <2>2 DEF Restart, SendBusy
      <3>2. \A k \in Flushers : fpc'[k] \notin FlushHolds
        BY ONLY <2>2 DEF Restart, FlushHolds, FlushBusy
      <3>3. QED  BY ONLY <3>1, <3>2 DEF OldGenerationDrained
    <2>3. QED  BY <1>18, <2>1, <2>2
  <1>19. CASE UNCHANGED vars  BY <1>19
  <1>20. QED
    BY <1>1, <1>2, <1>3, <1>4, <1>5, <1>6, <1>7, <1>8, <1>9, <1>10, <1>11, <1>12, <1>13, <1>14, <1>15, <1>16, <1>17, <1>18, <1>19,
       <1>21, <1>22 DEF Next, SendStep, FlushStep

\* IInv is inductive.
LEMMA StepIInv == IInv /\ [Next]_vars => IInv'
  BY StepType, StepLock, StepRow, StepHand, StepAir, StepGeneration DEF IInv

\* The strengthening from which the safety theorems follow holds in every
\* reachable state: lock, row, hand and air invariants with the types.
THEOREM InductiveInvariant == Spec => []IInv
  <1>1. QED  BY InitIInv, StepIInv, PTL DEF Spec

\* No message is ever in the hands of two tasks at once: a direct send in
\* flight keeps every flush away from its row, and two flushes never deliver at
\* once (the active-id set of async_send_message, and _outbox_lock).
THEOREM DeliveredByOne == Spec => []OneDelivery
  <1>1. IInv => OneDelivery
    <2> SUFFICES ASSUME IInv PROVE OneDelivery
      OBVIOUS
    <2>1. \A f \in Flushers : fpc[f] \in FlushBusy => spc[fcur[f]] = "done"
      BY DEF IInv, HandInv
    <2>2. \A f, k \in Flushers : fpc[f] \in FlushHolds /\ fpc[k] \in FlushHolds => f = k
      BY DEF IInv, LockInv
    <2>3. "done" \notin SendBusy  BY DEF SendBusy
    <2>4. QED  BY <2>1, <2>2, <2>3 DEF OneDelivery
  <1>2. QED  BY <1>1, InductiveInvariant, PTL

\* A row that says "sent" was put on the air, whichever task wrote it last and
\* whatever was cancelled, reloaded or restarted meanwhile.
THEOREM SentWasOnTheAir == Spec => []SentWasAired
  <1>1. IInv => SentWasAired  BY DEF IInv, AirInv
  <1>2. QED  BY <1>1, InductiveInvariant, PTL

\* Every task that is past its fence belongs to the current gateways: a reload
\* completes only when it has drained the others (async_reload_gateways).
THEOREM ReloadDrains == Spec => []OldGenerationDrained
  <1>1. IInv => OldGenerationDrained  BY DEF IInv
  <1>2. QED  BY <1>1, InductiveInvariant, PTL

-----------------------------------------------------------------------------
(* The fences *)

\* What a step may do behind a fence.
Silent ==
  /\ \A m \in Msgs : status'[m] \in {status[m], "absent"}
  /\ sentEvents' = sentEvents
  /\ Calling' \subseteq Calling
  /\ \A m \in Msgs : tx'[m] # tx[m] => m \in Calling

\* No task enters a provider call, or changes the message it is about.
CallsEnd ==
  /\ \A m \in Msgs : spc'[m] \in InProvider => spc[m] \in InProvider
  /\ \A k \in Flushers : fpc'[k] \in InProvider => fpc[k] \in InProvider /\ fcur'[k] = fcur[k]

\* So no further message comes into the hands of a provider.
LEMMA CallsKept ==
  ASSUME CallsEnd
  PROVE  Calling' \subseteq Calling
  BY DEF CallsEnd, Calling

\* Behind a fence a direct send ends at its next check; only its provider goes on.
LEMMA FencedSend ==
  ASSUME TypeOK, \A g : ~Current(g), NEW m \in Msgs, SendStep(m) \/ SendCancelled(m)
  PROVE  Silent
  <1>1. TypeSend /\ TypeHist
    BY TypeParts
  <1>2. CASE SendTried(m)
    <2>1. status' = status /\ sentEvents' = sentEvents /\ UNCHANGED flush
      BY ONLY <1>2 DEF SendTried
    <2>2. \A k \in Msgs : k # m => spc'[k] = spc[k] /\ tx'[k] = tx[k]
      BY ONLY <1>1, <1>2 DEF SendTried, TypeSend, TypeHist
    <2>3. spc[m] \in InProvider
      BY ONLY <1>2 DEF SendTried, InProvider
    <2>4. CallsEnd
      BY ONLY <2>1, <2>2, <2>3 DEF CallsEnd, flush
    <2>5. QED  BY ONLY <2>1, <2>2, <2>3, <2>4, CallsKept DEF Silent, Calling
  <1>3. CASE ~SendTried(m)
    <2>1. status' = status /\ tx' = tx /\ UNCHANGED flush
      BY ONLY <1>3, \A g : ~Current(g), SendStep(m) \/ SendCancelled(m)
      DEF SendStep, SendStored, SendLimited, SendReturned, SendStatusStored, SendRefreshed,
          SendCancelled, hist
    <2>2. sentEvents' = sentEvents
      BY ONLY <1>1, <1>3, \A g : ~Current(g), SendStep(m) \/ SendCancelled(m)
      DEF SendStep, SendStored, SendLimited, SendReturned, SendStatusStored, SendRefreshed,
          SendCancelled, hist, TypeHist
    <2>3. spc' = [spc EXCEPT ![m] = "done"]
      BY ONLY <1>3, \A g : ~Current(g), SendStep(m) \/ SendCancelled(m)
      DEF SendStep, SendStored, SendLimited, SendReturned, SendStatusStored, SendRefreshed,
          SendCancelled
    <2>4. CallsEnd
      BY ONLY <1>1, <2>1, <2>3 DEF CallsEnd, flush, TypeSend, InProvider
    <2>5. QED  BY ONLY <2>1, <2>2, <2>4, CallsKept DEF Silent
  <1>4. QED  BY ONLY <1>2, <1>3

\* So does a flush.
LEMMA FencedFlush ==
  ASSUME TypeOK, HandInv, \A g : ~Current(g), NEW f \in Flushers, FlushStep(f) \/ FlushCancelled(f)
  PROVE  Silent
  <1>1. TypeFlush /\ TypeHist
    BY TypeParts
  <1>2. CASE FlushTried(f)
    <2>1. UNCHANGED <<status, sentEvents, spc, fcur>>
      BY ONLY <1>2 DEF FlushTried, sender
    <2>2. fcur[f] \in Msgs /\ fpc[f] \in InProvider
      BY ONLY HandInv, <1>2 DEF FlushTried, HandInv, FlushBusy, InProvider
    <2>3. \A k \in Msgs : k # fcur[f] => tx'[k] = tx[k]
      BY ONLY <1>1, <1>2 DEF FlushTried, TypeHist
    <2>4. \A k \in Flushers : k # f => fpc'[k] = fpc[k]
      BY ONLY <1>1, <1>2 DEF FlushTried, TypeFlush
    <2>5. CallsEnd
      BY ONLY <2>1, <2>2, <2>4 DEF CallsEnd
    <2>6. QED  BY ONLY <2>1, <2>2, <2>3, <2>5, CallsKept, f \in Flushers DEF Silent, Calling
  <1>3. CASE ~FlushTried(f)
    <2>1. Leave(f) /\ UNCHANGED <<status, tx, sentEvents, spc>>
      BY ONLY <1>3, \A g : ~Current(g), FlushStep(f) \/ FlushCancelled(f)
      DEF FlushStep, FlushLock, FlushRead, FlushLimited, FlushReturned, FlushStatusStored,
          FlushCancelled, hist, sender
    <2>2. CallsEnd
      BY ONLY <1>1, <2>1 DEF CallsEnd, Leave, TypeFlush, InProvider
    <2>3. QED  BY ONLY <2>1, <2>2, CallsKept DEF Silent
  <1>4. QED  BY ONLY <1>2, <1>3

\* Behind a fence no step writes a row, reports a message as sent or hands one to a
\* provider (_gateway_callback_is_current after every await); a provider call that is
\* under way may still transmit.
LEMMA FencedIsSilent == IInv /\ Fenced /\ [Next]_vars => Silent
  <1> SUFFICES ASSUME IInv, Fenced, [Next]_vars PROVE Silent
    OBVIOUS
  <1>f. \A g : ~Current(g)  BY DEF Fenced, Current
  <1>t. TypeOK /\ HandInv /\ TypeFlush  BY TypeParts DEF IInv
  <1>1. ASSUME NEW m \in Msgs, Submit(m) PROVE Silent
    BY ONLY Fenced, <1>1 DEF Submit
  <1>2. ASSUME NEW m \in Msgs, SendStep(m) \/ SendCancelled(m) PROVE Silent
    BY ONLY <1>f, <1>t, <1>2, FencedSend
  <1>3. ASSUME NEW f \in Flushers, FlushStep(f) \/ FlushCancelled(f) PROVE Silent
    BY ONLY <1>f, <1>t, <1>3, FencedFlush
  <1>4. ASSUME NEW g \in Gateways, Connect(g) \/ StatusCallback(g) \/ Disconnect(g)
        PROVE  Silent
    <2>1. UNCHANGED <<status, tx, sentEvents, spc, fpc, fcur>>
      BY ONLY Fenced, <1>4 DEF Connect, StatusCallback, Disconnect, StartFlush, hist, sender, flush
    <2>2. QED  BY ONLY <2>1, CallsKept DEF Silent, CallsEnd
  <1>5. ASSUME \/ StartupFlush \/ IdentityChange \/ BeginReload \/ FinishReload
               \/ DeferReload \/ BeginShutdown
        PROVE  Silent
    <2>1. UNCHANGED <<status, tx, sentEvents, spc, fpc, fcur>>
      BY ONLY Fenced, <1>5
      DEF StartupFlush, StartFlush, IdentityChange, BeginReload, FinishReload, DeferReload,
          BeginShutdown, hist, sender, flush
    <2>2. QED  BY ONLY <2>1, CallsKept DEF Silent, CallsEnd
  <1>6. CASE Restart
    <2>1. UNCHANGED <<status, tx, sentEvents>>
      BY ONLY <1>6 DEF Restart
    <2>2. CallsEnd
      BY ONLY <1>6 DEF Restart, CallsEnd, InProvider
    <2>3. QED  BY ONLY <2>1, <2>2, CallsKept DEF Silent
  <1>7. ASSUME DeleteAll \/ DeleteBegin \/ DeleteScan \/ DeleteRows PROVE Silent
    BY ONLY <1>7, DeletionTakes, CallsKept DEF Silent, CallsEnd
  <1>8. CASE UNCHANGED vars
    <2>1. UNCHANGED <<status, tx, sentEvents, spc, fpc, fcur>>
      BY ONLY <1>8 DEF vars, system, hist, sender, flush
    <2>2. QED  BY ONLY <2>1, CallsKept DEF Silent, CallsEnd
  <1>9. QED
    BY ONLY [Next]_vars, <1>1, <1>2, <1>3, <1>4, <1>5, <1>6, <1>7, <1>8 DEF Next

\* While a reload or a shutdown is under way no row is written, no message is
\* reported as sent and none is handed to a provider, whatever the sends and flushes
\* were waiting for, and what still goes on the air was in the hands of its provider
\* before; only a history deletion may remove rows (_gateway_callback_is_current).
THEOREM FencesHold == Spec => FenceHolds
  <1>1. IInv /\ [Next]_vars => [Fenced => Silent]_vars  BY FencedIsSilent
  <1>2. [Fenced => Silent]_vars =>
          [Fenced => /\ \A m \in Msgs : status'[m] \in {status[m], "absent"}
                     /\ sentEvents' = sentEvents
                     /\ Calling' \subseteq Calling
                     /\ \A m \in Msgs : tx'[m] # tx[m] => m \in Calling]_vars
    BY DEF Silent
  <1>3. QED  BY <1>1, <1>2, InductiveInvariant, PTL DEF Spec, FenceHolds

-----------------------------------------------------------------------------
(* Deleted rows *)

\* A row that was deleted while nobody held a copy of it has nobody left who could
\* write it: its direct send is over, and so is that of every row a deletion may
\* still select or has selected, but for those submitted after it began.
GoneInv ==
  /\ \A m \in Msgs : deleted[m] = "idle" => status[m] = "absent" /\ spc[m] = "done" /\ ~Held(m)
  /\ delScan # None => /\ delScan.rows \subseteq delScan.scope
                       /\ \A m \in delScan.scope \cap delScan.before : spc[m] = "done"

\* A row that is gone, and that no task can write back.
Gone(m) == status[m] = "absent" /\ spc[m] = "done" /\ ~Held(m)

\* A step that brings no such row back keeps the invariant.
LEMMA GoneStays ==
  ASSUME TypeOK, GoneInv, UNCHANGED <<deleted, delScan>>,
         \A m \in Msgs : spc[m] = "done" => spc'[m] = "done",
         \A m \in Msgs : Gone(m) => status'[m] = "absent" /\ ~Held(m)'
  PROVE  GoneInv'
  <1>1. delScan # None => delScan.scope \subseteq Msgs
    BY TypeParts DEF TypeHist, DeletionState
  <1>2. \A m \in Msgs : deleted'[m] = "idle" => status'[m] = "absent" /\ spc'[m] = "done" /\ ~Held(m)'
    BY DEF GoneInv, Gone
  <1>3. QED  BY <1>1, <1>2 DEF GoneInv

\* What a step of a direct send leaves alone: every other message, and what the
\* flushes and the deletion hold.
LEMMA SendWrites ==
  ASSUME TypeOK, NEW m \in Msgs, SendStep(m)
  PROVE  /\ \A k \in Msgs : k # m => /\ status'[k] = status[k] /\ tx'[k] = tx[k]
                                     /\ sentEvents'[k] = sentEvents[k]
         /\ UNCHANGED <<scenario, life, sgw, flush, deleted, delScan>>
  <1>1. TypeRows /\ TypeHist
    BY TypeParts
  <1>2. CASE SendStored(m)
    BY ONLY <1>2 DEF SendStored, hist
  <1>3. CASE SendLimited(m)
    BY ONLY <1>1, <1>3 DEF SendLimited, TypeRows, hist
  <1>8. CASE SendTried(m)
    BY ONLY <1>1, <1>8 DEF SendTried, TypeHist
  <1>4. CASE SendReturned(m)
    BY ONLY <1>1, <1>4 DEF SendReturned, TypeRows, hist
  <1>5. CASE SendStatusStored(m)
    BY ONLY <1>1, <1>5 DEF SendStatusStored, TypeHist
  <1>6. CASE SendRefreshed(m)
    BY ONLY <1>6 DEF SendRefreshed, hist
  <1>7. QED  BY ONLY SendStep(m), <1>2, <1>3, <1>4, <1>5, <1>6, <1>8 DEF SendStep

\* A flush writes no row but the one it holds, and comes to hold only queued ones.
LEMMA FlushWrites ==
  ASSUME TypeOK, NEW f \in Flushers, FlushStep(f) \/ FlushCancelled(f)
  PROVE  /\ \A m \in Msgs : status'[m] = status[m] \/ Held(m)
         /\ \A m \in Msgs : Held(m)' => Held(m) \/ status[m] = "queued"
         /\ UNCHANGED <<scenario, spc, sgw, deleted, delScan>>
  <1>1. TypeFlush /\ TypeRows
    BY TypeParts
  <1>2. CASE FlushLock(f)
    <2>1. UNCHANGED <<scenario, spc, sgw, deleted, delScan, status>>
      BY ONLY <1>2 DEF FlushLock, sender, hist
    <2>2. \A k \in Flushers : fpc'[k] \in FlushBusy => fpc[k] \in FlushBusy /\ fcur'[k] = fcur[k]
      BY ONLY <1>1, <1>2 DEF FlushLock, Leave, TypeFlush, FlushBusy
    <2>3. \A k \in Flushers : \A m \in fpage'[k] : m \in fpage[k] \/ status[m] = "queued"
      <3>1. fpage' = [fpage EXCEPT ![f] = {}] \/ fpage' = [fpage EXCEPT ![f] = Page(fcur[f])]
        BY ONLY <1>2 DEF FlushLock, Leave
      <3>2. Page(fcur[f]) \subseteq {m \in Msgs : status[m] = "queued"}
        BY ONLY TRUE DEF Page, QueuedAfter
      <3>3. QED  BY ONLY <1>1, <3>1, <3>2 DEF TypeFlush
    <2>4. QED  BY ONLY <2>1, <2>2, <2>3 DEF Held
  <1>3. CASE FlushRead(f) \/ FlushStatusStored(f)
    <2>1. Took(f) \/ Ended(f)
      BY ONLY <1>1, <1>3, f \in Flushers, ReadCases, StoredCases
    <2>2. UNCHANGED <<scenario, spc, sgw, deleted, delScan>>
      BY ONLY <1>3 DEF FlushRead, FlushStatusStored, sender, hist
    <2>3. CASE Took(f)
      <3>1. PICK m \in fpage[f] :
              /\ fcur' = [fcur EXCEPT ![f] = m]
              /\ fpage' = [fpage EXCEPT ![f] = {k \in @ : k > m}]
              /\ status' = status \/ status' = [status EXCEPT ![m] = "blocked"]
        BY ONLY <2>3 DEF Took
      <3>2. /\ \A k \in Flushers : fpage'[k] \subseteq fpage[k]
            /\ \A k \in Flushers : k # f => fpc'[k] = fpc[k] /\ fcur'[k] = fcur[k]
            /\ fcur'[f] = m
        BY ONLY <1>1, <2>3, <3>1, f \in Flushers DEF TypeFlush, Took
      <3>3. \A k \in Msgs : status'[k] = status[k] \/ Held(k)
        BY ONLY <1>1, <3>1, f \in Flushers DEF TypeRows, Held
      <3>4. \A k \in Msgs : Held(k)' => Held(k)
        BY ONLY <3>1, <3>2, f \in Flushers DEF Held
      <3>5. QED  BY ONLY <2>2, <3>3, <3>4
    <2>4. CASE Ended(f)
      <3>1. /\ \A k \in Flushers : fpage'[k] \subseteq fpage[k]
            /\ \A k \in Flushers : fpc'[k] \in FlushBusy => fpc[k] = fpc'[k] /\ fcur'[k] = fcur[k]
        BY ONLY <1>1, <2>4, f \in Flushers DEF TypeFlush, Ended, FlushBusy
      <3>2. status' = status
        BY ONLY <2>4 DEF Ended
      <3>3. QED  BY ONLY <2>2, <3>1, <3>2 DEF Held
    <2>5. QED  BY ONLY <2>1, <2>3, <2>4
  <1>4. CASE FlushLimited(f) \/ FlushTried(f) \/ FlushReturned(f)
    <2>1. UNCHANGED <<scenario, spc, sgw, deleted, delScan>> /\ fpc[f] \in FlushBusy
      BY ONLY <1>4 DEF FlushLimited, FlushTried, FlushReturned, sender, hist, FlushBusy
    <2>2. \A m \in Msgs : m # fcur[f] => status'[m] = status[m]
      BY ONLY <1>1, <1>4 DEF FlushLimited, FlushTried, FlushReturned, TypeRows
    <2>3. /\ \A k \in Flushers : fpage'[k] \subseteq fpage[k]
          /\ \A k \in Flushers : fpc'[k] \in FlushBusy => fpc[k] \in FlushBusy /\ fcur'[k] = fcur[k]
      <3>1. CASE Leave(f)
        BY ONLY <1>1, <3>1, f \in Flushers DEF Leave, TypeFlush, FlushBusy
      <3>2. CASE ~Leave(f)
        <4>1. fpage' = fpage /\ fcur' = fcur
          BY ONLY <1>4, <3>2 DEF FlushLimited, FlushTried, FlushReturned
        <4>2. \A k \in Flushers : k # f => fpc'[k] = fpc[k]
          BY ONLY <1>1, <1>4, <3>2 DEF FlushLimited, FlushTried, FlushReturned, TypeFlush
        <4>3. QED  BY ONLY <2>1, <4>1, <4>2
      <3>3. QED  BY ONLY <3>1, <3>2
    <2>4. QED  BY ONLY <2>1, <2>2, <2>3, f \in Flushers DEF Held
  <1>5. CASE FlushCancelled(f)
    <2>1. Leave(f) /\ UNCHANGED <<scenario, spc, sgw, deleted, delScan, status>>
      BY ONLY <1>5 DEF FlushCancelled, sender, hist
    <2>2. /\ \A k \in Flushers : fpage'[k] \subseteq fpage[k]
          /\ \A k \in Flushers : fpc'[k] \in FlushBusy => fpc[k] \in FlushBusy /\ fcur'[k] = fcur[k]
      BY ONLY <1>1, <2>1, f \in Flushers DEF Leave, TypeFlush, FlushBusy
    <2>3. QED  BY ONLY <2>1, <2>2 DEF Held
  <1>6. QED  BY ONLY FlushStep(f) \/ FlushCancelled(f), <1>2, <1>3, <1>4, <1>5 DEF FlushStep

\* A flush that begins holds nothing yet.
LEMMA StartWrites ==
  ASSUME TypeOK, NEW g, StartupFlush \/ IdentityChange \/ Connect(g) \/ StatusCallback(g) \/ Disconnect(g)
  PROVE  /\ \A k \in Flushers : fpc'[k] \in FlushHolds => fpc[k] = fpc'[k] /\ fcur'[k] = fcur[k]
         /\ \A k \in Flushers : fpc'[k] \notin FlushHolds => fpc[k] \notin FlushHolds
         /\ UNCHANGED <<scenario, generation, suspended, shutting, reloading, spc, sgen, sgw, status,
                        fpage, deleted, delScan, tx, sentEvents>>
  <1>1. TypeFlush
    BY TypeParts
  <1>2. UNCHANGED <<scenario, generation, suspended, shutting, reloading, spc, sgen, sgw, status,
                    deleted, delScan, tx, sentEvents>>
    BY DEF StartupFlush, IdentityChange, Connect, StatusCallback, Disconnect, life, sender, hist
  <1>3. UNCHANGED flush \/ \E f \in Flushers, h \in {g, None} : StartFlush(f, h)
    BY DEF StartupFlush, IdentityChange, Connect, StatusCallback, Disconnect
  <1>4. CASE UNCHANGED flush
    BY ONLY <1>2, <1>4 DEF flush
  <1>5. ASSUME NEW f \in Flushers, NEW h \in {g, None}, StartFlush(f, h)
        PROVE  /\ \A k \in Flushers : fpc'[k] \in FlushHolds => fpc[k] = fpc'[k] /\ fcur'[k] = fcur[k]
               /\ \A k \in Flushers : fpc'[k] \notin FlushHolds => fpc[k] \notin FlushHolds
               /\ fpage' = fpage
    BY ONLY <1>1, <1>5 DEF StartFlush, TypeFlush, FlushHolds, FlushBusy
  <1>6. QED  BY ONLY <1>2, <1>3, <1>4, <1>5

\* A row that is deleted while nobody holds a copy of it is gone for good when the
\* sends that had begun before the deletion, and that it may remove, are over.
LEMMA RemoveGone ==
  ASSUME TypeOK, RowInv, GoneInv, NEW S, NEW before, Remove(S, before), UNCHANGED <<spc, flush>>,
         \A m \in S \cap before : spc[m] = "done"
  PROVE  \A m \in Msgs : deleted'[m] = "idle" => status'[m] = "absent" /\ spc'[m] = "done" /\ ~Held(m)'
  <1>1. \A m \in Msgs : Held(m)' = Held(m)
    BY ONLY UNCHANGED flush DEF Held, flush
  <1> SUFFICES ASSUME NEW m \in Msgs, deleted'[m] = "idle"
               PROVE  status'[m] = "absent" /\ spc[m] = "done" /\ ~Held(m)
    BY <1>1
  <1>2. CASE m \in S /\ status[m] # "absent"
    <2>1. status'[m] = "absent" /\ ~Held(m) /\ m \notin Active \ before
      BY ONLY Remove(S, before), <1>2, m \in Msgs, deleted'[m] = "idle" DEF Remove
    <2>2. spc[m] # "new"
      BY ONLY RowInv, <1>2, m \in Msgs DEF RowInv
    <2>3. m \notin Active => spc[m] = "done"
      BY ONLY TypeOK, TypeParts, <2>2, m \in Msgs DEF Active, TypeSend
    <2>4. m \in Active => spc[m] = "done"
      BY ONLY <1>2, <2>1, \A k \in S \cap before : spc[k] = "done"
    <2>5. QED  BY ONLY <2>1, <2>3, <2>4
  <1>3. CASE ~(m \in S /\ status[m] # "absent")
    <2>1. deleted[m] = "idle" /\ status'[m] \in {status[m], "absent"}
      BY ONLY Remove(S, before), <1>3, m \in Msgs, deleted'[m] = "idle" DEF Remove
    <2>2. QED  BY ONLY GoneInv, <2>1, m \in Msgs DEF GoneInv
  <1>4. QED  BY ONLY <1>2, <1>3

\* So it is after each of the statements of a deletion.
LEMMA FirstGone ==
  ASSUME TypeOK, RowInv, GoneInv, delScan \in DeletionState, delScan # None,
         NEW S, S \subseteq delScan.scope, DeleteFirst(S), UNCHANGED <<spc, flush>>
  PROVE  GoneInv'
  <1>1. CASE delScan' = None /\ UNCHANGED <<status, deleted>>
    <2>1. \A m \in Msgs : Held(m)' = Held(m)
      BY ONLY UNCHANGED flush DEF Held, flush
    <2>2. QED  BY ONLY GoneInv, <1>1, <2>1, UNCHANGED spc DEF GoneInv
  <1>2. CASE /\ Remove(FirstRows(S), delScan.before)
             /\ delScan' = [delScan EXCEPT !.page = {}, !.rows = S \ FirstRows(S), !.scanning = FALSE]
    <2>1. FirstRows(S) \subseteq S
      BY ONLY TRUE DEF FirstRows
    <2>2. \A m \in FirstRows(S) \cap delScan.before : spc[m] = "done"
      BY ONLY GoneInv, <2>1, delScan # None, S \subseteq delScan.scope DEF GoneInv
    <2>3. \A m \in Msgs : deleted'[m] = "idle" => status'[m] = "absent" /\ spc'[m] = "done" /\ ~Held(m)'
      BY ONLY TypeOK, RowInv, GoneInv, <1>2, <2>2, UNCHANGED <<spc, flush>>, RemoveGone
    <2>4. /\ delScan'.rows \subseteq delScan'.scope
          /\ delScan'.scope = delScan.scope /\ delScan'.before = delScan.before
      BY ONLY <1>2, delScan \in DeletionState, S \subseteq delScan.scope DEF DeletionState
    <2>5. QED  BY ONLY GoneInv, <2>3, <2>4, delScan # None, UNCHANGED spc DEF GoneInv
  <1>3. QED  BY ONLY DeleteFirst(S), <1>1, <1>2 DEF DeleteFirst

\* No step brings a deleted row back (async_delete_message_history).
LEMMA StepGone == IInv /\ GoneInv /\ [Next]_vars => GoneInv'
  <1> SUFFICES ASSUME IInv, GoneInv, [Next]_vars PROVE GoneInv'
    OBVIOUS
  <1>t. TypeOK /\ RowInv /\ TypeSend /\ TypeRows /\ TypeHist
    BY TypeParts DEF IInv
  <1>1. ASSUME NEW m \in Msgs, Submit(m) PROVE GoneInv'
    <2>1. /\ \A k \in Msgs : spc[k] = "done" => spc'[k] = "done" /\ status'[k] = status[k]
          /\ UNCHANGED <<flush, deleted, delScan>>
      BY ONLY <1>t, <1>1 DEF Submit, TypeSend, TypeRows, hist
    <2>2. \A k \in Msgs : Held(k)' = Held(k)
      BY ONLY <2>1 DEF Held, flush
    <2>3. QED  BY ONLY <1>t, GoneInv, <2>1, <2>2, GoneStays DEF Gone
  <1>2. ASSUME NEW m \in Msgs, SendStep(m) PROVE GoneInv'
    <2>1. /\ \A k \in Msgs : k # m => spc'[k] = spc[k] /\ status'[k] = status[k]
          /\ spc[m] # "done" /\ UNCHANGED <<flush, deleted, delScan>>
      BY ONLY <1>t, <1>2, SendTakes, SendWrites DEF SendBusy
    <2>2. \A k \in Msgs : Held(k)' = Held(k)
      BY ONLY <2>1 DEF Held, flush
    <2>3. QED  BY ONLY <1>t, GoneInv, <2>1, <2>2, GoneStays DEF Gone
  <1>3. ASSUME NEW m \in Msgs, SendCancelled(m) PROVE GoneInv'
    <2>1. /\ \A k \in Msgs : spc[k] = "done" => spc'[k] = "done"
          /\ UNCHANGED <<flush, deleted, delScan, status>>
      BY ONLY <1>t, <1>3 DEF SendCancelled, TypeSend, hist
    <2>2. \A k \in Msgs : Held(k)' = Held(k)
      BY ONLY <2>1 DEF Held, flush
    <2>3. QED  BY ONLY <1>t, GoneInv, <2>1, <2>2, GoneStays DEF Gone
  <1>4. ASSUME NEW f \in Flushers, FlushStep(f) \/ FlushCancelled(f) PROVE GoneInv'
    <2>1. /\ \A m \in Msgs : status'[m] = status[m] \/ Held(m)
          /\ \A m \in Msgs : Held(m)' => Held(m) \/ status[m] = "queued"
          /\ UNCHANGED <<spc, deleted, delScan>>
      BY ONLY <1>t, <1>4, FlushWrites
    <2>2. QED  BY ONLY <1>t, GoneInv, <2>1, GoneStays DEF Gone
  <1>5. ASSUME NEW g, StartupFlush \/ IdentityChange \/ Connect(g) \/ StatusCallback(g) \/ Disconnect(g)
        PROVE  GoneInv'
    <2>1. /\ \A k \in Flushers : fpc'[k] \in FlushHolds => fpc[k] = fpc'[k] /\ fcur'[k] = fcur[k]
          /\ UNCHANGED <<spc, status, fpage, deleted, delScan>>
      BY ONLY <1>t, <1>5, StartWrites
    <2>2. \A m \in Msgs : Held(m)' => Held(m)
      BY ONLY <2>1 DEF Held, FlushHolds
    <2>3. QED  BY ONLY <1>t, GoneInv, <2>1, <2>2, GoneStays DEF Gone
  <1>6. CASE DeleteBegin
    <2>1. /\ UNCHANGED <<status, spc, flush, deleted>>
          /\ \E S \in SUBSET Msgs :
               delScan' = [scope |-> S \ Active, before |-> Submitted,
                           page |-> ScanPage(Msgs), rows |-> {}, scanning |-> TRUE]
      BY ONLY <1>6 DEF DeleteBegin, sender, hist
    <2>2. \A m \in Submitted \ Active : spc[m] = "done"
      BY ONLY <1>t DEF Active, Submitted, TypeSend
    <2>3. \A m \in Msgs : Held(m)' = Held(m)
      BY ONLY <2>1 DEF Held, flush
    <2>4. /\ delScan'.rows \subseteq delScan'.scope
          /\ \A m \in delScan'.scope \cap delScan'.before : spc[m] = "done"
      BY ONLY <2>1, <2>2
    <2>5. QED  BY ONLY GoneInv, <2>1, <2>3, <2>4 DEF GoneInv
  <1>7. CASE DeleteAll
    <2>1. /\ Remove(Msgs, Submitted) /\ UNCHANGED <<spc, flush, delScan>> /\ delScan = None
      BY ONLY <1>7 DEF DeleteAll, sender
    <2>2. \A m \in Submitted : spc[m] = "done"
      BY ONLY <1>t, <1>7 DEF DeleteAll, Active, Submitted, TypeSend
    <2>3. \A m \in Msgs : deleted'[m] = "idle" => status'[m] = "absent" /\ spc'[m] = "done" /\ ~Held(m)'
      BY ONLY <1>t, GoneInv, <2>1, <2>2, RemoveGone
    <2>4. QED  BY ONLY <2>1, <2>3 DEF GoneInv
  <1>8. CASE DeleteScan
    <2> DEFINE found == delScan.rows \cup (delScan.page \cap delScan.scope)
    <2>1. /\ delScan # None /\ UNCHANGED <<spc, flush>>
          /\ \/ /\ \E P : delScan' = [delScan EXCEPT !.rows = found, !.page = P]
                /\ UNCHANGED <<status, deleted>>
             \/ DeleteFirst(found)
      BY ONLY <1>8 DEF DeleteScan, sender
    <2>2. delScan \in DeletionState /\ found \subseteq delScan.scope
      BY ONLY <1>t, GoneInv, <2>1 DEF TypeHist, GoneInv, DeletionState
    <2> HIDE DEF found
    <2>3. CASE DeleteFirst(found)
      BY ONLY <1>t, GoneInv, <2>1, <2>2, <2>3, FirstGone
    <2>4. ASSUME NEW P, delScan' = [delScan EXCEPT !.rows = found, !.page = P], UNCHANGED <<status, deleted>>
          PROVE  GoneInv'
      <3>1. \A m \in Msgs : Held(m)' = Held(m)
        BY ONLY <2>1 DEF Held, flush
      <3>2. /\ delScan'.rows \subseteq delScan'.scope
            /\ delScan'.scope = delScan.scope /\ delScan'.before = delScan.before
        BY ONLY <2>2, <2>4 DEF DeletionState
      <3>3. QED  BY ONLY GoneInv, <2>1, <2>4, <3>1, <3>2 DEF GoneInv
    <2>5. QED  BY ONLY <2>1, <2>3, <2>4
  <1>9. CASE DeleteRows
    <2>1. delScan # None /\ UNCHANGED <<spc, flush>> /\ DeleteFirst(delScan.rows)
      BY ONLY <1>9 DEF DeleteRows, sender
    <2>2. delScan \in DeletionState /\ delScan.rows \subseteq delScan.scope
      BY ONLY <1>t, GoneInv, <2>1 DEF TypeHist, GoneInv
    <2>3. QED  BY ONLY <1>t, GoneInv, <2>1, <2>2, FirstGone
  <1>10. CASE BeginReload \/ FinishReload \/ DeferReload \/ BeginShutdown
    <2>1. UNCHANGED <<status, spc, flush, deleted, delScan>>
      BY ONLY <1>10 DEF BeginReload, FinishReload, DeferReload, BeginShutdown, sender, hist
    <2>2. \A m \in Msgs : Held(m)' = Held(m)
      BY ONLY <2>1 DEF Held, flush
    <2>3. QED  BY ONLY <1>t, GoneInv, <2>1, <2>2, GoneStays DEF Gone
  <1>11. CASE Restart
    <2>1. /\ UNCHANGED <<status, deleted>> /\ delScan' = None
          /\ \A m \in Msgs : spc[m] = "done" => spc'[m] = "done"
          /\ \A f \in Flushers : fpage'[f] = {} /\ fpc'[f] = "idle"
      BY ONLY <1>11 DEF Restart
    <2>2. \A m \in Msgs : ~Held(m)'
      BY ONLY <2>1 DEF Held, FlushBusy
    <2>3. QED  BY ONLY GoneInv, <2>1, <2>2 DEF GoneInv
  <1>12. CASE UNCHANGED vars
    <2>1. UNCHANGED <<status, spc, flush, deleted, delScan>>
      BY ONLY <1>12 DEF vars, system, sender, hist
    <2>2. \A m \in Msgs : Held(m)' = Held(m)
      BY ONLY <2>1 DEF Held, flush
    <2>3. QED  BY ONLY <1>t, GoneInv, <2>1, <2>2, GoneStays DEF Gone
  <1>13. QED
    BY ONLY [Next]_vars, <1>1, <1>2, <1>3, <1>4, <1>5, <1>6, <1>7, <1>8, <1>9, <1>10, <1>11, <1>12 DEF Next

\* A row deleted while no flush held a copy of it never comes back, however late a
\* provider answers and however many pages and statements the deletion took: it
\* leaves out the sends in flight when it began, and those that were over write no
\* more.  Left out are rows whose direct send began after the deletion did.
THEOREM DeletionIsFinal == Spec => []DeletedStaysDeleted
  <1>1. Init => GoneInv
    BY DEF Init, GoneInv
  <1>2. GoneInv => DeletedStaysDeleted
    BY DEF GoneInv, DeletedStaysDeleted
  <1>3. QED  BY <1>1, <1>2, StepGone, InductiveInvariant, PTL DEF Spec

-----------------------------------------------------------------------------
(* Queued messages *)

\* The flush f has the message in hand, in one of these stages.
InHand(f, m, stages) == fpc[f] \in stages /\ fcur[f] = m

\* Where the flush f is with a message that its direct send left queued: what it
\* holds of it is the row as it is.
HoldOf(f, m) ==
  /\ m \in fpage[f] => status[m] = "queued" /\ fpc[f] \in FlushHolds /\ ~InHand(f, m, FlushBusy)
  /\ InHand(f, m, {"limiter", "calling", "lost", "failing", "aired"}) => status[m] = "queued"
  /\ InHand(f, m, {"marking"}) => status[m] = "sent"
  /\ InHand(f, m, {"aired", "marking"}) => sentEvents[m] = 0

\* Such a message was not on the air while its row waits, but for a delivery that
\* has not come back.
OnceOf(m) ==
  /\ spc[m] \in {"new", "stored", "refresh", "done"}
  /\ tx[m] <= 1 /\ sentEvents[m] <= 1
  /\ status[m] \in {"absent", "queued"} =>
       (tx[m] = 0 /\ sentEvents[m] = 0) \/ \E f \in Flushers : InHand(f, m, {"aired"})

\* Without a fence, a deletion or an unsafe identity, every task goes on to its end.
Calm == ~shutting /\ ~suspended /\ ~reloading /\ delScan = None

HoldInv == \A f \in Flushers, m \in Msgs : sgw[m] = None => HoldOf(f, m)
OnceInv == \A m \in Msgs : /\ spc[m] = "new" => sgw[m] = None
                           /\ sgw[m] = None => OnceOf(m)

\* What holds while the gateways do no more than come and go.
ReplayInv == Faults \subseteq {"disconnect"} => Calm /\ HoldInv /\ OnceInv

\* Before a step by the flush f, which holds the lock or finds it free, nobody else
\* holds such a message.
LEMMA OthersRest ==
  ASSUME LockInv, HoldInv, NEW f \in Flushers, fpc[f] \in FlushHolds \/ lock = None,
         NEW k \in Flushers, k # f
  PROVE  /\ fpc[k] \notin FlushHolds
         /\ \A m \in Msgs : sgw[m] = None => m \notin fpage[k]
  <1>1. fpc[k] \notin FlushHolds
    BY NoneAssumption DEF LockInv
  <1>2. QED  BY <1>1 DEF HoldInv, HoldOf

\* The flush k keeps its page and its record.
Keeps(k) == fpc'[k] = fpc[k] /\ fpage'[k] = fpage[k] /\ fcur'[k] = fcur[k]

\* The flush k is outside the lock, with nothing it could still deliver.
Rests(k) ==
  /\ fpc[k] # "aired" /\ fpc'[k] \notin FlushHolds
  /\ fpage'[k] = {} \/ (fpage'[k] = fpage[k] /\ fpc[k] \notin FlushHolds)

\* Nothing is written, sent or reported, and every flush goes on or has ended.
LEMMA HandsStay ==
  ASSUME HoldInv, OnceInv, UNCHANGED <<status, tx, sentEvents, sgw>>,
         \A m \in Msgs : spc'[m] = "new" => spc[m] = "new",
         \A m \in Msgs : sgw[m] = None => spc'[m] \in {spc[m], "refresh", "done"},
         \A k \in Flushers : Keeps(k) \/ Rests(k)
  PROVE  HoldInv' /\ OnceInv'
  <1>1. FlushBusy \subseteq FlushHolds /\ {"limiter", "calling", "lost", "failing", "aired", "marking"} \subseteq FlushBusy
    BY DEF FlushHolds, FlushBusy
  <1>2. ASSUME NEW f \in Flushers, NEW m \in Msgs, sgw[m] = None PROVE HoldOf(f, m)'
    <2>1. HoldOf(f, m)
      BY ONLY HoldInv, <1>2 DEF HoldInv
    <2>2. CASE Keeps(f)
      BY ONLY <2>1, <2>2, UNCHANGED <<status, tx, sentEvents, sgw>> DEF HoldOf, InHand, Keeps
    <2>3. CASE Rests(f)
      <3>1. m \notin fpage'[f]
        BY ONLY <2>1, <2>3 DEF HoldOf, Rests
      <3>2. fpc'[f] \notin FlushBusy
        BY ONLY <1>1, <2>3 DEF Rests
      <3>3. QED  BY ONLY <1>1, <3>1, <3>2 DEF HoldOf, InHand
    <2>4. QED  BY ONLY <1>2, <2>2, <2>3, \A k \in Flushers : Keeps(k) \/ Rests(k)
  <1>3. ASSUME NEW m \in Msgs, sgw[m] = None PROVE OnceOf(m)'
    <2>1. OnceOf(m)
      BY ONLY OnceInv, <1>3 DEF OnceInv
    <2>2. \A f \in Flushers : InHand(f, m, {"aired"}) => InHand(f, m, {"aired"})'
      BY ONLY \A k \in Flushers : Keeps(k) \/ Rests(k) DEF Keeps, Rests, InHand
    <2>3. spc'[m] \in {"new", "stored", "refresh", "done"}
      BY ONLY <2>1, <1>3, \A k \in Msgs : sgw[k] = None => spc'[k] \in {spc[k], "refresh", "done"}
      DEF OnceOf
    <2>4. QED  BY ONLY <2>1, <2>2, <2>3, UNCHANGED <<status, tx, sentEvents, sgw>> DEF OnceOf
  <1>4. QED
    BY ONLY <1>2, <1>3, OnceInv, UNCHANGED <<status, tx, sentEvents, sgw>>,
       \A m \in Msgs : spc'[m] = "new" => spc[m] = "new" DEF HoldInv, OnceInv

\* What a step of the flush f has to show for the messages that are left queued.
LEMMA FlushKeeps ==
  ASSUME LockInv, HoldInv, OnceInv, NEW f \in Flushers, fpc[f] \in FlushHolds \/ lock = None,
         UNCHANGED <<spc, sgw>>, \A k \in Flushers : k # f => Keeps(k),
         \A m \in Msgs : sgw[m] = None => HoldOf(f, m)' /\ OnceOf(m)'
  PROVE  HoldInv' /\ OnceInv'
  <1>1. FlushBusy \subseteq FlushHolds /\ {"limiter", "calling", "lost", "failing", "aired", "marking"} \subseteq FlushBusy
    BY DEF FlushHolds, FlushBusy
  <1>2. ASSUME NEW k \in Flushers, k # f, NEW m \in Msgs, sgw[m] = None PROVE HoldOf(k, m)'
    <2>1. fpc[k] \notin FlushHolds /\ m \notin fpage[k]
      BY ONLY LockInv, HoldInv, f \in Flushers, fpc[f] \in FlushHolds \/ lock = None, <1>2, OthersRest
    <2>2. fpc'[k] \notin FlushHolds /\ m \notin fpage'[k]
      BY ONLY <2>1, <1>2, \A j \in Flushers : j # f => Keeps(j) DEF Keeps
    <2>3. QED  BY ONLY <1>1, <2>2 DEF HoldOf, InHand
  <1>3. QED
    BY ONLY <1>2, OnceInv, f \in Flushers, UNCHANGED <<spc, sgw>>,
       \A m \in Msgs : sgw[m] = None => HoldOf(f, m)' /\ OnceOf(m)' DEF HoldInv, OnceInv

\* While another stage than the provider call has the lock, a message that waits
\* was never on the air.
LEMMA NoneAired ==
  ASSUME LockInv, OnceInv, NEW f \in Flushers, fpc[f] \in FlushHolds \/ lock = None,
         fpc[f] # "aired", NEW m \in Msgs, sgw[m] = None, status[m] \in {"absent", "queued"}
  PROVE  tx[m] = 0 /\ sentEvents[m] = 0
  <1>1. "aired" \in FlushHolds
    BY DEF FlushHolds, FlushBusy
  <1>2. \A k \in Flushers : fpc[k] # "aired"
    BY ONLY <1>1, LockInv, NoneAssumption, f \in Flushers, fpc[f] # "aired",
       fpc[f] \in FlushHolds \/ lock = None DEF LockInv
  <1>3. OnceOf(m)
    BY ONLY OnceInv, m \in Msgs, sgw[m] = None DEF OnceInv
  <1>4. QED  BY ONLY <1>2, <1>3, status[m] \in {"absent", "queued"} DEF OnceOf, InHand

\* The row of a new message is queued before anybody knows of it.
LEMMA SubmitReplays ==
  ASSUME TypeOK, RowInv, HandInv, HoldInv, OnceInv, NEW m \in Msgs, Submit(m)
  PROVE  HoldInv' /\ OnceInv'
  <1>1. TypeRows /\ TypeSend
    BY TypeParts
  <1>2. /\ spc[m] = "new" /\ spc'[m] = "stored" /\ status'[m] = "queued"
        /\ UNCHANGED <<flush, tx, sentEvents>>
        /\ \A k \in Msgs : k # m => /\ spc'[k] = spc[k] /\ status'[k] = status[k]
                                    /\ sgw'[k] = sgw[k]
    BY ONLY <1>1, Submit(m), m \in Msgs DEF Submit, TypeRows, TypeSend, hist
  <1>3. \A f \in Flushers : m \notin fpage[f] /\ ~InHand(f, m, FlushBusy)
    BY ONLY <1>2, HandInv DEF HandInv, InHand
  <1>4. {"limiter", "calling", "lost", "failing", "aired", "marking"} \subseteq FlushBusy
    BY DEF FlushBusy
  <1>5. tx[m] = 0 /\ sentEvents[m] = 0
    <2>1. OnceOf(m) /\ status[m] = "absent"
      BY ONLY OnceInv, RowInv, <1>2, m \in Msgs DEF OnceInv, RowInv
    <2>2. QED  BY ONLY <2>1, <1>3, <1>4 DEF OnceOf, InHand
  <1>6. ASSUME NEW f \in Flushers, NEW k \in Msgs, sgw'[k] = None PROVE HoldOf(f, k)'
    <2>1. CASE k = m
      BY ONLY <2>1, <1>2, <1>3, <1>4 DEF HoldOf, InHand, flush
    <2>2. CASE k # m
      <3>1. HoldOf(f, k)
        BY ONLY HoldInv, <1>2, <1>6, <2>2 DEF HoldInv
      <3>2. QED  BY ONLY <1>2, <1>6, <2>2, <3>1 DEF HoldOf, InHand, flush
    <2>3. QED  BY ONLY <2>1, <2>2
  <1>7. ASSUME NEW k \in Msgs, sgw'[k] = None PROVE OnceOf(k)'
    <2>1. CASE k = m
      BY ONLY <2>1, <1>2, <1>5 DEF OnceOf
    <2>2. CASE k # m
      <3>1. OnceOf(k)
        BY ONLY OnceInv, <1>2, <1>7, <2>2 DEF OnceInv
      <3>2. QED  BY ONLY <1>2, <1>7, <2>2, <3>1 DEF OnceOf, InHand, flush
    <2>3. QED  BY ONLY <2>1, <2>2
  <1>8. \A k \in Msgs : spc'[k] = "new" => sgw'[k] = None
    BY ONLY OnceInv, <1>2 DEF OnceInv
  <1>9. QED  BY ONLY <1>6, <1>7, <1>8 DEF HoldInv, OnceInv

\* A direct send with a gateway leaves the queued messages alone; one without ends
\* with its row in the queue.
LEMMA SendReplays ==
  ASSUME TypeOK, HoldInv, OnceInv, NEW m \in Msgs, SendStep(m)
  PROVE  HoldInv' /\ OnceInv'
  <1>1. /\ \A k \in Msgs : k # m => /\ spc'[k] = spc[k] /\ status'[k] = status[k]
                                    /\ tx'[k] = tx[k] /\ sentEvents'[k] = sentEvents[k]
        /\ UNCHANGED <<sgw, flush>> /\ spc'[m] # "new"
    BY ONLY TypeOK, TypeParts, m \in Msgs, SendStep(m), SendTakes, SendWrites DEF SendBusy
  <1>2. CASE sgw[m] = None
    <2>1. spc[m] \in {"new", "stored", "refresh", "done"}
      BY ONLY OnceInv, <1>2, m \in Msgs DEF OnceInv, OnceOf
    <2>2. SendStored(m) \/ SendRefreshed(m)
      BY ONLY <2>1, SendStep(m)
      DEF SendStep, SendLimited, SendTried, SendReturned, SendStatusStored
    <2>3. UNCHANGED <<status, tx, sentEvents, sgw>>
      BY ONLY <2>2 DEF SendStored, SendRefreshed, hist
    <2>4. spc'[m] \in {"refresh", "done"}
      BY ONLY <1>2, <2>2, TypeOK, TypeParts, m \in Msgs DEF SendStored, SendRefreshed, TypeSend
    <2>5. \A k \in Flushers : Keeps(k)
      BY ONLY <1>1 DEF flush, Keeps
    <2>6. /\ \A k \in Msgs : spc'[k] = "new" => spc[k] = "new"
          /\ \A k \in Msgs : sgw[k] = None => spc'[k] \in {spc[k], "refresh", "done"}
      BY ONLY <1>1, <2>4
    <2>7. QED  BY ONLY HoldInv, OnceInv, <2>3, <2>5, <2>6, HandsStay
  <1>3. CASE sgw[m] # None
    <2>1. ASSUME NEW f \in Flushers, NEW k \in Msgs, sgw'[k] = None PROVE HoldOf(f, k)'
      <3>1. HoldOf(f, k) /\ k # m
        BY ONLY HoldInv, <1>1, <1>3, <2>1 DEF HoldInv
      <3>2. QED  BY ONLY <1>1, <2>1, <3>1 DEF HoldOf, InHand, flush
    <2>2. ASSUME NEW k \in Msgs, sgw'[k] = None PROVE OnceOf(k)'
      <3>1. OnceOf(k) /\ k # m
        BY ONLY OnceInv, <1>1, <1>3, <2>2 DEF OnceInv
      <3>2. QED  BY ONLY <1>1, <2>2, <3>1 DEF OnceOf, InHand, flush
    <2>3. \A k \in Msgs : spc'[k] = "new" => sgw'[k] = None
      BY ONLY OnceInv, <1>1 DEF OnceInv
    <2>4. QED  BY ONLY <2>1, <2>2, <2>3 DEF HoldInv, OnceInv
  <1>4. QED  BY ONLY <1>2, <1>3

\* The page query finds queued rows only.
LEMMA LockReplays ==
  ASSUME TypeOK, LockInv, HoldInv, OnceInv, NEW f \in Flushers, FlushLock(f)
  PROVE  HoldInv' /\ OnceInv'
  <1>1. TypeFlush /\ fpc[f] = "waiting" /\ lock = None
    BY TypeParts DEF FlushLock, LockFree
  <1>2. UNCHANGED <<spc, sgw, status, tx, sentEvents>>
    BY ONLY FlushLock(f) DEF FlushLock, sender, hist
  <1>3. CASE Leave(f)
    <2>1. /\ \A k \in Flushers : k # f => Keeps(k)
          /\ fpc'[f] = "idle" /\ fpage'[f] = {}
      BY ONLY <1>1, <1>3, f \in Flushers DEF Leave, TypeFlush, Keeps
    <2>2. Rests(f)
      BY ONLY <1>1, <2>1 DEF Rests, FlushHolds, FlushBusy
    <2>3. QED  BY ONLY HoldInv, OnceInv, <1>2, <2>1, <2>2, HandsStay
  <1>4. CASE ~Leave(f)
    <2>1. fpc' = [fpc EXCEPT ![f] = "page"] /\ fpage' = [fpage EXCEPT ![f] = Page(fcur[f])] /\ fcur' = fcur
      BY ONLY FlushLock(f), <1>4 DEF FlushLock
    <2>2. \A k \in Flushers : k # f => Keeps(k)
      BY ONLY <1>1, <2>1 DEF TypeFlush, Keeps
    <2>3. fpc'[f] = "page" /\ fpage'[f] = Page(fcur[f])
      BY ONLY <1>1, <2>1, f \in Flushers DEF TypeFlush
    <2>4. ASSUME NEW m \in Msgs, sgw[m] = None PROVE HoldOf(f, m)' /\ OnceOf(m)'
      <3>1. m \in fpage'[f] => status'[m] = "queued"
        BY ONLY <1>2, <2>3 DEF Page, QueuedAfter
      <3>2. HoldOf(f, m)'
        BY ONLY <2>3, <3>1 DEF HoldOf, InHand, FlushHolds, FlushBusy
      <3>3. OnceOf(m)
        BY ONLY OnceInv, <2>4 DEF OnceInv
      <3>4. status[m] \in {"absent", "queued"} => tx[m] = 0 /\ sentEvents[m] = 0
        BY ONLY LockInv, OnceInv, <1>1, <2>4, f \in Flushers, NoneAired
      <3>5. OnceOf(m)'
        BY ONLY <1>2, <3>3, <3>4 DEF OnceOf
      <3>6. QED  BY ONLY <3>2, <3>5
    <2>5. QED  BY ONLY LockInv, HoldInv, OnceInv, f \in Flushers, <1>1, <1>2, <2>2, <2>4, FlushKeeps
  <1>5. QED  BY ONLY <1>3, <1>4

\* The loop over a page takes the next queued record, after the one it had.
LEMMA LoopReplays ==
  ASSUME TypeOK, LockInv, HoldInv, OnceInv, NEW f \in Flushers,
         fpc[f] \in FlushHolds, fpc[f] # "aired", Took(f) \/ Ended(f), UNCHANGED <<spc, sgw, tx>>,
         \/ sentEvents' = sentEvents
         \/ sentEvents' = [sentEvents EXCEPT ![fcur[f]] = IF fpc[f] = "marking" THEN Inc(@) ELSE @]
  PROVE  HoldInv' /\ OnceInv'
  <1>1. TypeFlush /\ TypeRows /\ TypeHist
    BY TypeParts
  <1>2. \A k \in Flushers : k # f => Keeps(k)
    BY ONLY <1>1, Took(f) \/ Ended(f) DEF TypeFlush, Took, Ended, Keeps
  <1>3. ASSUME NEW m \in Msgs, sgw[m] = None PROVE HoldOf(f, m)'
    <2>1. HoldOf(f, m)
      BY ONLY HoldInv, <1>3, f \in Flushers DEF HoldInv
    <2>2. CASE Took(f)
      <3>1. PICK r \in fpage[f] :
              /\ r \notin Active
              /\ fcur' = [fcur EXCEPT ![f] = r]
              /\ fpage' = [fpage EXCEPT ![f] = {k \in @ : k > r}]
              /\ \/ status' = status /\ fpc' = [fpc EXCEPT ![f] = "limiter"]
                 \/ status' = [status EXCEPT ![r] = "blocked"] /\ fpc' = [fpc EXCEPT ![f] = "blocking"]
        BY ONLY <2>2 DEF Took
      <3>2. fcur'[f] = r /\ fpage'[f] = {k \in fpage[f] : k > r} /\ r \in Msgs /\ r \in Nat
        BY ONLY <1>1, <3>1, f \in Flushers DEF TypeFlush, Msgs
      <3>3. \/ fpc'[f] = "limiter" /\ status' = status
            \/ fpc'[f] = "blocking" /\ \A k \in Msgs : k # r => status'[k] = status[k]
        BY ONLY <1>1, <3>1, f \in Flushers DEF TypeFlush, TypeRows
      <3>4. m \in fpage'[f] => m # r /\ m \in fpage[f]
        BY ONLY <3>2
      <3>5. QED  BY ONLY <1>3, <2>1, <3>1, <3>2, <3>3, <3>4 DEF HoldOf, InHand, FlushHolds, FlushBusy
    <2>3. CASE Ended(f)
      <3>1. fpage'[f] = {} /\ fpc'[f] \in {"idle", "waiting"}
        BY ONLY <1>1, <2>3, f \in Flushers DEF TypeFlush, Ended
      <3>2. QED  BY ONLY <3>1 DEF HoldOf, InHand
    <2>4. QED  BY ONLY <2>2, <2>3, Took(f) \/ Ended(f)
  <1>4. ASSUME NEW m \in Msgs, sgw[m] = None PROVE OnceOf(m)'
    <2>1. OnceOf(m) /\ HoldOf(f, m)
      BY ONLY OnceInv, HoldInv, <1>4, f \in Flushers DEF OnceInv, HoldInv
    <2>2. status[m] \in {"absent", "queued"} => tx[m] = 0 /\ sentEvents[m] = 0
      BY ONLY LockInv, OnceInv, f \in Flushers, fpc[f] \in FlushHolds, fpc[f] # "aired", <1>4, NoneAired
    <2>3. status'[m] \in {"absent", "queued"} => status[m] = status'[m]
      <3>1. CASE Took(f)
        BY ONLY <1>1, <1>4, <3>1, f \in Flushers DEF Took, TypeRows, TypeFlush
      <3>2. CASE Ended(f)
        BY ONLY <3>2 DEF Ended
      <3>3. QED  BY ONLY <3>1, <3>2, Took(f) \/ Ended(f)
    <2>4. \/ sentEvents'[m] = sentEvents[m]
          \/ InHand(f, m, {"marking"}) /\ sentEvents'[m] = Inc(sentEvents[m])
      BY ONLY <1>1, <1>4,
         \/ sentEvents' = sentEvents
         \/ sentEvents' = [sentEvents EXCEPT ![fcur[f]] = IF fpc[f] = "marking" THEN Inc(@) ELSE @]
      DEF TypeHist, InHand
    <2>5. CASE sentEvents'[m] = sentEvents[m]
      BY ONLY <2>1, <2>2, <2>3, <2>5, UNCHANGED <<spc, sgw, tx>> DEF OnceOf
    <2>6. CASE InHand(f, m, {"marking"}) /\ sentEvents'[m] = Inc(sentEvents[m])
      <3>1. sentEvents'[m] = 1 /\ status[m] = "sent"
        BY ONLY <2>1, <2>6 DEF HoldOf, InHand, Inc
      <3>2. QED  BY ONLY <2>1, <2>3, <3>1, UNCHANGED <<spc, sgw, tx>> DEF OnceOf
    <2>7. QED  BY ONLY <2>4, <2>5, <2>6
  <1>5. QED
    BY ONLY LockInv, HoldInv, OnceInv, f \in Flushers, fpc[f] \in FlushHolds,
       UNCHANGED <<spc, sgw, tx>>, <1>2, <1>3, <1>4, FlushKeeps

\* A message that is to be blocked was not sent; one that goes to its provider was
\* not on the air yet.
LEMMA LimitedReplays ==
  ASSUME TypeOK, LockInv, HandInv, HoldInv, OnceInv, NEW f \in Flushers, FlushLimited(f), Current(fgen[f])
  PROVE  HoldInv' /\ OnceInv'
  <1>1. /\ TypeFlush /\ TypeRows /\ TypeHist /\ fpc[f] = "limiter" /\ fpc[f] \in FlushHolds
        /\ fcur[f] \in Msgs
    BY TypeParts DEF FlushLimited, HandInv, FlushHolds, FlushBusy
  <1>2. UNCHANGED <<spc, sgw, fpage, fcur, sentEvents>>
    BY ONLY FlushLimited(f), Current(fgen[f]) DEF FlushLimited, sender, hist
  <1>3. \/ /\ status' = [status EXCEPT ![fcur[f]] = "blocked"]
           /\ fpc' = [fpc EXCEPT ![f] = "blocking"] /\ tx' = tx
        \/ /\ status' = status
           /\ fpc' = [fpc EXCEPT ![f] = "calling"] /\ tx' = tx
    BY ONLY FlushLimited(f), Current(fgen[f]) DEF FlushLimited, hist
  <1>4. \A k \in Flushers : k # f => Keeps(k)
    BY ONLY <1>1, <1>2, <1>3 DEF TypeFlush, Keeps
  <1>5. \/ fpc'[f] = "blocking" /\ tx' = tx /\ status'[fcur[f]] = "blocked"
        \/ fpc'[f] = "calling" /\ tx' = tx /\ status' = status
    BY ONLY <1>1, <1>3, f \in Flushers DEF TypeFlush, TypeRows, TypeHist
  <1>6. \A k \in Msgs : k # fcur[f] => status'[k] = status[k] /\ tx'[k] = tx[k]
    BY ONLY <1>1, <1>3 DEF TypeRows, TypeHist
  <1>7. ASSUME NEW m \in Msgs, sgw[m] = None PROVE HoldOf(f, m)' /\ OnceOf(m)'
    <2>1. OnceOf(m) /\ HoldOf(f, m)
      BY ONLY OnceInv, HoldInv, <1>7, f \in Flushers DEF OnceInv, HoldInv
    <2>2. status[m] \in {"absent", "queued"} => tx[m] = 0 /\ sentEvents[m] = 0
      BY ONLY LockInv, OnceInv, f \in Flushers, <1>1, <1>7, NoneAired
    <2>3. CASE m # fcur[f]
      BY ONLY <1>1, <1>2, <1>5, <1>6, <1>7, <2>1, <2>2, <2>3
      DEF HoldOf, OnceOf, InHand, FlushHolds, FlushBusy
    <2>4. CASE m = fcur[f]
      <3>1. m \notin fpage[f] /\ status[m] = "queued" /\ tx[m] = 0 /\ sentEvents[m] = 0
        BY ONLY <1>1, <2>1, <2>2, <2>4 DEF HoldOf, InHand, FlushBusy
      <3>2. HoldOf(f, m)'
        BY ONLY <1>2, <1>5, <2>4, <3>1 DEF HoldOf, InHand
      <3>3. OnceOf(m)'
        BY ONLY <1>2, <1>5, <2>1, <2>4, <3>1, f \in Flushers DEF OnceOf, InHand, Inc
      <3>4. QED  BY ONLY <3>2, <3>3
    <2>5. QED  BY ONLY <2>3, <2>4
  <1>8. QED  BY ONLY LockInv, HoldInv, OnceInv, f \in Flushers, <1>1, <1>2, <1>4, <1>7, FlushKeeps

\* The provider puts it on the air once, or not at all.
LEMMA TriedReplays ==
  ASSUME TypeOK, LockInv, HandInv, HoldInv, OnceInv, NEW f \in Flushers, FlushTried(f)
  PROVE  HoldInv' /\ OnceInv'
  <1>1. /\ TypeFlush /\ TypeRows /\ TypeHist /\ fpc[f] = "calling" /\ fpc[f] \in FlushHolds
        /\ fcur[f] \in Msgs
    BY TypeParts DEF FlushTried, HandInv, FlushHolds, FlushBusy
  <1>2. UNCHANGED <<spc, sgw, fpage, fcur, sentEvents>>
    BY ONLY FlushTried(f) DEF FlushTried, sender
  <1>3. \/ /\ status' = status
           /\ fpc' = [fpc EXCEPT ![f] = "aired"] /\ tx' = [tx EXCEPT ![fcur[f]] = Inc(@)]
        \/ /\ status' = status
           /\ fpc' = [fpc EXCEPT ![f] = "lost"] /\ tx' = [tx EXCEPT ![fcur[f]] = @]
    BY ONLY FlushTried(f) DEF FlushTried
  <1>4. \A k \in Flushers : k # f => Keeps(k)
    BY ONLY <1>1, <1>2, <1>3 DEF TypeFlush, Keeps
  <1>5. \/ fpc'[f] = "aired" /\ tx'[fcur[f]] = Inc(tx[fcur[f]]) /\ status' = status
        \/ fpc'[f] = "lost" /\ tx' = tx /\ status' = status
    BY ONLY <1>1, <1>3, f \in Flushers DEF TypeFlush, TypeRows, TypeHist
  <1>6. \A k \in Msgs : k # fcur[f] => status'[k] = status[k] /\ tx'[k] = tx[k]
    BY ONLY <1>1, <1>3 DEF TypeRows, TypeHist
  <1>7. ASSUME NEW m \in Msgs, sgw[m] = None PROVE HoldOf(f, m)' /\ OnceOf(m)'
    <2>1. OnceOf(m) /\ HoldOf(f, m)
      BY ONLY OnceInv, HoldInv, <1>7, f \in Flushers DEF OnceInv, HoldInv
    <2>2. status[m] \in {"absent", "queued"} => tx[m] = 0 /\ sentEvents[m] = 0
      BY ONLY LockInv, OnceInv, f \in Flushers, <1>1, <1>7, NoneAired
    <2>3. CASE m # fcur[f]
      BY ONLY <1>1, <1>2, <1>5, <1>6, <1>7, <2>1, <2>2, <2>3
      DEF HoldOf, OnceOf, InHand, FlushHolds, FlushBusy
    <2>4. CASE m = fcur[f]
      <3>1. m \notin fpage[f] /\ status[m] = "queued" /\ tx[m] = 0 /\ sentEvents[m] = 0
        BY ONLY <1>1, <2>1, <2>2, <2>4 DEF HoldOf, InHand, FlushBusy
      <3>2. HoldOf(f, m)'
        BY ONLY <1>2, <1>5, <2>4, <3>1 DEF HoldOf, InHand
      <3>3. OnceOf(m)'
        BY ONLY <1>2, <1>5, <2>1, <2>4, <3>1, f \in Flushers DEF OnceOf, InHand, Inc
      <3>4. QED  BY ONLY <3>2, <3>3
    <2>5. QED  BY ONLY <2>3, <2>4
  <1>8. QED  BY ONLY LockInv, HoldInv, OnceInv, f \in Flushers, <1>1, <1>2, <1>4, <1>7, FlushKeeps

\* What was on the air is marked sent; what was not waits on.
LEMMA ReturnedReplays ==
  ASSUME TypeOK, LockInv, HandInv, HoldInv, OnceInv, Faults \subseteq {"disconnect"},
         NEW f \in Flushers, FlushReturned(f), Current(fgen[f])
  PROVE  HoldInv' /\ OnceInv'
  <1>1. /\ TypeFlush /\ TypeRows /\ TypeHist /\ fpc[f] \in {"aired", "lost"} /\ fpc[f] \in FlushHolds
        /\ fcur[f] \in Msgs
    BY TypeParts DEF FlushReturned, HandInv, FlushHolds, FlushBusy
  <1>2. UNCHANGED <<spc, sgw, fpage, fcur, tx, sentEvents>>
    BY ONLY FlushReturned(f), Current(fgen[f]) DEF FlushReturned, sender, hist
  <1>3. \/ /\ fpc[f] = "aired" /\ status' = [status EXCEPT ![fcur[f]] = "sent"]
           /\ fpc' = [fpc EXCEPT ![f] = "marking"]
        \/ /\ fpc[f] = "lost" /\ status' = [status EXCEPT ![fcur[f]] = "queued"]
           /\ fpc' = [fpc EXCEPT ![f] = "failing"]
    <2>1. "provider" \notin Faults
      BY ONLY Faults \subseteq {"disconnect"}
    <2>2. QED  BY ONLY <2>1, FlushReturned(f), Current(fgen[f]) DEF FlushReturned, Succeeded, Failed
  <1>4. \A k \in Flushers : k # f => Keeps(k)
    BY ONLY <1>1, <1>2, <1>3 DEF TypeFlush, Keeps
  <1>5. \/ fpc[f] = "aired" /\ fpc'[f] = "marking" /\ status'[fcur[f]] = "sent"
        \/ fpc[f] = "lost" /\ fpc'[f] = "failing" /\ status'[fcur[f]] = "queued"
    BY ONLY <1>1, <1>3, f \in Flushers DEF TypeFlush, TypeRows
  <1>6. \A k \in Msgs : k # fcur[f] => status'[k] = status[k]
    BY ONLY <1>1, <1>3 DEF TypeRows
  <1>7. \A k \in Flushers : fpc[k] = "aired" => k = f
    BY ONLY LockInv, <1>1 DEF LockInv, FlushHolds, FlushBusy
  <1>8. ASSUME NEW m \in Msgs, sgw[m] = None PROVE HoldOf(f, m)' /\ OnceOf(m)'
    <2>1. OnceOf(m) /\ HoldOf(f, m)
      BY ONLY OnceInv, HoldInv, <1>8, f \in Flushers DEF OnceInv, HoldInv
    <2>2. CASE m # fcur[f]
      <3>1. HoldOf(f, m)'
        BY ONLY <1>1, <1>2, <1>5, <1>6, <1>8, <2>1, <2>2 DEF HoldOf, InHand, FlushHolds, FlushBusy
      <3>2. status[m] \in {"absent", "queued"} => tx[m] = 0 /\ sentEvents[m] = 0
        BY ONLY <1>7, <2>1, <2>2 DEF OnceOf, InHand
      <3>3. OnceOf(m)'
        BY ONLY <1>2, <1>6, <1>8, <2>1, <2>2, <3>2 DEF OnceOf
      <3>4. QED  BY ONLY <3>1, <3>3
    <2>3. CASE m = fcur[f]
      <3>1. m \notin fpage[f] /\ status[m] = "queued" /\ (fpc[f] = "aired" => sentEvents[m] = 0)
        BY ONLY <1>1, <2>1, <2>3 DEF HoldOf, InHand, FlushBusy
      <3>2. HoldOf(f, m)'
        BY ONLY <1>2, <1>5, <2>3, <3>1 DEF HoldOf, InHand
      <3>3. fpc[f] = "lost" => tx[m] = 0 /\ sentEvents[m] = 0
        BY ONLY <1>7, <2>1, <3>1 DEF OnceOf, InHand
      <3>4. OnceOf(m)'
        BY ONLY <1>2, <1>5, <2>1, <2>3, <3>1, <3>3 DEF OnceOf
      <3>5. QED  BY ONLY <3>2, <3>4
    <2>4. QED  BY ONLY <2>2, <2>3
  <1>9. QED  BY ONLY LockInv, HoldInv, OnceInv, f \in Flushers, <1>1, <1>2, <1>4, <1>8, FlushKeeps

\* Every step keeps what the replay of queued messages rests on: with no other
\* fault than a lost connection, no task meets a fence (_outbox_lock and
\* async_pending_outbox).
LEMMA StepReplay == IInv /\ ReplayInv /\ [Next]_vars => ReplayInv'
  <1> SUFFICES ASSUME IInv, ReplayInv, [Next]_vars, Faults' \subseteq {"disconnect"}
               PROVE  Calm' /\ HoldInv' /\ OnceInv'
    BY DEF ReplayInv
  <1>f. Faults \subseteq {"disconnect"}
    BY ScenarioKept DEF Faults
  <1>t. /\ TypeOK /\ LockInv /\ RowInv /\ HandInv /\ OldGenerationDrained
        /\ Calm /\ HoldInv /\ OnceInv
    BY ONLY IInv, ReplayInv, <1>f DEF IInv, ReplayInv
  <1>c. \A f \in Flushers : fpc[f] \in FlushHolds => Current(fgen[f])
    BY ONLY <1>t DEF OldGenerationDrained, Current, Calm
  <1>u. TypeFlush
    BY ONLY <1>t, TypeParts
  <1>1. ASSUME NEW m \in Msgs, Submit(m) PROVE Calm' /\ HoldInv' /\ OnceInv'
    <2>1. Calm'
      BY ONLY <1>t, <1>1 DEF Submit, life, Calm
    <2>2. QED  BY ONLY <1>t, <1>1, <2>1, SubmitReplays
  <1>2. ASSUME NEW m \in Msgs, SendStep(m) PROVE Calm' /\ HoldInv' /\ OnceInv'
    <2>1. Calm'
      BY ONLY <1>t, <1>2, SendWrites DEF life, Calm
    <2>2. QED  BY ONLY <1>t, <1>2, <2>1, SendReplays
  <1>3. ASSUME NEW f \in Flushers, FlushStep(f) PROVE Calm' /\ HoldInv' /\ OnceInv'
    <2>1. Calm'
      BY ONLY <1>t, <1>3
      DEF FlushStep, FlushLock, FlushRead, FlushLimited, FlushTried, FlushReturned,
          FlushStatusStored, life, Calm
    <2>2. CASE FlushLock(f)
      BY ONLY <1>t, <1>3, <2>1, <2>2, LockReplays
    <2>3. CASE FlushRead(f)
      <3>1. /\ Took(f) \/ Ended(f)
            /\ fpc[f] \in FlushHolds /\ fpc[f] # "aired"
            /\ UNCHANGED <<spc, sgw, tx, sentEvents>>
        BY ONLY <1>u, <1>3, <2>3, ReadCases DEF FlushRead, sender, hist
      <3>2. QED  BY ONLY <1>t, <1>3, <2>1, <3>1, LoopReplays
    <2>4. CASE FlushLimited(f)
      <3>1. Current(fgen[f])
        BY ONLY <1>c, <1>3, <2>4 DEF FlushLimited, FlushHolds, FlushBusy
      <3>2. QED  BY ONLY <1>t, <1>3, <2>1, <2>4, <3>1, LimitedReplays
    <2>8. CASE FlushTried(f)
      BY ONLY <1>t, <1>3, <2>1, <2>8, TriedReplays
    <2>5. CASE FlushReturned(f)
      <3>1. Current(fgen[f])
        BY ONLY <1>c, <1>3, <2>5 DEF FlushReturned, FlushHolds, FlushBusy
      <3>2. QED  BY ONLY <1>f, <1>t, <1>3, <2>1, <2>5, <3>1, ReturnedReplays
    <2>6. CASE FlushStatusStored(f)
      <3>1. /\ Took(f) \/ Ended(f)
            /\ fpc[f] \in FlushHolds /\ fpc[f] # "aired"
            /\ UNCHANGED <<spc, sgw, tx>>
        BY ONLY <1>u, <1>3, <2>6, StoredCases DEF FlushStatusStored, sender
      <3>2. \/ sentEvents' = sentEvents
            \/ sentEvents' = [sentEvents EXCEPT ![fcur[f]] = IF fpc[f] = "marking" THEN Inc(@) ELSE @]
        BY ONLY <2>6 DEF FlushStatusStored
      <3>3. QED  BY ONLY <1>t, <1>3, <2>1, <3>1, <3>2, LoopReplays
    <2>7. QED  BY ONLY <1>3, <2>2, <2>3, <2>4, <2>5, <2>6, <2>8 DEF FlushStep
  <1>4. ASSUME NEW g, StartupFlush \/ IdentityChange \/ Connect(g) \/ StatusCallback(g) \/ Disconnect(g)
        PROVE  Calm' /\ HoldInv' /\ OnceInv'
    <2>1. /\ \A k \in Flushers : fpc'[k] \in FlushHolds => fpc[k] = fpc'[k] /\ fcur'[k] = fcur[k]
          /\ \A k \in Flushers : fpc'[k] \notin FlushHolds => fpc[k] \notin FlushHolds
          /\ UNCHANGED <<suspended, shutting, reloading, spc, sgw, status, fpage, delScan, tx, sentEvents>>
      BY ONLY <1>t, <1>4, StartWrites
    <2>2. \A k \in Flushers : Keeps(k) \/ Rests(k)
      BY ONLY <2>1 DEF Keeps, Rests, FlushHolds, FlushBusy
    <2>3. Calm'
      BY ONLY <1>t, <2>1 DEF Calm
    <2>4. QED  BY ONLY <1>t, <2>1, <2>2, <2>3, HandsStay
  <1>5. /\ \A m \in Msgs : ~SendCancelled(m)
        /\ \A f \in Flushers : ~FlushCancelled(f)
        /\ ~DeleteAll /\ ~DeleteBegin /\ ~DeleteScan /\ ~DeleteRows
        /\ ~BeginReload /\ ~FinishReload /\ ~DeferReload /\ ~BeginShutdown /\ ~Restart
    BY ONLY <1>f, <1>t
    DEF Calm, SendCancelled, FlushCancelled, DeleteAll, DeleteBegin, DeleteScan, DeleteRows,
        BeginReload, FinishReload, DeferReload, BeginShutdown, Restart
  <1>6. CASE UNCHANGED vars
    <2>1. /\ UNCHANGED <<life, spc, sgw, status, delScan, tx, sentEvents>>
          /\ \A k \in Flushers : Keeps(k)
      BY ONLY <1>6 DEF vars, system, sender, flush, hist, Keeps
    <2>2. Calm'
      BY ONLY <1>t, <2>1 DEF Calm, life
    <2>3. QED  BY ONLY <1>t, <2>1, <2>2, HandsStay
  <1>7. QED
    BY ONLY [Next]_vars, <1>1, <1>2, <1>3, <1>4, <1>5, <1>6 DEF Next

\* A message that was queued because no gateway was connected is delivered and
\* reported once, whichever callbacks flush at the same time and however often the
\* gateways disconnect, as long as no other fault makes its delivery ambiguous.
THEOREM ReplayIsOnce == Spec => []ReplayedOnce
  <1>1. Init => ReplayInv
    <2> SUFFICES ASSUME Init PROVE Calm /\ HoldInv /\ OnceInv
      BY DEF ReplayInv
    <2>1. Calm
      BY DEF Init, Calm
    <2>2. HoldInv
      BY DEF Init, HoldInv, HoldOf, InHand
    <2>3. OnceInv
      BY DEF Init, OnceInv, OnceOf
    <2>4. QED  BY ONLY <2>1, <2>2, <2>3
  <1>2. ReplayInv => ReplayedOnce
    BY DEF ReplayInv, OnceInv, OnceOf, ReplayedOnce
  <1>3. QED  BY <1>1, <1>2, StepReplay, InductiveInvariant, PTL DEF Spec

=============================================================================
