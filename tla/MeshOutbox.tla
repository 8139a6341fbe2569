----------------------------- MODULE MeshOutbox -----------------------------
(***************************************************************************)
(* The outbound message path of MeshNetCoordinator (coordinator.py): the   *)
(* direct send, the outbox replay that every gateway status callback runs, *)
(* the history deletion, and the lifecycle fences (reload, shutdown,       *)
(* restart) that all of them race with.                                    *)
(*                                                                         *)
(* Everything runs on one event loop, so an action is the code between two *)
(* awaits.  Store operations are serialised in the order they are issued   *)
(* and survive the cancellation of their caller (MeshStore._run_serialized)*)
(* so a write takes effect, and a read is taken, when it is issued, and    *)
(* the callers resume in that order (storeq).                              *)
(***************************************************************************)
EXTENDS Naturals, FiniteSets, Sequences

CONSTANTS
  NumMsgs,      \* number of direct sends a behaviour may submit
  Gateways,     \* gateway ids
  Protocols,    \* provider protocols
  GwProto,      \* protocol of each gateway
  Requests,     \* the requests a caller may make: [gw |-> ..., proto |-> ...]
  Flushers,     \* tasks that may run _flush_outbox at the same time
  PageLimit,    \* rows in one outbox page (100 in the code)
  ScanLimit,    \* rows in one page of a history scan, and in one statement of
                \* a deletion (500 in the code, both)
  MaxReloads,   \* bound on completed reloads in one process lifetime
  MaxCrashes,   \* bound on process restarts
  Scenarios,    \* what a behaviour may meet: faults, gateways, requests, flushers, msgs
  None          \* "no gateway", "no protocol", "no task"

FaultKinds == {"cancel", "reload", "shutdown", "crash", "provider", "delete",
               "identity", "disconnect", "unconfigure"}

ASSUME NumMsgsAssumption  == NumMsgs \in Nat
ASSUME PageAssumption     == PageLimit \in Nat \ {0} /\ ScanLimit \in Nat \ {0}
ASSUME BoundsAssumption   == MaxReloads \in Nat /\ MaxCrashes \in Nat
ASSUME NoneAssumption     == None \notin Gateways \cup Protocols \cup Flushers
ASSUME GwProtoAssumption  == GwProto \in [Gateways -> Protocols]
ASSUME RequestsAssumption ==
  Requests \subseteq [gw: Gateways \cup {None}, proto: Protocols \cup {None}]
ASSUME ScenariosAssumption ==
  Scenarios \subseteq [faults: SUBSET FaultKinds, gateways: SUBSET Gateways,
                       requests: SUBSET Requests, flushers: SUBSET Flushers,
                       msgs: 0..NumMsgs]

Msgs == 1..NumMsgs

VARIABLES
  scenario,     \* what this behaviour may meet; it never changes
  generation,   \* _gateway_generation
  suspended,    \* _reconnect_suspended
  shutting,     \* _shutting_down
  reloading,    \* async_reload_gateways is under way
  startup,      \* _gateway_startup_task has yet to run its outbox flush
  configured,   \* keys of self.gateways
  connected,    \* gateways whose status.connected is set
  targetSafe,   \* whether _revalidate_bound_target accepts a direct target now
  req,          \* request of each message, None before it is submitted
  route,        \* record.gateway_id of the row ("queued" is None)
  proto,        \* record.protocol of the row ("unknown" is None)
  status,       \* raw.status of the row, "absent" when there is no row
  spc,          \* where the direct send of a message is
  sgen,         \* generation it captured
  sgw,          \* gateway it selected
  fpc,          \* where a flush task is
  fgen,         \* generation it captured
  fgw,          \* gateway id of the callback that started it
  fpage,        \* records of its page it has not reached yet
  fcur,         \* last record it reached in this pass
  fvia,         \* gateway selected for that record
  flast,        \* whether its page was short (no further page)
  lock,         \* holder of _outbox_lock
  storeq,       \* tasks waiting for a store operation, in the order of issue
  delScan,      \* the locals of a history deletion, None when none runs
  deleted,      \* history: how the row of a message was deleted
  tx,           \* history: provider transmissions (0, 1, 2 = many)
  sentEvents,   \* history: "sent" status events (0, 1, 2 = many)
  lateEvent,    \* history: a status event was fired behind a fence
  crashes       \* history: restarts so far

life   == <<generation, suspended, shutting, reloading, startup>>
radio  == <<configured, connected, targetSafe>>
rows   == <<req, route, proto>>
sender == <<spc, sgen, sgw>>
flush  == <<fpc, fgen, fgw, fpage, fcur, fvia, flast, lock>>
hist   == <<deleted, tx, sentEvents, lateEvent, crashes>>
system == <<life, radio, rows, status, sender, flush, storeq, delScan, hist>>
vars   == <<system, scenario>>

-----------------------------------------------------------------------------
(* Helpers *)

\* The environment events of this behaviour.
Faults == scenario.faults

\* Task a issues a store operation; the operation it waits for is done; its
\* wait is cancelled (the operation itself still runs).
Issue(a)   == storeq' = Append(storeq, a)
Ready(a)   == storeq # <<>> /\ Head(storeq) = a
Resume     == storeq' = Tail(storeq)
Reissue(a) == storeq' = Append(Tail(storeq), a)
Unwait(a)  ==
  \/ (\A i \in DOMAIN storeq : storeq[i] # a) /\ UNCHANGED storeq
  \/ \E i \in DOMAIN storeq :
       /\ storeq[i] = a
       /\ storeq' = SubSeq(storeq, 1, i - 1) \o SubSeq(storeq, i + 1, Len(storeq))

\* Counters of history are kept as none, one, many.
Inc(n) == IF n < 2 THEN n + 1 ELSE 2

\* Mutated form: the check compares generations and forgets the two flags.
CurrentGenerationOnly(g) == g = generation

\* _gateway_callback_is_current
Current(g) == ~shutting /\ ~suspended /\ g = generation

\* A fence is up: nothing of the old generation may act.
Fenced == shutting \/ suspended

\* Stages of a direct send between adding and discarding its active id.
SendBusy == {"stored", "limiter", "blocking", "calling", "aired", "lost",
             "marking", "failing", "refresh"}

\* Mutated form: the id is never discarded.
ActiveForEver == {m \in Msgs : spc[m] # "new"}

\* _active_send_message_ids
Active == {m \in Msgs : spc[m] \in SendBusy}

\* Mutated form: the reload drains the outbox and forgets the direct sends.
DrainedOutboxOnly == lock = None

\* Everything a reload waits for has ended.
Drained == Active = {} /\ lock = None

\* A flush task that owns the outbox lock and has a record in hand.
FlushBusy == {"limiter", "blocking", "calling", "aired", "lost", "marking", "failing"}
FlushHolds == FlushBusy \cup {"page"}

Directed(m) == req[m].proto # None

\* Gateways a send without an explicit id may use (the node's last gateway is
\* only a preference among them).
Candidates(p) == {g \in connected : p = None \/ GwProto[g] = p}

\* _select_gateway: the results it can return; {} is the protocol mismatch
\* it raises, {None} is "no connected gateway".
Selected(gw, p) ==
  IF gw # None
    THEN IF p # None /\ GwProto[gw] # p THEN {}
         ELSE IF gw \in connected THEN {gw} ELSE {None}
    ELSE IF Candidates(p) = {} THEN {None} ELSE Candidates(p)

\* _revalidate_bound_target: a broadcast is always valid.
TargetOk(m) == ~Directed(m) \/ targetSafe

\* A provider either puts the message on the air or does not; a gateway that is
\* not connected cannot transmit.
Aired(g) == {b \in BOOLEAN : /\ b => g \in connected
                             /\ ~b => g \notin connected \/ "provider" \in Faults}

\* What a provider call that reached stage pc may return: a message that went
\* on the air may still be reported as failed.
Succeeded(pc) == pc = "aired"
Failed(pc) == pc = "lost" \/ "provider" \in Faults

-----------------------------------------------------------------------------
(* Direct send *)

\* async_send_message up to the first await: fence, route, and the row.
Submit(m) ==
  /\ m <= scenario.msgs /\ spc[m] = "new" /\ \A k \in Msgs : k < m => spc[k] # "new"
  /\ ~Fenced
  /\ \E r \in scenario.requests, g \in Gateways \cup {None} :
       /\ r.gw # None => r.gw \in configured
       /\ r.proto # None => targetSafe
       /\ g \in Selected(r.gw, r.proto)
       /\ req'   = [req EXCEPT ![m] = r]
       /\ route' = [route EXCEPT ![m] = IF g # None THEN g ELSE r.gw]
       /\ proto' = [proto EXCEPT ![m] =
            IF g # None THEN GwProto[g]
            ELSE IF r.proto # None THEN r.proto
            ELSE IF r.gw # None THEN GwProto[r.gw] ELSE None]
       /\ sgw'   = [sgw EXCEPT ![m] = g]
  /\ status' = [status EXCEPT ![m] = "queued"]
  /\ spc'    = [spc EXCEPT ![m] = "stored"]
  /\ sgen'   = [sgen EXCEPT ![m] = generation]
  /\ Issue(m)
  /\ UNCHANGED <<scenario, life, radio, flush, delScan, hist>>

\* The queued row is stored: go to the limiter, or stop when there is no
\* gateway (after refreshing the cached list) or the fence is up.
SendStored(m) ==
  /\ spc[m] = "stored" /\ Ready(m)
  /\ \/ /\ ~Current(sgen[m])
        /\ spc' = [spc EXCEPT ![m] = "done"]
        /\ Resume
     \/ /\ Current(sgen[m]) /\ sgw[m] = None
        /\ spc' = [spc EXCEPT ![m] = "refresh"]
        /\ Reissue(m)
     \/ /\ Current(sgen[m]) /\ sgw[m] # None
        /\ spc' = [spc EXCEPT ![m] = "limiter"]
        /\ Resume
  /\ UNCHANGED <<scenario, life, radio, rows, status, sgen, sgw, flush, delScan, hist>>

\* The limiter granted a token: check the fence, revalidate the target at the
\* provider boundary, and either block the row or enter the provider call.
SendLimited(m) ==
  /\ spc[m] = "limiter"
  /\ \/ /\ ~Current(sgen[m])
        /\ spc' = [spc EXCEPT ![m] = "done"]
        /\ UNCHANGED <<status, storeq>>
     \/ /\ Current(sgen[m]) /\ ~TargetOk(m)
        /\ spc' = [spc EXCEPT ![m] = "blocking"]
        /\ status' = [status EXCEPT ![m] = "blocked"]
        /\ Issue(m)
     \/ /\ Current(sgen[m]) /\ TargetOk(m)
        /\ spc' = [spc EXCEPT ![m] = "calling"]
        /\ UNCHANGED <<status, storeq>>
  /\ UNCHANGED <<scenario, life, radio, rows, sgen, sgw, flush, delScan, hist>>

\* The provider tries to transmit, after it has waited for its own lock (a
\* settings transaction may hold the one of a Bluetooth radio) or for a thread
\* of the executor.  Nothing looks at the fence or at the target again.
SendTried(m) ==
  /\ spc[m] = "calling"
  /\ \E air \in Aired(sgw[m]) :
       /\ spc' = [spc EXCEPT ![m] = IF air THEN "aired" ELSE "lost"]
       /\ tx'  = [tx EXCEPT ![m] = IF air THEN Inc(@) ELSE @]
  /\ UNCHANGED <<scenario, life, radio, rows, status, sgen, sgw, flush, storeq, delScan,
                 deleted, sentEvents, lateEvent, crashes>>

\* The provider call returned.
SendReturned(m) ==
  /\ spc[m] \in {"aired", "lost"}
  /\ \/ /\ ~Current(sgen[m])
        /\ spc' = [spc EXCEPT ![m] = "done"]
        /\ UNCHANGED <<status, storeq>>
     \/ /\ Current(sgen[m]) /\ Succeeded(spc[m])
        /\ status' = [status EXCEPT ![m] = "sent"]
        /\ spc' = [spc EXCEPT ![m] = "marking"]
        /\ Issue(m)
     \/ /\ Current(sgen[m]) /\ Failed(spc[m])
        /\ status' = [status EXCEPT ![m] = "queued"]
        /\ spc' = [spc EXCEPT ![m] = "failing"]
        /\ Issue(m)
  /\ UNCHANGED <<scenario, life, radio, rows, sgen, sgw, flush, delScan, hist>>

\* A final status is stored.  Its events are fired if the fence is still
\* down; only the "blocked" event is fired without looking.
SendStatusStored(m) ==
  /\ spc[m] \in {"blocking", "marking", "failing"} /\ Ready(m)
  /\ \/ /\ Current(sgen[m])
        /\ spc' = [spc EXCEPT ![m] = "refresh"]
        /\ Reissue(m)
     \/ /\ ~Current(sgen[m])
        /\ spc' = [spc EXCEPT ![m] = "done"]
        /\ Resume
  /\ sentEvents' = [sentEvents EXCEPT ![m] =
       IF spc[m] = "marking" /\ Current(sgen[m]) THEN Inc(@) ELSE @]
  /\ lateEvent' = (lateEvent \/ (spc[m] = "blocking" /\ Fenced))
  /\ UNCHANGED <<scenario, life, radio, rows, status, sgen, sgw, flush, delScan,
                 deleted, tx, crashes>>

\* The cached message list is refreshed and the id leaves the active set.
SendRefreshed(m) ==
  /\ spc[m] = "refresh" /\ Ready(m)
  /\ spc' = [spc EXCEPT ![m] = "done"]
  /\ Resume
  /\ UNCHANGED <<scenario, life, radio, rows, status, sgen, sgw, flush, delScan, hist>>

\* The caller, a reload or a shutdown cancels the send at one of its awaits.
SendCancelled(m) ==
  /\ "cancel" \in Faults
  /\ spc[m] \in SendBusy
  /\ spc' = [spc EXCEPT ![m] = "done"]
  /\ Unwait(m)
  /\ UNCHANGED <<scenario, life, radio, rows, status, sgen, sgw, flush, delScan, hist>>

-----------------------------------------------------------------------------
(* Outbox replay: _flush_outbox and _flush_outbox_batch *)

\* The gateway a queued record is for: the one the caller asked for, else the
\* one persisted in its row, else the gateway whose callback flushes.
Desired(f, m) == IF req[m].gw # None THEN req[m].gw
                 ELSE IF route[m] # None THEN route[m] ELSE fgw[f]

\* The route comes from the record itself.
Pinned(m) == req[m].gw # None \/ route[m] # None

\* The record is blocked for good: unknown gateway, unsafe identity, or a
\* pinned gateway of the wrong protocol.
MustBlock(f, m) ==
  \/ Desired(f, m) # None /\ Desired(f, m) \notin configured
  \/ ~TargetOk(m)
  \/ Pinned(m) /\ Selected(Desired(f, m), proto[m]) = {}

\* Mutated form: the flush does not look at the direct sends in flight.
SkippedUnroutable(f, m) ==
  ~MustBlock(f, m) /\ Selected(Desired(f, m), proto[m]) \in {{}, {None}}

\* The record is left in the queue: a direct send owns it, or no connected
\* gateway of its protocol is on offer.
Skipped(f, m) ==
  \/ m \in Active
  \/ /\ ~MustBlock(f, m)
     /\ Selected(Desired(f, m), proto[m]) \in {{}, {None}}

\* Mutated form: the page query forgets its status filter.
StoredAfter(c) == {m \in Msgs : m > c /\ status[m] # "absent"}

LockFree == lock = None

\* async_pending_outbox: the first rows behind the cursor, oldest first.
QueuedAfter(c) == {m \in Msgs : m > c /\ status[m] = "queued"}
Page(c) == {m \in QueuedAfter(c) :
              Cardinality({k \in QueuedAfter(c) : k < m}) < PageLimit}

\* A flush begins when a gateway connects, when a packet or an error of a
\* connected gateway emits its status, and once at the end of startup.
StartFlush(f, g) ==
  /\ f \in scenario.flushers /\ fpc[f] = "idle" /\ ~Fenced
  /\ fpc'  = [fpc EXCEPT ![f] = "waiting"]
  /\ fgen' = [fgen EXCEPT ![f] = generation]
  /\ fgw'  = [fgw EXCEPT ![f] = g]
  /\ fcur' = [fcur EXCEPT ![f] = 0]
  /\ UNCHANGED <<fpage, fvia, flast, lock>>

\* The task leaves the flush: its locals are gone, and leaving the "async
\* with" gives up the lock.
Leave(f) ==
  /\ fpc'   = [fpc EXCEPT ![f] = "idle"]
  /\ fgen'  = [fgen EXCEPT ![f] = 0]
  /\ fgw'   = [fgw EXCEPT ![f] = None]
  /\ fpage' = [fpage EXCEPT ![f] = {}]
  /\ fcur'  = [fcur EXCEPT ![f] = 0]
  /\ fvia'  = [fvia EXCEPT ![f] = None]
  /\ flast' = [flast EXCEPT ![f] = FALSE]
  /\ lock'  = IF lock = f THEN None ELSE lock

\* Take the lock, check the fence again and issue the page query.
FlushLock(f) ==
  /\ fpc[f] = "waiting" /\ LockFree
  /\ \/ /\ ~Current(fgen[f])
        /\ Leave(f)
        /\ UNCHANGED storeq
     \/ /\ Current(fgen[f])
        /\ lock' = f
        /\ Issue(f)
        /\ fpc' = [fpc EXCEPT ![f] = "page"]
        /\ fpage' = [fpage EXCEPT ![f] = Page(fcur[f])]
        /\ flast' = [flast EXCEPT ![f] = Cardinality(Page(fcur[f])) < PageLimit]
        /\ UNCHANGED <<fgen, fgw, fcur, fvia>>
  /\ UNCHANGED <<scenario, life, radio, rows, status, sender, delScan, hist>>

\* The loop over the page, up to the next record that is not skipped, runs
\* without an await: block that record, or choose its gateway and wait for the
\* limiter.
NextRecord(f) ==
  \E m \in fpage[f] :
    /\ ~Skipped(f, m)
    /\ \A k \in fpage[f] : k < m => Skipped(f, k)
    /\ fcur' = [fcur EXCEPT ![f] = m]
    /\ fpage' = [fpage EXCEPT ![f] = {k \in @ : k > m}]
    /\ \/ /\ MustBlock(f, m)
          /\ status' = [status EXCEPT ![m] = "blocked"]
          /\ fpc' = [fpc EXCEPT ![f] = "blocking"]
          /\ fvia' = [fvia EXCEPT ![f] = None]
          /\ Reissue(f)
       \/ /\ ~MustBlock(f, m)
          /\ \E g \in Selected(Desired(f, m), proto[m]) :
               fvia' = [fvia EXCEPT ![f] = g]
          /\ fpc' = [fpc EXCEPT ![f] = "limiter"]
          /\ Resume
          /\ UNCHANGED status
    /\ UNCHANGED <<fgen, fgw, flast, lock>>

\* Nothing of the page is left: a full page is followed by the next one, which
\* waits for the lock again.  (The refresh of the cached message list before
\* the lock is given up changes nothing here.)
PageEnd(f) ==
  /\ \A m \in fpage[f] : Skipped(f, m)
  /\ Resume
  /\ UNCHANGED status
  /\ \/ /\ flast[f]
        /\ Leave(f)
     \/ /\ ~flast[f]
        /\ \E c \in fpage[f] \cup {fcur[f]} :
             /\ \A k \in fpage[f] : k <= c
             /\ fcur' = [fcur EXCEPT ![f] = c]
        /\ fpc' = [fpc EXCEPT ![f] = "waiting"]
        /\ fpage' = [fpage EXCEPT ![f] = {}]
        /\ fvia' = [fvia EXCEPT ![f] = None]
        /\ lock' = None
        /\ UNCHANGED <<fgen, fgw, flast>>

\* The page arrived.
FlushRead(f) ==
  /\ fpc[f] = "page" /\ Ready(f)
  /\ \/ /\ ~Current(fgen[f]) \/ fpage[f] = {}
        /\ Leave(f) /\ Resume
        /\ UNCHANGED status
     \/ /\ Current(fgen[f]) /\ fpage[f] # {}
        /\ NextRecord(f) \/ PageEnd(f)
  /\ UNCHANGED <<scenario, life, radio, rows, sender, delScan, hist>>

\* The limiter granted a token: as for a direct send.
FlushLimited(f) ==
  /\ fpc[f] = "limiter"
  /\ LET m == fcur[f] IN
     \/ /\ ~Current(fgen[f])
        /\ Leave(f)
        /\ UNCHANGED <<status, storeq>>
     \/ /\ Current(fgen[f]) /\ ~TargetOk(m)
        /\ status' = [status EXCEPT ![m] = "blocked"]
        /\ fpc' = [fpc EXCEPT ![f] = "blocking"]
        /\ Issue(f)
        /\ UNCHANGED <<fgen, fgw, fpage, fcur, fvia, flast, lock>>
     \/ /\ Current(fgen[f]) /\ TargetOk(m)
        /\ fpc' = [fpc EXCEPT ![f] = "calling"]
        /\ UNCHANGED <<fgen, fgw, fpage, fcur, fvia, flast, lock, status, storeq>>
  /\ UNCHANGED <<scenario, life, radio, rows, sender, delScan, hist>>

\* The provider tries to transmit the record in hand: as for a direct send.
FlushTried(f) ==
  /\ fpc[f] = "calling"
  /\ \E air \in Aired(fvia[f]) :
       /\ fpc' = [fpc EXCEPT ![f] = IF air THEN "aired" ELSE "lost"]
       /\ tx'  = [tx EXCEPT ![fcur[f]] = IF air THEN Inc(@) ELSE @]
  /\ UNCHANGED <<scenario, life, radio, rows, status, sender, fgen, fgw, fpage, fcur,
                 fvia, flast, lock, storeq, delScan, deleted, sentEvents, lateEvent,
                 crashes>>

\* The provider call of the record in hand returned.
FlushReturned(f) ==
  /\ fpc[f] \in {"aired", "lost"}
  /\ LET m == fcur[f] IN
     \/ /\ ~Current(fgen[f])
        /\ Leave(f)
        /\ UNCHANGED <<status, storeq>>
     \/ /\ Current(fgen[f]) /\ Succeeded(fpc[f])
        /\ status' = [status EXCEPT ![m] = "sent"]
        /\ fpc' = [fpc EXCEPT ![f] = "marking"]
        /\ Issue(f)
        /\ UNCHANGED <<fgen, fgw, fpage, fcur, fvia, flast, lock>>
     \/ /\ Current(fgen[f]) /\ Failed(fpc[f])
        /\ status' = [status EXCEPT ![m] = "queued"]
        /\ fpc' = [fpc EXCEPT ![f] = "failing"]
        /\ Issue(f)
        /\ UNCHANGED <<fgen, fgw, fpage, fcur, fvia, flast, lock>>
  /\ UNCHANGED <<scenario, life, radio, rows, sender, delScan, hist>>

\* The status of the record in hand is stored: events, then the loop goes on.
FlushStatusStored(f) ==
  /\ fpc[f] \in {"blocking", "marking", "failing"} /\ Ready(f)
  /\ \/ /\ ~Current(fgen[f])
        /\ Leave(f) /\ Resume
        /\ UNCHANGED <<status, sentEvents>>
     \/ /\ Current(fgen[f])
        /\ sentEvents' = [sentEvents EXCEPT ![fcur[f]] =
             IF fpc[f] = "marking" THEN Inc(@) ELSE @]
        /\ NextRecord(f) \/ PageEnd(f)
  /\ UNCHANGED <<scenario, life, radio, rows, sender, delScan, deleted, tx, lateEvent,
                 crashes>>

\* The task that flushes is cancelled: a reload, a shutdown, the reconnect
\* task that a connected status cancels, or a stopping transport.
FlushCancelled(f) ==
  /\ "cancel" \in Faults
  /\ fpc[f] # "idle"
  /\ Leave(f) /\ Unwait(f)
  /\ UNCHANGED <<scenario, life, radio, rows, status, sender, delScan, hist>>

-----------------------------------------------------------------------------
(* Gateways, history deletion and lifecycle *)

\* A transport connects; its status callback flushes the outbox at once,
\* unless the fence is up.
Connect(g) ==
  /\ g \in configured \ connected
  /\ connected' = connected \cup {g}
  /\ \/ Fenced /\ UNCHANGED flush
     \/ \E f \in Flushers : StartFlush(f, g)
  /\ UNCHANGED <<scenario, life, configured, targetSafe, rows, status, sender, storeq,
                 delScan, hist>>

\* A packet or an error makes a connected gateway emit its status.
StatusCallback(g) ==
  /\ g \in connected
  /\ \E f \in Flushers : StartFlush(f, g)
  /\ UNCHANGED <<scenario, life, radio, rows, status, sender, storeq,
                 delScan, hist>>

\* async_start_gateways flushes once every transport has been started.
StartupFlush ==
  /\ startup
  /\ startup' = FALSE
  /\ \E f \in Flushers : StartFlush(f, None)
  /\ UNCHANGED <<scenario, generation, suspended, shutting, reloading, radio, rows,
                 status, sender, storeq, delScan, hist>>

Disconnect(g) ==
  /\ "disconnect" \in Faults
  /\ g \in connected
  /\ connected' = connected \ {g}
  /\ UNCHANGED <<scenario, life, configured, targetSafe, rows, status, sender, flush,
                 storeq, delScan, hist>>

\* A node update makes the identity of the direct target unsafe, or safe.
IdentityChange ==
  /\ "identity" \in Faults
  /\ targetSafe' = ~targetSafe
  /\ UNCHANGED <<scenario, life, configured, connected, rows, status, sender, flush,
                 storeq, delScan, hist>>

\* A flush holds a copy of the row of m that it may still write back.
Held(m) ==
  \E f \in Flushers : m \in fpage[f] \/ (fpc[f] \in FlushBusy /\ m = fcur[f])

\* Messages whose direct send has begun.
Submitted == {m \in Msgs : spc[m] # "new"}

\* The rows of S are deleted; before is what had been submitted when the
\* deletion began.  "held": a flush has a copy of the row; "late": its direct
\* send began after the deletion did and is in flight; "idle": neither.
Remove(S, before) ==
  /\ status'  = [m \in Msgs |-> IF m \in S THEN "absent" ELSE status[m]]
  /\ deleted' = [m \in Msgs |->
       IF m \in S /\ status[m] # "absent"
         THEN IF Held(m) THEN "held"
              ELSE IF m \in Active \ before THEN "late" ELSE "idle"
         ELSE deleted[m]]

\* The first rows of S, oldest first, as many as one page or statement takes.
FirstRows(S) == {m \in S : Cardinality({k \in S : k < m}) < ScanLimit}
ScanPage(S)  == FirstRows({m \in S : status[m] # "absent"})

\* async_delete_message_history: with nothing in flight and scope "all" one
\* statement deletes every row.
DeleteAll ==
  /\ "delete" \in Faults
  /\ Active = {} /\ delScan = None
  /\ Remove(Msgs, Submitted)
  /\ UNCHANGED <<scenario, life, radio, rows, sender, flush, storeq, delScan, tx,
                 sentEvents, lateEvent, crashes>>

\* Mutated form: the sends in flight are not left out.
DeleteBeginActive ==
  /\ "delete" \in Faults /\ delScan = None
  /\ \E scope \in SUBSET Msgs :
       delScan' = [scope |-> scope, before |-> Submitted,
                   page |-> ScanPage(Msgs), rows |-> {}, scanning |-> TRUE]
  /\ Issue(None)
  /\ UNCHANGED <<scenario, life, radio, rows, status, sender, flush, hist>>

\* Otherwise the ids of the sends that are in flight now are left out of the
\* scope, a conversation or everything, and the history is scanned: the first
\* page is read now ...
DeleteBegin ==
  /\ "delete" \in Faults /\ delScan = None
  /\ \E scope \in SUBSET Msgs :
       delScan' = [scope |-> scope \ Active, before |-> Submitted,
                   page |-> ScanPage(Msgs), rows |-> {}, scanning |-> TRUE]
  /\ Issue(None)
  /\ UNCHANGED <<scenario, life, radio, rows, status, sender, flush, hist>>

\* Rows are deleted in statements of ScanLimit rows each, one after the other.
DeleteFirst(S) ==
  \/ /\ S = {}
     /\ delScan' = None
     /\ Resume
     /\ UNCHANGED <<status, deleted>>
  \/ /\ S # {}
     /\ Remove(FirstRows(S), delScan.before)
     /\ delScan' = [delScan EXCEPT !.page = {}, !.rows = S \ FirstRows(S),
                                   !.scanning = FALSE]
     /\ Reissue(None)

\* ... and every further one when the one before has arrived: a row that was
\* stored meanwhile is on it.  A page that is not full is the last.
DeleteScan ==
  /\ delScan # None /\ Ready(None) /\ delScan.scanning
  /\ LET found == delScan.rows \cup (delScan.page \cap delScan.scope) IN
     \/ /\ Cardinality(delScan.page) = ScanLimit
        /\ delScan' = [delScan EXCEPT
             !.rows = found,
             !.page = ScanPage({m \in Msgs : \A k \in delScan.page : k < m})]
        /\ Reissue(None)
        /\ UNCHANGED <<status, deleted>>
     \/ /\ Cardinality(delScan.page) < ScanLimit
        /\ DeleteFirst(found)
  /\ UNCHANGED <<scenario, life, radio, rows, sender, flush, tx, sentEvents,
                 lateEvent, crashes>>

\* A statement is done: the next one.
DeleteRows ==
  /\ delScan # None /\ Ready(None) /\ ~delScan.scanning
  /\ DeleteFirst(delScan.rows)
  /\ UNCHANGED <<scenario, life, radio, rows, sender, flush, tx, sentEvents,
                 lateEvent, crashes>>

\* async_reload_gateways raises the fence and cancels the startup task ...
BeginReload ==
  /\ "reload" \in Faults
  /\ ~Fenced /\ ~reloading /\ generation <= MaxReloads
  /\ reloading' = TRUE /\ suspended' = TRUE /\ startup' = FALSE
  /\ UNCHANGED <<scenario, generation, shutting, radio, rows, status, sender, flush,
                 storeq, delScan, hist>>

\* ... and, when the flush and the sends have drained, stops the gateways and
\* builds the new generation from the current configuration.
FinishReload ==
  /\ reloading /\ Drained
  /\ generation' = generation + 1
  /\ reloading' = FALSE /\ suspended' = FALSE /\ startup' = ~shutting
  /\ connected' = {}
  /\ configured' \in IF "unconfigure" \in Faults
                     THEN SUBSET scenario.gateways ELSE {configured}
  /\ UNCHANGED <<scenario, shutting, targetSafe, rows, status, sender, flush,
                 storeq, delScan, hist>>

\* When something did not drain in time the old generation goes on.
DeferReload ==
  /\ reloading
  /\ reloading' = FALSE /\ suspended' = FALSE
  /\ UNCHANGED <<scenario, generation, shutting, startup, radio, rows, status, sender,
                 flush, storeq, delScan, hist>>

\* async_shutdown raises both fences for good.
BeginShutdown ==
  /\ "shutdown" \in Faults /\ ~shutting
  /\ shutting' = TRUE /\ suspended' = TRUE /\ startup' = FALSE
  /\ UNCHANGED <<scenario, generation, reloading, radio, rows, status, sender, flush,
                 storeq, delScan, hist>>

\* The process ends (a crash at any point, or after a shutdown) and is set up
\* again: only the rows survive.
Restart ==
  /\ "crash" \in Faults /\ crashes < MaxCrashes
  /\ crashes' = crashes + 1
  /\ generation' = 1
  /\ suspended' = FALSE /\ shutting' = FALSE
  /\ reloading' = FALSE /\ startup' = TRUE
  /\ connected' = {}
  /\ spc' = [m \in Msgs |-> IF spc[m] = "new" THEN "new" ELSE "done"]
  /\ fpc' = [f \in Flushers |-> "idle"] /\ fgen' = [f \in Flushers |-> 0]
  /\ fgw' = [f \in Flushers |-> None] /\ fpage' = [f \in Flushers |-> {}]
  /\ fcur' = [f \in Flushers |-> 0] /\ fvia' = [f \in Flushers |-> None]
  /\ flast' = [f \in Flushers |-> FALSE]
  /\ lock' = None /\ storeq' = <<>> /\ delScan' = None
  /\ UNCHANGED <<scenario, configured, targetSafe, rows, status, sgen, sgw, deleted,
                 tx, sentEvents, lateEvent>>

-----------------------------------------------------------------------------
(* Specification *)

Init ==
  /\ scenario \in Scenarios
  /\ generation = 1 /\ suspended = FALSE /\ shutting = FALSE
  /\ reloading = FALSE /\ startup = TRUE
  /\ configured = scenario.gateways /\ connected = {} /\ targetSafe = TRUE
  /\ req    = [m \in Msgs |-> None]
  /\ route  = [m \in Msgs |-> None]
  /\ proto  = [m \in Msgs |-> None]
  /\ status = [m \in Msgs |-> "absent"]
  /\ spc    = [m \in Msgs |-> "new"]
  /\ sgen   = [m \in Msgs |-> 0]
  /\ sgw    = [m \in Msgs |-> None]
  /\ fpc    = [f \in Flushers |-> "idle"]
  /\ fgen   = [f \in Flushers |-> 0]
  /\ fgw    = [f \in Flushers |-> None]
  /\ fpage  = [f \in Flushers |-> {}]
  /\ fcur   = [f \in Flushers |-> 0]
  /\ fvia   = [f \in Flushers |-> None]
  /\ flast  = [f \in Flushers |-> FALSE]
  /\ lock = None /\ storeq = <<>> /\ delScan = None
  /\ deleted    = [m \in Msgs |-> "no"]
  /\ tx         = [m \in Msgs |-> 0]
  /\ sentEvents = [m \in Msgs |-> 0]
  /\ lateEvent = FALSE /\ crashes = 0

SendStep(m) == \/ SendStored(m) \/ SendLimited(m) \/ SendTried(m) \/ SendReturned(m)
               \/ SendStatusStored(m) \/ SendRefreshed(m)

\* What wakes a flush task that has the lock, or could take it.
FlushStep(f) == \/ FlushLock(f) \/ FlushRead(f) \/ FlushLimited(f) \/ FlushTried(f)
                \/ FlushReturned(f) \/ FlushStatusStored(f)

Next ==
  \/ \E m \in Msgs : Submit(m) \/ SendStep(m) \/ SendCancelled(m)
  \/ \E f \in Flushers : FlushStep(f) \/ FlushCancelled(f)
  \/ \E g \in Gateways : Connect(g) \/ StatusCallback(g) \/ Disconnect(g)
  \/ StartupFlush \/ IdentityChange
  \/ DeleteAll \/ DeleteBegin \/ DeleteScan \/ DeleteRows
  \/ BeginReload \/ FinishReload \/ DeferReload \/ BeginShutdown \/ Restart

Spec == Init /\ [][Next]_vars

\* The event loop runs every task that is ready; asyncio.Lock hands the lock
\* over in FIFO order, so a waiting flush is not overtaken for ever; provider
\* calls and the limiter return (each transport bounds its calls); a reload
\* waits at most _GATEWAY_TASK_CANCEL_TIMEOUT for every task.
Fairness ==
  /\ \A m \in Msgs : WF_vars(SendStep(m))
  /\ \A f \in Flushers : SF_vars(FlushLock(f)) /\ WF_vars(FlushStep(f))
  /\ WF_vars(FinishReload \/ DeferReload)
  /\ WF_vars(StartupFlush) /\ WF_vars(DeleteScan \/ DeleteRows)

FairSpec == Spec /\ Fairness

\* As FairSpec, for radios that keep hearing traffic: every connected gateway
\* goes on emitting its status.
BusySpec == FairSpec /\ \A g \in Gateways : SF_vars(StatusCallback(g))

-----------------------------------------------------------------------------
(* Invariants *)

\* The locals of async_delete_message_history: scope without the ids it leaves
\* out, what had been submitted when it began, the page it is reading, the rows
\* it has yet to delete, whether it is still scanning.
DeletionState == [scope: SUBSET Msgs, before: SUBSET Msgs, page: SUBSET Msgs,
                  rows: SUBSET Msgs, scanning: BOOLEAN]

\* Type invariant.
TypeOK ==
  /\ scenario \in Scenarios
  /\ generation \in 1..(MaxReloads + 1) /\ (reloading => generation <= MaxReloads)
  /\ suspended \in BOOLEAN /\ shutting \in BOOLEAN
  /\ reloading \in BOOLEAN /\ startup \in BOOLEAN
  /\ configured \subseteq Gateways /\ connected \subseteq configured
  /\ targetSafe \in BOOLEAN
  /\ req \in [Msgs -> Requests \cup {None}]
  /\ route \in [Msgs -> Gateways \cup {None}]
  /\ proto \in [Msgs -> Protocols \cup {None}]
  /\ status \in [Msgs -> {"absent", "queued", "sent", "blocked"}]
  /\ spc \in [Msgs -> SendBusy \cup {"new", "done"}]
  /\ sgen \in [Msgs -> 0..(MaxReloads + 1)]
  /\ sgw \in [Msgs -> Gateways \cup {None}]
  /\ fpc \in [Flushers -> FlushHolds \cup {"idle", "waiting"}]
  /\ fgen \in [Flushers -> 0..(MaxReloads + 1)]
  /\ fgw \in [Flushers -> Gateways \cup {None}]
  /\ fpage \in [Flushers -> SUBSET Msgs]
  /\ fcur \in [Flushers -> 0..NumMsgs]
  /\ fvia \in [Flushers -> Gateways \cup {None}]
  /\ flast \in [Flushers -> BOOLEAN]
  /\ lock \in Flushers \cup {None}
  /\ storeq \in Seq(Msgs \cup Flushers \cup {None})
  /\ delScan \in DeletionState \cup {None}
  /\ deleted \in [Msgs -> {"no", "held", "late", "idle"}]
  /\ tx \in [Msgs -> 0..2] /\ sentEvents \in [Msgs -> 0..2]
  /\ lateEvent \in BOOLEAN /\ crashes \in 0..MaxCrashes

\* No message is ever in the hands of two tasks at once: while its direct send
\* is in flight no flush delivers it, and two flushes never deliver at once
\* (the active-id set of the direct send, and _outbox_lock).
OneDelivery ==
  /\ \A m \in Msgs, f \in Flushers :
       ~(spc[m] \in SendBusy /\ fpc[f] \in FlushBusy /\ fcur[f] = m)
  /\ \A f, k \in Flushers :
       fpc[f] \in FlushHolds /\ fpc[k] \in FlushHolds => f = k

\* A row that says "sent" was put on the air, whichever task wrote it last
\* (_async_send_message_record, _flush_outbox_batch).
SentWasAired == \A m \in Msgs : status[m] = "sent" => tx[m] > 0

\* A task that has a provider call or a store write under way belongs to the
\* current gateways: a reload completes only after it has drained them.
OldGenerationDrained ==
  /\ \A m \in Msgs : spc[m] \in SendBusy => sgen[m] = generation
  /\ \A f \in Flushers : fpc[f] \in FlushHolds => fgen[f] = generation

\* A message that was queued because no gateway was connected is delivered, and
\* reported as sent, once, however many callbacks flush at the same time and
\* however often gateways disconnect (the other faults make a delivery
\* ambiguous).
ReplayedOnce ==
  Faults \subseteq {"disconnect"} =>
    \A m \in Msgs : sgw[m] = None => tx[m] <= 1 /\ sentEvents[m] <= 1

\* A row deleted while no flush held a copy of it never comes back: no direct
\* send that began before the deletion did, however late its provider answers,
\* writes a row that the deletion removed, whatever pages and statements it took
\* (async_delete_message_history and the active ids it captures).
DeletedStaysDeleted == \A m \in Msgs : deleted[m] = "idle" => status[m] = "absent"

-----------------------------------------------------------------------------
(* Action properties *)

\* Messages that a provider call has in hand.
InProvider == {"calling", "aired", "lost"}
Calling == {m \in Msgs : \/ spc[m] \in InProvider
                         \/ \E f \in Flushers : fpc[f] \in InProvider /\ fcur[f] = m}

\* While the coordinator is fenced (reload or shutdown under way) no row is
\* written and no "sent" event is fired, no message is handed to a provider, and
\* only one that a provider call had in hand already can still go on the air; a
\* deletion may remove rows.
FenceHolds ==
  [][Fenced => /\ \A m \in Msgs : status'[m] \in {status[m], "absent"}
               /\ sentEvents' = sentEvents
               /\ Calling' \subseteq Calling
               /\ \A m \in Msgs : tx'[m] # tx[m] => m \in Calling]_vars

-----------------------------------------------------------------------------
(* Liveness *)

\* Once the gateways stay connected, no queued row stays queued for ever.
QueueDrains ==
  <>[](connected = scenario.gateways /\ ~Fenced)
    => \A m \in Msgs : []<>(status[m] # "queued")

-----------------------------------------------------------------------------
(* What the documents of the repository say, which the code does not do *)

\* docs/ADVANCED_MESH_OPERATIONS.md:649-650: immediate send and replay "each
\* emit exactly one safe status transition".
OneSentEvent == \A m \in Msgs : sentEvents[m] <= 1

\* _block_unsafe_message (coordinator.py:1966): a blocked row is "permanently
\* non-retryable": it is not transmitted any more.
BlockedIsFinal ==
  [][\A m \in Msgs : status[m] = "blocked" => tx'[m] = tx[m]]_vars

\* async_delete_message_history (coordinator.py:3945): "a late provider
\* acknowledgement cannot resurrect a deleted row".
NoResurrection == \A m \in Msgs : deleted[m] # "no" => status[m] = "absent"

\* The same, for the record that a flush is delivering set aside.
NoLateResurrection == \A m \in Msgs : deleted[m] = "late" => status[m] = "absent"

\* What one may read into the fence, and no comment promises: nothing goes on the
\* air behind it.  A message that a provider call already has in hand does; its row
\* stays queued, and the next generation transmits it once more.
NothingAiredBehindFence == [][Fenced => tx' = tx]_vars

\* Nor is the target looked at again: a message to a node may be put on the air
\* when the identity of the node is no longer proven (coordinator.py:2044: it is
\* proven "immediately before entering the provider coroutine").
OnlySafeTargets ==
  [][\A m \in Msgs : tx'[m] # tx[m] /\ Directed(m) => targetSafe]_vars

\* _async_send_message (coordinator.py:1593): the send is done "while fencing
\* storage and events from lifecycle changes".
NoLateEvent == ~lateEvent

=============================================================================
