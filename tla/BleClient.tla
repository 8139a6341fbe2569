------------------------------- MODULE BleClient -------------------------------
(***************************************************************************)
(* The asyncio Bluetooth client of one Meshtastic radio                    *)
(* (aiomeshtastic/client.py over aiomeshtastic/bluetooth.py): a supervisor *)
(* task that connects, downloads the configuration, keeps a session and    *)
(* reconnects; async_start and async_stop around it; the ownership of the  *)
(* radio's one GATT endpoint while teardowns fail and cancellations are    *)
(* ignored; requests that wait for an answer; and the settings transaction *)
(* whose commit reboots the radio and is verified from a later connection. *)
(*                                                                         *)
(* One caller (the adapter) starts and stops the client, one call at a     *)
(* time.  A timeout may fire at every await.                               *)
(***************************************************************************)
EXTENDS Naturals, FiniteSets

CONSTANTS MaxConns,  \* bound: connections attempted
          Asks,      \* requests for one answer: a traceroute, a NeighborInfo
          None

ASSUME MaxConnsAssumption == MaxConns \in Nat \ {0}
ASSUME NoneAssumption == None \notin 1..MaxConns

Conns == 1..MaxConns
Values == {"old", "new", "other"}

VARIABLES
    link,      \* per connection: the GATT link is up
    disc,      \* per connection: its bounded disconnect left a task behind
    session,   \* per connection: reader and heartbeat, "none", "run" or "stuck"
    made,      \* connections made so far
    connRef,   \* _connection
    taskRef,   \* the connection of _reader_task and _heartbeat_task
    run,       \* the supervisor: where it is, its connection, a pending cancellation
    flags,     \* _ever_active, _connected, _stop_event, _start_result_event, callbacks
    state,     \* "fresh", "stopped" or "incomplete", what the last call left
    caller,    \* the adapter's call: "idle", "start" or a stage of async_stop
    done,      \* a configuration download: sequence, generation, complete, captured
    gen,       \* _connection_generation
    ask,       \* per request: its stage and the connection it was written on
    tx,        \* the settings transaction
    radio      \* the radio's value, its edit, and what it reported since the plan

linkVars == <<link, disc, session, made, connRef, taskRef>>
callVars == <<flags, state, caller>>
dataVars == <<done, gen, ask, tx, radio>>
vars == <<link, disc, session, made, connRef, taskRef, run, flags, state, caller,
          done, gen, ask, tx, radio>>

Sessions == {"request", "config", "active"}
Stages == {"idle", "start", "rejoin", "stopRunner", "stopTasks", "stopLink", "stopEnd"}
Messages == {"begin", "write", "commit"}

TypeOK ==
    /\ link \in [Conns -> BOOLEAN] /\ disc \in [Conns -> BOOLEAN]
    /\ session \in [Conns -> {"none", "run", "stuck"}]
    /\ made \in 0..MaxConns /\ gen \in 0..MaxConns
    /\ connRef \in Conns \cup {None} /\ taskRef \in Conns \cup {None}
    /\ run \in [pc : {"resolve", "connect", "cleanTasks", "cleanLink", "delay", "done"} \cup Sessions,
                conn : Conns \cup {None}, cancel : BOOLEAN]
    /\ flags \in [ever : BOOLEAN, connected : BOOLEAN, stop : BOOLEAN, result : BOOLEAN,
                  callbacks : BOOLEAN]
    /\ state \in {"fresh", "stopped", "incomplete"}
    /\ caller \in Stages
    /\ done \in [seq : 0..MaxConns, gen : 0..MaxConns, complete : BOOLEAN, value : Values]
    /\ ask \in [Asks -> [pc : {"idle", "wait", "answered"}, conn : Conns \cup {None}]]
    /\ tx \in [pc : {"idle", "send", "ack", "readback"}, msg : Messages, conn : Conns \cup {None},
               seq : 0..MaxConns, gen : 0..MaxConns, attempted : BOOLEAN,
               verdict : {"none", "verified", "mismatch", "unknown", "failed"}]
    /\ radio \in [value : Values, edit : {"none", "open", "new"}, seen : SUBSET Values,
                  committed : BOOLEAN]

Init ==
    /\ link = [c \in Conns |-> FALSE] /\ disc = [c \in Conns |-> FALSE]
    /\ session = [c \in Conns |-> "none"]
    /\ made = 0 /\ gen = 0
    /\ connRef = None /\ taskRef = None
    /\ run = [pc |-> "done", conn |-> None, cancel |-> FALSE]
    /\ flags = [ever |-> FALSE, connected |-> FALSE, stop |-> FALSE, result |-> FALSE,
                callbacks |-> FALSE]
    /\ state = "fresh"
    /\ caller = "idle"
    /\ done = [seq |-> 0, gen |-> 0, complete |-> FALSE, value |-> "old"]
    /\ ask = [k \in Asks |-> [pc |-> "idle", conn |-> None]]
    /\ tx = [pc |-> "idle", msg |-> "begin", conn |-> None, seq |-> 0, gen |-> 0,
             attempted |-> FALSE, verdict |-> "none"]
    /\ radio = [value |-> "old", edit |-> "none", seen |-> {}, committed |-> FALSE]

-----------------------------------------------------------------------------

\* owns_endpoint: the link, or a disconnect that has not returned.
Owns(c) == link[c] \/ disc[c]

OwnsRef == connRef # None /\ Owns(connRef)

RunnerLive == run.pc # "done"
TasksLive == taskRef # None /\ session[taskRef] # "none"
Stopping == caller \in {"stopRunner", "stopTasks", "stopLink", "stopEnd"}

\* The property `connected`.
Connected == flags.connected /\ connRef # None /\ link[connRef] /\ ~Stopping

\* _cleanup_owners_pending: an older lifecycle can still touch the radio.
OwnersPending ==
    LET stale == flags.stop \/ state = "incomplete"
    IN \/ TasksLive /\ (stale \/ ~RunnerLive)
       \/ RunnerLive /\ stale
       \/ flags.callbacks /\ (stale \/ ~RunnerLive)

\* Mutated form: waiters survive the session.
PendingKept == ask

\* _fail_pending_admin_responses: every waiter hears that its session is gone.  The
\* transaction hears it as a lost answer.
PendingFailed == [k \in Asks |-> IF ask[k].pc = "wait" THEN [pc |-> "idle", conn |-> None] ELSE ask[k]]

-----------------------------------------------------------------------------
(* The supervisor: _run_supervisor and _cleanup_session.                     *)

\* The outer finally: nobody is told "connected" any more, a start may return.
RunnerEnds ==
    /\ run' = [pc |-> "done", conn |-> None, cancel |-> FALSE]
    /\ flags' = [flags EXCEPT !.connected = FALSE, !.result = TRUE,
                              !.callbacks = @ \/ flags.connected]

\* The radio is visible: a new connection object replaces the last one.
RunnerResolves ==
    /\ run.pc = "resolve" /\ ~run.cancel /\ made < MaxConns
    /\ made' = made + 1
    /\ connRef' = made + 1
    /\ run' = [run EXCEPT !.pc = "connect", !.conn = made + 1]
    /\ UNCHANGED <<link, disc, session, taskRef, callVars, dataVars>>

\* Without a connection there is nothing to clean up.
ResolveFails ==
    /\ run.pc = "resolve"
    /\ IF flags.ever /\ ~run.cancel
       THEN run' = [run EXCEPT !.pc = "delay"] /\ UNCHANGED flags
       ELSE RunnerEnds
    /\ UNCHANGED <<linkVars, state, caller, dataVars>>

\* async_connect, and with the next generation a new refresh of the settings.
RunnerConnects ==
    /\ run.pc = "connect" /\ ~run.cancel
    /\ link' = [link EXCEPT ![run.conn] = TRUE]
    /\ gen' = gen + 1
    /\ done' = [done EXCEPT !.complete = FALSE]
    /\ run' = [run EXCEPT !.pc = "request"]
    /\ UNCHANGED <<disc, session, made, connRef, taskRef, callVars, ask, tx, radio>>

\* The connector, the profile or the notifications fail or are cancelled; the
\* bounded cleanup of the half-made link may fail too.
ConnectFails ==
    /\ run.pc = "connect"
    /\ \E up, left \in BOOLEAN :
          /\ link' = [link EXCEPT ![run.conn] = up]
          /\ disc' = [disc EXCEPT ![run.conn] = left /\ up]
    /\ run' = [run EXCEPT !.pc = "cleanLink"]
    /\ UNCHANGED <<session, made, connRef, taskRef, callVars, dataVars>>

\* want_config is written before the reader exists.
RunnerRequests ==
    /\ run.pc = "request" /\ ~run.cancel /\ link[run.conn]
    /\ session' = [session EXCEPT ![run.conn] = "run"]
    /\ taskRef' = run.conn
    /\ run' = [run EXCEPT !.pc = "config"]
    /\ UNCHANGED <<link, disc, made, connRef, callVars, dataVars>>

\* config_complete_id of this connection's request: the session is active.
RunnerActive ==
    /\ run.pc = "config" /\ ~run.cancel /\ link[run.conn]
    /\ done' = [seq |-> done.seq + 1, gen |-> gen, complete |-> TRUE, value |-> radio.value]
    /\ radio' = [radio EXCEPT !.seen = @ \cup {radio.value}]
    /\ flags' = [flags EXCEPT !.ever = TRUE, !.connected = TRUE, !.result = TRUE, !.callbacks = TRUE]
    /\ run' = [run EXCEPT !.pc = "active"]
    /\ UNCHANGED <<linkVars, state, caller, gen, ask, tx>>

\* A lost link, a failed write or read, a configuration that timed out, or the
\* cancellation: fail the waiters, cancel the session tasks.
SessionEnds ==
    /\ run.pc \in Sessions
    /\ flags' = [flags EXCEPT !.connected = FALSE, !.callbacks = @ \/ flags.connected]
    /\ ask' = PendingFailed
    /\ run' = [run EXCEPT !.pc = "cleanTasks"]
    /\ UNCHANGED <<linkVars, state, caller, done, gen, tx, radio>>

\* They stop within their bound, and their references go.
SessionStops ==
    /\ run.pc = "cleanTasks" /\ session[run.conn] # "stuck"
    /\ session' = [session EXCEPT ![run.conn] = "none"]
    /\ taskRef' = IF taskRef = run.conn THEN None ELSE taskRef
    /\ run' = [run EXCEPT !.pc = "cleanLink"]
    /\ UNCHANGED <<link, disc, made, connRef, callVars, dataVars>>

\* Or not (a read that ignores its cancellation), or the wait itself is cancelled:
\* the supervisor ends and touches the link no more.
SessionSticks ==
    /\ run.pc = "cleanTasks" /\ session[run.conn] = "run"
    /\ session' = [session EXCEPT ![run.conn] = "stuck"]
    /\ RunnerEnds
    /\ UNCHANGED <<link, disc, made, connRef, taskRef, state, caller, dataVars>>

\* What a bounded disconnect leaves: released, a link that is still up, or a task
\* of the platform that has not returned.
Disconnected(c) ==
    \E up, left \in BOOLEAN :
        /\ up => link[c]
        /\ link' = [link EXCEPT ![c] = up]
        /\ disc' = [disc EXCEPT ![c] = left]

\* Mutated form: a link that is down is a confirmed teardown.
LinkIsDown == ~link'[run.conn]

TeardownConfirmed == ~link'[run.conn] /\ ~disc'[run.conn]

\* async_disconnect of the session.  Unconfirmed, it ends the supervisor, and
\* _connection stays; confirmed, the supervisor ends or waits to reconnect.
RunnerDisconnects ==
    /\ run.pc = "cleanLink"
    /\ Disconnected(run.conn)
    /\ connRef' = IF connRef = run.conn /\ ~link'[run.conn] /\ ~disc'[run.conn] THEN None ELSE connRef
    /\ IF TeardownConfirmed /\ flags.ever /\ ~run.cancel /\ ~flags.stop
       THEN run' = [pc |-> "delay", conn |-> None, cancel |-> FALSE] /\ UNCHANGED flags
       ELSE RunnerEnds
    /\ UNCHANGED <<session, made, taskRef, state, caller, dataVars>>

RunnerRetries ==
    /\ run.pc = "delay"
    /\ IF run.cancel THEN RunnerEnds ELSE run' = [run EXCEPT !.pc = "resolve"] /\ UNCHANGED flags
    /\ UNCHANGED <<linkVars, state, caller, dataVars>>

-----------------------------------------------------------------------------
(* async_start and async_stop.                                               *)

\* Already connected or an older owner pending: the call returns or fails at once.
StartRefused ==
    /\ caller = "idle" /\ ~Connected
    /\ OwnersPending \/ OwnsRef
    /\ taskRef' = IF TasksLive THEN taskRef ELSE None
    /\ UNCHANGED <<link, disc, session, made, connRef, run, callVars, dataVars>>

\* A fresh supervisor, or the wait for the one that is still reconnecting.
Start ==
    /\ caller = "idle" /\ ~Connected
    /\ ~OwnersPending /\ ~OwnsRef
    /\ caller' = IF RunnerLive /\ flags.ever THEN "rejoin" ELSE "start"
    /\ taskRef' = IF TasksLive THEN taskRef ELSE None
    /\ IF RunnerLive
       THEN UNCHANGED <<run, flags, state>>
       ELSE /\ run' = [pc |-> "resolve", conn |-> None, cancel |-> FALSE]
            /\ flags' = [flags EXCEPT !.ever = FALSE, !.stop = FALSE, !.result = FALSE]
            /\ state' = "fresh"
    /\ UNCHANGED <<link, disc, session, made, connRef, dataVars>>

\* The first result, or for a reconnecting session the next activation.
StartReturns ==
    /\ \/ caller = "start" /\ flags.result
       \/ caller = "rejoin" /\ flags.connected
    /\ caller' = "idle"
    /\ UNCHANGED <<linkVars, run, flags, state, dataVars>>

\* async_stop by the adapter, or by a start that timed out or was cancelled.
StopBegins ==
    /\ caller \in {"idle", "start", "rejoin"}
    /\ flags' = [flags EXCEPT !.stop = TRUE]
    /\ ask' = PendingFailed
    /\ run' = [run EXCEPT !.cancel = RunnerLive]
    /\ caller' = "stopRunner"
    /\ UNCHANGED <<linkVars, state, done, gen, tx, radio>>

\* The supervisor has ended, or the wait for it has.
StopWaited ==
    /\ caller = "stopRunner"
    /\ caller' = IF RunnerLive THEN "stopEnd" ELSE "stopTasks"
    /\ UNCHANGED <<linkVars, run, flags, state, dataVars>>

\* Left-over reader and heartbeat are cancelled once more.
StopTasks ==
    /\ caller = "stopTasks"
    /\ \/ ~TasksLive /\ UNCHANGED session
       \/ /\ TasksLive /\ session[taskRef] = "run"
          /\ \E t \in {"none", "stuck"} : session' = [session EXCEPT ![taskRef] = t]
       \/ TasksLive /\ session[taskRef] = "stuck" /\ UNCHANGED session
    /\ caller' = "stopLink"
    /\ UNCHANGED <<link, disc, made, connRef, taskRef, run, flags, state, dataVars>>

\* Only without any owner of a GATT call is the disconnect tried directly.
StopLink ==
    /\ caller = "stopLink"
    /\ IF ~TasksLive /\ OwnsRef THEN Disconnected(connRef) ELSE UNCHANGED <<link, disc>>
    /\ caller' = "stopEnd"
    /\ UNCHANGED <<session, made, connRef, taskRef, run, flags, state, dataVars>>

\* Mutated form: the supervisor is not asked about.
ConfirmedWithoutRunner == ~OwnsRef /\ ~TasksLive

CleanupConfirmed == ~OwnsRef /\ ~TasksLive /\ ~RunnerLive

\* The references go only when everything is confirmed; else the call raises.
StopEnds ==
    /\ caller = "stopEnd"
    /\ \E pending \in BOOLEAN :
        /\ pending => flags.callbacks \/ flags.connected
        /\ flags' = [flags EXCEPT !.connected = FALSE, !.result = TRUE, !.callbacks = pending]
        /\ IF CleanupConfirmed /\ ~pending
           THEN /\ state' = "stopped"
                /\ connRef' = None /\ taskRef' = None
           ELSE state' = "incomplete" /\ UNCHANGED <<connRef, taskRef>>
    /\ caller' = "idle"
    /\ UNCHANGED <<link, disc, session, made, run, dataVars>>

-----------------------------------------------------------------------------
(* Traceroute and NeighborInfo: one write, one answer, never a retry.        *)

AskOnce(k) ==
    /\ ask[k].pc = "idle" /\ Connected
    /\ tx.pc \notin {"send", "ack"}      \* the transaction holds the send lock
    /\ ask' = [ask EXCEPT ![k] = [pc |-> "wait", conn |-> connRef]]
    /\ UNCHANGED <<linkVars, run, callVars, done, gen, tx, radio>>

\* The answer comes over whatever session reads the radio's queue by then.
Answered(k) ==
    /\ ask[k].pc = "wait"
    /\ \E c \in Conns : link[c] /\ session[c] = "run"
    /\ ask' = [ask EXCEPT ![k].pc = "answered"]
    /\ UNCHANGED <<linkVars, run, callVars, done, gen, tx, radio>>

\* The caller has its answer, its timeout or its cancellation.
AskEnds(k) ==
    /\ ask[k].pc # "idle"
    /\ ask' = [ask EXCEPT ![k] = [pc |-> "idle", conn |-> None]]
    /\ UNCHANGED <<linkVars, run, callVars, done, gen, tx, radio>>

-----------------------------------------------------------------------------
(* async_apply_settings_plan.                                                *)

\* The exact connection, the baselines and the planned messages.
Plan ==
    /\ tx.pc = "idle" /\ Connected /\ done.complete /\ done.value # "new"
    /\ tx' = [pc |-> "send", msg |-> "begin", conn |-> connRef, seq |-> done.seq, gen |-> gen,
              attempted |-> FALSE, verdict |-> "none"]
    /\ radio' = [radio EXCEPT !.seen = {}, !.committed = FALSE]
    /\ UNCHANGED <<linkVars, run, callVars, done, gen, ask>>

SameConnection == connRef = tx.conn /\ Connected

\* The radio takes a message: an edit opens, holds the new value, is committed.
Taken(m) ==
    CASE m = "begin" -> [radio EXCEPT !.edit = "open"]
      [] m = "write" -> [radio EXCEPT !.edit = IF @ = "open" THEN "new" ELSE @]
      [] m = "commit" -> [radio EXCEPT !.value = IF radio.edit = "new" THEN "new" ELSE @,
                                       !.edit = "none", !.committed = TRUE]

\* Mutated form: the commit counts from its answer on.
AttemptedLate(m) == tx.attempted

Attempted(m) == m = "commit" \/ tx.attempted

\* One write, which the radio takes or refuses; a failed write may have been taken.
SendMessage ==
    /\ tx.pc = "send" /\ SameConnection
    /\ tx' = [tx EXCEPT !.pc = "ack", !.attempted = Attempted(tx.msg)]
    /\ radio' \in {radio, Taken(tx.msg)}
    /\ UNCHANGED <<linkVars, run, callVars, done, gen, ask>>

\* The answer, on the exact connection.
MessageAcked ==
    /\ tx.pc = "ack" /\ link[tx.conn] /\ connRef = tx.conn /\ session[tx.conn] = "run"
    /\ tx' = IF tx.msg = "commit" THEN [tx EXCEPT !.pc = "readback"]
             ELSE [tx EXCEPT !.pc = "send", !.msg = IF tx.msg = "begin" THEN "write" ELSE "commit"]
    /\ UNCHANGED <<linkVars, run, callVars, done, gen, ask, radio>>

Settled(v) == tx' = [tx EXCEPT !.pc = "idle", !.conn = None, !.verdict = v]

\* A refusal by the radio fails the plan, whichever message it answers.
MessageRefused ==
    /\ tx.pc = "ack" /\ link[tx.conn]
    /\ tx.msg = "commit" => ~radio.committed
    /\ Settled("failed")
    /\ UNCHANGED <<linkVars, run, callVars, done, gen, ask, radio>>

\* Another connection, or none, before the next message.
ConnectionChanged ==
    /\ tx.pc = "send" /\ ~SameConnection
    /\ Settled("failed")
    /\ UNCHANGED <<linkVars, run, callVars, done, gen, ask, radio>>

\* A failed write or a lost answer: before the commit the plan fails; the commit
\* itself is never sent again, only read back.
MessageLost ==
    /\ tx.pc = "ack"
    /\ IF tx.msg = "commit" THEN tx' = [tx EXCEPT !.pc = "readback"] ELSE Settled("failed")
    /\ UNCHANGED <<linkVars, run, callVars, done, gen, ask, radio>>

\* A complete download from a later physical connection.
ReadbackReady == done.seq > tx.seq /\ done.gen > tx.gen /\ done.complete

ReadBack ==
    /\ tx.pc = "readback" /\ ReadbackReady
    /\ Settled(IF done.value = "new" THEN "verified" ELSE "mismatch")
    /\ UNCHANGED <<linkVars, run, callVars, done, gen, ask, radio>>

\* The overall bound, the readback bound, or the caller's cancellation.
PlanTimesOut ==
    /\ tx.pc # "idle"
    /\ Settled(IF tx.attempted THEN "unknown" ELSE "failed")
    /\ UNCHANGED <<linkVars, run, callVars, done, gen, ask, radio>>

-----------------------------------------------------------------------------
(* The radio and the platform.                                               *)

LinkDrops(c) ==
    /\ link[c] /\ link' = [link EXCEPT ![c] = FALSE]
    /\ radio' = [radio EXCEPT !.edit = "none"]
    /\ UNCHANGED <<disc, session, made, connRef, taskRef, run, callVars, done, gen, ask, tx>>

\* A disconnect task that was left behind returns, with or without effect.
LateDisconnect(c) ==
    /\ disc[c] /\ disc' = [disc EXCEPT ![c] = FALSE]
    /\ \E up \in BOOLEAN : (up => link[c]) /\ link' = [link EXCEPT ![c] = up]
    /\ UNCHANGED <<session, made, connRef, taskRef, run, callVars, dataVars>>

LateSession(c) ==
    /\ session[c] = "stuck" /\ session' = [session EXCEPT ![c] = "none"]
    /\ UNCHANGED <<link, disc, made, connRef, taskRef, run, callVars, dataVars>>

CallbacksEnd ==
    /\ flags.callbacks /\ flags' = [flags EXCEPT !.callbacks = FALSE]
    /\ UNCHANGED <<linkVars, run, state, caller, dataVars>>

\* Somebody else changes the setting on the radio.
OtherAdmin ==
    /\ radio.value # "other" /\ radio' = [radio EXCEPT !.value = "other"]
    /\ UNCHANGED <<linkVars, run, callVars, done, gen, ask, tx>>

-----------------------------------------------------------------------------
Supervisor ==
    \/ RunnerResolves \/ ResolveFails \/ RunnerConnects \/ ConnectFails
    \/ RunnerRequests \/ RunnerActive \/ SessionEnds \/ SessionStops \/ SessionSticks
    \/ RunnerDisconnects \/ RunnerRetries

Caller ==
    \/ Start \/ StartRefused \/ StartReturns
    \/ StopBegins \/ StopWaited \/ StopTasks \/ StopLink \/ StopEnds

Transaction ==
    \/ Plan \/ SendMessage \/ MessageAcked \/ MessageRefused \/ MessageLost \/ ConnectionChanged
    \/ ReadBack \/ PlanTimesOut

Platform ==
    \/ \E c \in Conns : LinkDrops(c) \/ LateDisconnect(c) \/ LateSession(c)
    \/ CallbacksEnd \/ OtherAdmin

Next ==
    \/ Supervisor \/ Caller \/ Transaction \/ Platform
    \/ \E k \in Asks : AskOnce(k) \/ Answered(k) \/ AskEnds(k)

Spec == Init /\ [][Next]_vars

-----------------------------------------------------------------------------
(* Properties.                                                               *)

\* The radio has one GATT endpoint: no two connections hold it, or still have a
\* reader, a heartbeat or a disconnect in flight, at any time, across failed
\* teardowns, ignored cancellations, reconnects and restarts (client.py:411-420,
\* "a later stop can retry"; bluetooth.py:142-146).
OneOwner == Cardinality({c \in Conns : Owns(c) \/ session[c] # "none"}) <= 1

\* When async_stop returns without an error the endpoint is free: the adapter
\* releases its lease on it at once.  Nothing of the client then runs or can come
\* back until the next start.
StoppedIsFree ==
    state = "stopped" /\ caller = "idle"
    => ~RunnerLive /\ \A c \in Conns : ~Owns(c) /\ session[c] = "none"

\* A settings verdict is honest whatever was lost: "verified" and "mismatch" only
\* by a value the radio reported in a later download than the one the plan began
\* with, "failed" only if the radio took no commit; the rest is told as unknown.
VerdictIsHonest ==
    /\ tx.verdict = "verified" => "new" \in radio.seen
    /\ tx.verdict = "mismatch" => radio.seen \ {"new"} # {}
    /\ tx.verdict = "failed" => ~radio.committed

\* An answer is credited only to a request of the session that delivers it: a
\* reply the radio kept over a reconnect finds no waiter.
AnswerIsOwn ==
    [][\A k \in Asks :
          ask[k].pc = "wait" /\ ask'[k].pc = "answered" => connRef = ask[k].conn]_vars
=============================================================================
