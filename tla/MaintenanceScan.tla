---------------------------- MODULE MaintenanceScan ----------------------------
(***************************************************************************)
(* MaintenanceScanScheduler (maintenance_scan.py) together with the three  *)
(* callbacks the coordinator injects: the candidate selector, the guarded  *)
(* NeighborInfo request and the foreground-busy gate (coordinator.py).     *)
(*                                                                         *)
(* Time is kept as countdowns and ages instead of instants, so that there  *)
(* is no horizon: a run covers any number of cycles.                       *)
(***************************************************************************)
EXTENDS Naturals, FiniteSets

CONSTANTS
  Candidates,    \* nodes the selector may choose
  Interval,      \* interval_seconds
  QuietSeconds,  \* quiet_seconds
  Spacing,       \* request_spacing_seconds
  TickSeconds,   \* tick_seconds
  MaxRequests,   \* max_requests
  Troubles       \* what the environment may do, a subset of TroubleKinds

TroubleKinds == {"activity", "foreground", "ineligible", "request", "store", "quiesce"}

ASSUME TimesAssumption ==
  /\ Interval \in Nat /\ QuietSeconds \in Nat /\ Spacing \in Nat
  /\ TickSeconds \in Nat \ {0} /\ MaxRequests \in Nat \ {0}
ASSUME IntervalAssumption == Spacing <= Interval
ASSUME TroublesAssumption == Troubles \subseteq TroubleKinds

VARIABLES
  accepting,      \* _accepting, and the coordinator's _radio_operations_accepting
  runner,         \* where the single background task is, "none" when there is none
  cancelled,      \* the task has been cancelled and has not noticed yet
  draining,       \* async_quiesce is waiting for the task
  wait,           \* time left until the tick of a waiting task
  cycleActive,    \* _cycle_active
  count,          \* _cycle_request_count
  attempted,      \* _attempted_candidates
  disturbed,      \* _activity_generation moved since the task captured it
  sinceActivity,  \* now - _last_activity, up to QuietSeconds
  toCycle,        \* _next_cycle_due - now
  toRequest,      \* _next_request_due - now
  foreground,     \* another owner of the radio is active
  sinceAttempt,   \* history: time since the last request, up to Spacing
  sinceResume,    \* history: time since the scheduler was armed, up to Interval
  picked,         \* history: how often each candidate was chosen in this cycle
  aired           \* history: a maintenance request reached the radio

task  == <<accepting, runner, cancelled, draining, wait>>
cycle == <<cycleActive, count, attempted, toCycle, toRequest>>
env   == <<foreground, sinceActivity>>
hist  == <<sinceAttempt, sinceResume, picked, aired>>
scanVars  == <<task, cycle, disturbed, env, hist>>

ScanPhases == {"none", "waiting", "choosing", "reserving", "submitting", "flying"}

-----------------------------------------------------------------------------
(* Helpers *)

Minus1(n)    == IF n > 0 THEN n - 1 ELSE 0
Plus1(n, hi) == IF n < hi THEN n + 1 ELSE hi

\* Not _traffic_is_recent.
Quiet == sinceActivity >= QuietSeconds

\* Mutated form: the scheduler's own task always counts as a radio owner.
OwnTask == runner # "none"

\* The request runs inside _async_run_bluetooth_operation, which enters its
\* task into the gateway's _ble_operation_tasks.
OwnOperation == runner \in {"submitting", "flying"}

\* _maintenance_foreground_busy: the fences, the foreground owners, and every
\* Bluetooth operation of a gateway.
Busy == foreground \/ ~accepting \/ OwnOperation

\* Idle since the generation was captured: the gates after the selection.
LateGates == ~disturbed /\ Quiet /\ ~Busy

\* still_idle, the guard the coordinator hands down to the provider.
StillIdle == accepting /\ ~disturbed /\ ~Busy

\* The gates of a tick, before anything is selected.
Due == IF cycleActive THEN toRequest = 0 ELSE toCycle = 0
Gates == Due /\ Quiet /\ ~Busy

\* The task goes back to waiting for its next tick.
WaitAgain == runner' = "waiting" /\ wait' = TickSeconds

\* Mutated form: the next cycle is due at once.
CompleteCycleAtOnce ==
  /\ cycleActive' = FALSE /\ count' = 0 /\ attempted' = {}
  /\ toCycle' = 0 /\ toRequest' = 0

\* _complete_cycle
CompleteCycle ==
  /\ cycleActive' = FALSE /\ count' = 0 /\ attempted' = {}
  /\ toCycle' = Interval /\ toRequest' = Interval

\* The end of a request, whatever its outcome.
EndRequest ==
  /\ WaitAgain
  /\ IF count >= MaxRequests THEN CompleteCycle ELSE UNCHANGED cycle

\* Mutated form: only candidates whose request is made are excluded.
ExcludedWhenAsked(c) == IF LateGates THEN attempted \cup {c} ELSE attempted

\* A candidate is excluded as soon as it is chosen.
Excluded(c) == attempted \cup {c}

-----------------------------------------------------------------------------
(* The background task *)

\* start, at the end of every gateway startup.
Start ==
  /\ runner = "none" /\ accepting
  /\ WaitAgain
  /\ cancelled' = FALSE
  /\ UNCHANGED <<accepting, draining, cycle, disturbed, env, hist>>

\* async_tick up to the await of the selector.  (The budget test in it cannot
\* succeed: the request that uses up the budget ends the cycle.)
ScanTick ==
  /\ runner = "waiting" /\ wait = 0 /\ ~cancelled
  /\ \/ /\ ~Gates
        /\ WaitAgain
        /\ UNCHANGED <<cycle, picked, disturbed>>
     \/ /\ Gates
        /\ attempted = Candidates \/ "ineligible" \in Troubles
        /\ WaitAgain /\ CompleteCycle
        /\ UNCHANGED <<picked, disturbed>>
     \/ /\ Gates
        /\ attempted # Candidates
        /\ runner' = "choosing"
        /\ disturbed' = FALSE
        /\ cycleActive' = TRUE
        /\ IF cycleActive
             THEN UNCHANGED <<count, attempted, toRequest, picked>>
             ELSE /\ count' = 0 /\ attempted' = {} /\ toRequest' = 0
                  /\ picked' = [c \in Candidates |-> 0]
        /\ UNCHANGED <<wait, toCycle>>
  /\ UNCHANGED <<accepting, cancelled, draining, env, sinceAttempt, sinceResume, aired>>

\* The selector returned a candidate: the late gates, and without a further
\* await the request, up to its durable reservation.
Choose ==
  /\ runner = "choosing" /\ ~cancelled
  /\ \E c \in Candidates \ attempted :
       /\ attempted' = Excluded(c)
       /\ picked' = [picked EXCEPT ![c] = Plus1(@, 2)]
  /\ \/ /\ ~LateGates
        /\ WaitAgain
        /\ UNCHANGED <<count, toRequest, disturbed, sinceAttempt>>
     \/ /\ LateGates
        /\ runner' = "reserving"
        /\ count' = count + 1
        /\ toRequest' = Spacing
        /\ sinceAttempt' = 0
        /\ disturbed' = FALSE
        /\ UNCHANGED wait
  /\ UNCHANGED <<accepting, cancelled, draining, cycleActive, toCycle, env,
                 sinceResume, aired>>

\* The selector failed (its read of the attempt history did): the cycle ends.
ChooseFails ==
  /\ "store" \in Troubles
  /\ runner = "choosing" /\ ~cancelled
  /\ WaitAgain /\ CompleteCycle
  /\ UNCHANGED <<accepting, cancelled, draining, disturbed, env, hist>>

\* The reservation was granted; a foreground action that raced it wins.
Reserved ==
  /\ runner = "reserving" /\ ~cancelled
  /\ IF StillIdle
       THEN runner' = "submitting" /\ UNCHANGED <<wait, cycle>>
       ELSE EndRequest
  /\ UNCHANGED <<accepting, cancelled, draining, disturbed, env, hist>>

\* The provider has the send lock and asks the guard once more.
Submit ==
  /\ runner = "submitting" /\ ~cancelled
  /\ aired' = (aired \/ StillIdle)
  /\ IF StillIdle
       THEN runner' = "flying" /\ UNCHANGED <<wait, cycle>>
       ELSE EndRequest
  /\ UNCHANGED <<accepting, cancelled, draining, disturbed, env, sinceAttempt,
                 sinceResume, picked>>

\* The cooldown is still running, the gateway is gone, the answer arrived or
\* timed out: the request is over.
RequestEnds ==
  /\ runner \in {"reserving", "submitting", "flying"} /\ ~cancelled
  /\ runner = "flying" \/ "request" \in Troubles
  /\ EndRequest
  /\ UNCHANGED <<accepting, cancelled, draining, disturbed, env, hist>>

-----------------------------------------------------------------------------
(* Lifecycle *)

\* async_quiesce: fence, and cancel the task.  A deferred reload may be asked
\* for again while the old task still runs.
Quiesce ==
  /\ "quiesce" \in Troubles
  /\ ~draining
  /\ accepting' = FALSE
  /\ cancelled' = (runner # "none")
  /\ draining' = (runner # "none")
  /\ IF runner = "none"
       THEN /\ cycleActive' = FALSE /\ count' = 0 /\ attempted' = {}
            /\ UNCHANGED <<toCycle, toRequest>>
       ELSE UNCHANGED cycle
  /\ UNCHANGED <<runner, wait, disturbed, env, hist>>

\* The cancellation is noticed, and the waiting quiesce clears the cycle.
CancelLands ==
  /\ cancelled
  /\ runner' = "none" /\ wait' = 0 /\ cancelled' = FALSE
  /\ draining' = FALSE
  /\ IF draining
       THEN cycleActive' = FALSE /\ count' = 0 /\ attempted' = {}
       ELSE UNCHANGED <<cycleActive, count, attempted>>
  /\ UNCHANGED <<accepting, toCycle, toRequest, disturbed, env, hist>>

\* The task outlives _QUIESCE_TIMEOUT_SECONDS: the reload is deferred.
QuiesceTimeout ==
  /\ draining
  /\ draining' = FALSE
  /\ UNCHANGED <<accepting, runner, cancelled, wait, cycle, disturbed, env, hist>>

\* resume: only when the old task is gone; everything is armed afresh.
Resume ==
  /\ ~accepting /\ runner = "none" /\ ~draining
  /\ accepting' = TRUE
  /\ cycleActive' = FALSE /\ count' = 0 /\ attempted' = {}
  /\ toCycle' = Interval /\ toRequest' = Interval
  /\ sinceActivity' = 0 /\ sinceResume' = 0
  /\ WaitAgain
  /\ UNCHANGED <<cancelled, draining, disturbed, foreground, sinceAttempt, picked, aired>>

-----------------------------------------------------------------------------
(* Environment *)

\* record_activity: a packet, a node update, or a foreground operation; it
\* wakes the waiting task.
Activity ==
  /\ "activity" \in Troubles
  /\ sinceActivity' = 0
  /\ disturbed' = TRUE
  /\ wait' = IF runner = "waiting" THEN 0 ELSE wait
  /\ UNCHANGED <<accepting, runner, cancelled, draining, cycle, foreground, hist>>

\* A foreground owner of the radio begins (a reconnect or a settings read does
\* not count as activity) and ends.
Foreground ==
  /\ "foreground" \in Troubles
  /\ foreground' = ~foreground
  /\ UNCHANGED <<task, cycle, disturbed, sinceActivity, hist>>

\* A unit of time; a countdown stops at "due".
TimePasses ==
  /\ wait' = Minus1(wait)
  /\ toCycle' = Minus1(toCycle)
  /\ toRequest' = Minus1(toRequest)
  /\ sinceActivity' = Plus1(sinceActivity, QuietSeconds)
  /\ sinceAttempt' = Plus1(sinceAttempt, Spacing)
  /\ sinceResume' = Plus1(sinceResume, Interval)
  /\ UNCHANGED <<accepting, runner, cancelled, draining, cycleActive, count, attempted,
                 disturbed, foreground, picked, aired>>

-----------------------------------------------------------------------------
(* Specification *)

ScanInit ==
  /\ accepting = TRUE /\ runner = "none" /\ cancelled = FALSE /\ draining = FALSE
  /\ wait = 0
  /\ cycleActive = FALSE /\ count = 0 /\ attempted = {}
  /\ toCycle = Interval /\ toRequest = Interval
  /\ disturbed = FALSE /\ foreground = FALSE /\ sinceActivity = 0
  /\ sinceAttempt = Spacing /\ sinceResume = 0
  /\ picked = [c \in Candidates |-> 0] /\ aired = FALSE

Run == ScanTick \/ Choose \/ ChooseFails \/ Reserved \/ Submit \/ RequestEnds \/ CancelLands

ScanNext ==
  \/ Start \/ Run
  \/ Quiesce \/ QuiesceTimeout \/ Resume
  \/ Activity \/ Foreground \/ TimePasses

ScanSpec == ScanInit /\ [][ScanNext]_scanVars

\* The clock runs, the event loop runs the task, and the coordinator starts
\* the scheduler at the end of its startup.
FairScanSpec == ScanSpec /\ WF_scanVars(Start) /\ WF_scanVars(Run) /\ WF_scanVars(TimePasses)

-----------------------------------------------------------------------------
(* Properties *)

\* Type invariant.
ScanTypeOK ==
  /\ accepting \in BOOLEAN /\ runner \in ScanPhases
  /\ cancelled \in BOOLEAN /\ draining \in BOOLEAN /\ (draining => cancelled)
  /\ wait \in 0..TickSeconds
  /\ cycleActive \in BOOLEAN /\ count \in 0..MaxRequests
  /\ attempted \subseteq Candidates
  /\ toCycle \in 0..Interval /\ toRequest \in 0..Interval
  /\ disturbed \in BOOLEAN /\ foreground \in BOOLEAN
  /\ sinceActivity \in 0..QuietSeconds
  /\ sinceAttempt \in 0..Spacing /\ sinceResume \in 0..Interval
  /\ picked \in [Candidates -> 0..2] /\ aired \in BOOLEAN

\* A request is invoked in this step.
Attempt == runner = "choosing" /\ runner' = "reserving"

\* Two requests are never closer than the spacing, over cycles that end early,
\* cancellations, reloads and resumes (_next_request_due is rewritten by each).
AttemptsSpaced == [][Attempt => sinceAttempt = Spacing]_scanVars

\* A request begins only in a quiet window that is still open when the selector
\* has returned, with no other owner of the radio active.
AttemptsIdle ==
  [][Attempt => sinceActivity = QuietSeconds /\ ~foreground /\ ~disturbed]_scanVars

\* Nothing is asked twice in one cycle: not after a failure, and not after a
\* late gate turned a chosen candidate away.
NoRetryInCycle == cycleActive => \A c \in Candidates : picked[c] <= 1

\* The first request after the scheduler is created or resumed waits a full
\* interval: no reload ever causes catch-up work.
FreshInterval == [][Attempt => sinceResume = Interval]_scanVars

\* A quiet network, for good.
Undisturbed == accepting /\ ~foreground /\ sinceActivity = QuietSeconds

\* In a quiet network cycles go on for ever: whatever ended one (the budget, a
\* failing read, no eligible node), the task comes back and selects again, or
\* finds nothing to select and waits for the next cycle.
CyclesGoOn == <>[]Undisturbed => []<>(runner = "choosing" \/ toCycle = Interval)

\* docs/NETWORK_MAINTENANCE.md:5-6: the feature "selects one exact node at a
\* time, sends only a NeighborInfo request": in a quiet network with willing
\* nodes a request reaches the radio.
RequestsAreSent == <>[]Undisturbed => <>aired

=============================================================================
