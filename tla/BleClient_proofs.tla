---------------------------- MODULE BleClient_proofs ----------------------------
(***************************************************************************)
(* For any number of connections and requests: BleClient is typed, one     *)
(* connection at a time holds the endpoint, a stop that reports success    *)
(* leaves it free, answers go to the session that asked, and verdicts on   *)
(* settings are honest.                                                    *)
(*                                                                         *)
(* The argument: whatever can still touch the radio is reached by the two  *)
(* references the client keeps, _connection and the tasks; both are given  *)
(* up only when what they name is done, and a new connection is made only  *)
(* when nothing is left.                                                   *)
(***************************************************************************)
EXTENDS BleClient, FiniteSetTheorems, TLAPS

USE MaxConnsAssumption, NoneAssumption

\* Connection c, its tasks or its disconnect can still touch the radio.
Busy(c) == Owns(c) \/ session[c] # "none"

AllFree == \A c \in Conns : ~Busy(c)

\* A connection is made before it is established, and established before its
\* configuration is downloaded.
CountInv ==
    /\ connRef # None => connRef <= made
    /\ gen <= made /\ (run.pc = "connect" => gen < made)
    /\ done.seq <= gen /\ (run.pc \in {"request", "config"} => done.seq < gen)

\* The references reach everything that is busy, and the supervisor makes a
\* connection only when nothing is.
EndpointInv ==
    /\ \A c \in Conns : Busy(c) => connRef = c
    /\ \A c \in Conns : session[c] # "none" => taskRef = c
    /\ run.pc \in {"resolve", "delay", "connect"} => AllFree
    /\ run.pc \in {"request", "cleanLink"} => \A c \in Conns : session[c] = "none"
    /\ run.pc \in Sessions \cup {"connect", "cleanTasks", "cleanLink"}
         => run.conn = connRef /\ connRef # None

FreeInv == state = "stopped" => ~RunnerLive /\ AllFree

\* Only an active session is told connected, and only it has waiters.
CallInv ==
    /\ flags.connected => run.pc = "active"
    /\ \A k \in Asks : ask[k].pc = "wait" => run.pc = "active" /\ ask[k].conn = connRef

\* A plan that runs has no verdict yet; what was downloaded after it was made was
\* seen; the radio holds its commit only when the commit was attempted.
PlanInv ==
    /\ tx.pc # "idle" => tx.verdict = "none"
    /\ tx.pc # "idle" /\ done.seq > tx.seq => done.value \in radio.seen
    /\ tx.pc # "idle" /\ radio.committed
         => tx.pc # "send" /\ tx.msg = "commit" /\ tx.attempted
    /\ VerdictIsHonest

\* The type invariant, in groups.
LinkTypes ==
    /\ link \in [Conns -> BOOLEAN] /\ disc \in [Conns -> BOOLEAN]
    /\ session \in [Conns -> {"none", "run", "stuck"}]
    /\ connRef \in Conns \cup {None} /\ taskRef \in Conns \cup {None}
RunTypes ==
    run \in [pc : {"resolve", "connect", "cleanTasks", "cleanLink", "delay", "done"} \cup Sessions,
             conn : Conns \cup {None}, cancel : BOOLEAN]
CallTypes ==
    /\ flags \in [ever : BOOLEAN, connected : BOOLEAN, stop : BOOLEAN, result : BOOLEAN,
                  callbacks : BOOLEAN]
    /\ state \in {"fresh", "stopped", "incomplete"}
    /\ caller \in Stages
DoneTypes ==
    /\ made \in 0..MaxConns /\ gen \in 0..MaxConns
    /\ done \in [seq : 0..MaxConns, gen : 0..MaxConns, complete : BOOLEAN, value : Values]
AskTypes == ask \in [Asks -> [pc : {"idle", "wait", "answered"}, conn : Conns \cup {None}]]
TxTypes ==
    tx \in [pc : {"idle", "send", "ack", "readback"}, msg : Messages, conn : Conns \cup {None},
            seq : 0..MaxConns, gen : 0..MaxConns, attempted : BOOLEAN,
            verdict : {"none", "verified", "mismatch", "unknown", "failed"}]
RadioTypes ==
    radio \in [value : Values, edit : {"none", "open", "new"}, seen : SUBSET Values,
               committed : BOOLEAN]

IInv == TypeOK /\ CountInv /\ EndpointInv /\ FreeInv /\ CallInv /\ PlanInv

-----------------------------------------------------------------------------
(* The first state and the steps *)

\* The client starts with nothing.
LEMMA InitInv == Init => IInv
  <1> SUFFICES ASSUME Init PROVE IInv
    OBVIOUS
  <1>1. TypeOK
    BY DEF Init, TypeOK, Conns, Values, Sessions, Stages, Messages
  <1>2. CountInv /\ CallInv /\ PlanInv
    BY DEF Init, CountInv, CallInv, PlanInv, VerdictIsHonest
  <1>3. EndpointInv /\ FreeInv
    BY DEF Init, EndpointInv, FreeInv, AllFree, Busy, Owns, Sessions
  <1> QED BY <1>1, <1>2, <1>3 DEF IInv

\* The type invariant is its groups.
LEMMA TypeGroups ==
  TypeOK => /\ LinkTypes /\ RunTypes /\ CallTypes /\ DoneTypes
            /\ AskTypes /\ TxTypes /\ RadioTypes
  BY DEF TypeOK, LinkTypes, RunTypes, CallTypes, DoneTypes, AskTypes, TxTypes, RadioTypes

\* Links, disconnects, sessions and the two references.
LEMMA LinkTypesStep ==
  ASSUME LinkTypes, RunTypes, DoneTypes, [Next]_vars
  PROVE  LinkTypes'
  <1>1. CASE RunnerResolves
    BY <1>1 DEF LinkTypes, RunTypes, DoneTypes, Conns, vars, linkVars, callVars,
       dataVars, RunnerResolves
  <1>2. CASE RunnerConnects
    BY <1>2 DEF LinkTypes, RunTypes, DoneTypes, Conns, vars, linkVars, callVars,
       dataVars, RunnerConnects
  <1>3. CASE ConnectFails
    <2>1. PICK up \in BOOLEAN, left \in BOOLEAN :
            /\ link' = [link EXCEPT ![run.conn] = up]
            /\ disc' = [disc EXCEPT ![run.conn] = left /\ up]
      BY <1>3 DEF ConnectFails
    <2>2. (left /\ up) \in BOOLEAN
      OBVIOUS
    <2>3. link' \in [Conns -> BOOLEAN] /\ disc' \in [Conns -> BOOLEAN]
      BY ONLY <2>1, <2>2, LinkTypes DEF LinkTypes
    <2> QED BY <2>3, <1>3 DEF LinkTypes, ConnectFails
  <1>4. CASE RunnerRequests
    BY <1>4 DEF LinkTypes, RunTypes, DoneTypes, Conns, vars, linkVars, callVars,
       dataVars, RunnerRequests
  <1>5. CASE SessionStops
    BY <1>5 DEF LinkTypes, RunTypes, DoneTypes, Conns, vars, linkVars, callVars,
       dataVars, SessionStops
  <1>6. CASE SessionSticks
    BY <1>6 DEF LinkTypes, RunTypes, DoneTypes, Conns, vars, linkVars, callVars,
       dataVars, SessionSticks, RunnerEnds
  <1>7. CASE RunnerDisconnects
    <2>1. link' \in [Conns -> BOOLEAN] /\ disc' \in [Conns -> BOOLEAN]
      <3>1. PICK up \in BOOLEAN, left \in BOOLEAN :
              /\ link' = [link EXCEPT ![run.conn] = up]
              /\ disc' = [disc EXCEPT ![run.conn] = left]
        BY <1>7 DEF RunnerDisconnects, Disconnected
      <3> QED BY ONLY <3>1, LinkTypes DEF LinkTypes
    <2>2. connRef' \in {connRef, None} /\ UNCHANGED <<session, taskRef>>
      BY <1>7 DEF RunnerDisconnects
    <2> QED BY <2>1, <2>2 DEF LinkTypes
  <1>8. CASE StartRefused
    BY <1>8 DEF LinkTypes, RunTypes, DoneTypes, Conns, vars, linkVars, callVars,
       dataVars, StartRefused, OwnersPending, OwnsRef, Owns, RunnerLive, TasksLive,
       Connected, Stopping
  <1>9. CASE Start
    BY <1>9 DEF LinkTypes, RunTypes, DoneTypes, Conns, vars, linkVars, callVars,
       dataVars, Start, OwnersPending, OwnsRef, Owns, RunnerLive, TasksLive, Connected,
       Stopping
  <1>10. CASE StopTasks
    <2>1. UNCHANGED <<link, disc, connRef, taskRef>>
      BY <1>10 DEF StopTasks
    <2>2. session' \in [Conns -> {"none", "run", "stuck"}]
      <3>1. \/ session' = session
            \/ \E t \in {"none", "stuck"} : session' = [session EXCEPT ![taskRef] = t]
        BY <1>10 DEF StopTasks
      <3> QED BY ONLY <3>1, LinkTypes DEF LinkTypes
    <2> QED BY <2>1, <2>2 DEF LinkTypes
  <1>11. CASE StopLink
    <2>1. link' \in [Conns -> BOOLEAN] /\ disc' \in [Conns -> BOOLEAN]
      <3>1. CASE UNCHANGED <<link, disc>>
        BY <3>1 DEF LinkTypes
      <3>2. CASE Disconnected(connRef)
        <4>1. PICK up \in BOOLEAN, left \in BOOLEAN :
                /\ link' = [link EXCEPT ![connRef] = up]
                /\ disc' = [disc EXCEPT ![connRef] = left]
          BY <3>2 DEF Disconnected
        <4> QED BY ONLY <4>1, LinkTypes DEF LinkTypes
      <3> QED BY <3>1, <3>2, <1>11 DEF StopLink
    <2>2. UNCHANGED <<session, connRef, taskRef>>
      BY <1>11 DEF StopLink
    <2> QED BY <2>1, <2>2 DEF LinkTypes
  <1>12. CASE StopEnds
    BY <1>12 DEF LinkTypes, RunTypes, DoneTypes, Conns, vars, linkVars, callVars,
       dataVars, StopEnds, OwnsRef, Owns, RunnerLive, TasksLive, CleanupConfirmed
  <1>13. CASE \E c \in Conns : LinkDrops(c)
    BY <1>13 DEF LinkTypes, RunTypes, DoneTypes, Conns, vars, linkVars, callVars,
       dataVars, LinkDrops
  <1>14. CASE \E c \in Conns : LateDisconnect(c)
    BY <1>14 DEF LinkTypes, RunTypes, DoneTypes, Conns, vars, linkVars, callVars,
       dataVars, LateDisconnect
  <1>15. CASE \E c \in Conns : LateSession(c)
    BY <1>15 DEF LinkTypes, RunTypes, DoneTypes, Conns, vars, linkVars, callVars,
       dataVars, LateSession
  <1>16. CASE ResolveFails \/ RunnerActive \/ SessionEnds \/ RunnerRetries
    BY <1>16 DEF LinkTypes, RunTypes, DoneTypes, Conns, vars, linkVars, callVars,
       dataVars, ResolveFails, RunnerEnds, RunnerActive, SessionEnds, RunnerRetries
  <1>17. CASE StartReturns \/ StopBegins \/ StopWaited
    BY <1>17 DEF LinkTypes, RunTypes, DoneTypes, Conns, vars, linkVars, callVars,
       dataVars, StartReturns, StopBegins, StopWaited
  <1>18. CASE Plan \/ SendMessage \/ MessageAcked \/ MessageRefused \/ MessageLost \/
             ConnectionChanged \/ ReadBack \/ PlanTimesOut
    BY <1>18 DEF LinkTypes, RunTypes, DoneTypes, Conns, vars, linkVars, callVars,
       dataVars, Plan, SendMessage, MessageAcked, MessageRefused, Settled, MessageLost,
       ConnectionChanged, ReadBack, PlanTimesOut
  <1>19. CASE CallbacksEnd \/ OtherAdmin \/ (\E k \in Asks : AskOnce(k)) \/ (\E k \in Asks
             : Answered(k)) \/ (\E k \in Asks : AskEnds(k))
    BY <1>19 DEF LinkTypes, RunTypes, DoneTypes, Conns, vars, linkVars, callVars,
       dataVars, CallbacksEnd, OtherAdmin, AskOnce, Answered, AskEnds
  <1>20. CASE UNCHANGED vars
    BY <1>20 DEF LinkTypes, RunTypes, DoneTypes, Conns, vars, linkVars, callVars, dataVars
  <1> QED
    BY <1>1, <1>2, <1>3, <1>4, <1>5, <1>6, <1>7, <1>8, <1>9, <1>10, <1>11, <1>12, <1>13,
       <1>14, <1>15, <1>16, <1>17, <1>18, <1>19, <1>20
       DEF Next, Supervisor, Caller, Transaction, Platform

\* The supervisor.
LEMMA RunTypesStep ==
  ASSUME RunTypes, DoneTypes, [Next]_vars
  PROVE  RunTypes'
  <1>1. CASE RunnerResolves
    <2>1. run' = [run EXCEPT !.pc = "connect", !.conn = made + 1] /\ made + 1 \in Conns
      BY <1>1 DEF RunnerResolves, DoneTypes, Conns
    <2> QED BY ONLY <2>1, RunTypes DEF RunTypes
  <1>2. CASE ResolveFails
    <2>1. \/ run' = [pc |-> "done", conn |-> None, cancel |-> FALSE]
          \/ run' = [run EXCEPT !.pc = "delay"]
      BY <1>2 DEF ResolveFails, RunnerEnds
    <2>2. CASE run' = [pc |-> "done", conn |-> None, cancel |-> FALSE]
      BY ONLY <2>2 DEF RunTypes
    <2>3. CASE run' = [run EXCEPT !.pc = "delay"]
      BY ONLY <2>3, RunTypes DEF RunTypes
    <2> QED BY <2>1, <2>2, <2>3
  <1>3. CASE RunnerConnects
    BY <1>3 DEF RunTypes, DoneTypes, Conns, Sessions, vars, linkVars, callVars,
       dataVars, RunnerConnects
  <1>4. CASE ConnectFails
    BY <1>4 DEF RunTypes, DoneTypes, Conns, Sessions, vars, linkVars, callVars,
       dataVars, ConnectFails
  <1>5. CASE RunnerRequests
    BY <1>5 DEF RunTypes, DoneTypes, Conns, Sessions, vars, linkVars, callVars,
       dataVars, RunnerRequests
  <1>6. CASE RunnerActive
    BY <1>6 DEF RunTypes, DoneTypes, Conns, Sessions, vars, linkVars, callVars,
       dataVars, RunnerActive
  <1>7. CASE SessionEnds
    BY <1>7 DEF RunTypes, DoneTypes, Conns, Sessions, vars, linkVars, callVars,
       dataVars, SessionEnds, PendingFailed
  <1>8. CASE SessionStops
    BY <1>8 DEF RunTypes, DoneTypes, Conns, Sessions, vars, linkVars, callVars,
       dataVars, SessionStops
  <1>9. CASE SessionSticks
    BY <1>9 DEF RunTypes, DoneTypes, Conns, Sessions, vars, linkVars, callVars,
       dataVars, SessionSticks, RunnerEnds
  <1>10. CASE RunnerDisconnects
    <2>1. \/ run' = [pc |-> "done", conn |-> None, cancel |-> FALSE]
          \/ run' = [pc |-> "delay", conn |-> None, cancel |-> FALSE]
      BY <1>10 DEF RunnerDisconnects, RunnerEnds
    <2>2. CASE run' = [pc |-> "done", conn |-> None, cancel |-> FALSE]
      BY ONLY <2>2 DEF RunTypes
    <2>3. CASE run' = [pc |-> "delay", conn |-> None, cancel |-> FALSE]
      BY ONLY <2>3, RunTypes DEF RunTypes
    <2> QED BY <2>1, <2>2, <2>3
  <1>11. CASE RunnerRetries
    <2>1. \/ run' = [pc |-> "done", conn |-> None, cancel |-> FALSE]
          \/ run' = [run EXCEPT !.pc = "resolve"]
      BY <1>11 DEF RunnerRetries, RunnerEnds
    <2>2. CASE run' = [pc |-> "done", conn |-> None, cancel |-> FALSE]
      BY ONLY <2>2 DEF RunTypes
    <2>3. CASE run' = [run EXCEPT !.pc = "resolve"]
      BY ONLY <2>3, RunTypes DEF RunTypes
    <2> QED BY <2>1, <2>2, <2>3
  <1>12. CASE Start
    <2>1. \/ run' = [pc |-> "resolve", conn |-> None, cancel |-> FALSE]
          \/ run' = run
      BY <1>12 DEF Start
    <2>2. CASE run' = [pc |-> "resolve", conn |-> None, cancel |-> FALSE]
      BY ONLY <2>2 DEF RunTypes
    <2>3. CASE run' = run
      BY ONLY <2>3, RunTypes DEF RunTypes
    <2> QED BY <2>1, <2>2, <2>3
  <1>13. CASE StopBegins
    BY <1>13 DEF RunTypes, DoneTypes, Conns, Sessions, vars, linkVars, callVars,
       dataVars, StopBegins, PendingFailed, RunnerLive
  <1>14. CASE StartRefused \/ StartReturns \/ StopWaited \/ StopTasks \/ StopLink \/
             StopEnds
    BY <1>14 DEF RunTypes, DoneTypes, Conns, Sessions, vars, linkVars, callVars,
       dataVars, StartRefused, StartReturns, StopWaited, StopTasks, StopLink,
       Disconnected, StopEnds
  <1>15. CASE Plan \/ SendMessage \/ MessageAcked \/ MessageRefused \/ MessageLost \/
             ConnectionChanged \/ ReadBack \/ PlanTimesOut
    BY <1>15 DEF RunTypes, DoneTypes, Conns, Sessions, vars, linkVars, callVars,
       dataVars, Plan, SendMessage, MessageAcked, MessageRefused, Settled, MessageLost,
       ConnectionChanged, ReadBack, PlanTimesOut
  <1>16. CASE (\E c \in Conns : LinkDrops(c)) \/ (\E c \in Conns : LateDisconnect(c)) \/
             (\E c \in Conns : LateSession(c)) \/ CallbacksEnd \/ OtherAdmin \/ (\E k \in
             Asks : AskOnce(k)) \/ (\E k \in Asks : Answered(k)) \/ (\E k \in Asks :
             AskEnds(k))
    BY <1>16 DEF RunTypes, DoneTypes, Conns, Sessions, vars, linkVars, callVars,
       dataVars, LinkDrops, LateDisconnect, LateSession, CallbacksEnd, OtherAdmin,
       AskOnce, Answered, AskEnds
  <1>17. CASE UNCHANGED vars
    BY <1>17 DEF RunTypes, DoneTypes, Conns, Sessions, vars, linkVars, callVars, dataVars
  <1> QED
    BY <1>1, <1>2, <1>3, <1>4, <1>5, <1>6, <1>7, <1>8, <1>9, <1>10, <1>11, <1>12, <1>13,
       <1>14, <1>15, <1>16, <1>17
       DEF Next, Supervisor, Caller, Transaction, Platform

\* The flags and the calls.
LEMMA CallTypesStep ==
  ASSUME CallTypes, [Next]_vars
  PROVE  CallTypes'
  <1>1. CASE ResolveFails
    BY <1>1 DEF CallTypes, Stages, vars, linkVars, callVars, dataVars, ResolveFails,
       RunnerEnds
  <1>2. CASE RunnerActive
    BY <1>2 DEF CallTypes, Stages, vars, linkVars, callVars, dataVars, RunnerActive
  <1>3. CASE SessionEnds
    BY <1>3 DEF CallTypes, Stages, vars, linkVars, callVars, dataVars, SessionEnds,
       PendingFailed
  <1>4. CASE SessionSticks
    BY <1>4 DEF CallTypes, Stages, vars, linkVars, callVars, dataVars, SessionSticks,
       RunnerEnds
  <1>5. CASE RunnerDisconnects
    BY <1>5 DEF CallTypes, Stages, vars, linkVars, callVars, dataVars,
       RunnerDisconnects, RunnerEnds, Disconnected, TeardownConfirmed
  <1>6. CASE RunnerRetries
    BY <1>6 DEF CallTypes, Stages, vars, linkVars, callVars, dataVars, RunnerRetries,
       RunnerEnds
  <1>7. CASE StartRefused
    BY <1>7 DEF CallTypes, Stages, vars, linkVars, callVars, dataVars, StartRefused,
       OwnersPending, OwnsRef, Owns, RunnerLive, TasksLive, Connected, Stopping
  <1>8. CASE Start
    BY <1>8 DEF CallTypes, Stages, vars, linkVars, callVars, dataVars, Start,
       OwnersPending, OwnsRef, Owns, RunnerLive, TasksLive, Connected, Stopping
  <1>9. CASE StartReturns
    BY <1>9 DEF CallTypes, Stages, vars, linkVars, callVars, dataVars, StartReturns
  <1>10. CASE StopBegins
    BY <1>10 DEF CallTypes, Stages, vars, linkVars, callVars, dataVars, StopBegins,
       PendingFailed, RunnerLive
  <1>11. CASE StopWaited
    BY <1>11 DEF CallTypes, Stages, vars, linkVars, callVars, dataVars, StopWaited,
       RunnerLive
  <1>12. CASE StopTasks
    BY <1>12 DEF CallTypes, Stages, vars, linkVars, callVars, dataVars, StopTasks, TasksLive
  <1>13. CASE StopLink
    BY <1>13 DEF CallTypes, Stages, vars, linkVars, callVars, dataVars, StopLink,
       Disconnected, OwnsRef, Owns, TasksLive
  <1>14. CASE StopEnds
    BY <1>14 DEF CallTypes, Stages, vars, linkVars, callVars, dataVars, StopEnds,
       OwnsRef, Owns, RunnerLive, TasksLive, CleanupConfirmed
  <1>15. CASE CallbacksEnd
    BY <1>15 DEF CallTypes, Stages, vars, linkVars, callVars, dataVars, CallbacksEnd
  <1>16. CASE RunnerResolves \/ RunnerConnects \/ ConnectFails \/ RunnerRequests \/
             SessionStops
    BY <1>16 DEF CallTypes, Stages, vars, linkVars, callVars, dataVars, RunnerResolves,
       RunnerConnects, ConnectFails, RunnerRequests, SessionStops
  <1>17. CASE Plan \/ SendMessage \/ MessageAcked \/ MessageRefused \/ MessageLost \/
             ConnectionChanged \/ ReadBack \/ PlanTimesOut
    BY <1>17 DEF CallTypes, Stages, vars, linkVars, callVars, dataVars, Plan,
       SendMessage, MessageAcked, MessageRefused, Settled, MessageLost,
       ConnectionChanged, ReadBack, PlanTimesOut
  <1>18. CASE (\E c \in Conns : LinkDrops(c)) \/ (\E c \in Conns : LateDisconnect(c)) \/
             (\E c \in Conns : LateSession(c)) \/ OtherAdmin \/ (\E k \in Asks :
             AskOnce(k)) \/ (\E k \in Asks : Answered(k)) \/ (\E k \in Asks : AskEnds(k))
    BY <1>18 DEF CallTypes, Stages, vars, linkVars, callVars, dataVars, LinkDrops,
       LateDisconnect, LateSession, OtherAdmin, AskOnce, Answered, AskEnds
  <1>19. CASE UNCHANGED vars
    BY <1>19 DEF CallTypes, Stages, vars, linkVars, callVars, dataVars
  <1> QED
    BY <1>1, <1>2, <1>3, <1>4, <1>5, <1>6, <1>7, <1>8, <1>9, <1>10, <1>11, <1>12, <1>13,
       <1>14, <1>15, <1>16, <1>17, <1>18, <1>19
       DEF Next, Supervisor, Caller, Transaction, Platform

\* The counters stay within the bound because a connection was made for each.
LEMMA DoneTypesStep ==
  ASSUME DoneTypes, RadioTypes, CountInv, [Next]_vars
  PROVE  DoneTypes'
  <1>1. CASE RunnerResolves
    BY <1>1 DEF DoneTypes, RadioTypes, CountInv, Conns, Values, vars, linkVars,
       callVars, dataVars, RunnerResolves
  <1>2. CASE RunnerConnects
    <2>1. UNCHANGED made /\ gen' = gen + 1 /\ gen < made /\ done' = [done EXCEPT !.complete = FALSE]
      BY <1>2 DEF RunnerConnects, CountInv
    <2>2. gen' \in 0..MaxConns
      BY <2>1 DEF DoneTypes
    <2> QED BY ONLY <2>1, <2>2, DoneTypes DEF DoneTypes
  <1>3. CASE RunnerActive
    BY <1>3 DEF DoneTypes, RadioTypes, CountInv, Conns, Values, vars, linkVars,
       callVars, dataVars, RunnerActive
  <1>4. CASE ResolveFails \/ ConnectFails \/ RunnerRequests \/ SessionEnds \/ SessionStops
             \/ SessionSticks \/ RunnerDisconnects \/ RunnerRetries
    BY <1>4 DEF DoneTypes, RadioTypes, CountInv, Conns, Values, vars, linkVars,
       callVars, dataVars, ResolveFails, RunnerEnds, ConnectFails, RunnerRequests,
       SessionEnds, SessionStops, SessionSticks, RunnerDisconnects, Disconnected,
       RunnerRetries
  <1>5. CASE StartRefused \/ Start \/ StartReturns \/ StopBegins \/ StopWaited \/
             StopTasks \/ StopLink \/ StopEnds
    BY <1>5 DEF DoneTypes, RadioTypes, CountInv, Conns, Values, vars, linkVars,
       callVars, dataVars, StartRefused, Start, StartReturns, StopBegins, StopWaited,
       StopTasks, StopLink, Disconnected, StopEnds
  <1>6. CASE Plan \/ SendMessage \/ MessageAcked \/ MessageRefused \/ MessageLost \/
             ConnectionChanged \/ ReadBack \/ PlanTimesOut
    BY <1>6 DEF DoneTypes, RadioTypes, CountInv, Conns, Values, vars, linkVars,
       callVars, dataVars, Plan, SendMessage, MessageAcked, MessageRefused, Settled,
       MessageLost, ConnectionChanged, ReadBack, PlanTimesOut
  <1>7. CASE (\E c \in Conns : LinkDrops(c)) \/ (\E c \in Conns : LateDisconnect(c)) \/
             (\E c \in Conns : LateSession(c)) \/ CallbacksEnd \/ OtherAdmin \/ (\E k \in
             Asks : AskOnce(k)) \/ (\E k \in Asks : Answered(k)) \/ (\E k \in Asks :
             AskEnds(k))
    BY <1>7 DEF DoneTypes, RadioTypes, CountInv, Conns, Values, vars, linkVars,
       callVars, dataVars, LinkDrops, LateDisconnect, LateSession, CallbacksEnd,
       OtherAdmin, AskOnce, Answered, AskEnds
  <1>8. CASE UNCHANGED vars
    BY <1>8 DEF DoneTypes, RadioTypes, CountInv, Conns, Values, vars, linkVars,
       callVars, dataVars
  <1> QED
    BY <1>1, <1>2, <1>3, <1>4, <1>5, <1>6, <1>7, <1>8
       DEF Next, Supervisor, Caller, Transaction, Platform

\* The requests.
LEMMA AskTypesStep ==
  ASSUME AskTypes, LinkTypes, [Next]_vars
  PROVE  AskTypes'
  <1>1. CASE SessionEnds
    BY <1>1 DEF AskTypes, LinkTypes, Conns, vars, linkVars, callVars, dataVars,
       SessionEnds, PendingFailed
  <1>2. CASE StopBegins
    BY <1>2 DEF AskTypes, LinkTypes, Conns, vars, linkVars, callVars, dataVars,
       StopBegins, PendingFailed, RunnerLive
  <1>3. CASE \E k \in Asks : AskOnce(k)
    BY <1>3 DEF AskTypes, LinkTypes, Conns, vars, linkVars, callVars, dataVars, AskOnce,
       Connected, Stopping
  <1>4. CASE \E k \in Asks : Answered(k)
    <2>1. PICK k \in Asks : ask' = [ask EXCEPT ![k].pc = "answered"]
      BY <1>4 DEF Answered
    <2> QED BY ONLY <2>1, AskTypes DEF AskTypes
  <1>5. CASE \E k \in Asks : AskEnds(k)
    BY <1>5 DEF AskTypes, LinkTypes, Conns, vars, linkVars, callVars, dataVars, AskEnds
  <1>6. CASE RunnerResolves \/ ResolveFails \/ RunnerConnects \/ ConnectFails \/
             RunnerRequests \/ RunnerActive \/ SessionStops \/ SessionSticks \/
             RunnerDisconnects \/ RunnerRetries
    BY <1>6 DEF AskTypes, LinkTypes, Conns, vars, linkVars, callVars, dataVars,
       RunnerResolves, ResolveFails, RunnerEnds, RunnerConnects, ConnectFails,
       RunnerRequests, RunnerActive, SessionStops, SessionSticks, RunnerDisconnects,
       Disconnected, RunnerRetries
  <1>7. CASE StartRefused \/ Start \/ StartReturns \/ StopWaited \/ StopTasks \/ StopLink
             \/ StopEnds
    BY <1>7 DEF AskTypes, LinkTypes, Conns, vars, linkVars, callVars, dataVars,
       StartRefused, Start, StartReturns, StopWaited, StopTasks, StopLink, Disconnected,
       StopEnds
  <1>8. CASE Plan \/ SendMessage \/ MessageAcked \/ MessageRefused \/ MessageLost \/
             ConnectionChanged \/ ReadBack \/ PlanTimesOut
    BY <1>8 DEF AskTypes, LinkTypes, Conns, vars, linkVars, callVars, dataVars, Plan,
       SendMessage, MessageAcked, MessageRefused, Settled, MessageLost,
       ConnectionChanged, ReadBack, PlanTimesOut
  <1>9. CASE (\E c \in Conns : LinkDrops(c)) \/ (\E c \in Conns : LateDisconnect(c)) \/
             (\E c \in Conns : LateSession(c)) \/ CallbacksEnd \/ OtherAdmin
    BY <1>9 DEF AskTypes, LinkTypes, Conns, vars, linkVars, callVars, dataVars,
       LinkDrops, LateDisconnect, LateSession, CallbacksEnd, OtherAdmin
  <1>10. CASE UNCHANGED vars
    BY <1>10 DEF AskTypes, LinkTypes, Conns, vars, linkVars, callVars, dataVars
  <1> QED
    BY <1>1, <1>2, <1>3, <1>4, <1>5, <1>6, <1>7, <1>8, <1>9, <1>10
       DEF Next, Supervisor, Caller, Transaction, Platform

\* The transaction.
LEMMA TxTypesStep ==
  ASSUME TxTypes, LinkTypes, DoneTypes, [Next]_vars
  PROVE  TxTypes'
  <1>1. CASE Plan
    BY <1>1 DEF TxTypes, LinkTypes, DoneTypes, Conns, Messages, vars, linkVars,
       callVars, dataVars, Plan, Connected, Stopping
  <1>2. CASE SendMessage
    BY <1>2 DEF TxTypes, LinkTypes, DoneTypes, Conns, Messages, vars, linkVars,
       callVars, dataVars, SendMessage, Connected, Stopping, SameConnection, Taken,
       Attempted
  <1>3. CASE MessageAcked
    BY <1>3 DEF TxTypes, LinkTypes, DoneTypes, Conns, Messages, vars, linkVars,
       callVars, dataVars, MessageAcked
  <1>4. CASE MessageRefused
    BY <1>4 DEF TxTypes, LinkTypes, DoneTypes, Conns, Messages, vars, linkVars,
       callVars, dataVars, MessageRefused, Settled
  <1>5. CASE MessageLost
    <2>1. \/ tx' = [tx EXCEPT !.pc = "readback"]
          \/ tx' = [tx EXCEPT !.pc = "idle", !.conn = None, !.verdict = "failed"]
      BY <1>5 DEF MessageLost, Settled
    <2> QED BY ONLY <2>1, TxTypes DEF TxTypes
  <1>6. CASE ConnectionChanged
    BY <1>6 DEF TxTypes, LinkTypes, DoneTypes, Conns, Messages, vars, linkVars,
       callVars, dataVars, ConnectionChanged, Connected, Stopping, SameConnection,
       Settled
  <1>7. CASE ReadBack
    BY <1>7 DEF TxTypes, LinkTypes, DoneTypes, Conns, Messages, vars, linkVars,
       callVars, dataVars, ReadBack, Settled, ReadbackReady
  <1>8. CASE PlanTimesOut
    BY <1>8 DEF TxTypes, LinkTypes, DoneTypes, Conns, Messages, vars, linkVars,
       callVars, dataVars, PlanTimesOut, Settled
  <1>9. CASE RunnerResolves \/ ResolveFails \/ RunnerConnects \/ ConnectFails \/
             RunnerRequests \/ RunnerActive \/ SessionEnds \/ SessionStops \/
             SessionSticks \/ RunnerDisconnects \/ RunnerRetries
    BY <1>9 DEF TxTypes, LinkTypes, DoneTypes, Conns, Messages, vars, linkVars,
       callVars, dataVars, RunnerResolves, ResolveFails, RunnerEnds, RunnerConnects,
       ConnectFails, RunnerRequests, RunnerActive, SessionEnds, SessionStops,
       SessionSticks, RunnerDisconnects, Disconnected, RunnerRetries
  <1>10. CASE StartRefused \/ Start \/ StartReturns \/ StopBegins \/ StopWaited \/
             StopTasks \/ StopLink \/ StopEnds
    BY <1>10 DEF TxTypes, LinkTypes, DoneTypes, Conns, Messages, vars, linkVars,
       callVars, dataVars, StartRefused, Start, StartReturns, StopBegins, StopWaited,
       StopTasks, StopLink, Disconnected, StopEnds
  <1>11. CASE (\E c \in Conns : LinkDrops(c)) \/ (\E c \in Conns : LateDisconnect(c)) \/
             (\E c \in Conns : LateSession(c)) \/ CallbacksEnd \/ OtherAdmin \/ (\E k \in
             Asks : AskOnce(k)) \/ (\E k \in Asks : Answered(k)) \/ (\E k \in Asks :
             AskEnds(k))
    BY <1>11 DEF TxTypes, LinkTypes, DoneTypes, Conns, Messages, vars, linkVars,
       callVars, dataVars, LinkDrops, LateDisconnect, LateSession, CallbacksEnd,
       OtherAdmin, AskOnce, Answered, AskEnds
  <1>12. CASE UNCHANGED vars
    BY <1>12 DEF TxTypes, LinkTypes, DoneTypes, Conns, Messages, vars, linkVars,
       callVars, dataVars
  <1> QED
    BY <1>1, <1>2, <1>3, <1>4, <1>5, <1>6, <1>7, <1>8, <1>9, <1>10, <1>11, <1>12
       DEF Next, Supervisor, Caller, Transaction, Platform

\* The radio.
LEMMA RadioTypesStep ==
  ASSUME RadioTypes, TxTypes, [Next]_vars
  PROVE  RadioTypes'
  <1>1. CASE RunnerActive
    BY <1>1 DEF RadioTypes, TxTypes, Values, vars, linkVars, callVars, dataVars,
       RunnerActive
  <1>2. CASE Plan
    BY <1>2 DEF RadioTypes, TxTypes, Values, vars, linkVars, callVars, dataVars, Plan,
       Connected, Stopping
  <1>3. CASE SendMessage
    <2>1. CASE radio' = radio
      BY <2>1 DEF RadioTypes
    <2>2. CASE radio' = Taken(tx.msg)
      <3>1. CASE tx.msg = "begin"
        BY <2>2, <3>1 DEF Taken, RadioTypes
      <3>2. CASE tx.msg = "write"
        BY <2>2, <3>2 DEF Taken, RadioTypes
      <3>3. CASE tx.msg = "commit"
        BY <2>2, <3>3 DEF Taken, RadioTypes, Values
      <3> QED BY <3>1, <3>2, <3>3 DEF TxTypes, Messages
    <2> QED BY <2>1, <2>2, <1>3 DEF SendMessage
  <1>4. CASE OtherAdmin
    BY <1>4 DEF RadioTypes, TxTypes, Values, vars, linkVars, callVars, dataVars, OtherAdmin
  <1>5. CASE \E c \in Conns : LinkDrops(c)
    BY <1>5 DEF RadioTypes, TxTypes, Values, vars, linkVars, callVars, dataVars, LinkDrops
  <1>6. CASE RunnerResolves \/ ResolveFails \/ RunnerConnects \/ ConnectFails \/
             RunnerRequests \/ SessionEnds \/ SessionStops \/ SessionSticks \/
             RunnerDisconnects \/ RunnerRetries
    BY <1>6 DEF RadioTypes, TxTypes, Values, vars, linkVars, callVars, dataVars,
       RunnerResolves, ResolveFails, RunnerEnds, RunnerConnects, ConnectFails,
       RunnerRequests, SessionEnds, SessionStops, SessionSticks, RunnerDisconnects,
       Disconnected, RunnerRetries
  <1>7. CASE StartRefused \/ Start \/ StartReturns \/ StopBegins \/ StopWaited \/
             StopTasks \/ StopLink \/ StopEnds
    BY <1>7 DEF RadioTypes, TxTypes, Values, vars, linkVars, callVars, dataVars,
       StartRefused, Start, StartReturns, StopBegins, StopWaited, StopTasks, StopLink,
       Disconnected, StopEnds
  <1>8. CASE MessageAcked \/ MessageRefused \/ MessageLost \/ ConnectionChanged \/
             ReadBack \/ PlanTimesOut
    BY <1>8 DEF RadioTypes, TxTypes, Values, vars, linkVars, callVars, dataVars,
       MessageAcked, MessageRefused, Settled, MessageLost, ConnectionChanged, ReadBack,
       PlanTimesOut
  <1>9. CASE (\E c \in Conns : LateDisconnect(c)) \/ (\E c \in Conns : LateSession(c)) \/
             CallbacksEnd \/ (\E k \in Asks : AskOnce(k)) \/ (\E k \in Asks : Answered(k))
             \/ (\E k \in Asks : AskEnds(k))
    BY <1>9 DEF RadioTypes, TxTypes, Values, vars, linkVars, callVars, dataVars,
       LateDisconnect, LateSession, CallbacksEnd, AskOnce, Answered, AskEnds
  <1>10. CASE UNCHANGED vars
    BY <1>10 DEF RadioTypes, TxTypes, Values, vars, linkVars, callVars, dataVars
  <1> QED
    BY <1>1, <1>2, <1>3, <1>4, <1>5, <1>6, <1>7, <1>8, <1>9, <1>10
       DEF Next, Supervisor, Caller, Transaction, Platform

\* Every step keeps the types.
LEMMA TypeStep ==
  ASSUME TypeOK, CountInv, [Next]_vars
  PROVE  TypeOK'
  <1>1. /\ LinkTypes' /\ RunTypes' /\ CallTypes' /\ DoneTypes'
        /\ AskTypes' /\ TxTypes' /\ RadioTypes'
    BY TypeGroups, LinkTypesStep, RunTypesStep, CallTypesStep, DoneTypesStep, AskTypesStep,
       TxTypesStep, RadioTypesStep
  <1> QED
    BY <1>1 DEF TypeOK, LinkTypes, RunTypes, CallTypes, DoneTypes, AskTypes, TxTypes, RadioTypes

\* Every connection is made, downloads at most once and in its turn.
LEMMA CountStep ==
  ASSUME LinkTypes, RunTypes, DoneTypes, CountInv, [Next]_vars
  PROVE  CountInv'
  <1>1. CASE RunnerResolves
    BY <1>1 DEF CountInv, LinkTypes, RunTypes, DoneTypes, Conns, Sessions, vars,
       linkVars, callVars, dataVars, RunnerResolves
  <1>2. CASE ResolveFails
    BY <1>2 DEF CountInv, LinkTypes, RunTypes, DoneTypes, Conns, Sessions, vars,
       linkVars, callVars, dataVars, ResolveFails, RunnerEnds
  <1>3. CASE RunnerConnects
    BY <1>3 DEF CountInv, LinkTypes, RunTypes, DoneTypes, Conns, Sessions, vars,
       linkVars, callVars, dataVars, RunnerConnects
  <1>4. CASE ConnectFails
    BY <1>4 DEF CountInv, LinkTypes, RunTypes, DoneTypes, Conns, Sessions, vars,
       linkVars, callVars, dataVars, ConnectFails
  <1>5. CASE RunnerRequests
    BY <1>5 DEF CountInv, LinkTypes, RunTypes, DoneTypes, Conns, Sessions, vars,
       linkVars, callVars, dataVars, RunnerRequests
  <1>6. CASE RunnerActive
    BY <1>6 DEF CountInv, LinkTypes, RunTypes, DoneTypes, Conns, Sessions, vars,
       linkVars, callVars, dataVars, RunnerActive
  <1>7. CASE SessionEnds
    BY <1>7 DEF CountInv, LinkTypes, RunTypes, DoneTypes, Conns, Sessions, vars,
       linkVars, callVars, dataVars, SessionEnds, PendingFailed
  <1>8. CASE SessionStops
    BY <1>8 DEF CountInv, LinkTypes, RunTypes, DoneTypes, Conns, Sessions, vars,
       linkVars, callVars, dataVars, SessionStops
  <1>9. CASE SessionSticks
    BY <1>9 DEF CountInv, LinkTypes, RunTypes, DoneTypes, Conns, Sessions, vars,
       linkVars, callVars, dataVars, SessionSticks, RunnerEnds
  <1>10. CASE RunnerDisconnects
    BY <1>10 DEF CountInv, LinkTypes, RunTypes, DoneTypes, Conns, Sessions, vars,
       linkVars, callVars, dataVars, RunnerDisconnects, RunnerEnds, Disconnected,
       TeardownConfirmed
  <1>11. CASE RunnerRetries
    BY <1>11 DEF CountInv, LinkTypes, RunTypes, DoneTypes, Conns, Sessions, vars,
       linkVars, callVars, dataVars, RunnerRetries, RunnerEnds
  <1>12. CASE Start
    BY <1>12 DEF CountInv, LinkTypes, RunTypes, DoneTypes, Conns, Sessions, vars,
       linkVars, callVars, dataVars, Start, OwnersPending, OwnsRef, Owns, RunnerLive,
       TasksLive, Connected, Stopping
  <1>13. CASE StopBegins
    BY <1>13 DEF CountInv, LinkTypes, RunTypes, DoneTypes, Conns, Sessions, vars,
       linkVars, callVars, dataVars, StopBegins, PendingFailed, RunnerLive
  <1>14. CASE StopEnds
    BY <1>14 DEF CountInv, LinkTypes, RunTypes, DoneTypes, Conns, Sessions, vars,
       linkVars, callVars, dataVars, StopEnds, OwnsRef, Owns, RunnerLive, TasksLive,
       CleanupConfirmed
  <1>15. CASE StartRefused \/ StartReturns \/ StopWaited \/ StopTasks \/ StopLink
    BY <1>15 DEF CountInv, LinkTypes, RunTypes, DoneTypes, Conns, Sessions, vars,
       linkVars, callVars, dataVars, StartRefused, StartReturns, StopWaited, StopTasks,
       StopLink, Disconnected
  <1>16. CASE Plan \/ SendMessage \/ MessageAcked \/ MessageRefused \/ MessageLost \/
             ConnectionChanged \/ ReadBack \/ PlanTimesOut
    BY <1>16 DEF CountInv, LinkTypes, RunTypes, DoneTypes, Conns, Sessions, vars,
       linkVars, callVars, dataVars, Plan, SendMessage, MessageAcked, MessageRefused,
       Settled, MessageLost, ConnectionChanged, ReadBack, PlanTimesOut
  <1>17. CASE (\E c \in Conns : LinkDrops(c)) \/ (\E c \in Conns : LateDisconnect(c)) \/
             (\E c \in Conns : LateSession(c)) \/ CallbacksEnd \/ OtherAdmin \/ (\E k \in
             Asks : AskOnce(k)) \/ (\E k \in Asks : Answered(k)) \/ (\E k \in Asks :
             AskEnds(k))
    BY <1>17 DEF CountInv, LinkTypes, RunTypes, DoneTypes, Conns, Sessions, vars,
       linkVars, callVars, dataVars, LinkDrops, LateDisconnect, LateSession,
       CallbacksEnd, OtherAdmin, AskOnce, Answered, AskEnds
  <1>18. CASE UNCHANGED vars
    BY <1>18 DEF CountInv, LinkTypes, RunTypes, DoneTypes, Conns, Sessions, vars,
       linkVars, callVars, dataVars
  <1> QED
    BY <1>1, <1>2, <1>3, <1>4, <1>5, <1>6, <1>7, <1>8, <1>9, <1>10, <1>11, <1>12, <1>13,
       <1>14, <1>15, <1>16, <1>17, <1>18
       DEF Next, Supervisor, Caller, Transaction, Platform

\* The endpoint stays with one connection.
LEMMA EndpointStep ==
  ASSUME LinkTypes, RunTypes, DoneTypes, CountInv, EndpointInv, [Next]_vars
  PROVE  EndpointInv'
  <1>1. CASE RunnerResolves
    BY <1>1 DEF EndpointInv, CountInv, AllFree, Busy, Owns, LinkTypes, RunTypes,
       DoneTypes, Conns, Sessions, vars, linkVars, callVars, dataVars, RunnerResolves
  <1>2. CASE ResolveFails
    BY <1>2 DEF EndpointInv, CountInv, AllFree, Busy, Owns, LinkTypes, RunTypes,
       DoneTypes, Conns, Sessions, vars, linkVars, callVars, dataVars, ResolveFails,
       RunnerEnds
  <1>3. CASE RunnerConnects
    BY <1>3 DEF EndpointInv, CountInv, AllFree, Busy, Owns, LinkTypes, RunTypes,
       DoneTypes, Conns, Sessions, vars, linkVars, callVars, dataVars, RunnerConnects
  <1>4. CASE ConnectFails
    BY <1>4 DEF EndpointInv, CountInv, AllFree, Busy, Owns, LinkTypes, RunTypes,
       DoneTypes, Conns, Sessions, vars, linkVars, callVars, dataVars, ConnectFails
  <1>5. CASE RunnerRequests
    BY <1>5 DEF EndpointInv, CountInv, AllFree, Busy, Owns, LinkTypes, RunTypes,
       DoneTypes, Conns, Sessions, vars, linkVars, callVars, dataVars, RunnerRequests
  <1>6. CASE RunnerActive
    BY <1>6 DEF EndpointInv, CountInv, AllFree, Busy, Owns, LinkTypes, RunTypes,
       DoneTypes, Conns, Sessions, vars, linkVars, callVars, dataVars, RunnerActive
  <1>7. CASE SessionEnds
    BY <1>7 DEF EndpointInv, CountInv, AllFree, Busy, Owns, LinkTypes, RunTypes,
       DoneTypes, Conns, Sessions, vars, linkVars, callVars, dataVars, SessionEnds,
       PendingFailed
  <1>8. CASE SessionStops
    BY <1>8 DEF EndpointInv, CountInv, AllFree, Busy, Owns, LinkTypes, RunTypes,
       DoneTypes, Conns, Sessions, vars, linkVars, callVars, dataVars, SessionStops
  <1>9. CASE SessionSticks
    BY <1>9 DEF EndpointInv, CountInv, AllFree, Busy, Owns, LinkTypes, RunTypes,
       DoneTypes, Conns, Sessions, vars, linkVars, callVars, dataVars, SessionSticks,
       RunnerEnds
  <1>10. CASE RunnerDisconnects
    BY <1>10 DEF EndpointInv, CountInv, AllFree, Busy, Owns, LinkTypes, RunTypes,
       DoneTypes, Conns, Sessions, vars, linkVars, callVars, dataVars,
       RunnerDisconnects, RunnerEnds, Disconnected, TeardownConfirmed
  <1>11. CASE RunnerRetries
    BY <1>11 DEF EndpointInv, CountInv, AllFree, Busy, Owns, LinkTypes, RunTypes,
       DoneTypes, Conns, Sessions, vars, linkVars, callVars, dataVars, RunnerRetries,
       RunnerEnds
  <1>12. CASE StartRefused
    BY <1>12 DEF EndpointInv, CountInv, AllFree, Busy, Owns, LinkTypes, RunTypes,
       DoneTypes, Conns, Sessions, vars, linkVars, callVars, dataVars, StartRefused,
       OwnersPending, OwnsRef, Owns, RunnerLive, TasksLive, Connected, Stopping
  <1>13. CASE Start
    BY <1>13 DEF EndpointInv, CountInv, AllFree, Busy, Owns, LinkTypes, RunTypes,
       DoneTypes, Conns, Sessions, vars, linkVars, callVars, dataVars, Start,
       OwnersPending, OwnsRef, Owns, RunnerLive, TasksLive, Connected, Stopping
  <1>14. CASE StartReturns
    BY <1>14 DEF EndpointInv, CountInv, AllFree, Busy, Owns, LinkTypes, RunTypes,
       DoneTypes, Conns, Sessions, vars, linkVars, callVars, dataVars, StartReturns
  <1>15. CASE StopBegins
    BY <1>15 DEF EndpointInv, CountInv, AllFree, Busy, Owns, LinkTypes, RunTypes,
       DoneTypes, Conns, Sessions, vars, linkVars, callVars, dataVars, StopBegins,
       PendingFailed, RunnerLive
  <1>16. CASE StopWaited
    BY <1>16 DEF EndpointInv, CountInv, AllFree, Busy, Owns, LinkTypes, RunTypes,
       DoneTypes, Conns, Sessions, vars, linkVars, callVars, dataVars, StopWaited,
       RunnerLive
  <1>17. CASE StopTasks
    <2>1. session' = session \/ (taskRef \in Conns /\ session[taskRef] # "none"
                                 /\ \E t \in {"none", "stuck"} : session' = [session EXCEPT ![taskRef] = t])
      BY <1>17 DEF StopTasks, TasksLive, LinkTypes
    <2>2. \A c \in Conns : session'[c] # "none" => session[c] # "none"
      BY <2>1 DEF LinkTypes
    <2> QED BY <1>17, <2>2 DEF StopTasks, EndpointInv, AllFree, Busy, Owns, dataVars, vars
  <1>18. CASE StopLink
    BY <1>18 DEF EndpointInv, CountInv, AllFree, Busy, Owns, LinkTypes, RunTypes,
       DoneTypes, Conns, Sessions, vars, linkVars, callVars, dataVars, StopLink,
       Disconnected, OwnsRef, Owns, TasksLive
  <1>19. CASE StopEnds
    BY <1>19 DEF EndpointInv, CountInv, AllFree, Busy, Owns, LinkTypes, RunTypes,
       DoneTypes, Conns, Sessions, vars, linkVars, callVars, dataVars, StopEnds,
       OwnsRef, Owns, RunnerLive, TasksLive, CleanupConfirmed
  <1>20. CASE CallbacksEnd
    BY <1>20 DEF EndpointInv, CountInv, AllFree, Busy, Owns, LinkTypes, RunTypes,
       DoneTypes, Conns, Sessions, vars, linkVars, callVars, dataVars, CallbacksEnd
  <1>21. CASE OtherAdmin
    BY <1>21 DEF EndpointInv, CountInv, AllFree, Busy, Owns, LinkTypes, RunTypes,
       DoneTypes, Conns, Sessions, vars, linkVars, callVars, dataVars, OtherAdmin
  <1>22. CASE \E c \in Conns : LinkDrops(c)
    BY <1>22 DEF EndpointInv, CountInv, AllFree, Busy, Owns, LinkTypes, RunTypes,
       DoneTypes, Conns, Sessions, vars, linkVars, callVars, dataVars, LinkDrops
  <1>23. CASE \E c \in Conns : LateDisconnect(c)
    BY <1>23 DEF EndpointInv, CountInv, AllFree, Busy, Owns, LinkTypes, RunTypes,
       DoneTypes, Conns, Sessions, vars, linkVars, callVars, dataVars, LateDisconnect
  <1>24. CASE \E c \in Conns : LateSession(c)
    BY <1>24 DEF EndpointInv, CountInv, AllFree, Busy, Owns, LinkTypes, RunTypes,
       DoneTypes, Conns, Sessions, vars, linkVars, callVars, dataVars, LateSession
  <1>25. CASE Plan \/ SendMessage \/ MessageAcked \/ MessageRefused \/ MessageLost \/
             ConnectionChanged \/ ReadBack \/ PlanTimesOut
    BY <1>25 DEF EndpointInv, CountInv, AllFree, Busy, Owns, LinkTypes, RunTypes,
       DoneTypes, Conns, Sessions, vars, linkVars, callVars, dataVars, Plan,
       SendMessage, MessageAcked, MessageRefused, Settled, MessageLost,
       ConnectionChanged, ReadBack, PlanTimesOut
  <1>26. CASE (\E k \in Asks : AskOnce(k)) \/ (\E k \in Asks : Answered(k)) \/ (\E k \in
             Asks : AskEnds(k))
    BY <1>26 DEF EndpointInv, CountInv, AllFree, Busy, Owns, LinkTypes, RunTypes,
       DoneTypes, Conns, Sessions, vars, linkVars, callVars, dataVars, AskOnce,
       Answered, AskEnds
  <1>27. CASE UNCHANGED vars
    BY <1>27 DEF EndpointInv, CountInv, AllFree, Busy, Owns, LinkTypes, RunTypes,
       DoneTypes, Conns, Sessions, vars, linkVars, callVars, dataVars
  <1> QED
    BY <1>1, <1>2, <1>3, <1>4, <1>5, <1>6, <1>7, <1>8, <1>9, <1>10, <1>11, <1>12, <1>13,
       <1>14, <1>15, <1>16, <1>17, <1>18, <1>19, <1>20, <1>21, <1>22, <1>23, <1>24,
       <1>25, <1>26, <1>27
       DEF Next, Supervisor, Caller, Transaction, Platform

\* A client that stopped stays free until it is started.
LEMMA FreeStep ==
  ASSUME LinkTypes, RunTypes, EndpointInv, FreeInv, [Next]_vars
  PROVE  FreeInv'
  <1>1. CASE RunnerResolves
    BY <1>1 DEF FreeInv, EndpointInv, AllFree, Busy, Owns, RunnerLive, LinkTypes,
       RunTypes, Conns, vars, linkVars, callVars, dataVars, RunnerResolves
  <1>2. CASE ResolveFails
    BY <1>2 DEF FreeInv, EndpointInv, AllFree, Busy, Owns, RunnerLive, LinkTypes,
       RunTypes, Conns, vars, linkVars, callVars, dataVars, ResolveFails, RunnerEnds
  <1>3. CASE RunnerConnects
    BY <1>3 DEF FreeInv, EndpointInv, AllFree, Busy, Owns, RunnerLive, LinkTypes,
       RunTypes, Conns, vars, linkVars, callVars, dataVars, RunnerConnects
  <1>4. CASE ConnectFails
    BY <1>4 DEF FreeInv, EndpointInv, AllFree, Busy, Owns, RunnerLive, LinkTypes,
       RunTypes, Conns, vars, linkVars, callVars, dataVars, ConnectFails
  <1>5. CASE RunnerRequests
    BY <1>5 DEF FreeInv, EndpointInv, AllFree, Busy, Owns, RunnerLive, LinkTypes,
       RunTypes, Conns, vars, linkVars, callVars, dataVars, RunnerRequests
  <1>6. CASE RunnerActive
    BY <1>6 DEF FreeInv, EndpointInv, AllFree, Busy, Owns, RunnerLive, LinkTypes,
       RunTypes, Conns, vars, linkVars, callVars, dataVars, RunnerActive
  <1>7. CASE SessionEnds
    <2>1. RunnerLive /\ state' = state
      BY <1>7 DEF SessionEnds, RunnerLive, Sessions
    <2> QED BY <2>1 DEF FreeInv
  <1>8. CASE SessionStops
    BY <1>8 DEF FreeInv, EndpointInv, AllFree, Busy, Owns, RunnerLive, LinkTypes,
       RunTypes, Conns, vars, linkVars, callVars, dataVars, SessionStops
  <1>9. CASE SessionSticks
    BY <1>9 DEF FreeInv, EndpointInv, AllFree, Busy, Owns, RunnerLive, LinkTypes,
       RunTypes, Conns, vars, linkVars, callVars, dataVars, SessionSticks, RunnerEnds
  <1>10. CASE RunnerDisconnects
    BY <1>10 DEF FreeInv, EndpointInv, AllFree, Busy, Owns, RunnerLive, LinkTypes,
       RunTypes, Conns, vars, linkVars, callVars, dataVars, RunnerDisconnects,
       RunnerEnds, Disconnected, TeardownConfirmed
  <1>11. CASE RunnerRetries
    BY <1>11 DEF FreeInv, EndpointInv, AllFree, Busy, Owns, RunnerLive, LinkTypes,
       RunTypes, Conns, vars, linkVars, callVars, dataVars, RunnerRetries, RunnerEnds
  <1>12. CASE StartRefused
    BY <1>12 DEF FreeInv, EndpointInv, AllFree, Busy, Owns, RunnerLive, LinkTypes,
       RunTypes, Conns, vars, linkVars, callVars, dataVars, StartRefused, OwnersPending,
       OwnsRef, Owns, RunnerLive, TasksLive, Connected, Stopping
  <1>13. CASE Start
    BY <1>13 DEF FreeInv, EndpointInv, AllFree, Busy, Owns, RunnerLive, LinkTypes,
       RunTypes, Conns, vars, linkVars, callVars, dataVars, Start, OwnersPending,
       OwnsRef, Owns, RunnerLive, TasksLive, Connected, Stopping
  <1>14. CASE StartReturns
    BY <1>14 DEF FreeInv, EndpointInv, AllFree, Busy, Owns, RunnerLive, LinkTypes,
       RunTypes, Conns, vars, linkVars, callVars, dataVars, StartReturns
  <1>15. CASE StopBegins
    BY <1>15 DEF FreeInv, EndpointInv, AllFree, Busy, Owns, RunnerLive, LinkTypes,
       RunTypes, Conns, vars, linkVars, callVars, dataVars, StopBegins, PendingFailed,
       RunnerLive
  <1>16. CASE StopWaited
    BY <1>16 DEF FreeInv, EndpointInv, AllFree, Busy, Owns, RunnerLive, LinkTypes,
       RunTypes, Conns, vars, linkVars, callVars, dataVars, StopWaited, RunnerLive
  <1>17. CASE StopTasks
    BY <1>17 DEF FreeInv, EndpointInv, AllFree, Busy, Owns, RunnerLive, LinkTypes,
       RunTypes, Conns, vars, linkVars, callVars, dataVars, StopTasks, TasksLive
  <1>18. CASE StopLink
    BY <1>18 DEF FreeInv, EndpointInv, AllFree, Busy, Owns, RunnerLive, LinkTypes,
       RunTypes, Conns, vars, linkVars, callVars, dataVars, StopLink, Disconnected,
       OwnsRef, Owns, TasksLive
  <1>19. CASE StopEnds
    BY <1>19 DEF FreeInv, EndpointInv, AllFree, Busy, Owns, RunnerLive, LinkTypes,
       RunTypes, Conns, vars, linkVars, callVars, dataVars, StopEnds, OwnsRef, Owns,
       RunnerLive, TasksLive, CleanupConfirmed
  <1>20. CASE CallbacksEnd
    BY <1>20 DEF FreeInv, EndpointInv, AllFree, Busy, Owns, RunnerLive, LinkTypes,
       RunTypes, Conns, vars, linkVars, callVars, dataVars, CallbacksEnd
  <1>21. CASE OtherAdmin
    BY <1>21 DEF FreeInv, EndpointInv, AllFree, Busy, Owns, RunnerLive, LinkTypes,
       RunTypes, Conns, vars, linkVars, callVars, dataVars, OtherAdmin
  <1>22. CASE \E c \in Conns : LinkDrops(c)
    BY <1>22 DEF FreeInv, EndpointInv, AllFree, Busy, Owns, RunnerLive, LinkTypes,
       RunTypes, Conns, vars, linkVars, callVars, dataVars, LinkDrops
  <1>23. CASE \E c \in Conns : LateDisconnect(c)
    BY <1>23 DEF FreeInv, EndpointInv, AllFree, Busy, Owns, RunnerLive, LinkTypes,
       RunTypes, Conns, vars, linkVars, callVars, dataVars, LateDisconnect
  <1>24. CASE \E c \in Conns : LateSession(c)
    BY <1>24 DEF FreeInv, EndpointInv, AllFree, Busy, Owns, RunnerLive, LinkTypes,
       RunTypes, Conns, vars, linkVars, callVars, dataVars, LateSession
  <1>25. CASE Plan \/ SendMessage \/ MessageAcked \/ MessageRefused \/ MessageLost \/
             ConnectionChanged \/ ReadBack \/ PlanTimesOut
    BY <1>25 DEF FreeInv, EndpointInv, AllFree, Busy, Owns, RunnerLive, LinkTypes,
       RunTypes, Conns, vars, linkVars, callVars, dataVars, Plan, SendMessage,
       MessageAcked, MessageRefused, Settled, MessageLost, ConnectionChanged, ReadBack,
       PlanTimesOut
  <1>26. CASE (\E k \in Asks : AskOnce(k)) \/ (\E k \in Asks : Answered(k)) \/ (\E k \in
             Asks : AskEnds(k))
    BY <1>26 DEF FreeInv, EndpointInv, AllFree, Busy, Owns, RunnerLive, LinkTypes,
       RunTypes, Conns, vars, linkVars, callVars, dataVars, AskOnce, Answered, AskEnds
  <1>27. CASE UNCHANGED vars
    BY <1>27 DEF FreeInv, EndpointInv, AllFree, Busy, Owns, RunnerLive, LinkTypes,
       RunTypes, Conns, vars, linkVars, callVars, dataVars
  <1> QED
    BY <1>1, <1>2, <1>3, <1>4, <1>5, <1>6, <1>7, <1>8, <1>9, <1>10, <1>11, <1>12, <1>13,
       <1>14, <1>15, <1>16, <1>17, <1>18, <1>19, <1>20, <1>21, <1>22, <1>23, <1>24,
       <1>25, <1>26, <1>27
       DEF Next, Supervisor, Caller, Transaction, Platform

\* Who waits for an answer waits in the session that is active.
LEMMA CallStep ==
  ASSUME RunTypes, CallTypes, AskTypes, EndpointInv, CallInv, [Next]_vars
  PROVE  CallInv'
  <1>1. CASE RunnerResolves
    BY <1>1 DEF CallInv, EndpointInv, RunTypes, CallTypes, AskTypes, Sessions, vars,
       linkVars, callVars, dataVars, RunnerResolves
  <1>2. CASE ResolveFails
    BY <1>2 DEF CallInv, EndpointInv, RunTypes, CallTypes, AskTypes, Sessions, vars,
       linkVars, callVars, dataVars, ResolveFails, RunnerEnds
  <1>3. CASE RunnerConnects
    BY <1>3 DEF CallInv, EndpointInv, RunTypes, CallTypes, AskTypes, Sessions, vars,
       linkVars, callVars, dataVars, RunnerConnects
  <1>4. CASE ConnectFails
    BY <1>4 DEF CallInv, EndpointInv, RunTypes, CallTypes, AskTypes, Sessions, vars,
       linkVars, callVars, dataVars, ConnectFails
  <1>5. CASE RunnerRequests
    BY <1>5 DEF CallInv, EndpointInv, RunTypes, CallTypes, AskTypes, Sessions, vars,
       linkVars, callVars, dataVars, RunnerRequests
  <1>6. CASE RunnerActive
    BY <1>6 DEF CallInv, EndpointInv, RunTypes, CallTypes, AskTypes, Sessions, vars,
       linkVars, callVars, dataVars, RunnerActive
  <1>7. CASE SessionEnds
    BY <1>7 DEF CallInv, EndpointInv, RunTypes, CallTypes, AskTypes, Sessions, vars,
       linkVars, callVars, dataVars, SessionEnds, PendingFailed
  <1>8. CASE SessionStops
    BY <1>8 DEF CallInv, EndpointInv, RunTypes, CallTypes, AskTypes, Sessions, vars,
       linkVars, callVars, dataVars, SessionStops
  <1>9. CASE SessionSticks
    BY <1>9 DEF CallInv, EndpointInv, RunTypes, CallTypes, AskTypes, Sessions, vars,
       linkVars, callVars, dataVars, SessionSticks, RunnerEnds
  <1>10. CASE RunnerDisconnects
    BY <1>10 DEF CallInv, EndpointInv, RunTypes, CallTypes, AskTypes, Sessions, vars,
       linkVars, callVars, dataVars, RunnerDisconnects, RunnerEnds, Disconnected,
       TeardownConfirmed
  <1>11. CASE RunnerRetries
    BY <1>11 DEF CallInv, EndpointInv, RunTypes, CallTypes, AskTypes, Sessions, vars,
       linkVars, callVars, dataVars, RunnerRetries, RunnerEnds
  <1>12. CASE StartRefused
    BY <1>12 DEF CallInv, EndpointInv, RunTypes, CallTypes, AskTypes, Sessions, vars,
       linkVars, callVars, dataVars, StartRefused, OwnersPending, OwnsRef, Owns,
       RunnerLive, TasksLive, Connected, Stopping
  <1>13. CASE Start
    BY <1>13 DEF CallInv, EndpointInv, RunTypes, CallTypes, AskTypes, Sessions, vars,
       linkVars, callVars, dataVars, Start, OwnersPending, OwnsRef, Owns, RunnerLive,
       TasksLive, Connected, Stopping
  <1>14. CASE StartReturns
    BY <1>14 DEF CallInv, EndpointInv, RunTypes, CallTypes, AskTypes, Sessions, vars,
       linkVars, callVars, dataVars, StartReturns
  <1>15. CASE StopBegins
    BY <1>15 DEF CallInv, EndpointInv, RunTypes, CallTypes, AskTypes, Sessions, vars,
       linkVars, callVars, dataVars, StopBegins, PendingFailed, RunnerLive
  <1>16. CASE StopWaited
    BY <1>16 DEF CallInv, EndpointInv, RunTypes, CallTypes, AskTypes, Sessions, vars,
       linkVars, callVars, dataVars, StopWaited, RunnerLive
  <1>17. CASE StopTasks
    BY <1>17 DEF CallInv, EndpointInv, RunTypes, CallTypes, AskTypes, Sessions, vars,
       linkVars, callVars, dataVars, StopTasks, TasksLive
  <1>18. CASE StopLink
    BY <1>18 DEF CallInv, EndpointInv, RunTypes, CallTypes, AskTypes, Sessions, vars,
       linkVars, callVars, dataVars, StopLink, Disconnected, OwnsRef, Owns, TasksLive
  <1>19. CASE StopEnds
    BY <1>19 DEF CallInv, EndpointInv, RunTypes, CallTypes, AskTypes, Sessions, vars,
       linkVars, callVars, dataVars, StopEnds, OwnsRef, Owns, RunnerLive, TasksLive,
       CleanupConfirmed
  <1>20. CASE CallbacksEnd
    BY <1>20 DEF CallInv, EndpointInv, RunTypes, CallTypes, AskTypes, Sessions, vars,
       linkVars, callVars, dataVars, CallbacksEnd
  <1>21. CASE \E k \in Asks : AskOnce(k)
    BY <1>21 DEF CallInv, EndpointInv, RunTypes, CallTypes, AskTypes, Sessions, vars,
       linkVars, callVars, dataVars, AskOnce, Connected, Stopping
  <1>22. CASE \E k \in Asks : Answered(k)
    BY <1>22 DEF CallInv, EndpointInv, RunTypes, CallTypes, AskTypes, Sessions, vars,
       linkVars, callVars, dataVars, Answered
  <1>23. CASE \E k \in Asks : AskEnds(k)
    BY <1>23 DEF CallInv, EndpointInv, RunTypes, CallTypes, AskTypes, Sessions, vars,
       linkVars, callVars, dataVars, AskEnds
  <1>24. CASE Plan \/ SendMessage \/ MessageAcked \/ MessageRefused \/ MessageLost \/
             ConnectionChanged \/ ReadBack \/ PlanTimesOut
    BY <1>24 DEF CallInv, EndpointInv, RunTypes, CallTypes, AskTypes, Sessions, vars,
       linkVars, callVars, dataVars, Plan, SendMessage, MessageAcked, MessageRefused,
       Settled, MessageLost, ConnectionChanged, ReadBack, PlanTimesOut
  <1>25. CASE (\E c \in Conns : LinkDrops(c)) \/ (\E c \in Conns : LateDisconnect(c)) \/
             (\E c \in Conns : LateSession(c)) \/ OtherAdmin
    BY <1>25 DEF CallInv, EndpointInv, RunTypes, CallTypes, AskTypes, Sessions, vars,
       linkVars, callVars, dataVars, LinkDrops, LateDisconnect, LateSession, OtherAdmin
  <1>26. CASE UNCHANGED vars
    BY <1>26 DEF CallInv, EndpointInv, RunTypes, CallTypes, AskTypes, Sessions, vars,
       linkVars, callVars, dataVars
  <1> QED
    BY <1>1, <1>2, <1>3, <1>4, <1>5, <1>6, <1>7, <1>8, <1>9, <1>10, <1>11, <1>12, <1>13,
       <1>14, <1>15, <1>16, <1>17, <1>18, <1>19, <1>20, <1>21, <1>22, <1>23, <1>24,
       <1>25, <1>26
       DEF Next, Supervisor, Caller, Transaction, Platform

\* What is known of a plan while it runs, and its verdict.
LEMMA PlanStep ==
  ASSUME DoneTypes, TxTypes, RadioTypes, PlanInv, [Next]_vars
  PROVE  PlanInv'
  <1>1. CASE RunnerConnects
    BY <1>1 DEF PlanInv, VerdictIsHonest, DoneTypes, TxTypes, RadioTypes, Values,
       Messages, vars, linkVars, callVars, dataVars, RunnerConnects
  <1>2. CASE RunnerActive
    BY <1>2 DEF PlanInv, VerdictIsHonest, DoneTypes, TxTypes, RadioTypes, Values,
       Messages, vars, linkVars, callVars, dataVars, RunnerActive
  <1>3. CASE Plan
    BY <1>3 DEF PlanInv, VerdictIsHonest, DoneTypes, TxTypes, RadioTypes, Values,
       Messages, vars, linkVars, callVars, dataVars, Plan, Connected, Stopping
  <1>4. CASE SendMessage
    BY <1>4 DEF PlanInv, VerdictIsHonest, DoneTypes, TxTypes, RadioTypes, Values,
       Messages, vars, linkVars, callVars, dataVars, SendMessage, Connected, Stopping,
       SameConnection, Taken, Attempted
  <1>5. CASE MessageAcked
    BY <1>5 DEF PlanInv, VerdictIsHonest, DoneTypes, TxTypes, RadioTypes, Values,
       Messages, vars, linkVars, callVars, dataVars, MessageAcked
  <1>6. CASE MessageRefused
    BY <1>6 DEF PlanInv, VerdictIsHonest, DoneTypes, TxTypes, RadioTypes, Values,
       Messages, vars, linkVars, callVars, dataVars, MessageRefused, Settled
  <1>7. CASE MessageLost
    <2>1. CASE tx' = [tx EXCEPT !.pc = "readback"] /\ tx.msg = "commit"
      BY <1>7, <2>1 DEF PlanInv, VerdictIsHonest, TxTypes, MessageLost, dataVars
    <2>2. CASE tx' = [tx EXCEPT !.pc = "idle", !.conn = None, !.verdict = "failed"]
               /\ tx.msg # "commit"
      BY <1>7, <2>2 DEF PlanInv, VerdictIsHonest, TxTypes, MessageLost
    <2> QED BY <1>7, <2>1, <2>2 DEF MessageLost, Settled
  <1>8. CASE ConnectionChanged
    BY <1>8 DEF PlanInv, VerdictIsHonest, DoneTypes, TxTypes, RadioTypes, Values,
       Messages, vars, linkVars, callVars, dataVars, ConnectionChanged, Connected,
       Stopping, SameConnection, Settled
  <1>9. CASE ReadBack
    BY <1>9 DEF PlanInv, VerdictIsHonest, DoneTypes, TxTypes, RadioTypes, Values,
       Messages, vars, linkVars, callVars, dataVars, ReadBack, Settled, ReadbackReady
  <1>10. CASE PlanTimesOut
    BY <1>10 DEF PlanInv, VerdictIsHonest, DoneTypes, TxTypes, RadioTypes, Values,
       Messages, vars, linkVars, callVars, dataVars, PlanTimesOut, Settled
  <1>11. CASE OtherAdmin
    BY <1>11 DEF PlanInv, VerdictIsHonest, DoneTypes, TxTypes, RadioTypes, Values,
       Messages, vars, linkVars, callVars, dataVars, OtherAdmin
  <1>12. CASE \E c \in Conns : LinkDrops(c)
    BY <1>12 DEF PlanInv, VerdictIsHonest, DoneTypes, TxTypes, RadioTypes, Values,
       Messages, vars, linkVars, callVars, dataVars, LinkDrops
  <1>13. CASE RunnerResolves \/ ResolveFails \/ ConnectFails \/ RunnerRequests \/
             SessionEnds \/ SessionStops \/ SessionSticks \/ RunnerDisconnects \/
             RunnerRetries
    BY <1>13 DEF PlanInv, VerdictIsHonest, DoneTypes, TxTypes, RadioTypes, Values,
       Messages, vars, linkVars, callVars, dataVars, RunnerResolves, ResolveFails,
       RunnerEnds, ConnectFails, RunnerRequests, SessionEnds, SessionStops,
       SessionSticks, RunnerDisconnects, Disconnected, RunnerRetries
  <1>14. CASE StartRefused \/ Start \/ StartReturns \/ StopBegins \/ StopWaited \/
             StopTasks \/ StopLink \/ StopEnds
    BY <1>14 DEF PlanInv, VerdictIsHonest, DoneTypes, TxTypes, RadioTypes, Values,
       Messages, vars, linkVars, callVars, dataVars, StartRefused, Start, StartReturns,
       StopBegins, StopWaited, StopTasks, StopLink, Disconnected, StopEnds
  <1>15. CASE (\E c \in Conns : LateDisconnect(c)) \/ (\E c \in Conns : LateSession(c)) \/
             CallbacksEnd \/ (\E k \in Asks : AskOnce(k)) \/ (\E k \in Asks : Answered(k))
             \/ (\E k \in Asks : AskEnds(k))
    BY <1>15 DEF PlanInv, VerdictIsHonest, DoneTypes, TxTypes, RadioTypes, Values,
       Messages, vars, linkVars, callVars, dataVars, LateDisconnect, LateSession,
       CallbacksEnd, AskOnce, Answered, AskEnds
  <1>16. CASE UNCHANGED vars
    BY <1>16 DEF PlanInv, VerdictIsHonest, DoneTypes, TxTypes, RadioTypes, Values,
       Messages, vars, linkVars, callVars, dataVars
  <1> QED
    BY <1>1, <1>2, <1>3, <1>4, <1>5, <1>6, <1>7, <1>8, <1>9, <1>10, <1>11, <1>12, <1>13,
       <1>14, <1>15, <1>16
       DEF Next, Supervisor, Caller, Transaction, Platform

\* IInv is inductive.
LEMMA StepInv == IInv /\ [Next]_vars => IInv'
  BY TypeGroups, TypeStep, CountStep, EndpointStep, FreeStep, CallStep, PlanStep DEF IInv

-----------------------------------------------------------------------------
(* The theorems *)

\* The types, the references and the plan, in every reachable state.
THEOREM InductiveInvariant == Spec => []IInv
  <1> QED BY InitInv, StepInv, PTL DEF Spec

\* Type correctness, with the counters within their bounds.
THEOREM TypeCorrect == Spec => []TypeOK
  <1>1. IInv => TypeOK
    BY DEF IInv
  <1> QED BY <1>1, InductiveInvariant, PTL

\* No two connections hold the endpoint, across failed teardowns, ignored
\* cancellations, reconnects and restarts.
THEOREM OwnerIsOne == Spec => []OneOwner
  <1>1. IInv => OneOwner
    <2> SUFFICES ASSUME IInv PROVE OneOwner
      OBVIOUS
    <2> DEFINE B == {c \in Conns : Owns(c) \/ session[c] # "none"}
    <2>1. B \subseteq {connRef}
      BY DEF IInv, EndpointInv, Busy
    <2>2. IsFiniteSet({connRef}) /\ Cardinality({connRef}) = 1
      BY FS_Singleton
    <2>3. Cardinality(B) <= 1
      BY ONLY <2>1, <2>2, FS_Subset
    <2> QED BY <2>3 DEF OneOwner
  <1> QED BY <1>1, InductiveInvariant, PTL

\* A stop that reports success leaves nothing of the client behind.
THEOREM StopFrees == Spec => []StoppedIsFree
  <1>1. IInv => StoppedIsFree
    BY DEF IInv, FreeInv, AllFree, Busy, StoppedIsFree
  <1> QED BY <1>1, InductiveInvariant, PTL

\* "verified" and "mismatch" rest on a later download, "failed" on a radio that
\* took no commit.
THEOREM VerdictsHonest == Spec => []VerdictIsHonest
  <1>1. IInv => VerdictIsHonest
    BY DEF IInv, PlanInv
  <1> QED BY <1>1, InductiveInvariant, PTL

\* An answer goes to a request of the session that delivers it.
THEOREM AnswersOwn == Spec => AnswerIsOwn
  <1>1. IInv /\ [Next]_vars
          => [\A k \in Asks :
                ask[k].pc = "wait" /\ ask'[k].pc = "answered" => connRef = ask[k].conn]_vars
    BY DEF IInv, CallInv
  <1> QED BY <1>1, InductiveInvariant, PTL DEF Spec, AnswerIsOwn
=============================================================================
