------------------------- MODULE PythonAutoHeartbeat -------------------------
(***************************************************************************)
(* One activity attempt under the Python interceptor:                      *)
(* _ActivityInbound.execute_activity and _heartbeat_loop of                *)
(* examples/py/activitypolicyinterceptor/activitypolicyinterceptor.py.     *)
(* The loop is an asyncio task; the event loop runs what is ready within   *)
(* Latency.  Time is discrete, relative, and in halves of the unit of the  *)
(* heartbeat timeout, so that the cadence is exact.                        *)
(***************************************************************************)
EXTENDS Naturals

CONSTANTS
  HeartbeatTimeouts,            \* of activity.info(); 0 is none
  DEFAULT_AUTO_HEARTBEAT_CADENCE,
  Latency                       \* bound on the wait of a task that is ready

ASSUME ConstantsAssumption ==
  /\ Latency \in Nat
  /\ DEFAULT_AUTO_HEARTBEAT_CADENCE \in Nat
  /\ DEFAULT_AUTO_HEARTBEAT_CADENCE > 2 * Latency
  /\ HeartbeatTimeouts \subseteq Nat
  /\ \A t \in HeartbeatTimeouts : t % 2 = 0 /\ (t = 0 \/ t \div 2 > 2 * Latency)

VARIABLES
  heartbeatTimeout,  \* fixed by Init
  autoHeartbeat,     \* Options.auto_heartbeat, fixed by Init
  activity,          \* "scheduled", "running", "stopping" (in the finally block)
                     \* or "returned" to the worker
  task,              \* "none", "created", "sleeping", "due", "canceling", "done"
  untilDue,          \* the rest of the sleep
  waited,            \* how long the task has been ready
  cancelRequested,   \* by the service
  canceled,          \* has the activity been told?
  sinceBeat,         \* time since the start or the last heartbeat, up to a cap
  late               \* heartbeats recorded after the activity's end

vars == <<heartbeatTimeout, autoHeartbeat, activity, task, untilDue, waited,
          cancelRequested, canceled, sinceBeat, late>>

attempt == <<heartbeatTimeout, autoHeartbeat>>

-----------------------------------------------------------------------------
cadenceOfWholeTimeout ==
  IF heartbeatTimeout > 0 THEN heartbeatTimeout ELSE DEFAULT_AUTO_HEARTBEAT_CADENCE

cadence ==
  IF heartbeatTimeout > 0 THEN heartbeatTimeout \div 2
                          ELSE DEFAULT_AUTO_HEARTBEAT_CADENCE

MaxGap == cadence + 2 * Latency

Ready == task \in {"created", "due", "canceling"}

\* The interceptor creates the task and awaits the activity.
execute_activity ==
  /\ activity = "scheduled"
  /\ activity' = "running"
  /\ task' = IF autoHeartbeat THEN "created" ELSE "none"
  /\ UNCHANGED <<attempt, untilDue, waited, cancelRequested, canceled, sinceBeat, late>>

\* A fault: the task is awaited but not canceled.
finallyUncanceled ==
  /\ activity = "running"
  /\ activity' = "stopping"
  /\ UNCHANGED <<attempt, task, untilDue, waited, cancelRequested, canceled,
                 sinceBeat, late>>

\* The activity ends, by a return or an exception: the task is canceled.
finally ==
  /\ activity = "running"
  /\ activity' = "stopping"
  /\ task' = IF autoHeartbeat THEN "canceling" ELSE "none"
  /\ waited' = 0
  /\ UNCHANGED <<attempt, untilDue, cancelRequested, canceled, sinceBeat, late>>

\* The finally block has awaited the task.
return ==
  /\ activity = "stopping"
  /\ task \in {"none", "done"}
  /\ activity' = "returned"
  /\ UNCHANGED <<attempt, task, untilDue, waited, cancelRequested, canceled,
                 sinceBeat, late>>

\* The task's steps: it falls asleep, records a heartbeat and falls asleep
\* again, or is thrown the cancellation where it sleeps.
StartLoop ==
  /\ task = "created"
  /\ task' = "sleeping"
  /\ untilDue' = cadence
  /\ waited' = 0
  /\ UNCHANGED <<attempt, activity, cancelRequested, canceled, sinceBeat, late>>

Heartbeat ==
  /\ task = "due"
  /\ task' = "sleeping"
  /\ untilDue' = cadence
  /\ waited' = 0
  /\ IF activity = "running"
     THEN sinceBeat' = 0 /\ canceled' = (canceled \/ cancelRequested) /\ UNCHANGED late
     ELSE late' = 1 /\ UNCHANGED <<sinceBeat, canceled>>
  /\ UNCHANGED <<attempt, activity, cancelRequested>>

Canceled ==
  /\ task = "canceling"
  /\ task' = "done"
  /\ waited' = 0
  /\ UNCHANGED <<attempt, activity, untilDue, cancelRequested, canceled,
                 sinceBeat, late>>

-----------------------------------------------------------------------------
(* The service and the worker.                                             *)

RequestCancel ==
  /\ ~cancelRequested
  /\ activity \in {"scheduled", "running"}
  /\ cancelRequested' = TRUE
  /\ UNCHANGED <<attempt, activity, task, untilDue, waited, canceled, sinceBeat, late>>

\* A timeout of the attempt or the shutdown of the worker.
CancelActivity ==
  /\ activity = "running"
  /\ ~canceled
  /\ canceled' = TRUE
  /\ UNCHANGED <<attempt, activity, task, untilDue, waited, cancelRequested,
                 sinceBeat, late>>

Tick ==
  /\ activity \in {"running", "stopping"}
  /\ Ready => waited < Latency
  /\ waited' = IF Ready THEN waited + 1 ELSE 0
  /\ untilDue' = IF task = "sleeping" THEN untilDue - 1 ELSE untilDue
  /\ task' = IF task = "sleeping" /\ untilDue = 1 THEN "due" ELSE task
  /\ sinceBeat' = IF activity = "running" /\ sinceBeat <= MaxGap
                  THEN sinceBeat + 1 ELSE sinceBeat
  /\ UNCHANGED <<attempt, activity, cancelRequested, canceled, late>>

Init ==
  /\ heartbeatTimeout \in HeartbeatTimeouts
  /\ autoHeartbeat \in BOOLEAN
  /\ activity = "scheduled"
  /\ task = "none"
  /\ untilDue = 0
  /\ waited = 0
  /\ cancelRequested = FALSE
  /\ canceled = FALSE
  /\ sinceBeat = 0
  /\ late = 0

_heartbeat_loop == StartLoop \/ Heartbeat \/ Canceled

Next ==
  \/ execute_activity \/ finally \/ return
  \/ _heartbeat_loop
  \/ RequestCancel \/ CancelActivity
  \/ Tick

Spec == Init /\ [][Next]_vars

\* The event loop runs what is ready, and time passes.
FairSpec ==
  /\ Spec
  /\ WF_vars(_heartbeat_loop) /\ WF_vars(Tick)
  /\ WF_vars(execute_activity) /\ WF_vars(return)

-----------------------------------------------------------------------------
(* Properties.                                                             *)

TypeOK ==
  /\ heartbeatTimeout \in HeartbeatTimeouts
  /\ autoHeartbeat \in BOOLEAN
  /\ activity \in {"scheduled", "running", "stopping", "returned"}
  /\ task \in {"none", "created", "sleeping", "due", "canceling", "done"}
  /\ untilDue \in 0..cadence
  /\ waited \in 0..Latency
  /\ cancelRequested \in BOOLEAN /\ canceled \in BOOLEAN
  /\ sinceBeat \in 0..(MaxGap + 1)
  /\ late \in 0..1

Covered == activity = "running" /\ autoHeartbeat

Contract == INSTANCE HeartbeatContract WITH
  LateBeats <- 0,
  maxGap    <- MaxGap,
  stage     <- IF activity = "scheduled" THEN "before"
               ELSE IF activity # "running" THEN "over"
               ELSE IF Covered THEN "covered" ELSE "uncovered",
  sinceBeat <- IF Covered THEN sinceBeat ELSE 0,
  late      <- late

\* The inductive core: where the task is bounds the time since the last
\* heartbeat, and no task that can record one is left when the activity ends.
OnCadence ==
  /\ activity = "scheduled" => task = "none" /\ sinceBeat = 0
  /\ activity = "running" =>
       /\ task = "none" <=> ~autoHeartbeat
       /\ task \notin {"canceling", "done"}
  /\ activity \in {"stopping", "returned"} => task \in {"none", "canceling", "done"}
  /\ late = 0
  /\ task = "sleeping" => untilDue > 0
  /\ Covered =>
       /\ task = "created" => sinceBeat <= waited
       /\ task = "sleeping" => sinceBeat + untilDue <= cadence + Latency
       /\ task = "due" => sinceBeat <= cadence + Latency + waited

CadenceInv == TypeOK /\ OnCadence

\* Requirements 23 and 24 in full: the cadence holds until the activity ends,
\* its cleanup after a cancellation included, and no heartbeat comes after.
KeepsContract == Contract!Spec

\* The service never takes an attempt for dead while it runs, be the event loop
\* as late as it may and the activity canceled or not.
NoSpuriousTimeout ==
  Covered /\ heartbeatTimeout > 0 => sinceBeat <= heartbeatTimeout

\* Waiting for the loop never keeps the activity's result from the worker.
ResultIsReturned == activity = "stopping" ~> activity = "returned"

=============================================================================
