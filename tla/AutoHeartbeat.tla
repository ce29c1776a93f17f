---------------------------- MODULE AutoHeartbeat ----------------------------
(***************************************************************************)
(* One activity attempt under the Go interceptor: activityInbound's        *)
(* ExecuteActivity (examples/go/activitypolicyinterceptor/interceptor.go), *)
(* the goroutine of AutoHeartbeat (internal/activityhelpers/heartbeat.go), *)
(* its ticker, and the context the service cancels through the response to *)
(* a heartbeat.  Time is discrete and relative; a goroutine that can run   *)
(* does so before Latency has passed.                                      *)
(***************************************************************************)
EXTENDS Naturals

CONSTANTS
  HeartbeatTimeouts,         \* of activity.Info; 0 is none
  defaultHeartbeatFrequency,
  Latency                    \* bound on the wait of a goroutine that can run

\* A goroutine gets to run well within the cadence.
ASSUME ConstantsAssumption ==
  /\ Latency \in Nat
  /\ defaultHeartbeatFrequency \in Nat
  /\ defaultHeartbeatFrequency > 3 * Latency
  /\ HeartbeatTimeouts \subseteq Nat
  /\ \A t \in HeartbeatTimeouts : t = 0 \/ t \div 2 > 3 * Latency

VARIABLES
  heartbeatTimeout,   \* fixed by Init
  autoHeartbeat,      \* Options.AutoHeartbeat, fixed by Init
  activity,           \* "scheduled", "running" or "returned" to the worker
  goroutine,          \* "none", "starting", "recording", "selecting", "exited"
  ctxDone,            \* the activity's context
  heartbeatCtxDone,   \* the goroutine's own, a child of it
  untilTick,          \* time until the ticker fires next
  tickReady,          \* the ticker's channel, of capacity one
  waited,             \* how long the goroutine has been able to run
  cancelRequested,    \* by the service
  sinceBeat,          \* time since the last heartbeat, up to a cap
  late                \* heartbeats recorded after the return, up to a cap

vars == <<heartbeatTimeout, autoHeartbeat, activity, goroutine, ctxDone,
          heartbeatCtxDone, untilTick, tickReady, waited, cancelRequested,
          sinceBeat, late>>

attempt == <<heartbeatTimeout, autoHeartbeat>>

-----------------------------------------------------------------------------
frequencyOfWholeTimeout ==
  IF heartbeatTimeout = 0 THEN defaultHeartbeatFrequency ELSE heartbeatTimeout

\* Half the heartbeat timeout, or the default when there is none.
frequency ==
  IF heartbeatTimeout \div 2 <= 0 THEN defaultHeartbeatFrequency
                                  ELSE heartbeatTimeout \div 2

\* The longest time between two heartbeats: a tick is waited for, then
\* received, then the heartbeat recorded, each of the last two within Latency.
MaxGap == frequency + 2 * Latency

\* A heartbeat decided on before the return, or for a tick that was ready in the
\* select together with the cancellation.
MaxLate == 1

Done == ctxDone \/ heartbeatCtxDone

CanRun ==
  \/ goroutine \in {"starting", "recording"}
  \/ goroutine = "selecting" /\ (tickReady \/ Done)

\* A fault: no heartbeats without a heartbeat timeout.
ExecuteActivityWithTimeout ==
  /\ activity = "scheduled"
  /\ activity' = "running"
  /\ goroutine' = IF autoHeartbeat /\ heartbeatTimeout > 0 THEN "starting" ELSE "none"
  /\ UNCHANGED <<attempt, ctxDone, heartbeatCtxDone, untilTick, tickReady,
                 waited, cancelRequested, sinceBeat, late>>

\* The interceptor starts the goroutine and runs the activity.
ExecuteActivity ==
  /\ activity = "scheduled"
  /\ activity' = "running"
  /\ goroutine' = IF autoHeartbeat THEN "starting" ELSE "none"
  /\ UNCHANGED <<attempt, ctxDone, heartbeatCtxDone, untilTick, tickReady,
                 waited, cancelRequested, sinceBeat, late>>

\* A fault: the cancel is not deferred.
ReturnUncanceled ==
  /\ activity = "running"
  /\ activity' = "returned"
  /\ UNCHANGED <<attempt, goroutine, ctxDone, heartbeatCtxDone, untilTick,
                 tickReady, waited, cancelRequested, sinceBeat, late>>

\* The deferred cancel runs and control returns to the worker.  It does not
\* wait for the goroutine.
Return ==
  /\ activity = "running"
  /\ activity' = "returned"
  /\ heartbeatCtxDone' = TRUE
  /\ UNCHANGED <<attempt, goroutine, ctxDone, untilTick, tickReady, waited,
                 cancelRequested, sinceBeat, late>>

NewTicker ==
  /\ goroutine = "starting"
  /\ goroutine' = "recording"
  /\ untilTick' = frequency
  /\ waited' = 0
  /\ UNCHANGED <<attempt, activity, ctxDone, heartbeatCtxDone, tickReady,
                 cancelRequested, sinceBeat, late>>

\* The response to a heartbeat tells of a requested cancellation, and the SDK
\* cancels the context.
RecordHeartbeat ==
  /\ goroutine = "recording"
  /\ goroutine' = "selecting"
  /\ waited' = 0
  /\ IF activity = "running"
     THEN /\ sinceBeat' = 0
          /\ ctxDone' = (ctxDone \/ cancelRequested)
          /\ UNCHANGED late
     ELSE /\ late' = IF late <= MaxLate THEN late + 1 ELSE late
          /\ UNCHANGED <<sinceBeat, ctxDone>>
  /\ UNCHANGED <<attempt, activity, heartbeatCtxDone, untilTick, tickReady,
                 cancelRequested>>

\* The two cases of the select; when both are ready either is taken.
SelectTick ==
  /\ goroutine = "selecting"
  /\ tickReady
  /\ goroutine' = "recording"
  /\ tickReady' = FALSE
  /\ waited' = 0
  /\ UNCHANGED <<attempt, activity, ctxDone, heartbeatCtxDone, untilTick,
                 cancelRequested, sinceBeat, late>>

SelectDone ==
  /\ goroutine = "selecting"
  /\ Done
  /\ goroutine' = "exited"
  /\ waited' = 0
  /\ UNCHANGED <<attempt, activity, ctxDone, heartbeatCtxDone, untilTick,
                 tickReady, cancelRequested, sinceBeat, late>>

-----------------------------------------------------------------------------
(* The service and the worker.                                             *)

RequestCancel ==
  /\ ~cancelRequested
  /\ activity # "returned"
  /\ cancelRequested' = TRUE
  /\ UNCHANGED <<attempt, activity, goroutine, ctxDone, heartbeatCtxDone,
                 untilTick, tickReady, waited, sinceBeat, late>>

\* A timeout of the attempt, the shutdown of the worker, or the SDK after the
\* return.
CancelContext ==
  /\ activity # "scheduled"
  /\ ~ctxDone
  /\ ctxDone' = TRUE
  /\ UNCHANGED <<attempt, activity, goroutine, heartbeatCtxDone, untilTick,
                 tickReady, waited, cancelRequested, sinceBeat, late>>

Ticking == goroutine \in {"recording", "selecting"}

\* Time passes, but not beyond the latency of a goroutine that can run.  A tick
\* that finds the channel full is dropped.
Tick ==
  /\ activity # "scheduled"
  /\ CanRun => waited < Latency
  /\ waited' = IF CanRun THEN waited + 1 ELSE 0
  /\ untilTick' = IF ~Ticking THEN untilTick
                  ELSE IF untilTick = 1 THEN frequency ELSE untilTick - 1
  /\ tickReady' = (tickReady \/ (Ticking /\ untilTick = 1))
  /\ sinceBeat' = IF activity = "running" /\ sinceBeat <= MaxGap
                  THEN sinceBeat + 1 ELSE sinceBeat
  /\ UNCHANGED <<attempt, activity, goroutine, ctxDone, heartbeatCtxDone,
                 cancelRequested, late>>

Init ==
  /\ heartbeatTimeout \in HeartbeatTimeouts
  /\ autoHeartbeat \in BOOLEAN
  /\ activity = "scheduled"
  /\ goroutine = "none"
  /\ ctxDone = FALSE
  /\ heartbeatCtxDone = FALSE
  /\ untilTick = 0
  /\ tickReady = FALSE
  /\ waited = 0
  /\ cancelRequested = FALSE
  /\ sinceBeat = 0
  /\ late = 0

Goroutine == NewTicker \/ RecordHeartbeat \/ SelectTick \/ SelectDone

Next ==
  \/ ExecuteActivity \/ Return
  \/ Goroutine
  \/ RequestCancel \/ CancelContext
  \/ Tick

Spec == Init /\ [][Next]_vars

\* The runtime runs a goroutine that can run, and time passes.
FairSpec == Spec /\ WF_vars(Goroutine) /\ WF_vars(Tick) /\ WF_vars(ExecuteActivity)

-----------------------------------------------------------------------------
(* Properties.                                                             *)

TypeOK ==
  /\ heartbeatTimeout \in HeartbeatTimeouts
  /\ autoHeartbeat \in BOOLEAN
  /\ activity \in {"scheduled", "running", "returned"}
  /\ goroutine \in {"none", "starting", "recording", "selecting", "exited"}
  /\ ctxDone \in BOOLEAN /\ heartbeatCtxDone \in BOOLEAN
  /\ untilTick \in 0..frequency
  /\ tickReady \in BOOLEAN
  /\ waited \in 0..Latency
  /\ cancelRequested \in BOOLEAN
  /\ sinceBeat \in 0..(MaxGap + 1)
  /\ late \in 0..(MaxLate + 1)

Covered == activity = "running" /\ autoHeartbeat /\ ~ctxDone

Contract == INSTANCE HeartbeatContract WITH
  LateBeats <- MaxLate,
  maxGap    <- MaxGap,
  stage     <- IF activity = "scheduled" THEN "before"
               ELSE IF activity = "returned" THEN "over"
               ELSE IF Covered THEN "covered" ELSE "uncovered",
  sinceBeat <- IF Covered THEN sinceBeat ELSE 0,
  late      <- late

\* The inductive core.  Where the goroutine is bounds the time since the last
\* heartbeat, and the time since the ticker fired bounds where it can be: it is
\* back in the select before the ticker fires again, and of the two heartbeats a
\* late cancellation could let through the second has no tick to be recorded for.
sinceTick == frequency - untilTick

OnCadence ==
  /\ activity = "scheduled" => goroutine = "none" /\ sinceBeat = 0 /\ ~heartbeatCtxDone
  /\ activity # "returned" => late = 0 /\ ~heartbeatCtxDone
  /\ activity = "returned" => heartbeatCtxDone
  /\ activity # "scheduled" => (autoHeartbeat <=> goroutine # "none")
  /\ goroutine = "exited" => Done
  /\ goroutine \in {"none", "starting"} => ~tickReady /\ late = 0
  /\ Ticking => untilTick > 0
  /\ goroutine = "recording" => ~tickReady /\ late = 0 /\ sinceTick <= Latency + waited
  /\ goroutine = "selecting" /\ tickReady => late = 0 /\ sinceTick <= waited
  /\ goroutine = "selecting" /\ late > 0 => sinceTick <= 2 * Latency + waited
  /\ late <= MaxLate
  /\ Covered =>
       /\ goroutine = "starting" => sinceBeat <= waited
       /\ goroutine = "recording" => sinceBeat <= frequency + Latency + waited
       /\ goroutine = "selecting" =>
            IF tickReady THEN sinceBeat <= frequency + waited
                         ELSE sinceBeat <= sinceTick

CadenceInv == TypeOK /\ OnCadence

\* Requirement 23, through every interleaving of the goroutine, its ticker, the
\* activity and the cancellations: heartbeats keep their cadence while the
\* activity runs, and at most one is recorded after it has returned.
KeepsContract == Contract!Spec

\* The point of half the timeout: the service never takes a covered attempt for
\* dead, be the goroutine as late as it may.
NoSpuriousTimeout ==
  Covered /\ heartbeatTimeout > 0 => sinceBeat <= heartbeatTimeout

\* The goroutine of an attempt that has returned does not outlive it for good.
GoroutineExits == activity = "returned" ~> goroutine \in {"none", "exited"}

\* With auto-heartbeating an activity learns of its cancellation, whether or not
\* it records heartbeats of its own and whether or not it has a timeout
\* (preventing-activity-retries.md:22, not_sending_heartbeats_for_cancellation).
CancellationReaches ==
  cancelRequested /\ activity = "running" /\ autoHeartbeat
    ~> ctxDone \/ activity = "returned"

=============================================================================
