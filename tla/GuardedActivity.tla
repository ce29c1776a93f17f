--------------------------- MODULE GuardedActivity ---------------------------
(***************************************************************************)
(* What the Go interceptor's verdict is worth: one activity, scheduled     *)
(* through it, and then retried by the service while its workers crash at  *)
(* any point of an attempt or the attempt returns an error.  The verdict   *)
(* and the options forwarded are the code's (PolicyRules); the service's   *)
(* timeouts and retry policy are external; heartbeats come at the cadence  *)
(* of the auto-heartbeat helper, without its latency.                      *)
(***************************************************************************)
EXTENDS PolicyRules

CONSTANTS
  Calls,          \* the options of the scheduling calls
  RetryTargets,   \* Options.RequiredRetries
  FailureTimes,   \* how long into an attempt it may crash or return an error
  MaxAttempts     \* bound on the attempts of an activity without a deadline

\* The service rejects negative timeouts; a worst case of 292 years is left out.
ASSUME ConstantsAssumption ==
  /\ Calls \subseteq {c \in Call : ~c.local /\ {c.Heartbeat, c.StartToClose} \subseteq Nat}
  /\ \A c \in Calls, n \in RetryTargets : FitsDuration(WithDefaultHeartbeat(c), n)
  /\ RetryTargets \subseteq Nat
  /\ FailureTimes \subseteq Nat
  /\ MaxAttempts \in Nat

VARIABLES
  call,             \* the options, as called and then as forwarded
  requiredRetries,  \* fixed by Init
  enforced,         \* the policies at Error, the others at Warn; fixed by Init
  autoHeartbeat,    \* fixed by Init
  phase,            \* "calling", "rejected", "waiting", "running", "lost",
                    \* "completed" or "timedOut"
  at,               \* when the attempt started, is detected as lost, or is due
  attempts,         \* attempts started
  early,            \* was each failure known within the detection delay?
  worst             \* did each failure take all of the detection delay?

vars == <<call, requiredRetries, enforced, autoHeartbeat, phase, at, attempts,
          early, worst>>

settings == <<requiredRetries, enforced, autoHeartbeat>>

-----------------------------------------------------------------------------
(* The interceptor.                                                        *)

\* A fault: the default heartbeat is forwarded but not evaluated.
ExecuteActivityDefaultingLate ==
  /\ phase = "calling"
  /\ call' = WithDefaultHeartbeat(call)
  /\ phase' = IF Violated(call, requiredRetries) \cap enforced = {}
              THEN "waiting" ELSE "rejected"
  /\ UNCHANGED <<settings, at, attempts, early, worst>>

ExecuteActivity ==
  /\ phase = "calling"
  /\ call' = WithDefaultHeartbeat(call)
  /\ phase' = IF Violated(call', requiredRetries) \cap enforced = {}
              THEN "waiting" ELSE "rejected"
  /\ UNCHANGED <<settings, at, attempts, early, worst>>

-----------------------------------------------------------------------------
(* The service.                                                            *)

InTime(t) == call.ScheduleToClose <= 0 \/ t <= call.ScheduleToClose

AttemptsLeft ==
  /\ call.RetryPolicy.MaximumAttempts = 0 \/ attempts < call.RetryPolicy.MaximumAttempts
  /\ call.ScheduleToClose <= 0 => attempts < MaxAttempts

\* The documented interval (requirement 16), in unbounded arithmetic.
Interval(n, rp) ==
  LET maximum == OrDefault(rp.MaximumInterval,
                           defaultMaxIntervalMultiplier * InitialInterval(rp))
  IN  IF Scaled(n, rp) > maximum THEN maximum ELSE Scaled(n, rp)

\* The last of the helper's heartbeats, d into the attempt: it records one at
\* once and then one per half timeout.
LastBeat(d) ==
  IF ~autoHeartbeat \/ call.Heartbeat < 2 THEN 0
  ELSE LET cadence == call.Heartbeat \div 2 IN (d \div cadence) * cadence

\* How long into the attempt the service takes a worker lost d into it for dead.
Detected(d) ==
  LET byHeartbeat == LastBeat(d) + call.Heartbeat IN
  IF call.Heartbeat <= 0 THEN call.StartToClose
  ELSE IF call.StartToClose > 0 /\ call.StartToClose < byHeartbeat
       THEN call.StartToClose ELSE byHeartbeat

Unlost(d) ==
  /\ call.StartToClose > 0 => d <= call.StartToClose
  /\ call.Heartbeat > 0 => d <= LastBeat(d) + call.Heartbeat

Delay == detectionDelay(call.Heartbeat, call.StartToClose)

StartAttempt ==
  /\ phase = "waiting"
  /\ InTime(at) /\ AttemptsLeft
  /\ phase' = "running"
  /\ attempts' = attempts + 1
  /\ UNCHANGED <<call, settings, at, early, worst>>

\* The worker crashes d into the attempt and the service finds out by a timeout.
Crash(d) ==
  /\ phase = "running"
  /\ Unlost(d)
  /\ phase' = "lost"
  /\ at' = at + Detected(d)
  /\ early' = (early /\ Detected(d) <= Delay)
  /\ worst' = (worst /\ Detected(d) >= Delay)
  /\ UNCHANGED <<call, settings, attempts>>

\* The attempt returns a retryable error d into it.
Fail(d) ==
  /\ phase = "running"
  /\ Unlost(d)
  /\ phase' = "lost"
  /\ at' = at + d
  /\ early' = (early /\ d <= Delay)
  /\ worst' = (worst /\ d >= Delay)
  /\ UNCHANGED <<call, settings, attempts>>

Complete ==
  /\ phase = "running"
  /\ phase' = "completed"
  /\ UNCHANGED <<call, settings, at, attempts, early, worst>>

Retry ==
  /\ phase = "lost"
  /\ InTime(at)
  /\ phase' = "waiting"
  /\ at' = at + Interval(attempts, call.RetryPolicy)
  /\ UNCHANGED <<call, settings, attempts, early, worst>>

\* The schedule-to-close timeout, or no attempt is left.
TimeOut ==
  /\ \/ phase \in {"waiting", "lost"} /\ ~InTime(at)
     \/ phase = "waiting" /\ ~AttemptsLeft /\ call.ScheduleToClose > 0
  /\ phase' = "timedOut"
  /\ UNCHANGED <<call, settings, at, attempts, early, worst>>

Init ==
  /\ call \in Calls
  /\ requiredRetries \in RetryTargets
  /\ enforced \in {Policies, {}}
  /\ autoHeartbeat \in BOOLEAN
  /\ phase = "calling"
  /\ at = 0
  /\ attempts = 0
  /\ early = TRUE
  /\ worst = TRUE

Next ==
  \/ ExecuteActivity
  \/ StartAttempt
  \/ \E d \in FailureTimes : Crash(d) \/ Fail(d)
  \/ Complete
  \/ Retry
  \/ TimeOut

Spec == Init /\ [][Next]_vars

\* Every attempt ends with a crash.
CrashSpec ==
  Init /\ [][\/ ExecuteActivity \/ StartAttempt \/ Retry \/ TimeOut
            \/ \E d \in FailureTimes : Crash(d)]_vars

\* The service keeps its timers, and a worker is there to start and to end an
\* attempt, be it by a crash.
FairSpec == Spec /\ WF_vars(Next)

-----------------------------------------------------------------------------
(* Properties.                                                             *)

MayRetry ==
  call.RetryPolicy.MaximumAttempts = 0 \/ call.RetryPolicy.MaximumAttempts > requiredRetries

\* Requirement 15: an activity that passes the enforced policies is retried
\* RequiredRetries times before it times out, by whatever mixture of crashes and errors
\* and with the options as they were forwarded, as long as every failure is known
\* within its detection delay.  Without a heartbeat timeout none is known later,
\* and crashes may come at any point of an attempt.
RetriesPermitted ==
  /\ enforced = Policies /\ phase = "timedOut" /\ MayRetry
  /\ early \/ call.Heartbeat = 0
  => attempts > requiredRetries

\* Requirement 16, "Equivalently, the (N+1)-th attempt cannot start within the
\* schedule-to-close budget": the policy warns of no budget that would do if every
\* failure took the detection delay.  (With a heartbeat timeout above the
\* start-to-close timeout none does.)
NoNeedlessViolation ==
  phase # "calling" /\ worst /\ Violates(call, TimeoutsPermitRetries, requiredRetries)
  => attempts <= requiredRetries

\* The inductive core.  Attempt n + 1 is due at Due(n) if each of the n before it
\* took the detection delay to fail, earlier if they were early, and later if they
\* were not.
Waits(rp) ==
  LET waits[n \in Nat] == IF n = 0 THEN 0 ELSE waits[n - 1] + Interval(n, rp) IN waits

Due(n) == n * Delay + Waits(call.RetryPolicy)[n]

BudgetTypeOK ==
  /\ IF phase = "calling" THEN call \in Calls
     ELSE call \in {WithDefaultHeartbeat(c) : c \in Calls}
  /\ requiredRetries \in RetryTargets
  /\ enforced \in {Policies, {}}
  /\ autoHeartbeat \in BOOLEAN /\ early \in BOOLEAN /\ worst \in BOOLEAN
  /\ phase \in {"calling", "rejected", "waiting", "running", "lost", "completed", "timedOut"}
  /\ at \in Nat /\ attempts \in Nat

Accepted == Violated(call, requiredRetries) \cap enforced = {}

OnBudget ==
  /\ phase \in {"calling", "rejected"} => at = 0 /\ attempts = 0 /\ early /\ worst
  /\ phase \in {"running", "lost"} => attempts > 0
  /\ phase \notin {"calling", "rejected"} => Accepted
  /\ phase # "calling" /\ call.Heartbeat = 0 => early
  /\ phase = "waiting" => /\ early => at <= Due(attempts)
                          /\ worst => at >= Due(attempts)
  /\ phase = "running" => /\ early => at <= Due(attempts - 1)
                          /\ worst => at >= Due(attempts - 1)
  /\ phase = "lost" => /\ early => at <= Due(attempts - 1) + Delay
                       /\ worst => at >= Due(attempts - 1) + Delay

BudgetInv == BudgetTypeOK /\ OnBudget /\ RetriesPermitted /\ NoNeedlessViolation

\* "crash-during-attempt failure model" (interceptor.go:365-367), of which the
\* model's README says that later crashes only make it easier: the guarantee
\* whenever the worker crashes.
RetriesPermittedWheneverCrashing ==
  enforced = Policies /\ phase = "timedOut" /\ MayRetry => attempts > requiredRetries

\* What policy 1 is for: an activity that passes comes to an end, however its
\* attempts fail.
EndsOnceAccepted ==
  enforced = Policies ~> phase \in {"rejected", "completed", "timedOut"}

=============================================================================
