----------------------------- MODULE PolicyTwins -----------------------------
(***************************************************************************)
(* The Go and the Python interceptor side by side: the same scheduling     *)
(* call, under the same options, in workers of both languages, as          *)
(* conformance_tests.json has it for 23 calls.  A third reading of         *)
(* requirement 16 is the Rust model's closed form (RetryTimeline).         *)
(***************************************************************************)
EXTENDS PythonPolicyRules

CONSTANTS
  PyCalls,     \* the calls, as a Python workflow writes them
  Severities,  \* of the interceptors' options
  Targets,     \* RequiredRetries of the options
  Millisecond  \* the Rust model's unit, in those of Go's durations; 10^6 in the code

VARIABLES
  written,     \* the call, fixed by Init
  severities,  \* fixed by Init
  target,      \* RequiredRetries, fixed by Init
  go, py       \* what each interceptor made of it

twinVars == <<written, severities, target, go, py>>

Pending == [outcome |-> "pending"]

\* Null in a conformance test is the zero value in Go.
OrZero(x) == IF x = None THEN 0 ELSE x

GoCall(c) ==
  LET field(f) == IF c.retry_policy = None THEN 0 ELSE OrZero(c.retry_policy[f]) IN
  [local |-> c.is_local, ScheduleToClose |-> OrZero(c.schedule_to_close),
   StartToClose |-> OrZero(c.start_to_close), Heartbeat |-> OrZero(c.heartbeat),
   RetryPolicy |-> [InitialInterval |-> field("initial_interval"),
                    BackoffCoefficient |-> field("backoff_coefficient"),
                    MaximumInterval |-> field("maximum_interval"),
                    MaximumAttempts |-> field("maximum_attempts")]]

\* A local call has no heartbeat; a worst case of 292 years is left out.
ASSUME TwinsAssumption ==
  /\ Millisecond \in Nat \ {0} /\ Second = 1000 * Millisecond
  /\ PyCalls \subseteq {c \in PyCall : c.is_local => c.heartbeat = None}
  /\ \A s \in Severities : DOMAIN s \subseteq Policies /\ \A p \in DOMAIN s : s[p] \in Severity
  /\ Targets \subseteq Nat
  /\ \A c \in PyCalls, n \in Targets : FitsDuration(WithDefaultHeartbeat(GoCall(c)), n)

\* What is left of the violations, the entries logged of them, and what becomes
\* of the call: handleViolations and _validate_and_default.
Result(violated, heartbeat) ==
  LET sev(p)     == severityFor(severities, p)
      nonIgnored == InCanonicalOrder({p \in violated : sev(p) # "Ignore"})
      hasError   == \E p \in violated : sev(p) = "Error"
  IN  [outcome   |-> IF hasError THEN "rejected" ELSE "forwarded",
       logged    |-> [i \in DOMAIN nonIgnored |->
                       [policy |-> nonIgnored[i],
                        mode |-> IF sev(nonIgnored[i]) = "Error" THEN "fail" ELSE "warn"]],
       policies  |-> IF hasError THEN nonIgnored ELSE <<>>,
       heartbeat |-> IF hasError THEN 0 ELSE heartbeat]

GoSchedule ==
  /\ go = Pending
  /\ LET c == WithDefaultHeartbeat(GoCall(written)) IN
     go' = Result(Violated(c, target), c.Heartbeat)
  /\ UNCHANGED <<written, severities, target, py>>

PySchedule ==
  /\ py = Pending
  /\ LET c == PyWithDefaultHeartbeat(written) IN
     py' = Result(_evaluate_policies(c, target), OrZero(c.heartbeat))
  /\ UNCHANGED <<written, severities, target, go>>

TwinsInit ==
  /\ written \in PyCalls
  /\ severities \in Severities
  /\ target \in Targets
  /\ go = Pending
  /\ py = Pending

TwinsNext == GoSchedule \/ PySchedule

TwinsSpec == TwinsInit /\ [][TwinsNext]_twinVars

-----------------------------------------------------------------------------
(* Properties.                                                             *)

\* A timeout given as an explicit zero, with the other missing or zero: Go
\* cannot tell it from an unset one, and Python applies no default to it.
ExplicitZeroOnly ==
  /\ ~written.is_local /\ ~Positive(written.heartbeat) /\ ~Positive(written.start_to_close)
  /\ written.heartbeat = 0 \/ written.start_to_close = 0

\* A fractional coefficient and a budget within a microsecond per retry of what Python
\* asks for: Go cuts each interval to a nanosecond, Python rounds it to a microsecond.
RoundingMayDecide(c, n) ==
  LET detect == _detection_delay(c.heartbeat, c.start_to_close)
      margin == c.schedule_to_close - _min_schedule_to_close(detect, c.retry_policy, n)
  IN  /\ RetryField(c.retry_policy, "backoff_coefficient", 20) % 10 # 0
      /\ Positive(c.schedule_to_close) /\ detect # None
      /\ margin \in -(n * Microsecond)..(n * Microsecond)

\* Whatever the call and the options, a workflow in Go and its twin in Python
\* get the same verdict, for the same policies in the same order, log the same
\* entries and forward the same heartbeat timeout, unless the rounding of the
\* intervals may decide.
TwinsAgree ==
  /\ go # Pending /\ py # Pending /\ ~ExplicitZeroOnly
  /\ ~RoundingMayDecide(PyWithDefaultHeartbeat(written), target)
  => go = py

\* The options as the Rust model has them, in its milliseconds.
RustConfig ==
  LET c == WithDefaultHeartbeat(GoCall(written))
      rp == c.RetryPolicy
  IN  [scheduleToClose |-> c.ScheduleToClose \div Millisecond,
       startToClose |-> c.StartToClose \div Millisecond,
       heartbeat |-> c.Heartbeat \div Millisecond, maxAttempts |-> rp.MaximumAttempts,
       initialInterval |-> InitialInterval(rp) \div Millisecond,
       maxInterval |-> rp.MaximumInterval \div Millisecond,
       coefficient |-> OrDefault(rp.BackoffCoefficient, defaultRetryBackoffCoefficient)]

Timeline == INSTANCE RetryTimeline WITH
  Configs <- {}, RequiredRetries <- 2,
  config <- RustConfig, now <- 0, attempts <- 0, phase <- 0

\* What the Rust model takes for given, but for its ratio: whole milliseconds and
\* proper options.
RustAdmits ==
  LET c == RustConfig
      w == WithDefaultHeartbeat(GoCall(written))
  IN
  /\ \A d \in {w.ScheduleToClose, w.StartToClose, w.Heartbeat,
               InitialInterval(w.RetryPolicy), w.RetryPolicy.MaximumInterval} :
       d % Millisecond = 0
  /\ c.scheduleToClose # 0 /\ c.startToClose \in 1..c.scheduleToClose
  /\ c.heartbeat <= c.startToClose
  /\ c.maxAttempts \notin {1, 2}
  /\ c.maxInterval # 0 => c.maxInterval >= c.initialInterval
  /\ c.coefficient >= 10

Overruns == Timeline!WorstCaseStart(RustConfig)[target] > RustConfig.scheduleToClose

\* Where all three apply, and the coefficient is whole, the interceptors reject a
\* regular call for timeouts_permit_retries exactly when the Rust model's worst case
\* overruns.  The Rust model rounds an interval before it grows further: otherwise
\* it may be more lenient, but never stricter.
TimelineAgrees ==
  go # Pending /\ ~written.is_local /\ RustAdmits /\ target > 0
    /\ severityFor(severities, TimeoutsPermitRetries) = "Error" =>
    LET rejected == TimeoutsPermitRetries \in {go.policies[i] : i \in DOMAIN go.policies} IN
    /\ Overruns => rejected
    /\ rejected /\ RustConfig.coefficient % 10 = 0 => Overruns

=============================================================================
