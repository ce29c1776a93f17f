--------------------------- MODULE RetryTimeline ---------------------------
(***************************************************************************)
(* The timeline of one activity whose worker crashes a millisecond after   *)
(* every attempt starts: the stateright model of                           *)
(* specs/activitypolicyinterceptor/model.  A behaviour fixes one           *)
(* configuration of timeouts and retry policy and plays the service's      *)
(* events against it until enough attempts have started or the             *)
(* schedule-to-close budget is spent.  Times are milliseconds; the backoff *)
(* coefficient is in tenths.  The Rust model fixes the number of retries   *)
(* at two; here it is the N of requirement 16.                             *)
(***************************************************************************)
EXTENDS Integers

CONSTANTS
  Configs,         \* the grid of configurations the search starts from
  RequiredRetries  \* N: attempt N + 1 must start within the budget

ASSUME RequiredRetriesAssumption == RequiredRetries \in Nat

\* One combination of activity timeouts and retry policy.  A heartbeat or a
\* maximum interval of 0 is unset, maxAttempts = 0 is unlimited.
Config == [scheduleToClose : Nat, startToClose : Nat, heartbeat : Nat,
           initialInterval : Nat, maxInterval : Nat, coefficient : Nat,
           maxAttempts : Nat]

ASSUME ConfigsAssumption == Configs \subseteq Config

VARIABLES
  config,    \* the configuration under test, fixed by Init
  now,       \* the time of the last event
  attempts,  \* attempts started so far
  phase      \* where the current attempt is, with the time it refers to

vars == <<config, now, attempts, phase>>

Idle                == [kind |-> "idle", at |-> 0]
Running(t)          == [kind |-> "running", at |-> t]
AwaitingDetection(t) == [kind |-> "awaiting", at |-> t]
Backoff(t)          == [kind |-> "backoff", at |-> t]
Done                == [kind |-> "done", at |-> 0]

Kinds == {"idle", "running", "awaiting", "backoff", "done"}

CrashDelay == 1

-----------------------------------------------------------------------------
(* The retry policy.                                                       *)

DetectionDelay(c) == IF c.heartbeat > 0 THEN c.heartbeat ELSE c.startToClose

\* Unset, the maximum interval is a hundred times the initial one.
MaxInterval(c) ==
  IF c.maxInterval = 0 THEN 100 * c.initialInterval ELSE c.maxInterval

\* One round of the loop: multiply, round down, stop at the cap.  Once there
\* the value stays: a coefficient below one is never accepted.
NextInterval(c, interval) ==
  LET scaled == (interval * c.coefficient) \div 10
  IN  IF scaled >= MaxInterval(c) THEN MaxInterval(c) ELSE scaled

\* The interval after k rounds of the loop.
GrownInterval(c) ==
  LET grown[k \in Nat] ==
        IF k = 0 THEN c.initialInterval ELSE NextInterval(c, grown[k - 1])
  IN  grown

\* The wait between the detection of the n-th failure and the next attempt.
RetryInterval(c, n) ==
  LET interval == GrownInterval(c)[n - 1]
  IN  IF interval <= MaxInterval(c) THEN interval ELSE MaxInterval(c)

\* WorstCaseStart(c)[n] is the time at which attempt n + 1 starts when each of
\* the n attempts before it crashed: n detections and n intervals.
WorstCaseStart(c) ==
  LET start[n \in Nat] ==
        IF n = 0 THEN 0
        ELSE start[n - 1] + DetectionDelay(c) + RetryInterval(c, n)
  IN  start

-----------------------------------------------------------------------------
(* The two predicates that gate a search.                                  *)

\* Rounded up: the budget is at least 2.1 times the start-to-close timeout.
MeetsRatio(c) ==
  c.scheduleToClose >= (21 * c.startToClose + 9) \div 10

\* What the Rust model takes the interceptor to accept.
InterceptorAccepts(c) ==
  /\ c.scheduleToClose # 0
  /\ c.startToClose # 0
  /\ c.startToClose <= c.scheduleToClose
  /\ c.maxAttempts \notin {1, 2}
  /\ c.heartbeat = 0 => MeetsRatio(c)
  /\ c.heartbeat <= c.startToClose
  /\ c.maxInterval # 0 => c.maxInterval >= c.initialInterval
  /\ c.coefficient >= 10

\* A fault: the budget must exceed the start.
PermitsRetriesStrictly(c) ==
  /\ InterceptorAccepts(c)
  /\ c.maxAttempts = 0 \/ c.maxAttempts >= RequiredRetries + 1
  /\ WorstCaseStart(c)[RequiredRetries] < c.scheduleToClose

\* The closed form: attempt N + 1 is allowed and its start fits.
PermitsRetries(c) ==
  /\ InterceptorAccepts(c)
  /\ c.maxAttempts = 0 \/ c.maxAttempts >= RequiredRetries + 1
  /\ WorstCaseStart(c)[RequiredRetries] <= c.scheduleToClose

-----------------------------------------------------------------------------
(* The events.                                                             *)

Deadline == config.scheduleToClose

Satisfied == attempts >= RequiredRetries + 1

\* No event is offered any more.
Stopped == phase.kind = "done" \/ Satisfied \/ now > Deadline

Later(t, u) == IF t >= u THEN t ELSE u

AttemptsExhausted ==
  config.maxAttempts # 0 /\ attempts >= config.maxAttempts

DetectAt == phase.at + DetectionDelay(config)

InitFrom(accepted) ==
  /\ config \in accepted
  /\ now = 0
  /\ attempts = 0
  /\ phase = Idle

StartFirst ==
  /\ ~Stopped
  /\ phase.kind = "idle"
  /\ attempts' = attempts + 1
  /\ phase' = Running(now)
  /\ UNCHANGED <<config, now>>

StartRetry ==
  /\ ~Stopped
  /\ phase.kind = "backoff"
  /\ Later(now, phase.at) <= Deadline
  /\ ~AttemptsExhausted
  /\ now' = Later(now, phase.at)
  /\ attempts' = attempts + 1
  /\ phase' = Running(Later(now, phase.at))
  /\ UNCHANGED config

Crash ==
  /\ ~Stopped
  /\ phase.kind = "running"
  /\ now' = phase.at + CrashDelay
  /\ phase' = AwaitingDetection(phase.at)
  /\ UNCHANGED <<config, attempts>>

Detect ==
  /\ ~Stopped
  /\ phase.kind = "awaiting"
  /\ DetectAt <= Deadline
  /\ now' = DetectAt
  /\ phase' = Backoff(DetectAt + RetryInterval(config, attempts))
  /\ UNCHANGED <<config, attempts>>

\* The budget ends before the detection or before the retry, or no attempt is
\* left to start.
GiveUp ==
  /\ ~Stopped
  /\ \/ phase.kind = "awaiting" /\ DetectAt > Deadline
     \/ phase.kind = "backoff" /\ Later(now, phase.at) > Deadline
     \/ phase.kind = "backoff" /\ AttemptsExhausted
  /\ now' = Deadline + 1
  /\ phase' = Done
  /\ UNCHANGED <<config, attempts>>

Next == StartFirst \/ StartRetry \/ Crash \/ Detect \/ GiveUp

\* The search over every configuration the Rust model's acceptance rule admits,
\* and the search over those the closed form admits.
CurrentConfigs == {c \in Configs : InterceptorAccepts(c)}
StrictConfigs  == {c \in Configs : PermitsRetries(c)}

Init == InitFrom(CurrentConfigs)
Spec == Init /\ [][Next]_vars

StrictSpec == InitFrom(StrictConfigs) /\ [][Next]_vars /\ WF_vars(Next)

-----------------------------------------------------------------------------
(* Properties.                                                             *)

TypeOK ==
  /\ config \in Configs
  /\ now \in Nat
  /\ attempts \in 0..(RequiredRetries + 1)
  /\ phase \in [kind : Kinds, at : Nat]

\* The inductive core: while the k-th attempt is being played its start, its
\* crash, its detection and its backoff are where the closed form puts them,
\* and the timeline is given up only when the closed form is out of budget or
\* the policy out of attempts.
OnSchedule ==
  LET start == WorstCaseStart(config) IN
  /\ InterceptorAccepts(config)
  /\ phase.kind = "idle" => attempts = 0 /\ now = 0
  /\ phase.kind = "running" =>
       /\ attempts > 0
       /\ phase.at = start[attempts - 1] /\ now = phase.at /\ now <= Deadline
       /\ config.maxAttempts # 0 => attempts <= config.maxAttempts
  /\ phase.kind \in {"awaiting", "backoff", "done"} =>
       /\ attempts \in 1..RequiredRetries
       /\ config.maxAttempts # 0 => attempts <= config.maxAttempts
  /\ phase.kind = "awaiting" =>
       /\ phase.at = start[attempts - 1] /\ phase.at <= Deadline
       /\ now = phase.at + CrashDelay
  /\ phase.kind = "backoff" =>
       phase.at = start[attempts] /\ now <= phase.at /\ now <= Deadline
  /\ phase.kind = "done" => start[attempts] > Deadline \/ AttemptsExhausted

TimelineInv == TypeOK /\ OnSchedule

\* The closed form and the simulation agree in both directions: the timeline
\* of an accepted configuration ends with N + 1 attempts started exactly when
\* permits_two_retries_under_crash_at_1ms says so (lib.rs:83-105).
ClosedFormExact == Stopped => (Satisfied <=> PermitsRetries(config))

\* "every accepted config permits at least two retries" (lib.rs:408-427), as
\* the test default_grid_property asserts of interceptor_accepts.
AcceptedPermitsRetries == Stopped => Satisfied

=============================================================================
