----------------------------- MODULE PolicyRules -----------------------------
(***************************************************************************)
(* The rules of the Go activity policy interceptor, as pure operators on   *)
(* the options of one scheduling call                                      *)
(* (examples/go/activitypolicyinterceptor/interceptor.go).                 *)
(*                                                                         *)
(* Durations are time.Duration's units in a signed word of DurationBits    *)
(* bits, the backoff coefficient is in tenths, and 0 is Go's zero value,   *)
(* an unset field.  A nil retry policy and a zero one are read alike by    *)
(* the code and are one value here.                                        *)
(***************************************************************************)
EXTENDS Integers, Sequences

CONSTANTS
  DurationBits,  \* the width of time.Duration; 64 in the code
  Second         \* in its units; 10^9 in the code, a nanosecond each

ASSUME DurationAssumption == DurationBits \in Nat \ {0, 1} /\ Second \in Nat \ {0}

ScheduleToCloseRequired          == "schedule_to_close_required"
MaxAttemptsTooLow                == "max_attempts_too_low"
LocalActivityStartToCloseTooLong == "local_activity_start_to_close_too_long"
TimeoutsPermitRetries            == "timeouts_permit_retries"

Policies == {ScheduleToCloseRequired, MaxAttemptsTooLow,
             LocalActivityStartToCloseTooLong, TimeoutsPermitRetries}

canonicalOrder == <<ScheduleToCloseRequired, MaxAttemptsTooLow,
                    LocalActivityStartToCloseTooLong, TimeoutsPermitRetries>>

Severity == {"Ignore", "Warn", "Error"}

\* The severity of the policies Options.Severities leaves out.
defaultSeverities == [p \in Policies |-> "Error"]

severityFor(severities, p) ==
  IF p \in DOMAIN severities THEN severities[p] ELSE defaultSeverities[p]

defaultHeartbeatTimeout       == 30 * Second
localActivityMaxStartToClose  == 10 * Second
defaultRetryInitialInterval   == Second
defaultRetryBackoffCoefficient == 20
defaultMaxIntervalMultiplier  == 100

RetryPolicy == [InitialInterval : Int, BackoffCoefficient : Nat,
                MaximumInterval : Int, MaximumAttempts : Int]

Call == [local : BOOLEAN, ScheduleToClose : Int, StartToClose : Int,
         Heartbeat : Int, RetryPolicy : RetryPolicy]

\* math.Pow: b^k, as a recursive function, of which more can be proved.
Power(b, k) ==
  LET power[j \in Nat] == IF j = 0 THEN 1 ELSE b * power[j - 1] IN power[k]

HalfWord == Power(2, DurationBits - 1)

\* Two's-complement reduction of the result of int64 arithmetic.
Wrap(d) == ((d + HalfWord) % (2 * HalfWord)) - HalfWord

-----------------------------------------------------------------------------
(* The timeouts_permit_retries arithmetic.                                 *)

detectionDelay(heartbeat, startToClose) ==
  IF heartbeat > 0 THEN heartbeat ELSE startToClose

OrDefault(x, default) == IF x > 0 THEN x ELSE default

\* initial * (backoff / 10)^k, in floating point and so without overflow, then cut to
\* whole units.  (A whole coefficient is a case of its own only to keep the numbers
\* small; the relative error of the floats themselves, 2^-53, is left out.)
Grow(initial, backoff, k) ==
  IF backoff % 10 = 0 THEN initial * Power(backoff \div 10, k)
  ELSE (initial * Power(backoff, k)) \div Power(10, k)

InitialInterval(rp) == OrDefault(rp.InitialInterval, defaultRetryInitialInterval)

Scaled(n, rp) ==
  Grow(InitialInterval(rp),
       OrDefault(rp.BackoffCoefficient, defaultRetryBackoffCoefficient), n - 1)

\* min(M, initial * backoff^(n-1)); the default of M is a product of durations.
retryInterval(n, rp) ==
  LET maximum == OrDefault(rp.MaximumInterval,
                           Wrap(defaultMaxIntervalMultiplier * InitialInterval(rp)))
  IN  IF Scaled(n, rp) > maximum THEN maximum ELSE Scaled(n, rp)

\* A fault: the last failure is taken to be detected at once.
minScheduleToCloseOneFailureLess(detect, rp, n) ==
  LET sum[i \in Nat] ==
        IF i = 0 THEN Wrap((n - 1) * detect) ELSE Wrap(sum[i - 1] + retryInterval(i, rp))
  IN  sum[n]

minScheduleToClose(detect, rp, n) ==
  LET sum[i \in Nat] ==
        IF i = 0 THEN Wrap(n * detect) ELSE Wrap(sum[i - 1] + retryInterval(i, rp))
  IN  sum[n]

\* What the arithmetic takes for granted: the worst case of n retries, and the
\* default of the maximum interval, are durations.
FitsDuration(c, n) ==
  LET rp       == c.RetryPolicy
      hundred  == defaultMaxIntervalMultiplier * InitialInterval(rp)
      interval == OrDefault(rp.MaximumInterval, hundred)
  IN  /\ hundred < HalfWord
      /\ n * (detectionDelay(c.Heartbeat, c.StartToClose) + interval) < HalfWord

-----------------------------------------------------------------------------
(* The four policies.                                                      *)

AttemptsTooFew(c) == c.RetryPolicy.MaximumAttempts \in 1..2

LocalTooLong(c) ==
  c.local /\ ~(c.StartToClose \in 1..(localActivityMaxStartToClose - 1))

\* A fault: off by one, a budget of just enough is refused.
BudgetNotLonger(c, requiredRetries) ==
  LET detect == detectionDelay(c.Heartbeat, c.StartToClose) IN
  /\ requiredRetries > 0 /\ c.ScheduleToClose > 0 /\ detect > 0
  /\ c.ScheduleToClose <= minScheduleToClose(detect, c.RetryPolicy, requiredRetries)

BudgetTooShort(c, requiredRetries) ==
  LET detect == detectionDelay(c.Heartbeat, c.StartToClose) IN
  /\ requiredRetries > 0 /\ c.ScheduleToClose > 0 /\ detect > 0
  /\ c.ScheduleToClose < minScheduleToClose(detect, c.RetryPolicy, requiredRetries)

\* A fault: a missing deadline is not looked at.
ViolatesWithoutDeadline(c, p, requiredRetries) ==
  \/ p = MaxAttemptsTooLow /\ AttemptsTooFew(c)
  \/ p = LocalActivityStartToCloseTooLong /\ LocalTooLong(c)
  \/ p = TimeoutsPermitRetries /\ BudgetTooShort(c, requiredRetries)

Violates(c, p, requiredRetries) ==
  \/ p = ScheduleToCloseRequired /\ c.ScheduleToClose <= 0
  \/ p = MaxAttemptsTooLow /\ AttemptsTooFew(c)
  \/ p = LocalActivityStartToCloseTooLong /\ LocalTooLong(c)
  \/ p = TimeoutsPermitRetries /\ BudgetTooShort(c, requiredRetries)

Violated(c, requiredRetries) == {p \in Policies : Violates(c, p, requiredRetries)}

\* What canonicalize's sort makes of a list that names each policy of S once.
InCanonicalOrder(S) ==
  LET one(p) == IF p \in S THEN <<p>> ELSE <<>>
  IN  one(ScheduleToCloseRequired) \o one(MaxAttemptsTooLow)
        \o one(LocalActivityStartToCloseTooLong) \o one(TimeoutsPermitRetries)

evaluatePolicies(c, requiredRetries) == InCanonicalOrder(Violated(c, requiredRetries))

\* What ExecuteActivity evaluates and forwards: a regular call without either
\* timeout gets the default heartbeat.  A local call has no heartbeat.
WithDefaultHeartbeat(c) ==
  IF ~c.local /\ c.Heartbeat = 0 /\ c.StartToClose = 0
  THEN [c EXCEPT !.Heartbeat = defaultHeartbeatTimeout]
  ELSE c
=============================================================================
