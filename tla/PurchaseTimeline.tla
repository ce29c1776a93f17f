-------------------------- MODULE PurchaseTimeline --------------------------
(***************************************************************************)
(* One ChargePayment activity (examples/go/payments) against the clock:    *)
(* its payments API is down or refuses work for a while, and the activity  *)
(* is retried under the options of PurchaseItem and at the delays its      *)
(* errors ask for.  The service's own retry policy is external.            *)
(***************************************************************************)
EXTENDS PurchaseOptions

CONSTANTS
  RetryPolicies,  \* of the activity; PurchaseItem's is PurchasePolicy
  Outages,        \* when the API recovers
  Hints,          \* how far ahead, in seconds, its Retry-After headers point
  Durations       \* how long an attempt may take to fail

\* The service refuses a policy with a negative interval; a date 292 years ahead is
\* left out.
ASSUME TimelineAssumption ==
  /\ RetryPolicies \subseteq RetryPolicy
  /\ \A p \in RetryPolicies : /\ p.InitialInterval \in 0..MaxDuration
                             /\ p.MaximumInterval \in 0..MaxDuration
  /\ Outages \subseteq Nat
  /\ Hints \subseteq Int /\ \A h \in Hints : h <= MaxDuration
  /\ Durations \subseteq 0..StartToCloseTimeout

VARIABLES
  policy,      \* fixed by Init
  recovers,    \* when the API recovers; fixed by Init
  overflown,   \* what the build makes of a delay out of range; fixed by Init
  now,
  attemptNumber,
  phase,       \* "running", "waiting", "completed", "failed", "gaveUp"
  wait,        \* the delay before the next attempt
  last,        \* the status that ended the last attempt, or 0
  askedUntil   \* when the API last asked not to be called before, if ahead

timelineVars == <<policy, recovers, overflown, now, attemptNumber, phase, wait, last, askedUntil>>

settings == <<policy, recovers, overflown>>

\* The statuses of an API that is down or overloaded.
Unavailable == {TooManyRequests, 503}

Headers(t) ==
  {NoHeader, Malformed} \cup {Seconds(h) : h \in Hints \cap Nat} \cup {Date(t + h) : h \in Hints}

\* The instant a header names; more seconds than MaxSeconds, 136 years, name none.
AsksFor(header, t) ==
  CASE header.form = "seconds" /\ header.secs <= MaxSeconds -> t + header.secs
    [] header.form = "date" -> header.at
    [] OTHER -> t

\* The service's interval after attempt n, with its defaults for zero fields.
Interval(n) ==
  LET initial == IF policy.InitialInterval = 0 THEN 1 ELSE policy.InitialInterval
      coeff   == IF policy.BackoffCoefficient = 0 THEN 2 ELSE policy.BackoffCoefficient
      maximum == IF policy.MaximumInterval = 0 THEN 100 * initial ELSE policy.MaximumInterval
      grown   == Grown(initial, coeff, n - 1)
  IN  IF grown > maximum THEN maximum ELSE grown

AttemptsLeft == policy.MaximumAttempts = 0 \/ attemptNumber < policy.MaximumAttempts

\* The attempt has failed with a retryable error.  The service waits the error's
\* delay or its own, and gives up at once if that takes it to the deadline.
Retry(err) ==
  /\ wait' = IF err.NextRetryDelay # 0 THEN err.NextRetryDelay ELSE Interval(attemptNumber)
  /\ phase' = IF AttemptsLeft /\ now' + wait' < ScheduleToCloseTimeout
              THEN "waiting" ELSE "gaveUp"

\* ChargePayment is refused by an API that was down when the attempt started.
Refused(status, took) ==
  /\ phase = "running" /\ now < recovers
  /\ now' = now + took
  /\ \E header \in Headers(now') :
       LET asked == AsksFor(header, now')
           resp  == [status |-> status, retryAfter |-> header]
       IN  /\ askedUntil' = IF asked > now' /\ asked > askedUntil THEN asked ELSE askedUntil
           /\ Retry(HTTPResponseError(resp, policy, attemptNumber, now', overflown))
  /\ last' = status
  /\ UNCHANGED <<settings, attemptNumber>>

\* It cannot reach the API.
Unreachable(failure, took) ==
  /\ phase = "running" /\ now < recovers
  /\ now' = now + took
  /\ last' = 0
  /\ LET err == classifyHTTPTransportError(failure) IN
     IF err.nonRetryable THEN phase' = "failed" /\ wait' = wait ELSE Retry(err)
  /\ UNCHANGED <<settings, attemptNumber, askedUntil>>

\* A refusal no retry helps or, once the API is up, the charge.
Answered(status) ==
  /\ phase = "running"
  /\ status = 200 => now >= recovers
  /\ last' = status
  /\ LET resp == [status |-> status, retryAfter |-> NoHeader] IN
     phase' = IF HTTPResponseError(resp, policy, attemptNumber, now, overflown) = NoError
              THEN "completed" ELSE "failed"
  /\ UNCHANGED <<settings, now, attemptNumber, wait, askedUntil>>

\* The worker is gone, or no answer comes within the start-to-close timeout.
NoAnswer ==
  /\ phase = "running" /\ now < recovers
  /\ now' = now + StartToCloseTimeout
  /\ last' = 0
  /\ Retry(ApplicationError(FALSE, 0))
  /\ UNCHANGED <<settings, attemptNumber, askedUntil>>

NextAttempt ==
  /\ phase = "waiting"
  /\ now' = now + wait
  /\ attemptNumber' = attemptNumber + 1
  /\ phase' = "running"
  /\ wait' = 0
  /\ last' = 0
  /\ askedUntil' = IF askedUntil <= now' THEN 0 ELSE askedUntil
  /\ UNCHANGED settings

TimelineInit ==
  /\ policy \in RetryPolicies
  /\ recovers \in Outages
  /\ overflown \in Overflown
  /\ now = 0
  /\ attemptNumber = 1
  /\ phase = "running"
  /\ wait = 0
  /\ last = 0
  /\ askedUntil = 0

TimelineNext ==
  \/ \E s \in Unavailable, d \in Durations : Refused(s, d)
  \/ \E f \in TransportFailures, d \in Durations : Unreachable(f, d)
  \/ \E s \in {200, 402} : Answered(s)
  \/ NoAnswer
  \/ NextAttempt

TimelineSpec == TimelineInit /\ [][TimelineNext]_timelineVars

-----------------------------------------------------------------------------
(* Properties.                                                             *)

\* "the activity respects the upstream's hint" (http.go:167-168): no attempt
\* starts before the API asked to be left alone until, in whichever form and
\* with whichever status it did, and whatever failed in between.
HintHonored == phase = "running" => now >= askedUntil

\* "allow retrying for up to 1 hour" (replay_2026/README.md): a purchase is given
\* up only if the outage lasts until an attempt and an interval before the hour
\* is over, or if the API itself asked for longer.
OutageWeathered ==
  phase = "gaveUp" /\ policy = PurchasePolicy /\ askedUntil < ScheduleToCloseTimeout =>
    recovers > ScheduleToCloseTimeout - StartToCloseTimeout - PurchasePolicy.MaximumInterval

\* "so callers back off more aggressively than the policy's default"
\* (http.go:169-171): after a 429 without a usable hint the wait is at least the
\* service's own, and longer from the second attempt on, up to the cap.
RateLimitBacksOff ==
  /\ phase = "waiting" /\ last = TooManyRequests /\ askedUntil <= now
  => /\ wait >= Interval(attemptNumber)
     /\ attemptNumber > 1 /\ policy.BackoffCoefficient < 3 =>
          wait > Interval(attemptNumber) \/ wait = policy.MaximumInterval

\* GetNextRetryDelay "mirrors Temporal's server-side retry algorithm"
\* (retry.go:20-25), also where its arithmetic runs out of range and whatever the
\* build makes of that, for a policy with a maximum interval.
MirrorsServiceWhenCapped ==
  policy.MaximumInterval > 0 /\ AttemptsLeft =>
    GetNextRetryDelay(policy, attemptNumber, 0, overflown) = Interval(attemptNumber)

=============================================================================
