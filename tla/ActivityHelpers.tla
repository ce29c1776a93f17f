--------------------------- MODULE ActivityHelpers ---------------------------
(***************************************************************************)
(* The pure parts of internal/activityhelpers: what an HTTP exchange means *)
(* for an activity's retries (http.go), the delay before the next attempt  *)
(* (retry.go) and the idempotency key (idempotency.go).                    *)
(*                                                                         *)
(* Durations are seconds in a signed word of which MaxDuration is the      *)
(* largest, backoff coefficients whole numbers, and 0 is Go's zero value.  *)
(***************************************************************************)
EXTENDS Integers, Sequences

CONSTANTS
  MaxDuration,  \* of time.Duration; 2^63 - 1 nanoseconds in the code
  MaxSeconds    \* of a Retry-After header; 2^32 - 1 in the code

\* An hour, which the code names, and the most seconds it reads are durations.
ASSUME MaxDurationAssumption ==
  /\ MaxDuration \in Nat /\ MaxDuration >= 3600
  /\ MaxSeconds \in 0..MaxDuration

MinDuration == -MaxDuration - 1

RetryPolicy == [InitialInterval : Int, BackoffCoefficient : Nat,
                MaximumInterval : Int, MaximumAttempts : Int]

NoError == [kind |-> "none"]

ApplicationError(nonRetryable, delay) ==
  [kind |-> "application", nonRetryable |-> nonRetryable, NextRetryDelay |-> delay]

-----------------------------------------------------------------------------
(* retry.go.                                                               *)

\* What the conversion of a float to time.Duration makes of a value out of
\* range: amd64 yields the smallest word, arm64 the largest.
Overflown == {MinDuration, MaxDuration}

Times(coeff, d) == IF d > MaxDuration THEN d ELSE d * coeff

\* initial * coeff^k, or anything too large for a word.
Grown(initial, coeff, k) ==
  LET grown[j \in Nat] == IF j = 0 THEN initial ELSE Times(coeff, grown[j - 1])
  IN  grown[k]

\* A fault: the overflow is not looked at.
calculateNewRetryDelayUnguarded(policy, attempt, minBackoffCoefficient, overflown) ==
  LET initial == IF policy.InitialInterval <= 0 THEN 1 ELSE policy.InitialInterval
      policyCoeff == IF policy.BackoffCoefficient = 0 THEN 2 ELSE policy.BackoffCoefficient
      coeff == IF minBackoffCoefficient > policyCoeff THEN minBackoffCoefficient
               ELSE policyCoeff
      grown == Grown(initial, coeff, attempt - 1)
      delay == IF grown > MaxDuration THEN overflown ELSE grown
      maximum == policy.MaximumInterval
  IN  IF maximum > 0 /\ delay > maximum THEN maximum ELSE delay

calculateNewRetryDelay(policy, attempt, minBackoffCoefficient, overflown) ==
  LET initial == IF policy.InitialInterval <= 0 THEN 1 ELSE policy.InitialInterval
      policyCoeff == IF policy.BackoffCoefficient = 0 THEN 2 ELSE policy.BackoffCoefficient
      coeff == IF minBackoffCoefficient > policyCoeff THEN minBackoffCoefficient
               ELSE policyCoeff
      grown == Grown(initial, coeff, attempt - 1)
      delay == IF grown > MaxDuration THEN overflown ELSE grown
      maximum == policy.MaximumInterval
  IN  IF delay <= 0 THEN (IF maximum > 0 THEN maximum ELSE 3600)
      ELSE IF maximum > 0 /\ delay > maximum THEN maximum ELSE delay

\* In an activity; the service always sends it a policy.
GetNextRetryDelay(policy, attempt, minBackoffCoefficient, overflown) ==
  IF policy.MaximumAttempts > 0 /\ attempt >= policy.MaximumAttempts THEN 0
  ELSE calculateNewRetryDelay(policy, attempt, minBackoffCoefficient, overflown)

-----------------------------------------------------------------------------
(* http.go.                                                                *)

\* A fault: all client errors are.
AllClientErrors == 400..499

NonRetryableStatuses ==
  (400..407) \cup (409..418) \cup (421..424) \cup {426, 428, 431, 451}

TooManyRequests == 429

\* A Retry-After header; a date is an instant of the worker's clock.
NoHeader   == [form |-> "empty"]
Malformed  == [form |-> "malformed"]
Seconds(n) == [form |-> "seconds", secs |-> n]
Date(t)    == [form |-> "date", at |-> t]

ParseRetryAfter(value, now) ==
  CASE value.form = "seconds" /\ value.secs <= MaxSeconds -> value.secs
    [] value.form = "date" /\ value.at > now -> value.at - now
    [] OTHER -> 0

\* Faults: a hint is read for 429 only; and 429 falls back to the policy.
HTTPResponseErrorHint429Only(resp, policy, attempt, now, overflown) ==
  LET hint == ParseRetryAfter(resp.retryAfter, now) IN
  IF resp.status \in 200..399 THEN NoError
  ELSE IF resp.status \in NonRetryableStatuses THEN ApplicationError(TRUE, 0)
  ELSE IF resp.status # TooManyRequests THEN ApplicationError(FALSE, 0)
  ELSE IF hint = 0
  THEN ApplicationError(FALSE, GetNextRetryDelay(policy, attempt, 3, overflown))
  ELSE ApplicationError(FALSE, hint)

HTTPResponseErrorNoFloor(resp, policy, attempt, now, overflown) ==
  LET hint == ParseRetryAfter(resp.retryAfter, now) IN
  IF resp.status \in 200..399 THEN NoError
  ELSE IF resp.status \in NonRetryableStatuses THEN ApplicationError(TRUE, 0)
  ELSE IF hint = 0 /\ resp.status = TooManyRequests
  THEN ApplicationError(FALSE, GetNextRetryDelay(policy, attempt, 0, overflown))
  ELSE ApplicationError(FALSE, hint)

HTTPResponseError(resp, policy, attempt, now, overflown) ==
  LET hint == ParseRetryAfter(resp.retryAfter, now) IN
  IF resp.status \in 200..399 THEN NoError
  ELSE IF resp.status \in NonRetryableStatuses THEN ApplicationError(TRUE, 0)
  ELSE IF hint = 0 /\ resp.status = TooManyRequests
  THEN ApplicationError(FALSE, GetNextRetryDelay(policy, attempt, 3, overflown))
  ELSE ApplicationError(FALSE, hint)

\* A *url.Error with what it wraps: NXDOMAIN, another DNS failure, a timeout or
\* another failure of the transport.
TransportFailures == {"nxdomain", "dns", "timeout", "refused"}

classifyHTTPTransportError(err) == ApplicationError(err = "nxdomain", 0)

-----------------------------------------------------------------------------
(* idempotency.go.                                                         *)

NUL == "NUL"

\* A fault: no delimiters.
getIdempotencyTokenUndelimited(info) == info.workflowID \o info.runID \o info.activityID

\* IDs are sequences of letters, NUL not among them, and the hash has no
\* collisions.
getIdempotencyToken(info) ==
  info.workflowID \o <<NUL>> \o info.runID \o <<NUL>> \o info.activityID
=============================================================================
