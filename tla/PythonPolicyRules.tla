-------------------------- MODULE PythonPolicyRules --------------------------
(***************************************************************************)
(* The rules of the Python activity policy interceptor                     *)
(* (examples/py/activitypolicyinterceptor/activitypolicyinterceptor.py).   *)
(* A field may be None, which the Go twin of a call cannot say; timedelta  *)
(* arithmetic does not wrap and is in whole microseconds.  Policies,       *)
(* severities and their defaults are PolicyRules', which the two files     *)
(* have in common.                                                         *)
(***************************************************************************)
EXTENDS PolicyRules

CONSTANTS
  None,
  Microsecond  \* in the units of Go's durations; 1000 in the code

ASSUME NoneAssumption == None \notin Nat

ASSUME MicrosecondAssumption ==
  Microsecond \in Nat \ {0} /\ Second % Microsecond = 0

Optional(S) == S \cup {None}

Timedelta == {d \in Nat : d % Microsecond = 0}

PyRetryPolicy == [initial_interval : Optional(Timedelta), backoff_coefficient : Optional(Nat),
                  maximum_interval : Optional(Timedelta), maximum_attempts : Optional(Nat)]

PyCall == [is_local : BOOLEAN, schedule_to_close : Optional(Timedelta),
           start_to_close : Optional(Timedelta), heartbeat : Optional(Timedelta),
           retry_policy : Optional(PyRetryPolicy)]

Positive(td) == td # None /\ td # 0

_is_unset_or_zero(td) == ~Positive(td)

\* A field of the retry policy, or its default where it is missing or zero.
RetryField(rp, field, default) ==
  IF rp # None /\ Positive(rp[field]) THEN rp[field] ELSE default

_detection_delay(heartbeat, start_to_close) ==
  IF Positive(heartbeat) THEN heartbeat
  ELSE IF Positive(start_to_close) THEN start_to_close ELSE None

\* timedelta(seconds=...) of num / den: the nearest microsecond, the even one of two.
NearestMicrosecond(num, den) ==
  LET unit  == den * Microsecond
      low   == num \div unit
      twice == 2 * (num % unit)
  IN  Microsecond * (IF twice > unit \/ (twice = unit /\ low % 2 = 1) THEN low + 1 ELSE low)

\* initial * (backoff / 10)^k in microseconds; a whole power of one is one as it is.
PyGrow(initial, backoff, k) ==
  IF backoff % 10 = 0 THEN initial * Power(backoff \div 10, k)
  ELSE NearestMicrosecond(initial * Power(backoff, k), Power(10, k))

\* A fault: the maximum interval has no default.
_retry_interval_uncapped(n, rp) ==
  LET initial == RetryField(rp, "initial_interval", Second)
      backoff == RetryField(rp, "backoff_coefficient", 20)
      scaled  == PyGrow(initial, backoff, n - 1)
      maximum == RetryField(rp, "maximum_interval", scaled)
  IN  IF scaled > maximum THEN maximum ELSE scaled

\* The code compares the seconds before it rounds them, which is the same: the
\* maximum is in whole microseconds.
_retry_interval(n, rp) ==
  LET initial == RetryField(rp, "initial_interval", Second)
      backoff == RetryField(rp, "backoff_coefficient", 20)
      maximum == RetryField(rp, "maximum_interval", 100 * initial)
      scaled  == PyGrow(initial, backoff, n - 1)
  IN  IF scaled > maximum THEN maximum ELSE scaled

_min_schedule_to_close(detect, rp, required_retries) ==
  LET total[i \in Nat] ==
        IF i = 0 THEN detect * required_retries
        ELSE total[i - 1] + _retry_interval(i, rp)
  IN  total[required_retries]

PyBudgetTooShort(c, required_retries) ==
  LET detect == _detection_delay(c.heartbeat, c.start_to_close) IN
  /\ required_retries > 0 /\ Positive(c.schedule_to_close)
  /\ detect # None
  /\ c.schedule_to_close < _min_schedule_to_close(detect, c.retry_policy, required_retries)

PyViolates(c, p, required_retries) ==
  \/ p = ScheduleToCloseRequired /\ _is_unset_or_zero(c.schedule_to_close)
  \/ /\ p = MaxAttemptsTooLow
     /\ RetryField(c.retry_policy, "maximum_attempts", 0) \in 1..2
  \/ /\ p = LocalActivityStartToCloseTooLong /\ c.is_local
     /\ _is_unset_or_zero(c.start_to_close) \/ c.start_to_close >= 10 * Second
  \/ p = TimeoutsPermitRetries /\ PyBudgetTooShort(c, required_retries)

_evaluate_policies(c, required_retries) ==
  {p \in Policies : PyViolates(c, p, required_retries)}

\* The mutation of the input before it is evaluated: neither timeout is given.
PyWithDefaultHeartbeat(c) ==
  IF ~c.is_local /\ c.heartbeat = None /\ c.start_to_close = None
  THEN [c EXCEPT !.heartbeat = defaultHeartbeatTimeout]
  ELSE c
=============================================================================
