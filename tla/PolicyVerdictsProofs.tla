------------------------ MODULE PolicyVerdictsProofs ------------------------
(***************************************************************************)
(* What a verdict of the interceptors is worth, for all calls of which the *)
(* worst case is a duration, all numbers of retries and all mixtures of    *)
(* failures: an activity that is let through gets its retries, and one     *)
(* that is warned about for its budget would not.  The verdict is the same *)
(* in Go, in Python and, as far as it goes, in the Rust model.             *)
(***************************************************************************)
EXTENDS GuardedActivity, PolicyTwins, NatRecursion

-----------------------------------------------------------------------------
(* Arithmetic of the rules.                                                *)

\* math.Pow is what it should be.
LEMMA PowerRecurrence ==
  ASSUME NEW b \in Nat
  PROVE  /\ Power(b, 0) = 1
         /\ \A k \in Nat : Power(b, k) \in Nat /\ Power(b, k + 1) = b * Power(b, k)
<1> DEFINE Body(f) == [j \in Nat |-> IF j = 0 THEN 1 ELSE b * f[j - 1]]
           P == CHOOSE f : f = Body(f)
           g == [p \in Nat \X Nat |-> b * p[2]]
<1>1. g \in [Nat \X Nat -> Nat] /\ \A k, x \in Nat : g[<<k, x>>] = b * x
  OBVIOUS
<1> HIDE DEF g
<1>2. PICK f : IsRecursion(f, Nat, g, 1)
  BY <1>1, RecursiveFunctionExists DEF HasRecursion
<1>3. f = Body(f)
  <2>1. ASSUME NEW k \in Nat
        PROVE  f[k] = IF k = 0 THEN 1 ELSE b * f[k - 1]
    <3>1. CASE k = 0
      BY <1>2, <3>1 DEF IsRecursion
    <3>2. CASE k # 0
      <4>1. k \in Nat \ {0} /\ k - 1 \in Nat /\ f[k - 1] \in Nat
        BY <1>2, <3>2 DEF IsRecursion
      <4> QED
        BY <1>1, <1>2, <3>2, <4>1 DEF IsRecursion
    <3> QED
      BY <3>1, <3>2
  <2> QED
    BY <1>2, <2>1 DEF IsRecursion
<1> HIDE DEF Body
<1>4. P = Body(P)
  BY <1>3, Zenon
<1> HIDE DEF P
<1>5. \A k \in Nat : P[k] = IF k = 0 THEN 1 ELSE b * P[k - 1]
  BY <1>4 DEF Body
<1>6. \A k \in Nat : Power(b, k) = P[k]
  BY DEF Power, P, Body
<1> DEFINE T == {k \in Nat : P[k] \in Nat}
<1>7. 0 \in T /\ \A k \in Nat : k \in T => k + 1 \in T
  <2>1. P[0] = 1
    BY <1>5
  <2>2. ASSUME NEW k \in Nat, P[k] \in Nat
        PROVE  P[k + 1] \in Nat
    BY <1>5, <2>2
  <2> QED
    BY <2>1, <2>2
<1> HIDE DEF T
<1>8. \A k \in Nat : k \in T
  BY <1>7, SetInduction
<1>9. \A k \in Nat : P[k] \in Nat
  BY <1>8 DEF T
<1> QED
  BY <1>5, <1>6, <1>9

LEMMA PowerPositive ==
  ASSUME NEW b \in Nat \ {0}
  PROVE  \A k \in Nat : Power(b, k) \in Nat \ {0}
<1> DEFINE T == {k \in Nat : Power(b, k) \in Nat \ {0}}
<1>1. 0 \in T
  BY PowerRecurrence
<1>2. ASSUME NEW k \in Nat, k \in T
      PROVE  k + 1 \in T
  BY <1>2, PowerRecurrence
<1> HIDE DEF T
<1>3. \A k \in Nat : k \in T
  BY <1>1, <1>2, SetInduction
<1> QED
  BY <1>3 DEF T

LEMMA HalfWordType == HalfWord \in Nat \ {0}
BY PowerPositive, DurationAssumption DEF HalfWord

LEMMA WrapType ==
  ASSUME NEW d \in Int
  PROVE  Wrap(d) \in Int
BY HalfWordType DEF Wrap

\* What fits a word is not reduced.
LEMMA WrapFits ==
  ASSUME NEW d \in Nat, d < HalfWord
  PROVE  Wrap(d) = d
BY HalfWordType DEF Wrap

LEMMA GrowType ==
  ASSUME NEW initial \in Nat, NEW backoff \in Nat, NEW k \in Nat
  PROVE  Grow(initial, backoff, k) \in Nat
<1>1. backoff \div 10 \in Nat
  OBVIOUS
<1>2. Power(backoff \div 10, k) \in Nat /\ Power(backoff, k) \in Nat
  BY <1>1, PowerRecurrence
<1>3. Power(10, k) \in Nat \ {0}
  BY PowerPositive
<1>4. initial * Power(backoff \div 10, k) \in Nat /\ initial * Power(backoff, k) \in Nat
  BY <1>2
<1>5. (initial * Power(backoff, k)) \div Power(10, k) \in Nat
  BY <1>3, <1>4
<1> QED
  BY <1>4, <1>5 DEF Grow

\* The maximum interval in force, and the intervals.
Ceiling(rp) == OrDefault(rp.MaximumInterval, defaultMaxIntervalMultiplier * InitialInterval(rp))

LEMMA CeilingType ==
  ASSUME NEW rp \in RetryPolicy
  PROVE  /\ InitialInterval(rp) \in Nat \ {0} /\ Ceiling(rp) \in Nat
         /\ defaultMaxIntervalMultiplier * InitialInterval(rp) \in Nat
<1>1. InitialInterval(rp) \in Nat \ {0}
  BY DurationAssumption DEF RetryPolicy, InitialInterval, OrDefault, defaultRetryInitialInterval
<1>2. defaultMaxIntervalMultiplier * InitialInterval(rp) \in Nat
  BY <1>1 DEF defaultMaxIntervalMultiplier
<1> QED
  BY <1>1, <1>2 DEF Ceiling, OrDefault, RetryPolicy

LEMMA IntervalType ==
  ASSUME NEW rp \in RetryPolicy, NEW n \in Nat \ {0}
  PROVE  Interval(n, rp) \in Nat /\ Interval(n, rp) <= Ceiling(rp)
<1>1. OrDefault(rp.BackoffCoefficient, defaultRetryBackoffCoefficient) \in Nat
  BY DEF RetryPolicy, OrDefault, defaultRetryBackoffCoefficient
<1>2. n - 1 \in Nat /\ InitialInterval(rp) \in Nat
  BY CeilingType
<1>3. Scaled(n, rp) \in Nat
  BY <1>1, <1>2, GrowType DEF Scaled
<1> QED
  BY <1>3, CeilingType DEF Interval, Ceiling

\* The code's interval is the service's, if the default ceiling is a duration.
LEMMA IntervalsAgree ==
  ASSUME NEW rp \in RetryPolicy, NEW n,
         defaultMaxIntervalMultiplier * InitialInterval(rp) < HalfWord
  PROVE  retryInterval(n, rp) = Interval(n, rp)
<1>1. Wrap(defaultMaxIntervalMultiplier * InitialInterval(rp))
        = defaultMaxIntervalMultiplier * InitialInterval(rp)
  BY CeilingType, WrapFits
<1> QED
  BY <1>1 DEF retryInterval, Interval

-----------------------------------------------------------------------------
(* The waits before attempt n + 1, together.                               *)

LEMMA WaitsRecurrence ==
  ASSUME NEW rp \in RetryPolicy
  PROVE  /\ Waits(rp)[0] = 0
         /\ \A n \in Nat : /\ Waits(rp)[n] \in Nat
                           /\ Waits(rp)[n + 1] = Waits(rp)[n] + Interval(n + 1, rp)
                           /\ Waits(rp)[n] <= n * Ceiling(rp)
<1> DEFINE Body(f) == [n \in Nat |-> IF n = 0 THEN 0 ELSE f[n - 1] + Interval(n, rp)]
           g == [p \in Nat \X Nat |-> IF p[1] = 0 THEN 0 ELSE p[2] + Interval(p[1], rp)]
           W == Waits(rp)
<1>1. g \in [Nat \X Nat -> Nat]
  <2>1. ASSUME NEW p \in Nat \X Nat
        PROVE  (IF p[1] = 0 THEN 0 ELSE p[2] + Interval(p[1], rp)) \in Nat
    <3>1. p[1] \in Nat /\ p[2] \in Nat
      OBVIOUS
    <3>2. p[1] # 0 => Interval(p[1], rp) \in Nat
      BY <3>1, IntervalType
    <3> QED
      BY <3>1, <3>2
  <2> QED
    BY <2>1
<1>2. \A n \in Nat \ {0}, x \in Nat : g[<<n, x>>] = x + Interval(n, rp)
  OBVIOUS
<1> HIDE DEF g
<1>3. PICK f : IsRecursion(f, Nat, g, 0)
  BY <1>1, RecursiveFunctionExists DEF HasRecursion
<1>4. f = Body(f)
  <2>1. ASSUME NEW n \in Nat
        PROVE  f[n] = IF n = 0 THEN 0 ELSE f[n - 1] + Interval(n, rp)
    <3>1. CASE n = 0
      BY <1>3, <3>1 DEF IsRecursion
    <3>2. CASE n # 0
      <4>1. n \in Nat \ {0} /\ n - 1 \in Nat /\ f[n - 1] \in Nat
        BY <1>3, <3>2 DEF IsRecursion
      <4> QED
        BY <1>2, <1>3, <3>2, <4>1 DEF IsRecursion
    <3> QED
      BY <3>1, <3>2
  <2> QED
    BY <1>3, <2>1 DEF IsRecursion
<1>5. W = CHOOSE h : h = Body(h)
  BY DEF Waits
<1> HIDE DEF Body, W
<1>6. W = Body(W)
  BY <1>4, <1>5, Zenon
<1>7. W[0] = 0 /\ \A n \in Nat : W[n + 1] = W[n] + Interval(n + 1, rp)
  BY <1>6 DEF Body
<1> DEFINE T == {n \in Nat : W[n] \in Nat /\ W[n] <= n * Ceiling(rp)}
<1>8. 0 \in T
  BY <1>7, CeilingType
<1>9. ASSUME NEW n \in Nat, n \in T
      PROVE  n + 1 \in T
  <2>1. Interval(n + 1, rp) \in Nat /\ Interval(n + 1, rp) <= Ceiling(rp)
    BY IntervalType
  <2>2. (n + 1) * Ceiling(rp) = n * Ceiling(rp) + Ceiling(rp) /\ n * Ceiling(rp) \in Nat
    BY CeilingType
  <2> QED
    BY <1>7, <1>9, <2>1, <2>2, CeilingType
<1> HIDE DEF T
<1>10. \A n \in Nat : n \in T
  BY <1>8, <1>9, SetInduction
<1>11. \A n \in Nat : W[n] \in Nat /\ W[n] <= n * Ceiling(rp)
  BY <1>10 DEF T
<1> QED
  BY <1>7, <1>11 DEF W

\* What the code adds up is the time at which attempt n + 1 is due.
LEMMA MinScheduleToCloseIsDue ==
  ASSUME NEW rp \in RetryPolicy, NEW detect \in Nat, NEW n \in Nat,
         defaultMaxIntervalMultiplier * InitialInterval(rp) < HalfWord,
         n * (detect + Ceiling(rp)) < HalfWord
  PROVE  minScheduleToClose(detect, rp, n) = n * detect + Waits(rp)[n]
<1> DEFINE a == Wrap(n * detect)
           Body(f) == [i \in Nat |-> IF i = 0 THEN Wrap(n * detect)
                                     ELSE Wrap(f[i - 1] + retryInterval(i, rp))]
           g == [p \in Nat \X Int |->
                   IF p[1] = 0 THEN 0 ELSE Wrap(p[2] + retryInterval(p[1], rp))]
           S == CHOOSE h : h = Body(h)
<1>1. n * detect \in Nat /\ n * Ceiling(rp) \in Nat /\ Ceiling(rp) \in Nat
      /\ n * detect + n * Ceiling(rp) < HalfWord
  <2>1. Ceiling(rp) \in Nat
    BY CeilingType
  <2>2. n * (detect + Ceiling(rp)) = n * detect + n * Ceiling(rp)
    BY <2>1
  <2> QED
    BY <2>1, <2>2
<1>2. a \in Int
  BY <1>1, WrapType
<1>3. \A i \in Nat \ {0} : retryInterval(i, rp) \in Nat
  BY IntervalsAgree, IntervalType
<1>4. g \in [Nat \X Int -> Int]
  <2>1. ASSUME NEW p \in Nat \X Int
        PROVE  (IF p[1] = 0 THEN 0 ELSE Wrap(p[2] + retryInterval(p[1], rp))) \in Int
    <3>1. p[1] \in Nat /\ p[2] \in Int
      OBVIOUS
    <3>2. p[1] # 0 => Wrap(p[2] + retryInterval(p[1], rp)) \in Int
      BY <1>3, <3>1, WrapType
    <3> QED
      BY <3>2
  <2> QED
    BY <2>1
<1>5. \A i \in Nat \ {0}, x \in Int : g[<<i, x>>] = Wrap(x + retryInterval(i, rp))
  OBVIOUS
<1> HIDE DEF g, a
<1>6. PICK f : IsRecursion(f, Int, g, a)
  BY <1>2, <1>4, RecursiveFunctionExists DEF HasRecursion
<1>7. f = Body(f)
  <2>1. ASSUME NEW i \in Nat
        PROVE  f[i] = IF i = 0 THEN a ELSE Wrap(f[i - 1] + retryInterval(i, rp))
    <3>1. CASE i = 0
      BY <1>6, <3>1 DEF IsRecursion
    <3>2. CASE i # 0
      <4>1. i \in Nat \ {0} /\ i - 1 \in Nat /\ f[i - 1] \in Int
        BY <1>6, <3>2 DEF IsRecursion
      <4> QED
        BY <1>5, <1>6, <3>2, <4>1 DEF IsRecursion
    <3> QED
      BY <3>1, <3>2
  <2> QED
    BY <1>6, <2>1 DEF IsRecursion, a
<1> HIDE DEF Body
<1>8. S = Body(S)
  BY <1>7, Zenon
<1>9. minScheduleToClose(detect, rp, n) = S[n]
  BY DEF minScheduleToClose, Body
<1> HIDE DEF S
<1>10. S[0] = Wrap(n * detect)
       /\ \A i \in Nat : S[i + 1] = Wrap(S[i] + retryInterval(i + 1, rp))
  BY <1>8 DEF Body
<1> DEFINE T == {i \in Nat : i <= n => S[i] = n * detect + Waits(rp)[i]}
<1>11. 0 \in T
  <2>1. n * detect < HalfWord
    BY <1>1, HalfWordType
  <2> QED
    BY <1>1, <1>10, <2>1, WrapFits, WaitsRecurrence
<1>12. ASSUME NEW i \in Nat, i \in T
       PROVE  i + 1 \in T
  <2>1. SUFFICES ASSUME i + 1 <= n
                 PROVE  S[i + 1] = n * detect + Waits(rp)[i + 1]
    OBVIOUS
  <2>2. S[i] = n * detect + Waits(rp)[i]
    BY <1>12, <2>1
  <2>3. /\ Waits(rp)[i + 1] = Waits(rp)[i] + retryInterval(i + 1, rp)
        /\ Waits(rp)[i + 1] \in Nat /\ Waits(rp)[i] \in Nat
        /\ Waits(rp)[i + 1] <= (i + 1) * Ceiling(rp)
    BY WaitsRecurrence, IntervalsAgree
  <2>4. (i + 1) * Ceiling(rp) <= n * Ceiling(rp)
    BY <1>1, <2>1
  <2>5. n * detect + Waits(rp)[i + 1] \in Nat /\ n * detect + Waits(rp)[i + 1] < HalfWord
    BY <1>1, <2>3, <2>4, HalfWordType
  <2>6. S[i] + retryInterval(i + 1, rp) = n * detect + Waits(rp)[i + 1]
    BY <1>1, <1>3, <2>2, <2>3
  <2> QED
    BY <1>10, <2>5, <2>6, WrapFits
<1> HIDE DEF T
<1>13. \A i \in Nat : i \in T
  BY <1>11, <1>12, SetInduction
<1> QED
  BY <1>9, <1>13 DEF T

-----------------------------------------------------------------------------
(* The options forwarded, and when their attempts are due.                 *)

Forwarded == {WithDefaultHeartbeat(c) : c \in Calls}

DelayOf(c) == detectionDelay(c.Heartbeat, c.StartToClose)

DueOf(c, n) == n * DelayOf(c) + Waits(c.RetryPolicy)[n]

\* The default heartbeat leaves no call without a way to detect its failure.
LEMMA ForwardedType ==
  ASSUME NEW w \in Forwarded
  PROVE  /\ w.ScheduleToClose \in Int
         /\ w.StartToClose \in Nat /\ w.Heartbeat \in Nat
         /\ w.RetryPolicy \in RetryPolicy
         /\ DelayOf(w) \in Nat \ {0}
         /\ \A n \in RetryTargets : n \in Nat /\ FitsDuration(w, n)
<1>1. PICK c \in Calls : w = WithDefaultHeartbeat(c)
  BY DEF Forwarded
<1>2. c \in Call /\ ~c.local /\ c.Heartbeat \in Nat /\ c.StartToClose \in Nat
  BY ConstantsAssumption
<1>3. /\ w.ScheduleToClose = c.ScheduleToClose /\ w.StartToClose = c.StartToClose
      /\ w.RetryPolicy = c.RetryPolicy
      /\ w.Heartbeat = IF c.Heartbeat = 0 /\ c.StartToClose = 0
                       THEN defaultHeartbeatTimeout ELSE c.Heartbeat
  BY <1>1, <1>2 DEF WithDefaultHeartbeat, Call
<1>4. c.ScheduleToClose \in Int /\ c.RetryPolicy \in RetryPolicy
  BY <1>2 DEF Call
<1>5. DelayOf(w) \in Nat \ {0}
  BY <1>2, <1>3, DurationAssumption DEF DelayOf, detectionDelay, defaultHeartbeatTimeout
<1>6. \A n \in RetryTargets : n \in Nat /\ FitsDuration(w, n)
  BY <1>1, ConstantsAssumption
<1> QED
  BY <1>2, <1>3, <1>4, <1>5, <1>6, DurationAssumption DEF defaultHeartbeatTimeout

LEMMA DueRecurrence ==
  ASSUME NEW w \in Forwarded
  PROVE  /\ DueOf(w, 0) = 0
         /\ \A n \in Nat : /\ DueOf(w, n) \in Nat
                           /\ Interval(n + 1, w.RetryPolicy) \in Nat
                           /\ DueOf(w, n + 1) = DueOf(w, n) + DelayOf(w)
                                                  + Interval(n + 1, w.RetryPolicy)
<1>1. w.RetryPolicy \in RetryPolicy /\ DelayOf(w) \in Nat
  BY ForwardedType
<1>2. DueOf(w, 0) = 0
  BY <1>1, WaitsRecurrence DEF DueOf
<1>3. ASSUME NEW n \in Nat
      PROVE  /\ DueOf(w, n) \in Nat
             /\ Interval(n + 1, w.RetryPolicy) \in Nat
             /\ DueOf(w, n + 1) = DueOf(w, n) + DelayOf(w) + Interval(n + 1, w.RetryPolicy)
  <2> DEFINE delay == DelayOf(w)
             W == Waits(w.RetryPolicy)
  <2>1. W[n] \in Nat /\ W[n + 1] = W[n] + Interval(n + 1, w.RetryPolicy)
    BY <1>1, WaitsRecurrence
  <2>2. Interval(n + 1, w.RetryPolicy) \in Nat
    BY <1>1, IntervalType
  <2>3. DueOf(w, n) = n * delay + W[n] /\ DueOf(w, n + 1) = (n + 1) * delay + W[n + 1]
    BY DEF DueOf
  <2>4. delay \in Nat
    BY <1>1
  <2> HIDE DEF delay, W
  <2>5. n * delay \in Nat /\ (n + 1) * delay = n * delay + delay
    BY <2>4
  <2>6. DueOf(w, n + 1) = DueOf(w, n) + delay + Interval(n + 1, w.RetryPolicy)
    BY <2>1, <2>2, <2>3, <2>4, <2>5
  <2> QED
    BY <2>1, <2>2, <2>3, <2>5, <2>6 DEF delay
<1> QED
  BY <1>2, <1>3

LEMMA DueMonotone ==
  ASSUME NEW w \in Forwarded
  PROVE  \A m, n \in Nat : m <= n => DueOf(w, m) <= DueOf(w, n)
<1> DEFINE T == {n \in Nat : \A m \in Nat : m <= n => DueOf(w, m) <= DueOf(w, n)}
<1>1. \A n \in Nat : DueOf(w, n) \in Nat /\ DueOf(w, n) <= DueOf(w, n + 1)
  BY DueRecurrence, ForwardedType
<1>2. 0 \in T
  <2>1. \A m \in Nat : m <= 0 => m = 0
    OBVIOUS
  <2> QED
    BY <1>1, <2>1
<1>3. ASSUME NEW n \in Nat, n \in T
      PROVE  n + 1 \in T
  <2>1. ASSUME NEW m \in Nat, m <= n + 1
        PROVE  DueOf(w, m) <= DueOf(w, n + 1)
    <3>1. DueOf(w, n + 1) \in Nat /\ DueOf(w, n) \in Nat /\ DueOf(w, m) \in Nat
      BY <1>1
    <3>2. CASE m = n + 1
      BY <3>1, <3>2
    <3>3. CASE m <= n
      BY <1>1, <1>3, <3>1, <3>3
    <3> QED
      BY <2>1, <3>2, <3>3
  <2> QED
    BY <2>1
<1> HIDE DEF T
<1>4. \A n \in Nat : n \in T
  BY <1>2, <1>3, SetInduction
<1> QED
  BY <1>4 DEF T

\* What timeouts_permit_retries asks of a budget.
LEMMA BudgetTooShortIsOverdue ==
  ASSUME NEW w \in Forwarded, NEW n \in RetryTargets
  PROVE  BudgetTooShort(w, n) <=>
           n > 0 /\ w.ScheduleToClose > 0 /\ w.ScheduleToClose < DueOf(w, n)
<1> DEFINE rp == w.RetryPolicy
<1>1. n \in Nat /\ FitsDuration(w, n) /\ DelayOf(w) \in Nat \ {0} /\ rp \in RetryPolicy
  BY ForwardedType
<1>2. /\ defaultMaxIntervalMultiplier * InitialInterval(rp) < HalfWord
      /\ n * (DelayOf(w) + Ceiling(rp)) < HalfWord
  BY <1>1 DEF FitsDuration, DelayOf, Ceiling
<1>3. minScheduleToClose(DelayOf(w), rp, n) = DueOf(w, n)
  BY <1>1, <1>2, MinScheduleToCloseIsDue DEF DueOf
<1> QED
  BY <1>1, <1>3 DEF BudgetTooShort, DelayOf

-----------------------------------------------------------------------------
(* The inductive invariant.                                                *)

\* Outside the two verdicts, what the invariant says of a forwarded call.
LEMMA CallForwarded ==
  ASSUME BudgetTypeOK, phase # "calling"
  PROVE  /\ call \in Forwarded
         /\ Delay = DelayOf(call) /\ \A n : Due(n) = DueOf(call, n)
         /\ requiredRetries \in RetryTargets
         /\ Violates(call, TimeoutsPermitRetries, requiredRetries)
              <=> BudgetTooShort(call, requiredRetries)
BY DEF BudgetTypeOK, Forwarded, Delay, DelayOf, Due, DueOf, Violates, ScheduleToCloseRequired,
       MaxAttemptsTooLow, LocalActivityStartToCloseTooLong, TimeoutsPermitRetries

LEMMA InitBudgetInv == Init => BudgetInv
BY DEF Init, BudgetInv, BudgetTypeOK, OnBudget, RetriesPermitted, NoNeedlessViolation

\* A call is let through or not before anything is due.
LEMMA ExecuteActivityKeeps ==
  ASSUME BudgetInv, ExecuteActivity
  PROVE  BudgetInv'
<1>1. /\ phase = "calling" /\ call \in Calls /\ call' = WithDefaultHeartbeat(call)
      /\ at = 0 /\ attempts = 0 /\ early /\ worst
  BY DEF BudgetInv, BudgetTypeOK, OnBudget, ExecuteActivity
<1>2. /\ at' = 0 /\ attempts' = 0 /\ early' /\ worst'
      /\ phase' = IF Accepted' THEN "waiting" ELSE "rejected"
  BY <1>1 DEF ExecuteActivity, Accepted, settings
<1>3. BudgetTypeOK'
  BY <1>1, <1>2 DEF BudgetInv, BudgetTypeOK, ExecuteActivity, settings
<1>4. requiredRetries' \in Nat
  BY <1>3, ConstantsAssumption DEF BudgetTypeOK
<1>5. Due(0)' = 0
  <2>1. call' \in Forwarded
    BY <1>1 DEF Forwarded
  <2>2. Due(0)' = DueOf(call', 0)
    BY DEF Due, DueOf, Delay, DelayOf
  <2> QED
    BY <2>1, <2>2, DueRecurrence
<1>6. OnBudget'
  BY <1>2, <1>5 DEF OnBudget
<1>7. RetriesPermitted' /\ NoNeedlessViolation'
  BY <1>2, <1>4 DEF RetriesPermitted, NoNeedlessViolation
<1> QED
  BY <1>3, <1>6, <1>7 DEF BudgetInv

\* The other steps leave the call and the verdict on it as they are.
LEMMA CallKept ==
  ASSUME BudgetInv, phase \notin {"calling", "rejected"}, UNCHANGED <<call, settings>>
  PROVE  /\ call' \in Forwarded /\ Accepted'
         /\ \A n : Due(n)' = Due(n)
         /\ Delay' = Delay /\ Delay \in Nat \ {0}
         /\ \A m, n \in Nat : m <= n => Due(m) <= Due(n)
         /\ \A n \in Nat : /\ Due(n) \in Nat
                           /\ Due(n + 1) = Due(n) + Delay + Interval(n + 1, call.RetryPolicy)
         /\ call.Heartbeat = 0 => early
<1>1. call \in Forwarded /\ Delay = DelayOf(call) /\ \A n : Due(n) = DueOf(call, n)
  BY CallForwarded DEF BudgetInv
<1>2. call' = call /\ requiredRetries' = requiredRetries /\ enforced' = enforced
  BY DEF settings
<1>3. Accepted /\ (call.Heartbeat = 0 => early)
  BY DEF BudgetInv, OnBudget
<1>4. Accepted' /\ Delay' = Delay /\ \A n : Due(n)' = Due(n)
  BY <1>2, <1>3 DEF Accepted, Delay, Due
<1>5. /\ Delay \in Nat \ {0}
      /\ \A m, n \in Nat : m <= n => Due(m) <= Due(n)
  BY <1>1, ForwardedType, DueMonotone
<1>6. \A n \in Nat : /\ Due(n) \in Nat
                     /\ Due(n + 1) = Due(n) + Delay + Interval(n + 1, call.RetryPolicy)
  BY <1>1, DueRecurrence
<1> QED
  BY <1>1, <1>2, <1>3, <1>4, <1>5, <1>6

\* An attempt that starts in time has not used up a budget that is too short.
LEMMA StartAttemptKeeps ==
  ASSUME BudgetInv, StartAttempt
  PROVE  BudgetInv'
<1>1. /\ phase = "waiting" /\ phase' = "running" /\ attempts' = attempts + 1 /\ at' = at
      /\ early' = early /\ worst' = worst /\ InTime(at)
      /\ UNCHANGED <<call, settings, autoHeartbeat>>
  BY DEF StartAttempt, settings
<1>2. BudgetTypeOK
  BY DEF BudgetInv
<1>3. BudgetTypeOK'
  BY <1>1, <1>2 DEF BudgetTypeOK, settings
<1>4. attempts \in Nat /\ at \in Nat
  BY <1>2 DEF BudgetTypeOK
<1>5. OnBudget'
  <2>1. attempts' - 1 = attempts /\ attempts' > 0
    BY <1>1, <1>4
  <2>2. (early => at <= Due(attempts)) /\ (worst => at >= Due(attempts))
    BY <1>1 DEF BudgetInv, OnBudget
  <2>3. Accepted' /\ (call.Heartbeat = 0 => early) /\ \A n : Due(n)' = Due(n)
    BY <1>1, CallKept
  <2>4. Due(attempts - 1)' = Due(attempts)
    BY <1>1, <2>1 DEF Due, Delay
  <2> QED
    BY <1>1, <2>1, <2>2, <2>3, <2>4 DEF OnBudget
<1>6. RetriesPermitted'
  BY <1>1 DEF RetriesPermitted
<1>7. NoNeedlessViolation'
  <2>1. SUFFICES ASSUME worst, Violates(call, TimeoutsPermitRetries, requiredRetries)
                 PROVE  attempts + 1 <= requiredRetries
    BY <1>1 DEF NoNeedlessViolation, settings
  <2>2. /\ requiredRetries \in RetryTargets /\ call \in Forwarded
        /\ BudgetTooShort(call, requiredRetries) /\ Due(requiredRetries) = DueOf(call, requiredRetries)
    BY <1>1, <1>2, <2>1, CallForwarded
  <2>3. call.ScheduleToClose > 0 /\ call.ScheduleToClose < Due(requiredRetries)
    BY <2>2, BudgetTooShortIsOverdue
  <2>4. requiredRetries \in Nat /\ call.ScheduleToClose \in Int
    BY <2>2, ForwardedType
  <2>5. at <= call.ScheduleToClose
    BY <1>1, <1>4, <2>3, <2>4 DEF InTime
  <2>6. at >= Due(attempts)
    BY <1>1, <2>1 DEF BudgetInv, OnBudget
  <2>7. Due(attempts) \in Nat /\ Due(requiredRetries) \in Nat
        /\ (requiredRetries <= attempts => Due(requiredRetries) <= Due(attempts))
    BY <1>1, <1>4, <2>4, CallKept
  <2> QED
    BY <1>4, <2>3, <2>4, <2>5, <2>6, <2>7
<1> QED
  BY <1>3, <1>5, <1>6, <1>7 DEF BudgetInv

\* Where neither the call nor the number of attempts changes, and nothing becomes a
\* worst case that was not, a needless warning would have been one before.
LEMMA NoNeedlessViolationKept ==
  ASSUME NoNeedlessViolation, phase # "calling", UNCHANGED <<call, settings, attempts>>,
         worst' => worst
  PROVE  NoNeedlessViolation'
BY DEF NoNeedlessViolation, settings

\* A failure known time into the attempt.
LEMMA FailureKeeps ==
  ASSUME BudgetInv, NEW time \in Nat,
         phase = "running", phase' = "lost", at' = at + time,
         early' = (early /\ time <= Delay), worst' = (worst /\ time >= Delay),
         UNCHANGED <<call, settings, attempts>>,
         call.Heartbeat = 0 => time <= Delay
  PROVE  BudgetInv'
<1>1. BudgetTypeOK /\ attempts \in Nat /\ at \in Nat
  BY DEF BudgetInv, BudgetTypeOK
<1>2. BudgetTypeOK'
  BY <1>1 DEF BudgetTypeOK, settings
<1>3. OnBudget'
  <2>1. Accepted' /\ (call.Heartbeat = 0 => early) /\ (\A n : Due(n)' = Due(n))
        /\ Delay' = Delay /\ Delay \in Nat
    BY CallKept
  <2>2. attempts > 0 /\ (early => at <= Due(attempts - 1)) /\ (worst => at >= Due(attempts - 1))
    BY DEF BudgetInv, OnBudget
  <2>3. attempts - 1 \in Nat /\ Due(attempts - 1) \in Nat
    BY <1>1, <2>2, CallKept
  <2>4. Due(attempts - 1)' = Due(attempts - 1)
    BY DEF Due, Delay
  <2> DEFINE due == Due(attempts - 1)
  <2>5. due' = due /\ due \in Nat
    BY <2>3, <2>4
  <2>6. (early => at <= due) /\ (worst => at >= due)
    BY <2>2
  <2> HIDE DEF due
  <2>7. (early' => early /\ time <= Delay) /\ (worst' => worst /\ time >= Delay)
    OBVIOUS
  <2>8. (early' => at' <= due' + Delay') /\ (worst' => at' >= due' + Delay')
    BY <1>1, <2>1, <2>5, <2>6, <2>7
  <2>9. call'.Heartbeat = 0 => early'
    BY <2>1
  <2> QED
    BY <2>1, <2>2, <2>8, <2>9 DEF OnBudget, due
<1>4. RetriesPermitted'
  BY DEF RetriesPermitted
<1>5. NoNeedlessViolation'
  BY NoNeedlessViolationKept DEF BudgetInv
<1> QED
  BY <1>2, <1>3, <1>4, <1>5 DEF BudgetInv

\* Without a heartbeat a crash is known when the attempt times out.
LEMMA CrashKeeps ==
  ASSUME BudgetInv, NEW d \in Nat, Crash(d)
  PROVE  BudgetInv'
<1>1. /\ phase = "running" /\ phase' = "lost" /\ at' = at + Detected(d)
      /\ early' = (early /\ Detected(d) <= Delay) /\ worst' = (worst /\ Detected(d) >= Delay)
      /\ UNCHANGED <<call, settings, attempts>>
  BY DEF Crash
<1>2. call \in Forwarded
  BY <1>1, CallForwarded DEF BudgetInv
<1>3. call.StartToClose \in Nat /\ call.Heartbeat \in Nat
  BY <1>2, ForwardedType
<1>4. LastBeat(d) \in Nat
  <2>1. CASE ~autoHeartbeat \/ call.Heartbeat < 2
    BY <2>1 DEF LastBeat
  <2>2. CASE autoHeartbeat /\ call.Heartbeat >= 2
    <3>1. call.Heartbeat \div 2 \in Nat \ {0}
      BY <1>3, <2>2
    <3>2. d \div (call.Heartbeat \div 2) \in Nat
      BY <3>1
    <3>3. (d \div (call.Heartbeat \div 2)) * (call.Heartbeat \div 2) \in Nat
      BY <3>1, <3>2
    <3> QED
      BY <1>3, <2>2, <3>3 DEF LastBeat
  <2> QED
    BY <1>3, <2>1, <2>2
<1>5. Detected(d) \in Nat
  BY <1>3, <1>4 DEF Detected
<1>6. call.Heartbeat = 0 => Detected(d) <= Delay
  BY <1>3 DEF Detected, Delay, detectionDelay
<1> QED
  BY <1>1, <1>5, <1>6, FailureKeeps

\* Without a heartbeat an error is returned before the attempt times out.
LEMMA FailKeeps ==
  ASSUME BudgetInv, NEW d \in Nat, Fail(d)
  PROVE  BudgetInv'
<1>1. /\ phase = "running" /\ phase' = "lost" /\ at' = at + d /\ Unlost(d)
      /\ early' = (early /\ d <= Delay) /\ worst' = (worst /\ d >= Delay)
      /\ UNCHANGED <<call, settings, attempts>>
  BY DEF Fail
<1>2. call \in Forwarded /\ Delay = DelayOf(call)
  BY <1>1, CallForwarded DEF BudgetInv
<1>3. call.StartToClose \in Nat /\ call.Heartbeat \in Nat /\ Delay \in Nat \ {0}
  BY <1>2, ForwardedType
<1>4. call.Heartbeat = 0 => d <= Delay
  BY <1>1, <1>3 DEF Unlost, Delay, detectionDelay
<1> QED
  BY <1>1, <1>4, FailureKeeps

LEMMA CompleteKeeps ==
  ASSUME BudgetInv, Complete
  PROVE  BudgetInv'
<1>1. /\ phase = "running" /\ phase' = "completed"
      /\ UNCHANGED <<call, settings, at, attempts, early, worst>>
  BY DEF Complete
<1>2. BudgetTypeOK'
  BY <1>1 DEF BudgetInv, BudgetTypeOK, settings
<1>3. Accepted' /\ (call.Heartbeat = 0 => early)
  BY <1>1, CallKept
<1>4. OnBudget'
  BY <1>1, <1>3 DEF OnBudget
<1>5. RetriesPermitted'
  BY <1>1 DEF RetriesPermitted
<1>6. NoNeedlessViolation'
  BY <1>1, NoNeedlessViolationKept DEF BudgetInv
<1> QED
  BY <1>2, <1>4, <1>5, <1>6 DEF BudgetInv

\* The next attempt is due an interval after the failure is known.
LEMMA RetryKeeps ==
  ASSUME BudgetInv, Retry
  PROVE  BudgetInv'
<1> DEFINE wait == Interval(attempts, call.RetryPolicy)
<1>1. /\ phase = "lost" /\ phase' = "waiting" /\ at' = at + wait
      /\ UNCHANGED <<call, settings, attempts, early, worst>>
  BY DEF Retry
<1>2. BudgetTypeOK /\ attempts \in Nat /\ at \in Nat
  BY DEF BudgetInv, BudgetTypeOK
<1>3. attempts \in Nat \ {0} /\ wait \in Nat
  <2>1. attempts \in Nat \ {0}
    BY <1>1, <1>2 DEF BudgetInv, OnBudget
  <2>2. call.RetryPolicy \in RetryPolicy
    BY <1>1, <1>2, CallForwarded, ForwardedType
  <2> QED
    BY <2>1, <2>2, IntervalType
<1>4. BudgetTypeOK'
  BY <1>1, <1>2, <1>3 DEF BudgetTypeOK, settings
<1>5. OnBudget'
  <2>1. Accepted' /\ (call.Heartbeat = 0 => early) /\ (\A n : Due(n)' = Due(n))
        /\ Delay \in Nat
    BY <1>1, CallKept
  <2>2. /\ early => at <= Due(attempts - 1) + Delay
        /\ worst => at >= Due(attempts - 1) + Delay
    BY <1>1 DEF BudgetInv, OnBudget
  <2>3. attempts - 1 \in Nat /\ (attempts - 1) + 1 = attempts
    BY <1>3
  <2>4. Due(attempts - 1) \in Nat /\ Due(attempts) = Due(attempts - 1) + Delay + wait
    BY <1>1, <2>3, CallKept
  <2>5. (early => at' <= Due(attempts)) /\ (worst => at' >= Due(attempts))
    BY <1>1, <1>2, <1>3, <2>1, <2>2, <2>4
  <2> QED
    BY <1>1, <2>1, <2>5 DEF OnBudget
<1>6. RetriesPermitted'
  BY <1>1 DEF RetriesPermitted
<1>7. NoNeedlessViolation'
  BY <1>1, NoNeedlessViolationKept DEF BudgetInv
<1> QED
  BY <1>4, <1>5, <1>6, <1>7 DEF BudgetInv

\* A budget that passed is used up only after the retries it is for.
LEMMA TimeOutKeeps ==
  ASSUME BudgetInv, TimeOut
  PROVE  BudgetInv'
<1>1. /\ phase' = "timedOut"
      /\ \/ phase \in {"waiting", "lost"} /\ ~InTime(at)
         \/ phase = "waiting" /\ ~AttemptsLeft /\ call.ScheduleToClose > 0
      /\ UNCHANGED <<call, settings, at, attempts, early, worst>>
  BY DEF TimeOut
<1>2. BudgetTypeOK /\ attempts \in Nat /\ at \in Nat
  BY DEF BudgetInv, BudgetTypeOK
<1>3. BudgetTypeOK'
  BY <1>1, <1>2 DEF BudgetTypeOK, settings
<1>4. Accepted' /\ (call.Heartbeat = 0 => early)
  BY <1>1, CallKept
<1>5. OnBudget'
  BY <1>1, <1>4 DEF OnBudget
<1>6. NoNeedlessViolation'
  BY <1>1, NoNeedlessViolationKept DEF BudgetInv
<1>7. RetriesPermitted'
  <2>1. SUFFICES ASSUME enforced = Policies, MayRetry, early, attempts <= requiredRetries
                 PROVE  FALSE
    <3>1. requiredRetries \in Nat
      BY <1>2, ConstantsAssumption DEF BudgetTypeOK
    <3> QED
      BY <1>1, <1>2, <1>4, <3>1 DEF RetriesPermitted, MayRetry, settings
  <2>2. /\ call \in Forwarded /\ requiredRetries \in RetryTargets
        /\ \A n : Due(n) = DueOf(call, n)
    BY <1>1, <1>2, CallForwarded
  <2>3. /\ call.ScheduleToClose \in Int /\ requiredRetries \in Nat
        /\ call.RetryPolicy.MaximumAttempts \in Int
    BY <2>2, ForwardedType DEF RetryPolicy
  <2>4. call.ScheduleToClose > 0 /\ ~BudgetTooShort(call, requiredRetries)
    <3>1. Accepted
      BY <1>1 DEF BudgetInv, OnBudget
    <3>2. \A p \in Policies : ~Violates(call, p, requiredRetries)
      BY <2>1, <3>1 DEF Accepted, Violated
    <3>3. ~Violates(call, ScheduleToCloseRequired, requiredRetries)
          /\ ~Violates(call, TimeoutsPermitRetries, requiredRetries)
      BY <3>2 DEF Policies
    <3> QED
      BY <2>3, <3>3 DEF Violates
  <2>5. Due(requiredRetries) \in Nat /\ Due(requiredRetries) <= call.ScheduleToClose
    <3>1. Due(0) = 0 /\ Due(requiredRetries) \in Nat
      BY <2>2, <2>3, DueRecurrence
    <3> QED
      BY <2>2, <2>3, <2>4, <3>1, BudgetTooShortIsOverdue
  <2>6. Due(attempts) \in Nat /\ Due(attempts) <= Due(requiredRetries)
    BY <1>1, <1>2, <2>1, <2>3, CallKept
  <2>7. CASE phase = "waiting" /\ ~InTime(at)
    <3>1. at <= Due(attempts)
      BY <2>1, <2>7 DEF BudgetInv, OnBudget
    <3> QED
      BY <1>2, <2>3, <2>5, <2>6, <2>7, <3>1 DEF InTime
  <2>8. CASE phase = "lost" /\ ~InTime(at)
    <3>1. at <= Due(attempts - 1) + Delay /\ attempts > 0
      BY <2>1, <2>8 DEF BudgetInv, OnBudget
    <3>2. attempts - 1 \in Nat /\ (attempts - 1) + 1 = attempts
      BY <1>2, <3>1
    <3>3. Due(attempts) = Due(attempts - 1) + Delay + Interval(attempts, call.RetryPolicy)
          /\ Due(attempts - 1) \in Nat /\ Delay \in Nat
      BY <1>1, <3>2, CallKept
    <3>4. Interval(attempts, call.RetryPolicy) \in Nat
      BY <2>2, <3>2, DueRecurrence
    <3> QED
      BY <1>2, <2>3, <2>5, <2>6, <2>8, <3>1, <3>3, <3>4 DEF InTime
  <2>9. CASE ~AttemptsLeft
    BY <1>2, <2>1, <2>3, <2>4, <2>9 DEF AttemptsLeft, MayRetry
  <2> QED
    BY <1>1, <2>7, <2>8, <2>9
<1> QED
  BY <1>3, <1>5, <1>6, <1>7 DEF BudgetInv

\* Every step of the activity keeps the invariant.
LEMMA NextKeepsBudgetInv ==
  ASSUME BudgetInv, [Next]_vars
  PROVE  BudgetInv'
<1>1. CASE ExecuteActivity
  BY <1>1, ExecuteActivityKeeps
<1>2. CASE StartAttempt
  BY <1>2, StartAttemptKeeps
<1>3. ASSUME NEW d \in FailureTimes, Crash(d) \/ Fail(d)
      PROVE  BudgetInv'
  <2>1. d \in Nat
    BY ConstantsAssumption
  <2> QED
    BY <1>3, <2>1, CrashKeeps, FailKeeps
<1>4. CASE Complete
  BY <1>4, CompleteKeeps
<1>5. CASE Retry
  BY <1>5, RetryKeeps
<1>6. CASE TimeOut
  BY <1>6, TimeOutKeeps
<1>7. CASE UNCHANGED vars
  BY <1>7 DEF vars, BudgetInv, BudgetTypeOK, OnBudget, RetriesPermitted, NoNeedlessViolation,
              Accepted, Due, Delay, MayRetry
<1> QED
  BY <1>1, <1>2, <1>3, <1>4, <1>5, <1>6, <1>7 DEF Next

\* At every moment a failing activity is where the sum of its delays and intervals
\* puts it.
THEOREM BudgetInvariant == Spec => []BudgetInv
<1>1. Init => BudgetInv
  BY InitBudgetInv
<1>2. BudgetInv /\ [Next]_vars => BudgetInv'
  BY NextKeepsBudgetInv
<1> QED
  BY <1>1, <1>2, PTL DEF Spec

\* Requirement 15: for every call, every number of retries and every mixture of
\* crashes and errors known within their detection delay, an activity that passed the
\* policies is retried as often as they promise before it times out.
THEOREM AcceptedIsRetried == Spec => []RetriesPermitted
<1>1. BudgetInv => RetriesPermitted
  BY DEF BudgetInv
<1> QED
  BY <1>1, BudgetInvariant, PTL

\* Requirement 16: a budget that is warned about lets no activity get so far if each
\* of its failures takes all of the detection delay; the sum is exact.
THEOREM WarnedWouldNotBeRetried == Spec => []NoNeedlessViolation
<1>1. BudgetInv => NoNeedlessViolation
  BY DEF BudgetInv
<1> QED
  BY <1>1, BudgetInvariant, PTL

-----------------------------------------------------------------------------
(* The twins: a call of Python's as Go has it.                             *)

\* A field of the retry policy that Go finds zero is one for which Python takes the
\* default, and with 0 for a missing one the record is a retry policy of Go's.
LEMMA GoCallType ==
  ASSUME NEW c \in PyCall
  PROVE  /\ GoCall(c) \in Call
         /\ GoCall(c).local = c.is_local
         /\ GoCall(c).ScheduleToClose = OrZero(c.schedule_to_close)
         /\ GoCall(c).StartToClose = OrZero(c.start_to_close)
         /\ GoCall(c).Heartbeat = OrZero(c.heartbeat)
         /\ GoCall(c).RetryPolicy.MaximumAttempts \in Nat
         /\ GoCall(c).RetryPolicy.InitialInterval \in Nat
         /\ GoCall(c).RetryPolicy.MaximumInterval \in Nat
         /\ \A default \in Nat :
              /\ OrDefault(GoCall(c).RetryPolicy.InitialInterval, default)
                   = RetryField(c.retry_policy, "initial_interval", default)
              /\ OrDefault(GoCall(c).RetryPolicy.BackoffCoefficient, default)
                   = RetryField(c.retry_policy, "backoff_coefficient", default)
              /\ OrDefault(GoCall(c).RetryPolicy.MaximumInterval, default)
                   = RetryField(c.retry_policy, "maximum_interval", default)
              /\ OrDefault(GoCall(c).RetryPolicy.MaximumAttempts, default)
                   = RetryField(c.retry_policy, "maximum_attempts", default)
<1> DEFINE field(f) == IF c.retry_policy = None THEN 0 ELSE OrZero(c.retry_policy[f])
           Fields == {"initial_interval", "backoff_coefficient", "maximum_interval",
                      "maximum_attempts"}
<1>1. /\ c.is_local \in BOOLEAN /\ c.schedule_to_close \in Nat \cup {None}
      /\ c.start_to_close \in Nat \cup {None} /\ c.heartbeat \in Nat \cup {None}
  BY DEF PyCall, Optional, Timedelta
<1>2. \A x \in Nat \cup {None} : OrZero(x) \in Nat
  BY DEF OrZero
<1>3. ASSUME c.retry_policy # None, NEW f \in Fields
      PROVE  c.retry_policy[f] \in Nat \cup {None}
  BY <1>3 DEF PyCall, PyRetryPolicy, Optional, Timedelta
<1>4. \A f \in Fields : field(f) \in Nat
  BY <1>2, <1>3
<1>5. ASSUME NEW f \in Fields, NEW default \in Nat
      PROVE  OrDefault(field(f), default) = RetryField(c.retry_policy, f, default)
  BY <1>3, NoneAssumption DEF OrDefault, RetryField, Positive, OrZero
<1>6. GoCall(c) =
        [local |-> c.is_local, ScheduleToClose |-> OrZero(c.schedule_to_close),
         StartToClose |-> OrZero(c.start_to_close), Heartbeat |-> OrZero(c.heartbeat),
         RetryPolicy |-> [InitialInterval |-> field("initial_interval"),
                          BackoffCoefficient |-> field("backoff_coefficient"),
                          MaximumInterval |-> field("maximum_interval"),
                          MaximumAttempts |-> field("maximum_attempts")]]
  BY DEF GoCall
<1> HIDE DEF field
<1>7. GoCall(c).RetryPolicy \in RetryPolicy
  BY <1>4, <1>6 DEF RetryPolicy
<1>8. GoCall(c) \in Call
  <2> DEFINE schedule == OrZero(c.schedule_to_close)
             start == OrZero(c.start_to_close)
             beat == OrZero(c.heartbeat)
             rp == GoCall(c).RetryPolicy
  <2>1. schedule \in Nat /\ start \in Nat /\ beat \in Nat /\ rp \in RetryPolicy
    BY <1>1, <1>2, <1>7, Zenon
  <2>2. GoCall(c) = [local |-> c.is_local, ScheduleToClose |-> schedule, StartToClose |-> start,
                     Heartbeat |-> beat, RetryPolicy |-> rp]
    BY <1>6
  <2> HIDE DEF schedule, start, beat, rp
  <2> QED
    BY <1>1, <2>1, <2>2 DEF Call
<1> QED
  BY <1>4, <1>5, <1>6, <1>8

\* What is at most y after a multiplication by p was at most y / p.
LEMMA QuotientBound ==
  ASSUME NEW x \in Nat, NEW y \in Nat, NEW p \in Nat \ {0}, x * p <= y
  PROVE  x <= y \div p
<1> DEFINE q == y \div p
<1>1. q \in Nat /\ y < (q + 1) * p
  BY Z3
<1> HIDE DEF q
<1>2. ASSUME x >= q + 1
      PROVE  FALSE
  <2>1. x * p >= (q + 1) * p
    BY <1>1, <1>2
  <2> QED
    BY <1>1, <2>1
<1> QED
  BY <1>1, <1>2 DEF q

\* The nearest microsecond and the nanosecond below are less than a microsecond apart.
LEMMA NearestIsNear ==
  ASSUME NEW num \in Nat, NEW den \in Nat \ {0}
  PROVE  /\ NearestMicrosecond(num, den) \in Nat
         /\ NearestMicrosecond(num, den) <= num \div den + Microsecond
         /\ num \div den <= NearestMicrosecond(num, den) + Microsecond
<1> DEFINE M == Microsecond
           unit == den * M
           low == num \div unit
           T == num \div den
           N == NearestMicrosecond(num, den)
<1>1. M \in Nat \ {0}
  BY MicrosecondAssumption
<1>2. N \in {M * low, M * (low + 1)}
  BY DEF NearestMicrosecond
<1> HIDE DEF M, N
<1>3. unit \in Nat \ {0}
  BY <1>1
<1>4. low \in Nat /\ low * unit <= num /\ num < (low + 1) * unit
  <2> HIDE DEF unit
  <2> QED
    BY <1>3, Z3
<1>5. T \in Nat /\ T * den <= num
  BY Z3
<1>6. low * unit = (M * low) * den /\ (low + 1) * unit = (M * low + M) * den
  BY <1>1, <1>4
<1>7. M * low \in Nat /\ M * (low + 1) = M * low + M
  BY <1>1, <1>4
<1>8. M * low <= T
  <2> HIDE DEF low, unit
  <2> QED
    BY <1>4, <1>6, <1>7, QuotientBound
<1>9. T < M * low + M
  <2> DEFINE L == M * low + M
  <2>1. L \in Nat /\ num < L * den
    BY <1>1, <1>4, <1>6, <1>7
  <2> HIDE DEF L, T
  <2>2. ASSUME T >= L
        PROVE  FALSE
    <3>1. T * den >= L * den
      BY <1>5, <2>1, <2>2
    <3> QED
      BY <1>5, <2>1, <3>1
  <2> QED
    BY <1>5, <2>1, <2>2 DEF L
<1> DEFINE L == M * low
<1> HIDE DEF L, T, low
<1>10. /\ L \in Nat /\ N \in {L, L + M} /\ L <= T /\ T < L + M
  BY <1>2, <1>7, <1>8, <1>9 DEF L
<1> QED
  BY <1>1, <1>5, <1>10 DEF N, M, T

\* x and y are n microseconds apart, at most.
Near(x, y, n) == x <= y + n * Microsecond /\ y <= x + n * Microsecond

\* Python's interval is the documented one, to the microsecond; exactly, with a whole
\* coefficient.
LEMMA PyIntervalIsNear ==
  ASSUME NEW c \in PyCall, NEW n \in Nat \ {0}
  PROVE  /\ _retry_interval(n, c.retry_policy) \in Nat
         /\ Near(_retry_interval(n, c.retry_policy), Interval(n, GoCall(c).RetryPolicy), 1)
         /\ RetryField(c.retry_policy, "backoff_coefficient", 20) % 10 = 0 =>
              _retry_interval(n, c.retry_policy) = Interval(n, GoCall(c).RetryPolicy)
<1> DEFINE rp == GoCall(c).RetryPolicy
           initial == RetryField(c.retry_policy, "initial_interval", Second)
           backoff == RetryField(c.retry_policy, "backoff_coefficient", 20)
           maximum == RetryField(c.retry_policy, "maximum_interval", 100 * initial)
           pyScaled == PyGrow(initial, backoff, n - 1)
           scaled == Grow(initial, backoff, n - 1)
<1>1. InitialInterval(rp) = initial /\ initial \in Nat /\ 100 * initial \in Nat
  <2>1. OrDefault(rp.InitialInterval, Second) = initial
    <3>1. \A default \in Nat : OrDefault(rp.InitialInterval, default)
                                = RetryField(c.retry_policy, "initial_interval", default)
      BY GoCallType
    <3> HIDE DEF rp
    <3> QED
      BY <3>1, DurationAssumption
  <2>2. InitialInterval(rp) = initial
    BY <2>1 DEF InitialInterval, defaultRetryInitialInterval
  <2>3. rp \in RetryPolicy
    BY GoCallType DEF Call
  <2> QED
    BY <2>2, <2>3, CeilingType DEF defaultMaxIntervalMultiplier
<1>2. /\ OrDefault(rp.BackoffCoefficient, 20) = backoff
      /\ OrDefault(rp.MaximumInterval, 100 * initial) = maximum
  BY <1>1, GoCallType
<1>3. backoff \in Nat /\ maximum \in Nat
  <2>1. rp.BackoffCoefficient \in Nat /\ rp.MaximumInterval \in Int
    BY GoCallType DEF Call, RetryPolicy
  <2> HIDE DEF rp, backoff, maximum, initial
  <2> QED
    BY <1>1, <1>2, <2>1 DEF OrDefault
<1>4. Interval(n, rp) = IF scaled > maximum THEN maximum ELSE scaled
  BY <1>1, <1>2 DEF Interval, Scaled, defaultRetryBackoffCoefficient,
                    defaultMaxIntervalMultiplier
<1>5. _retry_interval(n, c.retry_policy) = IF pyScaled > maximum THEN maximum ELSE pyScaled
  BY DEF _retry_interval
<1> HIDE DEF rp, initial, backoff, maximum
<1>6. /\ pyScaled \in Nat /\ scaled \in Nat
      /\ pyScaled <= scaled + Microsecond /\ scaled <= pyScaled + Microsecond
      /\ backoff % 10 = 0 => pyScaled = scaled
  <2> DEFINE k == n - 1
  <2>1. k \in Nat
    OBVIOUS
  <2> HIDE DEF k
  <2>2. Grow(initial, backoff, k) \in Nat
    BY <1>1, <1>3, <2>1, GrowType
  <2>3. CASE backoff % 10 = 0
    <3>1. PyGrow(initial, backoff, k) = Grow(initial, backoff, k)
      BY <2>3 DEF PyGrow, Grow
    <3> QED
      BY <2>2, <3>1, MicrosecondAssumption DEF k
  <2>4. CASE backoff % 10 # 0
    <3> DEFINE num == initial * Power(backoff, k)
               den == Power(10, k)
    <3>1. den \in Nat \ {0} /\ Power(backoff, k) \in Nat
      <4>1. \A j \in Nat : Power(10, j) \in Nat \ {0}
        BY PowerPositive
      <4>2. \A j \in Nat : Power(backoff, j) \in Nat
        BY <1>3, PowerRecurrence
      <4> QED
        BY <2>1, <4>1, <4>2
    <3>2. num \in Nat
      BY <1>1, <3>1
    <3>3. PyGrow(initial, backoff, k) = NearestMicrosecond(num, den)
          /\ Grow(initial, backoff, k) = num \div den
      BY <2>4 DEF PyGrow, Grow
    <3> HIDE DEF num, den
    <3> QED
      BY <2>2, <2>4, <3>1, <3>2, <3>3, NearestIsNear DEF k
  <2> QED
    BY <2>3, <2>4
<1> HIDE DEF pyScaled, scaled
<1> QED
  BY <1>3, <1>4, <1>5, <1>6, MicrosecondAssumption DEF Near, rp, backoff

\* And so is its sum, a microsecond per retry.
LEMMA PyMinScheduleToCloseIsNear ==
  ASSUME NEW c \in PyCall, NEW detect \in Nat, NEW n \in Nat
  PROVE  LET sum == _min_schedule_to_close(detect, c.retry_policy, n)
             due == n * detect + Waits(GoCall(c).RetryPolicy)[n]
         IN  /\ sum \in Nat /\ due \in Nat
             /\ Near(sum, due, n)
             /\ RetryField(c.retry_policy, "backoff_coefficient", 20) % 10 = 0 => sum = due
<1> DEFINE rp == GoCall(c).RetryPolicy
           a == detect * n
           wait(i) == _retry_interval(i, c.retry_policy)
           Body(f) == [i \in Nat |-> IF i = 0 THEN detect * n
                                     ELSE f[i - 1] + _retry_interval(i, c.retry_policy)]
           g == [p \in Nat \X Nat |->
                   IF p[1] = 0 THEN 0 ELSE p[2] + _retry_interval(p[1], c.retry_policy)]
           S == CHOOSE h : h = Body(h)
           Whole == RetryField(c.retry_policy, "backoff_coefficient", 20) % 10 = 0
<1>1. a \in Nat /\ a = n * detect
  OBVIOUS
<1>2. rp \in RetryPolicy
  BY GoCallType DEF Call
<1>3. \A i \in Nat \ {0} : /\ wait(i) \in Nat
                           /\ Near(wait(i), Interval(i, rp), 1)
                           /\ Whole => wait(i) = Interval(i, rp)
  BY PyIntervalIsNear
<1>4. g \in [Nat \X Nat -> Nat]
  <2>1. ASSUME NEW p \in Nat \X Nat
        PROVE  (IF p[1] = 0 THEN 0 ELSE p[2] + _retry_interval(p[1], c.retry_policy)) \in Nat
    <3>1. p[1] \in Nat /\ p[2] \in Nat
      OBVIOUS
    <3>2. p[1] # 0 => p[2] + _retry_interval(p[1], c.retry_policy) \in Nat
      BY <1>3, <3>1
    <3> QED
      BY <3>2
  <2> QED
    BY <2>1
<1>5. \A i \in Nat \ {0}, x \in Nat : g[<<i, x>>] = x + _retry_interval(i, c.retry_policy)
  OBVIOUS
<1> HIDE DEF g, a
<1>6. PICK f : IsRecursion(f, Nat, g, a)
  BY <1>1, <1>4, RecursiveFunctionExists DEF HasRecursion
<1>7. f = Body(f)
  <2>1. ASSUME NEW i \in Nat
        PROVE  f[i] = IF i = 0 THEN a ELSE f[i - 1] + _retry_interval(i, c.retry_policy)
    <3>1. CASE i = 0
      BY <1>6, <3>1 DEF IsRecursion
    <3>2. CASE i # 0
      <4>1. i \in Nat \ {0} /\ i - 1 \in Nat /\ f[i - 1] \in Nat
        BY <1>6, <3>2 DEF IsRecursion
      <4> QED
        BY <1>5, <1>6, <3>2, <4>1 DEF IsRecursion
    <3> QED
      BY <3>1, <3>2
  <2> QED
    BY <1>6, <2>1 DEF IsRecursion, a
<1> HIDE DEF Body
<1>8. S = Body(S)
  BY <1>7, Zenon
<1>9. _min_schedule_to_close(detect, c.retry_policy, n) = S[n]
  BY DEF _min_schedule_to_close, Body
<1> HIDE DEF S
<1>10. S[0] = a /\ \A i \in Nat : S[i + 1] = S[i] + wait(i + 1)
  BY <1>8 DEF Body, a
<1> HIDE DEF rp, wait, Whole
<1> DEFINE W == Waits(rp)
           T == {i \in Nat : /\ S[i] \in Nat
                             /\ Near(S[i], a + W[i], i)
                             /\ Whole => S[i] = a + W[i]}
<1>11. W[0] = 0 /\ \A i \in Nat : /\ W[i] \in Nat /\ W[i + 1] = W[i] + Interval(i + 1, rp)
                                 /\ Interval(i + 1, rp) \in Nat
  BY <1>2, WaitsRecurrence, IntervalType
<1> HIDE DEF W
<1>12. 0 \in T
  BY <1>1, <1>10, <1>11, MicrosecondAssumption DEF Near
<1>13. ASSUME NEW i \in Nat, i \in T
       PROVE  i + 1 \in T
  <2> DEFINE x == S[i]
             y == W[i]
             p == wait(i + 1)
             q == Interval(i + 1, rp)
             m == i * Microsecond
  <2>1. /\ x \in Nat /\ y \in Nat /\ p \in Nat /\ q \in Nat /\ m \in Nat
        /\ Near(x, a + y, i) /\ (Whole => x = a + y)
        /\ Near(p, q, 1) /\ (Whole => p = q)
    BY <1>3, <1>11, <1>13, MicrosecondAssumption
  <2>2. S[i + 1] = x + p /\ W[i + 1] = y + q
    BY <1>10, <1>11
  <2>3. (i + 1) * Microsecond = m + Microsecond
    BY MicrosecondAssumption
  <2>4. x <= (a + y) + m /\ a + y <= x + m /\ p <= q + Microsecond /\ q <= p + Microsecond
    BY <2>1, MicrosecondAssumption DEF Near
  <2> HIDE DEF x, y, p, q, m
  <2>5. x + p \in Nat /\ (Whole => x + p = a + (y + q))
        /\ x + p <= (a + (y + q)) + (m + Microsecond)
        /\ a + (y + q) <= (x + p) + (m + Microsecond)
    BY <1>1, <2>1, <2>4, MicrosecondAssumption
  <2>6. Near(x + p, a + (y + q), i + 1)
    BY <2>3, <2>5 DEF Near
  <2> QED
    BY <2>2, <2>5, <2>6
<1> HIDE DEF T
<1>14. \A i \in Nat : i \in T
  BY <1>12, <1>13, SetInduction
<1>15. n * detect + W[n] = a + W[n] /\ a + W[n] \in Nat
  <2> DEFINE w == W[n]
  <2>1. w \in Nat
    BY <1>11
  <2> HIDE DEF w
  <2>2. n * detect + w = a + w /\ a + w \in Nat
    BY <1>1, <2>1
  <2> QED
    BY <2>2 DEF w
<1> QED
  BY <1>9, <1>14, <1>15 DEF T, W, rp, Whole

LEMMA HeartbeatIsTimedelta == defaultHeartbeatTimeout \in Timedelta
<1> DEFINE M == Microsecond
           q == Second \div M
<1>1. M \in Nat \ {0} /\ Second \in Nat /\ Second % M = 0
  BY MicrosecondAssumption, DurationAssumption
<1> HIDE DEF M
<1>2. q \in Nat /\ Second = M * q
  BY <1>1, Z3
<1> HIDE DEF q
<1>3. 30 * Second = M * (30 * q) /\ 30 * q \in Nat
  BY <1>1, <1>2
<1> DEFINE r == 30 * q
<1> HIDE DEF r
<1>4. M * r \in Nat /\ (M * r) % M = 0
  <2> DEFINE x == M * r
             e == x \div M
             d == x % M
  <2>1. r \in Nat /\ x \in Nat
    BY <1>1, <1>3 DEF r
  <2>2. e \in Nat /\ d \in Nat /\ x = M * e + d /\ d < M
    <3> HIDE DEF x
    <3> QED
      BY <1>1, <2>1, Z3
  <2> HIDE DEF e, d
  <2>3. M * (r - e) = d
    BY <1>1, <2>1, <2>2
  <2>4. ASSUME r > e
        PROVE  M * (r - e) >= M
    BY <1>1, <2>1, <2>2, <2>4
  <2>5. ASSUME r < e
        PROVE  M * (r - e) <= -M
    BY <1>1, <2>1, <2>2, <2>5
  <2>6. r = e
    BY <1>1, <2>1, <2>2, <2>3, <2>4, <2>5
  <2>7. d = 0
    BY <1>1, <2>1, <2>3, <2>6
  <2> QED
    BY <2>1, <2>7 DEF d
<1> QED
  BY <1>3, <1>4 DEF Timedelta, defaultHeartbeatTimeout, M, r

\* But for an explicit zero, the default heartbeat is applied to the same calls.
LEMMA DefaultsAgree ==
  ASSUME written \in PyCalls, ~ExplicitZeroOnly
  PROVE  /\ PyWithDefaultHeartbeat(written) \in PyCall
         /\ WithDefaultHeartbeat(GoCall(written)) = GoCall(PyWithDefaultHeartbeat(written))
<1> DEFINE c == PyWithDefaultHeartbeat(written)
<1>1. written \in PyCall
  BY TwinsAssumption
<1>2. CASE ~written.is_local /\ written.heartbeat = None /\ written.start_to_close = None
  <2>1. c = [written EXCEPT !.heartbeat = defaultHeartbeatTimeout]
    BY <1>2 DEF PyWithDefaultHeartbeat
  <2>2. c \in PyCall
    BY <1>1, <2>1, HeartbeatIsTimedelta DEF PyCall, Optional
  <2>3. /\ c.is_local = written.is_local /\ c.schedule_to_close = written.schedule_to_close
        /\ c.start_to_close = written.start_to_close /\ c.retry_policy = written.retry_policy
        /\ c.heartbeat = defaultHeartbeatTimeout
    BY <1>1, <2>1 DEF PyCall
  <2>4. OrZero(c.heartbeat) = defaultHeartbeatTimeout
    BY <2>3, NoneAssumption, HeartbeatIsTimedelta DEF OrZero, Timedelta
  <2>5. GoCall(c) = [GoCall(written) EXCEPT !.Heartbeat = defaultHeartbeatTimeout]
    BY <2>3, <2>4 DEF GoCall
  <2>6. ~GoCall(written).local /\ GoCall(written).Heartbeat = 0 /\ GoCall(written).StartToClose = 0
    BY <1>1, <1>2, GoCallType DEF OrZero
  <2>7. WithDefaultHeartbeat(GoCall(written))
          = [GoCall(written) EXCEPT !.Heartbeat = defaultHeartbeatTimeout]
    BY <2>6, Zenon DEF WithDefaultHeartbeat
  <2> QED
    BY <2>2, <2>5, <2>7
<1>3. CASE ~(~written.is_local /\ written.heartbeat = None /\ written.start_to_close = None)
  <2>1. c = written
    BY <1>3, Zenon DEF PyWithDefaultHeartbeat
  <2>2. \/ written.is_local
        \/ OrZero(written.heartbeat) # 0 \/ OrZero(written.start_to_close) # 0
    BY <1>3, NoneAssumption DEF ExplicitZeroOnly, Positive, OrZero
  <2>3. ~(~GoCall(written).local /\ GoCall(written).Heartbeat = 0
            /\ GoCall(written).StartToClose = 0)
    BY <1>1, <2>2, GoCallType
  <2>4. WithDefaultHeartbeat(GoCall(written)) = GoCall(written)
    BY <2>3, Zenon DEF WithDefaultHeartbeat
  <2> QED
    BY <1>1, <2>1, <2>4
<1> QED
  BY <1>2, <1>3

\* Each policy asks the same of a call in both languages, unless rounding may decide.
LEMMA ViolationsAgree ==
  ASSUME NEW c \in PyCall, NEW n \in Nat, FitsDuration(GoCall(c), n),
         ~RoundingMayDecide(c, n)
  PROVE  Violated(GoCall(c), n) = _evaluate_policies(c, n)
<1> DEFINE gc == GoCall(c)
           detect == detectionDelay(gc.Heartbeat, gc.StartToClose)
           pyDetect == _detection_delay(c.heartbeat, c.start_to_close)
<1>1. /\ c.is_local \in BOOLEAN /\ c.schedule_to_close \in Nat \cup {None}
      /\ c.start_to_close \in Nat \cup {None} /\ c.heartbeat \in Nat \cup {None}
  BY DEF PyCall, Optional, Timedelta
<1>2. /\ gc.local = c.is_local
      /\ gc.ScheduleToClose = OrZero(c.schedule_to_close)
      /\ gc.StartToClose = OrZero(c.start_to_close)
      /\ gc.Heartbeat = OrZero(c.heartbeat)
      /\ gc.RetryPolicy \in RetryPolicy
  BY GoCallType DEF Call
<1> HIDE DEF gc
<1>3. /\ IF Positive(c.schedule_to_close)
         THEN gc.ScheduleToClose = c.schedule_to_close /\ c.schedule_to_close \in Nat \ {0}
         ELSE gc.ScheduleToClose = 0
      /\ IF Positive(c.start_to_close)
         THEN gc.StartToClose = c.start_to_close /\ c.start_to_close \in Nat \ {0}
         ELSE gc.StartToClose = 0
      /\ IF Positive(c.heartbeat)
         THEN gc.Heartbeat = c.heartbeat /\ c.heartbeat \in Nat \ {0}
         ELSE gc.Heartbeat = 0
  <2>1. ASSUME NEW x \in Nat \cup {None}
        PROVE  IF Positive(x) THEN OrZero(x) = x /\ x \in Nat \ {0} ELSE OrZero(x) = 0
    BY NoneAssumption DEF OrZero, Positive
  <2> QED
    BY <1>1, <1>2, <2>1
<1>4. detect \in Nat /\ (pyDetect # None <=> detect > 0) /\ (detect > 0 => pyDetect = detect)
  BY <1>3, NoneAssumption DEF detectionDelay, _detection_delay
<1>5. (gc.ScheduleToClose <= 0) <=> _is_unset_or_zero(c.schedule_to_close)
  BY <1>3 DEF _is_unset_or_zero
<1>6. AttemptsTooFew(gc) <=> RetryField(c.retry_policy, "maximum_attempts", 0) \in 1..2
  <2>1. gc.RetryPolicy.MaximumAttempts \in Nat
        /\ OrDefault(gc.RetryPolicy.MaximumAttempts, 0)
             = RetryField(c.retry_policy, "maximum_attempts", 0)
    BY GoCallType DEF gc
  <2>2. OrDefault(gc.RetryPolicy.MaximumAttempts, 0) = gc.RetryPolicy.MaximumAttempts
    BY <2>1 DEF OrDefault
  <2> QED
    BY <2>1, <2>2 DEF AttemptsTooFew
<1>7. LocalTooLong(gc) <=>
        /\ c.is_local
        /\ _is_unset_or_zero(c.start_to_close) \/ c.start_to_close >= 10 * Second
  <2> DEFINE start == gc.StartToClose
             pyStart == c.start_to_close
  <2>1. gc.local <=> c.is_local
    BY <1>2
  <2>2. IF Positive(pyStart) THEN start = pyStart /\ pyStart \in Nat \ {0} ELSE start = 0
    BY <1>3
  <2> HIDE DEF start, pyStart
  <2>3. ~(start \in 1..(localActivityMaxStartToClose - 1)) <=> ~Positive(pyStart) \/ pyStart >= 10 * Second
    <3>1. CASE Positive(pyStart)
      <4>1. start = pyStart /\ pyStart \in Nat \ {0}
        BY <2>2, <3>1
      <4>2. localActivityMaxStartToClose = 10 * Second /\ 10 * Second \in Nat
        BY DurationAssumption DEF localActivityMaxStartToClose
      <4> QED
        BY <3>1, <4>1, <4>2
    <3>2. CASE ~Positive(pyStart)
      BY <2>2, <3>2, DurationAssumption DEF localActivityMaxStartToClose
    <3> QED
      BY <3>1, <3>2
  <2>4. LocalTooLong(gc) <=> gc.local /\ ~(start \in 1..(localActivityMaxStartToClose - 1))
    BY DEF LocalTooLong, start
  <2>5. ~Positive(pyStart) <=> _is_unset_or_zero(c.start_to_close)
    BY DEF _is_unset_or_zero, pyStart
  <2> QED
    BY <2>1, <2>3, <2>4, <2>5 DEF pyStart
<1> DEFINE Whole == RetryField(c.retry_policy, "backoff_coefficient", 20) % 10 = 0
           due == n * detect + Waits(gc.RetryPolicy)[n]
           sum == _min_schedule_to_close(detect, c.retry_policy, n)
<1>8. detect > 0 => minScheduleToClose(detect, gc.RetryPolicy, n) = due
  <2>1. /\ defaultMaxIntervalMultiplier * InitialInterval(gc.RetryPolicy) < HalfWord
        /\ n * (detect + Ceiling(gc.RetryPolicy)) < HalfWord
    BY DEF FitsDuration, Ceiling, gc
  <2> QED
    BY <1>2, <1>4, <2>1, MinScheduleToCloseIsDue
<1>8a. sum \in Nat /\ due \in Nat /\ Near(sum, due, n) /\ (Whole => sum = due)
  BY <1>4, PyMinScheduleToCloseIsNear DEF gc
<1> DEFINE budget == gc.ScheduleToClose
<1>8b. budget > 0 /\ detect > 0 => (budget < due <=> budget < sum)
  <2>1. SUFFICES ASSUME budget > 0, detect > 0, ~Whole
                 PROVE  budget < due <=> budget < sum
    BY <1>8a
  <2>2. Positive(c.schedule_to_close) /\ budget = c.schedule_to_close /\ budget \in Nat
        /\ pyDetect = detect /\ pyDetect # None
    BY <1>3, <1>4, <2>1
  <2>3. budget - sum \notin -(n * Microsecond)..(n * Microsecond)
    BY <2>1, <2>2 DEF RoundingMayDecide
  <2> HIDE DEF budget, sum, due, Whole
  <2>4. n * Microsecond \in Nat
    BY MicrosecondAssumption
  <2>5. budget - sum > n * Microsecond \/ budget - sum < -(n * Microsecond)
    BY <1>8a, <2>2, <2>3, <2>4
  <2>6. sum <= due + n * Microsecond /\ due <= sum + n * Microsecond
    BY <1>8a DEF Near
  <2> QED
    BY <1>8a, <2>2, <2>4, <2>5, <2>6
<1> HIDE DEF budget, sum, due, Whole
<1>9. BudgetTooShort(gc, n) <=> PyBudgetTooShort(c, n)
  <2>1. Positive(c.schedule_to_close) <=> budget > 0
    BY <1>3 DEF budget
  <2>2. budget > 0 => budget = c.schedule_to_close
    BY <1>3 DEF budget
  <2>3. BudgetTooShort(gc, n) <=>
          /\ n > 0 /\ budget > 0 /\ detect > 0
          /\ budget < minScheduleToClose(detect, gc.RetryPolicy, n)
    BY DEF BudgetTooShort, budget
  <2>4. PyBudgetTooShort(c, n) <=>
          /\ n > 0 /\ Positive(c.schedule_to_close) /\ pyDetect # None
          /\ c.schedule_to_close < _min_schedule_to_close(pyDetect, c.retry_policy, n)
    BY DEF PyBudgetTooShort
  <2>5. detect > 0 => _min_schedule_to_close(pyDetect, c.retry_policy, n) = sum
    BY <1>4 DEF sum
  <2> HIDE DEF detect, pyDetect
  <2> QED
    BY <1>4, <1>8, <1>8b, <2>1, <2>2, <2>3, <2>4, <2>5
<1>10. \A p \in Policies : Violates(gc, p, n) <=> PyViolates(c, p, n)
  BY <1>5, <1>6, <1>7, <1>9 DEF Violates, PyViolates
<1> QED
  BY <1>10 DEF gc, Violated, _evaluate_policies

\* What each interceptor makes of a call that it has been given.
GoResult ==
  LET c == WithDefaultHeartbeat(GoCall(written)) IN Result(Violated(c, target), c.Heartbeat)

PyResult ==
  LET c == PyWithDefaultHeartbeat(written)
  IN  Result(_evaluate_policies(c, target), OrZero(c.heartbeat))

LEMMA ResultsAgree ==
  ASSUME written \in PyCalls, target \in Targets, ~ExplicitZeroOnly,
         ~RoundingMayDecide(PyWithDefaultHeartbeat(written), target)
  PROVE  GoResult = PyResult
<1> DEFINE c == PyWithDefaultHeartbeat(written)
<1>1. c \in PyCall /\ WithDefaultHeartbeat(GoCall(written)) = GoCall(c)
  BY DefaultsAgree
<1>2. target \in Nat /\ FitsDuration(WithDefaultHeartbeat(GoCall(written)), target)
  BY TwinsAssumption
<1>3. Violated(GoCall(c), target) = _evaluate_policies(c, target)
  BY <1>1, <1>2, ViolationsAgree
<1>4. GoCall(c).Heartbeat = OrZero(c.heartbeat)
  BY <1>1, GoCallType
<1> QED
  BY <1>1, <1>3, <1>4 DEF GoResult, PyResult

\* The options are fixed and a verdict, once given, stays.
TwinsInv ==
  /\ written \in PyCalls /\ target \in Targets
  /\ go \in {Pending, GoResult}
  /\ py \in {Pending, PyResult}

LEMMA TwinsInvariant == TwinsSpec => []TwinsInv
<1>1. TwinsInit => TwinsInv
  BY DEF TwinsInit, TwinsInv
<1>2. TwinsInv /\ [TwinsNext]_twinVars => TwinsInv'
  <2> SUFFICES ASSUME TwinsInv, [TwinsNext]_twinVars
               PROVE  TwinsInv'
    OBVIOUS
  <2>1. UNCHANGED <<written, severities, target>> => GoResult' = GoResult /\ PyResult' = PyResult
    BY DEF GoResult, PyResult, Result
  <2>2. CASE GoSchedule
    <3>1. go' = GoResult /\ UNCHANGED <<written, severities, target, py>>
      BY <2>2 DEF GoSchedule, GoResult
    <3> QED
      BY <2>1, <3>1 DEF TwinsInv
  <2>3. CASE PySchedule
    <3>1. py' = PyResult /\ UNCHANGED <<written, severities, target, go>>
      BY <2>3 DEF PySchedule, PyResult
    <3> QED
      BY <2>1, <3>1 DEF TwinsInv
  <2>4. CASE UNCHANGED twinVars
    BY <2>1, <2>4 DEF twinVars, TwinsInv
  <2> QED
    BY <2>2, <2>3, <2>4 DEF TwinsNext
<1> QED
  BY <1>1, <1>2, PTL DEF TwinsSpec

\* A Go workflow and its Python twin get the same verdict, the same log entries and the
\* same heartbeat timeout, for every call without an explicit zero, every map of
\* severities and every number of retries; with a fractional coefficient, for every
\* budget further than a microsecond per retry from what Python asks for.
THEOREM TwinsAlwaysAgree == TwinsSpec => []TwinsAgree
<1>1. TwinsInv => TwinsAgree
  BY ResultsAgree DEF TwinsInv, TwinsAgree
<1> QED
  BY <1>1, TwinsInvariant, PTL

-----------------------------------------------------------------------------
(* The Rust model's reading of requirement 16.                             *)

LEMMA GrownIntervalRecurrence ==
  ASSUME NEW c \in Timeline!Config
  PROVE  /\ Timeline!GrownInterval(c)[0] = c.initialInterval
         /\ \A k \in Nat : /\ Timeline!GrownInterval(c)[k] \in Nat
                           /\ Timeline!GrownInterval(c)[k + 1]
                                = Timeline!NextInterval(c, Timeline!GrownInterval(c)[k])
<1> DEFINE a == c.initialInterval
           Body(f) == [k \in Nat |-> IF k = 0 THEN c.initialInterval
                                     ELSE Timeline!NextInterval(c, f[k - 1])]
           g == [p \in Nat \X Nat |-> Timeline!NextInterval(c, p[2])]
           G == Timeline!GrownInterval(c)
<1>1. a \in Nat
  BY DEF Timeline!Config
<1>2. \A x \in Nat : Timeline!NextInterval(c, x) \in Nat
  <2>1. c.coefficient \in Nat /\ Timeline!MaxInterval(c) \in Nat
    BY DEF Timeline!Config, Timeline!MaxInterval
  <2>2. \A x \in Nat : x * c.coefficient \in Nat
    BY <2>1
  <2>3. \A y \in Nat : y \div 10 \in Nat
    OBVIOUS
  <2> QED
    BY <2>1, <2>2, <2>3 DEF Timeline!NextInterval
<1>3. g \in [Nat \X Nat -> Nat]
  BY <1>2
<1>4. \A k \in Nat, x \in Nat : g[<<k, x>>] = Timeline!NextInterval(c, x)
  OBVIOUS
<1> HIDE DEF g, a
<1>5. PICK f : IsRecursion(f, Nat, g, a)
  BY <1>1, <1>3, RecursiveFunctionExists DEF HasRecursion
<1>6. f = Body(f)
  <2>1. ASSUME NEW k \in Nat
        PROVE  f[k] = IF k = 0 THEN a ELSE Timeline!NextInterval(c, f[k - 1])
    <3>1. CASE k = 0
      BY <1>5, <3>1 DEF IsRecursion
    <3>2. CASE k # 0
      <4>1. k \in Nat \ {0} /\ k - 1 \in Nat /\ f[k - 1] \in Nat
        BY <1>5, <3>2 DEF IsRecursion
      <4> QED
        BY <1>4, <1>5, <3>2, <4>1 DEF IsRecursion
    <3> QED
      BY <3>1, <3>2
  <2> QED
    BY <1>5, <2>1 DEF IsRecursion, a
<1>7. G = CHOOSE h : h = Body(h)
  BY DEF Timeline!GrownInterval
<1> HIDE DEF Body, G
<1>8. G = Body(G)
  BY <1>6, <1>7, Zenon
<1>9. G[0] = a /\ \A k \in Nat : G[k + 1] = Timeline!NextInterval(c, G[k])
  BY <1>8 DEF Body, a
<1> DEFINE T == {k \in Nat : G[k] \in Nat}
<1>10. 0 \in T /\ \A k \in Nat : k \in T => k + 1 \in T
  BY <1>1, <1>2, <1>9
<1> HIDE DEF T
<1>11. \A k \in Nat : k \in T
  BY <1>10, SetInduction
<1> QED
  BY <1>9, <1>11 DEF T, G, a

LEMMA RustIntervalType ==
  ASSUME NEW c \in Timeline!Config, NEW n \in Nat
  PROVE  /\ Timeline!MaxInterval(c) \in Nat /\ Timeline!DetectionDelay(c) \in Nat
         /\ Timeline!RetryInterval(c, n + 1) \in Nat
<1>1. Timeline!MaxInterval(c) \in Nat /\ Timeline!DetectionDelay(c) \in Nat
  BY DEF Timeline!Config, Timeline!MaxInterval, Timeline!DetectionDelay
<1>2. Timeline!GrownInterval(c)[n] \in Nat /\ (n + 1) - 1 = n
  BY GrownIntervalRecurrence
<1> QED
  BY <1>1, <1>2 DEF Timeline!RetryInterval

LEMMA RustStartRecurrence ==
  ASSUME NEW c \in Timeline!Config
  PROVE  /\ Timeline!WorstCaseStart(c)[0] = 0
         /\ \A n \in Nat : /\ Timeline!WorstCaseStart(c)[n] \in Nat
                           /\ Timeline!WorstCaseStart(c)[n + 1]
                                = Timeline!WorstCaseStart(c)[n] + Timeline!DetectionDelay(c)
                                    + Timeline!RetryInterval(c, n + 1)
<1> DEFINE wait(n) == Timeline!DetectionDelay(c) + Timeline!RetryInterval(c, n)
           Body(f) == [n \in Nat |-> IF n = 0 THEN 0
                                     ELSE f[n - 1] + Timeline!DetectionDelay(c)
                                            + Timeline!RetryInterval(c, n)]
           g == [p \in Nat \X Nat |-> IF p[1] = 0 THEN 0 ELSE p[2] + wait(p[1])]
           W == Timeline!WorstCaseStart(c)
<1>1. \A n \in Nat \ {0} : /\ Timeline!RetryInterval(c, n) \in Nat
                           /\ Timeline!DetectionDelay(c) \in Nat /\ wait(n) \in Nat
  <2>1. ASSUME NEW n \in Nat \ {0}
        PROVE  Timeline!RetryInterval(c, n) \in Nat /\ Timeline!DetectionDelay(c) \in Nat
    <3>1. n - 1 \in Nat /\ (n - 1) + 1 = n
      OBVIOUS
    <3> QED
      BY <3>1, RustIntervalType
  <2> QED
    BY <2>1
<1>2. g \in [Nat \X Nat -> Nat]
  <2>1. ASSUME NEW p \in Nat \X Nat
        PROVE  (IF p[1] = 0 THEN 0 ELSE p[2] + wait(p[1])) \in Nat
    <3>1. p[1] \in Nat /\ p[2] \in Nat
      OBVIOUS
    <3>2. p[1] # 0 => wait(p[1]) \in Nat
      BY <1>1, <3>1
    <3> HIDE DEF wait
    <3> QED
      BY <3>1, <3>2
  <2> HIDE DEF wait
  <2> QED
    BY <2>1
<1>3. \A n \in Nat \ {0}, x \in Nat : g[<<n, x>>] = x + wait(n)
  OBVIOUS
<1> HIDE DEF g
<1>4. PICK f : IsRecursion(f, Nat, g, 0)
  BY <1>2, RecursiveFunctionExists DEF HasRecursion
<1>5. f = Body(f)
  <2>1. ASSUME NEW n \in Nat
        PROVE  f[n] = IF n = 0 THEN 0
                      ELSE f[n - 1] + Timeline!DetectionDelay(c) + Timeline!RetryInterval(c, n)
    <3>1. CASE n = 0
      BY <1>4, <3>1 DEF IsRecursion
    <3>2. CASE n # 0
      <4>1. n \in Nat \ {0} /\ n - 1 \in Nat /\ f[n - 1] \in Nat
        BY <1>4, <3>2 DEF IsRecursion
      <4>2. f[n] = f[n - 1] + wait(n)
        BY <1>3, <1>4, <4>1 DEF IsRecursion
      <4> QED
        BY <1>1, <3>2, <4>1, <4>2
    <3> QED
      BY <3>1, <3>2
  <2> QED
    BY <1>4, <2>1 DEF IsRecursion
<1>6. W = CHOOSE h : h = Body(h)
  BY DEF Timeline!WorstCaseStart
<1> HIDE DEF Body, W
<1>7. W = Body(W)
  BY <1>5, <1>6, Zenon
<1>8. W[0] = 0 /\ \A n \in Nat : W[n + 1] = W[n] + Timeline!DetectionDelay(c)
                                              + Timeline!RetryInterval(c, n + 1)
  BY <1>7 DEF Body
<1> DEFINE T == {n \in Nat : W[n] \in Nat}
<1>9. 0 \in T
  BY <1>8
<1>10. ASSUME NEW n \in Nat, n \in T
       PROVE  n + 1 \in T
  <2>1. Timeline!RetryInterval(c, n + 1) \in Nat /\ Timeline!DetectionDelay(c) \in Nat
    BY RustIntervalType
  <2> QED
    BY <1>8, <1>10, <2>1
<1> HIDE DEF T
<1>11. \A n \in Nat : n \in T
  BY <1>9, <1>10, SetInduction
<1> QED
  BY <1>8, <1>11 DEF T, W

\* One retry policy, as the interceptors and as the Rust model have it.
SamePolicy(c, rp) ==
  /\ c \in Timeline!Config /\ rp \in RetryPolicy
  /\ c.initialInterval = InitialInterval(rp)
  /\ c.maxInterval = rp.MaximumInterval
  /\ c.coefficient = OrDefault(rp.BackoffCoefficient, defaultRetryBackoffCoefficient)
  /\ c.maxInterval # 0 => c.maxInterval >= c.initialInterval
  /\ c.coefficient >= 10

LEMMA SameCeiling ==
  ASSUME NEW c, NEW rp, SamePolicy(c, rp)
  PROVE  /\ Timeline!MaxInterval(c) = Ceiling(rp)
         /\ c.initialInterval \in Nat \ {0} /\ c.coefficient \in Nat
         /\ Ceiling(rp) \in Nat /\ c.initialInterval <= Ceiling(rp)
<1>1. InitialInterval(rp) \in Nat \ {0} /\ Ceiling(rp) \in Nat
  BY CeilingType DEF SamePolicy
<1>2. c.coefficient \in Nat /\ c.maxInterval \in Nat /\ c.initialInterval = InitialInterval(rp)
      /\ c.maxInterval = rp.MaximumInterval
  BY DEF SamePolicy, Timeline!Config
<1>3. Timeline!MaxInterval(c) = Ceiling(rp)
  BY <1>2 DEF Timeline!MaxInterval, Ceiling, OrDefault, defaultMaxIntervalMultiplier
<1>4. c.initialInterval <= Ceiling(rp)
  BY <1>1, <1>2 DEF SamePolicy, Ceiling, OrDefault, defaultMaxIntervalMultiplier
<1> QED
  BY <1>1, <1>2, <1>3, <1>4

\* The Rust model's loop rounds down in every round, and so never overtakes the power.
LEMMA GrownIsLower ==
  ASSUME NEW c, NEW rp, SamePolicy(c, rp)
  PROVE  \A k \in Nat :
           /\ Timeline!GrownInterval(c)[k] \in Nat
           /\ Timeline!GrownInterval(c)[k] <= Ceiling(rp)
           /\ Timeline!GrownInterval(c)[k] * Power(10, k)
                <= c.initialInterval * Power(c.coefficient, k)
<1> DEFINE G == Timeline!GrownInterval(c)
           M == Ceiling(rp)
           a == c.initialInterval
           b == c.coefficient
<1>1. /\ a \in Nat \ {0} /\ b \in Nat /\ M \in Nat /\ a <= M
      /\ Timeline!MaxInterval(c) = M /\ c \in Timeline!Config
  BY SameCeiling DEF SamePolicy
<1>2. /\ G[0] = a
      /\ \A k \in Nat : G[k] \in Nat /\ G[k + 1] = Timeline!NextInterval(c, G[k])
  BY <1>1, GrownIntervalRecurrence
<1>3. \A k \in Nat : /\ G[k + 1] <= M
                     /\ G[k + 1] <= (G[k] * b) \div 10
  BY <1>1, <1>2 DEF Timeline!NextInterval
<1> DEFINE T == {k \in Nat : G[k] <= M /\ G[k] * Power(10, k) <= a * Power(b, k)}
<1> HIDE DEF G, M, a, b
<1>4. 0 \in T
  <2>1. Power(10, 0) = 1 /\ Power(b, 0) = 1
    BY <1>1, PowerRecurrence
  <2> QED
    BY <1>1, <1>2, <2>1
<1>5. ASSUME NEW k \in Nat, k \in T
      PROVE  k + 1 \in T
  <2> DEFINE P == Power(10, k)
             Q == Power(b, k)
             x == G[k]
             y == G[k + 1]
  <2>1. P \in Nat /\ Power(10, k + 1) = 10 * P
    BY PowerRecurrence
  <2>2. Q \in Nat /\ Power(b, k + 1) = b * Q
    BY <1>1, PowerRecurrence
  <2>3. x \in Nat /\ y \in Nat /\ y <= (x * b) \div 10 /\ x * P <= a * Q /\ y <= M
    BY <1>2, <1>3, <1>5
  <2> HIDE DEF P, Q, x, y
  <2>4. 10 * y <= x * b
    <3>1. x * b \in Nat
      BY <1>1, <2>3
    <3> QED
      BY <2>3, <3>1
  <2>5. (10 * y) * P <= (x * b) * P
    <3>1. x * b \in Nat
      BY <1>1, <2>3
    <3> QED
      BY <2>1, <2>3, <2>4, <3>1
  <2>6. (x * P) * b <= (a * Q) * b
    <3>1. x * P \in Nat /\ a * Q \in Nat
      BY <1>1, <2>1, <2>2, <2>3
    <3> QED
      BY <1>1, <2>3, <3>1
  <2>7. (10 * y) * P = y * (10 * P) /\ (x * b) * P = (x * P) * b /\ (a * Q) * b = a * (b * Q)
    BY <1>1, <2>1, <2>2, <2>3
  <2>8. y * (10 * P) \in Nat /\ (x * P) * b \in Nat /\ a * (b * Q) \in Nat
    BY <1>1, <2>1, <2>2, <2>3
  <2>9. y * (10 * P) <= a * (b * Q)
    BY <2>5, <2>6, <2>7, <2>8
  <2> QED
    BY <2>1, <2>2, <2>3, <2>9 DEF y
<1> HIDE DEF T
<1>6. \A k \in Nat : k \in T
  BY <1>4, <1>5, SetInduction
<1> QED
  BY <1>2, <1>6 DEF T, G, M, a, b

\* With a whole coefficient nothing is rounded.
LEMMA GrownIsExact ==
  ASSUME NEW c, NEW rp, SamePolicy(c, rp), c.coefficient % 10 = 0
  PROVE  \A k \in Nat : Timeline!GrownInterval(c)[k] =
           IF c.initialInterval * Power(c.coefficient \div 10, k) > Ceiling(rp) THEN Ceiling(rp)
           ELSE c.initialInterval * Power(c.coefficient \div 10, k)
<1> DEFINE G == Timeline!GrownInterval(c)
           M == Ceiling(rp)
           a == c.initialInterval
           q == c.coefficient \div 10
           X(k) == a * Power(q, k)
<1>1. /\ a \in Nat \ {0} /\ c.coefficient \in Nat /\ M \in Nat /\ a <= M
      /\ Timeline!MaxInterval(c) = M /\ c \in Timeline!Config /\ c.coefficient >= 10
  BY SameCeiling DEF SamePolicy
<1>2. q \in Nat \ {0} /\ c.coefficient = 10 * q
  BY <1>1
<1> HIDE DEF G, M, a, q
<1>3. /\ G[0] = a
      /\ \A k \in Nat : G[k] \in Nat /\ G[k + 1] = Timeline!NextInterval(c, G[k])
  BY <1>1, GrownIntervalRecurrence DEF G, a
<1>4. \A x \in Nat : Timeline!NextInterval(c, x) = IF x * q >= M THEN M ELSE x * q
  <2>1. ASSUME NEW x \in Nat
        PROVE  (x * c.coefficient) \div 10 = x * q
    <3>1. x * c.coefficient = 10 * (x * q) /\ x * q \in Nat
      BY <1>2, <2>1
    <3> QED
      BY <3>1
  <2> QED
    BY <1>1, <2>1 DEF Timeline!NextInterval
<1>5. \A k \in Nat : X(k) \in Nat /\ X(k + 1) = X(k) * q
  <2>1. ASSUME NEW k \in Nat
        PROVE  X(k) \in Nat /\ X(k + 1) = X(k) * q
    <3> DEFINE P == Power(q, k)
    <3>1. P \in Nat /\ Power(q, k + 1) = q * P
      BY <1>2, PowerRecurrence
    <3> HIDE DEF P
    <3>2. a * P \in Nat /\ a * (q * P) = (a * P) * q
      BY <1>1, <1>2, <3>1
    <3> QED
      BY <3>1, <3>2 DEF P
  <2> QED
    BY <2>1
<1>6. X(0) = a
  BY <1>1, <1>2, PowerRecurrence
<1> HIDE DEF X
<1> DEFINE T == {k \in Nat : G[k] = IF X(k) > M THEN M ELSE X(k)}
<1>7. 0 \in T
  BY <1>1, <1>3, <1>6
<1>8. ASSUME NEW k \in Nat, k \in T
      PROVE  k + 1 \in T
  <2> DEFINE x == X(k)
  <2>1. x \in Nat /\ X(k + 1) = x * q /\ G[k] = (IF x > M THEN M ELSE x)
    BY <1>5, <1>8
  <2>2. G[k + 1] = IF G[k] * q >= M THEN M ELSE G[k] * q
    BY <1>3, <1>4
  <2> HIDE DEF x
  <2>3. CASE x > M
    <3>1. M * q >= M /\ x * q >= x /\ M * q \in Nat /\ x * q \in Nat
      BY <1>1, <1>2, <2>1
    <3>2. G[k + 1] = M /\ X(k + 1) > M
      BY <1>1, <2>1, <2>2, <2>3, <3>1
    <3> QED
      BY <3>2
  <2>4. CASE ~(x > M)
    <3>1. x * q \in Nat
      BY <1>2, <2>1
    <3> QED
      BY <1>1, <2>1, <2>2, <2>4, <3>1
  <2> QED
    BY <2>3, <2>4
<1> HIDE DEF T
<1>9. \A k \in Nat : k \in T
  BY <1>7, <1>8, SetInduction
<1> QED
  BY <1>9 DEF T, X, G, M, a, q

LEMMA RustIntervalIsLower ==
  ASSUME NEW c, NEW rp, SamePolicy(c, rp), NEW n \in Nat
  PROVE  /\ Timeline!RetryInterval(c, n + 1) <= Interval(n + 1, rp)
         /\ c.coefficient % 10 = 0 =>
              Timeline!RetryInterval(c, n + 1) = Interval(n + 1, rp)
<1> DEFINE G == Timeline!GrownInterval(c)
           M == Ceiling(rp)
           a == c.initialInterval
           b == c.coefficient
           X == Grow(a, b, n)
<1>1. /\ a \in Nat \ {0} /\ b \in Nat /\ M \in Nat /\ Timeline!MaxInterval(c) = M
      /\ rp \in RetryPolicy
  BY SameCeiling DEF SamePolicy
<1>2. X \in Nat
  BY <1>1, GrowType
<1>3. Interval(n + 1, rp) = IF X > M THEN M ELSE X
  <2>1. (n + 1) - 1 = n
    OBVIOUS
  <2>2. Scaled(n + 1, rp) = X
    BY <2>1 DEF Scaled, SamePolicy
  <2> QED
    BY <2>2 DEF Interval, Ceiling
<1>4. G[n] \in Nat /\ G[n] <= M /\ G[n] * Power(10, n) <= a * Power(b, n)
  BY GrownIsLower
<1>5. Timeline!RetryInterval(c, n + 1) = G[n]
  <2>1. (n + 1) - 1 = n
    OBVIOUS
  <2> QED
    BY <1>1, <1>4, <2>1 DEF Timeline!RetryInterval
<1>6. CASE b % 10 = 0
  <2>1. X = a * Power(b \div 10, n)
    BY <1>6 DEF Grow
  <2>2. G[n] = IF X > M THEN M ELSE X
    BY <1>6, <2>1, GrownIsExact
  <2>3. G[n] <= G[n]
    BY <1>4
  <2> HIDE DEF X, G, M
  <2> QED
    BY <1>3, <1>5, <2>2, <2>3
<1>7. CASE b % 10 # 0
  <2>1. X = (a * Power(b, n)) \div Power(10, n)
    BY <1>7 DEF Grow
  <2>2. Power(10, n) \in Nat \ {0} /\ Power(b, n) \in Nat
    <3>1. \A k \in Nat : Power(10, k) \in Nat \ {0}
      BY PowerPositive
    <3>2. \A k \in Nat : Power(b, k) \in Nat
      BY <1>1, PowerRecurrence
    <3> QED
      BY <3>1, <3>2
  <2>3. a * Power(b, n) \in Nat
    BY <1>1, <2>2
  <2>4. G[n] <= X
    BY <1>4, <2>1, <2>2, <2>3, QuotientBound
  <2> HIDE DEF X, G, M
  <2>5. G[n] <= IF X > M THEN M ELSE X
    BY <1>4, <2>4
  <2> QED
    BY <1>3, <1>5, <1>7, <2>5
<1> QED
  BY <1>6, <1>7

\* The start of attempt n + 1 in the Rust model, and when it is due.
LEMMA RustStartIsLower ==
  ASSUME NEW c, NEW rp, SamePolicy(c, rp)
  PROVE  \A n \in Nat :
           LET due == n * Timeline!DetectionDelay(c) + Waits(rp)[n] IN
           /\ due \in Nat /\ Timeline!WorstCaseStart(c)[n] \in Nat
           /\ Timeline!WorstCaseStart(c)[n] <= due
           /\ c.coefficient % 10 = 0 => Timeline!WorstCaseStart(c)[n] = due
<1> DEFINE delay == Timeline!DetectionDelay(c)
           W == Timeline!WorstCaseStart(c)
           V == Waits(rp)
           due(n) == n * delay + V[n]
           wait(n) == Timeline!RetryInterval(c, n)
           Whole == c.coefficient % 10 = 0
<1>1. c \in Timeline!Config /\ rp \in RetryPolicy /\ delay \in Nat
  BY RustIntervalType DEF SamePolicy
<1>2. W[0] = 0 /\ \A n \in Nat : W[n] \in Nat /\ W[n + 1] = W[n] + delay + wait(n + 1)
  BY <1>1, RustStartRecurrence
<1>3. /\ V[0] = 0
      /\ \A n \in Nat : V[n] \in Nat /\ V[n + 1] = V[n] + Interval(n + 1, rp)
  BY <1>1, WaitsRecurrence
<1>4. \A n \in Nat : /\ wait(n + 1) \in Nat /\ Interval(n + 1, rp) \in Nat
                     /\ wait(n + 1) <= Interval(n + 1, rp)
                     /\ Whole => wait(n + 1) = Interval(n + 1, rp)
  BY <1>1, RustIntervalType, IntervalType, RustIntervalIsLower
<1> HIDE DEF delay, W, V, wait, Whole
<1>5. due(0) = 0
  BY <1>1, <1>3
<1>6. \A n \in Nat : due(n) \in Nat /\ due(n + 1) = due(n) + delay + Interval(n + 1, rp)
  <2>1. ASSUME NEW n \in Nat
        PROVE  due(n) \in Nat /\ due(n + 1) = due(n) + delay + Interval(n + 1, rp)
    <3>1. n * delay \in Nat /\ (n + 1) * delay = n * delay + delay
      BY <1>1
    <3> QED
      BY <1>1, <1>3, <1>4, <3>1
  <2> QED
    BY <2>1
<1> HIDE DEF due
<1> DEFINE T == {n \in Nat : W[n] <= due(n) /\ (Whole => W[n] = due(n))}
<1>7. 0 \in T
  BY <1>2, <1>5
<1>8. ASSUME NEW n \in Nat, n \in T
      PROVE  n + 1 \in T
  <2>1. W[n] <= due(n) /\ (Whole => W[n] = due(n))
    BY <1>8
  <2>2. W[n] \in Nat /\ W[n + 1] = W[n] + delay + wait(n + 1) /\ due(n) \in Nat
        /\ due(n + 1) = due(n) + delay + Interval(n + 1, rp)
    BY <1>2, <1>6
  <2>3. W[n + 1] <= due(n + 1)
    BY <1>1, <1>4, <2>1, <2>2
  <2>4. Whole => W[n + 1] = due(n + 1)
    BY <1>4, <2>1, <2>2
  <2> QED
    BY <2>3, <2>4
<1> HIDE DEF T
<1>9. \A n \in Nat : n \in T
  BY <1>7, <1>8, SetInduction
<1> QED
  BY <1>2, <1>6, <1>9 DEF T, due, W, V, delay, Whole

LEMMA ExactQuotient ==
  ASSUME NEW x \in Nat, NEW K \in Nat \ {0}, x % K = 0
  PROVE  x \div K \in Nat /\ x = K * (x \div K)
BY Z3

LEMMA PositiveProduct ==
  ASSUME NEW K \in Nat \ {0}, NEW x \in Nat, NEW y, y = K * x
  PROVE  y \in Nat /\ (y > 0 <=> x > 0) /\ 100 * y = K * (100 * x)
OBVIOUS

\* One retry policy in two units, of which K of the one are one of the other: cut to
\* the larger unit, an interval is at most what it is cut to the smaller.
SameInLargerUnit(K, rp, larger) ==
  /\ K \in Nat \ {0} /\ rp \in RetryPolicy /\ larger \in RetryPolicy
  /\ InitialInterval(rp) = K * InitialInterval(larger)
  /\ Ceiling(rp) = K * Ceiling(larger)
  /\ rp.BackoffCoefficient = larger.BackoffCoefficient

Coefficient(rp) == OrDefault(rp.BackoffCoefficient, defaultRetryBackoffCoefficient)

LEMMA LargerUnitIsLower ==
  ASSUME NEW K, NEW rp, NEW larger, SameInLargerUnit(K, rp, larger), NEW n \in Nat
  PROVE  /\ K * Interval(n + 1, larger) <= Interval(n + 1, rp)
         /\ Coefficient(rp) % 10 = 0 => K * Interval(n + 1, larger) = Interval(n + 1, rp)
<1> DEFINE a == InitialInterval(larger)
           b == Coefficient(rp)
           M == Ceiling(larger)
           X == Grow(a, b, n)
           Y == Grow(K * a, b, n)
<1>1. K \in Nat \ {0} /\ a \in Nat /\ M \in Nat
  BY CeilingType DEF SameInLargerUnit
<1>2. b \in Nat /\ b = Coefficient(larger)
  BY DEF SameInLargerUnit, Coefficient, RetryPolicy, OrDefault, defaultRetryBackoffCoefficient
<1>3. Interval(n + 1, larger) = IF X > M THEN M ELSE X
  <2>1. (n + 1) - 1 = n
    OBVIOUS
  <2> QED
    BY <1>2, <2>1 DEF Interval, Scaled, Ceiling, Coefficient
<1>4. Interval(n + 1, rp) = IF Y > K * M THEN K * M ELSE Y
  <2>1. (n + 1) - 1 = n /\ InitialInterval(rp) = K * a /\ Ceiling(rp) = K * M
    BY DEF SameInLargerUnit
  <2>2. Interval(n + 1, rp) = IF Scaled(n + 1, rp) > Ceiling(rp) THEN Ceiling(rp)
                              ELSE Scaled(n + 1, rp)
    BY DEF Interval, Ceiling
  <2>3. Scaled(n + 1, rp) = Y
    BY <2>1 DEF Scaled, Coefficient
  <2> QED
    BY <2>1, <2>2, <2>3
<1> HIDE DEF a, b, M
<1>5. X \in Nat /\ K * a \in Nat
  <2>1. K * a \in Nat
    BY <1>1
  <2> QED
    BY <1>1, <1>2, <2>1, GrowType
<1>6. Y \in Nat /\ K * X <= Y /\ (b % 10 = 0 => K * X = Y)
  <2>1. CASE b % 10 = 0
    <3> DEFINE P == Power(b \div 10, n)
    <3>1. P \in Nat
      <4>1. b \div 10 \in Nat
        BY <1>2
      <4> QED
        BY <4>1, PowerRecurrence
    <3>2. X = a * P /\ Y = (K * a) * P
      BY <2>1 DEF Grow
    <3> HIDE DEF P, X, Y
    <3>3. (K * a) * P = K * (a * P) /\ (K * a) * P \in Nat
      BY <1>1, <3>1
    <3> QED
      BY <3>2, <3>3
  <2>2. CASE b % 10 # 0
    <3> DEFINE P == Power(b, n)
               Q == Power(10, n)
               num == a * P
    <3>1. P \in Nat /\ Q \in Nat \ {0}
      <4>1. \A j \in Nat : Power(10, j) \in Nat \ {0}
        BY PowerPositive
      <4>2. \A j \in Nat : Power(b, j) \in Nat
        BY <1>2, PowerRecurrence
      <4> QED
        BY <4>1, <4>2
    <3>2. X = num \div Q /\ Y = ((K * a) * P) \div Q
      BY <2>2 DEF Grow
    <3> HIDE DEF P, Q, X, Y
    <3>3. num \in Nat /\ (K * a) * P = K * num /\ K * num \in Nat
      BY <1>1, <3>1
    <3> HIDE DEF num
    <3>4. X \in Nat /\ X * Q <= num
      BY <3>1, <3>2, <3>3, Z3
    <3>5. (K * X) * Q <= K * num
      <4>1. K * (X * Q) <= K * num /\ X * Q \in Nat
        BY <1>1, <3>1, <3>3, <3>4
      <4>2. (K * X) * Q = K * (X * Q)
        BY <1>1, <3>1, <3>4
      <4> QED
        BY <4>1, <4>2
    <3>6. K * X <= (K * num) \div Q
      BY <1>1, <3>1, <3>3, <3>4, <3>5, QuotientBound
    <3>7. Y \in Nat
      BY <3>1, <3>2, <3>3, Z3
    <3> QED
      BY <2>2, <3>2, <3>3, <3>6, <3>7
  <2> QED
    BY <2>1, <2>2
<1> HIDE DEF X, Y
<1>7. K * M \in Nat /\ K * X \in Nat /\ (X > M => K * X > K * M) /\ (X <= M => K * X <= K * M)
  BY <1>1, <1>5
<1>8. CASE X > M
  <2>1. K * Interval(n + 1, larger) = K * M
    BY <1>3, <1>8
  <2>2. Y > K * M
    BY <1>6, <1>7, <1>8
  <2> QED
    BY <1>4, <1>7, <2>1, <2>2
<1>9. CASE ~(X > M)
  <2>1. K * Interval(n + 1, larger) = K * X /\ K * X <= K * M
    BY <1>1, <1>3, <1>5, <1>7, <1>9
  <2> QED
    BY <1>4, <1>6, <1>7, <2>1 DEF b
<1> QED
  BY <1>8, <1>9

LEMMA LargerUnitWaitsLess ==
  ASSUME NEW K, NEW rp, NEW larger, SameInLargerUnit(K, rp, larger)
  PROVE  \A n \in Nat :
           /\ K * Waits(larger)[n] <= Waits(rp)[n]
           /\ Coefficient(rp) % 10 = 0 => K * Waits(larger)[n] = Waits(rp)[n]
<1> DEFINE V == Waits(rp)
           L == Waits(larger)
           Whole == Coefficient(rp) % 10 = 0
           T == {n \in Nat : K * L[n] <= V[n] /\ (Whole => K * L[n] = V[n])}
<1>1. K \in Nat \ {0} /\ rp \in RetryPolicy /\ larger \in RetryPolicy
  BY DEF SameInLargerUnit
<1>2. V[0] = 0 /\ L[0] = 0
  BY <1>1, WaitsRecurrence
<1>3. 0 \in T
  BY <1>1, <1>2
<1>4. ASSUME NEW n \in Nat, n \in T
      PROVE  n + 1 \in T
  <2> DEFINE p == Interval(n + 1, larger)
             q == Interval(n + 1, rp)
             x == L[n]
             y == V[n]
  <2>1. /\ x \in Nat /\ y \in Nat /\ p \in Nat /\ q \in Nat
        /\ L[n + 1] = x + p /\ V[n + 1] = y + q
    BY <1>1, WaitsRecurrence, IntervalType
  <2>2. K * p <= q /\ (Whole => K * p = q)
    BY LargerUnitIsLower
  <2>3. K * x <= y /\ (Whole => K * x = y)
    BY <1>4
  <2> HIDE DEF p, q, x, y, L, V, Whole
  <2>4. K * (x + p) = K * x + K * p /\ K * x \in Nat /\ K * p \in Nat
    BY <1>1, <2>1
  <2>5. K * (x + p) <= y + q /\ (Whole => K * (x + p) = y + q)
    BY <2>1, <2>2, <2>3, <2>4
  <2> QED
    BY <2>1, <2>5
<1> HIDE DEF T
<1>5. \A n \in Nat : n \in T
  BY <1>3, <1>4, SetInduction
<1> QED
  BY <1>5 DEF T, V, L, Whole

Listed(list) == {list[i] : i \in DOMAIN list}

LEMMA ListedConcatenation ==
  ASSUME NEW S, NEW s \in Seq(S), NEW t \in Seq(S)
  PROVE  s \o t \in Seq(S) /\ Listed(s \o t) = Listed(s) \cup Listed(t)
<1>1. s \o t \in Seq(S) /\ DOMAIN s = 1..Len(s) /\ DOMAIN t = 1..Len(t)
      /\ DOMAIN (s \o t) = 1..(Len(s) + Len(t)) /\ Len(s) \in Nat /\ Len(t) \in Nat
  OBVIOUS
<1>2. ASSUME NEW i \in DOMAIN (s \o t)
      PROVE  (s \o t)[i] \in Listed(s) \cup Listed(t)
  <2>1. CASE i <= Len(s)
    BY <1>1, <2>1 DEF Listed
  <2>2. CASE i > Len(s)
    <3>1. i - Len(s) \in 1..Len(t) /\ (s \o t)[i] = t[i - Len(s)]
      BY <1>1, <2>2
    <3> QED
      BY <1>1, <3>1 DEF Listed
  <2> QED
    BY <1>1, <2>1, <2>2
<1>3. ASSUME NEW i \in DOMAIN s
      PROVE  s[i] \in Listed(s \o t)
  <2>1. i \in DOMAIN (s \o t) /\ (s \o t)[i] = s[i]
    BY <1>1
  <2> QED
    BY <2>1 DEF Listed
<1>4. ASSUME NEW i \in DOMAIN t
      PROVE  t[i] \in Listed(s \o t)
  <2>1. Len(s) + i \in DOMAIN (s \o t) /\ (s \o t)[Len(s) + i] = t[i]
    BY <1>1
  <2> QED
    BY <2>1 DEF Listed
<1> QED
  BY <1>1, <1>2, <1>3, <1>4 DEF Listed

\* The list of violations names the policies violated, and no other.
LEMMA CanonicalListsAll ==
  ASSUME NEW S \in SUBSET Policies
  PROVE  Listed(InCanonicalOrder(S)) = S
<1> DEFINE one(p) == IF p \in S THEN <<p>> ELSE <<>>
<1>1. \A p \in Policies : one(p) \in Seq(Policies) /\ Listed(one(p)) = S \cap {p}
  BY DEF Listed
<1> DEFINE a == one(ScheduleToCloseRequired)
           b == one(MaxAttemptsTooLow)
           c == one(LocalActivityStartToCloseTooLong)
           d == one(TimeoutsPermitRetries)
<1>2. /\ a \in Seq(Policies) /\ Listed(a) = S \cap {ScheduleToCloseRequired}
      /\ b \in Seq(Policies) /\ Listed(b) = S \cap {MaxAttemptsTooLow}
      /\ c \in Seq(Policies) /\ Listed(c) = S \cap {LocalActivityStartToCloseTooLong}
      /\ d \in Seq(Policies) /\ Listed(d) = S \cap {TimeoutsPermitRetries}
  <2>1. {ScheduleToCloseRequired, MaxAttemptsTooLow, LocalActivityStartToCloseTooLong,
         TimeoutsPermitRetries} = Policies
    BY DEF Policies
  <2> HIDE DEF one
  <2> QED
    BY <1>1, <2>1
<1>3. InCanonicalOrder(S) = a \o b \o c \o d
  BY DEF InCanonicalOrder
<1> HIDE DEF a, b, c, d
<1> DEFINE ab == a \o b
           abc == ab \o c
<1>4. ab \in Seq(Policies) /\ Listed(ab) = Listed(a) \cup Listed(b)
  BY <1>2, ListedConcatenation
<1>5. InCanonicalOrder(S) = abc \o d
  BY <1>3
<1> HIDE DEF ab
<1>6. abc \in Seq(Policies) /\ Listed(abc) = Listed(ab) \cup Listed(c)
  <2>1. ab \in Seq(Policies) /\ c \in Seq(Policies)
    BY <1>2, <1>4
  <2> QED
    BY <2>1, ListedConcatenation, Zenon
<1> HIDE DEF abc
<1>7. Listed(abc \o d) = Listed(abc) \cup Listed(d)
  BY <1>2, <1>6, ListedConcatenation
<1> QED
  BY <1>2, <1>4, <1>5, <1>6, <1>7 DEF Policies

\* The Rust model is never stricter than the interceptors, nor more lenient if nothing is
\* rounded, for every call, policy and number of retries.
LEMMA VerdictMatchesTimeline == TwinsInv => TimelineAgrees
<1> DEFINE w == WithDefaultHeartbeat(GoCall(written))
           rp == w.RetryPolicy
           c == RustConfig
           rejected == TimeoutsPermitRetries \in Listed(go.policies)
<1> SUFFICES ASSUME TwinsInv, go # Pending, ~written.is_local, RustAdmits, target > 0,
                    severityFor(severities, TimeoutsPermitRetries) = "Error"
             PROVE  /\ Overruns => rejected
                    /\ rejected /\ c.coefficient % 10 = 0 => Overruns
  BY DEF TimelineAgrees, Listed
<1>1. written \in PyCall /\ target \in Nat /\ FitsDuration(w, target) /\ go = GoResult
  BY TwinsAssumption DEF TwinsInv
<1>2. /\ w.ScheduleToClose \in Nat /\ w.StartToClose \in Nat /\ w.Heartbeat \in Nat
      /\ rp \in RetryPolicy /\ rp.MaximumAttempts \in Nat /\ rp.InitialInterval \in Nat
      /\ rp.MaximumInterval \in Nat
  <2> DEFINE gc == GoCall(written)
  <2>1. {OrZero(written.schedule_to_close), OrZero(written.start_to_close),
         OrZero(written.heartbeat)} \subseteq Nat
    BY <1>1 DEF PyCall, Optional, OrZero, Timedelta
  <2>2. /\ gc.ScheduleToClose \in Nat /\ gc.StartToClose \in Nat /\ gc.Heartbeat \in Nat
        /\ gc.RetryPolicy \in RetryPolicy /\ gc.RetryPolicy.MaximumAttempts \in Nat
        /\ gc.RetryPolicy.InitialInterval \in Nat /\ gc.RetryPolicy.MaximumInterval \in Nat
        /\ gc \in Call
    BY <1>1, <2>1, GoCallType DEF Call
  <2> HIDE DEF gc
  <2>3. /\ w.ScheduleToClose = gc.ScheduleToClose /\ w.StartToClose = gc.StartToClose
        /\ w.RetryPolicy = gc.RetryPolicy
        /\ w.Heartbeat \in {gc.Heartbeat, defaultHeartbeatTimeout}
    BY <2>2 DEF WithDefaultHeartbeat, Call, gc
  <2> QED
    BY <2>2, <2>3, DurationAssumption DEF defaultHeartbeatTimeout
<1> HIDE DEF w
<1> DEFINE K == Millisecond
           larger == [rp EXCEPT !.InitialInterval = InitialInterval(rp) \div K,
                                !.MaximumInterval = rp.MaximumInterval \div K]
<1>3. /\ K \in Nat \ {0}
      /\ c = [scheduleToClose |-> w.ScheduleToClose \div K,
              startToClose |-> w.StartToClose \div K,
              heartbeat |-> w.Heartbeat \div K, maxAttempts |-> rp.MaximumAttempts,
              initialInterval |-> InitialInterval(rp) \div K,
              maxInterval |-> rp.MaximumInterval \div K,
              coefficient |-> Coefficient(rp)]
      /\ InitialInterval(rp) \in Nat \ {0} /\ Coefficient(rp) \in Nat
  BY <1>2, CeilingType, TwinsAssumption
     DEF RustConfig, w, Coefficient, RetryPolicy, OrDefault, defaultRetryBackoffCoefficient
<1>3a. /\ w.ScheduleToClose % K = 0 /\ w.StartToClose % K = 0 /\ w.Heartbeat % K = 0
       /\ InitialInterval(rp) % K = 0 /\ rp.MaximumInterval % K = 0
       /\ c.scheduleToClose # 0 /\ c.startToClose \in 1..c.scheduleToClose
       /\ c.maxInterval # 0 => c.maxInterval >= c.initialInterval
       /\ c.coefficient >= 10
  BY DEF RustAdmits, w
<1> HIDE DEF c, K
<1>3b. /\ c.scheduleToClose \in Nat /\ w.ScheduleToClose = K * c.scheduleToClose
       /\ c.startToClose \in Nat /\ w.StartToClose = K * c.startToClose
       /\ c.heartbeat \in Nat /\ w.Heartbeat = K * c.heartbeat
       /\ c.initialInterval \in Nat /\ InitialInterval(rp) = K * c.initialInterval
       /\ c.maxInterval \in Nat /\ rp.MaximumInterval = K * c.maxInterval
       /\ c.coefficient = Coefficient(rp)
  BY <1>2, <1>3, <1>3a, ExactQuotient
<1>3k. \A x \in Nat : \A y : y = K * x => /\ y \in Nat /\ (y > 0 <=> x > 0)
                                            /\ 100 * y = K * (100 * x)
  <2>1. K \in Nat \ {0}
    BY <1>3
  <2> HIDE DEF K
  <2> QED
    BY <2>1, PositiveProduct
<1>3c. c \in Timeline!Config
  BY <1>2, <1>3, <1>3b DEF Timeline!Config
<1>3d. c.initialInterval > 0
  <2>1. InitialInterval(rp) > 0
    BY <1>3
  <2> QED
    BY <1>3b, <1>3k, <2>1, Zenon
<1>3e. /\ larger \in RetryPolicy
       /\ larger.InitialInterval = c.initialInterval /\ larger.MaximumInterval = c.maxInterval
       /\ larger.BackoffCoefficient = rp.BackoffCoefficient
  <2> DEFINE first == InitialInterval(rp) \div K
             last == rp.MaximumInterval \div K
  <2>1. c.initialInterval = first /\ c.maxInterval = last
    BY <1>3
  <2>2. larger = [rp EXCEPT !.InitialInterval = first, !.MaximumInterval = last]
    BY DEF larger
  <2>3. first \in Nat /\ last \in Nat
    BY <1>3b, <2>1
  <2> HIDE DEF first, last, larger, rp
  <2>4. rp \in RetryPolicy
    BY <1>2
  <2> DEFINE one == [rp EXCEPT !.InitialInterval = first]
  <2>5. one \in RetryPolicy /\ one.InitialInterval = first
        /\ one.BackoffCoefficient = rp.BackoffCoefficient
    BY <2>3, <2>4 DEF RetryPolicy
  <2>6. larger = [one EXCEPT !.MaximumInterval = last]
    BY <2>2
  <2> HIDE DEF one
  <2>7. /\ larger \in RetryPolicy /\ larger.InitialInterval = first
        /\ larger.MaximumInterval = last /\ larger.BackoffCoefficient = rp.BackoffCoefficient
    BY <2>3, <2>5, <2>6 DEF RetryPolicy
  <2> QED
    BY <2>1, <2>7
<1> HIDE DEF larger
<1>3f. InitialInterval(larger) = c.initialInterval /\ Coefficient(larger) = Coefficient(rp)
  BY <1>3b, <1>3d, <1>3e DEF InitialInterval, OrDefault, Coefficient
<1>4. SamePolicy(c, larger)
  BY <1>3a, <1>3b, <1>3c, <1>3e, <1>3f DEF SamePolicy, Coefficient
<1>4a. SameInLargerUnit(K, rp, larger)
  <2>1. Ceiling(rp) = K * Ceiling(larger)
    <3>1. Ceiling(larger) = IF c.maxInterval > 0 THEN c.maxInterval ELSE 100 * c.initialInterval
      BY <1>3e, <1>3f DEF Ceiling, OrDefault, defaultMaxIntervalMultiplier
    <3>2. Ceiling(rp) = IF rp.MaximumInterval > 0 THEN rp.MaximumInterval
                        ELSE 100 * (K * c.initialInterval)
      BY <1>3b DEF Ceiling, OrDefault, defaultMaxIntervalMultiplier
    <3>3. rp.MaximumInterval > 0 <=> c.maxInterval > 0
      <4>1. c.maxInterval \in Nat /\ rp.MaximumInterval = K * c.maxInterval
        BY <1>3b
      <4>2. \A y : y = K * c.maxInterval => (y > 0 <=> c.maxInterval > 0)
        BY <1>3k, <4>1, Zenon
      <4> QED
        BY <4>1, <4>2, Zenon
    <3>4. 100 * (K * c.initialInterval) = K * (100 * c.initialInterval)
      BY <1>3b, <1>3k, Zenon
    <3> QED
      BY <1>3b, <3>1, <3>2, <3>3, <3>4
  <2> QED
    BY <1>2, <1>3, <1>3b, <1>3e, <1>3f, <2>1 DEF SameInLargerUnit
<1>5. w.StartToClose > 0 /\ w.ScheduleToClose > 0
  <2>1. c.scheduleToClose > 0 /\ c.startToClose > 0
    BY <1>3a, <1>3b
  <2> QED
    BY <1>3b, <1>3k, <2>1, Zenon
<1> DEFINE delay == DelayOf(w)
           due == target * delay + Waits(rp)[target]
           small == Timeline!DetectionDelay(c)
<1>6. /\ delay \in Nat \ {0} /\ small \in Nat /\ delay = K * small
  <2>1. w.Heartbeat > 0 <=> c.heartbeat > 0
    BY <1>3b, <1>3k, Zenon
  <2> QED
    BY <1>2, <1>3b, <1>5, <2>1 DEF DelayOf, detectionDelay, Timeline!DetectionDelay
<1>7. due \in Nat /\ (Overruns => due > w.ScheduleToClose)
      /\ (c.coefficient % 10 = 0 => (Overruns <=> due > w.ScheduleToClose))
  <2> DEFINE W == Timeline!WorstCaseStart(c)[target]
             V == Waits(rp)[target]
             L == Waits(larger)[target]
             s == c.scheduleToClose
             Whole == c.coefficient % 10 = 0
  <2>1. Overruns <=> W > w.ScheduleToClose \div K
    BY <1>3 DEF Overruns, c
  <2>2. W \in Nat /\ target * small + L \in Nat
        /\ W <= target * small + L /\ (Whole => W = target * small + L)
    BY <1>1, <1>4, RustStartIsLower
  <2>3. L \in Nat /\ V \in Nat
    BY <1>1, <1>2, <1>3e, WaitsRecurrence
  <2>4. K * L <= V /\ (Whole => K * L = V)
    BY <1>1, <1>3b, <1>4a, LargerUnitWaitsLess
  <2>5. w.ScheduleToClose = K * s /\ w.ScheduleToClose \div K = s /\ s \in Nat
    BY <1>3, <1>3b
  <2> HIDE DEF W, V, L, s, delay, small, Whole
  <2> DEFINE t == target * small
  <2>6. t \in Nat /\ target * delay = K * t
    BY <1>1, <1>3, <1>6
  <2> HIDE DEF t
  <2>7. due = K * t + V
    BY <2>6, Zenon DEF V
  <2> DEFINE z == t + L
  <2>8. z \in Nat /\ K * z = K * t + K * L /\ K * t \in Nat /\ K * L \in Nat
    BY <1>3, <2>3, <2>6
  <2>9. due \in Nat /\ K * z <= due /\ (Whole => K * z = due)
    BY <2>3, <2>4, <2>7, <2>8
  <2>10. z > s <=> K * z > K * s
    BY <1>3, <2>5, <2>8
  <2>11. W <= z /\ (Whole => W = z)
    BY <2>2 DEF t
  <2> HIDE DEF z, due
  <2>12. K * z \in Nat /\ K * s \in Nat
    BY <1>3, <2>5, <2>8
  <2>13. Overruns <=> W > s
    BY <2>1, <2>5
  <2> QED
    BY <2>2, <2>5, <2>8, <2>9, <2>10, <2>11, <2>12, <2>13 DEF Whole
<1>8. BudgetTooShort(w, target) <=> w.ScheduleToClose < due
  <2>1. /\ defaultMaxIntervalMultiplier * InitialInterval(rp) < HalfWord
        /\ target * (delay + Ceiling(rp)) < HalfWord
    BY <1>1 DEF FitsDuration, Ceiling, DelayOf
  <2>2. minScheduleToClose(delay, rp, target) = due
    BY <1>1, <1>2, <1>6, <2>1, MinScheduleToCloseIsDue
  <2> QED
    BY <1>1, <1>2, <1>5, <1>6, <2>2 DEF BudgetTooShort, DelayOf
<1>9. rejected <=> BudgetTooShort(w, target)
  <2> DEFINE V == Violated(w, target)
             shown == {p \in V : severityFor(severities, p) # "Ignore"}
             hasError == \E p \in V : severityFor(severities, p) = "Error"
  <2>1. TimeoutsPermitRetries \in V <=> BudgetTooShort(w, target)
    BY DEF Violated, Violates, Policies, ScheduleToCloseRequired, MaxAttemptsTooLow,
           LocalActivityStartToCloseTooLong, TimeoutsPermitRetries
  <2>2. go.policies = IF hasError THEN InCanonicalOrder(shown) ELSE <<>>
    BY <1>1 DEF GoResult, Result, w
  <2>3. shown \in SUBSET Policies
    BY DEF Violated
  <2>4. Listed(InCanonicalOrder(shown)) = shown
    BY <2>3, CanonicalListsAll
  <2>5. Listed(<<>>) = {}
    BY DEF Listed
  <2>6. TimeoutsPermitRetries \in V <=> hasError /\ TimeoutsPermitRetries \in shown
    OBVIOUS
  <2> HIDE DEF V, shown, hasError
  <2> QED
    BY <2>1, <2>2, <2>4, <2>5, <2>6
<1> HIDE DEF rejected, due
<1> QED
  BY <1>2, <1>7, <1>8, <1>9

\* Where the Rust model applies, the interceptors judge a budget as it does, up to its
\* rounding.
THEOREM TimelineAlwaysAgrees == TwinsSpec => []TimelineAgrees
BY TwinsInvariant, VerdictMatchesTimeline, PTL
=============================================================================
