------------------------- MODULE RetryTimelineProofs -------------------------
(***************************************************************************)
(* For every grid of configurations and every number of required retries:  *)
(* the timeline of RetryTimeline is typed, ends with attempt N + 1 started *)
(* exactly when the closed form says so, and never ends early for a        *)
(* configuration the closed form accepts.                                  *)
(***************************************************************************)
EXTENDS RetryTimeline, NatRecursion

-----------------------------------------------------------------------------
(* What the recursive functions of the retry policy compute.               *)

LEMMA MaxIntervalType ==
  ASSUME NEW c \in Config
  PROVE  MaxInterval(c) \in Nat /\ DetectionDelay(c) \in Nat
BY DEF MaxInterval, DetectionDelay, Config

LEMMA NextIntervalType ==
  ASSUME NEW c \in Config, NEW x \in Nat
  PROVE  NextInterval(c, x) \in Nat
<1>1. c.coefficient \in Nat
  BY DEF Config
<1>2. x * c.coefficient \in Nat
  BY <1>1
<1>3. (x * c.coefficient) \div 10 \in Nat
  BY <1>2
<1> QED
  BY <1>3, MaxIntervalType DEF NextInterval

\* The loop's intervals exist and are naturals.
LEMMA GrownIntervalType ==
  ASSUME NEW c \in Config
  PROVE  GrownInterval(c) \in [Nat -> Nat]
<1> DEFINE a == c.initialInterval
           g == [p \in Nat \X Nat |-> NextInterval(c, p[2])]
           G == GrownInterval(c)
           Body(f) == [k \in Nat |-> IF k = 0 THEN a ELSE NextInterval(c, f[k - 1])]
<1>1. a \in Nat
  BY DEF Config
<1>2. g \in [Nat \X Nat -> Nat]
  BY NextIntervalType
<1>3. \A k, x \in Nat : g[<<k, x>>] = NextInterval(c, x)
  OBVIOUS
<1> HIDE DEF a, g
<1>4. PICK f : IsRecursion(f, Nat, g, a)
  BY <1>1, <1>2, RecursiveFunctionExists DEF HasRecursion
<1>5. ASSUME NEW k \in Nat
      PROVE  f[k] = IF k = 0 THEN a ELSE NextInterval(c, f[k - 1])
  <2>1. CASE k = 0
    BY <1>4, <2>1 DEF IsRecursion
  <2>2. CASE k # 0
    <3>1. k \in Nat \ {0} /\ k - 1 \in Nat /\ f[k - 1] \in Nat
      BY <1>4, <2>2 DEF IsRecursion
    <3>2. f[k] = g[<<k, f[k - 1]>>]
      BY <1>4, <3>1 DEF IsRecursion
    <3> QED
      BY <1>3, <2>2, <3>1, <3>2
  <2> QED
    BY <2>1, <2>2
<1>6. f = Body(f)
  BY <1>4, <1>5 DEF IsRecursion
<1>7. G = Body(G)
  <2>1. G = CHOOSE h : h = Body(h)
    BY DEF GrownInterval, a
  <2> HIDE DEF G, Body
  <2> QED
    BY <1>6, <2>1, Zenon
<1> HIDE DEF G
<1> DEFINE T == {k \in Nat : G[k] \in Nat}
<1>8. 0 \in T
  BY <1>1, <1>7
<1>9. ASSUME NEW k \in Nat, k \in T
      PROVE  k + 1 \in T
  <2>1. G[k + 1] = NextInterval(c, G[k])
    BY <1>7
  <2> QED
    BY <1>9, <2>1, NextIntervalType
<1> HIDE DEF T
<1>10. \A k \in Nat : k \in T
  BY <1>8, <1>9, SetInduction
<1>11. \A k \in Nat : G[k] \in Nat
  BY <1>10 DEF T
<1> QED
  BY <1>7, <1>11 DEF G

LEMMA RetryIntervalType ==
  ASSUME NEW c \in Config, NEW n \in Nat \ {0}
  PROVE  RetryInterval(c, n) \in Nat
<1>1. GrownInterval(c)[n - 1] \in Nat
  BY GrownIntervalType
<1> QED
  BY <1>1, MaxIntervalType DEF RetryInterval

\* The recurrence that defines the worst-case start times, and its type.
LEMMA WorstCaseStartRecurrence ==
  ASSUME NEW c \in Config
  PROVE  /\ WorstCaseStart(c) \in [Nat -> Nat]
         /\ WorstCaseStart(c)[0] = 0
         /\ \A n \in Nat \ {0} : WorstCaseStart(c)[n] =
              WorstCaseStart(c)[n - 1] + DetectionDelay(c) + RetryInterval(c, n)
<1> DEFINE W == WorstCaseStart(c)
           Gap(n) == DetectionDelay(c) + RetryInterval(c, n)
           Body(f) == [n \in Nat |-> IF n = 0 THEN 0
                        ELSE f[n - 1] + DetectionDelay(c) + RetryInterval(c, n)]
           g == [p \in Nat \X Nat |->
                   IF p[1] = 0 THEN 0
                   ELSE p[2] + DetectionDelay(c) + RetryInterval(c, p[1])]
<1>1. DetectionDelay(c) \in Nat
  BY MaxIntervalType
<1>2. g \in [Nat \X Nat -> Nat]
  <2>1. ASSUME NEW p \in Nat \X Nat
        PROVE  (IF p[1] = 0 THEN 0
                ELSE p[2] + DetectionDelay(c) + RetryInterval(c, p[1])) \in Nat
    <3>1. p[1] \in Nat /\ p[2] \in Nat
      OBVIOUS
    <3>2. CASE p[1] = 0
      BY <3>2
    <3>3. CASE p[1] # 0
      <4>1. RetryInterval(c, p[1]) \in Nat
        BY <3>1, <3>3, RetryIntervalType
      <4> QED
        BY <1>1, <3>1, <4>1
    <3> QED
      BY <3>2, <3>3
  <2> QED
    BY <2>1
<1>3. \A n \in Nat \ {0}, x \in Nat :
        g[<<n, x>>] = x + DetectionDelay(c) + RetryInterval(c, n)
  OBVIOUS
<1> HIDE DEF g
<1>4. PICK f : IsRecursion(f, Nat, g, 0)
  BY <1>2, RecursiveFunctionExists DEF HasRecursion
<1>5. ASSUME NEW n \in Nat
      PROVE  f[n] = IF n = 0 THEN 0
                    ELSE f[n - 1] + DetectionDelay(c) + RetryInterval(c, n)
  <2>1. CASE n = 0
    BY <1>4, <2>1 DEF IsRecursion
  <2>2. CASE n # 0
    <3>1. n \in Nat \ {0} /\ n - 1 \in Nat /\ f[n - 1] \in Nat
      BY <1>4, <2>2 DEF IsRecursion
    <3>2. f[n] = g[<<n, f[n - 1]>>]
      BY <1>4, <3>1 DEF IsRecursion
    <3> QED
      BY <1>3, <2>2, <3>1, <3>2
  <2> QED
    BY <2>1, <2>2
<1>6. f = Body(f)
  BY <1>4, <1>5 DEF IsRecursion
<1>7. W = Body(W)
  <2>1. W = CHOOSE h : h = Body(h)
    BY DEF WorstCaseStart
  <2> HIDE DEF W, Body
  <2> QED
    BY <1>6, <2>1, Zenon
<1> HIDE DEF W
<1>8. W[0] = 0
  BY <1>7
<1>9. \A n \in Nat \ {0} :
        W[n] = W[n - 1] + DetectionDelay(c) + RetryInterval(c, n)
  BY <1>7
<1> DEFINE T == {n \in Nat : W[n] \in Nat}
<1>10. 0 \in T
  BY <1>8
<1>11. ASSUME NEW n \in Nat, n \in T
       PROVE  n + 1 \in T
  <2>1. n + 1 \in Nat \ {0} /\ (n + 1) - 1 = n
    OBVIOUS
  <2>2. W[n + 1] = W[n] + DetectionDelay(c) + RetryInterval(c, n + 1)
    BY <1>9, <2>1
  <2>3. RetryInterval(c, n + 1) \in Nat
    BY <2>1, RetryIntervalType
  <2> QED
    BY <1>1, <1>11, <2>2, <2>3
<1> HIDE DEF T
<1>12. \A n \in Nat : n \in T
  BY <1>10, <1>11, SetInduction
<1>13. \A n \in Nat : W[n] \in Nat
  BY <1>12 DEF T
<1> QED
  BY <1>7, <1>8, <1>9, <1>13 DEF W

\* Later attempts start later.
LEMMA WorstCaseStartMonotone ==
  ASSUME NEW c \in Config, NEW m \in Nat, NEW n \in Nat, m <= n
  PROVE  WorstCaseStart(c)[m] <= WorstCaseStart(c)[n]
<1> DEFINE W == WorstCaseStart(c)
           T == {k \in Nat : W[m] <= W[m + k]}
<1>1. \A k \in Nat : W[k] \in Nat
  BY WorstCaseStartRecurrence
<1>2. 0 \in T
  BY <1>1
<1>3. ASSUME NEW k \in Nat, k \in T
      PROVE  k + 1 \in T
  <2>1. m + (k + 1) \in Nat \ {0} /\ (m + (k + 1)) - 1 = m + k
    OBVIOUS
  <2>2. W[m + (k + 1)] = W[m + k] + DetectionDelay(c) + RetryInterval(c, m + (k + 1))
    BY <2>1, WorstCaseStartRecurrence
  <2>3. RetryInterval(c, m + (k + 1)) \in Nat /\ DetectionDelay(c) \in Nat
    BY <2>1, RetryIntervalType, MaxIntervalType
  <2>4. W[m] \in Nat /\ W[m + k] \in Nat /\ W[m] <= W[m + k]
    BY <1>1, <1>3
  <2>5. W[m] <= W[m + (k + 1)]
    BY <2>2, <2>3, <2>4
  <2> QED
    BY <2>5
<1> HIDE DEF W, T
<1>4. \A k \in Nat : k \in T
  BY <1>2, <1>3, SetInduction
<1>5. n - m \in Nat /\ m + (n - m) = n
  OBVIOUS
<1>6. W[m] <= W[m + (n - m)]
  BY <1>4, <1>5 DEF T
<1> QED
  BY <1>5, <1>6 DEF W

-----------------------------------------------------------------------------
(* The timeline keeps to the closed form.                                  *)

LEMMA InitTimelineInv == Init => TimelineInv
BY ConfigsAssumption, RequiredRetriesAssumption
   DEF Init, InitFrom, CurrentConfigs, TimelineInv, TypeOK, OnSchedule, Idle, Kinds

LEMMA NextTimelineInv == TimelineInv /\ [Next]_vars => TimelineInv'
<1> SUFFICES ASSUME TimelineInv, [Next]_vars
             PROVE  TimelineInv'
  OBVIOUS
<1> DEFINE W == WorstCaseStart(config)
<1>1. config \in Config /\ config.scheduleToClose \in Nat /\ config.maxAttempts \in Nat
  BY ConfigsAssumption DEF TimelineInv, TypeOK, Config
<1>2. RequiredRetries \in Nat
  BY RequiredRetriesAssumption
<1>3. /\ \A n \in Nat : W[n] \in Nat
      /\ W[0] = 0
      /\ \A n \in Nat \ {0} :
           W[n] = W[n - 1] + DetectionDelay(config) + RetryInterval(config, n)
  BY <1>1, WorstCaseStartRecurrence
<1>4. DetectionDelay(config) \in Nat
  BY <1>1, MaxIntervalType
<1>5. \A n \in Nat \ {0} : RetryInterval(config, n) \in Nat
  BY <1>1, RetryIntervalType
<1>6. DetectionDelay(config) >= 1
  BY <1>1 DEF TimelineInv, OnSchedule, InterceptorAccepts, DetectionDelay, Config
<1> HIDE DEF W
<1>7. CASE StartFirst
  <2>1. attempts = 0 /\ now = 0 /\ phase.kind = "idle"
    BY <1>7 DEF StartFirst, TimelineInv, OnSchedule
  <2>2. config' = config /\ now' = 0 /\ attempts' = 1 /\ phase' = [kind |-> "running", at |-> 0]
    BY <1>7, <2>1 DEF StartFirst, Running
  <2>3. TypeOK'
    BY <1>2, <2>2 DEF TimelineInv, TypeOK, Kinds
  <2>4. OnSchedule'
    BY <1>1, <1>3, <2>2 DEF TimelineInv, OnSchedule, W, Deadline
  <2> QED
    BY <2>3, <2>4 DEF TimelineInv
<1>8. CASE StartRetry
  <2>1. /\ attempts \in 1..RequiredRetries
        /\ phase.at = W[attempts] /\ now <= phase.at /\ phase.at <= Deadline
        /\ ~AttemptsExhausted
    BY <1>1, <1>3, <1>8 DEF StartRetry, TimelineInv, TypeOK, OnSchedule, Later, W
  <2>2. /\ config' = config /\ now' = W[attempts] /\ attempts' = attempts + 1
        /\ phase' = [kind |-> "running", at |-> W[attempts]]
    BY <1>3, <1>8, <2>1 DEF StartRetry, Later, Running, TimelineInv, TypeOK
  <2>3. TypeOK'
    BY <1>2, <1>3, <2>1, <2>2 DEF TimelineInv, TypeOK, Kinds
  <2>4. config.maxAttempts # 0 => attempts + 1 <= config.maxAttempts
    BY <1>1, <2>1 DEF AttemptsExhausted
  <2>5. OnSchedule'
    BY <1>1, <2>1, <2>2, <2>4 DEF TimelineInv, OnSchedule, W, Deadline
  <2> QED
    BY <2>3, <2>5 DEF TimelineInv
<1>9. CASE Crash
  <2>1. /\ attempts \in 1..RequiredRetries
        /\ phase.at = W[attempts - 1] /\ phase.at <= Deadline
        /\ config.maxAttempts # 0 => attempts <= config.maxAttempts
    BY <1>2, <1>9 DEF Crash, Stopped, Satisfied, TimelineInv, TypeOK, OnSchedule, W
  <2>2. /\ config' = config /\ now' = phase.at + 1 /\ attempts' = attempts
        /\ phase' = [kind |-> "awaiting", at |-> phase.at]
    BY <1>9 DEF Crash, CrashDelay, AwaitingDetection
  <2>3. TypeOK'
    BY <2>1, <2>2 DEF TimelineInv, TypeOK, Kinds
  <2>4. OnSchedule'
    BY <2>1, <2>2 DEF TimelineInv, OnSchedule, W, Deadline, CrashDelay
  <2> QED
    BY <2>3, <2>4 DEF TimelineInv
<1>10. CASE Detect
  <2>1. /\ attempts \in 1..RequiredRetries
        /\ phase.at = W[attempts - 1]
        /\ phase.at + DetectionDelay(config) <= Deadline
        /\ config.maxAttempts # 0 => attempts <= config.maxAttempts
    BY <1>10 DEF Detect, DetectAt, TimelineInv, OnSchedule, W
  <2>2. attempts \in Nat \ {0} /\ RetryInterval(config, attempts) \in Nat
    BY <1>2, <1>5, <2>1
  <2>3. W[attempts] = phase.at + DetectionDelay(config) + RetryInterval(config, attempts)
    BY <1>3, <2>1, <2>2
  <2>4. /\ config' = config /\ attempts' = attempts
        /\ now' = phase.at + DetectionDelay(config)
        /\ phase' = [kind |-> "backoff", at |-> W[attempts]]
    BY <1>10, <2>3 DEF Detect, DetectAt, Backoff
  <2>5. TypeOK'
    BY <1>3, <1>4, <2>1, <2>2, <2>4 DEF TimelineInv, TypeOK, Kinds
  <2>6. OnSchedule'
    BY <1>4, <2>1, <2>2, <2>3, <2>4 DEF TimelineInv, TypeOK, OnSchedule, W, Deadline
  <2> QED
    BY <2>5, <2>6 DEF TimelineInv
<1>11. CASE GiveUp
  <2>1. /\ config' = config /\ attempts' = attempts /\ now' = Deadline + 1
        /\ phase' = [kind |-> "done", at |-> 0]
        /\ phase.kind \in {"awaiting", "backoff"}
    BY <1>11 DEF GiveUp, Done
  <2>2. /\ attempts \in 1..RequiredRetries
        /\ config.maxAttempts # 0 => attempts <= config.maxAttempts
    BY <2>1 DEF TimelineInv, OnSchedule
  <2>3. TypeOK'
    BY <1>1, <2>1, <2>2 DEF TimelineInv, TypeOK, Kinds, Deadline
  <2>4. W[attempts] > Deadline \/ AttemptsExhausted
    <3>1. CASE phase.kind = "awaiting"
      <4>1. phase.at = W[attempts - 1] /\ DetectAt > Deadline
        BY <1>11, <3>1 DEF GiveUp, TimelineInv, OnSchedule, W
      <4>2. attempts \in Nat \ {0} /\ RetryInterval(config, attempts) \in Nat
        BY <1>2, <1>5, <2>2
      <4>3. W[attempts] = phase.at + DetectionDelay(config) + RetryInterval(config, attempts)
        BY <1>3, <4>1, <4>2
      <4> QED
        BY <1>1, <1>4, <4>1, <4>2, <4>3 DEF DetectAt, Deadline, TimelineInv, TypeOK
    <3>2. CASE phase.kind = "backoff"
      <4>1. phase.at = W[attempts] /\ now <= phase.at
        BY <3>2 DEF TimelineInv, OnSchedule, W
      <4> QED
        BY <1>1, <1>11, <3>2, <4>1 DEF GiveUp, Later, TimelineInv, TypeOK, Deadline
    <3> QED
      BY <2>1, <3>1, <3>2
  <2>5. OnSchedule'
    BY <2>1, <2>2, <2>4 DEF TimelineInv, OnSchedule, W, Deadline, AttemptsExhausted
  <2> QED
    BY <2>3, <2>5 DEF TimelineInv
<1>12. CASE UNCHANGED vars
  BY <1>12 DEF vars, TimelineInv, TypeOK, OnSchedule, Deadline, AttemptsExhausted
<1> QED
  BY <1>7, <1>8, <1>9, <1>10, <1>11, <1>12 DEF Next

\* The variables keep their types, for every grid and every number of retries.
THEOREM TypeCorrect == Spec => []TypeOK
<1>1. TimelineInv => TypeOK
  BY DEF TimelineInv
<1> QED
  BY <1>1, InitTimelineInv, NextTimelineInv, PTL DEF Spec

\* Every event of the simulation happens at the time the closed form gives it
\* (lib.rs:87-103 against lib.rs:367-406).
THEOREM TimelineOnSchedule == Spec => []TimelineInv
BY InitTimelineInv, NextTimelineInv, PTL DEF Spec

\* Where the timeline stops, attempt N + 1 has started exactly if the closed
\* form admits the configuration.
LEMMA StoppedMatchesClosedForm == TimelineInv => ClosedFormExact
<1> SUFFICES ASSUME TimelineInv, Stopped
             PROVE  Satisfied <=> PermitsRetries(config)
  BY DEF ClosedFormExact
<1> DEFINE W == WorstCaseStart(config)
           N == RequiredRetries
<1>1. config \in Config /\ config.scheduleToClose \in Nat /\ config.maxAttempts \in Nat
  BY ConfigsAssumption DEF TimelineInv, TypeOK, Config
<1>2. N \in Nat
  BY RequiredRetriesAssumption
<1>3. /\ \A n \in Nat : W[n] \in Nat
      /\ \A n \in Nat \ {0} :
           W[n] = W[n - 1] + DetectionDelay(config) + RetryInterval(config, n)
  BY <1>1, WorstCaseStartRecurrence
<1>4. InterceptorAccepts(config)
  BY DEF TimelineInv, OnSchedule
<1>5. DetectionDelay(config) \in Nat /\ DetectionDelay(config) >= 1
  BY <1>1, <1>4, MaxIntervalType DEF InterceptorAccepts, DetectionDelay, Config
<1>6. ASSUME Satisfied
      PROVE  PermitsRetries(config)
  <2>1. attempts = N + 1
    BY <1>2, <1>6 DEF Satisfied, TimelineInv, TypeOK
  <2>2. phase.kind = "running"
    BY <1>2, <2>1 DEF TimelineInv, TypeOK, OnSchedule, Kinds
  <2>3. W[N] <= Deadline /\ (config.maxAttempts # 0 => N + 1 <= config.maxAttempts)
    BY <1>2, <2>1, <2>2 DEF TimelineInv, OnSchedule
  <2> QED
    BY <1>1, <1>2, <1>4, <2>3 DEF PermitsRetries, Deadline
<1>7. ASSUME ~Satisfied
      PROVE  ~PermitsRetries(config)
  <2>1. /\ attempts \in 1..N
        /\ W[attempts] > Deadline \/ AttemptsExhausted
    <3>1. CASE phase.kind = "done"
      BY <3>1 DEF TimelineInv, OnSchedule
    <3>2. CASE phase.kind # "done"
      <4>1. now > Deadline
        BY <1>7, <3>2 DEF Stopped
      <4>2. phase.kind = "awaiting"
        BY <1>1, <3>2, <4>1 DEF TimelineInv, TypeOK, OnSchedule, Kinds, Deadline
      <4>3. attempts \in 1..N /\ W[attempts - 1] + 1 > Deadline
        BY <4>1, <4>2 DEF TimelineInv, OnSchedule, CrashDelay
      <4>4. attempts \in Nat \ {0} /\ RetryInterval(config, attempts) \in Nat
        BY <1>1, <1>2, <4>3, RetryIntervalType
      <4>5. W[attempts] = W[attempts - 1] + DetectionDelay(config)
                            + RetryInterval(config, attempts)
        BY <1>3, <4>4
      <4>6. W[attempts - 1] \in Nat
        BY <1>3, <4>4
      <4>7. W[attempts] > Deadline
        BY <1>1, <1>5, <4>3, <4>4, <4>5, <4>6 DEF Deadline
      <4> QED
        BY <4>3, <4>7
    <3> QED
      BY <3>1, <3>2
  <2>2. CASE W[attempts] > Deadline
    <3>1. W[attempts] <= W[N]
      BY <1>1, <1>2, <2>1, WorstCaseStartMonotone
    <3>2. W[attempts] \in Nat /\ W[N] \in Nat
      BY <1>2, <1>3, <2>1
    <3> QED
      BY <1>1, <2>2, <3>1, <3>2 DEF PermitsRetries, Deadline
  <2>3. CASE AttemptsExhausted
    BY <1>1, <1>2, <2>1, <2>3 DEF AttemptsExhausted, PermitsRetries
  <2> QED
    BY <2>1, <2>2, <2>3
<1> QED
  BY <1>6, <1>7

\* The closed-form check and the simulation agree, for every configuration the
\* model takes the interceptor to accept and every number of required retries.
THEOREM ClosedFormIsExact == Spec => []ClosedFormExact
BY InitTimelineInv, NextTimelineInv, StoppedMatchesClosedForm, PTL DEF Spec

\* A configuration the closed form admits never stops short of attempt N + 1:
\* the property the Rust model checks over its strict grid.
THEOREM StrictPermitsRetries == StrictSpec => []AcceptedPermitsRetries
<1> DEFINE StrictInv == TimelineInv /\ PermitsRetries(config)
<1>1. InitFrom(StrictConfigs) => StrictInv
  BY InitTimelineInv
     DEF InitFrom, StrictConfigs, Init, CurrentConfigs, PermitsRetries
<1>2. StrictInv /\ [Next]_vars => StrictInv'
  <2>1. [Next]_vars => config' = config
    BY DEF Next, vars, StartFirst, StartRetry, Crash, Detect, GiveUp
  <2>2. PermitsRetries(config) /\ config' = config => PermitsRetries(config)'
    OBVIOUS
  <2> QED
    BY <2>1, <2>2, NextTimelineInv
<1>3. StrictInv => AcceptedPermitsRetries
  BY StoppedMatchesClosedForm DEF ClosedFormExact, AcceptedPermitsRetries
<1> QED
  BY <1>1, <1>2, <1>3, PTL DEF StrictSpec

=============================================================================
