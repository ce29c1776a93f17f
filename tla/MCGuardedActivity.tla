-------------------------- MODULE MCGuardedActivity --------------------------
(* Budgets at and one below what the policy asks for, in milliseconds, with *)
(* and without a heartbeat, a maximum interval and a cap on the attempts.   *)
EXTENDS GuardedActivity

Ms(n) == n * (Second \div 1000)

Regular(s2c, stc, hb, initial, maximum, max) ==
  [local |-> FALSE, ScheduleToClose |-> Ms(s2c), StartToClose |-> Ms(stc),
   Heartbeat |-> Ms(hb),
   RetryPolicy |-> [InitialInterval |-> Ms(initial), BackoffCoefficient |-> 0,
                    MaximumInterval |-> Ms(maximum), MaximumAttempts |-> max]]

\* Default intervals of 1, 2, 4 seconds: one, two and three retries of 10 second
\* attempts need 11, 23 and 37 seconds; of the default heartbeat 31, 63 and 97;
\* with intervals of 5 and at most 6 seconds, of 4 second heartbeats, 9, 19, 29.
MCCalls ==
  {Regular(s2c, 10000, 0, 0, 0, max) : s2c \in {10999, 11000, 22999, 23000, 36999, 37000},
                                       max \in {0, 3}}
  \cup {Regular(s2c, 0, 0, 0, 0, 0) : s2c \in {62999, 63000, 97000}}
  \cup {Regular(s2c, stc, 4000, 5000, 6000, 0) : s2c \in {8999, 9000, 18999, 19000, 29000},
                                                 stc \in {0, 3000, 10000}}
  \cup {Regular(0, 10000, 0, 0, 0, max) : max \in {0, 2, 3}}

MCFailureTimes == {Ms(t) : t \in {0, 1, 2500, 4000, 9999, 10000, 30000}}
=============================================================================
