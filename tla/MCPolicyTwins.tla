---------------------------- MODULE MCPolicyTwins ----------------------------
(* Every field of a call missing, at zero, and on both sides of each        *)
(* policy's boundary.                                                       *)
EXTENDS PolicyTwins, TLC

Milliseconds(S) == {IF n = None THEN None ELSE n * Millisecond : n \in S}

MCRetryPolicies ==
  {None} \cup
  [initial_interval : Milliseconds({None, 5000}), backoff_coefficient : {None, 10, 100},
   maximum_interval : Milliseconds({None, 6000}), maximum_attempts : {None, 2, 3}]

MCPyCalls ==
  [is_local : BOOLEAN,
   schedule_to_close : Milliseconds({None, 0, 22999, 23000, 29999, 30000, 62999, 63000}),
   start_to_close : Milliseconds({None, 0, 9999, 10000, 30000}), heartbeat : {None},
   retry_policy : MCRetryPolicies] \cup
  [is_local : {FALSE}, schedule_to_close : Milliseconds({22999, 23000, 31000, 33000}),
   start_to_close : Milliseconds({None, 0, 10000}), heartbeat : Milliseconds({0, 10000}),
   retry_policy : MCRetryPolicies] \cup
  \* Hundredfold backoff meets the default cap of a hundred intervals.
  [is_local : {FALSE}, schedule_to_close : Milliseconds({120999, 121000, 230999, 231000}),
   start_to_close : Milliseconds({10000}), heartbeat : {None},
   retry_policy : [initial_interval : {None}, backoff_coefficient : {1100},
                   maximum_interval : {None}, maximum_attempts : {None}]] \cup
  \* The third interval is 1.001 * 1.5 * 1.5 = 2.25225 seconds, or 2.251 if rounded twice.
  [is_local : {FALSE}, schedule_to_close : Milliseconds({34752, 34753, 34754}),
   start_to_close : Milliseconds({10000}), heartbeat : {None},
   retry_policy : [initial_interval : Milliseconds({1001}), backoff_coefficient : {15},
                   maximum_interval : {None}, maximum_attempts : {None}]] \cup
  \* The third interval is 1.21 or 1.69 milliseconds, of which a tenth is a microsecond
  \* here: Python rounds the sum of three down or up, and the budgets are at that sum
  \* and on both sides of it, within a microsecond per retry and outside.
  UNION {
    [is_local : {FALSE},
     schedule_to_close : {3 * 10 * Second + sum + m * Microsecond : m \in {-4, -1, 0, 1, 4}},
     start_to_close : {10 * Second}, heartbeat : {None},
     retry_policy : [initial_interval : {Millisecond}, backoff_coefficient : {tenths},
                     maximum_interval : {None}, maximum_attempts : {None}]]
    : <<tenths, sum>> \in {<<11, 330>>, <<13, 400>>}}

MCSeverities ==
  {<<>>, (TimeoutsPermitRetries :> "Warn"),
   (ScheduleToCloseRequired :> "Ignore" @@ MaxAttemptsTooLow :> "Warn")}
=============================================================================
