-------------------------- MODULE MCRetryTimeline --------------------------
(* The step values of the Rust model's default grid (lib.rs:218-249), with *)
(* budgets around the boundaries of three retries.                         *)
EXTENDS RetryTimeline

Grid(budgets) ==
  [scheduleToClose : budgets, startToClose : {1000, 2000, 5000, 10000},
   heartbeat : {0, 1000, 5000, 10000}, initialInterval : {100, 1000, 5000},
   maxInterval : {0, 60000}, coefficient : {10, 20}, maxAttempts : {0, 3, 5}]

LongGrid == Grid({7000, 22000, 33000, 37000, 50000})
=============================================================================
