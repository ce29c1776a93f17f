# Formal models of 100-temporal-mistakes

TLA+ models of the code in this repository, the TLC runs that check them and the
theorems TLAPS proves about them. Paths are those of the repository. The
modules say what the code does; where a document, a comment or a test says
otherwise, section 7 says so.

Check a run with `tlc -config <cfg> <module>`, proofs with `tlapm <module>`.
`PROJECT.json` lists components, runs, faults (mutants), theorems and hazards,
and maps every definition to the lines it translates.

## 1. The system

The repository collects mistakes made with Temporal workflows and the code that
avoids them: small snippets under `src/`, larger examples under `examples/`,
helpers under `internal/`, and one specification with a model of its own under
`specs/`. Temporal itself (the service and the SDKs) is not in the repository.
The models treat it as external, as the code in the repository uses it.

| Component | State | Operations | Hard to get right |
|---|---|---|---|
| Activity policy interceptor, Go, workflow side (`examples/go/activitypolicyinterceptor/interceptor.go`) | the options of the deployed worker; through the SDK, the history of the workflow | `ExecuteActivity`, `ExecuteLocalActivity`, `evaluatePolicies`, `handleViolations` | the verdict is part of the workflow's determinism: a replay under other options must produce the commands of each recorded task and no other; logs on replay; boundaries of the budget |
| The same, activity side, with `internal/activityhelpers/heartbeat.go` | goroutine, ticker, two contexts | `activityInbound.ExecuteActivity`, `AutoHeartbeat`, its cancel | the goroutine against the return of the activity; late ticks; cancellation by the answer to a heartbeat |
| Interceptor, Python (`examples/py/activitypolicyinterceptor`) | an asyncio task per attempt | the same rules, `_heartbeat_loop` | must agree with Go for every call; the task must be over before the result is delivered |
| Timeline model, Rust (`specs/activitypolicyinterceptor/model`) | one configuration, clock, phase | start, crash, detect, back off, give up | simulation and closed form must agree, to the millisecond |
| HTTP, retry and idempotency helpers (`internal/activityhelpers`) | none | `GetNextRetryDelay`, `HTTPResponseError`, `classifyHTTPTransportError`, `GetIdempotencyToken` | float overflow, Retry-After in three forms, what is retryable, keys that must not collide |
| Payments (`examples/go/payments`) | workflow, attempts, requests in flight | `PurchaseItem`, `ChargePayment` | overlapping attempts and one charge; one hour of retries |
| Error mapper (`examples/go/errormapperinterceptor`) | the chain of mappers | `ExecuteActivity`, four mappers | order of the mappers, causes, cancellation inside another error |
| Resumable activity (`src/not_using_activity_heartbeat_details`) | progress in heartbeat details | the loop over the records | crash between two records, attempts that overlap, details that others overwrite |
| Kubernetes Job (`examples/go/kubernetes`) | a Job in the cluster, attempts at starting it, the workflow's answer | `StartKubernetesJob`, `AwaitKubernetesJob`, `RunKubernetesJob` | attempts that overlap; a Create whose answer is lost; the Job deleted or another's under its name; conditions that are not true |
| Purchase with refund, child workflows (`src/not_using_disconnected_context_for_cleanup`, `disconnected_child.go`, and the snippets on close policies and child starts) | selector of shipment, deadline and cancellation; a child | the workflow functions; the service's close policies | cancellation and termination between any two steps; an answer that comes too late; a parent gone before its child has started |
| Soft timeout (`src/assuming_workflow_timeouts_allow_graceful_cleanup`) | timer, child, compensation, clock | `getSoftTimeout`, both workflow functions | the service's timeout ends the execution without another step of its code |
| Waits, ordered updates, draining, subscription (`src/*`) | inbox, handler variable, answers | one workflow function each | signals that race the close; updates in any order, several to a task; crashes inside a task |
| Side effects, environment, clock, shared state, versioning (`internal/workflowhelpers`, `src/*`) | markers in history, the worker process | one read, or one helper called repeatedly | eviction at any point; a replay in a process with another environment, counter or build |
| Durable requests; snippets on payloads, worker options, observability, structure; test helpers; documents | none | single SDK calls | - |

How they interact: the workflow calls `workflow.ExecuteActivity`, the interceptor
evaluates the call and either forwards it or settles the future with a
`PolicyViolationError`; the service schedules what was forwarded and retries it;
each attempt runs inside the inbound interceptors, which heartbeat for it and
rewrite its errors; inside, the activity uses the HTTP helpers to talk to an
API, and its error decides with the retry policy when the service tries again.
Both interceptors and the Rust model implement one specification,
`specs/activitypolicyinterceptor/README.md`.

What makes each part correct:

- interceptor: a call it lets through is retried as often as configured, whatever
  mixture of failures it meets; it refuses no call that would be; a replay meets
  the history; each violation is reported once and by the deployment that judged it.
- heartbeats: no attempt that is alive is taken for dead; none is recorded once
  control is back at the worker; cancellations arrive.
- twins: Go, Python and Rust agree.
- payments: at most one charge, one for each completed purchase, none for a
  rejected one; an outage shorter than the hour is survived.
- error mapper: what cannot succeed is not retried, the rest is, and causes and
  cancellations survive.
- resumable activity: nothing skipped, nothing that was reported repeated.
- workflow functions: a purchase that is over is shipped or being refunded; a
  soft timeout leaves room to compensate; what is canceled ends; the newest
  update wins and no signal is lost; a replay reads what was acted on; a Job is
  started once and its result is its own.

## 2. Modules

| Module | Models | State and actions against the code |
|---|---|---|
| `NatRecursion` | - | Existence of recursive functions on the naturals, and induction on them, for proofs. |
| `RetryTimeline` | `model/src/lib.rs` | `config, now, attempts, phase` are the fields of the Rust `State`; `StartFirst`, `StartRetry`, `Crash`, `Detect`, `GiveUp` are the arms of `actions`/`next_state`. `PermitsRetries` is `permits_two_retries_under_crash_at_1ms` with any number of retries, `InterceptorAccepts` is `interceptor_accepts`. |
| `PolicyRules` | `evaluatePolicies` and what it calls | Pure operators on one call; durations in words of `DurationBits` bits. `Grow` cuts an interval to Go's unit. |
| `ActivityPolicyInterceptor` | the outbound interceptor in a workflow's life | `ExecuteActivity`, `ExecuteLocalActivity` (with defaulting, evaluation, logging, rejecting or forwarding), `Finish` (the workflow function returns); external: `ReportTask` (the code can do no more, and the task's commands are recorded), `CompleteActivity`, `Restart` (a worker is lost, the next one carries a deployment and replays). `Replaying` says that the code is in a recorded task: `Forward` must then meet the next recorded command (`Owed`), and a call too many blocks the workflow as a missing one does. |
| `GuardedActivity` | the verdict against the service | `ExecuteActivity` as the interceptor; external: `StartAttempt`, `Crash`, `Fail`, `Complete`, `Retry`, `TimeOut`. |
| `PythonPolicyRules`, `PolicyTwins` | Python's rules; both languages on one call | `PyGrow` rounds an interval to the nearest microsecond, as `timedelta` does. `GoSchedule`, `PySchedule` fill in what each made of the call. |
| `HeartbeatContract` | abstract: what auto-heartbeating promises | `Begin`, `Uncover`, `End`, `Beat`, `LateBeat`, `Tick`. |
| `AutoHeartbeat` | `heartbeat.go` and the inbound interceptor, Go | `NewTicker`, `SelectTick`, `RecordHeartbeat`, `SelectDone` are the goroutine's steps between two points where another can run; `Return` is the deferred cancel; `RequestCancel`, `CancelContext`, `Tick` external. |
| `PythonAutoHeartbeat` | `_heartbeat_loop` and `execute_activity` | steps between two awaits; `finally` cancels the task, `return` awaits it. |
| `ResumableActivity` | the activity that resumes from its heartbeat details | `Start`, `ProcessRecord`, `RecordProgress`, `ReturnAtEnd` per attempt; `AutoBeat` is the helper beside it; `Deliver`, `TimeOut`, `Crash` external. |
| `ActivityHelpers` | `retry.go`, `http.go`, `idempotency.go` | Pure operators on durations of which `MaxDuration` is the largest. The outcome of a float conversion out of range is a choice (`overflown`). |
| `PurchaseOptions` | the activity options of `PurchaseItem` | - |
| `PurchaseTimeline` | one `ChargePayment` on the clock | `Refused`, `Unreachable`, `Answered` are the ways `Do` and `HandleResponse` end; `NoAnswer`, `NextAttempt` external. |
| `Payments` | purchases, attempts, requests, API | `PurchaseItem`, `PurchaseItemPanics`, `SendCharge`, `BuildFails`, `TransportFails`, `HandleResponse`; external: `TimeOut`, `Crash`, `RetryTask`, `Repeat`, `Conflict`, `Receive`, `Finish`. |
| `ErrorMapper` | the interceptor and its mappers | `ExecuteActivity` runs the chain on the returned error; `RequestCancel`, `ReportError`, `RetryMapped` external. |
| `WorkflowExecution` | a workflow execution | `fn`, `canceled`, `outcome`; `Close`, `RequestCancel`. The next five extend it. |
| `SoftTimeout` | both functions of the soft timeout snippet | `BeginWaiting`, `RejectTimeout`, `Succeed`, `BeginCompensating`, `CompensateActivity`, `ReturnError` are the stretches of code between two waits; `getSoftTimeout` is the function; external: `Tick`, `HardTimeout`, `ChildEnds`. |
| `ChildWorkflows` | the purchase (`PurchaseItemV1`, `PurchaseItemV2`), `StartDisconnectedChildWorkflow`, and the two snippets on children | `ScheduleShipment`, `ReturnShipped`, `GiveUpV1`, `GiveUpV2`, `ReturnPurchaseError`, `ExecuteChildWorkflow`, `ReturnStarted`, `ReturnChildResult`, `ReturnChildCanceled`; external: the shipment's attempts and answers, the child's start and end, `Terminate`, and what a close policy does (`Abandoned`, `CancelRequested`, `Terminated`). |
| `Messages` | waits, updates, draining, subscription | `WaitV1`, `WaitForStatusUpdate`, `WaitV2`; `Update` is validator and handler of one update, `CompleteUpdateTask` and `CrashInUpdateTask` end the task it ran in, `Replayed` is what a replay leaves in the handler's variable; `DrainSignals`, `ContinueAsNew`, `CloseRejected`; `Subscribe` ends by `AgedOut` (canceled before its first task, which resolves the timer at once), `SignalThenSuggested` or `PendingRunsOut`. |
| `Replays` | reads of the world outside | one operator per function, of what it acts on and the marker it leaves; `Read`, `Replay`; `Evict` is the loss of the cached execution. |
| `KubernetesJob` | activities and workflow of the Kubernetes example | per attempt `CreateJob`, `GetJob`, `RequestFails`; `PollJob`, `AnswerLost`; `ReturnResponse`; external: the cluster's `UpdateJob`, `DeleteJob`, `OtherCreate`, the service's `StartAttempt`, `StartAnswered`, `Expire`. |
| `WorkflowCode` | the five together, as a worker with all functions registered | an execution's function decides which module's actions are its own |
| `MC*` | values of the constants; `MCPolicyVerdicts` and `MCActivityErrors` put two modules' questions in one run | |
| `*Proofs` | theorems and proofs | section 6 |

`PolicyRules` is used by `ActivityPolicyInterceptor`, `GuardedActivity` and, with
its Python twin, `PolicyTwins`, which also instantiates `RetryTimeline` for the
closed form. `ActivityHelpers` is used by `ErrorMapper` and by `PurchaseTimeline`
and `Payments`, which share `PurchaseOptions`. `AutoHeartbeat` and `PythonAutoHeartbeat` are shown to implement
`HeartbeatContract`, with `LateBeats` of one and of none: `Covered` attempts map
to `"covered"`, the time since the last heartbeat to `sinceBeat`.

Operators introduced as "A fault" are not the code's: each is a plausible bug, and
putting it in the place of the definition it stands before violates a property
of the run it is listed with. They are there to show that the properties can
fail.

## 3. Abstractions

- Durations: Go's units in `PolicyRules` and the modules that use it, milliseconds in
  `RetryTimeline`, seconds in the helpers, unitless ticks in the heartbeat modules.
  `Second`, `Millisecond` and `Microsecond` say how many of Go's units those are: 10^9,
  10^6 and 10^3 in the code; 10^5, 100 and 10 in `policy_verdicts`, where the two
  languages round differently; a thousand to the second elsewhere. The theorems hold
  for any. Coefficients are in tenths (`PolicyRules`) or whole (`ActivityHelpers`).
- `math.Pow` and Python's `**` are exact: what a float loses of an interval before it
  is cut or rounded is left out.
- `DurationBits` is the width of `time.Duration` in the rules: 64 in the code, 30 in
  the runs (TLC's integers have 32 bits). `MaxDuration`, the largest in the helpers, is
  4095 in the runs, so that the retry delay overflows within thirteen attempts.
  `MaxSeconds` is the most a Retry-After header can say in seconds: 2^32 - 1 in the
  code, 2000 in the runs, where a hint of 4000 seconds is malformed and a date as far
  away is not. More seconds than that, 136 years, are taken to name no instant.
- Calls whose worst case is no duration (`FitsDuration`; 292 years in the code) are
  left out of `GuardedActivity` and `PolicyTwins`.
- A history is the sequence of the activity commands; of the workflow tasks it says
  where the recorded ones end. Code that makes its calls in turn is in a recorded
  task until it has met the last recorded command, since it then waits for a result,
  or has ended; code that fans out makes all its calls in its first task, which is
  recorded as soon as there is a history. `done` says which activities have
  completed. A workflow that fans out makes no local calls.
- The calls of a workflow differ in their activity types: the SDK tells recorded
  commands apart by those, and not by their options.
- A workflow task is recorded when the code can do no more. That the SDK reports one
  earlier, to keep it alive during a long local activity, is left out.
- IDs are sequences of letters; the hash of a token is taken to be free of
  collisions (the token is the hashed string).
- An error is the chain of what it wraps; texts and details are left out.
- Nil and zero retry policies are one value: the Go code reads them alike.
- The soft timeout's clock ticks every 30 seconds, the purchase's every hour.
- An update's ULID is a number, of which only the order matters, with 0 for the
  empty string. A generated ULID is new.
- Environment, clock and the answer of a service are one variable in `Replays`: a
  value that another process may find different.
- A workflow task that closes an execution is one step, since the service refuses
  a close that has not seen every event; in `Drain`, where the redone task is what
  matters, it is two.

## 4. Runs

States are distinct states. "Deadlock" is not checked where the modelled system
stops when it is done; the liveness properties say that it gets there.

| Run | Question | Bounds, and why they are enough |
|---|---|---|
| `timeline_exact` | Does the simulated timeline reach its last attempt exactly when the closed form says so? | Three retries, so that a policy of three attempts runs out of them; the Rust grid's steps, with budgets around the boundaries. 19,086 states. The theorem covers the rest. |
| `interceptor` | When does a replay break, what does the log tell, is a failure explained, does the workflow end? | Workflows of one or two calls in three styles: a second call is needed for commands in one task, gaps and order; seven calls on both sides of every policy; seven deployments, of which one has a logger of its own; one lost worker, at any point, and any deployment with the next. `kept` remembers whether the deployments so far have kept the verdicts: what needs that has it as a premise. 82,305 states. |
| `guarded_activity_late_crash` | The same whenever the worker crashes (violated). | crashes at once or after 2.5 s |
| `policy_verdicts` | Do Go, Python and the Rust closed form agree; is what the interceptor accepts really retried, and what it refuses really too short? | Some ten thousand calls for the first: every field missing, zero, and at either side of a boundary, and, with coefficients of 1.1 and 1.3 on a millisecond, at the sum and one and four microseconds from it; three maps of severities; 0, 2, 3 retries. For the second, budgets at, and one millisecond below, the boundary for one, two and three retries; failures at 0, 1, 2.5 s, 4 s, 9.999 s and 10 s, 30 s; four attempts if there is no deadline. 459,414 states. |
| `go_heartbeat` | Does the Go helper keep the contract, does its goroutine exit, do cancellations arrive? | Timeouts 0 (the default cadence), 14 and 15 (even and odd: the halving rounds); latency 2, the most a half of 14 has room for; every interleaving in time. 8,726 states. |
| `py_heartbeat` | The same for Python, with no late heartbeat. | Timeouts 0, 10, 14 in half units. 2,616 states. |
| `resumable_activity` | Crashes, timeouts, overlapping attempts, heartbeats held back and lost: is any record skipped, is a reported one repeated? | Three records (a first, a middle, a last), three attempts, with the auto-heartbeat helper beside them or not (`autoHeartbeat`, fixed by `Init`); the last one's worker does not crash, or nothing could complete. 506,187 states. |
| `activity_errors` | Who is retried, and do cancellations get through; are the API's hints kept, outages survived, and the delays the service's? | Every error bare, in a `url.Error` where a transport puts it there, and wrapped; the default chain alone, and with gRPC's mapper after and before; three attempts. Outages of 90 s and of 3510 s, the boundary 3600-30-60 of the property; hints of -60, 0, 1800, 4000 s as seconds and dates, of which 4000 is more than can be said in seconds; three policies; attempts fail at once or take the full 30 s. 952,898 states. |
| `payments` | Is a purchase charged once, has a completed one its own charge, is a rejected one not charged, does it end? | Two purchases whose IDs concatenate to the same letters, and one of an unknown SKU; two attempts each, which may overlap with each other and with their requests; an API that lets a repeated key wait, or answers it with a conflict (`setting`, fixed by `Init`). 618,400 states. |
| `workflow_code` | Do compensations, refunds, messages, reads and Jobs come out as the workflow functions promise, and do canceled executions end? | Padding of 2 ticks and timeouts of 1, 3, 6 and 8 with what earlier runs used of them: too small for the padding, too small for the child, and enough. All twelve hours of the deadline. Three signals and four updates out of four IDs (equal, older, newer, and the empty one), in up to four tasks; two environments' values and the empty one, three reads; three attempts at starting a Job, two Jobs, two conditions: enough for one attempt to be late, one to lose its answer and one to count. 326,573 states. |
| `cleanup_child` | Does the child run independently of its parent (violated)? | as above |
| `subscription` | Does the subscription go on (violated)? | two signals |

An inductive invariant is not an invariant of a run as well: TLC would check on a
few values what is proved for all (section 6).

The bounds are named: `MaxRestarts`, `MaxAttempts`, `RecordIDs`, the sets of calls,
workflows, deployments, failure times, outages and hints, `DurationBits`, and in the
workflow functions `Horizon`, `MaxSignals`, `MaxAnswers`, `MaxReads`, `MaxCount`,
`MaxConditions` and `MaxUID`.

## 5. Fairness

Fairness is weak and only on what the code, its runtime or the service keeps on
doing:

- the workflow worker runs the workflow's code and reports the task, activities
  that were scheduled complete (`ActivityPolicyInterceptor`); losing a worker is
  bounded and not fair;
- the Go runtime runs a goroutine that can run, and time passes; an activity is
  started. An activity is never assumed to return, nor a cancellation to be
  requested (`AutoHeartbeat`, `PythonAutoHeartbeat`);
- the service's timers fire, which gives each attempt an end even if its worker
  never answers (`GuardedActivity`, `Payments`, `ResumableActivity`). The payments
  API is not fair: it may never answer.
- a workflow task that is due is done, since workers poll for it, and the service
  and a child carry out what is requested of them (`WorkflowCode`). Shipments, the
  soft timeout's child, signals, the cluster and the clock are not fair.
- in `ResumableActivity` the last attempt's worker does not crash and runs on.

## 6. Proofs

All are for every value of the constants under the modules' assumptions: sets of
configurations, calls, workflows, deployments and purchases of any size and any
bound on attempts and restarts. With these theorems every safety property and
both refinements that a passing run checks are proved; the liveness properties
are checked only.

**`RetryTimelineProofs`.** `TimelineInv == TypeOK /\ OnSchedule` is inductive:
`OnSchedule` says where the closed form puts every attempt, crash, detection and
backoff, which `ClosedFormExact` alone does not. It needs the recurrence of
`WorstCaseStart`, a recursive function: that such a function exists is proved in
`NatRecursion` by induction on sets of naturals. Theorems: `TypeCorrect`,
`TimelineOnSchedule`, `ClosedFormIsExact` (the simulation and the closed form
agree for any N, budget and policy), `StrictPermitsRetries` (what the closed form
admits gets to its last attempt).

**`PolicyVerdictsProofs`.** What a verdict is worth, in three parts.

- The arithmetic. `DueOf(w, n)` is the sum of n detection delays and n retry
  intervals over the integers; `MinScheduleToCloseIsDue` shows that what the code
  computes in words is that sum, as long as the worst case is a duration
  (`FitsDuration`), through lemmas on `Power`, `Grow`, `retryInterval` and
  `minScheduleToClose`, each by induction on a set of naturals.
- The budget. `BudgetInv` is inductive: while every failure was known within the
  detection delay, the clock is not past `Due`; while every one took the delay, it
  is not before it. `AcceptedIsRetried` and `WarnedWouldNotBeRetried` follow from
  the two halves. Assumed are timeouts that are not negative, which the service
  refuses, and `FitsDuration`.
- The twins. `TwinsAlwaysAgree` compares the verdicts, entries and forwarded
  heartbeats rule by rule, for calls without an explicit zero timeout. Each language
  has its own rounding: `PyIntervalIsNear` puts Python's interval within a microsecond
  of Go's (and at it for a whole coefficient), `PyMinScheduleToCloseIsNear` the sum
  within one per retry. Hence the premise `~RoundingMayDecide`: a whole coefficient,
  or a budget further than that from the sum. Inside it the verdicts differ (section
  7, 17).
- The Rust model. `TimelineAlwaysAgrees` compares the sum with `WorstCaseStart`, which
  is in milliseconds and rounds an interval before it grows further: never above the
  sum, and equal to it for a whole coefficient. The sum in Go's unit is taken to the
  coarser one by `SameInLargerUnit`, `LargerUnitIsLower` and `LargerUnitWaitsLess`,
  for any `Millisecond` that measures the call.

**`ActivityPolicyInterceptorProofs`.** Four invariants.

- `Inv`, the types and, as long as `kept` holds, `ReplayInv`: the recorded and
  pending commands are the calls the deployed options forward, in order; no
  forwarded call is left out; after an error nothing follows. The step of interest is
  `Restart`: a deployment that keeps the verdicts (`KeepsVerdicts`) keeps all of
  this although the options that produced the history are gone. Theorems:
  `TypeCorrect`, `ReplaysFollowHistory`, `SafeDeploymentsReplay`.
- `JudgeInv`, for any sequence of deployments: `OrderInv` says that commands are in the
  order of the calls, that those produced since the code last started are the ones
  the deployed options do not reject, and that code that returns the first error
  leaves no gap. `FanSettled` adds that code that fans out has no command to report
  once its task is recorded. A replay is stuck only if some call of a recorded
  task has another verdict under the deployed options: a recorded one that is
  rejected now, or a rejected one that is forwarded now, before the last recorded
  command or, in code that fans out, after it. From it `ReplaysTestTheOptions`.
- `LogInv`: each warning owed for a command is in the log, whoever replays it, and
  while verdicts are kept what was logged as rejected is rejected by the options
  now deployed. From it
  `WarningsAreLogged`.
- `ExplainedInv`: a rejection that is not being replayed is explained by the entries
  logged last. `CanonicalListing` proves that sorting the policies of an error
  loses none and invents none. From it `FailuresAreExplained`.

**`HeartbeatProofs`, `PythonAutoHeartbeatProofs`.** `CadenceInv`, the types and
`OnCadence`, is inductive: where the goroutine is bounds the time since the last
heartbeat through the ticker's phase. From it follow `NoAttemptTimesOut` and the
refinement `ImplementsContract`, one step at a time. Assumed is that the cadence
has room for three (Python: two) latencies.

For the activity that resumes, `ProgressInv`, the types and `DetailsVouched`, is
inductive: every number that an attempt, a held heartbeat or the service has
vouches for the records up to it. `NoRecordSkipped` follows. For `ReportedOnce`,
`AheadInv` says that without the helper the service's details only grow, since
what a former attempt sends is refused, and that the current attempt is ahead of
them.

**`PaymentsProofs`.** For the purchases, `Inv` adds to the types: every request and
answer carries the key of its purchase (`Keyed`); a key being worked on has no
result yet and is worked on once, charges and results correspond (`Ledger`);
answers repeat a result or are conflicts of an API that has those; a workflow's
end has the answer it came from (`EndsRecorded`). `TokenInjective` proves that
delimited keys of IDs without NULs are equal only for equal IDs, from facts about
concatenation. Theorems: `TypeCorrect`, `LedgerAgrees` (the invariant),
`NoDoubleCharge`, `CompletedHasCharge`, and `RejectedNotCharged`, whose property is
about an API without conflicts.

For the error mapper, `MapperInv` ties the reported error to what the mappers made
of the code's. `CancellationAlwaysSurvives` needs nothing of the mappers' order:
each keeps the causes of what it rewrites. `AlwaysRightlyRetried` has the
hypothesis that every chain lists `net/url` after the mappers of what a `url.Error`
wraps (`MoreSpecificFirst`, "more specific packages come first",
`errormapperinterceptor/interceptor.go:167`), and `DefaultMappersInOrder` proves it of the default chain, with gRPC's
mapper before or after. `WrappingAssumption` says of the libraries that no error
wraps one with another reason than its own.

For one purchase on the clock, `ClockInv` is inductive: no attempt is running before
the API asked for, the wait that was chosen takes the clock there, and an outage is
given up on only at the end of the hour. The delays are those of the helpers by
lemmas on `Grown` (`GrownRecurrence`, `GrowsFaster`): `HelperDelay` and
`ServiceInterval` say what `calculateNewRetryDelay` and the service make of a growth
that may exceed a duration, `HelperMirrorsService` that they agree under a maximum
interval, `FloorBacksOff` that the larger coefficient of a 429 waits longer.
Assumed is that a policy has no negative interval, which the service refuses, and
that an hour is a duration. `RateLimitAlwaysBacksOff` has the hypothesis
`DefaultCapUnderAnHour`: without a maximum interval an overflow makes the helper
fall back to one hour, on some builds, and the service's default cap, 100 initial
intervals, must be shorter than that for the helper to back off.

**`WorkflowCodeProofs`.** One argument per module, each over that module's own
specification, for any timeouts, padding, signals, updates, reads, attempts and
Jobs:

- `PurchaseSettled`: `RefundInv` says when the refund has been asked for and that
  nothing takes it back; the close policy enters in `CloseParentKeeps`, for every
  way a parent can close.
- `SoftTimeoutLeavesRoom`: `SoftInv` bounds the clock by the ticks in which a task
  was due and the timer's length; `CutOffLeavesTimeout` says how long the service
  leaves the execution whichever timeout it was given.
- `NoSignalLost`: what Drain has applied and what is in its inbox are the recorded
  signals in order, through appending, receiving and draining
  (`InOrderSent`, `InOrderReceived`, `InOrderDrained`).
- `NewestAlwaysWins`: `UpdatesInv` says that the handler's variable is the newest
  update accepted among those recorded and those of the task in progress, and that
  each was judged by the ones before it; a crash leaves the recorded ones, and the
  replay their newest.
- `ReadsAlwaysHold`: `ReplaysInv` says what each read was (`Kept`: recorded by its own
  marker or an earlier one's, of a value that does not change, or of the code's
  version) and that a replay has read the same so far.
- `JobIdentity`, `JobResult`: `JobInv` says that whoever has seen a Job finds the
  same one again unless it was deleted; `TerminalStatusIsAnEnd` that the status
  polled is one the Job's conditions have (there is a first such condition, by
  `LeastNatural`).

Only model-checked: the liveness properties (`EventuallyCloses`, `GoroutineExits`,
`CancellationReaches`, `ResultIsReturned`, `EndsOnceAccepted`,
`EventuallyCompletes`, `PurchasesEnd`, `ChildrenSurvive`, `CancelEnds`): they rest on
fairness, hence on ENABLED, which the prover does not handle.

## 7. Where code and documents differ

Three are runs that TLC finds violated; `PROJECT.json` quotes the lines.

1. `guarded_activity_late_crash`: with a heartbeat timeout the crash at the start
   of an attempt is not the worst case: one in the middle is detected later.
2. `cleanup_child`: the child that has been waited for to start is terminated when
   its parent returns, by the default close policy.
3. `subscription`: `HasPending` is false on the first workflow task, so that the
   loop is over before its timer is ever waited for.

The others were met while translating the code. The properties are stated beside
them, with the premise that leaves them out:

4. `interceptor_accepts` (`model/src/lib.rs:50`) still uses the 2.1 ratio, and no
   budget rule with a heartbeat; it "mirrors" an interceptor that has since moved
   to the closed form (`MeetsRatio`, `InterceptorAccepts`; the theorem
   `StrictPermitsRetries` is about the strict search).
5. A logger in `Options.Logger` writes again on each replay
   (`interceptor.go:287`); only the workflow's own knows of replays
   (`WarningsLogged` asks for an entry, not for one alone).
6. The auto-heartbeat helper's heartbeats carry no details and replace the
   activity's own (`heartbeat.go:38`): under it a retry may start over
   (`ReportedNotRepeated` is about activities without it).
7. `GetNextRetryDelay` has no default for the maximum interval (`retry.go:75`), as the
   service has (`MirrorsServiceWhenCapped`).
8. 409 is not retried (`http.go:193`), so that a retry which overlaps its first request
   fails a purchase that is then charged, if the API answers a key in flight with
   409 (`RejectedUncharged` is about one that does not).
9. The JSON mapper shadows `err` (`errormapperinterceptor/interceptor.go:173`): the
   cause it keeps is the JSON error, without what wrapped it (`MapJSON`).
10. The Go helper's cancel does not wait, so that one heartbeat may follow the
    return (`heartbeat.go`; `AutoHeartbeat` keeps the contract with `LateBeats` of
    one, Python's with none).
11. `getSoftTimeout` reads the timeout as it was set. What earlier runs used of an
    execution timeout, and what passes before the first workflow task, comes off
    the padding (`SoftCompensated` counts both).
12. The purchase's fulfilment deadline is 12 hours
    (`not_using_disconnected_context_for_cleanup/workflow.go:106`) and the shipment's
    schedule-to-close timeout one, so that the deadline never decides; and an item
    whose answer came too late is shipped and refunded (`Settled` says so).
13. `WaitV2` returns the context's error even when the signal it waited for was
    there, and the documents' "no signal will ever be delivered" to a canceled
    workflow is not so: signals are recorded until it closes.
14. Three functions schedule an activity without `ActivityOptions`
    (`doing_work_outside_of_the_workflow` V2, `not_using_workflow_versioning`,
    `modifying_shared_state_in_workflow_code` V1), which the SDK rejects. `Replays`
    models what they read, not that rejection.
15. A Job of the same name may be another run's, and a deleted one may be
    replaced: the UID that was answered is then not that of the Job waited for
    (`SameIdentity` and `ResultIsOfItsJob` are about Jobs that are not deleted).
16. `GetVersion` protects executions from newer code only: a build that goes back
    makes a replay read the old version where the new was recorded (`Evict` lets
    builds go forward).

17. With a fractional coefficient Go cuts each retry interval to a nanosecond
    (`interceptor.go:421-425`) and Python rounds it to a microsecond
    (`activitypolicyinterceptor.py:243-246`), although both implement requirement 16.
    Initial interval 1 ms, coefficient 1.1, five retries, a start-to-close timeout d
    and a schedule-to-close timeout of 5d + 6.105 ms: Go rejects the call, which
    needs 5d + 6.1051 ms, and Python accepts it. `TwinsAgree` leaves out budgets
    within a microsecond per retry of the sum, for those coefficients.
18. Requirement 13 accepts any maximum of attempts from three on, requirement 15
    promises `RequiredRetries` retries: with three attempts and more than two retries
    the code follows the former (`interceptor.go:346`; `RetriesPermitted` is about
    calls whose attempts suffice).

A deployment that moves a policy between Ignore and Warn keeps the verdicts but
can change the `policies` a replayed error names; workflow code that branches on
them is outside `SafeDeploymentsReplay`.

## 8. Plan

In order of what the repository's code is for; 1 to 11 are built.

1. `RetryTimeline`, its closed form and its proof.
2. `PolicyRules`, `ActivityPolicyInterceptor`: verdicts, history, replay; proof.
3. `HeartbeatContract`, `AutoHeartbeat`, `PythonAutoHeartbeat`; refinement proofs.
4. `GuardedActivity`: the verdict against the service.
5. `PythonPolicyRules`, `PolicyTwins`.
6. `ResumableActivity`.
7. `ActivityHelpers`, `PurchaseTimeline`, `Payments`; proof.
8. `ErrorMapper`.
9. `WorkflowExecution` and the workflow functions on it: `SoftTimeout`,
   `ChildWorkflows`, `Messages`, `Replays`, `KubernetesJob`, together in `WorkflowCode`.
10. Proofs for the workflow functions and for `ResumableActivity`.
11. Further proofs: the budget's guarantee and its exactness, the twins and the Rust
    closed form; what a replay shows of the options, the log and the explanation of
    failures; the mappers' verdicts; hints, outages and delays of a purchase; ordered
    updates and reads of the world outside.

## 9. Not modelled

- Texts of logs and errors, details, and the gRPC mapper's RetryInfo delay: no
  property is about them yet.
- Constructors' validation of options, the Rust command line, the loader of the
  conformance cases: configuration and I/O, without state.
- The test helpers, the replay tests and the dev server: they drive the SDK.
- The snippets on payload design, worker options and observability: advice
  carried by one SDK call each.
- A Python workflow's replay: the interceptor's Python code does there what Go's
  does, except that its logger is the SDK's.
- In Go, an attempt whose context was canceled and that cleans up for longer than
  its heartbeat timeout; in Python, a second cancellation during the finally.
- `doing_work_outside_of_the_workflow`: two stores are written one after the other,
  by a client (V1) or by activities (V2). Nothing in the repository reads back
  what V1 leaves half done, so that no property of the code could be stated.
- `starting_workflows_from_activities`, `wrapping_a_queue`, the polling activity of
  `writing_polling_loops_in_workflow_code`: a single call, or one in a loop, to a
  service the repository says nothing of.
- The two sleeps of `using_system_time_instead_of_workflow_time`, and the panic of a
  failing side effect.
- The worker's own deadlock detector and the SDK's limits on history and payloads.
