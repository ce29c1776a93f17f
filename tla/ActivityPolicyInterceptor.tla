---------------------- MODULE ActivityPolicyInterceptor ----------------------
(***************************************************************************)
(* The workflow side of the Go activity policy interceptor                 *)
(* (examples/go/activitypolicyinterceptor/interceptor.go) in the life of   *)
(* one workflow execution: the workflow task that calls ExecuteActivity    *)
(* and ExecuteLocalActivity through it, the history those calls leave, the *)
(* worker that is lost and replays the history, and the deployment that    *)
(* changes the interceptor's options while the workflow is in flight.      *)
(*                                                                         *)
(* The SDK and the service are external: commands produced by a workflow   *)
(* task reach the history when the code can do no more and the task is     *)
(* reported, a lost worker loses those it has not reported, and a replay   *)
(* of a recorded task must produce its commands, in their order and no     *)
(* other.  The calls of a workflow differ in their activity types, which   *)
(* the SDK compares; it does not compare their options.                    *)
(***************************************************************************)
EXTENDS PolicyRules

CONSTANTS
  Workflows,     \* the workflow definitions: their calls and how they make them
  Deployments,   \* the interceptor options a deployment may carry
  MaxRestarts    \* bound on the losses of the worker

Loggers == {"workflow", "custom"}

PartialSeverities == UNION {[S -> Severity] : S \in SUBSET Policies}

Options == [severities : PartialSeverities, requiredRetries : Nat,
            logger : Loggers]

\* A workflow makes its calls one at a time and returns the first error, or
\* goes on after it, or makes them all before it waits for any.  A local
\* activity is waited for where it is called.
Styles == {"returns", "tolerates", "fansOut"}

Workflow == [calls : Seq(Call), style : Styles]

ASSUME ConstantsAssumption ==
  /\ Workflows \subseteq Workflow
  /\ \A w \in Workflows : w.style = "fansOut" =>
       \A i \in DOMAIN w.calls : ~w.calls[i].local
  /\ Deployments \subseteq Options
  /\ MaxRestarts \in Nat

VARIABLES
  workflow,  \* the definition, fixed by Init
  opts,      \* the options of the interceptor in the running worker
  history,   \* the commands the service has recorded, in order
  done,      \* the calls whose activity has completed
  pc,        \* the next call of the workflow code
  matched,   \* how many recorded commands the code has produced again
  commands,  \* the commands of the open workflow task
  failures,  \* the policies of the PolicyViolationErrors it was given
  outcome,   \* how the workflow code ended in the open workflow task
  closed,    \* has the service recorded the outcome?
  stuck,     \* did the replay not produce the recorded commands?
  log,       \* the entries written, by all workers
  restarts,
  kept       \* has every deployment so far kept the verdicts?

vars == <<workflow, opts, history, done, pc, matched, commands, failures,
          outcome, closed, stuck, log, restarts, kept>>

-----------------------------------------------------------------------------
(* handleViolations.                                                       *)

NonIgnored(o, c) ==
  InCanonicalOrder({p \in Violated(c, o.requiredRetries) :
                      severityFor(o.severities, p) # "Ignore"})

\* A fault: a warning rejects.
hasErrorOrWarning(o, c) ==
  \E p \in Violated(c, o.requiredRetries) : severityFor(o.severities, p) # "Ignore"

hasError(o, c) ==
  \E p \in Violated(c, o.requiredRetries) : severityFor(o.severities, p) = "Error"

Mode(o, p) == IF severityFor(o.severities, p) = "Error" THEN "fail" ELSE "warn"

\* One log entry per violation that is not ignored.
Entries(o, i, c) ==
  LET violations == NonIgnored(o, c)
  IN  [k \in DOMAIN violations |->
        [call |-> i, policy |-> violations[k], mode |-> Mode(o, violations[k])]]

-----------------------------------------------------------------------------
(* The workflow task.                                                      *)

Outcomes == {"none", "completed", "failed"}

Open == ~closed /\ ~stuck /\ outcome = "none"

\* Commands are still owed to the history.
Owed == matched < Len(history)

\* Code that fans out makes all its calls in its first workflow task: once there
\* is a history, that task is recorded.
FanRecorded == workflow.style = "fansOut" /\ history # <<>>

\* The code runs through a recorded workflow task.  One of code that makes its
\* calls in turn ends with a recorded command, whose result the code waits for;
\* the one of code that fans out, with the last of its calls.
Replaying == Owed \/ (FanRecorded /\ pc \in DOMAIN workflow.calls)

\* The calls the code has got past the interceptor since it last started.
Forwarded ==
  {history[k].call : k \in 1..matched} \cup
  {commands[k].call : k \in DOMAIN commands}

\* Does the code go on to its next call, or wait for a result?
Ready == workflow.style = "fansOut" \/ Forwarded \subseteq done

\* The workflow's own logger is silent while replaying; a logger of the
\* caller's is not (interceptor.go:287-291).
Logged(entries) ==
  IF Replaying /\ opts.logger = "workflow" THEN log ELSE log \o entries

\* A replay that does not meet the next recorded command, or produces one that
\* its task does not have, blocks the workflow.
Nondeterministic ==
  /\ stuck' = TRUE
  /\ UNCHANGED <<pc, matched, commands, failures, outcome, done>>

\* Forwarded to the SDK: in a recorded task the call must be the next recorded
\* command; after those it is a new one.  A local activity runs inside the
\* workflow task.
Forward(c) ==
  IF Owed /\ history[matched + 1].call = pc
  THEN /\ matched' = matched + 1
       /\ pc' = pc + 1
       /\ UNCHANGED <<commands, failures, outcome, done, stuck>>
  ELSE IF Replaying
  THEN Nondeterministic
  ELSE /\ commands' = Append(commands, [call |-> pc, options |-> c, by |-> opts])
       /\ pc' = pc + 1
       /\ done' = IF c.local THEN done \cup {pc} ELSE done
       /\ UNCHANGED <<matched, failures, outcome, stuck>>

\* Nothing is forwarded: the future of a rejected call holds the
\* PolicyViolationError.
Reject(policies) ==
  /\ failures' = Append(failures, policies)
  /\ pc' = pc + 1
  /\ UNCHANGED <<matched, commands, outcome, done, stuck>>

\* Faults the runs must notice: a call without an error-level violation logs
\* nothing; and the error names the ignored policies as well.
ScheduleLoggingErrorsOnly(c) ==
  /\ log' = IF hasError(opts, c) THEN Logged(Entries(opts, pc, c)) ELSE log
  /\ IF hasError(opts, c) THEN Reject(NonIgnored(opts, c)) ELSE Forward(c)
  /\ UNCHANGED <<workflow, opts, history, closed, restarts, kept>>

ScheduleNamingIgnored(c) ==
  /\ log' = Logged(Entries(opts, pc, c))
  /\ IF hasError(opts, c)
     THEN Reject(evaluatePolicies(c, opts.requiredRetries)) ELSE Forward(c)
  /\ UNCHANGED <<workflow, opts, history, closed, restarts, kept>>

\* What both handlers do once the default heartbeat is applied.
Schedule(c) ==
  /\ log' = Logged(Entries(opts, pc, c))
  /\ IF hasError(opts, c) THEN Reject(NonIgnored(opts, c)) ELSE Forward(c)
  /\ UNCHANGED <<workflow, opts, history, closed, restarts, kept>>

Returning == workflow.style = "returns" /\ failures # <<>>

Calling == Open /\ Ready /\ ~Returning /\ pc \in DOMAIN workflow.calls

\* Faults: the policies are evaluated before the default heartbeat is applied;
\* and a replayed call is not evaluated.
ExecuteActivityDefaultingLate ==
  /\ Calling
  /\ ~workflow.calls[pc].local
  /\ LET c == workflow.calls[pc] IN
     /\ log' = Logged(Entries(opts, pc, c))
     /\ IF hasError(opts, c)
        THEN Reject(NonIgnored(opts, c)) ELSE Forward(WithDefaultHeartbeat(c))
  /\ UNCHANGED <<workflow, opts, history, closed, restarts, kept>>

ExecuteActivityTrustingReplay ==
  /\ Calling
  /\ ~workflow.calls[pc].local
  /\ IF Replaying
     THEN /\ Forward(WithDefaultHeartbeat(workflow.calls[pc]))
          /\ UNCHANGED <<workflow, opts, history, closed, log, restarts, kept>>
     ELSE Schedule(WithDefaultHeartbeat(workflow.calls[pc]))

ExecuteActivity ==
  /\ Calling
  /\ ~workflow.calls[pc].local
  /\ Schedule(WithDefaultHeartbeat(workflow.calls[pc]))

ExecuteLocalActivity ==
  /\ Calling
  /\ workflow.calls[pc].local
  /\ Schedule(workflow.calls[pc])

\* The workflow code has no call left to make and no result to wait for.  A
\* replay that is short of the recorded commands then is not a replay of them,
\* and does not come to wait.
Finish ==
  /\ Open
  /\ Returning \/ pc > Len(workflow.calls)
  /\ IF Owed
     THEN Nondeterministic
     ELSE /\ Forwarded \subseteq done
          /\ outcome' = IF failures = <<>> \/ workflow.style = "tolerates"
                        THEN "completed" ELSE "failed"
          /\ UNCHANGED <<pc, matched, commands, failures, done, stuck>>
  /\ UNCHANGED <<workflow, opts, history, closed, log, restarts, kept>>

\* The code waits for a result that has not come.
Blocked == Open /\ ~Calling /\ ~(Forwarded \subseteq done)

\* The workflow task ends when the code waits or has ended: its commands, and
\* the end of the workflow if it came to one, are recorded.
ReportTask ==
  /\ ~closed /\ ~stuck /\ ~Replaying
  /\ outcome # "none" \/ (Blocked /\ commands # <<>>)
  /\ history' = history \o commands
  /\ matched' = Len(history) + Len(commands)
  /\ commands' = <<>>
  /\ closed' = (outcome # "none")
  /\ UNCHANGED <<workflow, opts, done, pc, failures, outcome, stuck, log,
                 restarts, kept>>

\* A recorded activity completes.
CompleteActivity(i) ==
  /\ ~closed
  /\ i \in {history[k].call : k \in DOMAIN history} \ done
  /\ done' = done \cup {i}
  /\ UNCHANGED <<workflow, opts, history, pc, matched, commands, failures,
                 outcome, closed, stuck, log, restarts, kept>>

-----------------------------------------------------------------------------
(* Losing the worker, and deployments.                                     *)

\* The policies whose violation rejects a call.
Enforced(o) == {p \in Policies : severityFor(o.severities, p) = "Error"}

\* A change of options that no call can see the verdict of: the same policies
\* at Error, and the same number of retries while it is enforced.
KeepsVerdicts(o, new) ==
  /\ Enforced(o) = Enforced(new)
  /\ TimeoutsPermitRetries \in Enforced(o) =>
       o.requiredRetries = new.requiredRetries

\* The worker is lost, or its cache evicts the workflow, and a worker with the
\* options `new' starts the code from its beginning.
Restart(new) ==
  /\ ~closed
  /\ restarts < MaxRestarts
  /\ opts' = new
  /\ done' = done \cap {history[k].call : k \in DOMAIN history}
  /\ pc' = 1
  /\ matched' = 0
  /\ commands' = <<>>
  /\ failures' = <<>>
  /\ outcome' = "none"
  /\ stuck' = FALSE
  /\ restarts' = restarts + 1
  /\ kept' = (kept /\ KeepsVerdicts(opts, new))
  /\ UNCHANGED <<workflow, history, closed, log>>

Init ==
  /\ workflow \in Workflows
  /\ opts \in Deployments
  /\ history = <<>>
  /\ done = {}
  /\ pc = 1
  /\ matched = 0
  /\ commands = <<>>
  /\ failures = <<>>
  /\ outcome = "none"
  /\ closed = FALSE
  /\ stuck = FALSE
  /\ log = <<>>
  /\ restarts = 0
  /\ kept = TRUE

Next ==
  \/ ExecuteActivity
  \/ ExecuteLocalActivity
  \/ Finish
  \/ ReportTask
  \/ \E i \in DOMAIN workflow.calls : CompleteActivity(i)
  \/ \E new \in Deployments : Restart(new)

Spec == Init /\ [][Next]_vars

\* The worker runs the workflow task it has been given and reports it, and the
\* service retries an activity until it completes.
FairSpec ==
  /\ Spec
  /\ WF_vars(ExecuteActivity) /\ WF_vars(ExecuteLocalActivity)
  /\ WF_vars(Finish) /\ WF_vars(ReportTask)
  /\ WF_vars(\E i \in DOMAIN workflow.calls : CompleteActivity(i))

-----------------------------------------------------------------------------
(* Properties.                                                             *)

CommandType == [call : Nat, options : Call, by : Options]

TypeOK ==
  /\ workflow \in Workflows
  /\ opts \in Deployments
  /\ history \in Seq(CommandType) /\ commands \in Seq(CommandType)
  /\ done \subseteq DOMAIN workflow.calls
  /\ pc \in 1..(Len(workflow.calls) + 1)
  /\ matched \in 0..Len(history)
  /\ failures \in Seq(Seq(Policies))
  /\ outcome \in Outcomes
  /\ closed \in BOOLEAN /\ stuck \in BOOLEAN
  /\ log \in Seq([call : Nat, policy : Policies, mode : {"warn", "fail"}])
  /\ restarts \in 0..MaxRestarts /\ kept \in BOOLEAN

\* Changes of options that keep every verdict never break a workflow in
\* flight: whenever its worker is replaced, and whichever severities moved
\* between Ignore and Warn, the replay produces the recorded commands
\* (modifying-workflow-history-in-interceptors.md:4).
DeploymentsReplay == kept => ~stuck

\* The inductive core.  The commands recorded and pending are the forwarded
\* calls of the workflow under the options now deployed, in order and without
\* gaps; those this incarnation has produced are the ones before pc.
AllCommands == history \o commands
Produced    == matched + Len(commands)
Rejected(i) == hasError(opts, WithDefaultHeartbeat(workflow.calls[i]))

PendingAfterReplay == commands # <<>> => matched = Len(history)

CommandsForwarded ==
  \A k \in DOMAIN AllCommands :
    LET i == AllCommands[k].call IN
    /\ i \in DOMAIN workflow.calls
    /\ AllCommands[k].options = WithDefaultHeartbeat(workflow.calls[i])
    /\ ~Rejected(i)
    /\ k <= Produced <=> i < pc
    /\ \A j \in 1..(k - 1) : AllCommands[j].call < i

NoGaps ==
  \A i \in DOMAIN workflow.calls :
    i < pc \/ (\E k \in DOMAIN AllCommands : i < AllCommands[k].call) =>
      (\E k \in DOMAIN AllCommands : AllCommands[k].call = i) \/ Rejected(i)

NothingAfterAnError ==
  workflow.style = "returns" =>
    /\ \A k \in DOMAIN AllCommands :
         \A i \in 1..(AllCommands[k].call - 1) : ~Rejected(i)
    /\ failures = <<>> => \A i \in 1..(pc - 1) : ~Rejected(i)

FailuresRejected == failures # <<>> => \E i \in 1..(pc - 1) : Rejected(i)

AllMade == pc > Len(workflow.calls)

Ended == outcome # "none" => Returning \/ AllMade

RecordedOrRejected ==
  \A i \in DOMAIN workflow.calls :
    (\E k \in DOMAIN history : history[k].call = i) \/ Rejected(i)

FanComplete == FanRecorded => RecordedOrRejected

ReplayInv ==
  /\ ~stuck /\ PendingAfterReplay /\ CommandsForwarded
  /\ NoGaps /\ NothingAfterAnError /\ FailuresRejected
  /\ Ended /\ FanComplete

Inv == TypeOK /\ (kept => ReplayInv)

\* What replays rest on: no recorded command, as it was forwarded with its
\* default heartbeat, would be rejected by the options now deployed; every call
\* the code passed over on the way to a recorded one would be; and so would
\* every call a fanned-out task made and has no command for.
HistoryMatchesVerdicts ==
  /\ \A k \in DOMAIN history :
       /\ ~hasError(opts, history[k].options)
       /\ \A i \in 1..(history[k].call - 1) :
            \/ \E j \in 1..(k - 1) : history[j].call = i
            \/ hasError(opts, WithDefaultHeartbeat(workflow.calls[i]))
  /\ FanRecorded =>
       \A i \in DOMAIN workflow.calls :
         \/ \E k \in DOMAIN history : history[k].call = i
         \/ hasError(opts, WithDefaultHeartbeat(workflow.calls[i]))

\* With any deployment, a replay is a test of the options: it gets through the
\* recorded tasks only if they give every call made in them the verdict it was
\* given, and it breaks only if they do not.
ReplayJudges ==
  /\ ~Replaying => HistoryMatchesVerdicts
  /\ stuck => ~HistoryMatchesVerdicts

LoggedModes(i) == {log[k].mode : k \in {j \in DOMAIN log : log[j].call = i}}

\* Requirements 5, 21 and 22 across crashes: a recorded command was logged
\* before it was recorded, one "warn" entry for each violation its options then
\* told to warn of, and while deployments keep the verdicts a call that was
\* forwarded was never logged as rejected.
WarningsLogged ==
  \A k \in DOMAIN history :
    LET h == history[k] IN
    /\ \A i \in DOMAIN NonIgnored(h.by, h.options) :
         \E j \in DOMAIN log :
           log[j] = [call |-> h.call, policy |-> NonIgnored(h.by, h.options)[i],
                     mode |-> "warn"]
    /\ kept => "fail" \notin LoggedModes(h.call)

\* The first failure names the policies that were logged last, for one call, in
\* canonical order and no other, and at least one of them as the reason.
Explained ==
  LET failure == failures[1]
      first   == Len(log) - Len(failure)
      entries == [k \in DOMAIN failure |-> log[first + k]]
  IN
  /\ first >= 0
  /\ \A k \in DOMAIN failure : entries[k].policy = failure[k]
  /\ \A k \in DOMAIN failure : entries[k].call = entries[1].call
  /\ \E k \in DOMAIN failure : entries[k].mode = "fail"
  /\ \A k \in 2..Len(failure) : \E i, j \in DOMAIN canonicalOrder :
       /\ i < j
       /\ canonicalOrder[i] = failure[k - 1] /\ canonicalOrder[j] = failure[k]

\* Requirement 21: the error a workflow is failed with is explained by the log,
\* also when the options or the worker changed while the workflow was under way.
FailureExplained ==
  outcome = "failed" /\ workflow.style = "returns" => Explained

\* With deployments that keep the verdicts a workflow ends, whatever workers
\* are lost on the way.
EventuallyCloses == <>(closed \/ ~kept)

=============================================================================
