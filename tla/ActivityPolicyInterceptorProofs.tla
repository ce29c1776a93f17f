------------------- MODULE ActivityPolicyInterceptorProofs -------------------
(***************************************************************************)
(* For all workflows, all options and any number of lost workers: state is *)
(* well typed, and deployments that keep the verdicts of the policies      *)
(* never break a workflow in flight.                                       *)
(***************************************************************************)
EXTENDS ActivityPolicyInterceptor, TLAPS

-----------------------------------------------------------------------------
(* The verdicts.                                                           *)

\* Whether a call violates a policy depends on the number of retries only for
\* timeouts_permit_retries.
LEMMA RetriesMatterToOnePolicy ==
  ASSUME NEW c, NEW p \in Policies, p # TimeoutsPermitRetries, NEW m, NEW n
  PROVE  Violates(c, p, m) <=> Violates(c, p, n)
BY DEF Violates

\* The point of KeepsVerdicts: no call is rejected under one of the two options
\* and forwarded under the other.
LEMMA SameVerdict ==
  ASSUME NEW o, NEW new, KeepsVerdicts(o, new), NEW c
  PROVE  hasError(o, c) <=> hasError(new, c)
<1>1. \A p \in Policies :
        severityFor(o.severities, p) = "Error" <=> severityFor(new.severities, p) = "Error"
  BY DEF KeepsVerdicts, Enforced
<1>2. ASSUME NEW p \in Policies, severityFor(o.severities, p) = "Error"
      PROVE  Violates(c, p, o.requiredRetries) <=> Violates(c, p, new.requiredRetries)
  <2>1. CASE p = TimeoutsPermitRetries
    BY <1>2, <2>1 DEF KeepsVerdicts, Enforced
  <2>2. CASE p # TimeoutsPermitRetries
    BY <2>2, RetriesMatterToOnePolicy
  <2> QED
    BY <2>1, <2>2
<1> QED
  BY <1>1, <1>2, Zenon DEF hasError, Violated

LEMMA DefaultedCallType ==
  ASSUME NEW c \in Call
  PROVE  WithDefaultHeartbeat(c) \in Call
BY DurationAssumption DEF WithDefaultHeartbeat, Call, defaultHeartbeatTimeout

LEMMA LocalCallsKeepTheirOptions ==
  ASSUME NEW c, c.local
  PROVE  WithDefaultHeartbeat(c) = c
BY DEF WithDefaultHeartbeat

\* s lists the members of S among the first n policies, in canonical order.
Lists(s, S, n) ==
  /\ s \in Seq(Policies)
  /\ \A k \in DOMAIN s : s[k] \in S /\ \E i \in 1..n : s[k] = canonicalOrder[i]
  /\ \A i \in 1..n : canonicalOrder[i] \in S =>
       \E k \in DOMAIN s : s[k] = canonicalOrder[i]
  /\ \A k \in 2..Len(s) : \E i, j \in 1..n :
       i < j /\ canonicalOrder[i] = s[k - 1] /\ canonicalOrder[j] = s[k]

LEMMA CanonicalOrderFacts ==
  /\ \A i \in 1..4 : canonicalOrder[i] \in Policies
  /\ DOMAIN canonicalOrder = 1..4
  /\ \A p \in Policies : \E i \in 1..4 : canonicalOrder[i] = p
BY DEF canonicalOrder, Policies

\* The next policy goes to the end of the list, if it is in S at all.
LEMMA ListTheNext ==
  ASSUME NEW S, NEW n \in 1..4, NEW s, Lists(s, S, n - 1)
  PROVE  Lists(s \o (IF canonicalOrder[n] \in S THEN <<canonicalOrder[n]>> ELSE <<>>), S, n)
<1> DEFINE p == canonicalOrder[n]
           t == Append(s, p)
<1>1. s \in Seq(Policies) /\ p \in Policies
  BY CanonicalOrderFacts DEF Lists
<1>2. CASE p \notin S
  <2>1. s \o <<>> = s
    BY <1>1
  <2>2. Lists(s, S, n)
    <3>1. \A i \in 1..n : canonicalOrder[i] \in S => i \in 1..(n - 1)
      BY <1>2
    <3>2. 1..(n - 1) \subseteq 1..n
      OBVIOUS
    <3> QED
      BY <3>1, <3>2 DEF Lists
  <2> QED
    BY <1>2, <2>1, <2>2
<1>3. CASE p \in S
  <2> HIDE DEF p
  <2>1. s \o <<p>> = t /\ t \in Seq(Policies) /\ Len(t) = Len(s) + 1
        /\ DOMAIN t = 1..(Len(s) + 1) /\ DOMAIN s = 1..Len(s) /\ Len(s) \in Nat
        /\ t[Len(s) + 1] = p /\ \A k \in 1..Len(s) : t[k] = s[k]
    BY <1>1
  <2> HIDE DEF t
  <2>2. 1..(n - 1) \subseteq 1..n /\ n \in 1..n
    OBVIOUS
  <2>3. ASSUME NEW k \in DOMAIN t
        PROVE  t[k] \in S /\ \E i \in 1..n : t[k] = canonicalOrder[i]
    <3>1. CASE k \in DOMAIN s
      BY <2>1, <2>2, <3>1 DEF Lists
    <3>2. CASE k = Len(s) + 1
      BY <1>3, <2>1, <2>2, <3>2 DEF p
    <3> QED
      BY <2>1, <3>1, <3>2
  <2>4. ASSUME NEW i \in 1..n, canonicalOrder[i] \in S
        PROVE  \E k \in DOMAIN t : t[k] = canonicalOrder[i]
    <3>1. CASE i = n
      BY <2>1, <3>1 DEF p
    <3>2. CASE i \in 1..(n - 1)
      <4>1. PICK k \in DOMAIN s : s[k] = canonicalOrder[i]
        BY <2>4, <3>2 DEF Lists
      <4> QED
        BY <2>1, <4>1
    <3> QED
      BY <3>1, <3>2
  <2>5. ASSUME NEW k \in 2..Len(t)
        PROVE  \E i, j \in 1..n :
                 i < j /\ canonicalOrder[i] = t[k - 1] /\ canonicalOrder[j] = t[k]
    <3>1. CASE k \in 2..Len(s)
      <4>1. PICK i, j \in 1..(n - 1) :
              i < j /\ canonicalOrder[i] = s[k - 1] /\ canonicalOrder[j] = s[k]
        BY <3>1 DEF Lists
      <4>2. t[k - 1] = s[k - 1] /\ t[k] = s[k]
        BY <2>1, <3>1
      <4> QED
        BY <2>2, <4>1, <4>2
    <3>2. CASE k = Len(s) + 1
      <4>1. k - 1 \in DOMAIN s /\ t[k - 1] = s[k - 1] /\ t[k] = p
        BY <2>1, <3>2
      <4>2. PICK i \in 1..(n - 1) : s[k - 1] = canonicalOrder[i]
        BY <4>1 DEF Lists
      <4>3. i < n /\ i \in 1..n
        BY <4>2
      <4> QED
        BY <2>2, <4>1, <4>2, <4>3 DEF p
    <3>3. k \in 2..Len(s) \/ k = Len(s) + 1
      BY <2>1
    <3> QED
      BY <3>1, <3>2, <3>3
  <2>6. Lists(t, S, n)
    BY <2>1, <2>3, <2>4, <2>5 DEF Lists
  <2> QED
    BY <1>3, <2>1, <2>6 DEF p
<1> QED
  BY <1>2, <1>3

\* canonicalize keeps every policy it is given, invents none, and sorts them.
LEMMA CanonicalListing ==
  ASSUME NEW S
  PROVE  Lists(InCanonicalOrder(S), S, 4)
<1> DEFINE one(p) == IF p \in S THEN <<p>> ELSE <<>>
<1>1. /\ canonicalOrder[1] = ScheduleToCloseRequired
      /\ canonicalOrder[2] = MaxAttemptsTooLow
      /\ canonicalOrder[3] = LocalActivityStartToCloseTooLong
      /\ canonicalOrder[4] = TimeoutsPermitRetries
  BY DEF canonicalOrder
<1>2. \A n \in 1..4 : \A s :
        Lists(s, S, n - 1) => Lists(s \o one(canonicalOrder[n]), S, n)
  BY ListTheNext
<1>3. Lists(<<>>, S, 0) /\ 1 - 1 = 0 /\ 2 - 1 = 1 /\ 3 - 1 = 2 /\ 4 - 1 = 3
  BY DEF Lists
<1>4. <<>> \o one(ScheduleToCloseRequired) = one(ScheduleToCloseRequired)
  OBVIOUS
<1> HIDE DEF one
<1>5. Lists(one(ScheduleToCloseRequired), S, 1)
  <2>1. Lists(<<>>, S, 1 - 1) => Lists(<<>> \o one(canonicalOrder[1]), S, 1)
    <3>1. 1 \in 1..4
      OBVIOUS
    <3> QED
      BY <1>2, <3>1, Zenon
  <2> QED
    BY <1>1, <1>3, <1>4, <2>1
<1>6. Lists(one(ScheduleToCloseRequired) \o one(MaxAttemptsTooLow), S, 2)
  BY <1>1, <1>2, <1>3, <1>5
<1>7. Lists(one(ScheduleToCloseRequired) \o one(MaxAttemptsTooLow)
              \o one(LocalActivityStartToCloseTooLong), S, 3)
  BY <1>1, <1>2, <1>3, <1>6
<1>8. Lists(one(ScheduleToCloseRequired) \o one(MaxAttemptsTooLow)
              \o one(LocalActivityStartToCloseTooLong) \o one(TimeoutsPermitRetries), S, 4)
  BY <1>1, <1>2, <1>3, <1>7
<1> QED
  BY <1>8 DEF InCanonicalOrder, one

LEMMA NonIgnoredType ==
  ASSUME NEW o, NEW c
  PROVE  NonIgnored(o, c) \in Seq(Policies)
BY CanonicalListing DEF NonIgnored, Lists

\* Whether a call is rejected shows in the entries that are logged for it.
LEMMA EntryModes ==
  ASSUME NEW o, NEW c
  PROVE  /\ \A k \in DOMAIN NonIgnored(o, c) :
              Mode(o, NonIgnored(o, c)[k]) = "fail" => hasError(o, c)
         /\ hasError(o, c) => \E k \in DOMAIN NonIgnored(o, c) :
              Mode(o, NonIgnored(o, c)[k]) = "fail"
<1> DEFINE S == {p \in Violated(c, o.requiredRetries) : severityFor(o.severities, p) # "Ignore"}
           s == NonIgnored(o, c)
<1>1. Lists(s, S, 4)
  BY CanonicalListing DEF NonIgnored
<1>2. ASSUME NEW k \in DOMAIN s, Mode(o, s[k]) = "fail"
      PROVE  hasError(o, c)
  <2>1. s[k] \in S
    BY <1>1 DEF Lists
  <2> QED
    BY <1>2, <2>1 DEF hasError, Mode
<1>3. ASSUME hasError(o, c)
      PROVE  \E k \in DOMAIN s : Mode(o, s[k]) = "fail"
  <2>1. PICK p \in Violated(c, o.requiredRetries) : severityFor(o.severities, p) = "Error"
    BY <1>3 DEF hasError
  <2>2. p \in S /\ p \in Policies
    BY <2>1 DEF Violated
  <2>3. PICK k \in DOMAIN s : s[k] = p
    BY <1>1, <2>2, CanonicalOrderFacts DEF Lists
  <2> QED
    BY <2>1, <2>3 DEF Mode
<1> QED
  BY <1>2, <1>3

Entry == [call : Nat, policy : Policies, mode : {"warn", "fail"}]

LEMMA EntriesType ==
  ASSUME NEW o, NEW i \in Nat, NEW c
  PROVE  Entries(o, i, c) \in Seq(Entry)
<1> DEFINE s == NonIgnored(o, c)
<1>1. s \in Seq(Policies)
  BY NonIgnoredType
<1>2. \A p : Mode(o, p) \in {"warn", "fail"}
  BY DEF Mode
<1> HIDE DEF s
<1>3. \A k \in DOMAIN s : s[k] \in Policies
  BY <1>1
<1>4. [k \in DOMAIN s |-> [call |-> i, policy |-> s[k], mode |-> Mode(o, s[k])]]
        \in [1..Len(s) -> Entry]
  BY <1>1, <1>2, <1>3 DEF Entry
<1>5. Len(s) \in Nat
  BY <1>1
<1> QED
  BY <1>4, <1>5 DEF Entries, s

-----------------------------------------------------------------------------
(* Types.                                                                  *)

LEMMA WorkflowCalls ==
  ASSUME TypeOK
  PROVE  /\ workflow.calls \in Seq(Call)
         /\ Len(workflow.calls) \in Nat
         /\ DOMAIN workflow.calls = 1..Len(workflow.calls)
         /\ \A i \in DOMAIN workflow.calls : workflow.calls[i] \in Call
         /\ workflow.style \in Styles
<1>1. workflow \in Workflow
  BY ConstantsAssumption DEF TypeOK
<1> QED
  BY <1>1 DEF Workflow

LEMMA EmptySequences ==
  /\ <<>> \in Seq(CommandType) /\ <<>> \in Seq(Seq(Policies))
  /\ <<>> \in Seq([call : Nat, policy : Policies, mode : {"warn", "fail"}])
  /\ Len(<<>>) = 0
OBVIOUS

LEMMA InitTypeOK == Init => TypeOK
<1> SUFFICES ASSUME Init
             PROVE  TypeOK
  OBVIOUS
<1>1. workflow \in Workflow
  BY ConstantsAssumption DEF Init
<1>2. Len(workflow.calls) \in Nat
  BY <1>1 DEF Workflow
<1>3. /\ pc \in 1..(Len(workflow.calls) + 1)
      /\ matched \in 0..Len(history)
      /\ restarts \in 0..MaxRestarts /\ kept \in BOOLEAN
  BY <1>2, EmptySequences, ConstantsAssumption DEF Init
<1>4. /\ workflow \in Workflows /\ opts \in Deployments
      /\ done \subseteq DOMAIN workflow.calls
      /\ outcome \in Outcomes /\ closed \in BOOLEAN /\ stuck \in BOOLEAN
  BY DEF Init, Outcomes
<1>5. /\ history \in Seq(CommandType) /\ commands \in Seq(CommandType)
      /\ failures \in Seq(Seq(Policies))
      /\ log \in Seq([call : Nat, policy : Policies, mode : {"warn", "fail"}])
  BY EmptySequences, Zenon DEF Init
<1> QED
  BY <1>3, <1>4, <1>5, Zenon DEF TypeOK

\* What both handlers do keeps the types.
LEMMA ScheduleTypeOK ==
  ASSUME TypeOK, Calling, NEW c \in Call, Schedule(c)
  PROVE  TypeOK'
<1>1. /\ pc \in DOMAIN workflow.calls /\ pc \in Nat
      /\ pc + 1 \in 1..(Len(workflow.calls) + 1)
  BY WorkflowCalls DEF Calling, TypeOK
<1>2. log' \in Seq(Entry)
  <2>1. Entries(opts, pc, c) \in Seq(Entry) /\ log \in Seq(Entry)
    BY <1>1, EntriesType DEF TypeOK, Entry
  <2>2. log \o Entries(opts, pc, c) \in Seq(Entry)
    BY <2>1
  <2> QED
    BY <2>1, <2>2 DEF Schedule, Logged
<1>3. CASE hasError(opts, c)
  <2>1. Append(failures, NonIgnored(opts, c)) \in Seq(Seq(Policies))
    BY NonIgnoredType DEF TypeOK
  <2> QED
    BY <1>1, <1>2, <1>3, <2>1 DEF Schedule, Reject, TypeOK, Entry
<1>4. CASE ~hasError(opts, c) /\ Owed /\ history[matched + 1].call = pc
  <2>1. matched + 1 \in 0..Len(history)
    BY <1>4 DEF Owed, TypeOK
  <2> QED
    BY <1>1, <1>2, <1>4, <2>1 DEF Schedule, Forward, TypeOK, Entry
<1>5. CASE /\ ~hasError(opts, c) /\ Replaying
           /\ ~(Owed /\ history[matched + 1].call = pc)
  BY <1>1, <1>2, <1>5 DEF Schedule, Forward, Nondeterministic, TypeOK, Entry
<1>6. CASE ~hasError(opts, c) /\ ~Replaying
  <2>1. [call |-> pc, options |-> c, by |-> opts] \in CommandType
    BY <1>1, ConstantsAssumption DEF TypeOK, CommandType
  <2>2. Append(commands, [call |-> pc, options |-> c, by |-> opts]) \in Seq(CommandType)
    BY <2>1 DEF TypeOK
  <2>3. done \cup {pc} \subseteq DOMAIN workflow.calls
    BY <1>1 DEF TypeOK
  <2> QED
    BY <1>1, <1>2, <1>6, <2>2, <2>3 DEF Schedule, Forward, Replaying, TypeOK, Entry
<1> QED
  BY <1>3, <1>4, <1>5, <1>6

LEMMA NextTypeOK == TypeOK /\ [Next]_vars => TypeOK'
<1> SUFFICES ASSUME TypeOK, [Next]_vars
             PROVE  TypeOK'
  OBVIOUS
<1>1. CASE ExecuteActivity
  BY <1>1, WorkflowCalls, DefaultedCallType, ScheduleTypeOK DEF ExecuteActivity, Calling
<1>2. CASE ExecuteLocalActivity
  BY <1>2, WorkflowCalls, ScheduleTypeOK DEF ExecuteLocalActivity, Calling
<1>3. CASE Finish
  BY <1>3 DEF Finish, Nondeterministic, TypeOK, Outcomes
<1>4. CASE ReportTask
  <2>1. history \o commands \in Seq(CommandType)
    BY DEF TypeOK
  <2>2. Len(history \o commands) = Len(history) + Len(commands) /\ Len(history) \in Nat
        /\ Len(commands) \in Nat
    BY DEF TypeOK
  <2> QED
    BY <1>4, <2>1, <2>2 DEF ReportTask, TypeOK
<1>5. ASSUME NEW i \in DOMAIN workflow.calls, CompleteActivity(i)
      PROVE  TypeOK'
  BY <1>5 DEF CompleteActivity, TypeOK
<1>6. ASSUME NEW new \in Deployments, Restart(new)
      PROVE  TypeOK'
  <2>1. 1 \in 1..(Len(workflow.calls) + 1) /\ 0 \in 0..Len(history)
    BY WorkflowCalls DEF TypeOK
  <2>2. restarts + 1 \in 0..MaxRestarts
    BY <1>6, ConstantsAssumption DEF Restart, TypeOK
  <2> QED
    BY <1>6, <2>1, <2>2, EmptySequences DEF Restart, TypeOK, Outcomes
<1>7. CASE UNCHANGED vars
  BY <1>7 DEF vars, TypeOK
<1> QED
  BY <1>1, <1>2, <1>3, <1>4, <1>5, <1>6, <1>7 DEF Next

\* Every variable keeps its type, whatever the workflows and the deployments.
THEOREM TypeCorrect == Spec => []TypeOK
<1> QED
  BY InitTypeOK, NextTypeOK, PTL DEF Spec

-----------------------------------------------------------------------------
(* Replays.                                                                *)

LEMMA CommandFacts ==
  ASSUME TypeOK
  PROVE  /\ Len(history) \in Nat /\ Len(commands) \in Nat /\ matched \in Nat
         /\ Len(AllCommands) = Len(history) + Len(commands)
         /\ DOMAIN AllCommands = 1..Len(AllCommands)
         /\ \A k \in DOMAIN AllCommands : AllCommands[k].call \in Nat
         /\ \A k \in 1..Len(history) : AllCommands[k] = history[k]
         /\ pc \in Nat \ {0}
<1>1. AllCommands \in Seq(CommandType)
  BY DEF TypeOK, AllCommands
<1>2. \A k \in DOMAIN AllCommands : AllCommands[k] \in CommandType
  BY <1>1
<1>3. /\ Len(AllCommands) = Len(history) + Len(commands)
      /\ \A k \in 1..Len(history) : AllCommands[k] = history[k]
  BY DEF TypeOK, AllCommands
<1>4. Len(workflow.calls) \in Nat
  BY WorkflowCalls
<1>5. /\ Len(history) \in Nat /\ Len(commands) \in Nat
      /\ matched \in 0..Len(history) /\ pc \in 1..(Len(workflow.calls) + 1)
  BY DEF TypeOK
<1>6. DOMAIN AllCommands = 1..Len(AllCommands)
  BY <1>1
<1>7. \A k \in DOMAIN AllCommands : AllCommands[k].call \in Nat
  BY <1>2 DEF CommandType
<1> QED
  BY <1>3, <1>4, <1>5, <1>6, <1>7

LEMMA InitReplayInv == Init => ReplayInv
<1> SUFFICES ASSUME Init
             PROVE  ReplayInv
  OBVIOUS
<1>1. TypeOK
  BY InitTypeOK
<1>2. AllCommands = <<>> /\ DOMAIN AllCommands = {}
  BY DEF Init, AllCommands
<1>3. 1..(pc - 1) = {} /\ \A i \in DOMAIN workflow.calls : ~(i < pc)
  BY <1>1, WorkflowCalls DEF Init
<1>4. PendingAfterReplay /\ CommandsForwarded
  BY <1>2 DEF Init, PendingAfterReplay, CommandsForwarded
<1>5. NoGaps /\ NothingAfterAnError /\ FailuresRejected
  BY <1>2, <1>3 DEF Init, NoGaps, NothingAfterAnError, FailuresRejected
<1>6. Ended /\ FanComplete
  BY DEF Init, Ended, FanComplete, FanRecorded
<1> QED
  BY <1>4, <1>5, <1>6 DEF Init, ReplayInv

\* In a replay every command produced is a recorded one, and the next recorded
\* command is not behind the code.
LEMMA NextRecorded ==
  ASSUME TypeOK, ReplayInv, Owed
  PROVE  /\ commands = <<>> /\ Produced = matched
         /\ matched + 1 \in DOMAIN AllCommands
         /\ history[matched + 1] = AllCommands[matched + 1]
         /\ AllCommands[matched + 1].call \in DOMAIN workflow.calls
         /\ AllCommands[matched + 1].call >= pc
<1>1. commands = <<>>
  BY DEF ReplayInv, PendingAfterReplay, Owed, TypeOK
<1>2. Produced = matched
  BY <1>1, CommandFacts DEF Produced
<1>3. matched + 1 \in 1..Len(history) /\ matched + 1 \in DOMAIN AllCommands
  BY <1>1, CommandFacts DEF Owed
<1>4. AllCommands[matched + 1].call \in DOMAIN workflow.calls
  BY <1>3 DEF ReplayInv, CommandsForwarded
<1>5. ~(AllCommands[matched + 1].call < pc)
  BY <1>2, <1>3, CommandFacts DEF ReplayInv, CommandsForwarded
<1> QED
  BY <1>1, <1>2, <1>3, <1>4, <1>5, CommandFacts

\* A call that is not rejected is, in a replay, the next recorded command:
\* were that a later call, this one would be recorded too, behind it.
LEMMA ForwardedIsNextRecorded ==
  ASSUME TypeOK, ReplayInv, Owed, pc \in DOMAIN workflow.calls, ~Rejected(pc)
  PROVE  history[matched + 1].call = pc
<1> DEFINE next == AllCommands[matched + 1].call
<1>1. next \in Nat /\ next >= pc /\ matched + 1 \in DOMAIN AllCommands
  BY NextRecorded, CommandFacts
<1>2. SUFFICES ASSUME next > pc
               PROVE  FALSE
  BY <1>1, NextRecorded, CommandFacts
<1>3. PICK k \in DOMAIN AllCommands : AllCommands[k].call = pc
  BY <1>1, <1>2 DEF ReplayInv, NoGaps
<1>4. ~(k <= matched)
  BY <1>3, NextRecorded, CommandFacts DEF ReplayInv, CommandsForwarded
<1>5. k > matched + 1
  BY <1>2, <1>3, <1>4, CommandFacts
<1>6. next < AllCommands[k].call
  <2>1. \A j \in 1..(k - 1) : AllCommands[j].call < AllCommands[k].call
    BY DEF ReplayInv, CommandsForwarded
  <2>2. matched + 1 \in 1..(k - 1)
    BY <1>5, CommandFacts
  <2> QED
    BY <2>1, <2>2
<1> QED
  BY <1>1, <1>2, <1>3, <1>6, CommandFacts

\* In a recorded task of code that fans out, a call that is not rejected has a
\* command that is still owed.
LEMMA FanCallsAreOwed ==
  ASSUME TypeOK, ReplayInv, FanRecorded, pc \in DOMAIN workflow.calls, ~Rejected(pc)
  PROVE  Owed
<1> SUFFICES ASSUME ~Owed
             PROVE  FALSE
  OBVIOUS
<1>1. PICK k \in DOMAIN history : history[k].call = pc
  BY DEF ReplayInv, FanComplete, RecordedOrRejected
<1>2. DOMAIN history = 1..Len(history) /\ matched \in 0..Len(history)
  BY DEF TypeOK
<1>3. k <= Produced /\ k \in DOMAIN AllCommands /\ AllCommands[k].call = pc
  BY <1>1, <1>2, CommandFacts DEF Owed, Produced
<1>4. AllCommands[k].call < pc
  BY <1>3 DEF ReplayInv, CommandsForwarded
<1> QED
  BY <1>3, <1>4, CommandFacts

\* Steps that move neither the code nor the commands keep the invariant.
LEMMA ReplayInvFrame ==
  ASSUME ReplayInv, ~stuck',
         UNCHANGED <<workflow, pc, failures>>, AllCommands' = AllCommands,
         Produced' = Produced, commands' # <<>> => matched' = Len(history'),
         \A i : Rejected(i)' <=> Rejected(i), Ended', FanComplete'
  PROVE  ReplayInv'
<1>1. PendingAfterReplay'
  BY DEF PendingAfterReplay
<1>2. CommandsForwarded'
  BY DEF ReplayInv, CommandsForwarded
<1>3. NoGaps'
  BY DEF ReplayInv, NoGaps
<1>4. NothingAfterAnError'
  BY DEF ReplayInv, NothingAfterAnError
<1>5. FailuresRejected'
  BY DEF ReplayInv, FailuresRejected
<1> QED
  BY <1>1, <1>2, <1>3, <1>4, <1>5 DEF ReplayInv

\* The handler rejects the call: the code moves over a rejected one.
LEMMA RejectReplayInv ==
  ASSUME TypeOK, ReplayInv, Calling, Rejected(pc),
         NEW policies \in Seq(Policies), Reject(policies),
         UNCHANGED <<workflow, opts, history>>
  PROVE  ReplayInv'
<1>1. /\ AllCommands' = AllCommands /\ Produced' = Produced
      /\ \A i : Rejected(i)' <=> Rejected(i)
      /\ pc' = pc + 1 /\ ~stuck' /\ matched' = matched /\ commands' = commands
      /\ outcome' = "none"
  BY DEF Reject, AllCommands, Produced, Rejected, ReplayInv, Calling, Open
<1>2. failures' # <<>>
  <2>1. failures \in Seq(Seq(Policies))
    BY DEF TypeOK
  <2> QED
    BY <2>1 DEF Reject
<1>3. pc \in Nat \ {0} /\ pc \in DOMAIN workflow.calls
      /\ \A i \in DOMAIN workflow.calls : i \in Nat
  BY CommandFacts, WorkflowCalls DEF Calling
<1>4. PendingAfterReplay'
  BY <1>1 DEF ReplayInv, PendingAfterReplay
<1>5. CommandsForwarded'
  <2>1. \A k \in DOMAIN AllCommands : k <= Produced <=> AllCommands[k].call < pc + 1
    BY <1>3, CommandFacts DEF ReplayInv, CommandsForwarded
  <2> QED
    BY <1>1, <2>1 DEF ReplayInv, CommandsForwarded
<1>6. NoGaps'
  BY <1>1, <1>3 DEF ReplayInv, NoGaps
<1>7. NothingAfterAnError'
  BY <1>1, <1>2 DEF ReplayInv, NothingAfterAnError
<1>8. FailuresRejected'
  BY <1>1, <1>3 DEF FailuresRejected
<1>9. Ended' /\ FanComplete'
  BY <1>1 DEF ReplayInv, Ended, FanComplete, FanRecorded, RecordedOrRejected
<1> QED
  BY <1>1, <1>4, <1>5, <1>6, <1>7, <1>8, <1>9 DEF ReplayInv

\* The handler forwards the call in a replay: it is the next recorded command.
LEMMA ForwardReplayInv ==
  ASSUME TypeOK, ReplayInv, Calling, ~Rejected(pc), Owed,
         NEW c, Forward(c), UNCHANGED <<workflow, opts, history>>
  PROVE  ReplayInv'
<1>1. pc \in Nat \ {0} /\ pc \in DOMAIN workflow.calls
      /\ \A i \in DOMAIN workflow.calls : i \in Nat
  BY CommandFacts, WorkflowCalls DEF Calling
<1>2. history[matched + 1].call = pc /\ AllCommands[matched + 1].call = pc
  BY <1>1, ForwardedIsNextRecorded, NextRecorded
<1>3. /\ matched' = matched + 1 /\ pc' = pc + 1 /\ commands' = commands
      /\ failures' = failures /\ ~stuck' /\ outcome' = "none"
  BY <1>2 DEF Forward, ReplayInv, Calling, Open
<1>4. /\ AllCommands' = AllCommands /\ Produced' = Produced + 1
      /\ \A i : Rejected(i)' <=> Rejected(i)
  BY <1>3, CommandFacts DEF AllCommands, Produced, Rejected
<1>5. Produced = matched /\ matched \in Nat /\ matched + 1 \in DOMAIN AllCommands
      /\ commands = <<>>
  BY NextRecorded, CommandFacts
<1>6. PendingAfterReplay'
  BY <1>3, <1>5 DEF PendingAfterReplay
<1>7. CommandsForwarded'
  <2>1. ASSUME NEW k \in DOMAIN AllCommands
        PROVE  k <= Produced + 1 <=> AllCommands[k].call < pc + 1
    <3>1. k \in Nat /\ AllCommands[k].call \in Nat
      BY CommandFacts
    <3>2. CASE k <= matched
      BY <1>1, <1>5, <3>1, <3>2 DEF ReplayInv, CommandsForwarded
    <3>3. CASE k = matched + 1
      BY <1>1, <1>2, <1>5, <3>3
    <3>4. CASE k > matched + 1
      <4>1. matched + 1 \in 1..(k - 1)
        BY <1>5, <3>1, <3>4
      <4>2. AllCommands[matched + 1].call < AllCommands[k].call
        BY <4>1 DEF ReplayInv, CommandsForwarded
      <4> QED
        BY <1>1, <1>2, <1>5, <3>1, <3>4, <4>2
    <3> QED
      BY <1>5, <3>1, <3>2, <3>3, <3>4
  <2> QED
    BY <1>3, <1>4, <2>1 DEF ReplayInv, CommandsForwarded
<1>8. NoGaps'
  BY <1>1, <1>2, <1>3, <1>4, <1>5 DEF ReplayInv, NoGaps
<1>9. NothingAfterAnError'
  BY <1>1, <1>3, <1>4 DEF ReplayInv, NothingAfterAnError
<1>10. FailuresRejected'
  BY <1>1, <1>3, <1>4 DEF ReplayInv, FailuresRejected
<1>11. Ended' /\ FanComplete'
  BY <1>3, <1>4 DEF ReplayInv, Ended, FanComplete, FanRecorded, RecordedOrRejected
<1> QED
  BY <1>3, <1>6, <1>7, <1>8, <1>9, <1>10, <1>11 DEF ReplayInv

\* A call forwarded outside a replay becomes the last pending command.
LEMMA NewCommand ==
  ASSUME TypeOK, Calling, ~Replaying, NEW c \in Call, Forward(c), UNCHANGED history
  PROVE  LET m == Len(AllCommands) IN
         /\ m \in Nat /\ matched = Len(history) /\ matched \in Nat /\ Produced = m
         /\ DOMAIN AllCommands = 1..m
         /\ DOMAIN AllCommands' = 1..(m + 1)
         /\ \A k \in 1..m : AllCommands'[k] = AllCommands[k]
         /\ AllCommands'[m + 1] = [call |-> pc, options |-> c, by |-> opts]
         /\ Produced' = m + 1
<1> DEFINE new == [call |-> pc, options |-> c, by |-> opts]
           m == Len(AllCommands)
<1>1. pc \in Nat
  BY CommandFacts
<1>2. matched' = matched /\ commands' = Append(commands, new)
  BY DEF Forward, Replaying
<1>3. matched = Len(history) /\ matched \in Nat /\ m \in Nat /\ Produced = m
  <2>1. matched \in 0..Len(history)
    BY DEF TypeOK
  <2>2. Len(history) \in Nat /\ Len(commands) \in Nat /\ m = Len(history) + Len(commands)
    BY CommandFacts
  <2>3. ~(matched < Len(history)) /\ Produced = matched + Len(commands)
    BY DEF Replaying, Owed, Produced
  <2> HIDE DEF m
  <2> QED
    BY <2>1, <2>2, <2>3
<1>4. /\ DOMAIN AllCommands = 1..m
      /\ DOMAIN AllCommands' = 1..(m + 1)
      /\ \A k \in 1..m : AllCommands'[k] = AllCommands[k]
      /\ AllCommands'[m + 1] = new
      /\ Produced' = m + 1
  <2>1. new \in CommandType
    BY <1>1, ConstantsAssumption DEF TypeOK, CommandType
  <2>2. commands \in Seq(CommandType) /\ history \in Seq(CommandType)
    BY DEF TypeOK
  <2>3. AllCommands' = history \o Append(commands, new)
    BY <1>2 DEF AllCommands
  <2> HIDE DEF new
  <2>4. Len(Append(commands, new)) = Len(commands) + 1
        /\ Append(commands, new) \in Seq(CommandType)
    BY <2>1, <2>2
  <2>5. /\ Len(AllCommands') = Len(history) + (Len(commands) + 1)
        /\ DOMAIN AllCommands' = 1..Len(AllCommands')
    BY <2>2, <2>3, <2>4
  <2>6. \A k \in 1..m : AllCommands'[k] = AllCommands[k]
    <3>1. ASSUME NEW k \in 1..Len(history)
          PROVE  AllCommands'[k] = history[k] /\ AllCommands[k] = history[k]
      BY <2>2, <2>3, <2>4, CommandFacts
    <3>2. ASSUME NEW k \in 1..m, k > Len(history)
          PROVE  AllCommands'[k] = AllCommands[k]
      <4>1. AllCommands[k] = commands[k - Len(history)]
        BY <2>2, <3>2, CommandFacts DEF AllCommands
      <4>2. k - Len(history) \in 1..Len(commands)
        BY <3>2, CommandFacts
      <4>3. AllCommands'[k] = Append(commands, new)[k - Len(history)]
        BY <2>2, <2>3, <2>4, <3>2, CommandFacts
      <4> QED
        BY <2>1, <2>2, <4>1, <4>2, <4>3
    <3> QED
      BY <3>1, <3>2, CommandFacts
  <2>7. AllCommands'[m + 1] = new
    <3>1. AllCommands'[m + 1] = Append(commands, new)[Len(commands) + 1]
      BY <2>2, <2>3, <2>4, CommandFacts
    <3> QED
      BY <2>1, <2>2, <3>1
  <2>8. Produced' = m + 1
    <3>1. Produced' = matched' + Len(commands')
      BY DEF Produced
    <3>2. Len(commands') = Len(commands) + 1 /\ matched' = Len(history)
      BY <1>2, <1>3, <2>4
    <3> QED
      BY <3>1, <3>2, CommandFacts
  <2>9. DOMAIN AllCommands = 1..m /\ DOMAIN AllCommands' = 1..(m + 1)
    <3>1. m = Len(history) + Len(commands) /\ Len(AllCommands') = m + 1
      BY <2>5, CommandFacts
    <3> QED
      BY <2>5, <3>1, CommandFacts
  <2> QED
    BY <2>6, <2>7, <2>8, <2>9
<1> QED
  BY <1>3, <1>4

\* The handler forwards a new call.
LEMMA IssueReplayInv ==
  ASSUME TypeOK, ReplayInv, Calling, ~Rejected(pc), ~Replaying,
         NEW c \in Call, c = WithDefaultHeartbeat(workflow.calls[pc]), Forward(c),
         UNCHANGED <<workflow, opts, history>>
  PROVE  ReplayInv'
<1> DEFINE new == [call |-> pc, options |-> c, by |-> opts]
           m == Len(AllCommands)
<1>1. pc \in Nat \ {0} /\ pc \in DOMAIN workflow.calls
      /\ \A i \in DOMAIN workflow.calls : i \in Nat
  BY CommandFacts, WorkflowCalls DEF Calling
<1>2. /\ matched' = matched /\ pc' = pc + 1 /\ commands' = Append(commands, new)
      /\ failures' = failures /\ ~stuck' /\ outcome' = "none"
      /\ \A i : Rejected(i)' <=> Rejected(i)
  BY DEF Forward, Replaying, ReplayInv, Rejected, Calling, Open
<1>3. matched = Len(history) /\ matched \in Nat /\ m \in Nat /\ Produced = m
  BY NewCommand
<1>4. /\ DOMAIN AllCommands = 1..m
      /\ DOMAIN AllCommands' = 1..(m + 1)
      /\ \A k \in 1..m : AllCommands'[k] = AllCommands[k]
      /\ AllCommands'[m + 1] = new
      /\ Produced' = m + 1
  BY NewCommand
<1>5. new.call = pc /\ new.options = WithDefaultHeartbeat(workflow.calls[pc])
  OBVIOUS
<1> HIDE DEF new, m
<1>6. \A k \in 1..m : /\ AllCommands[k].call \in DOMAIN workflow.calls
                       /\ AllCommands[k].call < pc
  BY <1>3, <1>4 DEF ReplayInv, CommandsForwarded
<1>7. CommandsForwarded'
  <2>1. ASSUME NEW k \in DOMAIN AllCommands'
        PROVE  LET i == AllCommands'[k].call IN
               /\ i \in DOMAIN workflow.calls
               /\ AllCommands'[k].options = WithDefaultHeartbeat(workflow.calls[i])
               /\ ~Rejected(i)
               /\ k <= m + 1 <=> i < pc + 1
               /\ \A j \in 1..(k - 1) : AllCommands'[j].call < i
    <3>1. CASE k = m + 1
      BY <1>1, <1>3, <1>4, <1>5, <1>6, <3>1
    <3>2. CASE k \in 1..m
      <4>1. AllCommands'[k] = AllCommands[k]
            /\ \A j \in 1..(k - 1) : AllCommands'[j] = AllCommands[j]
        BY <1>3, <1>4, <3>2
      <4>2. k <= m + 1 /\ AllCommands[k].call < pc + 1
        BY <1>1, <1>3, <1>6, <3>2
      <4> QED
        BY <1>4, <3>2, <4>1, <4>2 DEF ReplayInv, CommandsForwarded
    <3> QED
      BY <1>3, <1>4, <3>1, <3>2
  <2> QED
    BY <1>2, <1>4, <2>1 DEF CommandsForwarded
<1>8. NoGaps'
  <2>1. ASSUME NEW i \in DOMAIN workflow.calls,
               i < pc + 1 \/ \E k \in DOMAIN AllCommands' : i < AllCommands'[k].call
        PROVE  (\E k \in DOMAIN AllCommands' : AllCommands'[k].call = i) \/ Rejected(i)
    <3>1. i <= pc
      BY <1>1, <1>3, <1>4, <1>5, <1>6, <2>1
    <3>2. CASE i = pc
      BY <1>3, <1>4, <1>5, <3>2
    <3>3. CASE i < pc
      BY <1>3, <1>4, <3>3 DEF ReplayInv, NoGaps
    <3> QED
      BY <1>1, <3>1, <3>2, <3>3
  <2> QED
    BY <1>2, <2>1 DEF NoGaps
<1>9. NothingAfterAnError'
  <2>1. ASSUME workflow.style = "returns"
        PROVE  \A i \in 1..pc : ~Rejected(i)
    BY <1>1, <2>1 DEF ReplayInv, NothingAfterAnError, Calling, Returning
  <2>2. \A k \in DOMAIN AllCommands' : AllCommands'[k].call \in 1..pc
    <3>1. AllCommands'[m + 1].call \in 1..pc
      BY <1>1, <1>4, <1>5
    <3>2. \A k \in 1..m : AllCommands[k].call \in Nat \ {0} /\ AllCommands[k].call < pc
      BY <1>6, WorkflowCalls
    <3>3. \A k \in 1..m : AllCommands'[k].call \in 1..pc
      BY <1>1, <1>4, <3>2
    <3> QED
      BY <1>3, <1>4, <3>1, <3>3
  <2>3. (pc + 1) - 1 = pc /\ \A i \in 1..pc : 1..(i - 1) \subseteq 1..pc
    BY <1>1
  <2> QED
    BY <1>2, <2>1, <2>2, <2>3 DEF NothingAfterAnError
<1>10. FailuresRejected'
  BY <1>1, <1>2 DEF ReplayInv, FailuresRejected
<1>11. PendingAfterReplay'
  BY <1>2, <1>3 DEF PendingAfterReplay
<1>12. Ended' /\ FanComplete'
  BY <1>2 DEF ReplayInv, Ended, FanComplete, FanRecorded, RecordedOrRejected
<1> QED
  BY <1>2, <1>7, <1>8, <1>9, <1>10, <1>11, <1>12 DEF ReplayInv

LEMMA ScheduleReplayInv ==
  ASSUME TypeOK, ReplayInv, Calling, NEW c \in Call,
         c = WithDefaultHeartbeat(workflow.calls[pc]), Schedule(c)
  PROVE  ReplayInv'
<1>1. hasError(opts, c) <=> Rejected(pc)
  BY DEF Rejected
<1>2. UNCHANGED <<workflow, opts, history>>
  BY DEF Schedule
<1>3. CASE Rejected(pc)
  <2>1. Reject(NonIgnored(opts, c))
    BY <1>1, <1>3 DEF Schedule
  <2> QED
    BY <1>2, <1>3, <2>1, NonIgnoredType, RejectReplayInv
<1>4. CASE ~Rejected(pc)
  <2>1. Forward(c)
    BY <1>1, <1>4 DEF Schedule
  <2>2. pc \in DOMAIN workflow.calls
    BY DEF Calling
  <2>3. Owed \/ ~Replaying
    BY <1>4, <2>2, FanCallsAreOwed DEF Replaying
  <2> QED
    BY <1>2, <1>4, <2>1, <2>3, ForwardReplayInv, IssueReplayInv
<1> QED
  BY <1>3, <1>4

\* The code ends only when it has produced every recorded command: in a replay
\* there is one it has not come to, and no error on the way there.
LEMMA FinishReplayInv ==
  ASSUME TypeOK, ReplayInv, Finish
  PROVE  ReplayInv'
<1>1. ~Owed
  <2>1. SUFFICES ASSUME Owed
                 PROVE  FALSE
    OBVIOUS
  <2> DEFINE next == AllCommands[matched + 1].call
  <2>2. next \in 1..Len(workflow.calls) /\ next >= pc /\ matched + 1 \in DOMAIN AllCommands
    BY <2>1, NextRecorded, WorkflowCalls
  <2>3. CASE pc > Len(workflow.calls)
    BY <2>2, <2>3, WorkflowCalls, CommandFacts
  <2>4. CASE Returning
    <3>1. PICK i \in 1..(pc - 1) : Rejected(i)
      BY <2>4 DEF Returning, ReplayInv, FailuresRejected
    <3>2. i \in 1..(next - 1)
      BY <2>2, <3>1, CommandFacts, WorkflowCalls
    <3> QED
      BY <2>2, <2>4, <3>1, <3>2 DEF Returning, ReplayInv, NothingAfterAnError
  <2> QED
    BY <2>3, <2>4 DEF Finish
<1>2. UNCHANGED <<workflow, opts, history, pc, matched, commands, failures, stuck>>
  BY <1>1 DEF Finish
<1>3. /\ AllCommands' = AllCommands /\ Produced' = Produced
      /\ \A i : Rejected(i)' <=> Rejected(i)
  BY <1>2 DEF AllCommands, Produced, Rejected
<1>4. Ended'
  BY <1>2 DEF Finish, Ended, Returning, AllMade
<1>5. FanComplete'
  BY <1>2, <1>3 DEF ReplayInv, FanComplete, FanRecorded, RecordedOrRejected
<1> QED
  BY <1>2, <1>3, <1>4, <1>5, ReplayInvFrame DEF ReplayInv, PendingAfterReplay

\* Recording the pending commands moves the border between the two.
LEMMA ReportReplayInv ==
  ASSUME TypeOK, ReplayInv, ReportTask
  PROVE  ReplayInv'
<1>1. matched = Len(history)
  BY DEF ReportTask, Replaying, Owed, TypeOK
<1>2. /\ history' = AllCommands /\ commands' = <<>>
      /\ matched' = Len(history) + Len(commands)
      /\ UNCHANGED <<workflow, opts, pc, failures, stuck>>
  BY DEF ReportTask, AllCommands
<1>3. AllCommands' = AllCommands
  <2>1. AllCommands \in Seq(CommandType)
    BY DEF AllCommands, TypeOK
  <2> QED
    BY <1>2, <2>1 DEF AllCommands
<1>4. Produced' = Produced
  BY <1>1, <1>2, CommandFacts DEF Produced
<1>5. \A i : Rejected(i)' <=> Rejected(i)
  BY <1>2 DEF Rejected
<1>6. Ended'
  BY <1>2 DEF ReportTask, ReplayInv, Ended, Returning, AllMade
<1>7. FanComplete'
  <2>1. SUFFICES ASSUME workflow.style = "fansOut"
                 PROVE  RecordedOrRejected'
    BY <1>2 DEF FanComplete, FanRecorded
  <2>2. CASE FanRecorded
    <3>1. \A k \in DOMAIN history : k \in DOMAIN AllCommands /\ AllCommands[k] = history[k]
      <4>1. DOMAIN history = 1..Len(history)
        BY DEF TypeOK
      <4> QED
        BY <4>1, CommandFacts
    <3> QED
      BY <1>2, <1>5, <2>2, <3>1 DEF ReplayInv, FanComplete, RecordedOrRejected
  <2>3. CASE ~FanRecorded
    <3>1. AllMade \/ pc \notin DOMAIN workflow.calls
      BY <2>1 DEF ReportTask, ReplayInv, Ended, Returning, Blocked, Calling, Ready
    <3>2. \A i \in DOMAIN workflow.calls : i < pc
      BY <3>1, WorkflowCalls, CommandFacts DEF AllMade
    <3>3. \A i \in DOMAIN workflow.calls :
            (\E k \in DOMAIN AllCommands : AllCommands[k].call = i) \/ Rejected(i)
      BY <3>2 DEF ReplayInv, NoGaps
    <3> QED
      BY <1>2, <1>5, <3>3 DEF RecordedOrRejected
  <2> QED
    BY <2>2, <2>3
<1> QED
  BY <1>2, <1>3, <1>4, <1>5, <1>6, <1>7, ReplayInvFrame DEF ReplayInv

\* A worker with the same verdicts starts over: it has produced nothing, and
\* every recorded command is still forwarded, every passed-over call rejected.
LEMMA RestartReplayInv ==
  ASSUME TypeOK, ReplayInv, NEW new \in Deployments, Restart(new),
         KeepsVerdicts(opts, new)
  PROVE  ReplayInv'
<1>1. \A i : Rejected(i)' <=> Rejected(i)
  BY SameVerdict DEF Restart, Rejected
<1>2. /\ UNCHANGED <<workflow, history>> /\ pc' = 1 /\ matched' = 0
      /\ commands' = <<>> /\ failures' = <<>> /\ ~stuck' /\ outcome' = "none"
  BY DEF Restart
<1>3. AllCommands' = history /\ Produced' = 0
  <2>1. history \in Seq(CommandType)
    BY DEF TypeOK
  <2> QED
    BY <1>2, <2>1 DEF AllCommands, Produced
<1>4. /\ DOMAIN history \subseteq DOMAIN AllCommands
      /\ \A k \in DOMAIN history : AllCommands[k] = history[k] /\ k \in Nat \ {0}
      /\ DOMAIN history = 1..Len(history)
  <2>1. DOMAIN history = 1..Len(history)
    BY DEF TypeOK
  <2> QED
    BY <2>1, CommandFacts
<1>5. \A k \in DOMAIN history : history[k].call \in Nat \ {0}
  BY <1>4, WorkflowCalls DEF ReplayInv, CommandsForwarded
<1>6. PendingAfterReplay'
  BY <1>2 DEF PendingAfterReplay
<1>7. CommandsForwarded'
  <2>1. ASSUME NEW k \in DOMAIN history
        PROVE  LET i == history[k].call IN
               /\ i \in DOMAIN workflow.calls
               /\ history[k].options = WithDefaultHeartbeat(workflow.calls[i])
               /\ ~Rejected(i)
               /\ k <= 0 <=> i < 1
               /\ \A j \in 1..(k - 1) : history[j].call < i
    <3>1. \A j \in 1..(k - 1) : j \in DOMAIN history
      BY <1>4, CommandFacts
    <3>2. k \in DOMAIN AllCommands /\ AllCommands[k] = history[k]
          /\ \A j \in 1..(k - 1) : AllCommands[j] = history[j]
      BY <1>4, <3>1
    <3>3. LET i == history[k].call IN
          /\ i \in DOMAIN workflow.calls
          /\ history[k].options = WithDefaultHeartbeat(workflow.calls[i])
          /\ ~Rejected(i)
          /\ \A j \in 1..(k - 1) : history[j].call < i
      BY <3>2 DEF ReplayInv, CommandsForwarded
    <3>4. ~(k <= 0) /\ ~(history[k].call < 1)
      BY <1>4, <1>5
    <3> QED
      BY <3>3, <3>4, Zenon
  <2> QED
    BY <1>1, <1>2, <1>3, <2>1 DEF CommandsForwarded
<1>8. NoGaps'
  <2>1. ASSUME NEW i \in DOMAIN workflow.calls, NEW k \in DOMAIN history,
               i < history[k].call, ~Rejected(i)
        PROVE  \E j \in DOMAIN history : history[j].call = i
    <3>1. PICK j \in DOMAIN AllCommands : AllCommands[j].call = i
      BY <1>4, <2>1 DEF ReplayInv, NoGaps
    <3>2. j < k
      <4>1. SUFFICES ASSUME j >= k
                     PROVE  FALSE
        BY <1>4, CommandFacts
      <4>2. j # k
        BY <1>4, <1>5, <2>1, <3>1, CommandFacts
      <4>3. k \in 1..(j - 1)
        BY <1>4, <4>1, <4>2, CommandFacts
      <4>4. AllCommands[k].call < i
        BY <3>1, <4>3 DEF ReplayInv, CommandsForwarded
      <4> QED
        BY <1>4, <1>5, <2>1, <3>1, <4>4, CommandFacts
    <3>3. j \in DOMAIN history
      BY <1>4, <3>2, CommandFacts
    <3> QED
      BY <1>4, <3>1, <3>3
  <2>2. \A i \in DOMAIN workflow.calls : ~(i < 1)
    BY WorkflowCalls
  <2> QED
    BY <1>1, <1>2, <1>3, <2>1, <2>2 DEF NoGaps
<1>9. NothingAfterAnError'
  <2>1. 1..(1 - 1) = {}
    OBVIOUS
  <2> QED
    BY <1>1, <1>2, <1>3, <1>4, <2>1 DEF ReplayInv, NothingAfterAnError
<1>10. FailuresRejected'
  BY <1>2 DEF FailuresRejected
<1>11. Ended' /\ FanComplete'
  BY <1>1, <1>2 DEF ReplayInv, Ended, FanComplete, FanRecorded, RecordedOrRejected
<1> QED
  BY <1>2, <1>6, <1>7, <1>8, <1>9, <1>10, <1>11 DEF ReplayInv

LEMMA IdleReplayInv ==
  ASSUME ReplayInv,
         UNCHANGED <<workflow, opts, history, pc, matched, commands, failures, stuck, outcome>>
  PROVE  ReplayInv'
<1>1. /\ AllCommands' = AllCommands /\ Produced' = Produced
      /\ \A j : Rejected(j)' <=> Rejected(j)
  BY DEF AllCommands, Produced, Rejected
<1>2. Ended' /\ FanComplete'
  BY <1>1 DEF ReplayInv, Ended, Returning, AllMade, FanComplete, FanRecorded,
              RecordedOrRejected
<1> QED
  BY <1>1, <1>2, ReplayInvFrame DEF ReplayInv, PendingAfterReplay

LEMMA NextReplayInv ==
  ASSUME TypeOK, kept => ReplayInv, [Next]_vars, kept'
  PROVE  ReplayInv'
<1>0. kept /\ ReplayInv
  BY DEF Next, ExecuteActivity, ExecuteLocalActivity, Schedule, Finish, ReportTask,
         CompleteActivity, Restart, vars
<1>1. CASE ExecuteActivity
  BY <1>0, <1>1, WorkflowCalls, DefaultedCallType, ScheduleReplayInv
  DEF ExecuteActivity, Calling
<1>2. CASE ExecuteLocalActivity
  BY <1>0, <1>2, WorkflowCalls, LocalCallsKeepTheirOptions, ScheduleReplayInv
  DEF ExecuteLocalActivity, Calling
<1>3. CASE Finish
  BY <1>0, <1>3, FinishReplayInv
<1>4. CASE ReportTask
  BY <1>0, <1>4, ReportReplayInv
<1>5. ASSUME NEW i \in DOMAIN workflow.calls, CompleteActivity(i)
      PROVE  ReplayInv'
  <2>1. UNCHANGED <<workflow, opts, history, pc, matched, commands, failures, stuck, outcome>>
    BY <1>5 DEF CompleteActivity
  <2> QED
    BY <1>0, <2>1, IdleReplayInv
<1>6. ASSUME NEW new \in Deployments, Restart(new)
      PROVE  ReplayInv'
  <2>1. KeepsVerdicts(opts, new)
    BY <1>6 DEF Restart
  <2> QED
    BY <1>0, <1>6, <2>1, RestartReplayInv
<1>7. CASE UNCHANGED vars
  <2>1. UNCHANGED <<workflow, opts, history, pc, matched, commands, failures, stuck, outcome>>
    BY <1>7 DEF vars
  <2> QED
    BY <1>0, <2>1, IdleReplayInv
<1> QED
  BY <1>1, <1>2, <1>3, <1>4, <1>5, <1>6, <1>7 DEF Next

\* As long as the deployments keep the verdicts, the recorded and pending
\* commands are the calls the deployed options forward, in order and without
\* gaps: of every workflow, however often its worker is lost.
THEOREM ReplaysFollowHistory == Spec => []Inv
<1>1. Init => Inv
  BY InitTypeOK, InitReplayInv DEF Inv
<1>2. Inv /\ [Next]_vars => Inv'
  BY NextTypeOK, NextReplayInv DEF Inv
<1> QED
  BY <1>1, <1>2, PTL DEF Spec

\* Moving policies between Ignore and Warn, or the number of retries while
\* timeouts_permit_retries is not enforced, never breaks a workflow in flight.
THEOREM SafeDeploymentsReplay == Spec => []DeploymentsReplay
<1>1. Inv => DeploymentsReplay
  BY DEF Inv, ReplayInv, DeploymentsReplay
<1> QED
  BY <1>1, ReplaysFollowHistory, PTL

-----------------------------------------------------------------------------
(* What a replay shows, whatever the deployments.                          *)

\* The commands are calls of the workflow, in order; those the code has
\* produced since it last started are the ones it did not reject, under the
\* options now deployed; and code that returns the first error leaves no gap.
Ordered ==
  \A k \in DOMAIN AllCommands :
    LET i == AllCommands[k].call IN
    /\ i \in DOMAIN workflow.calls
    /\ AllCommands[k].options = WithDefaultHeartbeat(workflow.calls[i])
    /\ \A j \in 1..(k - 1) : AllCommands[j].call < i

Decided ==
  /\ \A k \in 1..Produced : AllCommands[k].call < pc /\ ~Rejected(AllCommands[k].call)
  /\ \A i \in 1..(pc - 1) :
       Rejected(i) \/ \E k \in 1..Produced : AllCommands[k].call = i

InTurn ==
  workflow.style = "returns" =>
    /\ \A k \in DOMAIN AllCommands : AllCommands[k].call = k
    /\ failures = <<>> => Produced = pc - 1

\* Code that fans out adds nothing to a recorded task.
FanSettled == FanRecorded => commands = <<>>

OrderInv ==
  /\ PendingAfterReplay /\ Ordered /\ Decided /\ InTurn /\ FailuresRejected
  /\ FanSettled

JudgeInv == OrderInv /\ (stuck => ~HistoryMatchesVerdicts)

LEMMA InitJudgeInv == Init => JudgeInv
<1> SUFFICES ASSUME Init
             PROVE  JudgeInv
  OBVIOUS
<1>1. AllCommands = <<>> /\ DOMAIN AllCommands = {} /\ Produced = 0 /\ 1..0 = {}
      /\ pc - 1 = 0
  BY DEF Init, AllCommands, Produced
<1>2. PendingAfterReplay /\ Ordered /\ FailuresRejected
  BY <1>1 DEF Init, PendingAfterReplay, Ordered, FailuresRejected
<1>3. Decided
  BY <1>1 DEF Decided
<1>4. InTurn
  BY <1>1 DEF InTurn
<1>5. FanSettled
  BY DEF Init, FanSettled
<1> QED
  BY <1>2, <1>3, <1>4, <1>5 DEF Init, JudgeInv, OrderInv

\* Past the last recorded command, the code has given each call before it the
\* verdict the history shows.
LEMMA RecordedCommandsMatch ==
  ASSUME TypeOK, OrderInv, matched = Len(history), NEW k \in DOMAIN history
  PROVE  /\ ~hasError(opts, history[k].options)
         /\ \A i \in 1..(history[k].call - 1) :
              \/ \E j \in 1..(k - 1) : history[j].call = i
              \/ hasError(opts, WithDefaultHeartbeat(workflow.calls[i]))
<1>1. /\ DOMAIN history = 1..Len(history) /\ k \in 1..Produced /\ k \in Nat
      /\ k \in DOMAIN AllCommands /\ AllCommands[k] = history[k]
      /\ Produced = Len(AllCommands) /\ Produced \in Nat
  <2>1. DOMAIN history = 1..Len(history)
    BY DEF TypeOK
  <2> QED
    BY <2>1, CommandFacts DEF Produced
<1>2. ~Rejected(history[k].call) /\ history[k].call < pc /\ history[k].call \in Nat
  BY <1>1, CommandFacts DEF OrderInv, Decided
<1>3. ~hasError(opts, history[k].options)
  BY <1>1, <1>2 DEF OrderInv, Ordered, Rejected
<1>4. ASSUME NEW i \in 1..(history[k].call - 1), ~Rejected(i)
      PROVE  \E j \in 1..(k - 1) : history[j].call = i
  <2>1. i \in 1..(pc - 1) /\ i < history[k].call
    BY <1>2, CommandFacts
  <2>2. PICK j \in 1..Produced : AllCommands[j].call = i
    BY <1>4, <2>1 DEF OrderInv, Decided
  <2>3. j # k
    BY <1>1, <2>1, <2>2
  <2>4. ~(j > k)
    <3>1. SUFFICES ASSUME j > k
                   PROVE  FALSE
      OBVIOUS
    <3>2. k \in 1..(j - 1) /\ j \in DOMAIN AllCommands
      BY <1>1, <2>2, <3>1, CommandFacts
    <3>3. AllCommands[k].call < i
      BY <2>2, <3>2 DEF OrderInv, Ordered
    <3> QED
      BY <1>1, <1>2, <2>1, <3>3
  <2>5. j \in 1..(k - 1) /\ j \in 1..Len(history)
    BY <1>1, <2>2, <2>3, <2>4
  <2> QED
    BY <2>2, <2>5, CommandFacts
<1> QED
  BY <1>3, <1>4 DEF Rejected

\* Past the recorded tasks, it has done so for every call made in them.
LEMMA FullReplayMatches ==
  ASSUME TypeOK, OrderInv, ~Replaying
  PROVE  HistoryMatchesVerdicts
<1>1. matched = Len(history)
  BY DEF Replaying, Owed, TypeOK
<1>2. ASSUME FanRecorded, NEW i \in DOMAIN workflow.calls, ~Rejected(i)
      PROVE  \E k \in DOMAIN history : history[k].call = i
  <2>1. commands = <<>> /\ pc \notin DOMAIN workflow.calls
    BY <1>2 DEF OrderInv, FanSettled, Replaying
  <2>2. i \in 1..(pc - 1)
    BY <2>1, WorkflowCalls, CommandFacts
  <2>3. PICK k \in 1..Produced : AllCommands[k].call = i
    BY <1>2, <2>2 DEF OrderInv, Decided
  <2>4. Produced = Len(history)
    BY <1>1, <2>1, CommandFacts DEF Produced
  <2>5. DOMAIN history = 1..Len(history)
    BY DEF TypeOK
  <2> QED
    BY <2>3, <2>4, <2>5, CommandFacts
<1> QED
  BY <1>1, <1>2, RecordedCommandsMatch DEF HistoryMatchesVerdicts, Rejected

\* The next recorded command, as the deployed options see it.
LEMMA NextOwed ==
  ASSUME TypeOK, OrderInv, Owed
  PROVE  /\ commands = <<>> /\ Produced = matched /\ matched \in Nat
         /\ matched + 1 \in DOMAIN AllCommands /\ matched + 1 \in DOMAIN history
         /\ history[matched + 1] = AllCommands[matched + 1]
         /\ AllCommands[matched + 1].call \in 1..Len(workflow.calls)
         /\ HistoryMatchesVerdicts => AllCommands[matched + 1].call >= pc
<1>1. commands = <<>>
  BY DEF OrderInv, PendingAfterReplay, Owed, TypeOK
<1>2. /\ Produced = matched /\ matched \in Nat
      /\ matched + 1 \in 1..Len(history) /\ matched + 1 \in DOMAIN AllCommands
      /\ history[matched + 1] = AllCommands[matched + 1]
      /\ AllCommands[matched + 1].call \in Nat /\ pc \in Nat
  BY <1>1, CommandFacts DEF Produced, Owed
<1>3. DOMAIN history = 1..Len(history)
  BY DEF TypeOK
<1>4. AllCommands[matched + 1].call \in 1..Len(workflow.calls)
  BY <1>2, WorkflowCalls DEF OrderInv, Ordered
<1>5. ASSUME HistoryMatchesVerdicts, AllCommands[matched + 1].call < pc
      PROVE  FALSE
  <2> DEFINE next == AllCommands[matched + 1].call
  <2>1. ~Rejected(next)
    BY <1>2, <1>3, <1>5 DEF HistoryMatchesVerdicts, OrderInv, Ordered, Rejected
  <2>2. PICK k \in 1..matched : AllCommands[k].call = next
    BY <1>2, <1>4, <1>5, <2>1 DEF OrderInv, Decided
  <2>3. k \in 1..((matched + 1) - 1)
    BY <1>2, <2>2
  <2>4. AllCommands[k].call < next
    BY <1>2, <2>3 DEF OrderInv, Ordered
  <2> QED
    BY <1>2, <2>2, <2>4
<1> QED
  BY <1>1, <1>2, <1>3, <1>4, <1>5

\* A call that is forwarded and not the next recorded command has another
\* verdict than the history shows, or the recorded one has.
LEMMA MismatchShows ==
  ASSUME TypeOK, OrderInv, Owed, ~Rejected(pc), history[matched + 1].call # pc
  PROVE  ~HistoryMatchesVerdicts
<1> SUFFICES ASSUME HistoryMatchesVerdicts
             PROVE  FALSE
  OBVIOUS
<1> DEFINE next == history[matched + 1].call
<1>1. next > pc /\ matched + 1 \in DOMAIN history /\ matched \in Nat
  BY NextOwed, CommandFacts
<1>2. pc \in 1..(next - 1)
  BY <1>1, NextOwed, CommandFacts
<1>3. PICK j \in 1..((matched + 1) - 1) : history[j].call = pc
  BY <1>1, <1>2 DEF HistoryMatchesVerdicts, Rejected
<1>4. j \in 1..Produced /\ AllCommands[j].call = pc
  BY <1>1, <1>3, NextOwed, CommandFacts DEF Owed
<1> QED
  BY <1>4, CommandFacts DEF OrderInv, Decided

\* A call that is forwarded in a recorded fanned-out task that has no more
\* commands was rejected when the task was recorded.
LEMMA ExtraCommandShows ==
  ASSUME TypeOK, OrderInv, Replaying, ~Owed, pc \in DOMAIN workflow.calls, ~Rejected(pc)
  PROVE  ~HistoryMatchesVerdicts
<1> SUFFICES ASSUME HistoryMatchesVerdicts
             PROVE  FALSE
  OBVIOUS
<1>1. PICK k \in DOMAIN history : history[k].call = pc
  BY DEF Replaying, HistoryMatchesVerdicts, Rejected
<1>2. DOMAIN history = 1..Len(history) /\ matched \in 0..Len(history)
  BY DEF TypeOK
<1>3. k \in 1..Produced /\ AllCommands[k].call = pc
  BY <1>1, <1>2, CommandFacts DEF Owed, Produced
<1>4. AllCommands[k].call < pc
  BY <1>3 DEF OrderInv, Decided
<1> QED
  BY <1>3, <1>4, CommandFacts

\* Code that ends before the history does has rejected a call of it.
LEMMA EarlyEndShows ==
  ASSUME TypeOK, OrderInv, Owed, Returning \/ pc > Len(workflow.calls)
  PROVE  ~HistoryMatchesVerdicts
<1> SUFFICES ASSUME HistoryMatchesVerdicts
             PROVE  FALSE
  OBVIOUS
<1> DEFINE next == AllCommands[matched + 1].call
<1>1. next \in 1..Len(workflow.calls) /\ next >= pc
      /\ matched + 1 \in DOMAIN AllCommands /\ matched \in Nat /\ Produced = matched
  BY NextOwed
<1>2. CASE pc > Len(workflow.calls)
  BY <1>1, <1>2, WorkflowCalls, CommandFacts
<1>3. CASE Returning
  <2>1. next = matched + 1
    BY <1>1, <1>3 DEF Returning, OrderInv, InTurn
  <2>2. PICK i \in 1..(pc - 1) : Rejected(i)
    BY <1>3 DEF Returning, OrderInv, FailuresRejected
  <2>3. i \in 1..Produced /\ i \in DOMAIN AllCommands
    BY <1>1, <2>1, <2>2, CommandFacts
  <2>4. AllCommands[i].call = i
    BY <1>3, <2>3 DEF Returning, OrderInv, InTurn
  <2> QED
    BY <2>2, <2>3, <2>4 DEF OrderInv, Decided
<1> QED
  BY <1>2, <1>3

LEMMA OrderInvFrame ==
  ASSUME OrderInv, UNCHANGED <<workflow, pc, failures>>, AllCommands' = AllCommands,
         Produced' = Produced, commands' # <<>> => matched' = Len(history'),
         \A i : Rejected(i)' <=> Rejected(i), FanSettled'
  PROVE  OrderInv'
<1>1. PendingAfterReplay'
  BY DEF PendingAfterReplay
<1>2. Ordered' /\ Decided'
  BY DEF OrderInv, Ordered, Decided
<1>3. InTurn' /\ FailuresRejected'
  BY DEF OrderInv, InTurn, FailuresRejected
<1> QED
  BY <1>1, <1>2, <1>3 DEF OrderInv

LEMMA RejectOrderInv ==
  ASSUME TypeOK, OrderInv, Calling, Rejected(pc),
         NEW policies \in Seq(Policies), Reject(policies),
         UNCHANGED <<workflow, opts, history>>
  PROVE  OrderInv'
<1>1. /\ AllCommands' = AllCommands /\ Produced' = Produced
      /\ \A i : Rejected(i)' <=> Rejected(i)
      /\ pc' = pc + 1 /\ matched' = matched /\ commands' = commands
  BY DEF Reject, AllCommands, Produced, Rejected
<1>2. failures' # <<>>
  <2>1. failures \in Seq(Seq(Policies))
    BY DEF TypeOK
  <2> QED
    BY <2>1 DEF Reject
<1>3. /\ pc \in Nat \ {0} /\ 1..Produced \subseteq DOMAIN AllCommands
      /\ \A k \in DOMAIN AllCommands : AllCommands[k].call \in Nat
  BY CommandFacts DEF Produced, TypeOK
<1>4. PendingAfterReplay' /\ Ordered'
  BY <1>1 DEF OrderInv, PendingAfterReplay, Ordered
<1>5. Decided'
  <2>1. ASSUME NEW k \in 1..Produced
        PROVE  AllCommands[k].call < pc + 1 /\ ~Rejected(AllCommands[k].call)
    <3>1. AllCommands[k].call < pc /\ ~Rejected(AllCommands[k].call)
      BY DEF OrderInv, Decided
    <3>2. AllCommands[k].call \in Nat
      BY <1>3
    <3> QED
      BY <1>3, <3>1, <3>2
  <2>2. \A i \in 1..((pc + 1) - 1) :
          Rejected(i) \/ \E k \in 1..Produced : AllCommands[k].call = i
    BY <1>3 DEF OrderInv, Decided
  <2> QED
    BY <1>1, <2>1, <2>2 DEF Decided
<1>6. InTurn'
  BY <1>1, <1>2 DEF OrderInv, InTurn
<1>7. FailuresRejected'
  BY <1>1, <1>3 DEF FailuresRejected
<1>8. FanSettled'
  BY <1>1 DEF OrderInv, FanSettled, FanRecorded
<1> QED
  BY <1>4, <1>5, <1>6, <1>7, <1>8 DEF OrderInv

\* The handler forwards the call and it is the next recorded command.
LEMMA MatchOrderInv ==
  ASSUME TypeOK, OrderInv, Calling, ~Rejected(pc), Owed,
         history[matched + 1].call = pc,
         NEW c, Forward(c), UNCHANGED <<workflow, opts, history>>
  PROVE  OrderInv'
<1>1. /\ matched' = matched + 1 /\ pc' = pc + 1 /\ UNCHANGED <<commands, failures, stuck>>
  BY DEF Forward
<1>2. /\ AllCommands' = AllCommands /\ Produced' = Produced + 1
      /\ \A i : Rejected(i)' <=> Rejected(i)
  BY <1>1, CommandFacts DEF AllCommands, Produced, Rejected
<1>3. Produced = matched /\ matched \in Nat /\ matched + 1 \in DOMAIN AllCommands
      /\ commands = <<>> /\ AllCommands[matched + 1].call = pc
  BY NextOwed
<1>4. /\ pc \in Nat \ {0} /\ 1..matched \subseteq DOMAIN AllCommands
      /\ \A k \in DOMAIN AllCommands : AllCommands[k].call \in Nat
  BY CommandFacts DEF TypeOK
<1>5. PendingAfterReplay' /\ Ordered'
  BY <1>1, <1>2, <1>3 DEF OrderInv, PendingAfterReplay, Ordered
<1>6. Decided'
  <2>1. ASSUME NEW k \in 1..(matched + 1)
        PROVE  AllCommands[k].call < pc + 1 /\ ~Rejected(AllCommands[k].call)
    <3>1. CASE k = matched + 1
      BY <1>3, <1>4, <3>1
    <3>2. CASE k \in 1..matched
      BY <1>3, <1>4, <3>2 DEF OrderInv, Decided
    <3> QED
      BY <1>3, <3>1, <3>2
  <2>2. ASSUME NEW i \in 1..pc
        PROVE  Rejected(i) \/ \E k \in 1..(matched + 1) : AllCommands[k].call = i
    <3>1. CASE i = pc
      BY <1>3, <3>1
    <3>2. CASE i \in 1..(pc - 1)
      BY <1>3, <3>2 DEF OrderInv, Decided
    <3> QED
      BY <1>4, <3>1, <3>2
  <2>3. (pc + 1) - 1 = pc
    BY <1>4
  <2> QED
    BY <1>1, <1>2, <1>3, <2>1, <2>2, <2>3 DEF Decided
<1>7. InTurn'
  BY <1>1, <1>2, <1>3, <1>4 DEF OrderInv, InTurn
<1>8. FailuresRejected'
  BY <1>1, <1>2, <1>4 DEF OrderInv, FailuresRejected
<1>9. FanSettled'
  BY <1>1 DEF OrderInv, FanSettled, FanRecorded
<1> QED
  BY <1>5, <1>6, <1>7, <1>8, <1>9 DEF OrderInv

\* The handler forwards a call that is new.
LEMMA IssueOrderInv ==
  ASSUME TypeOK, OrderInv, Calling, ~Rejected(pc), ~Replaying,
         NEW c \in Call, c = WithDefaultHeartbeat(workflow.calls[pc]), Forward(c),
         UNCHANGED <<workflow, opts, history>>
  PROVE  OrderInv'
<1> DEFINE new == [call |-> pc, options |-> c, by |-> opts]
           m == Len(AllCommands)
<1>1. /\ matched' = matched /\ pc' = pc + 1 /\ failures' = failures
      /\ \A i : Rejected(i)' <=> Rejected(i)
  BY DEF Forward, Replaying, Rejected
<1>2. /\ m \in Nat /\ matched = Len(history) /\ Produced = m
      /\ DOMAIN AllCommands = 1..m
      /\ DOMAIN AllCommands' = 1..(m + 1)
      /\ \A k \in 1..m : AllCommands'[k] = AllCommands[k]
      /\ AllCommands'[m + 1] = new
      /\ Produced' = m + 1
  BY NewCommand
<1>3. pc \in Nat \ {0} /\ pc \in DOMAIN workflow.calls
      /\ \A k \in 1..m : AllCommands[k].call \in Nat
  BY <1>2, CommandFacts DEF Calling
<1>4. new.call = pc /\ new.options = WithDefaultHeartbeat(workflow.calls[pc])
  OBVIOUS
<1> HIDE DEF new, m
<1>5. \A k \in 1..m : AllCommands[k].call < pc /\ ~Rejected(AllCommands[k].call)
  BY <1>2 DEF OrderInv, Decided
<1>6. PendingAfterReplay'
  BY <1>1, <1>2 DEF PendingAfterReplay
<1>7. Ordered'
  <2>1. ASSUME NEW k \in DOMAIN AllCommands'
        PROVE  LET i == AllCommands'[k].call IN
               /\ i \in DOMAIN workflow.calls
               /\ AllCommands'[k].options = WithDefaultHeartbeat(workflow.calls[i])
               /\ \A j \in 1..(k - 1) : AllCommands'[j].call < i
    <3>1. CASE k = m + 1
      BY <1>2, <1>3, <1>4, <1>5, <3>1
    <3>2. CASE k \in 1..m
      <4>1. AllCommands'[k] = AllCommands[k]
            /\ \A j \in 1..(k - 1) : AllCommands'[j] = AllCommands[j]
        BY <1>2, <3>2
      <4> QED
        BY <1>2, <3>2, <4>1 DEF OrderInv, Ordered
    <3> QED
      BY <1>2, <3>1, <3>2
  <2> QED
    BY <2>1 DEF Ordered
<1>8. Decided'
  <2>1. ASSUME NEW k \in 1..(m + 1)
        PROVE  AllCommands'[k].call < pc + 1 /\ ~Rejected(AllCommands'[k].call)
    <3>1. CASE k = m + 1
      BY <1>2, <1>3, <1>4, <3>1
    <3>2. CASE k \in 1..m
      BY <1>2, <1>3, <1>5, <3>2
    <3> QED
      BY <1>2, <3>1, <3>2
  <2>2. ASSUME NEW i \in 1..pc
        PROVE  Rejected(i) \/ \E k \in 1..(m + 1) : AllCommands'[k].call = i
    <3>1. CASE i = pc
      BY <1>2, <1>4, <3>1
    <3>2. ASSUME i \in 1..(pc - 1), ~Rejected(i)
          PROVE  \E k \in 1..(m + 1) : AllCommands'[k].call = i
      <4>1. PICK k \in 1..m : AllCommands[k].call = i
        BY <1>2, <3>2 DEF OrderInv, Decided
      <4> QED
        BY <1>2, <4>1
    <3> QED
      BY <1>3, <3>1, <3>2
  <2>3. (pc + 1) - 1 = pc
    BY <1>3
  <2> QED
    BY <1>1, <1>2, <2>1, <2>2, <2>3 DEF Decided
<1>9. InTurn'
  <2>1. ASSUME workflow.style = "returns"
        PROVE  /\ \A k \in 1..(m + 1) : AllCommands'[k].call = k
               /\ m + 1 = (pc + 1) - 1
    <3>1. m = pc - 1 /\ \A k \in 1..m : AllCommands[k].call = k
      BY <1>2, <2>1 DEF OrderInv, InTurn, Calling, Returning
    <3>2. \A k \in 1..m : AllCommands'[k].call = k
      BY <1>2, <3>1
    <3> QED
      BY <1>2, <1>3, <1>4, <3>1, <3>2
  <2> QED
    BY <1>1, <1>2, <2>1 DEF InTurn
<1>10. FailuresRejected'
  BY <1>1, <1>3 DEF OrderInv, FailuresRejected
<1>11. FanSettled'
  BY <1>3 DEF Replaying, FanSettled, FanRecorded
<1> QED
  BY <1>6, <1>7, <1>8, <1>9, <1>10, <1>11 DEF OrderInv

\* A replay that goes wrong stops where it is, and shows that the verdicts of
\* the history are no longer given.
LEMMA BreakJudgeInv ==
  ASSUME OrderInv, ~HistoryMatchesVerdicts, Nondeterministic,
         UNCHANGED <<workflow, opts, history>>
  PROVE  JudgeInv'
<1>1. UNCHANGED <<workflow, opts, history, pc, matched, commands, failures>>
  BY DEF Nondeterministic
<1>2. /\ AllCommands' = AllCommands /\ Produced' = Produced
      /\ \A i : Rejected(i)' <=> Rejected(i)
  BY <1>1 DEF AllCommands, Produced, Rejected
<1>3. OrderInv'
  BY <1>1, <1>2, OrderInvFrame DEF OrderInv, PendingAfterReplay, FanSettled, FanRecorded
<1>4. ~HistoryMatchesVerdicts'
  BY <1>1 DEF HistoryMatchesVerdicts, FanRecorded
<1> QED
  BY <1>3, <1>4 DEF JudgeInv

LEMMA ScheduleJudgeInv ==
  ASSUME TypeOK, OrderInv, Calling, NEW c \in Call,
         c = WithDefaultHeartbeat(workflow.calls[pc]), Schedule(c)
  PROVE  JudgeInv'
<1>1. (hasError(opts, c) <=> Rejected(pc)) /\ ~stuck
  BY DEF Rejected, Calling, Open
<1>2. UNCHANGED <<workflow, opts, history>>
  BY DEF Schedule
<1>3. CASE Rejected(pc)
  <2>1. Reject(NonIgnored(opts, c))
    BY <1>1, <1>3 DEF Schedule
  <2>2. OrderInv'
    BY <1>2, <1>3, <2>1, NonIgnoredType, RejectOrderInv
  <2> QED
    BY <1>1, <2>1, <2>2 DEF Reject, JudgeInv
<1>4. CASE ~Rejected(pc)
  <2>1. Forward(c)
    BY <1>1, <1>4 DEF Schedule
  <2>2. CASE Owed /\ history[matched + 1].call # pc
    BY <1>2, <1>4, <2>1, <2>2, MismatchShows, BreakJudgeInv DEF Forward, Replaying
  <2>3. CASE Owed /\ history[matched + 1].call = pc
    BY <1>1, <1>2, <1>4, <2>1, <2>3, MatchOrderInv DEF Forward, JudgeInv
  <2>4. CASE Replaying /\ ~Owed
    BY <1>2, <1>4, <2>1, <2>4, ExtraCommandShows, BreakJudgeInv DEF Forward, Calling
  <2>5. CASE ~Replaying
    BY <1>1, <1>2, <1>4, <2>1, <2>5, IssueOrderInv DEF Forward, Replaying, JudgeInv
  <2> QED
    BY <2>2, <2>3, <2>4, <2>5 DEF Replaying
<1> QED
  BY <1>3, <1>4

LEMMA ReportJudgeInv ==
  ASSUME TypeOK, JudgeInv, ReportTask
  PROVE  JudgeInv'
<1>1. matched = Len(history) /\ ~stuck
  BY DEF ReportTask, Replaying, Owed, TypeOK
<1>2. /\ history' = AllCommands /\ commands' = <<>>
      /\ matched' = Len(history) + Len(commands)
      /\ UNCHANGED <<workflow, opts, pc, failures, stuck>>
  BY DEF ReportTask, AllCommands
<1>3. AllCommands' = AllCommands
  <2>1. AllCommands \in Seq(CommandType)
    BY DEF AllCommands, TypeOK
  <2> QED
    BY <1>2, <2>1 DEF AllCommands
<1>4. Produced' = Produced
  BY <1>1, <1>2, CommandFacts DEF Produced
<1>5. \A i : Rejected(i)' <=> Rejected(i)
  BY <1>2 DEF Rejected
<1> QED
  BY <1>1, <1>2, <1>3, <1>4, <1>5, OrderInvFrame DEF JudgeInv, FanSettled

LEMMA RestartJudgeInv ==
  ASSUME TypeOK, JudgeInv, NEW new, Restart(new)
  PROVE  JudgeInv'
<1>1. /\ UNCHANGED <<workflow, history>> /\ pc' = 1 /\ matched' = 0
      /\ commands' = <<>> /\ failures' = <<>> /\ ~stuck'
  BY DEF Restart
<1>2. AllCommands' = history /\ Produced' = 0 /\ 1..0 = {} /\ 1 - 1 = 0
  <2>1. history \in Seq(CommandType)
    BY DEF TypeOK
  <2> QED
    BY <1>1, <2>1 DEF AllCommands, Produced
<1>3. /\ DOMAIN history \subseteq DOMAIN AllCommands
      /\ \A k \in DOMAIN history :
           /\ AllCommands[k] = history[k]
           /\ \A j \in 1..(k - 1) : j \in DOMAIN history
  <2>1. DOMAIN history = 1..Len(history)
    BY DEF TypeOK
  <2> QED
    BY <2>1, CommandFacts
<1>4. Ordered'
  BY <1>1, <1>2, <1>3 DEF JudgeInv, OrderInv, Ordered
<1>5. Decided'
  BY <1>1, <1>2 DEF Decided
<1>6. InTurn'
  BY <1>1, <1>2, <1>3 DEF JudgeInv, OrderInv, InTurn
<1> QED
  BY <1>1, <1>4, <1>5, <1>6
  DEF JudgeInv, OrderInv, PendingAfterReplay, FailuresRejected, FanSettled

LEMMA NextJudgeInv ==
  ASSUME TypeOK, JudgeInv, [Next]_vars
  PROVE  JudgeInv'
<1>1. CASE ExecuteActivity
  BY <1>1, WorkflowCalls, DefaultedCallType, ScheduleJudgeInv
  DEF ExecuteActivity, Calling, JudgeInv
<1>2. CASE ExecuteLocalActivity
  BY <1>2, WorkflowCalls, LocalCallsKeepTheirOptions, ScheduleJudgeInv
  DEF ExecuteLocalActivity, Calling, JudgeInv
<1>3. ASSUME UNCHANGED <<workflow, opts, history, pc, matched, commands, failures, stuck>>
      PROVE  JudgeInv'
  <2>1. /\ AllCommands' = AllCommands /\ Produced' = Produced
        /\ \A j : Rejected(j)' <=> Rejected(j)
        /\ HistoryMatchesVerdicts' = HistoryMatchesVerdicts
    BY <1>3 DEF AllCommands, Produced, Rejected, HistoryMatchesVerdicts, FanRecorded
  <2> QED
    BY <1>3, <2>1, OrderInvFrame
    DEF JudgeInv, OrderInv, PendingAfterReplay, FanSettled, FanRecorded
<1>4. CASE Finish
  <2>1. CASE Owed
    BY <1>4, <2>1, EarlyEndShows, BreakJudgeInv DEF Finish, JudgeInv
  <2>2. CASE ~Owed
    BY <1>3, <1>4, <2>2 DEF Finish
  <2> QED
    BY <2>1, <2>2
<1>5. CASE ReportTask
  BY <1>5, ReportJudgeInv
<1>6. CASE \E i \in DOMAIN workflow.calls : CompleteActivity(i)
  BY <1>3, <1>6 DEF CompleteActivity
<1>7. CASE \E new \in Deployments : Restart(new)
  BY <1>7, RestartJudgeInv
<1>8. CASE UNCHANGED vars
  BY <1>3, <1>8 DEF vars
<1> QED
  BY <1>1, <1>2, <1>4, <1>5, <1>6, <1>7, <1>8 DEF Next

\* With any sequence of deployments: a replay that gets through the recorded
\* tasks shows that the deployed options give every call made in them the verdict
\* it was given, and a replay that breaks shows that they do not.
THEOREM ReplaysTestTheOptions == Spec => []ReplayJudges
<1>1. Init => TypeOK /\ JudgeInv
  BY InitTypeOK, InitJudgeInv
<1>2. TypeOK /\ JudgeInv /\ [Next]_vars => TypeOK' /\ JudgeInv'
  BY NextTypeOK, NextJudgeInv
<1>3. TypeOK /\ JudgeInv => ReplayJudges
  BY FullReplayMatches DEF JudgeInv, ReplayJudges
<1> QED
  BY <1>1, <1>2, <1>3, PTL DEF Spec

-----------------------------------------------------------------------------
(* What the log tells.                                                     *)

\* What the options of the worker that issued a command told to warn of was
\* logged; and while deployments keep the verdicts, what was logged as the reason
\* of a rejection is one under the options now deployed.
Warned ==
  \A k \in DOMAIN AllCommands :
    LET h == AllCommands[k] IN
    \A i \in DOMAIN NonIgnored(h.by, h.options) :
      \E j \in DOMAIN log :
        log[j] = [call |-> h.call, policy |-> NonIgnored(h.by, h.options)[i],
                  mode |-> "warn"]

FailsAreRejections ==
  kept => \A j \in DOMAIN log :
    log[j].mode = "fail" => log[j].call \in DOMAIN workflow.calls /\ Rejected(log[j].call)

LogInv == Warned /\ FailsAreRejections

\* In workflows that return the first error: a rejection that happened outside a
\* replay, or again after one, is explained by the log.
ExplainedInv ==
  workflow.style = "returns" =>
    /\ failures # <<>> => Owed \/ Explained
    /\ outcome = "failed" => failures # <<>> /\ ~Owed

LEMMA InitLogInv == Init => LogInv /\ ExplainedInv
<1> SUFFICES ASSUME Init
             PROVE  LogInv /\ ExplainedInv
  OBVIOUS
<1>1. DOMAIN AllCommands = {} /\ DOMAIN log = {}
  BY DEF Init, AllCommands
<1> QED
  BY <1>1 DEF Init, LogInv, Warned, FailsAreRejections, ExplainedInv

\* The log only grows, by the entries of one call.
LEMMA LogGrows ==
  ASSUME TypeOK, Calling, NEW c \in Call, Schedule(c)
  PROVE  LET new == Entries(opts, pc, c) IN
         /\ \A j \in DOMAIN log : j \in DOMAIN log' /\ log'[j] = log[j]
         /\ \A j \in DOMAIN log' :
              (log'[j] = log[j] /\ j \in DOMAIN log)
                \/ \E k \in DOMAIN NonIgnored(opts, c) : log'[j] = new[k]
         /\ ~Replaying =>
              /\ Len(log') = Len(log) + Len(NonIgnored(opts, c))
              /\ \A k \in DOMAIN NonIgnored(opts, c) :
                   Len(log) + k \in DOMAIN log' /\ log'[Len(log) + k] = new[k]
<1> DEFINE new == Entries(opts, pc, c)
           s   == NonIgnored(opts, c)
<1>1. pc \in Nat
  BY CommandFacts
<1>2. new \in Seq(Entry) /\ log \in Seq(Entry) /\ s \in Seq(Policies)
  BY <1>1, EntriesType, NonIgnoredType DEF TypeOK, Entry
<1>3. DOMAIN new = DOMAIN s
  BY DEF Entries
<1>4. log' = log \/ log' = log \o new
  BY DEF Schedule, Logged
<1>5. ~Replaying => log' = log \o new
  BY DEF Schedule, Logged
<1> HIDE DEF new, s
<1>6. Len(new) = Len(s) /\ DOMAIN s = 1..Len(s) /\ DOMAIN log = 1..Len(log)
      /\ Len(s) \in Nat /\ Len(log) \in Nat
  BY <1>2, <1>3
<1> DEFINE both == log \o new
<1>7. /\ Len(both) = Len(log) + Len(s)
      /\ DOMAIN both = 1..(Len(log) + Len(s))
      /\ \A j \in 1..Len(log) : both[j] = log[j]
      /\ \A k \in 1..Len(s) : both[Len(log) + k] = new[k]
  BY <1>2, <1>6
<1> HIDE DEF both
<1>8. \A k \in DOMAIN s : Len(log) + k \in DOMAIN both /\ both[Len(log) + k] = new[k]
  BY <1>6, <1>7
<1>9. ASSUME NEW j \in DOMAIN both, j \notin DOMAIN log
      PROVE  \E k \in DOMAIN s : both[j] = new[k]
  <2>1. j - Len(log) \in DOMAIN s /\ Len(log) + (j - Len(log)) = j
    BY <1>6, <1>7, <1>9
  <2> QED
    BY <1>6, <1>7, <2>1
<1>10. \A j \in DOMAIN log : j \in DOMAIN both /\ both[j] = log[j]
  BY <1>6, <1>7
<1>11. log' = both \/ log' = log
  BY <1>4 DEF both
<1>12. ~Replaying => log' = both
  BY <1>5 DEF both
<1>13. \A j \in DOMAIN log : j \in DOMAIN log' /\ log'[j] = log[j]
  BY <1>10, <1>11
<1>14. \A j \in DOMAIN log' :
         (log'[j] = log[j] /\ j \in DOMAIN log) \/ \E k \in DOMAIN s : log'[j] = new[k]
  BY <1>9, <1>10, <1>11
<1> QED
  BY <1>7, <1>8, <1>12, <1>13, <1>14 DEF new, s

LEMMA ScheduleLogInv ==
  ASSUME TypeOK, LogInv, Calling, NEW c \in Call,
         c = WithDefaultHeartbeat(workflow.calls[pc]), Schedule(c)
  PROVE  LogInv'
<1> DEFINE new == Entries(opts, pc, c)
           s   == NonIgnored(opts, c)
<1>1. (hasError(opts, c) <=> Rejected(pc)) /\ pc \in DOMAIN workflow.calls
  BY DEF Rejected, Calling
<1>2. UNCHANGED <<workflow, opts, history, kept>> /\ \A i : Rejected(i)' <=> Rejected(i)
  BY DEF Schedule, Rejected
<1>3. \A k \in DOMAIN s :
        new[k] = [call |-> pc, policy |-> s[k], mode |-> Mode(opts, s[k])]
  BY DEF Entries
<1>4. /\ \A k \in DOMAIN s : Mode(opts, s[k]) \in {"warn", "fail"}
      /\ \A k \in DOMAIN s : Mode(opts, s[k]) = "fail" => Rejected(pc)
  BY <1>1, EntryModes DEF Mode
<1>5. /\ \A j \in DOMAIN log : j \in DOMAIN log' /\ log'[j] = log[j]
      /\ \A j \in DOMAIN log' :
           (log'[j] = log[j] /\ j \in DOMAIN log) \/ \E k \in DOMAIN s : log'[j] = new[k]
      /\ ~Replaying =>
           \A k \in DOMAIN s :
             Len(log) + k \in DOMAIN log' /\ log'[Len(log) + k] = new[k]
  BY LogGrows
<1> HIDE DEF new, s
<1>6. FailsAreRejections'
  <2>1. ASSUME kept, NEW j \in DOMAIN log', log'[j].mode = "fail"
        PROVE  log'[j].call \in DOMAIN workflow.calls /\ Rejected(log'[j].call)
    <3>1. CASE log'[j] = log[j] /\ j \in DOMAIN log
      BY <2>1, <3>1 DEF LogInv, FailsAreRejections
    <3>2. ASSUME NEW k \in DOMAIN s, log'[j] = new[k]
          PROVE  log'[j].call \in DOMAIN workflow.calls /\ Rejected(log'[j].call)
      <4>1. new[k].call = pc /\ new[k].mode = Mode(opts, s[k])
        <5>1. new[k] = [call |-> pc, policy |-> s[k], mode |-> Mode(opts, s[k])]
          BY <1>3
        <5> QED
          BY <5>1
      <4>2. Rejected(pc)
        BY <1>4, <2>1, <3>2, <4>1
      <4> QED
        BY <1>1, <3>2, <4>1, <4>2
    <3> QED
      BY <1>5, <3>1, <3>2
  <2> QED
    BY <1>2, <2>1 DEF FailsAreRejections
<1>7. CASE Rejected(pc) \/ Replaying
  <2>1. commands' = commands
    BY <1>1, <1>7 DEF Schedule, Reject, Forward, Nondeterministic
  <2>2. AllCommands' = AllCommands
    BY <1>2, <2>1 DEF AllCommands
  <2>3. Warned'
    BY <1>5, <2>2 DEF LogInv, Warned
  <2> QED
    BY <1>6, <2>3 DEF LogInv
<1>8. CASE ~Rejected(pc) /\ ~Replaying
  <2> DEFINE m == Len(AllCommands)
             h == [call |-> pc, options |-> c, by |-> opts]
  <2>1. Forward(c)
    BY <1>1, <1>8 DEF Schedule
  <2>2. /\ m \in Nat /\ DOMAIN AllCommands = 1..m /\ DOMAIN AllCommands' = 1..(m + 1)
        /\ \A k \in 1..m : AllCommands'[k] = AllCommands[k]
        /\ AllCommands'[m + 1] = h
    BY <1>2, <1>8, <2>1, NewCommand
  <2>3. NonIgnored(h.by, h.options) = s /\ h.call = pc
    BY DEF s
  <2> HIDE DEF m, h
  <2>4. \A i \in DOMAIN s : Mode(opts, s[i]) = "warn"
    BY <1>4, <1>8
  <2>5. ASSUME NEW i \in DOMAIN s
        PROVE  \E j \in DOMAIN log' :
                 log'[j] = [call |-> pc, policy |-> s[i], mode |-> "warn"]
    <3>1. new[i] = [call |-> pc, policy |-> s[i], mode |-> "warn"]
      BY <1>3, <2>4
    <3>2. Len(log) + i \in DOMAIN log' /\ log'[Len(log) + i] = new[i]
      BY <1>5, <1>8
    <3> QED
      BY <3>1, <3>2
  <2>6. ASSUME NEW k \in 1..(m + 1),
               NEW i \in DOMAIN NonIgnored(AllCommands'[k].by, AllCommands'[k].options)
        PROVE  \E j \in DOMAIN log' :
                 log'[j] = [call |-> AllCommands'[k].call,
                            policy |-> NonIgnored(AllCommands'[k].by, AllCommands'[k].options)[i],
                            mode |-> "warn"]
    <3>1. CASE k = m + 1
      BY <2>2, <2>3, <2>5, <2>6, <3>1
    <3>2. CASE k \in 1..m
      <4>1. AllCommands'[k] = AllCommands[k] /\ k \in DOMAIN AllCommands
        BY <2>2, <3>2
      <4>2. PICK j \in DOMAIN log :
              log[j] = [call |-> AllCommands[k].call,
                        policy |-> NonIgnored(AllCommands[k].by, AllCommands[k].options)[i],
                        mode |-> "warn"]
        BY <2>6, <4>1 DEF LogInv, Warned
      <4> QED
        BY <1>5, <4>1, <4>2
    <3> QED
      BY <2>2, <3>1, <3>2
  <2>7. Warned'
    BY <2>2, <2>6 DEF Warned
  <2> QED
    BY <1>6, <2>7 DEF LogInv
<1> QED
  BY <1>7, <1>8

LEMMA NextLogInv ==
  ASSUME TypeOK, LogInv, [Next]_vars
  PROVE  LogInv'
<1>1. CASE ExecuteActivity
  BY <1>1, WorkflowCalls, DefaultedCallType, ScheduleLogInv DEF ExecuteActivity, Calling
<1>2. CASE ExecuteLocalActivity
  BY <1>2, WorkflowCalls, LocalCallsKeepTheirOptions, ScheduleLogInv
  DEF ExecuteLocalActivity, Calling
<1>3. ASSUME UNCHANGED <<workflow, opts, log, kept>>, AllCommands' = AllCommands
      PROVE  LogInv'
  BY <1>3 DEF LogInv, Warned, FailsAreRejections, Rejected
<1>4. CASE Finish
  BY <1>3, <1>4 DEF Finish, Nondeterministic, AllCommands
<1>5. CASE ReportTask
  <2>1. AllCommands' = AllCommands \o <<>> /\ AllCommands \in Seq(CommandType)
    BY <1>5 DEF ReportTask, AllCommands, TypeOK
  <2>2. AllCommands' = AllCommands
    BY <2>1
  <2> QED
    BY <1>3, <1>5, <2>2 DEF ReportTask
<1>6. CASE \E i \in DOMAIN workflow.calls : CompleteActivity(i)
  BY <1>3, <1>6 DEF CompleteActivity, AllCommands
<1>7. ASSUME NEW new \in Deployments, Restart(new)
      PROVE  LogInv'
  <2>1. AllCommands' = history
    <3>1. history \in Seq(CommandType) /\ AllCommands' = history \o <<>>
      BY <1>7 DEF Restart, AllCommands, TypeOK
    <3> QED
      BY <3>1
  <2>2. \A k \in DOMAIN history : k \in DOMAIN AllCommands /\ AllCommands[k] = history[k]
    <3>1. DOMAIN history = 1..Len(history)
      BY DEF TypeOK
    <3> QED
      BY <3>1, CommandFacts
  <2>3. log' = log /\ workflow' = workflow
        /\ (kept' => kept /\ \A i : Rejected(i)' <=> Rejected(i))
    BY <1>7, SameVerdict DEF Restart, Rejected
  <2>4. Warned'
    BY <2>1, <2>2, <2>3 DEF LogInv, Warned
  <2>5. FailsAreRejections'
    BY <2>3 DEF LogInv, FailsAreRejections
  <2> QED
    BY <2>4, <2>5 DEF LogInv
<1>8. CASE UNCHANGED vars
  BY <1>3, <1>8 DEF vars, AllCommands
<1> QED
  BY <1>1, <1>2, <1>4, <1>5, <1>6, <1>7, <1>8 DEF Next

\* Every warning a recorded command was owed is in the log, whatever workers
\* were lost since; and a forwarded call was never logged as rejected while
\* deployments keep the verdicts.
THEOREM WarningsAreLogged == Spec => []WarningsLogged
<1>1. Init => TypeOK /\ LogInv
  BY InitTypeOK, InitLogInv
<1>2. TypeOK /\ LogInv /\ [Next]_vars => TypeOK' /\ LogInv'
  BY NextTypeOK, NextLogInv
<1>3. LogInv /\ Inv => WarningsLogged
  <2> SUFFICES ASSUME LogInv, Inv, NEW k \in DOMAIN history
               PROVE  LET h == history[k] IN
                      /\ \A i \in DOMAIN NonIgnored(h.by, h.options) :
                           \E j \in DOMAIN log :
                             log[j] = [call |-> h.call,
                                       policy |-> NonIgnored(h.by, h.options)[i],
                                       mode |-> "warn"]
                      /\ kept => "fail" \notin LoggedModes(h.call)
    BY DEF WarningsLogged
  <2>1. k \in DOMAIN AllCommands /\ AllCommands[k] = history[k]
    <3>1. DOMAIN history = 1..Len(history) /\ TypeOK
      BY DEF Inv, TypeOK
    <3> QED
      BY <3>1, CommandFacts
  <2>2. ASSUME kept, "fail" \in LoggedModes(history[k].call)
        PROVE  FALSE
    <3>1. PICK j \in DOMAIN log : log[j].call = history[k].call /\ log[j].mode = "fail"
      BY <2>2 DEF LoggedModes
    <3>2. Rejected(history[k].call)
      BY <2>2, <3>1 DEF LogInv, FailsAreRejections
    <3> QED
      BY <2>1, <2>2, <3>2 DEF Inv, ReplayInv, CommandsForwarded
  <2> QED
    BY <2>1, <2>2 DEF LogInv, Warned
<1> QED
  BY <1>1, <1>2, <1>3, ReplaysFollowHistory, PTL DEF Spec

LEMMA RejectionExplained ==
  ASSUME TypeOK, Calling, NEW c \in Call, Schedule(c), hasError(opts, c), ~Replaying,
         failures = <<>>
  PROVE  Explained'
<1> DEFINE s   == NonIgnored(opts, c)
           new == Entries(opts, pc, c)
<1>1. failures'[1] = s
  BY DEF Schedule, Reject
<1>2. /\ Len(log') = Len(log) + Len(s)
      /\ \A k \in DOMAIN s : log'[Len(log) + k] = new[k]
  BY LogGrows
<1>3. \A k \in DOMAIN s :
        new[k] = [call |-> pc, policy |-> s[k], mode |-> Mode(opts, s[k])]
  BY DEF Entries
<1>4. \E k \in DOMAIN s : Mode(opts, s[k]) = "fail"
  BY EntryModes
<1>5. \A k \in 2..Len(s) : \E i, j \in DOMAIN canonicalOrder :
        i < j /\ canonicalOrder[i] = s[k - 1] /\ canonicalOrder[j] = s[k]
  <2> DEFINE S == {p \in Violated(c, opts.requiredRetries) :
                     severityFor(opts.severities, p) # "Ignore"}
  <2>1. Lists(s, S, 4)
    BY CanonicalListing DEF NonIgnored
  <2> HIDE DEF s, S
  <2> QED
    BY <2>1, CanonicalOrderFacts DEF Lists
<1>6. Len(log) \in Nat /\ Len(s) \in Nat /\ DOMAIN s = 1..Len(s)
  BY NonIgnoredType DEF TypeOK
<1> HIDE DEF s, new
<1> DEFINE first   == Len(log') - Len(s)
           entries == [k \in DOMAIN s |-> log'[first + k]]
<1>7. first = Len(log) /\ first >= 0
  BY <1>2, <1>6
<1>8. ASSUME NEW k \in DOMAIN s
      PROVE  entries[k] = [call |-> pc, policy |-> s[k], mode |-> Mode(opts, s[k])]
  <2>1. entries[k] = log'[Len(log) + k]
    BY <1>7
  <2> QED
    BY <1>2, <1>3, <2>1
<1> HIDE DEF entries
<1>9. ASSUME NEW k \in DOMAIN s
      PROVE  /\ entries[k].policy = s[k] /\ entries[k].call = pc
             /\ entries[k].mode = Mode(opts, s[k])
  <2>1. entries[k] = [call |-> pc, policy |-> s[k], mode |-> Mode(opts, s[k])]
    BY <1>8
  <2> QED
    BY <2>1
<1>10. \A k \in DOMAIN s : 1 \in DOMAIN s
  BY <1>6
<1>11. \A k \in DOMAIN s : entries[k].call = entries[1].call
  BY <1>9, <1>10
<1>12. \E k \in DOMAIN s : entries[k].mode = "fail"
  BY <1>4, <1>9
<1>13. /\ first >= 0
       /\ \A k \in DOMAIN s : entries[k].policy = s[k]
       /\ \A k \in DOMAIN s : entries[k].call = entries[1].call
       /\ \E k \in DOMAIN s : entries[k].mode = "fail"
       /\ \A k \in 2..Len(s) : \E i, j \in DOMAIN canonicalOrder :
            /\ i < j
            /\ canonicalOrder[i] = s[k - 1] /\ canonicalOrder[j] = s[k]
  BY <1>5, <1>7, <1>9, <1>11, <1>12
<1> QED
  BY <1>1, <1>13, Zenon DEF Explained, entries

LEMMA ScheduleExplainedInv ==
  ASSUME TypeOK, Calling, NEW c \in Call, Schedule(c)
  PROVE  ExplainedInv'
<1> SUFFICES ASSUME workflow'.style = "returns"
             PROVE  /\ failures' # <<>> => Owed' \/ Explained'
                    /\ outcome' # "failed"
  BY DEF ExplainedInv
<1>1. failures = <<>> /\ outcome = "none"
  BY DEF Schedule, Calling, Returning, Open
<1>2. outcome' = outcome
  BY DEF Schedule, Reject, Forward, Nondeterministic
<1>3. CASE hasError(opts, c)
  <2>1. Owed' = Owed /\ workflow' = workflow
    BY <1>3 DEF Schedule, Reject, Owed
  <2>2. ~Owed => ~Replaying
    BY <2>1 DEF Replaying, FanRecorded
  <2> QED
    BY <1>1, <1>2, <1>3, <2>1, <2>2, RejectionExplained
<1>4. CASE ~hasError(opts, c)
  <2>1. failures' = failures
    BY <1>4 DEF Schedule, Forward, Nondeterministic
  <2> QED
    BY <1>1, <1>2, <2>1
<1> QED
  BY <1>3, <1>4

LEMMA NextExplainedInv ==
  ASSUME TypeOK, ExplainedInv, [Next]_vars
  PROVE  ExplainedInv'
<1>1. CASE ExecuteActivity
  BY <1>1, WorkflowCalls, DefaultedCallType, ScheduleExplainedInv DEF ExecuteActivity, Calling
<1>2. CASE ExecuteLocalActivity
  BY <1>2, WorkflowCalls, ScheduleExplainedInv DEF ExecuteLocalActivity, Calling
<1>3. ASSUME UNCHANGED <<workflow, history, matched, failures, log>>,
             outcome' = outcome \/ ~(outcome' = "failed")
      PROVE  ExplainedInv'
  <2>1. (Owed' <=> Owed) /\ (Explained' <=> Explained)
    BY <1>3 DEF Explained, Owed
  <2> QED
    BY <1>3, <2>1 DEF ExplainedInv
<1>4. CASE Finish
  <2>1. UNCHANGED <<workflow, history, matched, failures, log>>
    BY <1>4 DEF Finish, Nondeterministic
  <2>2. CASE Owed
    BY <1>3, <1>4, <2>1, <2>2 DEF Finish, Nondeterministic
  <2>3. CASE ~Owed
    <3>1. Owed' = Owed /\ Explained' = Explained
      BY <2>1 DEF Owed, Explained
    <3>2. outcome' = "failed" => failures # <<>>
      BY <1>4, <2>3 DEF Finish
    <3> QED
      BY <2>1, <2>3, <3>1, <3>2 DEF ExplainedInv
  <2> QED
    BY <2>2, <2>3
<1>5. CASE ReportTask
  <2>1. ~Owed /\ UNCHANGED <<workflow, failures, outcome, log>>
    BY <1>5 DEF ReportTask, Replaying
  <2>2. ~Owed'
    <3>1. history' = AllCommands /\ matched' = Len(history) + Len(commands)
      BY <1>5 DEF ReportTask, AllCommands
    <3>2. matched' = Len(history') /\ Len(history') \in Nat
      BY <3>1, CommandFacts
    <3> QED
      BY <3>2 DEF Owed
  <2>3. Explained' = Explained
    BY <2>1 DEF Explained
  <2> QED
    BY <2>1, <2>2, <2>3 DEF ExplainedInv
<1>6. CASE \E i \in DOMAIN workflow.calls : CompleteActivity(i)
  BY <1>3, <1>6 DEF CompleteActivity
<1>7. CASE \E new \in Deployments : Restart(new)
  BY <1>7 DEF Restart, ExplainedInv
<1>8. CASE UNCHANGED vars
  BY <1>3, <1>8 DEF vars
<1> QED
  BY <1>1, <1>2, <1>4, <1>5, <1>6, <1>7, <1>8 DEF Next

\* Whatever workers are lost and whatever options are deployed, the error a
\* workflow is failed with names exactly the policies that were logged last, for
\* one call, sorted, and with the reason among them.
THEOREM FailuresAreExplained == Spec => []FailureExplained
<1>1. Init => TypeOK /\ ExplainedInv
  BY InitTypeOK, InitLogInv
<1>2. TypeOK /\ ExplainedInv /\ [Next]_vars => TypeOK' /\ ExplainedInv'
  BY NextTypeOK, NextExplainedInv
<1>3. ExplainedInv => FailureExplained
  BY DEF ExplainedInv, FailureExplained
<1> QED
  BY <1>1, <1>2, <1>3, PTL DEF Spec

=============================================================================
