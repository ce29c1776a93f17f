------------------------------ MODULE Replays ------------------------------
(***************************************************************************)
(* What a workflow function reads of the world outside it, and what it     *)
(* reads again when a worker that has lost the execution from its cache    *)
(* replays it: side effects (internal/workflowhelpers/side_effect.go,      *)
(* ulid.go, not_using_return_value_in_side_effect and                      *)
(* not_validating_replay_safety_before_deployments), the environment       *)
(* (env.go and reading_environment_variables_in_workflow_code), the clock  *)
(* (using_system_time_instead_of_workflow_time), another service           *)
(* (performing_network_calls_in_workflow_code), a variable of the process  *)
(* (modifying_shared_state_in_workflow_code) and the version of its code   *)
(* (not_using_workflow_versioning).                                        *)
(*                                                                         *)
(* An execution is the list of its reads.  A read made for the first time  *)
(* decides what the execution then does, and may leave a marker in its     *)
(* history; a replay reads again, from history or from the process it runs *)
(* in.  Worker processes differ in environment, in counter and in build.   *)
(***************************************************************************)
EXTENDS Integers, Sequences, FiniteSetsExt, WorkflowExecution

CONSTANTS EnvValues,  \* values of the variable, with ""
          MaxReads,   \* bound on the calls of the functions that may be repeated
          MaxCount    \* bound on the shared counter

ASSUME ReplaysAssumption ==
    /\ {MaxReads, MaxCount} \subseteq Nat
    /\ "" \in EnvValues

\* os.LookupEnv's two results.  Found may go with the empty value.
Environments == {e \in [value : EnvValues, found : BOOLEAN] : e.found \/ e.value = ""}

NotSet == [value |-> "", found |-> FALSE]

None == <<>>       \* no marker
Some(v) == <<v>>   \* a marker that holds v

VARIABLES env,      \* what the process that holds the execution finds: its
                    \* environment, its clock, or what a service answers it
          counter,  \* processedCount of that process
          build,    \* "old": code from before workflow.GetVersion; "new"
          given,    \* the execution's input
          history,  \* per read: what was acted on, its marker, and env then
          seen      \* what the execution in memory has read

replayVars == <<env, counter, build, given, history, seen>>

\* Functions that read once, and helpers a function may call again.
HelperFunctions == {"NewULID", "LookupEnv"}
ReplayFunctions ==
    HelperFunctions \cup
    {"SideEffectV1", "SideEffectV2", "ReplayTested", "EnvV1", "EnvV2", "TimeV1", "TimeV2",
     "NetworkV1", "NetworkV2", "CounterV1", "CounterV2", "Versioned"}

\* The ones not written to be replayed.
ReplayUnsafe == {"SideEffectV1", "EnvV1", "TimeV1", "NetworkV1", "CounterV1"}

Reads == IF fn \in HelperFunctions THEN MaxReads ELSE 1

\* Every ID made is new.
FreshID == Len(history) + 1

-----------------------------------------------------------------------------
(* Side effects. *)

\* The last marker of a call, among those of the first n reads.
LastMarker(n) ==
    LET marked == {i \in 1..n : history[i].marker # None}
    IN  IF marked = {} THEN None ELSE history[Max(marked)].marker

\* A fault: a variable that is not set is taken for an empty one.
SameValue(a, b) == a.value = b.value

\* MutableSideEffect compares what the function returns now with the value
\* recorded last, and records it if it is another.
SameResult(a, b) == a = b

MutableSideEffect(v) ==
    LET last == LastMarker(Len(history))
    IN  IF last # None /\ SameResult(last[1], v)
        THEN [acted |-> last[1], marker |-> None]
        ELSE [acted |-> v, marker |-> Some(v)]

SideEffect(v) == [acted |-> v, marker |-> Some(v)]

\* A read that leaves nothing in history.
Unrecorded(v) == [acted |-> v, marker |-> None]

-----------------------------------------------------------------------------
(* What each function reads for the first time, and the marker it leaves.  *)

NewULID      == SideEffect(FreshID)
ReplayTested == SideEffect(FreshID)
SideEffectV2 == SideEffect(FreshID)
\* The closure sets a variable, and its result, which is recorded, is nil.
SideEffectV1 == [acted |-> FreshID, marker |-> Some(0)]

LookupEnv == MutableSideEffect(env)
EnvV1     == Unrecorded(env)
EnvV2     == Unrecorded(given)

TimeV1    == Unrecorded(env)
\* workflow.Now is the time of the task's start, an event of the history.
TimeV2    == SideEffect(env)

NetworkV1 == Unrecorded(env)
\* An activity's result is an event of the history.
NetworkV2 == SideEffect(env)

CounterV1 == Unrecorded(counter + 1)
CounterV2 == Unrecorded(0)

\* Code from before the change has no GetVersion, and leaves no marker.
Versioned == IF build = "old" THEN Unrecorded("OldActivity")
             ELSE [acted |-> "NewActivity", marker |-> Some(1)]

FirstRead ==
    CASE fn = "NewULID" -> NewULID
      [] fn = "ReplayTested" -> ReplayTested
      [] fn = "SideEffectV1" -> SideEffectV1
      [] fn = "SideEffectV2" -> SideEffectV2
      [] fn = "LookupEnv" -> LookupEnv
      [] fn = "EnvV1"     -> EnvV1
      [] fn = "EnvV2"     -> EnvV2
      [] fn = "TimeV1"    -> TimeV1
      [] fn = "TimeV2"    -> TimeV2
      [] fn = "NetworkV1" -> NetworkV1
      [] fn = "NetworkV2" -> NetworkV2
      [] fn = "CounterV1" -> CounterV1
      [] fn = "CounterV2" -> CounterV2
      [] fn = "Versioned" -> Versioned

\* What GetVersion answers a replay that has no marker of the change.
VersionOf(marker) == IF marker = None THEN "OldActivity" ELSE "NewActivity"

\* What a replay's i-th read comes to: what history has, or, where it has
\* nothing, what the code reads now.
Reread(i) ==
    CASE fn = "SideEffectV1" -> 0  \* the closure does not run
      [] fn = "Versioned" -> IF build = "old" THEN "OldActivity"
                             ELSE VersionOf(history[i].marker)
      [] OTHER -> IF LastMarker(i) # None THEN LastMarker(i)[1] ELSE FirstRead.acted

Increment == IF fn = "CounterV1" THEN counter + 1 ELSE counter

-----------------------------------------------------------------------------
ReplaysStart ==
    /\ env = NotSet
    /\ given \in IF fn = "EnvV2" THEN Environments ELSE {NotSet}
    /\ counter = 0
    /\ build \in IF fn = "Versioned" THEN {"old", "new"} ELSE {"new"}
    /\ history = <<>> /\ seen = <<>>

\* A workflow task of an execution that is in memory up to date.
Read ==
    /\ Open /\ Len(seen) = Len(history) /\ Len(history) < Reads
    /\ counter < MaxCount
    /\ history' = Append(history, [acted |-> FirstRead.acted, marker |-> FirstRead.marker,
                                   env |-> env])
    /\ seen' = Append(seen, FirstRead.acted)
    /\ counter' = Increment
    /\ UNCHANGED <<execution, env, build, given>>

Replay ==
    /\ Open /\ Len(seen) < Len(history)
    /\ counter < MaxCount
    /\ seen' = Append(seen, Reread(Len(seen) + 1))
    /\ counter' = Increment
    /\ UNCHANGED <<execution, env, build, given, history>>

ReturnFromReads ==
    /\ Len(seen) = Len(history) /\ Len(history) = Reads
    /\ Close("completed")
    /\ UNCHANGED replayVars

\* The cached execution is evicted, or its process ends: the next task is some
\* process's, of this build or a later one.
Evict ==
    /\ Open
    /\ seen' = <<>>
    /\ env' \in Environments
    /\ counter' \in IF fn = "CounterV1" THEN 0..MaxCount - 1 ELSE {0}
    /\ build' \in {build, "new"}
    /\ UNCHANGED <<execution, given, history>>

ReplaysNext ==
    /\ fn \in ReplayFunctions
    /\ \/ Read \/ Replay \/ ReturnFromReads \/ Evict
       \/ RequestCancel /\ UNCHANGED replayVars

ReplaysInit == /\ fn \in ReplayFunctions /\ canceled = FALSE /\ outcome = "open"
               /\ ReplaysStart

ReplaysSpec == ReplaysInit /\ [][ReplaysNext]_<<execution, replayVars>>

-----------------------------------------------------------------------------
(* A function written to be replayed reads what it once acted on, in       *)
(* whatever process and however often it is replayed; what LookupEnv acted *)
(* on was the environment at that moment (its side effect notes every      *)
(* change, of the value and of its being there); and NewULID's IDs are     *)
(* distinct.  (The V1 functions do not: SideEffectV1 reads the empty value, *)
(* the others what another process finds.)                                 *)
ReadsHold ==
    fn \in ReplayFunctions \ ReplayUnsafe =>
    /\ \A i \in DOMAIN seen : seen[i] = history[i].acted
    /\ fn = "LookupEnv" => \A i \in DOMAIN history : history[i].acted = history[i].env
    /\ fn = "NewULID" => \A i, j \in DOMAIN seen : i # j => seen[i] # seen[j]
=============================================================================
