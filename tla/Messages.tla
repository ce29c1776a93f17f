------------------------------ MODULE Messages ------------------------------
(***************************************************************************)
(* Workflow functions that live on what they are sent:                     *)
(*   - waits for one signal: "WaitV1", "WaitV2"                            *)
(*     (deadlocking_when_workflow_canceled) and "WaitForStatusUpdate"      *)
(*     (writing_polling_loops_in_workflow_code);                           *)
(*   - updates applied in the order of their IDs, or not: "UpdatesV1",     *)
(*     "UpdatesV2" (assuming_signal_update_order);                         *)
(*   - signals taken before the execution continues as new: "Drain"        *)
(*     (not_draining_signals_before_completing_workflow);                  *)
(*   - a loop over a selector: "Subscription" (not_using_continue_as_new). *)
(*                                                                         *)
(* Signals are numbered in the order the service records them.  An update  *)
(* is its change's ID, a ULID, of which only the order matters; 0 is the   *)
(* empty string.  Updates arrive in any order and any number of times.     *)
(***************************************************************************)
EXTENDS Integers, Sequences, FiniteSetsExt, WorkflowExecution

CONSTANTS MaxSignals,  \* bound on the signals sent
          Changes,     \* IDs of the changes clients send
          MaxAnswers   \* bound on the updates answered in a run

ASSUME MessagesAssumption ==
    /\ {MaxSignals, MaxAnswers} \subseteq Nat
    /\ Changes \subseteq Nat

VARIABLES sent,       \* signals recorded so far
          inbox,      \* those no workflow task has received yet
          applied,    \* those applied to the state that is carried over
          task,       \* Drain: "idle", or "closing": its task wants to close
          suggested,  \* the service suggests to continue as new
          lastID,     \* the update handler's variable, in memory
          batch,      \* answers of the workflow task in progress
          answers     \* answers the service has recorded, in order

signalVars  == <<sent, inbox, applied, task, suggested>>
updateVars  == <<lastID, batch, answers>>
messageVars == <<signalVars, updateVars>>

WaitFunctions    == {"WaitV1", "WaitV2", "WaitForStatusUpdate"}
UpdateFunctions  == {"UpdatesV1", "UpdatesV2"}
MessageFunctions == WaitFunctions \cup UpdateFunctions \cup {"Drain", "Subscription"}

MessagesStart ==
    /\ sent = 0 /\ inbox = <<>> /\ applied = <<>> /\ task = "idle"
    /\ suggested = FALSE
    /\ lastID = 0 /\ batch = <<>> /\ answers = <<>>

\* The service records a signal.
Signal ==
    /\ Open /\ sent < MaxSignals
    /\ sent' = sent + 1
    /\ inbox' = Append(inbox, sent + 1)
    /\ UNCHANGED <<execution, applied, task, suggested, updateVars>>

-----------------------------------------------------------------------------
(* Waiting for a signal. *)

Receive ==
    /\ inbox # <<>>
    /\ Close("completed")
    /\ inbox' = Tail(inbox)
    /\ UNCHANGED <<sent, applied, task, suggested, updateVars>>

\* A bare Receive does not react to cancellation.
WaitV1 == fn = "WaitV1" /\ Receive
WaitForStatusUpdate == fn = "WaitForStatusUpdate" /\ Receive

\* A fault: the selector has no branch for cancellation.
UnblockedBySignal == inbox # <<>>

\* What WaitV2's selector reacts to.
Unblocked == inbox # <<>> \/ canceled

\* The context's error is returned even when the signal was there.
WaitV2 ==
    /\ fn = "WaitV2" /\ Unblocked
    /\ Close(ContextError)
    /\ inbox' = IF inbox = <<>> THEN inbox ELSE Tail(inbox)
    /\ UNCHANGED <<sent, applied, task, suggested, updateVars>>

-----------------------------------------------------------------------------
(* Updates.  A workflow task runs validator and handler of each update it  *)
(* carries, one update after the other; the answers are recorded, and the  *)
(* clients get them, when the task completes.                              *)

LastAccepted(as) ==
    LET accepted == {i \in DOMAIN as : as[i].accepted}
    IN  IF accepted = {} THEN 0 ELSE as[Max(accepted)].id

\* A fault: updates are compared with those recorded before this task.
ValidatorOfRecorded(id) == fn = "UpdatesV2" => id > LastAccepted(answers)

\* UpdatesV2's validator; UpdatesV1 has none.
Validator(id) == fn = "UpdatesV2" => id > lastID

Update(id) ==
    /\ Open /\ fn \in UpdateFunctions
    /\ Len(answers) + Len(batch) < MaxAnswers
    /\ batch' = Append(batch, [id |-> id, accepted |-> Validator(id)])
    /\ lastID' = IF Validator(id) THEN id ELSE lastID
    /\ UNCHANGED <<execution, signalVars, answers>>

CompleteUpdateTask ==
    /\ Open /\ batch # <<>>
    /\ answers' = answers \o batch
    /\ batch' = <<>>
    /\ UNCHANGED <<execution, signalVars, lastID>>

\* A fault: the variable outlives the crash as it was.
NotReplayed(as) == lastID

\* What replaying the recorded updates leaves in the variable: the handlers
\* run again, the validators do not.
Replayed(as) == LastAccepted(as)

\* The worker crashes; the updates of its task are delivered again, or not.
CrashInUpdateTask ==
    /\ Open /\ batch # <<>>
    /\ batch' = <<>>
    /\ lastID' = Replayed(answers)
    /\ UNCHANGED <<execution, signalVars, answers>>

\* "done" is received; the task's updates have run before.
EndUpdates ==
    /\ fn \in UpdateFunctions /\ inbox # <<>>
    /\ Close("completed")
    /\ inbox' = Tail(inbox)
    /\ answers' = answers \o batch /\ batch' = <<>>
    /\ UNCHANGED <<sent, applied, task, suggested, lastID>>

-----------------------------------------------------------------------------
(* Draining signals before continuing as new. *)

SuggestContinueAsNew ==
    /\ Open /\ fn \in {"Drain", "Subscription"} /\ ~suggested
    /\ suggested' = TRUE
    /\ UNCHANGED <<execution, sent, inbox, applied, task, updateVars>>

\* The caller of DrainSignalsBeforeContinueAsNew takes signals meanwhile.
ReceiveSignal ==
    /\ Open /\ fn = "Drain" /\ task = "idle" /\ inbox # <<>>
    /\ applied' = Append(applied, Head(inbox))
    /\ inbox' = Tail(inbox)
    /\ UNCHANGED <<execution, sent, task, suggested, updateVars>>

\* A fault: one signal is taken.
DrainedOnce == IF inbox = <<>> THEN <<>> ELSE <<Head(inbox)>>

\* ReceiveAsync until there is none left.
Drained == inbox

DrainSignals ==
    /\ Open /\ fn = "Drain" /\ task = "idle" /\ suggested
    /\ applied' = applied \o Drained
    /\ inbox' = <<>>
    /\ task' = "closing"
    /\ UNCHANGED <<execution, sent, suggested, updateVars>>

\* The service accepts the close if no signal has come since the task began,
\* and otherwise has it done again.
ContinueAsNew ==
    /\ task = "closing" /\ inbox = <<>>
    /\ Close("continuedAsNew")
    /\ UNCHANGED messageVars

CloseRejected ==
    /\ Open /\ task = "closing" /\ inbox # <<>>
    /\ task' = "idle"
    /\ UNCHANGED <<execution, sent, inbox, applied, suggested, updateVars>>

-----------------------------------------------------------------------------
(* SubscriptionWorkflow.  HasPending is true as long as Select would not   *)
(* block, and the loop is over the first time it is not.  Its timer starts *)
(* with the first workflow task, and so is ready then only on a context    *)
(* that is canceled already, which resolves it at once.  Else only signals *)
(* (the branches to be added) can be.  Select takes the first branch that  *)
(* is ready, in the order in which they were added.                        *)

TimerResolved == canceled

HasPending == TimerResolved \/ inbox # <<>>

\* The timer's branch does not look at its error: the workflow has aged out.
AgedOut ==
    /\ TimerResolved
    /\ Close("continuedAsNew")
    /\ inbox' = inbox

SignalThenSuggested ==
    /\ HasPending /\ ~TimerResolved /\ suggested
    /\ Close("continuedAsNew")
    /\ inbox' = Tail(inbox)

PendingRunsOut ==
    /\ ~TimerResolved /\ (suggested => ~HasPending)
    /\ Close("completed")
    /\ inbox' = <<>>

Subscribe ==
    /\ fn = "Subscription"
    /\ AgedOut \/ SignalThenSuggested \/ PendingRunsOut
    /\ UNCHANGED <<sent, applied, task, suggested, updateVars>>

-----------------------------------------------------------------------------
MessagesTask == \/ WaitV1 \/ WaitForStatusUpdate \/ WaitV2 \/ CompleteUpdateTask \/ EndUpdates
                \/ DrainSignals \/ ContinueAsNew \/ CloseRejected \/ Subscribe

MessagesNext ==
    /\ fn \in MessageFunctions
    /\ \/ Signal \/ SuggestContinueAsNew \/ ReceiveSignal \/ CrashInUpdateTask
       \/ MessagesTask
       \/ \E id \in Changes : Update(id)
       \/ RequestCancel /\ UNCHANGED messageVars

MessagesInit == /\ fn \in MessageFunctions /\ canceled = FALSE /\ outcome = "open"
                /\ MessagesStart

MessagesSpec == MessagesInit /\ [][MessagesNext]_<<execution, messageVars>>

-----------------------------------------------------------------------------
(* Whatever order, duplicates and crashes make of the updates, UpdatesV2   *)
(* has accepted exactly those newer than every one it had accepted, and    *)
(* returns the newest of all it answered (the validator's comparison with  *)
(* lastID holds across updates of one task, and across replays, which run  *)
(* handlers without validators).                                           *)
NewestWins ==
    fn = "UpdatesV2" =>
    /\ \A i \in DOMAIN answers :
          answers[i].accepted <=> answers[i].id > LastAccepted(SubSeq(answers, 1, i - 1))
    /\ outcome = "completed" => \A i \in DOMAIN answers : answers[i].id <= lastID

(* No signal the service has recorded is missing from the state an         *)
(* execution continues as new with, and they have been applied in order --  *)
(* also if one came when ReceiveAsync had found none left.                 *)
SignalsKept ==
    fn = "Drain" /\ outcome = "continuedAsNew" => applied = [i \in 1..sent |-> i]

(* The subscription goes on: it ends only to continue as new (the state is *)
(* "carried across ContinueAsNew boundaries", workflow.go:9).               *)
SubscriptionContinues ==
    fn = "Subscription" => outcome \in {"open", "continuedAsNew"}
=============================================================================
