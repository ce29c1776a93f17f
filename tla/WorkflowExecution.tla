------------------------- MODULE WorkflowExecution -------------------------
(***************************************************************************)
(* One execution of a workflow function, as its code and the service see   *)
(* it.  The function is fixed when the execution starts; somebody may      *)
(* request its cancellation once, at any moment, and the execution closes  *)
(* once.  The modules that model workflow functions (SoftTimeout,          *)
(* ChildWorkflows, Messages, Replays, KubernetesJob) extend this one, and  *)
(* WorkflowCode puts them together.                                        *)
(*                                                                         *)
(* A workflow task that closes the execution is one step: the service      *)
(* accepts the close only if nothing has been recorded since the task      *)
(* started, and has the task redone otherwise.  Where that retry matters,  *)
(* the task is several steps (Messages).                                   *)
(***************************************************************************)

VARIABLES fn,        \* the workflow function
          canceled,  \* its context: cancellation has been requested
          outcome    \* "open", or how the execution closed

execution == <<fn, canceled, outcome>>

Outcomes == {"open", "completed", "failed", "canceled", "continuedAsNew",
             "timedOut", "terminated"}

Open == outcome = "open"

\* A workflow function returns, or the service ends the execution.
Close(how) == outcome = "open" /\ outcome' = how /\ UNCHANGED <<fn, canceled>>

RequestCancel ==
    /\ Open
    /\ ~canceled
    /\ canceled' = TRUE
    /\ UNCHANGED <<fn, outcome>>

\* How an execution closes when its function returns its context's error if
\* there is one.
ContextError == IF canceled THEN "canceled" ELSE "completed"
=============================================================================
