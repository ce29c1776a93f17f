--------------------------- MODULE ChildWorkflows ---------------------------
(***************************************************************************)
(* Workflow functions that start a child workflow and may be gone before   *)
(* it ends:                                                                *)
(*   - "PurchaseV1" and "PurchaseV2"                                       *)
(*     (not_using_disconnected_context_for_cleanup): the first ships an    *)
(*     item and nothing more; the second waits for the shipment, a         *)
(*     fulfilment deadline and cancellation, and if the shipment does not  *)
(*     win starts RefundPayment by StartDisconnectedChildWorkflow          *)
(*     (internal/workflowhelpers/disconnected_child.go);                   *)
(*   - "Cleanup" (not_waiting_for_child_workflows_to_start), which returns *)
(*     as soon as its child has started;                                   *)
(*   - "AwaitChild" (not_using_parent_close_policy), which waits for it.   *)
(*                                                                         *)
(* `hour' is the time since the shipment was scheduled.  An attempt at the *)
(* shipment may succeed and its answer be lost, or come after the workflow *)
(* has given up: `parcel' says whether the item is on its way.             *)
(***************************************************************************)
EXTENDS Integers, WorkflowExecution

VARIABLES hour, saga, ship, parcel,
          childRun  \* the child; "rival": its ID is taken by a running one

shipVars  == <<hour, ship, parcel>>
childVars == <<shipVars, saga, childRun>>

PurchaseFunctions == {"PurchaseV1", "PurchaseV2"}
ChildFunctions    == PurchaseFunctions \cup {"Cleanup", "AwaitChild"}

ShipWithin == 1          \* the activity's schedule-to-close timeout
FulfilmentWindow == 12   \* the selector's timer

ChildEnded == childRun \in {"done", "failed", "canceled"}

ChildrenTypeOK ==
    /\ hour \in 0..FulfilmentWindow /\ parcel \in BOOLEAN
    /\ saga \in {"scheduled", "waiting", "canceling", "failing"}
    /\ ship \in {"none", "refused", "pending", "shipped", "failed"}
    /\ childRun \in {"none", "requested", "running", "canceling", "done",
                     "failed", "canceled", "killed", "rival"}

ChildrenStart ==
    /\ hour = 0 /\ saga = "scheduled" /\ ship = "none" /\ parcel = FALSE
    /\ childRun = "none"

-----------------------------------------------------------------------------
(* What the service does to the child when its parent closes.              *)

\* ABANDON: nothing, and a start that was requested is carried out.
Abandoned == childRun

\* REQUEST_CANCEL: a child that runs is asked to end.
CancelRequested ==
    CASE childRun = "requested" -> "none"
      [] childRun = "running"   -> "canceling"
      [] OTHER -> childRun

\* TERMINATE, the default.
Terminated ==
    CASE childRun = "requested" -> "none"
      [] childRun \in {"running", "canceling"} -> "killed"
      [] OTHER -> childRun

\* A fault: the option is left at its default.
DisconnectedPolicyDefault == Terminated

\* What StartDisconnectedChildWorkflow asks for.
DisconnectedPolicy == Abandoned

ParentClosePolicy ==
    CASE fn \in PurchaseFunctions -> DisconnectedPolicy
      [] fn = "AwaitChild" -> CancelRequested
      [] fn = "Cleanup"    -> Terminated

CloseParent(how) ==
    /\ Close(how)
    /\ childRun' = ParentClosePolicy
    /\ UNCHANGED <<shipVars, saga>>

-----------------------------------------------------------------------------
(* The purchase. *)

\* An activity scheduled on a canceled context fails at once and is not sent.
ScheduleShipment ==
    /\ Open /\ fn \in PurchaseFunctions /\ saga = "scheduled"
    /\ ship' = IF canceled THEN "refused" ELSE "pending"
    /\ saga' = "waiting"
    /\ UNCHANGED <<execution, hour, parcel, childRun>>

DeadlinePassed == fn = "PurchaseV2" /\ hour >= FulfilmentWindow

\* The future of an activity resolves when its context is canceled, and what
\* the activity comes to after that is not seen.
Resolved == ship \in {"shipped", "failed", "refused"} \/ canceled \/ DeadlinePassed

\* The shipment is the selector's first case: it wins if it is there.
ReturnShipped ==
    /\ saga = "waiting" /\ ship = "shipped"
    /\ CloseParent("completed")

GiveUpV1 ==
    /\ fn = "PurchaseV1"
    /\ saga = "waiting" /\ Resolved /\ ship # "shipped"
    /\ CloseParent(IF ship = "failed" THEN "failed" ELSE "canceled")

\* A fault: it is started on the workflow's own, where cancellation fails it.
StartConnectedChildWorkflow == IF canceled THEN "none" ELSE "requested"

\* The child is started on a disconnected context.
StartDisconnectedChildWorkflow == "requested"

GiveUpV2 ==
    /\ Open /\ fn = "PurchaseV2"
    /\ saga = "waiting" /\ Resolved /\ ship # "shipped"
    /\ saga' = IF canceled /\ ship # "failed" THEN "canceling" ELSE "failing"
    /\ childRun' = StartDisconnectedChildWorkflow
    /\ UNCHANGED <<execution, shipVars>>

\* Nothing is returned before the service has answered the start, and an error
\* in starting is returned in place of the purchase's.
ReturnPurchaseError ==
    /\ saga \in {"canceling", "failing"} /\ childRun # "requested"
    /\ CloseParent(IF saga = "canceling" /\ childRun # "rival" THEN "canceled" ELSE "failed")

-----------------------------------------------------------------------------
(* The shipping activity and time. *)

\* An attempt reaches the carrier; a lost one may do so after its time.
Ship ==
    /\ ship \in {"pending", "failed"} /\ ~parcel
    /\ parcel' = TRUE
    /\ UNCHANGED <<execution, hour, saga, ship, childRun>>

\* Only an answer the service gets in time resolves the future.
ShipAnswered ==
    /\ Open /\ ship = "pending" /\ parcel /\ ~canceled
    /\ ship' = "shipped"
    /\ UNCHANGED <<execution, hour, saga, parcel, childRun>>

\* A failure that is not retried, or the schedule-to-close timeout.
ShipFailed ==
    /\ Open /\ ship = "pending" /\ ~canceled
    /\ ship' = "failed"
    /\ UNCHANGED <<execution, hour, saga, parcel, childRun>>

PassHour ==
    /\ Open /\ saga = "waiting" /\ hour < FulfilmentWindow
    /\ ship = "pending" => hour < ShipWithin
    /\ hour' = hour + 1
    /\ UNCHANGED <<execution, saga, ship, parcel, childRun>>

-----------------------------------------------------------------------------
(* Cleanup and AwaitChild. *)

\* On a canceled context no child is started.
ExecuteChildWorkflow ==
    /\ Open /\ fn \in {"Cleanup", "AwaitChild"} /\ saga = "scheduled" /\ ~canceled
    /\ saga' = "waiting"
    /\ childRun' = "requested"
    /\ UNCHANGED <<execution, shipVars>>

ReturnStarted ==
    /\ fn = "Cleanup" /\ saga = "waiting" /\ childRun # "requested"
    /\ CloseParent("completed")

ReturnChildResult ==
    /\ fn = "AwaitChild" /\ ChildEnded
    /\ CloseParent(IF childRun = "done" THEN "completed" ELSE "failed")

\* The futures of a canceled context resolve at once.
ReturnChildCanceled ==
    /\ fn \in {"Cleanup", "AwaitChild"} /\ canceled
    /\ saga = "scheduled" \/ fn = "AwaitChild"
    /\ CloseParent("canceled")

-----------------------------------------------------------------------------
(* The service, the child and an operator. *)

\* A refund is known by its order, and another purchase's may be running.
StartChild ==
    /\ childRun = "requested"
    /\ childRun' \in IF fn = "PurchaseV2" THEN {"running", "rival"} ELSE {"running"}
    /\ UNCHANGED <<execution, shipVars, saga>>

\* RefundPayment has an hour for its activity, and then fails.
EndChild ==
    /\ childRun \in {"running", "canceling"}
    /\ childRun' \in IF childRun = "running" THEN {"done", "failed"} ELSE {"done", "canceled"}
    /\ UNCHANGED <<execution, shipVars, saga>>

\* Somebody terminates the parent, at any moment.
Terminate == CloseParent("terminated")

ParentTask == \/ ScheduleShipment \/ ReturnShipped \/ GiveUpV1 \/ GiveUpV2
              \/ ReturnPurchaseError
              \/ ExecuteChildWorkflow \/ ReturnStarted \/ ReturnChildResult
              \/ ReturnChildCanceled

ServiceStep == StartChild \/ EndChild

ChildrenNext ==
    /\ fn \in ChildFunctions
    /\ \/ ParentTask \/ ServiceStep \/ Terminate
       \/ Ship \/ ShipAnswered \/ ShipFailed \/ PassHour
       \/ RequestCancel /\ UNCHANGED childVars

ChildrenInit == /\ fn \in ChildFunctions /\ canceled = FALSE /\ outcome = "open"
                /\ ChildrenStart

ChildrenSpec == ChildrenInit /\ [][ChildrenNext]_<<execution, childVars>>

-----------------------------------------------------------------------------
(* However shipment, deadline, cancellation and the refund's start race,   *)
(* PurchaseV2 returns a tracking ID for a shipped item that nobody refunds, *)
(* or an error when the order's refund is durably under way.  (An item whose *)
(* answer came too late is both shipped and refunded.)                     *)
Settled ==
    fn = "PurchaseV2" /\ outcome \notin {"open", "terminated"}
    => IF outcome = "completed"
       THEN ship = "shipped" /\ parcel /\ childRun = "none"
       ELSE childRun \in {"running", "done", "failed", "rival"}

(* A refund once requested is carried out, or fails by itself, even if the *)
(* purchase is canceled or terminated in the meantime ("even if the parent *)
(* is canceled or terminated", disconnected_child.go:10-11); and a child   *)
(* that is to be canceled when AwaitChild closes gets to its own end.      *)
ChildrenSurvive ==
    (\/ fn = "PurchaseV2" /\ childRun = "requested"
     \/ fn = "AwaitChild" /\ childRun = "running")
    ~> ChildEnded \/ childRun = "rival"

(* "Now safe to return -- the child runs independently" (Cleanup,          *)
(* not_waiting_for_child_workflows_to_start/workflow.go:22): a return does *)
(* not end a child that has been waited for to start.                      *)
RunsIndependently == outcome = "completed" => childRun # "killed"
=============================================================================
