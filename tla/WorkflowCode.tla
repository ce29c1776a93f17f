---------------------------- MODULE WorkflowCode ----------------------------
(***************************************************************************)
(* An execution of any of the repository's workflow functions, as a worker *)
(* has it that has all of them registered.  The function decides which     *)
(* module's actions are its own; the state of the others is idle.  The     *)
(* modules share the execution, its cancellation and its close.            *)
(***************************************************************************)
EXTENDS SoftTimeout, ChildWorkflows, Messages, Replays, KubernetesJob

codeVars == <<execution, softVars, childVars, messageVars, replayVars, kubernetesVars>>

Functions == SoftFunctions \cup ChildFunctions \cup MessageFunctions
             \cup ReplayFunctions \cup KubernetesFunctions

\* The functions that react to cancellation.
HandleCancel == SoftFunctions \cup ChildFunctions \cup KubernetesFunctions \cup {"WaitV2"}

Init == /\ fn \in Functions /\ canceled = FALSE /\ outcome = "open"
        /\ SoftStart /\ ChildrenStart /\ MessagesStart /\ ReplaysStart /\ KubernetesStart

InSoft     == UNCHANGED <<childVars, messageVars, replayVars, kubernetesVars>>
InChildren == UNCHANGED <<softVars, messageVars, replayVars, kubernetesVars>>
InMessages == UNCHANGED <<softVars, childVars, replayVars, kubernetesVars>>
InReplays  == UNCHANGED <<softVars, childVars, messageVars, kubernetesVars>>
InJob      == UNCHANGED <<softVars, childVars, messageVars, replayVars>>

Next ==
    \/ SoftNext       /\ InSoft
    \/ ChildrenNext   /\ InChildren
    \/ MessagesNext   /\ InMessages
    \/ ReplaysNext    /\ InReplays
    \/ KubernetesNext /\ InJob

-----------------------------------------------------------------------------
(* A workflow task that is due is done in the end, since workers poll for  *)
(* it; and the service and a child carry out what is requested of them.    *)
Task ==
    \/ fn \in SoftFunctions    /\ SoftTask    /\ InSoft
    \/ fn \in ChildFunctions   /\ ParentTask  /\ InChildren
    \/ fn \in MessageFunctions /\ MessagesTask /\ InMessages
    \/ fn \in KubernetesFunctions /\ (ReturnCanceled \/ ReturnResponse) /\ InJob

Spec == /\ Init /\ [][Next]_codeVars
        /\ WF_codeVars(Task)
        /\ WF_codeVars(fn \in ChildFunctions /\ ServiceStep /\ InChildren)

(* A canceled execution of a function written for it ends, in whatever     *)
(* state cancellation finds it: the wait for a signal                      *)
(* (deadlocking_when_workflow_canceled, MyWorkflowV2), the purchase and    *)
(* the soft timeout with their compensation, the Job's waiting.  (WaitV1,  *)
(* WaitForStatusUpdate and the update workflows wait on.)                  *)
CancelEnds == canceled /\ fn \in HandleCancel ~> outcome # "open"
=============================================================================
