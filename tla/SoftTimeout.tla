---------------------------- MODULE SoftTimeout ----------------------------
(***************************************************************************)
(* The two workflows of assuming_workflow_timeouts_allow_graceful_cleanup: *)
(* both run a long child workflow and compensate when it does not succeed. *)
(* "SoftV1" trusts the service's timeout to be something its code can react *)
(* to; "SoftV2" sets a timer of its own (getSoftTimeout), Padding ahead of  *)
(* the timeout, and waits for whichever of child, cancellation and timer    *)
(* comes first.                                                            *)
(*                                                                         *)
(* Time is in ticks of 30 seconds.  A workflow task or an activity may be  *)
(* late by any number of ticks; `busy' counts those in which one was due.  *)
(* The service ends the execution at CutOff whatever the code is doing.    *)
(***************************************************************************)
EXTENDS Integers, WorkflowExecution

CONSTANTS Padding,     \* what getSoftTimeout reserves (V2 asks for a minute)
          ChildTakes,  \* how long the child workflow sleeps
          Timeouts,    \* timeouts a caller may set; 0 is none
          Horizon      \* bound on the clock

ASSUME SoftTimeoutAssumption ==
    /\ {Padding, ChildTakes, Horizon} \subseteq Nat
    /\ 0 \in Timeouts /\ Timeouts \subseteq Nat

VARIABLES limits,      \* run and execution timeout, and what earlier runs used
          now, started, step, child, compensated,
          busy         \* ticks in which a task or the compensation was due

softVars == <<limits, now, started, step, child, compensated, busy>>

SoftFunctions == {"SoftV1", "SoftV2"}

\* The service caps the run timeout at the execution timeout.
Limits == {l \in [run : Timeouts, execution : Timeouts, earlier : Timeouts] :
              /\ l.execution # 0 => l.run <= l.execution
              /\ l.earlier < l.execution \/ l.earlier = 0}

NoLimits == [run |-> 0, execution |-> 0, earlier |-> 0]

\* When the service ends the execution: its own timeout, or what earlier runs
\* of the same execution have left of the execution timeout.
CutOff ==
    LET ends == {l \in {limits.run, limits.execution - limits.earlier} : l > 0}
    IN  IF ends = {} THEN Horizon ELSE CHOOSE e \in ends : \A f \in ends : e <= f

-----------------------------------------------------------------------------
(* The workflow's code. *)

Timeout == IF limits.run # 0 THEN limits.run ELSE limits.execution

TooSmall == Timeout <= Padding

\* A fault: the timer runs as long as the timeout it is to forestall.
FullTimeout == Timeout

\* How long the soft timeout's timer runs.
getSoftTimeout == Timeout - Padding

TimerFired == fn = "SoftV2" /\ now >= started + getSoftTimeout

\* Something the selector, or the wait for the child, reacts to.
Ready == child \in {"completed", "failed"} \/ canceled \/ TimerFired

\* A fault: the compensation is scheduled on the workflow's own context.
CanCompensateOnOwnContext == ~canceled

\* An activity scheduled on a disconnected context runs whatever happened to
\* the workflow's own.
CanCompensate == TRUE

TaskDue == \/ step = "scheduled"
           \/ step = "waiting" /\ Ready
           \/ step \in {"failing", "canceling"}

SoftStart ==
    /\ limits \in IF fn \in SoftFunctions THEN Limits ELSE {NoLimits}
    /\ now = 0 /\ started = 0 /\ busy = 0
    /\ step = "scheduled" /\ child = "none" /\ compensated = FALSE

\* The first workflow task: the timer is set and the child started.
BeginWaiting ==
    /\ step = "scheduled" /\ Open
    /\ fn = "SoftV2" => ~TooSmall
    /\ started' = now /\ child' = "running" /\ step' = "waiting"
    /\ UNCHANGED <<execution, limits, now, compensated, busy>>

\* ... or no timer fits ahead of the timeout.
RejectTimeout ==
    /\ step = "scheduled"
    /\ fn = "SoftV2" /\ TooSmall
    /\ step' = "rejected"
    /\ Close("failed")
    /\ UNCHANGED <<limits, now, started, child, compensated, busy>>

\* The child's success counts even if cancellation and timer are there too:
\* it is the selector's first case.
Succeed ==
    /\ step = "waiting" /\ child = "completed"
    /\ Close("completed")
    /\ UNCHANGED softVars

BeginCompensating ==
    /\ Open /\ step = "waiting" /\ Ready /\ child # "completed"
    /\ step' = IF canceled /\ child # "failed" THEN "canceling" ELSE "failing"
    /\ UNCHANGED <<execution, limits, now, started, child, compensated, busy>>

CompensateActivity ==
    /\ Open /\ step \in {"failing", "canceling"} /\ CanCompensate
    /\ compensated' = TRUE
    /\ UNCHANGED <<execution, limits, now, started, step, child, busy>>

ReturnError ==
    /\ \/ step = "failing"   /\ Close("failed")
       \/ step = "canceling" /\ Close("canceled")
    /\ compensated \/ ~CanCompensate
    /\ UNCHANGED softVars

-----------------------------------------------------------------------------
(* The child, the clock and the service. *)

ChildEnds ==
    /\ Open /\ child = "running"
    /\ \/ child' = "completed" /\ now >= started + ChildTakes
       \/ child' = "failed"
    /\ UNCHANGED <<execution, limits, now, started, step, compensated, busy>>

Tick ==
    /\ Open /\ now < CutOff
    /\ now' = now + 1
    /\ busy' = IF TaskDue THEN busy + 1 ELSE busy
    /\ UNCHANGED <<execution, limits, started, step, child, compensated>>

\* The execution, and with it the child, ends without another step of its code.
HardTimeout ==
    /\ limits.run # 0 \/ limits.execution # 0
    /\ now = CutOff
    /\ Close("timedOut")
    /\ UNCHANGED softVars

SoftTask == \/ BeginWaiting \/ RejectTimeout \/ Succeed
            \/ BeginCompensating \/ CompensateActivity \/ ReturnError

SoftNext ==
    /\ fn \in SoftFunctions
    /\ \/ SoftTask \/ ChildEnds \/ Tick \/ HardTimeout
       \/ RequestCancel /\ UNCHANGED softVars

SoftInit == /\ fn \in SoftFunctions /\ ~canceled /\ outcome = "open"
            /\ SoftStart

SoftSpec == SoftInit /\ [][SoftNext]_<<execution, softVars>>

-----------------------------------------------------------------------------
(* Once the child has been started, and unless it succeeds, SoftV2 has      *)
(* compensated when it is over, canceled or not -- except where tasks and  *)
(* the compensation itself came Padding or more late, less what earlier    *)
(* runs took of a timeout they share (getSoftTimeout reads the timeout as  *)
(* it was set, not what is left of it).  SoftV1 is compensated only if the *)
(* service's timeout does not strike first.                                *)
SoftCompensated ==
    fn = "SoftV2" /\ child # "none" /\ outcome \notin {"open", "completed"}
    => compensated \/ (outcome = "timedOut" /\ busy + limits.earlier >= Padding)
=============================================================================
