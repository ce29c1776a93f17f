-------------------------- MODULE WorkflowCodeProofs --------------------------
(***************************************************************************)
(* The workflow functions one by one, for every value of the constants: a  *)
(* purchase that is over is settled, a soft timeout leaves room to         *)
(* compensate, no signal is lost when an execution continues as new, the   *)
(* newest update wins, a replay reads what the execution acted on, and a   *)
(* Kubernetes Job keeps its identity and its end.                          *)
(***************************************************************************)
EXTENDS ChildWorkflows, SoftTimeout, Messages, Replays, KubernetesJob, NatRecursion,
        SequenceTheorems, TLAPS

-----------------------------------------------------------------------------
(* ChildWorkflows.                                                         *)

\* PurchaseV2's refund is asked for exactly when the shipment has not won, is
\* durable before the purchase returns, and is never ended from outside.
RefundInv ==
  fn = "PurchaseV2" =>
  /\ childRun \in {"none", "requested", "running", "done", "failed", "rival"}
  /\ ship = "shipped" => parcel
  /\ saga \in {"scheduled", "waiting"} <=> childRun = "none"
  /\ outcome = "completed" => ship = "shipped" /\ childRun = "none"
  /\ outcome \notin {"open", "completed", "terminated"} => childRun \notin {"none", "requested"}

ChildrenInv == ChildrenTypeOK /\ fn \in ChildFunctions /\ RefundInv

LEMMA ChildrenInvInit == ChildrenInit => ChildrenInv
<1> SUFFICES ASSUME ChildrenInit PROVE ChildrenInv
  OBVIOUS
<1>1. ChildrenTypeOK
  <2>1. 0 \in 0..FulfilmentWindow
    BY DEF FulfilmentWindow
  <2> QED
    BY <2>1, Zenon DEF ChildrenInit, ChildrenStart, ChildrenTypeOK
<1>2. RefundInv
  BY DEF ChildrenInit, ChildrenStart, RefundInv
<1> QED
  BY <1>1, <1>2 DEF ChildrenInit, ChildrenInv

\* A parent that closes leaves its child to the close policy.
LEMMA CloseParentKeeps ==
  ASSUME ChildrenInv, NEW how, CloseParent(how),
         how = "completed" => (ship = "shipped" /\ childRun = "none") \/ fn # "PurchaseV2",
         how \notin {"open", "completed", "terminated"} =>
           childRun \notin {"none", "requested"} \/ fn # "PurchaseV2"
  PROVE  ChildrenInv'
<1>1. /\ fn' = fn /\ outcome' = how /\ UNCHANGED <<hour, ship, parcel, saga>>
      /\ childRun' = ParentClosePolicy
  BY DEF CloseParent, Close, shipVars
<1>2. fn = "PurchaseV2" => childRun' = childRun
  BY <1>1 DEF ParentClosePolicy, PurchaseFunctions, DisconnectedPolicy, Abandoned
<1>3. ParentClosePolicy \in {"none", "requested", "running", "canceling", "done",
                             "failed", "canceled", "killed", "rival"}
  BY DEF ChildrenInv, ChildrenTypeOK, ParentClosePolicy, ChildFunctions, PurchaseFunctions,
         DisconnectedPolicy, Abandoned, CancelRequested, Terminated
<1>4. ChildrenTypeOK'
  BY <1>1, <1>3 DEF ChildrenInv, ChildrenTypeOK
<1>5. RefundInv'
  BY <1>1, <1>2 DEF ChildrenInv, RefundInv
<1> QED
  <2>1. fn' \in ChildFunctions
    BY <1>1 DEF ChildrenInv, ChildFunctions, PurchaseFunctions
  <2>2. (fn \in ChildFunctions)'
    BY <2>1 DEF ChildFunctions, PurchaseFunctions
  <2> QED
    BY <1>4, <1>5, <2>2 DEF ChildrenInv

LEMMA ChildrenInvNext ==
  ASSUME ChildrenInv, [ChildrenNext]_<<execution, childVars>>
  PROVE  ChildrenInv'
<1> USE DEF shipVars
<1>1. CASE UNCHANGED <<execution, childVars>>
  BY <1>1 DEF execution, childVars, ChildrenInv, ChildrenTypeOK, RefundInv
<1>2. CASE ScheduleShipment
  BY <1>2 DEF ScheduleShipment, Open, execution, ChildrenInv, ChildrenTypeOK, RefundInv
<1>3. CASE ReturnShipped
  <2>1. CloseParent("completed") /\ ship = "shipped" /\ saga = "waiting"
    BY <1>3 DEF ReturnShipped
  <2>2. fn = "PurchaseV2" => childRun = "none"
    BY <2>1 DEF ChildrenInv, RefundInv
  <2> QED
    BY <2>1, <2>2, CloseParentKeeps
<1>4. CASE GiveUpV1
  <2>1. fn # "PurchaseV2"
    BY <1>4 DEF GiveUpV1
  <2>2. PICK how \in {"failed", "canceled"} : CloseParent(how)
    BY <1>4 DEF GiveUpV1
  <2> QED
    BY <2>1, <2>2, CloseParentKeeps
<1>5. CASE GiveUpV2
  BY <1>5 DEF GiveUpV2, StartDisconnectedChildWorkflow, execution, Open, ChildrenInv,
              ChildrenTypeOK, RefundInv
<1>6. CASE ReturnPurchaseError
  <2>1. saga \in {"canceling", "failing"} /\ childRun # "requested"
    BY <1>6 DEF ReturnPurchaseError
  <2>2. PICK how \in {"failed", "canceled"} : CloseParent(how)
    BY <1>6 DEF ReturnPurchaseError
  <2>3. fn = "PurchaseV2" => childRun # "none"
    BY <2>1 DEF ChildrenInv, RefundInv
  <2> QED
    BY <2>1, <2>2, <2>3, CloseParentKeeps
<1>7. CASE ExecuteChildWorkflow
  BY <1>7 DEF ExecuteChildWorkflow, execution, ChildrenInv, ChildrenTypeOK, RefundInv
<1>8. CASE ReturnStarted \/ ReturnChildResult \/ ReturnChildCanceled
  <2>1. fn # "PurchaseV2"
    BY <1>8 DEF ReturnStarted, ReturnChildResult, ReturnChildCanceled
  <2>2. PICK how \in {"completed", "failed", "canceled"} : CloseParent(how)
    BY <1>8 DEF ReturnStarted, ReturnChildResult, ReturnChildCanceled
  <2> QED
    BY <2>1, <2>2, CloseParentKeeps
<1>9. CASE StartChild
  BY <1>9 DEF StartChild, execution, ChildrenInv, ChildrenTypeOK, RefundInv
<1>10. CASE EndChild
  BY <1>10 DEF EndChild, execution, ChildrenInv, ChildrenTypeOK, RefundInv
<1>11. CASE Terminate
  BY <1>11, CloseParentKeeps DEF Terminate
<1>12. CASE Ship \/ ShipAnswered \/ ShipFailed
  BY <1>12 DEF Ship, ShipAnswered, ShipFailed, Open, execution, ChildrenInv, ChildrenTypeOK,
               RefundInv
<1>13. CASE PassHour
  BY <1>13 DEF PassHour, FulfilmentWindow, execution, ChildrenInv, ChildrenTypeOK, RefundInv
<1>14. CASE RequestCancel /\ UNCHANGED childVars
  BY <1>14 DEF RequestCancel, childVars, ChildrenInv, ChildrenTypeOK, RefundInv
<1> QED
  BY <1>1, <1>2, <1>3, <1>4, <1>5, <1>6, <1>7, <1>8, <1>9, <1>10, <1>11, <1>12, <1>13,
     <1>14, Zenon DEF ChildrenNext, ParentTask, ServiceStep

LEMMA ChildrenInvariant == ChildrenSpec => []ChildrenInv
<1> QED
  BY ChildrenInvInit, ChildrenInvNext, PTL DEF ChildrenSpec

\* A purchase that is over (not_using_disconnected_context_for_cleanup,
\* PurchaseItemV2) has shipped and refunds nothing, or its refund is durably
\* under way, whenever cancellation, answers and the refund's start come.
THEOREM PurchaseSettled == ChildrenSpec => []Settled
<1>1. ChildrenInv => Settled
  BY DEF ChildrenInv, RefundInv, Settled
<1> QED
  BY <1>1, ChildrenInvariant, PTL

-----------------------------------------------------------------------------
(* SoftTimeout.                                                            *)

Working == step \in {"waiting", "failing", "canceling"}

SoftTypeOK ==
  /\ now \in Nat /\ started \in Nat /\ busy \in Nat
  /\ limits.run \in Nat /\ limits.execution \in Nat /\ limits.earlier \in Nat
  /\ limits.execution # 0 => limits.run <= limits.execution
  /\ limits.earlier < limits.execution \/ limits.earlier = 0

\* What of its time SoftV2 has not spent waiting for its timer, a task or the
\* compensation was due.
SoftInv ==
  /\ SoftTypeOK
  /\ fn = "SoftV2" =>
     /\ step \in {"scheduled", "rejected"} => child = "none"
     /\ step = "scheduled" => busy = now
     /\ step \in {"scheduled", "rejected"} \/ Working
     /\ Working => started <= busy /\ now <= busy + (Timeout - Padding)
     /\ SoftCompensated

\* The service leaves at least what the timeout says, less what earlier runs took.
LEMMA CutOffLeavesTimeout ==
  ASSUME SoftTypeOK, limits.run # 0 \/ limits.execution # 0
  PROVE  CutOff \in Nat /\ CutOff + limits.earlier >= Timeout
<1> DEFINE r == limits.run
           x == limits.execution
           y == limits.earlier
           E == {l \in {r, x - y} : l > 0}
<1>1. /\ r \in Nat /\ x \in Nat /\ y \in Nat /\ (r # 0 \/ x # 0)
      /\ (x # 0 => r <= x) /\ (y < x \/ y = 0)
  BY DEF SoftTypeOK
<1> HIDE DEF r, x, y
<1>2. \E e \in E : \A f \in E : e <= f
  <2>1. CASE r > 0 /\ (x - y <= 0 \/ r <= x - y)
    BY <1>1, <2>1
  <2>2. CASE ~(r > 0 /\ (x - y <= 0 \/ r <= x - y))
    <3>1. x - y \in E
      BY <1>1, <2>2
    <3>2. \A f \in E : x - y <= f
      BY <1>1, <2>2
    <3> QED
      BY <3>1, <3>2
  <2> QED
    BY <2>1, <2>2
<1> DEFINE c == CHOOSE e \in E : \A f \in E : e <= f
<1>3. c \in E
  BY <1>2
<1>4. CutOff = c
  BY <1>2 DEF CutOff, r, x, y
<1>5. Timeout = IF r # 0 THEN r ELSE x
  BY DEF Timeout, r, x
<1> HIDE DEF c
<1>6. c \in Nat /\ c + y >= (IF r # 0 THEN r ELSE x)
  <2>1. c \in {r, x - y} /\ c > 0
    BY <1>3
  <2> QED
    BY <1>1, <2>1
<1> QED
  BY <1>4, <1>5, <1>6 DEF y

LEMMA SoftInvInit == SoftInit => SoftInv
<1> SUFFICES ASSUME SoftInit PROVE SoftInv
  OBVIOUS
<1>1. limits \in Limits /\ now = 0 /\ started = 0 /\ busy = 0
      /\ step = "scheduled" /\ child = "none" /\ outcome = "open"
  BY DEF SoftInit, SoftStart
<1>2. SoftTypeOK
  <2>1. limits.run \in Timeouts /\ limits.execution \in Timeouts /\ limits.earlier \in Timeouts
    BY <1>1 DEF Limits
  <2>2. Timeouts \subseteq Nat
    BY SoftTimeoutAssumption
  <2> QED
    BY <1>1, <2>1, <2>2 DEF SoftTypeOK, Limits
<1> QED
  BY <1>1, <1>2 DEF SoftInv, Working, SoftCompensated

LEMMA SoftInvNext ==
  ASSUME SoftInv, [SoftNext]_<<execution, softVars>>
  PROVE  SoftInv'
<1>1. /\ Padding \in Nat /\ now \in Nat /\ started \in Nat /\ busy \in Nat
      /\ limits.run \in Nat /\ limits.execution \in Nat
  BY SoftTimeoutAssumption DEF SoftInv, SoftTypeOK
<1>2. Timeout \in Nat
  BY <1>1 DEF Timeout
<1>3. CASE UNCHANGED <<execution, softVars>>
  BY <1>3 DEF execution, softVars, SoftInv, SoftTypeOK, Working, Timeout, SoftCompensated
<1>4. CASE BeginWaiting
  <2>1. /\ UNCHANGED <<fn, outcome, limits, now, busy>> /\ started' = now
        /\ step = "scheduled" /\ step' = "waiting" /\ outcome = "open"
        /\ (fn = "SoftV2" => ~TooSmall)
    BY <1>4 DEF BeginWaiting, execution, Open
  <2>2. SoftTypeOK'
    BY <2>1 DEF SoftInv, SoftTypeOK
  <2>3. CASE fn = "SoftV2"
    <3>1. busy = now /\ Timeout > Padding
      BY <1>1, <1>2, <2>1, <2>3 DEF SoftInv, TooSmall
    <3>2. started' <= busy' /\ now' <= busy' + (Timeout - Padding)
      BY <1>1, <1>2, <2>1, <3>1
    <3> QED
      BY <2>1, <2>2, <3>2 DEF SoftInv, Working, Timeout, SoftCompensated
  <2> QED
    BY <2>1, <2>2, <2>3 DEF SoftInv
<1>5. CASE RejectTimeout
  BY <1>5 DEF RejectTimeout, Close, SoftInv, SoftTypeOK, Working, SoftCompensated
<1>6. CASE Succeed
  BY <1>6 DEF Succeed, Close, softVars, SoftInv, SoftTypeOK, Working, Timeout, SoftCompensated
<1>7. CASE BeginCompensating
  BY <1>7 DEF BeginCompensating, Open, execution, SoftInv, SoftTypeOK, Working, Timeout,
              SoftCompensated
<1>8. CASE CompensateActivity
  BY <1>8 DEF CompensateActivity, Open, execution, SoftInv, SoftTypeOK, Working, Timeout,
              SoftCompensated
<1>9. CASE ReturnError
  <2>1. UNCHANGED <<fn, softVars>> /\ compensated
    BY <1>9 DEF ReturnError, Close, CanCompensate
  <2> QED
    BY <2>1 DEF softVars, SoftInv, SoftTypeOK, Working, Timeout, SoftCompensated
<1>10. CASE ChildEnds
  <2>1. UNCHANGED <<fn, outcome, limits, now, started, step, busy>> /\ outcome = "open"
        /\ child = "running"
    BY <1>10 DEF ChildEnds, execution, Open
  <2> QED
    BY <2>1 DEF SoftInv, SoftTypeOK, Working, Timeout, SoftCompensated
<1>11. CASE Tick
  <2>1. /\ UNCHANGED <<fn, outcome, limits, started, step, child>> /\ outcome = "open"
        /\ now' = now + 1 /\ busy' = IF TaskDue THEN busy + 1 ELSE busy
    BY <1>11 DEF Tick, execution, Open
  <2>2. busy' \in Nat /\ busy <= busy' /\ now' \in Nat
    BY <1>1, <2>1
  <2>3. SoftTypeOK'
    BY <2>1, <2>2 DEF SoftInv, SoftTypeOK
  <2>4. CASE fn = "SoftV2"
    <3>1. step = "scheduled" => busy' = now'
      BY <1>1, <2>1, <2>4 DEF SoftInv, TaskDue
    <3>2. ASSUME Working PROVE started <= busy' /\ now' <= busy' + (Timeout - Padding)
      <4>1. started <= busy /\ now <= busy + (Timeout - Padding)
        BY <2>4, <3>2 DEF SoftInv
      <4>2. CASE TaskDue
        BY <1>1, <1>2, <2>1, <4>1, <4>2
      <4>3. CASE ~TaskDue
        <5>1. ~TimerFired
          BY <3>2, <4>3 DEF TaskDue, Ready, Working
        <5>2. now < started + (Timeout - Padding)
          BY <1>1, <1>2, <2>4, <5>1 DEF TimerFired, getSoftTimeout
        <5> QED
          BY <1>1, <1>2, <2>1, <4>1, <4>3, <5>2
      <4> QED
        BY <4>2, <4>3
    <3>3. Timeout' = Timeout /\ (Working' <=> Working)
      BY <2>1 DEF Timeout, Working
    <3> QED
      BY <2>1, <2>3, <2>4, <3>1, <3>2, <3>3 DEF SoftInv, Working, SoftCompensated
  <2> QED
    BY <2>1, <2>3, <2>4 DEF SoftInv
<1>12. CASE HardTimeout
  <2>1. UNCHANGED <<fn, softVars>> /\ now = CutOff /\ (limits.run # 0 \/ limits.execution # 0)
        /\ outcome' = "timedOut"
    BY <1>12 DEF HardTimeout, Close
  <2>2. SoftTypeOK /\ limits.earlier \in Nat
    BY DEF SoftInv, SoftTypeOK
  <2>3. now + limits.earlier >= Timeout
    BY <2>1, <2>2, CutOffLeavesTimeout
  <2>4. ASSUME fn = "SoftV2", child # "none" PROVE busy + limits.earlier >= Padding
    <3>1. now <= busy + (Timeout - Padding)
      BY <2>4 DEF SoftInv
    <3> QED
      BY <1>1, <1>2, <2>2, <2>3, <3>1
  <2> QED
    BY <2>1, <2>4 DEF softVars, SoftInv, SoftTypeOK, Working, Timeout, SoftCompensated
<1>13. CASE RequestCancel /\ UNCHANGED softVars
  BY <1>13 DEF RequestCancel, softVars, SoftInv, SoftTypeOK, Working, Timeout, SoftCompensated
<1> QED
  BY <1>3, <1>4, <1>5, <1>6, <1>7, <1>8, <1>9, <1>10, <1>11, <1>12, <1>13, Zenon
  DEF SoftNext, SoftTask

\* Whatever timeouts, earlier runs and padding there are, SoftV2
\* (assuming_workflow_timeouts_allow_graceful_cleanup, MyWorkflowV2) has
\* compensated when it is over, unless what was due came Padding late.
THEOREM SoftTimeoutLeavesRoom == SoftSpec => []SoftCompensated
<1>1. SoftInv => SoftCompensated
  BY DEF SoftInv, SoftCompensated
<1> QED
  BY <1>1, SoftInvInit, SoftInvNext, PTL DEF SoftSpec

-----------------------------------------------------------------------------
(* Messages: the signals Drain has applied, and those still in its inbox   *)
(* after them, are the recorded ones in order.                             *)

InOrder(n, ss, ts) ==
  /\ Len(ss) + Len(ts) = n
  /\ \A i \in 1..Len(ss) : ss[i] = i
  /\ \A i \in 1..Len(ts) : ts[i] = Len(ss) + i

LEMMA InOrderSent ==
  ASSUME NEW n \in Nat, NEW ss \in Seq(Nat), NEW ts \in Seq(Nat), InOrder(n, ss, ts)
  PROVE  InOrder(n + 1, ss, Append(ts, n + 1))
<1> DEFINE xs == Append(ts, n + 1)
<1>1. Len(ss) \in Nat /\ Len(ts) \in Nat /\ Len(ss) + Len(ts) = n
  BY DEF InOrder
<1>2. /\ Len(xs) = Len(ts) + 1 /\ xs[Len(ts) + 1] = n + 1
      /\ \A i \in 1..Len(ts) : xs[i] = ts[i]
  OBVIOUS
<1> HIDE DEF xs
<1>3. \A i \in 1..Len(xs) : xs[i] = Len(ss) + i
  <2> SUFFICES ASSUME NEW i \in 1..Len(xs) PROVE xs[i] = Len(ss) + i
    OBVIOUS
  <2>1. CASE i \in 1..Len(ts)
    BY <1>2, <2>1 DEF InOrder
  <2>2. CASE i = Len(ts) + 1
    <3>1. xs[i] = n + 1
      BY <1>2, <2>2
    <3>2. n + 1 = Len(ss) + (Len(ts) + 1)
      BY <1>1
    <3> QED
      BY <2>2, <3>1, <3>2
  <2>3. i \in 1..Len(ts) + 1
    BY <1>2
  <2> QED
    BY <1>1, <2>1, <2>2, <2>3
<1>4. InOrder(n + 1, ss, xs)
  BY <1>1, <1>2, <1>3 DEF InOrder
<1> QED
  BY <1>4 DEF xs

LEMMA InOrderReceived ==
  ASSUME NEW n \in Nat, NEW ss \in Seq(Nat), NEW ts \in Seq(Nat), InOrder(n, ss, ts),
         ts # <<>>
  PROVE  InOrder(n, Append(ss, Head(ts)), Tail(ts))
<1> DEFINE bs == Append(ss, Head(ts))
           xs == Tail(ts)
<1>1. Len(ss) \in Nat /\ Len(ts) \in Nat \ {0} /\ Len(ss) + Len(ts) = n
  BY DEF InOrder
<1>2. /\ Len(bs) = Len(ss) + 1 /\ bs[Len(ss) + 1] = ts[1]
      /\ \A i \in 1..Len(ss) : bs[i] = ss[i]
  OBVIOUS
<1>3. /\ Len(xs) = Len(ts) - 1
      /\ \A i \in 1..Len(xs) : xs[i] = ts[i + 1]
  OBVIOUS
<1>4. ts[1] = Len(ss) + 1
  BY <1>1 DEF InOrder
<1> HIDE DEF bs, xs
<1>5. \A i \in 1..Len(bs) : bs[i] = i
  <2> SUFFICES ASSUME NEW i \in 1..Len(bs) PROVE bs[i] = i
    OBVIOUS
  <2>1. i \in 1..Len(ss) + 1
    BY <1>2
  <2>2. i \in 1..Len(ss) \/ i = Len(ss) + 1
    BY <1>1, <2>1
  <2> QED
    BY <1>2, <1>4, <2>2 DEF InOrder
<1>6. \A i \in 1..Len(xs) : xs[i] = Len(bs) + i
  <2> SUFFICES ASSUME NEW i \in 1..Len(xs) PROVE xs[i] = Len(bs) + i
    OBVIOUS
  <2>1. i + 1 \in 1..Len(ts) /\ xs[i] = ts[i + 1]
    BY <1>1, <1>3
  <2>2. ts[i + 1] = Len(ss) + (i + 1)
    BY <2>1 DEF InOrder
  <2> QED
    BY <1>1, <1>2, <2>1, <2>2
<1>7. Len(bs) + Len(xs) = n
  <2>1. Len(bs) = Len(ss) + 1 /\ Len(xs) = Len(ts) - 1
    BY <1>2, <1>3
  <2>2. (Len(ss) + 1) + (Len(ts) - 1) = n
    BY <1>1
  <2> QED
    BY <2>1, <2>2
<1>8. InOrder(n, bs, xs)
  BY <1>5, <1>6, <1>7 DEF InOrder
<1> QED
  BY <1>8 DEF bs, xs

LEMMA InOrderDrained ==
  ASSUME NEW n \in Nat, NEW ss \in Seq(Nat), NEW ts \in Seq(Nat), InOrder(n, ss, ts)
  PROVE  InOrder(n, ss \o ts, <<>>)
<1> DEFINE bs == ss \o ts
<1>1. Len(ss) \in Nat /\ Len(ts) \in Nat /\ Len(ss) + Len(ts) = n
  BY DEF InOrder
<1>2. /\ Len(bs) = Len(ss) + Len(ts)
      /\ \A i \in 1..Len(ss) : bs[i] = ss[i]
      /\ \A i \in 1..Len(ts) : bs[Len(ss) + i] = ts[i]
  BY ConcatProperties
<1> HIDE DEF bs
<1>3. \A i \in 1..Len(bs) : bs[i] = i
  <2> SUFFICES ASSUME NEW i \in 1..Len(bs) PROVE bs[i] = i
    OBVIOUS
  <2>1. CASE i <= Len(ss)
    <3>1. i \in 1..Len(ss)
      BY <1>1, <2>1
    <3>2. bs[i] = ss[i] /\ ss[i] = i
      BY <1>2, <3>1 DEF InOrder
    <3> QED
      BY <3>2
  <2>2. CASE i > Len(ss)
    <3>1. PICK k \in 1..Len(ts) : i = Len(ss) + k
      <4>1. i - Len(ss) \in 1..Len(ts) /\ i = Len(ss) + (i - Len(ss))
        BY <1>1, <1>2, <2>2
      <4> QED
        BY <4>1
    <3> QED
      BY <1>2, <3>1 DEF InOrder
  <2>3. i \in 1..Len(ss) + Len(ts)
    BY <1>2
  <2>4. i <= Len(ss) \/ i > Len(ss)
    BY <1>1, <2>3
  <2> QED
    BY <2>1, <2>2, <2>4
<1>4. Len(<<>>) = 0 /\ Len(bs) + 0 = n
  BY <1>1, <1>2
<1>5. InOrder(n, bs, <<>>)
  BY <1>3, <1>4 DEF InOrder
<1> QED
  BY <1>5 DEF bs

SignalsInOrder ==
  /\ sent \in Nat /\ applied \in Seq(Nat) /\ inbox \in Seq(Nat)
  /\ InOrder(sent, applied, inbox)

\* ... and an execution that has continued as new left none in the inbox.
DrainInv ==
  fn = "Drain" => SignalsInOrder /\ (outcome = "continuedAsNew" => inbox = <<>>)

LEMMA DrainInvInit == MessagesInit => DrainInv
<1> SUFFICES ASSUME MessagesInit PROVE DrainInv
  OBVIOUS
<1>1. inbox = <<>> /\ applied = <<>> /\ sent = 0
  BY DEF MessagesInit, MessagesStart
<1>2. SignalsInOrder
  BY <1>1 DEF SignalsInOrder, InOrder
<1> QED
  BY <1>1, <1>2 DEF DrainInv

LEMMA DrainInvNext ==
  ASSUME DrainInv, [MessagesNext]_<<execution, messageVars>>
  PROVE  DrainInv'
<1> USE DEF signalVars
<1>1. CASE UNCHANGED <<execution, messageVars>>
  BY <1>1 DEF execution, messageVars, DrainInv, SignalsInOrder
<1>2. CASE fn # "Drain" /\ fn' = fn
  BY <1>2 DEF DrainInv
<1>3. CASE Signal /\ fn = "Drain"
  <2>1. SignalsInOrder /\ Open
    BY <1>3 DEF Signal, DrainInv
  <2>2. /\ sent' = sent + 1 /\ inbox' = Append(inbox, sent + 1) /\ applied' = applied
        /\ outcome' = outcome
    BY <1>3 DEF Signal, execution
  <2>3. sent' \in Nat /\ applied' \in Seq(Nat) /\ inbox' \in Seq(Nat)
    BY <2>1, <2>2 DEF SignalsInOrder
  <2>4. InOrder(sent', applied', inbox')
    BY <2>1, <2>2, InOrderSent DEF SignalsInOrder
  <2>5. SignalsInOrder'
    BY <2>3, <2>4 DEF SignalsInOrder
  <2> QED
    BY <2>1, <2>2, <2>5 DEF DrainInv, Open
<1>4. CASE ReceiveSignal
  <2>1. SignalsInOrder /\ Open /\ inbox # <<>>
    BY <1>4 DEF ReceiveSignal, DrainInv
  <2>2. /\ applied' = Append(applied, Head(inbox)) /\ inbox' = Tail(inbox) /\ sent' = sent
        /\ outcome' = outcome
    BY <1>4 DEF ReceiveSignal, execution
  <2>3. sent' \in Nat /\ applied' \in Seq(Nat) /\ inbox' \in Seq(Nat)
    BY <2>1, <2>2 DEF SignalsInOrder
  <2>4. InOrder(sent', applied', inbox')
    BY <2>1, <2>2, InOrderReceived DEF SignalsInOrder
  <2>5. SignalsInOrder'
    BY <2>3, <2>4 DEF SignalsInOrder
  <2> QED
    BY <2>1, <2>2, <2>5 DEF DrainInv, Open
<1>5. CASE DrainSignals
  <2>1. SignalsInOrder /\ Open
    BY <1>5 DEF DrainSignals, DrainInv
  <2>2. applied' = applied \o inbox /\ inbox' = <<>> /\ sent' = sent /\ outcome' = outcome
    BY <1>5 DEF DrainSignals, Drained, execution
  <2>3. sent' \in Nat /\ applied' \in Seq(Nat) /\ inbox' \in Seq(Nat)
    BY <2>1, <2>2 DEF SignalsInOrder
  <2>4. InOrder(sent', applied', inbox')
    BY <2>1, <2>2, InOrderDrained DEF SignalsInOrder
  <2>5. SignalsInOrder'
    BY <2>3, <2>4 DEF SignalsInOrder
  <2> QED
    BY <2>1, <2>2, <2>5 DEF DrainInv, Open
<1>6. CASE ContinueAsNew
  BY <1>6 DEF ContinueAsNew, Close, messageVars, DrainInv, SignalsInOrder
<1>7. CASE CloseRejected \/ SuggestContinueAsNew
  BY <1>7 DEF CloseRejected, SuggestContinueAsNew, execution, DrainInv, SignalsInOrder
<1>8. CASE CrashInUpdateTask \/ CompleteUpdateTask \/ \E id \in Changes : Update(id)
  BY <1>8 DEF CrashInUpdateTask, CompleteUpdateTask, Update, execution, DrainInv, SignalsInOrder
<1>9. CASE RequestCancel /\ UNCHANGED messageVars
  BY <1>9 DEF RequestCancel, messageVars, DrainInv, SignalsInOrder
<1>10. CASE WaitV1 \/ WaitForStatusUpdate \/ WaitV2 \/ EndUpdates \/ Subscribe
  <2>1. fn # "Drain" /\ fn' = fn
    BY <1>10 DEF WaitV1, WaitForStatusUpdate, WaitV2, EndUpdates, Subscribe, AgedOut,
                 SignalThenSuggested, PendingRunsOut, Receive, Close, UpdateFunctions
  <2> QED
    BY <2>1 DEF DrainInv
<1>11. CASE Signal /\ fn # "Drain"
  BY <1>11 DEF Signal, execution, DrainInv
<1> QED
  BY <1>1, <1>3, <1>4, <1>5, <1>6, <1>7, <1>8, <1>9, <1>10, <1>11, Zenon
  DEF MessagesNext, MessagesTask

\* However signals arrive while DrainSignalsBeforeContinueAsNew runs
\* (not_draining_signals_before_completing_workflow), the state an execution
\* continues as new with has every recorded signal applied, in order.
THEOREM NoSignalLost == MessagesSpec => []SignalsKept
<1>1. DrainInv => SignalsKept
  <2> SUFFICES ASSUME DrainInv, fn = "Drain", outcome = "continuedAsNew"
               PROVE  applied = [i \in 1..sent |-> i]
    BY DEF SignalsKept
  <2>1. SignalsInOrder /\ inbox = <<>>
    BY DEF DrainInv
  <2>2. /\ applied \in Seq(Nat) /\ Len(applied) = sent
        /\ \A i \in 1..sent : applied[i] = i
    BY <2>1 DEF SignalsInOrder, InOrder
  <2>3. applied = [i \in 1..Len(applied) |-> applied[i]]
    BY <2>2
  <2> QED
    BY <2>2, <2>3
<1> QED
  BY <1>1, DrainInvInit, DrainInvNext, PTL DEF MessagesSpec

-----------------------------------------------------------------------------
(* Messages: UpdatesV2 judges each update by the newest it has accepted.   *)

\* The greatest element of a set.
LEMMA MaxIs ==
  ASSUME NEW T, T \subseteq Nat, NEW m \in T, \A i \in T : i <= m
  PROVE  Max(T) = m
<1>1. \A y \in T : m >= y
  OBVIOUS
<1>2. ASSUME NEW x \in T, \A y \in T : x >= y
      PROVE  x = m
  BY <1>2
<1> QED
  BY <1>1, <1>2, Zenon DEF Max

LEMMA MaxIsGreatest ==
  ASSUME NEW n \in Nat, NEW T, T \subseteq 1..n, T # {}
  PROVE  Max(T) \in T /\ \A i \in T : i <= Max(T)
<1> DEFINE D == {n - i : i \in T}
<1>1. T \subseteq Nat /\ D \subseteq Nat /\ D # {}
  <2>1. T \subseteq Nat
    OBVIOUS
  <2>2. \A i \in T : n - i \in Nat
    OBVIOUS
  <2> QED
    BY <2>1, <2>2, Zenon
<1>2. PICK d \in D : \A e \in D : d <= e
  BY <1>1, LeastNatural
<1>3. PICK m \in T : d = n - m
  OBVIOUS
<1>4. ASSUME NEW i \in T PROVE i <= m
  <2>1. n - i \in D
    OBVIOUS
  <2>2. n - m <= n - i
    BY <1>2, <1>3, <2>1
  <2>3. i \in Nat /\ m \in Nat
    BY <1>1
  <2> QED
    BY <2>2, <2>3
<1>5. Max(T) = m
  BY <1>1, <1>4, MaxIs
<1> QED
  BY <1>4, <1>5

LEMMA PrefixOfConcat ==
  ASSUME NEW S, NEW s \in Seq(S), NEW t \in Seq(S), NEW n \in 0..Len(s)
  PROVE  SubSeq(s \o t, 1, n) = SubSeq(s, 1, n)
<1>1. CASE n = 0
  BY <1>1, ConcatProperties, SubSeqEmpty
<1>2. CASE n # 0
  <2>1. n \in 1..Len(s) /\ 1 \in 1..Len(s)
    BY <1>2
  <2> QED
    BY <2>1, SubSeqOfConcat1
<1> QED
  BY <1>1, <1>2

Answer == [id : Nat, accepted : BOOLEAN]

LEMMA LastAcceptedIsID ==
  ASSUME NEW s \in Seq(Answer)
  PROVE  LastAccepted(s) \in Nat
<1> DEFINE accepted == {i \in DOMAIN s : s[i].accepted}
<1>1. CASE accepted = {}
  BY <1>1 DEF LastAccepted
<1>2. CASE accepted # {}
  <2>1. Len(s) \in Nat /\ accepted \subseteq 1..Len(s)
    OBVIOUS
  <2>2. Max(accepted) \in DOMAIN s
    BY <1>2, <2>1, MaxIsGreatest
  <2>3. s[Max(accepted)].id \in Nat
    <3>1. s[Max(accepted)] \in Answer
      BY <2>2
    <3> QED
      BY <3>1 DEF Answer
  <2> QED
    BY <1>2, <2>3 DEF LastAccepted
<1> QED
  BY <1>1, <1>2

\* What one more answer does to the newest ID accepted.
LEMMA LastAcceptedAppend ==
  ASSUME NEW s \in Seq(Answer), NEW r \in Answer
  PROVE  LastAccepted(Append(s, r)) = IF r.accepted THEN r.id ELSE LastAccepted(s)
<1> DEFINE t == Append(s, r)
           before == {i \in DOMAIN s : s[i].accepted}
           after == {i \in DOMAIN t : t[i].accepted}
<1>1. /\ Len(t) = Len(s) + 1 /\ t \in Seq(Answer) /\ t[Len(s) + 1] = r
      /\ \A i \in 1..Len(s) : t[i] = s[i]
  BY AppendProperties
<1>2. /\ Len(s) \in Nat /\ DOMAIN s = 1..Len(s) /\ DOMAIN t = 1..Len(s) + 1
  BY <1>1
<1> HIDE DEF t
<1>3. CASE r.accepted
  <2>1. after \subseteq Nat /\ Len(s) + 1 \in after
    BY <1>1, <1>2, <1>3
  <2>2. \A i \in after : i <= Len(s) + 1
    BY <1>2
  <2>3. Max(after) = Len(s) + 1
    BY <2>1, <2>2, MaxIs
  <2>4. LastAccepted(t) = t[Max(after)].id
    BY <2>1 DEF LastAccepted
  <2> QED
    BY <1>1, <1>3, <2>3, <2>4 DEF t
<1>4. CASE ~r.accepted
  <2>1. after = before
    <3>1. ASSUME NEW i \in after PROVE i \in before
      <4>1. i \in 1..Len(s) + 1 /\ i # Len(s) + 1
        BY <1>1, <1>2, <1>4
      <4>2. i \in 1..Len(s)
        BY <1>2, <4>1
      <4> QED
        BY <1>1, <1>2, <4>2
    <3>2. ASSUME NEW i \in before PROVE i \in after
      BY <1>1, <1>2
    <3> QED
      BY <3>1, <3>2
  <2>2. CASE before = {}
    BY <1>4, <2>1, <2>2 DEF LastAccepted, t
  <2>3. CASE before # {}
    <3>1. Max(before) \in before
      BY <1>2, <2>3, MaxIsGreatest
    <3>2. t[Max(before)] = s[Max(before)]
      BY <1>1, <1>2, <3>1
    <3>3. LastAccepted(t) = t[Max(after)].id /\ LastAccepted(s) = s[Max(before)].id
      BY <2>1, <2>3 DEF LastAccepted
    <3> QED
      BY <1>4, <2>1, <3>2, <3>3 DEF t
  <2> QED
    BY <2>2, <2>3
<1> QED
  BY <1>3, <1>4

\* Each answer of s accepts what is newer than all accepted before it, which is as new
\* as any update that has come by then.
Judged(s) ==
  \A i \in DOMAIN s : s[i].accepted <=> s[i].id > LastAccepted(SubSeq(s, 1, i - 1))

Newest(s) ==
  \A n \in 0..Len(s) : \A i \in 1..n : s[i].id <= LastAccepted(SubSeq(s, 1, n))

LEMMA JudgedPrefix ==
  ASSUME NEW s \in Seq(Answer), NEW t \in Seq(Answer), Judged(s \o t), Newest(s \o t)
  PROVE  Judged(s) /\ Newest(s)
<1> DEFINE st == s \o t
<1>1. /\ Len(s) \in Nat /\ DOMAIN s = 1..Len(s) /\ Len(t) \in Nat
      /\ Len(st) = Len(s) + Len(t) /\ DOMAIN st = 1..Len(st)
      /\ \A i \in 1..Len(s) : st[i] = s[i]
  BY ConcatProperties
<1>2. \A n \in 0..Len(s) : SubSeq(st, 1, n) = SubSeq(s, 1, n)
  BY PrefixOfConcat
<1> HIDE DEF st
<1>3. ASSUME NEW i \in DOMAIN s
      PROVE  s[i].accepted <=> s[i].id > LastAccepted(SubSeq(s, 1, i - 1))
  <2>1. i \in 1..Len(s) /\ i - 1 \in 0..Len(s) /\ i \in DOMAIN st
    BY <1>1
  <2>2. st[i].accepted <=> st[i].id > LastAccepted(SubSeq(st, 1, i - 1))
    BY <2>1 DEF Judged, st
  <2> QED
    BY <1>1, <1>2, <2>1, <2>2
<1>4. ASSUME NEW n \in 0..Len(s), NEW i \in 1..n
      PROVE  s[i].id <= LastAccepted(SubSeq(s, 1, n))
  <2>1. i \in 1..Len(s) /\ n \in 0..Len(st)
    BY <1>1
  <2>2. st[i].id <= LastAccepted(SubSeq(st, 1, n))
    BY <2>1 DEF Newest, st
  <2> QED
    BY <1>1, <1>2, <2>1, <2>2
<1> QED
  BY <1>3, <1>4 DEF Judged, Newest

LEMMA JudgedAppend ==
  ASSUME NEW s \in Seq(Answer), Judged(s), Newest(s), NEW r \in Answer,
         r.accepted <=> r.id > LastAccepted(s)
  PROVE  Judged(Append(s, r)) /\ Newest(Append(s, r))
<1> DEFINE t == Append(s, r)
           k == Len(s) + 1
<1>1. /\ Len(s) \in Nat /\ DOMAIN s = 1..Len(s)
      /\ t \in Seq(Answer) /\ Len(t) = k /\ DOMAIN t = 1..k /\ t[k] = r
      /\ \A i \in 1..Len(s) : t[i] = s[i]
  BY AppendProperties
<1>2. \A n \in 0..Len(s) : SubSeq(t, 1, n) = SubSeq(s, 1, n)
  <2>1. t = s \o <<r>> /\ <<r>> \in Seq(Answer)
    BY AppendIsConcat
  <2> HIDE DEF t
  <2> QED
    BY <2>1, PrefixOfConcat
<1>3. SubSeq(s, 1, Len(s)) = s /\ SubSeq(t, 1, k) = t
  BY <1>1, SubSeqFull
<1>4. LastAccepted(t) = IF r.accepted THEN r.id ELSE LastAccepted(s)
  BY LastAcceptedAppend
<1>5. LastAccepted(s) \in Nat /\ r.id \in Nat
  BY LastAcceptedIsID DEF Answer
<1>6. \A i \in 1..Len(s) : s[i].id \in Nat /\ s[i].id <= LastAccepted(s)
  <2>1. Len(s) \in 0..Len(s)
    BY <1>1
  <2>2. \A i \in 1..Len(s) : s[i].id <= LastAccepted(SubSeq(s, 1, Len(s)))
    BY <2>1 DEF Newest
  <2>3. \A i \in 1..Len(s) : s[i] \in Answer
    BY <1>1
  <2> QED
    BY <1>3, <2>2, <2>3 DEF Answer
<1> HIDE DEF t
<1>7. ASSUME NEW i \in DOMAIN t
      PROVE  t[i].accepted <=> t[i].id > LastAccepted(SubSeq(t, 1, i - 1))
  <2>1. CASE i = k
    <3>1. SubSeq(t, 1, i - 1) = s
      <4>1. i - 1 = Len(s) /\ Len(s) \in 0..Len(s)
        BY <1>1, <2>1
      <4> QED
        BY <1>2, <1>3, <4>1
    <3> QED
      BY <1>1, <2>1, <3>1
  <2>2. CASE i # k
    <3>1. i \in 1..Len(s) /\ i - 1 \in 0..Len(s)
      BY <1>1, <2>2
    <3>2. s[i].accepted <=> s[i].id > LastAccepted(SubSeq(s, 1, i - 1))
      BY <1>1, <3>1 DEF Judged
    <3> QED
      BY <1>1, <1>2, <3>1, <3>2
  <2> QED
    BY <2>1, <2>2
<1>8. ASSUME NEW n \in 0..Len(t), NEW i \in 1..n
      PROVE  t[i].id <= LastAccepted(SubSeq(t, 1, n))
  <2>1. CASE n = k
    <3>1. LastAccepted(SubSeq(t, 1, n)) = LastAccepted(t)
      BY <1>3, <2>1
    <3>2. r.id <= LastAccepted(t) /\ LastAccepted(s) <= LastAccepted(t)
      BY <1>4, <1>5
    <3>3. CASE i = k
      BY <1>1, <3>1, <3>2, <3>3
    <3>4. CASE i # k
      <4>1. i \in 1..Len(s)
        BY <1>1, <2>1, <3>4
      <4>2. t[i].id \in Nat /\ t[i].id <= LastAccepted(s)
        BY <1>1, <1>6, <4>1
      <4>3. LastAccepted(t) \in Nat
        BY <1>4, <1>5
      <4> QED
        BY <1>5, <3>1, <3>2, <4>2, <4>3
    <3> QED
      BY <3>3, <3>4
  <2>2. CASE n # k
    <3>1. n \in 0..Len(s) /\ i \in 1..Len(s)
      BY <1>1, <2>2
    <3>2. s[i].id <= LastAccepted(SubSeq(s, 1, n))
      BY <3>1 DEF Newest
    <3> QED
      BY <1>1, <1>2, <3>1, <3>2
  <2> QED
    BY <2>1, <2>2
<1> QED
  BY <1>7, <1>8 DEF Judged, Newest, t

\* The updates answered are so judged, those of the task in progress with them, and
\* lastID is the newest accepted.
Answered == answers \o batch

UpdatesInv ==
  fn = "UpdatesV2" =>
  /\ answers \in Seq(Answer) /\ batch \in Seq(Answer)
  /\ lastID = LastAccepted(Answered)
  /\ Judged(Answered) /\ Newest(Answered)
  /\ outcome = "completed" => batch = <<>>

LEMMA UpdatesInvInit == MessagesInit => UpdatesInv
<1> SUFFICES ASSUME MessagesInit PROVE UpdatesInv
  OBVIOUS
<1>1. answers = <<>> /\ batch = <<>> /\ lastID = 0
  BY DEF MessagesInit, MessagesStart
<1>2. Answered = <<>>
  BY <1>1 DEF Answered
<1>3. LastAccepted(<<>>) = 0
  BY DEF LastAccepted
<1>4. Judged(<<>>) /\ Newest(<<>>)
  BY DEF Judged, Newest
<1> QED
  BY <1>1, <1>2, <1>3, <1>4 DEF UpdatesInv

LEMMA UpdatesInvNext ==
  ASSUME UpdatesInv, [MessagesNext]_<<execution, messageVars>>
  PROVE  UpdatesInv'
<1> USE DEF updateVars
<1>1. ASSUME UNCHANGED updateVars, fn' = fn, outcome' = "completed" => outcome = "completed"
      PROVE  UpdatesInv'
  BY <1>1 DEF UpdatesInv, Answered
<1>2. CASE UNCHANGED <<execution, messageVars>>
  BY <1>1, <1>2 DEF execution, messageVars
<1>3. CASE fn # "UpdatesV2" /\ fn' = fn
  BY <1>3 DEF UpdatesInv
<1>4. CASE Signal \/ SuggestContinueAsNew \/ ReceiveSignal \/ DrainSignals \/ CloseRejected
  BY <1>1, <1>4 DEF Signal, SuggestContinueAsNew, ReceiveSignal, DrainSignals, CloseRejected, execution
<1>5. CASE RequestCancel /\ UNCHANGED messageVars
  BY <1>1, <1>5 DEF RequestCancel, messageVars
<1>6. CASE ContinueAsNew
  BY <1>1, <1>6 DEF ContinueAsNew, Close, messageVars
<1>7. CASE WaitV1 \/ WaitForStatusUpdate \/ WaitV2 \/ Subscribe
  <2>1. fn # "UpdatesV2" /\ fn' = fn
    BY <1>7 DEF WaitV1, WaitForStatusUpdate, WaitV2, Subscribe, AgedOut, SignalThenSuggested,
                PendingRunsOut, Receive, Close
  <2> QED
    BY <1>3, <2>1
<1>8. ASSUME NEW id \in Changes, Update(id), fn = "UpdatesV2"
      PROVE  UpdatesInv'
  <2> DEFINE r == [id |-> id, accepted |-> id > lastID]
  <2>1. /\ batch' = Append(batch, r) /\ lastID' = (IF id > lastID THEN id ELSE lastID)
        /\ answers' = answers /\ fn' = fn /\ outcome' = outcome /\ Open
    BY <1>8 DEF Update, Validator, execution
  <2>2. answers \in Seq(Answer) /\ batch \in Seq(Answer) /\ Answered \in Seq(Answer)
    BY <1>8, ConcatProperties DEF UpdatesInv, Answered
  <2>3. id \in Nat /\ lastID \in Nat
    BY <1>8, <2>2, LastAcceptedIsID, MessagesAssumption DEF UpdatesInv
  <2>4. r \in Answer
    BY <2>3 DEF Answer
  <2>5. r.id = id /\ (r.accepted <=> id > lastID)
    OBVIOUS
  <2> HIDE DEF r
  <2>6. batch' \in Seq(Answer) /\ answers' \in Seq(Answer)
    BY <2>1, <2>2, <2>4, AppendProperties
  <2>7. Answered' = Append(Answered, r)
    <3>1. <<r>> \in Seq(Answer)
      BY <2>4
    <3>2. batch' = batch \o <<r>>
      BY <2>1, <2>2, <2>4, AppendIsConcat
    <3>3. answers \o (batch \o <<r>>) = (answers \o batch) \o <<r>>
      BY <2>2, <3>1, ConcatAssociative
    <3>4. Append(Answered, r) = Answered \o <<r>>
      BY <2>2, <2>4, AppendIsConcat
    <3> QED
      BY <2>1, <3>2, <3>3, <3>4 DEF Answered
  <2>8. lastID = LastAccepted(Answered) /\ Judged(Answered) /\ Newest(Answered)
    BY <1>8 DEF UpdatesInv
  <2>9. Judged(Answered') /\ Newest(Answered')
    BY <2>2, <2>4, <2>5, <2>7, <2>8, JudgedAppend
  <2>10. lastID' = LastAccepted(Answered')
    BY <2>1, <2>2, <2>4, <2>5, <2>7, <2>8, LastAcceptedAppend
  <2> QED
    BY <2>1, <2>6, <2>9, <2>10 DEF UpdatesInv, Open
<1>9. CASE (CompleteUpdateTask \/ EndUpdates) /\ fn = "UpdatesV2"
  <2>1. /\ answers' = answers \o batch /\ batch' = <<>> /\ lastID' = lastID /\ fn' = fn
    BY <1>9 DEF CompleteUpdateTask, EndUpdates, Close, execution
  <2>2. answers \in Seq(Answer) /\ batch \in Seq(Answer)
    BY <1>9 DEF UpdatesInv
  <2>3. answers' \in Seq(Answer) /\ batch' \in Seq(Answer)
    BY <2>1, <2>2, ConcatProperties
  <2>4. Answered' = Answered
    <3>1. answers' \o <<>> = answers'
      BY <2>3, ConcatEmptySeq
    <3> QED
      BY <2>1, <3>1 DEF Answered
  <2> QED
    BY <1>9, <2>1, <2>3, <2>4 DEF UpdatesInv
<1>10. CASE CrashInUpdateTask /\ fn = "UpdatesV2"
  <2>1. /\ answers' = answers /\ batch' = <<>> /\ lastID' = LastAccepted(answers)
        /\ fn' = fn
    BY <1>10 DEF CrashInUpdateTask, Replayed, execution
  <2>2. answers \in Seq(Answer) /\ batch \in Seq(Answer)
    BY <1>10 DEF UpdatesInv
  <2>3. Answered' = answers
    <3>1. answers \o <<>> = answers
      BY <2>2, ConcatEmptySeq
    <3> QED
      BY <2>1, <3>1 DEF Answered
  <2>4. Judged(answers) /\ Newest(answers)
    BY <1>10, <2>2, JudgedPrefix DEF UpdatesInv, Answered
  <2>5. batch' \in Seq(Answer)
    BY <2>1
  <2> QED
    BY <2>1, <2>2, <2>3, <2>4, <2>5 DEF UpdatesInv
<1>11. CASE CompleteUpdateTask \/ EndUpdates \/ CrashInUpdateTask \/ \E id \in Changes : Update(id)
  <2>1. fn' = fn
    BY <1>11 DEF CompleteUpdateTask, EndUpdates, CrashInUpdateTask, Update, Close, execution
  <2> QED
    BY <1>3, <1>8, <1>9, <1>10, <1>11, <2>1
<1> QED
  BY <1>2, <1>4, <1>5, <1>6, <1>7, <1>11, Zenon DEF MessagesNext, MessagesTask

\* Whatever order, duplicates and crashes make of the updates, UpdatesV2 has accepted
\* exactly those newer than every one it had accepted, and returns the newest of all it
\* answered (assuming_signal_update_order).
THEOREM NewestAlwaysWins == MessagesSpec => []NewestWins
<1>1. UpdatesInv => NewestWins
  <2> SUFFICES ASSUME UpdatesInv, fn = "UpdatesV2" PROVE NewestWins
    BY DEF NewestWins
  <2>1. answers \in Seq(Answer) /\ batch \in Seq(Answer)
    BY DEF UpdatesInv
  <2>2. Judged(answers) /\ Newest(answers)
    BY <2>1, JudgedPrefix DEF UpdatesInv, Answered
  <2>3. \A i \in DOMAIN answers :
          answers[i].accepted <=> answers[i].id > LastAccepted(SubSeq(answers, 1, i - 1))
    BY <2>2 DEF Judged
  <2>4. ASSUME outcome = "completed", NEW i \in DOMAIN answers
        PROVE  answers[i].id <= lastID
    <3>1. Answered = answers
      BY <2>1, <2>4, ConcatEmptySeq DEF UpdatesInv, Answered
    <3>2. lastID = LastAccepted(answers)
      BY <3>1 DEF UpdatesInv
    <3>3. Len(answers) \in 0..Len(answers) /\ i \in 1..Len(answers)
      BY <2>1
    <3>4. SubSeq(answers, 1, Len(answers)) = answers
      BY <2>1, SubSeqFull
    <3> QED
      BY <2>2, <3>2, <3>3, <3>4 DEF Newest
  <2> QED
    BY <2>3, <2>4 DEF NewestWins
<1> QED
  BY <1>1, UpdatesInvInit, UpdatesInvNext, PTL DEF MessagesSpec

-----------------------------------------------------------------------------
(* Replays: what a function written to be replayed has read is in its      *)
(* history, or the same in every process.                                  *)

Values == Nat \cup Environments \cup {"OldActivity", "NewActivity"}

Entry == [acted : Values, marker : {None} \cup {Some(v) : v \in Values}, env : Environments]

RecordedFunctions ==
  {"NewULID", "ReplayTested", "SideEffectV2", "TimeV2", "NetworkV2", "LookupEnv"}
UnrecordedFunctions == {"EnvV2", "CounterV2"}

\* What the i-th read was: recorded by a marker, its own or an earlier one's; of a value
\* that does not change; or of the code's version.
Kept(i) ==
  /\ fn \in RecordedFunctions => LastMarker(i) = Some(history[i].acted)
  /\ fn = "LookupEnv" => history[i].acted = history[i].env
  /\ fn = "NewULID" => history[i].acted = i
  /\ fn \in UnrecordedFunctions => LastMarker(i) = None
  /\ fn = "EnvV2" => history[i].acted = given
  /\ fn = "CounterV2" => history[i].acted = 0
  /\ fn = "Versioned" =>
       \/ history[i].marker = None /\ history[i].acted = "OldActivity"
       \/ history[i].marker = Some(1) /\ history[i].acted = "NewActivity" /\ build = "new"

ReplaysInv ==
  fn \in ReplayFunctions \ ReplayUnsafe =>
  /\ history \in Seq(Entry) /\ seen \in Seq(Values)
  /\ env \in Environments /\ given \in Environments /\ build \in {"old", "new"}
  /\ Len(seen) <= Len(history)
  /\ \A i \in DOMAIN seen : seen[i] = history[i].acted
  /\ \A i \in DOMAIN history : Kept(i)

LEMMA SafeFunctions ==
  fn \in ReplayFunctions \ ReplayUnsafe <=>
    fn \in RecordedFunctions \cup UnrecordedFunctions \cup {"Versioned"}
BY DEF ReplayFunctions, HelperFunctions, ReplayUnsafe, RecordedFunctions, UnrecordedFunctions

LEMMA SomeIsNotNone == \A v : Some(v) # None /\ Some(v)[1] = v
BY DEF Some, None

LEMMA EnvironmentsUnset == NotSet \in Environments
BY ReplaysAssumption DEF NotSet, Environments

\* A new entry leaves the markers of the earlier reads.
LEMMA LastMarkerKept ==
  ASSUME history \in Seq(Entry), NEW r \in Entry, history' = Append(history, r),
         NEW n \in 0..Len(history)
  PROVE  LastMarker(n)' = LastMarker(n)
<1>1. \A i \in 1..Len(history) : history'[i] = history[i]
  BY AppendProperties
<1> DEFINE marked == {i \in 1..n : history[i].marker # None}
<1>2. 1..n \subseteq 1..Len(history)
  OBVIOUS
<1>3. marked' = marked
  BY <1>1, <1>2
<1>4. CASE marked = {}
  BY <1>3, <1>4 DEF LastMarker
<1>5. CASE marked # {}
  <2>1. Max(marked) \in marked
    <3>1. n \in Nat /\ marked \subseteq 1..n
      OBVIOUS
    <3> HIDE DEF marked
    <3> QED
      BY <1>5, <3>1, MaxIsGreatest
  <2>2. history'[Max(marked)] = history[Max(marked)]
    BY <1>1, <1>2, <2>1
  <2>3. LastMarker(n) = history[Max(marked)].marker
    BY <1>5 DEF LastMarker
  <2>4. LastMarker(n)' = history'[Max(marked)].marker
    BY <1>3, <1>5 DEF LastMarker
  <2> QED
    BY <2>2, <2>3, <2>4
<1> QED
  BY <1>4, <1>5

\* Its own marker is the last one, if it has one.
LEMMA LastMarkerNew ==
  ASSUME history \in Seq(Entry), NEW r \in Entry, history' = Append(history, r),
         NEW k, k = Len(history) + 1
  PROVE  LastMarker(k)' = IF r.marker # None THEN r.marker ELSE LastMarker(Len(history))
<1> DEFINE before == {i \in 1..k - 1 : history[i].marker # None}
           after == {i \in 1..k : history'[i].marker # None}
<1>1. /\ Len(history) \in Nat /\ k \in Nat /\ k - 1 = Len(history)
      /\ \A i \in 1..Len(history) : history'[i] = history[i]
      /\ history'[k] = r
  BY AppendProperties
<1>2. LastMarker(k)' = IF after = {} THEN None ELSE history'[Max(after)].marker
  BY DEF LastMarker
<1>3. LastMarker(k - 1) = IF before = {} THEN None ELSE history[Max(before)].marker
  BY DEF LastMarker
<1>4. CASE r.marker # None
  <2>1. k \in after /\ after \subseteq Nat /\ \A i \in after : i <= k
    BY <1>1, <1>4
  <2>2. Max(after) = k
    BY <2>1, MaxIs
  <2> QED
    BY <1>1, <1>2, <1>4, <2>1, <2>2
<1>5. CASE r.marker = None
  <2>1. after = before
    <3>1. ASSUME NEW i \in after PROVE i \in before
      <4>1. i \in 1..k /\ i # k
        BY <1>1, <1>5
      <4>2. i \in 1..k - 1
        BY <1>1, <4>1
      <4> QED
        BY <1>1, <4>2
    <3>2. ASSUME NEW i \in before PROVE i \in after
      BY <1>1
    <3> QED
      BY <3>1, <3>2
  <2>2. CASE before = {}
    BY <1>1, <1>2, <1>3, <1>5, <2>1, <2>2
  <2>3. CASE before # {}
    <3>1. Max(before) \in before
      BY <1>1, <2>3, MaxIsGreatest
    <3>2. history'[Max(before)] = history[Max(before)]
      BY <1>1, <3>1
    <3> QED
      BY <1>1, <1>2, <1>3, <1>5, <2>1, <2>3, <3>2
  <2> QED
    BY <2>2, <2>3
<1> QED
  BY <1>4, <1>5

\* A replay's read comes to what the first one was acted on.
LEMMA RereadKept ==
  ASSUME ReplaysInv, fn \in ReplayFunctions \ ReplayUnsafe, NEW i \in DOMAIN history
  PROVE  Reread(i) = history[i].acted
<1>1. Kept(i)
  BY DEF ReplaysInv
<1>2. CASE fn \in RecordedFunctions
  <2>1. LastMarker(i) # None /\ LastMarker(i)[1] = history[i].acted
    BY <1>1, <1>2, SomeIsNotNone DEF Kept
  <2>2. fn # "SideEffectV1" /\ fn # "Versioned"
    BY <1>2 DEF RecordedFunctions
  <2> QED
    BY <2>1, <2>2 DEF Reread
<1>3. CASE fn \in UnrecordedFunctions
  <2>1. LastMarker(i) = None /\ fn \in {"EnvV2", "CounterV2"}
    BY <1>1, <1>3 DEF Kept, UnrecordedFunctions
  <2>2. Reread(i) = FirstRead.acted
    BY <2>1 DEF Reread
  <2>3. CASE fn = "EnvV2"
    BY <1>1, <2>2, <2>3 DEF Kept, FirstRead, EnvV2, Unrecorded
  <2>4. CASE fn = "CounterV2"
    BY <1>1, <2>2, <2>4 DEF Kept, FirstRead, CounterV2, Unrecorded
  <2> QED
    BY <2>1, <2>3, <2>4
<1>4. CASE fn = "Versioned"
  <2>1. Reread(i) = IF build = "old" THEN "OldActivity" ELSE VersionOf(history[i].marker)
    BY <1>4 DEF Reread
  <2> QED
    BY <1>1, <1>4, <2>1, SomeIsNotNone DEF Kept, VersionOf
<1> QED
  BY <1>2, <1>3, <1>4, SafeFunctions

LEMMA ReplaysInvInit == ReplaysInit => ReplaysInv
<1> SUFFICES ASSUME ReplaysInit PROVE ReplaysInv
  OBVIOUS
<1>1. history = <<>> /\ seen = <<>> /\ env = NotSet
  BY DEF ReplaysInit, ReplaysStart
<1>2. given \in Environments
  BY EnvironmentsUnset DEF ReplaysInit, ReplaysStart
<1>3. build \in {"old", "new"}
  BY DEF ReplaysInit, ReplaysStart
<1> QED
  BY <1>1, <1>2, <1>3, EnvironmentsUnset DEF ReplaysInv

\* The first read of a function written to be replayed.
LEMMA FirstReadKept ==
  ASSUME ReplaysInv, fn \in ReplayFunctions \ ReplayUnsafe, NEW r,
         r = [acted |-> FirstRead.acted, marker |-> FirstRead.marker, env |-> env],
         history' = Append(history, r), UNCHANGED <<fn, build, given>>,
         NEW k, k = Len(history) + 1
  PROVE  r \in Entry /\ Kept(k)'
<1>1. /\ history \in Seq(Entry) /\ env \in Environments /\ given \in Environments
      /\ Len(history) \in Nat
  BY DEF ReplaysInv
<1>2. k \in Nat /\ {0, 1, k} \subseteq Values /\ {"OldActivity", "NewActivity", env, given} \subseteq Values
  BY <1>1 DEF Values
<1>3. ASSUME NEW v \in Values, NEW m \in {None} \cup {Some(w) : w \in Values},
             FirstRead = [acted |-> v, marker |-> m]
      PROVE  r \in Entry /\ r = [acted |-> v, marker |-> m, env |-> env]
  BY <1>1, <1>3 DEF Entry
<1>4. \A v \in Values : Some(v) \in {None} \cup {Some(w) : w \in Values}
  OBVIOUS
<1>5. r \in Entry => /\ history'[k] = r
                     /\ LastMarker(k)' = IF r.marker # None THEN r.marker
                                         ELSE LastMarker(Len(history))
  BY <1>1, AppendProperties, LastMarkerNew
<1>6. CASE fn \in {"NewULID", "ReplayTested", "SideEffectV2"}
  <2>1. FirstRead = [acted |-> k, marker |-> Some(k)]
    BY <1>6 DEF FirstRead, NewULID, ReplayTested, SideEffectV2, SideEffect, FreshID
  <2>2. r \in Entry /\ r = [acted |-> k, marker |-> Some(k), env |-> env]
    BY <1>2, <1>3, <1>4, <2>1
  <2> QED
    BY <1>5, <1>6, <2>2, SomeIsNotNone DEF Kept, RecordedFunctions, UnrecordedFunctions
<1>7. CASE fn \in {"TimeV2", "NetworkV2"}
  <2>1. FirstRead = [acted |-> env, marker |-> Some(env)]
    BY <1>7 DEF FirstRead, TimeV2, NetworkV2, SideEffect
  <2>2. r \in Entry /\ r = [acted |-> env, marker |-> Some(env), env |-> env]
    BY <1>2, <1>3, <1>4, <2>1
  <2> QED
    BY <1>5, <1>7, <2>2, SomeIsNotNone DEF Kept, RecordedFunctions, UnrecordedFunctions
<1>8. CASE fn = "LookupEnv"
  <2> DEFINE last == LastMarker(Len(history))
  <2>1. FirstRead = IF last # None /\ last[1] = env
                    THEN [acted |-> last[1], marker |-> None]
                    ELSE [acted |-> env, marker |-> Some(env)]
    BY <1>8 DEF FirstRead, LookupEnv, MutableSideEffect, SameResult
  <2>2. last # None => last = Some(last[1])
    <3>1. CASE Len(history) = 0
      BY <3>1 DEF LastMarker
    <3>2. CASE Len(history) # 0
      <4>1. Len(history) \in DOMAIN history
        BY <1>1, <3>2
      <4>2. Kept(Len(history))
        BY <4>1 DEF ReplaysInv
      <4> QED
        BY <1>8, <4>2, SomeIsNotNone DEF Kept, RecordedFunctions
    <3> QED
      BY <3>1, <3>2
  <2>3. CASE last # None /\ last[1] = env
    <3>1. FirstRead = [acted |-> env, marker |-> None]
      BY <2>1, <2>3
    <3>2. r \in Entry /\ r = [acted |-> env, marker |-> None, env |-> env]
      BY <1>2, <1>3, <3>1
    <3>3. LastMarker(k)' = Some(env)
      BY <1>5, <2>2, <2>3, <3>2
    <3> QED
      BY <1>5, <1>8, <3>2, <3>3 DEF Kept, RecordedFunctions, UnrecordedFunctions
  <2>4. CASE ~(last # None /\ last[1] = env)
    <3>1. FirstRead = [acted |-> env, marker |-> Some(env)]
      BY <2>1, <2>4
    <3>2. r \in Entry /\ r = [acted |-> env, marker |-> Some(env), env |-> env]
      BY <1>2, <1>3, <1>4, <3>1
    <3> QED
      BY <1>5, <1>8, <3>2, SomeIsNotNone DEF Kept, RecordedFunctions, UnrecordedFunctions
  <2> QED
    BY <2>3, <2>4
<1>9. CASE fn \in UnrecordedFunctions
  <2> DEFINE v == IF fn = "EnvV2" THEN given ELSE 0
  <2>1. fn \in {"EnvV2", "CounterV2"}
    BY <1>9 DEF UnrecordedFunctions
  <2>2. FirstRead = [acted |-> v, marker |-> None]
    BY <2>1 DEF FirstRead, EnvV2, CounterV2, Unrecorded
  <2>3. v \in Values
    BY <1>2
  <2> HIDE DEF v
  <2>4. r \in Entry /\ r = [acted |-> v, marker |-> None, env |-> env]
    BY <1>3, <2>2, <2>3
  <2> USE DEF v
  <2>5. LastMarker(Len(history)) = None
    <3>1. CASE Len(history) = 0
      BY <3>1 DEF LastMarker
    <3>2. CASE Len(history) # 0
      <4>1. Len(history) \in DOMAIN history
        BY <1>1, <3>2
      <4>2. Kept(Len(history))
        BY <4>1 DEF ReplaysInv
      <4> QED
        BY <1>9, <4>2 DEF Kept
    <3> QED
      BY <3>1, <3>2
  <2>6. LastMarker(k)' = None /\ history'[k].acted = v
    BY <1>5, <2>4, <2>5
  <2> QED
    BY <2>1, <2>4, <2>6 DEF Kept, RecordedFunctions, UnrecordedFunctions
<1>10. CASE fn = "Versioned"
  <2>1. FirstRead = IF build = "old" THEN [acted |-> "OldActivity", marker |-> None]
                    ELSE [acted |-> "NewActivity", marker |-> Some(1)]
    BY <1>10 DEF FirstRead, Versioned, Unrecorded
  <2>2. CASE build = "old"
    <3>1. FirstRead = [acted |-> "OldActivity", marker |-> None]
      BY <2>1, <2>2
    <3>2. r \in Entry /\ r = [acted |-> "OldActivity", marker |-> None, env |-> env]
      BY <1>2, <1>3, <3>1
    <3> QED
      BY <1>5, <1>10, <3>2 DEF Kept, RecordedFunctions, UnrecordedFunctions
  <2>3. CASE build # "old"
    <3>1. FirstRead = [acted |-> "NewActivity", marker |-> Some(1)]
      BY <2>1, <2>3
    <3>2. r \in Entry /\ r = [acted |-> "NewActivity", marker |-> Some(1), env |-> env]
      BY <1>2, <1>3, <1>4, <3>1
    <3>3. build' = "new"
      BY <2>3 DEF ReplaysInv
    <3> QED
      BY <1>5, <1>10, <3>2, <3>3 DEF Kept, RecordedFunctions, UnrecordedFunctions
  <2> QED
    BY <2>2, <2>3
<1> QED
  BY <1>6, <1>7, <1>8, <1>9, <1>10, SafeFunctions DEF RecordedFunctions

LEMMA ReplaysInvNext ==
  ASSUME ReplaysInv, [ReplaysNext]_<<execution, replayVars>>
  PROVE  ReplaysInv'
<1> DEFINE Safe == ReplayFunctions \ ReplayUnsafe
<1>1. CASE UNCHANGED <<fn, replayVars>>
  <2>1. UNCHANGED <<fn, history, seen, env, given, build>>
    BY <1>1 DEF replayVars
  <2>2. ASSUME NEW i
        PROVE  Kept(i)' <=> Kept(i)
    <3>1. LastMarker(i)' = LastMarker(i)
      BY <2>1 DEF LastMarker
    <3> QED
      BY <2>1, <3>1 DEF Kept
  <2> QED
    BY <2>1, <2>2, Zenon DEF ReplaysInv
<1>2. CASE fn \notin Safe /\ fn' = fn
  <2>1. (fn \notin ReplayFunctions \ ReplayUnsafe)'
    BY <1>2 DEF ReplayFunctions, HelperFunctions, ReplayUnsafe
  <2> QED
    BY <2>1 DEF ReplaysInv
<1>3. CASE Read /\ fn \in Safe
  <2> DEFINE r == [acted |-> FirstRead.acted, marker |-> FirstRead.marker, env |-> env]
  <2>0. PICK k : k = Len(history) + 1
    OBVIOUS
  <2>1. /\ history' = Append(history, r) /\ seen' = Append(seen, FirstRead.acted)
        /\ Len(seen) = Len(history)
        /\ UNCHANGED <<fn, env, build, given>>
    BY <1>3 DEF Read, execution
  <2>2. /\ history \in Seq(Entry) /\ seen \in Seq(Values)
        /\ env \in Environments /\ given \in Environments /\ build \in {"old", "new"}
        /\ \A i \in DOMAIN seen : seen[i] = history[i].acted
        /\ \A i \in DOMAIN history : Kept(i)
    BY <1>3 DEF ReplaysInv
  <2>3. r.acted = FirstRead.acted
    OBVIOUS
  <2> HIDE DEF r
  <2>4. r \in Entry /\ Kept(k)'
    BY <1>3, <2>0, <2>1, FirstReadKept DEF r
  <2>5. /\ history' \in Seq(Entry) /\ Len(history') = k
        /\ \A i \in 1..Len(history) : history'[i] = history[i]
        /\ history'[k] = r
    BY <2>0, <2>1, <2>2, <2>4, AppendProperties
  <2>6. r.acted \in Values
    BY <2>4 DEF Entry
  <2>7. /\ seen' \in Seq(Values) /\ Len(seen') = k
        /\ \A i \in 1..Len(seen) : seen'[i] = seen[i]
        /\ seen'[k] = r.acted
    BY <2>0, <2>1, <2>2, <2>3, <2>6, AppendProperties
  <2>8. ASSUME NEW i \in 1..k
        PROVE  seen'[i] = history'[i].acted /\ Kept(i)'
    <3>1. CASE i = k
      BY <2>4, <2>5, <2>7, <3>1
    <3>2. CASE i # k
      <4>1. i \in 1..Len(history) /\ i \in 1..Len(seen)
        BY <2>0, <2>1, <2>2, <3>2
      <4>2. Kept(i) /\ seen[i] = history[i].acted /\ history'[i] = history[i]
            /\ seen'[i] = seen[i]
        BY <2>2, <2>5, <2>7, <4>1
      <4>3. LastMarker(i)' = LastMarker(i)
        BY <2>1, <2>2, <2>4, <4>1, LastMarkerKept
      <4> QED
        BY <2>1, <4>2, <4>3 DEF Kept
    <3> QED
      BY <3>1, <3>2
  <2>9. DOMAIN history' = 1..k /\ DOMAIN seen' = 1..k /\ Len(seen') <= Len(history')
    BY <2>0, <2>2, <2>5, <2>7
  <2> QED
    BY <2>1, <2>2, <2>5, <2>7, <2>8, <2>9 DEF ReplaysInv
<1>4. CASE Replay /\ fn \in Safe
  <2> DEFINE v == Reread(Len(seen) + 1)
  <2>1. /\ seen' = Append(seen, v) /\ Len(seen) < Len(history)
        /\ UNCHANGED <<fn, env, build, given, history>>
    BY <1>4 DEF Replay, execution
  <2>2. /\ history \in Seq(Entry) /\ seen \in Seq(Values)
        /\ env \in Environments /\ given \in Environments /\ build \in {"old", "new"}
        /\ \A i \in DOMAIN seen : seen[i] = history[i].acted
        /\ \A i \in DOMAIN history : Kept(i)
    BY <1>4 DEF ReplaysInv
  <2>3. Len(seen) + 1 \in DOMAIN history
    BY <2>1, <2>2
  <2>4. v = history[Len(seen) + 1].acted
    BY <1>4, <2>3, RereadKept
  <2> HIDE DEF v
  <2>5. v \in Values
    <3>1. history[Len(seen) + 1] \in Entry
      BY <2>2, <2>3
    <3> QED
      BY <2>4, <3>1 DEF Entry
  <2>6. /\ seen' \in Seq(Values) /\ Len(seen') = Len(seen) + 1
        /\ seen'[Len(seen) + 1] = v
        /\ \A i \in 1..Len(seen) : seen'[i] = seen[i]
    BY <2>1, <2>2, <2>5, AppendProperties
  <2>7. ASSUME NEW i \in DOMAIN seen'
        PROVE  seen'[i] = history'[i].acted
    <3>1. i \in 1..Len(seen) \/ i = Len(seen) + 1
      BY <2>2, <2>6
    <3> QED
      BY <2>1, <2>2, <2>4, <2>6, <3>1
  <2>8. Len(seen') <= Len(history')
    BY <2>1, <2>2, <2>6
  <2>9. \A i \in DOMAIN history' : Kept(i)'
    BY <2>1, <2>2 DEF Kept, LastMarker
  <2> QED
    BY <2>1, <2>2, <2>6, <2>7, <2>8, <2>9 DEF ReplaysInv
<1>5. CASE Evict /\ fn \in Safe
  <2>1. /\ seen' = <<>> /\ env' \in Environments /\ build' \in {build, "new"}
        /\ UNCHANGED <<fn, given, history>>
    BY <1>5 DEF Evict, execution
  <2>2. /\ history \in Seq(Entry) /\ given \in Environments /\ build \in {"old", "new"}
        /\ \A i \in DOMAIN history : Kept(i)
    BY <1>5 DEF ReplaysInv
  <2>3. build' \in {"old", "new"} /\ (build = "new" => build' = "new")
    BY <2>1, <2>2
  <2>4. \A i \in DOMAIN history' : Kept(i)'
    <3> SUFFICES ASSUME NEW i \in DOMAIN history PROVE Kept(i)'
      BY <2>1
    <3>1. Kept(i)
      BY <2>2
    <3>2. LastMarker(i)' = LastMarker(i)
      BY <2>1 DEF LastMarker
    <3> QED
      BY <2>1, <2>3, <3>1, <3>2 DEF Kept
  <2>5. seen' \in Seq(Values) /\ DOMAIN seen' = {} /\ Len(seen') = 0 /\ Len(history) \in Nat
    BY <2>1, <2>2
  <2> QED
    BY <2>1, <2>2, <2>3, <2>4, <2>5 DEF ReplaysInv
<1>6. CASE ReturnFromReads
  BY <1>1, <1>6 DEF ReturnFromReads, Close
<1>7. CASE RequestCancel /\ UNCHANGED replayVars
  BY <1>1, <1>7 DEF RequestCancel
<1>8. CASE Read \/ Replay \/ Evict
  <2>1. fn' = fn
    BY <1>8 DEF Read, Replay, Evict, execution
  <2> QED
    BY <1>2, <1>3, <1>4, <1>5, <1>8, <2>1
<1>9. CASE UNCHANGED <<execution, replayVars>>
  BY <1>1, <1>9 DEF execution
<1> QED
  BY <1>6, <1>7, <1>8, <1>9 DEF ReplaysNext

\* A function written to be replayed reads what it once acted on, in whatever process and
\* however often it is replayed; LookupEnv acts on the environment of the moment; and
\* NewULID's IDs are distinct (side_effect.go, ulid.go, env.go).
THEOREM ReadsAlwaysHold == ReplaysSpec => []ReadsHold
<1>1. ReplaysInv => ReadsHold
  <2> SUFFICES ASSUME ReplaysInv, fn \in ReplayFunctions \ ReplayUnsafe PROVE ReadsHold
    BY DEF ReadsHold
  <2>1. /\ history \in Seq(Entry) /\ seen \in Seq(Values) /\ Len(seen) <= Len(history)
        /\ \A i \in DOMAIN seen : seen[i] = history[i].acted
        /\ \A i \in DOMAIN history : Kept(i)
    BY DEF ReplaysInv
  <2>2. fn = "LookupEnv" => \A i \in DOMAIN history : history[i].acted = history[i].env
    BY <2>1 DEF Kept
  <2>3. DOMAIN seen \subseteq DOMAIN history
    BY <2>1
  <2>4. fn = "NewULID" => \A i \in DOMAIN seen : seen[i] = i
    BY <2>1, <2>3 DEF Kept
  <2>5. fn = "NewULID" => \A i, j \in DOMAIN seen : i # j => seen[i] # seen[j]
    BY <2>4
  <2> QED
    BY <2>1, <2>2, <2>5 DEF ReadsHold
<1> QED
  BY <1>1, ReplaysInvInit, ReplaysInvNext, PTL DEF ReplaysSpec

-----------------------------------------------------------------------------
(* KubernetesJob.                                                          *)

Jobs == [uid : Nat, conditions : Seq(Conditions)]

Ends == {"completed", "failed"}

KubernetesTypeOK ==
  /\ uids \in Nat /\ job \in Jobs
  /\ attempt \in 0..MaxAttempts
  /\ pc \in [Attempts -> {"none", "create", "get", "answer", "failed"}]
  /\ answer \in [Attempts -> Nat]
  /\ polled \in {""} \cup Ends
  /\ response \in [UID : Nat, Status : {""} \cup Ends]

\* The status `s' is that of an end the Job has come to.
CameTo(j, s) ==
  \E i \in DOMAIN j.conditions : Terminal(j.conditions[i]) /\ s = StatusOf(j.conditions[i])

\* As long as no Job of the name is deleted, whoever has seen one finds it again.
JobInv ==
  ~deleted =>
  /\ \A a \in Attempts : pc[a] \in {"get", "answer"} => job # NoJob
  /\ \A a \in Attempts : pc[a] = "answer" => answer[a] = job.uid
  /\ stage = "await" => job # NoJob /\ response.UID = job.uid
  /\ polled # "" => CameTo(job, polled)
  /\ outcome = "completed" => stage = "await" /\ CameTo(job, response.Status)

KubernetesInv == KubernetesTypeOK /\ JobInv

LEMMA LeastIndex ==
  ASSUME NEW n \in Nat, NEW T, T \subseteq 1..n, T # {}
  PROVE  \E m \in T : \A k \in 1..m - 1 : k \in (1..n) \ T
<1>1. T \subseteq Nat
  OBVIOUS
<1>2. PICK m \in T : \A y \in T : m <= y
  BY <1>1, LeastNatural
<1>3. m \in 1..n
  OBVIOUS
<1>4. ASSUME NEW k \in 1..m - 1 PROVE k \in (1..n) \ T
  BY <1>2, <1>3
<1> QED
  BY <1>4

LEMMA TerminalStatusIsAnEnd ==
  ASSUME NEW j \in Jobs, terminalStatus(j) # ""
  PROVE  terminalStatus(j) \in Ends /\ CameTo(j, terminalStatus(j))
<1> DEFINE T == {i \in DOMAIN j.conditions : Terminal(j.conditions[i])}
           First(i) == /\ Terminal(j.conditions[i])
                       /\ \A k \in 1..i - 1 : ~Terminal(j.conditions[k])
<1>1. \E i \in DOMAIN j.conditions : Terminal(j.conditions[i])
  BY DEF terminalStatus
<1>2. DOMAIN j.conditions = 1..Len(j.conditions) /\ Len(j.conditions) \in Nat
  <2>1. j.conditions \in Seq(Conditions)
    BY DEF Jobs
  <2> QED
    BY <2>1, LenProperties
<1>3. PICK m \in T : \A k \in 1..m - 1 : k \in (1..Len(j.conditions)) \ T
  <2>1. T # {} /\ T \subseteq 1..Len(j.conditions)
    BY <1>1, <1>2
  <2> HIDE DEF T
  <2> QED
    BY <1>2, <2>1, LeastIndex
<1>4. \A k \in 1..m - 1 : k \in DOMAIN j.conditions
  BY <1>2, <1>3
<1>5. \E i \in DOMAIN j.conditions : First(i)
  BY <1>3, <1>4
<1> DEFINE c == CHOOSE i \in DOMAIN j.conditions : First(i)
<1>6. c \in DOMAIN j.conditions /\ First(c)
  BY <1>5
<1>7. terminalStatus(j) = StatusOf(j.conditions[c])
  BY <1>1 DEF terminalStatus
<1> HIDE DEF c
<1>8. StatusOf(j.conditions[c]) \in Ends
  BY DEF StatusOf, Ends
<1> QED
  BY <1>6, <1>7, <1>8 DEF CameTo

LEMMA KubernetesInvInit == KubernetesInit => KubernetesInv
<1> SUFFICES ASSUME KubernetesInit PROVE KubernetesInv
  OBVIOUS
<1>1. job \in Jobs /\ uids \in Nat
  <2>1. CASE job = NoJob /\ uids = 0
    <3>1. <<>> \in Seq(Conditions)
      OBVIOUS
    <3> QED
      BY <2>1, <3>1 DEF NoJob, Jobs
  <2>2. CASE /\ job \in [uid : {1}, conditions : {<<>>, <<[type |-> "Complete",
                                                         status |-> TRUE]>>}]
             /\ uids = 1
    <3>1. [type |-> "Complete", status |-> TRUE] \in Conditions
      BY DEF Conditions
    <3>2. <<>> \in Seq(Conditions)
      OBVIOUS
    <3>3. <<[type |-> "Complete", status |-> TRUE]>> \in Seq(Conditions)
      BY <3>1
    <3>4. job.conditions \in Seq(Conditions) /\ job = [uid |-> 1, conditions |-> job.conditions]
      BY <2>2, <3>2, <3>3
    <3> QED
      BY <2>2, <3>4 DEF Jobs
  <2> QED
    BY <2>1, <2>2, Zenon DEF KubernetesInit, KubernetesStart
<1>2. /\ stage = "start" /\ attempt = 0 /\ polled = "" /\ outcome = "open"
      /\ pc = [a \in Attempts |-> "none"] /\ answer = [a \in Attempts |-> 0]
      /\ response = [UID |-> 0, Status |-> ""]
  BY DEF KubernetesInit, KubernetesStart
<1>3. KubernetesTypeOK
  <2>1. MaxAttempts \in Nat
    BY KubernetesAssumption
  <2>2. 0 \in 0..MaxAttempts
    BY <2>1
  <2> QED
    BY <1>1, <1>2, <2>2 DEF KubernetesTypeOK
<1>4. JobInv
  BY <1>2 DEF JobInv
<1> QED
  BY <1>3, <1>4 DEF KubernetesInv

LEMMA NewJobIsJob ==
  ASSUME NEW n \in Nat
  PROVE  n + 1 \in Nat /\ [uid |-> n + 1, conditions |-> <<>>] \in Jobs
<1>1. <<>> \in Seq(Conditions)
  OBVIOUS
<1> QED
  BY <1>1 DEF Jobs

LEMMA UpdatedJobIsJob ==
  ASSUME NEW j \in Jobs, NEW c \in Conditions
  PROVE  [j EXCEPT !.conditions = Append(@, c)] \in Jobs
<1>1. j.conditions \in Seq(Conditions) /\ j.uid \in Nat
  BY DEF Jobs
<1>2. Append(j.conditions, c) \in Seq(Conditions)
  BY <1>1, AppendProperties
<1> QED
  BY <1>2 DEF Jobs

LEMMA KubernetesTypeNext ==
  ASSUME KubernetesTypeOK, [KubernetesNext]_<<execution, kubernetesVars>>
  PROVE  KubernetesTypeOK'
<1> USE DEF clusterVars, startVars
<1>1. /\ MaxAttempts \in Nat /\ uids \in Nat /\ job \in Jobs
      /\ attempt \in 0..MaxAttempts
  BY KubernetesAssumption DEF KubernetesTypeOK
<1>2. NoJob \in Jobs
  <2>1. <<>> \in Seq(Conditions)
    OBVIOUS
  <2> QED
    BY <2>1 DEF NoJob, Jobs
<1>3. NewJob(<<>>) \in Jobs /\ uids + 1 \in Nat
  BY <1>1, NewJobIsJob DEF NewJob
<1>4. CASE UNCHANGED <<execution, kubernetesVars>> \/ UNCHANGED kubernetesVars
  BY <1>4 DEF KubernetesTypeOK, kubernetesVars
<1>5. CASE UpdateJob
  <2>1. job' \in Jobs
    BY <1>1, <1>5, UpdatedJobIsJob DEF UpdateJob
  <2> QED
    BY <1>5, <2>1 DEF UpdateJob, KubernetesTypeOK
<1>6. CASE DeleteJob
  BY <1>2, <1>6 DEF DeleteJob, KubernetesTypeOK
<1>7. CASE OtherCreate
  BY <1>3, <1>7 DEF OtherCreate, KubernetesTypeOK
<1>8. CASE StartAttempt
  <2>1. attempt + 1 \in 0..MaxAttempts
    BY <1>1, <1>8 DEF StartAttempt
  <2> QED
    BY <1>8, <2>1 DEF StartAttempt, KubernetesTypeOK
<1>9. CASE StartAnswered
  <2>1. attempt \in Attempts
    BY <1>1, <1>9 DEF StartAnswered, Attempts
  <2> QED
    BY <1>9, <2>1 DEF StartAnswered, KubernetesTypeOK
<1>10. ASSUME NEW a \in Attempts, CreateJob(a) PROVE KubernetesTypeOK'
  <2>1. CASE job = NoJob
    BY <1>3, <1>10, <2>1 DEF CreateJob, KubernetesTypeOK
  <2>2. CASE job # NoJob
    BY <1>10, <2>2 DEF CreateJob, KubernetesTypeOK
  <2> QED
    BY <2>1, <2>2
<1>11. ASSUME NEW a \in Attempts, GetJob(a) PROVE KubernetesTypeOK'
  <2>1. job.uid \in Nat
    BY <1>1 DEF Jobs
  <2> QED
    BY <1>11, <2>1 DEF GetJob, KubernetesTypeOK
<1>12. ASSUME NEW a \in Attempts, RequestFails(a) PROVE KubernetesTypeOK'
  BY <1>12 DEF RequestFails, KubernetesTypeOK
<1>13. CASE PollJob
  <2>1. terminalStatus(job) \in {""} \cup Ends
    BY <1>1, TerminalStatusIsAnEnd
  <2> QED
    BY <1>13, <2>1 DEF PollJob, KubernetesTypeOK
<1>14. CASE AnswerLost
  BY <1>14 DEF AnswerLost, KubernetesTypeOK
<1>15. CASE ReturnResponse
  BY <1>15 DEF ReturnResponse, KubernetesTypeOK
<1> QED
  BY <1>4, <1>5, <1>6, <1>7, <1>8, <1>9, <1>10, <1>11, <1>12, <1>13, <1>14, <1>15, Zenon
  DEF KubernetesNext, Expire, ReturnCanceled

LEMMA JobInvNext ==
  ASSUME KubernetesTypeOK, JobInv, [KubernetesNext]_<<execution, kubernetesVars>>
  PROVE  JobInv'
<1> USE DEF clusterVars, startVars
<1>1. /\ uids \in Nat /\ job \in Jobs
      /\ pc \in [Attempts -> {"none", "create", "get", "answer", "failed"}]
      /\ answer \in [Attempts -> Nat]
  BY DEF KubernetesTypeOK
<1>2. NewJob(<<>>) # NoJob
  BY <1>1 DEF NewJob, NoJob
<1>3. ASSUME NEW s PROVE ~CameTo(NoJob, s)
  BY DEF CameTo, NoJob
\* Where there is no Job, nobody has seen one.
<1>4. ASSUME ~deleted, job = NoJob
      PROVE  /\ \A a \in Attempts : pc[a] \notin {"get", "answer"}
             /\ stage # "await" /\ polled = "" /\ outcome # "completed"
  BY <1>3, <1>4 DEF JobInv
<1>5. CASE UNCHANGED <<execution, kubernetesVars>>
  BY <1>5 DEF execution, kubernetesVars, JobInv, CameTo
<1>6. CASE OtherCreate
  <2>1. job = NoJob /\ job' # NoJob
        /\ UNCHANGED <<fn, canceled, outcome, stage, deleted, attempt, pc, answer, polled, response>>
    BY <1>2, <1>6 DEF OtherCreate, execution
  <2> QED
    BY <1>4, <2>1 DEF JobInv
<1>7. CASE UpdateJob
  <2>1. PICK c \in Conditions : job' = [job EXCEPT !.conditions = Append(@, c)]
    BY <1>7 DEF UpdateJob
  <2>2. job'.uid = job.uid /\ job' # NoJob
    <3>1. job.conditions \in Seq(Conditions) /\ job'.conditions = Append(job.conditions, c)
          /\ job'.uid = job.uid
      BY <1>1, <2>1 DEF Jobs
    <3>2. job'.conditions # <<>>
      BY <3>1, AppendProperties
    <3> QED
      BY <3>1, <3>2 DEF NoJob
  <2>3. ASSUME NEW s PROVE ~CameTo(job, s)
    BY <1>7 DEF UpdateJob, IsDone, CameTo
  <2>4. UNCHANGED <<fn, canceled, outcome, stage, deleted, attempt, pc, answer, polled, response>>
        /\ job # NoJob /\ outcome = "open"
    BY <1>7 DEF UpdateJob, execution, Open
  <2> QED
    BY <2>2, <2>3, <2>4 DEF JobInv
<1>8. CASE DeleteJob
  BY <1>8 DEF DeleteJob, JobInv
<1>9. CASE StartAttempt
  <2>1. UNCHANGED <<outcome, stage, job, deleted, answer, polled, response>> /\ outcome = "open"
        /\ pc' = [pc EXCEPT ![attempt + 1] = "create"]
    BY <1>9 DEF StartAttempt, execution, Open
  <2>2. \A a \in Attempts : pc'[a] = pc[a] \/ pc'[a] = "create"
    BY <1>1, <2>1
  <2> QED
    BY <2>1, <2>2 DEF JobInv, CameTo
<1>10. CASE StartAnswered
  <2>1. UNCHANGED <<outcome, job, deleted, pc, answer, polled>> /\ outcome = "open"
        /\ response' = [response EXCEPT !.UID = answer[attempt]] /\ pc[attempt] = "answer"
    BY <1>10 DEF StartAnswered, execution, Open
  <2>2. attempt \in Attempts
    <3>1. attempt \in 0..MaxAttempts /\ MaxAttempts \in Nat
      BY KubernetesAssumption DEF KubernetesTypeOK
    <3>2. attempt > 0
      BY <1>10 DEF StartAnswered
    <3> QED
      BY <3>1, <3>2 DEF Attempts
  <2>3. response'.UID = answer[attempt]
    BY <2>1 DEF KubernetesTypeOK
  <2> QED
    BY <2>1, <2>2, <2>3 DEF JobInv, CameTo
<1>11. ASSUME NEW a \in Attempts, CreateJob(a) PROVE JobInv'
  <2>1. UNCHANGED <<outcome, stage, deleted, polled, response>> /\ outcome = "open"
    BY <1>11 DEF CreateJob, execution, Open
  <2>2. CASE job = NoJob
    <3>1. /\ job' = NewJob(<<>>) /\ pc' = [pc EXCEPT ![a] = "answer"]
          /\ answer' = [answer EXCEPT ![a] = uids + 1]
      BY <1>11, <2>2 DEF CreateJob
    <3>2. job'.uid = uids + 1 /\ job' # NoJob
      BY <1>2, <3>1 DEF NewJob
    <3>3. \A b \in Attempts : (pc'[b] = "answer" /\ answer'[b] = uids + 1) \/ pc'[b] = pc[b]
      BY <1>1, <3>1
    <3> QED
      BY <1>4, <2>1, <2>2, <3>2, <3>3 DEF JobInv
  <2>3. CASE job # NoJob
    <3>1. UNCHANGED <<job, answer>> /\ pc' = [pc EXCEPT ![a] = "get"]
      BY <1>11, <2>3 DEF CreateJob
    <3>2. \A b \in Attempts : pc'[b] = "get" \/ pc'[b] = pc[b]
      BY <1>1, <3>1
    <3> QED
      BY <2>1, <2>3, <3>1, <3>2 DEF JobInv, CameTo
  <2> QED
    BY <2>2, <2>3
<1>12. ASSUME NEW a \in Attempts, GetJob(a) PROVE JobInv'
  <2>1. UNCHANGED <<outcome, stage, job, deleted, polled, response>> /\ outcome = "open"
        /\ answer' = [answer EXCEPT ![a] = job.uid] /\ pc[a] = "get"
        /\ pc' = [pc EXCEPT ![a] = IF job = NoJob THEN "failed" ELSE "answer"]
    BY <1>12 DEF GetJob, execution, Open
  <2>2. \A b \in Attempts : /\ b # a => pc'[b] = pc[b] /\ answer'[b] = answer[b]
                            /\ b = a => answer'[b] = job.uid
    BY <1>1, <2>1
  <2> QED
    BY <2>1, <2>2 DEF JobInv, CameTo
<1>13. ASSUME NEW a \in Attempts, RequestFails(a) PROVE JobInv'
  <2>1. UNCHANGED <<outcome, stage, job, deleted, answer, polled, response>>
        /\ pc' = [pc EXCEPT ![a] = "failed"]
    BY <1>13 DEF RequestFails, execution
  <2>2. \A b \in Attempts : pc'[b] = "failed" \/ pc'[b] = pc[b]
    BY <1>1, <2>1
  <2> QED
    BY <2>1, <2>2 DEF JobInv, CameTo
<1>14. CASE PollJob
  <2>1. UNCHANGED <<outcome, stage, job, deleted, pc, answer, response>>
        /\ polled' = terminalStatus(job)
    BY <1>14 DEF PollJob, execution
  <2>2. polled' # "" => CameTo(job, polled')
    BY <1>1, <2>1, TerminalStatusIsAnEnd
  <2> QED
    BY <2>1, <2>2 DEF JobInv, CameTo
<1>15. CASE AnswerLost
  <2>1. UNCHANGED <<outcome, stage, job, deleted, pc, answer, response>> /\ polled' = ""
    BY <1>15 DEF AnswerLost, execution
  <2> QED
    BY <2>1 DEF JobInv, CameTo
<1>16. CASE ReturnResponse
  <2>1. UNCHANGED <<stage, job, deleted, pc, answer, polled>> /\ stage = "await"
        /\ polled # "" /\ outcome = "open" /\ outcome' = "completed"
        /\ response' = [response EXCEPT !.Status = polled]
    BY <1>16 DEF ReturnResponse, Close
  <2>2. response'.Status = polled /\ response'.UID = response.UID
    BY <2>1 DEF KubernetesTypeOK
  <2> QED
    BY <2>1, <2>2 DEF JobInv, CameTo
<1>17. CASE Expire \/ ReturnCanceled \/ (RequestCancel /\ UNCHANGED kubernetesVars)
  <2>1. UNCHANGED kubernetesVars /\ (outcome' = outcome \/ outcome' \in {"failed", "canceled"})
    BY <1>17 DEF Expire, ReturnCanceled, RequestCancel, Close
  <2> QED
    BY <2>1 DEF kubernetesVars, JobInv, CameTo
<1> QED
  BY <1>5, <1>6, <1>7, <1>8, <1>9, <1>10, <1>11, <1>12, <1>13, <1>14, <1>15, <1>16, <1>17,
     Zenon DEF KubernetesNext

LEMMA KubernetesInvariant == KubernetesSpec => []KubernetesInv
<1>1. KubernetesInv /\ [KubernetesNext]_<<execution, kubernetesVars>> => KubernetesInv'
  BY KubernetesTypeNext, JobInvNext DEF KubernetesInv
<1> QED
  BY <1>1, KubernetesInvInit, PTL DEF KubernetesSpec

\* However attempts at starting the Job are repeated and overlap
\* (StartKubernetesJob, examples/go/kubernetes/activity.go), all that have one
\* to answer have the UID of the same Job, unless it is deleted.
THEOREM JobIdentity == KubernetesSpec => []SameIdentity
<1>1. KubernetesInv => SameIdentity
  BY DEF KubernetesInv, JobInv, SameIdentity
<1> QED
  BY <1>1, KubernetesInvariant, PTL

\* What RunKubernetesJob returns is the UID of that Job and an end it came to.
THEOREM JobResult == KubernetesSpec => []ResultIsOfItsJob
<1>1. KubernetesInv => ResultIsOfItsJob
  BY DEF KubernetesInv, JobInv, ResultIsOfItsJob, CameTo
<1> QED
  BY <1>1, KubernetesInvariant, PTL

=============================================================================
