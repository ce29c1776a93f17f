---------------------- MODULE PythonAutoHeartbeatProofs ----------------------
(***************************************************************************)
(* For all heartbeat timeouts and every latency the cadence has room for:  *)
(* the Python interceptor implements the heartbeat contract, and no        *)
(* attempt is taken for dead or outlived by its heartbeat loop.            *)
(***************************************************************************)
EXTENDS PythonAutoHeartbeat, TLAPS

\* The cadence is positive and leaves room for two latencies.
LEMMA CadenceFacts ==
  ASSUME heartbeatTimeout \in HeartbeatTimeouts
  PROVE  /\ cadence \in Nat /\ Latency \in Nat /\ MaxGap \in Nat
         /\ cadence > 2 * Latency /\ MaxGap = cadence + 2 * Latency
         /\ heartbeatTimeout > 0 => MaxGap <= heartbeatTimeout
<1>1. heartbeatTimeout \in Nat /\ heartbeatTimeout \div 2 \in Nat
  BY ConstantsAssumption
<1>2. heartbeatTimeout % 2 = 0
      /\ (heartbeatTimeout = 0 \/ heartbeatTimeout \div 2 > 2 * Latency)
  BY ConstantsAssumption
<1>3. heartbeatTimeout = 2 * (heartbeatTimeout \div 2)
  BY <1>1, <1>2
<1> QED
  BY <1>1, <1>2, <1>3, ConstantsAssumption DEF cadence, MaxGap

LEMMA InitOnCadence == Init => TypeOK /\ OnCadence
<1> SUFFICES ASSUME Init
             PROVE  TypeOK /\ OnCadence
  OBVIOUS
<1>1. heartbeatTimeout \in HeartbeatTimeouts
  BY DEF Init
<1>2. 0 \in 0..cadence /\ 0 \in 0..(MaxGap + 1) /\ 0 \in 0..Latency
  BY <1>1, CadenceFacts
<1>3. TypeOK
  <2>1. /\ untilDue \in 0..cadence /\ waited \in 0..Latency
        /\ sinceBeat \in 0..(MaxGap + 1) /\ late \in 0..1
    BY <1>2 DEF Init
  <2>2. /\ heartbeatTimeout \in HeartbeatTimeouts
        /\ autoHeartbeat \in BOOLEAN /\ cancelRequested \in BOOLEAN /\ canceled \in BOOLEAN
        /\ activity \in {"scheduled", "running", "stopping", "returned"}
        /\ task \in {"none", "created", "sleeping", "due", "canceling", "done"}
    BY Zenon DEF Init
  <2> QED
    BY <2>1, <2>2, Zenon DEF TypeOK
<1>4. OnCadence
  BY DEF Init, OnCadence, Covered
<1> QED
  BY <1>3, <1>4

LEMMA NextOnCadence ==
  ASSUME TypeOK, OnCadence, [Next]_vars
  PROVE  TypeOK' /\ OnCadence'
<1> USE DEF TypeOK, OnCadence, Covered, attempt
<1>1. /\ heartbeatTimeout' = heartbeatTimeout /\ autoHeartbeat' = autoHeartbeat
      /\ cadence' = cadence /\ MaxGap' = MaxGap
  BY DEF Next, vars, execute_activity, finally, return, _heartbeat_loop, StartLoop,
         Heartbeat, Canceled, RequestCancel, CancelActivity, Tick, cadence, MaxGap
<1>2. /\ cadence \in Nat /\ Latency \in Nat /\ MaxGap \in Nat
      /\ cadence > 2 * Latency /\ MaxGap = cadence + 2 * Latency
  BY CadenceFacts
<1>3. CASE execute_activity
  BY <1>1, <1>2, <1>3 DEF execute_activity
<1>4. CASE finally
  BY <1>1, <1>2, <1>4 DEF finally
<1>5. CASE return
  BY <1>1, <1>2, <1>5 DEF return
<1>6. CASE StartLoop
  BY <1>1, <1>2, <1>6 DEF StartLoop
<1>7. CASE Heartbeat
  BY <1>1, <1>2, <1>7 DEF Heartbeat
<1>8. CASE Canceled
  BY <1>1, <1>2, <1>8 DEF Canceled
<1>9. CASE RequestCancel
  BY <1>1, <1>2, <1>9 DEF RequestCancel
<1>10. CASE CancelActivity
  BY <1>1, <1>2, <1>10 DEF CancelActivity
<1>11. CASE Tick
  BY <1>1, <1>2, <1>11 DEF Tick, Ready
<1>12. CASE UNCHANGED vars
  BY <1>1, <1>2, <1>12 DEF vars
<1> QED
  BY <1>3, <1>4, <1>5, <1>6, <1>7, <1>8, <1>9, <1>10, <1>11, <1>12 DEF Next, _heartbeat_loop

\* Where the task is bounds the time since the last heartbeat, in every
\* interleaving of the event loop with the activity and the service.
THEOREM LoopOnCadence == Spec => []CadenceInv
<1>1. Init => CadenceInv
  BY InitOnCadence DEF CadenceInv
<1>2. CadenceInv /\ [Next]_vars => CadenceInv'
  BY NextOnCadence DEF CadenceInv
<1> QED
  BY <1>1, <1>2, PTL DEF Spec

\* The service never takes a running attempt for dead.
THEOREM NoAttemptTimesOut == Spec => []NoSpuriousTimeout
<1>1. ASSUME TypeOK, OnCadence, Covered, heartbeatTimeout > 0
      PROVE  sinceBeat <= heartbeatTimeout
  <2>1. waited \in 0..Latency /\ sinceBeat \in Nat
    BY <1>1, CadenceFacts DEF TypeOK
  <2>2. /\ cadence \in Nat /\ Latency \in Nat /\ heartbeatTimeout \in Nat
        /\ cadence + 2 * Latency <= heartbeatTimeout
    BY <1>1, CadenceFacts, ConstantsAssumption DEF TypeOK
  <2>3. task \in {"created", "sleeping", "due"}
    BY <1>1, Zenon DEF TypeOK, OnCadence, Covered
  <2>4. sinceBeat <= cadence + Latency + waited
    BY <1>1, <2>1, <2>2, <2>3 DEF TypeOK, OnCadence
  <2> QED
    BY <2>1, <2>2, <2>4
<1> QED
  BY <1>1, LoopOnCadence, PTL DEF NoSpuriousTimeout, CadenceInv

-----------------------------------------------------------------------------
(* The contract.                                                           *)

LEMMA InitRefines == Init => Contract!Init
<1> SUFFICES ASSUME Init
             PROVE  Contract!Init
  OBVIOUS
<1>1. MaxGap \in Nat
  BY CadenceFacts DEF Init
<1> QED
  BY <1>1 DEF Init, Contract!Init, Covered

\* Each step of the worker is a step of the contract or changes nothing in it.
LEMMA NextRefines ==
  ASSUME TypeOK, OnCadence, [Next]_vars
  PROVE  [Contract!Next]_(Contract!vars)
<1> USE DEF TypeOK, OnCadence, Covered, attempt, Contract!Next, Contract!vars
<1>1. /\ heartbeatTimeout' = heartbeatTimeout /\ autoHeartbeat' = autoHeartbeat
      /\ cadence' = cadence /\ MaxGap' = MaxGap
  BY DEF Next, vars, execute_activity, finally, return, _heartbeat_loop, StartLoop,
         Heartbeat, Canceled, RequestCancel, CancelActivity, Tick, cadence, MaxGap
<1>2. /\ cadence \in Nat /\ Latency \in Nat /\ MaxGap \in Nat
      /\ cadence > 2 * Latency /\ MaxGap = cadence + 2 * Latency
  BY CadenceFacts
<1>3. CASE execute_activity
  BY <1>1, <1>3 DEF execute_activity, Contract!Begin
<1>4. CASE finally
  BY <1>1, <1>4 DEF finally, Contract!End
<1>5. CASE return
  BY <1>1, <1>5 DEF return
<1>6. CASE StartLoop
  BY <1>1, <1>6 DEF StartLoop
<1>7. CASE Heartbeat
  BY <1>1, <1>7 DEF Heartbeat, Contract!Beat
<1>8. CASE Canceled
  BY <1>1, <1>8 DEF Canceled
<1>9. CASE RequestCancel
  BY <1>1, <1>9 DEF RequestCancel
<1>10. CASE CancelActivity
  BY <1>1, <1>10 DEF CancelActivity
<1>11. CASE Tick
  <2>1. CASE ~Covered
    BY <1>1, <1>11, <2>1 DEF Tick
  <2>2. CASE Covered
    <3>1. task \in {"created", "sleeping", "due"}
      BY <2>2, Zenon
    <3>2. sinceBeat < MaxGap
      BY <1>2, <1>11, <2>2, <3>1 DEF Tick, Ready
    <3>3. sinceBeat' = sinceBeat + 1 /\ activity' = activity /\ late' = late
      BY <1>2, <1>11, <2>2, <3>2 DEF Tick
    <3> QED
      BY <1>1, <2>2, <3>2, <3>3 DEF Contract!Tick
  <2> QED
    BY <2>1, <2>2
<1>12. CASE UNCHANGED vars
  BY <1>1, <1>12 DEF vars
<1> QED
  BY <1>3, <1>4, <1>5, <1>6, <1>7, <1>8, <1>9, <1>10, <1>11, <1>12 DEF Next, _heartbeat_loop

\* The Python interceptor implements the contract with no late heartbeat:
\* requirements 23 and 24, an activity's cleanup after its cancellation included.
THEOREM ImplementsContract == Spec => KeepsContract
<1>1. Spec => Contract!Init /\ [][Contract!Next]_(Contract!vars)
  BY InitRefines, NextRefines, LoopOnCadence, PTL DEF Spec, CadenceInv
<1> QED
  BY <1>1 DEF KeepsContract, Contract!Spec

=============================================================================
