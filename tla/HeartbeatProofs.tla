--------------------------- MODULE HeartbeatProofs ---------------------------
(***************************************************************************)
(* Heartbeats in Go, as a sign of life and as a memory.  For all heartbeat *)
(* timeouts and every latency the frequency has room for, the interceptor  *)
(* implements the heartbeat contract with at most one late heartbeat, and  *)
(* no attempt is taken for dead.  For any number of records and attempts,  *)
(* an activity that resumes from its heartbeat details skips no record,    *)
(* and repeats none the service had been told of.                          *)
(***************************************************************************)
EXTENDS AutoHeartbeat, ResumableActivity, TLAPS

-----------------------------------------------------------------------------
(* The auto-heartbeat helper.                                              *)

\* The frequency is positive and leaves room for three latencies.
LEMMA FrequencyFacts ==
  ASSUME heartbeatTimeout \in HeartbeatTimeouts
  PROVE  /\ frequency \in Nat /\ Latency \in Nat /\ MaxGap \in Nat
         /\ frequency > 3 * Latency /\ MaxGap = frequency + 2 * Latency
         /\ heartbeatTimeout > 0 => MaxGap <= heartbeatTimeout
<1>1. /\ heartbeatTimeout \in Nat /\ Latency \in Nat
      /\ heartbeatTimeout = 0 \/ heartbeatTimeout \div 2 > 3 * Latency
  BY ConstantsAssumption
<1>2. /\ heartbeatTimeout \div 2 \in Nat
      /\ 2 * (heartbeatTimeout \div 2) <= heartbeatTimeout
  BY <1>1
<1>3. CASE heartbeatTimeout = 0
  BY <1>3, ConstantsAssumption DEF frequency, MaxGap
<1>4. CASE heartbeatTimeout \div 2 > 3 * Latency
  BY <1>1, <1>2, <1>4 DEF frequency, MaxGap
<1> QED
  BY <1>1, <1>3, <1>4

LEMMA InitOnCadence == Init => TypeOK /\ OnCadence
<1> SUFFICES ASSUME Init
             PROVE  TypeOK /\ OnCadence
  OBVIOUS
<1>1. heartbeatTimeout \in HeartbeatTimeouts
  BY DEF Init
<1>2. 0 \in 0..frequency /\ 0 \in 0..(MaxGap + 1) /\ 0 \in 0..Latency
  BY <1>1, FrequencyFacts
<1>3. TypeOK
  <2>1. /\ untilTick \in 0..frequency /\ waited \in 0..Latency
        /\ sinceBeat \in 0..(MaxGap + 1) /\ late \in 0..(MaxLate + 1)
    BY <1>2 DEF Init, MaxLate
  <2>2. /\ heartbeatTimeout \in HeartbeatTimeouts /\ autoHeartbeat \in BOOLEAN
        /\ ctxDone \in BOOLEAN /\ heartbeatCtxDone \in BOOLEAN
        /\ tickReady \in BOOLEAN /\ cancelRequested \in BOOLEAN
        /\ activity \in {"scheduled", "running", "returned"}
        /\ goroutine \in {"none", "starting", "recording", "selecting", "exited"}
    BY Zenon DEF Init
  <2> QED
    BY <2>1, <2>2, Zenon DEF TypeOK
<1>4. OnCadence
  BY DEF Init, OnCadence, Covered, Ticking, MaxLate
<1> QED
  BY <1>3, <1>4

\* No step changes the attempt, nor what is computed from it.
LEMMA AttemptFixed ==
  ASSUME [Next]_vars
  PROVE  /\ heartbeatTimeout' = heartbeatTimeout /\ autoHeartbeat' = autoHeartbeat
         /\ frequency' = frequency /\ MaxGap' = MaxGap
<1>1. heartbeatTimeout' = heartbeatTimeout /\ autoHeartbeat' = autoHeartbeat
  BY DEF Next, vars, attempt, ExecuteActivity, Return, Goroutine, NewTicker,
         RecordHeartbeat, SelectTick, SelectDone, RequestCancel, CancelContext, Tick
<1> QED
  BY <1>1 DEF frequency, MaxGap

LEMMA NextOnCadence ==
  ASSUME TypeOK, OnCadence, [Next]_vars
  PROVE  TypeOK' /\ OnCadence'
<1> USE DEF TypeOK, OnCadence, Covered, Ticking, Done, MaxLate, sinceTick, attempt
<1>1. /\ heartbeatTimeout' = heartbeatTimeout /\ autoHeartbeat' = autoHeartbeat
      /\ frequency' = frequency /\ MaxGap' = MaxGap
  BY AttemptFixed
<1>2. /\ frequency \in Nat /\ Latency \in Nat /\ MaxGap \in Nat
      /\ frequency > 3 * Latency /\ MaxGap = frequency + 2 * Latency
  BY FrequencyFacts
<1>3. CASE ExecuteActivity
  BY <1>1, <1>2, <1>3 DEF ExecuteActivity
<1>4. CASE Return
  BY <1>1, <1>2, <1>4 DEF Return
<1>5. CASE NewTicker
  BY <1>1, <1>2, <1>5 DEF NewTicker
<1>6. CASE RecordHeartbeat
  BY <1>1, <1>2, <1>6 DEF RecordHeartbeat
<1>7. CASE SelectTick
  <2>1. TypeOK'
    <3>1. waited' \in 0..Latency
      BY <1>2, <1>7 DEF SelectTick
    <3> QED
      BY <1>1, <1>7, <3>1, Zenon DEF SelectTick
  <2>2. /\ late = 0 /\ sinceTick <= Latency /\ untilTick > 0
        /\ Covered => sinceBeat <= frequency + Latency
    BY <1>2, <1>7 DEF SelectTick
  <2>3. /\ goroutine' = "recording" /\ tickReady' = FALSE /\ waited' = 0
        /\ late' = late /\ sinceBeat' = sinceBeat /\ sinceTick' = sinceTick
        /\ activity' = activity /\ ctxDone' = ctxDone
        /\ heartbeatCtxDone' = heartbeatCtxDone /\ untilTick' = untilTick
    BY <1>1, <1>7 DEF SelectTick
  <2> QED
    BY <1>1, <1>2, <1>7, <2>1, <2>2, <2>3, SMT DEF SelectTick
<1>8. CASE SelectDone
  BY <1>1, <1>2, <1>8 DEF SelectDone
<1>9. CASE RequestCancel
  BY <1>1, <1>2, <1>9 DEF RequestCancel
<1>10. CASE CancelContext
  BY <1>1, <1>2, <1>10 DEF CancelContext
<1>11. CASE Tick
  BY <1>1, <1>2, <1>11 DEF Tick, CanRun
<1>12. CASE UNCHANGED vars
  BY <1>1, <1>2, <1>12 DEF vars
<1> QED
  BY <1>3, <1>4, <1>5, <1>6, <1>7, <1>8, <1>9, <1>10, <1>11, <1>12 DEF Next, Goroutine

\* Where the goroutine is bounds the time since the last heartbeat, and when the
\* ticker last fired bounds where it can be, in every interleaving with the
\* activity, the cancellations and the runtime's scheduling.
THEOREM GoroutineOnCadence == Spec => []CadenceInv
<1>1. Init => CadenceInv
  BY InitOnCadence DEF CadenceInv
<1>2. CadenceInv /\ [Next]_vars => CadenceInv'
  BY NextOnCadence DEF CadenceInv
<1> QED
  BY <1>1, <1>2, PTL DEF Spec

\* A covered attempt never goes without a heartbeat for longer than MaxGap.
LEMMA GapBounded ==
  ASSUME TypeOK, OnCadence, Covered
  PROVE  /\ goroutine \in {"starting", "recording", "selecting"}
         /\ sinceBeat \in Nat /\ sinceBeat <= MaxGap
<1> USE DEF TypeOK, OnCadence, Covered
<1>1. goroutine \in {"starting", "recording", "selecting"}
  BY Zenon DEF Done
<1>2. /\ frequency \in Nat /\ Latency \in Nat
      /\ MaxGap = frequency + 2 * Latency
      /\ untilTick \in 0..frequency /\ waited \in 0..Latency /\ sinceBeat \in Nat
  BY FrequencyFacts
<1>3. sinceBeat <= frequency + Latency + waited
  BY <1>1, <1>2 DEF sinceTick
<1> QED
  BY <1>1, <1>2, <1>3

\* The service never takes a covered attempt for dead.
THEOREM NoAttemptTimesOut == Spec => []NoSpuriousTimeout
<1>1. ASSUME TypeOK, OnCadence, Covered, heartbeatTimeout > 0
      PROVE  sinceBeat <= heartbeatTimeout
  <2>1. MaxGap \in Nat /\ MaxGap <= heartbeatTimeout /\ heartbeatTimeout \in Nat
    BY <1>1, FrequencyFacts, ConstantsAssumption DEF TypeOK
  <2> QED
    BY <1>1, <2>1, GapBounded
<1> QED
  BY <1>1, GoroutineOnCadence, PTL DEF NoSpuriousTimeout, CadenceInv

-----------------------------------------------------------------------------
(* The contract.                                                           *)

LEMMA InitRefines == Init => Contract!Init
<1> SUFFICES ASSUME Init
             PROVE  Contract!Init
  OBVIOUS
<1>1. MaxGap \in Nat
  BY FrequencyFacts DEF Init
<1> QED
  BY <1>1 DEF Init, Contract!Init, Covered

\* Each step is a step of the contract or changes nothing in it.
LEMMA NextRefines ==
  ASSUME TypeOK, OnCadence, [Next]_vars
  PROVE  [Contract!Next]_(Contract!vars)
<1> USE DEF TypeOK, OnCadence, Covered, MaxLate, attempt, Contract!Next, Contract!vars
<1>1. /\ heartbeatTimeout' = heartbeatTimeout /\ autoHeartbeat' = autoHeartbeat
      /\ frequency' = frequency /\ MaxGap' = MaxGap
  BY AttemptFixed
<1>2. /\ frequency \in Nat /\ Latency \in Nat /\ MaxGap \in Nat
      /\ frequency > 3 * Latency /\ MaxGap = frequency + 2 * Latency
  BY FrequencyFacts
<1>3. CASE ExecuteActivity
  BY <1>1, <1>3 DEF ExecuteActivity, Contract!Begin
<1>4. CASE Return
  BY <1>1, <1>4 DEF Return, Contract!End
<1>5. CASE NewTicker
  BY <1>1, <1>5 DEF NewTicker
<1>6. CASE RecordHeartbeat
  <2>1. CASE activity = "running"
    BY <1>1, <1>6, <2>1 DEF RecordHeartbeat, Contract!Beat, Contract!Uncover
  <2>2. CASE activity = "returned"
    BY <1>1, <1>6, <2>2 DEF RecordHeartbeat, Contract!LateBeat
  <2> QED
    BY <1>6, <2>1, <2>2 DEF RecordHeartbeat
<1>7. CASE SelectTick
  BY <1>1, <1>7 DEF SelectTick
<1>8. CASE SelectDone
  BY <1>1, <1>8 DEF SelectDone
<1>9. CASE RequestCancel
  BY <1>1, <1>9 DEF RequestCancel
<1>10. CASE CancelContext
  BY <1>1, <1>10 DEF CancelContext, Contract!Uncover
<1>11. CASE Tick
  <2>1. CASE ~Covered
    BY <1>1, <1>11, <2>1 DEF Tick
  <2>2. CASE Covered
    <3>1. /\ goroutine \in {"starting", "recording", "selecting"}
          /\ sinceBeat \in Nat /\ sinceBeat <= MaxGap
      BY <2>2, GapBounded, Zenon
    <3>2. sinceBeat < MaxGap
      BY <1>2, <1>11, <2>2, <3>1 DEF Tick, CanRun, Done, Ticking, sinceTick
    <3>3. sinceBeat' = sinceBeat + 1 /\ activity' = activity /\ late' = late
          /\ ctxDone' = ctxDone
      BY <1>2, <1>11, <2>2, <3>2 DEF Tick
    <3> QED
      BY <1>1, <2>2, <3>2, <3>3 DEF Contract!Tick
  <2> QED
    BY <2>1, <2>2
<1>12. CASE UNCHANGED vars
  BY <1>1, <1>12 DEF vars
<1> QED
  BY <1>3, <1>4, <1>5, <1>6, <1>7, <1>8, <1>9, <1>10, <1>11, <1>12 DEF Next, Goroutine

\* The Go interceptor implements the contract: requirement 23, and at most one
\* heartbeat after the return where requirement 24 wants none.
THEOREM ImplementsContract == Spec => KeepsContract
<1>1. Spec => Contract!Init /\ [][Contract!Next]_(Contract!vars)
  BY InitRefines, NextRefines, GoroutineOnCadence, PTL DEF Spec, CadenceInv
<1> QED
  BY <1>1 DEF KeepsContract, Contract!Spec


-----------------------------------------------------------------------------
(* Nothing is skipped: types and vouching together are inductive.          *)

LEMMA ThroughNext ==
  ASSUME NEW k \in Nat, Through(k - 1)
  PROVE  0..k \subseteq processed \cup {k}
<1> SUFFICES ASSUME NEW j \in 0..k, j # k PROVE j \in processed
  OBVIOUS
<1>1. j \in 0..k - 1
  OBVIOUS
<1> QED
  BY <1>1 DEF Through

LEMMA NumbersTyped ==
  /\ RecordIDs \in Nat /\ MaxAttempts \in Nat \ {0}
  /\ 1 \in Attempts /\ 0 \in 0..RecordIDs
  /\ NoDetails \in NoDetails..(RecordIDs - 1)
  /\ NoDetails \in Nothing..(RecordIDs - 1) /\ Nothing \in Nothing..(RecordIDs - 1)
BY ResumableAssumption DEF Attempts, NoDetails, Nothing

LEMMA ProgressInvInit == ResumableInit => ProgressInv
<1> SUFFICES ASSUME ResumableInit PROVE ProgressInv
  OBVIOUS
<1>1. ResumableTypeOK
  BY NumbersTyped DEF ResumableInit, ResumableTypeOK
<1>2. Through(NoDetails)
  BY DEF Through, NoDetails
<1>3. DetailsVouched
  BY <1>2 DEF ResumableInit, DetailsVouched, NoDetails, Nothing
<1> QED
  BY <1>1, <1>3 DEF ProgressInv

LEMMA TypeNext ==
  ASSUME ProgressInv, [ResumableNext]_resumableVars
  PROVE  ResumableTypeOK'
<1>1. ResumableTypeOK
  BY DEF ProgressInv
<1>2. CASE UNCHANGED resumableVars
  BY <1>1, <1>2 DEF resumableVars, ResumableTypeOK
<1>3. ASSUME NEW a \in Attempts, Start(a) PROVE ResumableTypeOK'
  <2>1. given[a] \in NoDetails..(RecordIDs - 1)
    BY <1>1 DEF ResumableTypeOK
  <2>2. (IF given[a] # NoDetails THEN given[a] + 1 ELSE 0) \in 0..RecordIDs
    BY <2>1, NumbersTyped DEF NoDetails
  <2> QED
    BY <1>1, <1>3, <2>2 DEF Start, ResumableTypeOK
<1>4. ASSUME NEW a \in Attempts, ProcessRecord(a) PROVE ResumableTypeOK'
  <2>1. i[a] \in 0..(RecordIDs - 1)
    BY <1>1, <1>4, NumbersTyped DEF ProcessRecord, ResumableTypeOK
  <2> QED
    BY <1>1, <1>4, <2>1 DEF ProcessRecord, ResumableTypeOK
<1>5. ASSUME NEW a \in Attempts, RecordProgress(a) PROVE ResumableTypeOK'
  <2>1. i[a] \in processed
    BY <1>1, <1>5 DEF RecordProgress, ResumableTypeOK, ProgressInv, DetailsVouched, Through
  <2>2. i[a] \in 0..(RecordIDs - 1)
    BY <1>1, <2>1 DEF ResumableTypeOK
  <2>3. i[a] + 1 \in 0..RecordIDs /\ i[a] \in Nothing..(RecordIDs - 1)
    BY <2>2, NumbersTyped DEF Nothing
  <2> QED
    BY <1>1, <1>5, <2>3 DEF RecordProgress, ResumableTypeOK
<1>6. ASSUME NEW a \in Attempts, ReturnAtEnd(a) PROVE ResumableTypeOK'
  BY <1>1, <1>6 DEF ReturnAtEnd, ResumableTypeOK
<1>7. ASSUME NEW a \in Attempts, Fail(a) PROVE ResumableTypeOK'
  <2>1. a + 1 \in Attempts
    BY <1>7, NumbersTyped DEF Fail, Attempts
  <2>2. CASE a = current
    BY <1>1, <1>7, <2>1, <2>2 DEF Fail, HandOver, ResumableTypeOK
  <2>3. CASE a # current
    BY <1>1, <1>7, <2>3 DEF Fail, ResumableTypeOK
  <2> QED
    BY <2>2, <2>3
<1>8. ASSUME NEW a \in Attempts, AutoBeat(a) PROVE ResumableTypeOK'
  BY <1>1, <1>8, NumbersTyped DEF AutoBeat, ResumableTypeOK
<1>9. ASSUME NEW a \in Attempts, Deliver(a) PROVE ResumableTypeOK'
  <2>1. held[a] \in NoDetails..(RecordIDs - 1)
    <3>1. held[a] \in Nothing..(RecordIDs - 1) /\ held[a] # Nothing
      BY <1>1, <1>9 DEF Deliver, ResumableTypeOK
    <3> QED
      BY <3>1, NumbersTyped DEF Nothing, NoDetails
  <2> QED
    BY <1>1, <1>9, <2>1, NumbersTyped DEF Deliver, ResumableTypeOK
<1>10. ASSUME NEW a \in Attempts, Crash(a) PROVE ResumableTypeOK'
  BY <1>1, <1>10 DEF Crash, ResumableTypeOK
<1>11. CASE TimeOut
  <2>1. current + 1 \in Attempts
    BY <1>1, <1>11, NumbersTyped DEF TimeOut, Attempts, ResumableTypeOK
  <2> QED
    BY <1>1, <1>11, <2>1 DEF TimeOut, HandOver, ResumableTypeOK
<1> QED
  BY <1>2, <1>3, <1>4, <1>5, <1>6, <1>7, <1>8, <1>9, <1>10, <1>11, Zenon DEF ResumableNext, Step

LEMMA VouchedNext ==
  ASSUME ProgressInv, [ResumableNext]_resumableVars
  PROVE  DetailsVouched'
<1>1. ResumableTypeOK /\ DetailsVouched
  BY DEF ProgressInv
<1>2. /\ pc \in [Attempts -> {"none", "starting", "processing", "recording", "over"}]
      /\ i \in [Attempts -> 0..RecordIDs] /\ current \in Attempts
      /\ given \in [Attempts -> NoDetails..(RecordIDs - 1)]
      /\ held \in [Attempts -> Nothing..(RecordIDs - 1)]
  BY <1>1 DEF ResumableTypeOK
<1>3. CASE UNCHANGED resumableVars
  BY <1>1, <1>3 DEF resumableVars, DetailsVouched, Through
<1>4. ASSUME NEW a \in Attempts, Start(a) PROVE DetailsVouched'
  <2>1. UNCHANGED <<closed, given, held, details, confirmed, processed>>
        /\ pc'[a] = "processing"
        /\ i'[a] = IF given[a] # NoDetails THEN given[a] + 1 ELSE 0
    BY <1>2, <1>4 DEF Start
  <2>2. \A b \in Attempts : b # a => pc'[b] = pc[b] /\ i'[b] = i[b]
    BY <1>2, <1>4 DEF Start
  <2>3. 0..(i'[a] - 1) \subseteq processed
    <3>1. CASE given[a] # NoDetails
      <4>1. given[a] \in Int /\ i'[a] - 1 = given[a]
        BY <1>2, <2>1, <3>1, NumbersTyped DEF NoDetails
      <4> QED
        BY <1>1, <4>1 DEF DetailsVouched, Through
    <3>2. CASE given[a] = NoDetails
      BY <2>1, <3>2
    <3> QED
      BY <3>1, <3>2
  <2> QED
    BY <1>1, <2>1, <2>2, <2>3 DEF DetailsVouched, Through
<1>5. ASSUME NEW a \in Attempts, ProcessRecord(a) PROVE DetailsVouched'
  <2>1. UNCHANGED <<closed, i, given, held, details, confirmed>>
        /\ processed' = processed \cup {i[a]} /\ pc'[a] = "recording"
        /\ \A b \in Attempts : b # a => pc'[b] = pc[b]
    BY <1>2, <1>5 DEF ProcessRecord
  <2>2. 0..i[a] \subseteq processed'
    <3>1. i[a] \in Nat /\ Through(i[a] - 1)
      BY <1>1, <1>2, <1>5, NumbersTyped DEF ProcessRecord, DetailsVouched
    <3> QED
      BY <2>1, <3>1, ThroughNext
  <2> QED
    BY <1>1, <2>1, <2>2 DEF DetailsVouched, Through
<1>6. ASSUME NEW a \in Attempts, RecordProgress(a) PROVE DetailsVouched'
  <2>1. UNCHANGED <<closed, given, details, confirmed, processed>>
        /\ held'[a] = i[a] /\ i'[a] = i[a] + 1 /\ pc'[a] = "processing"
    BY <1>2, <1>6 DEF RecordProgress
  <2>2. \A b \in Attempts : b # a => pc'[b] = pc[b] /\ i'[b] = i[b] /\ held'[b] = held[b]
    BY <1>2, <1>6 DEF RecordProgress
  <2>3. i'[a] - 1 = i[a]
    BY <1>2, <2>1
  <2>4. 0..i[a] \subseteq processed
    BY <1>1, <1>6 DEF RecordProgress, DetailsVouched, Through
  <2> QED
    BY <1>1, <2>1, <2>2, <2>3, <2>4 DEF DetailsVouched, Through
<1>7. ASSUME NEW a \in Attempts, ReturnAtEnd(a) PROVE DetailsVouched'
  <2>1. UNCHANGED <<i, given, held, details, confirmed, processed>>
        /\ \A b \in Attempts : pc'[b] = pc[b] \/ pc'[b] = "over"
    BY <1>2, <1>7 DEF ReturnAtEnd
  <2>2. 0..(RecordIDs - 1) \subseteq processed
    <3>1. i[a] = RecordIDs
      BY <1>2, <1>7, NumbersTyped DEF ReturnAtEnd
    <3> QED
      BY <1>1, <1>7, <3>1 DEF ReturnAtEnd, DetailsVouched, Through
  <2> QED
    BY <1>1, <2>1, <2>2 DEF DetailsVouched, Through
<1>8. ASSUME NEW a \in Attempts, AutoBeat(a) PROVE DetailsVouched'
  <2>1. UNCHANGED <<closed, pc, i, given, details, confirmed, processed>>
        /\ \A b \in Attempts : held'[b] = held[b] \/ held'[b] = NoDetails
    BY <1>2, <1>8 DEF AutoBeat
  <2>2. 0..NoDetails \subseteq processed
    BY DEF NoDetails
  <2> QED
    BY <1>1, <2>1, <2>2 DEF DetailsVouched, Through
<1>9. ASSUME NEW a \in Attempts, Deliver(a) PROVE DetailsVouched'
  <2>1. UNCHANGED <<closed, pc, i, given, processed>> /\ held[a] # Nothing
        /\ (details' = details \/ details' = held[a])
        /\ (confirmed' = confirmed \/ confirmed' = held[a])
    BY <1>9 DEF Deliver
  <2>2. \A b \in Attempts : held'[b] = held[b] \/ held'[b] = Nothing
    BY <1>2, <1>9 DEF Deliver
  <2> QED
    BY <1>1, <2>1, <2>2 DEF DetailsVouched, Through
<1>10. ASSUME NEW a \in Attempts, Fail(a) \/ Crash(a) \/ TimeOut PROVE DetailsVouched'
  <2>1. UNCHANGED <<closed, i, held, details, confirmed, processed>>
    BY <1>10 DEF Fail, Crash, TimeOut
  <2>2. \A b \in Attempts : pc'[b] = pc[b] \/ pc'[b] \in {"over", "starting"}
    BY <1>2, <1>10 DEF Fail, Crash, TimeOut
  <2>3. \A b \in Attempts : given'[b] = given[b] \/ given'[b] = details
    BY <1>2, <1>10 DEF Fail, Crash, TimeOut, HandOver
  <2> QED
    BY <1>1, <2>1, <2>2, <2>3 DEF DetailsVouched, Through
<1> QED
  BY <1>2, <1>3, <1>4, <1>5, <1>6, <1>7, <1>8, <1>9, <1>10, Zenon DEF ResumableNext, Step

\* A completed activity (ProcessRecordsActivity) has processed every record,
\* however many there are and however many attempts it took.
THEOREM NoRecordSkipped == ResumableSpec => []NothingSkipped
<1>1. ProgressInv /\ [ResumableNext]_resumableVars => ProgressInv'
  BY TypeNext, VouchedNext DEF ProgressInv
<1>2. ProgressInv => NothingSkipped
  BY DEF ProgressInv, ResumableTypeOK, DetailsVouched, Through, NothingSkipped
<1> QED
  BY <1>1, <1>2, ProgressInvInit, PTL DEF ResumableSpec

-----------------------------------------------------------------------------
(* Nothing reported is repeated.                                           *)

AtWork(a) == pc[a] \in {"processing", "recording"}

\* Without the helper's empty heartbeats the service's details only grow, and
\* the current attempt is ahead of them.
AheadInv ==
  /\ \A a \in Attempts : a > current => pc[a] = "none" /\ held[a] = Nothing
  /\ ~helped =>
     /\ details = confirmed
     /\ \A a \in Attempts : /\ given[a] = reported[a]
                            /\ AtWork(a) => i[a] > reported[a]
     /\ pc[current] = "starting" => given[current] = confirmed /\ held[current] = Nothing
     /\ AtWork(current) => /\ i[current] > confirmed
                           /\ held[current] # Nothing =>
                              held[current] >= confirmed /\ held[current] < i[current]

LEMMA AheadInit == ResumableInit => AheadInv
BY ResumableAssumption DEF ResumableInit, AheadInv, AtWork, Attempts, NoDetails, Nothing

LEMMA HandedOver ==
  ASSUME ResumableTypeOK, AheadInv, current < MaxAttempts, current' = current + 1,
         UNCHANGED <<helped, i, held, details, confirmed>>,
         HandOver(current + 1),
         pc'[current + 1] = "starting",
         \A a \in Attempts : a # current + 1 => pc'[a] = pc[a] \/ pc'[a] = "over",
         \A a \in Attempts : a > current + 1 => pc'[a] = pc[a]
  PROVE  AheadInv'
<1>1. current \in Int /\ current + 1 \in Attempts /\ current' \in Attempts
  BY ResumableAssumption DEF ResumableTypeOK, Attempts
<1>2. /\ given'[current + 1] = details /\ reported'[current + 1] = confirmed
      /\ \A a \in Attempts : a # current + 1 => given'[a] = given[a] /\ reported'[a] = reported[a]
  BY <1>1 DEF HandOver, ResumableTypeOK
<1>3. \A a \in Attempts : a > current + 1 => a > current
  BY <1>1 DEF Attempts
<1>4. \A a \in Attempts : a > current' => pc'[a] = "none" /\ held'[a] = Nothing
  BY <1>3 DEF AheadInv
<1>5. held[current + 1] = Nothing
  BY <1>1 DEF AheadInv
<1>6. \A a \in Attempts : AtWork(a)' => a # current + 1 /\ AtWork(a)
  BY DEF AtWork
<1> QED
  BY <1>1, <1>2, <1>4, <1>5, <1>6 DEF AheadInv, AtWork

LEMMA AheadNext ==
  ASSUME ResumableTypeOK, AheadInv, [ResumableNext]_resumableVars
  PROVE  AheadInv'
<1>1. /\ pc \in [Attempts -> {"none", "starting", "processing", "recording", "over"}]
      /\ i \in [Attempts -> 0..RecordIDs] /\ current \in Attempts
      /\ held \in [Attempts -> Nothing..(RecordIDs - 1)]
  BY DEF ResumableTypeOK
<1>2. confirmed \in Int /\ RecordIDs \in Nat
      /\ \A a \in Attempts : a \in Int /\ i[a] \in Int /\ held[a] \in Int /\ given[a] \in Int
  BY ResumableAssumption DEF ResumableTypeOK, Attempts, NoDetails, Nothing
<1>3. CASE UNCHANGED resumableVars
  BY <1>3 DEF resumableVars, AheadInv, AtWork
<1>4. ASSUME NEW a \in Attempts, Start(a) PROVE AheadInv'
  <2>1. UNCHANGED <<helped, current, given, held, details, confirmed, reported>>
        /\ pc[a] = "starting" /\ pc'[a] = "processing" /\ i'[a] > given[a]
    <3>1. given[a] # NoDetails => given[a] + 1 > given[a]
      BY <1>2
    <3>2. given[a] = NoDetails => 0 > given[a]
      BY DEF NoDetails
    <3> QED
      BY <1>1, <1>4, <3>1, <3>2 DEF Start
  <2>2. \A b \in Attempts : b # a => pc'[b] = pc[b] /\ i'[b] = i[b]
    BY <1>1, <1>4 DEF Start
  <2> QED
    BY <1>1, <2>1, <2>2 DEF AheadInv, AtWork
<1>5. ASSUME NEW a \in Attempts, ProcessRecord(a) PROVE AheadInv'
  <2>1. UNCHANGED <<helped, current, i, given, held, details, confirmed, reported>>
        /\ pc[a] = "processing" /\ pc'[a] = "recording"
        /\ \A b \in Attempts : b # a => pc'[b] = pc[b]
    BY <1>1, <1>5 DEF ProcessRecord
  <2> QED
    BY <1>1, <2>1 DEF AheadInv, AtWork
<1>6. ASSUME NEW a \in Attempts, RecordProgress(a) PROVE AheadInv'
  <2>1. UNCHANGED <<helped, current, given, details, confirmed, reported>>
        /\ pc[a] = "recording" /\ pc'[a] = "processing"
        /\ held'[a] = i[a] /\ i'[a] = i[a] + 1
    BY <1>1, <1>6 DEF RecordProgress
  <2>2. \A b \in Attempts : b # a => pc'[b] = pc[b] /\ i'[b] = i[b] /\ held'[b] = held[b]
    BY <1>1, <1>6 DEF RecordProgress
  <2>3. \A b \in Attempts : b > current' => pc'[b] = "none" /\ held'[b] = Nothing
    BY <2>1, <2>2 DEF AheadInv
  <2>4. CASE helped
    BY <2>1, <2>3, <2>4 DEF AheadInv
  <2>5. CASE ~helped
    <3>1. \A b \in Attempts : AtWork(b)' => i'[b] > reported[b]
      <4>1. i[a] > reported[a] /\ given[a] = reported[a]
        BY <2>1, <2>5 DEF AheadInv, AtWork
      <4>2. i'[a] > reported[a]
        BY <1>2, <2>1, <4>1
      <4> QED
        BY <2>2, <2>5, <4>2 DEF AheadInv, AtWork
    <3>2. CASE a = current
      <4>1. i[a] > confirmed
        BY <2>1, <2>5, <3>2 DEF AheadInv, AtWork
      <4>2. i'[a] > confirmed /\ held'[a] >= confirmed /\ held'[a] < i'[a]
        BY <1>2, <2>1, <4>1
      <4> QED
        BY <2>1, <2>3, <2>5, <3>1, <3>2, <4>2 DEF AheadInv
    <3>3. CASE a # current
      BY <1>1, <2>1, <2>2, <2>3, <2>5, <3>1, <3>3 DEF AheadInv, AtWork
    <3> QED
      BY <3>2, <3>3
  <2> QED
    BY <2>4, <2>5
<1>7. ASSUME NEW a \in Attempts, ReturnAtEnd(a) \/ Crash(a) PROVE AheadInv'
  <2>1. UNCHANGED <<helped, current, i, given, held, details, confirmed, reported>>
        /\ pc[a] # "none" /\ pc'[a] = "over" /\ \A b \in Attempts : b # a => pc'[b] = pc[b]
    BY <1>1, <1>7 DEF ReturnAtEnd, Crash, Alive
  <2> QED
    BY <1>1, <2>1 DEF AheadInv, AtWork
<1>8. ASSUME NEW a \in Attempts, Fail(a) PROVE AheadInv'
  <2>1. CASE a = current
    <3>1. current + 1 \in Attempts /\ a # current + 1
      BY <1>2, <1>8, <2>1, ResumableAssumption DEF Fail, Attempts
    <3>2. /\ pc'[current + 1] = "starting"
          /\ \A b \in Attempts : b # current + 1 => pc'[b] = pc[b] \/ pc'[b] = "over"
      BY <1>1, <1>8, <2>1, <3>1 DEF Fail
    <3>3. \A b \in Attempts : b > current + 1 => pc'[b] = pc[b]
      <4>1. \A b \in Attempts : b > current + 1 => b # current + 1 /\ b # a
        BY <1>2, <2>1
      <4> QED
        BY <1>1, <1>8, <2>1, <3>1, <4>1 DEF Fail
    <3> QED
      BY <1>8, <2>1, <3>2, <3>3, HandedOver DEF Fail
  <2>2. CASE a # current
    <3>1. UNCHANGED <<helped, current, i, given, held, details, confirmed, reported>>
          /\ pc[a] # "none" /\ pc'[a] = "over" /\ \A b \in Attempts : b # a => pc'[b] = pc[b]
      BY <1>1, <1>8, <2>2 DEF Fail
    <3> QED
      BY <1>1, <2>2, <3>1 DEF AheadInv, AtWork
  <2> QED
    BY <2>1, <2>2
<1>9. ASSUME NEW a \in Attempts, AutoBeat(a) PROVE AheadInv'
  <2>1. helped' /\ helped /\ UNCHANGED <<current, pc>> /\ pc[a] # "none"
        /\ \A b \in Attempts : b # a => held'[b] = held[b]
    BY <1>1, <1>9 DEF AutoBeat, Alive
  <2> QED
    BY <2>1 DEF AheadInv
<1>10. ASSUME NEW a \in Attempts, Deliver(a) PROVE AheadInv'
  <2>1. UNCHANGED <<helped, current, pc, i, given, reported>> /\ Alive(a)
        /\ held[a] # Nothing /\ held'[a] = Nothing
        /\ \A b \in Attempts : b # a => held'[b] = held[b]
    BY <1>1, <1>10 DEF Deliver
  <2>2. \A b \in Attempts : b > current' => pc'[b] = "none" /\ held'[b] = Nothing
    BY <2>1 DEF AheadInv
  <2>3. CASE helped
    BY <2>1, <2>2, <2>3 DEF AheadInv
  <2>4. CASE ~helped /\ a = current
    <3>1. AtWork(a) /\ held[a] >= confirmed /\ held[a] < i[a] /\ details = confirmed
      BY <2>1, <2>4 DEF AheadInv, Alive, AtWork
    <3>2. details' = held[a] /\ confirmed' = held[a]
      BY <1>2, <1>10, <2>4, <3>1 DEF Deliver
    <3>3. i[a] > held[a]
      BY <1>2, <3>1
    <3> QED
      BY <2>1, <2>2, <2>4, <3>1, <3>2, <3>3 DEF AheadInv, AtWork
  <2>5. CASE ~helped /\ a # current
    <3>1. UNCHANGED <<details, confirmed>>
      BY <1>10, <2>5 DEF Deliver
    <3> QED
      BY <1>1, <2>1, <2>2, <2>5, <3>1 DEF AheadInv, AtWork
  <2> QED
    BY <2>3, <2>4, <2>5
<1>11. CASE TimeOut
  <2>1. current + 1 \in Attempts
    BY <1>2, <1>1, <1>11, ResumableAssumption DEF TimeOut, Attempts
  <2>2. /\ pc'[current + 1] = "starting"
        /\ \A b \in Attempts : b # current + 1 => pc'[b] = pc[b]
    BY <1>1, <1>11, <2>1 DEF TimeOut
  <2>3. \A b \in Attempts : b > current + 1 => b # current + 1
    BY <1>2, <1>1
  <2> QED
    BY <1>11, <2>2, <2>3, HandedOver DEF TimeOut
<1> QED
  BY <1>3, <1>4, <1>5, <1>6, <1>7, <1>8, <1>9, <1>10, <1>11, Zenon DEF ResumableNext, Step

\* Without the helper, an attempt processes no record the service had been told
\* of before it started the attempt ("it picks up at record 9,501"), whatever
\* attempts overlap and whichever heartbeats are held back or refused.
THEOREM ReportedOnce == ResumableSpec => []ReportedNotRepeated
<1>1. ProgressInv /\ AheadInv /\ [ResumableNext]_resumableVars => ProgressInv' /\ AheadInv'
  BY TypeNext, VouchedNext, AheadNext DEF ProgressInv
<1>2. AheadInv => ReportedNotRepeated
  BY DEF AheadInv, AtWork, ReportedNotRepeated
<1> QED
  BY <1>1, <1>2, ProgressInvInit, AheadInit, PTL DEF ResumableSpec

=============================================================================
