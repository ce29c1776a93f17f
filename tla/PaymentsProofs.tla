---------------------------- MODULE PaymentsProofs ----------------------------
(***************************************************************************)
(* For all purchases whose identities differ, and for every number of      *)
(* attempts: a purchase is charged once at most, one that completes has a  *)
(* charge of its own, and one rejected for its status has none.  And, for  *)
(* all errors and mappers: what the error mapper makes of an activity's    *)
(* error is retried when it should be, and hides no cancellation.  And, for *)
(* all retry policies, outages and hints: the delays of the helpers.        *)
(***************************************************************************)
EXTENDS Payments, ErrorMapper, PurchaseTimeline, SequenceTheorems, NatRecursion

-----------------------------------------------------------------------------
(* The idempotency key.                                                    *)

\* A concatenation, by its elements.
IsConcat(s, a, b) ==
  /\ s \in Seq(Characters) /\ Len(a) \in Nat /\ Len(b) \in Nat
  /\ Len(s) = Len(a) + Len(b)
  /\ \A i \in 1..Len(a) : s[i] = a[i]
  /\ \A i \in 1..Len(b) : s[Len(a) + i] = b[i]

LEMMA Concatenation ==
  ASSUME NEW a \in Seq(Characters), NEW b \in Seq(Characters)
  PROVE  IsConcat(a \o b, a, b)
<1>1. /\ a \o b \in Seq(Characters)
      /\ Len(a \o b) = Len(a) + Len(b)
      /\ \A i \in 1..(Len(a) + Len(b)) :
           (a \o b)[i] = IF i <= Len(a) THEN a[i] ELSE b[i - Len(a)]
  BY ConcatProperties
<1>2. Len(a) \in Nat /\ Len(b) \in Nat
  OBVIOUS
<1>3. \A i \in 1..Len(a) : (a \o b)[i] = a[i]
  BY <1>1, <1>2
<1>4. \A i \in 1..Len(b) : (a \o b)[Len(a) + i] = b[i]
  BY <1>1, <1>2
<1> QED
  BY <1>1, <1>2, <1>3, <1>4, Zenon DEF IsConcat

\* What is hashed of three IDs, and where each is in it.
Joined(u, v, w) == u \o <<NUL>> \o v \o <<NUL>> \o w

HasParts(t, u, v, w) ==
  /\ Len(t) = Len(u) + Len(v) + Len(w) + 2
  /\ \A i \in 1..Len(u) : t[i] = u[i]
  /\ t[Len(u) + 1] = NUL
  /\ \A i \in 1..Len(v) : t[Len(u) + 1 + i] = v[i]
  /\ t[Len(u) + Len(v) + 2] = NUL
  /\ \A i \in 1..Len(w) : t[Len(u) + Len(v) + 2 + i] = w[i]

LEMMA JoinedHasParts ==
  ASSUME NEW u \in Seq(Characters), NEW v \in Seq(Characters), NEW w \in Seq(Characters)
  PROVE  HasParts(Joined(u, v, w), u, v, w)
<1>1. <<NUL>> \in Seq(Characters) /\ Len(<<NUL>>) = 1 /\ <<NUL>>[1] = NUL
  <2>1. NUL \in Characters
    BY DEF Characters
  <2> QED BY <2>1
<1>2. PICK t1 : t1 = u \o <<NUL>>
  OBVIOUS
<1>3. PICK t2 : t2 = t1 \o v
  OBVIOUS
<1>4. PICK t3 : t3 = t2 \o <<NUL>>
  OBVIOUS
<1>5. PICK t : t = t3 \o w
  OBVIOUS
<1>6. t = Joined(u, v, w)
  BY <1>2, <1>3, <1>4, <1>5, Zenon DEF Joined
<1>7. IsConcat(t1, u, <<NUL>>)
  BY <1>1, <1>2, Concatenation, Zenon
<1>8. IsConcat(t2, t1, v)
  <2>1. t1 \in Seq(Characters)
    BY <1>7, Zenon DEF IsConcat
  <2> QED BY <2>1, <1>3, Concatenation, Zenon
<1>9. IsConcat(t3, t2, <<NUL>>)
  <2>1. t2 \in Seq(Characters)
    BY <1>8, Zenon DEF IsConcat
  <2> QED BY <2>1, <1>1, <1>4, Concatenation, Zenon
<1>10. IsConcat(t, t3, w)
  <2>1. t3 \in Seq(Characters)
    BY <1>9, Zenon DEF IsConcat
  <2> QED BY <2>1, <1>5, Concatenation, Zenon
<1>11. PICK z : z = <<NUL>>
  OBVIOUS
<1>12. Len(z) = 1 /\ z[1] = NUL
  BY <1>1, <1>11, Zenon
<1>13. /\ IsConcat(t1, u, z) /\ IsConcat(t2, t1, v) /\ IsConcat(t3, t2, z) /\ IsConcat(t, t3, w)
  BY <1>7, <1>8, <1>9, <1>10, <1>11, Zenon
<1>14. /\ Len(u) \in Nat /\ Len(v) \in Nat /\ Len(w) \in Nat
       /\ Len(t1) = Len(u) + 1 /\ Len(t2) = Len(u) + Len(v) + 1
       /\ Len(t3) = Len(u) + Len(v) + 2 /\ Len(t) = Len(u) + Len(v) + Len(w) + 2
  BY <1>12, <1>13 DEF IsConcat
<1>15. \A i \in 1..(Len(u) + Len(v) + 2) : t[i] = t3[i]
  <2>1. \A i \in 1..Len(t3) : t[i] = t3[i]
    BY <1>13, Zenon DEF IsConcat
  <2> QED BY <2>1, <1>14
<1>16. \A i \in 1..(Len(u) + Len(v) + 1) : t[i] = t2[i]
  <2>1. \A i \in 1..Len(t2) : t3[i] = t2[i]
    BY <1>13, Zenon DEF IsConcat
  <2> QED BY <2>1, <1>14, <1>15
<1>17. \A i \in 1..(Len(u) + 1) : t[i] = t1[i]
  <2>1. \A i \in 1..Len(t1) : t2[i] = t1[i]
    BY <1>13, Zenon DEF IsConcat
  <2> QED BY <2>1, <1>14, <1>16
<1>18. \A i \in 1..Len(u) : t[i] = u[i]
  BY <1>13, <1>14, <1>17 DEF IsConcat
<1>19. t[Len(u) + 1] = NUL
  <2>1. t[Len(u) + 1] = t1[Len(u) + 1]
    BY <1>14, <1>17
  <2>2. t1[Len(u) + 1] = z[1]
    BY <1>12, <1>13 DEF IsConcat
  <2> QED BY <2>1, <2>2, <1>12
<1>20. \A i \in 1..Len(v) : t[Len(u) + 1 + i] = v[i]
  <2> TAKE i \in 1..Len(v)
  <2>1. t[Len(u) + 1 + i] = t2[Len(u) + 1 + i]
    BY <1>14, <1>16
  <2>2. t2[Len(t1) + i] = v[i]
    BY <1>13 DEF IsConcat
  <2> QED BY <2>1, <2>2, <1>14
<1>21. t[Len(u) + Len(v) + 2] = NUL
  BY <1>12, <1>13, <1>14, <1>15 DEF IsConcat
<1>22. \A i \in 1..Len(w) : t[Len(u) + Len(v) + 2 + i] = w[i]
  BY <1>13, <1>14 DEF IsConcat
<1>23. HasParts(t, u, v, w)
  BY <1>14, <1>18, <1>19, <1>20, <1>21, <1>22 DEF HasParts
<1> QED
  BY <1>6, <1>23, Zenon

\* The delimiters tell where a part ends.
IsID(s) == s \in Seq(Characters) /\ \A i \in 1..Len(s) : s[i] # NUL

LEMMA PartsAgree ==
  ASSUME NEW u, NEW v, NEW w, NEW x, NEW y, NEW z,
         IsID(u), IsID(v), IsID(w), IsID(x), IsID(y), IsID(z),
         Joined(u, v, w) = Joined(x, y, z)
  PROVE  u = x /\ v = y /\ w = z
<1>a. /\ u \in Seq(Characters) /\ v \in Seq(Characters) /\ w \in Seq(Characters)
      /\ x \in Seq(Characters) /\ y \in Seq(Characters) /\ z \in Seq(Characters)
  BY Zenon DEF IsID
<1>b. /\ \A i \in 1..Len(u) : u[i] # NUL
      /\ \A i \in 1..Len(v) : v[i] # NUL
      /\ \A i \in 1..Len(x) : x[i] # NUL
      /\ \A i \in 1..Len(y) : y[i] # NUL
  BY Zenon DEF IsID
<1>1. PICK t : HasParts(t, u, v, w) /\ HasParts(t, x, y, z)
  BY <1>a, JoinedHasParts, Zenon
<1>2. /\ Len(t) = Len(u) + Len(v) + Len(w) + 2
      /\ \A i \in 1..Len(u) : t[i] = u[i]
      /\ t[Len(u) + 1] = NUL
      /\ \A i \in 1..Len(v) : t[Len(u) + 1 + i] = v[i]
      /\ t[Len(u) + Len(v) + 2] = NUL
      /\ \A i \in 1..Len(w) : t[Len(u) + Len(v) + 2 + i] = w[i]
  BY <1>1, Zenon DEF HasParts
<1>3. /\ Len(t) = Len(x) + Len(y) + Len(z) + 2
      /\ \A i \in 1..Len(x) : t[i] = x[i]
      /\ t[Len(x) + 1] = NUL
      /\ \A i \in 1..Len(y) : t[Len(x) + 1 + i] = y[i]
      /\ t[Len(x) + Len(y) + 2] = NUL
      /\ \A i \in 1..Len(z) : t[Len(x) + Len(y) + 2 + i] = z[i]
  BY <1>1, Zenon DEF HasParts
<1>4. /\ Len(u) \in Nat /\ Len(v) \in Nat /\ Len(w) \in Nat
      /\ Len(x) \in Nat /\ Len(y) \in Nat /\ Len(z) \in Nat
  BY <1>a
<1>5. Len(u) = Len(x)
  <2>1. CASE Len(u) < Len(x)
    <3>1. Len(u) + 1 \in 1..Len(x)
      BY <2>1, <1>4
    <3> QED BY <3>1, <1>b, <1>2, <1>3, Zenon
  <2>2. CASE Len(x) < Len(u)
    <3>1. Len(x) + 1 \in 1..Len(u)
      BY <2>2, <1>4
    <3> QED BY <3>1, <1>b, <1>2, <1>3, Zenon
  <2> QED BY <2>1, <2>2, <1>4
<1>6. Len(v) = Len(y)
  <2>1. CASE Len(v) < Len(y)
    <3>1. Len(v) + 1 \in 1..Len(y) /\ Len(x) + 1 + (Len(v) + 1) = Len(u) + Len(v) + 2
      BY <2>1, <1>4, <1>5
    <3> QED BY <3>1, <1>b, <1>2, <1>3, SMTT(30)
  <2>2. CASE Len(y) < Len(v)
    <3>1. Len(y) + 1 \in 1..Len(v) /\ Len(u) + 1 + (Len(y) + 1) = Len(x) + Len(y) + 2
      BY <2>2, <1>4, <1>5
    <3> QED BY <3>1, <1>b, <1>2, <1>3, SMTT(30)
  <2> QED BY <2>1, <2>2, <1>4
<1>7. Len(w) = Len(z)
  BY <1>2, <1>3, <1>4, <1>5, <1>6
<1>8. \A i \in 1..Len(u) : u[i] = x[i]
  BY <1>2, <1>3, <1>5
<1>9. \A i \in 1..Len(v) : v[i] = y[i]
  BY <1>2, <1>3, <1>5, <1>6
<1>10. \A i \in 1..Len(w) : w[i] = z[i]
  BY <1>2, <1>3, <1>5, <1>6, <1>7
<1>11. u = x
  BY <1>5, <1>8, <1>a, SeqEqual
<1>12. v = y
  BY <1>6, <1>9, <1>a, SeqEqual
<1>13. w = z
  BY <1>7, <1>10, <1>a, SeqEqual
<1> QED BY <1>11, <1>12, <1>13

\* Two purchases with the same key are one.
LEMMA TokenInjective ==
  ASSUME NEW p \in Purchases, NEW q \in Purchases, Token(p) = Token(q)
  PROVE  p = q
<1>1. \A r \in Purchases : IsID(r.workflowID) /\ IsID(r.runID) /\ IsID(r.activityID)
  BY IDsAssumption, Zenon DEF IsID
<1>2. Joined(p.workflowID, p.runID, p.activityID) = Joined(q.workflowID, q.runID, q.activityID)
  BY Zenon DEF Token, getIdempotencyToken, Joined
<1>3. p.workflowID = q.workflowID /\ p.runID = q.runID /\ p.activityID = q.activityID
  BY <1>1, <1>2, PartsAgree
<1> QED BY <1>3, ConstantsAssumption

-----------------------------------------------------------------------------
(* How an attempt ends.                                                    *)

Statuses == {200, 402, 409, TooManyRequests}

Outcomes == Ends \cup {"retry"}

\* A status decides: 200 alone completes a purchase, 402 and 409 alone reject it.
LEMMA StatusDecides ==
  ASSUME NEW status \in Statuses, NEW a, NEW body
  PROVE  /\ ResponseOutcome(status, a, body) \in Outcomes
         /\ ResponseOutcome(status, a, body) = "completed" => status = 200
         /\ ResponseOutcome(status, a, body) = "rejected" => status \in {402, 409}
<1> DEFINE resp == [status |-> status, retryAfter |-> NoHeader]
         httpError  == HTTPResponseError(resp, PurchasePolicy, a, 0, MaxDuration)
<1>1. resp.status = status
  OBVIOUS
<1>2. CASE status = 200
  <2>1. httpError = NoError
    BY <1>1, <1>2 DEF HTTPResponseError
  <2> HIDE DEF httpError
  <2>2. ResponseOutcome(status, a, body) \in {"completed", "undecodable", "retry"}
    BY <2>1 DEF ResponseOutcome, httpError
  <2> QED BY <2>2, <1>2 DEF Outcomes, Ends
<1>3. CASE status \in {402, 409}
  <2>0. status \in NonRetryableStatuses /\ status \notin 200..399
    BY <1>3 DEF NonRetryableStatuses
  <2>1. httpError = ApplicationError(TRUE, 0)
    BY <1>1, <2>0 DEF HTTPResponseError
  <2>2. httpError # NoError /\ httpError.nonRetryable
    BY <2>1 DEF ApplicationError, NoError
  <2> HIDE DEF httpError
  <2>3. ResponseOutcome(status, a, body) = "rejected"
    BY <2>2 DEF ResponseOutcome, httpError
  <2> QED BY <2>3, <1>3 DEF Outcomes, Ends
<1>4. CASE status = TooManyRequests
  <2> DEFINE hint == ParseRetryAfter(resp.retryAfter, 0)
  <2>0. status \notin NonRetryableStatuses /\ status \notin 200..399
    BY <1>4 DEF NonRetryableStatuses, TooManyRequests
  <2>1. PICK delay : httpError = ApplicationError(FALSE, delay)
    <3>1. CASE hint = 0
      BY <1>1, <1>4, <2>0, <3>1 DEF HTTPResponseError
    <3>2. CASE hint # 0
      BY <1>1, <1>4, <2>0, <3>2 DEF HTTPResponseError
    <3> QED BY <3>1, <3>2
  <2>2. httpError # NoError /\ ~httpError.nonRetryable
    BY <2>1 DEF ApplicationError, NoError
  <2> HIDE DEF httpError
  <2>3. ResponseOutcome(status, a, body) = "retry"
    BY <2>2 DEF ResponseOutcome, httpError
  <2> QED BY <2>3 DEF Outcomes, Ends
<1> QED
  BY <1>2, <1>3, <1>4 DEF Statuses

TypeWorkflow == workflow \in [Purchases -> {"started", "panicking", "charging"} \cup Ends]
TypeAttempt == attempt \in [Purchases -> 0..MaxAttempts]
TypePc == pc \in [Purchases -> [Attempts -> {"none", "building", "waiting", "over"}]]
AttemptsBegun == \A p \in Purchases : workflow[p] \in {"started", "panicking"} <=> attempt[p] = 0

TypeService == TypeWorkflow /\ TypeAttempt /\ TypePc /\ AttemptsBegun

\* The report of an attempt keeps the types, and ends its purchase, if it does,
\* with what it reports.
LEMMA ReportEnds ==
  ASSUME TypeService, NEW p \in Purchases, NEW a \in Attempts, NEW outcome \in Outcomes,
         Report(p, a, outcome)
  PROVE  /\ TypeService'
         /\ \A q \in Purchases :
              workflow'[q] = workflow[q] \/ workflow'[q] = "gaveUp"
                \/ (q = p /\ workflow'[q] = outcome)
<1> USE DEF TypeService, TypeWorkflow, TypeAttempt, TypePc, AttemptsBegun
<1>1. MaxAttempts \in Nat /\ a \in 1..MaxAttempts
  BY ConstantsAssumption DEF Attempts
<1>2. CASE a # attempt[p] \/ workflow[p] # "charging"
  <2>1. workflow' = workflow /\ attempt' = attempt /\ pc' = [pc EXCEPT ![p][a] = "over"]
    BY <1>2 DEF Report
  <2>2. TypePc'
    BY <2>1
  <2> QED BY <2>1, <2>2
<1>3. CASE ~(a # attempt[p] \/ workflow[p] # "charging") /\ outcome = "retry" /\ a < MaxAttempts
  <2>1. /\ workflow' = workflow /\ attempt' = [attempt EXCEPT ![p] = a + 1]
        /\ pc' = [pc EXCEPT ![p][a] = "over", ![p][a + 1] = "building"]
    BY <1>3 DEF Report
  <2>2. a + 1 \in 1..MaxAttempts
    BY <1>1, <1>3
  <2>3. TypePc'
    BY <2>1, <2>2 DEF Attempts
  <2>4. TypeAttempt' /\ AttemptsBegun'
    BY <1>1, <1>3, <2>1, <2>2 DEF Ends
  <2> QED BY <2>1, <2>3, <2>4
<1>4. CASE ~(a # attempt[p] \/ workflow[p] # "charging") /\ ~(outcome = "retry" /\ a < MaxAttempts)
  <2> DEFINE end == IF outcome = "retry" THEN "gaveUp" ELSE outcome
  <2>1. /\ workflow' = [workflow EXCEPT ![p] = end]
        /\ attempt' = attempt /\ pc' = [pc EXCEPT ![p][a] = "over"]
    BY <1>4 DEF Report
  <2>2. end \in Ends
    BY DEF Outcomes, Ends
  <2>3. attempt[p] # 0
    BY <1>1, <1>4
  <2>4. end \notin {"started", "panicking"}
    BY <2>2 DEF Ends
  <2>5. TypePc' /\ TypeAttempt' /\ TypeWorkflow'
    BY <2>1, <2>2
  <2>6. AttemptsBegun'
    BY <2>1, <2>3, <2>4
  <2>7. \A q \in Purchases : workflow'[q] = IF q = p THEN end ELSE workflow[q]
    BY <2>1
  <2> QED BY <2>5, <2>6, <2>7
<1> QED
  BY <1>2, <1>3, <1>4

-----------------------------------------------------------------------------
(* Types.                                                                  *)

TypeAPI ==
  /\ network \subseteq Requests /\ working \subseteq Requests /\ charged \subseteq Requests
  /\ results \subseteq [key : Tokens, status : {200, 402}]
  /\ answers \subseteq [purchase : Purchases, attempt : Attempts, status : Statuses]

LEMMA TypeParts == TypeOK <=> setting \in Settings /\ TypeService /\ TypeAPI
  BY ZenonT(60) DEF TypeOK, TypeService, TypeWorkflow, TypeAttempt, TypePc, AttemptsBegun, TypeAPI,
     Statuses

\* What the steps of a purchase do not do to the API.
LEMMA PurchaseSteps ==
  ASSUME TypeOK, NEW p \in Purchases,
         Workflow(p) \/ TimeOut(p) \/ \E a \in Attempts : Attempt(p, a) \/ Crash(p, a)
  PROVE  /\ UNCHANGED <<working, results, charged>>
         /\ answers' \subseteq answers
<1>1. CASE Workflow(p) \/ TimeOut(p)
  BY <1>1 DEF Workflow, PurchaseItem, PurchaseItemPanics, RetryTask, TimeOut, api
<1>2. CASE \E a \in Attempts : Attempt(p, a) \/ Crash(p, a)
  <2>1. PICK a \in Attempts : Attempt(p, a) \/ Crash(p, a)
    BY <1>2
  <2>2. CASE SendCharge(p, a) \/ BuildFails(p, a) \/ Crash(p, a)
    BY <2>2 DEF SendCharge, BuildFails, Crash, api
  <2>3. CASE \E f \in TransportFailures : TransportFails(p, a, f)
    BY <2>3 DEF TransportFails, api
  <2>4. CASE \E b \in {"charge", "truncated", "mismatch"} : HandleResponse(p, a, b)
    BY <2>4 DEF HandleResponse
  <2> QED BY <2>1, <2>2, <2>3, <2>4, Zenon DEF Attempt
<1> QED BY <1>1, <1>2

\* The steps of a purchase keep the types; what they end it with.
LEMMA PurchaseStepEnds ==
  ASSUME TypeOK, NEW p \in Purchases,
         Workflow(p) \/ TimeOut(p) \/ \E a \in Attempts : Attempt(p, a) \/ Crash(p, a)
  PROVE  /\ TypeService' /\ setting' = setting
         /\ network' \subseteq network
              \cup {[purchase |-> p, attempt |-> a, key |-> getIdempotencyToken(p)] : a \in Attempts}
         /\ \A q \in Purchases : workflow'[q] = "completed" =>
              \/ workflow[q] = "completed"
              \/ \E answer \in answers : answer.purchase = q /\ answer.status = 200
         /\ \A q \in Purchases : workflow'[q] = "rejected" =>
              \/ workflow[q] = "rejected"
              \/ \E answer \in answers : answer.purchase = q /\ answer.status \in {402, 409}
<1>t. TypeService /\ TypeAPI /\ MaxAttempts \in Nat \ {0} /\ 1 \in Attempts
  BY TypeParts, ConstantsAssumption DEF Attempts
<1> DEFINE Same == \A q \in Purchases :
                     workflow'[q] = workflow[q] \/ workflow'[q] \notin {"completed", "rejected"}
<1>1. CASE Workflow(p) \/ TimeOut(p)
  <2>1. CASE PurchaseItem(p)
    BY <1>t, <2>1 DEF PurchaseItem, TypeService, TypeWorkflow, TypeAttempt, TypePc, AttemptsBegun
  <2>2. CASE PurchaseItemPanics(p) \/ RetryTask(p)
    BY <1>t, <2>2 DEF PurchaseItemPanics, RetryTask, TypeService, TypeWorkflow, TypeAttempt,
       TypePc, AttemptsBegun
  <2>3. CASE TimeOut(p) /\ attempt[p] = MaxAttempts
    <3>1. /\ workflow' = [workflow EXCEPT ![p] = "gaveUp"] /\ attempt' = attempt /\ pc' = pc
          /\ setting' = setting /\ network' = network
      BY <2>3 DEF TimeOut
    <3>2. Same
      BY <3>1, <1>t DEF TypeService, TypeWorkflow
    <3>3. TypeService'
      BY <1>t, <2>3, <3>1 DEF TypeService, TypeWorkflow, TypeAttempt, TypePc, AttemptsBegun, Ends
    <3> QED BY <3>1, <3>2, <3>3
  <2>4. CASE TimeOut(p) /\ attempt[p] # MaxAttempts
    <3>1. /\ workflow[p] = "charging" /\ workflow' = workflow
          /\ attempt' = [attempt EXCEPT ![p] = attempt[p] + 1]
          /\ pc' = [pc EXCEPT ![p][attempt[p] + 1] = "building"]
          /\ setting' = setting /\ network' = network
      BY <2>4 DEF TimeOut
    <3>2. attempt[p] + 1 \in 1..MaxAttempts
      BY <1>t, <2>4 DEF TypeService, TypeAttempt
    <3>3. TypePc' /\ TypeAttempt' /\ TypeWorkflow'
      BY <1>t, <3>1, <3>2 DEF TypeService, TypeWorkflow, TypeAttempt, TypePc, Attempts
    <3>4. AttemptsBegun'
      BY <1>t, <3>1, <3>2 DEF TypeService, TypeAttempt, AttemptsBegun
    <3> QED BY <3>1, <3>3, <3>4 DEF TypeService
  <2> QED BY <1>1, <2>1, <2>2, <2>3, <2>4 DEF Workflow
<1>2. CASE \E a \in Attempts : Attempt(p, a) \/ Crash(p, a)
  <2>1. PICK a \in Attempts : Attempt(p, a) \/ Crash(p, a)
    BY <1>2
  <2>2. CASE SendCharge(p, a)
    BY <1>t, <2>2 DEF SendCharge, Do, TypeService, TypeWorkflow, TypeAttempt, TypePc, AttemptsBegun
  <2>3. CASE Crash(p, a)
    BY <1>t, <2>3 DEF Crash, TypeService, TypeWorkflow, TypeAttempt, TypePc, AttemptsBegun
  <2>4. CASE BuildFails(p, a)
    <3>1. Report(p, a, "unbuildable") /\ UNCHANGED <<setting, network>>
      BY <2>4 DEF BuildFails
    <3>2. "unbuildable" \in Outcomes
      BY DEF Outcomes, Ends
    <3> QED BY <1>t, <3>1, <3>2, ReportEnds
  <2>5. ASSUME NEW f \in TransportFailures, TransportFails(p, a, f)
        PROVE  TypeService' /\ Same /\ setting' = setting /\ network' \subseteq network
    <3>1. PICK outcome \in {"unresolvable", "retry"} : Report(p, a, outcome)
      BY <2>5 DEF TransportFails
    <3>2. outcome \in Outcomes
      BY DEF Outcomes, Ends
    <3>3. setting' = setting /\ network' \subseteq network
      BY <2>5 DEF TransportFails
    <3> QED BY <1>t, <3>1, <3>2, <3>3, ReportEnds
  <2>6. ASSUME NEW b \in {"charge", "truncated", "mismatch"}, HandleResponse(p, a, b)
        PROVE  /\ TypeService' /\ setting' = setting /\ network' = network
               /\ \E answer \in answers :
                    /\ answer.purchase = p
                    /\ \A q \in Purchases :
                         \/ workflow'[q] = workflow[q] \/ workflow'[q] = "gaveUp"
                         \/ q = p /\ workflow'[q] = ResponseOutcome(answer.status, a, b)
    <3>1. PICK answer \in answers :
            answer.purchase = p /\ Report(p, a, ResponseOutcome(answer.status, a, b))
      BY <2>6 DEF HandleResponse
    <3>2. answer.status \in Statuses
      BY <1>t DEF TypeAPI
    <3>3. ResponseOutcome(answer.status, a, b) \in Outcomes
      BY <3>2, StatusDecides
    <3>4. setting' = setting /\ network' = network
      BY <2>6 DEF HandleResponse
    <3> QED BY <1>t, <3>1, <3>3, <3>4, ReportEnds
  <2>7. CASE \E b \in {"charge", "truncated", "mismatch"} : HandleResponse(p, a, b)
    <3>1. PICK b \in {"charge", "truncated", "mismatch"} : HandleResponse(p, a, b)
      BY <2>7
    <3>2. PICK answer \in answers :
            /\ answer.purchase = p
            /\ \A q \in Purchases :
                 \/ workflow'[q] = workflow[q] \/ workflow'[q] = "gaveUp"
                 \/ q = p /\ workflow'[q] = ResponseOutcome(answer.status, a, b)
      BY <2>6, <3>1
    <3>3. answer.status \in Statuses
      BY <1>t DEF TypeAPI
    <3> QED BY <2>6, <3>1, <3>2, <3>3, StatusDecides
  <2>8. CASE \E f \in TransportFailures : TransportFails(p, a, f)
    BY <2>5, <2>8
  <2> QED BY <2>1, <2>2, <2>3, <2>4, <2>7, <2>8, Zenon DEF Attempt
<1> QED BY <1>1, <1>2

\* What the API's steps do not do to the purchases.
LEMMA APISteps ==
  ASSUME TypeOK, API
  PROVE  UNCHANGED <<setting, workflow, attempt, pc>>
  BY DEF API, Repeat, Conflict, Receive, Finish

LEMMA APIStepsTyped ==
  ASSUME TypeOK, API
  PROVE  /\ TypeAPI' /\ network' \subseteq network
         /\ \A answer \in answers' : answer.status = 409 => answer \in answers \/ setting.conflictsInFlight
<1>1. TypeAPI
  BY TypeParts
<1>2. \A r \in network \cup working : r.purchase \in Purchases /\ r.attempt \in Attempts /\ r.key \in Tokens
  BY <1>1 DEF TypeAPI, Requests
<1>3. CASE \E r \in network : Repeat(r)
  <2>1. PICK r \in network, res \in results :
          /\ answers' = answers \cup
               {[purchase |-> r.purchase, attempt |-> r.attempt, status |-> res.status]}
          /\ network' = network \ {r} /\ UNCHANGED <<working, results, charged>>
    BY <1>3 DEF Repeat, Repeats, Answer
  <2>2. res.status \in {200, 402}
    BY <1>1 DEF TypeAPI
  <2> QED BY <1>1, <1>2, <2>1, <2>2 DEF TypeAPI, Statuses
<1>4. CASE \E r \in network : Conflict(r)
  BY <1>1, <1>2, <1>4 DEF Conflict, Answer, TypeAPI, Statuses
<1>5. CASE \E r \in network : Receive(r)
  BY <1>1, <1>5 DEF Receive, TypeAPI
<1>6. CASE \E r \in working, status \in {200, 402, TooManyRequests} : Finish(r, status)
  <2>1. PICK r \in working, status \in {200, 402, TooManyRequests} : Finish(r, status)
    BY <1>6
  <2>2. /\ answers' = answers \cup
             {[purchase |-> r.purchase, attempt |-> r.attempt, status |-> status]}
        /\ network' = network /\ working' = working \ {r}
    BY <2>1 DEF Finish, Answer
  <2>3. charged' \subseteq charged \cup {r}
    BY <2>1 DEF Finish
  <2>4. results' \subseteq [key : Tokens, status : {200, 402}]
    <3>1. CASE status = TooManyRequests
      BY <1>1, <2>1, <3>1 DEF Finish, TypeAPI
    <3>2. CASE status # TooManyRequests
      <4>1. results' = results \cup {[key |-> r.key, status |-> status]} /\ status \in {200, 402}
        BY <2>1, <3>2 DEF Finish
      <4>2. r.key \in Tokens
        BY <1>2
      <4> QED BY <1>1, <4>1, <4>2 DEF TypeAPI
    <3> QED BY <3>1, <3>2
  <2>5. /\ r \in Requests /\ working' \subseteq Requests /\ charged' \subseteq Requests
        /\ network' \subseteq Requests
    BY <1>1, <2>1, <2>2, <2>3 DEF TypeAPI
  <2>6. answers' \subseteq [purchase : Purchases, attempt : Attempts, status : Statuses]
    BY <1>1, <1>2, <2>2 DEF TypeAPI, Statuses
  <2>7. status # 409
    BY DEF TooManyRequests
  <2>8. TypeAPI'
    BY <2>4, <2>5, <2>6, Zenon DEF TypeAPI
  <2>9. \A answer \in answers' : answer.status = 409 => answer \in answers
    BY <2>2, <2>7
  <2>10. network' \subseteq network
    BY <2>2
  <2> QED BY <2>8, <2>9, <2>10, Zenon
<1> QED BY <1>3, <1>4, <1>5, <1>6, ZenonT(60) DEF API

LEMMA InitTyped == Init => TypeOK
<1> SUFFICES ASSUME Init PROVE TypeOK
  OBVIOUS
<1>1. MaxAttempts \in Nat
  BY ConstantsAssumption
<1>2. TypeService
  BY <1>1 DEF Init, TypeService, TypeWorkflow, TypeAttempt, TypePc, AttemptsBegun
<1>3. TypeAPI /\ setting \in Settings
  BY DEF Init, TypeAPI
<1> QED BY <1>2, <1>3, TypeParts

LEMMA TypeStep == TypeOK /\ [Next]_vars => TypeOK'
<1> SUFFICES ASSUME TypeOK, [Next]_vars PROVE TypeOK'
  OBVIOUS
<1>1. TypeService /\ TypeAPI /\ setting \in Settings
  BY TypeParts
<1>p. TypeService' /\ TypeAPI' /\ setting' \in Settings => TypeOK'
  BY ZenonT(60) DEF TypeOK, TypeService, TypeWorkflow, TypeAttempt, TypePc, AttemptsBegun, TypeAPI,
     Statuses
<1>2. CASE \E p \in Purchases : Workflow(p) \/ TimeOut(p) \/ \E a \in Attempts : Attempt(p, a) \/ Crash(p, a)
  <2>1. PICK p \in Purchases :
          Workflow(p) \/ TimeOut(p) \/ \E a \in Attempts : Attempt(p, a) \/ Crash(p, a)
    BY <1>2
  <2>2. UNCHANGED <<working, results, charged>> /\ answers' \subseteq answers
    BY <2>1, PurchaseSteps
  <2>3. /\ TypeService' /\ setting' = setting
        /\ network' \subseteq network
             \cup {[purchase |-> p, attempt |-> a, key |-> getIdempotencyToken(p)] : a \in Attempts}
    BY <2>1, PurchaseStepEnds
  <2>4. {[purchase |-> p, attempt |-> a, key |-> getIdempotencyToken(p)] : a \in Attempts} \subseteq Requests
    BY DEF Requests, Tokens
  <2>5. TypeAPI'
    BY <1>1, <2>2, <2>3, <2>4 DEF TypeAPI
  <2> QED BY <1>1, <1>p, <2>3, <2>5
<1>3. CASE API
  <2>1. TypeAPI' /\ UNCHANGED <<setting, workflow, attempt, pc>>
    BY <1>3, APISteps, APIStepsTyped
  <2>2. TypeService'
    BY <1>1, <2>1 DEF TypeService, TypeWorkflow, TypeAttempt, TypePc, AttemptsBegun
  <2> QED BY <1>1, <1>p, <2>1, <2>2
<1>4. CASE UNCHANGED vars
  BY <1>1, <1>p, <1>4 DEF vars, TypeService, TypeWorkflow, TypeAttempt, TypePc, AttemptsBegun, TypeAPI
<1> QED BY <1>2, <1>3, <1>4, ZenonT(60) DEF Next

\* Every reachable state is well typed, for all purchases and any number of
\* attempts (payments/activity.go, payments/workflow.go).
THEOREM TypeCorrect == Spec => []TypeOK
  BY InitTyped, TypeStep, PTL DEF Spec

-----------------------------------------------------------------------------
(* The invariant is inductive.                                             *)

LEMMA InitInv == Init => Inv
<1> SUFFICES ASSUME Init PROVE Inv
  OBVIOUS
<1>1. TypeOK
  BY InitTyped
<1>2. Keyed /\ Ledger /\ AnswersRecorded /\ ConflictsAnswered
  BY DEF Init, Keyed, Ledger, OneWorking, Undecided, OneResult, ChargeRecorded, RecordCharged,
     OneChargePerKey, AnswersRecorded, ConflictsAnswered
<1>3. EndsRecorded
  BY DEF Init, EndsRecorded
<1> QED BY <1>1, <1>2, <1>3 DEF Inv

\* Where a request comes from.
LEMMA KeyedStep ==
  ASSUME Inv, Next
  PROVE  Keyed'
<1>1. TypeOK /\ Keyed
  BY DEF Inv
<1>2. CASE \E p \in Purchases : Workflow(p) \/ TimeOut(p) \/ \E a \in Attempts : Attempt(p, a) \/ Crash(p, a)
  <2>1. PICK p \in Purchases :
          Workflow(p) \/ TimeOut(p) \/ \E a \in Attempts : Attempt(p, a) \/ Crash(p, a)
    BY <1>2
  <2>2. working' = working /\ charged' = charged
    BY <1>1, <2>1, PurchaseSteps
  <2>3. network' \subseteq network
          \cup {[purchase |-> p, attempt |-> a, key |-> getIdempotencyToken(p)] : a \in Attempts}
    BY <1>1, <2>1, PurchaseStepEnds
  <2> QED BY <1>1, <2>2, <2>3 DEF Keyed, Token
<1>3. CASE API
  <2>1. /\ network' \subseteq network
        /\ working' \subseteq working \cup network
        /\ charged' \subseteq charged \cup working
    BY <1>3 DEF API, Repeat, Conflict, Receive, Finish
  <2> QED BY <1>1, <2>1 DEF Keyed
<1> QED BY <1>2, <1>3, ZenonT(60) DEF Next

\* The API's ledger, whatever the purchases do.
LEMMA LedgerStep ==
  ASSUME TypeOK, Ledger, Next
  PROVE  Ledger' /\ results \subseteq results'
<1> USE DEF OneWorking, Undecided, OneResult, ChargeRecorded, RecordCharged, OneChargePerKey
<1>1. CASE UNCHANGED <<working, results, charged>>
  BY <1>1 DEF Ledger
<1>2. CASE \E r \in network : Receive(r)
  <2>1. PICK r \in network : Receive(r)
    BY <1>2
  <2>2. /\ working' = working \cup {r} /\ results' = results /\ charged' = charged
        /\ \A w \in working : w.key # r.key
        /\ \A res \in results : res.key # r.key
    BY <2>1 DEF Receive, Repeats, InFlight
  <2> QED BY <2>2 DEF Ledger
<1>3. CASE \E r \in working, status \in {200, 402, TooManyRequests} : Finish(r, status)
  <2>1. PICK r \in working, status \in {200, 402, TooManyRequests} : Finish(r, status)
    BY <1>3
  <2> DEFINE new == [key |-> r.key, status |-> status]
  <2>2. new.key = r.key /\ new.status = status
    OBVIOUS
  <2>3. working' = working \ {r}
    BY <2>1 DEF Finish
  <2>4. CASE status = TooManyRequests
    <3>1. results' = results /\ charged' = charged
      BY <2>1, <2>4 DEF Finish, TooManyRequests
    <3> QED BY <2>3, <3>1 DEF Ledger
  <2>5. CASE status = 402
    <3>1. results' = results \cup {new} /\ charged' = charged
      BY <2>1, <2>5 DEF Finish, TooManyRequests
    <3> HIDE DEF new
    <3> QED BY <2>2, <2>3, <2>5, <3>1 DEF Ledger
  <2>6. CASE status = 200
    <3>1. results' = results \cup {new} /\ charged' = charged \cup {r}
      BY <2>1, <2>6 DEF Finish, TooManyRequests
    <3>2. \A q \in charged : q.key # r.key
      <4> SUFFICES ASSUME NEW q \in charged, q.key = r.key PROVE FALSE
        OBVIOUS
      <4>1. PICK res : res = [key |-> q.key, status |-> 200]
        OBVIOUS
      <4>2. res \in results /\ res.key = r.key
        BY <4>1 DEF Ledger
      <4>3. Undecided
        BY Zenon DEF Ledger
      <4> QED BY <2>1, <4>2, <4>3
    <3>3. ChargeRecorded'
      <4>1. \A q \in charged : [key |-> q.key, status |-> 200] \in results'
        BY <3>1, Zenon DEF Ledger
      <4>2. [key |-> r.key, status |-> 200] \in results'
        <5>1. new = [key |-> r.key, status |-> 200]
          BY <2>6
        <5>2. new \in results'
          <6> HIDE DEF new
          <6> QED BY <3>1
        <5> QED BY <5>1, <5>2, Zenon
      <4> SUFFICES ASSUME NEW q \in charged'
                   PROVE  [key |-> q.key, status |-> 200] \in results'
        OBVIOUS
      <4>3. q \in charged \/ q = r
        BY <3>1, Zenon
      <4> QED BY <4>1, <4>2, <4>3, Zenon
    <3> HIDE DEF new
    <3>4. OneWorking' /\ Undecided' /\ OneResult'
      BY <2>2, <2>3, <3>1 DEF Ledger
    <3>5. OneChargePerKey'
      BY <3>1, <3>2 DEF Ledger
    <3>6. RecordCharged'
      BY <2>2, <3>1 DEF Ledger
    <3> QED BY <3>1, <3>3, <3>4, <3>5, <3>6 DEF Ledger
  <2> QED BY <2>1, <2>4, <2>5, <2>6
<1>4. CASE \E r \in network : Repeat(r) \/ Conflict(r)
  <2>1. UNCHANGED <<working, results, charged>>
    BY <1>4 DEF Repeat, Conflict
  <2> QED BY <1>1, <2>1, Zenon
<1>5. CASE \E p \in Purchases : Workflow(p) \/ TimeOut(p) \/ \E a \in Attempts : Attempt(p, a) \/ Crash(p, a)
  <2>1. UNCHANGED <<working, results, charged>>
    BY <1>5, PurchaseSteps, Zenon
  <2> QED BY <1>1, <2>1, Zenon
<1> QED BY <1>2, <1>3, <1>4, <1>5, ZenonT(60) DEF Next, API

LEMMA AnswersStep ==
  ASSUME Inv, Next
  PROVE  AnswersRecorded' /\ ConflictsAnswered'
<1>1. TypeOK /\ Keyed /\ AnswersRecorded /\ ConflictsAnswered /\ results \subseteq results'
  BY LedgerStep DEF Inv
<1>2. CASE \E p \in Purchases : Workflow(p) \/ TimeOut(p) \/ \E a \in Attempts : Attempt(p, a) \/ Crash(p, a)
  <2>1. answers' \subseteq answers /\ setting' = setting
    BY <1>1, <1>2, PurchaseSteps, PurchaseStepEnds
  <2> QED BY <1>1, <2>1 DEF AnswersRecorded, ConflictsAnswered, Recorded, Token
<1>3. CASE API
  <2>1. ConflictsAnswered'
    BY <1>1, <1>3, APISteps, APIStepsTyped DEF ConflictsAnswered
  <2>2. CASE \E r \in network : Repeat(r)
    <3>1. PICK r \in network, res \in results :
            /\ res.key = r.key
            /\ answers' = answers \cup
                 {[purchase |-> r.purchase, attempt |-> r.attempt, status |-> res.status]}
      BY <2>2 DEF Repeat, Repeats, Answer
    <3>2. r.key = Token(r.purchase)
      BY <1>1 DEF Keyed
    <3>3. res = [key |-> res.key, status |-> res.status]
      BY <1>1, TypeParts DEF TypeAPI
    <3>4. Recorded(r.purchase, res.status)
      BY <3>1, <3>2, <3>3 DEF Recorded
    <3> QED BY <1>1, <2>1, <3>1, <3>4 DEF AnswersRecorded, Recorded, Token
  <2>3. CASE \E r \in network : Conflict(r)
    BY <1>1, <2>1, <2>3 DEF Conflict, Answer, AnswersRecorded, Recorded, Token
  <2>4. CASE \E r \in network : Receive(r)
    BY <1>1, <2>1, <2>4 DEF Receive, AnswersRecorded, Recorded, Token
  <2>5. CASE \E r \in working, status \in {200, 402, TooManyRequests} : Finish(r, status)
    <3>1. PICK r \in working, status \in {200, 402, TooManyRequests} : Finish(r, status)
      BY <2>5
    <3>2. answers' = answers \cup
            {[purchase |-> r.purchase, attempt |-> r.attempt, status |-> status]}
      BY <3>1 DEF Finish, Answer
    <3>3. status \in {200, 402} => [key |-> r.key, status |-> status] \in results'
      BY <3>1 DEF Finish, TooManyRequests
    <3>4. r.key = Token(r.purchase)
      BY <1>1 DEF Keyed
    <3> QED BY <1>1, <2>1, <3>2, <3>3, <3>4, SMTT(30) DEF AnswersRecorded, Recorded, Token
  <2> QED BY <1>3, <2>2, <2>3, <2>4, <2>5, ZenonT(60) DEF API
<1> QED BY <1>2, <1>3, ZenonT(60) DEF Next

LEMMA EndsStep ==
  ASSUME Inv, Next
  PROVE  EndsRecorded'
<1>1. /\ TypeOK /\ AnswersRecorded /\ ConflictsAnswered /\ EndsRecorded
      /\ results \subseteq results'
  BY LedgerStep DEF Inv
<1>2. \A p \in Purchases, status \in {200, 402} : Recorded(p, status) => Recorded(p, status)'
  BY <1>1 DEF Recorded, Token
<1>3. CASE \E p \in Purchases : Workflow(p) \/ TimeOut(p) \/ \E a \in Attempts : Attempt(p, a) \/ Crash(p, a)
  <2>1. \A q \in Purchases :
          /\ workflow'[q] = "completed" =>
               \/ workflow[q] = "completed"
               \/ \E answer \in answers : answer.purchase = q /\ answer.status = 200
          /\ workflow'[q] = "rejected" =>
               \/ workflow[q] = "rejected"
               \/ \E answer \in answers : answer.purchase = q /\ answer.status \in {402, 409}
    BY <1>1, <1>3, PurchaseStepEnds
  <2>0. setting' = setting
    BY <1>1, <1>3, PurchaseStepEnds
  <2>2. \A q \in Purchases : workflow'[q] = "completed" => Recorded(q, 200)
    BY <1>1, <2>1 DEF AnswersRecorded, EndsRecorded
  <2>3. \A q \in Purchases : workflow'[q] = "rejected" => Recorded(q, 402) \/ setting.conflictsInFlight
    BY <1>1, <2>1 DEF AnswersRecorded, ConflictsAnswered, EndsRecorded
  <2> QED BY <1>2, <2>0, <2>2, <2>3 DEF EndsRecorded
<1>4. CASE API
  <2>1. workflow' = workflow /\ setting' = setting
    BY <1>1, <1>4, APISteps
  <2> QED BY <1>1, <1>2, <2>1 DEF EndsRecorded
<1> QED BY <1>3, <1>4, ZenonT(60) DEF Next

LEMMA InvStep == Inv /\ [Next]_vars => Inv'
<1> SUFFICES ASSUME Inv, [Next]_vars PROVE Inv'
  OBVIOUS
<1>1. CASE Next
  <2>1. TypeOK' /\ Ledger'
    BY <1>1, TypeStep, LedgerStep DEF Inv
  <2> QED BY <1>1, <2>1, KeyedStep, AnswersStep, EndsStep DEF Inv
<1>2. CASE UNCHANGED vars
  <2>1. TypeOK'
    BY <1>2, TypeStep DEF Inv
  <2>2. Keyed' /\ AnswersRecorded' /\ ConflictsAnswered' /\ EndsRecorded'
    BY <1>2 DEF Inv, vars, Keyed, AnswersRecorded, ConflictsAnswered, EndsRecorded, Recorded, Token
  <2>3. Ledger'
    BY <1>2 DEF Inv, vars, Ledger, OneWorking, Undecided, OneResult, ChargeRecorded, RecordCharged,
       OneChargePerKey
  <2> QED BY <2>1, <2>2, <2>3 DEF Inv
<1> QED BY <1>1, <1>2

-----------------------------------------------------------------------------
(* The theorems.                                                           *)

\* The keys, the ledger, the answers and the ends agree in every reachable state.
THEOREM LedgerAgrees == Spec => []Inv
  BY InitInv, InvStep, PTL DEF Spec

\* No purchase is charged twice, however its attempts and requests overlap
\* (payments/activity.go:53-54, idempotency.go:12-15).
THEOREM NoDoubleCharge == Spec => []ChargedOnce
<1>1. Inv => ChargedOnce
  BY DEF Inv, Keyed, Ledger, OneChargePerKey, ChargedOnce
<1> QED BY <1>1, InitInv, InvStep, PTL DEF Spec

\* A purchase that completes has a charge of its own: no two have one key
\* (idempotency.go:28-30), so the result it was given is its own.
THEOREM CompletedHasCharge == Spec => []CompletedCharged
<1>1. Inv => CompletedCharged
  <2> SUFFICES ASSUME Inv, NEW p \in Purchases, workflow[p] = "completed"
               PROVE  ChargesOf(p) # {}
    BY DEF CompletedCharged
  <2>1. Recorded(p, 200)
    BY DEF Inv, EndsRecorded
  <2>2. PICK r \in charged : r.key = Token(p)
    BY <2>1 DEF Recorded, Inv, Ledger, RecordCharged
  <2>3. r.purchase \in Purchases /\ r.key = Token(r.purchase)
    BY TypeParts DEF Inv, TypeAPI, Requests, Keyed
  <2>4. r.purchase = p
    BY <2>2, <2>3, TokenInjective
  <2> QED BY <2>4 DEF ChargesOf
<1> QED BY <1>1, InitInv, InvStep, PTL DEF Spec

\* With an API that coalesces the requests of a key in flight, a purchase that
\* fails for a status is not charged (http.go:158-159, 187-193).
THEOREM RejectedNotCharged == Spec => []RejectedUncharged
<1>1. Inv => RejectedUncharged
  <2> SUFFICES ASSUME Inv, ~setting.conflictsInFlight, NEW p \in Purchases,
                      workflow[p] = "rejected", NEW r \in charged, r.purchase = p
               PROVE  FALSE
    BY DEF RejectedUncharged, ChargesOf
  <2>1. [key |-> Token(p), status |-> 402] \in results
    <3>1. EndsRecorded
      BY DEF Inv
    <3>2. Recorded(p, 402) \/ setting.conflictsInFlight
      BY <3>1 DEF EndsRecorded
    <3> QED BY <3>2, Zenon DEF Recorded
  <2>2. [key |-> Token(p), status |-> 200] \in results
    BY DEF Inv, Ledger, ChargeRecorded, Keyed
  <2> QED BY <2>1, <2>2 DEF Inv, Ledger, OneResult
<1> QED BY <1>1, InitInv, InvStep, PTL DEF Spec

-----------------------------------------------------------------------------
(* The error mapper.                                                       *)

LEMMA MinIsLeast ==
  ASSUME NEW S \in SUBSET Nat, S # {}
  PROVE  Min(S) \in S /\ \A i \in S : Min(S) <= i
<1>1. \E x \in S : \A y \in S : x <= y
  BY LeastNatural
<1> QED
  BY <1>1 DEF Min

LEMMA DomainsAreNatural == ASSUME NEW S, NEW s \in Seq(S) PROVE DOMAIN s \subseteq Nat
OBVIOUS

\* The error found is one of the kinds looked for.
LEMMA CheckErrorFinds ==
  ASSUME NEW e \in Seq(Node), NEW kinds
  PROVE  /\ Is(e, kinds) <=> \E i \in DOMAIN e : e[i] \in kinds
         /\ Is(e, kinds) => checkError(e, kinds) \in DOMAIN e /\ e[checkError(e, kinds)] \in kinds
<1> DEFINE found == {i \in DOMAIN e : e[i] \in kinds}
<1>1. DOMAIN e \subseteq Nat \ {0} /\ found \in SUBSET Nat
  OBVIOUS
<1>2. CASE found = {}
  BY <1>2 DEF Is, checkError
<1>3. CASE found # {}
  <2>1. Min(found) \in found
    BY <1>1, <1>3, MinIsLeast
  <2>2. checkError(e, kinds) = Min(found)
    BY <1>3 DEF checkError
  <2> QED
    BY <1>1, <1>3, <2>1, <2>2 DEF Is
<1> QED
  BY <1>2, <1>3

\* An ApplicationError is found to be what its cause is, too.
LEMMA MappedKeepsCause ==
  ASSUME NEW b \in BOOLEAN, NEW cause \in Seq(Node), NEW kinds, Is(cause, kinds)
  PROVE  /\ Mapped(b, cause) \in Seq(Node)
         /\ Is(Mapped(b, cause), kinds)
<1> DEFINE m == Mapped(b, cause)
           head == IF b THEN "NonRetryableError" ELSE "RetryableError"
<1>1. head \in Node /\ m = <<head>> \o cause
  BY DEF Mapped, Node, Native
<1> HIDE DEF head, m
<1>2. m \in Seq(Node) /\ Len(m) = Len(cause) + 1
      /\ \A i \in 1..Len(cause) : m[i + 1] = cause[i]
  <2>1. <<head>> \in Seq(Node) /\ Len(<<head>>) = 1
    BY <1>1
  <2>2. /\ m \in Seq(Node) /\ Len(m) = 1 + Len(cause)
        /\ \A i \in 1..(1 + Len(cause)) : m[i] = IF i <= 1 THEN <<head>>[i] ELSE cause[i - 1]
    BY <1>1, <2>1, ConcatProperties
  <2> QED
    BY <2>2
<1>3. PICK i \in DOMAIN cause : cause[i] \in kinds
  BY CheckErrorFinds
<1>4. i + 1 \in DOMAIN m /\ m[i + 1] \in kinds
  BY <1>2, <1>3
<1> QED
  BY <1>2, <1>4, CheckErrorFinds DEF m

LEMMA MappedHead ==
  ASSUME NEW b \in BOOLEAN, NEW cause \in Seq(Node)
  PROVE  /\ Mapped(b, cause)[1] = IF b THEN "NonRetryableError"
                                  ELSE "RetryableError"
         /\ Mapped(b, cause) # Declined
BY DEF Mapped, Declined

\* What a mapper makes of an error: what it claims, with which cause, and for which of
\* them there is no retry.
Recognised(name) ==
  CASE name = "encoding/json" -> JSONErrors
    [] name = "net" -> DNSErrors
    [] name = "net/url" -> {"url.Error"}
    [] name = "grpc" -> GRPCPermanent \cup GRPCTransient

Permanent == JSONErrors \cup {"nxdomain"} \cup GRPCPermanent

LEMMA MapErrorResult ==
  ASSUME NEW e \in Errors, NEW name \in MapperNames
  PROVE  /\ MapError(name, e) # Declined <=> Is(e, Recognised(name))
         /\ MapError(name, e) # Declined =>
              \E i \in DOMAIN e, b \in BOOLEAN, cause \in Seq(Node) :
                /\ e[i] \in Recognised(name)
                /\ b <=> e[i] \in Permanent
                /\ cause = e \/ (name = "encoding/json" /\ cause = SubSeq(e, i, Len(e)))
                /\ MapError(name, e) = Mapped(b, cause)
<1>1. e \in Seq(Node)
  BY MapperAssumption
<1>2. CASE name = "encoding/json"
  <2>1. MapError(name, e) = MapJSON(e) /\ Recognised(name) = JSONErrors
    BY <1>2 DEF MapError, Recognised
  <2>2. CASE Is(e, JSONErrors)
    <3> DEFINE i == checkError(e, JSONErrors)
               cause == SubSeq(e, i, Len(e))
    <3>1. i \in DOMAIN e /\ e[i] \in JSONErrors
      BY <1>1, <2>2, CheckErrorFinds
    <3>2. cause \in Seq(Node)
      BY <1>1, <3>1, SubSeqProperties
    <3>3. MapError(name, e) = Mapped(TRUE, cause)
      BY <2>1, <2>2 DEF MapJSON
    <3>4. e[i] \in Permanent
      BY <3>1 DEF Permanent
    <3> HIDE DEF i
    <3>5. MapError(name, e) # Declined
      BY <3>2, <3>3, MappedHead
    <3> QED
      BY <1>2, <2>1, <2>2, <3>1, <3>2, <3>3, <3>4, <3>5
  <2>3. CASE ~Is(e, JSONErrors)
    BY <2>1, <2>3 DEF MapJSON
  <2> QED
    BY <2>2, <2>3
<1>3. CASE name = "net"
  <2>1. MapError(name, e) = MapNet(e) /\ Recognised(name) = DNSErrors
    BY <1>3 DEF MapError, Recognised
  <2>2. CASE Is(e, DNSErrors)
    <3> DEFINE i == checkError(e, DNSErrors)
    <3>1. i \in DOMAIN e /\ e[i] \in DNSErrors
      BY <1>1, <2>2, CheckErrorFinds
    <3> DEFINE b == e[i] = "nxdomain"
    <3>2. MapError(name, e) = Mapped(b, e)
      BY <2>1, <2>2 DEF MapNet
    <3>3. b \in BOOLEAN /\ (b <=> e[i] \in Permanent)
      BY <3>1 DEF Permanent, DNSErrors, JSONErrors, GRPCPermanent
    <3> HIDE DEF i, b
    <3>4. MapError(name, e) # Declined
      BY <1>1, <3>2, <3>3, MappedHead
    <3> QED
      BY <1>1, <2>1, <2>2, <3>1, <3>2, <3>3, <3>4
  <2>3. CASE ~Is(e, DNSErrors)
    BY <2>1, <2>3 DEF MapNet
  <2> QED
    BY <2>2, <2>3
<1>4. CASE name = "net/url"
  <2>1. MapError(name, e) = MapURL(e) /\ Recognised(name) = {"url.Error"}
    BY <1>4 DEF MapError, Recognised
  <2>2. CASE Is(e, {"url.Error"})
    <3>1. PICK i \in DOMAIN e : e[i] \in {"url.Error"}
      BY <1>1, <2>2, CheckErrorFinds
    <3>2. MapError(name, e) = Mapped(FALSE, e)
      BY <2>1, <2>2 DEF MapURL
    <3>3. e[i] \notin Permanent
      BY <3>1 DEF Permanent, JSONErrors, GRPCPermanent
    <3>4. MapError(name, e) # Declined
      BY <1>1, <3>2, MappedHead
    <3> QED
      BY <1>1, <2>1, <2>2, <3>1, <3>2, <3>3, <3>4
  <2>3. CASE ~Is(e, {"url.Error"})
    BY <2>1, <2>3 DEF MapURL
  <2> QED
    BY <2>2, <2>3
<1>5. CASE name = "grpc"
  <2> DEFINE kinds == GRPCPermanent \cup GRPCTransient
             all == GRPCPermanent \cup GRPCTransient \cup {"grpc.OK"}
             i == checkError(e, all)
  <2>1. MapError(name, e) = MapGRPC(e) /\ Recognised(name) = kinds
    BY <1>5 DEF MapError, Recognised
  <2>2. ASSUME NEW j \in DOMAIN e, NEW k \in DOMAIN e, e[j] \in all, e[k] \in all
        PROVE  e[j] = e[k]
    <3>1. all \subseteq Deciding
      BY DEF Deciding
    <3> HIDE DEF all
    <3>2. {e[j], e[k]} \subseteq Deciding
      BY <2>2, <3>1
    <3> QED
      BY <3>2, WrappingAssumption
  <2>3. CASE Is(e, kinds)
    <3>1. PICK j \in DOMAIN e : e[j] \in kinds
      BY <1>1, <2>3, CheckErrorFinds
    <3>2. Is(e, all)
      BY <1>1, <3>1, CheckErrorFinds
    <3>3. i \in DOMAIN e /\ e[i] \in all
      BY <1>1, <3>2, CheckErrorFinds
    <3>4. e[i] = e[j]
      <4>1. e[j] \in all
        BY <3>1
      <4> QED
        BY <2>2, <3>1, <3>3, <4>1
    <3>5. ~Is(e, {"grpc.OK"})
      <4> SUFFICES ASSUME Is(e, {"grpc.OK"})
                   PROVE  FALSE
        OBVIOUS
      <4>1. PICK k \in DOMAIN e : e[k] \in {"grpc.OK"}
        BY <1>1, CheckErrorFinds
      <4>2. e[k] \in all /\ e[j] \in all
        BY <3>1, <4>1
      <4>3. e[j] = "grpc.OK"
        BY <2>2, <4>1, <4>2
      <4> QED
        BY <3>1, <4>3 DEF GRPCPermanent, GRPCTransient
    <3>6. i # 0
      BY <3>2 DEF Is
    <3> DEFINE b == e[i] \in GRPCPermanent
    <3>7. MapError(name, e) = Mapped(b, e)
      BY <2>1, <3>5, <3>6 DEF MapGRPC
    <3>8. b \in BOOLEAN /\ (b <=> e[i] \in Permanent)
      <4>1. e[i] \in kinds
        BY <3>1, <3>4
      <4>2. \A x \in kinds : x \in GRPCPermanent <=> x \in Permanent
        BY DEF Permanent, JSONErrors, GRPCPermanent, GRPCTransient
      <4> HIDE DEF i, kinds
      <4> QED
        BY <4>1, <4>2
    <3> HIDE DEF i, b
    <3>9. MapError(name, e) # Declined
      BY <1>1, <3>7, <3>8, MappedHead
    <3> QED
      BY <1>1, <2>1, <2>3, <3>1, <3>3, <3>4, <3>7, <3>8, <3>9
  <2>4. CASE ~Is(e, kinds)
    <3>1. CASE Is(e, all)
      <4>1. PICK j \in DOMAIN e : e[j] \in all
        BY <1>1, <3>1, CheckErrorFinds
      <4>2. e[j] \notin kinds
        BY <1>1, <2>4, CheckErrorFinds
      <4>3. Is(e, {"grpc.OK"})
        BY <1>1, <4>1, <4>2, CheckErrorFinds
      <4> QED
        BY <2>1, <2>4, <4>3 DEF MapGRPC
    <3>2. CASE ~Is(e, all)
      <4>1. i = 0
        BY <3>2 DEF Is
      <4> QED
        BY <2>1, <2>4, <4>1 DEF MapGRPC
    <3> QED
      BY <3>1, <3>2
  <2> QED
    BY <2>3, <2>4
<1> QED
  BY <1>2, <1>3, <1>4, <1>5 DEF MapperNames

\* The errors returned: what no mapper claims as it is, the rest as the first mapper
\* that claims it makes of it.
Claimed(chain, e, k, r) ==
  /\ \A j \in DOMAIN chain : j < k => ~Is(e, Recognised(chain[j]))
  /\ \E i \in DOMAIN e, b \in BOOLEAN, cause \in Seq(Node) :
       /\ e[i] \in Recognised(chain[k])
       /\ b <=> e[i] \in Permanent
       /\ cause = e \/ (chain[k] = "encoding/json" /\ cause = SubSeq(e, i, Len(e)))
       /\ r = Mapped(b, cause)

LEMMA RewrittenCases ==
  ASSUME NEW chain \in Seq(MapperNames), NEW e \in Errors
  PROVE  \/ /\ Rewritten(chain, e) = e
            /\ isNativeTemporalError(e) \/ \A i \in DOMAIN chain : ~Is(e, Recognised(chain[i]))
         \/ \E k \in DOMAIN chain : Claimed(chain, e, k, Rewritten(chain, e))
<1> DEFINE claims == {i \in DOMAIN chain : MapError(chain[i], e) # Declined}
<1>1. \A i \in DOMAIN chain : chain[i] \in MapperNames
  OBVIOUS
<1>2. \A i \in DOMAIN chain : i \in claims <=> Is(e, Recognised(chain[i]))
  BY <1>1, MapErrorResult
<1>3. CASE isNativeTemporalError(e) \/ claims = {}
  BY <1>2, <1>3 DEF Rewritten
<1>4. CASE ~isNativeTemporalError(e) /\ claims # {}
  <2> DEFINE k == Min(claims)
  <2>1. claims \in SUBSET Nat
    OBVIOUS
  <2>2. k \in claims /\ \A i \in claims : k <= i
    BY <1>4, <2>1, MinIsLeast
  <2>3. Rewritten(chain, e) = MapError(chain[k], e)
    BY <1>4 DEF Rewritten
  <2>4. k \in DOMAIN chain /\ MapError(chain[k], e) # Declined
    BY <2>2
  <2>5. \A j \in DOMAIN chain : j < k => ~Is(e, Recognised(chain[j]))
    <3> SUFFICES ASSUME NEW j \in DOMAIN chain, j < k, Is(e, Recognised(chain[j]))
                 PROVE  FALSE
      OBVIOUS
    <3>1. j \in claims
      BY <1>2
    <3>2. k <= j /\ k \in Nat /\ j \in Nat
      BY <2>1, <2>2, <3>1
    <3> HIDE DEF k
    <3> QED
      BY <3>2
  <2> HIDE DEF k
  <2>6. chain[k] \in MapperNames
    BY <1>1, <2>4
  <2>7. PICK i \in DOMAIN e, b \in BOOLEAN, cause \in Seq(Node) :
          /\ e[i] \in Recognised(chain[k])
          /\ b <=> e[i] \in Permanent
          /\ cause = e \/ (chain[k] = "encoding/json" /\ cause = SubSeq(e, i, Len(e)))
          /\ MapError(chain[k], e) = Mapped(b, cause)
    BY <2>4, <2>6, MapErrorResult
  <2>8. Claimed(chain, e, k, Rewritten(chain, e))
    BY <2>3, <2>5, <2>7 DEF Claimed
  <2> QED
    BY <2>4, <2>8
<1> QED
  BY <1>3, <1>4

LEMMA MapperInvInit == MapperInit => MapperInv
BY DEF MapperInit, MapperInv

LEMMA MapperInvStep == MapperInv /\ [MapperNext]_mapperVars => MapperInv'
<1> SUFFICES ASSUME MapperInv, [MapperNext]_mapperVars
             PROVE  MapperInv'
  OBVIOUS
<1>1. CASE RequestCancel
  BY <1>1 DEF MapperInv, RequestCancel
<1>2. ASSUME NEW e \in Errors, ExecuteActivity(e)
      PROVE  MapperInv'
  BY <1>2 DEF MapperInv, ExecuteActivity
<1>3. CASE Succeed
  BY <1>3 DEF MapperInv, Succeed
<1>4. CASE ReportError
  <2> DEFINE C == {"context.Canceled", "CanceledError"}
             stopped == canceled /\ Is(err, C)
  <2>1. /\ state = "returned"
        /\ UNCHANGED <<mappers, tries, canceled, raw, err>>
        /\ mappers \in Chains /\ canceled \in BOOLEAN
        /\ raw \in Errors /\ err = Rewritten(mappers, raw)
    BY <1>4 DEF ReportError, MapperInv
  <2>2. C = {"CanceledError", "context.Canceled"}
    OBVIOUS
  <2>3. state' = IF stopped THEN "canceled"
                 ELSE IF err[1] = "NonRetryableError" THEN "failed"
                 ELSE IF tries = MaxTries THEN "failed" ELSE "retrying"
    BY <1>4 DEF ReportError
  <2>4. state' \in {"failed", "retrying"} => ~stopped
    BY <2>3
  <2>5. state' \in {"retrying", "failed"} /\ canceled' =>
          ~Is(err', {"CanceledError", "context.Canceled"})
    BY <2>1, <2>2, <2>4
  <2>6. state' = "retrying" => err'[1] # "NonRetryableError"
    BY <2>1, <2>3
  <2>7. state' = "failed" /\ tries' < MaxTries => err'[1] = "NonRetryableError"
    <3> SUFFICES ASSUME state' = "failed", tries' < MaxTries,
                        err[1] # "NonRetryableError"
                 PROVE  FALSE
      BY <2>1
    <3>1. tries < MaxTries
      BY <2>1
    <3>2. tries = MaxTries
      BY <2>3
    <3>3. MaxTries \in Nat
      BY MapperAssumption
    <3> QED
      BY <3>1, <3>2, <3>3
  <2>8. state' \in {"running", "returned", "retrying", "failed", "canceled", "completed"}
    BY <2>3
  <2>9. raw' \in Errors /\ err' = Rewritten(mappers', raw')
    BY <2>1
  <2> HIDE DEF C
  <2> QED
    BY <2>1, <2>5, <2>6, <2>7, <2>8, <2>9 DEF MapperInv
<1>5. CASE RetryMapped
  BY <1>5 DEF MapperInv, RetryMapped
<1>6. CASE UNCHANGED mapperVars
  BY <1>6 DEF MapperInv, mapperVars
<1> QED
  BY <1>1, <1>2, <1>3, <1>4, <1>5, <1>6 DEF MapperNext

\* The error reported is the one the mappers made of the code's, and decides what
\* becomes of the activity.
THEOREM ErrorDecides == MapperSpec => []MapperInv
BY MapperInvInit, MapperInvStep, PTL DEF MapperSpec

\* What is found to be a cancellation still is one when it has been rewritten.
LEMMA CancellationKept ==
  ASSUME NEW chain \in Chains, NEW e \in Errors,
         Is(e, {"CanceledError", "context.Canceled"})
  PROVE  Is(Rewritten(chain, e), {"CanceledError", "context.Canceled"})
<1> DEFINE C == {"CanceledError", "context.Canceled"}
<1>1. e \in Seq(Node) /\ chain \in Seq(MapperNames)
  BY MapperAssumption
<1>2. CASE Rewritten(chain, e) = e
  BY <1>2
<1>3. ASSUME NEW k \in DOMAIN chain, Claimed(chain, e, k, Rewritten(chain, e))
      PROVE  Is(Rewritten(chain, e), C)
  <2>1. PICK i \in DOMAIN e, b \in BOOLEAN, cause \in Seq(Node) :
          /\ e[i] \in Recognised(chain[k])
          /\ cause = e \/ (chain[k] = "encoding/json" /\ cause = SubSeq(e, i, Len(e)))
          /\ Rewritten(chain, e) = Mapped(b, cause)
    BY <1>3 DEF Claimed
  <2>2. CASE cause = e
    <3>1. Is(cause, C)
      BY <2>2
    <3> QED
      BY <2>1, <3>1, MappedKeepsCause
  <2>3. CASE chain[k] = "encoding/json"
    <3>1. e[i] \in JSONErrors
      BY <2>1, <2>3 DEF Recognised
    <3>2. PICK c \in DOMAIN e : e[c] \in C
      BY <1>1, CheckErrorFinds
    <3>3. e[i] \in Leaves /\ e[c] \in Leaves
      BY <3>1, <3>2 DEF Leaves
    <3>4. c <= i /\ i <= c
      BY <3>3, WrappingAssumption
    <3> HIDE DEF C
    <3>5. DOMAIN e \subseteq Nat
      BY <1>1, DomainsAreNatural
    <3>6. i \in Nat /\ c \in Nat
      BY <3>5
    <3>7. i = c
      BY <3>4, <3>6
    <3> USE DEF C
    <3> QED
      BY <3>1, <3>2, <3>7 DEF JSONErrors
  <2> QED
    BY <2>1, <2>2, <2>3
<1> QED
  BY <1>1, <1>2, <1>3, RewrittenCases

\* An activity that stops for its cancellation is reported as canceled, whatever mappers
\* there are and in whatever order (interceptor.go:13-15).
THEOREM CancellationAlwaysSurvives == MapperSpec => []CancellationSurvives
<1>1. MapperInv => CancellationSurvives
  <2> SUFFICES ASSUME MapperInv, state \in {"failed", "retrying"}, canceled,
                      Is(raw, {"CanceledError", "context.Canceled"})
               PROVE  FALSE
    BY DEF CancellationSurvives
  <2>1. /\ mappers \in Chains /\ raw \in Errors /\ err = Rewritten(mappers, raw)
        /\ ~Is(err, {"CanceledError", "context.Canceled"})
    BY DEF MapperInv
  <2> QED
    BY <2>1, CancellationKept
<1> QED
  BY <1>1, ErrorDecides, PTL

\* An error that decides is hopeless if and only if a retry cannot mend it.
LEMMA HopelessWitness ==
  ASSUME NEW e \in Errors, mappers \in Seq(MapperNames)
  PROVE  Hopeless(e) <=> \E j \in DOMAIN mappers : \E h \in DOMAIN e :
                           e[h] \in Recognised(mappers[j]) /\ e[h] \in Permanent
<1>1. e \in Seq(Node)
  BY MapperAssumption
<1>2. \A n : Uses({n}) <=> \E j \in DOMAIN mappers : mappers[j] = n
  BY DEF Uses
<1>3. \A kinds : Is(e, kinds) <=> \E h \in DOMAIN e : e[h] \in kinds
  BY <1>1, CheckErrorFinds
<1>4. ASSUME NEW j \in DOMAIN mappers, NEW h \in DOMAIN e
      PROVE  e[h] \in Recognised(mappers[j]) /\ e[h] \in Permanent <=>
               \/ mappers[j] = "net" /\ e[h] \in {"nxdomain"}
               \/ mappers[j] = "encoding/json" /\ e[h] \in JSONErrors
               \/ mappers[j] = "grpc" /\ e[h] \in GRPCPermanent
  <2>1. mappers[j] \in MapperNames
    OBVIOUS
  <2> QED
    BY <2>1 DEF MapperNames, Recognised, Permanent, JSONErrors, DNSErrors, GRPCPermanent, GRPCTransient
<1>5. Hopeless(e) <=>
        \E j \in DOMAIN mappers : \E h \in DOMAIN e :
          \/ mappers[j] = "net" /\ e[h] \in {"nxdomain"}
          \/ mappers[j] = "encoding/json" /\ e[h] \in JSONErrors
          \/ mappers[j] = "grpc" /\ e[h] \in GRPCPermanent
  BY <1>2, <1>3, Zenon DEF Hopeless
<1> QED
  BY <1>4, <1>5, Zenon

\* The order the mappers are to be listed in: net/url claims what wraps the errors of
\* encoding/json and net, and comes after them (interceptor.go:166-168).
MoreSpecificFirst(chain) ==
  \A i, j \in DOMAIN chain :
    chain[i] = "net/url" /\ chain[j] \in {"encoding/json", "net"} => j < i

\* The default mappers are in that order, with gRPC's before or after them.
LEMMA DefaultMappersInOrder ==
  \A chain \in {DefaultMappers, <<"grpc">> \o DefaultMappers, DefaultMappers \o <<"grpc">>} :
    chain \in Seq(MapperNames) /\ MoreSpecificFirst(chain)
<1> DEFINE d == DefaultMappers
           g == <<"grpc">>
<1>1. d \in Seq(MapperNames) /\ g \in Seq(MapperNames)
  BY DEF DefaultMappers, MapperNames
<1>2. /\ Len(d) = 3 /\ d[1] = "encoding/json" /\ d[2] = "net" /\ d[3] = "net/url"
      /\ Len(g) = 1 /\ g[1] = "grpc"
  BY DEF DefaultMappers
<1>3. MoreSpecificFirst(d)
  BY <1>1, <1>2 DEF MoreSpecificFirst
<1> HIDE DEF d, g
<1>4. /\ g \o d \in Seq(MapperNames) /\ Len(g \o d) = 4
      /\ (g \o d)[1] = "grpc" /\ (g \o d)[2] = "encoding/json"
      /\ (g \o d)[3] = "net" /\ (g \o d)[4] = "net/url"
  <2>1. /\ g \o d \in Seq(MapperNames) /\ Len(g \o d) = Len(g) + Len(d)
        /\ \A i \in 1..(Len(g) + Len(d)) :
             (g \o d)[i] = IF i <= Len(g) THEN g[i] ELSE d[i - Len(g)]
    BY <1>1, ConcatProperties
  <2> QED
    BY <1>2, <2>1
<1>5. /\ d \o g \in Seq(MapperNames) /\ Len(d \o g) = 4
      /\ (d \o g)[1] = "encoding/json" /\ (d \o g)[2] = "net"
      /\ (d \o g)[3] = "net/url" /\ (d \o g)[4] = "grpc"
  <2>1. /\ d \o g \in Seq(MapperNames) /\ Len(d \o g) = Len(d) + Len(g)
        /\ \A i \in 1..(Len(d) + Len(g)) :
             (d \o g)[i] = IF i <= Len(d) THEN d[i] ELSE g[i - Len(d)]
    BY <1>1, ConcatProperties
  <2> QED
    BY <1>2, <2>1
<1>6. MoreSpecificFirst(g \o d)
  BY <1>4 DEF MoreSpecificFirst
<1>7. MoreSpecificFirst(d \o g)
  BY <1>5 DEF MoreSpecificFirst
<1> QED
  BY <1>1, <1>3, <1>4, <1>5, <1>6, <1>7 DEF d, g

\* Whatever hopeless errors are wrapped in, they are not retried, and nothing else is
\* failed before its time, with any mappers that list the more specific first.
THEOREM AlwaysRightlyRetried ==
  ASSUME \A chain \in Chains : MoreSpecificFirst(chain)
  PROVE  MapperSpec => []RightlyRetried
<1>1. MapperInv => HopelessNotRetried
  <2> SUFFICES ASSUME MapperInv, state = "retrying", Hopeless(raw), ~isNativeTemporalError(raw)
               PROVE  FALSE
    BY DEF HopelessNotRetried
  <2>1. /\ mappers \in Chains /\ raw \in Errors /\ err = Rewritten(mappers, raw)
        /\ err[1] # "NonRetryableError"
    BY DEF MapperInv
  <2>2. mappers \in Seq(MapperNames) /\ raw \in Seq(Node) /\ MoreSpecificFirst(mappers)
    BY <2>1, MapperAssumption
  <2>3. PICK j \in DOMAIN mappers, h \in DOMAIN raw :
          raw[h] \in Recognised(mappers[j]) /\ raw[h] \in Permanent
    BY <2>1, <2>2, HopelessWitness
  <2>4. Is(raw, Recognised(mappers[j]))
    BY <2>2, <2>3, CheckErrorFinds
  <2>5. PICK k \in DOMAIN mappers : Claimed(mappers, raw, k, err)
    BY <2>1, <2>2, <2>4, RewrittenCases
  <2>6. PICK i \in DOMAIN raw, b \in BOOLEAN, cause \in Seq(Node) :
          /\ raw[i] \in Recognised(mappers[k])
          /\ b <=> raw[i] \in Permanent
          /\ err = Mapped(b, cause)
    BY <2>5 DEF Claimed
  <2>7. ~(j < k)
    BY <2>4, <2>5 DEF Claimed
  <2>8. raw[i] \notin Permanent
    BY <2>1, <2>6, MappedHead
  <2>9. mappers[j] \in MapperNames /\ mappers[k] \in MapperNames
    BY <2>2
  <2>10. CASE mappers[k] = "net/url"
    <3>1. raw[i] = "url.Error"
      BY <2>6, <2>10 DEF Recognised
    <3>2. raw[h] \notin Deciding \ (JSONErrors \cup DNSErrors)
      BY <2>1, <3>1, WrappingAssumption
    <3>3. mappers[j] \in {"encoding/json", "net"}
      BY <2>3, <2>9, <3>2 DEF MapperNames, Recognised, Permanent, Deciding, JSONErrors, DNSErrors,
                              GRPCPermanent, GRPCTransient
    <3> QED
      BY <2>2, <2>7, <2>10, <3>3 DEF MoreSpecificFirst
  <2>11. CASE mappers[k] # "net/url"
    <3>1. raw[i] \in Deciding /\ raw[h] \in Deciding
      BY <2>3, <2>6, <2>9, <2>11 DEF MapperNames, Recognised, Permanent, Deciding
    <3>2. {raw[i], raw[h]} \subseteq Deciding
      BY <3>1
    <3>3. raw[i] = raw[h]
      BY <2>1, <3>2, WrappingAssumption
    <3> QED
      BY <2>3, <2>8, <3>3
  <2> QED
    BY <2>10, <2>11
<1>2. MapperInv => TransientRetried
  <2> SUFFICES ASSUME MapperInv, state = "failed", tries < MaxTries,
                      raw[1] # "NonRetryableError"
               PROVE  Hopeless(raw)
    BY DEF TransientRetried
  <2>1. /\ mappers \in Chains /\ raw \in Errors /\ err = Rewritten(mappers, raw)
        /\ err[1] = "NonRetryableError"
    BY DEF MapperInv
  <2>2. mappers \in Seq(MapperNames) /\ err # raw
    BY <2>1, MapperAssumption
  <2>3. PICK k \in DOMAIN mappers : Claimed(mappers, raw, k, err)
    BY <2>1, <2>2, RewrittenCases
  <2>4. PICK i \in DOMAIN raw, b \in BOOLEAN, cause \in Seq(Node) :
          /\ raw[i] \in Recognised(mappers[k])
          /\ b <=> raw[i] \in Permanent
          /\ err = Mapped(b, cause)
    BY <2>3 DEF Claimed
  <2>5. raw[i] \in Permanent
    BY <2>1, <2>4, MappedHead
  <2> QED
    BY <2>1, <2>2, <2>4, <2>5, HopelessWitness
<1>3. MapperInv => RightlyRetried
  BY <1>1, <1>2 DEF RightlyRetried
<1> QED
  BY <1>3, ErrorDecides, PTL

-----------------------------------------------------------------------------
(* The delays of retry.go and of the service.                              *)

\* Both grow by the same recurrence, until a duration is exceeded.
LEMMA GrownRecurrence ==
  ASSUME NEW initial \in Nat \ {0}, NEW coeff \in Nat \ {0}
  PROVE  /\ Grown(initial, coeff, 0) = initial
         /\ \A k \in Nat : /\ Grown(initial, coeff, k) \in Nat \ {0}
                           /\ Grown(initial, coeff, k + 1) =
                                Times(coeff, Grown(initial, coeff, k))
<1> DEFINE Body(f) == [j \in Nat |-> IF j = 0 THEN initial ELSE Times(coeff, f[j - 1])]
           P == CHOOSE f : f = Body(f)
           S == Nat \ {0}
           g == [p \in Nat \X S |-> Times(coeff, p[2])]
<1>1. \A d \in S : Times(coeff, d) \in S
  BY DEF Times
<1>2. g \in [Nat \X S -> S] /\ \A k \in Nat, x \in S : g[<<k, x>>] = Times(coeff, x)
  BY <1>1
<1> HIDE DEF g
<1>3. PICK f : IsRecursion(f, S, g, initial)
  BY <1>2, RecursiveFunctionExists DEF HasRecursion
<1>4. f = Body(f)
  <2>1. ASSUME NEW k \in Nat
        PROVE  f[k] = IF k = 0 THEN initial ELSE Times(coeff, f[k - 1])
    <3>1. CASE k = 0
      BY <1>3, <3>1 DEF IsRecursion
    <3>2. CASE k # 0
      <4>1. k \in Nat \ {0} /\ k - 1 \in Nat /\ f[k - 1] \in S
        BY <1>3, <3>2 DEF IsRecursion
      <4> QED
        BY <1>2, <1>3, <3>2, <4>1 DEF IsRecursion
    <3> QED
      BY <3>1, <3>2
  <2> QED
    BY <1>3, <2>1 DEF IsRecursion
<1> HIDE DEF Body
<1>5. P = Body(P)
  BY <1>4, Zenon
<1> HIDE DEF P
<1>6. \A k \in Nat : P[k] = IF k = 0 THEN initial ELSE Times(coeff, P[k - 1])
  BY <1>5 DEF Body
<1>7. \A k \in Nat : Grown(initial, coeff, k) = P[k]
  BY DEF Grown, P, Body
<1> DEFINE T == {k \in Nat : P[k] \in S}
<1>8. 0 \in T /\ \A k \in Nat : k \in T => k + 1 \in T
  <2>1. P[0] = initial
    BY <1>6
  <2>2. ASSUME NEW k \in Nat, P[k] \in S
        PROVE  P[k + 1] \in S
    BY <1>1, <1>6, <2>2
  <2> QED
    BY <2>1, <2>2
<1> HIDE DEF T
<1>9. \A k \in Nat : k \in T
  BY <1>8, SetInduction
<1>10. \A k \in Nat : P[k] \in S
  BY <1>9 DEF T
<1> QED
  BY <1>6, <1>7, <1>10

LEMMA GrownType ==
  ASSUME NEW initial \in Nat \ {0}, NEW coeff \in Nat \ {0}, NEW k \in Nat
  PROVE  Grown(initial, coeff, k) \in Nat \ {0}
BY GrownRecurrence, Zenon

\* A larger coefficient grows at least as fast, and faster from the second
\* delay on, until it exceeds a duration.
LEMMA GrowsFaster ==
  ASSUME NEW initial \in Nat \ {0}, NEW c \in Nat \ {0}, NEW d \in Nat \ {0}, c <= d,
         NEW k \in Nat
  PROVE  /\ \/ Grown(initial, d, k) > MaxDuration
            \/ Grown(initial, c, k) <= Grown(initial, d, k)
         /\ c < d /\ k > 0 =>
            \/ Grown(initial, d, k) > MaxDuration
            \/ Grown(initial, c, k) < Grown(initial, d, k)
<1> DEFINE x(j) == Grown(initial, c, j)
           y(j) == Grown(initial, d, j)
<1>1. \A j \in Nat : /\ x(j) \in Nat \ {0} /\ y(j) \in Nat \ {0}
                     /\ x(j + 1) = Times(c, x(j)) /\ y(j + 1) = Times(d, y(j))
  <2>1. \A j \in Nat : x(j) \in Nat \ {0} /\ x(j + 1) = Times(c, x(j))
    BY GrownRecurrence, Zenon
  <2>2. \A j \in Nat : y(j) \in Nat \ {0} /\ y(j + 1) = Times(d, y(j))
    BY GrownRecurrence, Zenon
  <2> QED
    BY <2>1, <2>2
<1>2. x(0) = y(0)
  BY GrownRecurrence
<1> HIDE DEF x, y
<1>3. ASSUME NEW j \in Nat, y(j) > MaxDuration \/ x(j) <= y(j)
      PROVE  /\ y(j + 1) > MaxDuration \/ x(j + 1) <= y(j + 1)
             /\ c < d => y(j + 1) > MaxDuration \/ x(j + 1) < y(j + 1)
  <2>1. /\ x(j) \in Nat \ {0} /\ y(j) \in Nat \ {0} /\ MaxDuration \in Nat
        /\ x(j + 1) = Times(c, x(j)) /\ y(j + 1) = Times(d, y(j))
    BY <1>1, MaxDurationAssumption
  <2>2. CASE y(j) > MaxDuration
    BY <2>1, <2>2 DEF Times
  <2>3. CASE ~(y(j) > MaxDuration)
    <3>1. x(j) <= y(j) /\ ~(x(j) > MaxDuration)
      BY <1>3, <2>1, <2>3
    <3>2. x(j + 1) = x(j) * c /\ y(j + 1) = y(j) * d
      BY <2>1, <2>3, <3>1 DEF Times
    <3>3. x(j) * c <= y(j) * c
      BY <2>1, <3>1
    <3>4. y(j) * c <= y(j) * d /\ (c < d => y(j) * c < y(j) * d)
      BY <2>1
    <3>5. x(j) * c \in Nat /\ y(j) * c \in Nat /\ y(j) * d \in Nat
      BY <2>1
    <3> QED
      BY <3>2, <3>3, <3>4, <3>5
  <2> QED
    BY <2>2, <2>3
<1> DEFINE T == {j \in Nat : y(j) > MaxDuration \/ x(j) <= y(j)}
<1>4. 0 \in T
  BY <1>1, <1>2
<1>5. \A j \in Nat : j \in T => j + 1 \in T
  BY <1>3
<1> HIDE DEF T
<1>6. \A j \in Nat : j \in T
  BY <1>4, <1>5, SetInduction
<1>7. \A j \in Nat : y(j) > MaxDuration \/ x(j) <= y(j)
  BY <1>6 DEF T
<1>8. ASSUME c < d, k > 0
      PROVE  y(k) > MaxDuration \/ x(k) < y(k)
  <2>1. k - 1 \in Nat /\ (k - 1) + 1 = k
    BY <1>8
  <2>2. y((k - 1) + 1) > MaxDuration \/ x((k - 1) + 1) < y((k - 1) + 1)
    BY <1>3, <1>7, <1>8, <2>1
  <2> QED
    BY <2>1, <2>2
<1> QED
  BY <1>7, <1>8 DEF x, y

\* A policy with its defaults.
InitialOf(p)     == IF p.InitialInterval = 0 THEN 1 ELSE p.InitialInterval
CoefficientOf(p) == IF p.BackoffCoefficient = 0 THEN 2 ELSE p.BackoffCoefficient
MaximumOf(p)     == IF p.MaximumInterval = 0 THEN 100 * InitialOf(p) ELSE p.MaximumInterval
FlooredAt(p, m)  == IF m > CoefficientOf(p) THEN m ELSE CoefficientOf(p)

LEMMA PolicyType ==
  ASSUME NEW p \in RetryPolicies
  PROVE  /\ InitialOf(p) \in Nat \ {0} /\ CoefficientOf(p) \in Nat \ {0}
         /\ MaximumOf(p) \in Nat \ {0} /\ p.MaximumInterval \in 0..MaxDuration
         /\ p.BackoffCoefficient \in Nat /\ MaxDuration \in Nat /\ MaxDuration >= 3600
         /\ (IF p.InitialInterval <= 0 THEN 1 ELSE p.InitialInterval) = InitialOf(p)
<1>1. /\ p.InitialInterval \in 0..MaxDuration /\ p.MaximumInterval \in 0..MaxDuration
      /\ p \in RetryPolicy /\ MaxDuration \in Nat /\ MaxDuration >= 3600
  BY TimelineAssumption, MaxDurationAssumption
<1>2. p.BackoffCoefficient \in Nat
  BY <1>1 DEF RetryPolicy
<1> QED
  BY <1>1, <1>2 DEF InitialOf, CoefficientOf, MaximumOf

\* The service's interval.
LEMMA ServiceInterval ==
  ASSUME policy \in RetryPolicies, NEW n \in Nat \ {0}
  PROVE  LET grown == Grown(InitialOf(policy), CoefficientOf(policy), n - 1) IN
         /\ grown \in Nat \ {0}
         /\ Interval(n) = IF grown > MaximumOf(policy) THEN MaximumOf(policy) ELSE grown
         /\ Interval(n) \in Nat \ {0}
<1> DEFINE grown == Grown(InitialOf(policy), CoefficientOf(policy), n - 1)
<1>1. grown \in Nat \ {0} /\ MaximumOf(policy) \in Nat \ {0}
  <2>1. /\ n - 1 \in Nat /\ MaximumOf(policy) \in Nat \ {0}
        /\ InitialOf(policy) \in Nat \ {0} /\ CoefficientOf(policy) \in Nat \ {0}
    BY PolicyType
  <2> QED
    BY <2>1, GrownType, Zenon
<1>2. Interval(n) = IF grown > MaximumOf(policy) THEN MaximumOf(policy) ELSE grown
  BY DEF Interval, InitialOf, CoefficientOf, MaximumOf
<1> HIDE DEF grown
<1> QED
  BY <1>1, <1>2 DEF grown

\* The helper's delay: an overflow is noticed in either form the build gives it.
LEMMA HelperDelay ==
  ASSUME NEW p \in RetryPolicies, NEW n \in Nat \ {0}, NEW m \in Nat,
         NEW o \in Overflown
  PROVE  LET grown == Grown(InitialOf(p), FlooredAt(p, m), n - 1)
             delay == calculateNewRetryDelay(p, n, m, o)
         IN
         /\ grown \in Nat \ {0} /\ delay \in Nat \ {0}
         /\ p.MaximumInterval > 0 =>
              delay = IF grown > p.MaximumInterval THEN p.MaximumInterval ELSE grown
         /\ p.MaximumInterval = 0 =>
              \/ grown <= MaxDuration /\ delay = grown
              \/ grown > MaxDuration /\ delay \in {3600, MaxDuration}
<1> DEFINE grown == Grown(InitialOf(p), FlooredAt(p, m), n - 1)
           top   == p.MaximumInterval
           d     == IF grown > MaxDuration THEN o ELSE grown
           delay == calculateNewRetryDelay(p, n, m, o)
<1>1. /\ FlooredAt(p, m) \in Nat \ {0} /\ n - 1 \in Nat
      /\ MaxDuration \in Nat /\ MaxDuration >= 3600 /\ top \in 0..MaxDuration
  BY PolicyType DEF FlooredAt
<1>2. grown \in Nat \ {0}
  <2>1. InitialOf(p) \in Nat \ {0} /\ FlooredAt(p, m) \in Nat \ {0} /\ n - 1 \in Nat
    BY <1>1, PolicyType
  <2> QED
    BY <2>1, GrownType, Zenon
<1>3. delay = IF d <= 0 THEN (IF top > 0 THEN top ELSE 3600)
              ELSE IF top > 0 /\ d > top THEN top ELSE d
  BY PolicyType DEF calculateNewRetryDelay, FlooredAt, CoefficientOf
<1>4. o = -MaxDuration - 1 \/ o = MaxDuration
  BY DEF Overflown, MinDuration
<1> HIDE DEF grown, delay, top
<1> QED
  BY <1>1, <1>2, <1>3, <1>4 DEF grown, delay, top

LEMMA HelperMirrorsService ==
  ASSUME policy \in RetryPolicies, attemptNumber \in Nat \ {0}, overflown \in Overflown
  PROVE  MirrorsServiceWhenCapped
<1> SUFFICES ASSUME policy.MaximumInterval > 0, AttemptsLeft
             PROVE  GetNextRetryDelay(policy, attemptNumber, 0, overflown)
                      = Interval(attemptNumber)
  BY DEF MirrorsServiceWhenCapped
<1> DEFINE grown == Grown(InitialOf(policy), CoefficientOf(policy), attemptNumber - 1)
           delay == calculateNewRetryDelay(policy, attemptNumber, 0, overflown)
<1>1. GetNextRetryDelay(policy, attemptNumber, 0, overflown) = delay
  <2>1. policy.MaximumAttempts \in Int
    BY TimelineAssumption DEF RetryPolicy
  <2> QED
    BY <2>1 DEF GetNextRetryDelay, AttemptsLeft
<1>2. FlooredAt(policy, 0) = CoefficientOf(policy)
  BY PolicyType DEF FlooredAt
<1>3. delay = IF grown > policy.MaximumInterval THEN policy.MaximumInterval ELSE grown
  BY <1>2, HelperDelay
<1>4. MaximumOf(policy) = policy.MaximumInterval
  BY PolicyType DEF MaximumOf
<1>5. Interval(attemptNumber)
        = IF grown > policy.MaximumInterval THEN policy.MaximumInterval ELSE grown
  BY <1>4, ServiceInterval
<1> QED
  BY <1>1, <1>3, <1>5

\* Where the code has no cap, an hour is what it waits after an overflow: longer
\* than the service's default cap as long as that is shorter.
DefaultCapUnderAnHour ==
  \A p \in RetryPolicies : p.MaximumInterval = 0 => MaximumOf(p) < 3600

\* The delay after a 429 against the service's own.
LEMMA FloorBacksOff ==
  ASSUME DefaultCapUnderAnHour,
         policy \in RetryPolicies, NEW n \in Nat \ {0}, overflown \in Overflown
  PROVE  LET delay == calculateNewRetryDelay(policy, n, 3, overflown) IN
         /\ delay >= Interval(n)
         /\ n > 1 /\ policy.BackoffCoefficient < 3 =>
              delay > Interval(n) \/ delay = policy.MaximumInterval
<1> DEFINE c     == CoefficientOf(policy)
           d     == FlooredAt(policy, 3)
           slow  == Grown(InitialOf(policy), c, n - 1)
           fast  == Grown(InitialOf(policy), d, n - 1)
           delay == calculateNewRetryDelay(policy, n, 3, overflown)
           top   == policy.MaximumInterval
           cap   == MaximumOf(policy)
<1>1. /\ InitialOf(policy) \in Nat \ {0} /\ c \in Nat \ {0} /\ d \in Nat \ {0} /\ c <= d
      /\ (policy.BackoffCoefficient < 3 => c < d)
      /\ n - 1 \in Nat /\ MaxDuration \in Nat /\ MaxDuration >= 3600
      /\ top \in 0..MaxDuration /\ cap \in Nat \ {0}
      /\ (top > 0 => cap = top) /\ (top = 0 => cap < 3600)
  <2>1. top > 0 => cap = top
    BY DEF MaximumOf
  <2>2. top = 0 => cap < 3600
    BY DEF DefaultCapUnderAnHour
  <2>3. policy.BackoffCoefficient < 3 => c < d
    BY PolicyType DEF CoefficientOf, FlooredAt
  <2> HIDE DEF top, cap
  <2>4. c \in Nat \ {0} /\ d \in Nat \ {0} /\ c <= d
    BY PolicyType DEF FlooredAt
  <2> QED
    BY <2>1, <2>2, <2>3, <2>4, PolicyType DEF top, cap
<1>2. /\ Interval(n) = IF slow > cap THEN cap ELSE slow
      /\ slow \in Nat \ {0}
  BY ServiceInterval
<1>3. /\ fast \in Nat \ {0} /\ delay \in Nat \ {0}
      /\ top > 0 => delay = IF fast > top THEN top ELSE fast
      /\ top = 0 => \/ fast <= MaxDuration /\ delay = fast
                    \/ fast > MaxDuration /\ delay \in {3600, MaxDuration}
  BY HelperDelay
<1>4. /\ fast > MaxDuration \/ slow <= fast
      /\ c < d /\ n - 1 > 0 => fast > MaxDuration \/ slow < fast
  <2> HIDE DEF c, d
  <2> QED
    BY <1>1, GrowsFaster
<1> HIDE DEF c, d, slow, fast, delay, top, cap
<1>5. CASE top > 0
  BY <1>1, <1>2, <1>3, <1>4, <1>5 DEF delay, top
<1>6. CASE top = 0
  BY <1>1, <1>2, <1>3, <1>4, <1>6 DEF delay, top
<1> QED
  BY <1>1, <1>5, <1>6

\* PurchaseItem's activity never waits longer than a minute of its own accord.
LEMMA PurchaseWaits ==
  ASSUME policy \in RetryPolicies, policy = PurchasePolicy, NEW n \in Nat \ {0},
         NEW m \in Nat, overflown \in Overflown
  PROVE  /\ Interval(n) <= 60
         /\ GetNextRetryDelay(policy, n, m, overflown) <= 60
<1>1. policy.MaximumInterval = 60 /\ policy.MaximumAttempts = 0
  BY DEF PurchasePolicy
<1>2. MaximumOf(policy) = 60
  BY <1>1 DEF MaximumOf
<1>3. Interval(n) <= 60
  BY <1>2, ServiceInterval
<1>4. calculateNewRetryDelay(policy, n, m, overflown) <= 60
  <2> DEFINE grown == Grown(InitialOf(policy), FlooredAt(policy, m), n - 1)
             delay == calculateNewRetryDelay(policy, n, m, overflown)
  <2>1. /\ grown \in Nat
        /\ policy.MaximumInterval > 0 =>
             delay = IF grown > policy.MaximumInterval THEN policy.MaximumInterval ELSE grown
    BY HelperDelay
  <2> HIDE DEF grown, delay
  <2> QED
    BY <1>1, <2>1 DEF delay
<1>5. GetNextRetryDelay(policy, n, m, overflown)
        = calculateNewRetryDelay(policy, n, m, overflown)
  BY <1>1 DEF GetNextRetryDelay
<1> QED
  BY <1>3, <1>4, <1>5

-----------------------------------------------------------------------------
(* The purchase against the clock.                                         *)

Phases == {"running", "waiting", "completed", "failed", "gaveUp"}

TimelineTypeOK ==
  /\ policy \in RetryPolicies /\ recovers \in Nat /\ overflown \in Overflown
  /\ now \in Nat /\ attemptNumber \in Nat \ {0} /\ phase \in Phases
  /\ wait \in Nat /\ last \in Unavailable \cup {0, 200, 402} /\ askedUntil \in Int

\* The wait chosen takes the clock to where the API asked for.
WaitsAsAsked == phase = "waiting" => now + wait >= askedUntil

ClockInv == TimelineTypeOK /\ HintHonored /\ WaitsAsAsked /\ OutageWeathered

LEMMA HintFacts ==
  ASSUME NEW t \in Nat, NEW header \in Headers(t)
  PROVE  /\ AsksFor(header, t) \in Int
         /\ AsksFor(header, t) > t => ParseRetryAfter(header, t) = AsksFor(header, t) - t
         /\ ~(AsksFor(header, t) > t) => ParseRetryAfter(header, t) = 0
<1>1. CASE header \in {NoHeader, Malformed}
  BY <1>1 DEF AsksFor, ParseRetryAfter, NoHeader, Malformed
<1>2. ASSUME NEW h \in Hints \cap Nat, header = Seconds(h)
      PROVE  IF h <= MaxSeconds
             THEN AsksFor(header, t) = t + h /\ ParseRetryAfter(header, t) = h
             ELSE AsksFor(header, t) = t /\ ParseRetryAfter(header, t) = 0
  BY <1>2 DEF AsksFor, ParseRetryAfter, Seconds
<1>3. ASSUME NEW h \in Hints, header = Date(t + h)
      PROVE  /\ AsksFor(header, t) = t + h
             /\ ParseRetryAfter(header, t) = IF t + h > t THEN (t + h) - t ELSE 0
  BY <1>3 DEF AsksFor, ParseRetryAfter, Date
<1>4. \/ header \in {NoHeader, Malformed}
      \/ \E h \in Hints \cap Nat : header = Seconds(h)
      \/ \E h \in Hints : header = Date(t + h)
  BY DEF Headers
<1>5. Hints \subseteq Int
  BY TimelineAssumption
<1>6. CASE \E h \in Hints \cap Nat : header = Seconds(h)
  BY <1>2, <1>6
<1>7. CASE \E h \in Hints : header = Date(t + h)
  BY <1>3, <1>5, <1>7
<1> QED
  BY <1>1, <1>4, <1>6, <1>7

\* A refusal is retryable, after the hint or, for a 429 without one, the delay
\* with the larger coefficient.
LEMMA RefusalDelay ==
  ASSUME NEW status \in Unavailable, NEW resp, resp.status = status,
         NEW p, NEW n, NEW t, NEW o
  PROVE  LET hint == ParseRetryAfter(resp.retryAfter, t)
         IN  HTTPResponseError(resp, p, n, t, o).NextRetryDelay =
               IF hint = 0 /\ status = TooManyRequests THEN GetNextRetryDelay(p, n, 3, o)
               ELSE hint
<1>1. status \notin 200..399 /\ status \notin NonRetryableStatuses
  BY DEF Unavailable, TooManyRequests, NonRetryableStatuses
<1>2. HTTPResponseError(resp, p, n, t, o) =
        IF ParseRetryAfter(resp.retryAfter, t) = 0 /\ status = TooManyRequests
        THEN ApplicationError(FALSE, GetNextRetryDelay(p, n, 3, o))
        ELSE ApplicationError(FALSE, ParseRetryAfter(resp.retryAfter, t))
  BY <1>1 DEF HTTPResponseError
<1>3. \A delay : ApplicationError(FALSE, delay).NextRetryDelay = delay
  BY DEF ApplicationError
<1> QED
  BY <1>2, <1>3

\* What the service does with a retryable error.
LEMMA RetryOutcome ==
  ASSUME TimelineTypeOK, NEW e, e.NextRetryDelay \in Nat, now' \in Nat, Retry(e)
  PROVE  /\ wait' \in Nat /\ phase' \in {"waiting", "gaveUp"}
         /\ e.NextRetryDelay # 0 => wait' = e.NextRetryDelay
         /\ e.NextRetryDelay = 0 => wait' = Interval(attemptNumber)
         /\ phase' = "waiting" => AttemptsLeft
         /\ phase' = "gaveUp" /\ policy = PurchasePolicy =>
              now' + wait' >= ScheduleToCloseTimeout
<1>1. Interval(attemptNumber) \in Nat
  BY ServiceInterval DEF TimelineTypeOK
<1>2. wait' \in Nat
  BY <1>1 DEF Retry
<1>3. policy = PurchasePolicy => AttemptsLeft
  BY DEF PurchasePolicy, AttemptsLeft
<1> QED
  BY <1>2, <1>3 DEF Retry, ScheduleToCloseTimeout

\* A step that ends an attempt in an outage leaves a wait that is at least what
\* was asked for, and gives up only at the end of the hour.
LEMMA EndOfAttempt ==
  ASSUME ClockInv, phase = "running", now < recovers, NEW e, NEW took \in 0..30,
         e.NextRetryDelay \in Nat, Retry(e),
         now' = now + took, UNCHANGED <<settings, attemptNumber>>,
         last' \in Unavailable \cup {0}, askedUntil' \in Int,
         \/ /\ askedUntil' = askedUntil
            /\ policy = PurchasePolicy => e.NextRetryDelay <= 60
         \/ /\ askedUntil' = now' + e.NextRetryDelay
            /\ e.NextRetryDelay # 0
  PROVE  ClockInv'
<1>1. /\ now \in Nat /\ now' \in Nat /\ recovers \in Nat /\ askedUntil \in Int
      /\ now >= askedUntil /\ now' <= now + 30 /\ now' >= now
      /\ TimelineTypeOK /\ e.NextRetryDelay \in Nat
      /\ policy' = policy /\ recovers' = recovers /\ attemptNumber' = attemptNumber
  BY DEF ClockInv, TimelineTypeOK, HintHonored, settings
<1>2. /\ wait' \in Nat /\ phase' \in {"waiting", "gaveUp"}
      /\ e.NextRetryDelay # 0 => wait' = e.NextRetryDelay
      /\ e.NextRetryDelay = 0 => wait' = Interval(attemptNumber)
      /\ phase' = "gaveUp" /\ policy = PurchasePolicy => now' + wait' >= 3600
  BY <1>1, RetryOutcome DEF ScheduleToCloseTimeout
<1>3. TimelineTypeOK'
  BY <1>1, <1>2 DEF TimelineTypeOK, settings, Phases
<1>4. HintHonored'
  BY <1>2 DEF HintHonored
<1> DEFINE h == e.NextRetryDelay
<1>5. \/ /\ askedUntil' = askedUntil
         /\ policy = PurchasePolicy => h <= 60
      \/ /\ askedUntil' = now' + h
         /\ h # 0
  OBVIOUS
<1>6. /\ h \in Nat
      /\ h # 0 => wait' = h
      /\ h = 0 => wait' = Interval(attemptNumber)
  BY <1>2
<1> HIDE DEF h
<1>7. PICK n \in Nat, w \in Nat, a \in Int : n = now' /\ w = wait' /\ a = askedUntil'
  BY <1>1, <1>2
<1>8. /\ n = now + took /\ took \in 0..30 /\ now \in Nat /\ askedUntil \in Int
      /\ now >= askedUntil /\ recovers \in Nat /\ now < recovers
  BY <1>1, <1>7
<1>9. CASE askedUntil' = askedUntil /\ (policy = PurchasePolicy => h <= 60)
  <2>1. n + w >= a
    <3>1. a = askedUntil
      BY <1>7, <1>9
    <3> QED
      BY <1>8, <3>1
  <2>2. ASSUME phase' = "gaveUp", policy = PurchasePolicy
        PROVE  recovers > 3510
    <3>1. Interval(attemptNumber) <= 60
      BY <1>1, <2>2, PurchaseWaits DEF TimelineTypeOK
    <3>2. w <= 60
      BY <1>6, <1>7, <1>9, <2>2, <3>1
    <3>3. n + w >= 3600
      BY <1>2, <1>7, <2>2
    <3> QED
      BY <1>8, <3>2, <3>3
  <2>3. OutageWeathered'
    BY <1>1, <2>2
    DEF OutageWeathered, ScheduleToCloseTimeout, StartToCloseTimeout, PurchasePolicy
  <2> QED
    BY <1>3, <1>4, <1>7, <2>1, <2>3 DEF ClockInv, WaitsAsAsked
<1>10. CASE askedUntil' = now' + h /\ h # 0
  <2>1. a = n + w
    BY <1>6, <1>7, <1>10
  <2>2. ASSUME phase' = "gaveUp", policy = PurchasePolicy
        PROVE  a >= 3600
    BY <1>2, <1>7, <2>1, <2>2
  <2>3. ~(askedUntil' < 3600 /\ phase' = "gaveUp" /\ policy = PurchasePolicy)
    BY <1>7, <2>2
  <2>4. OutageWeathered'
    BY <1>1, <2>3 DEF OutageWeathered, ScheduleToCloseTimeout
  <2>5. n + w >= a
    BY <1>7, <2>1
  <2> QED
    BY <1>3, <1>4, <1>7, <2>4, <2>5 DEF ClockInv, WaitsAsAsked
<1> QED
  BY <1>5, <1>9, <1>10

LEMMA RefusedClockInv ==
  ASSUME ClockInv, NEW status \in Unavailable, NEW took \in Durations,
         Refused(status, took)
  PROVE  ClockInv'
<1>1. /\ took \in 0..30 /\ now \in Nat /\ now' = now + took /\ now' \in Nat
      /\ phase = "running" /\ now < recovers /\ TimelineTypeOK
      /\ UNCHANGED <<settings, attemptNumber>> /\ last' = status
      /\ askedUntil \in Int /\ askedUntil <= now
  BY TimelineAssumption
  DEF ClockInv, TimelineTypeOK, HintHonored, Refused, StartToCloseTimeout
<1>2. PICK header \in Headers(now') :
        LET asked == AsksFor(header, now')
            resp  == [status |-> status, retryAfter |-> header]
        IN  /\ askedUntil' = IF asked > now' /\ asked > askedUntil THEN asked ELSE askedUntil
            /\ Retry(HTTPResponseError(resp, policy, attemptNumber, now', overflown))
  BY DEF Refused
<1> DEFINE asked == AsksFor(header, now')
           resp  == [status |-> status, retryAfter |-> header]
           e     == HTTPResponseError(resp, policy, attemptNumber, now', overflown)
           hint  == ParseRetryAfter(header, now')
           floor == GetNextRetryDelay(policy, attemptNumber, 3, overflown)
<1>3. /\ asked \in Int /\ (asked > now' => hint = asked - now')
      /\ (~(asked > now') => hint = 0)
  BY <1>1, HintFacts
<1>4. e.NextRetryDelay = IF hint = 0 /\ status = TooManyRequests THEN floor ELSE hint
  <2>1. resp.status = status /\ resp.retryAfter = header
    OBVIOUS
  <2> HIDE DEF resp
  <2> QED
    BY <2>1, RefusalDelay
<1>5. floor \in Nat /\ (policy = PurchasePolicy => floor <= 60)
  <2>1. calculateNewRetryDelay(policy, attemptNumber, 3, overflown) \in Nat
    BY <1>1, HelperDelay DEF TimelineTypeOK
  <2>2. policy = PurchasePolicy => floor <= 60
    BY <1>1, PurchaseWaits DEF TimelineTypeOK
  <2> QED
    BY <2>1, <2>2 DEF GetNextRetryDelay
<1>6. Retry(e) /\ askedUntil' = IF asked > now' /\ asked > askedUntil THEN asked ELSE askedUntil
  BY <1>2
<1> HIDE DEF asked, e, hint, floor
<1>7. CASE asked > now'
  <2>1. askedUntil' = asked /\ e.NextRetryDelay = asked - now' /\ asked - now' > 0
    BY <1>1, <1>3, <1>4, <1>6, <1>7
  <2>2. askedUntil' = now' + e.NextRetryDelay /\ e.NextRetryDelay # 0
        /\ e.NextRetryDelay \in Nat /\ askedUntil' \in Int
    BY <1>1, <1>3, <2>1
  <2> QED
    BY <1>1, <1>6, <2>2, EndOfAttempt
<1>8. CASE ~(asked > now')
  <2>1. askedUntil' = askedUntil /\ e.NextRetryDelay \in Nat
        /\ (policy = PurchasePolicy => e.NextRetryDelay <= 60)
    BY <1>3, <1>4, <1>5, <1>6, <1>8
  <2> QED
    BY <1>1, <1>6, <2>1, EndOfAttempt
<1> QED
  BY <1>7, <1>8

LEMMA NextClockInv ==
  ASSUME ClockInv, [TimelineNext]_timelineVars
  PROVE  ClockInv'
<1>0. Durations \subseteq 0..30 /\ 0 \in Nat /\ 0 <= 60
  BY TimelineAssumption DEF StartToCloseTimeout
<1>1. CASE \E s \in Unavailable, d \in Durations : Refused(s, d)
  BY <1>1, RefusedClockInv
<1>2. ASSUME NEW f \in TransportFailures, NEW d \in Durations, Unreachable(f, d)
      PROVE  ClockInv'
  <2> DEFINE e == classifyHTTPTransportError(f)
  <2>1. e.NextRetryDelay = 0
    BY DEF classifyHTTPTransportError, ApplicationError
  <2>2. /\ phase = "running" /\ now < recovers /\ now' = now + d /\ last' = 0
        /\ UNCHANGED <<settings, attemptNumber, askedUntil>> /\ d \in 0..30
        /\ askedUntil \in Int
        /\ IF e.nonRetryable THEN phase' = "failed" /\ wait' = wait ELSE Retry(e)
    BY <1>0, <1>2 DEF Unreachable, ClockInv, TimelineTypeOK
  <2> HIDE DEF e
  <2>3. CASE e.nonRetryable
    <3>1. phase' = "failed" /\ wait' = wait /\ now' \in Nat
      BY <2>2, <2>3 DEF ClockInv, TimelineTypeOK
    <3> QED
      BY <2>2, <3>1
      DEF ClockInv, TimelineTypeOK, HintHonored, WaitsAsAsked, OutageWeathered, Phases, settings
  <2>4. CASE ~e.nonRetryable
    BY <1>0, <2>1, <2>2, <2>4, EndOfAttempt
  <2> QED
    BY <2>3, <2>4
<1>3. ASSUME NEW s \in {200, 402}, Answered(s)
      PROVE  ClockInv'
  BY <1>3
  DEF Answered, ClockInv, TimelineTypeOK, HintHonored, WaitsAsAsked, OutageWeathered, Phases,
      settings
<1>4. CASE NoAnswer
  <2> DEFINE e == ApplicationError(FALSE, 0)
  <2>1. e.NextRetryDelay = 0
    BY DEF ApplicationError
  <2>2. /\ phase = "running" /\ now < recovers /\ now' = now + 30 /\ last' = 0
        /\ UNCHANGED <<settings, attemptNumber, askedUntil>>
    BY <1>4 DEF NoAnswer, StartToCloseTimeout
  <2>3. Retry(e)
    BY <1>4 DEF NoAnswer
  <2>4. askedUntil \in Int /\ 30 \in 0..30
    BY DEF ClockInv, TimelineTypeOK
  <2> HIDE DEF e
  <2> QED
    BY <1>0, <2>1, <2>2, <2>3, <2>4, EndOfAttempt
<1>5. CASE NextAttempt
  <2>1. /\ now' = now + wait /\ phase = "waiting" /\ phase' = "running" /\ wait' = 0
        /\ attemptNumber' = attemptNumber + 1 /\ last' = 0 /\ UNCHANGED settings
        /\ askedUntil' = IF askedUntil <= now' THEN 0 ELSE askedUntil
        /\ now + wait >= askedUntil
        /\ now \in Nat /\ wait \in Nat /\ askedUntil \in Int /\ attemptNumber \in Nat \ {0}
    BY <1>5 DEF NextAttempt, ClockInv, WaitsAsAsked, TimelineTypeOK
  <2>2. TimelineTypeOK'
    BY <2>1 DEF ClockInv, TimelineTypeOK, settings, Phases
  <2> QED
    BY <2>1, <2>2 DEF ClockInv, HintHonored, WaitsAsAsked, OutageWeathered
<1>6. CASE UNCHANGED timelineVars
  BY <1>6
  DEF ClockInv, TimelineTypeOK, HintHonored, WaitsAsAsked, OutageWeathered, timelineVars
<1> QED
  BY <1>1, <1>2, <1>3, <1>4, <1>5, <1>6 DEF TimelineNext

LEMMA InitClockInv == TimelineInit => ClockInv
BY TimelineAssumption
DEF TimelineInit, ClockInv, TimelineTypeOK, HintHonored, WaitsAsAsked, OutageWeathered, Phases

\* The inductive invariant of a purchase's attempts: each wait takes the clock to
\* where the API asked for, and an outage is given up on only at the hour's end.
THEOREM ClockAgrees == TimelineSpec => []ClockInv
<1> QED
  BY InitClockInv, NextClockInv, PTL DEF TimelineSpec

\* No attempt starts before the API asked to be left alone until, for all
\* policies, outages, hints and durations of attempts.
THEOREM HintsAlwaysHonored == TimelineSpec => []HintHonored
<1>1. ClockInv => HintHonored
  BY DEF ClockInv
<1> QED
  BY <1>1, ClockAgrees, PTL

\* A purchase outlives every outage that ends an attempt and an interval before
\* its hour does.
THEOREM OutagesAlwaysWeathered == TimelineSpec => []OutageWeathered
<1>1. ClockInv => OutageWeathered
  BY DEF ClockInv
<1> QED
  BY <1>1, ClockAgrees, PTL

\* With a maximum interval, what GetNextRetryDelay reports is what the service
\* waits: for all policies, attempts and builds, whether or not it overflows.
THEOREM HelperAlwaysMirrors == TimelineSpec => []MirrorsServiceWhenCapped
<1>1. ClockInv => MirrorsServiceWhenCapped
  BY HelperMirrorsService DEF ClockInv, TimelineTypeOK
<1> QED
  BY <1>1, ClockAgrees, PTL

LEMMA NextBacksOff ==
  ASSUME DefaultCapUnderAnHour, ClockInv, RateLimitBacksOff, [TimelineNext]_timelineVars
  PROVE  RateLimitBacksOff'
<1>1. SUFFICES ASSUME phase' = "waiting", last' = TooManyRequests, askedUntil' <= now'
               PROVE  /\ wait' >= Interval(attemptNumber)'
                      /\ attemptNumber' > 1 /\ policy'.BackoffCoefficient < 3 =>
                           wait' > Interval(attemptNumber)' \/ wait' = policy'.MaximumInterval
  BY DEF RateLimitBacksOff
<1>2. CASE UNCHANGED timelineVars
  BY <1>1, <1>2 DEF timelineVars, RateLimitBacksOff, Interval
<1>3. CASE TimelineNext
  <2>1. PICK status \in Unavailable, took \in Durations : Refused(status, took)
    BY <1>1, <1>3
    DEF TimelineNext, Unreachable, Answered, NoAnswer, NextAttempt, TooManyRequests
  <2>2. /\ status = TooManyRequests /\ now' = now + took /\ took \in Nat /\ now' \in Nat
        /\ TimelineTypeOK /\ askedUntil \in Int /\ askedUntil <= now'
        /\ UNCHANGED <<policy, attemptNumber>>
    BY <1>1, <2>1, TimelineAssumption
    DEF Refused, ClockInv, TimelineTypeOK, HintHonored, StartToCloseTimeout, settings
  <2>3. PICK header \in Headers(now') :
          LET asked == AsksFor(header, now')
              resp  == [status |-> status, retryAfter |-> header]
          IN  /\ askedUntil' = IF asked > now' /\ asked > askedUntil THEN asked ELSE askedUntil
              /\ Retry(HTTPResponseError(resp, policy, attemptNumber, now', overflown))
    BY <2>1 DEF Refused
  <2> DEFINE asked == AsksFor(header, now')
             resp  == [status |-> status, retryAfter |-> header]
             e     == HTTPResponseError(resp, policy, attemptNumber, now', overflown)
             delay == calculateNewRetryDelay(policy, attemptNumber, 3, overflown)
  <2>4. asked \in Int /\ (~(asked > now') => ParseRetryAfter(header, now') = 0)
    BY <2>2, HintFacts
  <2>5. ParseRetryAfter(header, now') = 0
    BY <1>1, <2>2, <2>3, <2>4
  <2>6. e.NextRetryDelay = GetNextRetryDelay(policy, attemptNumber, 3, overflown)
    <3>1. resp.status = status /\ resp.retryAfter = header
      OBVIOUS
    <3> HIDE DEF resp
    <3> QED
      BY <2>2, <2>5, <3>1, RefusalDelay
  <2>7. delay \in Nat \ {0}
    BY <2>2, HelperDelay DEF TimelineTypeOK
  <2>8. Retry(e)
    BY <2>3
  <2> HIDE DEF asked, resp, e
  <2>9. AttemptsLeft
    BY <1>1, <2>8 DEF Retry
  <2>10. e.NextRetryDelay = delay
    <3>1. policy.MaximumAttempts \in Int /\ attemptNumber \in Nat
      BY <2>2, TimelineAssumption DEF TimelineTypeOK, RetryPolicy
    <3> QED
      BY <2>6, <2>9, <3>1 DEF GetNextRetryDelay, AttemptsLeft
  <2>11. wait' = delay
    BY <2>7, <2>8, <2>10 DEF Retry
  <2>12. Interval(attemptNumber)' = Interval(attemptNumber)
    BY <2>2 DEF Interval
  <2>13. /\ delay >= Interval(attemptNumber)
         /\ attemptNumber > 1 /\ policy.BackoffCoefficient < 3 =>
              delay > Interval(attemptNumber) \/ delay = policy.MaximumInterval
    BY <2>2, FloorBacksOff DEF TimelineTypeOK
  <2> QED
    BY <2>2, <2>11, <2>12, <2>13
<1> QED
  BY <1>2, <1>3

\* After a 429 without a usable hint the wait is the service's own or longer, and
\* longer from the second attempt on, up to the cap: for policies whose default
\* cap, where they have none of their own, is under an hour.
THEOREM RateLimitAlwaysBacksOff ==
  ASSUME DefaultCapUnderAnHour
  PROVE  TimelineSpec => []RateLimitBacksOff
<1>1. TimelineInit => RateLimitBacksOff
  BY DEF TimelineInit, RateLimitBacksOff
<1>2. ClockInv /\ RateLimitBacksOff /\ [TimelineNext]_timelineVars => RateLimitBacksOff'
  BY NextBacksOff
<1> QED
  BY <1>1, <1>2, ClockAgrees, PTL DEF TimelineSpec

===============================================================================
