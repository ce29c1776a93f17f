------------------------------ MODULE Payments ------------------------------
(***************************************************************************)
(* Purchases (examples/go/payments): each is a PurchaseItem workflow with  *)
(* a ChargePayment activity that posts a charge to the payments API under  *)
(* an idempotency key.  Attempts time out, crash and overlap; requests are *)
(* delayed, and answers lost.                                              *)
(*                                                                         *)
(* The API is external and as the code's comments have it: it makes one    *)
(* charge at most under a key, and gives the same answer again to whoever  *)
(* repeats the key.  A key whose first request it is still working on it   *)
(* either keeps waiting or, if conflictsInFlight, answers with 409.        *)
(***************************************************************************)
EXTENDS PurchaseOptions, TLC

CONSTANTS
  Purchases,         \* [workflowID, runID, activityID, SKU]
  MaxAttempts        \* bound: the attempts before the schedule-to-close timeout

ASSUME ConstantsAssumption ==
  /\ \A p \in Purchases, q \in Purchases :
       (p.workflowID = q.workflowID /\ p.runID = q.runID /\ p.activityID = q.activityID) => p = q
  /\ MaxAttempts \in Nat \ {0}

Characters == STRING \cup {NUL}

\* "Temporal IDs are UTF-8 strings that do not contain null bytes"
\* (idempotency.go:30): a letter for each element.
ASSUME IDsAssumption ==
  \A p \in Purchases : \A id \in {p.workflowID, p.runID, p.activityID} :
    /\ id \in Seq(Characters)
    /\ \A i \in 1..Len(id) : id[i] # NUL

Attempts == 1..MaxAttempts

Settings == [endpointParses : BOOLEAN, conflictsInFlight : BOOLEAN]

VARIABLES
  setting,         \* what Init fixes: can a request be built for the endpoint,
                   \* and does the API answer a key in flight with a conflict?
  workflow,        \* per purchase: "started", "panicking", "charging" or how it ended
  attempt,         \* per purchase: the attempt the service takes for running
  pc,              \* per purchase and attempt: "none", "building", "waiting", "over"
  network,         \* requests on their way
  working,         \* requests the API is working on
  results,         \* [key, status]: the results the API keeps
  answers,         \* [purchase, attempt, status]: on their way
  charged          \* requests that made a charge

vars == <<setting, workflow, attempt, pc, network, working, results, answers, charged>>

api == <<working, results, answers, charged>>

Ends == {"completed", "rejected", "undecodable", "unbuildable", "unresolvable", "gaveUp"}

Nil == "nil"

\* A fault: no SKU is found.
generateNothing(SKU) == Nil

generateChargeRequestForSKU(SKU) == IF SKU = "1234" THEN "charge" ELSE Nil

-----------------------------------------------------------------------------
(* The service, of one activity.                                           *)

\* Attempt a ends and the service hears of it; only the current one matters.
Report(p, a, outcome) ==
  IF a # attempt[p] \/ workflow[p] # "charging"
  THEN /\ UNCHANGED <<workflow, attempt>>
       /\ pc' = [pc EXCEPT ![p][a] = "over"]
  ELSE IF outcome = "retry" /\ a < MaxAttempts
  THEN /\ workflow' = workflow
       /\ attempt' = [attempt EXCEPT ![p] = a + 1]
       /\ pc' = [pc EXCEPT ![p][a] = "over", ![p][a + 1] = "building"]
  ELSE /\ workflow' = [workflow EXCEPT ![p] = IF outcome = "retry" THEN "gaveUp" ELSE outcome]
       /\ attempt' = attempt
       /\ pc' = [pc EXCEPT ![p][a] = "over"]

\* The start-to-close timeout: the attempt may go on, and its request too.
TimeOut(p) ==
  /\ workflow[p] = "charging"
  /\ LET a == attempt[p] IN
     IF a = MaxAttempts
     THEN workflow' = [workflow EXCEPT ![p] = "gaveUp"] /\ UNCHANGED <<attempt, pc>>
     ELSE /\ attempt' = [attempt EXCEPT ![p] = a + 1]
          /\ pc' = [pc EXCEPT ![p][a + 1] = "building"]
          /\ workflow' = workflow
  /\ UNCHANGED <<setting, network, api>>

Crash(p, a) ==
  /\ pc[p][a] \in {"building", "waiting"}
  /\ pc' = [pc EXCEPT ![p][a] = "over"]
  /\ UNCHANGED <<setting, workflow, attempt, network, api>>

-----------------------------------------------------------------------------
(* PurchaseItem.                                                           *)

PurchaseItem(p) ==
  /\ workflow[p] = "started"
  /\ generateChargeRequestForSKU(p.SKU) # Nil
  /\ workflow' = [workflow EXCEPT ![p] = "charging"]
  /\ attempt' = [attempt EXCEPT ![p] = 1]
  /\ pc' = [pc EXCEPT ![p][1] = "building"]
  /\ UNCHANGED <<setting, network, api>>

\* The side effect yields nil, *chargeRequest panics, the workflow task fails
\* and nothing of it is recorded.
PurchaseItemPanics(p) ==
  /\ workflow[p] = "started"
  /\ generateChargeRequestForSKU(p.SKU) = Nil
  /\ workflow' = [workflow EXCEPT ![p] = "panicking"]
  /\ UNCHANGED <<setting, attempt, pc, network, api>>

RetryTask(p) ==
  /\ workflow[p] = "panicking"
  /\ workflow' = [workflow EXCEPT ![p] = "started"]
  /\ UNCHANGED <<setting, attempt, pc, network, api>>

-----------------------------------------------------------------------------
(* ChargePayment.                                                          *)

\* Faults: a key of each attempt's own; and none outside an activity context.
DoPerAttempt(p, a) ==
  /\ pc' = [pc EXCEPT ![p][a] = "waiting"]
  /\ network' = network \cup
       {[purchase |-> p, attempt |-> a, key |-> getIdempotencyToken(p) \o <<ToString(a)>>]}

Do(p, a) ==
  /\ pc' = [pc EXCEPT ![p][a] = "waiting"]
  /\ network' = network \cup {[purchase |-> p, attempt |-> a, key |-> getIdempotencyToken(p)]}

SendCharge(p, a) ==
  /\ pc[p][a] = "building" /\ setting.endpointParses
  /\ Do(p, a)
  /\ UNCHANGED <<setting, workflow, attempt, api>>

BuildFails(p, a) ==
  /\ pc[p][a] = "building" /\ ~setting.endpointParses
  /\ Report(p, a, "unbuildable")
  /\ UNCHANGED <<setting, network, api>>

\* Do fails: the request has not left, or it is not known what became of it.
TransportFails(p, a, failure) ==
  /\ pc[p][a] = "waiting"
  /\ LET sent == {r \in network : r.purchase = p /\ r.attempt = a} IN
     IF failure = "timeout" THEN network' = network
     ELSE sent # {} /\ network' = network \ sent
  /\ Report(p, a, IF classifyHTTPTransportError(failure).nonRetryable
                  THEN "unresolvable" ELSE "retry")
  /\ UNCHANGED <<setting, api>>

\* The status of a response, then its body, decide how the attempt ends.
ResponseOutcome(status, a, body) ==
  LET resp == [status |-> status, retryAfter |-> NoHeader]
      err  == HTTPResponseError(resp, PurchasePolicy, a, 0, MaxDuration)
  IN  IF err # NoError
      THEN IF err.nonRetryable THEN "rejected" ELSE "retry"
      ELSE CASE body = "charge" -> "completed"
             [] body = "mismatch" -> "undecodable"
             [] OTHER -> "retry"

HandleResponse(p, a, body) ==
  /\ pc[p][a] = "waiting"
  /\ \E answer \in answers :
       /\ answer.purchase = p /\ answer.attempt = a
       /\ answers' = answers \ {answer}
       /\ Report(p, a, ResponseOutcome(answer.status, a, body))
  /\ UNCHANGED <<setting, network, working, results, charged>>

-----------------------------------------------------------------------------
(* The payments API.                                                       *)

Answer(r, status) == {[purchase |-> r.purchase, attempt |-> r.attempt, status |-> status]}

Repeats(r) == {res \in results : res.key = r.key}

InFlight(r) == \E w \in working : w.key = r.key

\* A request of a key it knows gets the answer the key has.
Repeat(r) ==
  /\ r \in network
  /\ \E res \in Repeats(r) : answers' = answers \cup Answer(r, res.status)
  /\ network' = network \ {r}
  /\ UNCHANGED <<setting, workflow, attempt, pc, working, results, charged>>

Conflict(r) ==
  /\ setting.conflictsInFlight
  /\ r \in network /\ InFlight(r)
  /\ answers' = answers \cup Answer(r, 409)
  /\ network' = network \ {r}
  /\ UNCHANGED <<setting, workflow, attempt, pc, working, results, charged>>

Receive(r) ==
  /\ r \in network /\ Repeats(r) = {} /\ ~InFlight(r)
  /\ network' = network \ {r}
  /\ working' = working \cup {r}
  /\ UNCHANGED <<setting, workflow, attempt, pc, results, answers, charged>>

\* It charges, declines, or cannot do its work now and keeps no result.
Finish(r, status) ==
  /\ r \in working
  /\ working' = working \ {r}
  /\ answers' = answers \cup Answer(r, status)
  /\ charged' = IF status = 200 THEN charged \cup {r} ELSE charged
  /\ results' = IF status = TooManyRequests THEN results
                ELSE results \cup {[key |-> r.key, status |-> status]}
  /\ UNCHANGED <<setting, workflow, attempt, pc, network>>

Init ==
  /\ setting \in Settings
  /\ workflow = [p \in Purchases |-> "started"]
  /\ attempt = [p \in Purchases |-> 0]
  /\ pc = [p \in Purchases |-> [a \in Attempts |-> "none"]]
  /\ network = {} /\ working = {} /\ results = {} /\ answers = {} /\ charged = {}

Workflow(p) == PurchaseItem(p) \/ PurchaseItemPanics(p) \/ RetryTask(p)

Attempt(p, a) ==
  \/ SendCharge(p, a)
  \/ BuildFails(p, a)
  \/ \E f \in TransportFailures : TransportFails(p, a, f)
  \/ \E b \in {"charge", "truncated", "mismatch"} : HandleResponse(p, a, b)

API ==
  \/ \E r \in network : Repeat(r) \/ Conflict(r) \/ Receive(r)
  \/ \E r \in working, s \in {200, 402, TooManyRequests} : Finish(r, s)

Next ==
  \/ \E p \in Purchases : Workflow(p) \/ TimeOut(p) \/ \E a \in Attempts : Attempt(p, a) \/ Crash(p, a)
  \/ API

Spec == Init /\ [][Next]_vars

\* There is a worker for the workflows, and the service keeps its timers.
FairSpec == Spec /\ \A p \in Purchases : WF_vars(Workflow(p) \/ TimeOut(p))

-----------------------------------------------------------------------------
(* Properties.                                                             *)

Tokens == {getIdempotencyToken(p) : p \in Purchases}

Requests == [purchase : Purchases, attempt : Attempts, key : Tokens]

TypeOK ==
  /\ setting \in Settings
  /\ workflow \in [Purchases -> {"started", "panicking", "charging"} \cup Ends]
  /\ attempt \in [Purchases -> 0..MaxAttempts]
  /\ \A p \in Purchases : workflow[p] \in {"started", "panicking"} <=> attempt[p] = 0
  /\ pc \in [Purchases -> [Attempts -> {"none", "building", "waiting", "over"}]]
  /\ network \cup working \cup charged \subseteq Requests
  /\ results \subseteq [key : Tokens, status : {200, 402}]
  /\ answers \subseteq [purchase : Purchases, attempt : Attempts,
                        status : {200, 402, 409, TooManyRequests}]

Token(p) == getIdempotencyToken(p)

\* A request carries the key of its purchase.
Keyed == \A r \in network \cup working \cup charged : r.key = Token(r.purchase)

\* A key has one request worked on or one result, not both.
OneWorking == \A r \in working, q \in working : r.key = q.key => r = q
Undecided == \A r \in working, res \in results : res.key # r.key
OneResult == \A res \in results, other \in results : res.key = other.key => res = other

\* A key has a charge exactly when its result says so, and one charge.
ChargeRecorded == \A r \in charged : [key |-> r.key, status |-> 200] \in results
RecordCharged == \A res \in results : res.status = 200 => \E r \in charged : r.key = res.key
OneChargePerKey == \A r \in charged, q \in charged : r.key = q.key => r = q

Ledger == OneWorking /\ Undecided /\ OneResult /\ ChargeRecorded /\ RecordCharged /\ OneChargePerKey

\* What a purchase is told, and how it ends, is what is recorded of its key.
Recorded(p, status) == [key |-> Token(p), status |-> status] \in results

AnswersRecorded == \A answer \in answers :
  answer.status \in {200, 402} => Recorded(answer.purchase, answer.status)
ConflictsAnswered == \A answer \in answers : answer.status = 409 => setting.conflictsInFlight
EndsRecorded == \A p \in Purchases :
  /\ workflow[p] = "completed" => Recorded(p, 200)
  /\ workflow[p] = "rejected" => Recorded(p, 402) \/ setting.conflictsInFlight

\* The keys, the API's ledger, the answers under way and the ends of the purchases
\* agree, and do after every step: this is what coalescing retries rests on
\* (payments/activity.go:53-54, idempotency.go:12-15).
Inv == TypeOK /\ Keyed /\ Ledger /\ AnswersRecorded /\ ConflictsAnswered /\ EndsRecorded

ChargesOf(p) == {r \in charged : r.purchase = p}

\* "so retries are coalesced by the upstream service" (payments/activity.go:53):
\* no purchase is charged twice, however its attempts overlap.
ChargedOnce == \A r \in charged, q \in charged : r.purchase = q.purchase => r = q

\* A purchase that completes has a charge of its own, and has not been answered
\* with that of a purchase whose key is the same.
CompletedCharged == \A p \in Purchases : workflow[p] = "completed" => ChargesOf(p) # {}

\* "the request is malformed or rejected on its merits" (http.go:158-159): a
\* purchase that fails for a status is not charged, nor will it be by a request
\* that is still on its way, if the API keeps a key in flight waiting.
RejectedUncharged ==
  ~setting.conflictsInFlight =>
    \A p \in Purchases : workflow[p] = "rejected" => ChargesOf(p) = {}

\* Every purchase of a SKU there is comes to an end, and stays there.
PurchasesEnd == <>[](\A p \in Purchases : p.SKU = "1234" => workflow[p] \in Ends)

=============================================================================
