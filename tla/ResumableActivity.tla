-------------------------- MODULE ResumableActivity --------------------------
(***************************************************************************)
(* An activity that resumes from its heartbeat details                     *)
(* (src/not_using_activity_heartbeat_details/activity.go), under the       *)
(* auto-heartbeat helper of the policy interceptor or without it, through  *)
(* crashes and through timeouts of attempts that are still running.        *)
(*                                                                         *)
(* The SDK and the service are external: the SDK holds back heartbeats and *)
(* sends the latest, the service keeps the details of the last it accepts, *)
(* which may be none, and hands them to the next attempt; it refuses what  *)
(* comes from any attempt but the current one.                             *)
(***************************************************************************)
EXTENDS Integers

CONSTANTS
  RecordIDs,      \* how many records there are
  MaxAttempts     \* bound on the attempts

ASSUME ResumableAssumption ==
  /\ RecordIDs \in Nat /\ MaxAttempts \in Nat \ {0}

NoDetails == -1       \* of a heartbeat recorded without any
Nothing   == -2       \* no heartbeat is held back

Attempts == 1..MaxAttempts

VARIABLES
  helped,  \* is the helper's goroutine running?  Fixed by Init
  current,    \* the attempt the service takes for running
  closed,     \* has the service recorded a completion?
  pc,         \* per attempt: "none", "starting", "processing", "recording", "over"
  i,          \* per attempt, the loop's index
  given,      \* per attempt, the heartbeat details it was handed
  held,       \* per attempt, the details of the heartbeat its worker holds back
  details,    \* the details the service has
  confirmed,  \* the highest index it was ever given
  reported,   \* per attempt, that index when the attempt was started
  processed   \* the records some attempt has processed

resumableVars == <<helped, current, closed, pc, i, given, held, details, confirmed, reported, processed>>

-----------------------------------------------------------------------------
(* ProcessRecordsActivity.                                                 *)

\* Faults: one record too many is passed over; and the details are not used.
StartSkipping(a) ==
  /\ pc[a] = "starting"
  /\ pc' = [pc EXCEPT ![a] = "processing"]
  /\ i' = [i EXCEPT ![a] = IF given[a] # NoDetails THEN given[a] + 2 ELSE 0]
  /\ UNCHANGED <<helped, current, closed, given, held, details, confirmed, reported, processed>>

StartFromScratch(a) ==
  /\ pc[a] = "starting"
  /\ pc' = [pc EXCEPT ![a] = "processing"]
  /\ i' = [i EXCEPT ![a] = 0]
  /\ UNCHANGED <<helped, current, closed, given, held, details, confirmed, reported, processed>>

Start(a) ==
  /\ pc[a] = "starting"
  /\ pc' = [pc EXCEPT ![a] = "processing"]
  /\ i' = [i EXCEPT ![a] = IF given[a] # NoDetails THEN given[a] + 1 ELSE 0]
  /\ UNCHANGED <<helped, current, closed, given, held, details, confirmed, reported, processed>>

ProcessRecord(a) ==
  /\ pc[a] = "processing"
  /\ i[a] < RecordIDs
  /\ processed' = processed \cup {i[a]}
  /\ pc' = [pc EXCEPT ![a] = "recording"]
  /\ UNCHANGED <<helped, current, closed, i, given, held, details, confirmed, reported>>

RecordProgress(a) ==
  /\ pc[a] = "recording"
  /\ held' = [held EXCEPT ![a] = i[a]]
  /\ i' = [i EXCEPT ![a] = i[a] + 1]
  /\ pc' = [pc EXCEPT ![a] = "processing"]
  /\ UNCHANGED <<helped, current, closed, given, details, confirmed, reported, processed>>

\* A fault: the loop ends past the end.
ReturnPastEnd(a) ==
  /\ pc[a] = "processing"
  /\ i[a] > RecordIDs
  /\ pc' = [pc EXCEPT ![a] = "over"]
  /\ closed' = (closed \/ a = current)
  /\ UNCHANGED <<helped, current, i, given, held, details, confirmed, reported, processed>>

\* A completion of any attempt but the current one is refused.
ReturnAtEnd(a) ==
  /\ pc[a] = "processing"
  /\ i[a] >= RecordIDs
  /\ pc' = [pc EXCEPT ![a] = "over"]
  /\ closed' = (closed \/ a = current)
  /\ UNCHANGED <<helped, current, i, given, held, details, confirmed, reported, processed>>

\* The service starts attempt a with the details it has.
HandOver(a) ==
  /\ given' = [given EXCEPT ![a] = details]
  /\ reported' = [reported EXCEPT ![a] = confirmed]

\* The attempt returns processRecord's error and the service starts the next.
Fail(a) ==
  /\ pc[a] = "processing"
  /\ i[a] < RecordIDs
  /\ a < MaxAttempts
  /\ IF a = current
     THEN /\ current' = a + 1
          /\ pc' = [pc EXCEPT ![a] = "over", ![a + 1] = "starting"]
          /\ HandOver(a + 1)
     ELSE /\ pc' = [pc EXCEPT ![a] = "over"]
          /\ UNCHANGED <<current, given, reported>>
  /\ UNCHANGED <<helped, closed, i, held, details, confirmed, processed>>

-----------------------------------------------------------------------------
(* The helper, the SDK and the service.                                    *)

Alive(a) == pc[a] \in {"starting", "processing", "recording"}

\* The helper's goroutine records a heartbeat without details.
AutoBeat(a) ==
  /\ helped /\ Alive(a)
  /\ held' = [held EXCEPT ![a] = NoDetails]
  /\ UNCHANGED <<helped, current, closed, pc, i, given, details, confirmed, reported, processed>>

\* The worker sends the heartbeat it holds back; the service keeps its details.
Deliver(a) ==
  /\ Alive(a) /\ held[a] # Nothing
  /\ held' = [held EXCEPT ![a] = Nothing]
  /\ IF a = current
     THEN /\ details' = held[a]
          /\ confirmed' = IF held[a] > confirmed THEN held[a] ELSE confirmed
     ELSE UNCHANGED <<details, confirmed>>
  /\ UNCHANGED <<helped, current, closed, pc, i, given, reported, processed>>

\* The current attempt times out, its worker having crashed or not, and the
\* service starts the next one.
TimeOut ==
  /\ ~closed
  /\ current < MaxAttempts
  /\ current' = current + 1
  /\ pc' = [pc EXCEPT ![current + 1] = "starting"]
  /\ HandOver(current + 1)
  /\ UNCHANGED <<helped, closed, i, held, details, confirmed, processed>>

\* The last attempt's worker does not crash.
Crash(a) ==
  /\ Alive(a) /\ a < MaxAttempts
  /\ pc' = [pc EXCEPT ![a] = "over"]
  /\ UNCHANGED <<helped, current, closed, i, given, held, details, confirmed, reported, processed>>

ResumableInit ==
  /\ helped \in BOOLEAN
  /\ current = 1
  /\ closed = FALSE
  /\ pc = [a \in Attempts |-> IF a = 1 THEN "starting" ELSE "none"]
  /\ i = [a \in Attempts |-> 0]
  /\ given = [a \in Attempts |-> NoDetails]
  /\ held = [a \in Attempts |-> Nothing]
  /\ details = NoDetails
  /\ confirmed = NoDetails
  /\ reported = [a \in Attempts |-> NoDetails]
  /\ processed = {}

Step(a) == Start(a) \/ ProcessRecord(a) \/ RecordProgress(a) \/ ReturnAtEnd(a)

ResumableNext ==
  \/ \E a \in Attempts : Step(a) \/ Fail(a) \/ AutoBeat(a) \/ Deliver(a) \/ Crash(a)
  \/ TimeOut

ResumableSpec == ResumableInit /\ [][ResumableNext]_resumableVars

\* A worker that does not crash runs its attempt, and the service retries one
\* that does.
ResumableFairSpec ==
  /\ ResumableSpec
  /\ \A a \in Attempts : WF_resumableVars(Step(a))
  /\ WF_resumableVars(TimeOut)

-----------------------------------------------------------------------------
(* Properties.                                                             *)

ResumableTypeOK ==
  /\ helped \in BOOLEAN
  /\ current \in Attempts
  /\ closed \in BOOLEAN
  /\ pc \in [Attempts -> {"none", "starting", "processing", "recording", "over"}]
  /\ i \in [Attempts -> 0..RecordIDs]
  /\ given \in [Attempts -> NoDetails..(RecordIDs - 1)]
  /\ held \in [Attempts -> Nothing..(RecordIDs - 1)]
  /\ details \in NoDetails..(RecordIDs - 1)
  /\ confirmed \in NoDetails..(RecordIDs - 1)
  /\ reported \in [Attempts -> NoDetails..(RecordIDs - 1)]
  /\ processed \subseteq 0..(RecordIDs - 1)

Through(k) == 0..k \subseteq processed

\* The inductive core: all that the loops, the heartbeats held back and the
\* service's details vouch for has been processed.
DetailsVouched ==
  /\ Through(details) /\ Through(confirmed)
  /\ \A a \in Attempts :
       /\ Through(given[a])
       /\ held[a] # Nothing => Through(held[a])
       /\ pc[a] = "processing" => Through(i[a] - 1)
       /\ pc[a] = "recording" => Through(i[a])
  /\ closed => Through(RecordIDs - 1)

ProgressInv == ResumableTypeOK /\ DetailsVouched

\* A completed activity has processed every record, however many attempts it
\* took, ones that overlap and heartbeats that never arrived included.
NothingSkipped == closed => processed = 0..(RecordIDs - 1)

\* "it picks up at record 9,501" (not_using_activity_heartbeat_details,
\* README.md): no attempt processes again what the service had been told of
\* before the attempt was started.  The auto-heartbeat helper's heartbeats have
\* no details and take that away ("whether an auto-heartbeating interceptor that
\* doesn't set heartbeat details overrides heartbeat details added by the
\* activity", not_sending_heartbeats_for_cancellation/README.md:7).
ReportedNotRepeated ==
  ~helped => \A a \in Attempts : pc[a] = "recording" => i[a] > reported[a]

\* With workers that do not all crash the activity completes.
EventuallyCompletes == <>closed

=============================================================================
