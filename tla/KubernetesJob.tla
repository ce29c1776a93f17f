--------------------------- MODULE KubernetesJob ---------------------------
(***************************************************************************)
(* examples/go/kubernetes: the workflow RunKubernetesJob creates a Job by  *)
(* the activity StartKubernetesJob and polls it by AwaitKubernetesJob.     *)
(* Both know the Job by its name; the cluster gives each Job of the name a *)
(* UID of its own.                                                         *)
(*                                                                         *)
(* Attempts of an activity overlap: the service gives up one whose worker  *)
(* is lost or slow and starts the next, while the first goes on and may    *)
(* still reach the cluster.  Only the current attempt's answer counts.     *)
(* Attempts at waiting only read, so one at a time is enough; `polled' is  *)
(* what it has read and not yet answered.                                  *)
(*                                                                         *)
(* Meanwhile the cluster updates the Job's conditions, and others may      *)
(* delete Jobs and create them under the same name; `deleted' remembers    *)
(* that a Job was.                                                         *)
(***************************************************************************)
EXTENDS Integers, Sequences, WorkflowExecution

CONSTANTS MaxAttempts,    \* bound on the attempts at starting the Job
          MaxConditions,  \* bound on the conditions a Job goes through
          MaxUID          \* bound on the Jobs ever created

ASSUME KubernetesAssumption == {MaxAttempts, MaxConditions, MaxUID} \subseteq Nat

VARIABLES stage,     \* the activity the workflow awaits: "start" or "await"
          job,       \* the cluster's Job of the name, or NoJob
          uids,      \* UIDs given so far
          deleted,
          attempt,   \* the current attempt at starting; 0 before the first
          pc,        \* where each attempt at starting is
          answer,    \* the UID each has to answer
          polled,
          response   \* of RunKubernetesJob

clusterVars == <<job, uids, deleted>>
startVars   == <<attempt, pc, answer>>
kubernetesVars == <<stage, clusterVars, startVars, polled, response>>

KubernetesFunctions == {"RunKubernetesJob"}

Attempts == 1..MaxAttempts

Conditions == [type : {"Complete", "Failed", "Suspended"}, status : BOOLEAN]

NoJob == [uid |-> 0, conditions |-> <<>>]

Terminal(c) == c.status /\ c.type \in {"Complete", "Failed"}

IsDone(j) == \E i \in DOMAIN j.conditions : Terminal(j.conditions[i])

StatusOf(c) == IF c.type = "Complete" THEN "completed" ELSE "failed"

-----------------------------------------------------------------------------
(* The cluster.  A Job gets at most one terminal condition, its last.      *)

NewJob(conditions) == [uid |-> uids + 1, conditions |-> conditions]

\* Another client creates a Job of that name; one may be there from the start.
OtherCreate ==
    /\ Open /\ job = NoJob /\ uids < MaxUID
    /\ job' = NewJob(<<>>) /\ uids' = uids + 1
    /\ UNCHANGED <<execution, stage, deleted, startVars, polled, response>>

UpdateJob ==
    /\ Open /\ job # NoJob /\ ~IsDone(job)
    /\ Len(job.conditions) < MaxConditions
    /\ \E c \in Conditions : job' = [job EXCEPT !.conditions = Append(@, c)]
    /\ UNCHANGED <<execution, stage, uids, deleted, startVars, polled, response>>

\* By hand, or once its time to live is over.
DeleteJob ==
    /\ Open /\ job # NoJob
    /\ job' = NoJob /\ deleted' = TRUE
    /\ UNCHANGED <<execution, stage, uids, startVars, polled, response>>

-----------------------------------------------------------------------------
(* StartKubernetesJob. *)

\* The first attempt, or the next when the service has given up the current.
StartAttempt ==
    /\ Open /\ stage = "start" /\ attempt < MaxAttempts
    /\ attempt' = attempt + 1
    /\ pc' = [pc EXCEPT ![attempt + 1] = "create"]
    /\ UNCHANGED <<execution, stage, clusterVars, answer, polled, response>>

\* A fault: a Job that exists is replaced.
ReplaceJob(a) ==
    /\ Open /\ pc[a] = "create" /\ uids < MaxUID
    /\ job' = NewJob(<<>>) /\ uids' = uids + 1
    /\ answer' = [answer EXCEPT ![a] = uids + 1]
    /\ pc' = [pc EXCEPT ![a] = "answer"]
    /\ UNCHANGED <<execution, stage, deleted, attempt, polled, response>>

\* The cluster creates the Job unless there is one of the name.
CreateJob(a) ==
    /\ Open /\ pc[a] = "create" /\ (job = NoJob => uids < MaxUID)
    /\ IF job = NoJob
       THEN /\ job' = NewJob(<<>>) /\ uids' = uids + 1
            /\ answer' = [answer EXCEPT ![a] = uids + 1]
            /\ pc' = [pc EXCEPT ![a] = "answer"]
       ELSE /\ pc' = [pc EXCEPT ![a] = "get"]
            /\ UNCHANGED <<job, uids, answer>>
    /\ UNCHANGED <<execution, stage, deleted, attempt, polled, response>>

\* On AlreadyExists the Job's UID is fetched, or it is gone and the attempt fails.
GetJob(a) ==
    /\ Open /\ pc[a] = "get"
    /\ answer' = [answer EXCEPT ![a] = job.uid]
    /\ pc' = [pc EXCEPT ![a] = IF job = NoJob THEN "failed" ELSE "answer"]
    /\ UNCHANGED <<execution, stage, clusterVars, attempt, polled, response>>

\* Any other error of a request; also that of one the cluster has carried out.
RequestFails(a) ==
    /\ Open /\ pc[a] \in {"create", "get", "answer"}
    /\ pc' = [pc EXCEPT ![a] = "failed"]
    /\ UNCHANGED <<execution, stage, clusterVars, attempt, answer, polled, response>>

\* The service records the current attempt's answer.
StartAnswered ==
    /\ Open /\ stage = "start" /\ attempt > 0 /\ pc[attempt] = "answer"
    /\ stage' = "await"
    /\ response' = [response EXCEPT !.UID = answer[attempt]]
    /\ UNCHANGED <<execution, clusterVars, startVars, polled>>

-----------------------------------------------------------------------------
(* AwaitKubernetesJob. *)

\* A fault: a condition's status is not looked at.
firstStatus(j) ==
    LET ends == {i \in DOMAIN j.conditions : j.conditions[i].type \in {"Complete", "Failed"}}
    IN  IF ends = {} THEN ""
        ELSE StatusOf(j.conditions[CHOOSE i \in ends : \A k \in ends : i <= k])

\* The first condition that is true and terminal; "" if there is none.
terminalStatus(j) ==
    IF \E i \in DOMAIN j.conditions : Terminal(j.conditions[i])
    THEN StatusOf(j.conditions[CHOOSE i \in DOMAIN j.conditions :
             /\ Terminal(j.conditions[i])
             /\ \A k \in 1..i - 1 : ~Terminal(j.conditions[k])])
    ELSE ""

PollJob ==
    /\ Open /\ stage = "await" /\ job # NoJob /\ polled = ""
    /\ polled' = terminalStatus(job)
    /\ UNCHANGED <<execution, stage, clusterVars, startVars, response>>

\* The worker is lost before the service has the answer; the next attempt
\* polls again.
AnswerLost ==
    /\ Open /\ polled # ""
    /\ polled' = ""
    /\ UNCHANGED <<execution, stage, clusterVars, startVars, response>>

-----------------------------------------------------------------------------
(* RunKubernetesJob. *)

ReturnResponse ==
    /\ stage = "await" /\ polled # ""
    /\ Close("completed")
    /\ response' = [response EXCEPT !.Status = polled]
    /\ UNCHANGED <<stage, clusterVars, startVars, polled>>

\* An activity's schedule-to-close timeout.
Expire ==
    /\ Close("failed")
    /\ UNCHANGED kubernetesVars

\* The future of a canceled activity resolves at once.
ReturnCanceled ==
    /\ canceled
    /\ Close("canceled")
    /\ UNCHANGED kubernetesVars

-----------------------------------------------------------------------------
\* Another run's Job of the name may be there, finished or not.
KubernetesStart ==
    /\ stage = "start"
    /\ \/ job = NoJob /\ uids = 0
       \/ /\ fn \in KubernetesFunctions
          /\ job \in [uid : {1}, conditions : {<<>>, <<[type |-> "Complete", status |-> TRUE]>>}]
          /\ uids = 1
    /\ deleted = FALSE
    /\ attempt = 0
    /\ pc = [a \in Attempts |-> "none"]
    /\ answer = [a \in Attempts |-> 0]
    /\ polled = ""
    /\ response = [UID |-> 0, Status |-> ""]

KubernetesNext ==
    /\ fn \in KubernetesFunctions
    /\ \/ OtherCreate \/ UpdateJob \/ DeleteJob
       \/ StartAttempt \/ StartAnswered
       \/ \E a \in Attempts : CreateJob(a) \/ GetJob(a) \/ RequestFails(a)
       \/ PollJob \/ AnswerLost
       \/ ReturnResponse \/ Expire \/ ReturnCanceled
       \/ RequestCancel /\ UNCHANGED kubernetesVars

KubernetesInit == /\ fn \in KubernetesFunctions /\ ~canceled /\ outcome = "open"
                  /\ KubernetesStart

KubernetesSpec == KubernetesInit /\ [][KubernetesNext]_<<execution, kubernetesVars>>

-----------------------------------------------------------------------------
(* As long as no Job of the name is deleted, every attempt at starting --  *)
(* retried, overlapping, after a Create whose answer was lost -- has the   *)
(* same UID to answer, the existing Job's ("stable across activity         *)
(* retries", activity.go:33).                                              *)
SameIdentity ==
    ~deleted =>
    /\ \A a \in Attempts : pc[a] = "answer" => answer[a] = job.uid
    /\ stage = "await" => response.UID = job.uid

(* ... and the status the workflow returns with that UID is the end the    *)
(* Job of that UID has come to, and no condition that was not true.        *)
ResultIsOfItsJob ==
    fn \in KubernetesFunctions /\ outcome = "completed" /\ ~deleted =>
    /\ response.UID = job.uid
    /\ \E i \in DOMAIN job.conditions :
          Terminal(job.conditions[i]) /\ response.Status = StatusOf(job.conditions[i])
=============================================================================
