-------------------------- MODULE HeartbeatContract --------------------------
(***************************************************************************)
(* What auto-heartbeating promises of one activity attempt                 *)
(* (specs/activitypolicyinterceptor/README.md, requirements 23 to 26):     *)
(* while the attempt is covered no more than maxGap passes without a       *)
(* heartbeat, and once it has returned at most LateBeats are recorded      *)
(* (requirement 24 asks for none).  An attempt that runs without being     *)
(* covered, its heartbeats turned off or its context canceled, may be      *)
(* recorded heartbeats of at any time.                                     *)
(***************************************************************************)
EXTENDS Naturals

CONSTANT LateBeats

VARIABLES
  maxGap,     \* fixed by Init
  stage,      \* "before", "covered", "uncovered" or "over"
  sinceBeat,  \* while covered, the time since the start or the last heartbeat
  late        \* heartbeats recorded once over

vars == <<maxGap, stage, sinceBeat, late>>

Init == maxGap \in Nat /\ stage = "before" /\ sinceBeat = 0 /\ late = 0

Begin ==
  /\ stage = "before"
  /\ stage' \in {"covered", "uncovered"}
  /\ UNCHANGED <<maxGap, sinceBeat, late>>

Uncover ==
  /\ stage = "covered"
  /\ stage' = "uncovered"
  /\ sinceBeat' = 0
  /\ UNCHANGED <<maxGap, late>>

End ==
  /\ stage \in {"covered", "uncovered"}
  /\ stage' = "over"
  /\ sinceBeat' = 0
  /\ UNCHANGED <<maxGap, late>>

Beat ==
  /\ stage = "covered"
  /\ sinceBeat' = 0
  /\ UNCHANGED <<maxGap, stage, late>>

LateBeat ==
  /\ stage = "over"
  /\ late < LateBeats
  /\ late' = late + 1
  /\ UNCHANGED <<maxGap, stage, sinceBeat>>

Tick ==
  /\ stage = "covered"
  /\ sinceBeat < maxGap
  /\ sinceBeat' = sinceBeat + 1
  /\ UNCHANGED <<maxGap, stage, late>>

Next == Begin \/ Uncover \/ End \/ Beat \/ LateBeat \/ Tick

Spec == Init /\ [][Next]_vars
=============================================================================
