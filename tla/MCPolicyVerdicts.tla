-------------------------- MODULE MCPolicyVerdicts --------------------------
(* What a verdict of the interceptors is worth: a call whose verdicts are   *)
(* compared between the languages, or one that is let through and run.      *)
EXTENDS MCGuardedActivity, MCPolicyTwins

VARIABLE question  \* fixed by Init

verdictVars == <<question, vars, twinVars>>

VerdictsInit ==
  \/ question = "compared" /\ TwinsInit
     /\ call = Regular(0, 0, 0, 0, 0, 0) /\ requiredRetries = 0 /\ enforced = {}
     /\ autoHeartbeat = FALSE /\ phase = "calling" /\ at = 0 /\ attempts = 0
     /\ early = TRUE /\ worst = TRUE
  \/ question = "run" /\ Init
     /\ written = None /\ severities = <<>> /\ target = 0 /\ go = Pending /\ py = Pending

Run == question = "run" /\ Next /\ UNCHANGED <<question, twinVars>>

VerdictsNext ==
  \/ Run
  \/ question = "compared" /\ TwinsNext /\ UNCHANGED <<question, vars>>

\* The fairness of an activity (GuardedActivity!FairSpec).
VerdictsSpec == VerdictsInit /\ [][VerdictsNext]_verdictVars /\ WF_verdictVars(Run)
=============================================================================
