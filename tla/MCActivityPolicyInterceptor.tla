-------------------- MODULE MCActivityPolicyInterceptor --------------------
(* Calls on both sides of each policy, workflows of one or two of them, and *)
(* the options a team moves through when it adopts the interceptor.         *)
EXTENDS ActivityPolicyInterceptor, TLC

Regular(s2c, stc, hb, max) ==
  [local |-> FALSE, ScheduleToClose |-> s2c, StartToClose |-> stc,
   Heartbeat |-> hb,
   RetryPolicy |-> [InitialInterval |-> 0, BackoffCoefficient |-> 0,
                    MaximumInterval |-> 0, MaximumAttempts |-> max]]

Local(s2c, stc) == [Regular(s2c, stc, 0, 0) EXCEPT !.local = TRUE]

\* Budgets at and one below what two and three retries need: 2 * 10 + 3
\* seconds and, with the default heartbeat, 2 * 30 + 3 and 3 * 30 + 7.
MCCalls ==
  {Regular(23000, 10000, 0, 0), Regular(22999, 10000, 0, 2),
   Regular(63000, 0, 0, 0), Regular(62999, 0, 0, 0), Regular(0, 0, 0, 0),
   Local(30000, 5000), Local(0, 10000)}

MCWorkflows ==
  {w \in [calls : {<<a>> : a \in MCCalls} \cup {<<a, b>> : a, b \in MCCalls},
          style : Styles] :
     w.style = "fansOut" => \A i \in DOMAIN w.calls : ~w.calls[i].local}

All(s) == [p \in Policies |-> s]

Deployment(sev, n, logger) == [severities |-> sev, requiredRetries |-> n, logger |-> logger]

\* Adoption: everything ignored, warned of, enforced but for the retries, then
\* enforced; and the number of retries raised on the way.
MCDeployments ==
  {Deployment(sev, 2, "workflow") :
     sev \in {<<>>, All("Ignore"), All("Warn"), (TimeoutsPermitRetries :> "Warn"),
              (MaxAttemptsTooLow :> "Warn" @@ LocalActivityStartToCloseTooLong :> "Ignore")}}
  \cup {Deployment(<<>>, 3, "workflow"), Deployment((TimeoutsPermitRetries :> "Ignore"), 3, "custom")}
=============================================================================
