-------------------------- MODULE MCActivityErrors --------------------------
(* An activity that fails: how its errors are rewritten on their way to the *)
(* service, or when they have it retried.                                   *)
EXTENDS MCErrorMapper, MCPurchaseTimeline

VARIABLE question  \* fixed by Init

errorVars == <<question, timelineVars, mapperVars>>

ErrorsInit ==
  \/ question = "rewritten" /\ MapperInit
     /\ policy = PurchasePolicy /\ recovers = 0 /\ overflown = MinDuration
     /\ now = 0 /\ attemptNumber = 1 /\ phase = "idle" /\ wait = 0 /\ last = 0 /\ askedUntil = 0
  \/ question = "retried" /\ TimelineInit
     /\ mappers = <<>> /\ tries = 0 /\ state = "idle" /\ canceled = FALSE
     /\ raw = <<>> /\ err = <<>>

ErrorsNext ==
  \/ question = "rewritten" /\ MapperNext /\ UNCHANGED <<question, timelineVars>>
  \/ question = "retried" /\ TimelineNext /\ UNCHANGED <<question, mapperVars>>

ErrorsSpec == ErrorsInit /\ [][ErrorsNext]_errorVars
=============================================================================
