--------------------------- MODULE PurchaseOptions ---------------------------
(***************************************************************************)
(* The options of the ChargePayment activity of PurchaseItem               *)
(* (examples/go/payments/workflow.go).                                     *)
(***************************************************************************)
EXTENDS ActivityHelpers

StartToCloseTimeout    == 30
ScheduleToCloseTimeout == 3600

\* A fault, the one the talk warns of: three attempts and no more.
PurchasePolicyOfThree == [InitialInterval |-> 1, BackoffCoefficient |-> 2,
                          MaximumInterval |-> 60, MaximumAttempts |-> 3]

PurchasePolicy == [InitialInterval |-> 1, BackoffCoefficient |-> 2,
                   MaximumInterval |-> 60, MaximumAttempts |-> 0]

=============================================================================
