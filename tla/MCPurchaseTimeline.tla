------------------------- MODULE MCPurchaseTimeline -------------------------
(* PurchaseItem's policy and two whose zero fields, cap on the attempts and *)
(* missing maximum interval exercise the defaults.                          *)
EXTENDS PurchaseTimeline

Policy(initial, coeff, maximum, attempts) ==
  [InitialInterval |-> initial, BackoffCoefficient |-> coeff,
   MaximumInterval |-> maximum, MaximumAttempts |-> attempts]

MCRetryPolicies ==
  {PurchasePolicy, Policy(0, 0, 100, 4), Policy(0, 3, 0, 0)}

\* Of these 4000 is too large for a number of seconds, but not for a date.
MCHints == {-60, 0, 1800, 4000}

=============================================================================
