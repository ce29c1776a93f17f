----------------------------- MODULE MCPayments -----------------------------
(* Two purchases whose identities differ only in where one ID ends and the  *)
(* next begins, and one of a SKU there is none of.                          *)
EXTENDS Payments

Purchase(w, r, a, sku) == [workflowID |-> w, runID |-> r, activityID |-> a, SKU |-> sku]

TwinsAndUnknown == {Purchase(<<"a", "b">>, <<"r">>, <<"c">>, "1234"),
                    Purchase(<<"a">>, <<"b">>, <<"r", "c">>, "1234"),
                    Purchase(<<"a">>, <<"b">>, <<"r", "d">>, "none")}
=============================================================================
