--------------------------- MODULE MCUserLifecycle ---------------------------
(* Instances of UserLifecycle.                                             *)
EXTENDS UserLifecycle, TLC

CONSTANTS c1, c2, p1

AllMethods == {"mobile_phone", "gestpay_credit_card", "other"}
Mobile == {"mobile_phone"}

OneCaller == {c1}
TwoCallers == {c1, c2}
OnePayer == {p1}
None == {}
=============================================================================
