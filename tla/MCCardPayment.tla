---------------------------- MODULE MCCardPayment ----------------------------
(* Instances of CardPayment for TLC. *)
EXTENDS CardPayment

CONSTANTS u1, r1, r2, i1

OneAccount == {u1}
TwoRequests == {r1, r2}
OneIp == {i1}
=============================================================================
