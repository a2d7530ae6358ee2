------------------------- MODULE MCPasswordRecovery -------------------------
(* Instances of PasswordRecovery for TLC. *)
EXTENDS PasswordRecovery

CONSTANTS w1, w2, c1, c2

TwoClients == {w1, w2}
TwoCallers == {c1, c2}
=============================================================================
