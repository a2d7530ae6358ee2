------------------------ MODULE MCRadiusAccounting --------------------------
(* An instance of RadiusAccounting: the house keeper, rake, two sessions.  *)
EXTENDS RadiusAccounting

CONSTANTS keeper, rake, s1, s2
=============================================================================
