------------------------ MODULE MCRadiusAuthorization ------------------------
(* An instance of RadiusAuthorization: two requests, and two of everything *)
(* that two requests can meet over.                                        *)
EXTENDS RadiusAuthorization, TLC

CONSTANTS r1, r2, u1, u2, g1, g2, w1, w2, a1, a2, checks, default, other

Symmetric == Permutations({r1, r2}) \cup Permutations({a1, a2})
=============================================================================
