---------------------------- MODULE MCSocialLogin ----------------------------
(* An instance of SocialLogin: u and v have the same name.                 *)
EXTENDS SocialLogin

CONSTANTS u, v, r1, r2, name

SameName == [x \in {u, v} |-> name]
OwnEmail == [x \in {u, v} |-> x]
=============================================================================
