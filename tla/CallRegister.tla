---------------------------- MODULE CallRegister ----------------------------
(***************************************************************************)
(* What the register of calls being served promises, without its lock, its *)
(* retries and its replies: a call is identified by a key, at most one     *)
(* thread serves a key at a time, and a key is served only while it is     *)
(* registered.  A registration may be abandoned: then nobody serves the    *)
(* key, and nobody can until the daemon restarts.                          *)
(***************************************************************************)
CONSTANTS
  Thread,   \* threads of the daemon
  Key,      \* keys of the register
  NoCall    \* "serves no call", not a key

VARIABLES
  holds,    \* holds[t]: the key thread t has registered, or NoCall
  stuck     \* keys whose registration was abandoned

vars == <<holds, stuck>>

Free(k) == k \notin stuck /\ \A t \in Thread : holds[t] # k

Init ==
  /\ holds = [t \in Thread |-> NoCall]
  /\ stuck = {}

Register(t, k) ==
  /\ holds[t] = NoCall
  /\ Free(k)
  /\ holds' = [holds EXCEPT ![t] = k]
  /\ UNCHANGED stuck

Release(t) ==
  /\ holds[t] # NoCall
  /\ holds' = [holds EXCEPT ![t] = NoCall]
  /\ UNCHANGED stuck

Abandon(t) ==
  /\ holds[t] # NoCall
  /\ holds' = [holds EXCEPT ![t] = NoCall]
  /\ stuck' = stuck \cup {holds[t]}

Restart ==
  /\ holds' = [t \in Thread |-> NoCall]
  /\ stuck' = {}

Next ==
  \/ \E t \in Thread : \/ \E k \in Key : Register(t, k)
                       \/ Release(t)
                       \/ Abandon(t)
  \/ Restart

Spec == Init /\ [][Next]_vars
=============================================================================
