-------------------------- MODULE AccountedSessions --------------------------
(***************************************************************************)
(* What the table radacct promises of a session, without packets that are  *)
(* late, jobs and their copies: it is opened once, closed with a length    *)
(* between nothing and the longest FreeRADIUS has reported, perhaps again  *)
(* with another such length, but never opened again; and once it is        *)
(* deleted nothing is heard of it.                                         *)
(***************************************************************************)
EXTENDS Naturals

CONSTANTS
  Session,
  Length     \* lengths a session may have

VARIABLES
  state,     \* state[s]: "absent", "open", "closed" or "deleted"
  reported,  \* the longest time reported of the session
  length     \* how long the session was, 0 while it is open

vars == <<state, reported, length>>

Kept(s) == state[s] \in {"open", "closed"}

Init ==
  /\ state = [s \in Session |-> "absent"]
  /\ reported = [s \in Session |-> 0]
  /\ length = [s \in Session |-> 0]

Begin(s) ==
  /\ state[s] = "absent"
  /\ state' = [state EXCEPT ![s] = "open"]
  /\ UNCHANGED <<reported, length>>

Hear(s, d) == reported' = [reported EXCEPT ![s] = IF d > @ THEN d ELSE @]

CloseAt(s, d) ==
  /\ state' = [state EXCEPT ![s] = "closed"]
  /\ length' = [length EXCEPT ![s] = d]

\* FreeRADIUS reports that the session goes on, or that it is over.
Update(s, d) == Kept(s) /\ Hear(s, d) /\ UNCHANGED <<state, length>>

End(s, d) == Kept(s) /\ Hear(s, d) /\ CloseAt(s, d)

\* A session nobody ended is closed.
Settle(s, d) == Kept(s) /\ d <= reported[s] /\ CloseAt(s, d) /\ UNCHANGED reported

Delete(old) ==
  /\ \A s \in old : Kept(s)
  /\ state' = [s \in Session |-> IF s \in old THEN "deleted" ELSE state[s]]
  /\ UNCHANGED <<reported, length>>

Next ==
  \/ \E s \in Session : Begin(s)
  \/ \E s \in Session, d \in Length : Update(s, d) \/ End(s, d) \/ Settle(s, d)
  \/ \E old \in SUBSET Session : Delete(old)

Spec == Init /\ [][Next]_vars
=============================================================================
