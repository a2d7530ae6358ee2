------------------------------- MODULE Document -------------------------------
(***************************************************************************)
(* The document a browser shows, with the state of its scripts; a          *)
(* navigation replaces it as a whole.                                      *)
(***************************************************************************)
EXTENDS Effects

VARIABLE doc

On(page) == doc.page = page

\* An element of a page: nothing closes when no effect runs.
IsElement(e) ==
  /\ e.shown \in BOOLEAN /\ e.closing \in BOOLEAN
  /\ \A i \in DOMAIN e.queue : e.queue[i] \in {"in", "out", "toggle", "swap"}
  /\ Idle(e) => ~e.closing
=============================================================================
