------------------------------ MODULE MCVisitor ------------------------------
(* An instance of Visitor: each kind of page with somebody who waits, and  *)
(* the page with the overlay with somebody who does not.                 *)
EXTENDS Visitor

MCSettings ==
  {[patient |-> TRUE, enhance |-> TRUE, mobile |-> FALSE],
   [patient |-> TRUE, enhance |-> FALSE, mobile |-> TRUE],
   [patient |-> FALSE, enhance |-> TRUE, mobile |-> FALSE]}
=============================================================================
