-------------------------------- MODULE Visit --------------------------------
(***************************************************************************)
(* What the pages a visitor goes through have in common: the document and  *)
(* what the server keeps while documents come and go.                      *)
(***************************************************************************)
EXTENDS Document

CONSTANTS
  MaxPosts,      \* bound: sign-up requests unanswered at once
  MaxPayments    \* bound: times the card form is sent

ASSUME VisitAssumption == MaxPosts \in Nat /\ MaxPayments \in Nat

VARIABLES
  setting,      \* patient: the visitor uses the mouse and lets effects end;
                \* enhance: enhance_registration_form;
                \* mobile: the pages are those for mobile phones
  account,      \* the account: its state and verification method
  posts,        \* posts[i]: a request of the sign-up form, with its method or,
                \* when the server is through, its result
  payments,     \* payments[k]: where the k-th request of the card form is
  disturbed     \* the visitor stopped or reloaded a page, or a poll has read the
                \* verification of the detour

visitVars == <<setting, doc, account, posts, payments, disturbed>>

Post == 1..MaxPosts
Payment == 1..MaxPayments
Method == {"none", "mobile", "card", "social"}

\* A page without a script of its own.
Plain(page) == [page |-> page]

\* An effect of one of the elements ends.
EffectEnds(page, elements) ==
  /\ On(page)
  /\ \E x \in elements : ~Idle(doc[x]) /\ doc' = [doc EXCEPT ![x] = Finish(@)]
  /\ UNCHANGED <<setting, account, posts, payments, disturbed>>
=============================================================================
