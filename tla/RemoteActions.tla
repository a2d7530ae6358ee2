---------------------------- MODULE RemoteActions ----------------------------
(***************************************************************************)
(* What the handlers of jquery_ujs make of a click on a link and of a form *)
(* that is sent: "stopped" (and no later handler is called), a request of  *)
(* the page's own ("ajax"), a form that is made and sent ("post"), or what *)
(* the browser does by itself ("follow").                                  *)
(*                                                                         *)
(* Left out: the elements disabled while a form is sent (no view asks for  *)
(* it), required fields and files, which the remote forms do not have.     *)
(***************************************************************************)

PageLink == [confirm |-> FALSE, remote |-> TRUE, method |-> FALSE]
DestroyLink == [confirm |-> TRUE, remote |-> FALSE, method |-> TRUE]
LogoutLink == [confirm |-> FALSE, remote |-> FALSE, method |-> TRUE]

\* Mutant: the answer is not heeded.
AllowActionAnyway(element, yes) == TRUE

\* yes: the answer to the question, if one is asked.
AllowAction(element, yes) == element.confirm => yes

LinkClick(link, yes) ==
  CASE ~AllowAction(link, yes)                             -> "stopped"
    [] AllowAction(link, yes) /\ link.remote                -> "ajax"
    [] AllowAction(link, yes) /\ ~link.remote /\ link.method -> "post"
    [] OTHER                                               -> "follow"

FormSubmit(form, yes) ==
  CASE ~AllowAction(form, yes)               -> "stopped"
    [] AllowAction(form, yes) /\ form.remote -> "ajax"
    [] OTHER                                 -> "follow"
=============================================================================
