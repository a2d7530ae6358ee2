-------------------------- MODULE VerificationPage --------------------------
(***************************************************************************)
(* The page of an account that is not verified.  It polls the server and   *)
(* leaves when the account is verified or gone.  If the account is to be   *)
(* verified by card, the card form lies in an overlay over a mask; while   *)
(* the bank is asked the mask is raised over the overlay, a spinner turns  *)
(* and, after a while, a message appears.  The answer is a script that     *)
(* replaces the form and takes these back.  The pages for mobile phones    *)
(* have the form without the overlay.                                      *)
(*                                                                         *)
(* Left out: the texts, the panel under the overlay, the card's date and   *)
(* security code, the limits and tables of the payment (CardPayment) and   *)
(* why an account is removed (UserLifecycle).                              *)
(***************************************************************************)
EXTENDS Visit, CardFields

\* The page as rendered for an account; the scripts show the spinner and hide
\* it again while the page loads.
Verification(byCard) ==
  [page |-> "verification", gateway |-> byCard, loaded |-> setting.mobile,
   overlay |-> Element(byCard /\ setting.mobile), raised |-> FALSE,
   panel |-> "card",
   spinner |-> IF byCard /\ ~setting.mobile
               THEN TogglePop(TogglePop(Element(FALSE))) ELSE Element(FALSE),
   message |-> Element(FALSE), timers |-> {}, last |-> 0, waiting |-> {},
   failed |-> FALSE, leaving |-> FALSE, told |-> FALSE, number |-> Blank]

\* The visitor acts when the page stands still.  The raised mask is a wall to
\* the mouse; who does not wait goes on with the keyboard.
MayUse ==
  /\ doc.loaded
  /\ Idle(doc.overlay) /\ Idle(doc.spinner) /\ Idle(doc.message)
  /\ setting.patient => ~doc.raised

-----------------------------------------------------------------------------
(* Navigation.                                                             *)

\* The account's page sends on who is not verified, and is closed to whose
\* account is gone.  Sign-up requests that are unanswered still can only be
\* refused, to nobody.
Follow ==
  /\ doc.page \in {"to account", "to verification"}
  /\ doc' = CASE account.state \in {"verified", "temporary"} -> Plain("account")
              [] account.state = "gone" ->
                   Plain(IF On("to account") THEN "login" ELSE "expired")
              [] account.state = "unverified" /\ account.method = "social" -> Plain("additional")
              [] OTHER -> Verification(account.method = "card")
  /\ posts' = [i \in Post |-> "none"]
  /\ UNCHANGED <<setting, account, payments, disturbed>>

Leave(d) ==
  /\ doc' = d
  /\ UNCHANGED <<setting, account, posts, payments, disturbed>>

\* The visitor reloads the page.
Reload ==
  /\ On("verification")
  /\ doc' = Plain("to verification")
  /\ disturbed' = TRUE
  /\ UNCHANGED <<setting, account, posts, payments>>

-----------------------------------------------------------------------------
(* The poll, every two seconds.  An answer may be lost or late; one that   *)
(* says neither verified nor expired changes nothing but the time left.    *)

Ends(state) == state \in {"verified", "temporary", "gone"}

\* Mutant: the page waits for the account to be verified, never removed.
PollReadVerified ==
  /\ On("verification") /\ account.state \in {"verified", "temporary"}
  /\ doc' = [doc EXCEPT !.told = TRUE]
  /\ disturbed' = (disturbed \/ account.state = "temporary")
  /\ UNCHANGED <<setting, account, posts, payments>>

\* Mutant: any answer loads the page again.
PollReadAlways ==
  /\ On("verification")
  /\ doc' = [doc EXCEPT !.told = TRUE]
  /\ disturbed' = (disturbed \/ account.state = "temporary")
  /\ UNCHANGED <<setting, account, posts, payments>>

\* The server reads the status.
PollRead ==
  /\ On("verification") /\ Ends(account.state)
  /\ doc' = [doc EXCEPT !.told = TRUE]
  /\ disturbed' = (disturbed \/ account.state = "temporary")
  /\ UNCHANGED <<setting, account, posts, payments>>

PollLost ==
  /\ On("verification") /\ doc.told
  /\ doc' = [doc EXCEPT !.told = FALSE]
  /\ UNCHANGED <<setting, account, posts, payments, disturbed>>

\* The answer arrives, and the page is loaded again.
Poll ==
  /\ On("verification") /\ doc.told
  /\ Leave(Plain("to verification"))

-----------------------------------------------------------------------------
(* The overlay.                                                            *)

\* The visitor is asked whether to close it, and answers.
CloseOverlay(d, yes) == IF yes THEN [d EXCEPT !.overlay = FadeOut(@)] ELSE d

ToggleOverlay(d, yes) ==
  IF d.overlay.shown THEN CloseOverlay(d, yes)
                     ELSE [d EXCEPT !.overlay = FadeIn(@)]

\* The window has loaded.
WindowLoads ==
  /\ On("verification") /\ ~doc.loaded
  /\ \E yes \in BOOLEAN :
       doc' = [(IF doc.gateway THEN ToggleOverlay(doc, yes) ELSE doc) EXCEPT !.loaded = TRUE]
  /\ UNCHANGED <<setting, account, posts, payments, disturbed>>

\* The link under the overlay, and the cross on it, in the mouse's reach.
Toggle ==
  /\ On("verification") /\ doc.gateway /\ ~setting.mobile
  /\ doc.overlay.shown => MayUse /\ ~doc.raised
  /\ \E yes \in BOOLEAN : doc' = ToggleOverlay(doc, yes)
  /\ UNCHANGED <<setting, account, posts, payments, disturbed>>

-----------------------------------------------------------------------------
(* The payment.                                                            *)

\* The mask goes over the overlay, or back.
ToggleLockOverlay(d) == [d EXCEPT !.raised = ~@]

\* The page for mobile phones has no overlay: its mask is shown or hidden.
LockMobile(d, lock) == [d EXCEPT !.raised = lock]

Lock(d, lock) == IF setting.mobile THEN LockMobile(d, lock) ELSE ToggleLockOverlay(d)

\* The spinner turns and the timer of the message starts.
InitCreditCardLoading(d, k) ==
  [d EXCEPT !.spinner = TogglePop(@), !.timers = @ \cup {k}, !.last = k]

\* Only the last timers are known.
ClearTimeouts(d) == [d EXCEPT !.timers = @ \ {d.last}]

\* A key goes down while the number is typed, before the first payment; the
\* answer to a payment renders the fields again as they were sent.
Key ==
  /\ On("verification") /\ doc.gateway /\ doc.panel = "card" /\ doc.loaded
  /\ doc.overlay.shown /\ MayUse
  /\ doc.number.focus \in Field /\ ~Complete(doc.number)
  /\ \/ \E d \in Digit : doc' = [doc EXCEPT !.number = KeyDown(@, d)]
     \/ doc' = [doc EXCEPT !.number = Backspace(@)]
  /\ UNCHANGED <<setting, account, posts, payments, disturbed>>

\* A key comes up, whatever the page is doing.
KeyReleased ==
  /\ On("verification")
  /\ \E d \in doc.number.held : doc' = [doc EXCEPT !.number = KeyUp(@, d)]
  /\ UNCHANGED <<setting, account, posts, payments, disturbed>>

\* Mutant: the mask stays where it is.
PayUnlocked(k) ==
  /\ On("verification") /\ doc.gateway /\ doc.panel = "card" /\ Complete(doc.number)
  /\ doc.overlay.shown /\ MayUse
  /\ payments[k] = "none" /\ \A j \in Payment : j < k => payments[j] # "none"
  /\ payments' = [payments EXCEPT ![k] = "sent"]
  /\ doc' = [InitCreditCardLoading(doc, k) EXCEPT
               !.waiting = @ \cup {k}, !.number = Full]
  /\ UNCHANGED <<setting, account, posts, disturbed>>

\* A complete form is sent.
Pay(k) ==
  /\ On("verification") /\ doc.gateway /\ doc.panel = "card" /\ Complete(doc.number)
  /\ doc.overlay.shown /\ MayUse
  /\ payments[k] = "none" /\ \A j \in Payment : j < k => payments[j] # "none"
  /\ payments' = [payments EXCEPT ![k] = "sent"]
  /\ doc' = [InitCreditCardLoading(Lock(doc, TRUE), k) EXCEPT
               !.waiting = @ \cup {k}, !.number = Full]
  /\ UNCHANGED <<setting, account, posts, disturbed>>

\* After 1.5 seconds, and the first timer first.
Timer(k) ==
  /\ On("verification") /\ k \in doc.timers /\ \A j \in doc.timers : k <= j
  /\ doc' = [doc EXCEPT !.message = ToggleMessage(@), !.timers = @ \ {k}]
  /\ UNCHANGED <<setting, account, posts, payments, disturbed>>

\* What is answered with the form; "late" is a refusal to an account that was
\* verified before.
Scripts == {"paid", "declined", "late", "bank"}

\* Mutant: the timers are left running.
AnswerForgetful(k) ==
  /\ On("verification") /\ k \in doc.waiting /\ payments[k] \in Scripts
  /\ doc' = [Lock(doc, FALSE) EXCEPT
               !.panel = IF payments[k] \in {"paid", "bank"} THEN payments[k] ELSE "card",
               !.spinner = TogglePop(@), !.message = Hide(@),
               !.waiting = @ \ {k}, !.leaving = @ \/ payments[k] \in {"paid", "late"}]
  /\ UNCHANGED <<setting, account, posts, payments, disturbed>>

\* The script that answers: the form again, with the error or the notice, or
\* the bank's form.
Answer(k) ==
  /\ On("verification") /\ k \in doc.waiting /\ payments[k] \in Scripts
  /\ doc' = [ClearTimeouts(Lock(doc, FALSE)) EXCEPT
               !.panel = IF payments[k] \in {"paid", "bank"} THEN payments[k] ELSE "card",
               !.spinner = TogglePop(@), !.message = Hide(@),
               !.waiting = @ \ {k}, !.leaving = @ \/ payments[k] \in {"paid", "late"}]
  /\ UNCHANGED <<setting, account, posts, payments, disturbed>>

\* Nothing handles an answer that is an error, or the page to sign in that
\* whose account is gone is redirected to.
AnswerFailed(k) ==
  /\ On("verification") /\ k \in doc.waiting /\ payments[k] = "failed"
  /\ doc' = [doc EXCEPT !.failed = TRUE, !.waiting = @ \ {k}]
  /\ UNCHANGED <<setting, account, posts, payments, disturbed>>

\* Two seconds after the notice.
GoToAccount == On("verification") /\ doc.leaving /\ Leave(Plain("to account"))

\* The bank's form leads to the bank, which sends the browser back.
Proceed ==
  /\ On("verification") /\ doc.panel = "bank" /\ doc.overlay.shown /\ MayUse
  /\ Leave(Plain("bank"))

Return ==
  /\ On("bank")
  /\ \/ /\ account.state # "gone"
        /\ account' = [account EXCEPT !.state = "verified"]
        /\ doc' = Plain("to account")
     \/ account.state # "gone" /\ doc' = Plain("error") /\ UNCHANGED account
     \/ account.state = "gone" /\ doc' = Plain("login") /\ UNCHANGED account
  /\ UNCHANGED <<setting, posts, payments, disturbed>>

-----------------------------------------------------------------------------
(* The server.                                                             *)

SetState(s) == account' = [account EXCEPT !.state = s]

\* The bank accepts, or declines, or wants the card verified by visa; or the
\* account is gone.  A request may end in an error, with or without effect.
Charge(k) ==
  /\ payments[k] = "sent"
  /\ \/ /\ account.state = "gone"
        /\ payments' = [payments EXCEPT ![k] = "failed"] /\ UNCHANGED account
     \/ /\ account.state # "gone"
        /\ \E r \in {"paid", "failed"} : payments' = [payments EXCEPT ![k] = r]
        /\ SetState("verified")
     \/ /\ account.state # "gone"
        /\ \E r \in {IF Ends(account.state) THEN "late" ELSE "declined", "failed"} :
             payments' = [payments EXCEPT ![k] = r]
        /\ UNCHANGED account
     \/ /\ account.state # "gone"
        /\ payments' = [payments EXCEPT ![k] = "detour"] /\ SetState("temporary")
  /\ UNCHANGED <<setting, doc, posts, disturbed>>

\* The detour ends, and its verification with it, or the portal raises.
EndDetour(k) ==
  /\ payments[k] = "detour"
  /\ \/ /\ \E r \in {"bank", "declined"} : payments' = [payments EXCEPT ![k] = r]
        /\ IF account.state = "gone" THEN UNCHANGED account ELSE SetState("unverified")
     \/ payments' = [payments EXCEPT ![k] = "failed"] /\ UNCHANGED account
  /\ UNCHANGED <<setting, doc, posts, disturbed>>

\* The telephone verifies an account by mobile phone.
Called ==
  /\ account.state = "unverified" /\ account.method = "mobile"
  /\ SetState("verified")
  /\ UNCHANGED <<setting, doc, posts, payments, disturbed>>

\* The house keeper removes or deactivates an account that is not verified in
\* time; nobody is signed in to it any more.
Expire ==
  /\ account.state = "unverified"
  /\ SetState("gone")
  /\ UNCHANGED <<setting, doc, posts, payments, disturbed>>

VerificationNext ==
  \/ Follow \/ Reload \/ PollRead \/ PollLost \/ Poll \/ WindowLoads \/ Toggle
  \/ Key \/ KeyReleased
  \/ \E k \in Payment : \/ Pay(k) \/ Timer(k) \/ Answer(k) \/ AnswerFailed(k)
                        \/ Charge(k) \/ EndDetour(k)
  \/ GoToAccount \/ Proceed \/ Return \/ Called \/ Expire
  \/ EffectEnds("verification", {"overlay", "spinner", "message"})
=============================================================================
