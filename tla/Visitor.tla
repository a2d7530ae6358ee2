------------------------------- MODULE Visitor -------------------------------
(***************************************************************************)
(* A visitor signs up and has the account verified: the sign-up page and   *)
(* the verification page in one browser, with the server behind them.      *)
(***************************************************************************)
EXTENDS RegistrationPage, VerificationPage

CONSTANT Settings   \* the visitors and pages considered

ASSUME SettingsAssumption ==
  Settings \subseteq [patient : BOOLEAN, enhance : BOOLEAN, mobile : BOOLEAN]

VisitorInit ==
  /\ setting \in Settings
  /\ doc = Registration(FALSE, "none")
  /\ account = [state |-> "none", method |-> "none"]
  /\ posts = [i \in Post |-> "none"]
  /\ payments = [k \in Payment |-> "none"]
  /\ disturbed = FALSE

VisitorNext == RegistrationNext \/ VerificationNext

VisitorSpec == VisitorInit /\ [][VisitorNext]_visitVars

\* The page polls as long as it is there and not every answer is lost; the
\* browser follows a redirect.  Nothing is asked of the visitor.
VisitorFairness == WF_visitVars(Follow) /\ WF_visitVars(PollRead) /\ SF_visitVars(Poll)

VisitorFairSpec == VisitorSpec /\ VisitorFairness

-----------------------------------------------------------------------------

Elements == {"form", "social", "confirm", "overlay", "spinner", "message"}

\* Documents, accounts and requests are what the pages expect.
VisitorTypeOK ==
  /\ doc.page \in {"registration", "to account", "to verification", "verification",
                   "account", "login", "expired", "additional", "bank", "error"}
  /\ \A x \in Elements \cap DOMAIN doc : IsElement(doc[x])
  /\ account.state \in {"none", "unverified", "temporary", "verified", "gone"}
  /\ account.method \in Method
  /\ \A i \in Post : posts[i] \in Method \cup {"created", "refused"}
  /\ On("verification") =>
       /\ doc.timers \cup doc.waiting \subseteq Payment
       /\ \A f \in Field : doc.number.len[f] \in 0..Width
       /\ doc.number.focus \in 1..(Fields + 1)
  /\ disturbed \in BOOLEAN

\* When the effects have ended, the parts of the form that the chosen method
\* needs are visible, and to a visitor who lets effects end no other: the
\* queued fadeIn and fadeOut of toggleVerificationMethod do not cross its
\* show() and hide().
SettledFits ==
  On("registration") /\ Settled =>
    LET sends == doc.method \in {"mobile", "card"}
        signs == doc.method = "social"
    IN /\ sends => doc.form.shown
       /\ signs => doc.social.shown
       /\ setting.patient => doc.form.shown = sends /\ doc.social.shown = signs
       /\ doc.readonly = doc.phone
       /\ doc.email => doc.confirm.shown

\* "prevent duplicate requests": with the mask of enhanceRegistration nobody
\* is shown the errors of a repeated request when the account was made,
\* unless the first answer was stopped.
AcceptedIsShown ==
  setting.enhance /\ ~disturbed =>
    ~(On("registration") /\ doc.errors /\ doc.await = 0 /\ account.state # "none")

\* A digit is lost only in a field that a 9 has filled, or because the key of
\* the digit that filled it was still down; and once the keys are up the focus
\* has left every full field but one that a 9 has filled, however they overlap.
DigitsKept ==
  On("verification") =>
    LET c == doc.number
    IN /\ c.lost \subseteq c.nines \cup c.rolled
       /\ c.held = {} /\ c.focus \in Field /\ c.len[c.focus] = Width => c.focus \in c.nines

\* To a visitor who waits, the mask is over the form exactly while the one
\* payment of the page is unanswered (or failed).
LockWhilePaying ==
  setting.patient /\ On("verification") =>
    /\ \A j, k \in doc.waiting : j = k
    /\ doc.waiting # {} => doc.raised
    /\ doc.waiting = {} /\ ~doc.failed => ~doc.raised

\* To a visitor who waits, the spinner and the message of a payment are gone
\* when the answer is there and effects and timers have ended: the togglePop
\* and toggleMessage of the request pair with those of its answer.
MessageGone ==
  /\ setting.patient /\ On("verification")
  /\ doc.waiting = {} /\ ~doc.failed /\ doc.timers = {}
  /\ Idle(doc.spinner) /\ Idle(doc.message)
  => ~doc.spinner.shown /\ ~doc.message.shown

\* Whom the bank wants to see is shown the bank's form.  A visitor who waits
\* misses it only by a reload of the page, the visitor's own or that of a poll
\* which read the verification of the detour.
BankOffered ==
  setting.patient /\ ~disturbed =>
    \A k \in Payment :
      /\ payments[k] = "bank" /\ account.state = "unverified"
      /\ \A j \in Payment : j > k => payments[j] = "none"
      => \/ On("verification") /\ (k \in doc.waiting \/ doc.panel = "bank")
         \/ doc.page \in {"bank", "error"}

\* Once the account is verified or gone the page is left, however many polls
\* are lost, unless a detour's end takes the verification back.
LeavesWhenSettled ==
  (On("verification") /\ account.state \in {"verified", "gone"})
    ~> (~On("verification") \/ account.state \notin {"verified", "gone"})
=============================================================================
