-------------------------- MODULE RegistrationPage --------------------------
(***************************************************************************)
(* The sign-up page: the verification method decides which parts of the    *)
(* form are visible, the field that confirms the e-mail slides in, and a   *)
(* mask keeps the form from being sent twice.  The e-mail stands for the   *)
(* password and the mobile phone, whose fields are treated alike.          *)
(*                                                                         *)
(* Left out: the copying of the phone number into the user name, what is   *)
(* typed, and the server's reasons for refusing it.                        *)
(***************************************************************************)
EXTENDS Visit

CONSTANT MaxEffects   \* bound: effects that wait for one element

\* Mutant: the form is left visible.
ToggleLeavingForm(d, m) ==
  [d EXCEPT !.method = m, !.phone = (m = "mobile"), !.card = (m = "card"),
            !.social = IF m = "social" THEN FadeIn(@) ELSE Hide(@),
            !.form = CASE m \in {"mobile", "card"} -> FadeIn(@)
                       [] m = "social" -> @
                       [] OTHER -> FadeOut(@)]

\* With use_mobile_phone_as_username.
ToggleReadonlyUsername(d) == [d EXCEPT !.readonly = (d.method = "mobile")]

\* The handler of "change".
ToggleVerificationMethod(d, m) == ToggleReadonlyUsername(
  [d EXCEPT !.method = m, !.phone = (m = "mobile"), !.card = (m = "card"),
            !.social = IF m = "social" THEN FadeIn(@) ELSE Hide(@),
            !.form = CASE m \in {"mobile", "card"} -> FadeIn(@)
                       [] m = "social" -> Hide(@)
                       [] OTHER -> FadeOut(@)])

\* enhanceRegistration hides the fields that confirm others unless the page
\* shows errors.
EnhanceRegistration(d) == [d EXCEPT !.confirm = Element(d.errors \/ ~setting.enhance)]

\* The page as the server renders it, with the handlers triggered at load
\* (initRegistration).
Registration(errors, m) ==
  EnhanceRegistration(ToggleVerificationMethod(
    [page |-> "registration", errors |-> errors, method |-> m, phone |-> TRUE,
     card |-> TRUE, readonly |-> FALSE, form |-> Element(FALSE),
     social |-> Element(FALSE), email |-> errors,
     confirm |-> Element(TRUE), mask |-> FALSE, await |-> 0], m))

Settled == Idle(doc.form) /\ Idle(doc.social) /\ Idle(doc.confirm)

\* Someone who waits does not act behind the mask or during an effect.
MayAct == setting.patient => Settled /\ ~doc.mask

Short(e) == Len(e.queue) < MaxEffects

-----------------------------------------------------------------------------

Change(m) ==
  /\ On("registration") /\ MayAct
  /\ m # doc.method /\ Short(doc.form) /\ Short(doc.social)
  /\ doc' = ToggleVerificationMethod(doc, m)
  /\ UNCHANGED <<setting, account, posts, payments, disturbed>>

\* The field gets the focus and is filled.
FillEmail ==
  /\ On("registration") /\ MayAct /\ doc.form.shown /\ Short(doc.confirm)
  /\ doc' = [doc EXCEPT !.email = TRUE,
                        !.confirm = IF setting.enhance /\ ~doc.errors /\ ~@.shown
                                    THEN SlideToggle(@) ELSE @]
  /\ UNCHANGED <<setting, account, posts, payments, disturbed>>

\* Mutant: the mask is not looked for.
SubmitTwice(i) ==
  /\ On("registration") /\ doc.form.shown /\ doc.email
  /\ setting.patient => Settled
  /\ doc.method # "none" /\ posts[i] = "none"
  /\ posts' = [posts EXCEPT ![i] = doc.method]
  /\ doc' = [doc EXCEPT !.await = i, !.mask = setting.enhance]
  /\ UNCHANGED <<setting, account, payments, disturbed>>

\* The form is sent, with the key Enter or the button, unless the mask is
\* there.  The browser then waits for this answer and no earlier one.
Submit(i) ==
  /\ On("registration") /\ doc.form.shown /\ doc.email /\ ~doc.mask
  /\ setting.patient => Settled
  /\ doc.method # "none" /\ posts[i] = "none"
  /\ posts' = [posts EXCEPT ![i] = doc.method]
  /\ doc' = [doc EXCEPT !.await = i, !.mask = setting.enhance]
  /\ UNCHANGED <<setting, account, payments, disturbed>>

Awaited(i) == On("registration") /\ doc.await = i

\* A result nobody waits for is forgotten.
Result(i, r) == posts' = [posts EXCEPT ![i] = IF Awaited(i) THEN r ELSE "none"]

\* The server makes the account, the first and only one, or refuses what was
\* typed, as it does when the account is there.
Create(i) ==
  /\ posts[i] \in Method \ {"none"}
  /\ \/ /\ account.state = "none"
        /\ account' = [state |-> "unverified", method |-> posts[i]]
        /\ Result(i, "created")
     \/ Result(i, "refused") /\ UNCHANGED account
  /\ UNCHANGED <<setting, doc, payments, disturbed>>

Answered(i) ==
  /\ Awaited(i) /\ posts[i] \in {"created", "refused"}
  /\ doc' = IF posts[i] = "created" THEN Plain("to account")
                                    ELSE Registration(TRUE, doc.method)
  /\ posts' = [posts EXCEPT ![i] = "none"]
  /\ UNCHANGED <<setting, account, payments, disturbed>>

\* The visitor does not wait for the answer.
Abandon(d) ==
  /\ doc' = d
  /\ posts' = [i \in Post |->
                 IF Awaited(i) /\ posts[i] \in {"created", "refused"} THEN "none" ELSE posts[i]]
  /\ disturbed' = TRUE
  /\ UNCHANGED <<setting, account, payments>>

\* The browser's Stop leaves the page, and its mask, as they are.
Stop == On("registration") /\ doc.await # 0 /\ Abandon([doc EXCEPT !.await = 0])

\* The address is visited again; who has been signed in meanwhile is sent on.
Revisit ==
  /\ On("registration")
  /\ \/ Abandon(Registration(FALSE, "none"))
     \/ account.state # "none" /\ Abandon(Plain("to account"))

RegistrationNext ==
  \/ \E m \in Method : Change(m)
  \/ FillEmail \/ Stop \/ Revisit
  \/ \E i \in Post : Submit(i) \/ Create(i) \/ Answered(i)
  \/ EffectEnds("registration", {"form", "social", "confirm"})
=============================================================================
