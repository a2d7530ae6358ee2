---------------------------- MODULE BrowserProofs ----------------------------
(***************************************************************************)
(* What holds in the browsers of a visitor and of the staff, for any       *)
(* number of requests, payments, lists and updates, any width of the       *)
(* fields of a card, any roles, dates and boxes, and installations at any  *)
(* of the roots the program knows.                                         *)
(*                                                                         *)
(* What an element will look like is decided by the effects that wait on   *)
(* it, of which there may be any number.  Elements that fade (Fades) have  *)
(* a Fate, what the last effect makes of them; elements that slide         *)
(* (Slides) take every effect to the value that is left when all of them   *)
(* have been counted.  The pages are in order when the fate of each        *)
(* element agrees with what the script believes: RegistrationSound,        *)
(* VerificationSound, GraphsSound, UsersSound, OperatorSound.  VisitorInv  *)
(* joins them to the account and the payments on the server, ConsoleInv    *)
(* to the session and the installation.                                    *)
(***************************************************************************)
EXTENDS Visitor, Console, WellFoundedInduction, SequenceTheorems, FiniteSetTheorems, TLAPS

-----------------------------------------------------------------------------
(* Elements that fade.                                                     *)

\* Min is a CHOOSE: a set of naturals has a least member.
LEMMA MinChosen ==
  ASSUME NEW S, S \subseteq Nat, S # {}
  PROVE  Min(S) \in S
<1> DEFINE R == OpToRel(<, Nat)
<1>1. \A x, y \in Nat : <<x, y>> \in R <=> x < y
  BY DEF OpToRel
<1>2. \E x \in S : \A y \in S : ~ (<<y, x>> \in R)
  <2>1. IsWellFoundedOn(R, Nat)
    BY NatLessThanWellFounded
  <2> HIDE DEF R
  <2> QED BY <2>1, WFMin
<1>3. PICK x \in S : \A y \in S : ~ (<<y, x>> \in R)
  BY <1>2
<1> HIDE DEF R
<1>4. \A y \in S : x <= y
  <2> TAKE y \in S
  <2>1. x \in Nat /\ y \in Nat
    OBVIOUS
  <2>2. ~(y < x)
    BY <2>1, <1>1, <1>3
  <2> QED BY <2>1, <2>2
<1> QED BY <1>4 DEF Min

-----------------------------------------------------------------------------

ElementOf(effects) == [shown : BOOLEAN, closing : BOOLEAN, queue : Seq(effects)]

Fading == {"in", "out"}

\* An element that fades: what it does is what its queue begins with.
Fades(e) ==
  /\ e \in ElementOf(Fading)
  /\ e.closing = (~Idle(e) /\ e.queue[1] = "out")

\* What is visible when all effects have ended: the last effect decides.
Fate(e) == IF Len(e.queue) > 1 THEN e.queue[Len(e.queue)] = "in" ELSE e.shown /\ ~e.closing

\* The queue begins with its first effect that changes anything, or is dropped.
LEMMA BeginFades ==
  ASSUME NEW e \in ElementOf(Fading)
  PROVE  LET b == Begin(e)
         IN /\ Fades(b)
            /\ Len(b.queue) <= Len(e.queue)
            /\ ~Idle(b) => b.shown
            /\ Fate(b) = IF Idle(e) THEN e.shown ELSE e.queue[Len(e.queue)] = "in"
<1> DEFINE n == Len(e.queue)
           live == {i \in DOMAIN e.queue : \/ e.queue[i] \in {"toggle", "swap"}
                                          \/ (e.queue[i] = "in") = ~e.shown}
<1>1. n \in Nat /\ DOMAIN e.queue = 1..n /\ \A i \in 1..n : e.queue[i] \in Fading
  BY DEF ElementOf
<1>2. CASE live = {}
  <2>1. Begin(e) = [e EXCEPT !.closing = FALSE, !.queue = <<>>]
    BY <1>2 DEF Begin
  <2>2. ~Idle(e) => (e.queue[n] = "in") = e.shown
    BY <1>1, <1>2 DEF Idle, Fading, ElementOf
  <2> DEFINE b == Begin(e)
  <2>3. /\ b \in ElementOf(Fading) /\ b.shown = e.shown /\ b.closing = FALSE
        /\ b.queue = <<>> /\ Len(b.queue) = 0
    BY <2>1, EmptySeq DEF ElementOf
  <2> HIDE DEF b
  <2>4. Fades(b) /\ Idle(b)
    BY <2>3 DEF Fades, Idle
  <2>6. Len(b.queue) <= n
    BY <1>1, <2>3
  <2>5. Fate(b) = e.shown
    BY <2>3 DEF Fate, ElementOf
  <2> QED BY <2>2, <2>4, <2>5, <2>6 DEF b, ElementOf
<1>3. CASE live # {}
  <2> DEFINE m == Min(live)
  <2>1. m \in live
    <3>1. live \subseteq Nat
      BY <1>1
    <3> HIDE DEF live
    <3> QED BY <1>3, <3>1, MinChosen
  <2>2. m \in 1..n /\ (e.queue[m] = "in") = ~e.shown
    BY <1>1, <2>1 DEF Fading
  <2>3. Begin(e) = [shown |-> TRUE, closing |-> e.shown, queue |-> SubSeq(e.queue, m, n)]
    BY <1>3 DEF Begin
  <2> HIDE DEF m, live
  <2> DEFINE q == SubSeq(e.queue, m, n)
  <2>4. /\ q \in Seq(Fading) /\ Len(q) = n - m + 1 /\ q # <<>>
        /\ q[1] = e.queue[m] /\ q[Len(q)] = e.queue[n]
    <3>1. n \in Int /\ m \in Int /\ \A i \in m..n : e.queue[i] \in Fading
      BY <1>1, <2>2
    <3>2. /\ q \in Seq(Fading) /\ Len(q) = IF m <= n THEN n - m + 1 ELSE 0
          /\ \A i \in 1..(n - m + 1) : q[i] = e.queue[m + i - 1]
      BY <3>1, SubSeqProperties
    <3> HIDE DEF q, n
    <3>3. Len(q) = n - m + 1 /\ 1 \in 1..Len(q) /\ Len(q) \in 1..Len(q)
      BY <1>1, <2>2, <3>2
    <3>4. q[1] = e.queue[m] /\ q[Len(q)] = e.queue[n]
      BY <1>1, <2>2, <3>2, <3>3
    <3> QED BY <3>2, <3>3, <3>4, EmptySeq
  <2> HIDE DEF q
  <2>5. q[1] \in Fading /\ e.queue # <<>>
    BY <1>1, <2>2, <2>4
  <2> QED BY <1>1, <2>2, <2>3, <2>4, <2>5 DEF Fades, Fate, Idle, ElementOf, Fading, q
<1> QED BY <1>2, <1>3

\* The effect queued last decides the fate.
LEMMA EnqueueFades ==
  ASSUME NEW e, Fades(e), NEW f \in Fading
  PROVE  LET b == Enqueue(e, f)
         IN /\ Fades(b)
            /\ Len(b.queue) <= Len(e.queue) + 1
            /\ Idle(e) /\ ~Idle(b) => b.shown
            /\ ~Idle(e) => b.shown = e.shown
            /\ Fate(b) = (f = "in")
<1> DEFINE l == [e EXCEPT !.queue = Append(@, f)]
<1>1. /\ l \in ElementOf(Fading) /\ ~Idle(l) /\ l.queue[Len(l.queue)] = f
      /\ Len(l.queue) = Len(e.queue) + 1 /\ l.shown = e.shown /\ l.closing = e.closing
      /\ ~Idle(e) => l.queue[1] = e.queue[1] /\ Len(l.queue) > 1
  BY DEF Fades, ElementOf, Idle
<1>2. Enqueue(e, f) = IF Idle(e) THEN Begin(l) ELSE l
  BY DEF Enqueue
<1> HIDE DEF l
<1>3. CASE Idle(e)
  BY <1>1, <1>2, <1>3, BeginFades
<1>4. CASE ~Idle(e)
  BY <1>1, <1>2, <1>4 DEF Fades, Fate
<1> QED BY <1>3, <1>4

\* The end of an effect leaves the fate alone.
LEMMA FinishFades ==
  ASSUME NEW e, Fades(e), ~Idle(e)
  PROVE  LET b == Finish(e)
         IN /\ Fades(b)
            /\ Len(b.queue) < Len(e.queue)
            /\ Fate(b) = Fate(e)
            /\ Fate(e) => b.shown
<1> DEFINE t == [e EXCEPT !.shown = @ /\ ~e.closing, !.queue = Tail(@)]
<1>1. /\ t \in ElementOf(Fading) /\ t.shown = (e.shown /\ ~e.closing)
      /\ Len(t.queue) = Len(e.queue) - 1 /\ Len(e.queue) \in Nat \ {0}
      /\ Idle(t) <=> Len(e.queue) = 1
      /\ ~Idle(t) => t.queue[Len(t.queue)] = e.queue[Len(e.queue)]
  <2> DEFINE q == Tail(e.queue)
  <2>1. e.queue \in Seq(Fading) /\ e.queue # <<>> /\ e.shown \in BOOLEAN /\ e.closing \in BOOLEAN
    BY DEF Fades, ElementOf, Idle
  <2>2. /\ q \in Seq(Fading) /\ Len(q) = Len(e.queue) - 1 /\ Len(e.queue) \in Nat \ {0}
        /\ \A i \in 1..Len(q) : q[i] = e.queue[i + 1]
    BY <2>1, HeadTailProperties, EmptySeq
  <2>3. q = <<>> <=> Len(q) = 0
    BY <2>2, EmptySeq
  <2>4. t \in ElementOf(Fading) /\ t.shown = (e.shown /\ ~e.closing) /\ t.queue = q
    BY <2>1, <2>2 DEF Fades, ElementOf
  <2> HIDE DEF q, t
  <2> QED BY <2>2, <2>3, <2>4 DEF Idle
<1>2. Finish(e) = Begin(t)
  BY DEF Finish
<1> HIDE DEF t
<1> DEFINE b == Begin(t)
<1>3. /\ Fades(b) /\ Len(b.queue) <= Len(t.queue) /\ (~Idle(b) => b.shown)
      /\ Fate(b) = IF Idle(t) THEN t.shown ELSE t.queue[Len(t.queue)] = "in"
  BY <1>1, BeginFades
<1> HIDE DEF b
<1>4. Len(b.queue) \in Nat /\ (Idle(b) <=> Len(b.queue) = 0)
  BY <1>3 DEF Fades, ElementOf, Idle
<1>5. Fate(b) = Fate(e)
  <2>1. CASE Idle(t)
    BY <1>1, <1>3, <2>1 DEF Fate
  <2>2. CASE ~Idle(t)
    <3>1. Len(e.queue) > 1 /\ Fate(b) = (e.queue[Len(e.queue)] = "in")
      <4>1. Len(e.queue) > 1
        BY <1>1, <2>2 DEF Idle
      <4> QED BY <1>1, <1>3, <2>2, <4>1
    <3> QED BY <3>1 DEF Fate
  <2> QED BY <2>1, <2>2
<1>6. Len(b.queue) < Len(e.queue)
  BY <1>1, <1>3, <1>4
<1>7. Fate(e) => b.shown
  BY <1>3, <1>4, <1>5 DEF Fate
<1> QED BY <1>2, <1>3, <1>5, <1>6, <1>7 DEF b

\* hide() at once leaves the effects that wait.
LEMMA HideFades ==
  ASSUME NEW e, Fades(e)
  PROVE  LET h == Hide(e)
         IN Fades(h) /\ h.queue = e.queue /\ ~h.shown /\ (Len(e.queue) <= 1 => ~Fate(h))
<1> DEFINE h == Hide(e)
<1>1. h \in ElementOf(Fading) /\ h.queue = e.queue /\ ~h.shown /\ h.closing = e.closing
  BY DEF Fades, Hide, ElementOf
<1>2. e.queue \in Seq(Fading) /\ Len(e.queue) \in Nat
  BY DEF Fades, ElementOf
<1> HIDE DEF h
<1>3. Fades(h)
  BY <1>1 DEF Fades, Idle
<1> QED BY <1>1, <1>2, <1>3 DEF Fate, h

\* An element that slides: every effect does something.
Sliding == {"toggle", "swap"}

\* An effect that toggles always changes something: none is dropped.
LEMMA BeginSlides ==
  ASSUME NEW e \in ElementOf(Sliding)
  PROVE  Begin(e) = IF Idle(e) THEN [e EXCEPT !.closing = FALSE]
                    ELSE [shown |-> TRUE, closing |-> e.shown, queue |-> e.queue]
<1> DEFINE n == Len(e.queue)
           live == {i \in DOMAIN e.queue : \/ e.queue[i] \in {"toggle", "swap"}
                                          \/ (e.queue[i] = "in") = ~e.shown}
<1>1. e.queue \in Seq(Sliding) /\ n \in Nat /\ DOMAIN e.queue = 1..n
  BY DEF ElementOf
<1>2. live = 1..n
  BY <1>1 DEF Sliding
<1>3. Begin(e) = IF live = {} THEN [e EXCEPT !.closing = FALSE, !.queue = <<>>]
                 ELSE [shown |-> TRUE, closing |-> e.shown, queue |-> SubSeq(e.queue, Min(live), n)]
  BY DEF Begin
<1> HIDE DEF live
<1>4. CASE Idle(e)
  <2>1. e.queue = <<>> /\ n = 0
    BY <1>4, EmptySeq DEF Idle
  <2>2. live = {}
    BY <1>2, <2>1
  <2>3. [e EXCEPT !.closing = FALSE, !.queue = <<>>] = [e EXCEPT !.closing = FALSE]
    BY <2>1 DEF ElementOf
  <2> QED BY <1>3, <1>4, <2>2, <2>3
<1>5. CASE ~Idle(e)
  <2>1. n \in Nat \ {0} /\ 1 \in live
    BY <1>1, <1>2, <1>5, EmptySeq DEF Idle
  <2>2. Min(live) = 1
    BY <1>1, <1>2, <2>1 DEF Min
  <2>3. SubSeq(e.queue, 1, n) = e.queue
    <3>1. \A i \in 1..n : e.queue[i] \in Sliding
      BY <1>1
    <3> DEFINE q == SubSeq(e.queue, 1, n)
    <3>2. q \in Seq(Sliding) /\ Len(q) = n /\ \A i \in 1..n : q[i] = e.queue[i]
      <4>1. /\ q \in Seq(Sliding) /\ Len(q) = IF 1 <= n THEN n - 1 + 1 ELSE 0
            /\ \A i \in 1..(n - 1 + 1) : q[i] = e.queue[1 + i - 1]
        BY <1>1, <3>1, SubSeqProperties
      <4> HIDE DEF q, n
      <4> QED BY <2>1, <4>1
    <3> HIDE DEF q
    <3>3. q = e.queue
      BY <1>1, <3>2, SeqEqual
    <3> QED BY <3>3 DEF q
  <2>4. live # {}
    BY <2>1
  <2> QED BY <1>3, <1>5, <2>2, <2>3, <2>4
<1> QED BY <1>4, <1>5

-----------------------------------------------------------------------------
(* The visitor: what is invariant.                                         *)

PlainDoc ==
  [page : {"to account", "to verification", "account", "login", "expired", "additional",
           "bank", "error"}]

RegistrationDoc ==
  [page : {"registration"}, method : Method, await : {0} \cup Post,
   errors : BOOLEAN, phone : BOOLEAN, card : BOOLEAN, readonly : BOOLEAN,
   email : BOOLEAN, mask : BOOLEAN,
   form : ElementOf(Fading), social : ElementOf(Fading), confirm : ElementOf({"toggle"})]

\* The fate of each part of the form is what the method wants of it.
Fitting(d) ==
  /\ Fades(d.form) /\ Fades(d.social)
  /\ d.phone = (d.method = "mobile") /\ d.readonly = d.phone
  /\ d.method \in {"mobile", "card"} => Fate(d.form)
  /\ d.method = "social" => Fate(d.social)
  /\ setting.patient => /\ d.method \notin {"mobile", "card"} => ~Fate(d.form)
                        /\ d.method # "social" => ~Fate(d.social)

\* The field that confirms is never on its way out, and there when it is due.
Confirming(d) ==
  /\ d.confirm.closing = FALSE
  /\ Len(d.confirm.queue) <= 1
  /\ ~Idle(d.confirm) \/ d.email \/ d.errors \/ ~setting.enhance => d.confirm.shown

RegistrationSound(d) == d \in RegistrationDoc /\ Fitting(d) /\ Confirming(d)

Number == [len : [Field -> 0..Width], focus : 1..(Fields + 1), held : SUBSET Digit,
           nines : SUBSET Field, lost : SUBSET Field, rolled : SUBSET Field]

\* A key is down that will move the focus on from a full field.
Moving(c) == \E e \in c.held : MovesOn(e)

\* What has not been typed into yet is empty, and a focus that stays on a full
\* field was left there by a 9, or a key is down that will move it on.
NumberSound(c) ==
  /\ c \in Number
  /\ \A f \in Field : f > c.focus => c.len[f] = 0
  /\ c.focus \in Field /\ c.len[c.focus] = Width => c.focus \in c.nines \/ Moving(c)
  /\ c.lost \subseteq c.nines \cup c.rolled

VerificationDoc ==
  [page : {"verification"}, panel : {"card", "paid", "bank"}, last : {0} \cup Payment,
   gateway : BOOLEAN, loaded : BOOLEAN, raised : BOOLEAN, failed : BOOLEAN,
   leaving : BOOLEAN, told : BOOLEAN,
   overlay : ElementOf(Fading), spinner : ElementOf(Fading), message : ElementOf(Fading),
   timers : SUBSET Payment, waiting : SUBSET Payment, number : Number]

\* Only the page of an account to be verified by card has the form.
VerificationSound(d) ==
  /\ d \in VerificationDoc
  /\ Fades(d.overlay) /\ Fades(d.spinner) /\ Fades(d.message)
  /\ NumberSound(d.number)
  /\ d.panel # "card" \/ d.waiting # {} => d.gateway

\* To a visitor who waits there is one payment at a time, with its mask, its
\* spinner, its timer and its message.
OnePayment(d) ==
  /\ \A j, k \in d.waiting : j = k
  /\ d.raised = (d.waiting # {} \/ d.failed)
  /\ d.failed => d.waiting = {}
  /\ d.panel # "card" => d.waiting = {}
  /\ d.waiting # {} => d.spinner.shown /\ Fate(d.spinner)
  /\ d.waiting = {} /\ ~d.failed => ~Fate(d.spinner) /\ ~Fate(d.message) /\ d.timers = {}
  /\ d.timers \subseteq {d.last}
  /\ d.timers # {} => Idle(d.message) /\ ~d.message.shown
  /\ Len(d.message.queue) <= 1

Documents ==
  \/ doc \in PlainDoc
  \/ RegistrationSound(doc)
  \/ VerificationSound(doc) /\ (setting.patient => OnePayment(doc))

\* What the server keeps.  There is an account once the sign-up page is left,
\* and no payment before.
Server ==
  /\ setting \in Settings
  /\ account \in [state : {"none", "unverified", "temporary", "verified", "gone"},
                  method : Method]
  /\ posts \in [Post -> Method \cup {"created", "refused"}]
  /\ payments \in [Payment -> {"none", "sent", "detour", "failed"} \cup Scripts]
  /\ disturbed \in BOOLEAN
  /\ account.state = "none" <=> account.method = "none"
  /\ account.state = "none" => On("registration") /\ \A i \in Post : posts[i] # "created"
  /\ On("registration") => \A k \in Payment : payments[k] = "none"
  /\ On("verification") /\ doc.gateway => account.method = "card"

\* One request at a time, the one waited for, and no account before its answer.
OneRequest ==
  setting.enhance /\ ~disturbed /\ On("registration") =>
    /\ \A i \in Post : posts[i] # "none" => i = doc.await
    /\ doc.await # 0 => doc.mask
    /\ account.state # "none" => \E i \in Post : posts[i] = "created"

Unsettled == {"unverified", "gone"}
Final == {"verified", "gone"}

\* What the states of the account and of the payment waited for say of each
\* other.
InStep(k) ==
  /\ payments[k] \in {"sent", "declined", "bank"} => account.state \in Unsettled
  /\ payments[k] = "detour" => account.state = "temporary"
  /\ payments[k] = "paid" => account.state = "verified"
  /\ payments[k] # "late"

\* A patient and undisturbed visitor is on the page while a payment is under
\* way, and leaves it when the account is verified or gone, or for the bank.
OnThePage ==
  /\ \A k \in Payment :
       payments[k] \in {"sent", "detour"} /\ account.state # "gone" =>
         On("verification") /\ k \in doc.waiting
  /\ account.state = "temporary" => On("verification")
  /\ On("verification") =>
       /\ \A k \in doc.waiting : InStep(k)
       /\ doc.gateway /\ ~doc.raised /\ doc.panel # "paid" => account.state \in Unsettled
       /\ doc.told \/ doc.leaving => account.state \in Final
  /\ ~On("verification") /\ account.state = "unverified" /\ doc.page \notin {"bank", "error"} =>
       \A k \in Payment : payments[k] = "none"
  /\ \A k \in Payment :
       payments[k] = "bank" =>
         \/ On("verification") /\ (k \in doc.waiting \/ doc.panel = "bank")
         \/ doc.page \in {"bank", "error"} \/ account.state \in Final

VisitorInv ==
  /\ Documents /\ Server /\ OneRequest
  /\ setting.patient /\ ~disturbed => OnThePage

-----------------------------------------------------------------------------
(* The sign-up page.                                                       *)

\* toggleVerificationMethod brings form and social buttons to a fate that fits.
LEMMA ToggleFits ==
  ASSUME NEW d \in RegistrationDoc, Fades(d.form), Fades(d.social), NEW m \in Method,
         setting.patient => Idle(d.form) /\ Idle(d.social)
  PROVE  LET t == ToggleVerificationMethod(d, m)
         IN /\ t \in RegistrationDoc /\ Fitting(t)
            /\ t.method = m /\ t.confirm = d.confirm /\ t.email = d.email
            /\ t.errors = d.errors /\ t.await = d.await /\ t.mask = d.mask
<1> DEFINE s == IF m = "social" THEN FadeIn(d.social) ELSE Hide(d.social)
           f == CASE m \in {"mobile", "card"} -> FadeIn(d.form)
                  [] m = "social" -> Hide(d.form)
                  [] OTHER -> FadeOut(d.form)
           t == ToggleVerificationMethod(d, m)
<1>1. Fades(s) /\ (m = "social" => Fate(s)) /\ (setting.patient /\ m # "social" => ~Fate(s))
  <2>1. CASE m = "social"
    BY <2>1, EnqueueFades DEF FadeIn, Fading
  <2>2. CASE m # "social"
    BY <2>2, HideFades DEF Idle
  <2> QED BY <2>1, <2>2
<1>2. /\ Fades(f) /\ (m \in {"mobile", "card"} => Fate(f))
      /\ setting.patient /\ m \notin {"mobile", "card"} => ~Fate(f)
  <2>1. CASE m \in {"mobile", "card"}
    BY <2>1, EnqueueFades DEF FadeIn, Fading
  <2>2. CASE m = "social"
    BY <2>2, HideFades DEF Idle
  <2>3. CASE m \notin {"mobile", "card", "social"}
    BY <2>3, EnqueueFades DEF FadeOut, Fading
  <2> QED BY <2>1, <2>2, <2>3
<1>3. s \in ElementOf(Fading) /\ f \in ElementOf(Fading)
  BY <1>1, <1>2 DEF Fades
<1>4. t = [d EXCEPT !.method = m, !.phone = (m = "mobile"), !.card = (m = "card"),
                    !.social = s, !.form = f, !.readonly = (m = "mobile")]
  BY DEF ToggleVerificationMethod, ToggleReadonlyUsername, RegistrationDoc
<1> HIDE DEF s, f, t
<1>5. /\ t \in RegistrationDoc
      /\ t.method = m /\ t.form = f /\ t.social = s
      /\ t.phone = (m = "mobile") /\ t.readonly = (m = "mobile")
      /\ t.confirm = d.confirm /\ t.email = d.email
      /\ t.errors = d.errors /\ t.await = d.await /\ t.mask = d.mask
  BY <1>3, <1>4 DEF RegistrationDoc
<1>6. Fitting(t)
  BY <1>1, <1>2, <1>5 DEF Fitting
<1> QED BY <1>5, <1>6 DEF t

\* The sign-up form as it is served and enhanced.
LEMMA RegistrationFits ==
  ASSUME setting \in Settings, NEW errors \in BOOLEAN, NEW m \in Method
  PROVE  LET r == Registration(errors, m)
         IN RegistrationSound(r) /\ r.await = 0 /\ r.errors = errors
<1> DEFINE b == [page |-> "registration", errors |-> errors, method |-> m, phone |-> TRUE,
                 card |-> TRUE, readonly |-> FALSE, form |-> Element(FALSE),
                 social |-> Element(FALSE), email |-> errors,
                 confirm |-> Element(TRUE), mask |-> FALSE, await |-> 0]
           t == ToggleVerificationMethod(b, m)
           r == Registration(errors, m)
<1>1. /\ Element(FALSE) \in ElementOf(Fading) /\ Fades(Element(FALSE)) /\ Idle(Element(FALSE))
      /\ \A v \in BOOLEAN : /\ Element(v) \in ElementOf({"toggle"}) /\ Idle(Element(v))
                            /\ Element(v).closing = FALSE /\ Len(Element(v).queue) = 0
                            /\ Element(v).shown = v
  BY EmptySeq DEF Element, ElementOf, Fades, Idle
<1>2. /\ b \in RegistrationDoc /\ b.form = Element(FALSE) /\ b.social = Element(FALSE)
      /\ b.errors = errors /\ b.email = errors /\ b.await = 0
  BY <1>1 DEF RegistrationDoc
<1> HIDE DEF b
<1>3. /\ t \in RegistrationDoc /\ Fitting(t)
      /\ t.errors = errors /\ t.email = errors /\ t.await = 0
  <2>1. Fades(b.form) /\ Fades(b.social) /\ Idle(b.form) /\ Idle(b.social)
    BY <1>1, <1>2
  <2> QED BY <1>2, <2>1, ToggleFits
<1>4. r = EnhanceRegistration(t)
  BY DEF Registration, b
<1> HIDE DEF t
<1> DEFINE v == errors \/ ~setting.enhance
<1>5. v \in BOOLEAN /\ r = [t EXCEPT !.confirm = Element(v)]
  BY <1>3, <1>4 DEF EnhanceRegistration
<1> HIDE DEF r
<1>6. /\ r \in RegistrationDoc /\ r.confirm = Element(v)
      /\ r.form = t.form /\ r.social = t.social /\ r.phone = t.phone
      /\ r.readonly = t.readonly /\ r.method = t.method
      /\ r.errors = errors /\ r.email = errors /\ r.await = 0
  BY <1>1, <1>3, <1>5 DEF RegistrationDoc
<1>7. Fitting(r)
  BY <1>3, <1>6 DEF Fitting
<1>8. Confirming(r)
  <2>1. /\ Idle(r.confirm) /\ r.confirm.closing = FALSE
        /\ Len(r.confirm.queue) = 0 /\ r.confirm.shown = v
    BY <1>1, <1>5, <1>6
  <2>2. ~Idle(r.confirm) \/ r.email \/ r.errors \/ ~setting.enhance => r.confirm.shown
    BY <1>6, <2>1
  <2> QED BY <2>1, <2>2 DEF Confirming
<1> QED BY <1>6, <1>7, <1>8 DEF RegistrationSound, r

\* The field that confirms slides in once.
LEMMA ConfirmSlides ==
  ASSUME NEW e \in ElementOf({"toggle"}), Idle(e), ~e.shown
  PROVE  LET b == SlideToggle(e)
         IN b \in ElementOf({"toggle"}) /\ b.shown /\ b.closing = FALSE /\ Len(b.queue) <= 1
<1> DEFINE q == <<"toggle">>
           l == [e EXCEPT !.queue = q]
<1>1. q \in Seq({"toggle"}) /\ q \in Seq(Sliding) /\ q # <<>> /\ Len(q) <= 1
  BY DEF Sliding
<1>2. /\ l \in ElementOf({"toggle"}) /\ l \in ElementOf(Sliding)
      /\ l.queue = q /\ l.shown = FALSE /\ ~Idle(l)
  BY <1>1 DEF ElementOf, Idle
<1>3. SlideToggle(e) = Begin(l)
  BY DEF SlideToggle, Enqueue, Idle, ElementOf
<1> HIDE DEF l, q
<1>4. Begin(l) = [shown |-> TRUE, closing |-> FALSE, queue |-> q]
  BY <1>2, BeginSlides
<1> QED BY <1>1, <1>3, <1>4 DEF ElementOf

\* The confirmation of the e-mail, once it slides in, stays.
LEMMA ConfirmStays ==
  ASSUME NEW e \in ElementOf({"toggle"}), ~Idle(e), Len(e.queue) <= 1, e.shown, e.closing = FALSE
  PROVE  LET b == Finish(e)
         IN b \in ElementOf({"toggle"}) /\ b.shown /\ b.closing = FALSE /\ Len(b.queue) <= 1
<1> DEFINE l == [e EXCEPT !.shown = @ /\ ~e.closing, !.queue = Tail(@)]
<1>1. e.queue \in Seq({"toggle"}) /\ e.queue # <<>> /\ Len(e.queue) = 1
  <2>1. e.queue \in Seq({"toggle"}) /\ e.queue # <<>>
    BY DEF ElementOf, Idle
  <2>2. Len(e.queue) \in Nat \ {0}
    BY <2>1, EmptySeq
  <2>3. \A n \in Nat \ {0} : n <= 1 => n = 1
    OBVIOUS
  <2>4. Len(e.queue) = 1
    BY <2>2, <2>3, Zenon
  <2> QED BY <2>1, <2>4
<1>2. Tail(e.queue) = <<>>
  <2>1. Tail(e.queue) \in Seq({"toggle"}) /\ Len(Tail(e.queue)) = 0
    BY <1>1, HeadTailProperties
  <2> QED BY <2>1, EmptySeq
<1>3. l = [e EXCEPT !.shown = TRUE, !.queue = <<>>]
  BY <1>2 DEF ElementOf
<1>4. Finish(e) = Begin(l)
  BY DEF Finish
<1> HIDE DEF l
<1>5. l \in ElementOf(Sliding) /\ Idle(l) /\ l.shown = TRUE /\ l.queue = <<>>
  BY <1>3, EmptySeq DEF ElementOf, Idle
<1>6. Begin(l) = [l EXCEPT !.closing = FALSE]
  BY <1>5, BeginSlides
<1>7. Len(<<>>) <= 1
  OBVIOUS
<1> QED BY <1>4, <1>5, <1>6, <1>7, EmptySeq DEF ElementOf

\* The handlers of the sign-up page, as steps of its document.
LEMMA ChangeSound ==
  ASSUME RegistrationSound(doc), setting \in Settings, NEW m \in Method, Change(m)
  PROVE  RegistrationSound(doc') /\ doc'.await = doc.await /\ doc'.mask = doc.mask
<1>1. doc \in RegistrationDoc /\ Fades(doc.form) /\ Fades(doc.social)
  BY DEF RegistrationSound, Fitting
<1>2. setting.patient => Idle(doc.form) /\ Idle(doc.social)
  BY DEF Change, MayAct, Settled
<1>3. doc' = ToggleVerificationMethod(doc, m)
  BY DEF Change
<1> DEFINE t == ToggleVerificationMethod(doc, m)
<1>4. /\ t \in RegistrationDoc /\ Fitting(t)
      /\ t.confirm = doc.confirm /\ t.email = doc.email
      /\ t.errors = doc.errors /\ t.await = doc.await /\ t.mask = doc.mask
  BY <1>1, <1>2, ToggleFits
<1> HIDE DEF t
<1>5. Confirming(t)
  BY <1>4 DEF RegistrationSound, Confirming
<1>6. t = doc'
  BY <1>3 DEF t
<1> QED BY <1>4, <1>5, <1>6 DEF RegistrationSound

\* The confirmation slides in when the e-mail is filled in.
LEMMA FillEmailSound ==
  ASSUME RegistrationSound(doc), setting \in Settings, FillEmail
  PROVE  RegistrationSound(doc') /\ doc'.await = doc.await /\ doc'.mask = doc.mask
<1> DEFINE slides == setting.enhance /\ ~doc.errors /\ ~doc.confirm.shown
           c == IF slides THEN SlideToggle(doc.confirm) ELSE doc.confirm
<1>1. doc' = [doc EXCEPT !.email = TRUE, !.confirm = c]
  BY DEF FillEmail, RegistrationSound, RegistrationDoc
<1>2. doc \in RegistrationDoc /\ doc.confirm \in ElementOf({"toggle"})
  BY DEF RegistrationSound, RegistrationDoc
<1>3. c \in ElementOf({"toggle"}) /\ c.shown /\ c.closing = FALSE /\ Len(c.queue) <= 1
  <2>1. CASE slides
    <3>1. Idle(doc.confirm)
      BY <2>1 DEF RegistrationSound, Confirming
    <3> DEFINE b == SlideToggle(doc.confirm)
    <3>2. b \in ElementOf({"toggle"}) /\ b.shown /\ b.closing = FALSE /\ Len(b.queue) <= 1
      BY <1>2, <2>1, <3>1, ConfirmSlides
    <3>3. c = b
      BY <2>1
    <3> HIDE DEF b, c
    <3> QED BY <3>2, <3>3
  <2>2. CASE ~slides
    <3>1. /\ doc.confirm.closing = FALSE /\ Len(doc.confirm.queue) <= 1
          /\ doc.errors \/ ~setting.enhance => doc.confirm.shown
      BY DEF RegistrationSound, Confirming
    <3> QED BY <1>2, <2>2, <3>1
  <2> QED BY <2>1, <2>2
<1> HIDE DEF c
<1>4. /\ doc' \in RegistrationDoc /\ doc'.confirm = c
      /\ doc'.form = doc.form /\ doc'.social = doc.social /\ doc'.phone = doc.phone
      /\ doc'.readonly = doc.readonly /\ doc'.method = doc.method
      /\ doc'.await = doc.await /\ doc'.mask = doc.mask
  BY <1>1, <1>2, <1>3 DEF RegistrationDoc
<1>5. setting' = setting
  BY DEF FillEmail
<1>6. Fitting(doc')
  BY <1>4, <1>5 DEF RegistrationSound, Fitting
<1>7. Confirming(doc')
  BY <1>3, <1>4 DEF Confirming
<1> QED BY <1>4, <1>6, <1>7 DEF RegistrationSound

\* An effect ends on the sign-up form.
LEMMA PartEndsSound ==
  ASSUME RegistrationSound(doc), setting \in Settings,
         EffectEnds("registration", {"form", "social", "confirm"})
  PROVE  RegistrationSound(doc') /\ doc'.await = doc.await /\ doc'.mask = doc.mask
<1>1. doc \in RegistrationDoc /\ Fades(doc.form) /\ Fades(doc.social)
  BY DEF RegistrationSound, Fitting
<1>2. PICK x \in {"form", "social", "confirm"} :
        ~Idle(doc[x]) /\ doc' = [doc EXCEPT ![x] = Finish(@)]
  BY DEF EffectEnds
<1>3. CASE x \in {"form", "social"}
  <2> DEFINE e == Finish(doc[x])
  <2>1. Fades(e) /\ Fate(e) = Fate(doc[x])
    BY <1>1, <1>2, <1>3, FinishFades
  <2>2. e \in ElementOf(Fading)
    BY <2>1 DEF Fades
  <2>3. doc' = [doc EXCEPT ![x] = e]
    BY <1>1, <1>2 DEF RegistrationDoc
  <2> HIDE DEF e
  <2>4. CASE x = "form"
    <3>1. /\ doc' \in RegistrationDoc /\ doc'.form = e
          /\ doc'.confirm = doc.confirm /\ doc'.email = doc.email /\ doc'.errors = doc.errors
          /\ doc'.social = doc.social /\ doc'.phone = doc.phone
          /\ doc'.readonly = doc.readonly /\ doc'.method = doc.method
          /\ doc'.await = doc.await /\ doc'.mask = doc.mask
      BY <1>1, <2>2, <2>3, <2>4 DEF RegistrationDoc
    <3>2. Fitting(doc') /\ Confirming(doc')
      BY <2>1, <2>4, <3>1 DEF RegistrationSound, Fitting, Confirming
    <3> QED BY <3>1, <3>2 DEF RegistrationSound
  <2>5. CASE x = "social"
    <3>1. /\ doc' \in RegistrationDoc /\ doc'.social = e
          /\ doc'.confirm = doc.confirm /\ doc'.email = doc.email /\ doc'.errors = doc.errors
          /\ doc'.form = doc.form /\ doc'.phone = doc.phone
          /\ doc'.readonly = doc.readonly /\ doc'.method = doc.method
          /\ doc'.await = doc.await /\ doc'.mask = doc.mask
      BY <1>1, <2>2, <2>3, <2>5 DEF RegistrationDoc
    <3>2. Fitting(doc') /\ Confirming(doc')
      BY <2>1, <2>5, <3>1 DEF RegistrationSound, Fitting, Confirming
    <3> QED BY <3>1, <3>2 DEF RegistrationSound
  <2> QED BY <1>3, <2>4, <2>5
<1>4. CASE x = "confirm"
  <2> DEFINE e == Finish(doc.confirm)
  <2>1. e \in ElementOf({"toggle"}) /\ e.shown /\ e.closing = FALSE /\ Len(e.queue) <= 1
    <3>1. /\ doc.confirm \in ElementOf({"toggle"}) /\ ~Idle(doc.confirm)
          /\ Len(doc.confirm.queue) <= 1 /\ doc.confirm.shown /\ doc.confirm.closing = FALSE
      BY <1>1, <1>2, <1>4 DEF RegistrationSound, Confirming, RegistrationDoc
    <3> QED BY <3>1, ConfirmStays
  <2>2. doc' = [doc EXCEPT !.confirm = e]
    BY <1>1, <1>2, <1>4 DEF RegistrationDoc
  <2> HIDE DEF e
  <2>3. /\ doc' \in RegistrationDoc /\ doc'.confirm = e
        /\ doc'.form = doc.form /\ doc'.social = doc.social /\ doc'.phone = doc.phone
        /\ doc'.readonly = doc.readonly /\ doc'.method = doc.method
        /\ doc'.await = doc.await /\ doc'.mask = doc.mask
    BY <1>1, <2>1, <2>2 DEF RegistrationDoc
  <2>4. Fitting(doc') /\ Confirming(doc')
    BY <2>1, <2>3 DEF RegistrationSound, Fitting, Confirming
  <2> QED BY <2>3, <2>4 DEF RegistrationSound
<1> QED BY <1>2, <1>3, <1>4

\* A request is sent, or the browser does not wait for it any more.
LEMMA SubmitSound ==
  ASSUME RegistrationSound(doc), setting \in Settings,
         NEW i \in {0} \cup Post, NEW m \in BOOLEAN,
         doc' = [doc EXCEPT !.await = i, !.mask = m]
  PROVE  RegistrationSound(doc') /\ doc'.await = i /\ doc'.mask = m
<1>1. /\ doc' \in RegistrationDoc /\ doc'.await = i /\ doc'.mask = m
      /\ doc'.confirm = doc.confirm /\ doc'.email = doc.email /\ doc'.errors = doc.errors
      /\ doc'.form = doc.form /\ doc'.social = doc.social /\ doc'.phone = doc.phone
      /\ doc'.readonly = doc.readonly /\ doc'.method = doc.method
  BY DEF RegistrationSound, RegistrationDoc
<1>2. Fitting(doc') /\ Confirming(doc')
  BY <1>1 DEF RegistrationSound, Fitting, Confirming
<1> QED BY <1>1, <1>2 DEF RegistrationSound

-----------------------------------------------------------------------------
(* The number of the card.                                                 *)

\* The number of a card before it is typed, and when it is complete.
LEMMA BlankSound == NumberSound(Blank) /\ NumberSound(Full)
<1>1. Blank \in Number
  BY FieldsAssumption DEF Blank, Number, Field
<1>2. /\ Full \in Number /\ Full.len = [f \in Field |-> Width] /\ Full.focus = Fields + 1
      /\ Full.lost = {}
  <2>1. [f \in Field |-> Width] \in [Field -> 0..Width] /\ Fields + 1 \in 1..(Fields + 1)
    BY FieldsAssumption
  <2>2. Blank.lost = {}
    BY DEF Blank
  <2> QED BY <1>1, <2>1, <2>2 DEF Full, Number
<1>3. /\ Fields + 1 \notin Field /\ \A f \in Field : ~(f > Fields + 1)
  BY FieldsAssumption DEF Field
<1>4. NumberSound(Full)
  BY <1>2, <1>3 DEF NumberSound
<1>5. NumberSound(Blank)
  <2>1. /\ Blank.len = [f \in Field |-> 0] /\ Blank.focus = 1 /\ Blank.lost = {}
    BY DEF Blank
  <2>2. 1 \in Field /\ Width # 0
    BY FieldsAssumption DEF Field
  <2> QED BY <1>1, <2>1, <2>2 DEF NumberSound
<1> QED BY <1>4, <1>5

\* A digit is typed.
LEMMA KeyDownSound ==
  ASSUME NEW c, NumberSound(c), c.focus \in Field, NEW d \in Digit
  PROVE  NumberSound(KeyDown(c, d))
<1> DEFINE f == c.focus
           room == c.len[f] < Width
           len == [c.len EXCEPT ![f] = IF room THEN @ + 1 ELSE @]
           held == c.held \cup {d}
           nines == IF c.len[f] + 1 = Width /\ d = 9 THEN c.nines \cup {f} ELSE c.nines
           lost == IF room THEN c.lost ELSE c.lost \cup {f}
           rolled == IF ~room /\ Moving(c) THEN c.rolled \cup {f} ELSE c.rolled
           t == KeyDown(c, d)
<1>1. /\ c \in Number /\ f \in Field /\ Fields \in Nat \ {0} /\ Width \in Nat \ {0}
      /\ Field = 1..Fields /\ c.len \in [Field -> 0..Width] /\ c.len[f] \in 0..Width
      /\ d \in 0..9
  BY FieldsAssumption, DigitAssumption DEF NumberSound, Field, Number
<1>2. t = [c EXCEPT !.len = len, !.held = held, !.nines = nines, !.lost = lost,
                    !.rolled = rolled]
  BY <1>1 DEF KeyDown, Number, Moving
<1>3. len \in [Field -> 0..Width]
  <2>1. (IF room THEN c.len[f] + 1 ELSE c.len[f]) \in 0..Width
    BY <1>1
  <2> QED BY <1>1, <2>1
<1>4. /\ held \in SUBSET Digit
      /\ lost \in SUBSET Field /\ nines \in SUBSET Field /\ rolled \in SUBSET Field
  BY <1>1 DEF Number
<1>5. \A g \in Field : len[g] = IF g = f /\ room THEN c.len[g] + 1 ELSE c.len[g]
  BY <1>1
<1> HIDE DEF t, len, held, nines, lost, rolled
<1>6. /\ t \in Number /\ t.len = len /\ t.held = held /\ t.lost = lost
      /\ t.nines = nines /\ t.rolled = rolled /\ t.focus = f
  BY <1>1, <1>2, <1>3, <1>4 DEF Number
<1>7. \A g \in Field : g > f => len[g] = 0
  BY <1>1, <1>5 DEF NumberSound
<1>8. len[f] = Width => f \in nines \/ Moving(t)
  <2>1. CASE room
    <3> SUFFICES ASSUME len[f] = Width PROVE f \in nines \/ Moving(t)
      OBVIOUS
    <3>1. c.len[f] + 1 = Width
      BY <1>1, <1>5, <2>1
    <3>2. CASE d = 9
      BY <3>1, <3>2 DEF nines
    <3>3. CASE d # 9
      <4>1. MovesOn(d)
        BY <1>1, <3>3 DEF MovesOn
      <4>2. d \in t.held
        BY <1>6 DEF held
      <4> QED BY <4>1, <4>2 DEF Moving
    <3> QED BY <3>2, <3>3
  <2>2. CASE ~room
    <3>1. c.len[f] = Width
      BY <1>1, <2>2
    <3>2. f \in c.nines \/ Moving(c)
      BY <1>1, <3>1 DEF NumberSound
    <3>3. Moving(c) => Moving(t)
      BY <1>6 DEF Moving, held
    <3> QED BY <3>2, <3>3 DEF nines
  <2> QED BY <2>1, <2>2
<1>9. lost \subseteq nines \cup rolled
  <2>1. c.lost \subseteq c.nines \cup c.rolled
    BY DEF NumberSound
  <2>2. CASE room
    BY <2>1, <2>2 DEF lost, nines, rolled
  <2>3. CASE ~room
    <3>1. f \in c.nines \/ Moving(c)
      BY <1>1, <2>3 DEF NumberSound
    <3> QED BY <2>1, <2>3, <3>1 DEF lost, nines, rolled
  <2> QED BY <2>2, <2>3
<1> QED BY <1>6, <1>7, <1>8, <1>9 DEF NumberSound, t

\* A key comes up, and the focus may move on.
LEMMA KeyUpSound ==
  ASSUME NEW c, NumberSound(c), NEW d \in c.held
  PROVE  NumberSound(KeyUp(c, d))
<1> DEFINE f == c.focus
           moves == f \in Field /\ c.len[f] = Width /\ MovesOn(d)
           held == c.held \ {d}
           focus == IF moves THEN f + 1 ELSE f
           t == KeyUp(c, d)
<1>1. /\ c \in Number /\ Fields \in Nat \ {0} /\ Width \in Nat \ {0}
      /\ Field = 1..Fields /\ f \in 1..(Fields + 1)
  BY FieldsAssumption DEF NumberSound, Field, Number
<1>2. t = [c EXCEPT !.held = held, !.focus = focus]
  BY <1>1 DEF KeyUp, Number
<1>3. focus \in 1..(Fields + 1) /\ held \in SUBSET Digit
  BY <1>1 DEF Number
<1> HIDE DEF t, held, focus
<1>4. /\ t \in Number /\ t.len = c.len /\ t.held = held /\ t.lost = c.lost
      /\ t.nines = c.nines /\ t.rolled = c.rolled /\ t.focus = focus
  BY <1>1, <1>2, <1>3 DEF Number
<1>5. \A g \in Field : g > focus => c.len[g] = 0
  BY <1>1 DEF NumberSound, focus
<1>6. focus \in Field /\ c.len[focus] = Width => focus \in c.nines \/ Moving(t)
  <2>1. CASE moves
    <3>1. focus = f + 1 /\ f + 1 > f
      BY <1>1, <2>1 DEF focus
    <3>2. f + 1 \in Field => c.len[f + 1] = 0
      BY <1>1, <3>1 DEF NumberSound
    <3> QED BY <1>1, <3>1, <3>2
  <2>2. CASE ~moves
    <3> SUFFICES ASSUME f \in Field, c.len[f] = Width
                 PROVE  f \in c.nines \/ Moving(t)
      BY <2>2 DEF focus
    <3>1. ~MovesOn(d)
      BY <2>2
    <3>2. f \in c.nines \/ Moving(c)
      BY DEF NumberSound
    <3> QED BY <1>4, <3>1, <3>2 DEF Moving, held
  <2> QED BY <2>1, <2>2
<1> QED BY <1>4, <1>5, <1>6 DEF NumberSound, t

\* A digit is deleted, and the focus may move back.
LEMMA BackspaceSound ==
  ASSUME NEW c, NumberSound(c), c.focus \in Field
  PROVE  NumberSound(Backspace(c))
<1> DEFINE f == c.focus
           len == [c.len EXCEPT ![f] = IF @ > 0 THEN @ - 1 ELSE @]
           b == Backspace(c)
<1>1. /\ c \in Number /\ f \in Field /\ Fields \in Nat \ {0} /\ Width \in Nat \ {0}
      /\ Field = 1..Fields /\ c.len \in [Field -> 0..Width]
  BY FieldsAssumption DEF NumberSound, Field, Number
<1>2. b = [c EXCEPT !.len = len, !.lost = c.lost \ {f}, !.nines = c.nines \ {f},
                    !.rolled = c.rolled \ {f}]
  BY <1>1 DEF Backspace, Number
<1>3. len \in [Field -> 0..Width]
  BY <1>1
<1>4. \A g \in Field : len[g] = IF g = f /\ c.len[g] > 0 THEN c.len[g] - 1 ELSE c.len[g]
  BY <1>1
<1> HIDE DEF b, len
<1>5. /\ b \in Number /\ b.len = len /\ b.focus = f
      /\ b.lost = c.lost \ {f} /\ b.nines = c.nines \ {f} /\ b.rolled = c.rolled \ {f}
  BY <1>1, <1>2, <1>3 DEF Number
<1>6. \A g \in Field : g > f => len[g] = 0
  <2> TAKE g \in Field
  <2> HAVE g > f
  <2>1. c.len[g] = 0 /\ g # f
    BY <1>1 DEF NumberSound
  <2> QED BY <2>1, <1>4
<1>7. len[f] # Width
  <2>1. c.len[f] \in 0..Width
    BY <1>1 DEF Number
  <2>2. len[f] = IF c.len[f] > 0 THEN c.len[f] - 1 ELSE c.len[f]
    BY <1>1, <1>4
  <2> QED BY <1>1, <2>1, <2>2
<1> QED BY <1>5, <1>6, <1>7 DEF NumberSound, b

-----------------------------------------------------------------------------
(* The verification page.                                                  *)

\* An element on which nothing has happened.
LEMMA ElementFades ==
  ASSUME NEW v \in BOOLEAN
  PROVE  LET e == Element(v)
         IN /\ Fades(e) /\ Idle(e) /\ e \in ElementOf(Fading)
            /\ Len(e.queue) <= 1 /\ e.shown = v /\ Fate(e) = v
<1> DEFINE e == Element(v)
<1>1. e.queue = <<>> /\ e.shown = v /\ e.closing = FALSE /\ e \in ElementOf(Fading)
  BY EmptySeq DEF Element, ElementOf
<1>2. Len(<<>>) <= 1
  OBVIOUS
<1>3. Len(<<>>) = 0
  OBVIOUS
<1> HIDE DEF e
<1>4. Fades(e) /\ Idle(e)
  BY <1>1 DEF Fades, Idle
<1>5. Fate(e) = v
  BY <1>1, <1>3 DEF Fate
<1> QED BY <1>1, <1>2, <1>4, <1>5 DEF e

\* owums.togglePop: the fate is the opposite of what was visible.
LEMMA TogglePopFades ==
  ASSUME NEW e, Fades(e)
  PROVE  LET b == TogglePop(e)
         IN Fades(b) /\ Fate(b) = ~e.shown /\ (Idle(e) /\ ~Idle(b) => b.shown)
            /\ (~Idle(e) => b.shown = e.shown) /\ Len(b.queue) <= Len(e.queue) + 1
BY EnqueueFades DEF TogglePop, FadeIn, FadeOut, Fading, Fades, ElementOf

\* The verification page as it is served.
LEMMA VerificationFresh ==
  ASSUME setting \in Settings, NEW byCard \in BOOLEAN
  PROVE  LET v == Verification(byCard)
         IN /\ VerificationSound(v) /\ OnePayment(v)
            /\ v.waiting = {} /\ v.gateway = byCard /\ v.panel = "card"
            /\ v.raised = FALSE /\ v.told = FALSE /\ v.leaving = FALSE
<1> DEFINE e == Element(FALSE)
           s == IF byCard /\ ~setting.mobile THEN TogglePop(TogglePop(e)) ELSE e
           o == Element(byCard /\ setting.mobile)
           v == Verification(byCard)
<1>1. setting.mobile \in BOOLEAN /\ (byCard /\ setting.mobile) \in BOOLEAN
  BY SettingsAssumption
<1>2. /\ Fades(e) /\ e \in ElementOf(Fading) /\ Idle(e) /\ e.shown = FALSE /\ ~Fate(e)
      /\ Len(e.queue) <= 1
      /\ Fades(o) /\ o \in ElementOf(Fading)
  BY <1>1, ElementFades
<1>3. Fades(s) /\ ~Fate(s)
  <2> DEFINE b == TogglePop(e)
  <2>1. Fades(b) /\ Fate(b) /\ (~Idle(b) => b.shown)
    BY <1>2, TogglePopFades
  <2> HIDE DEF b
  <2>2. b.shown
    BY <2>1 DEF Fate, Idle
  <2>3. Fades(TogglePop(b)) /\ ~Fate(TogglePop(b))
    BY <2>1, <2>2, TogglePopFades
  <2> QED BY <1>2, <2>3 DEF b
<1>4. s \in ElementOf(Fading)
  BY <1>3 DEF Fades
<1>5. v = [page |-> "verification", gateway |-> byCard, loaded |-> setting.mobile,
           overlay |-> o, raised |-> FALSE, panel |-> "card", spinner |-> s,
           message |-> e, timers |-> {}, last |-> 0, waiting |-> {},
           failed |-> FALSE, leaving |-> FALSE, told |-> FALSE, number |-> Blank]
  BY DEF Verification
<1> HIDE DEF e, s, o, v
<1>6. v \in VerificationDoc
  BY <1>1, <1>2, <1>4, <1>5, BlankSound DEF VerificationDoc, NumberSound
<1>7. VerificationSound(v)
  BY <1>2, <1>3, <1>5, <1>6, BlankSound DEF VerificationSound
<1>8. OnePayment(v)
  BY <1>2, <1>3, <1>5 DEF OnePayment
<1> QED BY <1>5, <1>7, <1>8 DEF v

\* What the payment and its answer are about.
SamePayment(d, e) ==
  /\ e.waiting = d.waiting /\ e.gateway = d.gateway /\ e.panel = d.panel
  /\ e.raised = d.raised /\ e.leaving = d.leaving

\* The poll learns that the account changed.
LEMMA ToldSound ==
  ASSUME VerificationSound(doc), NEW t \in BOOLEAN, doc' = [doc EXCEPT !.told = t]
  PROVE  /\ VerificationSound(doc') /\ (OnePayment(doc) => OnePayment(doc'))
         /\ SamePayment(doc, doc') /\ doc'.told = t
<1>1. doc \in VerificationDoc
  BY DEF VerificationSound
<1>2. /\ doc' \in VerificationDoc /\ doc'.told = t /\ SamePayment(doc, doc')
      /\ doc'.overlay = doc.overlay /\ doc'.spinner = doc.spinner
      /\ doc'.message = doc.message /\ doc'.number = doc.number
      /\ doc'.failed = doc.failed /\ doc'.timers = doc.timers /\ doc'.last = doc.last
  BY <1>1 DEF VerificationDoc, SamePayment
<1>3. VerificationSound(doc')
  BY <1>2 DEF VerificationSound, SamePayment
<1>4. OnePayment(doc) => OnePayment(doc')
  BY <1>2 DEF OnePayment, SamePayment
<1> QED BY <1>2, <1>3, <1>4

\* Whatever fades on the overlay concerns no payment.
LEMMA OverlaySound ==
  ASSUME VerificationSound(doc), NEW e, Fades(e), NEW l \in BOOLEAN,
         doc' = [doc EXCEPT !.overlay = e, !.loaded = l]
  PROVE  /\ VerificationSound(doc') /\ (OnePayment(doc) => OnePayment(doc'))
         /\ SamePayment(doc, doc') /\ doc'.told = doc.told
<1>1. doc \in VerificationDoc /\ e \in ElementOf(Fading)
  BY DEF VerificationSound, Fades
<1>2. /\ doc' \in VerificationDoc /\ doc'.told = doc.told /\ SamePayment(doc, doc')
      /\ doc'.overlay = e /\ doc'.spinner = doc.spinner
      /\ doc'.message = doc.message /\ doc'.number = doc.number
      /\ doc'.failed = doc.failed /\ doc'.timers = doc.timers /\ doc'.last = doc.last
  BY <1>1 DEF VerificationDoc, SamePayment
<1>3. VerificationSound(doc')
  BY <1>2 DEF VerificationSound, SamePayment
<1>4. OnePayment(doc) => OnePayment(doc')
  BY <1>2 DEF OnePayment, SamePayment
<1> QED BY <1>2, <1>3, <1>4

\* owums.toggleOverlay changes nothing but the overlay.
LEMMA ToggleOverlayFades ==
  ASSUME NEW d \in VerificationDoc, Fades(d.overlay), NEW yes \in BOOLEAN
  PROVE  \E e : Fades(e) /\ ToggleOverlay(d, yes) = [d EXCEPT !.overlay = e]
<1>1. CASE d.overlay.shown /\ yes
  BY <1>1, EnqueueFades DEF ToggleOverlay, CloseOverlay, FadeOut, Fading, VerificationDoc
<1>2. CASE d.overlay.shown /\ ~yes
  BY <1>2 DEF ToggleOverlay, CloseOverlay, VerificationDoc
<1>3. CASE ~d.overlay.shown
  BY <1>3, EnqueueFades DEF ToggleOverlay, FadeIn, Fading, VerificationDoc
<1> QED BY <1>1, <1>2, <1>3

\* All images have come.
LEMMA WindowLoadsSound ==
  ASSUME VerificationSound(doc), WindowLoads
  PROVE  /\ VerificationSound(doc') /\ (OnePayment(doc) => OnePayment(doc'))
         /\ SamePayment(doc, doc') /\ doc'.told = doc.told
<1>1. doc \in VerificationDoc /\ Fades(doc.overlay)
  BY DEF VerificationSound
<1>2. PICK yes \in BOOLEAN :
        doc' = [(IF doc.gateway THEN ToggleOverlay(doc, yes) ELSE doc) EXCEPT !.loaded = TRUE]
  BY DEF WindowLoads
<1>3. \E e : Fades(e) /\ doc' = [doc EXCEPT !.overlay = e, !.loaded = TRUE]
  <2>1. CASE doc.gateway
    <3>1. PICK e : Fades(e) /\ ToggleOverlay(doc, yes) = [doc EXCEPT !.overlay = e]
      BY <1>1, ToggleOverlayFades
    <3>2. doc' = [doc EXCEPT !.overlay = e, !.loaded = TRUE]
      BY <1>1, <1>2, <2>1, <3>1 DEF VerificationDoc
    <3> QED BY <3>1, <3>2
  <2>2. CASE ~doc.gateway
    <3>1. doc' = [doc EXCEPT !.overlay = doc.overlay, !.loaded = TRUE]
      BY <1>1, <1>2, <2>2 DEF VerificationDoc
    <3> QED BY <1>1, <3>1
  <2> QED BY <2>1, <2>2
<1> QED BY <1>3, OverlaySound

\* The visitor changes the way of paying.
LEMMA ToggleSound ==
  ASSUME VerificationSound(doc), Toggle
  PROVE  /\ VerificationSound(doc') /\ (OnePayment(doc) => OnePayment(doc'))
         /\ SamePayment(doc, doc') /\ doc'.told = doc.told
<1>1. doc \in VerificationDoc /\ Fades(doc.overlay) /\ doc.loaded \in BOOLEAN
  BY DEF VerificationSound, VerificationDoc
<1>2. PICK yes \in BOOLEAN : doc' = ToggleOverlay(doc, yes)
  BY DEF Toggle
<1>3. PICK e : Fades(e) /\ ToggleOverlay(doc, yes) = [doc EXCEPT !.overlay = e]
  BY <1>1, ToggleOverlayFades
<1>4. doc' = [doc EXCEPT !.overlay = e, !.loaded = doc.loaded]
  BY <1>1, <1>2, <1>3 DEF VerificationDoc
<1> QED BY <1>1, <1>3, <1>4, OverlaySound

\* The visitor types or deletes a digit.
LEMMA KeySound ==
  ASSUME VerificationSound(doc), Key \/ KeyReleased
  PROVE  /\ VerificationSound(doc') /\ (OnePayment(doc) => OnePayment(doc'))
         /\ SamePayment(doc, doc') /\ doc'.told = doc.told
<1>1. doc \in VerificationDoc /\ NumberSound(doc.number)
  BY DEF VerificationSound
<1>2. \E n : NumberSound(n) /\ doc' = [doc EXCEPT !.number = n]
  <2>1. ASSUME Key, NEW d \in Digit, doc' = [doc EXCEPT !.number = KeyDown(@, d)]
        PROVE  \E n : NumberSound(n) /\ doc' = [doc EXCEPT !.number = n]
    <3>1. doc' = [doc EXCEPT !.number = KeyDown(doc.number, d)] /\ doc.number.focus \in Field
      BY <1>1, <2>1 DEF VerificationDoc, Key
    <3> QED BY <1>1, <3>1, KeyDownSound
  <2>2. ASSUME Key, doc' = [doc EXCEPT !.number = Backspace(@)]
        PROVE  \E n : NumberSound(n) /\ doc' = [doc EXCEPT !.number = n]
    <3>1. doc' = [doc EXCEPT !.number = Backspace(doc.number)] /\ doc.number.focus \in Field
      BY <1>1, <2>2 DEF VerificationDoc, Key
    <3> QED BY <1>1, <3>1, BackspaceSound
  <2>3. ASSUME NEW d \in doc.number.held, doc' = [doc EXCEPT !.number = KeyUp(@, d)]
        PROVE  \E n : NumberSound(n) /\ doc' = [doc EXCEPT !.number = n]
    <3>1. doc' = [doc EXCEPT !.number = KeyUp(doc.number, d)]
      BY <1>1, <2>3 DEF VerificationDoc
    <3> QED BY <1>1, <3>1, KeyUpSound
  <2> QED BY <2>1, <2>2, <2>3 DEF Key, KeyReleased
<1>3. PICK n : NumberSound(n) /\ doc' = [doc EXCEPT !.number = n]
  BY <1>2
<1>4. /\ doc' \in VerificationDoc /\ doc'.told = doc.told /\ SamePayment(doc, doc')
      /\ doc'.overlay = doc.overlay /\ doc'.spinner = doc.spinner
      /\ doc'.message = doc.message /\ doc'.number = n
      /\ doc'.failed = doc.failed /\ doc'.timers = doc.timers /\ doc'.last = doc.last
  BY <1>1, <1>3 DEF VerificationDoc, SamePayment, NumberSound
<1>5. VerificationSound(doc')
  BY <1>3, <1>4 DEF VerificationSound, SamePayment
<1>6. OnePayment(doc) => OnePayment(doc')
  BY <1>4 DEF OnePayment, SamePayment
<1> QED BY <1>4, <1>5, <1>6

\* An effect ends on the verification page.
LEMMA EffectEndsSound ==
  ASSUME VerificationSound(doc), EffectEnds("verification", {"overlay", "spinner", "message"})
  PROVE  /\ VerificationSound(doc') /\ (OnePayment(doc) => OnePayment(doc'))
         /\ SamePayment(doc, doc') /\ doc'.told = doc.told
<1>1. /\ doc \in VerificationDoc /\ doc.loaded \in BOOLEAN
      /\ Fades(doc.overlay) /\ Fades(doc.spinner) /\ Fades(doc.message)
  BY DEF VerificationSound, VerificationDoc
<1>2. PICK x \in {"overlay", "spinner", "message"} :
        ~Idle(doc[x]) /\ doc' = [doc EXCEPT ![x] = Finish(@)]
  BY DEF EffectEnds
<1> DEFINE e == Finish(doc[x])
<1>3. /\ Fades(e) /\ e \in ElementOf(Fading)
      /\ Len(e.queue) < Len(doc[x].queue) /\ Fate(e) = Fate(doc[x])
      /\ Fate(doc[x]) => e.shown
  <2>1. Fades(doc[x]) /\ ~Idle(doc[x])
    BY <1>1, <1>2
  <2> QED BY <2>1, FinishFades DEF Fades
<1>4. doc' = [doc EXCEPT ![x] = e]
  BY <1>1, <1>2 DEF VerificationDoc
<1> HIDE DEF e
<1>5. CASE x = "overlay"
  <2>1. doc' = [doc EXCEPT !.overlay = e, !.loaded = doc.loaded]
    BY <1>1, <1>4, <1>5 DEF VerificationDoc
  <2> QED BY <1>1, <1>3, <2>1, OverlaySound
<1>6. CASE x = "spinner"
  <2>1. /\ doc' \in VerificationDoc /\ doc'.told = doc.told /\ SamePayment(doc, doc')
        /\ doc'.overlay = doc.overlay /\ doc'.spinner = e
        /\ doc'.message = doc.message /\ doc'.number = doc.number
        /\ doc'.failed = doc.failed /\ doc'.timers = doc.timers /\ doc'.last = doc.last
    BY <1>1, <1>3, <1>4, <1>6 DEF VerificationDoc, SamePayment
  <2>2. VerificationSound(doc')
    BY <1>3, <2>1 DEF VerificationSound, SamePayment
  <2>3. OnePayment(doc) => OnePayment(doc')
    BY <1>3, <1>6, <2>1 DEF OnePayment, SamePayment
  <2> QED BY <2>1, <2>2, <2>3
<1>7. CASE x = "message"
  <2>1. /\ doc' \in VerificationDoc /\ doc'.told = doc.told /\ SamePayment(doc, doc')
        /\ doc'.overlay = doc.overlay /\ doc'.spinner = doc.spinner
        /\ doc'.message = e /\ doc'.number = doc.number
        /\ doc'.failed = doc.failed /\ doc'.timers = doc.timers /\ doc'.last = doc.last
    BY <1>1, <1>3, <1>4, <1>7 DEF VerificationDoc, SamePayment
  <2>2. VerificationSound(doc')
    BY <1>3, <2>1 DEF VerificationSound, SamePayment
  <2>3. Len(doc.message.queue) <= 1 => Len(e.queue) <= 1
    <3>1. Len(doc.message.queue) \in Nat /\ Len(e.queue) \in Nat
      BY <1>1, <1>3 DEF Fades, ElementOf
    <3>2. \A m, n \in Nat : m < n /\ n <= 1 => m <= 1
      OBVIOUS
    <3> QED BY <1>3, <1>7, <3>1, <3>2
  <2>4. OnePayment(doc) => OnePayment(doc')
    BY <1>2, <1>3, <1>7, <2>1, <2>3 DEF OnePayment, SamePayment
  <2> QED BY <2>1, <2>2, <2>4
<1> QED BY <1>2, <1>5, <1>6, <1>7

\* Without effects the fate is what is seen.
LEMMA IdleFate ==
  ASSUME NEW e, Fades(e), Idle(e)
  PROVE  Fate(e) = e.shown /\ Len(e.queue) <= 1 /\ e.shown \in BOOLEAN
<1>1. e.queue = <<>> /\ e.closing = FALSE /\ e.shown \in BOOLEAN
  BY DEF Fades, Idle, ElementOf
<1>2. Len(<<>>) = 0
  OBVIOUS
<1>3. Len(<<>>) <= 1
  OBVIOUS
<1> QED BY <1>1, <1>2, <1>3 DEF Fate

\* An effect added to an element at rest waits for no other.
LEMMA IdleTogglePop ==
  ASSUME NEW e, Fades(e), Idle(e)
  PROVE  Len(TogglePop(e).queue) <= 1
<1> DEFINE b == TogglePop(e)
<1>1. Len(b.queue) <= Len(e.queue) + 1 /\ Len(b.queue) \in Nat
  BY TogglePopFades DEF Fades, ElementOf
<1>2. Len(e.queue) = 0
  BY DEF Idle
<1>3. \A m \in Nat : m <= 0 + 1 => m <= 1
  OBVIOUS
<1> QED BY <1>1, <1>2, <1>3

\* The card is sent; with patience no other payment is on its way.
LEMMA PaySound ==
  ASSUME VerificationSound(doc), setting \in Settings, NEW k \in Payment, Pay(k)
  PROVE  /\ VerificationSound(doc')
         /\ setting.patient /\ OnePayment(doc) =>
              /\ OnePayment(doc')
              /\ doc.waiting = {} /\ ~doc.raised /\ doc'.raised
         /\ doc'.waiting = doc.waiting \cup {k}
         /\ doc'.gateway = doc.gateway /\ doc'.panel = doc.panel
         /\ doc'.told = doc.told /\ doc'.leaving = doc.leaving
<1> DEFINE r == IF setting.mobile THEN TRUE ELSE ~doc.raised
           s == TogglePop(doc.spinner)
<1>1. /\ doc \in VerificationDoc /\ doc.raised \in BOOLEAN /\ doc.gateway /\ doc.panel = "card"
      /\ Fades(doc.overlay) /\ Fades(doc.spinner) /\ Fades(doc.message)
      /\ Idle(doc.spinner) /\ Idle(doc.message)
      /\ setting.patient => ~doc.raised
  BY DEF VerificationSound, VerificationDoc, Pay, MayUse
<1>2. /\ Fades(s) /\ s \in ElementOf(Fading)
      /\ Fate(s) = ~doc.spinner.shown /\ (~Idle(s) => s.shown)
      /\ Fate(doc.spinner) = doc.spinner.shown /\ Fate(doc.message) = doc.message.shown
  BY <1>1, TogglePopFades, IdleFate DEF Fades
<1>3. doc' = [doc EXCEPT !.raised = r, !.spinner = s, !.timers = @ \cup {k}, !.last = k,
                         !.waiting = @ \cup {k}, !.number = Full]
  BY <1>1 DEF Pay, InitCreditCardLoading, Lock, LockMobile, ToggleLockOverlay, VerificationDoc
<1>4. Fate(s) => s.shown
  <2>1. CASE Idle(s)
    BY <1>2, <2>1, IdleFate
  <2>2. CASE ~Idle(s)
    BY <1>2, <2>2
  <2> QED BY <2>1, <2>2
<1> HIDE DEF s
<1>5. /\ doc' \in VerificationDoc /\ doc'.raised = r /\ doc'.spinner = s
      /\ doc'.timers = doc.timers \cup {k} /\ doc'.last = k /\ doc'.number = Full
      /\ doc'.waiting = doc.waiting \cup {k} /\ doc'.overlay = doc.overlay
      /\ doc'.message = doc.message /\ doc'.failed = doc.failed /\ doc'.panel = doc.panel
      /\ doc'.gateway = doc.gateway /\ doc'.told = doc.told /\ doc'.leaving = doc.leaving
  BY <1>1, <1>2, <1>3, BlankSound DEF VerificationDoc, NumberSound
<1>6. VerificationSound(doc')
  BY <1>1, <1>2, <1>5, BlankSound DEF VerificationSound
<1>7. setting.patient /\ OnePayment(doc) =>
        /\ doc.waiting = {} /\ ~doc.raised /\ doc'.raised /\ ~doc.failed
  BY <1>1, <1>5 DEF OnePayment
<1>8. setting.patient /\ OnePayment(doc) => OnePayment(doc')
  <2> SUFFICES ASSUME setting.patient, OnePayment(doc)  PROVE OnePayment(doc')
    OBVIOUS
  <2>1. /\ ~Fate(doc.spinner) /\ ~Fate(doc.message) /\ doc.timers = {} /\ doc.waiting = {}
        /\ ~doc.failed /\ Len(doc.message.queue) <= 1
    BY <1>7 DEF OnePayment
  <2>2. Fate(s) /\ s.shown /\ ~doc.message.shown
    BY <1>2, <1>4, <2>1
  <2> QED BY <1>1, <1>5, <1>7, <2>1, <2>2 DEF OnePayment
<1> QED BY <1>5, <1>6, <1>7, <1>8

\* The time of the message is over.
LEMMA TimerSound ==
  ASSUME VerificationSound(doc), NEW k \in Payment, Timer(k)
  PROVE  /\ VerificationSound(doc') /\ (OnePayment(doc) => OnePayment(doc'))
         /\ SamePayment(doc, doc') /\ doc'.told = doc.told
<1> DEFINE g == TogglePop(doc.message)
<1>1. doc \in VerificationDoc /\ Fades(doc.message) /\ k \in doc.timers
  BY DEF VerificationSound, Timer
<1>2. Fades(g) /\ g \in ElementOf(Fading) /\ Fate(g) = ~doc.message.shown
  BY <1>1, TogglePopFades DEF Fades
<1>3. doc' = [doc EXCEPT !.message = g, !.timers = @ \ {k}]
  BY <1>1 DEF Timer, ToggleMessage, VerificationDoc
<1>4. Idle(doc.message) => Len(g.queue) <= 1
  BY <1>1, IdleTogglePop
<1> HIDE DEF g
<1>5. /\ doc' \in VerificationDoc /\ doc'.told = doc.told /\ SamePayment(doc, doc')
      /\ doc'.overlay = doc.overlay /\ doc'.spinner = doc.spinner
      /\ doc'.message = g /\ doc'.number = doc.number
      /\ doc'.failed = doc.failed /\ doc'.timers = doc.timers \ {k} /\ doc'.last = doc.last
  BY <1>1, <1>2, <1>3 DEF VerificationDoc, SamePayment
<1>6. VerificationSound(doc')
  BY <1>2, <1>5 DEF VerificationSound, SamePayment
<1>7. OnePayment(doc) => OnePayment(doc')
  <2> SUFFICES ASSUME OnePayment(doc)  PROVE OnePayment(doc')
    OBVIOUS
  <2>1. Idle(doc.message) /\ doc.timers = {k} /\ (doc.waiting # {} \/ doc.failed)
    BY <1>1 DEF OnePayment
  <2>2. doc'.timers = {}
    BY <1>5, <2>1
  <2> QED BY <1>4, <1>5, <2>1, <2>2 DEF OnePayment, SamePayment
<1> QED BY <1>5, <1>6, <1>7

\* The answer to a payment comes.
LEMMA AnswerSound ==
  ASSUME VerificationSound(doc), setting \in Settings, NEW k \in Payment, Answer(k)
  PROVE  /\ VerificationSound(doc')
         /\ setting.patient /\ OnePayment(doc) =>
              OnePayment(doc') /\ doc'.waiting = {} /\ doc.panel = "card"
         /\ doc'.waiting = doc.waiting \ {k} /\ doc'.gateway = doc.gateway
         /\ doc'.panel = IF payments[k] \in {"paid", "bank"} THEN payments[k] ELSE "card"
         /\ doc'.told = doc.told
         /\ doc'.leaving = (doc.leaving \/ payments[k] \in {"paid", "late"})
<1> DEFINE r == IF setting.mobile THEN FALSE ELSE ~doc.raised
           s == TogglePop(doc.spinner)
           g == Hide(doc.message)
           p == IF payments[k] \in {"paid", "bank"} THEN payments[k] ELSE "card"
           l == doc.leaving \/ payments[k] \in {"paid", "late"}
<1>1. /\ doc \in VerificationDoc /\ doc.raised \in BOOLEAN /\ k \in doc.waiting
      /\ Fades(doc.overlay) /\ Fades(doc.spinner) /\ Fades(doc.message) /\ doc.gateway
  BY DEF VerificationSound, VerificationDoc, Answer
<1>2. /\ Fades(s) /\ s \in ElementOf(Fading) /\ Fate(s) = ~doc.spinner.shown
      /\ Fades(g) /\ g \in ElementOf(Fading) /\ g.queue = doc.message.queue
      /\ Len(doc.message.queue) <= 1 => ~Fate(g)
  BY <1>1, TogglePopFades, HideFades DEF Fades
<1>3. doc' = [doc EXCEPT !.raised = r, !.spinner = s, !.message = g, !.panel = p,
                         !.timers = @ \ {doc.last}, !.waiting = @ \ {k}, !.leaving = l]
  <2> DEFINE c == ClearTimeouts(Lock(doc, FALSE))
  <2>1. c = [doc EXCEPT !.raised = r, !.timers = @ \ {doc.last}]
    BY <1>1 DEF ClearTimeouts, Lock, LockMobile, ToggleLockOverlay, VerificationDoc
  <2>2. doc' = [c EXCEPT !.panel = p, !.spinner = TogglePop(@), !.message = Hide(@),
                         !.waiting = @ \ {k}, !.leaving = @ \/ payments[k] \in {"paid", "late"}]
    BY DEF Answer
  <2> HIDE DEF c, p
  <2> QED BY <1>1, <2>1, <2>2, ZenonT(60) DEF VerificationDoc
<1> HIDE DEF s, g
<1>4. /\ doc' \in VerificationDoc /\ doc'.raised = r /\ doc'.spinner = s /\ doc'.message = g
      /\ doc'.timers = doc.timers \ {doc.last} /\ doc'.last = doc.last
      /\ doc'.number = doc.number /\ doc'.waiting = doc.waiting \ {k}
      /\ doc'.overlay = doc.overlay /\ doc'.failed = doc.failed /\ doc'.panel = p
      /\ doc'.gateway = doc.gateway /\ doc'.told = doc.told /\ doc'.leaving = l
  BY <1>1, <1>2, <1>3, ZenonT(60) DEF VerificationDoc
<1>5. VerificationSound(doc')
  BY <1>1, <1>2, <1>4 DEF VerificationSound
<1>6. setting.patient /\ OnePayment(doc) =>
        OnePayment(doc') /\ doc'.waiting = {} /\ doc.panel = "card"
  <2> SUFFICES ASSUME setting.patient, OnePayment(doc)
               PROVE  OnePayment(doc') /\ doc'.waiting = {} /\ doc.panel = "card"
    OBVIOUS
  <2>1. /\ doc.waiting = {k} /\ doc.raised /\ ~doc.failed /\ doc.panel = "card"
        /\ doc.spinner.shown /\ doc.timers \subseteq {doc.last}
        /\ Len(doc.message.queue) <= 1
    BY <1>1 DEF OnePayment
  <2>2. doc'.waiting = {} /\ doc'.timers = {} /\ doc'.raised = FALSE
    BY <1>4, <2>1
  <2>3. doc.panel = "card"
    BY <2>1
  <2> QED BY <1>2, <1>4, <2>1, <2>2, <2>3 DEF OnePayment
<1> QED BY <1>4, <1>5, <1>6

\* The answer to a payment is an error.
LEMMA AnswerFailedSound ==
  ASSUME VerificationSound(doc), NEW k \in Payment, AnswerFailed(k)
  PROVE  /\ VerificationSound(doc') /\ (OnePayment(doc) => OnePayment(doc'))
         /\ doc'.waiting = doc.waiting \ {k} /\ doc'.gateway = doc.gateway
         /\ doc'.panel = doc.panel /\ doc'.raised = doc.raised
         /\ doc'.told = doc.told /\ doc'.leaving = doc.leaving
<1>1. doc \in VerificationDoc /\ k \in doc.waiting
  BY DEF VerificationSound, AnswerFailed
<1>2. /\ doc' \in VerificationDoc /\ doc'.failed = TRUE /\ doc'.waiting = doc.waiting \ {k}
      /\ doc'.gateway = doc.gateway /\ doc'.panel = doc.panel /\ doc'.raised = doc.raised
      /\ doc'.told = doc.told /\ doc'.leaving = doc.leaving
      /\ doc'.overlay = doc.overlay /\ doc'.spinner = doc.spinner
      /\ doc'.message = doc.message /\ doc'.number = doc.number
      /\ doc'.timers = doc.timers /\ doc'.last = doc.last
  BY <1>1 DEF AnswerFailed, VerificationDoc
<1>3. VerificationSound(doc')
  BY <1>2 DEF VerificationSound
<1>4. OnePayment(doc) => OnePayment(doc')
  <2> SUFFICES ASSUME OnePayment(doc)  PROVE OnePayment(doc')
    OBVIOUS
  <2>1. doc.waiting = {k} /\ doc.raised /\ doc.panel = "card"
    BY <1>1 DEF OnePayment
  <2> QED BY <1>2, <2>1 DEF OnePayment
<1> QED BY <1>2, <1>3, <1>4

-----------------------------------------------------------------------------
(* The visitor: every step keeps the invariant.                            *)

\* What is invariant of the page that is open.
LEMMA Pages ==
  ASSUME Documents
  PROVE  /\ On("registration") <=> RegistrationSound(doc)
         /\ On("verification") <=> VerificationSound(doc)
         /\ On("verification") /\ setting.patient => OnePayment(doc)
         /\ ~On("registration") /\ ~On("verification") <=> doc \in PlainDoc
<1>1. doc \in PlainDoc => ~On("registration") /\ ~On("verification")
  BY DEF PlainDoc, On
<1>2. RegistrationSound(doc) => On("registration")
  BY DEF RegistrationSound, RegistrationDoc, On
<1>3. VerificationSound(doc) => On("verification")
  BY DEF VerificationSound, VerificationDoc, On
<1>4. ~(On("registration") /\ On("verification"))
  BY DEF On
<1> QED BY <1>1, <1>2, <1>3, <1>4 DEF Documents

\* Enough for the documents to be in order after a step.
LEMMA NextDocument ==
  ASSUME setting' = setting,
         \/ doc' \in PlainDoc
         \/ RegistrationSound(doc')
         \/ VerificationSound(doc') /\ (setting.patient => OnePayment(doc'))
  PROVE  Documents'
<1>1. ASSUME RegistrationSound(doc')  PROVE RegistrationSound(doc)'
  BY <1>1 DEF RegistrationSound, Fitting, Confirming
<1>2. ASSUME VerificationSound(doc')  PROVE VerificationSound(doc)'
  BY <1>2 DEF VerificationSound
<1>3. ASSUME OnePayment(doc')  PROVE OnePayment(doc)'
  BY <1>3 DEF OnePayment
<1> QED BY <1>1, <1>2, <1>3 DEF Documents

\* The page says which of the documents it is.
LEMMA NextPages ==
  /\ RegistrationSound(doc') => doc'.page = "registration"
  /\ VerificationSound(doc') => doc'.page = "verification"
BY DEF RegistrationSound, RegistrationDoc, VerificationSound, VerificationDoc

\* The visitor uses the sign-up form, or an effect ends.
LEMMA RegistrationQuiet ==
  ASSUME VisitorInv, On("registration"), RegistrationSound(doc'),
         doc'.await = doc.await, doc'.mask = doc.mask,
         UNCHANGED <<setting, account, posts, payments, disturbed>>
  PROVE  VisitorInv'
<1>1. doc'.page = "registration" /\ doc.page = "registration"
  BY NextPages DEF On
<1>2. Documents'
  BY NextDocument
<1>3. Server'
  BY <1>1 DEF VisitorInv, Server, On
<1>4. OneRequest'
  BY <1>1 DEF VisitorInv, OneRequest, On
<1>5. setting'.patient /\ ~disturbed' => OnThePage'
  BY <1>1 DEF VisitorInv, OnThePage, On
<1> QED BY <1>2, <1>3, <1>4, <1>5 DEF VisitorInv

\* The visitor uses the verification page, an effect ends or a timer fires.
LEMMA VerificationQuiet ==
  ASSUME VisitorInv, On("verification"), VerificationSound(doc'),
         OnePayment(doc) => OnePayment(doc'),
         SamePayment(doc, doc'), doc'.told = doc.told,
         UNCHANGED <<setting, account, posts, payments, disturbed>>
  PROVE  VisitorInv'
<1>1. doc'.page = "verification" /\ doc.page = "verification"
  BY NextPages DEF On
<1>2. Documents'
  BY Pages, NextDocument DEF VisitorInv
<1>3. Server'
  BY <1>1 DEF VisitorInv, Server, On, SamePayment
<1>4. OneRequest'
  BY <1>1 DEF OneRequest, On
<1>5. setting'.patient /\ ~disturbed' => OnThePage'
  BY <1>1 DEF VisitorInv, OnThePage, InStep, On, SamePayment
<1> QED BY <1>2, <1>3, <1>4, <1>5 DEF VisitorInv

\* The form is sent.
LEMMA SubmitStep ==
  ASSUME VisitorInv, NEW i \in Post, Submit(i)
  PROVE  VisitorInv'
<1>1. /\ On("registration") /\ RegistrationSound(doc) /\ doc \in RegistrationDoc
      /\ setting \in Settings /\ setting.enhance \in BOOLEAN
  BY Pages, SettingsAssumption DEF VisitorInv, Server, Submit, RegistrationSound
<1>2. /\ doc' = [doc EXCEPT !.await = i, !.mask = setting.enhance]
      /\ posts' = [posts EXCEPT ![i] = doc.method] /\ posts[i] = "none" /\ ~doc.mask
      /\ UNCHANGED <<setting, account, payments, disturbed>>
      /\ doc.method \in Method \ {"none"}
  BY <1>1 DEF Submit, RegistrationDoc
<1>3. RegistrationSound(doc') /\ doc'.await = i /\ doc'.mask = setting.enhance
  BY <1>1, <1>2, SubmitSound
<1>4. doc'.page = "registration" /\ doc.page = "registration"
  BY <1>1, <1>3, NextPages DEF On
<1>5. Documents'
  BY <1>2, <1>3, NextDocument
<1>6. Server'
  BY <1>2, <1>4 DEF VisitorInv, Server, On, Method
<1>7. OneRequest'
  <2> SUFFICES ASSUME setting.enhance, ~disturbed
               PROVE  /\ \A j \in Post : posts'[j] # "none" => j = i
                      /\ account.state # "none" => \E j \in Post : posts'[j] = "created"
    BY <1>2, <1>3 DEF OneRequest
  <2>1. /\ \A j \in Post : posts[j] # "none" => j = doc.await
        /\ doc.await # 0 => doc.mask
        /\ account.state # "none" => \E j \in Post : posts[j] = "created"
    BY <1>1 DEF VisitorInv, OneRequest
  <2>2. \A j \in Post : posts[j] = "none"
    <3>1. doc.await = 0
      BY <1>2, <2>1
    <3>2. \A j \in Post : j # 0
      BY VisitAssumption DEF Post
    <3> QED BY <2>1, <3>1, <3>2
  <2>3. posts \in [Post -> Method \cup {"created", "refused"}]
    BY DEF VisitorInv, Server
  <2> QED BY <1>2, <2>1, <2>2, <2>3
<1>8. setting'.patient /\ ~disturbed' => OnThePage'
  BY <1>2, <1>4 DEF VisitorInv, OnThePage, On
<1> QED BY <1>5, <1>6, <1>7, <1>8 DEF VisitorInv

\* Documents look at nothing but the setting and the document.
LEMMA SameDocument ==
  ASSUME Documents, UNCHANGED <<setting, doc>>
  PROVE  Documents'
BY DEF Documents, RegistrationSound, Fitting, Confirming, VerificationSound, OnePayment

\* The server creates the account.
LEMMA CreateStep ==
  ASSUME VisitorInv, NEW i \in Post, Create(i)
  PROVE  VisitorInv'
<1>1. /\ posts[i] \in Method \ {"none"} /\ UNCHANGED <<setting, doc, payments, disturbed>>
      /\ \/ /\ account.state = "none" /\ account' = [state |-> "unverified", method |-> posts[i]]
            /\ Result(i, "created")
         \/ Result(i, "refused") /\ UNCHANGED account
  BY DEF Create
<1>2. posts \in [Post -> Method \cup {"created", "refused"}]
  BY DEF VisitorInv, Server
<1>3. Documents'
  BY <1>1, SameDocument DEF VisitorInv
<1>4. CASE /\ account.state = "none" /\ account' = [state |-> "unverified", method |-> posts[i]]
           /\ Result(i, "created")
  <2>1. /\ On("registration") /\ \A k \in Payment : payments[k] = "none"
        /\ account' \in [state : {"none", "unverified", "temporary", "verified", "gone"},
                         method : Method]
        /\ account'.state = "unverified" /\ account'.method \in Method \ {"none"}
        /\ doc.page = "registration"
    BY <1>1, <1>4 DEF VisitorInv, Server, On
  <2>2. posts' = [posts EXCEPT ![i] = IF Awaited(i) THEN "created" ELSE "none"]
    BY <1>4 DEF Result
  <2>3. posts' \in [Post -> Method \cup {"created", "refused"}]
    BY <1>2, <2>2 DEF Method
  <2>4. Server'
    BY <1>1, <2>1, <2>3 DEF VisitorInv, Server, On
  <2>5. OneRequest'
    <3> SUFFICES ASSUME setting.enhance, ~disturbed
                 PROVE  /\ \A j \in Post : posts'[j] # "none" => j = doc.await
                        /\ \E j \in Post : posts'[j] = "created"
                        /\ doc.await # 0 => doc.mask
      BY <1>1 DEF OneRequest
    <3>1. /\ \A j \in Post : posts[j] # "none" => j = doc.await
          /\ doc.await # 0 => doc.mask
      BY <2>1 DEF VisitorInv, OneRequest
    <3>2. Awaited(i)
      BY <1>1, <2>1, <3>1 DEF Awaited
    <3>3. posts'[i] = "created"
      BY <1>2, <2>2, <3>2
    <3>4. \A j \in Post : j # i => posts'[j] = posts[j]
      BY <1>2, <2>2
    <3> QED BY <1>1, <3>1, <3>3, <3>4
  <2>6. setting'.patient /\ ~disturbed' => OnThePage'
    BY <1>1, <2>1 DEF VisitorInv, OnThePage, On
  <2> QED BY <1>3, <2>4, <2>5, <2>6 DEF VisitorInv
<1>5. CASE Result(i, "refused") /\ UNCHANGED account
  <2>1. posts' = [posts EXCEPT ![i] = IF Awaited(i) THEN "refused" ELSE "none"]
    BY <1>5 DEF Result
  <2>2. /\ posts' \in [Post -> Method \cup {"created", "refused"}]
        /\ \A j \in Post : posts'[j] = "created" <=> posts[j] = "created"
        /\ \A j \in Post : posts'[j] # "none" => posts[j] # "none"
    BY <1>1, <1>2, <2>1 DEF Method
  <2>3. Server'
    BY <1>1, <1>5, <2>2 DEF VisitorInv, Server, On
  <2>4. OneRequest'
    BY <1>1, <1>5, <2>2 DEF VisitorInv, OneRequest, On
  <2>5. setting'.patient /\ ~disturbed' => OnThePage'
    BY <1>1, <1>5 DEF VisitorInv, OnThePage, InStep, On
  <2> QED BY <1>3, <2>3, <2>4, <2>5 DEF VisitorInv
<1> QED BY <1>1, <1>4, <1>5

\* The answer: the account's page, or the form with what was wrong.
LEMMA AnsweredStep ==
  ASSUME VisitorInv, NEW i \in Post, Answered(i)
  PROVE  VisitorInv'
<1>1. /\ On("registration") /\ RegistrationSound(doc) /\ doc.await = i
      /\ setting \in Settings /\ doc.method \in Method
      /\ posts \in [Post -> Method \cup {"created", "refused"}]
  BY Pages DEF VisitorInv, Server, Answered, Awaited, RegistrationSound, RegistrationDoc
<1>2. /\ posts[i] \in {"created", "refused"} /\ posts' = [posts EXCEPT ![i] = "none"]
      /\ UNCHANGED <<setting, account, payments, disturbed>>
      /\ doc' = IF posts[i] = "created" THEN Plain("to account")
                                        ELSE Registration(TRUE, doc.method)
  BY DEF Answered
<1>3. /\ posts' \in [Post -> Method \cup {"created", "refused"}]
      /\ posts'[i] = "none" /\ \A j \in Post \ {i} : posts'[j] = posts[j]
  BY <1>1, <1>2 DEF Method
<1>4. CASE posts[i] = "created"
  <2>1. doc' = [page |-> "to account"]
    BY <1>2, <1>4 DEF Plain
  <2>2. doc' \in PlainDoc /\ doc'.page = "to account" /\ account.state # "none"
    BY <1>4, <2>1 DEF PlainDoc, VisitorInv, Server
  <2>3. Documents'
    BY <1>2, <2>2, NextDocument
  <2>4. Server'
    BY <1>2, <1>3, <2>2 DEF VisitorInv, Server, On
  <2>5. OneRequest'
    BY <2>2 DEF OneRequest, On
  <2>6. setting'.patient /\ ~disturbed' => OnThePage'
    BY <1>1, <1>2, <2>2 DEF VisitorInv, Server, OnThePage, On
  <2> QED BY <2>3, <2>4, <2>5, <2>6 DEF VisitorInv
<1>5. CASE posts[i] = "refused"
  <2>1. RegistrationSound(doc') /\ doc'.await = 0
    BY <1>1, <1>2, <1>5, RegistrationFits
  <2>2. doc'.page = "registration" /\ doc.page = "registration"
    BY <1>1, <2>1, NextPages DEF On
  <2>3. Documents'
    BY <1>2, <2>1, NextDocument
  <2>4. Server'
    BY <1>2, <1>3, <2>2 DEF VisitorInv, Server, On
  <2>5. OneRequest'
    <3> SUFFICES ASSUME setting.enhance, ~disturbed
                 PROVE  (\A j \in Post : posts'[j] = "none") /\ account.state = "none"
      BY <1>2, <2>1 DEF OneRequest
    <3>1. /\ \A j \in Post : posts[j] # "none" => j = i
          /\ account.state # "none" => \E j \in Post : posts[j] = "created"
      BY <1>1 DEF VisitorInv, OneRequest
    <3>2. \A j \in Post : posts[j] # "created"
      BY <1>5, <3>1
    <3> QED BY <1>3, <3>1, <3>2
  <2>6. setting'.patient /\ ~disturbed' => OnThePage'
    BY <1>2, <2>2 DEF VisitorInv, OnThePage, On
  <2> QED BY <2>3, <2>4, <2>5, <2>6 DEF VisitorInv
<1> QED BY <1>2, <1>4, <1>5

\* The browser stops waiting, or the address is visited again.
LEMMA AbandonStep ==
  ASSUME VisitorInv, On("registration"), NEW d, Abandon(d),
         RegistrationSound(d) \/ (d \in PlainDoc /\ account.state # "none")
  PROVE  VisitorInv'
<1>1. /\ doc' = d /\ disturbed' = TRUE /\ UNCHANGED <<setting, account, payments>>
      /\ posts' = [i \in Post |->
           IF Awaited(i) /\ posts[i] \in {"created", "refused"} THEN "none" ELSE posts[i]]
  BY DEF Abandon
<1>2. /\ posts' \in [Post -> Method \cup {"created", "refused"}]
      /\ \A j \in Post : posts'[j] = "created" => posts[j] = "created"
  BY <1>1 DEF VisitorInv, Server, Method
<1>3. Documents'
  BY <1>1, NextDocument
<1>4. Server'
  <2>1. CASE RegistrationSound(d)
    <3>1. doc'.page = "registration" /\ doc.page = "registration"
      BY <1>1, <2>1, NextPages DEF On
    <3> QED BY <1>1, <1>2, <3>1 DEF VisitorInv, Server, On
  <2>2. CASE d \in PlainDoc /\ account.state # "none"
    <3>1. doc'.page \notin {"registration", "verification"}
      BY <1>1, <2>2 DEF PlainDoc
    <3> QED BY <1>1, <1>2, <2>2, <3>1 DEF VisitorInv, Server, On
  <2> QED BY <2>1, <2>2
<1> QED BY <1>1, <1>3, <1>4 DEF VisitorInv, OneRequest

\* The visitor stops the request.
LEMMA StopStep ==
  ASSUME VisitorInv, Stop
  PROVE  VisitorInv'
<1>1. On("registration") /\ RegistrationSound(doc) /\ setting \in Settings
  BY Pages DEF VisitorInv, Server, Stop
<1> DEFINE d == [doc EXCEPT !.await = 0]
<1>2. Abandon(d)
  BY DEF Stop
<1>3. doc \in RegistrationDoc /\ doc.mask \in BOOLEAN
  BY <1>1 DEF RegistrationSound, RegistrationDoc
<1>4. d = [doc EXCEPT !.await = 0, !.mask = doc.mask] /\ doc' = d
  BY <1>2, <1>3 DEF RegistrationDoc, Abandon
<1>5. RegistrationSound(doc')
  BY <1>1, <1>3, <1>4, SubmitSound
<1>6. RegistrationSound(d)
  BY <1>4, <1>5
<1> HIDE DEF d
<1> QED BY <1>1, <1>2, <1>6, AbandonStep

\* The visitor opens the sign-up page again.
LEMMA RevisitStep ==
  ASSUME VisitorInv, Revisit
  PROVE  VisitorInv'
<1>1. On("registration") /\ setting \in Settings
  BY DEF VisitorInv, Server, Revisit
<1>2. RegistrationSound(Registration(FALSE, "none"))
  BY <1>1, RegistrationFits DEF Method
<1>3. Plain("to account") \in PlainDoc
  BY DEF Plain, PlainDoc
<1>4. CASE Abandon(Registration(FALSE, "none"))
  BY <1>1, <1>2, <1>4, AbandonStep
<1>5. CASE account.state # "none" /\ Abandon(Plain("to account"))
  BY <1>1, <1>3, <1>5, AbandonStep
<1> QED BY <1>4, <1>5 DEF Revisit

\* A page without a script is shown.
LEMMA PlainStep ==
  ASSUME VisitorInv, NEW d \in PlainDoc, doc' = d, account.state # "none",
         account'.state # "none", account'.method = account.method,
         account' \in [state : {"none", "unverified", "temporary", "verified", "gone"},
                       method : Method],
         posts' \in [Post -> Method \cup {"created", "refused"}],
         UNCHANGED <<setting, payments>>, disturbed' \in BOOLEAN,
         setting.patient /\ ~disturbed' => OnThePage'
  PROVE  VisitorInv'
<1>1. doc'.page \notin {"registration", "verification"}
  BY DEF PlainDoc
<1>2. Documents'
  BY NextDocument
<1>3. Server'
  BY <1>1 DEF VisitorInv, Server, On
<1>4. OneRequest'
  BY <1>1 DEF OneRequest, On
<1> QED BY <1>2, <1>3, <1>4 DEF VisitorInv

\* The browser follows where it is sent.
LEMMA FollowStep ==
  ASSUME VisitorInv, Follow
  PROVE  VisitorInv'
<1>1. /\ doc.page \in {"to account", "to verification"}
      /\ posts' = [i \in Post |-> "none"] /\ UNCHANGED <<setting, account, payments, disturbed>>
      /\ posts' \in [Post -> Method \cup {"created", "refused"}]
      /\ setting \in Settings /\ account.state # "none" /\ account.method # "none"
      /\ account \in [state : {"none", "unverified", "temporary", "verified", "gone"},
                      method : Method]
      /\ disturbed \in BOOLEAN
  BY DEF Follow, VisitorInv, Server, On, Method
<1>2. setting.patient /\ ~disturbed =>
        /\ \A k \in Payment : payments[k] \in {"sent", "detour"} => account.state = "gone"
        /\ account.state # "temporary"
        /\ account.state = "unverified" => \A k \in Payment : payments[k] = "none"
        /\ \A k \in Payment : payments[k] = "bank" => account.state \in Final
  BY <1>1 DEF VisitorInv, OnThePage, On
<1>3. CASE \E p \in {"account", "login", "expired", "additional"} : doc' = Plain(p)
  <2>1. doc' \in PlainDoc /\ doc'.page \in {"account", "login", "expired", "additional"}
    <3>1. PICK p \in {"account", "login", "expired", "additional"} : doc' = [page |-> p]
      BY <1>3 DEF Plain
    <3> QED BY <3>1 DEF PlainDoc
  <2>2. setting.patient /\ ~disturbed' => OnThePage'
    BY <1>1, <1>2, <2>1 DEF OnThePage, On
  <2> QED BY <1>1, <2>1, <2>2, PlainStep
<1>4. CASE doc' = Verification(account.method = "card") /\ account.state = "unverified"
  <2> DEFINE c == account.method = "card"
  <2>1. /\ VerificationSound(doc') /\ OnePayment(doc')
        /\ doc'.waiting = {} /\ doc'.gateway = c /\ doc'.panel = "card"
        /\ doc'.raised = FALSE /\ doc'.told = FALSE /\ doc'.leaving = FALSE
    <3>1. c \in BOOLEAN
      OBVIOUS
    <3> HIDE DEF c
    <3>2. doc' = Verification(c)
      BY <1>4 DEF c
    <3> QED BY <1>1, <3>1, <3>2, VerificationFresh
  <2>2. doc'.page = "verification"
    BY <2>1, NextPages
  <2>3. Documents'
    BY <1>1, <2>1, NextDocument
  <2>4. Server'
    BY <1>1, <2>1, <2>2 DEF VisitorInv, Server, On
  <2>5. OneRequest'
    BY <2>2 DEF OneRequest, On
  <2>6. setting'.patient /\ ~disturbed' => OnThePage'
    BY <1>1, <1>2, <1>4, <2>1, <2>2 DEF OnThePage, On, Unsettled
  <2> QED BY <2>3, <2>4, <2>5, <2>6 DEF VisitorInv
<1> QED BY <1>1, <1>3, <1>4 DEF Follow

\* The visitor reloads the page.
LEMMA ReloadStep ==
  ASSUME VisitorInv, Reload
  PROVE  VisitorInv'
<1>1. /\ On("verification") /\ doc' = Plain("to verification") /\ disturbed' = TRUE
      /\ UNCHANGED <<setting, account, posts, payments>>
  BY DEF Reload
<1>2. Plain("to verification") \in PlainDoc
  BY DEF Plain, PlainDoc
<1>3. account.state # "none"
  BY <1>1 DEF VisitorInv, Server, On
<1> QED BY <1>1, <1>2, <1>3, PlainStep DEF VisitorInv, Server

\* A poll is read, or its answer is lost.
LEMMA ToldStep ==
  ASSUME VisitorInv, On("verification"), NEW t \in BOOLEAN, doc' = [doc EXCEPT !.told = t],
         disturbed' = (disturbed \/ (t /\ account.state = "temporary")),
         t => Ends(account.state), UNCHANGED <<setting, account, posts, payments>>
  PROVE  VisitorInv'
<1>1. VerificationSound(doc) /\ (setting.patient => OnePayment(doc))
  BY Pages DEF VisitorInv
<1>2. /\ VerificationSound(doc') /\ (OnePayment(doc) => OnePayment(doc'))
      /\ SamePayment(doc, doc') /\ doc'.told = t
  BY <1>1, ToldSound
<1>3. doc'.page = "verification" /\ doc.page = "verification"
  BY <1>2, NextPages DEF On
<1>4. Documents'
  BY <1>1, <1>2, NextDocument
<1>5. Server'
  BY <1>3, <1>2 DEF VisitorInv, Server, On, SamePayment
<1>6. OneRequest'
  BY <1>3 DEF OneRequest, On
<1>7. setting'.patient /\ ~disturbed' => OnThePage'
  BY <1>2, <1>3 DEF VisitorInv, OnThePage, InStep, On, SamePayment, Ends, Final
<1> QED BY <1>4, <1>5, <1>6, <1>7 DEF VisitorInv

\* The poll reads the state of the account.
LEMMA PollReadStep ==
  ASSUME VisitorInv, PollRead
  PROVE  VisitorInv'
BY ToldStep DEF PollRead

\* The poll fails.
LEMMA PollLostStep ==
  ASSUME VisitorInv, PollLost
  PROVE  VisitorInv'
<1>1. disturbed \in BOOLEAN
  BY DEF VisitorInv, Server
<1> QED BY <1>1, ToldStep DEF PollLost

\* The page is left for one that knows whether the account is verified.
LEMMA LeaveStep ==
  ASSUME VisitorInv, On("verification"), NEW p \in {"to account", "to verification", "bank"},
         Leave(Plain(p)),
         setting.patient /\ ~disturbed =>
           \/ account.state \in Final
           \/ p = "bank" /\ doc.waiting = {} /\ account.state # "temporary"
  PROVE  VisitorInv'
<1>1. doc' = Plain(p) /\ UNCHANGED <<setting, account, posts, payments, disturbed>>
  BY DEF Leave
<1>2. Plain(p) \in PlainDoc /\ Plain(p).page = p
  BY DEF Plain, PlainDoc
<1>3. account.state # "none" /\ disturbed \in BOOLEAN
  BY DEF VisitorInv, Server, On
<1>4. setting.patient /\ ~disturbed' => OnThePage'
  <2> SUFFICES ASSUME setting.patient, ~disturbed  PROVE OnThePage'
    BY <1>1
  <2>1. OnThePage /\ (doc.page = "verification") /\ doc'.page = p
    BY <1>1, <1>2 DEF VisitorInv, On
  <2>2. CASE account.state \in Final
    <3>1. \A k \in Payment : payments[k] \in {"sent", "detour"} => account.state = "gone"
      BY <2>1, <2>2 DEF OnThePage, On, InStep, Final, Unsettled
    <3> QED BY <1>1, <2>1, <2>2, <3>1 DEF OnThePage, On, Final
  <2>3. CASE p = "bank" /\ doc.waiting = {} /\ account.state # "temporary"
    BY <1>1, <2>1, <2>3 DEF OnThePage, On
  <2> QED BY <2>2, <2>3
<1> QED BY <1>1, <1>2, <1>3, <1>4, PlainStep DEF VisitorInv, Server

\* The poll leaves the page.
LEMMA PollStep ==
  ASSUME VisitorInv, Poll
  PROVE  VisitorInv'
<1>1. On("verification") /\ doc.told /\ Leave(Plain("to verification"))
  BY DEF Poll
<1>2. setting.patient /\ ~disturbed => account.state \in Final
  BY <1>1 DEF VisitorInv, OnThePage
<1> QED BY <1>1, <1>2, LeaveStep

\* The page leaves for the account.
LEMMA GoToAccountStep ==
  ASSUME VisitorInv, GoToAccount
  PROVE  VisitorInv'
<1>1. On("verification") /\ doc.leaving /\ Leave(Plain("to account"))
  BY DEF GoToAccount
<1>2. setting.patient /\ ~disturbed => account.state \in Final
  BY <1>1 DEF VisitorInv, OnThePage
<1> QED BY <1>1, <1>2, LeaveStep

\* The visitor goes to the bank.
LEMMA ProceedStep ==
  ASSUME VisitorInv, Proceed
  PROVE  VisitorInv'
<1>1. /\ On("verification") /\ doc.panel = "bank" /\ Leave(Plain("bank"))
      /\ setting.patient => ~doc.raised
  BY DEF Proceed, MayUse
<1>2. VerificationSound(doc) /\ (setting.patient => OnePayment(doc))
  BY <1>1, Pages DEF VisitorInv
<1>3. doc.gateway
  BY <1>1, <1>2 DEF VerificationSound
<1>4. setting.patient => doc.waiting = {}
  BY <1>1, <1>2 DEF OnePayment
<1>5. setting.patient /\ ~disturbed => account.state # "temporary"
  BY <1>1, <1>3 DEF VisitorInv, OnThePage, Unsettled
<1> QED BY <1>1, <1>4, <1>5, LeaveStep

\* The card is sent.
LEMMA PayStep ==
  ASSUME VisitorInv, NEW k \in Payment, Pay(k)
  PROVE  VisitorInv'
<1>1. /\ On("verification") /\ VerificationSound(doc) /\ (setting.patient => OnePayment(doc))
      /\ setting \in Settings
      /\ payments \in [Payment -> {"none", "sent", "detour", "failed"} \cup Scripts]
  BY Pages DEF VisitorInv, Server, Pay
<1>2. /\ VerificationSound(doc')
      /\ setting.patient =>
           OnePayment(doc') /\ doc.waiting = {} /\ ~doc.raised /\ doc'.raised
      /\ doc'.waiting = doc.waiting \cup {k}
      /\ doc'.gateway = doc.gateway /\ doc'.panel = doc.panel
      /\ doc'.told = doc.told /\ doc'.leaving = doc.leaving
  BY <1>1, PaySound
<1>3. /\ doc.gateway /\ doc.panel = "card" /\ payments[k] = "none"
      /\ payments' = [payments EXCEPT ![k] = "sent"]
      /\ UNCHANGED <<setting, account, posts, disturbed>>
  BY DEF Pay
<1>4. doc'.page = "verification" /\ doc.page = "verification"
  BY <1>1, <1>2, NextPages DEF On
<1>5. Documents'
  BY <1>1, <1>2, <1>3, NextDocument
<1>6. Server'
  BY <1>1, <1>2, <1>3, <1>4 DEF VisitorInv, Server, On
<1>7. OneRequest'
  BY <1>4 DEF OneRequest, On
<1>8. setting'.patient /\ ~disturbed' => OnThePage'
  <2> SUFFICES ASSUME setting.patient, ~disturbed  PROVE OnThePage'
    BY <1>3
  <2>1. OnThePage /\ account.state \in Unsettled /\ doc'.waiting = {k} /\ doc'.raised
    BY <1>1, <1>2, <1>3 DEF VisitorInv, OnThePage
  <2>2. payments'[k] = "sent" /\ \A j \in Payment \ {k} : payments'[j] = payments[j]
    BY <1>1, <1>3
  <2> QED BY <1>2, <1>3, <1>4, <2>1, <2>2 DEF OnThePage, InStep, On
<1> QED BY <1>5, <1>6, <1>7, <1>8 DEF VisitorInv

\* The answer to a payment comes.
LEMMA AnswerStep ==
  ASSUME VisitorInv, NEW k \in Payment, Answer(k)
  PROVE  VisitorInv'
<1>1. /\ On("verification") /\ VerificationSound(doc) /\ (setting.patient => OnePayment(doc))
      /\ setting \in Settings /\ k \in doc.waiting /\ payments[k] \in Scripts
      /\ UNCHANGED <<setting, account, posts, payments, disturbed>>
  BY Pages DEF VisitorInv, Server, Answer
<1>2. /\ VerificationSound(doc')
      /\ setting.patient =>
           OnePayment(doc') /\ doc'.waiting = {} /\ doc.panel = "card"
      /\ doc'.waiting = doc.waiting \ {k} /\ doc'.gateway = doc.gateway
      /\ doc'.panel = IF payments[k] \in {"paid", "bank"} THEN payments[k] ELSE "card"
      /\ doc'.told = doc.told
      /\ doc'.leaving = (doc.leaving \/ payments[k] \in {"paid", "late"})
  BY <1>1, AnswerSound
<1>3. doc'.page = "verification" /\ doc.page = "verification"
  BY <1>1, <1>2, NextPages DEF On
<1>4. Documents'
  BY <1>1, <1>2, NextDocument
<1>5. Server'
  BY <1>1, <1>2, <1>3 DEF VisitorInv, Server, On
<1>6. OneRequest'
  BY <1>3 DEF OneRequest, On
<1>7. setting'.patient /\ ~disturbed' => OnThePage'
  <2> SUFFICES ASSUME setting.patient, ~disturbed  PROVE OnThePage'
    BY <1>1
  <2>1. OnThePage /\ InStep(k) /\ (\A j \in doc.waiting : j = k)
    BY <1>1 DEF VisitorInv, OnThePage, OnePayment
  <2> QED BY <1>1, <1>2, <1>3, <2>1 DEF OnThePage, InStep, On, Scripts, Unsettled, Final
<1> QED BY <1>4, <1>5, <1>6, <1>7 DEF VisitorInv

\* The answer to a payment is an error.
LEMMA AnswerFailedStep ==
  ASSUME VisitorInv, NEW k \in Payment, AnswerFailed(k)
  PROVE  VisitorInv'
<1>1. /\ On("verification") /\ VerificationSound(doc) /\ (setting.patient => OnePayment(doc))
      /\ payments[k] = "failed" /\ k \in doc.waiting
      /\ UNCHANGED <<setting, account, posts, payments, disturbed>>
  BY Pages DEF VisitorInv, AnswerFailed
<1>2. /\ VerificationSound(doc') /\ (OnePayment(doc) => OnePayment(doc'))
      /\ doc'.waiting = doc.waiting \ {k} /\ doc'.gateway = doc.gateway
      /\ doc'.panel = doc.panel /\ doc'.raised = doc.raised
      /\ doc'.told = doc.told /\ doc'.leaving = doc.leaving
  BY <1>1, AnswerFailedSound
<1>3. doc'.page = "verification" /\ doc.page = "verification"
  BY <1>1, <1>2, NextPages DEF On
<1>4. Documents'
  BY <1>1, <1>2, NextDocument
<1>5. Server'
  BY <1>1, <1>2, <1>3 DEF VisitorInv, Server, On
<1>6. OneRequest'
  BY <1>3 DEF OneRequest, On
<1>7. setting'.patient /\ ~disturbed' => OnThePage'
  BY <1>1, <1>2, <1>3 DEF VisitorInv, OnThePage, InStep, On
<1> QED BY <1>4, <1>5, <1>6, <1>7 DEF VisitorInv

\* The server goes on with a payment.
LEMMA PaymentStep ==
  ASSUME VisitorInv, NEW k \in Payment, payments[k] \in {"sent", "detour"},
         NEW r \in {"detour", "failed"} \cup Scripts, payments' = [payments EXCEPT ![k] = r],
         NEW s \in {"unverified", "temporary", "verified", "gone"},
         account' = [account EXCEPT !.state = s],
         account.state = "gone" => s = "gone",
         r \in {"declined", "bank"} => s \in Unsettled,
         r = "detour" => s = "temporary",
         r = "paid" => s = "verified",
         setting.patient /\ ~disturbed => r # "late" /\ (account.state \in Final => s \in Final),
         UNCHANGED <<setting, doc, posts, disturbed>>
  PROVE  VisitorInv'
<1>1. /\ payments \in [Payment -> {"none", "sent", "detour", "failed"} \cup Scripts]
      /\ account \in [state : {"none", "unverified", "temporary", "verified", "gone"},
                      method : Method]
      /\ ~On("registration") /\ account.method # "none"
  <2>1. ~On("registration")
    BY DEF VisitorInv, Server
  <2>2. account.state # "none"
    BY <2>1 DEF VisitorInv, Server
  <2> QED BY <2>1, <2>2 DEF VisitorInv, Server
<1>2. /\ account'.state = s /\ account'.method = account.method
      /\ account' \in [state : {"none", "unverified", "temporary", "verified", "gone"},
                       method : Method]
      /\ payments' \in [Payment -> {"none", "sent", "detour", "failed"} \cup Scripts]
      /\ payments'[k] = r /\ \A j \in Payment \ {k} : payments'[j] = payments[j]
  BY <1>1
<1>3. Documents'
  BY SameDocument DEF VisitorInv
<1>4. Server'
  BY <1>1, <1>2 DEF VisitorInv, Server, On
<1>5. OneRequest'
  BY <1>1 DEF OneRequest, On
<1>6. setting'.patient /\ ~disturbed' => OnThePage'
  <2> SUFFICES ASSUME setting.patient, ~disturbed  PROVE OnThePage'
    OBVIOUS
  <2>1. OnThePage /\ (On("verification") => OnePayment(doc) /\ doc.waiting \subseteq Payment)
    BY Pages DEF VisitorInv, VerificationSound, VerificationDoc
  <2>2. /\ account.state # "gone" => On("verification") /\ k \in doc.waiting
        /\ On("verification") /\ k \in doc.waiting => doc.raised /\ \A j \in doc.waiting : j = k
        /\ doc' = doc /\ doc'.page = doc.page
    BY <2>1 DEF OnThePage, OnePayment
  <2>3. account.state \in Final => s \in Final
    OBVIOUS
  <2>4. On("verification") => \A j \in doc.waiting : InStep(j)'
    <3>1. InStep(k)'
      BY <1>2 DEF InStep, Scripts, Unsettled
    <3>2. \A j \in Payment \ {k} : account.state = "gone" /\ InStep(j) => InStep(j)'
      BY <1>2 DEF InStep, Unsettled
    <3> QED BY <2>1, <2>2, <3>1, <3>2 DEF OnThePage
  <2> QED BY <1>2, <2>1, <2>2, <2>3, <2>4 DEF OnThePage, On, Unsettled, Final
<1> QED BY <1>3, <1>4, <1>5, <1>6 DEF VisitorInv

\* The gateway answers a charge.
LEMMA ChargeStep ==
  ASSUME VisitorInv, NEW k \in Payment, Charge(k)
  PROVE  VisitorInv'
<1>1. /\ payments[k] = "sent" /\ UNCHANGED <<setting, doc, posts, disturbed>>
      /\ account \in [state : {"none", "unverified", "temporary", "verified", "gone"},
                      method : Method]
      /\ account.state # "none"
  BY DEF Charge, VisitorInv, Server
<1>2. setting.patient /\ ~disturbed => account.state \in Unsettled
  BY <1>1 DEF VisitorInv, OnThePage, InStep, Unsettled
<1>3. /\ account = [account EXCEPT !.state = account.state]
      /\ account.state \in {"unverified", "temporary", "verified", "gone"}
  BY <1>1
<1>4. ASSUME account.state = "gone", NEW r \in {"failed"},
             payments' = [payments EXCEPT ![k] = r], UNCHANGED account
      PROVE  VisitorInv'
  BY <1>1, <1>3, <1>4, PaymentStep
<1>5. ASSUME account.state # "gone", NEW r \in {"paid", "failed"},
             payments' = [payments EXCEPT ![k] = r], SetState("verified")
      PROVE  VisitorInv'
  BY <1>1, <1>5, PaymentStep DEF SetState, Final, Scripts
<1>6. ASSUME account.state # "gone",
             NEW r \in {IF Ends(account.state) THEN "late" ELSE "declined", "failed"},
             payments' = [payments EXCEPT ![k] = r], UNCHANGED account
      PROVE  VisitorInv'
  <2>1. /\ r \in {"detour", "failed"} \cup Scripts /\ r \notin {"bank", "detour", "paid"}
        /\ r = "declined" => account.state \in Unsettled
        /\ setting.patient /\ ~disturbed => r # "late"
    BY <1>1, <1>2, <1>3, <1>6 DEF Scripts, Ends, Unsettled
  <2>2. account' = [account EXCEPT !.state = account.state]
    BY <1>3, <1>6
  <2> QED BY <1>1, <1>3, <1>6, <2>1, <2>2, PaymentStep
<1>7. ASSUME account.state # "gone", NEW r \in {"detour"},
             payments' = [payments EXCEPT ![k] = r], SetState("temporary")
      PROVE  VisitorInv'
  <2>1. setting.patient /\ ~disturbed => account.state \notin Final
    BY <1>2, <1>7 DEF Final, Unsettled
  <2> QED BY <1>1, <1>7, <2>1, PaymentStep DEF SetState
<1> QED BY <1>4, <1>5, <1>6, <1>7 DEF Charge

\* The detour over the bank ends.
LEMMA EndDetourStep ==
  ASSUME VisitorInv, NEW k \in Payment, EndDetour(k)
  PROVE  VisitorInv'
<1>1. /\ payments[k] = "detour" /\ UNCHANGED <<setting, doc, posts, disturbed>>
      /\ account \in [state : {"none", "unverified", "temporary", "verified", "gone"},
                      method : Method]
      /\ account.state # "none"
  BY DEF EndDetour, VisitorInv, Server
<1>2. setting.patient /\ ~disturbed => account.state \in {"temporary", "gone"}
  BY <1>1 DEF VisitorInv, OnThePage, InStep
<1>3. /\ account = [account EXCEPT !.state = account.state]
      /\ account.state \in {"unverified", "temporary", "verified", "gone"}
  BY <1>1
<1>4. ASSUME NEW r \in {"bank", "declined"}, payments' = [payments EXCEPT ![k] = r],
             IF account.state = "gone" THEN UNCHANGED account ELSE SetState("unverified")
      PROVE  VisitorInv'
  <2>1. r \in {"detour", "failed"} \cup Scripts /\ r \notin {"late", "detour", "paid"}
    BY <1>4 DEF Scripts
  <2>2. CASE account.state = "gone"
    <3>1. account' = [account EXCEPT !.state = "gone"]
      BY <1>3, <1>4, <2>2
    <3> QED BY <1>1, <1>4, <2>1, <2>2, <3>1, PaymentStep DEF Final, Unsettled
  <2>3. CASE account.state # "gone"
    <3>1. account' = [account EXCEPT !.state = "unverified"]
      BY <1>4, <2>3 DEF SetState
    <3>2. setting.patient /\ ~disturbed => account.state \notin Final
      BY <1>2, <2>3 DEF Final
    <3> QED BY <1>1, <1>4, <2>1, <2>3, <3>1, <3>2, PaymentStep DEF Unsettled
  <2> QED BY <2>2, <2>3
<1>5. ASSUME NEW r \in {"failed"}, payments' = [payments EXCEPT ![k] = r], UNCHANGED account
      PROVE  VisitorInv'
  <2>1. account' = [account EXCEPT !.state = account.state]
    BY <1>3, <1>5
  <2> QED BY <1>1, <1>3, <1>5, <2>1, PaymentStep
<1> QED BY <1>4, <1>5 DEF EndDetour

\* The bank sends the visitor back.
LEMMA ReturnStep ==
  ASSUME VisitorInv, Return
  PROVE  VisitorInv'
<1>1. /\ On("bank") /\ UNCHANGED <<setting, posts, payments, disturbed>>
      /\ account \in [state : {"none", "unverified", "temporary", "verified", "gone"},
                      method : Method]
      /\ account.state # "none" /\ disturbed \in BOOLEAN
      /\ posts \in [Post -> Method \cup {"created", "refused"}]
  BY DEF Return, VisitorInv, Server, On
<1>2. setting.patient /\ ~disturbed =>
        /\ \A k \in Payment : payments[k] \in {"sent", "detour"} => account.state = "gone"
        /\ account.state # "temporary"
  BY <1>1 DEF VisitorInv, OnThePage, On
<1>3. CASE /\ account.state # "gone" /\ account' = [account EXCEPT !.state = "verified"]
           /\ doc' = Plain("to account")
  <2>1. /\ doc' \in PlainDoc /\ doc'.page = "to account" /\ account'.state = "verified"
        /\ account'.method = account.method
        /\ account' \in [state : {"none", "unverified", "temporary", "verified", "gone"},
                         method : Method]
    BY <1>1, <1>3 DEF Plain, PlainDoc
  <2>2. setting.patient /\ ~disturbed' => OnThePage'
    BY <1>1, <1>2, <1>3, <2>1 DEF OnThePage, On, Final
  <2> QED BY <1>1, <2>1, <2>2, PlainStep
<1>4. CASE doc' = Plain("error") /\ UNCHANGED account
  <2>1. doc' \in PlainDoc /\ doc'.page = "error"
    BY <1>4 DEF Plain, PlainDoc
  <2>2. setting.patient /\ ~disturbed' => OnThePage'
    BY <1>1, <1>2, <1>4, <2>1 DEF OnThePage, On
  <2> QED BY <1>1, <1>4, <2>1, <2>2, PlainStep
<1>5. CASE account.state = "gone" /\ doc' = Plain("login") /\ UNCHANGED account
  <2>1. doc' \in PlainDoc /\ doc'.page = "login"
    BY <1>5 DEF Plain, PlainDoc
  <2>2. setting.patient /\ ~disturbed' => OnThePage'
    BY <1>1, <1>5, <2>1 DEF OnThePage, On, Final
  <2> QED BY <1>1, <1>5, <2>1, <2>2, PlainStep
<1> QED BY <1>3, <1>4, <1>5 DEF Return

\* The telephone and the house keeper change an account that waits.
LEMMA SettleStep ==
  ASSUME VisitorInv, account.state = "unverified", NEW s \in Final,
         s = "verified" => account.method = "mobile", SetState(s),
         UNCHANGED <<setting, doc, posts, payments, disturbed>>
  PROVE  VisitorInv'
<1>1. /\ account \in [state : {"none", "unverified", "temporary", "verified", "gone"},
                      method : Method]
  BY DEF VisitorInv, Server
<1>2. /\ account'.state = s /\ account'.method = account.method
      /\ account' \in [state : {"none", "unverified", "temporary", "verified", "gone"},
                       method : Method]
  BY <1>1 DEF SetState, Final
<1>3. Documents'
  BY SameDocument DEF VisitorInv
<1>4. Server'
  BY <1>2 DEF VisitorInv, Server, On, Final
<1>5. OneRequest'
  BY <1>2 DEF VisitorInv, OneRequest, On
<1>6. setting'.patient /\ ~disturbed' => OnThePage'
  <2> SUFFICES ASSUME setting.patient, ~disturbed  PROVE OnThePage'
    OBVIOUS
  <2>1. OnThePage /\ doc' = doc
    BY DEF VisitorInv
  <2>2. CASE s = "gone"
    BY <1>2, <2>1, <2>2 DEF OnThePage, On, InStep, Unsettled, Final
  <2>3. CASE s = "verified"
    <3>1. account.method = "mobile"
      BY <2>3
    <3>2. On("verification") => ~doc.gateway /\ doc.waiting = {}
      BY <3>1, Pages DEF VisitorInv, Server, VerificationSound
    <3> QED BY <1>2, <2>1, <2>3, <3>2 DEF OnThePage, On, Final
  <2> QED BY <2>2, <2>3 DEF Final
<1> QED BY <1>3, <1>4, <1>5, <1>6 DEF VisitorInv

\* The browser opens the sign-up page.
LEMMA VisitorInitial ==
  ASSUME VisitorInit
  PROVE  VisitorInv
<1>1. /\ setting \in Settings /\ doc = Registration(FALSE, "none")
      /\ account = [state |-> "none", method |-> "none"]
      /\ posts = [i \in Post |-> "none"] /\ payments = [k \in Payment |-> "none"]
      /\ disturbed = FALSE
  BY DEF VisitorInit
<1>2. RegistrationSound(doc) /\ doc.await = 0
  BY <1>1, RegistrationFits DEF Method
<1>3. doc.page = "registration"
  BY <1>2 DEF RegistrationSound, RegistrationDoc
<1>4. Documents
  BY <1>2 DEF Documents
<1>5. Server
  BY <1>1, <1>3 DEF Server, On, Method
<1>6. OneRequest /\ OnThePage
  BY <1>1, <1>2, <1>3 DEF OneRequest, OnThePage, On
<1> QED BY <1>4, <1>5, <1>6 DEF VisitorInv

\* Every step of the visitor and of the server keeps the invariant.
LEMMA VisitorStep ==
  ASSUME VisitorInv, [VisitorNext]_visitVars
  PROVE  VisitorInv'
<1>1. setting \in Settings
  BY DEF VisitorInv, Server
<1>2. CASE RegistrationNext
  <2>1. ASSUME NEW m \in Method, Change(m)  PROVE VisitorInv'
    BY <1>1, <2>1, Pages, ChangeSound, RegistrationQuiet DEF VisitorInv, Change
  <2>2. ASSUME FillEmail  PROVE VisitorInv'
    BY <1>1, <2>2, Pages, FillEmailSound, RegistrationQuiet DEF VisitorInv, FillEmail
  <2>3. ASSUME EffectEnds("registration", {"form", "social", "confirm"})  PROVE VisitorInv'
    BY <1>1, <2>3, Pages, PartEndsSound, RegistrationQuiet DEF VisitorInv, EffectEnds
  <2> QED BY <1>2, <2>1, <2>2, <2>3, StopStep, RevisitStep, SubmitStep, CreateStep, AnsweredStep
          DEF RegistrationNext
<1>3. CASE VerificationNext
  <2>1. ASSUME WindowLoads  PROVE VisitorInv'
    BY <2>1, Pages, WindowLoadsSound, VerificationQuiet DEF VisitorInv, WindowLoads
  <2>2. ASSUME Toggle  PROVE VisitorInv'
    BY <2>2, Pages, ToggleSound, VerificationQuiet DEF VisitorInv, Toggle
  <2>3. ASSUME Key \/ KeyReleased  PROVE VisitorInv'
    BY <2>3, Pages, KeySound, VerificationQuiet DEF VisitorInv, Key, KeyReleased
  <2>4. ASSUME NEW k \in Payment, Timer(k)  PROVE VisitorInv'
    BY <2>4, Pages, TimerSound, VerificationQuiet DEF VisitorInv, Timer
  <2>5. ASSUME EffectEnds("verification", {"overlay", "spinner", "message"})  PROVE VisitorInv'
    BY <2>5, Pages, EffectEndsSound, VerificationQuiet DEF VisitorInv, EffectEnds
  <2>6. ASSUME Called \/ Expire  PROVE VisitorInv'
    BY <2>6, SettleStep DEF Called, Expire, Final
  <2> QED BY <1>3, <2>1, <2>2, <2>3, <2>4, <2>5, <2>6, FollowStep, ReloadStep, PollReadStep,
             PollLostStep, PollStep, PayStep, AnswerStep, AnswerFailedStep, ChargeStep,
             EndDetourStep, GoToAccountStep, ProceedStep, ReturnStep
          DEF VerificationNext
<1>4. CASE UNCHANGED visitVars
  <2>1. Documents'
    BY <1>4, SameDocument DEF visitVars, VisitorInv
  <2> QED BY <1>4, <2>1 DEF visitVars, VisitorInv, Server, OneRequest, OnThePage, InStep, On
<1> QED BY <1>2, <1>3, <1>4 DEF VisitorNext

-----------------------------------------------------------------------------
(* The visitor: what the invariant says.                                   *)

\* Elements that fade are elements.
LEMMA FadesIsElement ==
  ASSUME NEW e, Fades(e)
  PROVE  IsElement(e)
<1>1. e.shown \in BOOLEAN /\ e.closing \in BOOLEAN /\ e.queue \in Seq(Fading)
  BY DEF Fades, ElementOf
<1>2. Idle(e) => ~e.closing
  BY DEF Fades
<1> QED BY <1>1, <1>2 DEF IsElement, Fading

\* The invariant implies the type invariant.
LEMMA VisitorTyped ==
  ASSUME VisitorInv
  PROVE  VisitorTypeOK
<1>1. \A x \in Elements \cap DOMAIN doc : IsElement(doc[x])
  <2>1. CASE doc \in PlainDoc
    BY <2>1 DEF PlainDoc, Elements
  <2>2. CASE RegistrationSound(doc)
    <3>1. doc \in RegistrationDoc /\ Fades(doc.form) /\ Fades(doc.social)
      BY <2>2 DEF RegistrationSound, Fitting
    <3>2. IsElement(doc.confirm)
      <4>1. /\ doc.confirm.shown \in BOOLEAN /\ doc.confirm.closing = FALSE
            /\ doc.confirm.queue \in Seq({"toggle"})
        BY <2>2 DEF RegistrationSound, Confirming, RegistrationDoc, ElementOf
      <4>2. \A i \in DOMAIN doc.confirm.queue : doc.confirm.queue[i] = "toggle"
        BY <4>1
      <4> QED BY <4>1, <4>2 DEF IsElement
    <3>3. Elements \cap DOMAIN doc = {"form", "social", "confirm"}
      BY <3>1 DEF RegistrationDoc, Elements
    <3> QED BY <3>1, <3>2, <3>3, FadesIsElement
  <2>3. CASE VerificationSound(doc)
    <3>1. /\ doc \in VerificationDoc /\ Fades(doc.overlay) /\ Fades(doc.spinner)
          /\ Fades(doc.message)
      BY <2>3 DEF VerificationSound
    <3>2. Elements \cap DOMAIN doc = {"overlay", "spinner", "message"}
      BY <3>1 DEF VerificationDoc, Elements
    <3> QED BY <3>1, <3>2, FadesIsElement
  <2> QED BY <2>1, <2>2, <2>3 DEF VisitorInv, Documents
<1>2. On("verification") =>
        /\ doc.timers \cup doc.waiting \subseteq Payment
        /\ \A f \in Field : doc.number.len[f] \in 0..Width
        /\ doc.number.focus \in 1..(Fields + 1)
  BY Pages DEF VisitorInv, VerificationSound, VerificationDoc, Number
<1>3. doc.page \in {"registration", "to account", "to verification", "verification",
                    "account", "login", "expired", "additional", "bank", "error"}
  BY DEF VisitorInv, Documents, PlainDoc, RegistrationSound, RegistrationDoc,
         VerificationSound, VerificationDoc
<1>4. /\ account.state \in {"none", "unverified", "temporary", "verified", "gone"}
      /\ account.method \in Method
      /\ \A i \in Post : posts[i] \in Method \cup {"created", "refused"}
      /\ disturbed \in BOOLEAN
  BY DEF VisitorInv, Server
<1> QED BY <1>1, <1>2, <1>3, <1>4 DEF VisitorTypeOK

\* The invariant implies that a settled form fits.
LEMMA VisitorFits ==
  ASSUME VisitorInv
  PROVE  SettledFits
<1> SUFFICES ASSUME On("registration"), Settled
             PROVE  LET sends == doc.method \in {"mobile", "card"}
                        signs == doc.method = "social"
                    IN /\ sends => doc.form.shown
                       /\ signs => doc.social.shown
                       /\ setting.patient => doc.form.shown = sends /\ doc.social.shown = signs
                       /\ doc.readonly = doc.phone
                       /\ doc.email => doc.confirm.shown
  BY DEF SettledFits
<1>1. Fitting(doc) /\ Confirming(doc)
  BY Pages DEF VisitorInv, RegistrationSound
<1>2. /\ Fate(doc.form) = doc.form.shown /\ doc.form.shown \in BOOLEAN
      /\ Fate(doc.social) = doc.social.shown /\ doc.social.shown \in BOOLEAN
  BY <1>1, IdleFate DEF Fitting, Settled
<1> QED BY <1>1, <1>2 DEF Fitting, Confirming

\* The invariant implies that an accepted request is shown.
LEMMA VisitorAccepted ==
  ASSUME VisitorInv
  PROVE  AcceptedIsShown
<1> SUFFICES ASSUME setting.enhance, ~disturbed, On("registration"), doc.await = 0,
                    account.state # "none"
             PROVE  FALSE
  BY DEF AcceptedIsShown
<1>1. \E i \in Post : i = 0
  BY DEF VisitorInv, OneRequest
<1> QED BY <1>1 DEF Post

\* The invariant implies what is said of payments.
LEMMA VisitorPays ==
  ASSUME VisitorInv
  PROVE  DigitsKept /\ LockWhilePaying /\ MessageGone /\ BankOffered
<1>1. DigitsKept
  BY Pages DEF VisitorInv, VerificationSound, NumberSound, DigitsKept, Moving
<1>2. LockWhilePaying
  BY Pages DEF VisitorInv, OnePayment, LockWhilePaying
<1>3. MessageGone
  <2> SUFFICES ASSUME setting.patient, On("verification"), doc.waiting = {}, ~doc.failed,
                      Idle(doc.spinner), Idle(doc.message)
               PROVE  ~doc.spinner.shown /\ ~doc.message.shown
    BY DEF MessageGone
  <2>1. /\ Fades(doc.spinner) /\ Fades(doc.message)
        /\ ~Fate(doc.spinner) /\ ~Fate(doc.message)
    BY Pages DEF VisitorInv, VerificationSound, OnePayment
  <2> QED BY <2>1, IdleFate
<1>4. BankOffered
  BY DEF VisitorInv, OnThePage, BankOffered, Final
<1> QED BY <1>1, <1>2, <1>3, <1>4

\* What the visitor's browser and the server keep of each other is invariant.
THEOREM VisitorInvariant == VisitorSpec => []VisitorInv
<1>1. VisitorInit => VisitorInv
  BY VisitorInitial
<1>2. VisitorInv /\ [VisitorNext]_visitVars => VisitorInv'
  BY VisitorStep
<1> QED BY <1>1, <1>2, PTL DEF VisitorSpec

\* Documents, accounts and requests are what the pages expect.
THEOREM VisitorTypeCorrect == VisitorSpec => []VisitorTypeOK
BY VisitorInvariant, VisitorTyped, PTL

\* With whatever number of effects waiting, the form fits the chosen method
\* when they have ended.
THEOREM FormFits == VisitorSpec => []SettledFits
BY VisitorInvariant, VisitorFits, PTL

\* The mask of enhanceRegistration keeps the errors of a repeated request from
\* whom the first one has made an account.
THEOREM NoSecondRequest == VisitorSpec => []AcceptedIsShown
BY VisitorInvariant, VisitorAccepted, PTL

\* However wide the fields are and whichever keys overlap, a digit is lost only
\* in a field that a 9 has filled or before the key that filled it is up.
THEOREM OnlyNinesAndOverlapsLose == VisitorSpec => []DigitsKept
<1>1. VisitorInv => DigitsKept
  BY VisitorPays
<1> QED BY <1>1, VisitorInvariant, PTL

\* The mask is over the form exactly while the payment is unanswered.
THEOREM MaskFollowsPayment == VisitorSpec => []LockWhilePaying
<1>1. VisitorInv => LockWhilePaying
  BY VisitorPays
<1> QED BY <1>1, VisitorInvariant, PTL

\* The toggles of the spinner and of the message pair.
THEOREM TogglesPair == VisitorSpec => []MessageGone
<1>1. VisitorInv => MessageGone
  BY VisitorPays
<1> QED BY <1>1, VisitorInvariant, PTL

\* Whom the bank wants to see is shown its form.
THEOREM BankIsShown == VisitorSpec => []BankOffered
<1>1. VisitorInv => BankOffered
  BY VisitorPays
<1> QED BY <1>1, VisitorInvariant, PTL

-----------------------------------------------------------------------------
(* The console: what is invariant.                                         *)

\* The installations that owums.path knows: at the root of the host, with a
\* subUri that no page's name begins with, under a subUri of one segment, or
\* under "owums".
Routed(s) ==
  \/ s.root = <<>> /\ \A f \in {"stats", "users", "account"} : ~Begins(f, s.subUri)
  \/ s.root = <<s.subUri>> /\ s.subUri # ""
  \/ s.root = <<"owums">> /\ s.subUri = ""

Side == {"from", "to"}
Text == [timed : BOOLEAN, a : Nat, b : Nat]
Texts == [from : Text, to : Text]
Ranges == [from : 1..(Months * Days), to : 1..(Months * Days)]
ABox == [el : ElementOf(Sliding), hidden : BOOLEAN, remote : BOOLEAN, asked : 0..MaxLists,
         filled : BOOLEAN]

Layouts(kind) == CASE kind = "index"   -> {IndexPage}
                   [] kind = "user"    -> {UserPage}
                   [] kind = "account" -> {AccountPage}
                   [] kind = "chart"   -> {ChartPage(g) : g \in ChartGraphs}

GraphKinds == {"index", "chart", "user", "account"}

GraphsDoc(kind, page) ==
  [page : {kind}, fresh : BOOLEAN, locale : Locales, at : {site.root \o page.path},
   slots : {page.slots}, scripts : {page.scripts}, params : Texts, range : Ranges,
   waiting : SUBSET page.scripts,
   drawn : SUBSET [slot : page.slots, stat : {g.stat : g \in page.scripts}, range : Ranges],
   failed : SUBSET page.slots, note : BOOLEAN, boxes : [Boxes(kind) -> ABox],
   text : Texts, limit : [from : Date, to : Date], picked : [side : Side, date : {0} \cup Date]]

\* What is visible when all slides have ended: each toggle changes it once, a
\* swap twice, and the one that runs has its second slide before it.
Slides(e, fate) ==
  /\ e \in ElementOf(Sliding)
  /\ Idle(e) => e.closing = FALSE /\ e.shown = fate
  /\ ~Idle(e) =>
       /\ e.shown
       /\ \E v \in [1..Len(e.queue) -> BOOLEAN] :
            /\ v[1] = (e.closing = (e.queue[1] = "swap"))
            /\ \A i \in 1..(Len(e.queue) - 1) : v[i + 1] = (v[i] # (e.queue[i + 1] = "toggle"))
            /\ v[Len(e.queue)] = fate

\* A list that has come is there or will be put in.
BoxSound(b, box) ==
  /\ box \in ABox
  /\ Slides(box.el, ~box.hidden)
  /\ ~box.remote /\ b \in Lists =>
       box.filled \/ \E i \in DOMAIN box.el.queue : box.el.queue[i] = "swap"

Agreed(locale) == locale \in IF site.italian THEN {"en", "it"} ELSE {"en"}

\* Both dates can be read, and they are in order.
DatesSound(d) ==
  LET order == ServerOrder(d.locale)
      from == Read(order, d.text.from)
      to == Read(order, d.text.to)
  IN /\ d.text.from.timed = FALSE /\ d.text.to.timed = FALSE
     /\ from \in Date /\ to \in Date /\ from <= to
     /\ d.picked.date # 0 => d.picked.date = IF d.picked.side = "from" THEN from ELSE to

Landed(d) ==
  /\ d.failed = {}
  /\ d.drawn = {[slot |-> g.slot, stat |-> g.stat, range |-> d.range] :
                  g \in d.scripts \ d.waiting}

\* A document that no other tab has made stale agrees with the session.
GraphsSound(d) ==
  /\ d.page \in GraphKinds
  /\ \E page \in Layouts(d.page) : d \in GraphsDoc(d.page, page)
  /\ d.range = Period(d.locale, d.params)
  /\ \A b \in Boxes(d.page) : BoxSound(b, d.boxes[b])
  /\ d.fresh =>
       /\ session.locale = d.locale /\ session.operator = (d.page # "account")
       /\ d.page = "chart" /\ Agreed(d.locale) => DatesSound(d)
       /\ Routed(site) => Landed(d)

UsersDoc == [page : {"users"}, fresh : BOOLEAN, spinner : ElementOf(Fading), bound : BOOLEAN,
             vain : BOOLEAN, asks : [Ask -> {"none", "clicked", "keyed"}]]

\* The fate of the spinner is what the requests want of it.
UsersSound(d) ==
  /\ d \in UsersDoc
  /\ Fades(d.spinner)
  /\ (\E i \in Ask : d.asks[i] = "clicked") => Fate(d.spinner) /\ d.bound
  /\ (\A i \in Ask : d.asks[i] = "none") /\ ~d.vain => ~Fate(d.spinner)
  /\ ~d.bound => ~Fate(d.spinner)

AnUpdate == [phase : {"none", "sent", "running", "saved", "refused"},
             want : SUBSET Roles, saw : SUBSET Roles, seen : SUBSET Roles]

OperatorDoc ==
  [page : {"operator"}, fresh : BOOLEAN, held : SUBSET Roles, checked : SUBSET Roles,
   high : SUBSET Roles, restored : BOOLEAN, awaits : {0} \cup Update,
   updates : [Update -> AnUpdate], group : SUBSET (SUBSET Roles)]

\* What the group agrees on is held, and what a running update has seen of it
\* otherwise was changed by one of the group.
GroupSound(held, group) ==
  \A r \in Roles : /\ (\A saw \in group : r \in saw) => r \in held
                   /\ (\A saw \in group : r \notin saw) => r \notin held

SeenSound(seen, held, group) ==
  \A r \in Roles : /\ r \in seen \ held => \E saw \in group : r \notin saw
                   /\ r \in held \ seen => \E saw \in group : r \in saw

OperatorSound(d) ==
  /\ d \in OperatorDoc
  /\ ~d.restored => d.checked = d.high
  /\ \A u \in Update : d.updates[u].saw = d.updates[u].want
  /\ d.awaits # 0 => d.updates[d.awaits].phase # "none"
  /\ d.group # {} => GroupSound(d.held, d.group)
  /\ \A u \in Update :
       d.updates[u].phase = "running" => SeenSound(d.updates[u].seen, d.held, d.group)

OperatorsDoc == [page : {"operators"}, fresh : BOOLEAN, notice : ElementOf(Sliding),
                 closed : BOOLEAN]

OperatorsSound(d) ==
  /\ d \in OperatorsDoc
  /\ d.notice.queue \in Seq({"toggle"})
  /\ Slides(d.notice, ~d.closed)

\* The documents that nothing is said of but what was agreed to.
OtherDoc ==
  [page : {"home"}, fresh : BOOLEAN]
    \cup {d \in [page : {"posted"}, fresh : BOOLEAN, asked : BOOLEAN, yes : BOOLEAN] :
            d.asked => d.yes}
    \cup [page : {"new_user"}, fresh : BOOLEAN, method : {"document", "phone"},
          identity : BOOLEAN]
    \cup [page : {"edit"}, fresh : BOOLEAN, disable : BOOLEAN]

ConsoleInv ==
  /\ site \in Sites
  /\ session \in [locale : Locales, operator : BOOLEAN]
  /\ \/ GraphsSound(doc)
     \/ UsersSound(doc)
     \/ OperatorSound(doc)
     \/ OperatorsSound(doc)
     \/ doc \in OtherDoc

-----------------------------------------------------------------------------
(* Elements that slide.                                                    *)

\* An effect that waits is counted.
LEMMA EnqueueSlides ==
  ASSUME NEW e, NEW f \in BOOLEAN, Slides(e, f), NEW k \in Sliding
  PROVE  LET b == Enqueue(e, k)
         IN Slides(b, IF k = "toggle" THEN ~f ELSE f) /\ b.queue = Append(e.queue, k)
<1> DEFINE n == Len(e.queue)
           q == Append(e.queue, k)
           l == [e EXCEPT !.queue = q]
           g == IF k = "toggle" THEN ~f ELSE f
<1>1. /\ e \in ElementOf(Sliding) /\ e.queue \in Seq(Sliding) /\ n \in Nat
      /\ e.shown \in BOOLEAN /\ e.closing \in BOOLEAN /\ (Idle(e) <=> n = 0)
  BY EmptySeq DEF Slides, ElementOf, Idle
<1>2. /\ q \in Seq(Sliding) /\ Len(q) = n + 1 /\ q[n + 1] = k /\ q # <<>>
      /\ \A i \in 1..n : q[i] = e.queue[i]
  BY <1>1, AppendProperties
<1>3. /\ l \in ElementOf(Sliding) /\ ~Idle(l) /\ l.queue = q
      /\ l.shown = e.shown /\ l.closing = e.closing
  BY <1>1, <1>2 DEF ElementOf, Idle
<1>4. Enqueue(e, k) = IF Idle(e) THEN Begin(l) ELSE l
  BY <1>1 DEF Enqueue, ElementOf
<1> HIDE DEF q, l
<1>5. CASE Idle(e)
  <2> DEFINE b == [shown |-> TRUE, closing |-> e.shown, queue |-> q]
             v == [i \in 1..Len(q) |-> e.shown = (k = "swap")]
  <2>1. Enqueue(e, k) = b
    BY <1>3, <1>4, <1>5, BeginSlides
  <2>2. b \in ElementOf(Sliding) /\ ~Idle(b)
    BY <1>1, <1>2 DEF ElementOf, Idle
  <2>3. e.shown = f /\ Len(q) = 1 /\ q[1] = k
    BY <1>1, <1>2, <1>5 DEF Slides
  <2>4. /\ v \in [1..Len(q) -> BOOLEAN] /\ v[1] = (e.shown = (q[1] = "swap"))
        /\ v[Len(q)] = g /\ \A i \in 1..(Len(q) - 1) : FALSE
    BY <2>3 DEF Sliding
  <2> HIDE DEF v
  <2>5. Slides(b, g)
    BY <2>2, <2>4 DEF Slides
  <2> QED BY <2>1, <2>5 DEF q
<1>6. CASE ~Idle(e)
  <2>1. PICK v \in [1..n -> BOOLEAN] :
          /\ v[1] = (e.closing = (e.queue[1] = "swap"))
          /\ \A i \in 1..(n - 1) : v[i + 1] = (v[i] # (e.queue[i + 1] = "toggle"))
          /\ v[n] = f
    BY <1>6 DEF Slides
  <2> DEFINE w == [i \in 1..(n + 1) |-> IF i = n + 1 THEN (v[n] # (k = "toggle")) ELSE v[i]]
  <2>2. n \in Nat \ {0} /\ e.shown
    BY <1>1, <1>6 DEF Slides
  <2>3. /\ w \in [1..(n + 1) -> BOOLEAN] /\ \A i \in 1..n : w[i] = v[i]
        /\ w[n + 1] = (v[n] # (k = "toggle"))
    <3>1. n + 1 \in 1..(n + 1) /\ \A i \in 1..n : i \in 1..(n + 1) /\ i # n + 1
      BY <2>2
    <3>2. \A i \in 1..(n + 1) : i # n + 1 => i \in 1..n
      BY <2>2
    <3>3. \A i \in 1..(n + 1) : w[i] \in BOOLEAN
      BY <3>2, Zenon
    <3>4. w \in [1..(n + 1) -> BOOLEAN]
      BY <3>3, Zenon
    <3> QED BY <3>1, <3>4, Zenon
  <2> HIDE DEF w
  <2>4. w[1] = (l.closing = (q[1] = "swap"))
    BY <1>2, <1>3, <2>1, <2>2, <2>3
  <2>5. \A i \in 1..n : w[i + 1] = (w[i] # (q[i + 1] = "toggle"))
    <3> TAKE i \in 1..n
    <3>1. CASE i = n
      BY <1>2, <2>2, <2>3, <3>1
    <3>2. CASE i # n
      <4>1. i \in 1..(n - 1) /\ i + 1 \in 1..n
        BY <2>2, <3>2
      <4> QED BY <1>2, <2>1, <2>3, <4>1, SMTT(30)
    <3> QED BY <3>1, <3>2
  <2>6. w[n + 1] = g
    BY <2>1, <2>3
  <2>7. Slides(l, g)
    <3>1. Len(q) = n + 1 /\ Len(q) - 1 = n
      BY <1>2, <2>2
    <3>2. /\ w \in [1..Len(q) -> BOOLEAN] /\ w[1] = (l.closing = (q[1] = "swap"))
          /\ w[Len(q)] = g
          /\ \A i \in 1..(Len(q) - 1) : w[i + 1] = (w[i] # (q[i + 1] = "toggle"))
      BY <2>3, <2>4, <2>5, <2>6, <3>1
    <3> HIDE DEF n, g
    <3> QED BY <1>3, <2>2, <3>2 DEF Slides
  <2> QED BY <1>3, <1>4, <1>6, <2>7 DEF q
<1> QED BY <1>5, <1>6

\* An effect that ends is no longer counted, and has changed the element.
LEMMA FinishSlides ==
  ASSUME NEW e, NEW f \in BOOLEAN, Slides(e, f), ~Idle(e)
  PROVE  LET b == Finish(e)
         IN Slides(b, IF Head(e.queue) = "swap" THEN ~f ELSE f) /\ b.queue = Tail(e.queue)
<1> DEFINE n == Len(e.queue)
           q == Tail(e.queue)
           t == [e EXCEPT !.shown = @ /\ ~e.closing, !.queue = Tail(@)]
           g == IF Head(e.queue) = "swap" THEN ~f ELSE f
           b == Finish(e)
<1>1. /\ e \in ElementOf(Sliding) /\ e.queue \in Seq(Sliding) /\ n \in Nat \ {0}
      /\ e.shown /\ e.closing \in BOOLEAN /\ e.queue # <<>> /\ Head(e.queue) = e.queue[1]
  BY EmptySeq DEF Slides, ElementOf, Idle
<1>2. /\ q \in Seq(Sliding) /\ Len(q) = n - 1 /\ \A i \in 1..(n - 1) : q[i] = e.queue[i + 1]
  BY <1>1, HeadTailProperties
<1>3. PICK v \in [1..n -> BOOLEAN] :
        /\ v[1] = (e.closing = (e.queue[1] = "swap"))
        /\ \A i \in 1..(n - 1) : v[i + 1] = (v[i] # (e.queue[i + 1] = "toggle"))
        /\ v[n] = f
  BY DEF Slides
<1>4. /\ t \in ElementOf(Sliding) /\ t.queue = q /\ t.shown = ~e.closing
      /\ t.closing = e.closing /\ (Idle(t) <=> n = 1)
  <2>1. t = [e EXCEPT !.shown = ~e.closing, !.queue = q]
    BY <1>1 DEF ElementOf
  <2>2. q = <<>> <=> n = 1
    <3>1. q = <<>> <=> Len(q) = 0
      BY <1>2, EmptySeq
    <3> HIDE DEF q
    <3> QED BY <1>1, <1>2, <3>1
  <2> HIDE DEF q, t
  <2> QED BY <1>1, <1>2, <2>1, <2>2 DEF ElementOf, Idle
<1>5. b = Begin(t)
  BY DEF Finish
<1> HIDE DEF q, t, b
<1>6. CASE Idle(t)
  <2>1. b = [t EXCEPT !.closing = FALSE]
    BY <1>4, <1>5, <1>6, BeginSlides
  <2>2. /\ b \in ElementOf(Sliding) /\ b.queue = q /\ b.shown = ~e.closing /\ b.closing = FALSE
        /\ Idle(b)
    BY <1>4, <1>6, <2>1 DEF ElementOf, Idle
  <2>3. n = 1 /\ f = (e.closing = (e.queue[1] = "swap"))
    BY <1>3, <1>4, <1>6
  <2>4. b.shown = g
    BY <1>1, <2>2, <2>3
  <2>5. Slides(b, g)
    BY <2>2, <2>4 DEF Slides
  <2> QED BY <2>2, <2>5 DEF b, q
<1>7. CASE ~Idle(t)
  <2> DEFINE w == [i \in 1..(n - 1) |-> (v[i + 1] = (e.queue[1] # "swap"))]
  <2>1. b = [shown |-> TRUE, closing |-> ~e.closing, queue |-> q]
    BY <1>4, <1>5, <1>7, BeginSlides
  <2>2. /\ b \in ElementOf(Sliding) /\ b.queue = q /\ b.shown = TRUE /\ b.closing = ~e.closing
        /\ ~Idle(b)
    BY <1>2, <1>4, <1>7, <2>1 DEF ElementOf, Idle
  <2>3. n - 1 \in Nat \ {0}
    BY <1>1, <1>4, <1>7
  <2>4. /\ w \in [1..(n - 1) -> BOOLEAN]
        /\ \A i \in 1..(n - 1) : w[i] = (v[i + 1] = (e.queue[1] # "swap"))
    OBVIOUS
  <2> HIDE DEF w
  <2>5. w[1] = (b.closing = (q[1] = "swap"))
    <3>1. 1 \in 1..(n - 1) /\ 2 \in 1..n /\ 1 + 1 = 2
      <4>1. n \in Nat
        BY <1>1
      <4> HIDE DEF n
      <4> QED BY <2>3, <4>1
    <3>2. /\ v[2] = (v[1] # (e.queue[2] = "toggle")) /\ q[1] = e.queue[2]
          /\ w[1] = (v[2] = (e.queue[1] # "swap")) /\ e.queue[2] \in Sliding
      BY <1>1, <1>2, <1>3, <2>4, <3>1
    <3>3. v[1] \in BOOLEAN
      BY <1>1
    <3> QED BY <1>1, <1>3, <2>2, <3>2, <3>3 DEF Sliding
  <2>6. \A i \in 1..(n - 1 - 1) : w[i + 1] = (w[i] # (q[i + 1] = "toggle"))
    <3> TAKE i \in 1..(n - 1 - 1)
    <3>1. i \in 1..(n - 1) /\ i + 1 \in 1..(n - 1) /\ i + 1 + 1 \in 1..n
      BY <1>1
    <3>2. v[i + 1 + 1] = (v[i + 1] # (e.queue[i + 1 + 1] = "toggle"))
      BY <1>3, <3>1
    <3>3. v[i + 1] \in BOOLEAN /\ v[i + 1 + 1] \in BOOLEAN
      BY <1>1, <3>1
    <3> QED BY <1>2, <2>4, <3>1, <3>2, <3>3
  <2>7. w[n - 1] = g
    <3>1. w[n - 1] = (v[n] = (e.queue[1] # "swap"))
      <4>1. n - 1 \in 1..(n - 1) /\ n - 1 + 1 = n
        <5>1. n \in Nat
          BY <1>1
        <5> HIDE DEF n
        <5> QED BY <2>3, <5>1
      <4>2. w[n - 1] = (v[n - 1 + 1] = (e.queue[1] # "swap"))
        BY <2>4, <4>1
      <4> QED BY <4>1, <4>2
    <3> QED BY <1>1, <1>3, <3>1
  <2>8. Slides(b, g)
    <3>1. /\ w \in [1..Len(q) -> BOOLEAN] /\ w[Len(q)] = g
          /\ \A i \in 1..(Len(q) - 1) : w[i + 1] = (w[i] # (q[i + 1] = "toggle"))
      BY <1>2, <2>4, <2>6, <2>7
    <3> HIDE DEF n, g
    <3> QED BY <2>2, <2>5, <3>1 DEF Slides
  <2> QED BY <2>2, <2>8 DEF b, q
<1> QED BY <1>6, <1>7

\* An element on which nothing has happened.
LEMMA ElementSlides ==
  ASSUME NEW v \in BOOLEAN
  PROVE  Slides(Element(v), v) /\ Element(v).queue = <<>>
<1>1. Element(v) \in ElementOf(Sliding) /\ Idle(Element(v)) /\ Element(v).queue = <<>>
      /\ Element(v).shown = v /\ Element(v).closing = FALSE
  BY EmptySeq DEF Element, ElementOf, Idle
<1> QED BY <1>1 DEF Slides

\* Elements that slide are elements.
LEMMA SlidesIsElement ==
  ASSUME NEW e, NEW f, Slides(e, f)
  PROVE  IsElement(e)
<1>1. e.shown \in BOOLEAN /\ e.closing \in BOOLEAN /\ e.queue \in Seq(Sliding)
  BY DEF Slides, ElementOf
<1>2. Idle(e) => ~e.closing
  BY DEF Slides
<1> QED BY <1>1, <1>2 DEF IsElement, Sliding

-----------------------------------------------------------------------------
(* Dates.                                                                  *)

\* The days of a year and their pairs of day and month.
LEMMA DayAndMonth ==
  ASSUME NEW d \in 1..(Months * Days)
  PROVE  LET day == ((d - 1) % Days) + 1
             month == ((d - 1) \div Days) + 1
         IN day \in 1..Days /\ month \in 1..Months /\ (month - 1) * Days + day = d
<1> DEFINE r == (d - 1) % Days
           q == (d - 1) \div Days
<1>1. Days \in Nat \ {0} /\ Months \in Nat \ {0} /\ d - 1 \in Nat /\ d - 1 < Months * Days
  BY DateAssumption
<1>2. q \in Nat /\ r \in 0..(Days - 1) /\ d - 1 = q * Days + r
  BY <1>1
<1> HIDE DEF q, r
<1>3. q < Months
  <2> SUFFICES ASSUME q >= Months  PROVE FALSE
    BY <1>1, <1>2
  <2>1. q * Days >= Months * Days
    BY <1>1, <1>2
  <2>2. q * Days \in Nat /\ Months * Days \in Nat
    BY <1>1, <1>2
  <2> QED BY <1>1, <1>2, <2>1, <2>2
<1>4. q + 1 - 1 = q /\ q * Days + (r + 1) = d
  <2>1. q * Days \in Nat
    BY <1>1, <1>2
  <2> QED BY <1>1, <1>2, <2>1
<1> QED BY <1>1, <1>2, <1>3, <1>4 DEF q, r

\* A calendar, or the server, reads what it wrote.
LEMMA WriteReads ==
  ASSUME NEW order, NEW timed \in BOOLEAN, NEW d \in 1..(Months * Days)
  PROVE  LET text == Write(order, timed, d)
         IN text \in Text /\ text.timed = timed /\ Read(order, text) = d
<1> DEFINE day == ((d - 1) % Days) + 1
           month == ((d - 1) \div Days) + 1
<1>1. day \in 1..Days /\ month \in 1..Months /\ (month - 1) * Days + day = d
  BY DayAndMonth
<1>2. Write(order, timed, d) = [timed |-> timed, a |-> IF order = "day" THEN day ELSE month,
                                                 b |-> IF order = "day" THEN month ELSE day]
  BY DEF Write
<1> HIDE DEF day, month
<1>3. day \in Nat /\ month \in Nat
  BY <1>1, DateAssumption
<1> QED BY <1>1, <1>2, <1>3 DEF Read, Text

\* A text is read as a day of the year or not at all.
LEMMA ReadTyped ==
  ASSUME NEW order, NEW text \in Text
  PROVE  Read(order, text) \in {0} \cup 1..(Months * Days)
<1>1. ASSUME NEW day \in 1..Days, NEW month \in 1..Months
      PROVE  (month - 1) * Days + day \in 1..(Months * Days)
  <2>1. Days \in Nat \ {0} /\ Months \in Nat \ {0}
    BY DateAssumption
  <2>2. (month - 1) * Days \in Nat /\ Months * Days \in Nat
    BY <2>1
  <2>3. (month - 1) * Days + Days <= Months * Days
    <3>1. (month - 1) * Days + Days = month * Days
      BY <2>1
    <3>2. month * Days <= Months * Days
      BY <2>1
    <3> QED BY <3>1, <3>2
  <2> QED BY <2>1, <2>2, <2>3
<1> QED BY <1>1 DEF Read

\* The constants are days of the year.
LEMMA TodayFits == Date \subseteq 1..(Months * Days) /\ Today \in Date /\ Ago \in Date /\ Ago <= Today
<1>1. Months * Days \in Nat
  BY DateAssumption
<1> QED BY <1>1, DateAssumption DEF Date

\* The period of a graph is one of days of the year.
LEMMA PeriodTyped ==
  ASSUME NEW locale, NEW texts \in Texts
  PROVE  Period(locale, texts) \in Ranges
<1> DEFINE f == ServerRead(locale, texts.from)
           t == ServerRead(locale, texts.to)
<1>1. f \in {0} \cup 1..(Months * Days) /\ t \in {0} \cup 1..(Months * Days)
  BY ReadTyped DEF ServerRead, Texts
<1>2. Period(locale, texts) = [from |-> OrElse(f, Ago), to |-> OrElse(t, Today)]
  BY DEF Period
<1> HIDE DEF f, t
<1>3. Ago \in 1..(Months * Days) /\ Today \in 1..(Months * Days)
  BY TodayFits
<1> QED BY <1>1, <1>2, <1>3 DEF OrElse, Ranges

\* Where they agree, page and server have one format, without the time.
LEMMA OneFormat ==
  ASSUME site \in Sites, NEW locale, Agreed(locale)
  PROVE  PickerOrder(locale, site.italian) = ServerOrder(locale) /\ Timed(locale) = FALSE
<1>1. site.italian \in BOOLEAN
  BY SitesAssumption
<1>2. DOMAIN GraphsLocales = {"it"} /\ GraphsLocales["it"] = "day"
  BY DEF GraphsLocales
<1>3. CASE locale = "en"
  BY <1>2, <1>3 DEF PickerOrder, ServerOrder, Timed
<1>4. CASE locale = "it" /\ site.italian
  BY <1>2, <1>4 DEF PickerOrder, ServerOrder, Timed
<1> QED BY <1>1, <1>3, <1>4 DEF Agreed

\* An empty field is read as no day.
LEMMA EmptyText == NoText \in Texts /\ \A order : Read(order, Empty) = 0
<1>1. Empty \in Text /\ 0 \notin 1..Days
  BY DEF Empty, Text
<1>2. \A order : Read(order, Empty) = 0
  BY <1>1 DEF Read, Empty
<1> QED BY <1>1, <1>2 DEF NoText, Texts

\* The period of a page without dates of its own is in order.
LEMMA PeriodByDefault ==
  ASSUME NEW locale
  PROVE  LET p == Period(locale, NoText)
         IN p.from \in Date /\ p.to \in Date /\ p.from <= p.to
<1>1. ServerRead(locale, Empty) = 0
  BY EmptyText DEF ServerRead
<1>2. Period(locale, NoText) = [from |-> Ago, to |-> Today]
  BY <1>1 DEF Period, NoText, OrElse
<1> QED BY <1>2, TodayFits

-----------------------------------------------------------------------------
(* The pages with graphs.                                                  *)

\* Each kind of page has its layout.
LEMMA KindsOfPages ==
  ASSUME NEW kind \in GraphKinds, NEW page \in Layouts(kind)
  PROVE  /\ kind = "index" => page = IndexPage
         /\ kind = "user" => page = UserPage
         /\ kind = "account" => page = AccountPage
         /\ kind = "chart" => \E g \in ChartGraphs : page = ChartPage(g)
         /\ \A g \in page.scripts : g.slot \in page.slots
<1>1. /\ kind = "index" => page = IndexPage
      /\ kind = "user" => page = UserPage
      /\ kind = "account" => page = AccountPage
      /\ kind = "chart" => \E g \in ChartGraphs : page = ChartPage(g)
  BY DEF Layouts, GraphKinds
<1> DEFINE Fine(p) == \A g \in p.scripts : g.slot \in p.slots
<1>2. Fine(IndexPage)
  BY DEF Fine, IndexPage, Page, RegisteredUsersDailyGraph, LoginsGraph, TrafficGraph
<1>3. Fine(UserPage)
  BY DEF Fine, UserPage, Page, UserLoginsGraph, UserTrafficGraph
<1>4. Fine(AccountPage)
  BY DEF Fine, AccountPage, Page, AccountLoginsGraph, AccountTrafficGraph
<1>5. \A g \in ChartGraphs : Fine(ChartPage(g))
  BY DEF Fine, ChartPage, Page, ChartGraphs, TrafficGraph, LoginsGraph, RegisteredUsersGraph,
         RegisteredUsersDailyGraph
<1> HIDE DEF Fine
<1>6. Fine(page)
  BY <1>1, <1>2, <1>3, <1>4, <1>5 DEF GraphKinds
<1> QED BY <1>1, <1>6 DEF Fine

\* The boxes of a page as it is served.
LEMMA BoxesFresh ==
  ASSUME NEW kind
  PROVE  LET boxes == [b \in Boxes(kind) |-> Box(b \in Lists)]
         IN boxes \in [Boxes(kind) -> ABox] /\ \A b \in Boxes(kind) : BoxSound(b, boxes[b])
<1>1. \A b : Box(b \in Lists) \in ABox /\ BoxSound(b, Box(b \in Lists))
  <2> TAKE b
  <2> DEFINE l == b \in Lists
             x == Box(l)
  <2>1. l \in BOOLEAN /\ (~l) \in BOOLEAN /\ 0 \in 0..MaxLists
    BY StatisticsAssumption
  <2>2. Slides(Element(~l), ~l) /\ Element(~l) \in ElementOf(Sliding)
    BY <2>1, ElementSlides DEF Slides
  <2>3. x = [el |-> Element(~l), hidden |-> l, remote |-> l, asked |-> 0, filled |-> FALSE]
    BY DEF Box
  <2> HIDE DEF x
  <2>4. x \in ABox
    BY <2>1, <2>2, <2>3 DEF ABox
  <2>5. BoxSound(b, x)
    BY <2>2, <2>3, <2>4 DEF BoxSound
  <2> QED BY <2>4, <2>5 DEF x
<1> QED BY <1>1

\* What a page shows when it has been rendered.
LEMMA RenderedSound ==
  ASSUME site \in Sites, session \in [locale : Locales, operator : BOOLEAN],
         NEW kind \in GraphKinds, NEW page \in Layouts(kind), NEW params \in Texts,
         NEW f \in BOOLEAN, f => session.operator = (kind # "account"),
         f /\ kind = "chart" /\ Agreed(session.locale) =>
           LET p == Period(session.locale, params)
           IN p.from \in Date /\ p.to \in Date /\ p.from <= p.to
  PROVE  GraphsSound([Rendered(kind, page, params) EXCEPT !.fresh = f])
<1> DEFINE range == Period(session.locale, params)
           boxes == [b \in Boxes(kind) |-> Box(b \in Lists)]
           text == IF kind = "chart" THEN [from |-> Localize(session.locale, range.from),
                                           to |-> Localize(session.locale, range.to)]
                                     ELSE NoText
           r == [Rendered(kind, page, params) EXCEPT !.fresh = f]
<1>1. /\ range \in Ranges /\ range.from \in 1..(Months * Days) /\ range.to \in 1..(Months * Days)
      /\ session.locale \in Locales
  BY PeriodTyped DEF Ranges
<1>2. boxes \in [Boxes(kind) -> ABox] /\ \A b \in Boxes(kind) : BoxSound(b, boxes[b])
  BY BoxesFresh
<1> HIDE DEF range, boxes
<1>3. /\ Localize(session.locale, range.from) \in Text /\ Localize(session.locale, range.to) \in Text
      /\ Localize(session.locale, range.from).timed = Timed(session.locale)
      /\ Localize(session.locale, range.to).timed = Timed(session.locale)
      /\ Read(ServerOrder(session.locale), Localize(session.locale, range.from)) = range.from
      /\ Read(ServerOrder(session.locale), Localize(session.locale, range.to)) = range.to
  <2>1. Timed(session.locale) \in BOOLEAN
    BY DEF Timed
  <2> QED BY <1>1, <2>1, WriteReads DEF Localize
<1>4. text \in Texts
  BY <1>3, EmptyText DEF Texts
<1> HIDE DEF text
<1> DEFINE w == [page |-> kind, fresh |-> TRUE, locale |-> session.locale,
           at |-> site.root \o page.path, slots |-> page.slots, scripts |-> page.scripts,
           params |-> params, range |-> range, waiting |-> page.scripts, drawn |-> {},
           failed |-> {}, note |-> Noted, boxes |-> boxes, text |-> text,
           limit |-> [from |-> Today, to |-> 1], picked |-> [side |-> "from", date |-> 0]]
<1>5. r = [page |-> kind, fresh |-> f, locale |-> session.locale,
           at |-> site.root \o page.path, slots |-> page.slots, scripts |-> page.scripts,
           params |-> params, range |-> range, waiting |-> page.scripts, drawn |-> {},
           failed |-> {}, note |-> Noted, boxes |-> boxes, text |-> text,
           limit |-> [from |-> Today, to |-> 1], picked |-> [side |-> "from", date |-> 0]]
  <2>1. Rendered(kind, page, params) = w
    BY DEF Rendered, range, boxes, text
  <2>2. r = [w EXCEPT !.fresh = f]
    BY <2>1
  <2> HIDE DEF r
  <2> QED BY <2>2
<1>6. Noted \in BOOLEAN /\ Today \in Date /\ 1 \in Date
  BY DateAssumption DEF Noted, Date
<1> HIDE DEF r, w
<1>7. r \in GraphsDoc(kind, page)
  BY <1>1, <1>2, <1>4, <1>5, <1>6 DEF GraphsDoc, Side
<1>8. f /\ kind = "chart" /\ Agreed(session.locale) => DatesSound(r)
  <2> SUFFICES ASSUME f, kind = "chart", Agreed(session.locale)  PROVE DatesSound(r)
    OBVIOUS
  <2>1. Timed(session.locale) = FALSE
    BY OneFormat
  <2>2. range.from \in Date /\ range.to \in Date /\ range.from <= range.to
    BY DEF range
  <2>3. /\ r.text.from = Localize(session.locale, range.from) /\ r.locale = session.locale
        /\ r.text.to = Localize(session.locale, range.to) /\ r.picked.date = 0
    BY <1>5 DEF text
  <2> QED BY <1>3, <2>1, <2>2, <2>3 DEF DatesSound
<1>9. Landed(r)
  BY <1>5 DEF Landed
<1>10. r.range = Period(r.locale, r.params)
  BY <1>5 DEF range
<1> QED BY <1>2, <1>5, <1>7, <1>8, <1>9, <1>10 DEF GraphsSound, r

\* What is invariant of the page that is open.
LEMMA ConsolePages ==
  ASSUME ConsoleInv
  PROVE  /\ WithGraphs <=> GraphsSound(doc)
         /\ On("users") <=> UsersSound(doc)
         /\ On("operator") <=> OperatorSound(doc)
         /\ On("operators") <=> OperatorsSound(doc)
         /\ doc.page \in {"home", "posted", "new_user", "edit"} <=> doc \in OtherDoc
<1>1. GraphsSound(doc) => doc.page \in GraphKinds
  BY DEF GraphsSound
<1>2. UsersSound(doc) => doc.page = "users"
  BY DEF UsersSound, UsersDoc
<1>3. OperatorSound(doc) => doc.page = "operator"
  BY DEF OperatorSound, OperatorDoc
<1>4. OperatorsSound(doc) => doc.page = "operators"
  BY DEF OperatorsSound, OperatorsDoc
<1>5. doc \in OtherDoc => doc.page \in {"home", "posted", "new_user", "edit"}
  BY DEF OtherDoc
<1> QED BY <1>1, <1>2, <1>3, <1>4, <1>5 DEF ConsoleInv, GraphKinds, WithGraphs, On

\* Enough for the console to be in order after a step.
LEMMA NextConsole ==
  ASSUME ConsoleInv, UNCHANGED <<site, session>>,
         \/ GraphsSound(doc') \/ UsersSound(doc') \/ OperatorSound(doc')
         \/ OperatorsSound(doc') \/ doc' \in OtherDoc
  PROVE  ConsoleInv'
<1>1. GraphsSound(doc') => GraphsSound(doc)'
  BY DEF GraphsSound, GraphsDoc, Agreed, DatesSound, Landed, BoxSound
<1>2. UsersSound(doc') => UsersSound(doc)'
  BY DEF UsersSound
<1>3. OperatorSound(doc') => OperatorSound(doc)'
  BY DEF OperatorSound
<1>4. OperatorsSound(doc') => OperatorsSound(doc)'
  BY DEF OperatorsSound
<1> QED BY <1>1, <1>2, <1>3, <1>4 DEF ConsoleInv

\* A page with graphs is opened.
LEMMA OpenStatisticsStep ==
  ASSUME ConsoleInv, OpenStatistics
  PROVE  ConsoleInv'
<1>1. /\ site \in Sites /\ session \in [locale : Locales, operator : BOOLEAN]
  BY DEF ConsoleInv
<1>2. \E kind \in GraphKinds : \E page \in Layouts(kind) :
        session.operator = (kind # "account") /\ Load(Rendered(kind, page, NoText))
  <2>1. CASE session.operator /\ Load(Rendered("index", IndexPage, NoText))
    BY <2>1 DEF GraphKinds, Layouts
  <2>2. CASE session.operator /\ Load(Rendered("user", UserPage, NoText))
    BY <2>2 DEF GraphKinds, Layouts
  <2>3. ASSUME session.operator, NEW g \in ChartGraphs, Load(Rendered("chart", ChartPage(g), NoText))
        PROVE  \E page \in Layouts("chart") : Load(Rendered("chart", page, NoText))
    BY <2>3 DEF GraphKinds, Layouts
  <2>4. CASE ~session.operator /\ Load(Rendered("account", AccountPage, NoText))
    BY <1>1, <2>4 DEF GraphKinds, Layouts
  <2> QED BY <2>1, <2>2, <2>3, <2>4 DEF OpenStatistics, GraphKinds
<1>3. PICK kind \in GraphKinds : \E page \in Layouts(kind) :
        session.operator = (kind # "account") /\ Load(Rendered(kind, page, NoText))
  BY <1>2
<1>4. PICK page \in Layouts(kind) :
        session.operator = (kind # "account") /\ Load(Rendered(kind, page, NoText))
  BY <1>3
<1> DEFINE r == Rendered(kind, page, NoText)
<1>5. GraphsSound([r EXCEPT !.fresh = TRUE])
  BY <1>1, <1>4, EmptyText, PeriodByDefault, RenderedSound
<1>6. [r EXCEPT !.fresh = TRUE] = r
  <2>1. r = [page |-> r.page, fresh |-> TRUE, locale |-> r.locale, at |-> r.at,
             slots |-> r.slots, scripts |-> r.scripts, params |-> r.params, range |-> r.range,
             waiting |-> r.waiting, drawn |-> r.drawn, failed |-> r.failed, note |-> r.note,
             boxes |-> r.boxes, text |-> r.text, limit |-> r.limit, picked |-> r.picked]
    BY Zenon DEF Rendered
  <2> HIDE DEF r
  <2> QED BY <2>1
<1>7. doc' = r /\ UNCHANGED <<site, session>>
  BY <1>4 DEF Load
<1> HIDE DEF r
<1> QED BY <1>5, <1>6, <1>7, NextConsole

\* The form with the dates is sent.
LEMMA SubmitDatesStep ==
  ASSUME ConsoleInv, SubmitDates
  PROVE  ConsoleInv'
<1>1. /\ site \in Sites /\ session \in [locale : Locales, operator : BOOLEAN]
      /\ On("chart") /\ session.operator /\ GraphsSound(doc)
  BY ConsolePages DEF ConsoleInv, SubmitDates, WithGraphs, On
<1>2. PICK g \in doc.scripts :
        Load([Rendered("chart", ChartPage(g), doc.text) EXCEPT !.fresh = doc.fresh])
  BY DEF SubmitDates
<1>3. PICK page \in Layouts("chart") : doc \in GraphsDoc("chart", page)
  BY <1>1 DEF GraphsSound, On
<1>4. ChartPage(g) \in Layouts("chart")
  <2>1. PICK h \in ChartGraphs : page = ChartPage(h)
    BY <1>3 DEF Layouts
  <2>2. doc.scripts = {h}
    BY <1>3, <2>1 DEF GraphsDoc, ChartPage, Page
  <2> QED BY <2>1, <2>2 DEF Layouts
<1>5. doc.text \in Texts /\ doc.fresh \in BOOLEAN
  BY <1>3 DEF GraphsDoc
<1>6. doc.fresh /\ Agreed(session.locale) =>
        LET p == Period(session.locale, doc.text)
        IN p.from \in Date /\ p.to \in Date /\ p.from <= p.to
  <2> SUFFICES ASSUME doc.fresh, Agreed(session.locale)
               PROVE  LET p == Period(session.locale, doc.text)
                      IN p.from \in Date /\ p.to \in Date /\ p.from <= p.to
    OBVIOUS
  <2>1. DatesSound(doc) /\ doc.locale = session.locale
    BY <1>1 DEF GraphsSound, On
  <2>2. Timed(session.locale) = FALSE
    BY <1>1, OneFormat
  <2> DEFINE f == Read(ServerOrder(session.locale), doc.text.from)
             t == Read(ServerOrder(session.locale), doc.text.to)
  <2>3. /\ ServerRead(session.locale, doc.text.from) = f /\ ServerRead(session.locale, doc.text.to) = t
        /\ f \in Date /\ t \in Date /\ f <= t
    BY <2>1, <2>2 DEF DatesSound, ServerRead
  <2> HIDE DEF f, t
  <2>4. f # 0 /\ t # 0
    BY <2>3 DEF Date
  <2>5. Period(session.locale, doc.text) = [from |-> f, to |-> t]
    BY <2>3, <2>4 DEF Period, OrElse
  <2> QED BY <2>3, <2>5
<1> DEFINE r == [Rendered("chart", ChartPage(g), doc.text) EXCEPT !.fresh = doc.fresh]
<1>7. GraphsSound(r)
  BY <1>1, <1>4, <1>5, <1>6, RenderedSound DEF GraphKinds
<1>8. doc' = r /\ UNCHANGED <<site, session>>
  BY <1>2 DEF Load
<1> HIDE DEF r
<1> QED BY <1>7, <1>8, NextConsole

\* The last segments of a path.
LEMMA PathEnds ==
  \A S : \A s \in Seq(S) : \A a, b \in S :
    /\ Len(s \o <<a, b>>) > 1 /\ (s \o <<a, b>>)[Len(s \o <<a, b>>)] = b
    /\ SubSeq(s \o <<a, b>>, 1, Len(s \o <<a, b>>) - 1) = s \o <<a>>
<1> TAKE S
<1> TAKE s \in Seq(S)
<1> TAKE a, b \in S
<1> DEFINE ab == <<a, b>>
           one == <<a>>
           n == Len(s)
           u == s \o ab
           t == s \o one
           c == SubSeq(u, 1, n + 1)
<1>1. /\ ab \in Seq(S) /\ Len(ab) = 2 /\ ab[1] = a /\ ab[2] = b
      /\ one \in Seq(S) /\ Len(one) = 1 /\ one[1] = a /\ n \in Nat
  OBVIOUS
<1> HIDE DEF ab, one
<1>2. /\ u \in Seq(S) /\ Len(u) = n + 2
      /\ \A i \in 1..(n + 2) : u[i] = IF i <= n THEN s[i] ELSE ab[i - n]
  <2>1. /\ u \in Seq(S) /\ Len(u) = Len(s) + Len(ab)
        /\ \A i \in 1..(Len(s) + Len(ab)) : u[i] = IF i <= Len(s) THEN s[i] ELSE ab[i - Len(s)]
    BY <1>1, ConcatProperties, Zenon
  <2> HIDE DEF u
  <2> QED BY <1>1, <2>1
<1>3. /\ t \in Seq(S) /\ Len(t) = n + 1
      /\ \A i \in 1..(n + 1) : t[i] = IF i <= n THEN s[i] ELSE one[i - n]
  BY <1>1, ConcatProperties, SMTT(30)
<1> HIDE DEF u, t
<1>4. c \in Seq(S) /\ Len(c) = n + 1 /\ \A i \in 1..(n + 1) : c[i] = u[i]
  <2>1. n + 1 \in Int /\ 1 \in Int /\ \A i \in 1..(n + 1) : u[i] \in S
    BY <1>1, <1>2
  <2>2. /\ c \in Seq(S) /\ Len(c) = IF 1 <= n + 1 THEN n + 1 - 1 + 1 ELSE 0
        /\ \A i \in 1..(n + 1 - 1 + 1) : c[i] = u[1 + i - 1]
    BY <2>1, SubSeqProperties
  <2> HIDE DEF c, n
  <2> QED BY <1>1, <2>2
<1>5. c = t
  <2>1. \A i \in 1..(n + 1) : c[i] = t[i]
    <3> TAKE i \in 1..(n + 1)
    <3>1. CASE i <= n
      <4>1. i \in 1..(n + 2)
        BY <1>1
      <4> QED BY <1>2, <1>3, <1>4, <3>1, <4>1
    <3>2. CASE i = n + 1
      <4>1. i \in 1..(n + 2) /\ i - n = 1 /\ ~(i <= n)
        BY <1>1, <3>2
      <4> QED BY <1>1, <1>2, <1>3, <1>4, <4>1
    <3> QED BY <1>1, <3>1, <3>2
  <2> HIDE DEF c
  <2> QED BY <1>3, <1>4, <2>1, SeqEqual
<1>6. u[n + 2] = b
  <2>1. n + 2 \in 1..(n + 2) /\ ~(n + 2 <= n) /\ n + 2 - n = 2
    BY <1>1
  <2> QED BY <1>1, <1>2, <2>1
<1>7. Len(u) > 1 /\ Len(u) - 1 = n + 1
  <2> HIDE DEF n
  <2> QED BY <1>1, <1>2
<1> QED BY <1>2, <1>5, <1>6, <1>7 DEF u, t, ab, one

Tops == {"stats", "users", "account"}

\* Where a script of a page asks.
Asks(at, g) == (IF g.absolute THEN site.root ELSE at) \o <<"stats", g.stat>>

\* owums.path keeps the root where it knows the installation.
LEMMA PathRouted ==
  ASSUME Routed(site)
  PROVE  \A S : \A rest \in Seq(S) : \A first \in Tops : \A g, params :
           \A at : at = site.root \o (<<first>> \o rest) =>
             Path(at, site.subUri, g, params).url = Asks(at, g)
<1> TAKE S
<1> TAKE rest \in Seq(S)
<1> TAKE first \in Tops
<1> TAKE g, params
<1> DEFINE T == S \cup {first, site.subUri, "owums"}
           page == <<first>> \o rest
           curr == site.root \o page
           sub == IF site.subUri = "" /\ curr[1] = "owums" THEN "owums" ELSE site.subUri
<1>1. rest \in Seq(T) /\ <<first>> \in Seq(T) /\ site.root \in Seq(T)
  <2>1. rest \in Seq(T)
    OBVIOUS
  <2>2. first \in T /\ site.subUri \in T /\ "owums" \in T
    OBVIOUS
  <2> HIDE DEF T
  <2>3. <<>> \in Seq(T) /\ <<first>> \in Seq(T) /\ <<site.subUri>> \in Seq(T) /\ <<"owums">> \in Seq(T)
    BY <2>2
  <2> QED BY <2>1, <2>3 DEF Routed
<1> HIDE DEF T
<1>2. page \in Seq(T) /\ Len(page) = 1 + Len(rest) /\ page[1] = first /\ Len(rest) \in Nat
  BY <1>1
<1>3. curr[1] = IF site.root = <<>> THEN first ELSE site.root[1]
  <2> HIDE DEF page
  <2>1. /\ Len(curr) = Len(site.root) + Len(page)
        /\ \A i \in 1..(Len(site.root) + Len(page)) :
             curr[i] = IF i <= Len(site.root) THEN site.root[i] ELSE page[i - Len(site.root)]
    <3>1. site.root \in Seq(T) /\ page \in Seq(T)
      BY <1>1, <1>2
    <3> DEFINE r == site.root
    <3> HIDE DEF r
    <3>2. r \in Seq(T)
      BY <3>1 DEF r
    <3>3. /\ Len(r \o page) = Len(r) + Len(page)
          /\ \A i \in 1..(Len(r) + Len(page)) :
               (r \o page)[i] = IF i <= Len(r) THEN r[i] ELSE page[i - Len(r)]
      BY <3>1, <3>2, ConcatProperties, Zenon
    <3> QED BY <3>3 DEF r
  <2> HIDE DEF curr
  <2>2. CASE site.root = <<>>
    BY <1>2, <2>1, <2>2
  <2>3. CASE Len(site.root) = 1
    <3>1. 1 \in 1..(1 + Len(page)) /\ Len(<<>>) # 1
      BY <1>2
    <3>2. site.root # <<>>
      BY <2>3, <3>1
    <3> QED BY <2>1, <2>3, <3>1, <3>2
  <2> QED BY <2>2, <2>3 DEF Routed
<1> HIDE DEF curr
<1>4. (IF Begins(curr[1], sub) THEN <<sub>> ELSE <<>>) = site.root
  <2>1. CASE site.root = <<>> /\ \A f \in Tops : ~Begins(f, site.subUri)
    <3>1. curr[1] = first /\ first # "owums" /\ sub = site.subUri
      BY <1>3, <2>1 DEF Tops
    <3> QED BY <2>1, <3>1
  <2>2. ASSUME NEW x, site.root = <<x>>  PROVE site.root # <<>> /\ site.root[1] = x
    BY <2>2
  <2>3. CASE site.root = <<site.subUri>> /\ site.subUri # ""
    <3>1. curr[1] = site.subUri
      BY <1>3, <2>2, <2>3
    <3>2. sub = site.subUri
      BY <2>3
    <3> QED BY <2>3, <3>1, <3>2 DEF Begins
  <2>4. CASE site.root = <<"owums">> /\ site.subUri = ""
    <3>1. curr[1] = "owums"
      BY <1>3, <2>2, <2>4
    <3>2. sub = "owums"
      BY <2>4, <3>1
    <3> QED BY <2>4, <3>1, <3>2 DEF Begins
  <2> QED BY <2>1, <2>3, <2>4 DEF Routed, Tops
<1>5. Path(curr, site.subUri, g, params) =
        [url |-> (IF g.absolute THEN site.root ELSE curr) \o <<"stats", g.stat>>,
         params |-> params]
  BY <1>4 DEF Path
<1>6. Path(curr, site.subUri, g, params).url =
        (IF g.absolute THEN site.root ELSE curr) \o <<"stats", g.stat>>
  BY <1>5
<1> QED BY <1>6, Zenon DEF curr, page, Asks

\* The statistics there are below a root.
Befores == {<<>>, <<"users", "1">>, <<"account">>}

Has(before, stat) ==
  IF session.operator
  THEN \/ stat \in Stats
       \/ before = <<"users", "1">> /\ stat \in {"user_logins", "user_traffic"}
  ELSE stat \in {"account_logins", "account_traffic"}

\* A route that answers what is asked at a page with graphs.
LEMMA ServedWhere ==
  ASSUME NEW url, NEW before \in Befores, Len(url) > 1,
         SubSeq(url, 1, Len(url) - 1) = site.root \o before \o <<"stats">>,
         NEW stat, url[Len(url)] = stat, Has(before, stat)
  PROVE  Served(url)
<1>1. ServedTo(session.operator, stat, before = <<"users", "1">>)
  BY DEF ServedTo, Has
<1>2. ServedTo(session.operator, url[Len(url)], before = <<"users", "1">>)
  BY <1>1, Zenon
<1> QED BY <1>2, Zenon DEF Served, Befores

\* The server has the statistic that a script of a page asks for, if the page
\* was rendered for who asks.
LEMMA AskedServed ==
  ASSUME Routed(site), NEW kind \in GraphKinds, NEW page \in Layouts(kind), NEW g \in page.scripts,
         session.operator = (kind # "account"), NEW params
  PROVE  Served(Path(site.root \o page.path, site.subUri, g, params).url)
<1> DEFINE T == {site.subUri, "owums", "stats", "users", "1", "account", g.stat}
           curr == site.root \o page.path
           url == Path(curr, site.subUri, g, params).url
<1>1. site.root \in Seq(T)
  <2>1. site.subUri \in T /\ "owums" \in T
    OBVIOUS
  <2> HIDE DEF T
  <2>2. <<>> \in Seq(T) /\ <<site.subUri>> \in Seq(T) /\ <<"owums">> \in Seq(T)
    BY <2>1
  <2> QED BY <2>2 DEF Routed
<1>0. {"users", "1", "account", "stats", g.stat} \subseteq T
  OBVIOUS
<1> HIDE DEF T
<1>2. ASSUME NEW before \in {<<>>, <<"users", "1">>, <<"account">>},
             url = (site.root \o before) \o <<"stats", g.stat>>
      PROVE  /\ Len(url) > 1 /\ url[Len(url)] = g.stat
             /\ SubSeq(url, 1, Len(url) - 1) = site.root \o before \o <<"stats">>
  <2> DEFINE s == site.root \o before
             w == s \o <<"stats", g.stat>>
  <2>1. before \in Seq(T) /\ "stats" \in T /\ g.stat \in T
    <3>1. "users" \in T /\ "1" \in T /\ "account" \in T /\ "stats" \in T /\ g.stat \in T
      BY <1>0
    <3>2. <<>> \in Seq(T) /\ <<"users", "1">> \in Seq(T) /\ <<"account">> \in Seq(T)
      BY <3>1
    <3> QED BY <3>1, <3>2
  <2>2. s \in Seq(T)
    BY <1>1, <2>1, ConcatProperties
  <2> HIDE DEF s
  <2>3. Len(w) > 1 /\ SubSeq(w, 1, Len(w) - 1) = s \o <<"stats">> /\ w[Len(w)] = g.stat
    <3> DEFINE a == "stats"
               b == g.stat
    <3>1. s \in Seq(T) /\ a \in T /\ b \in T
      BY <2>1, <2>2
    <3> HIDE DEF a, b
    <3>2. /\ Len(s \o <<a, b>>) > 1 /\ (s \o <<a, b>>)[Len(s \o <<a, b>>)] = b
          /\ SubSeq(s \o <<a, b>>, 1, Len(s \o <<a, b>>) - 1) = s \o <<a>>
      BY <3>1, PathEnds, Zenon
    <3> QED BY <3>2 DEF a, b
  <2>4. url = w
    BY <1>2 DEF s
  <2> HIDE DEF url, w
  <2> QED BY <2>3, <2>4 DEF s
<1>3. ASSUME NEW first \in Tops, NEW rest \in Seq(T),
             page.path = <<first>> \o rest
      PROVE  url = Asks(curr, g)
  <2>1. rest \in Seq(T) /\ first \in Tops
    OBVIOUS
  <2>2. curr = site.root \o (<<first>> \o rest)
    BY <1>3
  <2>3. \A at : at = site.root \o (<<first>> \o rest) =>
               Path(at, site.subUri, g, params).url = Asks(at, g)
    <3>1. \A r \in Seq(T) : \A f \in Tops : \A h, q : \A at :
            at = site.root \o (<<f>> \o r) => Path(at, site.subUri, h, q).url = Asks(at, h)
      BY PathRouted, Zenon
    <3>2. \A f \in Tops : \A h, q : \A at :
            at = site.root \o (<<f>> \o rest) => Path(at, site.subUri, h, q).url = Asks(at, h)
      BY <2>1, <3>1, Zenon
    <3>3. \A h, q : \A at :
            at = site.root \o (<<first>> \o rest) =>
              Path(at, site.subUri, h, q).url = Asks(at, h)
      BY <2>1, <3>2, Zenon
    <3> QED BY <3>3, Zenon
  <2> HIDE DEF curr
  <2>4. Path(curr, site.subUri, g, params).url = Asks(curr, g)
    BY <2>2, <2>3
  <2> QED BY <2>4
<1>4. site.root \o <<>> = site.root
  BY <1>1, ConcatEmptySeq
<1>5. /\ <<"stats">> = <<"stats">> \o <<>> /\ <<"account">> = <<"account">> \o <<>>
      /\ <<"users", "1">> = <<"users">> \o <<"1">>
      /\ \A x : <<"stats", x>> = <<"stats">> \o <<x>>
  OBVIOUS
<1>6. CASE kind = "index" \/ kind = "chart"
  <2>1. g \in ChartGraphs
    BY <1>6, KindsOfPages DEF IndexPage, ChartPage, Page, ChartGraphs
  <2>2. g.absolute /\ g.stat \in Stats
    BY <2>1 DEF ChartGraphs, Stats, TrafficGraph, LoginsGraph, RegisteredUsersGraph,
                RegisteredUsersDailyGraph
  <2>3. \E rest \in Seq(T) : "stats" \in Tops /\ page.path = <<"stats">> \o rest
    <3>1. CASE kind = "index"
      <4>1. page.path = <<"stats">> \o <<>>
        BY <1>5, <3>1, KindsOfPages DEF IndexPage, Page
      <4>2. <<>> \in Seq(T)
        OBVIOUS
      <4> QED BY <4>1, <4>2 DEF Tops
    <3>2. CASE kind = "chart"
      <4>1. PICK h \in ChartGraphs : page = ChartPage(h)
        BY <3>2, KindsOfPages
      <4>2. h = g /\ page.path = <<"stats", g.stat>>
        BY <4>1 DEF ChartPage, Page
      <4>3. page.path = <<"stats">> \o <<g.stat>> /\ <<g.stat>> \in Seq(T)
        BY <1>0, <1>5, <4>2
      <4> QED BY <4>3 DEF Tops
    <3> QED BY <1>6, <3>1, <3>2
  <2>4. url = site.root \o <<"stats", g.stat>>
    <3> HIDE DEF url
    <3> QED BY <1>3, <2>2, <2>3 DEF Asks
  <2> HIDE DEF url
  <2>5. /\ Len(url) > 1 /\ url[Len(url)] = g.stat
        /\ SubSeq(url, 1, Len(url) - 1) = site.root \o <<>> \o <<"stats">>
    BY <1>2, <1>4, <2>4
  <2>6. <<>> \in Befores /\ Has(<<>>, g.stat)
    BY <1>6, <2>2 DEF Befores, Has
  <2>7. Served(url)
    BY <2>5, <2>6, ServedWhere, Zenon
  <2> QED BY <2>7 DEF url
<1>7. CASE kind = "account"
  <2>1. page = AccountPage
    BY <1>7, KindsOfPages
  <2>2. g.absolute /\ g.stat \in {"account_logins", "account_traffic"}
    BY <2>1 DEF AccountPage, Page, AccountLoginsGraph, AccountTrafficGraph
  <2>3. page.path = <<"account">> \o <<>> /\ <<>> \in Seq(T)
    BY <1>5, <2>1 DEF AccountPage, Page
  <2>4. url = site.root \o <<"stats", g.stat>>
    <3> HIDE DEF url
    <3> QED BY <1>3, <2>2, <2>3 DEF Asks, Tops
  <2> HIDE DEF url
  <2>5. /\ Len(url) > 1 /\ url[Len(url)] = g.stat
        /\ SubSeq(url, 1, Len(url) - 1) = site.root \o <<>> \o <<"stats">>
    BY <1>2, <1>4, <2>4
  <2>6. <<>> \in Befores /\ Has(<<>>, g.stat)
    BY <1>7, <2>2 DEF Befores, Has
  <2>7. Served(url)
    BY <2>5, <2>6, ServedWhere, Zenon
  <2> QED BY <2>7 DEF url
<1>8. CASE kind = "user"
  <2>1. page = UserPage
    BY <1>8, KindsOfPages
  <2>2. g.absolute = FALSE /\ g.stat \in {"user_logins", "user_traffic"}
    BY <2>1 DEF UserPage, Page, UserLoginsGraph, UserTrafficGraph
  <2>3. page.path = <<"users", "1">> /\ page.path = <<"users">> \o <<"1">> /\ <<"1">> \in Seq(T)
    BY <1>0, <1>5, <2>1 DEF UserPage, Page
  <2>4. url = (site.root \o <<"users", "1">>) \o <<"stats", g.stat>>
    <3>1. url = curr \o <<"stats", g.stat>>
      <4> HIDE DEF url, curr
      <4> QED BY <1>3, <2>2, <2>3 DEF Asks, Tops
    <3> HIDE DEF url
    <3> QED BY <2>3, <3>1
  <2> HIDE DEF url
  <2>5. /\ Len(url) > 1 /\ url[Len(url)] = g.stat
        /\ SubSeq(url, 1, Len(url) - 1) = site.root \o <<"users", "1">> \o <<"stats">>
    BY <1>2, <2>4
  <2>6. <<"users", "1">> \in Befores /\ Has(<<"users", "1">>, g.stat)
    BY <1>8, <2>2 DEF Befores, Has
  <2>7. Served(url)
    BY <2>5, <2>6, ServedWhere, Zenon
  <2> QED BY <2>7 DEF url
<1> QED BY <1>6, <1>7, <1>8 DEF GraphKinds

\* The script of a graph answers.
LEMMA GraphAnsweredStep ==
  ASSUME ConsoleInv, NEW g, GraphAnswered(g)
  PROVE  ConsoleInv'
<1> DEFINE ask == Path(doc.at, site.subUri, g, doc.params)
           graph == [slot |-> g.slot, stat |-> g.stat, range |-> Period(session.locale, ask.params)]
           w == doc.waiting \ {g}
<1>1. /\ site \in Sites /\ session \in [locale : Locales, operator : BOOLEAN]
      /\ GraphsSound(doc) /\ g \in doc.waiting
      /\ IF Served(ask.url) /\ g.slot \in doc.slots
         THEN Load([doc EXCEPT !.waiting = w, !.drawn = @ \cup {graph}])
         ELSE Load([doc EXCEPT !.waiting = w, !.failed = @ \cup {g.slot}])
  BY ConsolePages DEF ConsoleInv, GraphAnswered
<1>2. PICK page \in Layouts(doc.page) : doc \in GraphsDoc(doc.page, page)
  BY <1>1 DEF GraphsSound
<1>3. /\ g \in page.scripts /\ doc.slots = page.slots /\ doc.scripts = page.scripts
      /\ doc.at = site.root \o page.path /\ doc.params \in Texts /\ doc.fresh \in BOOLEAN
      /\ doc.waiting \subseteq page.scripts /\ doc.failed \subseteq page.slots
      /\ doc.drawn \subseteq [slot : page.slots, stat : {h.stat : h \in page.scripts}, range : Ranges]
  BY <1>1, <1>2 DEF GraphsDoc
<1>4. g.slot \in page.slots /\ doc.page \in GraphKinds
  BY <1>1, <1>3, KindsOfPages DEF GraphsSound
<1>5. ask.params = doc.params
  BY DEF Path
<1>6. graph = [slot |-> g.slot, stat |-> g.stat, range |-> Period(session.locale, doc.params)]
  BY <1>5
<1>7. Routed(site) /\ doc.fresh => Served(ask.url)
  BY <1>1, <1>3, <1>4, AskedServed DEF GraphsSound
<1> HIDE DEF ask, graph, w
<1>8. graph \in [slot : page.slots, stat : {h.stat : h \in page.scripts}, range : Ranges]
  <2>1. Period(session.locale, doc.params) \in Ranges
    BY <1>3, PeriodTyped
  <2> QED BY <1>3, <1>4, <1>6, <2>1
<1>9. w \subseteq page.scripts /\ w = doc.waiting \ {g}
  BY <1>3 DEF w
<1>10. CASE Served(ask.url)
  <2> DEFINE more == doc.drawn \cup {graph}
             r == [doc EXCEPT !.waiting = w, !.drawn = more]
  <2>1. doc' = r /\ UNCHANGED <<site, session>>
    BY <1>1, <1>3, <1>4, <1>10 DEF Load
  <2>2. more \subseteq [slot : page.slots, stat : {h.stat : h \in page.scripts}, range : Ranges]
    BY <1>3, <1>8
  <2>3. more = doc.drawn \cup {graph}
    OBVIOUS
  <2> HIDE DEF more
  <2>4. r \in GraphsDoc(doc.page, page)
    BY <1>2, <1>9, <2>2 DEF GraphsDoc
  <2>5. /\ r.page = doc.page /\ r.fresh = doc.fresh /\ r.locale = doc.locale
        /\ r.scripts = doc.scripts /\ r.params = doc.params /\ r.range = doc.range
        /\ r.waiting = w /\ r.drawn = more /\ r.failed = doc.failed /\ r.boxes = doc.boxes
        /\ r.text = doc.text /\ r.picked = doc.picked
    BY <1>2 DEF GraphsDoc
  <2> HIDE DEF r
  <2>6. doc.fresh /\ Landed(doc) => Landed(r)
    <3> SUFFICES ASSUME doc.fresh, Landed(doc)  PROVE Landed(r)
      OBVIOUS
    <3>1. graph = [slot |-> g.slot, stat |-> g.stat, range |-> doc.range]
      BY <1>1, <1>6 DEF GraphsSound
    <3>2. doc.scripts \ w = (doc.scripts \ doc.waiting) \cup {g}
      BY <1>3, <1>9
    <3> QED BY <2>3, <2>5, <3>1, <3>2 DEF Landed
  <2>7. DatesSound(doc) => DatesSound(r)
    BY <2>5 DEF DatesSound
  <2>8. GraphsSound(r)
    BY <1>1, <1>2, <2>4, <2>5, <2>6, <2>7 DEF GraphsSound
  <2> QED BY <2>1, <2>8, NextConsole
<1>11. CASE ~Served(ask.url)
  <2> DEFINE more == doc.failed \cup {g.slot}
             r == [doc EXCEPT !.waiting = w, !.failed = more]
  <2>1. doc' = r /\ UNCHANGED <<site, session>>
    BY <1>1, <1>11 DEF Load
  <2>2. more \subseteq page.slots
    BY <1>3, <1>4
  <2> HIDE DEF more
  <2>4. r \in GraphsDoc(doc.page, page)
    BY <1>2, <1>9, <2>2 DEF GraphsDoc
  <2>5. /\ r.page = doc.page /\ r.fresh = doc.fresh /\ r.locale = doc.locale
        /\ r.params = doc.params /\ r.range = doc.range
        /\ r.boxes = doc.boxes /\ r.text = doc.text /\ r.picked = doc.picked
    BY <1>2 DEF GraphsDoc
  <2> HIDE DEF r
  <2>7. DatesSound(doc) => DatesSound(r)
    BY <2>5 DEF DatesSound
  <2>8. GraphsSound(r)
    BY <1>1, <1>2, <1>7, <1>11, <2>4, <2>5, <2>7 DEF GraphsSound
  <2> QED BY <2>1, <2>8, NextConsole
<1> QED BY <1>10, <1>11

\* What a calendar writes: the date, and in the other field one in order with it.
LEMMA PickWrites ==
  ASSUME NEW order, NEW text \in Texts, NEW side \in Side, NEW d \in Date
  PROVE  LET p == Pick(order, text, side, d)
             other == Other(side)
         IN /\ p \in Texts /\ p[side].timed = FALSE /\ p[other].timed = FALSE
            /\ Read(order, p[side]) = d
            /\ Read(order, text[other]) # 0 =>
                 LET kept == Read(order, p[other])
                 IN kept \in Date /\ IF side = "from" THEN d <= kept ELSE kept <= d
<1> DEFINE other == Other(side)
           n == Read(order, text[other])
           kept == IF side = "from" THEN Least(Most(n, d), Today) ELSE Least(n, d)
           mine == Write(order, FALSE, d)
           its == IF n = 0 THEN Empty ELSE Write(order, FALSE, kept)
           p == Pick(order, text, side, d)
<1>1. other \in Side /\ other # side /\ text[other] \in Text /\ DOMAIN text = Side
  BY DEF Other, Side, Texts
<1>2. p = [text EXCEPT ![side] = mine, ![other] = its]
  BY DEF Pick
<1>3. n \in {0} \cup 1..(Months * Days)
  BY <1>1, ReadTyped
<1> HIDE DEF other, n
<1>4. n # 0 => kept \in Date /\ IF side = "from" THEN d <= kept ELSE kept <= d
  <2>1. Months * Days \in Nat /\ Today \in Nat
    BY DateAssumption
  <2> QED BY <1>3, <2>1 DEF Date, Least, Most
<1> HIDE DEF kept
<1>5. mine \in Text /\ mine.timed = FALSE /\ Read(order, mine) = d
  BY WriteReads, TodayFits
<1>6. /\ its \in Text /\ its.timed = FALSE
      /\ n # 0 => Read(order, its) = kept
  <2>1. Empty \in Text /\ Empty.timed = FALSE
    BY DEF Empty, Text
  <2> QED BY <1>4, <2>1, WriteReads, TodayFits
<1> HIDE DEF mine, its, p
<1>7. p \in Texts /\ p[side] = mine /\ p[other] = its
  BY <1>1, <1>2, <1>5, <1>6 DEF Texts, Side
<1> QED BY <1>4, <1>5, <1>6, <1>7 DEF p, other, n

\* A date is picked.
LEMMA PickDateStep ==
  ASSUME ConsoleInv, NEW side \in Side, NEW d \in Date, PickDate(side, d)
  PROVE  ConsoleInv'
<1> DEFINE order == PickerOrder(doc.locale, site.italian)
           text == Pick(order, doc.text, side, d)
           limit == Limit(doc.limit, side, d)
           picked == [side |-> side, date |-> d]
           r == [doc EXCEPT !.text = text, !.limit = limit, !.picked = picked]
<1>1. /\ site \in Sites /\ GraphsSound(doc) /\ On("chart")
      /\ doc' = r /\ UNCHANGED <<site, session>>
  BY ConsolePages DEF ConsoleInv, PickDate, Calendars, On, WithGraphs, Load
<1>2. PICK page \in Layouts(doc.page) : doc \in GraphsDoc(doc.page, page)
  BY <1>1 DEF GraphsSound
<1>3. doc.text \in Texts /\ doc.limit \in [from : Date, to : Date]
  BY <1>2 DEF GraphsDoc
<1>4. /\ text \in Texts /\ text[side].timed = FALSE /\ text[Other(side)].timed = FALSE
      /\ Read(order, text[side]) = d
      /\ Read(order, doc.text[Other(side)]) # 0 =>
           /\ Read(order, text[Other(side)]) \in Date
           /\ IF side = "from" THEN d <= Read(order, text[Other(side)])
                               ELSE Read(order, text[Other(side)]) <= d
  BY <1>3, PickWrites
<1>5. limit \in [from : Date, to : Date]
  BY <1>3 DEF Limit, Other, Side
<1>6. picked \in [side : Side, date : {0} \cup Date] /\ picked.side = side /\ picked.date = d
  OBVIOUS
<1> HIDE DEF text, limit, picked, order
<1>7. r \in GraphsDoc(doc.page, page)
  BY <1>2, <1>4, <1>5, <1>6 DEF GraphsDoc
<1>8. /\ r.page = doc.page /\ r.fresh = doc.fresh /\ r.locale = doc.locale
      /\ r.scripts = doc.scripts /\ r.params = doc.params /\ r.range = doc.range
      /\ r.waiting = doc.waiting /\ r.drawn = doc.drawn /\ r.failed = doc.failed
      /\ r.boxes = doc.boxes /\ r.text = text /\ r.picked = picked
  BY <1>2 DEF GraphsDoc
<1> HIDE DEF r
<1>9. Agreed(doc.locale) /\ DatesSound(doc) => DatesSound(r)
  <2> SUFFICES ASSUME Agreed(doc.locale), DatesSound(doc)  PROVE DatesSound(r)
    OBVIOUS
  <2>1. order = ServerOrder(doc.locale)
    BY <1>1, OneFormat DEF order
  <2>2. Read(order, doc.text[Other(side)]) \in Date
    BY <2>1 DEF DatesSound, Other, Side
  <2>3. Read(order, doc.text[Other(side)]) # 0
    BY <2>2 DEF Date
  <2>4. CASE side = "from"
    BY <1>4, <1>6, <1>8, <2>1, <2>3, <2>4 DEF DatesSound, Other
  <2>5. CASE side = "to"
    BY <1>4, <1>6, <1>8, <2>1, <2>3, <2>5 DEF DatesSound, Other
  <2> QED BY <2>4, <2>5 DEF Side
<1>10. Landed(doc) => Landed(r)
  BY <1>8 DEF Landed
<1>11. GraphsSound(r)
  BY <1>1, <1>2, <1>7, <1>8, <1>9, <1>10 DEF GraphsSound
<1> QED BY <1>1, <1>11, NextConsole

-----------------------------------------------------------------------------
(* The boxes.                                                              *)

\* A swap that waits keeps its place when another effect is queued.
LEMMA SwapWaits ==
  ASSUME NEW q \in Seq(Sliding), NEW k \in Sliding
  PROVE  LET a == Append(q, k)
         IN \/ \E i \in DOMAIN q : q[i] = "swap"
            \/ k = "swap"
            => \E i \in DOMAIN a : a[i] = "swap"
<1> DEFINE a == Append(q, k)
           n == Len(q)
<1>1. /\ Len(a) = n + 1 /\ a[n + 1] = k /\ \A i \in 1..n : a[i] = q[i]
      /\ DOMAIN a = 1..Len(a) /\ DOMAIN q = 1..n /\ n \in Nat
  BY AppendProperties
<1> HIDE DEF a, n
<1>2. n + 1 \in DOMAIN a /\ \A i \in 1..n : i \in DOMAIN a
  BY <1>1
<1> QED BY <1>1, <1>2 DEF a

\* And when one before it ends.
LEMMA SwapStays ==
  ASSUME NEW q \in Seq(Sliding), q # <<>>, Head(q) # "swap",
         NEW i \in DOMAIN q, q[i] = "swap"
  PROVE  \E j \in DOMAIN Tail(q) : Tail(q)[j] = "swap"
<1> DEFINE t == Tail(q)
           n == Len(q)
<1>1. /\ Head(q) = q[1] /\ Len(t) = n - 1 /\ \A j \in 1..(n - 1) : t[j] = q[j + 1]
      /\ DOMAIN t = 1..Len(t) /\ n \in Nat /\ i \in 1..n
  BY HeadTailProperties
<1> HIDE DEF t, n
<1>2. i # 1
  BY <1>1
<1>3. i - 1 \in 1..(n - 1) /\ (i - 1) + 1 = i
  BY <1>1, <1>2
<1>4. i - 1 \in DOMAIN t /\ t[i - 1] = "swap"
  BY <1>1, <1>3
<1> QED BY <1>4 DEF t

\* A click opens or closes a box, and asks for its list at first.
LEMMA BoxToggled ==
  ASSUME NEW b, NEW box, BoxSound(b, box), box.remote => box.asked < MaxLists
  PROVE  BoxSound(b, [box EXCEPT !.hidden = ~@, !.el = SlideToggle(@),
                                 !.asked = IF box.remote THEN @ + 1 ELSE @])
<1> DEFINE e == SlideToggle(box.el)
           h == ~box.hidden
           asked == IF box.remote THEN box.asked + 1 ELSE box.asked
           r == [box EXCEPT !.hidden = ~@, !.el = SlideToggle(@),
                            !.asked = IF box.remote THEN @ + 1 ELSE @]
<1>1. /\ box \in ABox /\ h \in BOOLEAN /\ Slides(box.el, h) /\ box.el.queue \in Seq(Sliding)
      /\ box.asked \in 0..MaxLists /\ box.hidden \in BOOLEAN /\ MaxLists \in Nat
  BY StatisticsAssumption DEF BoxSound, ABox, ElementOf
<1> DEFINE k == "toggle"
<1>2. k \in Sliding /\ k = "toggle" /\ e = Enqueue(box.el, k)
  BY DEF Sliding, SlideToggle
<1> HIDE DEF k
<1>3. Slides(e, IF k = "toggle" THEN ~h ELSE h) /\ e.queue = Append(box.el.queue, k)
  BY <1>1, <1>2, EnqueueSlides
<1>4. asked \in 0..MaxLists
  BY <1>1
<1>5. (~h) \in BOOLEAN /\ (~h) = box.hidden /\ Slides(e, ~h) /\ e \in ElementOf(Sliding)
  BY <1>1, <1>2, <1>3 DEF Slides
<1>6. r = [box EXCEPT !.hidden = h, !.el = e, !.asked = asked]
  OBVIOUS
<1> HIDE DEF e, asked, r, h
<1>7. /\ r \in ABox /\ r.el = e /\ r.hidden = h /\ r.remote = box.remote /\ r.filled = box.filled
  BY <1>1, <1>4, <1>5, <1>6 DEF ABox
<1>8. (\E i \in DOMAIN box.el.queue : box.el.queue[i] = "swap")
        => \E i \in DOMAIN e.queue : e.queue[i] = "swap"
  BY <1>1, <1>2, <1>3, SwapWaits
<1>9. Slides(r.el, ~r.hidden)
  BY <1>5, <1>7
<1>10. BoxSound(b, r)
  BY <1>7, <1>8, <1>9 DEF BoxSound
<1> QED BY <1>10 DEF r

\* The list comes and waits its turn in the queue of the box.
LEMMA BoxListed ==
  ASSUME NEW b, NEW box, BoxSound(b, box), box.asked > 0
  PROVE  BoxSound(b, [box EXCEPT !.remote = FALSE, !.asked = @ - 1, !.el = Enqueue(@, "swap")])
<1> DEFINE k == "swap"
           e == Enqueue(box.el, k)
           h == ~box.hidden
           asked == box.asked - 1
           r == [box EXCEPT !.remote = FALSE, !.asked = @ - 1, !.el = Enqueue(@, "swap")]
<1>1. /\ box \in ABox /\ h \in BOOLEAN /\ Slides(box.el, h) /\ box.el.queue \in Seq(Sliding)
      /\ box.asked \in 0..MaxLists /\ MaxLists \in Nat
  BY StatisticsAssumption DEF BoxSound, ABox, ElementOf
<1>2. asked \in 0..MaxLists
  BY <1>1
<1>3. r = [box EXCEPT !.remote = FALSE, !.asked = asked, !.el = e]
  OBVIOUS
<1>4. k \in Sliding /\ k = "swap" /\ k # "toggle"
  BY DEF Sliding
<1> HIDE DEF k
<1>5. Slides(e, IF k = "toggle" THEN ~h ELSE h) /\ e.queue = Append(box.el.queue, k)
  BY <1>1, <1>4, EnqueueSlides
<1>6. Slides(e, h) /\ e \in ElementOf(Sliding)
  BY <1>4, <1>5 DEF Slides
<1>7. \E i \in DOMAIN e.queue : e.queue[i] = "swap"
  BY <1>1, <1>4, <1>5, SwapWaits
<1> HIDE DEF e, asked, r
<1>8. r \in ABox /\ r.el = e /\ r.hidden = box.hidden
  BY <1>1, <1>2, <1>3, <1>6 DEF ABox
<1>9. BoxSound(b, r)
  BY <1>6, <1>7, <1>8 DEF BoxSound
<1> QED BY <1>9 DEF r

\* The list takes the place of what the box showed.
LEMMA BoxSwapped ==
  ASSUME NEW b, NEW box, BoxSound(b, box), ~Idle(box.el), Head(box.el.queue) = "swap"
  PROVE  BoxSound(b, [box EXCEPT !.el = SlideToggle(Finish(@)), !.filled = TRUE])
<1> DEFINE k == "toggle"
           f == Finish(box.el)
           e == SlideToggle(f)
           h == ~box.hidden
           r == [box EXCEPT !.el = SlideToggle(Finish(@)), !.filled = TRUE]
<1>1. box \in ABox /\ h \in BOOLEAN /\ Slides(box.el, h) /\ (~h) \in BOOLEAN
  BY DEF BoxSound, ABox
<1>2. Slides(f, ~h)
  BY <1>1, FinishSlides
<1>3. r = [box EXCEPT !.el = e, !.filled = TRUE]
  OBVIOUS
<1>4. k \in Sliding /\ k = "toggle" /\ e = Enqueue(f, k)
  BY DEF Sliding, SlideToggle
<1> HIDE DEF k, f
<1>5. Slides(e, IF k = "toggle" THEN ~(~h) ELSE ~h)
  BY <1>1, <1>2, <1>4, EnqueueSlides
<1>6. Slides(e, h) /\ e \in ElementOf(Sliding)
  BY <1>1, <1>4, <1>5 DEF Slides
<1> HIDE DEF e, r
<1>7. r \in ABox /\ r.el = e /\ r.hidden = box.hidden /\ r.filled = TRUE
  BY <1>1, <1>3, <1>6 DEF ABox
<1>8. BoxSound(b, r)
  BY <1>6, <1>7 DEF BoxSound
<1> QED BY <1>8 DEF r

\* Another effect of the box ends.
LEMMA BoxSettles ==
  ASSUME NEW b, NEW box, BoxSound(b, box), ~Idle(box.el), Head(box.el.queue) # "swap"
  PROVE  BoxSound(b, [box EXCEPT !.el = Finish(@)])
<1> DEFINE e == Finish(box.el)
           h == ~box.hidden
           r == [box EXCEPT !.el = Finish(@)]
<1>1. /\ box \in ABox /\ h \in BOOLEAN /\ Slides(box.el, h) /\ box.el.queue \in Seq(Sliding)
      /\ box.el.queue # <<>>
  BY DEF BoxSound, ABox, ElementOf, Idle
<1>2. Slides(e, h) /\ e.queue = Tail(box.el.queue) /\ e \in ElementOf(Sliding)
  <2>1. Slides(e, IF Head(box.el.queue) = "swap" THEN ~h ELSE h) /\ e.queue = Tail(box.el.queue)
    BY <1>1, FinishSlides
  <2> HIDE DEF e, h
  <2>2. Slides(e, h)
    BY <2>1
  <2> QED BY <2>1, <2>2 DEF Slides
<1>3. r = [box EXCEPT !.el = e]
  OBVIOUS
<1> HIDE DEF e, r
<1>4. r \in ABox /\ r.el = e /\ r.hidden = box.hidden /\ r.remote = box.remote
      /\ r.filled = box.filled
  BY <1>1, <1>2, <1>3 DEF ABox
<1>5. (\E i \in DOMAIN box.el.queue : box.el.queue[i] = "swap")
        => \E i \in DOMAIN e.queue : e.queue[i] = "swap"
  BY <1>1, <1>2, SwapStays
<1>6. BoxSound(b, r)
  BY <1>2, <1>4, <1>5 DEF BoxSound
<1> QED BY <1>6 DEF r

\* What changes one box in order keeps the page in order.
LEMMA ChangeBoxStep ==
  ASSUME ConsoleInv, On("index"), NEW b \in DOMAIN doc.boxes, NEW box,
         BoxSound(b, doc.boxes[b]) => BoxSound(b, box), ChangeBox(b, box)
  PROVE  ConsoleInv'
<1> DEFINE boxes == [doc.boxes EXCEPT ![b] = box]
           r == [doc EXCEPT !.boxes = boxes]
<1>1. GraphsSound(doc)
  BY ConsolePages DEF On, WithGraphs
<1>2. PICK page \in Layouts(doc.page) : doc \in GraphsDoc(doc.page, page)
  BY <1>1 DEF GraphsSound
<1>3. /\ doc.boxes \in [Boxes(doc.page) -> ABox] /\ b \in Boxes(doc.page)
      /\ \A c \in Boxes(doc.page) : BoxSound(c, doc.boxes[c])
  BY <1>1, <1>2 DEF GraphsDoc, GraphsSound
<1>4. BoxSound(b, box) /\ box \in ABox
  BY <1>3 DEF BoxSound
<1>5. boxes \in [Boxes(doc.page) -> ABox] /\ \A c \in Boxes(doc.page) : BoxSound(c, boxes[c])
  BY <1>3, <1>4
<1>6. doc' = r /\ UNCHANGED <<site, session>>
  BY DEF ChangeBox, Load
<1> HIDE DEF boxes
<1>7. r \in GraphsDoc(doc.page, page)
  BY <1>2, <1>5 DEF GraphsDoc
<1>8. /\ r.page = doc.page /\ r.fresh = doc.fresh /\ r.locale = doc.locale
      /\ r.scripts = doc.scripts /\ r.params = doc.params /\ r.range = doc.range
      /\ r.waiting = doc.waiting /\ r.drawn = doc.drawn /\ r.failed = doc.failed
      /\ r.boxes = boxes /\ r.text = doc.text /\ r.picked = doc.picked
  BY <1>2 DEF GraphsDoc
<1> HIDE DEF r
<1>9. /\ Landed(doc) => Landed(r)
      /\ DatesSound(doc) => DatesSound(r)
  BY <1>8 DEF Landed, DatesSound
<1>10. GraphsSound(r)
  BY <1>1, <1>2, <1>5, <1>7, <1>8, <1>9 DEF GraphsSound
<1> QED BY <1>6, <1>10, NextConsole

\* The steps of a box.
LEMMA BoxStep ==
  ASSUME ConsoleInv, NEW b, ToggleBox(b) \/ ListComes(b) \/ BoxEffectEnds(b)
  PROVE  ConsoleInv'
<1> DEFINE box == doc.boxes[b]
<1>1. CASE ToggleBox(b)
  <2> DEFINE r == [box EXCEPT !.hidden = ~@, !.el = SlideToggle(@),
                              !.asked = IF box.remote THEN @ + 1 ELSE @]
  <2>1. /\ On("index") /\ b \in DOMAIN doc.boxes /\ ChangeBox(b, r)
        /\ box.remote => box.asked < MaxLists
    BY <1>1 DEF ToggleBox
  <2>2. BoxSound(b, box) => BoxSound(b, r)
    BY <2>1, BoxToggled
  <2> HIDE DEF r
  <2> QED BY <2>1, <2>2, ChangeBoxStep
<1>2. CASE ListComes(b)
  <2> DEFINE r == [box EXCEPT !.remote = FALSE, !.asked = @ - 1, !.el = Enqueue(@, "swap")]
  <2>1. On("index") /\ b \in DOMAIN doc.boxes /\ ChangeBox(b, r) /\ box.asked > 0
    BY <1>2 DEF ListComes
  <2>2. BoxSound(b, box) => BoxSound(b, r)
    BY <2>1, BoxListed
  <2> HIDE DEF r
  <2> QED BY <2>1, <2>2, ChangeBoxStep
<1>3. CASE BoxEffectEnds(b)
  <2>1. CASE Head(box.el.queue) = "swap"
    <3> DEFINE r == [box EXCEPT !.el = SlideToggle(Finish(@)), !.filled = TRUE]
    <3>1. On("index") /\ b \in DOMAIN doc.boxes /\ ChangeBox(b, r) /\ ~Idle(box.el)
      BY <1>3, <2>1 DEF BoxEffectEnds
    <3>2. BoxSound(b, box) => BoxSound(b, r)
      BY <2>1, <3>1, BoxSwapped
    <3> HIDE DEF r
    <3> QED BY <3>1, <3>2, ChangeBoxStep
  <2>2. CASE Head(box.el.queue) # "swap"
    <3> DEFINE r == [box EXCEPT !.el = Finish(@)]
    <3>1. On("index") /\ b \in DOMAIN doc.boxes /\ ChangeBox(b, r) /\ ~Idle(box.el)
      BY <1>3, <2>2 DEF BoxEffectEnds
    <3>2. BoxSound(b, box) => BoxSound(b, r)
      BY <2>2, <3>1, BoxSettles
    <3> HIDE DEF r
    <3> QED BY <3>1, <3>2, ChangeBoxStep
  <2> QED BY <2>1, <2>2
<1> QED BY <1>1, <1>2, <1>3

\* Another tab changes the session: the document is not fresh any more.
LEMMA OtherTabStep ==
  ASSUME ConsoleInv, OtherTab
  PROVE  ConsoleInv'
<1> DEFINE r == [doc EXCEPT !.fresh = FALSE]
<1>1. /\ site \in Sites /\ GraphsSound(doc) /\ site' = site /\ doc' = r
      /\ session' \in [locale : Locales, operator : BOOLEAN]
  BY ConsolePages DEF ConsoleInv, OtherTab
<1>2. PICK page \in Layouts(doc.page) : doc \in GraphsDoc(doc.page, page)
  BY <1>1 DEF GraphsSound
<1>3. r \in GraphsDoc(doc.page, page)
  BY <1>2 DEF GraphsDoc
<1>4. /\ r.page = doc.page /\ r.fresh = FALSE /\ r.locale = doc.locale
      /\ r.params = doc.params /\ r.range = doc.range /\ r.boxes = doc.boxes
  BY <1>2 DEF GraphsDoc
<1> HIDE DEF r
<1>5. GraphsSound(r)
  BY <1>1, <1>2, <1>3, <1>4 DEF GraphsSound
<1>6. GraphsSound(doc') /\ doc'.fresh = FALSE
  BY <1>1, <1>4, <1>5
<1>7. GraphsSound(doc)'
  BY <1>1, <1>6, ZenonT(60) DEF GraphsSound, GraphsDoc, BoxSound
<1> QED BY <1>1, <1>7 DEF ConsoleInv

\* The home page is opened.
LEMMA GoHomeStep ==
  ASSUME ConsoleInv, GoHome
  PROVE  ConsoleInv'
<1>1. doc' = Home /\ UNCHANGED <<site, session>>
  BY DEF GoHome, Become
<1>2. Home \in OtherDoc
  BY DEF Home, OtherDoc
<1> QED BY <1>1, <1>2, NextConsole

-----------------------------------------------------------------------------
(* The list of users.                                                      *)

\* The spinner fades in and out.
LEMMA SpinnerFades ==
  ASSUME NEW e, Fades(e)
  PROVE  /\ Fades(FadeIn(e)) /\ Fate(FadeIn(e)) = TRUE
         /\ Fades(FadeOut(e)) /\ Fate(FadeOut(e)) = FALSE
<1>1. ASSUME NEW f \in Fading
      PROVE  Fades(Enqueue(e, f)) /\ Fate(Enqueue(e, f)) = (f = "in")
  BY EnqueueFades
<1>2. "in" \in Fading /\ "out" \in Fading /\ "out" # "in"
  BY DEF Fading
<1>3. Fades(Enqueue(e, "in")) /\ Fate(Enqueue(e, "in")) = ("in" = "in")
  BY <1>1, <1>2, Zenon
<1>4. Fades(Enqueue(e, "out")) /\ Fate(Enqueue(e, "out")) = ("out" = "in")
  BY <1>1, <1>2, Zenon
<1> QED BY <1>3, <1>4 DEF FadeIn, FadeOut

Asks3 == {"none", "clicked", "keyed"}

\* A step of the list that leaves the spinner with a fate that suits the
\* requests.
LEMMA ListStep ==
  ASSUME ConsoleInv, NEW r \in UsersDoc, ChangeList(r), Fades(r.spinner),
         (\E i \in Ask : r.asks[i] = "clicked") => Fate(r.spinner) /\ r.bound,
         (\A i \in Ask : r.asks[i] = "none") /\ ~r.vain => ~Fate(r.spinner),
         ~r.bound => ~Fate(r.spinner)
  PROVE  ConsoleInv'
<1>1. doc' = r /\ UNCHANGED <<site, session>>
  BY DEF ChangeList
<1>2. UsersSound(r)
  BY DEF UsersSound
<1> QED BY <1>1, <1>2, NextConsole

\* What is invariant of the list of users.
LEMMA UsersFields ==
  ASSUME ConsoleInv, On("users")
  PROVE  /\ doc \in UsersDoc /\ Fades(doc.spinner) /\ Fate(doc.spinner) \in BOOLEAN
         /\ doc.spinner \in ElementOf(Fading) /\ doc.asks \in [Ask -> Asks3]
         /\ doc.bound \in BOOLEAN
         /\ (\E i \in Ask : doc.asks[i] = "clicked") => Fate(doc.spinner) /\ doc.bound
         /\ (\A i \in Ask : doc.asks[i] = "none") /\ ~doc.vain => ~Fate(doc.spinner)
         /\ ~doc.bound => ~Fate(doc.spinner)
<1>1. UsersSound(doc)
  BY ConsolePages
<1>2. doc \in UsersDoc /\ Fades(doc.spinner)
  BY <1>1 DEF UsersSound
<1>3. Fate(doc.spinner) \in BOOLEAN
  BY <1>2 DEF Fate, Fades, ElementOf
<1> QED BY <1>1, <1>2, <1>3 DEF UsersSound, UsersDoc, Asks3

\* The spinner is asked for.
LEMMA LoadingFades ==
  ASSUME NEW d \in UsersDoc, Fades(d.spinner)
  PROVE  LET l == Loading(d)
         IN /\ l \in UsersDoc /\ Fades(l.spinner) /\ Fate(l.spinner) = TRUE
            /\ l.bound = TRUE /\ l.vain = d.vain /\ l.asks = d.asks
<1> DEFINE s == FadeIn(d.spinner)
<1>1. Fades(s) /\ Fate(s) = TRUE /\ s \in ElementOf(Fading)
  BY SpinnerFades DEF Fades
<1>2. Loading(d) = [d EXCEPT !.spinner = s, !.bound = TRUE]
  BY DEF Loading
<1> HIDE DEF s
<1> QED BY <1>1, <1>2 DEF UsersDoc

\* The list of users is opened.
LEMMA OpenUsersStep ==
  ASSUME ConsoleInv, OpenUsers
  PROVE  ConsoleInv'
<1> DEFINE e == Element(FALSE)
<1>1. Fades(e) /\ ~Fate(e) /\ e \in ElementOf(Fading)
  <2>2. e \in ElementOf(Fading) /\ Idle(e) /\ e.queue = <<>> /\ e.closing = FALSE /\ e.shown = FALSE
    BY EmptySeq DEF Element, ElementOf, Idle
  <2>3. Len(<<>>) = 0
    OBVIOUS
  <2>4. Len(e.queue) = 0
    BY <2>2, <2>3
  <2> HIDE DEF e
  <2>5. Fades(e)
    BY <2>2 DEF Fades
  <2>6. ~(Len(e.queue) > 1)
    BY <2>4
  <2>7. ~Fate(e)
    BY <2>2, <2>6 DEF Fate
  <2> QED BY <2>2, <2>5, <2>7
<1>2. doc' = [page |-> "users", fresh |-> TRUE, spinner |-> e, bound |-> FALSE,
              vain |-> FALSE, asks |-> [i \in Ask |-> "none"]]
      /\ UNCHANGED <<site, session>>
  BY DEF OpenUsers, UsersList
<1> HIDE DEF e
<1>3. doc' \in UsersDoc /\ doc'.spinner = e /\ doc'.bound = FALSE /\ doc'.vain = FALSE
      /\ \A i \in Ask : doc'.asks[i] = "none"
  BY <1>1, <1>2 DEF UsersDoc
<1>4. UsersSound(doc')
  BY <1>1, <1>3 DEF UsersSound
<1> QED BY <1>2, <1>4, NextConsole

\* A click that only starts the spinner.
LEMMA VainStep ==
  ASSUME ConsoleInv, ClickForm \/ QuickSearch
  PROVE  ConsoleInv'
<1> DEFINE l == Loading(doc)
           r == [l EXCEPT !.vain = TRUE]
<1>1. On("users") /\ ChangeList(r)
  BY DEF ClickForm, QuickSearch, AjaxQuickSearch
<1>2. l \in UsersDoc /\ Fades(l.spinner) /\ Fate(l.spinner) = TRUE /\ l.bound = TRUE
  BY <1>1, UsersFields, LoadingFades
<1> HIDE DEF l
<1>3. r \in UsersDoc /\ r.spinner = l.spinner /\ r.bound = TRUE /\ r.vain = TRUE
  BY <1>2 DEF UsersDoc
<1> HIDE DEF r
<1> QED BY <1>1, <1>2, <1>3, ListStep

\* A request is made.
LEMMA AskStep ==
  ASSUME ConsoleInv, NEW i \in Ask, NEW how \in {"clicked", "keyed"}, Search(i, how) \/ Turn(i)
  PROVE  ConsoleInv'
<1>1. /\ On("users")
      /\ \/ ChangeList(Loading(Remote(doc, i, "clicked")))
         \/ ChangeList(Remote(doc, i, "keyed"))
  BY DEF Search, Turn
<1>2. /\ doc \in UsersDoc /\ Fades(doc.spinner) /\ doc.asks \in [Ask -> Asks3]
      /\ (\E j \in Ask : doc.asks[j] = "clicked") => Fate(doc.spinner) /\ doc.bound
      /\ ~doc.bound => ~Fate(doc.spinner)
  BY <1>1, UsersFields
<1>3. CASE ChangeList(Loading(Remote(doc, i, "clicked")))
  <2> DEFINE a == [doc.asks EXCEPT ![i] = "clicked"]
             d == Remote(doc, i, "clicked")
             r == Loading(d)
  <2>1. a \in [Ask -> Asks3] /\ a[i] = "clicked" /\ a[i] # "none"
    BY <1>2 DEF Asks3
  <2>2. d = [doc EXCEPT !.asks = a]
    BY DEF Remote
  <2> HIDE DEF a, d
  <2>3. d \in UsersDoc /\ d.spinner = doc.spinner /\ d.asks = a
    BY <1>2, <2>1, <2>2 DEF UsersDoc, Asks3
  <2>4. r \in UsersDoc /\ Fades(r.spinner) /\ Fate(r.spinner) = TRUE /\ r.bound = TRUE
        /\ r.asks = a
    BY <1>2, <2>3, LoadingFades
  <2>5. ChangeList(r)
    BY <1>3 DEF d
  <2> HIDE DEF r
  <2> QED BY <2>1, <2>4, <2>5, ListStep
<1>4. CASE ChangeList(Remote(doc, i, "keyed"))
  <2> DEFINE a == [doc.asks EXCEPT ![i] = "keyed"]
             r == Remote(doc, i, "keyed")
  <2>1. /\ a \in [Ask -> Asks3] /\ a[i] # "none"
        /\ \A j \in Ask : a[j] = "clicked" => doc.asks[j] = "clicked"
    BY <1>2 DEF Asks3
  <2>2. r = [doc EXCEPT !.asks = a]
    BY DEF Remote
  <2> HIDE DEF a, r
  <2>3. /\ r \in UsersDoc /\ r.spinner = doc.spinner /\ r.asks = a /\ r.bound = doc.bound
    BY <1>2, <2>1, <2>2 DEF UsersDoc, Asks3
  <2>4. ChangeList(r)
    BY <1>4 DEF r
  <2> QED BY <1>2, <2>1, <2>3, <2>4, ListStep
<1> QED BY <1>1, <1>3, <1>4

\* An answer comes; the last one stops the spinner.
LEMMA SearchAnsweredStep ==
  ASSUME ConsoleInv, NEW i \in Ask, SearchAnswered(i)
  PROVE  ConsoleInv'
<1> DEFINE s == FadeOut(doc.spinner)
           a == [doc.asks EXCEPT ![i] = "none"]
           d == [doc EXCEPT !.asks[i] = "none"]
           r == [d EXCEPT !.spinner = FadeOut(@), !.vain = FALSE]
<1>1. /\ On("users")
      /\ IF d.bound /\ \A j \in Ask : d.asks[j] = "none" THEN ChangeList(r) ELSE ChangeList(d)
  BY DEF SearchAnswered
<1>2. /\ doc \in UsersDoc /\ Fades(doc.spinner) /\ doc.asks \in [Ask -> Asks3]
      /\ (\E j \in Ask : doc.asks[j] = "clicked") => Fate(doc.spinner) /\ doc.bound
      /\ ~doc.bound => ~Fate(doc.spinner)
  BY <1>1, UsersFields
<1>3. Fades(s) /\ Fate(s) = FALSE /\ s \in ElementOf(Fading)
  BY <1>2, SpinnerFades DEF Fades
<1>4. /\ a \in [Ask -> Asks3]
      /\ \A j \in Ask : a[j] = "clicked" => doc.asks[j] = "clicked"
  BY <1>2 DEF Asks3
<1>5. d = [doc EXCEPT !.asks = a]
  OBVIOUS
<1> HIDE DEF a, d
<1>6. d \in UsersDoc /\ d.spinner = doc.spinner /\ d.asks = a /\ d.bound = doc.bound
  BY <1>2, <1>4, <1>5 DEF UsersDoc, Asks3
<1>7. r = [d EXCEPT !.spinner = s, !.vain = FALSE]
  BY <1>6
<1> HIDE DEF r, s
<1>8. r \in UsersDoc /\ r.spinner = s /\ r.asks = a /\ r.bound = doc.bound
  BY <1>3, <1>6, <1>7 DEF UsersDoc
<1>9. CASE d.bound /\ \A j \in Ask : d.asks[j] = "none"
  <2>1. ChangeList(r)
    BY <1>1, <1>9
  <2> QED BY <1>3, <1>6, <1>8, <1>9, <2>1, ListStep
<1>10. CASE ~(d.bound /\ \A j \in Ask : d.asks[j] = "none")
  <2>1. ChangeList(d)
    BY <1>1, <1>10
  <2> QED BY <1>2, <1>4, <1>6, <1>10, <2>1, ListStep
<1> QED BY <1>9, <1>10

\* The spinner has faded.
LEMMA SpinnerEndsStep ==
  ASSUME ConsoleInv, SpinnerEnds
  PROVE  ConsoleInv'
<1> DEFINE s == Finish(doc.spinner)
           r == [doc EXCEPT !.spinner = s]
<1>1. On("users") /\ ~Idle(doc.spinner) /\ ChangeList(r)
  BY DEF SpinnerEnds
<1>2. /\ doc \in UsersDoc /\ Fades(doc.spinner)
      /\ (\E j \in Ask : doc.asks[j] = "clicked") => Fate(doc.spinner) /\ doc.bound
      /\ (\A j \in Ask : doc.asks[j] = "none") /\ ~doc.vain => ~Fate(doc.spinner)
      /\ ~doc.bound => ~Fate(doc.spinner)
  BY <1>1, UsersFields
<1>3. Fades(s) /\ Fate(s) = Fate(doc.spinner) /\ s \in ElementOf(Fading)
  BY <1>1, <1>2, FinishFades DEF Fades
<1> HIDE DEF s
<1>4. r \in UsersDoc /\ r.spinner = s /\ r.asks = doc.asks /\ r.bound = doc.bound
      /\ r.vain = doc.vain
  BY <1>2, <1>3 DEF UsersDoc
<1> HIDE DEF r
<1> QED BY <1>1, <1>2, <1>3, <1>4, ListStep

\* What is posted against a question was agreed to.
LEMMA FollowLinkStep ==
  ASSUME ConsoleInv, NEW link \in {DestroyLink, LogoutLink}, NEW yes \in BOOLEAN,
         FollowLink(link, yes)
  PROVE  ConsoleInv'
<1>1. /\ doc' = [page |-> "posted", fresh |-> TRUE, asked |-> link.confirm, yes |-> yes]
      /\ UNCHANGED <<site, session>> /\ LinkClick(link, yes) = "post"
  BY DEF FollowLink, ChangeList
<1>2. link.confirm \in BOOLEAN
  <2>1. CASE link = DestroyLink
    BY <2>1 DEF DestroyLink
  <2>2. CASE link = LogoutLink
    BY <2>2 DEF LogoutLink
  <2> QED BY <2>1, <2>2
<1>3. link.confirm => yes
  BY <1>1, <1>2 DEF LinkClick, AllowAction
<1>4. doc' \in OtherDoc
  BY <1>1, <1>2, <1>3 DEF OtherDoc
<1> QED BY <1>1, <1>4, NextConsole

-----------------------------------------------------------------------------
(* The forms.                                                              *)

\* What is invariant of the form of an operator.
LEMMA OperatorFields ==
  ASSUME ConsoleInv, On("operator")
  PROVE  /\ OperatorSound(doc) /\ doc \in OperatorDoc
         /\ doc.held \subseteq Roles /\ doc.checked \subseteq Roles /\ doc.high \subseteq Roles
         /\ doc.restored \in BOOLEAN /\ doc.awaits \in {0} \cup Update
         /\ doc.updates \in [Update -> AnUpdate] /\ doc.group \subseteq SUBSET Roles
         /\ \A u \in Update : doc.updates[u] \in AnUpdate
         /\ \A u \in Update : doc.updates[u].saw = doc.updates[u].want
BY ConsolePages DEF OperatorSound, OperatorDoc

\* An update that is not under way.
LEMMA NoUpdateTyped ==
  NoUpdate \in AnUpdate /\ NoUpdate.phase = "none" /\ NoUpdate.saw = NoUpdate.want
BY DEF NoUpdate, AnUpdate

\* What leaves a form in order keeps the console in order.
LEMMA FormStep ==
  ASSUME ConsoleInv, NEW r, Become(r),
         OperatorSound(r) \/ OperatorsSound(r) \/ r \in OtherDoc
  PROVE  ConsoleInv'
BY NextConsole DEF Become

\* The form of an operator is opened.
LEMMA OpenFormStep ==
  ASSUME ConsoleInv, OpenForm
  PROVE  ConsoleInv'
<1>1. ASSUME NEW held \in SUBSET Roles  PROVE OperatorSound(OperatorForm(held))
  <2> DEFINE r == OperatorForm(held)
             none == [u \in Update |-> NoUpdate]
  <2>1. none \in [Update -> AnUpdate] /\ \A u \in Update : none[u] = NoUpdate
    BY NoUpdateTyped
  <2>2. r = [page |-> "operator", fresh |-> TRUE, held |-> held, checked |-> held, high |-> held,
             restored |-> FALSE, awaits |-> 0, updates |-> none, group |-> {}]
    BY DEF OperatorForm
  <2> HIDE DEF none, r
  <2>3. /\ r \in OperatorDoc /\ r.checked = r.high /\ r.updates = none /\ r.awaits = 0
        /\ r.group = {}
    BY <2>1, <2>2 DEF OperatorDoc
  <2>4. OperatorSound(r)
    BY <2>1, <2>3, NoUpdateTyped DEF OperatorSound
  <2> QED BY <2>4 DEF r
<1>2. ASSUME NEW m \in {"document", "phone"}  PROVE UserForm(m) \in OtherDoc
  BY DEF UserForm, OtherDoc
<1>3. AccountForm \in OtherDoc
  BY DEF AccountForm, OtherDoc
<1>4. \E r : Become(r) /\ (OperatorSound(r) \/ r \in OtherDoc)
  BY <1>1, <1>2, <1>3 DEF OpenForm
<1> QED BY <1>4, FormStep

\* A role is clicked.
LEMMA ToggleRowStep ==
  ASSUME ConsoleInv, NEW role \in Roles, ToggleRow(role)
  PROVE  ConsoleInv'
<1> DEFINE c == Toggled(doc.checked, role)
           h == Toggled(doc.high, role)
           r == [doc EXCEPT !.checked = c, !.high = h]
<1>1. On("operator") /\ Become(r)
  BY DEF ToggleRow
<1>2. OperatorSound(doc) /\ doc \in OperatorDoc
  BY <1>1, OperatorFields
<1>3. c \subseteq Roles /\ h \subseteq Roles /\ (doc.checked = doc.high => c = h)
  BY <1>2 DEF Toggled, OperatorDoc
<1> HIDE DEF c, h
<1>4. /\ r \in OperatorDoc /\ r.checked = c /\ r.high = h /\ r.restored = doc.restored
      /\ r.updates = doc.updates /\ r.awaits = doc.awaits /\ r.held = doc.held
      /\ r.group = doc.group
  BY <1>2, <1>3 DEF OperatorDoc
<1> HIDE DEF r
<1>5. OperatorSound(r)
  BY <1>2, <1>3, <1>4 DEF OperatorSound
<1> QED BY <1>1, <1>5, FormStep

\* The updates whose answer nobody awaits.
LEMMA UnawaitedTyped ==
  ASSUME NEW f \in [Update -> AnUpdate], \A u \in Update : f[u].saw = f[u].want
  PROVE  LET a == Unawaited(f)
         IN /\ a \in [Update -> AnUpdate]
            /\ \A u \in Update : /\ a[u].saw = a[u].want
                                 /\ a[u].phase = "running" => a[u] = f[u]
<1> DEFINE a == Unawaited(f)
<1>1. \A u \in Update : a[u] = IF f[u].phase \in {"saved", "refused"} THEN NoUpdate ELSE f[u]
  BY DEF Unawaited
<1>2. a \in [Update -> AnUpdate]
  BY NoUpdateTyped DEF Unawaited
<1> HIDE DEF a
<1>3. "none" # "running"
  OBVIOUS
<1> QED BY <1>1, <1>2, <1>3, NoUpdateTyped DEF a

\* The page is reloaded and keeps what was checked.
LEMMA RestoreStep ==
  ASSUME ConsoleInv, Restore
  PROVE  ConsoleInv'
<1> DEFINE a == Unawaited(doc.updates)
           r == [doc EXCEPT !.high = doc.held, !.restored = TRUE, !.awaits = 0, !.updates = a]
<1>1. On("operator") /\ Become(r)
  BY DEF Restore
<1>2. /\ OperatorSound(doc) /\ doc \in OperatorDoc /\ doc.updates \in [Update -> AnUpdate]
      /\ \A u \in Update : doc.updates[u].saw = doc.updates[u].want
  BY <1>1, OperatorFields
<1>3. /\ a \in [Update -> AnUpdate]
      /\ \A u \in Update : /\ a[u].saw = a[u].want
                           /\ a[u].phase = "running" => a[u] = doc.updates[u]
  BY <1>2, UnawaitedTyped
<1> HIDE DEF a
<1>4. /\ r \in OperatorDoc /\ r.restored = TRUE /\ r.updates = a /\ r.awaits = 0
      /\ r.held = doc.held /\ r.group = doc.group
  BY <1>2, <1>3 DEF OperatorDoc
<1> HIDE DEF r
<1>5. OperatorSound(r)
  BY <1>2, <1>3, <1>4 DEF OperatorSound
<1> QED BY <1>1, <1>5, FormStep

\* The form is sent.
LEMMA SendStep ==
  ASSUME ConsoleInv, NEW u \in Update, Send(u)
  PROVE  ConsoleInv'
<1> DEFINE a == Unawaited(doc.updates)
           saw == IF doc.restored THEN doc.checked ELSE doc.high
           n == [phase |-> "sent", want |-> doc.checked, seen |-> {}, saw |-> saw]
           b == [a EXCEPT ![u] = n]
           r == [doc EXCEPT !.updates = b, !.awaits = u]
<1>1. On("operator") /\ Become(r)
  BY DEF Send
<1>2. /\ OperatorSound(doc) /\ doc \in OperatorDoc /\ doc.updates \in [Update -> AnUpdate]
      /\ doc.checked \subseteq Roles /\ doc.restored \in BOOLEAN
      /\ \A v \in Update : doc.updates[v].saw = doc.updates[v].want
  BY <1>1, OperatorFields
<1>3. saw = doc.checked
  BY <1>2 DEF OperatorSound
<1>4. /\ a \in [Update -> AnUpdate]
      /\ \A v \in Update : /\ a[v].saw = a[v].want
                           /\ a[v].phase = "running" => a[v] = doc.updates[v]
  BY <1>2, UnawaitedTyped
<1> HIDE DEF a, saw
<1>5. n \in AnUpdate /\ n.saw = n.want /\ n.phase = "sent" /\ "sent" # "running" /\ "sent" # "none"
  BY <1>2, <1>3 DEF AnUpdate
<1> HIDE DEF n
<1>6. /\ b \in [Update -> AnUpdate] /\ b[u] = n
      /\ \A v \in Update : /\ b[v].saw = b[v].want
                           /\ b[v].phase = "running" => b[v] = doc.updates[v]
  BY <1>4, <1>5
<1> HIDE DEF b
<1>7. /\ r \in OperatorDoc /\ r.restored = doc.restored /\ r.updates = b /\ r.awaits = u
      /\ r.held = doc.held /\ r.group = doc.group /\ r.checked = doc.checked /\ r.high = doc.high
  BY <1>2, <1>6 DEF OperatorDoc
<1> HIDE DEF r
<1>8. OperatorSound(r)
  BY <1>2, <1>5, <1>6, <1>7 DEF OperatorSound
<1> QED BY <1>1, <1>8, FormStep

\* One update changes, and the group stays: it does not begin to run.
LEMMA UpdateStep ==
  ASSUME ConsoleInv, On("operator"), NEW u \in Update, NEW n \in AnUpdate, n.saw = n.want,
         n.phase # "running", u = doc.awaits => n.phase # "none",
         Become([doc EXCEPT !.updates[u] = n])
  PROVE  ConsoleInv'
<1> DEFINE b == [doc.updates EXCEPT ![u] = n]
           r == [doc EXCEPT !.updates[u] = n]
<1>1. Become(r) /\ r = [doc EXCEPT !.updates = b]
  OBVIOUS
<1>2. /\ OperatorSound(doc) /\ doc \in OperatorDoc /\ doc.updates \in [Update -> AnUpdate]
      /\ doc.awaits \in {0} \cup Update
  BY OperatorFields
<1>3. /\ b \in [Update -> AnUpdate] /\ b[u] = n
      /\ \A v \in Update : v # u => b[v] = doc.updates[v]
  BY <1>2
<1> HIDE DEF b, r
<1>4. /\ r \in OperatorDoc /\ r.restored = doc.restored /\ r.updates = b /\ r.awaits = doc.awaits
      /\ r.held = doc.held /\ r.group = doc.group /\ r.checked = doc.checked /\ r.high = doc.high
  BY <1>1, <1>2, <1>3 DEF OperatorDoc
<1>5. OperatorSound(r)
  BY <1>2, <1>3, <1>4 DEF OperatorSound
<1> QED BY <1>1, <1>5, FormStep

\* Another form is sent for the same operator.
LEMMA RivalStep ==
  ASSUME ConsoleInv, NEW u \in Update, NEW want \in SUBSET Roles, Rival(u, want)
  PROVE  ConsoleInv'
<1> DEFINE n == [phase |-> "sent", want |-> want, saw |-> want, seen |-> {}]
<1>1. On("operator") /\ u # doc.awaits /\ Become([doc EXCEPT !.updates[u] = n])
  BY DEF Rival
<1>2. n \in AnUpdate /\ n.saw = n.want /\ n.phase # "running"
  BY DEF AnUpdate
<1> HIDE DEF n
<1> QED BY <1>1, <1>2, UpdateStep

\* An update reads the roles.
LEMMA StartUpdateStep ==
  ASSUME ConsoleInv, NEW u \in Update, StartUpdate(u)
  PROVE  ConsoleInv'
<1> DEFINE n == [doc.updates[u] EXCEPT !.phase = "running", !.seen = doc.held]
           b == [doc.updates EXCEPT ![u] = n]
           g == IF Running = {} THEN {} ELSE doc.group
           r == [doc EXCEPT !.updates = b, !.group = g]
<1>1. /\ On("operator")
      /\ Become([doc EXCEPT !.updates[u].phase = "running", !.updates[u].seen = doc.held,
                            !.group = IF Running = {} THEN {} ELSE @])
  BY DEF StartUpdate
<1>2. /\ OperatorSound(doc) /\ doc \in OperatorDoc /\ doc.updates \in [Update -> AnUpdate]
      /\ doc.held \subseteq Roles /\ doc.group \subseteq SUBSET Roles
      /\ doc.updates[u] \in AnUpdate /\ doc.updates[u].saw = doc.updates[u].want
  BY <1>1, OperatorFields
<1>3. Become(r)
  <2>1. [doc EXCEPT !.updates[u].phase = "running", !.updates[u].seen = doc.held,
                    !.group = IF Running = {} THEN {} ELSE @] = r
    BY <1>2 DEF OperatorDoc
  <2> QED BY <1>1, <2>1
<1>4. n \in AnUpdate /\ n.saw = n.want /\ n.phase = "running" /\ n.seen = doc.held
  BY <1>2 DEF AnUpdate
<1> HIDE DEF n
<1>5. /\ b \in [Update -> AnUpdate] /\ b[u] = n
      /\ \A v \in Update : v # u => b[v] = doc.updates[v]
  BY <1>2, <1>4
<1>6. /\ g \subseteq SUBSET Roles /\ (g # {} => g = doc.group)
      /\ \A v \in Update : doc.updates[v].phase = "running" => g = doc.group
  BY <1>2 DEF Running
<1> HIDE DEF b, g
<1>7. /\ r \in OperatorDoc /\ r.restored = doc.restored /\ r.updates = b /\ r.awaits = doc.awaits
      /\ r.held = doc.held /\ r.group = g /\ r.checked = doc.checked /\ r.high = doc.high
  BY <1>2, <1>5, <1>6 DEF OperatorDoc
<1> HIDE DEF r
<1>8. \A v \in Update : b[v].phase = "running" => SeenSound(b[v].seen, doc.held, g)
  <2> TAKE v \in Update
  <2>1. CASE v = u
    BY <1>4, <1>5, <2>1 DEF SeenSound
  <2>2. CASE v # u
    BY <1>2, <1>5, <1>6, <2>2 DEF OperatorSound
  <2> QED BY <2>1, <2>2
<1>9. "running" # "none"
  OBVIOUS
<1>10. \A v \in Update : b[v].saw = b[v].want
  BY <1>2, <1>4, <1>5 DEF OperatorSound
<1>11. doc.awaits # 0 => b[doc.awaits].phase # "none"
  <2>1. doc.awaits # 0 => doc.awaits \in Update /\ doc.updates[doc.awaits].phase # "none"
    BY <1>2 DEF OperatorSound, OperatorDoc
  <2> QED BY <1>4, <1>5, <1>9, <2>1
<1>12. (~doc.restored => doc.checked = doc.high) /\ (g # {} => GroupSound(doc.held, g))
  BY <1>2, <1>6 DEF OperatorSound
<1>13. OperatorSound(r)
  BY <1>7, <1>8, <1>10, <1>11, <1>12 DEF OperatorSound
<1> QED BY <1>3, <1>13, FormStep

\* The server is through with an update: what the page knows of it.
LEMMA ThroughSound ==
  ASSUME ConsoleInv, On("operator"), NEW u \in Update, NEW result \in {"saved", "refused"},
         NEW held \in SUBSET Roles, NEW group \in SUBSET (SUBSET Roles),
         group # {} => GroupSound(held, group),
         \A v \in Update : doc.updates[v].phase = "running" =>
                             SeenSound(doc.updates[v].seen, held, group)
  PROVE  OperatorSound(Through([doc EXCEPT !.held = held, !.group = group], u, result))
<1> DEFINE d == [doc EXCEPT !.held = held, !.group = group]
           old == doc.updates[u]
           n == IF u = doc.awaits THEN [old EXCEPT !.phase = result] ELSE NoUpdate
           b == [doc.updates EXCEPT ![u] = n]
           r == Through(d, u, result)
<1>1. /\ OperatorSound(doc) /\ doc \in OperatorDoc /\ doc.updates \in [Update -> AnUpdate]
      /\ old \in AnUpdate /\ old.saw = old.want /\ doc.awaits \in {0} \cup Update
  BY OperatorFields
<1>2. /\ d \in OperatorDoc /\ d.restored = doc.restored /\ d.updates = doc.updates
      /\ d.awaits = doc.awaits /\ d.held = held /\ d.group = group
      /\ d.checked = doc.checked /\ d.high = doc.high
  BY <1>1 DEF OperatorDoc
<1>3. /\ n \in AnUpdate /\ n.saw = n.want /\ n.phase # "running"
      /\ u = doc.awaits => n.phase # "none"
  <2>1. CASE u = doc.awaits
    BY <1>1, <2>1 DEF AnUpdate
  <2>2. CASE u # doc.awaits
    <3>1. n = NoUpdate /\ "none" # "running"
      BY <2>2
    <3> QED BY <2>2, <3>1, NoUpdateTyped
  <2> QED BY <2>1, <2>2
<1>4. r = [d EXCEPT !.updates = b]
  <2>1. r = [d EXCEPT !.updates[u] = IF u = doc.awaits THEN [d.updates[u] EXCEPT !.phase = result]
                                     ELSE NoUpdate]
    BY DEF Through
  <2> HIDE DEF d, r
  <2> QED BY <1>2, <2>1
<1> HIDE DEF d, n, r
<1>5. /\ b \in [Update -> AnUpdate] /\ b[u] = n
      /\ \A v \in Update : v # u => b[v] = doc.updates[v]
  BY <1>1, <1>3
<1> HIDE DEF b
<1>6. /\ r \in OperatorDoc /\ r.restored = doc.restored /\ r.updates = b /\ r.awaits = doc.awaits
      /\ r.held = held /\ r.group = group /\ r.checked = doc.checked /\ r.high = doc.high
  BY <1>2, <1>4, <1>5 DEF OperatorDoc
<1>7. \A v \in Update : b[v].phase = "running" => SeenSound(b[v].seen, held, group)
  BY <1>3, <1>5
<1>8. \A v \in Update : b[v].saw = b[v].want
  BY <1>1, <1>3, <1>5 DEF OperatorSound
<1>9. doc.awaits # 0 => b[doc.awaits].phase # "none"
  <2>1. doc.awaits # 0 => doc.awaits \in Update /\ doc.updates[doc.awaits].phase # "none"
    BY <1>1 DEF OperatorSound
  <2> QED BY <1>3, <1>5, <2>1
<1>10. ~doc.restored => doc.checked = doc.high
  BY <1>1 DEF OperatorSound
<1>11. OperatorSound(r)
  BY <1>6, <1>7, <1>8, <1>9, <1>10 DEF OperatorSound
<1> QED BY <1>11 DEF r, d

\* Nothing of the operator changes.
LEMMA ThroughStep ==
  ASSUME ConsoleInv, On("operator"), NEW u \in Update, NEW result \in {"saved", "refused"},
         Become(Through(doc, u, result))
  PROVE  ConsoleInv'
<1>1. /\ OperatorSound(doc) /\ doc \in OperatorDoc
      /\ doc.held \in SUBSET Roles /\ doc.group \in SUBSET (SUBSET Roles)
  BY OperatorFields
<1>2. [doc EXCEPT !.held = doc.held, !.group = doc.group] = doc
  BY <1>1 DEF OperatorDoc
<1>3. OperatorSound(Through([doc EXCEPT !.held = doc.held, !.group = doc.group], u, result))
  BY <1>1, ThroughSound DEF OperatorSound
<1> QED BY <1>2, <1>3, FormStep

\* The argument for an update that overlaps others: a role that it wants is
\* held unless one that was saved while it ran did not want it, and it is one
\* of the group itself.
LEMMA CommitStep ==
  ASSUME ConsoleInv, NEW u \in Update, Commit(u)
  PROVE  ConsoleInv'
<1> DEFINE want == doc.updates[u].want
           seen == doc.updates[u].seen
           saw == doc.updates[u].saw
           held == (doc.held \cup (want \ seen)) \ (seen \ want)
           group == doc.group \cup {saw}
           d == [doc EXCEPT !.held = held, !.group = group]
           done == "saved"
<1>1. /\ On("operator") /\ u \in Running
      /\ Become(IF want = {} THEN Through(doc, u, "saved")
                ELSE Through([doc EXCEPT !.held = (@ \cup (want \ seen)) \ (seen \ want),
                                         !.group = @ \cup {saw}], u, "saved"))
  BY DEF Commit
<1>2. Become(IF want = {} THEN Through(doc, u, done) ELSE Through(d, u, done))
  BY <1>1
<1>3. done \in {"saved", "refused"}
  OBVIOUS
<1> HIDE DEF done
<1>4. /\ OperatorSound(doc) /\ doc.held \subseteq Roles /\ doc.group \subseteq SUBSET Roles
      /\ doc.updates[u] \in AnUpdate /\ saw = want
  BY <1>1, OperatorFields
<1>5. want \subseteq Roles /\ seen \subseteq Roles
  BY <1>4 DEF AnUpdate
<1>6. SeenSound(seen, doc.held, doc.group)
  BY <1>1, <1>4 DEF OperatorSound, Running
<1>7. \A v \in Update : doc.updates[v].phase = "running" =>
                          SeenSound(doc.updates[v].seen, doc.held, doc.group)
  BY <1>4 DEF OperatorSound
<1> HIDE DEF want, seen, saw
<1>8. held \in SUBSET Roles /\ group \in SUBSET (SUBSET Roles)
  BY <1>4, <1>5
<1>9. GroupSound(held, group)
  <2> SUFFICES ASSUME NEW role \in Roles
               PROVE  /\ (\A s \in group : role \in s) => role \in held
                      /\ (\A s \in group : role \notin s) => role \notin held
    BY DEF GroupSound
  <2>1. ASSUME \A s \in group : role \in s  PROVE role \in held
    <3>1. role \in want /\ \A s \in doc.group : role \in s
      BY <1>4, <2>1
    <3>2. role \in seen => role \in doc.held
      BY <1>6, <3>1 DEF SeenSound
    <3> QED BY <3>1, <3>2
  <2>2. ASSUME \A s \in group : role \notin s  PROVE role \notin held
    <3>1. role \notin want /\ \A s \in doc.group : role \notin s
      BY <1>4, <2>2
    <3>2. role \in doc.held => role \in seen
      BY <1>6, <3>1 DEF SeenSound
    <3> QED BY <3>1, <3>2
  <2> QED BY <2>1, <2>2
<1>10. ASSUME NEW other, SeenSound(other, doc.held, doc.group)
       PROVE  SeenSound(other, held, group)
  <2> SUFFICES ASSUME NEW role \in Roles
               PROVE  /\ role \in other \ held => \E s \in group : role \notin s
                      /\ role \in held \ other => \E s \in group : role \in s
    BY DEF SeenSound
  <2>1. /\ role \in other \ doc.held => \E s \in doc.group : role \notin s
        /\ role \in doc.held \ other => \E s \in doc.group : role \in s
    BY <1>10 DEF SeenSound
  <2>2. ASSUME role \in other \ held  PROVE \E s \in group : role \notin s
    <3>1. CASE role \in doc.held
      BY <1>4, <2>2, <3>1
    <3>2. CASE role \notin doc.held
      BY <2>1, <2>2, <3>2
    <3> QED BY <3>1, <3>2
  <2>3. ASSUME role \in held \ other  PROVE \E s \in group : role \in s
    <3>1. CASE role \in doc.held
      BY <2>1, <2>3, <3>1
    <3>2. CASE role \notin doc.held
      BY <1>4, <2>3, <3>2
    <3> QED BY <3>1, <3>2
  <2> QED BY <2>2, <2>3
<1>11. \A v \in Update : doc.updates[v].phase = "running" =>
                           SeenSound(doc.updates[v].seen, held, group)
  BY <1>7, <1>10
<1> HIDE DEF held, group
<1>12. OperatorSound(Through(d, u, done))
  BY <1>1, <1>3, <1>8, <1>9, <1>11, ThroughSound
<1> HIDE DEF d
<1>13. CASE want = {}
  BY <1>1, <1>2, <1>3, <1>13, ThroughStep
<1>14. CASE want # {}
  BY <1>2, <1>12, <1>14, FormStep
<1> QED BY <1>13, <1>14

\* An update is refused.
LEMMA RollbackStep ==
  ASSUME ConsoleInv, NEW u \in Update, Rollback(u)
  PROVE  ConsoleInv'
<1> DEFINE done == "refused"
<1>1. On("operator") /\ Become(Through(doc, u, done)) /\ done \in {"saved", "refused"}
  BY DEF Rollback
<1> HIDE DEF done
<1> QED BY <1>1, ThroughStep

\* The answer to the form comes.
LEMMA UpdateAnsweredStep ==
  ASSUME ConsoleInv, NEW u \in Update, UpdateAnswered(u)
  PROVE  ConsoleInv'
<1>1. CASE Become(OperatorsList)
  <2> DEFINE e == Element(TRUE)
  <2>1. Slides(e, TRUE) /\ e.queue = <<>> /\ e \in ElementOf(Sliding)
    BY ElementSlides DEF Slides
  <2>2. OperatorsList = [page |-> "operators", fresh |-> TRUE, notice |-> e, closed |-> FALSE]
    BY DEF OperatorsList
  <2> HIDE DEF e
  <2> DEFINE r == OperatorsList
  <2>3. r \in OperatorsDoc /\ r.notice = e /\ r.closed = FALSE
    BY <2>1, <2>2 DEF OperatorsDoc
  <2> HIDE DEF r
  <2>4. e.queue \in Seq({"toggle"}) /\ (~r.closed) = TRUE
    BY <2>1, <2>3
  <2>5. Slides(r.notice, ~r.closed)
    BY <2>1, <2>3, <2>4
  <2>6. OperatorsSound(r)
    BY <2>3, <2>4, <2>5 DEF OperatorsSound
  <2> QED BY <1>1, <2>6, FormStep DEF r
<1>2. CASE /\ On("operator") /\ doc.updates[u].phase = "refused"
           /\ Become([doc EXCEPT !.checked = doc.held, !.high = doc.held, !.restored = FALSE,
                                 !.awaits = 0, !.updates[u] = NoUpdate])
  <2> DEFINE b == [doc.updates EXCEPT ![u] = NoUpdate]
             r == [doc EXCEPT !.checked = doc.held, !.high = doc.held, !.restored = FALSE,
                              !.awaits = 0, !.updates = b]
  <2>1. Become(r)
    BY <1>2
  <2>2. /\ OperatorSound(doc) /\ doc \in OperatorDoc /\ doc.updates \in [Update -> AnUpdate]
    BY <1>2, OperatorFields
  <2>3. /\ b \in [Update -> AnUpdate] /\ b[u] = NoUpdate
        /\ \A v \in Update : v # u => b[v] = doc.updates[v]
    BY <2>2, NoUpdateTyped
  <2> HIDE DEF b
  <2>4. /\ r \in OperatorDoc /\ r.updates = b /\ r.awaits = 0
        /\ r.held = doc.held /\ r.group = doc.group /\ r.checked = doc.held /\ r.high = doc.held
    BY <2>2, <2>3 DEF OperatorDoc
  <2> HIDE DEF r
  <2>5. "none" # "running"
    OBVIOUS
  <2>6. \A v \in Update : b[v].phase = "running" => SeenSound(b[v].seen, doc.held, doc.group)
    BY <2>2, <2>3, <2>5, NoUpdateTyped DEF OperatorSound
  <2>7. \A v \in Update : b[v].saw = b[v].want
    BY <2>2, <2>3, NoUpdateTyped DEF OperatorSound
  <2>8. doc.group # {} => GroupSound(doc.held, doc.group)
    BY <2>2 DEF OperatorSound
  <2>9. OperatorSound(r)
    BY <2>4, <2>6, <2>7, <2>8 DEF OperatorSound
  <2> QED BY <2>1, <2>9, FormStep
<1> QED BY <1>1, <1>2 DEF UpdateAnswered

\* The steps of the other forms.
LEMMA OtherFormStep ==
  ASSUME ConsoleInv,
         (\E m \in {"document", "phone"} : ChangeMethod(m)) \/ \E yes \in BOOLEAN : ClickDisable(yes)
  PROVE  ConsoleInv'
<1>1. ASSUME NEW m \in {"document", "phone"}, ChangeMethod(m)  PROVE ConsoleInv'
  <2> DEFINE i == m = "document"
             r == [doc EXCEPT !.method = m, !.identity = i]
  <2>1. On("new_user") /\ Become(r) /\ i \in BOOLEAN
    BY <1>1 DEF ChangeMethod
  <2>2. doc \in [page : {"new_user"}, fresh : BOOLEAN, method : {"document", "phone"},
                 identity : BOOLEAN]
    BY <2>1, ConsolePages DEF On, OtherDoc
  <2> HIDE DEF i
  <2>3. r \in [page : {"new_user"}, fresh : BOOLEAN, method : {"document", "phone"},
               identity : BOOLEAN]
    BY <2>1, <2>2
  <2> HIDE DEF r
  <2>4. r \in OtherDoc
    BY <2>3 DEF OtherDoc
  <2> QED BY <2>1, <2>4, FormStep
<1>2. ASSUME NEW yes \in BOOLEAN, ClickDisable(yes)  PROVE ConsoleInv'
  <2> DEFINE x == ~doc.disable /\ yes
             r == [doc EXCEPT !.disable = x]
  <2>1. On("edit") /\ Become(r) /\ x \in BOOLEAN
    BY <1>2 DEF ClickDisable
  <2>2. doc \in [page : {"edit"}, fresh : BOOLEAN, disable : BOOLEAN]
    BY <2>1, ConsolePages DEF On, OtherDoc
  <2> HIDE DEF x
  <2>3. r \in [page : {"edit"}, fresh : BOOLEAN, disable : BOOLEAN]
    BY <2>1, <2>2
  <2> HIDE DEF r
  <2>4. r \in OtherDoc
    BY <2>3 DEF OtherDoc
  <2> QED BY <2>1, <2>4, FormStep
<1> QED BY <1>1, <1>2

\* The notice has no list to put in.
LEMMA NoticeStep ==
  ASSUME ConsoleInv, CloseNotice \/ NoticeEnds
  PROVE  ConsoleInv'
<1> DEFINE e == doc.notice
           f == ~doc.closed
<1>1. On("operators")
  BY DEF CloseNotice, NoticeEnds
<1>2. /\ doc \in OperatorsDoc /\ e.queue \in Seq({"toggle"}) /\ Slides(e, f)
      /\ f \in BOOLEAN /\ (~f) \in BOOLEAN /\ (~f) = doc.closed
  BY <1>1, ConsolePages DEF OperatorsSound, OperatorsDoc
<1>3. CASE CloseNotice
  <2> DEFINE k == "toggle"
             s == SlideToggle(e)
             r == [doc EXCEPT !.notice = s, !.closed = f]
  <2>1. k \in Sliding /\ k = "toggle" /\ k \in {"toggle"} /\ s = Enqueue(e, k)
    BY DEF Sliding, SlideToggle
  <2>2. Become(r)
    BY <1>3 DEF CloseNotice
  <2> HIDE DEF k, e, f
  <2>3. Slides(s, IF k = "toggle" THEN ~f ELSE f) /\ s.queue = Append(e.queue, k)
    BY <1>2, <2>1, EnqueueSlides
  <2>4. Slides(s, ~f) /\ s \in ElementOf(Sliding)
    BY <2>1, <2>3 DEF Slides
  <2>5. s.queue \in Seq({"toggle"})
    BY <1>2, <2>1, <2>3
  <2> HIDE DEF s
  <2>6. r \in OperatorsDoc /\ r.notice = s /\ r.closed = f
    BY <1>2, <2>4 DEF OperatorsDoc
  <2> HIDE DEF r
  <2>7. Slides(r.notice, ~r.closed)
    <3>1. (~r.closed) = ~f
      BY <2>6
    <3> QED BY <2>4, <2>6, <3>1
  <2>8. OperatorsSound(r)
    BY <2>5, <2>6, <2>7 DEF OperatorsSound
  <2> QED BY <2>2, <2>8, FormStep
<1>4. CASE NoticeEnds
  <2> DEFINE s == Finish(e)
             r == [doc EXCEPT !.notice = s]
  <2>1. Become(r) /\ ~Idle(e)
    BY <1>4 DEF NoticeEnds
  <2> HIDE DEF e, f
  <2>2. Slides(s, IF Head(e.queue) = "swap" THEN ~f ELSE f) /\ s.queue = Tail(e.queue)
    BY <1>2, <2>1, FinishSlides
  <2>3. Head(e.queue) # "swap" /\ Tail(e.queue) \in Seq({"toggle"})
    <3>1. e.queue # <<>>
      BY <2>1 DEF Idle
    <3>2. Head(e.queue) \in {"toggle"} /\ Tail(e.queue) \in Seq({"toggle"})
      BY <1>2, <3>1, HeadTailProperties
    <3> QED BY <3>2
  <2>4. Slides(s, f) /\ s \in ElementOf(Sliding)
    BY <2>2, <2>3 DEF Slides
  <2>5. s.queue \in Seq({"toggle"})
    BY <2>2, <2>3
  <2> HIDE DEF s
  <2>6. r \in OperatorsDoc /\ r.notice = s /\ r.closed = doc.closed
    BY <1>2, <2>4 DEF OperatorsDoc
  <2> HIDE DEF r
  <2>7. Slides(r.notice, ~r.closed)
    <3>1. Slides(s, ~doc.closed)
      BY <2>4 DEF f
    <3> QED BY <2>6, <3>1
  <2>8. OperatorsSound(r)
    BY <2>5, <2>6, <2>7 DEF OperatorsSound
  <2> QED BY <2>1, <2>8, FormStep
<1> QED BY <1>3, <1>4

-----------------------------------------------------------------------------
(* The console: what follows.                                              *)

\* The browser of the staff opens its first page.
LEMMA ConsoleInitial ==
  ASSUME ConsoleInit
  PROVE  ConsoleInv
BY DEF ConsoleInit, ConsoleInv, Home, OtherDoc

\* Every step on the pages with graphs.
LEMMA StatisticsStep ==
  ASSUME ConsoleInv, StatisticsNext
  PROVE  ConsoleInv'
BY OpenStatisticsStep, SubmitDatesStep, GraphAnsweredStep, PickDateStep, BoxStep
   DEF StatisticsNext, Side

\* Every step on the list of users.
LEMMA UsersStep ==
  ASSUME ConsoleInv, UsersNext
  PROVE  ConsoleInv'
BY OpenUsersStep, VainStep, AskStep, SearchAnsweredStep, FollowLinkStep, SpinnerEndsStep
   DEF UsersNext

\* Every step on the forms.
LEMMA FormsStep ==
  ASSUME ConsoleInv, FormsNext
  PROVE  ConsoleInv'
BY OpenFormStep, ToggleRowStep, RestoreStep, SendStep, RivalStep, StartUpdateStep, CommitStep,
   RollbackStep, UpdateAnsweredStep, OtherFormStep, NoticeStep
   DEF FormsNext

\* Every step of the console.
LEMMA ConsoleStep ==
  ASSUME ConsoleInv, [ConsoleNext]_deskVars
  PROVE  ConsoleInv'
<1>1. CASE UNCHANGED deskVars
  <2>1. UNCHANGED <<site, session>> /\ doc' = doc
    BY <1>1 DEF deskVars
  <2> QED BY <2>1, NextConsole DEF ConsoleInv
<1> QED BY <1>1, OtherTabStep, GoHomeStep, StatisticsStep, UsersStep, FormsStep DEF ConsoleNext

\* Every page of the staff is in order at any time: the inductive invariant
\* from which the theorems below follow.
THEOREM ConsoleInvariant == ConsoleSpec => []ConsoleInv
<1>1. ConsoleInit => ConsoleInv
  BY ConsoleInitial
<1>2. ConsoleInv /\ [ConsoleNext]_deskVars => ConsoleInv'
  BY ConsoleStep
<1> QED BY <1>1, <1>2, PTL DEF ConsoleSpec

\* What is invariant of a page with graphs.
LEMMA GraphsFields ==
  ASSUME ConsoleInv, WithGraphs
  PROVE  /\ GraphsSound(doc) /\ doc.page \in GraphKinds
         /\ \E page : doc \in GraphsDoc(doc.page, page)
         /\ doc.waiting \subseteq doc.scripts
         /\ doc.range \in Ranges /\ doc.boxes \in [Boxes(doc.page) -> ABox]
<1>1. GraphsSound(doc)
  BY ConsolePages
<1>2. PICK page : doc \in GraphsDoc(doc.page, page)
  BY <1>1 DEF GraphsSound
<1> QED BY <1>1, <1>2 DEF GraphsSound, GraphsDoc

\* The invariant implies the type invariant.
LEMMA ConsoleTyped ==
  ASSUME ConsoleInv
  PROVE  ConsoleTypeOK
<1>1. session \in [locale : Locales, operator : BOOLEAN]
  BY DEF ConsoleInv
<1>2. ASSUME WithGraphs
      PROVE  /\ doc.waiting \subseteq doc.scripts
             /\ \A s \in {"from", "to"} : doc.range[s] \in 1..(Months * Days)
             /\ \A b \in DOMAIN doc.boxes : /\ IsElement(doc.boxes[b].el)
                                            /\ doc.boxes[b].asked \in 0..MaxLists
  <2>1. /\ GraphsSound(doc) /\ doc.waiting \subseteq doc.scripts
        /\ doc.range \in Ranges /\ doc.boxes \in [Boxes(doc.page) -> ABox]
    BY <1>2, GraphsFields
  <2>2. \A s \in {"from", "to"} : doc.range[s] \in 1..(Months * Days)
    BY <2>1 DEF Ranges
  <2>3. ASSUME NEW b \in DOMAIN doc.boxes
        PROVE  IsElement(doc.boxes[b].el) /\ doc.boxes[b].asked \in 0..MaxLists
    <3>1. BoxSound(b, doc.boxes[b]) /\ doc.boxes[b] \in ABox
      BY <2>1 DEF GraphsSound
    <3> DEFINE box == doc.boxes[b]
    <3> HIDE DEF box
    <3>2. BoxSound(b, box) /\ box \in ABox
      BY <3>1 DEF box
    <3>3. Slides(box.el, ~box.hidden) /\ box.asked \in 0..MaxLists
      BY <3>2 DEF BoxSound, ABox
    <3>4. IsElement(box.el)
      BY <3>3, SlidesIsElement
    <3> QED BY <3>3, <3>4 DEF box
  <2> QED BY <2>1, <2>2, <2>3
<1>3. ASSUME On("users")
      PROVE  IsElement(doc.spinner) /\ doc.asks \in [Ask -> {"none", "clicked", "keyed"}]
  <2>1. doc \in UsersDoc /\ Fades(doc.spinner)
    BY <1>3, UsersFields
  <2>2. IsElement(doc.spinner)
    BY <2>1 DEF IsElement, Fades, ElementOf, Fading, Idle
  <2> QED BY <2>1, <2>2 DEF UsersDoc
<1>4. On("posted") /\ doc.asked => doc.yes
  BY ConsolePages DEF On, OtherDoc
<1>5. ASSUME On("operator")
      PROVE  /\ doc.held \subseteq Roles /\ doc.checked \subseteq Roles
             /\ doc.awaits # 0 => doc.updates[doc.awaits] # NoUpdate
  <2>1. OperatorSound(doc) /\ doc.held \subseteq Roles /\ doc.checked \subseteq Roles
    BY <1>5, OperatorFields
  <2> QED BY <2>1, NoUpdateTyped DEF OperatorSound
<1>6. On("operators") => IsElement(doc.notice)
  BY ConsolePages, SlidesIsElement DEF OperatorsSound
<1> QED BY <1>1, <1>2, <1>3, <1>4, <1>5, <1>6 DEF ConsoleTypeOK

\* The session and the documents are what the pages expect, and what was posted
\* against a question was agreed to: ConsoleTypeOK of the run console.
THEOREM ConsoleTypeCorrect == ConsoleSpec => []ConsoleTypeOK
<1>1. ConsoleInv => ConsoleTypeOK
  BY ConsoleTyped
<1> QED BY <1>1, ConsoleInvariant, PTL

\* Where owums.path knows the installation, every script draws its own
\* statistic of the page's dates in its own place, in whatever order the
\* answers come, unless another tab has changed the session.
THEOREM GraphsLandWhereRouted == ConsoleSpec => [](Routed(site) => GraphsLand)
<1>1. ConsoleInv => (Routed(site) => GraphsLand)
  <2> SUFFICES ASSUME ConsoleInv, Routed(site)  PROVE GraphsLand
    OBVIOUS
  <2>1. WithGraphs => GraphsSound(doc)
    BY ConsolePages
  <2> QED BY <2>1 DEF GraphsLand, GraphsSound, Landed
<1> QED BY <1>1, ConsoleInvariant, PTL

\* Where page and server agree on the format, the server reads the dates as
\* they were picked, and they are in order, for every calendar of equal months.
THEOREM DatesReadAsPicked == ConsoleSpec => []DatesAsPicked
<1>1. ASSUME ConsoleInv  PROVE DatesAsPicked
  <2> DEFINE from == ServerRead(doc.locale, doc.text.from)
             to == ServerRead(doc.locale, doc.text.to)
             read == [s \in {"from", "to"} |-> ServerRead(doc.locale, doc.text[s])]
  <2> SUFFICES ASSUME On("chart"), doc.fresh, Agreed(doc.locale)
               PROVE  /\ read.from \in Date /\ read.to \in read.from..Today
                      /\ doc.picked.date # 0 => read[doc.picked.side] = doc.picked.date
    BY DEF DatesAsPicked, Agreed
  <2>1. GraphsSound(doc) /\ site \in Sites
    BY <1>1, ConsolePages DEF On, WithGraphs, ConsoleInv
  <2>2. DatesSound(doc)
    BY <2>1 DEF GraphsSound, On
  <2>3. doc.picked.side \in Side
    BY <2>1 DEF GraphsSound, GraphsDoc
  <2>4. Timed(doc.locale) = FALSE
    BY <2>1, OneFormat
  <2>5. /\ from \in Date /\ to \in Date /\ from <= to
        /\ doc.picked.date # 0 =>
             doc.picked.date = IF doc.picked.side = "from" THEN from ELSE to
    BY <2>2, <2>4 DEF DatesSound, ServerRead
  <2>6. read["from"] = from /\ read["to"] = to
    OBVIOUS
  <2> HIDE DEF from, to, read
  <2>7. to \in from..Today
    BY <2>5, DateAssumption DEF Date
  <2> QED BY <2>3, <2>5, <2>6, <2>7 DEF Side
<1> QED BY <1>1, ConsoleInvariant, PTL

\* When the effects have ended, a box and the notice are as they were clicked,
\* and a box has the list it does not ask for any more, however many clicks
\* wait and however the lists come.
THEOREM BoxesFit == ConsoleSpec => []BoxFits
<1>1. ASSUME ConsoleInv  PROVE BoxFits
  <2>1. ASSUME On("index"), NEW b \in DOMAIN doc.boxes, Idle(doc.boxes[b].el)
        PROVE  /\ doc.boxes[b].el.shown = ~doc.boxes[b].hidden
               /\ ~doc.boxes[b].remote /\ b \in Lists => doc.boxes[b].filled
    <3> DEFINE box == doc.boxes[b]
    <3>1. BoxSound(b, box)
      BY <1>1, <2>1, GraphsFields DEF GraphsSound, On, WithGraphs, GraphsDoc
    <3> HIDE DEF box
    <3>2. Idle(box.el)
      BY <2>1 DEF box
    <3>3. box.el.shown = ~box.hidden
      BY <3>1, <3>2 DEF BoxSound, Slides
    <3>4. DOMAIN box.el.queue = {}
      BY <3>2 DEF Idle
    <3>5. ~box.remote /\ b \in Lists => box.filled
      BY <3>1, <3>4 DEF BoxSound
    <3> QED BY <3>3, <3>5 DEF box
  <2>2. On("operators") /\ Idle(doc.notice) => doc.notice.shown = ~doc.closed
    BY <1>1, ConsolePages DEF OperatorsSound, Slides
  <2> QED BY <2>1, <2>2 DEF BoxFits
<1> QED BY <1>1, ConsoleInvariant, PTL

\* At rest the spinner turns while the answer to a click is awaited, and stands
\* when nothing is: the last effect asked for decides.
THEOREM SpinnerIsTrue == ConsoleSpec => []SpinnerTells
<1>1. ASSUME ConsoleInv  PROVE SpinnerTells
  <2> SUFFICES ASSUME On("users"), Idle(doc.spinner)
               PROVE  /\ (\E i \in Ask : doc.asks[i] = "clicked") => doc.spinner.shown
                      /\ (\A i \in Ask : doc.asks[i] = "none") /\ ~doc.vain => ~doc.spinner.shown
    BY DEF SpinnerTells
  <2>1. /\ Fades(doc.spinner)
        /\ (\E i \in Ask : doc.asks[i] = "clicked") => Fate(doc.spinner)
        /\ (\A i \in Ask : doc.asks[i] = "none") /\ ~doc.vain => ~Fate(doc.spinner)
    BY <1>1, UsersFields
  <2>2. ~(Len(doc.spinner.queue) > 1)
    <3>1. doc.spinner.queue = <<>> /\ Len(<<>>) = 0
      BY DEF Idle
    <3> QED BY <3>1
  <2>3. Fate(doc.spinner) = (doc.spinner.shown /\ ~doc.spinner.closing)
    BY <2>2 DEF Fate
  <2>4. doc.spinner.closing = FALSE /\ doc.spinner.shown \in BOOLEAN
    BY <2>1 DEF Fades, ElementOf
  <2> QED BY <2>1, <2>3, <2>4
<1> QED BY <1>1, ConsoleInvariant, PTL

\* When no update runs, the roles that all the updates that overlapped wanted
\* are held, and those that none wanted are not, for any number of updates.
THEOREM RolesChosen == ConsoleSpec => []RolesAsChosen
<1>1. ASSUME ConsoleInv  PROVE RolesAsChosen
  <2>1. On("operator") /\ doc.group # {} => GroupSound(doc.held, doc.group)
    BY <1>1, ConsolePages DEF OperatorSound
  <2> QED BY <2>1 DEF RolesAsChosen, GroupSound
<1> QED BY <1>1, ConsoleInvariant, PTL
=============================================================================
