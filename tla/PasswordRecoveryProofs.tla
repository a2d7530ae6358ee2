------------------------ MODULE PasswordRecoveryProofs ------------------------
(***************************************************************************)
(* What holds of the recovery of a password for any number of windows,     *)
(* callbacks and tokens.  All three arguments rest on one fact: a save     *)
(* gives the account a token nobody holds yet.  So a token that was spent  *)
(* is not the account's (Dead), a second update that still holds it had    *)
(* loaded it before (Late), and a question that no callback has answered   *)
(* has not seen recovered become true (Unanswered).                        *)
(***************************************************************************)
EXTENDS PasswordRecovery, TLAPS

Dead == \A t \in spent : t < next /\ t # row.token

Late ==
  \A p \in Client :
    client[p].at = "save" /\ client[p].token \in spent => client[p].token \in raced

Unanswered ==
  \A p \in Client \ called :
    client[p].by = "phone" =>
      /\ client[p].at = "wait" => row.recovered # "yes"
      /\ client[p].at = "ask" /\ row.recovered = "yes" => client[p].copy = "yes"

\* RecoveredWhileGood, for a form that has been sent as well.
GoodMeansRecovered ==
  \A p \in Client :
    client[p].by = "phone" /\ client[p].at \in {"link", "form", "save"} /\ Good(p)
      => row.recovered = "yes"

IInv ==
  /\ TypeOK /\ Dead /\ Late /\ TokenOnce
  /\ Unanswered /\ CalledSinceAsked /\ GoodMeansRecovered

-----------------------------------------------------------------------------
(* Types.                                                                  *)

Row(n) == [token : 1..n - 1, single : 1..n - 1, recovered : {"never", "no", "yes"}]

At == {"idle", "ask", "wait", "stray", "link", "form", "save"}

Window(n) ==
  [at : At, by : {"mail", "phone"}, token : 0..n - 1, copy : {"never", "no", "yes"}]

LEMMA IdleType ==
  /\ Idle.at = "idle" /\ Idle.by = "mail" /\ Idle.token = 0
  /\ \A n \in Nat \ {0} : Idle \in Window(n)
  BY DEF Idle, Window, At, NoToken

LEMMA Typed ==
  ASSUME TypeOK
  PROVE  /\ next \in Nat \ {0, 1} /\ next <= MaxToken + 1 /\ row \in Row(next)
         /\ client \in [Client -> Window(next)]
         /\ \A p \in Client : client[p] \in Window(next)
  BY BoundAssumption DEF TypeOK, Row, Window, At

\* What was well typed remains so when tokens are given out.
LEMMA Wider ==
  ASSUME TypeOK, NEW n \in Nat, next <= n
  PROVE  /\ row \in Row(n)
         /\ client \in [Client -> Window(n)]
         /\ \A p \in Client : client[p] \in Window(n)
<1>1. next \in Nat /\ row \in Row(next) /\ client \in [Client -> Window(next)]
  BY Typed
<1>2. 1..next - 1 \subseteq 1..n - 1 /\ 0..next - 1 \subseteq 0..n - 1
  BY <1>1
<1>3. Row(next) \subseteq Row(n) /\ Window(next) \subseteq Window(n)
  BY <1>2 DEF Row, Window
<1> QED
  BY <1>1, <1>3

\* A save: the account gets a token that nobody holds.
LEMMA FreshFact ==
  ASSUME TypeOK, Fresh
  PROVE  /\ next \in Token /\ next' \in 2..MaxToken + 1 /\ next' = next + 1
         /\ next \in 1..next' - 1
         /\ \A p \in Client : client[p].token < next
         /\ row.token < next
<1>1. next \in Nat \ {0, 1} /\ row \in Row(next) /\ \A p \in Client : client[p] \in Window(next)
  BY Typed
<1>2. next <= MaxToken /\ next' = next + 1
  BY DEF Fresh
<1>3. \A p \in Client : client[p].token \in 0..next - 1
  BY <1>1 DEF Window
<1>4. row.token \in 1..next - 1
  BY <1>1 DEF Row
<1> QED
  BY <1>1, <1>2, <1>3, <1>4, BoundAssumption DEF Token

LEMMA GotoFact ==
  ASSUME TypeOK, NEW p \in Client, NEW at, Goto(p, at)
  PROVE  /\ \A q \in Client \ {p} : client'[q] = client[q]
         /\ client'[p].at = at /\ client'[p].by = client[p].by
         /\ client'[p].token = client[p].token /\ client'[p].copy = client[p].copy
<1>1. client \in [Client -> Window(next)]
  BY Typed
<1>2. client[p] \in Window(next)
  BY <1>1
<1> QED
  BY <1>1, <1>2 DEF Goto, Window

LEMMA WaitFact ==
  ASSUME TypeOK, NEW p \in Client, NEW t, Wait(p, t)
  PROVE  /\ \A q \in Client \ {p} : client'[q] = client[q]
         /\ client'[p].at = "wait" /\ client'[p].by = client[p].by
         /\ client'[p].token = t /\ client'[p].copy = client[p].copy
<1>1. client \in [Client -> Window(next)]
  BY Typed
<1>2. client[p] \in Window(next)
  BY <1>1
<1> QED
  BY <1>1, <1>2 DEF Wait, Window

\* Either a step leaves the account alone, or it saves it with a new token.
LEMMA Saves ==
  ASSUME TypeOK, [Next]_vars
  PROVE  \/ UNCHANGED <<row, next>>
         \/ Fresh /\ row' \in Row(next') /\ row'.token = next
<1>1. row \in Row(next + 1) /\ next \in Nat
  BY Typed, Wider
<1>2. ASSUME Fresh PROVE next \in 1..next' - 1 /\ next' = next + 1
  BY <1>2, FreshFact
<1>3. ASSUME NEW p \in Client, Ask(p)
      PROVE  Fresh /\ row' \in Row(next') /\ row'.token = next
  <2>1. Fresh /\ row' = [row EXCEPT !.token = next, !.single = next,
                                   !.recovered = IF client[p].copy = "no" THEN @ ELSE "no"]
    BY <1>3 DEF Ask
  <2> QED
    BY <1>1, <1>2, <2>1 DEF Row
<1>4. ASSUME NEW p \in Client, Update(p)
      PROVE  Fresh /\ row' \in Row(next') /\ row'.token = next
  <2>1. Fresh /\ row' = [row EXCEPT !.token = next,
                                   !.single = IF client[p].by = "phone" THEN next ELSE @]
    BY <1>4 DEF Update
  <2> QED
    BY <1>1, <1>2, <2>1 DEF Row
<1>5. ASSUME NEW c \in Caller, Recover(c)
      PROVE  Fresh /\ row' \in Row(next') /\ row'.token = next
  <2>1. Fresh /\ row' = [row EXCEPT !.token = next, !.recovered = "yes"]
    BY <1>5 DEF Recover
  <2> QED
    BY <1>1, <1>2, <2>1 DEF Row
<1>6. ASSUME Fresh, row' = [row EXCEPT !.token = next]
      PROVE  Fresh /\ row' \in Row(next') /\ row'.token = next
  BY <1>1, <1>2, <1>6 DEF Row
<1>7. ASSUME NEW p \in Client, Browse(p)
      PROVE  \/ UNCHANGED <<row, next>>
             \/ Fresh /\ row' \in Row(next') /\ row'.token = next
  <2>1. CASE Mail(p)
    BY <1>6, <2>1 DEF Mail
  <2> QED
    BY <1>3, <1>4, <1>7, <2>1 DEF Browse, AskLoad, Poll, Edit, UpdateLoad, UpdateInvalid, Reopen, Leave
<1>8. ASSUME NEW c \in Caller, Call(c) \/ CallLost(c)
      PROVE  UNCHANGED <<row, next>>
  BY <1>8 DEF Call, CallLost
<1>9. CASE OtherSave
  BY <1>6, <1>9 DEF OtherSave
<1>10. CASE UNCHANGED vars
  BY <1>10 DEF vars
<1> QED
  BY <1>5, <1>7, <1>8, <1>9, <1>10 DEF Next

\* Which steps write the histories.
LEMMA Histories ==
  ASSUME [Next]_vars
  PROVE  /\ UNCHANGED <<spent, twice, raced>> \/ \E p \in Client : Update(p)
         /\ \/ UNCHANGED called
            \/ \E p \in Client : AskLoad(p) \/ \E q \in Client : Reopen(p, q)
            \/ \E c \in Caller : Recover(c)
<1>1. ASSUME NEW p \in Client, Browse(p)
      PROVE  /\ UNCHANGED <<spent, twice, raced>> \/ Update(p)
             /\ UNCHANGED called \/ AskLoad(p) \/ \E q \in Client : Reopen(p, q)
  BY <1>1 DEF Browse, AskLoad, Ask, Poll, Mail, Edit, UpdateLoad, Update, UpdateInvalid, Reopen,
              Leave, history
<1>2. ASSUME NEW c \in Caller, Call(c) \/ Recover(c) \/ CallLost(c)
      PROVE  /\ UNCHANGED <<spent, twice, raced>>
             /\ UNCHANGED called \/ Recover(c)
  BY <1>2 DEF Call, Recover, CallLost, history
<1>3. CASE OtherSave \/ UNCHANGED vars
  BY <1>3 DEF OtherSave, vars, history
<1> QED
  BY <1>1, <1>2, <1>3 DEF Next

\* What a window looks like after a step of its user, and that the others
\* stay as they are.
LEMMA Windows ==
  ASSUME TypeOK, NEW p \in Client, Browse(p)
  PROVE  /\ \A q \in Client \ {p} : client'[q] = client[q]
         /\ client' \in [Client -> Window(next')]
         /\ client'[p].at \in {"wait", "link", "form", "save"} => client'[p].token \in Token
<1> DEFINE New == next'
<1>1. /\ next \in Nat \ {0, 1} /\ next <= New /\ New \in Nat
  BY Typed, FreshFact, Saves DEF Next, Fresh
<1>2. /\ client \in [Client -> Window(New)] /\ row \in Row(New)
      /\ \A q \in Client : client[q] \in Window(New)
  BY <1>1, Wider
<1>3. /\ Idle \in Window(New) /\ Idle.at = "idle"
  BY <1>1, IdleType
<1>4. \A q \in Client : client[q].at \in {"wait", "link", "form", "save"} => client[q].token \in Token
  BY DEF TypeOK
<1>5. row.token \in Token /\ row.recovered \in {"never", "no", "yes"}
  <2>1. row \in Row(next) /\ next \in Nat /\ next <= MaxToken + 1
    BY Typed
  <2>2. row.token \in 1..next - 1 /\ row.recovered \in {"never", "no", "yes"}
    BY <2>1 DEF Row
  <2> QED
    BY <2>1, <2>2, BoundAssumption DEF Token
<1> HIDE DEF New
<1>6. ASSUME NEW w \in Window(New), client' = [client EXCEPT ![p] = w],
             w.at \in {"wait", "link", "form", "save"} => w.token \in Token
      PROVE  /\ \A q \in Client \ {p} : client'[q] = client[q]
             /\ client' \in [Client -> Window(New)]
             /\ client'[p].at \in {"wait", "link", "form", "save"} => client'[p].token \in Token
  BY <1>2, <1>6
<1>7. ASSUME NEW at \in {"form", "save", "link"}, Goto(p, at), client[p].at \in {"link", "form", "save"}
      PROVE  /\ \A q \in Client \ {p} : client'[q] = client[q]
             /\ client' \in [Client -> Window(New)]
             /\ client'[p].at \in {"wait", "link", "form", "save"} => client'[p].token \in Token
  <2>1. [client[p] EXCEPT !.at = at] \in Window(New) /\ [client[p] EXCEPT !.at = at].token = client[p].token
    BY <1>2, <1>7 DEF Window, At
  <2> QED
    BY <1>4, <1>6, <1>7, <2>1 DEF Goto
<1>8. CASE AskLoad(p)
  <2>1. [Idle EXCEPT !.at = "ask", !.by = "phone", !.copy = row.recovered] \in Window(New)
    BY <1>3, <1>5 DEF Window, At
  <2>2. [Idle EXCEPT !.at = "ask", !.by = "phone", !.copy = row.recovered].at = "ask"
    BY DEF Idle
  <2> QED
    BY <1>6, <1>8, <2>1, <2>2 DEF AskLoad, New
<1>9. CASE Ask(p)
  <2>1. next \in Token /\ next \in 0..New - 1
    BY <1>1, <1>9, FreshFact DEF Ask, New
  <2> DEFINE w == [client[p] EXCEPT !.at = "wait", !.token = next]
  <2>2. w \in Window(New) /\ w.token = next
    BY <1>2, <2>1 DEF Window, At
  <2>3. client' = [client EXCEPT ![p] = w]
    BY <1>2, <1>9 DEF Ask, Wait
  <2> HIDE DEF w
  <2> QED
    BY <1>6, <2>1, <2>2, <2>3 DEF New
<1>10. CASE Poll(p)
  <2>1. CASE Goto(p, "stray")
    <3>1. [client[p] EXCEPT !.at = "stray"] \in Window(New)
      BY <1>2 DEF Window, At
    <3>2. [client[p] EXCEPT !.at = "stray"].at = "stray"
      BY <1>2 DEF Window
    <3> QED
      BY <1>6, <2>1, <3>1, <3>2 DEF Goto, New
  <2>2. CASE client' = [client EXCEPT ![p].at = "link", ![p].token = row.token]
    <3> DEFINE w == [client[p] EXCEPT !.at = "link", !.token = row.token]
    <3>3. row.token \in 0..New - 1
      BY <1>1, <1>2 DEF Row
    <3>1. w \in Window(New) /\ w.token = row.token
      BY <1>2, <3>3 DEF Window, At
    <3>2. client' = [client EXCEPT ![p] = w]
      BY <1>2, <2>2
    <3> HIDE DEF w
    <3> QED
      BY <1>5, <1>6, <3>1, <3>2 DEF New
  <2> QED
    BY <1>10, <2>1, <2>2 DEF Poll
<1>11. CASE Mail(p)
  <2>1. next \in Token /\ next \in 0..New - 1
    BY <1>1, <1>11, FreshFact DEF Mail, New
  <2> DEFINE w == [Idle EXCEPT !.at = "link", !.token = next]
  <2>2. w \in Window(New) /\ w.token = next
    BY <1>3, <2>1 DEF Window, At
  <2>3. UNCHANGED client \/ client' = [client EXCEPT ![p] = w]
    BY <1>11 DEF Mail
  <2> HIDE DEF w
  <2> QED
    BY <1>2, <1>4, <1>6, <2>1, <2>2, <2>3 DEF New
<1>12. CASE Edit(p) \/ UpdateLoad(p) \/ Update(p) \/ UpdateInvalid(p)
  BY <1>7, <1>12 DEF Edit, UpdateLoad, Update, UpdateInvalid, New
<1>13. ASSUME NEW q \in Client, Reopen(p, q)
       PROVE  /\ \A r \in Client \ {p} : client'[r] = client[r]
              /\ client' \in [Client -> Window(New)]
              /\ client'[p].at \in {"wait", "link", "form", "save"} => client'[p].token \in Token
  <2> DEFINE w == [client[q] EXCEPT !.at = "link"]
  <2>1. w \in Window(New) /\ w.token = client[q].token
    BY <1>2 DEF Window, At
  <2>2. client' = [client EXCEPT ![p] = w] /\ client[q].at \in {"link", "form", "save"}
    BY <1>13 DEF Reopen
  <2> HIDE DEF w
  <2> QED
    BY <1>4, <1>6, <2>1, <2>2
<1>14. CASE Leave(p)
  BY <1>3, <1>6, <1>14 DEF Leave, New
<1> QED
  BY <1>8, <1>9, <1>10, <1>11, <1>12, <1>13, <1>14 DEF Browse, New

LEMMA TypeStep ==
  ASSUME TypeOK, [Next]_vars
  PROVE  TypeOK'
<1>1. next' \in 2..MaxToken + 1 /\ row' \in Row(next') /\ next \in Nat /\ next <= next'
  BY Typed, Saves, FreshFact DEF TypeOK, Row
<1>2. /\ client' \in [Client -> Window(next')]
      /\ \A p \in Client :
           client'[p].at \in {"wait", "link", "form", "save"} => client'[p].token \in Token
  <2>1. ASSUME NEW p \in Client, Browse(p)
        PROVE  /\ client' \in [Client -> Window(next')]
               /\ \A q \in Client :
                    client'[q].at \in {"wait", "link", "form", "save"} => client'[q].token \in Token
    BY <2>1, Windows DEF TypeOK
  <2>2. CASE UNCHANGED client
    BY <1>1, <2>2, Wider DEF TypeOK
  <2>3. ASSUME NEW c \in Caller, Call(c) \/ Recover(c) \/ CallLost(c)
        PROVE  UNCHANGED client
    BY <2>3 DEF Call, Recover, CallLost
  <2> QED
    BY <2>1, <2>2, <2>3 DEF Next, OtherSave, vars
<1>3. calling' \subseteq Caller
  <2>1. ASSUME NEW p \in Client, Browse(p) PROVE UNCHANGED calling
    BY <2>1 DEF Browse, AskLoad, Ask, Poll, Mail, Edit, UpdateLoad, Update, UpdateInvalid, Reopen, Leave
  <2>2. ASSUME NEW c \in Caller, Call(c) \/ Recover(c) \/ CallLost(c) PROVE calling' \subseteq Caller
    BY <2>2 DEF Call, Recover, CallLost, TypeOK
  <2>3. CASE OtherSave \/ UNCHANGED vars
    BY <2>3 DEF OtherSave, vars, TypeOK
  <2> QED
    BY <2>1, <2>2, <2>3 DEF Next, TypeOK
<1>4. called' \subseteq Client
  <2>1. ASSUME NEW p \in Client, NEW q \in Client, AskLoad(p) \/ Reopen(p, q)
        PROVE  called' \subseteq Client
    BY <2>1 DEF AskLoad, Reopen, TypeOK
  <2>2. ASSUME NEW c \in Caller, Recover(c) PROVE called' \subseteq Client
    BY <2>2 DEF Recover
  <2> QED
    BY <2>1, <2>2, Histories DEF TypeOK
<1>5. spent' \subseteq Token /\ twice' \subseteq spent' /\ raced' \subseteq spent'
  <2>1. ASSUME NEW p \in Client, Update(p)
        PROVE  spent' \subseteq Token /\ twice' \subseteq spent' /\ raced' \subseteq spent'
    <3>1. client[p].token \in Token
      BY <2>1 DEF Update, TypeOK
    <3> QED
      BY <2>1, <3>1 DEF Update, Change, TypeOK
  <2> QED
    BY <2>1, Histories DEF TypeOK
<1> QED
  BY <1>1, <1>2, <1>3, <1>4, <1>5 DEF TypeOK, Row, Window, At

-----------------------------------------------------------------------------
(* Tokens.                                                                 *)

LEMMA DeadStep ==
  ASSUME TypeOK, Dead, [Next]_vars
  PROVE  Dead'
<1>1. next \in Nat
  BY Typed
<1>2. ASSUME NEW p \in Client, Update(p)
      PROVE  Dead'
  <2>1. Fresh /\ row'.token = next
    BY <1>2, Typed DEF Update, Row
  <2>2. client[p].token < next /\ next' = next + 1
    BY <2>1, FreshFact
  <2>3. spent' = spent \cup {client[p].token} /\ client[p].token \in Token
    BY <1>2 DEF Update, Change, TypeOK
  <2>4. \A t \in spent : t \in Nat
    BY DEF TypeOK, Token
  <2> QED
    BY <1>1, <2>1, <2>2, <2>3, <2>4 DEF Dead, Token
<1>3. ASSUME UNCHANGED spent, UNCHANGED <<row, next>> \/ (Fresh /\ row'.token = next)
      PROVE  Dead'
  <2>1. \A t \in spent : t \in Nat
    BY DEF TypeOK, Token
  <2> QED
    BY <1>1, <1>3, <2>1 DEF Dead, Fresh
<1> QED
  BY <1>2, <1>3, Saves, Histories

\* Which steps of a user lead to the sending of a form.
LEMMA Senders ==
  ASSUME TypeOK, [Next]_vars, NEW p \in Client, client'[p].at = "save"
  PROVE  \/ client'[p] = client[p]
         \/ UpdateLoad(p)
<1>1. ASSUME NEW q \in Client, Browse(q), q # p
      PROVE  client'[p] = client[p]
  BY <1>1, Windows
<1>2. CASE Browse(p)
  <2>1. ASSUME NEW at, Goto(p, at) PROVE client'[p].at = at
    BY <2>1, GotoFact
  <2>2. ~Edit(p) /\ ~Update(p) /\ ~UpdateInvalid(p)
    BY <2>1 DEF Edit, Update, UpdateInvalid
  <2>3. /\ client \in [Client -> Window(next)]
        /\ Idle.at = "idle" /\ Idle \in Window(1)
    BY Typed, IdleType
  <2>4. ~AskLoad(p) /\ ~Leave(p) /\ ~Ask(p)
    BY <2>3, WaitFact DEF AskLoad, Leave, Ask, Idle
  <2>5. Poll(p) => FALSE
    BY <2>3 DEF Poll, Goto, Window
  <2>6. Mail(p) => client'[p] = client[p]
    BY <2>3 DEF Mail, Idle
  <2>7. ASSUME NEW q \in Client, Reopen(p, q) PROVE FALSE
    <3>1. client[q] \in Window(next)
      BY <2>3
    <3> QED
      BY <2>3, <2>7, <3>1 DEF Reopen, Window
  <2> QED
    BY <1>2, <2>2, <2>4, <2>5, <2>6, <2>7 DEF Browse
<1>3. ASSUME NEW c \in Caller, Call(c) \/ Recover(c) \/ CallLost(c)
      PROVE  client'[p] = client[p]
  BY <1>3 DEF Call, Recover, CallLost
<1>4. CASE OtherSave \/ UNCHANGED vars
  BY <1>4 DEF OtherSave, vars
<1> QED
  BY <1>1, <1>2, <1>3, <1>4 DEF Next

LEMMA LateStep ==
  ASSUME TypeOK, Dead, Late, [Next]_vars
  PROVE  Late'
<1> SUFFICES ASSUME NEW p \in Client, client'[p].at = "save", client'[p].token \in spent'
             PROVE  client'[p].token \in raced'
  BY DEF Late
<1>1. CASE UpdateLoad(p)
  <2>1. client'[p].token = row.token
    BY <1>1, GotoFact DEF UpdateLoad, Good
  <2>2. UNCHANGED spent
    BY <1>1 DEF UpdateLoad, history
  <2> QED
    BY <2>1, <2>2 DEF Dead
<1>2. ASSUME client'[p] = client[p], NEW q \in Client, Update(q)
      PROVE  client'[p].token \in raced'
  <2>1. p # q
    BY <1>2, GotoFact DEF Update
  <2>2. raced \subseteq raced' /\ spent' = spent \cup {client[q].token}
    BY <1>2 DEF Update, Change
  <2>3. CASE client[p].token \in spent
    BY <1>2, <2>2, <2>3 DEF Late
  <2>4. CASE client[p].token = client[q].token
    BY <1>2, <2>1, <2>4 DEF Update, Change
  <2> QED
    BY <1>2, <2>2, <2>3, <2>4
<1>3. CASE client'[p] = client[p] /\ UNCHANGED <<spent, twice, raced>>
  BY <1>3 DEF Late
<1> QED
  BY <1>1, <1>2, <1>3, Senders, Histories

LEMMA OnceStep ==
  ASSUME TypeOK, Late, TokenOnce, [Next]_vars
  PROVE  TokenOnce'
<1>1. ASSUME NEW p \in Client, Update(p)
      PROVE  TokenOnce'
  BY <1>1 DEF Update, Change, Late, TokenOnce
<1>2. CASE UNCHANGED <<spent, twice, raced>>
  BY <1>2 DEF TokenOnce
<1> QED
  BY <1>1, <1>2, Histories

-----------------------------------------------------------------------------
(* Calls.                                                                  *)

\* What a step of its user makes of a window, of called and of the account.
LEMMA Moves ==
  ASSUME TypeOK, NEW p \in Client, Browse(p)
  PROVE  \/ client'[p].by = "mail" /\ row'.recovered = row.recovered /\ called' = called
         \/ /\ client'[p].at = "ask" /\ client'[p].copy = row.recovered
            /\ called' = called \ {p} /\ UNCHANGED <<row, next>>
         \/ Ask(p)
         \/ Poll(p) /\ client'[p].by = "phone"
         \/ /\ client'[p].at \in {"link", "form", "save"} /\ client[p].at \in {"link", "form", "save"}
            /\ client'[p].by = client[p].by /\ client'[p].token = client[p].token
            /\ row'.recovered = row.recovered /\ called' = called
         \/ \E q \in Client : Reopen(p, q)
         \/ client'[p] = client[p] /\ row'.recovered = row.recovered /\ called' = called
<1>1. /\ client \in [Client -> Window(next)] /\ client[p] \in Window(next) /\ row \in Row(next)
      /\ Idle.by = "mail" /\ Idle \in Window(1)
  BY Typed, IdleType
<1>2. CASE AskLoad(p)
  BY <1>1, <1>2 DEF AskLoad, Idle
<1>3. CASE Poll(p)
  BY <1>1, <1>3 DEF Poll, Goto, history, Window
<1>4. CASE Mail(p)
  BY <1>1, <1>4 DEF Mail, Idle, Row, history
<1>5. CASE Edit(p) \/ UpdateLoad(p) \/ UpdateInvalid(p)
  BY <1>5, GotoFact DEF Edit, UpdateLoad, UpdateInvalid, history
<1>6. CASE Update(p)
  <2>1. row'.recovered = row.recovered
    BY <1>1, <1>6 DEF Update, Row
  <2> QED
    BY <1>6, <2>1, GotoFact DEF Update
<1>7. CASE Leave(p)
  BY <1>1, <1>7 DEF Leave, history
<1> QED
  BY <1>2, <1>3, <1>4, <1>5, <1>6, <1>7 DEF Browse

\* Only a callback makes recovered true.
LEMMA OnlyCallbacks ==
  ASSUME TypeOK, [Next]_vars, row.recovered # "yes"
  PROVE  row'.recovered # "yes" \/ called' = Client
<1>1. row \in Row(next)
  BY Typed
<1>2. ASSUME NEW p \in Client, Browse(p) PROVE row'.recovered # "yes"
  <2>1. CASE Ask(p)
    BY <1>1, <2>1 DEF Ask, Row
  <2>2. CASE Poll(p)
    BY <2>2 DEF Poll
  <2>3. ASSUME NEW q \in Client, Reopen(p, q) PROVE row' = row
    BY <2>3 DEF Reopen
  <2> QED
    BY <1>2, <2>1, <2>2, <2>3, Moves
<1>3. ASSUME NEW c \in Caller, Call(c) \/ Recover(c) \/ CallLost(c)
      PROVE  row'.recovered # "yes" \/ called' = Client
  BY <1>3 DEF Call, Recover, CallLost
<1>4. CASE OtherSave \/ UNCHANGED vars
  BY <1>1, <1>4 DEF OtherSave, vars, Row
<1> QED
  BY <1>2, <1>3, <1>4 DEF Next

\* Whoever saves meanwhile, a window that has not been answered stays so.
LEMMA UnansweredStep ==
  ASSUME TypeOK, Unanswered, [Next]_vars
  PROVE  Unanswered'
<1> SUFFICES ASSUME NEW p \in Client, p \notin called', client'[p].by = "phone"
             PROVE  /\ client'[p].at = "wait" => row'.recovered # "yes"
                    /\ client'[p].at = "ask" /\ row'.recovered = "yes" => client'[p].copy = "yes"
  BY DEF Unanswered
<1>1. called' # Client
  OBVIOUS
<1>2. CASE client'[p] = client[p] /\ p \notin called
  BY <1>1, <1>2, OnlyCallbacks DEF Unanswered
<1>3. CASE Browse(p)
  <2>1. CASE Ask(p)
    <3>1. p \notin called /\ client[p].by = "phone" /\ client[p].at = "ask" /\ client'[p].at = "wait"
      BY <2>1, WaitFact DEF Ask, history
    <3>2. row \in Row(next)
      BY Typed
    <3>3. row.recovered = "yes" => client[p].copy = "yes"
      BY <3>1 DEF Unanswered
    <3>4. row'.recovered = IF client[p].copy = "no" THEN row.recovered ELSE "no"
      BY <2>1, <3>2 DEF Ask, Row
    <3> QED
      BY <3>1, <3>3, <3>4
  <2>2. CASE Poll(p)
    <3>1. client'[p].at \in {"link", "stray"}
      <4>1. client \in [Client -> Window(next)] /\ client[p] \in Window(next)
        BY Typed
      <4> QED
        BY <2>2, <4>1 DEF Poll, Goto, Window
    <3> QED
      BY <3>1
  <2>3. ASSUME NEW q \in Client, Reopen(p, q) PROVE client'[p].at = "link"
    <3>1. client \in [Client -> Window(next)] /\ client[q] \in Window(next)
      BY Typed
    <3> QED
      BY <2>3, <3>1 DEF Reopen, Window
  <2> QED
    BY <1>2, <1>3, <2>1, <2>2, <2>3, Moves
<1>4. ASSUME NEW q \in Client, Browse(q), q # p
      PROVE  client'[p] = client[p] /\ p \notin called
  <2>1. client'[p] = client[p]
    BY <1>4, Windows
  <2>2. called' = called \/ called' = called \ {q} \/ called' = called \cup {q}
    BY <1>4 DEF Browse, AskLoad, Ask, Poll, Mail, Edit, UpdateLoad, Update, UpdateInvalid, Reopen,
                Leave, history
  <2> QED
    BY <1>4, <2>1, <2>2
<1>5. ASSUME NEW c \in Caller, Call(c) \/ Recover(c) \/ CallLost(c)
      PROVE  client'[p] = client[p] /\ p \notin called
  BY <1>5 DEF Call, Recover, CallLost, history
<1>6. CASE OtherSave \/ UNCHANGED vars
  BY <1>2, <1>6 DEF OtherSave, vars, history
<1> QED
  BY <1>2, <1>3, <1>4, <1>5, <1>6 DEF Next

LEMMA CalledStep ==
  ASSUME TypeOK, Unanswered, CalledSinceAsked, [Next]_vars
  PROVE  CalledSinceAsked'
<1> SUFFICES ASSUME NEW p \in Client, client'[p].by = "phone",
                    client'[p].at \in {"link", "form", "save"}
             PROVE  p \in called'
  BY DEF CalledSinceAsked
<1>1. CASE client'[p] = client[p] /\ (p \in called => p \in called')
  BY <1>1 DEF CalledSinceAsked
<1>2. CASE Browse(p)
  <2>1. CASE Ask(p)
    BY <2>1, WaitFact DEF Ask
  <2>2. CASE Poll(p)
    <3>1. /\ client \in [Client -> Window(next)] /\ client[p] \in Window(next)
          /\ Idle.by = "mail" /\ Idle \in Window(1)
      BY Typed, IdleType
    <3>2. client[p].by = "phone" /\ client[p].at = "wait" /\ row.recovered = "yes"
      BY <2>2, <3>1 DEF Poll, Goto, Window
    <3> QED
      BY <2>2, <3>2 DEF Unanswered, Poll, history
  <2>3. ASSUME NEW q \in Client, Reopen(p, q) PROVE p \in called'
    <3>1. client \in [Client -> Window(next)] /\ client[q] \in Window(next)
      BY Typed
    <3>2. client[q].by = "phone" /\ client[q].at \in {"link", "form", "save"}
      BY <2>3, <3>1 DEF Reopen, Window
    <3> QED
      BY <2>3, <3>2 DEF Reopen, CalledSinceAsked
  <2> QED
    BY <1>1, <1>2, <2>1, <2>2, <2>3, Moves DEF CalledSinceAsked
<1>3. ASSUME NEW q \in Client, Browse(q), q # p
      PROVE  client'[p] = client[p] /\ (p \in called => p \in called')
  <2>1. client'[p] = client[p]
    BY <1>3, Windows
  <2>2. called' = called \/ called' = called \ {q} \/ called' = called \cup {q}
    BY <1>3 DEF Browse, AskLoad, Ask, Poll, Mail, Edit, UpdateLoad, Update, UpdateInvalid, Reopen,
                Leave, history
  <2> QED
    BY <1>3, <2>1, <2>2
<1>4. ASSUME NEW c \in Caller, Call(c) \/ Recover(c) \/ CallLost(c)
      PROVE  client'[p] = client[p] /\ (p \in called => p \in called')
  BY <1>4 DEF Call, Recover, CallLost, history, TypeOK
<1>5. CASE OtherSave \/ UNCHANGED vars
  BY <1>1, <1>5 DEF OtherSave, vars, history
<1> QED
  BY <1>1, <1>2, <1>3, <1>4, <1>5 DEF Next

\* A save makes every link bad; a link is made good only while recovered holds.
LEMMA GoodStep ==
  ASSUME TypeOK, GoodMeansRecovered, [Next]_vars
  PROVE  GoodMeansRecovered'
<1> SUFFICES ASSUME NEW p \in Client, client'[p].by = "phone",
                    client'[p].at \in {"link", "form", "save"}, client'[p].token = row'.token
             PROVE  row'.recovered = "yes"
  BY DEF GoodMeansRecovered, Good
<1>0. /\ client \in [Client -> Window(next)] /\ \A q \in Client : client[q] \in Window(next)
      /\ Idle.by = "mail" /\ Idle \in Window(1)
  BY Typed, IdleType
<1>1. ASSUME client'[p].token = client[p].token, Fresh, row'.token = next
      PROVE  FALSE
  <2>1. client[p].token < next /\ client[p].token = next
    BY <1>1, FreshFact
  <2>2. client[p].token \in Nat
    BY <1>0, Typed DEF Window
  <2> QED
    BY <2>1, <2>2
<1>2. CASE client'[p] = client[p]
  BY <1>1, <1>2, Saves DEF GoodMeansRecovered, Good
<1>3. CASE Browse(p)
  <2>1. CASE Ask(p)
    BY <2>1, WaitFact DEF Ask
  <2>2. CASE Poll(p)
    BY <1>0, <2>2 DEF Poll, Goto, Window
  <2>3. ASSUME NEW q \in Client, Reopen(p, q) PROVE row'.recovered = "yes"
    <3>1. /\ client[q].by = "phone" /\ client[q].at \in {"link", "form", "save"}
          /\ client'[p].token = client[q].token /\ row' = row
      BY <1>0, <2>3 DEF Reopen, Window
    <3> QED
      BY <3>1 DEF GoodMeansRecovered, Good
  <2>4. CASE /\ client[p].at \in {"link", "form", "save"}
             /\ client'[p].by = client[p].by /\ client'[p].token = client[p].token
    BY <1>1, <2>4, Saves DEF GoodMeansRecovered, Good
  <2> QED
    BY <1>2, <1>3, <2>1, <2>2, <2>3, <2>4, Moves
<1>4. ASSUME NEW q \in Client, Browse(q), q # p
      PROVE  client'[p] = client[p]
  BY <1>4, Windows
<1>5. ASSUME NEW c \in Caller, Call(c) \/ Recover(c) \/ CallLost(c)
      PROVE  client'[p] = client[p]
  BY <1>5 DEF Call, Recover, CallLost
<1>6. CASE OtherSave \/ UNCHANGED vars
  BY <1>2, <1>6 DEF OtherSave, vars
<1> QED
  BY <1>2, <1>3, <1>4, <1>5, <1>6 DEF Next

-----------------------------------------------------------------------------
LEMMA Inductive == Spec => []IInv
<1>1. Init => IInv
  <2> SUFFICES ASSUME Init
               PROVE  IInv
    OBVIOUS
  <2>1. \A p \in Client : client[p] = Idle
    BY DEF Init
  <2>2. TypeOK
    <3>1. /\ next = 2 /\ row \in Row(next) /\ next \in 2..MaxToken + 1
      BY BoundAssumption DEF Init, Row
    <3>2. client \in [Client -> Window(next)]
      BY <3>1, IdleType DEF Init
    <3> QED
      BY <2>1, <3>1, <3>2, IdleType DEF TypeOK, Init, Row, Window, At
  <2> QED
    BY <2>1, <2>2, IdleType DEF Init, IInv, Dead, Late, TokenOnce, Unanswered, CalledSinceAsked,
                                GoodMeansRecovered
<1>2. IInv /\ [Next]_vars => IInv'
  BY TypeStep, DeadStep, LateStep, OnceStep, UnansweredStep, CalledStep, GoodStep DEF IInv
<1> QED
  BY <1>1, <1>2, PTL DEF Spec

\* The account, the windows and the tokens of a recovery are well typed, and
\* whoever waits or holds a link holds a token that was given out.
THEOREM TypeCorrect == Spec => []TypeOK
<1>1. IInv => TypeOK
  BY DEF IInv
<1> QED
  BY <1>1, Inductive, PTL

\* A perishable token changes one password, unless two requests to
\* update had both loaded the account with it.
THEOREM TokensUsedOnce == Spec => []TokenOnce
<1>1. IInv => TokenOnce
  BY DEF IInv
<1> QED
  BY <1>1, Inductive, PTL

\* The form of a recovery by telephone is reached only after a callback saved
\* the account since the question, whichever of the two was loaded first.
THEOREM CallsAnswer == Spec => []CalledSinceAsked
<1>1. IInv => CalledSinceAsked
  BY DEF IInv
<1> QED
  BY <1>1, Inductive, PTL

\* A link of a recovery by telephone that is still good belongs to an account
\* whose recovered is true: update, which does not look, need not.
THEOREM GoodLinksRecovered == Spec => []RecoveredWhileGood
<1>1. IInv => RecoveredWhileGood
  BY DEF IInv, GoodMeansRecovered, RecoveredWhileGood
<1> QED
  BY <1>1, Inductive, PTL
=============================================================================
