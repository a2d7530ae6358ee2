--------------------------- MODULE PasswordRecovery ---------------------------
(***************************************************************************)
(* The recovery of the password of one account, by telephone               *)
(* (MobilePhonePasswordResetsController) or by e-mail                      *)
(* (EmailPasswordResetsController).  By telephone the user asks, rings a   *)
(* verification number, and a page that asks every two seconds learns from *)
(* `recovered` that the daemon has seen the call; by e-mail she gets a     *)
(* link.  Both ways lead to a form that is reached with the perishable     *)
(* token of the account, which Authlogic renews in every save.             *)
(*                                                                         *)
(* Tokens are numbers, each new one larger than those before.  A token is  *)
(* good for ten minutes: a browser whose link is too old does Leave.  What *)
(* the callback does to `verified` is in UserLifecycle.                    *)
(***************************************************************************)
EXTENDS Naturals

CONSTANTS
  Client,        \* browsers (windows of a browser) in which a recovery goes on
  Caller,        \* callbacks of the SIP daemon that run at once
  MaxToken       \* bound: tokens

ASSUME BoundAssumption == MaxToken \in Nat \ {0}

VARIABLES
  row,           \* the account: its tokens, and recovered (NULL is "never")
  next,          \* the next token
  client,        \* client[p]: where p is, the token it holds, recovered as it was loaded
  calling,       \* the callbacks that have loaded the account and not saved it
  called,        \* history: clients since whose question a callback was saved
  spent, twice,  \* history: tokens that changed a password, or changed one again
  raced          \* history: tokens two requests had loaded when one of them saved

vars == <<row, next, client, calling, called, spent, twice, raced>>

NoToken == 0
Token == 1..MaxToken

Idle == [at |-> "idle", by |-> "mail", token |-> NoToken, copy |-> "never"]

Init ==
  /\ row = [token |-> 1, single |-> 1, recovered |-> "never"]
  /\ next = 2
  /\ client = [p \in Client |-> Idle]
  /\ calling = {} /\ called = {}
  /\ spent = {} /\ twice = {} /\ raced = {}

history == <<called, spent, twice, raced>>

Goto(p, at) == client' = [client EXCEPT ![p].at = at]

\* Every save takes a new token.
Fresh == next <= MaxToken /\ next' = next + 1

-----------------------------------------------------------------------------
(* By telephone.                                                           *)

\* find_by_mobile_suffix.
AskLoad(p) ==
  /\ client[p].at = "idle"
  /\ client' = [client EXCEPT ![p] = [Idle EXCEPT !.at = "ask", !.by = "phone",
                                                  !.copy = row.recovered]]
  /\ called' = called \ {p}
  /\ UNCHANGED <<row, next, calling, spent, twice, raced>>

Wait(p, token) == client' = [client EXCEPT ![p].at = "wait", ![p].token = token]

\* Mutant: recovered is not reset.
AskKeepingRecovered(p) ==
  /\ client[p].at = "ask"
  /\ Fresh
  /\ row' = [row EXCEPT !.token = next, !.single = next]
  /\ Wait(p, next)
  /\ UNCHANGED <<calling, history>>

\* Mutant: the perishable token is not reset.
AskKeepingToken(p) ==
  /\ client[p].at = "ask"
  /\ Fresh
  /\ row' = [row EXCEPT !.single = next, !.recovered = IF client[p].copy = "no" THEN @ ELSE "no"]
  /\ Wait(p, next)
  /\ UNCHANGED <<calling, history>>

\* ask_for_mobile_phone_password_recovery!: recovered is only written if it
\* was not false when the account was loaded.
Ask(p) ==
  /\ client[p].at = "ask"
  /\ Fresh
  /\ row' = [row EXCEPT !.token = next, !.single = next,
                        !.recovered = IF client[p].copy = "no" THEN @ ELSE "no"]
  /\ Wait(p, next)
  /\ UNCHANGED <<calling, history>>

\* The page asks again; once recovered is true it is sent to the form.  If
\* another question has replaced its token, the answer leads to the start
\* page, which is put where the page waited ("stray"); it goes on asking and is
\* answered the same.
Poll(p) ==
  /\ client[p].at = "wait"
  /\ \/ /\ client[p].token = row.single /\ row.recovered = "yes"
        /\ client' = [client EXCEPT ![p].at = "link", ![p].token = row.token]
     \/ /\ client[p].token # row.single
        /\ Goto(p, "stray")
  /\ UNCHANGED <<row, next, calling, history>>

\* Mutant: only the first recovery of an account counts.
CallFirst(c) ==
  /\ c \notin calling
  /\ row.recovered = "never"
  /\ calling' = calling \cup {c}
  /\ UNCHANGED <<row, next, client, history>>

\* The call is seen: "unless self.recovered?".
Call(c) ==
  /\ c \notin calling
  /\ row.recovered # "yes"
  /\ calling' = calling \cup {c}
  /\ UNCHANGED <<row, next, client, history>>

\* mobile_phone_password_recover!
Recover(c) ==
  /\ c \in calling
  /\ Fresh
  /\ row' = [row EXCEPT !.token = next, !.recovered = "yes"]
  /\ calling' = calling \ {c}
  /\ called' = Client
  /\ UNCHANGED <<client, spent, twice, raced>>

\* save! raises, or the daemon stops.
CallLost(c) ==
  /\ c \in calling
  /\ calling' = calling \ {c}
  /\ UNCHANGED <<row, next, client, history>>

-----------------------------------------------------------------------------
(* By e-mail.                                                              *)

\* password_reset_instructions!: the mail holds the token just saved.  If it
\* cannot be sent, the token is saved all the same.
Mail(p) ==
  /\ client[p].at = "idle"
  /\ Fresh
  /\ row' = [row EXCEPT !.token = next]
  /\ \/ client' = [client EXCEPT ![p] = [Idle EXCEPT !.at = "link", !.token = next]]
     \/ UNCHANGED client
  /\ UNCHANGED <<calling, history>>

-----------------------------------------------------------------------------
(* The form.                                                               *)

Good(p) == client[p].token = row.token

Edit(p) ==
  /\ client[p].at = "link"
  /\ Good(p)
  /\ client[p].by = "phone" => row.recovered = "yes"
  /\ Goto(p, "form")
  /\ UNCHANGED <<row, next, calling, history>>

\* find_using_perishable_token; recovered is not looked at again.
UpdateLoad(p) ==
  /\ client[p].at = "form"
  /\ Good(p)
  /\ Goto(p, "save")
  /\ UNCHANGED <<row, next, calling, history>>

\* The same token in the hands of another update, and the count of changes.
Change(p) ==
  LET t == client[p].token IN
  /\ spent' = spent \cup {t}
  /\ twice' = IF t \in spent THEN twice \cup {t} ELSE twice
  /\ raced' = IF \E q \in Client \ {p} : client[q].at = "save" /\ client[q].token = t
              THEN raced \cup {t} ELSE raced

\* Mutant: the token is not reset.
UpdateKeepingToken(p) ==
  /\ client[p].at = "save"
  /\ Fresh
  /\ Change(p) /\ Goto(p, "link")
  /\ UNCHANGED <<row, calling, called>>

\* save_without_session_maintenance, by telephone with a new single access
\* token too.  The link is still in the mail, or in the browser.
Update(p) ==
  /\ client[p].at = "save"
  /\ Fresh
  /\ row' = [row EXCEPT !.token = next, !.single = IF client[p].by = "phone" THEN next ELSE @]
  /\ Change(p) /\ Goto(p, "link")
  /\ UNCHANGED <<calling, called>>

\* The password is not valid, and the form is shown again.
UpdateInvalid(p) ==
  /\ client[p].at = "save"
  /\ Goto(p, "form")
  /\ UNCHANGED <<row, next, calling, history>>

-----------------------------------------------------------------------------
\* The link is opened in a second window.
Reopen(p, q) ==
  /\ client[p].at = "idle"
  /\ client[q].at \in {"link", "form", "save"}
  /\ client' = [client EXCEPT ![p] = [client[q] EXCEPT !.at = "link"]]
  /\ called' = IF q \in called THEN called \cup {p} ELSE called \ {p}
  /\ UNCHANGED <<row, next, calling, spent, twice, raced>>

\* The user gives up; a request raises; a link that is too old, or does not
\* hold the token of the account, is refused.
Leave(p) ==
  /\ client[p].at # "idle"
  /\ client' = [client EXCEPT ![p] = Idle]
  /\ UNCHANGED <<row, next, calling, history>>

\* Any other save of the account: a login, a page shown to a user who is
\* logged in, an operator, the verification of the user, the house keeper.
OtherSave ==
  /\ Fresh
  /\ row' = [row EXCEPT !.token = next]
  /\ UNCHANGED <<client, calling, history>>

Browse(p) ==
  \/ AskLoad(p) \/ Ask(p) \/ Poll(p) \/ Mail(p)
  \/ Edit(p) \/ UpdateLoad(p) \/ Update(p) \/ UpdateInvalid(p)
  \/ \E q \in Client : Reopen(p, q)
  \/ Leave(p)

Next ==
  \/ \E p \in Client : Browse(p)
  \/ \E c \in Caller : Call(c) \/ Recover(c) \/ CallLost(c)
  \/ OtherSave

Spec == Init /\ [][Next]_vars

\* The page asks every two seconds (owums.periodicallyCheckVerification); a
\* user who is told to ring rings, and rings again if nothing happens, and
\* not every callback fails.
FairSpec ==
  /\ Spec
  /\ \A p \in Client : WF_vars(Poll(p))
  /\ \A c \in Caller : SF_vars(Call(c)) /\ SF_vars(Recover(c))

-----------------------------------------------------------------------------
(* Correctness.                                                            *)

\* Type correctness; whoever waits, or holds a link, holds a token that was
\* given out.
TypeOK ==
  /\ next \in 2..MaxToken + 1
  /\ row \in [token : 1..next - 1, single : 1..next - 1, recovered : {"never", "no", "yes"}]
  /\ client \in [Client -> [at : {"idle", "ask", "wait", "stray", "link", "form", "save"},
                            by : {"mail", "phone"}, token : 0..next - 1,
                            copy : {"never", "no", "yes"}]]
  /\ calling \subseteq Caller /\ called \subseteq Client
  /\ spent \subseteq Token /\ twice \subseteq spent /\ raced \subseteq spent
  /\ \A p \in Client : client[p].at \in {"wait", "link", "form", "save"} => client[p].token \in Token

\* A token changes one password, whoever else saves the account meanwhile and
\* from however old a copy, unless two forms were sent at once.
TokenOnce == twice \subseteq raced

\* A user who recovers her password by telephone comes to the form only after
\* the daemon saved a call that ended after she asked: a call that made an
\* earlier recovery does not count, although a question that was loaded
\* before a callback saves does not write recovered.
CalledSinceAsked ==
  \A p \in Client :
    client[p].by = "phone" /\ client[p].at \in {"link", "form", "save"} => p \in called

\* edit looks at recovered and update does not: it need not, because the token
\* of a link from the waiting page is good only as long as recovered is true.
RecoveredWhileGood ==
  \A p \in Client :
    client[p].by = "phone" /\ client[p].at \in {"link", "form"} /\ Good(p) => row.recovered = "yes"

AtBound == next > MaxToken

\* Nobody waits for ever: the page is sent to the form, or shows the start page
\* after a later question, however the questions, calls and callbacks overlap.
WaitingEnds == \A p \in Client : client[p].at = "wait" ~> client[p].at # "wait" \/ AtBound
=============================================================================
