------------------------------- MODULE Forms -------------------------------
(***************************************************************************)
(* Forms of operators and accounts.  An operator's roles are chosen by a   *)
(* click on the rows of a table, behind which are hidden checkboxes; the   *)
(* server assigns the roles one by one inside the transaction that saves   *)
(* the operator, and another operator may edit the same one.  A user's     *)
(* form shows a part that depends on the verification method; an account   *)
(* that is to be disabled is asked about it; a notice can be closed.       *)
(*                                                                         *)
(* Left out: the fields that only carry a value.  The table of RADIUS      *)
(* groups in a user's form is made of the same rows.                       *)
(***************************************************************************)
EXTENDS Desk

CONSTANTS
  Roles,        \* Operator::ROLES
  MaxUpdates,   \* bound: updates of an operator unanswered at once
  MaxCloses     \* bound: effects that wait for the notice

ASSUME FormsAssumption == MaxUpdates \in Nat /\ MaxCloses \in Nat

Update == 1..MaxUpdates

NoUpdate == [phase |-> "none", want |-> {}, saw |-> {}, seen |-> {}]

\* held: the roles in the database; high: the rows highlighted; checked: the
\* checkboxes; restored: the browser has put back what was checked before a
\* reload; awaits: the update the page waits for; group: what the updates
\* that overlap and have been saved wanted, as their operators saw it.
OperatorForm(held) ==
  [page |-> "operator", fresh |-> TRUE, held |-> held, checked |-> held, high |-> held,
   restored |-> FALSE, awaits |-> 0, updates |-> [u \in Update |-> NoUpdate], group |-> {}]

\* initUserForm, triggered at load.
UserForm(method) ==
  [page |-> "new_user", fresh |-> TRUE, method |-> method, identity |-> method = "document"]

AccountForm == [page |-> "edit", fresh |-> TRUE, disable |-> FALSE]

\* closed: Close was clicked an odd number of times.
OperatorsList == [page |-> "operators", fresh |-> TRUE, notice |-> Element(TRUE), closed |-> FALSE]

Become(d) == doc' = d /\ UNCHANGED <<site, session>>

OpenForm == "forms" \in site.menu /\
  \/ session.operator /\ \E held \in SUBSET Roles : Become(OperatorForm(held))
  \/ session.operator /\ \E m \in {"document", "phone"} : Become(UserForm(m))
  \/ ~session.operator /\ Become(AccountForm)

-----------------------------------------------------------------------------
(* The operator's roles.                                                   *)

Toggled(set, r) == (set \ {r}) \cup ({r} \ set)

\* customSelectable: a click on a row.
ToggleRow(r) ==
  /\ On("operator")
  /\ Become([doc EXCEPT !.checked = Toggled(@, r), !.high = Toggled(@, r)])

\* An answer nobody waits for any more is dropped.
Unawaited(updates) ==
  [u \in Update |-> IF updates[u].phase \in {"saved", "refused"} THEN NoUpdate ELSE updates[u]]

\* The page is reloaded by a browser that puts back what was checked: the
\* rows are highlighted by the attributes, which are the server's.
Restore ==
  /\ On("operator")
  /\ Become([doc EXCEPT !.high = doc.held, !.restored = TRUE, !.awaits = 0,
                        !.updates = Unawaited(@)])

\* The form is sent, perhaps before the last answer.
Send(u) ==
  /\ On("operator") /\ doc.updates[u].phase = "none"
  /\ Become([doc EXCEPT !.updates = [Unawaited(@) EXCEPT ![u] =
                                       [phase |-> "sent", want |-> doc.checked, seen |-> {},
                                        saw |-> IF doc.restored THEN doc.checked ELSE doc.high]],
                        !.awaits = u])

\* Another operator sends a form for the same one.
Rival(u, want) ==
  /\ On("operator") /\ doc.updates[u].phase = "none" /\ u # doc.awaits
  /\ Become([doc EXCEPT !.updates[u] = [phase |-> "sent", want |-> want, saw |-> want, seen |-> {}]])

Running == {u \in Update : doc.updates[u].phase = "running"}

\* The transaction reads the roles there are.
StartUpdate(u) ==
  /\ On("operator") /\ doc.updates[u].phase = "sent"
  /\ Become([doc EXCEPT !.updates[u].phase = "running", !.updates[u].seen = doc.held,
                        !.group = IF Running = {} THEN {} ELSE @])

Through(d, u, result) ==
  [d EXCEPT !.updates[u] = IF u = doc.awaits THEN [@ EXCEPT !.phase = result] ELSE NoUpdate]

\* Mutant: roles are only ever added.
CommitAdding(u) ==
  /\ On("operator") /\ u \in Running
  /\ LET want == doc.updates[u].want
     IN Become(IF want = {} THEN Through(doc, u, "saved")
               ELSE Through([doc EXCEPT !.held = @ \cup want, !.group = @ \cup {doc.updates[u].saw}], u, "saved"))

\* roles=, and the save that commits it: what was not there is added, what is
\* not wanted is removed.  A form with no role checked does not name them.
Commit(u) ==
  /\ On("operator") /\ u \in Running
  /\ LET want == doc.updates[u].want
         seen == doc.updates[u].seen
     IN Become(IF want = {} THEN Through(doc, u, "saved")
               ELSE Through([doc EXCEPT !.held = (@ \cup (want \ seen)) \ (seen \ want),
                                        !.group = @ \cup {doc.updates[u].saw}], u, "saved"))

\* The record is not valid: what roles= did is rolled back.
Rollback(u) == On("operator") /\ u \in Running /\ Become(Through(doc, u, "refused"))

\* A refused form is rendered again with the roles of the database.  The page
\* is left when the server is through with all that was sent: a bound.
UpdateAnswered(u) ==
  /\ On("operator") /\ u = doc.awaits
  /\ \/ /\ doc.updates[u].phase = "saved"
        /\ \A v \in Update \ {u} : doc.updates[v] = NoUpdate
        /\ Become(OperatorsList)
     \/ /\ doc.updates[u].phase = "refused"
        /\ Become([doc EXCEPT !.checked = doc.held, !.high = doc.held, !.restored = FALSE,
                              !.awaits = 0, !.updates[u] = NoUpdate])

-----------------------------------------------------------------------------
(* The other forms.                                                        *)

ChangeMethod(m) ==
  On("new_user") /\ Become([doc EXCEPT !.method = m, !.identity = (m = "document")])

\* loadCheckboxWarnings: the question comes when the box has been checked.
ClickDisable(yes) ==
  /\ On("edit")
  /\ Become([doc EXCEPT !.disable = ~@ /\ yes])

\* fadeToggle: who clicks again while the notice fades brings it back.
CloseNotice ==
  /\ On("operators") /\ doc.notice.shown /\ Len(doc.notice.queue) < MaxCloses
  /\ Become([doc EXCEPT !.notice = SlideToggle(@), !.closed = ~@])

NoticeEnds ==
  /\ On("operators") /\ ~Idle(doc.notice)
  /\ Become([doc EXCEPT !.notice = Finish(@)])

FormsNext ==
  \/ OpenForm \/ Restore \/ CloseNotice \/ NoticeEnds
  \/ \E r \in Roles : ToggleRow(r)
  \/ \E u \in Update : \/ Send(u) \/ StartUpdate(u) \/ Commit(u) \/ Rollback(u) \/ UpdateAnswered(u)
                       \/ \E want \in SUBSET Roles : Rival(u, want)
  \/ \E m \in {"document", "phone"} : ChangeMethod(m)
  \/ \E yes \in BOOLEAN : ClickDisable(yes)
=============================================================================
