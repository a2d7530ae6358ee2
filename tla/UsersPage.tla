------------------------------ MODULE UsersPage ------------------------------
(***************************************************************************)
(* The list of users: a form that searches, links that sort it and turn    *)
(* its pages, and a spinner that tells that an answer is awaited.          *)
(*                                                                         *)
(* Left out: the search and its results (an answer replaces the list, in   *)
(* whatever order answers come), and how the buttons look.                 *)
(***************************************************************************)
EXTENDS Desk, RemoteActions

CONSTANTS
  MaxAsks,     \* bound: requests of the page unanswered at once
  MaxSpins     \* bound: effects that wait for the spinner

ASSUME UsersAssumption == MaxAsks \in Nat /\ MaxSpins \in Nat

Ask == 1..MaxAsks

SearchForm == [confirm |-> FALSE, remote |-> TRUE]

\* bound: something listens for ajaxStop; vain: since the last ajaxStop the
\* spinner was asked for without a request.
UsersList ==
  [page |-> "users", fresh |-> TRUE, spinner |-> Element(FALSE), bound |-> FALSE,
   vain |-> FALSE, asks |-> [i \in Ask |-> "none"]]

OpenUsers ==
  /\ "users" \in site.menu /\ session.operator
  /\ doc' = UsersList
  /\ UNCHANGED <<site, session>>

ChangeList(d) == On("users") /\ doc' = d /\ UNCHANGED <<site, session>>

MaySpin == Len(doc.spinner.queue) < MaxSpins

\* ajaxLoading, at a click in something with data-remote, after the handlers
\* of jquery_ujs; the watcher of the search field does the same.
Loading(d) == [d EXCEPT !.spinner = FadeIn(@), !.bound = TRUE]

\* handleRemote
Remote(d, i, how) == [d EXCEPT !.asks[i] = how]

-----------------------------------------------------------------------------

\* A click in the form that sends nothing, as into the field.
ClickForm == On("users") /\ MaySpin /\ ChangeList([Loading(doc) EXCEPT !.vain = TRUE])

\* ajaxQuickSearch: the form is not the field's parent, so that parent('form')
\* is empty and nothing is sent.
AjaxQuickSearch(d) == [Loading(d) EXCEPT !.vain = TRUE]

\* The field has changed since the last second.
QuickSearch == On("users") /\ MaySpin /\ ChangeList(AjaxQuickSearch(doc))

\* The form is sent: by a click on one of its buttons, or with the keyboard.
Search(i, how) ==
  /\ On("users") /\ doc.asks[i] = "none" /\ MaySpin
  /\ FormSubmit(SearchForm, TRUE) = "ajax"
  /\ ChangeList(IF how = "clicked" THEN Loading(Remote(doc, i, how)) ELSE Remote(doc, i, how))

\* A page is turned or the list sorted.
Turn(i) ==
  /\ On("users") /\ doc.asks[i] = "none" /\ MaySpin
  /\ LinkClick(PageLink, TRUE) = "ajax"
  /\ ChangeList(Loading(Remote(doc, i, "clicked")))

\* Mutant: the spinner goes with any answer.
SearchAnsweredAny(i) ==
  /\ On("users") /\ doc.asks[i] # "none"
  /\ LET d == [doc EXCEPT !.asks[i] = "none"]
     IN IF d.bound
        THEN ChangeList([d EXCEPT !.spinner = FadeOut(@), !.vain = FALSE])
        ELSE ChangeList(d)

\* An answer, or the news that none will come; after the last one, ajaxStop.
SearchAnswered(i) ==
  /\ On("users") /\ doc.asks[i] # "none"
  /\ LET d == [doc EXCEPT !.asks[i] = "none"]
     IN IF d.bound /\ \A j \in Ask : d.asks[j] = "none"
        THEN ChangeList([d EXCEPT !.spinner = FadeOut(@), !.vain = FALSE])
        ELSE ChangeList(d)

\* A user's Destroy, or Logout: the page is left if the operator does not shrink
\* from it.
FollowLink(link, yes) ==
  /\ On("users") /\ LinkClick(link, yes) = "post"
  /\ ChangeList([page |-> "posted", fresh |-> TRUE, asked |-> link.confirm, yes |-> yes])

SpinnerEnds ==
  On("users") /\ ~Idle(doc.spinner) /\ ChangeList([doc EXCEPT !.spinner = Finish(@)])

UsersNext ==
  \/ OpenUsers \/ ClickForm \/ QuickSearch \/ SpinnerEnds
  \/ \E i \in Ask : Turn(i) \/ SearchAnswered(i) \/ \E how \in {"clicked", "keyed"} : Search(i, how)
  \/ \E link \in {DestroyLink, LogoutLink}, yes \in BOOLEAN : FollowLink(link, yes)
=============================================================================
