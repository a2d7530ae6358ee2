------------------------------ MODULE Console ------------------------------
(***************************************************************************)
(* The pages of those who have signed in, one after the other in one       *)
(* browser, with the answers of the server to their scripts.               *)
(***************************************************************************)
EXTENDS StatisticsPages, UsersPage, Forms

Home == [page |-> "home", fresh |-> TRUE]

ConsoleInit ==
  /\ site \in Sites
  /\ session \in [locale : Locales, operator : BOOLEAN]
  /\ doc = Home

\* The menu leads from any page to any other.
GoHome == ~On("home") /\ Become(Home)

ConsoleNext == OtherTab \/ GoHome \/ StatisticsNext \/ UsersNext \/ FormsNext

ConsoleSpec == ConsoleInit /\ [][ConsoleNext]_deskVars

-----------------------------------------------------------------------------

\* The session and the documents are what the pages expect; what was posted
\* against a question was agreed to.
ConsoleTypeOK ==
  /\ session \in [locale : Locales, operator : BOOLEAN]
  /\ WithGraphs => /\ doc.waiting \subseteq doc.scripts
                   /\ \A s \in {"from", "to"} : doc.range[s] \in 1..(Months * Days)
                   /\ \A b \in DOMAIN doc.boxes : /\ IsElement(doc.boxes[b].el)
                                                  /\ doc.boxes[b].asked \in 0..MaxLists
  /\ On("users") => /\ IsElement(doc.spinner)
                    /\ doc.asks \in [Ask -> {"none", "clicked", "keyed"}]
  /\ On("posted") /\ doc.asked => doc.yes
  /\ On("operator") => /\ doc.held \subseteq Roles /\ doc.checked \subseteq Roles
                       /\ doc.awaits # 0 => doc.updates[doc.awaits] # NoUpdate
  /\ On("operators") => IsElement(doc.notice)

\* However the answers come in, every script draws its own statistic of the
\* page's dates in its own place, wherever the application is installed, as
\* long as no other tab has changed the session.
GraphsLand ==
  WithGraphs /\ doc.fresh =>
    /\ doc.failed = {}
    /\ doc.drawn = {[slot |-> g.slot, stat |-> g.stat, range |-> doc.range] :
                      g \in doc.scripts \ doc.waiting}

\* Where page and server agree on the format, in English and, if the page
\* links to it, in Italian, the server reads the dates as they were picked,
\* and they are in order.
DatesAsPicked ==
  On("chart") /\ doc.fresh /\ doc.locale \in (IF site.italian THEN {"en", "it"} ELSE {"en"}) =>
    LET read == [s \in {"from", "to"} |-> ServerRead(doc.locale, doc.text[s])]
    IN /\ read.from \in Date /\ read.to \in read.from..Today
       /\ doc.picked.date # 0 => read[doc.picked.side] = doc.picked.date

\* When the effects of a box or of the notice have ended it is open or closed
\* as it was clicked, and a box has its list if it does not ask for it any more.
BoxFits ==
  /\ On("index") =>
       \A b \in DOMAIN doc.boxes :
         LET box == doc.boxes[b]
         IN Idle(box.el) => /\ box.el.shown = ~box.hidden
                            /\ ~box.remote /\ b \in Lists => box.filled
  /\ On("operators") /\ Idle(doc.notice) => doc.notice.shown = ~doc.closed

\* At rest the spinner turns while the answer to a click is awaited, and stands
\* when nothing is, unless it was started without a request.
SpinnerTells ==
  On("users") /\ Idle(doc.spinner) =>
    /\ (\E i \in Ask : doc.asks[i] = "clicked") => doc.spinner.shown
    /\ (\A i \in Ask : doc.asks[i] = "none") /\ ~doc.vain => ~doc.spinner.shown

\* When no update runs, the roles that all the updates that overlapped had
\* highlighted when they were sent are held, and those that none had are not:
\* a single one leaves what its operator saw, if that was anything.
RolesAsChosen ==
  On("operator") /\ Running = {} /\ doc.group # {} =>
    \A r \in Roles : /\ (\A saw \in doc.group : r \in saw) => r \in doc.held
                     /\ (\A saw \in doc.group : r \notin saw) => r \notin doc.held
=============================================================================
