--------------------------- MODULE StatisticsPages ---------------------------
(***************************************************************************)
(* The pages with graphs: the statistics, a chart with its range of dates, *)
(* a user's page, and the page of an account.  A script asks the server    *)
(* for its statistic and draws the answer in its place.  The statistics    *)
(* also have boxes that open and close, some with a list that is asked for *)
(* at the first click.                                                     *)
(*                                                                         *)
(* Left out: the look of the graphs, the formats of their labels, their    *)
(* export, dates typed by hand, and the statistics themselves.             *)
(***************************************************************************)
EXTENDS Desk, DateRange

CONSTANTS
  Charts,      \* the charts considered
  Lists,       \* the boxes with a list
  Headings,    \* the boxes of graphs whose heading opens and closes them
  Beginnings,  \* pairs: the name of a directory, and a shorter beginning of it
  MaxToggles,  \* bound: effects that wait for one box
  MaxLists     \* bound: requests of one box unanswered at once

ASSUME StatisticsAssumption ==
  /\ Charts \subseteq {"traffic", "logins", "registered_users", "registered_users_daily"}
  /\ Lists \subseteq {"last_logins", "top_traffic_users", "last_registered"}
  /\ Headings \subseteq {"logins_graph", "traffic_graph"}
  /\ MaxToggles \in Nat /\ MaxLists \in Nat

-----------------------------------------------------------------------------
(* The graphs' scripts: what each asks for and where it draws.             *)

TrafficGraph ==
  [absolute |-> TRUE, stat |-> "traffic", slot |-> "traffic_graph"]
LoginsGraph ==
  [absolute |-> TRUE, stat |-> "logins", slot |-> "logins_graph"]
RegisteredUsersGraph ==
  [absolute |-> TRUE, stat |-> "registered_users", slot |-> "registered_users_graph"]
RegisteredUsersDailyGraph ==
  [absolute |-> TRUE, stat |-> "registered_users_daily",
   slot |-> "registered_users_daily_graph"]
AccountLoginsGraph ==
  [absolute |-> TRUE, stat |-> "account_logins", slot |-> "account_logins_graph"]
AccountTrafficGraph ==
  [absolute |-> TRUE, stat |-> "account_traffic", slot |-> "account_traffic_graph"]
UserLoginsGraph ==
  [absolute |-> FALSE, stat |-> "user_logins", slot |-> "user_logins_graph"]
UserTrafficGraph ==
  [absolute |-> FALSE, stat |-> "user_traffic", slot |-> "user_traffic_graph"]

ChartGraphs == {TrafficGraph, LoginsGraph, RegisteredUsersGraph, RegisteredUsersDailyGraph}

\* The path of a page below the root of the routes, its scripts, and the
\* places its view has for graphs.
Page(path, scripts, slots) == [path |-> path, scripts |-> scripts, slots |-> slots]

IndexPage ==
  Page(<<"stats">>, {RegisteredUsersDailyGraph, LoginsGraph, TrafficGraph},
       {"registered_users_daily_graph", "logins_graph", "traffic_graph"})
ChartPage(g) == Page(<<"stats", g.stat>>, {g}, {g.slot})
UserPage ==
  Page(<<"users", "1">>, {UserLoginsGraph, UserTrafficGraph},
       {"user_logins_graph", "user_traffic_graph"})
AccountPage ==
  Page(<<"account">>, {AccountLoginsGraph, AccountTrafficGraph},
       {"account_logins_graph", "account_traffic_graph"})

\* Mutant: no prefix.
PathBare(curr, subUri, g, params) ==
  [url |-> (IF g.absolute THEN <<>> ELSE curr) \o <<"stats", g.stat>>, params |-> params]

\* _curr.substr(1, _subUri.length) === _subUri, where nothing is put before the
\* address if there is no subUri.
Begins(name, sub) == sub # "" /\ (name = sub \/ <<name, sub>> \in Beginnings)

\* owums.path: the address a script asks, with the page's own parameters.
Path(curr, subUri, g, params) ==
  LET sub == IF subUri = "" /\ curr[1] = "owums" THEN "owums" ELSE subUri
      start == IF ~g.absolute THEN curr
               ELSE IF Begins(curr[1], sub) THEN <<sub>> ELSE <<>>
  IN [url |-> start \o <<"stats", g.stat>>, params |-> params]

-----------------------------------------------------------------------------
(* The server.                                                             *)

Stats == {g.stat : g \in ChartGraphs}

\* load_stat_data
ServedTo(operator, stat, ofUser) ==
  stat \in CASE operator /\ ofUser  -> Stats \cup {"user_logins", "user_traffic"}
            [] operator /\ ~ofUser -> Stats
            [] OTHER               -> {"account_logins", "account_traffic"}

\* The routes end in stats/:id, below the root, below a user or below the
\* account.
Served(url) ==
  \E before \in {<<>>, <<"users", "1">>, <<"account">>} :
    /\ Len(url) > 1 /\ SubSeq(url, 1, Len(url) - 1) = site.root \o before \o <<"stats">>
    /\ ServedTo(session.operator, url[Len(url)], before = <<"users", "1">>)

-----------------------------------------------------------------------------
(* The documents.                                                          *)

NoText == [from |-> Empty, to |-> Empty]

\* A box of the statistics: its element, whether its heading has the class
\* hidden, and what there is of its list.  default_hide hides the lists.
Box(list) ==
  [el |-> Element(~list), hidden |-> list, remote |-> list, asked |-> 0, filled |-> FALSE]

Boxes(kind) == IF kind = "index" THEN Lists \cup Headings ELSE {}

\* supportsSvg, supportsVml
GraphsSupported == site.svg

\* A note says that graphs are not supported, until it is hidden.
Noted == ~GraphsSupported

\* A page with graphs as rendered, with the requests of its scripts.
Rendered(kind, page, params) ==
  LET range == Period(session.locale, params)
  IN [page |-> kind, fresh |-> TRUE, locale |-> session.locale,
      at |-> site.root \o page.path, slots |-> page.slots, scripts |-> page.scripts,
      params |-> params, range |-> range,
      waiting |-> page.scripts, drawn |-> {}, failed |-> {}, note |-> Noted,
      boxes |-> [b \in Boxes(kind) |-> Box(b \in Lists)],
      text |-> IF kind = "chart" THEN [from |-> Localize(session.locale, range.from),
                                       to |-> Localize(session.locale, range.to)]
                                 ELSE NoText,
      limit |-> [from |-> Today, to |-> 1], picked |-> [side |-> "from", date |-> 0]]

Load(d) == doc' = d /\ UNCHANGED <<site, session>>

OpenStatistics == "statistics" \in site.menu /\
  \/ /\ session.operator
     /\ \/ Load(Rendered("index", IndexPage, NoText))
        \/ Load(Rendered("user", UserPage, NoText))
        \/ \E g \in ChartGraphs :
             g.stat \in Charts /\ Load(Rendered("chart", ChartPage(g), NoText))
  \/ ~session.operator /\ Load(Rendered("account", AccountPage, NoText))

\* The answer to a script comes, in any order, and is drawn (graphs.init);
\* a refusal leaves the place as it was.
GraphAnswered(g) ==
  /\ WithGraphs /\ g \in doc.waiting
  /\ LET ask == Path(doc.at, site.subUri, g, doc.params)
         graph == [slot |-> g.slot, stat |-> g.stat,
                   range |-> Period(session.locale, ask.params)]
     IN IF Served(ask.url) /\ g.slot \in doc.slots
        THEN Load([doc EXCEPT !.waiting = @ \ {g}, !.drawn = @ \cup {graph}])
        ELSE Load([doc EXCEPT !.waiting = @ \ {g}, !.failed = @ \cup {g.slot}])

-----------------------------------------------------------------------------
(* The dates.                                                              *)

\* dateRangePicker runs once the graph is there.
Calendars == On("chart") /\ doc.drawn # {}

\* A date is picked.
PickDate(side, d) ==
  /\ Calendars /\ d \in Offered(side, doc.limit)
  /\ LET order == PickerOrder(doc.locale, site.italian)
     IN Load([doc EXCEPT !.text = Pick(order, @, side, d),
                         !.limit = Limit(@, side, d),
                         !.picked = [side |-> side, date |-> d]])

\* The form with the dates is sent; what was written in another language stays
\* so.
SubmitDates ==
  /\ On("chart") /\ session.operator
  /\ \E g \in doc.scripts :
       Load([Rendered("chart", ChartPage(g), doc.text) EXCEPT !.fresh = doc.fresh])

-----------------------------------------------------------------------------
(* The boxes.                                                              *)

ChangeBox(b, box) == Load([doc EXCEPT !.boxes[b] = box])

\* A heading is clicked (fluid.Toggle); a list that has not come yet is asked
\* for, again if need be.
ToggleBox(b) ==
  /\ On("index") /\ b \in DOMAIN doc.boxes
  /\ LET box == doc.boxes[b]
     IN /\ Len(box.el.queue) < MaxToggles /\ (box.remote => box.asked < MaxLists)
        /\ ChangeBox(b, [box EXCEPT !.hidden = ~@, !.el = SlideToggle(@),
                                 !.asked = IF box.remote THEN @ + 1 ELSE @])

\* The list comes; it is put in between two slides.
ListComes(b) ==
  /\ On("index") /\ b \in DOMAIN doc.boxes /\ session.operator
  /\ doc.boxes[b].asked > 0
  /\ ChangeBox(b, [doc.boxes[b] EXCEPT !.remote = FALSE, !.asked = @ - 1,
                                    !.el = Enqueue(@, "swap")])

\* Mutant: the list slides once.
BoxEffectEndsOnce(b) ==
  /\ On("index") /\ b \in DOMAIN doc.boxes /\ ~Idle(doc.boxes[b].el)
  /\ ChangeBox(b, [doc.boxes[b] EXCEPT !.el = Finish(@),
                                    !.filled = @ \/ Head(doc.boxes[b].el.queue) = "swap"])

\* An effect of a box ends; the first of the two slides puts the list in and
\* starts the second.
BoxEffectEnds(b) ==
  /\ On("index") /\ b \in DOMAIN doc.boxes /\ ~Idle(doc.boxes[b].el)
  /\ IF Head(doc.boxes[b].el.queue) = "swap"
     THEN ChangeBox(b, [doc.boxes[b] EXCEPT !.el = SlideToggle(Finish(@)), !.filled = TRUE])
     ELSE ChangeBox(b, [doc.boxes[b] EXCEPT !.el = Finish(@)])

StatisticsNext ==
  \/ OpenStatistics \/ SubmitDates
  \/ \E g \in ChartGraphs \cup {UserLoginsGraph, UserTrafficGraph,
                                AccountLoginsGraph, AccountTrafficGraph} : GraphAnswered(g)
  \/ \E side \in {"from", "to"}, d \in Date : PickDate(side, d)
  \/ \E b \in Lists \cup Headings : ToggleBox(b) \/ ListComes(b) \/ BoxEffectEnds(b)
=============================================================================
