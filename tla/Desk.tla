-------------------------------- MODULE Desk --------------------------------
(***************************************************************************)
(* What the pages of those who have signed in have in common: the site     *)
(* they are served by, the session they belong to, which other tabs of the *)
(* browser share, and the document.                                        *)
(***************************************************************************)
EXTENDS Document, FiniteSets

CONSTANTS
  Sites,       \* the installations considered
  Locales      \* the languages considered

ASSUME SitesAssumption ==
  \A s \in Sites : /\ s.italian \in BOOLEAN /\ s.svg \in BOOLEAN
                   /\ s.menu \subseteq {"statistics", "users", "forms"}
                   /\ \A i \in DOMAIN s.root : s.root[i] \in STRING

VARIABLES
  site,        \* root: the path the routes are under; subUri: owums.subUri;
               \* italian: CONFIG['italian']; svg: the browser draws graphs;
               \* menu: the pages that are visited, a bound
  session      \* the locale, and whether an operator is signed in

deskVars == <<site, session, doc>>

WithGraphs == doc.page \in {"index", "chart", "user", "account"}

\* Another tab changes the language, or an operator signs in or out there:
\* the document stays as it was rendered.  It is a document with graphs: the
\* scripts of the others do not depend on it.
OtherTab ==
  /\ WithGraphs
  /\ \E l \in Locales, o \in BOOLEAN : session' = [locale |-> l, operator |-> o]
  /\ session' # session
  /\ doc' = [doc EXCEPT !.fresh = FALSE]
  /\ UNCHANGED site
=============================================================================
