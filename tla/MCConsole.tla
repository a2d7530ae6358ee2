----------------------------- MODULE MCConsole -----------------------------
(* An instance of Console: three installations for the statistics, one of   *)
(* them in a browser without graphs, and one for the other pages.        *)
EXTENDS Console

\* The names a page's address may begin with, and what they begin with.
MCBeginnings ==
  {<<"account", "acc">>, <<"account", "a">>, <<"stats", "st">>, <<"users", "use">>,
   <<"application", "app">>, <<"application", "a">>, <<"app", "a">>}

MCSites ==
  {[root |-> <<>>, subUri |-> "", italian |-> TRUE, svg |-> TRUE,
    menu |-> {"users", "forms"}],
   [root |-> <<>>, subUri |-> "app", italian |-> FALSE, svg |-> TRUE,
    menu |-> {"statistics"}],
   [root |-> <<"app">>, subUri |-> "app", italian |-> FALSE, svg |-> FALSE,
    menu |-> {"statistics"}],
   [root |-> <<"owums">>, subUri |-> "", italian |-> TRUE, svg |-> TRUE,
    menu |-> {"statistics"}]}
=============================================================================
