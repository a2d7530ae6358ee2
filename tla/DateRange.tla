------------------------------ MODULE DateRange ------------------------------
(***************************************************************************)
(* The dates of a chart.  The server prints and reads them in the format   *)
(* of its language; the calendars of the page (jQuery UI) write and read   *)
(* month/day unless graphs.setLocale has told them otherwise.  The years   *)
(* are left out: a date is a number, a text the two numbers that are       *)
(* written, and whether the time is written too, as it is in Spanish.      *)
(***************************************************************************)
EXTENDS Naturals

CONSTANTS
  Months, Days,   \* a year of the model
  Today,          \* the last date
  Ago             \* two weeks ago

ASSUME DateAssumption ==
  /\ Months \in Nat \ {0} /\ Days \in Nat \ {0}
  /\ Today \in 1..(Months * Days) /\ Ago \in 1..Today

Date == 1..Today

Least(a, b) == IF a < b THEN a ELSE b
Most(a, b) == IF a < b THEN b ELSE a

Empty == [timed |-> FALSE, a |-> 0, b |-> 0]

Write(order, timed, d) ==
  LET day == ((d - 1) % Days) + 1
      month == ((d - 1) \div Days) + 1
  IN [timed |-> timed, a |-> IF order = "day" THEN day ELSE month,
                       b |-> IF order = "day" THEN month ELSE day]

\* 0: not a date.
Read(order, text) ==
  LET day == IF order = "day" THEN text.a ELSE text.b
      month == IF order = "day" THEN text.b ELSE text.a
  IN IF day \in 1..Days /\ month \in 1..Months THEN (month - 1) * Days + day ELSE 0

-----------------------------------------------------------------------------

\* date.formats.default of the locale.
ServerOrder(locale) == IF locale = "en" THEN "month" ELSE "day"
Timed(locale) == locale = "es"

\* l(@from), l(@to)
Localize(locale, d) == Write(ServerOrder(locale), Timed(locale), d)

\* strptime, which wants the whole text to fit.
ServerRead(locale, text) ==
  IF text.timed = Timed(locale) THEN Read(ServerOrder(locale), text) ELSE 0

OrElse(d, default) == IF d = 0 THEN default ELSE d

\* @from and @to of StatsController#show
Period(locale, text) == [from |-> OrElse(ServerRead(locale, text.from), Ago),
                         to |-> OrElse(ServerRead(locale, text.to), Today)]

-----------------------------------------------------------------------------

\* Mutant: the calendars are not told.
PickerOrderDefault(locale, linked) == "month"

\* graphs.locales: the languages with a format of their own.
GraphsLocales == [it |-> "day"]

\* setLocale: the format of a language counts if the page has a link to it.
PickerOrder(locale, linked) ==
  IF locale \in DOMAIN GraphsLocales /\ linked THEN GraphsLocales[locale] ELSE "month"

\* The dates a calendar offers.
Offered(side, limit) == IF side = "from" THEN 1..limit.from ELSE limit.to..Today

Other(side) == IF side = "from" THEN "to" ELSE "from"

\* onSelect: the other field's calendar gets the date as its limit, reads the
\* field, and writes what it read, within the limits; it empties a field it
\* cannot read.
Pick(order, text, side, d) ==
  LET n == Read(order, text[Other(side)])
      kept == IF side = "from" THEN Least(Most(n, d), Today)
                               ELSE Least(n, d)
  IN [text EXCEPT ![side] = Write(order, FALSE, d),
                  ![Other(side)] = IF n = 0 THEN Empty ELSE Write(order, FALSE, kept)]

\* The latest date for from, the earliest for to.
Limit(limit, side, d) == [limit EXCEPT ![Other(side)] = d]
=============================================================================
