----------------------------- MODULE CardFields -----------------------------
(***************************************************************************)
(* The fields for the number of a card.  A digit goes in when its key goes *)
(* down; when a key comes up in a field that is full, the focus moves on,  *)
(* to the next field or behind the last one.  Keys overlap: one may go     *)
(* down, or repeat, before another is up.  The keys are told apart by      *)
(* their codes, and that of 9 is beyond the range.  Keys that move the     *)
(* focus by hand are left out.                                             *)
(***************************************************************************)
EXTENDS Naturals

CONSTANTS
  Fields,   \* number of fields; 4 in the form
  Width,    \* their maxlength; 4 in the form
  Digit     \* the digits typed

ASSUME FieldsAssumption == Fields \in Nat \ {0} /\ Width \in Nat \ {0}
ASSUME DigitAssumption == Digit \subseteq 0..9

Field == 1..Fields

\* len: the digits in each field; held: the keys that are down.  History: the
\* fields a 9 has filled (nines), those in which a digit had no place (lost),
\* and those in which that was so because a key that will move the focus on
\* was not up yet (rolled).
Blank == [len |-> [f \in Field |-> 0], focus |-> 1, held |-> {},
          nines |-> {}, lost |-> {}, rolled |-> {}]
Full == [Blank EXCEPT !.len = [f \in Field |-> Width], !.focus = Fields + 1]

\* The form is sent only if no field is short.
Complete(c) == \A f \in Field : c.len[f] = Width

\* Mutant: the range of the codes ends one digit earlier.
MovesOnShort(d) == d < 8

\* e.keyCode < 57, e.keyCode < 105.
MovesOn(d) == d < 9

\* The digit goes in while there is room.
KeyDown(c, d) ==
  LET f == c.focus
      room == c.len[f] < Width
      moving == \E e \in c.held : MovesOn(e)
  IN [c EXCEPT !.len[f] = IF room THEN @ + 1 ELSE @,
               !.held = @ \cup {d},
               !.nines = IF c.len[f] + 1 = Width /\ d = 9 THEN @ \cup {f} ELSE @,
               !.lost = IF room THEN @ ELSE @ \cup {f},
               !.rolled = IF ~room /\ moving THEN @ \cup {f} ELSE @]

\* The field that has the focus is looked at, whichever the key went down in.
KeyUp(c, d) ==
  LET f == c.focus
      moves == f \in Field /\ c.len[f] = Width /\ MovesOn(d)
  IN [c EXCEPT !.held = @ \ {d}, !.focus = IF moves THEN @ + 1 ELSE @]

\* Mutant: an empty field is not told apart.
BackspaceUnguarded(c) == [c EXCEPT !.len[c.focus] = @ - 1]

\* Backspace is let through.
Backspace(c) ==
  LET f == c.focus
  IN [c EXCEPT !.len[f] = IF @ > 0 THEN @ - 1 ELSE @,
               !.nines = @ \ {f}, !.lost = @ \ {f}, !.rolled = @ \ {f}]
=============================================================================
