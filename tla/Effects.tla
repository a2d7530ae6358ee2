------------------------------- MODULE Effects -------------------------------
(***************************************************************************)
(* The effects of jQuery 1.6.1 on an element of a page.  fadeIn, fadeOut   *)
(* and slideToggle wait in the element's queue "fx"; one runs at a time,   *)
(* and what it does is decided when it begins.  show() and hide() act at   *)
(* once and leave the queue alone.  An element is visible (:visible) from  *)
(* the beginning of the effect that shows it to the end of the one that    *)
(* hides it.  A "swap" is a slideToggle with a function to call at its     *)
(* end; duration, opacity and height are left out.                         *)
(***************************************************************************)
EXTENDS Naturals, Sequences, FiniteSetsExt

Element(visible) == [shown |-> visible, closing |-> FALSE, queue |-> <<>>]

Idle(e) == e.queue = <<>>

\* animate: an effect that shows what is shown, or hides what is hidden,
\* completes at once; any other shows the element until it ends.
Begin(e) ==
  LET live == {i \in DOMAIN e.queue : \/ e.queue[i] \in {"toggle", "swap"}
                                      \/ (e.queue[i] = "in") = ~e.shown}
  IN IF live = {}
     THEN [e EXCEPT !.closing = FALSE, !.queue = <<>>]
     ELSE [shown |-> TRUE, closing |-> e.shown,
           queue |-> SubSeq(e.queue, Min(live), Len(e.queue))]

\* queue: an effect begins when it is the first.
Enqueue(e, effect) ==
  LET longer == [e EXCEPT !.queue = Append(@, effect)]
  IN IF Idle(e) THEN Begin(longer) ELSE longer

\* step, at the end of an effect: complete dequeues the next one.
Finish(e) == Begin([e EXCEPT !.shown = @ /\ ~e.closing, !.queue = Tail(@)])

FadeIn(e) == Enqueue(e, "in")
FadeOut(e) == Enqueue(e, "out")
SlideToggle(e) == Enqueue(e, "toggle")

Hide(e) == [e EXCEPT !.shown = FALSE]

\* togglePop decides at once, by what is visible now.
TogglePop(e) == IF e.shown THEN FadeOut(e) ELSE FadeIn(e)

\* toggleMessage also changes what a hidden message says.
ToggleMessage(e) == TogglePop(e)
=============================================================================
