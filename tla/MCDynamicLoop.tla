---------------------------- MODULE MCDynamicLoop ----------------------------
(***************************************************************************)
(* Background sets for a day of 30 seconds of three milliseconds each.     *)
(***************************************************************************)
EXTENDS DynamicLoop

Fade(duration, steps, inPlace) ==
  [duration |-> duration, steps |-> steps, inPlace |-> inPlace]

Show(times, imageNames, order, transition) ==
  [times |-> times, imageNames |-> imageNames, order |-> order,
   transition |-> transition]

\* Well-spaced days: two and three images; times that are not sorted in the
\* file; a transition across midnight; Milli + 1 steps that each lose a fraction
\* of a millisecond; steps shorter than a call; no transition; a single time;
\* a shuffle.
NormalBackgrounds ==
  {Show(<<2, 17>>, <<"a", "b">>, "linear", Fade(5, 4, FALSE)),
   Show(<<21, 1, 11>>, <<"a", "b", "c">>, "linear", Fade(4, 2, FALSE)),
   Show(<<2, 17>>, <<"a", "b">>, "linear", Fade(4, 1, FALSE)),
   Show(<<0, 4, 20>>, <<"a", "b", "c">>, "linear", NoTransition),
   Show(<<5>>, <<"a", "b">>, "linear", Fade(4, 2, FALSE)),
   Show(<<17, 2>>, <<"a", "b", "c">>, "random", Fade(4, 2, FALSE))}

\* Transitions that end early: in place, without steps, or with steps that each
\* lose most of a millisecond.
HastyBackgrounds ==
  {Show(<<2, 17>>, <<"a", "b">>, "linear", Fade(4, 2, FALSE)),
   Show(<<1, 16>>, <<"a", "b">>, "linear", Fade(4, 2, TRUE)),
   Show(<<2, 17>>, <<"a", "b">>, "linear", Fade(4, 0, FALSE)),
   Show(<<2, 17>>, <<"a", "b">>, "linear", Fade(4, 7, FALSE)),
   Show(<<10, 0, 20>>, <<"a", "b", "c">>, "linear", Fade(4, 0, TRUE))}

ASSUME ListsAssumption == ListsAreEventLists

ASSUME DaysAssumption == OrderlyDays

===============================================================================
