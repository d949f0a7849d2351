------------------------------- MODULE EventCycle -------------------------------
(***************************************************************************)
(* What a dynamic background set promises, without times: the events of    *)
(* the day are carried out one after the other, starting with whichever    *)
(* one is current when the program starts, none left out, over and over.   *)
(***************************************************************************)
EXTENDS Naturals

VARIABLES
  count,    \* how many events the day has
  done      \* the event carried out last, 0 before the first

vars == <<count, done>>

Init == count \in Nat \ {0} /\ done = 0

Start ==
  /\ done = 0
  /\ done' \in 1 .. count
  /\ UNCHANGED count

Continue ==
  /\ done # 0
  /\ done' = IF done = count THEN 1 ELSE done + 1
  /\ UNCHANGED count

\* A day with a single event carries it out again: a step that changes nothing.
Next == Start \/ Continue

Spec == Init /\ [][Next]_vars /\ WF_vars(Next)

===============================================================================
