--------------------------- MODULE TimeFromMidnight ---------------------------
(***************************************************************************)
(* The time of day, src/src/time_from_midnight.hpp: a number of seconds    *)
(* that is reduced modulo the length of a day by every constructor and     *)
(* every arithmetic operator.  DAY_LENGTH is a constant of the model, so   *)
(* that a day can be a few seconds long when TLC explores it.              *)
(***************************************************************************)
EXTENDS Integers

CONSTANT Day    \* DAY_LENGTH, TWENTY_FOUR_HOURS: 86400 in the code

ASSUME DayAssumption == Day \in Nat \ {0}

TimeOfDay == 0 .. (Day - 1)

\* The converting constructor: the C++ mod() is the mathematical one.
FromSeconds(seconds) == seconds % Day

Plus(time, seconds) == FromSeconds(time + seconds)

Minus(time, seconds) == FromSeconds(time - seconds)

===============================================================================
