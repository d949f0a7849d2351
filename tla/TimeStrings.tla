----------------------------- MODULE TimeStrings -----------------------------
(***************************************************************************)
(* The times of a background set as they are written:                      *)
(* src/src/time_util.hpp and time_util.cpp.                                *)
(*                                                                         *)
(* A string without its blanks is a record                                 *)
(*   sign   "+", "-" or ""                                                 *)
(*   clock  [hours, minutes, seconds], sequences of digits, or NoClock;    *)
(*          seconds is <<>> where there are none                           *)
(*   sun    "sunrise", "sunset" or ""                                      *)
(***************************************************************************)
EXTENDS TimeFromMidnight, SequencesExt

CONSTANTS Hour, Minute,   \* seconds in an hour, a minute
          IntSize,        \* the numbers an int has: 2^32 in the code
          NoClock,
          Unreadable      \* the empty optional

ASSUME TimeStringsAssumption ==
  /\ Hour \in Nat \ {0} /\ Minute \in Nat \ {0}
  /\ IntSize \in Nat /\ IntSize > 99
  /\ Unreadable \notin TimeOfDay \cup Seq(TimeOfDay)

SUN == {"sunrise", "sunset"}

Digits == 0 .. 9

Clocks == [hours : Seq(Digits), minutes : Seq(Digits), seconds : Seq(Digits)]

Strings == [sign : {"+", "-", ""}, clock : Clocks \cup {NoClock}, sun : STRING]

ASSUME NoClockAssumption == NoClock \notin Clocks

\* stringViewToInt: an int that wraps around, turned into an unsigned int.
StringViewToInt(digits) ==
  FoldLeft(LAMBDA res, digit : (10 * res + digit) % IntSize, 0, digits)

\* The checks of convertTimeStringToTimeFromMidnight.
IsClock(clock) ==
  /\ Len(clock.minutes) = 2 /\ StringViewToInt(clock.minutes) <= 59
  /\ Len(clock.seconds) \in {0, 2} /\ StringViewToInt(clock.seconds) <= 59

ClockTime(clock) ==
  FromSeconds(StringViewToInt(clock.hours) * Hour
              + StringViewToInt(clock.seconds) + StringViewToInt(clock.minutes) * Minute)

\* What the regular expressions of timeStringToTime let through.
IsSun(string) == string.sign = "" /\ string.clock = NoClock /\ string.sun \in SUN

MatchesClock(string) ==
  /\ string.clock # NoClock
  /\ string.clock.hours # <<>> /\ IsClock(string.clock)

IsSunOffset(string) ==
  MatchesClock(string) /\ string.sign \in {"+", "-"} /\ string.sun \in SUN

IsPlainClock(string) == MatchesClock(string) /\ string.sign = "" /\ string.sun = ""

\* Mutant: the offset is added whatever its sign.
SunOffsetAdded(string, solarDay) == Plus(solarDay[string.sun], ClockTime(string.clock))

\* sunOffsetStringToTimeOffset.
SunOffset(string, solarDay) ==
  IF string.sign = "+" THEN Plus(solarDay[string.sun], ClockTime(string.clock))
  ELSE Minus(solarDay[string.sun], ClockTime(string.clock))

TimeStringToTime(string, solarDay) ==
  CASE IsSun(string) -> solarDay[string.sun]
    [] IsSunOffset(string) -> SunOffset(string, solarDay)
    [] IsPlainClock(string) -> ClockTime(string.clock)
    [] OTHER -> Unreadable

\* timeStringsToTimes: one string that cannot be read spoils them all.
TimeStringsToTimes(strings, solarDay) ==
  LET times == [i \in DOMAIN strings |-> TimeStringToTime(strings[i], solarDay)]
  IN  IF Unreadable \in Range(times) THEN Unreadable ELSE times

===============================================================================
