------------------------------ MODULE MCSolarDay ------------------------------
(***************************************************************************)
(* A day of three hours of two units each, two coordinates, and every      *)
(* combination of present, absent and unreadable fields.  One of the two   *)
(* locations in the file is polar.                                         *)
(***************************************************************************)
EXTENDS SolarDay

TestDefaultDay == [sunrise |-> 1, sunset |-> 4]

TestConfigs ==
  [latitude : {"1", "2", Absent, Garbage}, longitude : {"1", Absent, Garbage},
   useConfigured : {TRUE, FALSE, Absent, Garbage},
   sunrise : {2, Absent, Garbage}, sunset : {5, Absent, Garbage}]

\* Two locations, one with a newline behind it; a page that is no location; a
\* location without its longitude.
TestPages ==
  {<<"2", ",", "2">>, <<"1", ",", "2", "newline">>, <<"error", ",", "1">>, <<"2", ",">>}

\* Whole hours east of UTC, and half hours on either side.
TestZones == {2, 3, -3}

TestSunrise == [p \in Places |-> IF p = <<"2", "2">> THEN 1 ELSE 3]

TestSunset == [p \in Places |-> IF p = <<"2", "2">> THEN 5 ELSE 4]

TestPolar == {<<"2", "1">>}

NoPaths == {}

NoNames == <<>>

===============================================================================
