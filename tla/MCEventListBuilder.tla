-------------------------- MODULE MCEventListBuilder --------------------------
(***************************************************************************)
(* Every background set with up to MaxTimes times on a short day: sorted,  *)
(* unsorted and repeated times, as many images as times, fewer and more,   *)
(* and transitions that fit between two images, that do not, and that are  *)
(* longer than the day.                                                    *)
(***************************************************************************)
EXTENDS EventListBuilder

CONSTANTS MaxTimes, Durations

MCBackgrounds ==
  [times : UNION {[1 .. n -> TimeOfDay] : n \in 1 .. MaxTimes},
   imageNames : {<<"a", "b", "c">>, <<"a", "b">>},
   order : {"linear", "random"},
   transition : {NoTransition} \cup
     {[duration |-> d, steps |-> 2, inPlace |-> FALSE] : d \in Durations}]

===============================================================================
