--------------------------- MODULE EventListBuilder ---------------------------
(***************************************************************************)
(* getEventList, statement by statement: pair the configured times with    *)
(* images, append the events of each pair, sort, and run the loop of       *)
(* removeOverlappingEvents (src/src/dynamic_background_set.cpp).           *)
(*                                                                         *)
(* A transition between two images of a day with a single time does not    *)
(* exist, and the index `second` of the loop is always first + 1.          *)
(***************************************************************************)
EXTENDS EventList

VARIABLES
  data,         \* the background set the list is built for
  phase,        \* where createEventListFromTimesAndNames is
  pairs,        \* timesAndNames
  index,        \* i of the parsing loop
  first,        \* first of the removal loop
  eventList

vars == <<data, phase, pairs, index, first, eventList>>

Phases == {"order", "create", "parse", "sort", "remove", "done"}

Init ==
  /\ data \in Backgrounds
  /\ phase = "order"
  /\ pairs = <<>>
  /\ index = 1
  /\ first = 1
  /\ eventList = <<>>

\* timesAndNamesSortedByTime.
PairInOrder ==
  /\ phase = "order" /\ data.order = "linear"
  /\ pairs' \in SortedArrangements(LinearPairs(data))
  /\ phase' = "create"
  /\ UNCHANGED <<data, index, first, eventList>>

\* timesAndRandomNamesSortedByTime.
PairAtRandom ==
  /\ phase = "order" /\ data.order = "random"
  /\ \E names \in Shuffles(data.imageNames) : pairs' = RandomPairs(data, names)
  /\ phase' = "create"
  /\ UNCHANGED <<data, index, first, eventList>>

\* singleEventList.
SingleEvent ==
  /\ phase = "create" /\ Len(pairs) = 1
  /\ eventList' = <<SetEvent(pairs[1].time, pairs[1].name)>>
  /\ phase' = "done"
  /\ UNCHANGED <<data, pairs, index, first>>

StartParsing ==
  /\ phase = "create" /\ Len(pairs) # 1
  /\ phase' = "parse"
  /\ UNCHANGED <<data, pairs, index, first, eventList>>

\* One iteration of parseTimesAndNamesToEventList.
ParsePair ==
  /\ phase = "parse" /\ index <= Len(pairs)
  /\ eventList' = eventList \o EventsAt(data.transition, pairs, index)
  /\ index' = index + 1
  /\ UNCHANGED <<data, phase, pairs, first>>

ParsingEnds ==
  /\ phase = "parse" /\ index > Len(pairs)
  /\ phase' = "sort"
  /\ UNCHANGED <<data, pairs, index, first, eventList>>

Sort ==
  /\ phase = "sort"
  /\ eventList' \in SortedArrangements(eventList)
  /\ phase' = "remove"
  /\ UNCHANGED <<data, pairs, index, first>>

-------------------------------------------------------------------------------
(* removeOverlappingEvents. *)

\* std::vector::erase of the elements from..to.
Erased(list, from, to) == SubSeq(list, 1, from - 1) \o SubSeq(list, to + 1, Len(list))

second == first + 1

Overlap ==
  /\ phase = "remove" /\ second <= Len(eventList)
  /\ eventList[first].time = eventList[second].time

\* Mutant: the indices are not incremented.
AdvanceNowhere ==
  /\ phase = "remove" /\ second <= Len(eventList)
  /\ eventList[first].time # eventList[second].time
  /\ UNCHANGED vars

Advance ==
  /\ phase = "remove" /\ second <= Len(eventList)
  /\ eventList[first].time # eventList[second].time
  /\ first' = first + 1
  /\ UNCHANGED <<data, phase, pairs, index, eventList>>

\* Mutant: the end of the erased range is `second`, which erase excludes.
RemoveOneOfTwoTransitions ==
  /\ Overlap /\ IsLerp(eventList[first]) /\ IsLerp(eventList[second])
  /\ eventList' = Erased(eventList, first, first)
  /\ UNCHANGED <<data, phase, pairs, index, first>>

RemoveBothTransitions ==
  /\ Overlap /\ IsLerp(eventList[first]) /\ IsLerp(eventList[second])
  /\ eventList' = Erased(eventList, first, second)
  /\ UNCHANGED <<data, phase, pairs, index, first>>

\* Mutant: the indices are incremented after the erase as well.
RemoveEarlierSetAndAdvance ==
  /\ Overlap /\ IsSet(eventList[first]) /\ IsSet(eventList[second])
  /\ eventList' = Erased(eventList, first, first)
  /\ first' = first + 1
  /\ UNCHANGED <<data, phase, pairs, index>>

\* Mutant: set events are treated like transitions.
RemoveBothSets ==
  /\ Overlap /\ IsSet(eventList[first]) /\ IsSet(eventList[second])
  /\ eventList' = Erased(eventList, first, second)
  /\ UNCHANGED <<data, phase, pairs, index, first>>

RemoveEarlierSet ==
  /\ Overlap /\ IsSet(eventList[first]) /\ IsSet(eventList[second])
  /\ eventList' = Erased(eventList, first, first)
  /\ UNCHANGED <<data, phase, pairs, index, first>>

\* Mutant: the second event is a copy, not a reference.
RemoveTransitionBeforeSetOnly ==
  /\ Overlap /\ IsLerp(eventList[first]) /\ IsSet(eventList[second])
  /\ eventList' = Erased(eventList, first, first)
  /\ UNCHANGED <<data, phase, pairs, index, first>>

\* secondTimeEvent is a reference into the vector.  After the first erase it
\* designates the element that moved into its place; when there is none, the
\* slot past the end holds a destroyed event, which is no transition.
RemoveTransitionBeforeSet ==
  /\ Overlap /\ IsLerp(eventList[first]) /\ IsSet(eventList[second])
  /\ LET remaining == Erased(eventList, first, first)
     IN  eventList' = IF second <= Len(remaining) /\ IsLerp(remaining[second])
                      THEN Erased(remaining, second, second)
                      ELSE remaining
  /\ UNCHANGED <<data, phase, pairs, index, first>>

RemoveTransitionAfterSet ==
  /\ Overlap /\ IsSet(eventList[first]) /\ IsLerp(eventList[second])
  /\ eventList' = Erased(eventList, second, second)
  /\ UNCHANGED <<data, phase, pairs, index, first>>

RemovingEnds ==
  /\ phase = "remove" /\ second > Len(eventList)
  /\ phase' = "done"
  /\ UNCHANGED <<data, pairs, index, first, eventList>>

-------------------------------------------------------------------------------

Next ==
  \/ PairInOrder \/ PairAtRandom
  \/ SingleEvent \/ StartParsing \/ ParsePair \/ ParsingEnds \/ Sort
  \/ Advance \/ RemoveBothTransitions \/ RemoveEarlierSet
  \/ RemoveTransitionBeforeSet \/ RemoveTransitionAfterSet \/ RemovingEnds

Spec == Init /\ [][Next]_vars /\ WF_vars(Next)

-------------------------------------------------------------------------------
(* What the list promises. *)

\* Every variable has its type; in particular each list holds events whose
\* time lies within a day and whose transitions have a positive length, the
\* assertion of the TransitionInfo constructor (transition_info.hpp).
TypeOK ==
  /\ data \in Backgrounds
  /\ phase \in Phases
  /\ pairs \in Seq([time : TimeOfDay, name : STRING])
  /\ phase # "order" => pairs # <<>>
  /\ index \in Nat \ {0}
  /\ first \in Nat \ {0}
  /\ eventList \in Seq(Events)

\* The assertion of the main loop never fails: the finished list ascends
\* strictly, for every order the sorts may leave equal times in, and for times
\* that are not sorted when they are paired (order: random).
FinishedListIsSorted == phase = "done" => StrictlySorted(eventList)

\* Why it does: the loop only moves on once the list ascends strictly up to
\* `first`, and no erase behind that point disturbs the order.
Ascends(list, upTo) ==
  \A i, j \in DOMAIN list :
    i < j => /\ list[i].time <= list[j].time
             /\ j <= upTo => list[i].time < list[j].time

RemovalLoopInvariant ==
  /\ phase \notin {"remove", "done"} => first = 1
  /\ phase \in {"remove", "done"} => Ascends(eventList, first)
  /\ phase = "done" => Len(eventList) <= first

\* Removing overlapping events never loses a configured time: whatever was
\* erased, each time of the pairs still has an event that sets an image, so the
\* finished list is not empty (the assertion of getCurrentEventAndNextTime).
HasSetAt(list, time) ==
  \E j \in DOMAIN list : IsSet(list[j]) /\ list[j].time = time

EveryTimeKeepsASetEvent ==
  phase \in {"sort", "remove", "done"} =>
    \A i \in DOMAIN pairs : HasSetAt(eventList, pairs[i].time)

\* The same, from the first pair that is parsed on.
ParsedTimesHaveSetEvents ==
  /\ phase \in {"order", "create"} => index = 1
  /\ phase = "parse" =>
       \A i \in DOMAIN pairs : i < index => HasSetAt(eventList, pairs[i].time)
  /\ EveryTimeKeepsASetEvent

\* Each transition of the list ends, to the second, at the time of a pair whose
\* image it fades to, coming from the image of the pair before that one, and
\* never lasts longer than configured, across midnight too.
IsTransitionInto(e, i) ==
  /\ e.start = pairs[Before(pairs, i)].name /\ e.end = pairs[i].name
  /\ Plus(e.time, e.duration) = pairs[i].time
  /\ e.duration <= data.transition.duration

TransitionsEndOnTime ==
  \A k \in DOMAIN eventList :
    IsLerp(eventList[k]) =>
      \E i \in DOMAIN pairs : IsTransitionInto(eventList[k], i)

\* createEventListFromTimesAndNames computes the schedule of the day, no event
\* missing, added or moved, whenever the pairs it is given have different times and
\* follow each other around the clock, sorted or not.
ListIsTheDaySchedule ==
  (phase = "done" /\ InTurn(pairs)) =>
    ToSet(eventList) = DaySchedule(data.transition, pairs)

\* The loop that erases elements of the vector computes the left-to-right pass
\* of EventList: no iteration changes what the pass makes of the list, and when
\* the loop ends the pass has nothing left to do.
LoopAgreesWithPass ==
  [][phase = "remove" =>
       /\ RemoveOverlapping(eventList') = RemoveOverlapping(eventList)
       /\ phase' = "done" => RemoveOverlapping(eventList') = eventList']_vars

\* The finished list is one of those the model of the main loop takes from
\* EventList.
FinishedListIsAnEventList == phase = "done" => eventList \in ListsFromPairs(data.transition, pairs)

\* The removal loop ends: every iteration advances or shortens the list.
BuildingTerminates == <>(phase = "done")

-------------------------------------------------------------------------------
(* What comments of the source say, and the code does not do. *)

\* "Removes events that start at the same time": an event the loop removes
\* starts at the same time as another event of the list.
OnlyOverlappingEventsAreRemoved ==
  [][phase = "remove" =>
       \A i \in DOMAIN eventList :
         eventList[i] \notin ToSet(eventList') =>
           \E j \in DOMAIN eventList \ {i} : eventList[j].time = eventList[i].time]_vars

===============================================================================
