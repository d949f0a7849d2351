------------------------------- MODULE EventList -------------------------------
(***************************************************************************)
(* The event list of a dynamic background set and the questions the main   *)
(* loop asks of it (src/src/dynamic_background_set.cpp).                   *)
(*                                                                         *)
(* A background set b is a record                                          *)
(*   times       the configured times of day, in the order of the file     *)
(*   imageNames  the configured images, in the order of the file           *)
(*   order       "linear" or "random"                                      *)
(*   transition  [duration, steps, inPlace] or NoTransition                *)
(*                                                                         *)
(* std::ranges::sort promises nothing about elements that compare equal,   *)
(* and a random order is a shuffle, so a background set has a SET of       *)
(* possible event lists.                                                   *)
(***************************************************************************)
EXTENDS TimeFromMidnight, SequencesExt

CONSTANTS Backgrounds,      \* the background sets considered
          NoTransition      \* the empty std::optional<TransitionInfo>

Transitions == [duration : Nat \ {0}, steps : Nat, inPlace : BOOLEAN]

\* What background_set.cpp can produce: at least one image and one time, and
\* a transition of positive length.
IsBackground(b) ==
  /\ DOMAIN b = {"times", "imageNames", "order", "transition"}
  /\ b.times \in Seq(TimeOfDay) /\ b.times # <<>>
  /\ b.imageNames \in Seq(STRING) /\ b.imageNames # <<>>
  /\ b.order \in {"linear", "random"}
  /\ b.transition \in Transitions \cup {NoTransition}

ASSUME BackgroundsAssumption == \A b \in Backgrounds : IsBackground(b)

-------------------------------------------------------------------------------
(* Events. *)

SetEvent(time, image) == [kind |-> "set", time |-> time, image |-> image]

LerpEvent(time, start, end, duration) ==
  [kind |-> "lerp", time |-> time, start |-> start, end |-> end,
   duration |-> duration]

SetEvents == [kind : {"set"}, time : TimeOfDay, image : STRING]

LerpEvents == [kind : {"lerp"}, time : TimeOfDay, start : STRING, end : STRING,
               duration : Nat \ {0}]

Events == SetEvents \cup LerpEvents

IsSet(e) == e.kind = "set"

IsLerp(e) == e.kind = "lerp"

EventDuration(e) == IF IsLerp(e) THEN e.duration ELSE 0

\* eventListIsSortedByTime: strictly ascending.
StrictlySorted(list) ==
  \A i, j \in DOMAIN list : i < j => list[i].time < list[j].time

-------------------------------------------------------------------------------
(* The configured times, paired with images. *)

\* What the set Permutations(S) of module TLC consists of, for the proofs.
IsPermutation(p, S) == p \in [S -> S] /\ \A i \in S : \E j \in S : p[j] = i

\* Everything std::ranges::sort may make of list.
SortedArrangements(list) ==
  {[i \in DOMAIN list |-> list[p[i]]] :
     p \in {q \in Permutations(DOMAIN list) :
              /\ \A i, j \in DOMAIN list : i < j => list[q[i]].time <= list[q[j]].time
              /\ IsPermutation(q, DOMAIN list)}}

\* Everything std::shuffle may make of names.
Shuffles(names) ==
  {[i \in DOMAIN names |-> names[p[i]]] :
     p \in {q \in Permutations(DOMAIN names) : IsPermutation(q, DOMAIN names)}}

Pair(time, name) == [time |-> time, name |-> name]

LinearPairs(b) ==
  [i \in DOMAIN b.times \cap DOMAIN b.imageNames |-> Pair(b.times[i], b.imageNames[i])]

\* i % names.size() for an index that starts at 1.
RandomPairs(b, names) ==
  [i \in DOMAIN b.times |-> Pair(b.times[i], names[((i - 1) % Len(names)) + 1])]

TimesAndNames(b) ==
  IF b.order = "linear"
  THEN SortedArrangements(LinearPairs(b))
  ELSE {RandomPairs(b, names) : names \in Shuffles(b.imageNames)}

-------------------------------------------------------------------------------
(* From the pairs to events. *)

\* Mutant: the start is cut but the duration is not.
NonOverlappingUncut(time, duration, after) ==
  LET notBefore == IF after > time THEN after - Day ELSE after
      start == IF time - duration >= notBefore THEN time - duration ELSE notBefore
  IN  [time |-> FromSeconds(start), duration |-> duration]

\* nonOverlappingTimeAndDuration: the transition that ends at `time`, cut so
\* that it starts no earlier than `after`.
NonOverlapping(time, duration, after) ==
  LET notBefore == IF after > time THEN after - Day ELSE after
      start == IF time - duration >= notBefore THEN time - duration ELSE notBefore
  IN  [time |-> FromSeconds(start), duration |-> Minus(time, start)]

\* Mutant: the first pair has no pair before it.
BeforeUnwrapped(pairs, i) == IF i = 1 THEN 1 ELSE i - 1

\* The pair shown before pairs[i]: mod(i - 1, size), the last one for the first.
Before(pairs, i) == IF i = 1 THEN Len(pairs) ELSE i - 1

\* Mutant: no second is left to the image before.
TransitionIntoAtOnce(transition, pairs, i) ==
  LET before == pairs[Before(pairs, i)]
      slot == NonOverlapping(pairs[i].time, transition.duration, before.time)
  IN  IF slot.duration > 0
      THEN <<LerpEvent(slot.time, before.name, pairs[i].name, slot.duration)>>
      ELSE <<>>

\* The transition into pairs[i], if there is room for one: it fades from the
\* image of the pair before.
TransitionInto(transition, pairs, i) ==
  LET before == pairs[Before(pairs, i)]
      slot == NonOverlapping(pairs[i].time, transition.duration, Plus(before.time, 1))
  IN  IF slot.duration > 0
      THEN <<LerpEvent(slot.time, before.name, pairs[i].name, slot.duration)>>
      ELSE <<>>

\* What one iteration of parseTimesAndNamesToEventList appends.
EventsAt(transition, pairs, i) ==
  (IF transition = NoTransition THEN <<>> ELSE TransitionInto(transition, pairs, i))
    \o <<SetEvent(pairs[i].time, pairs[i].name)>>

ParsedEvents(transition, pairs) ==
  FlattenSeq([i \in DOMAIN pairs |-> EventsAt(transition, pairs, i)])

-------------------------------------------------------------------------------
(* removeOverlappingEvents as one left-to-right pass.  EventListBuilder has *)
(* the loop itself and is checked against this pass.                       *)

\* kept is the list up to index `first`.  After a transition was erased in
\* front of a set event, the reference to the second event designates the
\* element that moved into its place: if that is a transition it is erased
\* too (eraseLerp), whatever its time.
RemoveStep(acc, e) ==
  LET last == Last(acc.kept)
      others == Front(acc.kept)
      Keep(list) == [kept |-> list, eraseLerp |-> FALSE]
  IN  IF acc.eraseLerp /\ IsLerp(e) THEN Keep(acc.kept)
      ELSE IF acc.kept = <<>> \/ last.time # e.time THEN Keep(Append(acc.kept, e))
      ELSE CASE IsLerp(last) /\ IsLerp(e) -> Keep(others)
             [] IsSet(last)  /\ IsSet(e)  -> Keep(Append(others, e))
             [] IsSet(last)  /\ IsLerp(e) -> Keep(acc.kept)
             [] IsLerp(last) /\ IsSet(e)  -> [kept |-> Append(others, e), eraseLerp |-> TRUE]

RemoveOverlapping(list) ==
  FoldLeft(RemoveStep, [kept |-> <<>>, eraseLerp |-> FALSE], list).kept

\* createEventListFromTimesAndNames, for every outcome of the sorts.
ListsFromPairs(transition, pairs) ==
  IF Len(pairs) = 1
  THEN {<<SetEvent(pairs[1].time, pairs[1].name)>>}
  ELSE {RemoveOverlapping(list) : list \in SortedArrangements(ParsedEvents(transition, pairs))}

\* getEventList.
EventLists(b) ==
  UNION {ListsFromPairs(b.transition, pairs) : pairs \in TimesAndNames(b)}

-------------------------------------------------------------------------------
(* The schedule a reader of the configuration expects when all times differ: *)
(* an image set at each time, and before it a transition of the configured   *)
(* length, shortened to leave the image before it on screen for a second.    *)

GapBefore(pairs, i) == Minus(pairs[i].time, pairs[Before(pairs, i)].time)

\* The pairs follow each other around the clock: between the pair before and a pair
\* there is no other.
InTurn(pairs) ==
  \A i, j \in DOMAIN pairs :
    i # j => /\ pairs[i].time # pairs[j].time
             /\ GapBefore(pairs, i) <= Minus(pairs[i].time, pairs[j].time)

\* However the times and the images of a background set are paired.  For a linear set it
\* is enough that the times differ; the times of a random one are not sorted, and have to
\* ascend from some point of the file on, around to it.
TakesTurns(b) == \A pairs \in TimesAndNames(b) : InTurn(pairs)

TransitionOfDay(transition, pairs, i) ==
  LET length == Min({transition.duration, GapBefore(pairs, i) - 1})
  IN  LerpEvent(Minus(pairs[i].time, length),
                pairs[Before(pairs, i)].name, pairs[i].name, length)

DaySchedule(transition, pairs) ==
  {SetEvent(pairs[i].time, pairs[i].name) : i \in DOMAIN pairs}
    \cup IF transition = NoTransition THEN {}
         ELSE {TransitionOfDay(transition, pairs, i) :
                 i \in {j \in DOMAIN pairs : GapBefore(pairs, j) > 1}}

-------------------------------------------------------------------------------
(* The questions of the main loop. *)

\* getCurrentEventAndNextTime.
CurrentIndex(list, time) ==
  LET begun == {i \in DOMAIN list : list[i].time <= time}
  IN  IF begun = {} THEN Len(list) ELSE Max(begun)

\* Mutant: the next event is always the first of the day.
NextIndexFront(list, i) == 1

NextIndex(list, i) == IF i = Len(list) THEN 1 ELSE i + 1

\* Mutant: the time the event took is slept again.
TimeUntilNextUnspent(now, eventDuration, later) ==
  IF now < later THEN later - now ELSE Day - now + later

\* timeUntilNext.
TimeUntilNext(now, eventDuration, later) ==
  LET untilLater == IF now < later THEN later - now ELSE Day - now + later
      sleep == untilLater - eventDuration
  IN  IF sleep < 0 THEN 0 ELSE IF sleep > Day THEN Day ELSE sleep

===============================================================================
