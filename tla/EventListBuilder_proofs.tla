------------------------ MODULE EventListBuilder_proofs ------------------------
(***************************************************************************)
(* Proofs about the construction of the event list, for every day length   *)
(* and every background set.                                               *)
(***************************************************************************)
EXTENDS EventListBuilder, EventList_proofs

-------------------------------------------------------------------------------
(* The operators the builder is made of. *)

\* Erasing from..to keeps the elements on both sides, in order.
LEMMA ErasedProperties ==
  ASSUME NEW S, NEW list \in Seq(S),
         NEW from \in 1 .. Len(list), NEW to \in from .. Len(list)
  PROVE  /\ Erased(list, from, to) \in Seq(S)
         /\ Len(Erased(list, from, to)) = Len(list) - (to - from + 1)
         /\ \A i \in 1 .. (Len(list) - (to - from + 1)) :
              Erased(list, from, to)[i] =
                IF i < from THEN list[i] ELSE list[i + (to - from + 1)]
<1> DEFINE left == SubSeq(list, 1, from - 1)
           right == SubSeq(list, to + 1, Len(list))
<1>1. /\ left \in Seq(S) /\ Len(left) = from - 1
      /\ \A i \in 1 .. from - 1 : left[i] = list[i]
  BY SubSeqProperties
<1>2. /\ right \in Seq(S) /\ Len(right) = Len(list) - to
      /\ \A i \in 1 .. Len(list) - to : right[i] = list[to + i]
  BY SubSeqProperties
<1>3. Erased(list, from, to) = left \o right
  BY DEF Erased
<1> HIDE DEF left, right
<1>4. /\ left \o right \in Seq(S)
      /\ Len(left \o right) = Len(left) + Len(right)
      /\ \A i \in 1 .. Len(left) + Len(right) :
           (left \o right)[i] = IF i <= Len(left) THEN left[i] ELSE right[i - Len(left)]
  BY <1>1, <1>2, ConcatProperties
<1>5. Len(left) + Len(right) = Len(list) - (to - from + 1)
  BY <1>1, <1>2
<1>6. ASSUME NEW i \in 1 .. (Len(list) - (to - from + 1))
      PROVE  (left \o right)[i] = IF i < from THEN list[i] ELSE list[i + (to - from + 1)]
  <2>1. (left \o right)[i] = IF i <= Len(left) THEN left[i] ELSE right[i - Len(left)]
    BY <1>4, <1>5
  <2>2. CASE i < from
    BY <2>1, <2>2, <1>1
  <2>3. CASE ~(i < from)
    <3>1. i - (from - 1) \in 1 .. Len(list) - to
      BY <2>3
    <3>2. right[i - (from - 1)] = list[to + (i - (from - 1))]
      BY <3>1, <1>2
    <3>3. QED
      BY <2>1, <2>3, <3>2, <1>1
  <2>4. QED
    BY <2>2, <2>3
<1>7. QED
  BY <1>3, <1>4, <1>5, <1>6

\* Erasing one element.
LEMMA ErasedOne ==
  ASSUME NEW S, NEW list \in Seq(S), NEW at \in 1 .. Len(list)
  PROVE  /\ Erased(list, at, at) \in Seq(S)
         /\ Len(Erased(list, at, at)) = Len(list) - 1
         /\ \A i \in 1 .. (Len(list) - 1) :
              Erased(list, at, at)[i] = IF i < at THEN list[i] ELSE list[i + 1]
<1> DEFINE rest == Erased(list, at, at)
<1>1. at \in at .. Len(list) /\ at - at + 1 = 1
  OBVIOUS
<1>2. /\ rest \in Seq(S) /\ Len(rest) = Len(list) - (at - at + 1)
      /\ \A i \in 1 .. (Len(list) - (at - at + 1)) :
           rest[i] = IF i < at THEN list[i] ELSE list[i + (at - at + 1)]
  BY <1>1, ErasedProperties
<1> HIDE DEF rest
<1>3. QED
  BY <1>1, <1>2 DEF rest

-------------------------------------------------------------------------------
(* The type invariant. *)

LEMMA TypeInit == Init => TypeOK
BY DEF Init, TypeOK, Phases

LEMMA TypeNext == TypeOK /\ [Next]_vars => TypeOK'
<1> SUFFICES ASSUME TypeOK, [Next]_vars PROVE TypeOK'
  OBVIOUS
<1> USE DEF TypeOK, Phases
<1>1. CASE PairInOrder
  <2>1. LinearPairs(data) \in Seq(Pairs) /\ Len(LinearPairs(data)) # 0
    BY LinearPairsType
  <2>2. pairs' \in Seq(Pairs) /\ Len(pairs') # 0
    BY <1>1, <2>1, SortedArrangementsProperties DEF PairInOrder
  <2>3. QED
    BY <1>1, <2>2 DEF PairInOrder, Pairs
<1>2. CASE PairAtRandom
  <2>1. pairs' \in Seq(Pairs) /\ Len(pairs') # 0
    BY <1>2, RandomPairsType DEF PairAtRandom
  <2>2. QED
    BY <1>2, <2>1 DEF PairAtRandom, Pairs
<1>3. CASE SingleEvent
  <2>1. SetEvent(pairs[1].time, pairs[1].name) \in Events
    <3>1. pairs \in Seq(Pairs)
      BY DEF Pairs
    <3>2. pairs[1] \in Pairs
      BY <1>3, <3>1, ElementOfSeq DEF SingleEvent
    <3>3. QED
      BY <3>2 DEF Pairs, SetEvent, SetEvents, Events
  <2>2. QED
    BY <1>3, <2>1 DEF SingleEvent
<1>4. CASE StartParsing
  BY <1>4 DEF StartParsing
<1>5. CASE ParsePair
  <2>1. EventsAt(data.transition, pairs, index) \in Seq(Events)
    <3>1. pairs \in Seq(Pairs)
      BY DEF Pairs
    <3>2. index \in 1 .. Len(pairs)
      BY <1>5 DEF ParsePair
    <3>3. QED
      BY <3>1, <3>2, EventsAtType
  <2>2. eventList' \in Seq(Events)
    BY <1>5, <2>1, ConcatProperties DEF ParsePair
  <2>3. QED
    BY <1>5, <2>2 DEF ParsePair
<1>6. CASE ParsingEnds
  BY <1>6 DEF ParsingEnds
<1>7. CASE Sort
  <2>1. eventList' \in Seq(Events)
    BY <1>7, SortedArrangementsProperties DEF Sort
  <2>2. QED
    BY <1>7, <2>1 DEF Sort
<1>8. CASE Advance
  BY <1>8 DEF Advance
<1>9. CASE RemoveBothTransitions
  <2>1. eventList' \in Seq(Events)
    BY <1>9, ErasedProperties DEF RemoveBothTransitions, Overlap, second
  <2>2. QED
    BY <1>9, <2>1 DEF RemoveBothTransitions, Overlap
<1>10. CASE RemoveEarlierSet
  <2>1. eventList' \in Seq(Events)
    BY <1>10, ErasedProperties DEF RemoveEarlierSet, Overlap, second
  <2>2. QED
    BY <1>10, <2>1 DEF RemoveEarlierSet, Overlap
<1>11. CASE RemoveTransitionBeforeSet
  <2>1. eventList' \in Seq(Events)
    <3> DEFINE remaining == Erased(eventList, first, first)
    <3>1. remaining \in Seq(Events)
      BY <1>11, ErasedProperties DEF RemoveTransitionBeforeSet, Overlap, second
    <3> HIDE DEF remaining
    <3>2. second <= Len(remaining) => Erased(remaining, second, second) \in Seq(Events)
      BY <3>1, ErasedProperties DEF second
    <3>3. eventList' = remaining \/ /\ second <= Len(remaining)
                                    /\ eventList' = Erased(remaining, second, second)
      BY <1>11 DEF RemoveTransitionBeforeSet, remaining
    <3>4. QED
      BY <3>1, <3>2, <3>3
  <2>2. QED
    BY <1>11, <2>1 DEF RemoveTransitionBeforeSet, Overlap
<1>12. CASE RemoveTransitionAfterSet
  <2>1. eventList' \in Seq(Events)
    BY <1>12, ErasedProperties DEF RemoveTransitionAfterSet, Overlap, second
  <2>2. QED
    BY <1>12, <2>1 DEF RemoveTransitionAfterSet, Overlap
<1>13. CASE RemovingEnds
  BY <1>13 DEF RemovingEnds
<1>14. CASE UNCHANGED vars
  BY <1>14 DEF vars
<1>15. QED
  BY <1>1, <1>2, <1>3, <1>4, <1>5, <1>6, <1>7, <1>8, <1>9, <1>10, <1>11,
     <1>12, <1>13, <1>14 DEF Next

\* Whatever the configuration, the builder only ever holds lists of events of
\* the day whose transitions have a positive length: parsing, sorting and every
\* erase of the removal loop stay within the vector.
THEOREM TypeCorrect == Spec => []TypeOK
<1>1. QED
  BY TypeInit, TypeNext, PTL DEF Spec

-------------------------------------------------------------------------------
(* The finished list ascends strictly. *)

LEMMA AscendsAt ==
  ASSUME NEW list \in Seq(Events), NEW upTo \in Nat, Ascends(list, upTo),
         NEW a \in 1 .. Len(list), NEW b \in 1 .. Len(list), a < b
  PROVE  /\ list[a].time <= list[b].time
         /\ b <= upTo => list[a].time < list[b].time
<1>1. a \in DOMAIN list /\ b \in DOMAIN list
  OBVIOUS
<1> QED
  BY <1>1 DEF Ascends

\* Erasing at or behind the point up to which a list ascends strictly keeps it
\* ascending strictly up to that point.
LEMMA ErasedAscends ==
  ASSUME NEW list \in Seq(Events), NEW upTo \in Nat \ {0}, Ascends(list, upTo),
         NEW from \in 1 .. Len(list), NEW to \in from .. Len(list), upTo <= from
  PROVE  Ascends(Erased(list, from, to), upTo)
<1> DEFINE rest == Erased(list, from, to)
           gone == to - from + 1
           Old(i) == IF i < from THEN i ELSE i + gone
<1>1. /\ rest \in Seq(Events) /\ Len(rest) = Len(list) - gone
      /\ \A i \in 1 .. Len(rest) : rest[i] = list[Old(i)]
  <2>1. /\ Erased(list, from, to) \in Seq(Events)
        /\ Len(Erased(list, from, to)) = Len(list) - (to - from + 1)
        /\ \A i \in 1 .. (Len(list) - (to - from + 1)) :
             Erased(list, from, to)[i] =
               IF i < from THEN list[i] ELSE list[i + (to - from + 1)]
    BY ErasedProperties
  <2>2. \A i \in 1 .. (Len(list) - gone) : rest[i] = list[Old(i)]
    BY <2>1
  <2>3. QED
    BY <2>1, <2>2
<1> HIDE DEF rest
<1>2. SUFFICES ASSUME NEW i \in 1 .. Len(rest), NEW j \in 1 .. Len(rest), i < j
               PROVE  /\ rest[i].time <= rest[j].time
                      /\ j <= upTo => rest[i].time < rest[j].time
  <2>1. DOMAIN rest = 1 .. Len(rest)
    BY <1>1
  <2>2. Ascends(rest, upTo)
    BY <2>1 DEF Ascends
  <2>3. QED
    BY <2>2 DEF rest
<1>3. /\ Old(i) \in 1 .. Len(list) /\ Old(j) \in 1 .. Len(list)
      /\ Old(i) < Old(j)
  BY <1>1, <1>2
<1>4. rest[i] = list[Old(i)] /\ rest[j] = list[Old(j)]
  BY <1>1
<1>5. rest[i].time <= rest[j].time
  <2> HIDE DEF Old
  <2>1. list[Old(i)].time <= list[Old(j)].time
    BY <1>3, AscendsAt
  <2> QED
    BY <1>4, <2>1
<1>6. ASSUME j <= upTo PROVE rest[i].time < rest[j].time
  <2>1. i < from /\ Old(i) = i /\ i < upTo
    BY <1>2, <1>6
  <2>2. upTo \in 1 .. Len(list) /\ list[i].time < list[upTo].time
    <3>1. i \in 1 .. Len(list) /\ upTo \in 1 .. Len(list) /\ i < upTo
      BY <1>3, <2>1
    <3> QED
      BY <3>1, AscendsAt
  <2>3. CASE j < from
    <3>1. Old(j) = j
      BY <2>3
    <3>2. list[i].time < list[j].time
      BY <1>3, <1>6, <1>2, <2>1, <3>1, AscendsAt
    <3> QED
      BY <1>4, <2>1, <3>1, <3>2
  <2>4. CASE ~(j < from)
    <3>1. upTo < Old(j)
      BY <1>6, <2>4
    <3>2. list[upTo].time <= list[Old(j)].time
      <4> HIDE DEF Old
      <4> QED
        BY <1>3, <2>2, <3>1, AscendsAt
    <3>3. list[i].time \in Int /\ list[upTo].time \in Int /\ list[Old(j)].time \in Int
      BY <1>3, <2>1, <2>2, EventTime
    <3>4. QED
      BY <1>4, <2>1, <2>2, <3>2, <3>3
  <2>5. QED
    BY <2>3, <2>4
<1>7. QED
  BY <1>5, <1>6

LEMMA RemovalInit == Init => RemovalLoopInvariant
BY DEF Init, RemovalLoopInvariant

LEMMA RemovalNext == TypeOK /\ RemovalLoopInvariant /\ [Next]_vars => RemovalLoopInvariant'
<1> SUFFICES ASSUME TypeOK, RemovalLoopInvariant, [Next]_vars
             PROVE  RemovalLoopInvariant'
  OBVIOUS
<1>1. eventList \in Seq(Events) /\ first \in Nat \ {0}
  BY DEF TypeOK
<1>2. ASSUME phase = "remove", phase' = "remove", first' = first,
             NEW from \in 1 .. Len(eventList), NEW to \in from .. Len(eventList),
             first <= from, eventList' = Erased(eventList, from, to)
      PROVE  RemovalLoopInvariant'
  <2>1. Ascends(eventList, first)
    BY <1>2 DEF RemovalLoopInvariant
  <2>2. Ascends(eventList', first')
    BY <1>1, <1>2, <2>1, ErasedAscends
  <2>3. QED
    BY <1>2, <2>2 DEF RemovalLoopInvariant
<1>3. CASE PairInOrder \/ PairAtRandom \/ StartParsing \/ ParsePair \/ ParsingEnds
  BY <1>3 DEF RemovalLoopInvariant, PairInOrder, PairAtRandom, StartParsing,
              ParsePair, ParsingEnds
<1>4. CASE SingleEvent
  BY <1>4 DEF RemovalLoopInvariant, SingleEvent, Ascends
<1>5. CASE Sort
  <2>1. /\ eventList' \in Seq(Events)
        /\ \A i, j \in 1 .. Len(eventList') : i < j => eventList'[i].time <= eventList'[j].time
    BY <1>1, <1>5, SortedArrangementsProperties DEF Sort
  <2>2. DOMAIN eventList' = 1 .. Len(eventList')
    BY <2>1
  <2>3. first' = 1 /\ phase' = "remove"
    BY <1>5 DEF RemovalLoopInvariant, Sort
  <2>4. Ascends(eventList', first')
    BY <2>1, <2>2, <2>3 DEF Ascends
  <2>5. QED
    BY <2>3, <2>4 DEF RemovalLoopInvariant
<1>6. CASE Advance
  <2>1. /\ phase = "remove" /\ phase' = "remove" /\ eventList' = eventList
        /\ first' = first + 1 /\ first + 1 \in 1 .. Len(eventList)
        /\ eventList[first].time # eventList[first + 1].time
    BY <1>1, <1>6 DEF Advance, second
  <2>2. DOMAIN eventList = 1 .. Len(eventList)
    BY <1>1
  <2>3. Ascends(eventList, first)
    BY <2>1 DEF RemovalLoopInvariant
  <2>4. ASSUME NEW i \in 1 .. Len(eventList), NEW j \in 1 .. Len(eventList), i < j
        PROVE  /\ eventList[i].time <= eventList[j].time
               /\ j <= first + 1 => eventList[i].time < eventList[j].time
    <3>1. eventList[i].time <= eventList[j].time
      BY <2>2, <2>3, <2>4 DEF Ascends
    <3>2. CASE j <= first
      BY <2>2, <2>3, <2>4, <3>1, <3>2 DEF Ascends
    <3>3. CASE j = first + 1
      <4>1. first \in 1 .. Len(eventList)
        BY <1>1, <2>1
      <4>2. /\ eventList[first].time \in Int /\ eventList[j].time \in Int
            /\ eventList[i].time \in Int
        BY <1>1, <4>1, EventTime
      <4>3. eventList[first].time < eventList[j].time
        BY <2>1, <2>2, <2>3, <3>3, <4>1, <4>2 DEF Ascends
      <4>4. i < first => eventList[i].time < eventList[first].time
        BY <2>2, <2>3, <4>1 DEF Ascends
      <4>5. i < first \/ i = first
        BY <1>1, <2>4, <3>3
      <4>6. QED
        BY <3>1, <4>2, <4>3, <4>4, <4>5
    <3>4. QED
      BY <1>1, <3>1, <3>2, <3>3
  <2>5. Ascends(eventList, first + 1)
    BY <2>2, <2>4 DEF Ascends
  <2>6. QED
    BY <2>1, <2>5 DEF RemovalLoopInvariant
<1>7. CASE RemoveBothTransitions
  BY <1>1, <1>2, <1>7 DEF RemoveBothTransitions, Overlap, second
<1>8. CASE RemoveEarlierSet
  BY <1>1, <1>2, <1>8 DEF RemoveEarlierSet, Overlap, second
<1>9. CASE RemoveTransitionAfterSet
  BY <1>1, <1>2, <1>9 DEF RemoveTransitionAfterSet, Overlap, second
<1>10. CASE RemoveTransitionBeforeSet
  <2> DEFINE remaining == Erased(eventList, first, first)
  <2>1. /\ phase = "remove" /\ phase' = "remove" /\ first' = first
        /\ first \in 1 .. Len(eventList)
        /\ \/ eventList' = remaining
           \/ second <= Len(remaining) /\ eventList' = Erased(remaining, second, second)
    BY <1>1, <1>10 DEF RemoveTransitionBeforeSet, Overlap, second
  <2>2. remaining \in Seq(Events)
    BY <1>1, <2>1, ErasedProperties
  <2>3. Ascends(remaining, first)
    BY <1>1, <2>1, ErasedAscends DEF RemovalLoopInvariant
  <2> HIDE DEF remaining
  <2>4. second <= Len(remaining) => Ascends(Erased(remaining, second, second), first)
    BY <1>1, <2>2, <2>3, ErasedAscends DEF second
  <2>5. Ascends(eventList', first')
    BY <2>1, <2>3, <2>4
  <2>6. QED
    BY <2>1, <2>5 DEF RemovalLoopInvariant
<1>11. CASE RemovingEnds
  <2>1. Len(eventList) <= first
    BY <1>1, <1>11 DEF RemovingEnds, second
  <2>2. QED
    BY <1>11, <2>1 DEF RemovingEnds, RemovalLoopInvariant
<1>12. CASE UNCHANGED vars
  BY <1>12 DEF vars, RemovalLoopInvariant
<1>13. QED
  BY <1>3, <1>4, <1>5, <1>6, <1>7, <1>8, <1>9, <1>10, <1>11, <1>12 DEF Next

\* The invariant of the loop of removeOverlappingEvents.
THEOREM RemovalLoopCorrect == Spec => []RemovalLoopInvariant
<1>1. QED
  BY TypeInit, TypeNext, RemovalInit, RemovalNext, PTL DEF Spec

\* The assertion that the event list is sorted never fails, for any number of
\* times in any order, equal or not, and any outcome of the sorts.
THEOREM FinishedListIsAlwaysSorted == Spec => []FinishedListIsSorted
<1>1. TypeOK /\ RemovalLoopInvariant => FinishedListIsSorted
  <2> SUFFICES ASSUME TypeOK, RemovalLoopInvariant, phase = "done"
               PROVE  StrictlySorted(eventList)
    BY DEF FinishedListIsSorted
  <2>1. DOMAIN eventList = 1 .. Len(eventList) /\ first \in Nat
    BY DEF TypeOK
  <2>2. Ascends(eventList, first) /\ Len(eventList) <= first
    BY DEF RemovalLoopInvariant
  <2>3. QED
    BY <2>1, <2>2 DEF Ascends, StrictlySorted
<1>2. QED
  BY <1>1, TypeCorrect, RemovalLoopCorrect, PTL

-------------------------------------------------------------------------------
(* No configured time loses its set event. *)

\* An event that is not erased is still there.
LEMMA ErasedKeeps ==
  ASSUME NEW list \in Seq(Events),
         NEW from \in 1 .. Len(list), NEW to \in from .. Len(list),
         NEW i \in 1 .. Len(list), ~(from <= i /\ i <= to)
  PROVE  \E j \in DOMAIN Erased(list, from, to) : Erased(list, from, to)[j] = list[i]
<1> DEFINE rest == Erased(list, from, to)
           gone == to - from + 1
           j == IF i < from THEN i ELSE i - gone
<1>1. /\ Erased(list, from, to) \in Seq(Events)
      /\ Len(Erased(list, from, to)) = Len(list) - (to - from + 1)
      /\ \A k \in 1 .. (Len(list) - (to - from + 1)) :
           Erased(list, from, to)[k] =
             IF k < from THEN list[k] ELSE list[k + (to - from + 1)]
  BY ErasedProperties
<1>2. j \in 1 .. (Len(list) - (to - from + 1))
  OBVIOUS
<1>3. rest[j] = list[i]
  <2>1. rest[j] = IF j < from THEN list[j] ELSE list[j + (to - from + 1)]
    BY <1>1, <1>2
  <2>2. CASE i < from
    BY <2>1, <2>2
  <2>3. CASE ~(i < from)
    <3>1. ~(j < from) /\ j + (to - from + 1) = i
      BY <2>3
    <3>2. QED
      BY <2>1, <3>1
  <2>4. QED
    BY <2>2, <2>3
<1>4. j \in DOMAIN rest
  BY <1>1, <1>2
<1>5. QED
  BY <1>3, <1>4

\* Erasing events keeps a set event at a time when each erased set event at
\* that time has another one outside of what is erased.
LEMMA ErasedKeepsSet ==
  ASSUME NEW list \in Seq(Events), NEW time, HasSetAt(list, time),
         NEW from \in 1 .. Len(list), NEW to \in from .. Len(list),
         \A i \in from .. to : IsSet(list[i]) =>
           \E k \in 1 .. Len(list) :
             /\ ~(from <= k /\ k <= to)
             /\ IsSet(list[k]) /\ list[k].time = list[i].time
  PROVE  HasSetAt(Erased(list, from, to), time)
<1>1. PICK i \in 1 .. Len(list) : IsSet(list[i]) /\ list[i].time = time
  BY DEF HasSetAt
<1>2. PICK k \in 1 .. Len(list) :
        ~(from <= k /\ k <= to) /\ IsSet(list[k]) /\ list[k].time = time
  BY <1>1
<1>3. PICK j \in DOMAIN Erased(list, from, to) : Erased(list, from, to)[j] = list[k]
  BY <1>2, ErasedKeeps
<1>4. QED
  BY <1>2, <1>3 DEF HasSetAt

LEMMA ParsedInit == Init => ParsedTimesHaveSetEvents
BY DEF Init, ParsedTimesHaveSetEvents, EveryTimeKeepsASetEvent

LEMMA ParsedNext ==
  TypeOK /\ ParsedTimesHaveSetEvents /\ [Next]_vars => ParsedTimesHaveSetEvents'
<1> SUFFICES ASSUME TypeOK, ParsedTimesHaveSetEvents, [Next]_vars
             PROVE  ParsedTimesHaveSetEvents'
  OBVIOUS
<1> USE DEF ParsedTimesHaveSetEvents, EveryTimeKeepsASetEvent
<1>1. /\ eventList \in Seq(Events) /\ first \in Nat \ {0} /\ index \in Nat \ {0}
      /\ pairs \in Seq(Pairs) /\ data \in Backgrounds
  BY DEF TypeOK, Pairs
<1>2. ASSUME phase = "remove", phase' = "remove", pairs' = pairs,
             \A time : HasSetAt(eventList, time) => HasSetAt(eventList', time)
      PROVE  ParsedTimesHaveSetEvents'
  BY <1>2
<1>3. CASE PairInOrder \/ PairAtRandom \/ StartParsing
  BY <1>3, <1>1 DEF PairInOrder, PairAtRandom, StartParsing
<1>4. CASE SingleEvent
  <2>1. \A i \in DOMAIN pairs : i = 1
    BY <1>1, <1>4 DEF SingleEvent
  <2>2. eventList' = <<SetEvent(pairs[1].time, pairs[1].name)>> /\ phase' = "done"
        /\ pairs' = pairs
    BY <1>4 DEF SingleEvent
  <2>3. 1 \in DOMAIN eventList' /\ eventList'[1] = SetEvent(pairs[1].time, pairs[1].name)
    BY <2>2
  <2>4. HasSetAt(eventList', pairs[1].time)
    BY <2>3 DEF HasSetAt, SetEvent, IsSet
  <2>5. QED
    BY <2>1, <2>2, <2>4
<1>5. CASE ParsePair
  <2> DEFINE added == EventsAt(data.transition, pairs, index)
  <2>1. /\ phase = "parse" /\ phase' = "parse" /\ pairs' = pairs
        /\ index \in 1 .. Len(pairs) /\ index' = index + 1
        /\ eventList' = eventList \o added
    BY <1>1, <1>5 DEF ParsePair
  <2>2. /\ added \in Seq(Events) /\ Len(added) \in Nat \ {0}
        /\ added[Len(added)] = SetEvent(pairs[index].time, pairs[index].name)
    BY <1>1, <2>1, EventsAtType
  <2> HIDE DEF added
  <2>3. /\ eventList' \in Seq(Events)
        /\ Len(eventList') = Len(eventList) + Len(added)
        /\ \A i \in 1 .. Len(eventList) + Len(added) :
             eventList'[i] = IF i <= Len(eventList) THEN eventList[i]
                             ELSE added[i - Len(eventList)]
    BY <1>1, <2>1, <2>2, ConcatProperties
  <2>4. HasSetAt(eventList', pairs[index].time)
    <3>1. Len(eventList) + Len(added) \in DOMAIN eventList'
      BY <1>1, <2>2, <2>3
    <3>2. eventList'[Len(eventList) + Len(added)] = added[Len(added)]
      BY <1>1, <2>2, <2>3
    <3>3. QED
      BY <2>2, <3>1, <3>2 DEF HasSetAt, SetEvent, IsSet
  <2>5. \A time : HasSetAt(eventList, time) => HasSetAt(eventList', time)
    <3> SUFFICES ASSUME NEW time, HasSetAt(eventList, time)
                 PROVE  HasSetAt(eventList', time)
      OBVIOUS
    <3>1. PICK i \in 1 .. Len(eventList) : IsSet(eventList[i]) /\ eventList[i].time = time
      BY <1>1 DEF HasSetAt
    <3>2. i \in DOMAIN eventList' /\ eventList'[i] = eventList[i]
      BY <1>1, <2>2, <2>3
    <3>3. QED
      BY <3>1, <3>2 DEF HasSetAt
  <2>6. ASSUME NEW i \in DOMAIN pairs, i < index + 1
        PROVE  HasSetAt(eventList', pairs[i].time)
    <3>1. i < index \/ i = index
      BY <1>1, <2>6
    <3>2. QED
      BY <2>1, <2>4, <2>5, <3>1
  <2>7. QED
    BY <2>1, <2>6
<1>6. CASE ParsingEnds
  BY <1>1, <1>6 DEF ParsingEnds
<1>7. CASE Sort
  <2>1. /\ eventList' \in Seq(Events) /\ Len(eventList') = Len(eventList)
        /\ \A i \in 1 .. Len(eventList) :
             \E j \in 1 .. Len(eventList) : eventList'[j] = eventList[i]
    BY <1>1, <1>7, SortedArrangementsProperties DEF Sort
  <2>2. \A time : HasSetAt(eventList, time) => HasSetAt(eventList', time)
    BY <1>1, <2>1 DEF HasSetAt
  <2>3. QED
    BY <1>7, <2>2 DEF Sort
<1>8. CASE Advance \/ RemovingEnds
  BY <1>8 DEF Advance, RemovingEnds
<1>9. CASE RemoveBothTransitions
  <2>1. /\ phase = "remove" /\ phase' = "remove" /\ pairs' = pairs
        /\ first \in 1 .. Len(eventList) /\ first + 1 \in first .. Len(eventList)
        /\ eventList' = Erased(eventList, first, first + 1)
        /\ \A i \in first .. first + 1 : ~IsSet(eventList[i])
    BY <1>1, <1>9 DEF RemoveBothTransitions, Overlap, second, IsLerp, IsSet
  <2>2. QED
    BY <1>1, <1>2, <2>1, ErasedKeepsSet
<1>10. CASE RemoveEarlierSet
  <2>1. /\ phase = "remove" /\ phase' = "remove" /\ pairs' = pairs
        /\ first \in 1 .. Len(eventList) /\ first + 1 \in 1 .. Len(eventList)
        /\ eventList' = Erased(eventList, first, first)
        /\ IsSet(eventList[first + 1])
        /\ eventList[first + 1].time = eventList[first].time
    BY <1>1, <1>10 DEF RemoveEarlierSet, Overlap, second
  <2>2. QED
    BY <1>1, <1>2, <2>1, ErasedKeepsSet
<1>11. CASE RemoveTransitionAfterSet
  <2>1. /\ phase = "remove" /\ phase' = "remove" /\ pairs' = pairs
        /\ first + 1 \in 1 .. Len(eventList)
        /\ eventList' = Erased(eventList, first + 1, first + 1)
        /\ ~IsSet(eventList[first + 1])
    BY <1>1, <1>11 DEF RemoveTransitionAfterSet, Overlap, second, IsLerp, IsSet
  <2>2. QED
    BY <1>1, <1>2, <2>1, ErasedKeepsSet
<1>12. CASE RemoveTransitionBeforeSet
  <2> DEFINE remaining == Erased(eventList, first, first)
  <2>1. /\ phase = "remove" /\ phase' = "remove" /\ pairs' = pairs
        /\ first \in 1 .. Len(eventList) /\ ~IsSet(eventList[first])
        /\ \/ eventList' = remaining
           \/ /\ second <= Len(remaining) /\ IsLerp(remaining[second])
              /\ eventList' = Erased(remaining, second, second)
    BY <1>1, <1>12 DEF RemoveTransitionBeforeSet, Overlap, second, IsLerp, IsSet
  <2>2. /\ remaining \in Seq(Events)
        /\ \A time : HasSetAt(eventList, time) => HasSetAt(remaining, time)
    BY <1>1, <2>1, ErasedProperties, ErasedKeepsSet
  <2> HIDE DEF remaining
  <2>3. ASSUME second <= Len(remaining), IsLerp(remaining[second]),
               NEW time, HasSetAt(remaining, time)
        PROVE  HasSetAt(Erased(remaining, second, second), time)
    <3>1. second \in 1 .. Len(remaining) /\ ~IsSet(remaining[second])
      BY <1>1, <2>2, <2>3 DEF second, IsLerp, IsSet
    <3>2. QED
      BY <2>2, <2>3, <3>1, ErasedKeepsSet
  <2>4. \A time : HasSetAt(eventList, time) => HasSetAt(eventList', time)
    BY <2>1, <2>2, <2>3
  <2>5. QED
    BY <1>2, <2>1, <2>4
<1>13. CASE UNCHANGED vars
  BY <1>13 DEF vars
<1>14. QED
  BY <1>3, <1>4, <1>5, <1>6, <1>7, <1>8, <1>9, <1>10, <1>11, <1>12, <1>13 DEF Next

\* Whatever is erased, every configured time keeps an event that sets an image.
THEOREM EveryTimeAlwaysKeepsASetEvent == Spec => []EveryTimeKeepsASetEvent
<1>1. ParsedTimesHaveSetEvents => EveryTimeKeepsASetEvent
  BY DEF ParsedTimesHaveSetEvents
<1>2. QED
  BY <1>1, TypeInit, TypeNext, ParsedInit, ParsedNext, PTL DEF Spec

-------------------------------------------------------------------------------
(* Transitions end on time. *)

\* The transitions of one pair end at its time and fade to its image.
LEMMA EventsAtEndOnTime ==
  ASSUME TypeOK, NEW i \in 1 .. Len(pairs),
         NEW k \in 1 .. Len(EventsAt(data.transition, pairs, i)),
         IsLerp(EventsAt(data.transition, pairs, i)[k])
  PROVE  IsTransitionInto(EventsAt(data.transition, pairs, i)[k], i)
<1> DEFINE t == data.transition
           p == pairs[i]
           q == pairs[Before(pairs, i)]
           slot == NonOverlapping(p.time, t.duration, Plus(q.time, 1))
           e == LerpEvent(slot.time, q.name, p.name, slot.duration)
           lerp == IF t = NoTransition THEN <<>> ELSE TransitionInto(t, pairs, i)
           set == SetEvent(p.time, p.name)
<1>1. pairs \in Seq(Pairs) /\ p \in Pairs /\ q \in Pairs
  <2>1. pairs \in Seq(Pairs)
    BY DEF TypeOK, Pairs
  <2>2. Before(pairs, i) \in 1 .. Len(pairs)
    BY DEF Before
  <2>3. QED
    BY <2>1, <2>2, ElementOfSeq
<1>2. EventsAt(t, pairs, i) = lerp \o <<set>>
  BY DEF EventsAt
<1>3. ~IsLerp(set)
  BY DEF SetEvent, IsLerp
<1>4. CASE t = NoTransition \/ ~(slot.duration > 0)
  <2>1. lerp = <<>>
    BY <1>4 DEF TransitionInto
  <2> HIDE DEF lerp, set
  <2>2. lerp \o <<set>> = <<set>>
    BY <2>1
  <2>3. EventsAt(t, pairs, i)[k] = set
    BY <1>2, <2>2
  <2>4. QED
    BY <1>3, <2>3
<1>5. CASE t # NoTransition /\ slot.duration > 0
  <2>1. t.duration \in Nat
    <3>1. t \in Transitions
      BY <1>5, BackgroundsAssumption DEF TypeOK, IsBackground
    <3>2. QED
      BY <3>1 DEF Transitions
  <2>2. p.time \in TimeOfDay /\ Plus(q.time, 1) \in TimeOfDay
    <3>1. p.time \in TimeOfDay /\ q.time + 1 \in Int
      BY <1>1, DayAssumption DEF Pairs, TimeOfDay
    <3>2. QED
      BY <3>1, FromSecondsType DEF Plus
  <2>3. Plus(slot.time, slot.duration) = p.time /\ slot.duration <= t.duration
    BY <2>1, <2>2, NonOverlappingEnds
  <2>4. IsTransitionInto(e, i)
    BY <2>3 DEF IsTransitionInto, LerpEvent
  <2>5. lerp = <<e>>
    BY <1>5 DEF TransitionInto
  <2> HIDE DEF lerp, set, e
  <2>6. lerp \in Seq({e, set}) /\ <<set>> \in Seq({e, set}) /\ Len(lerp) = 1
        /\ lerp[1] = e /\ Len(<<set>>) = 1 /\ <<set>>[1] = set
    BY <2>5
  <2>7. /\ Len(lerp \o <<set>>) = Len(lerp) + Len(<<set>>)
        /\ \A j \in 1 .. Len(lerp) + Len(<<set>>) :
             (lerp \o <<set>>)[j] = IF j <= Len(lerp) THEN lerp[j] ELSE <<set>>[j - Len(lerp)]
    BY <2>6, ConcatProperties
  <2>8. k = 1 \/ k = 2
    BY <1>2, <2>6, <2>7
  <2>9. (lerp \o <<set>>)[1] = e /\ (lerp \o <<set>>)[2] = set
    BY <2>6, <2>7
  <2>10. QED
    BY <1>2, <1>3, <2>4, <2>8, <2>9
<1>6. QED
  BY <1>4, <1>5

\* An erase takes no event from elsewhere.
LEMMA ErasedComesFrom ==
  ASSUME NEW list \in Seq(Events),
         NEW from \in 1 .. Len(list), NEW to \in from .. Len(list),
         NEW k \in 1 .. Len(Erased(list, from, to))
  PROVE  \E j \in 1 .. Len(list) : Erased(list, from, to)[k] = list[j]
<1> DEFINE gap == to - from + 1
           j == IF k < from THEN k ELSE k + gap
<1>1. /\ Len(Erased(list, from, to)) = Len(list) - gap
      /\ \A i \in 1 .. (Len(list) - gap) :
           Erased(list, from, to)[i] = IF i < from THEN list[i] ELSE list[i + gap]
  BY ErasedProperties
<1>2. j \in 1 .. Len(list)
  BY <1>1
<1>3. Erased(list, from, to)[k] = list[j]
  BY <1>1
<1>4. QED
  BY <1>2, <1>3

\* Until the first pair is parsed there are no events.
EmptyUntilParsed == phase \in {"order", "create"} => eventList = <<>>

LEMMA EndOnTimeInit == Init => EmptyUntilParsed /\ TransitionsEndOnTime
BY DEF Init, EmptyUntilParsed, TransitionsEndOnTime

LEMMA EndOnTimeNext ==
  TypeOK /\ EmptyUntilParsed /\ TransitionsEndOnTime /\ [Next]_vars
    => EmptyUntilParsed' /\ TransitionsEndOnTime'
<1> SUFFICES ASSUME TypeOK, EmptyUntilParsed, TransitionsEndOnTime, [Next]_vars
             PROVE  EmptyUntilParsed' /\ TransitionsEndOnTime'
  OBVIOUS
<1>1. /\ eventList \in Seq(Events) /\ first \in Nat \ {0} /\ index \in Nat \ {0}
      /\ pairs \in Seq(Pairs) /\ data \in Backgrounds
  BY DEF TypeOK, Pairs
<1>2. ASSUME pairs' = pairs, data' = data, eventList' \in Seq(Events),
              \A k \in 1 .. Len(eventList') :
                IsLerp(eventList'[k]) =>
                  \E i \in DOMAIN pairs : IsTransitionInto(eventList'[k], i)
      PROVE  TransitionsEndOnTime'
  <2>1. DOMAIN eventList' = 1 .. Len(eventList')
    BY <1>2
  <2>2. ASSUME NEW e, NEW i, IsTransitionInto(e, i)
        PROVE  /\ e.start = pairs'[Before(pairs', i)].name /\ e.end = pairs'[i].name
               /\ Plus(e.time, e.duration) = pairs'[i].time
               /\ e.duration <= data'.transition.duration
    BY <1>2, <2>2 DEF IsTransitionInto
  <2>3. QED
    BY <1>2, <2>1, <2>2 DEF TransitionsEndOnTime, IsTransitionInto
<1>3. ASSUME phase' = phase \/ phase' \notin {"order", "create"},
             phase \notin {"order", "create"},
             pairs' = pairs, data' = data, eventList' \in Seq(Events),
             \A k \in 1 .. Len(eventList') :
               \E j \in 1 .. Len(eventList) : eventList'[k] = eventList[j]
      PROVE  EmptyUntilParsed' /\ TransitionsEndOnTime'
  <2>1. ASSUME NEW k \in 1 .. Len(eventList'), IsLerp(eventList'[k])
        PROVE  \E i \in DOMAIN pairs : IsTransitionInto(eventList'[k], i)
    <3>1. PICK j \in 1 .. Len(eventList) : eventList'[k] = eventList[j]
      BY <1>3, <2>1
    <3>2. PICK i \in DOMAIN pairs : IsTransitionInto(eventList[j], i)
      BY <1>1, <2>1, <3>1 DEF TransitionsEndOnTime
    <3>3. QED
      BY <3>1, <3>2
  <2>2. TransitionsEndOnTime'
    BY <1>3, <1>2, <2>1
  <2>3. QED
    BY <1>3, <2>2 DEF EmptyUntilParsed
<1>4. CASE PairInOrder \/ PairAtRandom
  BY <1>4 DEF PairInOrder, PairAtRandom, EmptyUntilParsed, TransitionsEndOnTime
<1>5. CASE SingleEvent
  <2>1. eventList' = <<SetEvent(pairs[1].time, pairs[1].name)>> /\ phase' = "done"
    BY <1>5 DEF SingleEvent
  <2>2. \A k \in DOMAIN eventList' : ~IsLerp(eventList'[k])
    BY <2>1 DEF SetEvent, IsLerp
  <2>3. QED
    BY <2>1, <2>2 DEF EmptyUntilParsed, TransitionsEndOnTime
<1>6. CASE StartParsing \/ ParsingEnds \/ Advance \/ RemovingEnds \/ UNCHANGED vars
  <2>1. /\ eventList' = eventList /\ pairs' = pairs /\ data' = data
        /\ phase' = phase \/ phase' \notin {"order", "create"}
    BY <1>6 DEF StartParsing, ParsingEnds, Advance, RemovingEnds, vars
  <2>2. QED
    BY <2>1 DEF EmptyUntilParsed, TransitionsEndOnTime, IsTransitionInto
<1>7. CASE ParsePair
  <2> DEFINE added == EventsAt(data.transition, pairs, index)
  <2>1. /\ phase' = "parse" /\ pairs' = pairs /\ data' = data
        /\ index \in 1 .. Len(pairs) /\ eventList' = eventList \o added
    BY <1>1, <1>7 DEF ParsePair
  <2>2. added \in Seq(Events)
    BY <1>1, <2>1, EventsAtType
  <2>3. \A k \in 1 .. Len(added) : IsLerp(added[k]) => IsTransitionInto(added[k], index)
    BY <2>1, EventsAtEndOnTime
  <2> HIDE DEF added
  <2>4. /\ eventList' \in Seq(Events)
        /\ Len(eventList') = Len(eventList) + Len(added)
        /\ \A i \in 1 .. Len(eventList) + Len(added) :
             eventList'[i] = IF i <= Len(eventList) THEN eventList[i]
                             ELSE added[i - Len(eventList)]
    BY <1>1, <2>1, <2>2, ConcatProperties
  <2>5. ASSUME NEW k \in 1 .. Len(eventList'), IsLerp(eventList'[k])
        PROVE  \E i \in DOMAIN pairs : IsTransitionInto(eventList'[k], i)
    <3>1. CASE k <= Len(eventList)
      <4>1. k \in DOMAIN eventList /\ eventList'[k] = eventList[k]
        BY <1>1, <2>4, <2>5, <3>1
      <4>2. QED
        BY <2>5, <4>1 DEF TransitionsEndOnTime
    <3>2. CASE ~(k <= Len(eventList))
      <4>1. /\ k - Len(eventList) \in 1 .. Len(added)
            /\ eventList'[k] = added[k - Len(eventList)]
        BY <1>1, <2>2, <2>4, <2>5, <3>2
      <4>2. IsTransitionInto(eventList'[k], index)
        BY <2>3, <2>5, <4>1
      <4>3. index \in DOMAIN pairs
        BY <1>1, <2>1
      <4>4. QED
        BY <4>2, <4>3
    <3>3. QED
      BY <3>1, <3>2
  <2>6. TransitionsEndOnTime'
    BY <1>2, <2>1, <2>4, <2>5
  <2>7. QED
    BY <2>1, <2>6 DEF EmptyUntilParsed
<1>8. CASE Sort
  <2>1. /\ eventList' \in Seq(Events) /\ Len(eventList') = Len(eventList)
        /\ \A i \in 1 .. Len(eventList') :
             \E j \in 1 .. Len(eventList) : eventList'[i] = eventList[j]
    BY <1>1, <1>8, SortedArrangementsProperties DEF Sort
  <2>2. QED
    BY <1>3, <1>8, <2>1 DEF Sort
<1>9. ASSUME phase = "remove", phase' = phase, pairs' = pairs, data' = data,
             NEW from \in 1 .. Len(eventList), NEW to \in from .. Len(eventList),
             eventList' = Erased(eventList, from, to)
      PROVE  EmptyUntilParsed' /\ TransitionsEndOnTime'
  <2>1. eventList' \in Seq(Events)
    BY <1>1, <1>9, ErasedProperties
  <2>2. \A k \in 1 .. Len(eventList') :
          \E j \in 1 .. Len(eventList) : eventList'[k] = eventList[j]
    BY <1>1, <1>9, ErasedComesFrom
  <2>3. QED
    BY <1>3, <1>9, <2>1, <2>2
<1>10. CASE RemoveBothTransitions
  BY <1>1, <1>9, <1>10 DEF RemoveBothTransitions, Overlap, second
<1>11. CASE RemoveEarlierSet
  BY <1>1, <1>9, <1>11 DEF RemoveEarlierSet, Overlap, second
<1>12. CASE RemoveTransitionAfterSet
  BY <1>1, <1>9, <1>12 DEF RemoveTransitionAfterSet, Overlap, second
<1>13. CASE RemoveTransitionBeforeSet
  <2> DEFINE remaining == Erased(eventList, first, first)
  <2>1. /\ phase = "remove" /\ phase' = phase /\ pairs' = pairs /\ data' = data
        /\ first \in 1 .. Len(eventList)
        /\ \/ eventList' = remaining
           \/ second <= Len(remaining) /\ eventList' = Erased(remaining, second, second)
    BY <1>1, <1>13 DEF RemoveTransitionBeforeSet, Overlap, second
  <2>2. CASE eventList' = remaining
    BY <1>1, <1>9, <2>1, <2>2
  <2>3. CASE second <= Len(remaining) /\ eventList' = Erased(remaining, second, second)
    <3>1. /\ remaining \in Seq(Events)
          /\ \A k \in 1 .. Len(remaining) :
               \E j \in 1 .. Len(eventList) : remaining[k] = eventList[j]
      BY <1>1, <2>1, ErasedProperties, ErasedComesFrom
    <3> HIDE DEF remaining
    <3>2. second \in 1 .. Len(remaining) /\ second \in second .. Len(remaining)
      BY <1>1, <2>3, <3>1 DEF second
    <3>3. /\ eventList' \in Seq(Events)
          /\ \A k \in 1 .. Len(eventList') :
               \E j \in 1 .. Len(remaining) : eventList'[k] = remaining[j]
      BY <2>3, <3>1, <3>2, ErasedProperties, ErasedComesFrom
    <3>4. \A k \in 1 .. Len(eventList') :
            \E j \in 1 .. Len(eventList) : eventList'[k] = eventList[j]
      BY <3>1, <3>3
    <3>5. QED
      BY <1>3, <2>1, <3>3, <3>4
  <2>4. QED
    BY <2>1, <2>2, <2>3
<1>14. QED
  BY <1>4, <1>5, <1>6, <1>7, <1>8, <1>10, <1>11, <1>12, <1>13 DEF Next

\* Whatever was cut, sorted or erased, each transition of the list ends at the
\* time of the image it fades to, and comes from the image before it.
THEOREM TransitionsAlwaysEndOnTime == Spec => []TransitionsEndOnTime
BY TypeInit, TypeNext, EndOnTimeInit, EndOnTimeNext, PTL DEF Spec
-------------------------------------------------------------------------------
(* The removal loop computes the left-to-right pass. *)

\* Lists that agree up to n begin alike.
LEMMA BeginningsEqual ==
  ASSUME NEW list \in Seq(Events), NEW other \in Seq(Events), NEW n \in 0 .. Len(list),
         n <= Len(other), \A i \in 1 .. n : list[i] = other[i]
  PROVE  SubSeq(list, 1, n) = SubSeq(other, 1, n)
<1>1. n \in 0 .. Len(other) /\ n \in Nat
  BY LenProperties
<1>2. /\ SubSeq(list, 1, n) \in Seq(Events) /\ Len(SubSeq(list, 1, n)) = n
      /\ \A i \in 1 .. n : SubSeq(list, 1, n)[i] = list[i]
  BY Beginning
<1>3. /\ SubSeq(other, 1, n) \in Seq(Events) /\ Len(SubSeq(other, 1, n)) = n
      /\ \A i \in 1 .. n : SubSeq(other, 1, n)[i] = other[i]
  BY <1>1, Beginning
<1>4. QED
  BY <1>2, <1>3, SeqEqual

\* A list that ascends strictly up to n has no two neighbours at the same time there.
LEMMA AscendingNeighbours ==
  ASSUME NEW list \in Seq(Events), NEW upTo \in Nat, Ascends(list, upTo),
         NEW n \in 0 .. Len(list), n <= upTo
  PROVE  \A i \in 1 .. (n - 1) : list[i].time # list[i + 1].time
<1> SUFFICES ASSUME NEW i \in 1 .. (n - 1) PROVE list[i].time # list[i + 1].time
  OBVIOUS
<1>1. i \in 1 .. Len(list) /\ i + 1 \in 1 .. Len(list) /\ i < i + 1 /\ i + 1 <= upTo
  BY LenProperties
<1>2. list[i].time < list[i + 1].time
  BY <1>1, AscendsAt
<1>3. list[i].time \in Int /\ list[i + 1].time \in Int
  BY <1>1, EventTime
<1>4. QED
  BY <1>2, <1>3

\* When the pass has made of the first m events what the list `rest` begins with,
\* and the events that follow are the same, it makes the same of both.
LEMMA PassAgreesWithRest ==
  ASSUME NEW list \in Seq(Events), NEW rest \in Seq(Events),
         NEW m \in 0 .. Len(list), NEW n \in 0 .. Len(rest), Ascends(rest, n),
         Len(list) - m = Len(rest) - n,
         \A k \in 1 .. (Len(list) - m) : list[m + k] = rest[n + k],
         PassAt(list, m) = [kept |-> SubSeq(rest, 1, n), eraseLerp |-> FALSE]
  PROVE  RemoveOverlapping(list) = RemoveOverlapping(rest)
<1>1. n \in Nat /\ n <= n
  BY LenProperties
<1>2. \A i \in 1 .. (n - 1) : rest[i].time # rest[i + 1].time
  BY <1>1, AscendingNeighbours
<1>3. PassAt(rest, n) = [kept |-> SubSeq(rest, 1, n), eraseLerp |-> FALSE]
  BY <1>2, PassKeepsAscending
<1>4. QED
  BY <1>3, PassesAgree

\* A list that ascends strictly up to some point does so up to an earlier one.
LEMMA AscendsLess ==
  ASSUME NEW list \in Seq(Events), NEW upTo \in Nat, Ascends(list, upTo),
         NEW n \in Nat, n <= upTo
  PROVE  Ascends(list, n)
BY LenProperties DEF Ascends

\* What the pass has made of the list when the loop stands at `first`, and what it
\* does with the event that follows.
LEMMA PassAtFirst ==
  ASSUME NEW list \in Seq(Events), NEW f \in 1 .. Len(list), Ascends(list, f)
  PROVE  /\ PassAt(list, f) = [kept |-> SubSeq(list, 1, f), eraseLerp |-> FALSE]
         /\ f + 1 <= Len(list) /\ list[f].time = list[f + 1].time =>
              LET others == SubSeq(list, 1, f - 1)
                  e == list[f + 1]
              IN  /\ IsLerp(list[f]) /\ IsLerp(e) =>
                       PassAt(list, f + 1) = [kept |-> others, eraseLerp |-> FALSE]
                  /\ IsSet(list[f]) /\ IsSet(e) =>
                       PassAt(list, f + 1) = [kept |-> Append(others, e), eraseLerp |-> FALSE]
                  /\ IsSet(list[f]) /\ IsLerp(e) =>
                       PassAt(list, f + 1) = [kept |-> SubSeq(list, 1, f), eraseLerp |-> FALSE]
                  /\ IsLerp(list[f]) /\ IsSet(e) =>
                       PassAt(list, f + 1) = [kept |-> Append(others, e), eraseLerp |-> TRUE]
<1>1. f \in Nat /\ Len(list) \in Nat /\ f \in 0 .. Len(list) /\ f > 0
  BY LenProperties
<1>2. \A i \in 1 .. (f - 1) : list[i].time # list[i + 1].time
  BY <1>1, AscendingNeighbours
<1>3. PassAt(list, f) = [kept |-> SubSeq(list, 1, f), eraseLerp |-> FALSE]
  BY <1>1, <1>2, PassKeepsAscending
<1>4. ASSUME f + 1 <= Len(list), list[f].time = list[f + 1].time
      PROVE  LET others == SubSeq(list, 1, f - 1)
                 e == list[f + 1]
             IN  /\ IsLerp(list[f]) /\ IsLerp(e) =>
                      PassAt(list, f + 1) = [kept |-> others, eraseLerp |-> FALSE]
                 /\ IsSet(list[f]) /\ IsSet(e) =>
                      PassAt(list, f + 1) = [kept |-> Append(others, e), eraseLerp |-> FALSE]
                 /\ IsSet(list[f]) /\ IsLerp(e) =>
                      PassAt(list, f + 1) = [kept |-> SubSeq(list, 1, f), eraseLerp |-> FALSE]
                 /\ IsLerp(list[f]) /\ IsSet(e) =>
                      PassAt(list, f + 1) = [kept |-> Append(others, e), eraseLerp |-> TRUE]
  <2> DEFINE kept == SubSeq(list, 1, f)
             others == SubSeq(list, 1, f - 1)
             e == list[f + 1]
  <2>1. f + 1 \in 1 .. Len(list) /\ f + 1 - 1 = f
    BY <1>1, <1>4
  <2>2. PassAt(list, f + 1) = RemoveStep([kept |-> kept, eraseLerp |-> FALSE], e)
    <3>1. PassAt(list, f + 1) = RemoveStep(PassAt(list, f + 1 - 1), list[f + 1])
      BY <2>1, PassSteps
    <3>2. QED
      BY <1>3, <2>1, <3>1
  <2>3. /\ kept \in Seq(Events) /\ kept # <<>> /\ Len(kept) = f /\ kept[f] = list[f]
        /\ SubSeq(kept, 1, Len(kept) - 1) = others /\ e \in Events
    <3>1. e \in Events
      BY <2>1, ElementOfSeq
    <3>2. /\ SubSeq(list, 1, f) \in Seq(Events) /\ Len(SubSeq(list, 1, f)) = f
          /\ \A i \in 1 .. f : SubSeq(list, 1, f)[i] = list[i]
          /\ SubSeq(list, 1, f) # <<>>
          /\ SubSeq(SubSeq(list, 1, f), 1, f - 1) = SubSeq(list, 1, f - 1)
      BY <1>1, Beginning
    <3>3. QED
      BY <1>1, <3>1, <3>2
  <2> DEFINE step == RemoveStep([kept |-> kept, eraseLerp |-> FALSE], e)
  <2> HIDE DEF kept, e, others
  <2>4. kept[Len(kept)].time = e.time
    BY <1>4, <2>3 DEF e
  <2>5. /\ IsLerp(kept[Len(kept)]) /\ IsLerp(e) => step = [kept |-> others, eraseLerp |-> FALSE]
        /\ IsSet(kept[Len(kept)]) /\ IsSet(e)
             => step = [kept |-> Append(others, e), eraseLerp |-> FALSE]
        /\ IsSet(kept[Len(kept)]) /\ IsLerp(e) => step = [kept |-> kept, eraseLerp |-> FALSE]
        /\ IsLerp(kept[Len(kept)]) /\ IsSet(e)
             => step = [kept |-> Append(others, e), eraseLerp |-> TRUE]
    BY <2>3, <2>4, RemoveStepCases
  <2> HIDE DEF step
  <2>6. kept[Len(kept)] = list[f] /\ PassAt(list, f + 1) = step
    BY <2>2, <2>3 DEF step
  <2>7. QED
    BY <2>5, <2>6 DEF e, others, kept
<1>5. QED
  BY <1>3, <1>4

\* Two transitions at once: the pass drops both.
LEMMA BothTransitionsAgree ==
  ASSUME NEW list \in Seq(Events), NEW f \in 1 .. Len(list), f + 1 <= Len(list),
         Ascends(list, f), list[f].time = list[f + 1].time,
         IsLerp(list[f]), IsLerp(list[f + 1])
  PROVE  RemoveOverlapping(Erased(list, f, f + 1)) = RemoveOverlapping(list)
<1> DEFINE rest == Erased(list, f, f + 1)
<1>1. /\ f \in Nat \ {0} /\ Len(list) \in Nat /\ f \in 1 .. Len(list)
      /\ f + 1 \in f .. Len(list) /\ f <= f
  BY LenProperties
<1>2. /\ rest \in Seq(Events) /\ Len(rest) = Len(list) - 2
      /\ \A i \in 1 .. (Len(list) - 2) : rest[i] = IF i < f THEN list[i] ELSE list[i + 2]
  <2> DEFINE last == f + 1
             width == last - f + 1
  <2>1. width = 2 /\ last \in f .. Len(list)
    BY <1>1
  <2>2. rest = Erased(list, f, last)
    OBVIOUS
  <2> HIDE DEF rest, last
  <2>3. /\ rest \in Seq(Events) /\ Len(rest) = Len(list) - width
        /\ \A i \in 1 .. (Len(list) - width) :
             rest[i] = IF i < f THEN list[i] ELSE list[i + width]
    <3>1. /\ Erased(list, f, last) \in Seq(Events)
          /\ Len(Erased(list, f, last)) = Len(list) - (last - f + 1)
          /\ \A i \in 1 .. (Len(list) - (last - f + 1)) :
               Erased(list, f, last)[i] = IF i < f THEN list[i] ELSE list[i + (last - f + 1)]
      BY <2>1, ErasedProperties
    <3>2. QED
      BY <2>2, <3>1
  <2> HIDE DEF width
  <2>4. QED
    BY <2>1, <2>3
<1>3. Ascends(rest, f)
  BY <1>1, ErasedAscends
<1> HIDE DEF rest
<1>4. /\ f + 1 \in 0 .. Len(list) /\ f - 1 \in 0 .. Len(rest) /\ f - 1 \in Nat /\ f - 1 <= f
      /\ f - 1 \in 0 .. Len(list) /\ f - 1 <= Len(rest)
      /\ Len(list) - (f + 1) = Len(rest) - (f - 1)
  BY <1>1, <1>2
<1>5. \A k \in 1 .. (Len(list) - (f + 1)) : list[f + 1 + k] = rest[f - 1 + k]
  <2> TAKE k \in 1 .. (Len(list) - (f + 1))
  <2>1. f - 1 + k \in 1 .. (Len(list) - 2) /\ ~ (f - 1 + k < f) /\ f - 1 + k + 2 = f + 1 + k
    BY <1>1
  <2>2. QED
    BY <1>2, <2>1
<1>6. SubSeq(list, 1, f - 1) = SubSeq(rest, 1, f - 1)
  <2>1. \A i \in 1 .. (f - 1) : list[i] = rest[i]
    BY <1>1, <1>2, <1>4
  <2>2. QED
    BY <1>2, <1>4, <2>1, BeginningsEqual
<1>7. PassAt(list, f + 1) = [kept |-> SubSeq(rest, 1, f - 1), eraseLerp |-> FALSE]
  BY <1>1, <1>6, PassAtFirst
<1>8. Ascends(rest, f - 1)
  BY <1>1, <1>2, <1>3, <1>4, AscendsLess
<1>9. RemoveOverlapping(list) = RemoveOverlapping(rest)
  BY <1>2, <1>4, <1>5, <1>7, <1>8, PassAgreesWithRest
<1>10. QED
  BY <1>9 DEF rest

\* What is left when the event at `first` is erased: the one after it takes its place.
LEMMA ErasedFirst ==
  ASSUME NEW list \in Seq(Events), NEW f \in 1 .. Len(list), f + 1 <= Len(list), Ascends(list, f)
  PROVE  LET rest == Erased(list, f, f)
         IN  /\ rest \in Seq(Events) /\ Len(rest) = Len(list) - 1
             /\ Ascends(rest, f)
             /\ \A k \in 0 .. (Len(list) - f - 1) : rest[f + k] = list[f + 1 + k]
             /\ SubSeq(rest, 1, f) = Append(SubSeq(list, 1, f - 1), list[f + 1])
<1> DEFINE rest == Erased(list, f, f)
<1>1. /\ f \in Nat \ {0} /\ Len(list) \in Nat /\ f \in f .. Len(list) /\ f <= f
  BY LenProperties
<1>2. /\ rest \in Seq(Events) /\ Len(rest) = Len(list) - 1
      /\ \A i \in 1 .. (Len(list) - 1) : rest[i] = IF i < f THEN list[i] ELSE list[i + 1]
  <2> DEFINE width == f - f + 1
  <2>1. width = 1
    BY <1>1
  <2>2. /\ rest \in Seq(Events) /\ Len(rest) = Len(list) - width
        /\ \A i \in 1 .. (Len(list) - width) :
             rest[i] = IF i < f THEN list[i] ELSE list[i + width]
    BY <1>1, ErasedProperties
  <2> HIDE DEF rest, width
  <2>3. QED
    BY <2>1, <2>2
<1>3. Ascends(rest, f)
  BY <1>1, ErasedAscends
<1> HIDE DEF rest
<1>4. \A k \in 0 .. (Len(list) - f - 1) : rest[f + k] = list[f + 1 + k]
  <2> TAKE k \in 0 .. (Len(list) - f - 1)
  <2>1. f + k \in 1 .. (Len(list) - 1) /\ ~ (f + k < f) /\ f + k + 1 = f + 1 + k
    BY <1>1
  <2>2. QED
    BY <1>2, <2>1
<1>5. rest[f] = list[f + 1]
  BY <1>1, <1>2
<1>6. SubSeq(list, 1, f - 1) = SubSeq(rest, 1, f - 1)
  <2>1. f - 1 \in 0 .. Len(list) /\ f - 1 <= Len(rest)
    BY <1>1, <1>2
  <2>2. \A i \in 1 .. (f - 1) : list[i] = rest[i]
    BY <1>1, <1>2
  <2>3. QED
    BY <1>2, <2>1, <2>2, BeginningsEqual
<1>7. SubSeq(rest, 1, f) = Append(SubSeq(rest, 1, f - 1), rest[f])
  <2>1. f \in 0 .. Len(rest) /\ f > 0
    BY <1>1, <1>2
  <2>2. QED
    BY <1>2, <2>1, Beginning
<1>8. QED
  BY <1>2, <1>3, <1>4, <1>5, <1>6, <1>7 DEF rest

\* Two set events at once: the pass keeps the later one of the list.
LEMMA EarlierSetAgrees ==
  ASSUME NEW list \in Seq(Events), NEW f \in 1 .. Len(list), f + 1 <= Len(list),
         Ascends(list, f), list[f].time = list[f + 1].time,
         IsSet(list[f]), IsSet(list[f + 1])
  PROVE  RemoveOverlapping(Erased(list, f, f)) = RemoveOverlapping(list)
<1> DEFINE rest == Erased(list, f, f)
<1>1. f \in Nat \ {0} /\ Len(list) \in Nat
  BY LenProperties
<1>2. /\ rest \in Seq(Events) /\ Len(rest) = Len(list) - 1
      /\ Ascends(rest, f)
      /\ \A k \in 0 .. (Len(list) - f - 1) : rest[f + k] = list[f + 1 + k]
      /\ SubSeq(rest, 1, f) = Append(SubSeq(list, 1, f - 1), list[f + 1])
  BY ErasedFirst
<1> HIDE DEF rest
<1>3. /\ f + 1 \in 0 .. Len(list) /\ f \in 0 .. Len(rest)
      /\ Len(list) - (f + 1) = Len(rest) - f
  BY <1>1, <1>2
<1>4. \A k \in 1 .. (Len(list) - (f + 1)) : list[f + 1 + k] = rest[f + k]
  <2> TAKE k \in 1 .. (Len(list) - (f + 1))
  <2>1. k \in 0 .. (Len(list) - f - 1)
    BY <1>1
  <2>2. QED
    BY <1>2, <2>1
<1>5. PassAt(list, f + 1) = [kept |-> SubSeq(rest, 1, f), eraseLerp |-> FALSE]
  BY <1>1, <1>2, PassAtFirst
<1>6. RemoveOverlapping(list) = RemoveOverlapping(rest)
  BY <1>2, <1>3, <1>4, <1>5, PassAgreesWithRest
<1>7. QED
  BY <1>6 DEF rest

\* A transition after a set event at the same time: the pass drops the transition.
LEMMA TransitionAfterSetAgrees ==
  ASSUME NEW list \in Seq(Events), NEW f \in 1 .. Len(list), f + 1 <= Len(list),
         Ascends(list, f), list[f].time = list[f + 1].time,
         IsSet(list[f]), IsLerp(list[f + 1])
  PROVE  RemoveOverlapping(Erased(list, f + 1, f + 1)) = RemoveOverlapping(list)
<1> DEFINE rest == Erased(list, f + 1, f + 1)
<1>1. /\ f \in Nat \ {0} /\ Len(list) \in Nat /\ f + 1 \in 1 .. Len(list)
      /\ f + 1 \in (f + 1) .. Len(list) /\ f <= f + 1
  BY LenProperties
<1>2. /\ rest \in Seq(Events) /\ Len(rest) = Len(list) - 1
      /\ \A i \in 1 .. (Len(list) - 1) : rest[i] = IF i < f + 1 THEN list[i] ELSE list[i + 1]
  BY <1>1, ErasedOne
<1>3. Ascends(rest, f)
  BY <1>1, ErasedAscends
<1> HIDE DEF rest
<1>4. /\ f + 1 \in 0 .. Len(list) /\ f \in 0 .. Len(rest) /\ f \in 0 .. Len(list)
      /\ f <= Len(rest) /\ Len(list) - (f + 1) = Len(rest) - f
  BY <1>1, <1>2
<1>5. \A k \in 1 .. (Len(list) - (f + 1)) : list[f + 1 + k] = rest[f + k]
  <2> TAKE k \in 1 .. (Len(list) - (f + 1))
  <2>1. f + k \in 1 .. (Len(list) - 1) /\ ~ (f + k < f + 1) /\ f + k + 1 = f + 1 + k
    BY <1>1
  <2>2. QED
    BY <1>2, <2>1
<1>6. SubSeq(list, 1, f) = SubSeq(rest, 1, f)
  <2>1. \A i \in 1 .. f : list[i] = rest[i]
    BY <1>1, <1>2
  <2>2. QED
    BY <1>2, <1>4, <2>1, BeginningsEqual
<1>7. PassAt(list, f + 1) = [kept |-> SubSeq(rest, 1, f), eraseLerp |-> FALSE]
  BY <1>1, <1>6, PassAtFirst
<1>8. RemoveOverlapping(list) = RemoveOverlapping(rest)
  BY <1>2, <1>3, <1>4, <1>5, <1>7, PassAgreesWithRest
<1>9. QED
  BY <1>8 DEF rest

\* A set event after a transition at the same time: the pass drops the transition, and
\* the event after the set event as well if that is a transition.
LEMMA TransitionBeforeSetAgrees ==
  ASSUME NEW list \in Seq(Events), NEW f \in 1 .. Len(list), f + 1 <= Len(list),
         Ascends(list, f), list[f].time = list[f + 1].time,
         IsLerp(list[f]), IsSet(list[f + 1])
  PROVE  LET remaining == Erased(list, f, f)
             rest == IF f + 1 <= Len(remaining) /\ IsLerp(remaining[f + 1])
                     THEN Erased(remaining, f + 1, f + 1) ELSE remaining
         IN  RemoveOverlapping(rest) = RemoveOverlapping(list)
<1> DEFINE remaining == Erased(list, f, f)
           kept == SubSeq(remaining, 1, f)
<1>1. f \in Nat \ {0} /\ Len(list) \in Nat
  BY LenProperties
<1>2. /\ remaining \in Seq(Events) /\ Len(remaining) = Len(list) - 1
      /\ Ascends(remaining, f)
      /\ \A k \in 0 .. (Len(list) - f - 1) : remaining[f + k] = list[f + 1 + k]
      /\ kept = Append(SubSeq(list, 1, f - 1), list[f + 1])
  BY ErasedFirst
<1> HIDE DEF remaining, kept
<1>3. PassAt(list, f + 1) = [kept |-> kept, eraseLerp |-> TRUE]
  BY <1>2, PassAtFirst
<1>4. \A i \in 1 .. (f - 1) : remaining[i].time # remaining[i + 1].time
  <2>1. f \in 0 .. Len(remaining) /\ f <= f
    BY <1>1, <1>2
  <2>2. QED
    BY <1>1, <1>2, <2>1, AscendingNeighbours
<1>5. PassAt(remaining, f) = [kept |-> kept, eraseLerp |-> FALSE]
  <2>1. f \in 0 .. Len(remaining)
    BY <1>1, <1>2
  <2>2. QED
    BY <1>2, <1>4, <2>1, PassKeepsAscending DEF kept
<1>6. kept \in Seq(Events)
  <2>1. f \in 0 .. Len(remaining)
    BY <1>1, <1>2
  <2>2. QED
    BY <1>2, <2>1, Beginning DEF kept
<1>7. CASE f + 1 > Len(remaining)
  <2>1. Len(list) = f + 1 /\ Len(remaining) = f
    BY <1>1, <1>2, <1>7
  <2>2. RemoveOverlapping(list) = kept
    BY <1>3, <2>1, PassSteps
  <2>3. RemoveOverlapping(remaining) = kept
    BY <1>2, <1>5, <2>1, PassSteps
  <2>4. ~ (f + 1 <= Len(remaining))
    BY <1>1, <1>2, <1>7
  <2>5. QED
    BY <2>2, <2>3, <2>4 DEF remaining
<1>8. ASSUME f + 1 <= Len(remaining)
      PROVE  /\ PassAt(list, f + 2) = RemoveStep([kept |-> kept, eraseLerp |-> TRUE], list[f + 2])
             /\ PassAt(remaining, f + 1)
                  = RemoveStep([kept |-> kept, eraseLerp |-> FALSE], remaining[f + 1])
             /\ remaining[f + 1] = list[f + 2]
             /\ list[f + 2] \in Events
  <2>1. f + 2 \in 1 .. Len(list) /\ f + 2 - 1 = f + 1 /\ f + 1 \in 1 .. Len(remaining)
        /\ f + 1 - 1 = f /\ f + 1 + 1 = f + 2
    BY <1>1, <1>2, <1>8
  <2>2. PassAt(list, f + 2) = RemoveStep([kept |-> kept, eraseLerp |-> TRUE], list[f + 2])
    <3>1. PassAt(list, f + 2) = RemoveStep(PassAt(list, f + 2 - 1), list[f + 2])
      BY <2>1, PassSteps
    <3>2. QED
      BY <1>3, <2>1, <3>1
  <2>3. PassAt(remaining, f + 1)
          = RemoveStep([kept |-> kept, eraseLerp |-> FALSE], remaining[f + 1])
    <3>1. PassAt(remaining, f + 1) = RemoveStep(PassAt(remaining, f + 1 - 1), remaining[f + 1])
      BY <1>2, <2>1, PassSteps
    <3>2. QED
      BY <1>5, <2>1, <3>1
  <2>4. 1 \in 0 .. (Len(list) - f - 1)
    BY <1>1, <2>1
  <2>5. remaining[f + 1] = list[f + 1 + 1]
    BY <1>2, <2>4
  <2>6. list[f + 2] \in Events
    BY <2>1, ElementOfSeq
  <2>7. QED
    BY <2>1, <2>2, <2>3, <2>5, <2>6
<1>9. CASE f + 1 <= Len(remaining) /\ ~ IsLerp(remaining[f + 1])
  <2>1. PassAt(list, f + 2) = PassAt(remaining, f + 1)
    <3> DEFINE e == list[f + 2]
    <3>1. ~ IsLerp(e) /\ e \in Events
      BY <1>8, <1>9
    <3>2. RemoveStep([kept |-> kept, eraseLerp |-> TRUE], e)
            = RemoveStep([kept |-> kept, eraseLerp |-> FALSE], e)
      BY <1>6, <3>1, RemoveStepSpares
    <3>3. QED
      BY <1>8, <1>9, <3>2
  <2>2. /\ f + 2 \in 0 .. Len(list) /\ f + 1 \in 0 .. Len(remaining)
        /\ Len(list) - (f + 2) = Len(remaining) - (f + 1)
    BY <1>1, <1>2, <1>9
  <2>3. \A k \in 1 .. (Len(list) - (f + 2)) : list[f + 2 + k] = remaining[f + 1 + k]
    <3> TAKE k \in 1 .. (Len(list) - (f + 2))
    <3>1. k + 1 \in 0 .. (Len(list) - f - 1) /\ f + (k + 1) = f + 1 + k
          /\ f + 1 + (k + 1) = f + 2 + k
      BY <1>1
    <3>2. remaining[f + (k + 1)] = list[f + 1 + (k + 1)]
      BY <1>2, <3>1
    <3>3. QED
      BY <3>1, <3>2
  <2>4. RemoveOverlapping(list) = RemoveOverlapping(remaining)
    BY <1>2, <2>1, <2>2, <2>3, PassesAgree
  <2>5. QED
    BY <1>9, <2>4 DEF remaining
<1>10. CASE f + 1 <= Len(remaining) /\ IsLerp(remaining[f + 1])
  <2> DEFINE g == f + 1
             rest == Erased(remaining, g, g)
  <2>1. g \in 1 .. Len(remaining) /\ g \in g .. Len(remaining) /\ f <= g
        /\ g \in Nat /\ g - g + 1 = 1
    BY <1>1, <1>10
  <2>2. /\ rest \in Seq(Events) /\ Len(rest) = Len(remaining) - 1
        /\ \A i \in 1 .. (Len(remaining) - 1) :
             rest[i] = IF i < g THEN remaining[i] ELSE remaining[i + 1]
    <3> HIDE DEF g
    <3>1. QED
      BY <1>2, <2>1, ErasedOne
  <2>3. Ascends(rest, f)
    <3> HIDE DEF g
    <3>1. QED
      BY <1>1, <1>2, <2>1, ErasedAscends
  <2>4. g = f + 1
    OBVIOUS
  <2> HIDE DEF rest, g
  <2>5. SubSeq(remaining, 1, f) = SubSeq(rest, 1, f)
    <3>1. f \in 0 .. Len(remaining) /\ f <= Len(rest)
      BY <1>1, <1>2, <2>1, <2>2, <2>4
    <3>2. \A i \in 1 .. f : remaining[i] = rest[i]
      <4> TAKE i \in 1 .. f
      <4>1. i \in 1 .. (Len(remaining) - 1) /\ i < g
        BY <1>1, <1>2, <1>10, <2>4
      <4>2. QED
        BY <2>2, <4>1
    <3>3. QED
      BY <1>2, <2>2, <3>1, <3>2, BeginningsEqual
  <2>6. PassAt(list, f + 2) = [kept |-> SubSeq(rest, 1, f), eraseLerp |-> FALSE]
    <3>1. IsLerp(list[f + 2])
      BY <1>8, <1>10
    <3>2. RemoveStep([kept |-> kept, eraseLerp |-> TRUE], list[f + 2])
            = [kept |-> kept, eraseLerp |-> FALSE]
      BY <3>1, RemoveStepErases
    <3>3. QED
      BY <1>8, <1>10, <2>5, <3>2 DEF kept
  <2>7. /\ f + 2 \in 0 .. Len(list) /\ f \in 0 .. Len(rest)
        /\ Len(list) - (f + 2) = Len(rest) - f
    BY <1>1, <1>2, <1>10, <2>2
  <2>8. \A k \in 1 .. (Len(list) - (f + 2)) : list[f + 2 + k] = rest[f + k]
    <3> TAKE k \in 1 .. (Len(list) - (f + 2))
    <3>1. /\ f + k \in 1 .. (Len(remaining) - 1) /\ ~ (f + k < g)
          /\ k + 1 \in 0 .. (Len(list) - f - 1) /\ f + (k + 1) = f + k + 1
          /\ f + 1 + (k + 1) = f + 2 + k
      BY <1>1, <1>2, <2>4
    <3>2. rest[f + k] = remaining[f + k + 1]
      BY <2>2, <3>1
    <3>3. remaining[f + (k + 1)] = list[f + 1 + (k + 1)]
      BY <1>2, <3>1
    <3>4. QED
      BY <3>1, <3>2, <3>3
  <2>9. RemoveOverlapping(list) = RemoveOverlapping(rest)
    BY <1>2, <2>2, <2>3, <2>6, <2>7, <2>8, PassAgreesWithRest
  <2>10. QED
    BY <1>10, <2>9 DEF rest, g, remaining
<1>11. QED
  <2>1. f + 1 > Len(remaining) \/ f + 1 <= Len(remaining)
    BY <1>1, <1>2
  <2>2. QED
    BY <1>7, <1>9, <1>10, <2>1

\* When the loop ends the list ascends strictly as a whole.
LEMMA AscendsAsAWhole ==
  ASSUME NEW list \in Seq(Events), NEW upTo \in Nat, Ascends(list, upTo), Len(list) <= upTo
  PROVE  StrictlySorted(list)
<1>1. \A j \in DOMAIN list : j <= upTo
  BY LenProperties
<1>2. QED
  BY <1>1 DEF Ascends, StrictlySorted

LEMMA LoopStepAgrees ==
  ASSUME TypeOK, RemovalLoopInvariant, Next, phase = "remove"
  PROVE  /\ RemoveOverlapping(eventList') = RemoveOverlapping(eventList)
         /\ phase' = "done" => RemoveOverlapping(eventList') = eventList'
<1>1. /\ eventList \in Seq(Events) /\ first \in Nat \ {0} /\ Ascends(eventList, first)
      /\ Len(eventList) \in Nat
  BY LenProperties DEF TypeOK, RemovalLoopInvariant
<1>2. Overlap => /\ first \in 1 .. Len(eventList) /\ first + 1 <= Len(eventList)
                 /\ eventList[first].time = eventList[first + 1].time
  BY <1>1 DEF Overlap, second
<1>3. CASE Advance
  BY <1>3 DEF Advance
<1>4. CASE RemoveBothTransitions
  <2>1. phase' # "done"
    BY <1>4 DEF RemoveBothTransitions, Overlap
  <2>2. QED
    BY <1>1, <1>2, <1>4, <2>1, BothTransitionsAgree DEF RemoveBothTransitions, second
<1>5. CASE RemoveEarlierSet
  <2>1. phase' # "done"
    BY <1>5 DEF RemoveEarlierSet, Overlap
  <2>2. QED
    BY <1>1, <1>2, <1>5, <2>1, EarlierSetAgrees DEF RemoveEarlierSet, second
<1>6. CASE RemoveTransitionAfterSet
  <2>1. phase' # "done"
    BY <1>6 DEF RemoveTransitionAfterSet, Overlap
  <2>2. QED
    BY <1>1, <1>2, <1>6, <2>1, TransitionAfterSetAgrees DEF RemoveTransitionAfterSet, second
<1>7. CASE RemoveTransitionBeforeSet
  <2>1. phase' # "done"
    BY <1>7 DEF RemoveTransitionBeforeSet, Overlap
  <2>2. QED
    BY <1>1, <1>2, <1>7, <2>1, TransitionBeforeSetAgrees DEF RemoveTransitionBeforeSet, second
<1>8. CASE RemovingEnds
  <2>1. eventList' = eventList /\ Len(eventList) <= first
    BY <1>1, <1>8 DEF RemovingEnds, second
  <2>2. RemoveOverlapping(eventList) = eventList
    BY <1>1, <2>1, AscendsAsAWhole, PassOfSorted
  <2>3. QED
    BY <2>1, <2>2
<1>9. QED
  BY <1>3, <1>4, <1>5, <1>6, <1>7, <1>8
     DEF Next, PairInOrder, PairAtRandom, SingleEvent, StartParsing, ParsePair, ParsingEnds, Sort

\* The loop that erases elements under its own indices computes the left-to-right
\* pass: no iteration changes what the pass makes of the list, and the list it leaves
\* is what the pass makes of it.
THEOREM LoopAlwaysAgreesWithPass == Spec => LoopAgreesWithPass
<1>1. TypeOK /\ RemovalLoopInvariant /\ [Next]_vars
        => [phase = "remove" =>
              /\ RemoveOverlapping(eventList') = RemoveOverlapping(eventList)
              /\ phase' = "done" => RemoveOverlapping(eventList') = eventList']_vars
  BY LoopStepAgrees
<1>2. QED
  BY <1>1, TypeInit, TypeNext, RemovalInit, RemovalNext, PTL DEF Spec, LoopAgreesWithPass

-------------------------------------------------------------------------------
(* The finished list is one of the event lists of the pairs. *)

\* What the list is at each point of the construction: the events of the pairs parsed
\* so far, the events of all pairs, a list that the pass still makes into one of the
\* lists of the pairs, and at last one of them.
ConstructionInvariant ==
  /\ phase \in {"order", "create"} => index = 1 /\ eventList = <<>>
  /\ phase \in {"parse", "sort", "remove"} => Len(pairs) # 1
  /\ phase = "parse" =>
       /\ index <= Len(pairs) + 1
       /\ eventList = ParsedUpTo(data.transition, pairs, index - 1)
  /\ phase = "sort" => eventList = ParsedEvents(data.transition, pairs)
  /\ phase = "remove" =>
       RemoveOverlapping(eventList) \in ListsFromPairs(data.transition, pairs)
  /\ FinishedListIsAnEventList

LEMMA ConstructionInit == Init => ConstructionInvariant
BY DEF Init, ConstructionInvariant, FinishedListIsAnEventList

LEMMA ConstructionNext ==
  TypeOK /\ RemovalLoopInvariant /\ ConstructionInvariant /\ [Next]_vars
    => ConstructionInvariant'
<1> SUFFICES ASSUME TypeOK, RemovalLoopInvariant, ConstructionInvariant, [Next]_vars
             PROVE  ConstructionInvariant'
  OBVIOUS
<1> DEFINE t == data.transition
<1>1. /\ data \in Backgrounds /\ pairs \in Seq(Pairs) /\ eventList \in Seq(Events)
      /\ index \in Nat \ {0} /\ Len(pairs) \in Nat
  BY LenProperties DEF TypeOK, Pairs
<1> USE DEF ConstructionInvariant, FinishedListIsAnEventList
<1>2. CASE PairInOrder
  BY <1>2 DEF PairInOrder
<1>3. CASE PairAtRandom
  BY <1>3 DEF PairAtRandom
<1>4. CASE SingleEvent
  <2>1. eventList' \in ListsFromPairs(t, pairs)
    BY <1>4 DEF SingleEvent, ListsFromPairs
  <2>2. QED
    BY <1>4, <2>1 DEF SingleEvent
<1>5. CASE StartParsing
  <2>1. ParsedUpTo(t, pairs, 0) = <<>>
    BY <1>1, ParsingSteps
  <2>2. index = 1 /\ index - 1 = 0 /\ eventList = <<>>
    BY <1>5 DEF StartParsing
  <2>3. eventList = ParsedUpTo(t, pairs, index - 1)
    BY <2>1, <2>2
  <2>4. index <= Len(pairs) + 1
    BY <1>1, <2>2
  <2>5. QED
    BY <1>5, <2>3, <2>4 DEF StartParsing
<1>6. CASE ParsePair
  <2>1. /\ phase = "parse" /\ index \in 1 .. Len(pairs) /\ index' - 1 = index
        /\ index' <= Len(pairs) + 1
        /\ eventList' = eventList \o EventsAt(t, pairs, index)
    BY <1>1, <1>6 DEF ParsePair
  <2>2. ParsedUpTo(t, pairs, index)
          = ParsedUpTo(t, pairs, index - 1) \o EventsAt(t, pairs, index)
    BY <1>1, <2>1, ParsingSteps
  <2>3. eventList' = ParsedUpTo(t, pairs, index' - 1)
    BY <2>1, <2>2
  <2>4. QED
    BY <1>6, <2>1, <2>3 DEF ParsePair
<1>7. CASE ParsingEnds
  <2>1. phase = "parse" /\ index - 1 = Len(pairs)
    BY <1>1, <1>7 DEF ParsingEnds
  <2>2. eventList = ParsedEvents(t, pairs)
    BY <1>1, <2>1, ParsingSteps
  <2>3. QED
    BY <1>7, <2>2 DEF ParsingEnds
<1>8. CASE Sort
  <2>1. RemoveOverlapping(eventList') \in ListsFromPairs(t, pairs)
    BY <1>8 DEF Sort, ListsFromPairs
  <2>2. QED
    BY <1>8, <2>1 DEF Sort
<1>9. ASSUME Next, phase = "remove", phase' \in {"remove", "done"},
             pairs' = pairs, data' = data
      PROVE  ConstructionInvariant'
  <2>1. RemoveOverlapping(eventList') \in ListsFromPairs(t, pairs)
    BY <1>9, LoopStepAgrees
  <2>2. phase' = "done" => eventList' \in ListsFromPairs(t, pairs)
    BY <1>9, <2>1, LoopStepAgrees
  <2>3. QED
    BY <1>9, <2>1, <2>2
<1>10. CASE Advance \/ RemoveBothTransitions \/ RemoveEarlierSet \/ RemoveTransitionBeforeSet
            \/ RemoveTransitionAfterSet \/ RemovingEnds
  <2>1. /\ Next /\ phase = "remove" /\ phase' \in {"remove", "done"}
        /\ pairs' = pairs /\ data' = data
    BY <1>10 DEF Next, Advance, RemoveBothTransitions, RemoveEarlierSet, Overlap,
                 RemoveTransitionBeforeSet, RemoveTransitionAfterSet, RemovingEnds
  <2>2. QED
    BY <1>9, <2>1
<1>11. CASE UNCHANGED vars
  BY <1>11 DEF vars
<1>12. QED
  BY <1>2, <1>3, <1>4, <1>5, <1>6, <1>7, <1>8, <1>10, <1>11 DEF Next

\* What the loop of the code leaves is one of the lists that EventList computes for the
\* pairs, whatever their times: the lists the model of the main loop starts from.
THEOREM FinishedListIsAlwaysAnEventList == Spec => []FinishedListIsAnEventList
<1>1. ConstructionInvariant => FinishedListIsAnEventList
  BY DEF ConstructionInvariant
<1>2. QED
  BY <1>1, TypeInit, TypeNext, RemovalInit, RemovalNext, ConstructionInit, ConstructionNext,
     PTL DEF Spec

\* For different times in the order of the clock the finished list is the schedule a reader of the
\* configuration expects, no event missing, added or moved.
THEOREM ListIsAlwaysTheDaySchedule == Spec => []ListIsTheDaySchedule
<1>1. TypeOK /\ FinishedListIsAnEventList => ListIsTheDaySchedule
  <2> SUFFICES ASSUME TypeOK, FinishedListIsAnEventList, phase = "done", InTurn(pairs)
               PROVE  ToSet(eventList) = DaySchedule(data.transition, pairs)
    BY DEF ListIsTheDaySchedule
  <2>1. data \in Backgrounds /\ pairs \in Seq(Pairs) /\ pairs # <<>>
    BY DEF TypeOK, Pairs
  <2>2. eventList \in ListsFromPairs(data.transition, pairs)
    BY DEF FinishedListIsAnEventList
  <2>3. QED
    BY <2>1, <2>2, ListsOfDistinctTimes
<1>2. QED
  BY <1>1, TypeCorrect, FinishedListIsAlwaysAnEventList, PTL

===============================================================================
