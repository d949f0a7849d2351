-------------------------- MODULE DynamicLoop_proofs --------------------------
(***************************************************************************)
(* Proofs about the loop, for a day of any length, any number of           *)
(* milliseconds to the second, and any bound on the time that setting an   *)
(* image and oversleeping take: the sizes of the code, which TLC cannot    *)
(* explore, are among them.                                                *)
(*                                                                         *)
(* The theorems suppose ListsAreEventLists, which speaks of constants.     *)
(***************************************************************************)
EXTENDS DynamicLoop, EventList_proofs

-------------------------------------------------------------------------------
(* Arithmetic. *)

\* A division and its rest.
LEMMA Division ==
  ASSUME NEW a \in Nat, NEW m \in Nat \ {0}
  PROVE  /\ a \div m \in Nat /\ (a % m) \in 0 .. (m - 1)
         /\ a = m * (a \div m) + (a % m)
OBVIOUS

\* A number of less than one day in either direction, on the clock.
LEMMA Residue ==
  ASSUME NEW k \in Nat \ {0}, NEW y \in Int, - k <= y, y < k
  PROVE  y % k = IF y < 0 THEN y + k ELSE y
OBVIOUS

\* Whatever is put on the clock is an instant of the day.
LEMMA ResidueType ==
  ASSUME NEW k \in Nat \ {0}, NEW y \in Int
  PROVE  (y % k) \in 0 .. (k - 1)
OBVIOUS

\* The percentages of a transition, which has one more share than steps.
LEMMA PercentageType ==
  ASSUME NEW i \in Nat, NEW s \in Nat, i < s
  PROVE  Percentage(i, s) \in 0 .. 100
BY DEF Percentage

\* What a division into s steps drops is less than s.
LEMMA StepsDrop ==
  ASSUME NEW a \in Nat, NEW s \in Nat \ {0}
  PROVE  /\ (a \div s) \in Nat
         /\ s * (a \div s) > a - s
OBVIOUS

\* The length of a day in milliseconds.
LEMMA DayType ==
  /\ Day \in Nat \ {0} /\ Milli \in Nat \ {0}
  /\ Day * Milli \in Nat \ {0}
  /\ MaxBusy \in Nat /\ MaxOversleep \in Nat
<1>1. Day \in Nat \ {0} /\ Milli \in Nat \ {0} /\ MaxBusy \in Nat /\ MaxOversleep \in Nat
  BY DayAssumption, LoopAssumption
<1>2. Day * Milli \in Nat \ {0}
  BY <1>1
<1>3. QED
  BY <1>1, <1>2

\* The clock, whatever time is spent.
LEMMA LaterType ==
  ASSUME NEW instant \in Instants, NEW ms \in Nat
  PROVE  Later(instant, ms) \in Instants
BY DayType, ResidueType DEF Later, Instants

\* An instant is a second and a fraction of it.
LEMMA InstantParts ==
  ASSUME NEW instant \in Instants
  PROVE  /\ CurrentTime(instant) \in TimeOfDay
         /\ (instant % Milli) \in 0 .. (Milli - 1)
         /\ instant = Milli * CurrentTime(instant) + (instant % Milli)
<1>1. instant \in Nat /\ instant < Day * Milli
  BY DayType DEF Instants
<1>2. /\ instant \div Milli \in Nat /\ (instant % Milli) \in 0 .. (Milli - 1)
      /\ instant = Milli * (instant \div Milli) + (instant % Milli)
  BY <1>1, DayType, Division
<1>3. instant \div Milli < Day
  BY <1>1, <1>2, DayType
<1>4. QED
  BY <1>1, <1>2, <1>3, DayType DEF CurrentTime, TimeOfDay

-------------------------------------------------------------------------------
(* The list and its current event. *)

\* The current event is the last that has begun, or the last of the day.
LEMMA CurrentIsFound ==
  ASSUME NEW list \in Seq(Events), list # <<>>, NEW now
  PROVE  LET c == CurrentIndex(list, now)
         IN  /\ c \in DOMAIN list
             /\ \/ /\ list[c].time <= now
                   /\ \A j \in DOMAIN list : list[j].time <= now => j <= c
                \/ /\ c = Len(list)
                   /\ \A j \in DOMAIN list : ~ (list[j].time <= now)
<1> DEFINE begun == {i \in DOMAIN list : list[i].time <= now}
<1>1. Len(list) \in Nat \ {0} /\ DOMAIN list = 1 .. Len(list)
  BY LenProperties, EmptySeq
<1>2. CASE begun = {}
  <2>1. CurrentIndex(list, now) = Len(list)
    BY <1>2 DEF CurrentIndex
  <2>2. QED
    BY <1>1, <1>2, <2>1
<1>3. CASE begun # {}
  <2>1. CurrentIndex(list, now) = Max(begun)
    BY <1>3 DEF CurrentIndex
  <2>2. begun \in SUBSET (1 .. Len(list))
    BY <1>1
  <2> HIDE DEF begun
  <2>3. Max(begun) \in begun /\ \A y \in begun : Max(begun) >= y
    BY <1>1, <1>3, <2>2, MaxExists
  <2>4. \A y \in begun : y <= Max(begun)
    BY <1>1, <2>2, <2>3
  <2>5. QED
    BY <2>1, <2>3, <2>4 DEF begun
<1>4. QED
  BY <1>2, <1>3

\* An event has a time of day; a transition has its images and a duration.
LEMMA EventType ==
  ASSUME NEW e \in Events
  PROVE  /\ e.time \in TimeOfDay /\ e.time \in Nat /\ e.time < Day
         /\ EventDuration(e) \in Nat
         /\ IsSet(e) <=> ~ IsLerp(e)
         /\ IsSet(e) => e.image \in STRING /\ EventDuration(e) = 0
         /\ IsLerp(e) => /\ e.start \in STRING /\ e.end \in STRING
                         /\ e.duration \in Nat \ {0} /\ EventDuration(e) = e.duration
<1>1. e.time \in TimeOfDay
  BY DEF Events, SetEvents, LerpEvents
<1>2. e.time \in Nat /\ e.time < Day
  BY <1>1, DayType DEF TimeOfDay
<1>3. QED
  BY <1>1, <1>2 DEF Events, SetEvents, LerpEvents, IsSet, IsLerp, EventDuration

\* The sleep between events is a number of seconds, of a day at most.
LEMMA SleepType ==
  ASSUME NEW now \in TimeOfDay, NEW duration \in Nat, NEW later \in TimeOfDay
  PROVE  /\ TimeUntilNext(now, duration, later) \in 0 .. Day
         /\ LET gap == IF now < later THEN later - now ELSE Day - now + later
            IN  /\ gap \in 1 .. Day
                /\ TimeUntilNext(now, duration, later) =
                     IF gap < duration THEN 0 ELSE gap - duration
BY DayType DEF TimeOfDay, TimeUntilNext

-------------------------------------------------------------------------------
(* The state of the loop. *)

\* The current event is the one of the time this iteration read; what is on the screen is
\* left to Screen, and the time that passes to Timing.
Shape ==
  /\ data \in Backgrounds
  /\ pc \in {"wake", "lerp", "sleep", "terminated"}
  /\ clock \in Instants /\ wokeAt \in Instants
  /\ step \in Nat /\ sleepTime \in 0 .. Day /\ elapsed \in Nat
  /\ current = 0 => pc = "wake" /\ eventList = <<>>
  /\ current # 0 => /\ eventList \in ListsOf[data]
                    /\ current = CurrentIndex(eventList, CurrentTime(wokeAt))
  /\ pc = "lerp" => IsLerp(Event) /\ step <= data.transition.steps

\* A loop with an event has a list with times in it.
LEMMA EventOfState ==
  ASSUME ListsAreEventLists, Shape, current # 0
  PROVE  /\ IsEventList(data, eventList)
         /\ eventList \in Seq(Events) /\ Len(eventList) \in Nat \ {0}
         /\ DOMAIN eventList = 1 .. Len(eventList)
         /\ current \in DOMAIN eventList /\ Event \in Events
         /\ NextIndex(eventList, current) \in DOMAIN eventList
         /\ NextTime \in TimeOfDay /\ Event.time \in TimeOfDay
<1>1. IsEventList(data, eventList)
  BY DEF Shape, ListsAreEventLists
<1>2. eventList \in Seq(Events) /\ eventList # <<>>
  BY <1>1 DEF IsEventList
<1>3. Len(eventList) \in Nat \ {0} /\ DOMAIN eventList = 1 .. Len(eventList)
  BY <1>2, LenProperties, EmptySeq
<1>4. current \in DOMAIN eventList
  BY <1>2, CurrentIsFound DEF Shape
<1>5. NextIndex(eventList, current) \in DOMAIN eventList
  BY <1>3, <1>4 DEF NextIndex
<1>6. \A i \in DOMAIN eventList : eventList[i] \in Events
  BY <1>2, <1>3, ElementOfSeq
<1>7. NextTime \in TimeOfDay /\ Event.time \in TimeOfDay /\ Event \in Events
  BY <1>4, <1>5, <1>6, EventType DEF NextTime, Event
<1>8. QED
  BY <1>1, <1>2, <1>3, <1>4, <1>5, <1>7

\* The transition of a background set, where there is one.
LEMMA TransitionType ==
  ASSUME NEW b \in Backgrounds, b.transition # NoTransition
  PROVE  /\ b.transition.duration \in Nat \ {0}
         /\ b.transition.steps \in Nat /\ b.transition.inPlace \in BOOLEAN
<1>1. b.transition \in Transitions
  BY BackgroundsAssumption DEF IsBackground
<1>2. QED
  BY <1>1 DEF Transitions

\* A transition in the list comes from one of the background set.
LEMMA TransitionOfState ==
  ASSUME ListsAreEventLists, Shape, current # 0, IsLerp(Event)
  PROVE  /\ data.transition # NoTransition
         /\ data.transition.steps \in Nat /\ data.transition.inPlace \in BOOLEAN
         /\ Event.duration \in Nat \ {0}
         /\ Event.duration <= TimeUntilNext(Event.time, 0, NextTime)
<1>1. /\ IsEventList(data, eventList) /\ current \in DOMAIN eventList /\ Event \in Events
      /\ data \in Backgrounds
  BY EventOfState DEF Shape
<1>2. /\ data.transition # NoTransition
      /\ Event.duration <= TimeUntilNext(Event.time, 0, NextTime)
  BY <1>1 DEF IsEventList, Event, NextTime
<1>3. QED
  BY <1>1, <1>2, TransitionType, EventType

\* What timeUntilNext returns is a time to sleep.
LEMMA SleepOfState ==
  ASSUME ListsAreEventLists, Shape, current # 0
  PROVE  TimeUntilNext(CurrentTime(wokeAt), EventDuration(Event), NextTime) \in 0 .. Day
<1>1. /\ CurrentTime(wokeAt) \in TimeOfDay /\ EventDuration(Event) \in Nat
      /\ NextTime \in TimeOfDay
  BY EventOfState, EventType, InstantParts DEF Shape
<1>2. QED
  BY <1>1, SleepType

\* A new iteration, whatever it carries out.
LEMMA Built ==
  ASSUME ListsAreEventLists, Shape, BuildList
  PROVE  /\ data' = data /\ pc = "wake" /\ wokeAt' \in Instants /\ wokeAt' = clock
         /\ eventList' \in ListsOf[data]
         /\ current' = CurrentIndex(eventList', CurrentTime(wokeAt'))
         /\ current' \in 1 .. Len(eventList') /\ current' # 0
<1>1. /\ data' = data /\ pc = "wake" /\ wokeAt' \in Instants /\ wokeAt' = clock
      /\ eventList' \in ListsOf[data]
      /\ current' = CurrentIndex(eventList', CurrentTime(wokeAt'))
  BY DEF BuildList, Shape
<1>2. eventList' \in Seq(Events) /\ eventList' # <<>>
  BY <1>1 DEF ListsAreEventLists, IsEventList, Shape
<1>3. current' \in DOMAIN eventList'
  BY <1>1, <1>2, CurrentIsFound
<1>4. current' \in 1 .. Len(eventList') /\ current' # 0
  BY <1>2, <1>3, LenProperties
<1>5. QED
  BY <1>1, <1>4

\* The state behind a new iteration, as far as the iteration decides it.
LEMMA BuiltEvent ==
  ASSUME ListsAreEventLists, Shape, BuildList
  PROVE  /\ Event' \in Events
         /\ (IsLerp(Event) => data.transition # NoTransition /\ data.transition.steps \in Nat)'
         /\ TimeUntilNext(CurrentTime(wokeAt'), EventDuration(Event'), NextTime') \in 0 .. Day
<1>1. /\ data' = data /\ wokeAt' \in Instants /\ eventList' \in ListsOf[data]
      /\ current' = CurrentIndex(eventList', CurrentTime(wokeAt'))
      /\ current' \in 1 .. Len(eventList') /\ data \in Backgrounds
  BY Built DEF Shape
<1>2. IsEventList(data, eventList')
  BY <1>1 DEF ListsAreEventLists
<1>3. eventList' \in Seq(Events) /\ eventList' # <<>> /\ Len(eventList') \in Nat
  BY <1>2, LenProperties DEF IsEventList
<1>4. \A i \in 1 .. Len(eventList') : eventList'[i] \in Events
  BY <1>3, ElementOfSeq
<1>5. Event' \in Events
  BY <1>1, <1>4 DEF Event
<1>6. IsLerp(Event') => data.transition # NoTransition
  BY <1>1, <1>2, <1>3, LenProperties DEF IsEventList, Event
<1>7. NextTime' \in TimeOfDay
  <2>1. NextIndex(eventList', current') \in 1 .. Len(eventList')
    BY <1>1, <1>3 DEF NextIndex
  <2>2. QED
    BY <1>4, <2>1, EventType DEF NextTime
<1>8. CurrentTime(wokeAt') \in TimeOfDay /\ EventDuration(Event') \in Nat
  BY <1>1, <1>5, InstantParts, EventType
<1>9. TimeUntilNext(CurrentTime(wokeAt'), EventDuration(Event'), NextTime') \in 0 .. Day
  BY <1>7, <1>8, SleepType
<1>10. QED
  BY <1>1, <1>5, <1>6, <1>9, TransitionType

\* The state of the program before it has set anything.
LEMMA ShapeInit ==
  ASSUME Init
  PROVE  Shape
BY DayType DEF Init, Shape, Instants

\* Every iteration, and every step of a transition, keeps the event it was entered for.
LEMMA ShapeNext ==
  ASSUME ListsAreEventLists, Shape, [Next]_vars
  PROVE  Shape'
<1>1. ASSUME BuildList, clock' \in Instants, step' \in Nat, elapsed' \in Nat,
             pc' \in {"lerp", "sleep", "terminated"}, sleepTime' \in 0 .. Day,
             pc' = "lerp" => IsLerp(Event') /\ step' = 0
      PROVE  Shape'
  <2>1. /\ data' = data /\ wokeAt' \in Instants /\ eventList' \in ListsOf[data]
        /\ current' = CurrentIndex(eventList', CurrentTime(wokeAt')) /\ current' # 0
    BY <1>1, Built
  <2>2. pc' = "lerp" => IsLerp(Event)' /\ step' <= data'.transition.steps
    <3>1. pc' = "lerp" => data'.transition.steps \in Nat
      BY <1>1, <2>1, BuiltEvent
    <3>2. QED
      BY <1>1, <3>1
  <2>3. QED
    BY <1>1, <2>1, <2>2 DEF Shape
<1>2. ASSUME pc # "wake", UNCHANGED <<data, wokeAt, eventList, current>>, clock' \in Instants,
             step' \in Nat, elapsed' \in Nat, sleepTime' \in 0 .. Day,
             pc' \in {"wake", "lerp", "sleep", "terminated"},
             pc' = "lerp" => pc = "lerp" /\ step' <= data.transition.steps
      PROVE  Shape'
  BY <1>2 DEF Shape, Event
<1>3. \A busy \in 0 .. MaxBusy : busy \in Nat /\ Later(clock, busy) \in Instants
  BY DayType, LaterType DEF Shape
<1>4. CASE DoSetEvent
  <2>1. clock' \in Instants /\ elapsed' \in Nat
    BY <1>3, <1>4 DEF DoSetEvent
  <2>2. BuildList /\ pc' = "sleep" /\ step' = step
    BY <1>4 DEF DoSetEvent, ReturnSleepTime
  <2>3. sleepTime' \in 0 .. Day
    BY <1>4, <2>2, BuiltEvent DEF DoSetEvent, ReturnSleepTime
  <2>4. QED
    BY <1>1, <2>1, <2>2, <2>3 DEF Shape
<1>5. CASE BeginLerp
  BY <1>1, <1>5 DEF BeginLerp, Shape
<1>6. CASE FailNoCacheDir
  <2>1. BuildList /\ pc' = "sleep" /\ step' = step /\ clock' = clock /\ elapsed' = 0
    BY <1>6 DEF FailNoCacheDir, ReturnSleepTime
  <2>2. sleepTime' \in 0 .. Day
    BY <1>6, <2>1, BuiltEvent DEF FailNoCacheDir, ReturnSleepTime
  <2>3. QED
    BY <1>1, <2>1, <2>2 DEF Shape
<1>7. CASE FailCreateDirectory
  BY <1>1, <1>7 DEF FailCreateDirectory, Shape
<1>8. CASE LerpStep
  <2>1. /\ pc = "lerp" /\ pc' = "lerp" /\ current # 0
        /\ UNCHANGED <<data, wokeAt, eventList, current, sleepTime>>
        /\ step < data.transition.steps /\ step' = step + 1
    BY <1>8 DEF LerpStep, Shape
  <2>2. data.transition.steps \in Nat /\ step \in Nat
    BY <2>1, TransitionOfState DEF Shape
  <2>3. \A busy \in 0 .. MaxBusy : busy \in Nat /\ StepSleep(busy) \in Nat
    <3>1. StepLength \in Nat
      <4>1. Event.duration \in Nat /\ data.transition.steps \in Nat \ {0}
        BY <2>1, <2>2, TransitionOfState DEF Shape
      <4>2. Event.duration * Milli \in Nat
        BY <4>1, DayType
      <4>3. QED
        BY <4>1, <4>2, Division DEF StepLength
    <3>2. QED
      BY <3>1, DayType DEF StepSleep
  <2>4. PICK busy \in 0 .. MaxBusy : Spend(busy + StepSleep(busy))
    BY <1>8 DEF LerpStep
  <2>5. clock' \in Instants /\ elapsed' \in Nat
    BY <2>3, <2>4, LaterType DEF Spend, Shape
  <2>6. QED
    BY <1>2, <2>1, <2>2, <2>5 DEF Shape
<1>9. CASE EndLerp
  <2>1. /\ pc = "lerp" /\ pc' = "sleep" /\ current # 0
        /\ UNCHANGED <<data, clock, wokeAt, eventList, current, step, elapsed>>
        /\ sleepTime' = TimeUntilNext(CurrentTime(wokeAt), EventDuration(Event), NextTime)
    BY <1>9 DEF EndLerp, ReturnSleepTime, Shape, Event, NextTime
  <2>2. sleepTime' \in 0 .. Day
    BY <2>1, SleepOfState
  <2>3. QED
    BY <1>2, <2>1, <2>2 DEF Shape
<1>10. CASE FailCompositeImage
  BY <1>2, <1>10 DEF FailCompositeImage, Shape
<1>11. CASE Sleep
  <2>1. PICK extra \in 0 .. MaxOversleep : Spend((sleepTime + 1) * Milli + extra)
    BY <1>11 DEF Sleep
  <2>2. (sleepTime + 1) * Milli + extra \in Nat
    BY <2>1, DayType DEF Shape
  <2>3. clock' \in Instants /\ elapsed' \in Nat
    BY <2>1, <2>2, LaterType DEF Spend, Shape
  <2>4. QED
    BY <1>2, <1>11, <2>3 DEF Sleep, Shape
<1>12. CASE UNCHANGED vars
  BY <1>12 DEF vars, Shape, Event
<1>13. QED
  BY <1>4, <1>5, <1>6, <1>7, <1>8, <1>9, <1>10, <1>11, <1>12 DEF Next

-------------------------------------------------------------------------------
(* The screen. *)

\* What is on the screen, and what the hook was run for.
Screen ==
  /\ background = NoImage \/ background \in Pictures
  /\ hooked \in STRING \cup {NoImage}

\* Only images and composites of them come on the screen, and only images of set events
\* reach the hook.
LEMMA ScreenNext ==
  ASSUME ListsAreEventLists, Shape, Screen, [Next]_vars
  PROVE  Screen'
<1>1. CASE DoSetEvent
  <2>1. Event' \in Events /\ IsSet(Event')
    BY <1>1, BuiltEvent DEF DoSetEvent
  <2>2. Event'.image \in STRING
    BY <2>1, EventType
  <2>3. QED
    BY <1>1, <2>2 DEF DoSetEvent, Screen, Whole, Pictures
<1>2. CASE LerpStep
  <2>1. pc = "lerp" /\ IsLerp(Event) /\ current # 0 /\ step < data.transition.steps
    BY <1>2 DEF LerpStep, Shape
  <2>2. Event.start \in STRING /\ Event.end \in STRING
    BY <2>1, EventOfState, EventType
  <2>3. Percentage(step, data.transition.steps) \in 0 .. 100
    BY <2>1, TransitionOfState, PercentageType DEF Shape
  <2>4. background' = Composite(Event.start, Event.end, Percentage(step, data.transition.steps))
        /\ hooked' = hooked
    BY <1>2 DEF LerpStep
  <2>5. background' \in Pictures
    BY <2>2, <2>3, <2>4 DEF Composite, Whole, Pictures
  <2>6. QED
    BY <2>4, <2>5 DEF Screen
<1>3. CASE BeginLerp \/ EndLerp \/ FailNoCacheDir \/ FailCreateDirectory \/ FailCompositeImage
           \/ Sleep \/ UNCHANGED vars
  BY <1>3 DEF BeginLerp, EndLerp, FailNoCacheDir, FailCreateDirectory, FailCompositeImage,
       Sleep, vars, Screen
<1>4. QED
  BY <1>1, <1>2, <1>3 DEF Next

\* Together they are the type of the loop.
LEMMA ShapeIsType ==
  ASSUME ListsAreEventLists, Shape, Screen
  PROVE  TypeOK
<1>1. CASE current = 0
  <2>1. eventList \in Seq(Events)
    BY <1>1, EmptySeq DEF Shape
  <2>2. QED
    BY <1>1, <2>1 DEF TypeOK, Shape, Screen
<1>2. CASE current # 0
  BY <1>2, EventOfState DEF TypeOK, Shape, Screen
<1>3. QED
  BY <1>1, <1>2

\* The state of the loop has its type, whatever times its lists have.
THEOREM TypeCorrect == ListsAreEventLists => (Spec => []TypeOK)
<1>1. SUFFICES ASSUME ListsAreEventLists
               PROVE  Spec => []TypeOK
  OBVIOUS
<1>2. Init => Shape /\ Screen
  BY ShapeInit DEF Init, Screen
<1>3. Shape /\ Screen /\ [Next]_vars => Shape' /\ Screen'
  BY <1>1, ShapeNext, ScreenNext
<1>4. Shape /\ Screen => TypeOK
  BY <1>1, ShapeIsType
<1>5. QED
  BY <1>2, <1>3, <1>4, PTL DEF Spec

-------------------------------------------------------------------------------
(* Time. *)

\* The longest one step of the transition takes.
StepMax == IF data.transition.inPlace \/ StepLength < MaxBusy THEN MaxBusy ELSE StepLength

\* How long an iteration may have taken, at each of its places, and the sleep it computed.
Timing ==
  /\ pc = "lerp" => IF step = 0 THEN elapsed = 0 ELSE elapsed <= step * StepMax
  /\ pc = "sleep" =>
       /\ current # 0
       /\ sleepTime = TimeUntilNext(CurrentTime(wokeAt), EventDuration(Event), NextTime)
       /\ IsSet(Event) => elapsed <= MaxBusy
       /\ IsLerp(Event) => elapsed <= LongestLerp(data, Event.duration)

\* A transition has a share of its duration for each of its steps, and no step takes less
\* than its share, but for in-place transitions, nor longer than the longest.
LEMMA StepTime ==
  ASSUME ListsAreEventLists, Shape, pc = "lerp", step < data.transition.steps,
         NEW busy \in 0 .. MaxBusy
  PROVE  /\ StepLength \in Nat /\ StepMax \in Nat /\ busy + StepSleep(busy) \in Nat
         /\ busy + StepSleep(busy) <= StepMax
         /\ ~ data.transition.inPlace => StepLength <= busy + StepSleep(busy)
<1>1. current # 0 /\ IsLerp(Event) /\ step \in Nat
  BY DEF Shape
<1>2. Event.duration \in Nat /\ data.transition.steps \in Nat \ {0}
  BY <1>1, TransitionOfState
<1>3. Event.duration * Milli \in Nat
  BY <1>2, DayType
<1>4. StepLength \in Nat
  BY <1>2, <1>3, Division DEF StepLength
<1>5. QED
  BY <1>4, DayType DEF StepMax, StepSleep

\* The bound on a transition is a time, with no steps as well.
LEMMA LongestType ==
  ASSUME NEW b, b.transition.steps \in Nat, NEW duration \in Nat
  PROVE  LongestLerp(b, duration) \in Nat
<1>1. CASE b.transition.steps = 0
  BY <1>1 DEF LongestLerp
<1>2. CASE b.transition.steps # 0
  <2>1. duration * Milli \in Nat
    BY DayType
  <2>2. (duration * Milli) \div b.transition.steps \in Nat
    BY <1>2, <2>1, Division
  <2> DEFINE longest == IF b.transition.inPlace \/ (duration * Milli) \div b.transition.steps < MaxBusy
                        THEN MaxBusy ELSE (duration * Milli) \div b.transition.steps
  <2>3. longest \in Nat
    BY <2>2, DayType
  <2>4. LongestLerp(b, duration) = b.transition.steps * longest
    BY <1>2 DEF LongestLerp, AsMilliseconds
  <2> HIDE DEF longest
  <2>5. QED
    BY <2>3, <2>4
<1>3. QED
  BY <1>1, <1>2

\* Adding a step to some steps that each take at most, or at least, so long.
LEMMA OneMore ==
  ASSUME NEW i \in Nat, NEW e \in Nat, NEW d \in Nat, NEW longest \in Nat
  PROVE  /\ e <= i * longest /\ d <= longest => e + d <= (i + 1) * longest
         /\ i * longest <= e /\ longest <= d => (i + 1) * longest <= e + d
OBVIOUS

\* Nothing takes longer than its bound.
LEMMA TimingNext ==
  ASSUME ListsAreEventLists, Shape, Timing, [Next]_vars
  PROVE  Timing'
<1>0. Shape'
  BY ShapeNext
<1>1. CASE DoSetEvent
  <2>1. /\ pc' = "sleep" /\ IsSet(Event') /\ BuildList /\ elapsed' <= MaxBusy
        /\ sleepTime' = TimeUntilNext(CurrentTime(wokeAt'), EventDuration(Event'), NextTime')
    BY <1>1, DayType DEF DoSetEvent, ReturnSleepTime
  <2>2. current' # 0
    BY <2>1, Built
  <2>3. ~ IsLerp(Event')
    BY <2>1 DEF IsSet, IsLerp
  <2>4. QED
    BY <2>1, <2>2, <2>3 DEF Timing
<1>2. CASE BeginLerp
  <2>1. pc' = "lerp" /\ elapsed' = 0 /\ step' = 0 /\ BuildList /\ IsLerp(Event')
    BY <1>2 DEF BeginLerp
  <2>2. QED
    BY <2>1 DEF Timing
<1>3. CASE FailNoCacheDir
  <2>1. /\ pc' = "sleep" /\ IsLerp(Event') /\ BuildList /\ elapsed' = 0
        /\ sleepTime' = TimeUntilNext(CurrentTime(wokeAt'), EventDuration(Event'), NextTime')
    BY <1>3 DEF FailNoCacheDir, ReturnSleepTime
  <2>2. current' # 0
    BY <2>1, Built
  <2>3. ~ IsSet(Event')
    BY <2>1 DEF IsSet, IsLerp
  <2>4. 0 <= LongestLerp(data', Event'.duration)
    <3>1. (Event.duration \in Nat)' /\ (data.transition.steps \in Nat)'
      BY <1>0, <2>1, <2>2, BuiltEvent, EventType DEF Shape
    <3>2. QED
      BY <3>1, LongestType
  <2>5. QED
    BY <2>1, <2>2, <2>3, <2>4 DEF Timing
<1>4. CASE FailCreateDirectory \/ FailCompositeImage
  BY <1>4 DEF FailCreateDirectory, FailCompositeImage, Timing
<1>5. CASE LerpStep
  <2>1. /\ pc = "lerp" /\ pc' = "lerp" /\ step' = step + 1
        /\ step < data.transition.steps
        /\ UNCHANGED <<data, wokeAt, eventList, current>>
    BY <1>5 DEF LerpStep
  <2>2. PICK busy \in 0 .. MaxBusy : elapsed' = elapsed + (busy + StepSleep(busy))
    BY <1>5 DEF LerpStep, Spend
  <2>3. /\ StepMax \in Nat /\ busy + StepSleep(busy) \in Nat
        /\ busy + StepSleep(busy) <= StepMax
    BY <2>1, StepTime
  <2>4. elapsed + (busy + StepSleep(busy)) <= (step + 1) * StepMax
    <3>1. step \in Nat /\ elapsed \in Nat
      BY DEF Shape
    <3>2. elapsed <= step * StepMax
      BY <2>1, <2>3, <3>1 DEF Timing
    <3>3. QED
      BY <2>3, <3>1, <3>2, OneMore
  <2>5. StepMax' = StepMax
    BY <2>1 DEF StepMax, StepLength, Event
  <2>6. step' # 0
    BY <2>1 DEF Shape
  <2>7. QED
    BY <2>1, <2>2, <2>4, <2>5, <2>6 DEF Timing
<1>6. CASE EndLerp
  <2>1. /\ pc = "lerp" /\ pc' = "sleep" /\ current # 0 /\ IsLerp(Event)
        /\ step = data.transition.steps
        /\ UNCHANGED <<data, wokeAt, eventList, current, elapsed>>
        /\ sleepTime' = TimeUntilNext(CurrentTime(wokeAt), EventDuration(Event), NextTime)
    BY <1>6 DEF EndLerp, ReturnSleepTime, Shape, Event, NextTime
  <2>2. IF step = 0 THEN elapsed = 0 ELSE elapsed <= data.transition.steps * StepMax
    BY <2>1 DEF Timing
  <2>3. data.transition.steps \in Nat /\ elapsed \in Nat /\ Event.duration \in Nat
    BY <2>1, TransitionOfState DEF Shape
  <2>4. elapsed <= LongestLerp(data, Event.duration)
    <3>1. CASE data.transition.steps = 0
      BY <2>1, <2>2, <3>1 DEF LongestLerp
    <3>2. CASE data.transition.steps # 0
      BY <2>1, <2>2, <3>2 DEF LongestLerp, StepMax, StepLength, AsMilliseconds
    <3>3. QED
      BY <3>1, <3>2
  <2>5. ~ IsSet(Event)
    BY <2>1 DEF IsSet, IsLerp
  <2>6. Event' = Event /\ NextTime' = NextTime
    BY <2>1 DEF Event, NextTime
  <2>7. QED
    BY <2>1, <2>4, <2>5, <2>6 DEF Timing
<1>7. CASE Sleep
  BY <1>7 DEF Sleep, Timing
<1>8. CASE UNCHANGED vars
  BY <1>8 DEF vars, Timing, StepMax, StepLength, Event, NextTime
<1>9. QED
  BY <1>1, <1>2, <1>3, <1>4, <1>5, <1>6, <1>7, <1>8 DEF Next

-------------------------------------------------------------------------------
(* The event that was entered and the next one. *)

\* Where a moment n of the day can lie with respect to an event t and the next event x.
Between(t, n, x) == (t <= n /\ n < x) \/ (x <= t /\ t <= n) \/ (n < x /\ x <= t)

\* From t to n, with a fraction f of a second, and from there to x, it is as long as the
\* event at t lasts.
LEMMA GapArithmetic ==
  ASSUME NEW t \in TimeOfDay, NEW n \in TimeOfDay, NEW x \in TimeOfDay,
         NEW f \in 0 .. (Milli - 1), Between(t, n, x)
  PROVE  LET entered == ((Milli * n + f) - t * Milli) % (Day * Milli)
             until == (IF n < x THEN x - n ELSE Day - n + x) * Milli - f
         IN  /\ entered \in Nat /\ until \in Int /\ f <= entered
             /\ entered + until = TimeUntilNext(t, 0, x) * Milli
<1> DEFINE y == (Milli * n + f) - t * Milli
           entered == y % (Day * Milli)
           gap == IF n < x THEN x - n ELSE Day - n + x
           length == IF t < x THEN x - t ELSE Day - t + x
<1>1. /\ t \in Nat /\ n \in Nat /\ x \in Nat /\ t < Day /\ n < Day /\ x < Day
      /\ f \in Nat /\ f < Milli
  BY DayType DEF TimeOfDay
<1>2. /\ gap \in Int /\ length \in Int /\ TimeUntilNext(t, 0, x) = length
  BY <1>1, DayType DEF TimeUntilNext
<1>3. Milli * n \in Nat /\ t * Milli \in Nat /\ y \in Int
  BY <1>1, DayType
<1>4. ASSUME t <= n PROVE 0 <= y /\ y < Day * Milli /\ y = (n - t) * Milli + f
  <2>1. y = (n - t) * Milli + f
    BY <1>1, DayType
  <2>2. n - t \in Nat /\ n - t + 1 <= Day
    BY <1>1, <1>4, DayType
  <2>3. (n - t + 1) * Milli <= Day * Milli /\ 0 <= (n - t) * Milli
    BY <2>2, DayType
  <2>4. QED
    BY <1>1, <2>1, <2>2, <2>3, DayType
<1>5. ASSUME n < t PROVE - (Day * Milli) <= y /\ y < 0 /\ y = (n - t) * Milli + f
  <2>1. y = (n - t) * Milli + f
    BY <1>1, DayType
  <2>2. t - n \in Nat /\ 1 <= t - n /\ t - n <= Day
    BY <1>1, <1>5, DayType
  <2>3. Milli <= (t - n) * Milli /\ (t - n) * Milli <= Day * Milli
    BY <2>2, DayType
  <2>4. (n - t) * Milli = - ((t - n) * Milli)
    BY <1>1, DayType
  <2>5. QED
    BY <1>1, <2>1, <2>2, <2>3, <2>4, DayType
<1>6. entered = IF n < t THEN (n - t) * Milli + f + Day * Milli ELSE (n - t) * Milli + f
  <2> HIDE DEF y
  <2>1. CASE n < t
    <3>1. y < 0 /\ - (Day * Milli) <= y /\ y < Day * Milli /\ y = (n - t) * Milli + f
      BY <1>3, <1>5, <2>1, DayType
    <3>2. entered = y + Day * Milli
      BY <1>3, <3>1, DayType, Residue
    <3>3. QED
      BY <2>1, <3>1, <3>2
  <2>2. CASE t <= n
    <3>1. 0 <= y /\ - (Day * Milli) <= y /\ y < Day * Milli /\ y = (n - t) * Milli + f
      BY <1>3, <1>4, <2>2, DayType
    <3>2. entered = y
      BY <1>3, <3>1, DayType, Residue
    <3>3. ~ (n < t)
      BY <1>1, <2>2
    <3>4. QED
      BY <3>1, <3>2, <3>3
  <2>3. QED
    BY <1>1, <2>1, <2>2
<1>7. entered \in Nat /\ f <= entered
  <2>1. CASE t <= n
    <3>1. n - t \in Nat
      BY <1>1, <2>1
    <3>2. 0 <= (n - t) * Milli /\ (n - t) * Milli \in Nat
      BY <3>1, DayType
    <3>3. QED
      BY <1>1, <1>6, <2>1, <3>2
  <2>2. CASE n < t
    <3>1. Day + (n - t) \in Nat
      BY <1>1, <2>2, DayType
    <3>2. (Day + (n - t)) * Milli \in Nat
      BY <3>1, DayType
    <3>3. (n - t) * Milli + Day * Milli = (Day + (n - t)) * Milli
      BY <1>1, DayType
    <3>4. (n - t) * Milli \in Int /\ Day * Milli \in Int
      BY <1>1, DayType
    <3>5. QED
      BY <1>1, <1>6, <2>2, <3>2, <3>3, <3>4
  <2>3. QED
    BY <1>1, <2>1, <2>2
<1>8. entered + (gap * Milli - f) = length * Milli
  <2>1. CASE t <= n /\ n < x
    BY <1>1, <1>6, <2>1, DayType
  <2>2. CASE x <= t /\ t <= n
    BY <1>1, <1>6, <2>2, DayType
  <2>3. CASE n < x /\ x <= t
    BY <1>1, <1>6, <2>3, DayType
  <2>4. QED
    BY <2>1, <2>2, <2>3 DEF Between
<1>9. gap * Milli - f \in Int
  BY <1>1, <1>2, DayType
<1>10. QED
  BY <1>2, <1>7, <1>8, <1>9

\* The time read lies where the current event says: since it and before the next one,
\* with midnight in one of the two gaps or in none.
LEMMA ReadBetween ==
  ASSUME ListsAreEventLists, Shape, current # 0
  PROVE  Between(Event.time, CurrentTime(wokeAt), NextTime)
<1> DEFINE now == CurrentTime(wokeAt)
<1>1. /\ eventList \in Seq(Events) /\ eventList # <<>> /\ Len(eventList) \in Nat \ {0}
      /\ DOMAIN eventList = 1 .. Len(eventList) /\ current \in 1 .. Len(eventList)
  BY EventOfState, EmptySeq
<1>2. current = CurrentIndex(eventList, now) /\ now \in TimeOfDay
  BY InstantParts DEF Shape
<1>3. \A i \in 1 .. Len(eventList) : eventList[i].time \in Nat
  BY <1>1, ElementOfSeq, EventType
<1>4. \A i, j \in 1 .. Len(eventList) : i < j => eventList[i].time < eventList[j].time
  BY <1>1, EventOfState DEF IsEventList, StrictlySorted
<1>5. \/ /\ Event.time <= now
         /\ \A j \in 1 .. Len(eventList) : eventList[j].time <= now => j <= current
      \/ /\ current = Len(eventList)
         /\ \A j \in 1 .. Len(eventList) : ~ (eventList[j].time <= now)
  BY <1>1, <1>2, CurrentIsFound DEF Event
<1>6. now \in Nat
  BY <1>2, DayType DEF TimeOfDay
<1> HIDE DEF now
<1>7. CASE current = Len(eventList)
  <2>1. NextTime = eventList[1].time
    BY <1>7 DEF NextTime, NextIndex
  <2>2. eventList[1].time <= Event.time
    BY <1>1, <1>3, <1>4, <1>7 DEF Event
  <2>3. Event.time \in Nat /\ eventList[1].time \in Nat
    BY <1>1, <1>3 DEF Event
  <2>4. Event.time <= now \/ now < eventList[1].time
    <3>1. 1 \in 1 .. Len(eventList)
      BY <1>1
    <3>2. Event.time <= now \/ ~ (eventList[1].time <= now)
      BY <1>5, <3>1
    <3>3. QED
      BY <1>6, <2>3, <3>2
  <2>5. QED
    BY <1>6, <2>1, <2>2, <2>3, <2>4 DEF Between, now
<1>8. CASE current # Len(eventList)
  <2>1. NextTime = eventList[current + 1].time /\ current + 1 \in 1 .. Len(eventList)
    <3>1. NextIndex(eventList, current) = current + 1
      BY <1>8 DEF NextIndex
    <3>2. current + 1 \in 1 .. Len(eventList)
      <4>1. Len(eventList) \in Nat /\ current \in 1 .. Len(eventList)
        BY <1>1
      <4>2. current < Len(eventList)
        BY <1>8, <4>1
      <4>3. QED
        BY <4>1, <4>2
    <3>3. QED
      BY <3>1, <3>2 DEF NextTime
  <2>2. Event.time <= now /\ ~ (eventList[current + 1].time <= now)
    <3>1. /\ Event.time <= now
          /\ \A j \in 1 .. Len(eventList) : eventList[j].time <= now => j <= current
      BY <1>5, <1>8
    <3>2. eventList[current + 1].time <= now => current + 1 <= current
      BY <2>1, <3>1
    <3>3. ~ (current + 1 <= current)
      BY <1>1
    <3>4. QED
      BY <3>1, <3>2, <3>3
  <2>3. QED
    BY <1>3, <1>6, <2>1, <2>2 DEF Between, now
<1>9. QED
  BY <1>7, <1>8

\* The next event comes when the current one has lasted as long as the list says.
LEMMA Gap ==
  ASSUME ListsAreEventLists, Shape, current # 0
  PROVE  /\ EnteredAfter \in Nat /\ UntilNextEvent \in Int
         /\ (wokeAt % Milli) \in 0 .. (Milli - 1) /\ (wokeAt % Milli) <= EnteredAfter
         /\ EnteredAfter + UntilNextEvent = TimeUntilNext(Event.time, 0, NextTime) * Milli
<1>1. /\ Event.time \in TimeOfDay /\ NextTime \in TimeOfDay
      /\ CurrentTime(wokeAt) \in TimeOfDay
      /\ (wokeAt % Milli) \in 0 .. (Milli - 1)
      /\ wokeAt = Milli * CurrentTime(wokeAt) + (wokeAt % Milli)
  BY EventOfState, InstantParts DEF Shape
<1>2. Between(Event.time, CurrentTime(wokeAt), NextTime)
  BY ReadBetween
<1> DEFINE n == CurrentTime(wokeAt)
           f == wokeAt % Milli
<1>3. EnteredAfter = ((Milli * n + f) - Event.time * Milli) % (Day * Milli)
  <2>1. wokeAt = Milli * n + f
    BY <1>1
  <2> HIDE DEF n, f
  <2>2. EnteredAfter = (wokeAt - Event.time * Milli) % (Day * Milli)
    BY DEF EnteredAfter, AsMilliseconds
  <2>3. QED
    BY <2>1, <2>2, Zenon
<1>4. UntilNextEvent = (IF n < NextTime THEN NextTime - n ELSE Day - n + NextTime) * Milli - f
  BY DEF UntilNextEvent, AsMilliseconds
<1> HIDE DEF n, f
<1>5. n \in TimeOfDay /\ f \in 0 .. (Milli - 1) /\ Between(Event.time, n, NextTime)
  BY <1>1, <1>2 DEF n, f
<1>6. /\ EnteredAfter \in Nat /\ UntilNextEvent \in Int /\ f <= EnteredAfter
      /\ EnteredAfter + UntilNextEvent = TimeUntilNext(Event.time, 0, NextTime) * Milli
  BY <1>1, <1>3, <1>4, <1>5, GapArithmetic
<1>7. QED
  BY <1>1, <1>6 DEF f

-------------------------------------------------------------------------------
(* Late by how much. *)

\* How late a set event leaves the loop: e and extra are what setting and oversleeping
\* cost, f the fraction of a second that was not seen, gap the seconds to the next event.
LEMMA LateAfterSet ==
  ASSUME NEW e \in Nat, NEW extra \in Nat, NEW gap \in Nat, NEW f \in Nat,
         e <= MaxBusy, extra <= MaxOversleep, f <= Milli - 1
  PROVE  (e + ((gap + 1) * Milli + extra)) - (gap * Milli - f) <= LatestAfterSet
<1>1. (gap + 1) * Milli = gap * Milli + Milli /\ gap * Milli \in Nat
  BY DayType
<1>2. QED
  BY <1>1, DayType DEF LatestAfterSet

\* How late a transition leaves it, entered so many milliseconds after its time: longest
\* is the most it takes.
LEMMA LateAfterLerp ==
  ASSUME NEW e \in Nat, NEW extra \in Nat, NEW gap \in Nat, NEW f \in Nat,
         NEW duration \in Nat, NEW entered \in Nat, NEW longest \in Nat, NEW length \in Nat,
         e <= longest, extra <= MaxOversleep, f <= entered, duration <= length,
         entered + (gap * Milli - f) = length * Milli
  PROVE  LET sleep == IF gap < duration THEN 0 ELSE gap - duration
         IN  (e + ((sleep + 1) * Milli + extra)) - (gap * Milli - f)
               <= (((entered + longest) - duration * Milli) + Milli) + MaxOversleep
<1>1. duration * Milli <= length * Milli
  BY DayType
<1>2. gap * Milli \in Nat /\ duration * Milli \in Nat /\ length * Milli \in Nat
  BY DayType
<1>3. CASE gap < duration
  <2>1. (0 + 1) * Milli = Milli
    BY DayType
  <2>2. QED
    BY <1>1, <1>2, <1>3, <2>1, DayType
<1>4. CASE ~ (gap < duration)
  <2>1. ((gap - duration) + 1) * Milli = (gap * Milli - duration * Milli) + Milli
    BY DayType
  <2>2. QED
    BY <1>2, <1>4, <2>1, DayType
<1>5. QED
  BY <1>3, <1>4

\* What the end of a sleep changes.
LEMMA Awoken ==
  ASSUME ListsAreEventLists, Shape, Timing, Sleep
  PROVE  \E extra \in 0 .. MaxOversleep, gap \in 1 .. Day :
           /\ current # 0 /\ current' = current /\ data' = data
           /\ Event' = Event /\ EnteredAfter' = EnteredAfter
           /\ UntilNextEvent = gap * Milli - (wokeAt % Milli)
           /\ EventDuration(Event) \in Nat
           /\ sleepTime = IF gap < EventDuration(Event) THEN 0 ELSE gap - EventDuration(Event)
           /\ Lateness' = (elapsed + ((sleepTime + 1) * Milli + extra)) - UntilNextEvent
<1>1. /\ pc = "sleep" /\ UNCHANGED <<data, wokeAt, eventList, current>>
  BY DEF Sleep
<1>2. PICK extra \in 0 .. MaxOversleep : elapsed' = elapsed + ((sleepTime + 1) * Milli + extra)
  BY DEF Sleep, Spend
<1>3. /\ current # 0
      /\ sleepTime = TimeUntilNext(CurrentTime(wokeAt), EventDuration(Event), NextTime)
  BY <1>1 DEF Timing
<1>4. /\ CurrentTime(wokeAt) \in TimeOfDay /\ EventDuration(Event) \in Nat
      /\ NextTime \in TimeOfDay
  BY <1>3, EventOfState, EventType, InstantParts DEF Shape
<1> DEFINE gap == IF CurrentTime(wokeAt) < NextTime THEN NextTime - CurrentTime(wokeAt)
                  ELSE Day - CurrentTime(wokeAt) + NextTime
<1>5. /\ gap \in 1 .. Day
      /\ sleepTime = IF gap < EventDuration(Event) THEN 0 ELSE gap - EventDuration(Event)
  BY <1>3, <1>4, SleepType
<1>6. UntilNextEvent = gap * Milli - (wokeAt % Milli)
  BY DEF UntilNextEvent, AsMilliseconds
<1>7. /\ Event' = Event /\ EnteredAfter' = EnteredAfter /\ UntilNextEvent' = UntilNextEvent
  BY <1>1 DEF Event, EnteredAfter, UntilNextEvent, NextTime
<1>8. Lateness' = (elapsed + ((sleepTime + 1) * Milli + extra)) - UntilNextEvent
  BY <1>2, <1>7 DEF Lateness
<1> HIDE DEF gap
<1>9. QED
  BY <1>1, <1>3, <1>4, <1>5, <1>6, <1>7, <1>8

\* However the iteration went, the loop is awake in time for the next event.
LEMMA WakesInTimeNext ==
  ASSUME ListsAreEventLists, Shape, Timing, WakesInTime, [Next]_vars
  PROVE  WakesInTime'
<1>1. CASE Sleep
  <2>1. PICK extra \in 0 .. MaxOversleep, gap \in 1 .. Day :
           /\ current # 0 /\ current' = current /\ data' = data
           /\ Event' = Event /\ EnteredAfter' = EnteredAfter
           /\ UntilNextEvent = gap * Milli - (wokeAt % Milli)
           /\ EventDuration(Event) \in Nat
           /\ sleepTime = IF gap < EventDuration(Event) THEN 0 ELSE gap - EventDuration(Event)
           /\ Lateness' = (elapsed + ((sleepTime + 1) * Milli + extra)) - UntilNextEvent
    BY <1>1, Awoken
  <2>2. /\ (wokeAt % Milli) \in 0 .. (Milli - 1) /\ (wokeAt % Milli) <= EnteredAfter
        /\ EnteredAfter \in Nat
        /\ EnteredAfter + UntilNextEvent = TimeUntilNext(Event.time, 0, NextTime) * Milli
    BY <2>1, Gap
  <2>3. /\ extra \in Nat /\ extra <= MaxOversleep /\ gap \in Nat /\ elapsed \in Nat
        /\ wokeAt % Milli \in Nat /\ wokeAt % Milli <= Milli - 1
    BY <2>2, DayType DEF Shape
  <2>4. Event \in Events
    BY <2>1, EventOfState
  <2>5. CASE IsSet(Event)
    <3>1. EventDuration(Event) = 0 /\ elapsed <= MaxBusy
      BY <1>1, <2>4, <2>5, EventType DEF Sleep, Timing
    <3>2. sleepTime = gap
      BY <2>1, <2>3, <3>1
    <3>3. Lateness' <= LatestAfterSet
      BY <2>1, <2>3, <3>1, <3>2, LateAfterSet
    <3>4. IsSet(Event')
      BY <2>1, <2>5
    <3>5. QED
      BY <3>3, <3>4 DEF WakesInTime
  <2>6. CASE IsLerp(Event)
    <3>1. /\ Event.duration \in Nat /\ EventDuration(Event) = Event.duration
          /\ data.transition.steps \in Nat
          /\ Event.duration <= TimeUntilNext(Event.time, 0, NextTime)
          /\ ~ IsSet(Event)
      BY <2>1, <2>4, <2>6, TransitionOfState, EventType
    <3>2. elapsed <= LongestLerp(data, Event.duration)
      BY <1>1, <2>6 DEF Sleep, Timing
    <3>3. LongestLerp(data, Event.duration) \in Nat
      BY <3>1, LongestType
    <3>4. TimeUntilNext(Event.time, 0, NextTime) \in Nat
      <4>1. Event.time \in TimeOfDay /\ NextTime \in TimeOfDay /\ 0 \in Nat
        BY <2>1, EventOfState
      <4>2. TimeUntilNext(Event.time, 0, NextTime) \in 0 .. Day
        BY <4>1, SleepType
      <4>3. QED
        BY <4>2, DayType
    <3> DEFINE longest == LongestLerp(data, Event.duration)
               length == TimeUntilNext(Event.time, 0, NextTime)
    <3>5. (elapsed + ((sleepTime + 1) * Milli + extra)) - (gap * Milli - (wokeAt % Milli))
             <= (((EnteredAfter + longest) - Event.duration * Milli) + Milli) + MaxOversleep
      <4> DEFINE f == wokeAt % Milli
                 d == Event.duration
                 entered == EnteredAfter
      <4>1. /\ elapsed \in Nat /\ extra \in Nat /\ gap \in Nat /\ f \in Nat /\ d \in Nat
            /\ entered \in Nat /\ longest \in Nat /\ length \in Nat
            /\ elapsed <= longest /\ extra <= MaxOversleep /\ f <= entered /\ d <= length
            /\ entered + (gap * Milli - f) = length * Milli
        BY <2>1, <2>2, <2>3, <3>1, <3>2, <3>3, <3>4
      <4>2. sleepTime = IF gap < d THEN 0 ELSE gap - d
        BY <2>1, <3>1
      <4> HIDE DEF f, d, entered, longest, length
      <4>3. (elapsed + ((sleepTime + 1) * Milli + extra)) - (gap * Milli - f)
              <= (((entered + longest) - d * Milli) + Milli) + MaxOversleep
        BY <4>1, <4>2, LateAfterLerp
      <4>4. QED
        BY <4>3 DEF f, d, entered
    <3>6. Lateness' <= (((EnteredAfter + longest) - Event.duration * Milli) + Milli) + MaxOversleep
      BY <2>1, <3>5
    <3>7. ~ IsSet(Event') /\ data' = data /\ Event'.duration = Event.duration
      BY <2>1, <3>1
    <3>8. (((EnteredAfter + longest) - Event.duration * Milli) + Milli) + MaxOversleep
            = EnteredAfter' + LongestLerp(data', Event'.duration)
                - AsMilliseconds(Event'.duration) + Milli + MaxOversleep
      <4>1. /\ EnteredAfter \in Int /\ longest \in Int /\ Event.duration * Milli \in Int
        BY <2>2, <3>1, <3>3, DayType
      <4>2. LongestLerp(data', Event'.duration) = longest /\ EnteredAfter' = EnteredAfter
            /\ AsMilliseconds(Event'.duration) = Event.duration * Milli
        BY <2>1, <3>7 DEF AsMilliseconds
      <4> HIDE DEF longest
      <4>3. QED
        BY <4>1, <4>2, DayType
    <3> HIDE DEF longest
    <3>9. Lateness' <= EnteredAfter' + LongestLerp(data', Event'.duration)
                         - AsMilliseconds(Event'.duration) + Milli + MaxOversleep
      BY <3>6, <3>8, Zenon
    <3>10. QED
      BY <3>7, <3>9 DEF WakesInTime
  <2>7. QED
    BY <2>4, <2>5, <2>6, EventType
<1>2. CASE DoSetEvent \/ BeginLerp \/ EndLerp \/ LerpStep \/ FailNoCacheDir
           \/ FailCreateDirectory \/ FailCompositeImage
  <2>1. pc' # "wake"
    BY <1>2 DEF DoSetEvent, BeginLerp, EndLerp, LerpStep, FailNoCacheDir,
         FailCreateDirectory, FailCompositeImage, ReturnSleepTime
  <2>2. QED
    BY <2>1 DEF WakesInTime, AwakeAgain
<1>3. CASE UNCHANGED vars
  BY <1>3 DEF vars, WakesInTime, AwakeAgain, Lateness, UntilNextEvent, EnteredAfter, NextTime,
       Event
<1>4. QED
  BY <1>1, <1>2, <1>3 DEF Next

\* The loop is never far behind the day: late by a second and a fraction after a set event,
\* and after a transition by the delay it was entered with.  A transition fits between its
\* neighbours, so entering it late never costs more than the delay itself.
THEOREM NeverFarBehind == ListsAreEventLists => (Spec => []WakesInTime)
<1>1. SUFFICES ASSUME ListsAreEventLists
               PROVE  Spec => []WakesInTime
  OBVIOUS
<1>2. Init => Shape /\ Timing /\ WakesInTime
  <2>1. Init => Timing /\ WakesInTime
    BY DEF Init, Timing, WakesInTime, AwakeAgain
  <2>2. QED
    BY <2>1, ShapeInit
<1>3. Shape /\ Timing /\ WakesInTime /\ [Next]_vars => Shape' /\ Timing' /\ WakesInTime'
  BY <1>1, ShapeNext, TimingNext, WakesInTimeNext
<1>4. QED
  BY <1>2, <1>3, PTL DEF Spec

-------------------------------------------------------------------------------
(* Early never. *)

\* No error happens, and every transition has at least one step, at most one more than
\* there are milliseconds in a second, and a compositor that sleeps.
Steady ==
  /\ Faults = {}
  /\ \A b \in Backgrounds :
       b.transition # NoTransition =>
         ~ b.transition.inPlace /\ b.transition.steps \in 1 .. (Milli + 1)

\* No step is shorter than its share, so the transition has lasted its duration at its end.
Pace ==
  /\ pc = "lerp" => IF step = 0 THEN elapsed = 0 ELSE step * StepLength <= elapsed
  /\ TransitionLastsItsDuration

\* The transition of a steady day.
LEMMA SteadyTransition ==
  ASSUME ListsAreEventLists, Steady, Shape, current # 0, IsLerp(Event)
  PROVE  /\ ~ data.transition.inPlace
         /\ data.transition.steps \in Nat \ {0} /\ data.transition.steps <= Milli + 1
<1>1. data.transition # NoTransition /\ data \in Backgrounds
  BY TransitionOfState DEF Shape
<1>2. QED
  BY <1>1, DayType DEF Steady

\* Each step keeps the pace.
LEMMA PaceNext ==
  ASSUME ListsAreEventLists, Steady, Shape, Pace, [Next]_vars
  PROVE  Pace'
<1>1. CASE DoSetEvent
  BY <1>1 DEF DoSetEvent, ReturnSleepTime, Pace, TransitionLastsItsDuration, IsSet, IsLerp
<1>2. CASE BeginLerp
  BY <1>2 DEF BeginLerp, Pace, TransitionLastsItsDuration
<1>3. CASE FailNoCacheDir
  BY <1>3 DEF FailNoCacheDir, Steady
<1>4. CASE FailCreateDirectory \/ FailCompositeImage
  BY <1>4 DEF FailCreateDirectory, FailCompositeImage, Steady
<1>5. CASE LerpStep
  <2>1. /\ pc = "lerp" /\ pc' = "lerp" /\ step' = step + 1 /\ current # 0 /\ IsLerp(Event)
        /\ step < data.transition.steps
        /\ UNCHANGED <<data, wokeAt, eventList, current>>
    BY <1>5 DEF LerpStep, Shape
  <2>2. PICK busy \in 0 .. MaxBusy : elapsed' = elapsed + (busy + StepSleep(busy))
    BY <1>5 DEF LerpStep, Spend
  <2>3. /\ StepLength \in Nat /\ busy + StepSleep(busy) \in Nat
        /\ StepLength <= busy + StepSleep(busy)
    BY <2>1, StepTime, SteadyTransition
  <2>4. (step + 1) * StepLength <= elapsed + (busy + StepSleep(busy))
    <3>1. step \in Nat /\ elapsed \in Nat
      BY DEF Shape
    <3>2. step * StepLength <= elapsed
      BY <2>1, <2>3, <3>1 DEF Pace
    <3>3. QED
      BY <2>3, <3>1, <3>2, OneMore
  <2>5. StepLength' = StepLength
    BY <2>1 DEF StepLength, Event
  <2>6. QED
    BY <2>1, <2>2, <2>4, <2>5 DEF Pace, Shape, TransitionLastsItsDuration
<1>6. CASE EndLerp
  <2>1. /\ pc = "lerp" /\ pc' = "sleep" /\ current # 0 /\ IsLerp(Event)
        /\ step = data.transition.steps
        /\ UNCHANGED <<data, wokeAt, eventList, current, elapsed>>
    BY <1>6 DEF EndLerp, ReturnSleepTime, Shape
  <2>2. data.transition.steps \in Nat \ {0} /\ Event.duration \in Nat /\ elapsed \in Nat
    BY <2>1, SteadyTransition, TransitionOfState DEF Shape
  <2>3. data.transition.steps * StepLength <= elapsed
    BY <2>1, <2>2 DEF Pace
  <2>4. Event.duration * Milli \in Nat
    BY <2>2, DayType
  <2>5. data.transition.steps * StepLength > Event.duration * Milli - data.transition.steps
    BY <2>2, <2>4, StepsDrop DEF StepLength
  <2>6. elapsed > Event.duration * Milli - data.transition.steps
    <3>1. StepLength \in Nat
      BY <2>2, <2>4, StepsDrop DEF StepLength
    <3>2. data.transition.steps * StepLength \in Nat
      BY <2>2, <3>1
    <3>3. QED
      BY <2>2, <2>3, <2>4, <2>5, <3>2
  <2>7. Event' = Event
    BY <2>1 DEF Event
  <2>8. QED
    BY <2>1, <2>6, <2>7 DEF Pace, TransitionLastsItsDuration, AsMilliseconds
<1>7. CASE Sleep
  BY <1>7 DEF Sleep, Pace, TransitionLastsItsDuration
<1>8. CASE UNCHANGED vars
  BY <1>8 DEF vars, Pace, TransitionLastsItsDuration, StepLength, Event
<1>9. QED
  BY <1>1, <1>2, <1>3, <1>4, <1>5, <1>6, <1>7, <1>8 DEF Next

\* The second that is added to a sleep makes up for what the division into steps drops and
\* for the fraction of a second that was not seen.
LEMMA NotEarlyNext ==
  ASSUME ListsAreEventLists, Steady, Shape, Timing, Pace, NeverWakesEarly, [Next]_vars
  PROVE  NeverWakesEarly'
<1>1. CASE Sleep
  <2>1. PICK extra \in 0 .. MaxOversleep, gap \in 1 .. Day :
           /\ current # 0 /\ current' = current /\ data' = data
           /\ Event' = Event /\ EnteredAfter' = EnteredAfter
           /\ UntilNextEvent = gap * Milli - (wokeAt % Milli)
           /\ EventDuration(Event) \in Nat
           /\ sleepTime = IF gap < EventDuration(Event) THEN 0 ELSE gap - EventDuration(Event)
           /\ Lateness' = (elapsed + ((sleepTime + 1) * Milli + extra)) - UntilNextEvent
    BY <1>1, Awoken
  <2>2. Event \in Events
    BY <2>1, EventOfState
  <2>3. elapsed > EventDuration(Event) * Milli - (Milli + 1)
    <3>1. CASE IsSet(Event)
      <4>1. EventDuration(Event) * Milli = 0
        BY <2>2, <3>1, EventType, DayType
      <4>2. QED
        BY <4>1, DayType DEF Shape
    <3>2. CASE IsLerp(Event)
      <4>1. elapsed > Event.duration * Milli - data.transition.steps
        BY <1>1, <3>2 DEF Sleep, Pace, TransitionLastsItsDuration, AsMilliseconds
      <4>2. /\ EventDuration(Event) = Event.duration /\ Event.duration \in Nat
            /\ data.transition.steps \in Nat /\ data.transition.steps <= Milli + 1
        BY <2>1, <2>2, <3>2, SteadyTransition, EventType
      <4>3. Event.duration * Milli \in Nat /\ elapsed \in Nat
        BY <4>2, DayType DEF Shape
      <4>4. QED
        BY <4>1, <4>2, <4>3, DayType
    <3>3. QED
      BY <2>2, <3>1, <3>2, EventType
  <2>4. elapsed \in Nat /\ extra \in Nat /\ gap \in Nat /\ wokeAt % Milli \in Nat
    BY <2>1, Gap, DayType DEF Shape
  <2> DEFINE f == wokeAt % Milli
             d == EventDuration(Event)
  <2>5. /\ d \in Nat /\ f \in Nat /\ elapsed > d * Milli - (Milli + 1)
        /\ sleepTime = IF gap < d THEN 0 ELSE gap - d
    BY <2>1, <2>3, <2>4
  <2> HIDE DEF f, d
  <2>6. gap * Milli \in Nat /\ d * Milli \in Nat
    BY <2>4, <2>5, DayType
  <2>7. (sleepTime + 1) * Milli >= (gap * Milli - d * Milli) + Milli
    <3>1. CASE gap < d
      <4>1. gap * Milli <= d * Milli
        BY <2>4, <2>5, <3>1, DayType
      <4>2. (sleepTime + 1) * Milli = Milli
        BY <2>5, <3>1, DayType
      <4>3. QED
        BY <2>6, <4>1, <4>2, DayType
    <3>2. CASE ~ (gap < d)
      <4>1. ((gap - d) + 1) * Milli = (gap * Milli - d * Milli) + Milli
        BY <2>4, <2>5, DayType
      <4>2. sleepTime = gap - d
        BY <2>5, <3>2
      <4>3. QED
        BY <2>6, <4>1, <4>2, DayType
    <3>3. QED
      BY <3>1, <3>2
  <2>8. (sleepTime + 1) * Milli \in Int
    BY DayType DEF Shape
  <2>9. (elapsed + ((sleepTime + 1) * Milli + extra)) - (gap * Milli - f) >= 0
    BY <2>4, <2>5, <2>6, <2>7, <2>8, DayType
  <2>10. Lateness' >= 0
    BY <2>1, <2>9 DEF f
  <2>11. QED
    BY <2>10 DEF NeverWakesEarly
<1>2. CASE DoSetEvent \/ BeginLerp \/ EndLerp \/ LerpStep \/ FailNoCacheDir
           \/ FailCreateDirectory \/ FailCompositeImage
  <2>1. pc' # "wake"
    BY <1>2 DEF DoSetEvent, BeginLerp, EndLerp, LerpStep, FailNoCacheDir,
         FailCreateDirectory, FailCompositeImage, ReturnSleepTime
  <2>2. QED
    BY <2>1 DEF NeverWakesEarly, AwakeAgain
<1>3. CASE UNCHANGED vars
  BY <1>3 DEF vars, NeverWakesEarly, AwakeAgain, Lateness, UntilNextEvent, NextTime
<1>4. QED
  BY <1>1, <1>2, <1>3 DEF Next

\* With the invariants of the time before it.
LEMMA SteadyInvariant ==
  ASSUME ListsAreEventLists, Steady
  PROVE  Spec => [](Shape /\ Timing /\ Pace /\ NeverWakesEarly)
<1> DEFINE I == Shape /\ Timing /\ Pace /\ NeverWakesEarly
<1>1. Init => I
  <2>1. Init => Timing /\ Pace /\ NeverWakesEarly
    BY DEF Init, Timing, Pace, TransitionLastsItsDuration, NeverWakesEarly, AwakeAgain
  <2>2. QED
    BY <2>1, ShapeInit
<1>2. I /\ [Next]_vars => I'
  BY ShapeNext, TimingNext, PaceNext, NotEarlyNext
<1>3. QED
  BY <1>1, <1>2, PTL DEF Spec

\* When no error happens and the steps are not too many, a transition occurs for its
\* duration, but for less than a millisecond for each of its steps.
THEOREM TransitionsLast ==
  ListsAreEventLists /\ Steady => (Spec => []TransitionLastsItsDuration)
<1>1. SUFFICES ASSUME ListsAreEventLists, Steady
               PROVE  Spec => []TransitionLastsItsDuration
  OBVIOUS
<1>2. Spec => [](Shape /\ Timing /\ Pace /\ NeverWakesEarly)
  BY <1>1, SteadyInvariant
<1>3. Shape /\ Timing /\ Pace /\ NeverWakesEarly => TransitionLastsItsDuration
  BY DEF Pace
<1>4. QED
  BY <1>2, <1>3, PTL

\* On such days no event is carried out twice: the loop is never awake before the next one.
THEOREM NeverTooEarly ==
  ListsAreEventLists /\ Steady => (Spec => []NeverWakesEarly)
<1>1. SUFFICES ASSUME ListsAreEventLists, Steady
               PROVE  Spec => []NeverWakesEarly
  OBVIOUS
<1>2. Spec => [](Shape /\ Timing /\ Pace /\ NeverWakesEarly)
  BY <1>1, SteadyInvariant
<1>3. Shape /\ Timing /\ Pace /\ NeverWakesEarly => NeverWakesEarly
  OBVIOUS
<1>4. QED
  BY <1>2, <1>3, PTL

-------------------------------------------------------------------------------
(* The lists of an orderly day. *)

\* When the times of a background set differ, the list built of it is one the loop can
\* rely on: what the theorems above suppose follows from the configuration.
THEOREM TurnsMakeEventLists ==
  (\A b \in Backgrounds : TakesTurns(b)) => ListsAreEventLists
<1>1. SUFFICES ASSUME \A b \in Backgrounds : TakesTurns(b),
                      NEW b \in Backgrounds, NEW list \in ListsOf[b]
               PROVE  IsEventList(b, list)
  BY DEF ListsAreEventLists
<1>2. PICK ps \in TimesAndNames(b) : list \in ListsFromPairs(b.transition, ps)
  BY <1>1 DEF ListsOf, EventLists
<1>3. ps \in Seq(Pairs) /\ ps # <<>> /\ InTurn(ps)
  BY <1>1, <1>2, PairsOfBackground DEF TakesTurns
<1>4. /\ list \in Seq(Events) /\ StrictlySorted(list)
      /\ ToSet(list) = DaySchedule(b.transition, ps)
  BY <1>2, <1>3, ListsOfDistinctTimes
<1>5. list # <<>>
  <2>1. 1 \in DOMAIN ps
    BY <1>3, LenProperties, EmptySeq
  <2>2. SetEvent(ps[1].time, ps[1].name) \in ToSet(list)
    BY <1>4, <2>1 DEF DaySchedule
  <2>3. PICK i \in DOMAIN list : list[i] = SetEvent(ps[1].time, ps[1].name)
    BY <2>2 DEF ToSet
  <2>4. DOMAIN <<>> = {}
    OBVIOUS
  <2>5. QED
    BY <2>3, <2>4
<1>6. DOMAIN list = 1 .. Len(list) /\ Len(list) \in Nat \ {0}
  BY <1>4, <1>5, LenProperties, EmptySeq
<1>7. ASSUME NEW i \in DOMAIN list, IsLerp(list[i])
      PROVE  /\ b.transition # NoTransition
             /\ list[i].duration
                  <= TimeUntilNext(list[i].time, 0, list[NextIndex(list, i)].time)
  <2> DEFINE n == NextIndex(list, i)
             length == TimeUntilNext(list[i].time, 0, list[n].time)
  <2>1. b.transition # NoTransition /\ list[i].duration = length
    BY <1>2, <1>3, <1>6, <1>7, TransitionsJoinNeighbours
  <2>2. n \in 1 .. Len(list)
    BY <1>6 DEF NextIndex
  <2>3. list[i].time \in TimeOfDay /\ list[n].time \in TimeOfDay
    BY <1>4, <1>6, <2>2, EventTime
  <2>4. length \in Int
    BY <2>3, SleepType, DayType
  <2> HIDE DEF length
  <2>5. QED
    BY <2>1, <2>4 DEF length
<1>8. QED
  BY <1>4, <1>5, <1>7 DEF IsEventList

\* Which event is current depends on the times of the list only.
LEMMA SameTimesSameIndex ==
  ASSUME NEW one, NEW other, NEW now, DOMAIN one = DOMAIN other, Len(one) = Len(other),
         \A i \in DOMAIN one : one[i].time = other[i].time
  PROVE  CurrentIndex(one, now) = CurrentIndex(other, now)
<1>1. {i \in DOMAIN one : one[i].time <= now} = {i \in DOMAIN other : other[i].time <= now}
  OBVIOUS
<1>2. QED
  BY <1>1 DEF CurrentIndex

\* A number of days and less than a day more.
LEMMA ResidueBeyond ==
  ASSUME NEW k \in Nat \ {0}, NEW y \in Int, 0 <= y, y < 2 * k
  PROVE  y % k = IF y < k THEN y ELSE y - k
<1>1. CASE y < k
  BY <1>1
<1>2. CASE ~ (y < k)
  <2>1. y % k = (y - k) % k
    BY <1>2
  <2>2. (y - k) % k = y - k
    BY <1>2
  <2>3. QED
    BY <1>2, <2>1, <2>2
<1>3. QED
  BY <1>1, <1>2

\* The whole seconds in some seconds and a fraction.
LEMMA WholeSeconds ==
  ASSUME NEW v \in Int, NEW f \in 0 .. (Milli - 1)
  PROVE  (Milli * v + f) \div Milli = v
<1>1. Milli \in Nat \ {0}
  BY DayType
<1>2. QED
  BY <1>1

\* Adding on the clock, one time after the other.
LEMMA ResidueOf ==
  ASSUME NEW k \in Nat \ {0}, NEW v \in Int, NEW f \in 0 .. (k - 1)
  PROVE  (k * v + f) % k = f
OBVIOUS

LEMMA QuotientAndRest ==
  ASSUME NEW k \in Nat \ {0}, NEW x \in Int
  PROVE  /\ x \div k \in Int /\ (x % k) \in 0 .. (k - 1)
         /\ x = k * (x \div k) + (x % k)
OBVIOUS

LEMMA LaterAdds ==
  ASSUME NEW k \in Nat \ {0}, NEW x \in Int, NEW y \in Int
  PROVE  ((x % k) + y) % k = (x + y) % k
<1> DEFINE a == x \div k
           r == x % k
           c == (r + y) \div k
           s == (r + y) % k
<1>1. a \in Int /\ r \in Int /\ x = k * a + r
  BY QuotientAndRest
<1>2. c \in Int /\ s \in 0 .. (k - 1) /\ r + y = k * c + s
  BY <1>1, QuotientAndRest
<1> HIDE DEF a, r, c, s
<1>3. x + y = k * (a + c) + s
  <2>1. k * (a + c) = k * a + k * c
    BY <1>1, <1>2
  <2>2. k * a \in Int /\ k * c \in Int
    BY <1>1, <1>2
  <2>3. x + y = (k * a + r) + y
    BY <1>1
  <2>4. (k * a + r) + y = k * a + (r + y)
    BY <1>1, <2>2
  <2>5. k * a + (k * c + s) = (k * a + k * c) + s
    BY <1>2, <2>2
  <2>6. QED
    BY <1>2, <2>1, <2>3, <2>4, <2>5
<1>4. (x + y) % k = s
  <2>1. a + c \in Int
    BY <1>1, <1>2
  <2>2. (k * (a + c) + s) % k = s
    BY <1>2, <2>1, ResidueOf
  <2>3. QED
    BY <1>3, <2>2, Zenon
<1>5. QED
  BY <1>4 DEF s, r

\* The whole seconds of the clock when P milliseconds have passed since the second t.
LEMMA SecondsPassed ==
  ASSUME NEW t \in TimeOfDay, NEW P \in Nat, P \div Milli < Day
  PROVE  LET u == P \div Milli
         IN  /\ u \in Nat
             /\ CurrentTime((t * Milli + P) % (Day * Milli))
                  = IF t + u < Day THEN t + u ELSE t + u - Day
<1> DEFINE u == P \div Milli
           f == P % Milli
           k == Day * Milli
           y == t * Milli + P
<1>1. /\ Milli \in Nat \ {0} /\ Day \in Nat \ {0} /\ k \in Nat \ {0}
      /\ t \in Nat /\ t < Day
  BY DayType DEF TimeOfDay
<1>2. u \in Nat /\ f \in 0 .. (Milli - 1) /\ P = Milli * u + f
  BY <1>1, Division
<1>3. u < Day
  OBVIOUS
<1> HIDE DEF u, f
<1>4. y = Milli * (t + u) + f
  <2>1. Milli * (t + u) = t * Milli + Milli * u
    BY <1>1, <1>2
  <2>2. t * Milli \in Int /\ Milli * u \in Int
    BY <1>1, <1>2
  <2>3. QED
    BY <1>2, <2>1, <2>2
<1>5. \A v \in Int : v <= Day - 1 => Milli * v + f < k
  <2> TAKE v \in Int
  <2> HAVE v <= Day - 1
  <2>1. Milli * v <= Milli * (Day - 1) /\ Milli * (Day - 1) = k - Milli
    BY <1>1
  <2>2. QED
    BY <1>1, <1>2, <2>1
<1>6. \A v \in Nat : Milli * v + f \in Nat
  BY <1>1, <1>2
<1>7. ASSUME t + u < Day
      PROVE  CurrentTime((t * Milli + P) % (Day * Milli)) = t + u
  <2>1. t + u \in Nat /\ t + u <= Day - 1
    BY <1>1, <1>2, <1>7
  <2>2. y \in Nat /\ y < k
    BY <1>4, <1>5, <1>6, <2>1
  <2> HIDE DEF y, k
  <2>3. y % k = y
    BY <1>1, <2>2, ResidueBeyond
  <2>4. y \div Milli = t + u
    BY <1>2, <1>4, <2>1, WholeSeconds
  <2>5. QED
    BY <2>3, <2>4 DEF CurrentTime, y, k
<1>8. ASSUME ~ (t + u < Day)
      PROVE  CurrentTime((t * Milli + P) % (Day * Milli)) = (t + u) - Day
  <2>1. (t + u) - Day \in Nat /\ (t + u) - Day <= Day - 1
    BY <1>1, <1>2, <1>3, <1>8
  <2> DEFINE v == (t + u) - Day
             z == Milli * v + f
  <2>2. z \in Nat /\ z < k
    BY <1>5, <1>6, <2>1
  <2>3. y = z + k
    <3>1. Milli * (t + u) = Milli * v + k
      BY <1>1, <1>2
    <3>2. Milli * v \in Int
      BY <1>1, <2>1
    <3>3. QED
      BY <1>1, <1>2, <1>4, <3>1, <3>2
  <2> HIDE DEF y, k, v
  <2>4. z \div Milli = v
    BY <1>2, <2>1, WholeSeconds DEF v
  <2> HIDE DEF z
  <2>5. y % k = z
    <3>1. y \in Int /\ 0 <= y /\ y < 2 * k /\ ~ (y < k) /\ y - k = z
      BY <1>1, <2>2, <2>3
    <3>2. QED
      BY <1>1, <3>1, ResidueBeyond
  <2>6. CurrentTime(y % k) = v
    BY <2>4, <2>5 DEF CurrentTime
  <2>7. QED
    BY <2>6 DEF y, k, v
<1>9. CurrentTime((t * Milli + P) % (Day * Milli))
        = IF t + u < Day THEN t + u ELSE t + u - Day
  <2> DEFINE now == CurrentTime((t * Milli + P) % (Day * Milli))
  <2>1. t + u < Day => now = t + u
    BY <1>7
  <2>2. ~ (t + u < Day) => now = (t + u) - Day
    BY <1>8
  <2> HIDE DEF now
  <2>3. now = IF t + u < Day THEN t + u ELSE t + u - Day
    BY <1>1, <1>2, <2>1, <2>2
  <2>4. QED
    BY <2>3 DEF now
<1>10. QED
  BY <1>2, <1>9, Zenon DEF u

\* As long as an event lasts, it is the current one.
LEMMA CurrentWhileItLasts ==
  ASSUME NEW list \in Seq(Events), StrictlySorted(list), NEW c \in 1 .. Len(list),
         NEW P \in Nat,
         P < TimeUntilNext(list[c].time, 0, list[NextIndex(list, c)].time) * Milli
  PROVE  CurrentIndex(list, CurrentTime((list[c].time * Milli + P) % (Day * Milli))) = c
<1> DEFINE last == Len(list)
           n == NextIndex(list, c)
           At(i) == list[i].time
           u == P \div Milli
           length == TimeUntilNext(At(c), 0, At(n))
           now == CurrentTime((At(c) * Milli + P) % (Day * Milli))
<1>1. last \in Nat \ {0} /\ DOMAIN list = 1 .. last /\ c \in 1 .. last /\ list # <<>>
  BY LenProperties, EmptySeq
<1>2. n = IF c = last THEN 1 ELSE c + 1
  BY DEF NextIndex
<1>3. \A i \in 1 .. last : At(i) \in TimeOfDay
  BY EventTime
<1>4. \A i, j \in 1 .. last : i < j => At(i) < At(j)
  BY <1>1 DEF StrictlySorted
<1>5. /\ now = CurrentTime((list[c].time * Milli + P) % (Day * Milli))
      /\ P < length * Milli
  OBVIOUS
<1>6. LET i == CurrentIndex(list, now)
      IN  /\ i \in 1 .. last
          /\ \/ /\ At(i) <= now
                /\ \A j \in 1 .. last : At(j) <= now => j <= i
             \/ /\ i = last
                /\ \A j \in 1 .. last : ~ (At(j) <= now)
  <2> HIDE DEF now
  <2>1. QED
    BY <1>1, CurrentIsFound
<1> HIDE DEF last, n, now
<1>7. n \in 1 .. last
  BY <1>1, <1>2
<1>8. /\ length = IF At(c) < At(n) THEN At(n) - At(c) ELSE Day - At(c) + At(n)
      /\ length \in 1 .. Day
  <2> HIDE DEF At
  <2>1. At(c) \in TimeOfDay /\ At(n) \in TimeOfDay
    BY <1>1, <1>3, <1>7
  <2>2. QED
    BY <2>1, DayType DEF TimeOfDay, TimeUntilNext
<1> HIDE DEF length
<1>9. u \in Nat /\ u < length
  <2>1. Milli \in Nat \ {0} /\ length \in Nat
    BY <1>8, DayType
  <2>2. u \in Nat /\ P = Milli * u + (P % Milli) /\ P % Milli \in 0 .. (Milli - 1)
    BY <2>1, Division
  <2> HIDE DEF u
  <2>3. CASE length <= u
    <3>1. length * Milli <= Milli * u
      BY <2>1, <2>2, <2>3
    <3>2. Milli * u \in Nat /\ length * Milli \in Nat
      BY <2>1, <2>2
    <3>3. Milli * u <= P
      BY <2>1, <2>2, <3>2
    <3>4. P < length * Milli
      BY <1>5
    <3>5. QED
      BY <3>1, <3>2, <3>3, <3>4
  <2>4. QED
    BY <2>1, <2>2, <2>3
<1>10. now = IF At(c) + u < Day THEN At(c) + u ELSE At(c) + u - Day
  <2>1. At(c) \in TimeOfDay /\ u < Day
    BY <1>1, <1>3, <1>8, <1>9, DayType
  <2>2. QED
    BY <2>1, SecondsPassed DEF now
<1> HIDE DEF u
<1>11. \A i \in 1 .. last : At(i) \in Int /\ 0 <= At(i) /\ At(i) < Day
  BY <1>3, DayType DEF TimeOfDay
<1> HIDE DEF At
<1> DEFINE found == CurrentIndex(list, now)
<1>12. CASE c = last
  <2>1. n = 1 /\ At(n) <= At(c)
    <3>1. n = 1 /\ (1 = c \/ 1 < c)
      BY <1>1, <1>2, <1>12
    <3>2. QED
      BY <1>1, <1>4, <1>7, <1>11, <3>1
  <2>2. At(c) <= now \/ now < At(n)
    BY <1>1, <1>7, <1>8, <1>9, <1>10, <1>11, <2>1, DayType
  <2>3. now \in Int
    BY <1>1, <1>9, <1>10, <1>11, DayType
  <2>4. CASE At(c) <= now
    <3>1. found \in 1 .. last /\ c <= found
      BY <1>1, <1>6, <2>4
    <3> HIDE DEF found
    <3>2. found = c
      BY <1>1, <1>12, <3>1
    <3>3. QED
      BY <1>5, <3>2 DEF found
  <2>5. CASE now < At(n)
    <3>1. \A j \in 1 .. last : ~ (At(j) <= now)
      <4> TAKE j \in 1 .. last
      <4>1. j = 1 \/ 1 < j
        BY <1>1
      <4>2. At(1) <= At(j)
        BY <1>1, <1>4, <1>7, <1>11, <2>1, <4>1
      <4>3. QED
        BY <1>7, <1>11, <2>1, <2>3, <2>5, <4>2
    <3>2. found = last
      BY <1>6, <3>1
    <3>3. QED
      BY <1>5, <1>12, <3>2
  <2>6. QED
    BY <2>2, <2>4, <2>5
<1>13. CASE c # last
  <2>1. n = c + 1 /\ At(c) < At(n)
    BY <1>1, <1>2, <1>4, <1>7, <1>13
  <2>2. now \in Int /\ At(c) <= now /\ now < At(n)
    <3>1. /\ At(c) \in Int /\ At(n) \in Int /\ 0 <= At(c) /\ At(n) < Day
      BY <1>1, <1>7, <1>11
    <3>2. length = At(n) - At(c)
      BY <1>8, <2>1
    <3>3. At(c) + u < Day /\ At(c) + u < At(n)
      BY <1>9, <2>1, <3>1, <3>2, DayType
    <3>4. now = At(c) + u
      BY <1>10, <3>3
    <3>5. QED
      BY <1>9, <3>1, <3>3, <3>4
  <2>3. At(found) <= now /\ found \in 1 .. last /\ c <= found
    BY <1>1, <1>6, <2>2
  <2> HIDE DEF found
  <2>4. ~ (n <= found)
    <3>1. ASSUME n <= found PROVE At(n) <= At(found)
      <4>1. n = found \/ n < found
        BY <1>7, <2>3, <3>1
      <4>2. QED
        BY <1>4, <1>7, <1>11, <2>3, <4>1
    <3>2. QED
      BY <1>7, <1>11, <2>2, <2>3, <3>1
  <2>5. found = c
    BY <1>1, <2>1, <2>3, <2>4
  <2>6. QED
    BY <1>5, <2>5 DEF found
<1>14. QED
  BY <1>12, <1>13

-------------------------------------------------------------------------------
(* The events in order. *)

\* The clock shows the time that was read, and the time that has passed since.
ClockKept == clock = Later(wokeAt, elapsed)

\* Time on the clock is only ever added.
LEMMA SpendKeepsClock ==
  ASSUME Shape, ClockKept, NEW ms \in Nat, Spend(ms), wokeAt' = wokeAt
  PROVE  ClockKept'
<1>1. wokeAt \in Int /\ elapsed \in Int /\ ms \in Int /\ Day * Milli \in Nat \ {0}
  BY DayType DEF Shape, Instants
<1>2. clock' = (((wokeAt + elapsed) % (Day * Milli)) + ms) % (Day * Milli)
  BY DEF Spend, ClockKept, Later
<1>3. wokeAt + elapsed \in Int
  BY <1>1
<1> DEFINE k == Day * Milli
           x == wokeAt + elapsed
<1>4. ((x % k) + ms) % k = (x + ms) % k
  <2> HIDE DEF k, x
  <2>1. k \in Nat \ {0} /\ x \in Int
    BY <1>1, <1>3 DEF k, x
  <2>2. QED
    BY <1>1, <2>1, LaterAdds
<1>5. x + ms = wokeAt + (elapsed + ms)
  BY <1>1
<1>6. clock' = (wokeAt + (elapsed + ms)) % (Day * Milli)
  BY <1>2, <1>4, <1>5, Zenon
<1>7. elapsed' = elapsed + ms
  BY DEF Spend
<1>8. QED
  BY <1>6, <1>7 DEF ClockKept, Later

LEMMA ClockInit ==
  ASSUME Init
  PROVE  ClockKept
<1>1. /\ clock \in Int /\ 0 <= clock /\ clock < Day * Milli /\ Day * Milli \in Nat \ {0}
      /\ wokeAt = clock /\ elapsed = 0
  BY DayType DEF Init, Instants
<1>2. clock + 0 = clock
  BY <1>1
<1>3. QED
  BY <1>1, <1>2, Residue DEF Later, ClockKept

LEMMA ClockNext ==
  ASSUME ListsAreEventLists, Shape, ClockKept, [Next]_vars
  PROVE  ClockKept'
<1>1. clock \in Instants /\ Later(clock, 0) = clock
  <2>1. clock \in Int /\ 0 <= clock /\ clock < Day * Milli /\ Day * Milli \in Nat \ {0}
    BY DayType DEF Shape, Instants
  <2>2. clock + 0 = clock
    BY <2>1
  <2>3. QED
    BY <2>1, <2>2, Residue DEF Later, Shape
<1>2. CASE DoSetEvent
  BY <1>2 DEF DoSetEvent, BuildList, ClockKept
<1>3. CASE BeginLerp \/ FailNoCacheDir \/ FailCreateDirectory
  BY <1>1, <1>3 DEF BeginLerp, FailNoCacheDir, FailCreateDirectory, BuildList, ClockKept
<1>4. CASE LerpStep
  <2>1. /\ pc = "lerp" /\ step < data.transition.steps /\ wokeAt' = wokeAt
    BY <1>4 DEF LerpStep
  <2>2. PICK busy \in 0 .. MaxBusy : Spend(busy + StepSleep(busy))
    BY <1>4 DEF LerpStep
  <2>3. busy + StepSleep(busy) \in Nat
    BY <2>1, StepTime
  <2>4. QED
    BY <2>1, <2>2, <2>3, SpendKeepsClock
<1>5. CASE Sleep
  <2>1. wokeAt' = wokeAt
    BY <1>5 DEF Sleep
  <2>2. PICK extra \in 0 .. MaxOversleep : Spend((sleepTime + 1) * Milli + extra)
    BY <1>5 DEF Sleep
  <2>3. (sleepTime + 1) * Milli + extra \in Nat
    BY DayType DEF Shape
  <2>4. QED
    BY <2>1, <2>2, <2>3, SpendKeepsClock
<1>6. CASE EndLerp \/ FailCompositeImage \/ UNCHANGED vars
  BY <1>6 DEF EndLerp, FailCompositeImage, vars, ClockKept
<1>7. QED
  BY <1>2, <1>3, <1>4, <1>5, <1>6 DEF Next

\* When the loop is awake again, it is still in the event it carried out, or in the next
\* one, as many milliseconds as it is late.
LEMMA WhereItWakes ==
  ASSUME ListsAreEventLists, Shape, ClockKept, current # 0
  PROVE  LET length == TimeUntilNext(Event.time, 0, NextTime)
         IN  /\ Lateness \in Int
             /\ Lateness < 0 =>
                  /\ EnteredAfter + elapsed \in Nat
                  /\ EnteredAfter + elapsed < length * Milli
                  /\ clock = (Event.time * Milli + (EnteredAfter + elapsed)) % (Day * Milli)
             /\ Lateness >= 0 => clock = (NextTime * Milli + Lateness) % (Day * Milli)
<1> DEFINE t == Event.time
           x == NextTime
           k == Day * Milli
           length == TimeUntilNext(t, 0, x)
           entered == EnteredAfter
           until == UntilNextEvent
<1>1. /\ t \in TimeOfDay /\ x \in TimeOfDay
  BY EventOfState
<1>2. /\ entered \in Nat /\ until \in Int /\ entered + until = length * Milli
  BY Gap
<1>3. /\ k \in Nat \ {0} /\ Milli \in Nat \ {0} /\ wokeAt \in Int /\ elapsed \in Nat
      /\ Day \in Nat \ {0} /\ t \in Nat /\ x \in Nat
  BY <1>1, DayType DEF Shape, Instants, TimeOfDay
<1>4. Lateness = elapsed - until
  BY DEF Lateness
<1>5. entered = (wokeAt - t * Milli) % k
  BY DEF EnteredAfter, AsMilliseconds
<1>6. clock = (wokeAt + elapsed) % k
  BY DEF ClockKept, Later
<1>7. length = IF t < x THEN x - t ELSE Day - t + x
  <2> HIDE DEF t, x
  <2>1. QED
    BY <1>1, SleepType DEF TimeUntilNext
<1> HIDE DEF t, x, k, length, entered, until
<1>8. t * Milli \in Int /\ x * Milli \in Int
  BY <1>3
<1>9. clock = (t * Milli + (entered + elapsed)) % k
  <2> DEFINE a == wokeAt - t * Milli
             c == t * Milli + elapsed
  <2>1. a \in Int /\ c \in Int /\ a + c = wokeAt + elapsed
    BY <1>3, <1>8
  <2>2. entered = a % k
    BY <1>5
  <2>3. entered + c = t * Milli + (entered + elapsed)
    BY <1>2, <1>3, <1>8
  <2> HIDE DEF a, c
  <2>4. ((a % k) + c) % k = (a + c) % k
    BY <1>3, <2>1, LaterAdds
  <2>5. QED
    BY <1>6, <2>1, <2>2, <2>3, <2>4
<1>10. length \in Nat /\ length * Milli \in Nat
  BY <1>1, <1>3, <1>7 DEF TimeOfDay
<1>11. Lateness \in Int
  BY <1>2, <1>3, <1>4
<1>12. entered + elapsed = length * Milli + Lateness
  BY <1>2, <1>3, <1>4
<1>13. ASSUME Lateness < 0
       PROVE  entered + elapsed \in Nat /\ entered + elapsed < length * Milli
  BY <1>2, <1>3, <1>10, <1>11, <1>12, <1>13
<1>14. clock = (x * Milli + Lateness) % k
  <2> DEFINE P == entered + elapsed
             y == x * Milli + Lateness
  <2>1. y \in Int /\ P = length * Milli + Lateness
    BY <1>8, <1>11, <1>12
  <2>2. CASE t < x
    <3>1. t * Milli + length * Milli = x * Milli
      BY <1>3, <1>7, <2>2
    <3>2. t * Milli + P = y
      BY <1>8, <1>10, <1>11, <2>1, <3>1
    <3>3. QED
      BY <1>9, <3>2
  <2>3. CASE ~ (t < x)
    <3>1. t * Milli + length * Milli = x * Milli + k
      BY <1>3, <1>7, <2>3 DEF k
    <3>2. t * Milli + P = k + y
      BY <1>3, <1>8, <1>10, <1>11, <2>1, <3>1
    <3> HIDE DEF y, P
    <3>3. (k + y) % k = y % k
      <4>1. k % k = 0
        BY <1>3
      <4>2. ((k % k) + y) % k = (k + y) % k
        <5>1. k \in Int
          BY <1>3
        <5>2. \A z \in Int : ((z % k) + y) % k = (z + y) % k
          BY <1>3, <2>1, LaterAdds
        <5>3. QED
          BY <5>1, <5>2
      <4>3. 0 + y = y
        BY <2>1
      <4>4. QED
        BY <4>1, <4>2, <4>3
    <3>4. QED
      BY <1>9, <3>2, <3>3 DEF y, P
  <2>4. QED
    BY <2>2, <2>3
<1>15. QED
  BY <1>9, <1>11, <1>13, <1>14 DEF t, x, k, length, entered

\* The delay of one event is over before the next one is.
LEMMA DelayIsOver ==
  ASSUME ListsAreEventLists, OrderlyDays, Shape, WakesInTime, AwakeAgain,
         IsLerp(Event) => Event.duration = TimeUntilNext(Event.time, 0, NextTime)
  PROVE  LET next == NextIndex(eventList, current)
             afterNext == NextIndex(eventList, next)
         IN  Lateness < TimeUntilNext(NextTime, 0, eventList[afterNext].time) * Milli
<1> DEFINE next == NextIndex(eventList, current)
           afterNext == NextIndex(eventList, next)
           length == TimeUntilNext(NextTime, 0, eventList[afterNext].time)
<1>1. /\ current # 0 /\ current \in DOMAIN eventList /\ eventList \in ListsOf[data]
      /\ data \in Backgrounds /\ Event \in Events
      /\ Event.time \in TimeOfDay /\ NextTime \in TimeOfDay
  BY EventOfState DEF AwakeAgain, Shape
<1>2. LatestAfter(data, Event) < length * Milli
  <2>1. WellSpaced(data, eventList)
    BY <1>1 DEF OrderlyDays
  <2>2. LatestAfter(data, eventList[current])
          < AsMilliseconds(TimeUntilNext(eventList[next].time, 0, eventList[afterNext].time))
    BY <1>1, <2>1 DEF WellSpaced
  <2>3. QED
    BY <2>2 DEF AsMilliseconds, Event, NextTime
<1>3. length * Milli \in Int
  <2>1. afterNext \in DOMAIN eventList
    <3>1. next \in DOMAIN eventList /\ DOMAIN eventList = 1 .. Len(eventList) /\ Len(eventList) \in Nat
      BY <1>1, EventOfState
    <3> HIDE DEF next
    <3>2. QED
      BY <3>1 DEF NextIndex
  <2>2. eventList \in Seq(Events)
    BY <1>1, EventOfState
  <2>3. eventList[afterNext].time \in TimeOfDay
    BY <2>1, <2>2, EventTime, LenProperties
  <2>4. length \in Int
    BY <1>1, <2>3, SleepType, DayType
  <2> HIDE DEF length
  <2>5. QED
    BY <2>4, DayType
<1>4. Lateness \in Int /\ EnteredAfter \in Nat /\ UntilNextEvent \in Int
      /\ EnteredAfter + UntilNextEvent = TimeUntilNext(Event.time, 0, NextTime) * Milli
  <2>1. /\ EnteredAfter \in Nat /\ UntilNextEvent \in Int
        /\ EnteredAfter + UntilNextEvent = TimeUntilNext(Event.time, 0, NextTime) * Milli
    BY <1>1, Gap
  <2>2. QED
    BY <2>1 DEF Lateness, Shape
<1>5. Lateness <= LatestAfter(data, Event) /\ LatestAfter(data, Event) \in Int
  <2>1. CASE IsSet(Event)
    BY <2>1, DayType DEF WakesInTime, LatestAfter, LatestAfterSet
  <2>2. CASE IsLerp(Event)
    <3>1. ~ IsSet(Event) /\ Event.duration \in Nat /\ data.transition.steps \in Nat
      BY <1>1, <2>2, EventType, TransitionOfState
    <3> DEFINE longest == LongestLerp(data, Event.duration)
               d == Event.duration * Milli
    <3>2. longest \in Nat
      BY <3>1, LongestType
    <3>3. d \in Nat /\ EnteredAfter + UntilNextEvent = d
      BY <1>4, <2>2, <3>1, DayType
    <3>4. UntilNextEvent > 0
      <4>1. UntilNextEvent = (IF CurrentTime(wokeAt) < NextTime
                              THEN NextTime - CurrentTime(wokeAt)
                              ELSE Day - CurrentTime(wokeAt) + NextTime) * Milli
                               - (wokeAt % Milli)
        BY DEF UntilNextEvent, AsMilliseconds
      <4>2. CurrentTime(wokeAt) \in TimeOfDay /\ wokeAt % Milli \in 0 .. (Milli - 1)
        BY InstantParts DEF Shape
      <4> DEFINE now == CurrentTime(wokeAt)
                 x == NextTime
                 gap == IF now < x THEN x - now ELSE Day - now + x
                 f == wokeAt % Milli
      <4>3. UntilNextEvent = gap * Milli - f
        BY <4>1
      <4>4. now \in TimeOfDay /\ x \in TimeOfDay /\ f \in 0 .. (Milli - 1)
        BY <1>1, <4>2
      <4> HIDE DEF now, x, f
      <4>5. gap \in 1 .. Day
        BY <4>4, SleepType
      <4> HIDE DEF gap
      <4>6. gap * Milli >= Milli /\ gap * Milli \in Nat
        BY <4>5, DayType
      <4>7. QED
        BY <4>3, <4>4, <4>6, DayType
    <3> HIDE DEF longest, d
    <3>5. Lateness <= EnteredAfter + longest - d + Milli + MaxOversleep
      BY <3>1 DEF WakesInTime, longest, d, AsMilliseconds
    <3>6. LatestAfter(data, Event) = longest - 1 + Milli + MaxOversleep
      BY <3>1 DEF LatestAfter, longest
    <3>7. QED
      BY <1>4, <3>2, <3>3, <3>4, <3>5, <3>6, DayType
  <2>3. QED
    BY <1>1, <2>1, <2>2, EventType
<1> HIDE DEF length
<1>6. Lateness < length * Milli
  BY <1>2, <1>3, <1>4, <1>5
<1>7. QED
  BY <1>6 DEF length

\* A transition of an orderly day lasts until the next event.
LEMMA TransitionsFillTheirSlot ==
  ASSUME OrderlyDays, NEW b \in Backgrounds, NEW list \in ListsOf[b],
         NEW i \in DOMAIN list, IsLerp(list[i])
  PROVE  LET next == list[NextIndex(list, i)]
         IN  /\ list[i].duration = TimeUntilNext(list[i].time, 0, next.time)
             /\ \A r \in DOMAIN list :
                  NextIndex(list, r) = i => IsSet(list[r]) /\ list[r].image = list[i].start
<1>1. PICK ps \in TimesAndNames(b) : list \in ListsFromPairs(b.transition, ps)
  BY DEF ListsOf, EventLists
<1>2. ps \in Seq(Pairs) /\ ps # <<>> /\ InTurn(ps)
  BY <1>1, PairsOfBackground DEF OrderlyDays, TakesTurns
<1>3. list \in Seq(Events)
  BY <1>1, <1>2, ListsOfDistinctTimes
<1>4. DOMAIN list = 1 .. Len(list)
  BY <1>3, LenProperties
<1>5. QED
  BY <1>1, <1>2, <1>4, TransitionsJoinNeighbours

\* Whatever list the next iteration builds, the current event is the one that was carried
\* out, when the loop is awake too early, or the next: never one later.
LEMMA NextOrSame ==
  ASSUME ListsAreEventLists, OrderlyDays, Shape, WakesInTime, ClockKept, AwakeAgain,
         NEW list \in ListsOf[data]
  PROVE  LET found == CurrentIndex(list, CurrentTime(clock))
         IN  /\ Lateness < 0 => found = current
             /\ Lateness >= 0 => found = NextIndex(eventList, current)
<1> DEFINE next == NextIndex(eventList, current)
<1>1. /\ current # 0 /\ eventList \in ListsOf[data] /\ data \in Backgrounds
      /\ IsEventList(data, eventList) /\ eventList \in Seq(Events)
      /\ current \in 1 .. Len(eventList) /\ next \in 1 .. Len(eventList)
      /\ DOMAIN eventList = 1 .. Len(eventList)
  BY EventOfState DEF AwakeAgain, Shape
<1>2. StrictlySorted(eventList)
  BY <1>1 DEF IsEventList
<1>3. CurrentIndex(list, CurrentTime(clock)) = CurrentIndex(eventList, CurrentTime(clock))
  <2>1. TakesTurns(data) /\ list \in EventLists(data) /\ eventList \in EventLists(data)
    BY <1>1 DEF OrderlyDays, ListsOf
  <2>2. /\ Len(list) = Len(eventList)
        /\ \A i \in DOMAIN list : list[i].time = eventList[i].time
    BY <1>1, <2>1, ListsKeepTheirTimes
  <2>3. list \in Seq(Events)
    BY <1>1 DEF ListsAreEventLists, IsEventList
  <2>4. DOMAIN list = 1 .. Len(list)
    BY <2>3, LenProperties
  <2>5. QED
    BY <1>1, <2>2, <2>4, SameTimesSameIndex
<1>4. IsLerp(Event) => Event.duration = TimeUntilNext(Event.time, 0, NextTime)
  BY <1>1, TransitionsFillTheirSlot DEF Event, NextTime
<1>5. /\ Lateness \in Int
      /\ Lateness < 0 =>
           /\ EnteredAfter + elapsed \in Nat
           /\ EnteredAfter + elapsed < TimeUntilNext(Event.time, 0, NextTime) * Milli
           /\ clock = (Event.time * Milli + (EnteredAfter + elapsed)) % (Day * Milli)
      /\ Lateness >= 0 => clock = (NextTime * Milli + Lateness) % (Day * Milli)
  BY <1>1, WhereItWakes
<1>6. ASSUME Lateness < 0 PROVE CurrentIndex(eventList, CurrentTime(clock)) = current
  <2> DEFINE P == EnteredAfter + elapsed
  <2>1. /\ P \in Nat
        /\ P < TimeUntilNext(eventList[current].time, 0,
                             eventList[NextIndex(eventList, current)].time) * Milli
        /\ clock = (eventList[current].time * Milli + P) % (Day * Milli)
    BY <1>5, <1>6 DEF Event, NextTime
  <2> HIDE DEF P
  <2>2. QED
    BY <1>1, <1>2, <2>1, CurrentWhileItLasts
<1>7. ASSUME Lateness >= 0 PROVE CurrentIndex(eventList, CurrentTime(clock)) = next
  <2>1. /\ Lateness \in Nat
        /\ Lateness < TimeUntilNext(eventList[next].time, 0,
                                    eventList[NextIndex(eventList, next)].time) * Milli
        /\ clock = (eventList[next].time * Milli + Lateness) % (Day * Milli)
    BY <1>4, <1>5, <1>7, DelayIsOver DEF NextTime
  <2> HIDE DEF next
  <2>2. QED
    BY <1>1, <1>2, <2>1, CurrentWhileItLasts
<1>8. QED
  BY <1>3, <1>6, <1>7

\* How many events the day of the background set has.
CountOf == Len(CHOOSE list \in ListsOf[data] : TRUE)

LEMMA CountOfLists ==
  ASSUME ListsAreEventLists, OrderlyDays, Shape
  PROVE  /\ CountOf \in Nat \ {0}
         /\ \A list \in ListsOf[data] : Len(list) = CountOf
<1> DEFINE chosen == CHOOSE list \in ListsOf[data] : TRUE
<1>1. data \in Backgrounds
  BY DEF Shape
<1>2. chosen \in ListsOf[data]
  BY <1>1 DEF OrderlyDays
<1>3. chosen \in Seq(Events) /\ chosen # <<>>
  BY <1>1, <1>2 DEF ListsAreEventLists, IsEventList
<1>4. \A list \in ListsOf[data] : list \in EventLists(data)
  BY <1>1 DEF ListsOf
<1>5. TakesTurns(data)
  BY <1>1 DEF OrderlyDays
<1>6. CountOf = Len(chosen)
  BY DEF CountOf
<1> HIDE DEF chosen
<1>7. \A list \in ListsOf[data] : Len(list) = Len(chosen)
  BY <1>1, <1>2, <1>4, <1>5, ListsKeepTheirTimes
<1>8. QED
  BY <1>3, <1>6, <1>7, LenProperties, EmptySeq

\* Every iteration goes on in the cycle of events, or stays where it is.
LEMMA CycleNext ==
  ASSUME ListsAreEventLists, OrderlyDays, Shape, WakesInTime, ClockKept, [Next]_vars
  PROVE  [Cycle!Next]_Cycle!vars
<1>1. ASSUME BuildList PROVE Cycle!Next \/ UNCHANGED Cycle!vars
  <2>1. /\ data' = data /\ pc = "wake" /\ eventList' \in ListsOf[data]
        /\ current' = CurrentIndex(eventList', CurrentTime(clock))
        /\ current' \in 1 .. Len(eventList')
    BY <1>1, Built
  <2>2. CountOf' = CountOf
    BY <2>1 DEF CountOf
  <2>3. Len(eventList') = CountOf
    BY <2>1, CountOfLists
  <2>4. CASE current = 0
    <3>1. current' \in 1 .. CountOf
      BY <2>1, <2>3
    <3>2. QED
      BY <2>2, <2>4, <3>1 DEF Cycle!Next, Cycle!Start, CountOf
  <2>5. CASE current # 0
    <3>1. AwakeAgain
      BY <2>1, <2>5 DEF AwakeAgain
    <3>2. current' = current \/ current' = NextIndex(eventList, current)
      <4>1. Lateness \in Int
        BY <2>5, WhereItWakes
      <4>2. Lateness < 0 \/ Lateness >= 0
        BY <4>1
      <4>3. QED
        BY <2>1, <3>1, <4>2, NextOrSame
    <3>3. Len(eventList) = CountOf
      BY <2>5, CountOfLists DEF Shape
    <3>4. NextIndex(eventList, current) = IF current = CountOf THEN 1 ELSE current + 1
      BY <3>3 DEF NextIndex
    <3>5. CASE current' = current
      BY <2>2, <3>5 DEF Cycle!vars, CountOf
    <3>6. CASE current' = NextIndex(eventList, current)
      BY <2>2, <2>5, <3>4, <3>6 DEF Cycle!Next, Cycle!Continue, CountOf
    <3>7. QED
      BY <3>2, <3>5, <3>6
  <2>6. QED
    BY <2>4, <2>5
<1>2. ASSUME UNCHANGED <<data, current>> PROVE UNCHANGED Cycle!vars
  BY <1>2 DEF Cycle!vars
<1>3. QED
  BY <1>1, <1>2 DEF Next, vars, DoSetEvent, BeginLerp, FailNoCacheDir, FailCreateDirectory,
       LerpStep, EndLerp, FailCompositeImage, Sleep

\* The whole point of the loop: on every orderly day, whatever errors happen, however long
\* setting an image takes and however the clock is truncated, the events are carried out in
\* the order of the day, none skipped, over and over: the loop implements the cycle of
\* events.
THEOREM OrderlyDaysAreInOrder == OrderlyDays => (Spec => EventsInOrder)
<1>1. SUFFICES ASSUME OrderlyDays
               PROVE  Spec => EventsInOrder
  OBVIOUS
<1>2. ListsAreEventLists
  BY <1>1, TurnsMakeEventLists DEF OrderlyDays
<1> DEFINE I == Shape /\ Timing /\ WakesInTime /\ ClockKept
<1>3. Init => I
  <2>1. Init => Timing /\ WakesInTime
    BY DEF Init, Timing, WakesInTime, AwakeAgain
  <2>2. QED
    BY <2>1, ShapeInit, ClockInit
<1>4. I /\ [Next]_vars => I'
  BY <1>2, ShapeNext, TimingNext, WakesInTimeNext, ClockNext
<1>5. I /\ [Next]_vars => [Cycle!Next]_Cycle!vars
  BY <1>1, <1>2, CycleNext
<1>6. Init => Cycle!Init
  <2>1. Init => CountOf \in Nat \ {0} /\ current = 0
    BY <1>1, <1>2, ShapeInit, CountOfLists DEF Init
  <2>2. QED
    BY <2>1 DEF Cycle!Init, CountOf
<1> HIDE DEF I
<1>7. QED
  BY <1>3, <1>4, <1>5, <1>6, PTL DEF Spec, EventsInOrder

-------------------------------------------------------------------------------
(* The screen between events. *)

\* Until the next event begins, the screen shows the image the last one set.
Shown == pc \in {"wake", "sleep"} /\ current # 0 /\ IsSet(Event) => background = Whole(Event.image)

LEMMA ShownNext ==
  ASSUME ListsAreEventLists, Shape, Shown, [Next]_vars
  PROVE  Shown'
<1>1. CASE DoSetEvent
  BY <1>1 DEF DoSetEvent, Shown
<1>2. CASE BeginLerp \/ FailCreateDirectory \/ LerpStep \/ FailCompositeImage
  BY <1>2 DEF BeginLerp, FailCreateDirectory, LerpStep, FailCompositeImage, Shown
<1>3. CASE FailNoCacheDir
  BY <1>3 DEF FailNoCacheDir, Shown, IsSet, IsLerp
<1>4. CASE EndLerp
  <2>1. IsLerp(Event) /\ UNCHANGED <<eventList, current>>
    BY <1>4 DEF EndLerp, Shape
  <2>2. Event' = Event
    BY <2>1 DEF Event
  <2>3. QED
    BY <2>1, <2>2 DEF Shown, IsSet, IsLerp
<1>5. CASE Sleep \/ UNCHANGED vars
  BY <1>5 DEF Sleep, vars, Shown, Event
<1>6. QED
  BY <1>1, <1>2, <1>3, <1>4, <1>5 DEF Next

\* The transition that begins when the loop wakes up comes after the event it carried out.
LEMMA TransitionContinues ==
  ASSUME ListsAreEventLists, OrderlyDays, Shape, WakesInTime, ClockKept, NeverWakesEarly, Shown,
         [Next]_vars, data.order = "linear", current # 0, pc = "wake", pc' = "lerp"
  PROVE  background = Whole(Event'.start)
<1>1. BuildList /\ IsLerp(Event')
  BY DEF Next, vars, DoSetEvent, BeginLerp, FailNoCacheDir, FailCreateDirectory,
       LerpStep, EndLerp, FailCompositeImage, Sleep, ReturnSleepTime
<1>2. /\ data \in Backgrounds /\ eventList \in ListsOf[data] /\ eventList' \in ListsOf[data]
      /\ current' = CurrentIndex(eventList', CurrentTime(clock))
      /\ current' \in 1 .. Len(eventList')
  BY <1>1, Built DEF Shape
<1>3. eventList' = eventList
  <2>1. /\ eventList \in EventLists(data) /\ eventList' \in EventLists(data)
        /\ TakesTurns(data)
    BY <1>2 DEF ListsOf, OrderlyDays
  <2>2. QED
    BY <1>2, <2>1, LinearListsAreOne
<1>4. current' = NextIndex(eventList, current)
  <2>1. AwakeAgain /\ Lateness >= 0
    BY DEF AwakeAgain, NeverWakesEarly
  <2>2. QED
    BY <1>2, <2>1, NextOrSame
<1>5. current \in DOMAIN eventList /\ DOMAIN eventList = 1 .. Len(eventList)
  BY EventOfState
<1>6. Event' = eventList[current']
  BY <1>3 DEF Event
<1>7. IsSet(Event) /\ Event.image = Event'.start
  <2>1. current' \in DOMAIN eventList /\ IsLerp(eventList[current'])
    BY <1>1, <1>2, <1>3, <1>5, <1>6
  <2> DEFINE i == current'
  <2>2. i \in DOMAIN eventList /\ IsLerp(eventList[i]) /\ NextIndex(eventList, current) = i
    BY <1>4, <2>1
  <2> HIDE DEF i
  <2>3. IsSet(eventList[current]) /\ eventList[current].image = eventList[i].start
    BY <1>2, <1>5, <2>2, TransitionsFillTheirSlot
  <2>4. QED
    BY <1>6, <2>3 DEF i, Event
<1>8. QED
  BY <1>7 DEF Shown

\* On an orderly and steady day nothing jumps: a transition of a linear set begins with the
\* image that is on the screen.
THEOREM NothingJumps ==
  OrderlyDays /\ Steady => (Spec => TransitionsContinueTheScreen)
<1>1. SUFFICES ASSUME OrderlyDays, Steady
               PROVE  Spec => TransitionsContinueTheScreen
  OBVIOUS
<1>2. ListsAreEventLists
  BY <1>1, TurnsMakeEventLists DEF OrderlyDays
<1> DEFINE I == Shape /\ Timing /\ WakesInTime /\ ClockKept /\ Shown
<1>3. Init => I
  <2>1. Init => Timing /\ WakesInTime /\ Shown
    BY DEF Init, Timing, WakesInTime, AwakeAgain, Shown
  <2>2. QED
    BY <2>1, ShapeInit, ClockInit
<1>4. I /\ [Next]_vars => I'
  BY <1>2, ShapeNext, TimingNext, WakesInTimeNext, ClockNext, ShownNext
<1>5. Spec => []NeverWakesEarly
  BY <1>1, <1>2, NeverTooEarly
<1>6. I /\ NeverWakesEarly /\ [Next]_vars =>
        [/\ data.order = "linear" /\ current # 0
         /\ pc = "wake" /\ pc' = "lerp"
         => background = Whole(Event'.start)]_vars
  BY <1>1, <1>2, TransitionContinues
<1> HIDE DEF I
<1>7. QED
  BY <1>3, <1>4, <1>5, <1>6, PTL DEF Spec, TransitionsContinueTheScreen

===============================================================================
