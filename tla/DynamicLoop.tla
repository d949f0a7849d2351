------------------------------ MODULE DynamicLoop ------------------------------
(***************************************************************************)
(* The loop that shows a dynamic background set for as long as the program *)
(* runs: showBackgroundSet (cmdline_helper.cpp), updateBackground and      *)
(* doEvent (dynamic_background_set.hpp), lerpBackgroundBetweenImages       *)
(* (background_setter_definition.hpp).                                     *)
(*                                                                         *)
(* The program has one thread; what makes it hard is time.  It reads the   *)
(* clock once per iteration, in whole seconds, then spends time setting    *)
(* images, compositing and sleeping, and never looks at the clock again    *)
(* until the next iteration.  The clock is a number of milliseconds since  *)
(* midnight that jumps to the moment the next thing happens.               *)
(***************************************************************************)
EXTENDS EventList

CONSTANTS
  Milli,            \* milliseconds in a second: 1000 in the code
  MaxBusy,          \* bound: milliseconds one call that sets an image takes
  MaxOversleep,     \* bound: milliseconds a sleep is longer than asked for
  Faults,           \* the errors that happen in a run
  HookConfigured,   \* config.hookScript.has_value()
  NoImage           \* what is on screen before the program sets anything

ASSUME LoopAssumption ==
  /\ Milli \in Nat \ {0}
  /\ MaxBusy \in Nat /\ MaxOversleep \in Nat
  /\ Faults \subseteq {"NoCacheDir", "CacheDirDenied", "CompositeImageError"}
  /\ HookConfigured \in BOOLEAN

VARIABLES
  data,         \* the background set shown
  pc,           \* where the loop is
  clock,        \* the time of day, in milliseconds
  wokeAt,       \* the clock when this iteration read it
  eventList,    \* the list this iteration built
  current,      \* index of the current event in it, 0 before the first iteration
  step,         \* i of the interpolation loop
  sleepTime,    \* what updateBackground returned, in seconds
  background,   \* the image set last: on screen, unless the desktop refused it
  hooked,       \* the image the hook script was last run for
  elapsed       \* history: milliseconds since this iteration read the clock

vars == <<data, pc, clock, wokeAt, eventList, current, step, sleepTime,
          background, hooked, elapsed>>

\* Evaluated once: the lists getEventList may build for each background set.
ListsOf == [b \in Backgrounds |-> EventLists(b)]

Instants == 0 .. (Day * Milli - 1)

Later(instant, ms) == (instant + ms) % (Day * Milli)

\* getCurrentTime drops the fraction of the second.
CurrentTime(instant) == instant \div Milli

\* What can be on screen: an image, or a composite of two.  getCompositedImage
\* answers the images themselves at 0 and 100 percent.
Pictures == [start : STRING, end : STRING, percentage : 0 .. 100]

Whole(image) == [start |-> image, end |-> image, percentage |-> 0]

Composite(start, end, percentage) ==
  CASE percentage = 0   -> Whole(start)
    [] percentage = 100 -> Whole(end)
    [] OTHER -> [start |-> start, end |-> end, percentage |-> percentage]

Percentage(i, steps) == (100 * (i + 1)) \div (steps + 1)

Event == eventList[current]

NextTime == eventList[NextIndex(eventList, current)].time

-------------------------------------------------------------------------------

Init ==
  /\ data \in Backgrounds
  /\ pc = "wake"
  /\ clock \in Instants
  /\ wokeAt = clock
  /\ eventList = <<>>
  /\ current = 0
  /\ step = 0
  /\ sleepTime = 0
  /\ background = NoImage
  /\ hooked = NoImage
  /\ elapsed = 0

\* The clock is read, a new seed is chosen and the list is built with it, so
\* that a random order is another shuffle in every iteration.
BuildList ==
  /\ pc = "wake"
  /\ wokeAt' = clock
  /\ eventList' \in ListsOf[data]
  /\ current' = CurrentIndex(eventList', CurrentTime(clock))
  /\ UNCHANGED data

\* timeUntilNext, from the time read at the start of the iteration.
ReturnSleepTime ==
  /\ pc' = "sleep"
  /\ sleepTime' = TimeUntilNext(CurrentTime(wokeAt'), EventDuration(Event'), NextTime')

Spend(ms) ==
  /\ clock' = Later(clock, ms)
  /\ elapsed' = elapsed + ms

\* Mutant: the hook script is not run.
DoSetEventWithoutHook ==
  /\ BuildList
  /\ IsSet(Event')
  /\ background' = Whole(Event'.image)
  /\ \E busy \in 0 .. MaxBusy : clock' = Later(clock, busy) /\ elapsed' = busy
  /\ ReturnSleepTime
  /\ UNCHANGED <<step, hooked>>

\* doEvent for a SetBackgroundEvent: the setter, then the hook script.
DoSetEvent ==
  /\ BuildList
  /\ IsSet(Event')
  /\ background' = Whole(Event'.image)
  /\ hooked' = IF HookConfigured THEN Event'.image ELSE hooked
  /\ \E busy \in 0 .. MaxBusy : clock' = Later(clock, busy) /\ elapsed' = busy
  /\ ReturnSleepTime
  /\ UNCHANGED step

\* doEvent for a LerpBackgroundEvent, up to the interpolation loop.
BeginLerp ==
  /\ BuildList
  /\ IsLerp(Event')
  /\ step' = 0
  /\ elapsed' = 0
  /\ pc' = "lerp"
  /\ UNCHANGED <<clock, sleepTime, background, hooked>>

\* Mutant: the event is tried again on the next day.
FailNoCacheDirUntilTomorrow ==
  /\ "NoCacheDir" \in Faults
  /\ BuildList
  /\ IsLerp(Event')
  /\ elapsed' = 0
  /\ pc' = "sleep"
  /\ sleepTime' = Day - 1
  /\ UNCHANGED <<clock, step, background, hooked>>

\* The cache directory did not exist, and create_directories answers that it
\* created nothing, as it does when another instance was faster: the error is
\* logged and the iteration goes on as if the transition had been carried out.
FailNoCacheDir ==
  /\ "NoCacheDir" \in Faults
  /\ BuildList
  /\ IsLerp(Event')
  /\ elapsed' = 0
  /\ ReturnSleepTime
  /\ UNCHANGED <<clock, step, background, hooked>>

\* The cache directory cannot be created: create_directories throws, and nothing
\* catches the exception.
FailCreateDirectory ==
  /\ "CacheDirDenied" \in Faults
  /\ BuildList
  /\ IsLerp(Event')
  /\ elapsed' = 0
  /\ pc' = "terminated"
  /\ UNCHANGED <<clock, step, sleepTime, background, hooked>>

\* Mutant: the duration is divided like the percentages.
StepLengthByDenominator == (Event.duration * Milli) \div (data.transition.steps + 1)

StepLength == (Event.duration * Milli) \div data.transition.steps

\* What is left of a step's share of the duration after `busy` milliseconds of
\* compositing and setting.  Only ImageCompositor sleeps: the compositor of
\* in-place transitions is another type.
StepSleep(busy) ==
  IF data.transition.inPlace \/ busy > StepLength THEN 0 ELSE StepLength - busy

LerpStep ==
  /\ pc = "lerp" /\ step < data.transition.steps
  /\ background' =
       Composite(Event.start, Event.end, Percentage(step, data.transition.steps))
  /\ \E busy \in 0 .. MaxBusy : Spend(busy + StepSleep(busy))
  /\ step' = step + 1
  /\ UNCHANGED <<data, pc, wokeAt, eventList, current, sleepTime, hooked>>

\* The composite cannot be made: the error is recorded, but value() of the
\* failed result is called before the record is looked at, and throws.
\* Nothing catches the exception.
FailCompositeImage ==
  /\ "CompositeImageError" \in Faults
  /\ pc = "lerp" /\ step < data.transition.steps
  /\ pc' = "terminated"
  /\ UNCHANGED <<data, clock, wokeAt, eventList, current, step, sleepTime,
                 background, hooked, elapsed>>

EndLerp ==
  /\ pc = "lerp" /\ step = data.transition.steps
  /\ UNCHANGED <<data, clock, wokeAt, eventList, current, step, background,
                 hooked, elapsed>>
  /\ ReturnSleepTime

\* Mutant: the second is not added.
SleepUntilTheSecond ==
  /\ pc = "sleep"
  /\ \E extra \in 0 .. MaxOversleep : Spend(sleepTime * Milli + extra)
  /\ pc' = "wake"
  /\ UNCHANGED <<data, wokeAt, eventList, current, step, sleepTime, background, hooked>>

\* sleep_for the returned time and one second more.
Sleep ==
  /\ pc = "sleep"
  /\ \E extra \in 0 .. MaxOversleep : Spend((sleepTime + 1) * Milli + extra)
  /\ pc' = "wake"
  /\ UNCHANGED <<data, wokeAt, eventList, current, step, sleepTime, background, hooked>>

-------------------------------------------------------------------------------

Next ==
  \/ DoSetEvent
  \/ BeginLerp \/ LerpStep \/ EndLerp
  \/ FailNoCacheDir \/ FailCreateDirectory \/ FailCompositeImage
  \/ Sleep

\* One thread that is always runnable or in a sleep that ends.
Spec == Init /\ [][Next]_vars /\ WF_vars(Next)

-------------------------------------------------------------------------------
(* Where the loop is in the day. *)

AsMilliseconds(seconds) == seconds * Milli

\* From the moment this iteration read the clock to the next event.
UntilNextEvent ==
  LET now == CurrentTime(wokeAt)
  IN  AsMilliseconds(IF now < NextTime THEN NextTime - now ELSE Day - now + NextTime)
        - (wokeAt % Milli)

\* How long the current event had begun when this iteration read the clock.
EnteredAfter == (wokeAt - AsMilliseconds(Event.time)) % (Day * Milli)

\* The loop is awake again after an iteration, this long after the next event.
AwakeAgain == pc = "wake" /\ current # 0

Lateness == elapsed - UntilNextEvent

\* The longest a transition of this length takes to carry out.
LongestLerp(b, duration) ==
  LET stepLength == AsMilliseconds(duration) \div b.transition.steps
  IN  IF b.transition.steps = 0 THEN 0
      ELSE b.transition.steps *
           (IF b.transition.inPlace \/ stepLength < MaxBusy THEN MaxBusy ELSE stepLength)

\* The latest the loop wakes after a set event: the fraction of a second it did
\* not see, the second it adds, and what setting the image and sleeping cost.
LatestAfterSet == 2 * Milli - 1 + MaxBusy + MaxOversleep

\* A day is well spaced when every event lasts longer than the worst delay the
\* event before it can cause; a transition may be entered at its very end and
\* still be carried out in full.
LatestAfter(b, e) ==
  IF IsSet(e) THEN LatestAfterSet
  ELSE LongestLerp(b, e.duration) - 1 + Milli + MaxOversleep

WellSpaced(b, list) ==
  \A i \in DOMAIN list :
    LET next == NextIndex(list, i)
        afterNext == NextIndex(list, next)
        length == TimeUntilNext(list[next].time, 0, list[afterNext].time)
    IN  LatestAfter(b, list[i]) < AsMilliseconds(length)

\* The days whose events are carried out in order: the times differ, and every event
\* leaves time for the delay of the one before it.
OrderlyDays ==
  \A b \in Backgrounds :
    /\ TakesTurns(b)
    /\ ListsOf[b] # {}
    /\ \A list \in ListsOf[b] : WellSpaced(b, list)

\* What the loop takes for granted of its lists, and EventListBuilder shows of the code
\* that builds them: there is an event, the times ascend, and a transition is over before
\* the next event.
IsEventList(b, list) ==
  /\ list \in Seq(Events) /\ list # <<>>
  /\ StrictlySorted(list)
  /\ \A i \in DOMAIN list :
       IsLerp(list[i]) =>
         /\ b.transition # NoTransition
         /\ list[i].duration <= TimeUntilNext(list[i].time, 0, list[NextIndex(list, i)].time)

ListsAreEventLists == \A b \in Backgrounds : \A list \in ListsOf[b] : IsEventList(b, list)

-------------------------------------------------------------------------------
(* Properties. *)

\* Every variable has its type, and the current event is one of the list.
TypeOK ==
  /\ data \in Backgrounds
  /\ pc \in {"wake", "lerp", "sleep", "terminated"}
  /\ clock \in Instants /\ wokeAt \in Instants
  /\ eventList \in Seq(Events)
  /\ current \in {0} \cup DOMAIN eventList
  /\ step \in Nat /\ sleepTime \in 0 .. Day /\ elapsed \in Nat
  /\ background = NoImage \/ background \in Pictures
  /\ hooked \in STRING \cup {NoImage}

\* The loop never sleeps far past the next event.  After a set event it is late
\* by at most LatestAfterSet; a transition passes on the delay with which it was
\* entered, because its whole duration is performed however late it starts.
WakesInTime ==
  AwakeAgain =>
    Lateness <= IF IsSet(Event) THEN LatestAfterSet
                ELSE EnteredAfter + LongestLerp(data, Event.duration)
                       - AsMilliseconds(Event.duration) + Milli + MaxOversleep

\* The loop never wakes before the next event, so that no event is carried out
\* twice, although it truncates the clock to seconds and the length of a step to
\* milliseconds: the second added to each sleep makes up for both, as long as a
\* transition has at most Milli + 1 steps.
NeverWakesEarly == AwakeAgain => Lateness >= 0

\* "This effect occurs for `duration` seconds": when a transition is over, its
\* duration has passed, but for what the division into steps drops.  In-place
\* transitions do not keep to it.
TransitionLastsItsDuration ==
  (pc = "sleep" /\ IsLerp(Event)) =>
    elapsed > AsMilliseconds(Event.duration) - data.transition.steps

\* A transition of a linear set starts from the image on screen: nothing jumps
\* when the loop arrives at a transition from the event before it.
TransitionsContinueTheScreen ==
  [][/\ data.order = "linear" /\ current # 0
     /\ pc = "wake" /\ pc' = "lerp"
     => background = Whole(Event'.start)]_vars

\* However the clock was truncated and however long images took, the events of
\* a well-spaced day are carried out in order, none skipped.
Cycle == INSTANCE EventCycle WITH
           count <- Len(CHOOSE list \in ListsOf[data] : TRUE), done <- current

ImplementsEventCycle == Cycle!Spec

\* The same without the promise to go on: for runs in which it terminates.
EventsInOrder == Cycle!Init /\ [][Cycle!Next]_Cycle!vars

\* The images a linear background set shows.
Scheduled(image) ==
  /\ data.order = "linear"
  /\ \E i \in DOMAIN data.times \cap DOMAIN data.imageNames : data.imageNames[i] = image

ImagesOf(backgrounds) == UNION {ToSet(b.imageNames) : b \in backgrounds}

\* Every image of a linear set is put on screen in full, and the hook script is
\* run for it, again and again, day after day.
EveryImageIsShown ==
  \A image \in ImagesOf(Backgrounds) :
    []<>(Scheduled(image) => background = Whole(image) /\ hooked = image)

\* With a cache directory that another instance creates, with no steps or with
\* steps that take no time, the images still come, unless a directory or a
\* composite cannot be made.
EveryImageIsShownUnlessTerminated ==
  \A image \in ImagesOf(Backgrounds) :
    []<>(\/ pc = "terminated"
         \/ Scheduled(image) => background = Whole(image) /\ hooked = image)

===============================================================================
