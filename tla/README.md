# dynamic_paper: specification and proofs

TLA+ models of [dynamic_paper](../src/README.org), a program that changes the
desktop background over the day, with the TLC runs that check them and the
theorems TLAPS proves about them. Paths such as `dynamic_background_set.cpp`
are below `src/src/`.

## The system

The program reads a configuration and a file of *background sets*, picks one
(`show <name>`, `random`), and shows it. A static set is one image, set once. A
*dynamic* set has images and times of day, and the program stays in a loop for
as long as it runs: it reads the clock, builds the list of the day's events, carries
out the current one (set an image, or fade from one image to the next in steps),
computes how long to sleep until the next event, and sleeps.

| Component | State | Operations | Interacts with |
|---|---|---|---|
| Time of day (`time_from_midnight.hpp`) | seconds since midnight | construction, `+`, `-`, all modulo a day | everything that has a time |
| Event list (`dynamic_background_set.cpp`) | the vector of timed events | pair times with images, cut transitions, sort, remove overlapping events, current and next event, time until the next | built anew by the loop in each iteration |
| Dynamic loop (`cmdline_helper.cpp`, `dynamic_background_set.hpp`, `background_setter_definition.hpp`) | time read from the clock, sleep time, step of a transition; outside: the screen, the clock | wake, set an image and run the hook, carry out a transition, sleep | event list, compositor, setter, scripts, clock |
| Compositor and cache (`image_compositor.cpp`, `magick_compositor.cpp`, `file_util.cpp`) | files of the cache directory, one temporary file | look up, create and write a composite | file system, shared with other instances |
| Scripts and setters (`script_executor.cpp`, `background_setter.cpp`, `golang/background.go`) | child processes, the log's buffer they inherit | fork and exec of hook and setter scripts, the call into the desktop | the desktop, which may refuse an image; scripts, which are never waited for |
| Configuration, solar day, location (`config.cpp`, `solar_day_provider.cpp`, `time_util.cpp`, `location.cpp`, `networking.cpp`) | sunrise and sunset, computed at the start; the answer received so far | choose among the configured fields, request the location with three tries, fall back, compute | network |
| Parsing (`background_set.cpp`, `yaml_helper.hpp`, `transition_info.hpp`) | optional fields | collect fields, fill in defaults, validate | time strings; hands a set to the loop |
| Time strings (`time_util.cpp`, `time_util.hpp`) | none | turn a string into a time, with an offset from sunrise or sunset | solar day |
| Commands (`main.cpp`, `cmdline_helper.cpp`, `static_background_set.hpp`) | the sets still to be tried | show, random, list, info, cache, validate, help; the default configuration | all of the above |
| What the desktop's setter does inside, logging, formatting, benchmarks | | | not modelled |

What is hard about each, and makes it correct:

* **Event list.** Times repeat, are unsorted, lie around midnight; transitions are
  longer than the time between two images; the sort is not stable; the loop
  that removes overlapping events erases elements of the vector it holds
  references into. Correct means: the list ascends strictly (the loop asserts
  it), no configured time is lost, transitions end on time, and for sensible
  input the list is the schedule one would write down by hand.
* **Dynamic loop.** One thread and no locks; the difficulty is time. The clock is
  read in whole seconds and once per iteration, calls take time, sleeps
  overshoot, and the decision how long to sleep uses the time read before the
  event. Correct means: events in order, none twice and none skipped, not too late,
  and every image again each day.
* **Compositor and cache.** Several instances share files; a crash leaves a partial
  file under its final name. Correct means: a composite that is shown is complete and made
  of the two images asked for.
* **Scripts.** Nobody waits for them: they overlap, hang, cannot be started, remain as
  zombies, and inherit a buffer of the log that has not been written. Correct means: an older
  image wins only over a script it overlapped, the desktop's own setter may refuse an image but then
  leaves the last one it took, or a later one, to the hook, and no script holds up the events.
* **Solar day.** Fields may be absent or unreadable in any combination; the service
  answers in chunks, late, nonsense, or not at all. Correct means: nobody is asked
  where the user is unless the configuration allows it, and the location is that of the
  one complete answer or the configured one.
* **Parsing and time strings.** The keys come in the order of a hash map, conversions throw,
  numbers overflow. Correct means: a set is accepted exactly if it is complete, its
  times are those of its strings, and the loop only gets sets that satisfy what the event
  list requires (`IsBackground`).
* **Commands.** Every one of a dozen conditions ends a command in its own way. Correct
  means: a command that fails has shown nothing, one whose files are in order does not
  fail, and what is shown is what was asked for, with the configured setter and hook.

The full list of hazards, each at its line and with the properties that watch
it, is in `PROJECT.json`.

## Modules

| Module | Models |
|---|---|
| `TimeFromMidnight` | The time of day as integers modulo the constant `Day`. |
| `EventList` | The algorithms on event lists as operators. The sort and the shuffle are sets of possible results, so a background set has a *set* of event lists (`EventLists`). |
| `EventListBuilder` | `getEventList` as a state machine, one action per statement or branch; the removal loop with its indices, its erases, and the reference that designates another element after the first erase. |
| `EventList_proofs` | What the operators of `EventList` compute, for days and sets of any size. |
| `EventListBuilder_proofs` | Theorems about `EventListBuilder`. |
| `EventCycle` | Abstract: the events of the day are carried out one after the other, over and over, starting anywhere. |
| `DynamicLoop` | The endless loop: one action per outcome of an iteration (`DoSetEvent`, `BeginLerp`, `LerpStep`, `EndLerp`, `FailNoCacheDir`, `FailCreateDirectory`, `FailCompositeImage`) and `Sleep`. |
| `CompositeMemo` | Abstract: whoever asks for a composite is shown that one, and what the cache keeps it keeps for ever. |
| `CompositeCache` | Instances of the program as processes that carry out transitions on one cache directory and one directory for temporary files, one action per access to the file system; crashes, and images that are replaced or removed. |
| `CompositeCache_proofs` | Theorems about `CompositeCache`. |
| `DynamicLoop_proofs` | Theorems about `DynamicLoop`. |
| `GeneralConfig` | Operators: what the configuration makes of its fields (setter, hook, provider of the solar day), and `expandPath`. |
| `SolarDay`, `SolarDay_proofs` | One call of `getSolarDay`, from the configuration to sunrise and sunset, with the service that answers. |
| `TimeStrings` | Operators: `timeStringToTime` with its regular expressions and ints of `IntSize` values. |
| `BackgroundSetParser`, `BackgroundSetParser_proofs` | `parseFromYAML`: one action per key read, then the checks. The theorems include those about `TimeStrings`. |
| `ScriptExecutor`, `ScriptExecutor_proofs` | A list of events, the answers of the desktop, and the processes forked for the events: the program and each child as processes, with the log's buffer. |
| `Commands`, `Commands_proofs` | One run of the program from its arguments to its exit status or to the loop. |
| `MC*` | Constants for TLC. |

How they fit: `EventListBuilder` and `DynamicLoop` both extend `EventList`.
`DynamicLoop` takes the finished lists from `EventLists`, where removing overlapping events
is a left-to-right pass. `LoopAgreesWithPass` checks that no step of the loop of
`EventListBuilder` changes what that pass makes of the list, and
`FinishedListIsAnEventList` that what the builder finishes is one of the lists of
`EventLists`, so that the two models cannot drift apart.
`DynamicLoop` implements `EventCycle` under the mapping *count* = length of the
list, *done* = index of the current event. `CompositeCache` opens up what `DynamicLoop` has as
`LerpStep` and its errors: what happens to the files in one call of
`lerpBackgroundBetweenImages`, and what other instances do meanwhile. An instance that is alone and
is not interrupted implements `CompositeMemo` (*memo* = the finished files of the cache, *asked* =
the step of the transition an instance is at).

`Commands` goes through `main` and ends where `DynamicLoop` begins (`pc = "looping"`). It takes the result of
`BackgroundSetParser` as a kind per set, and of `SolarDay` the one question whether the service is
asked, for which both use `GeneralConfig`. `BackgroundSetParser` uses `TimeStrings`, and
`AcceptedDynamicIsBackground` is the assumption `BackgroundsAssumption` on which `EventListBuilder`, `DynamicLoop`
and their proofs rest. `ScriptExecutor` opens up the setter and the hook, which are effects without a
process in the other modules.

State and code:

* `data` is the `DynamicBackgroundData`. `pairs` is `timesAndNames`, `index` and `first`
  are the loop variables (from 1 here, from 0 there), `second` is always
  `first + 1`.
* `clock` counts milliseconds since midnight and jumps to the moment at which the
  next thing happens. `wokeAt` is the clock when the iteration read it; `CurrentTime`
  drops the fraction of the second as `getCurrentTime` does. `elapsed` is a
  history variable.
* `background` is what the program set last: an image or a composite with its percentage. `DynamicLoop` and `Commands`
  (`screen`) do not ask whether the desktop took it, because the code does not: "shown" and "on screen" in their properties
  mean set by the program. That the desktop may refuse an image is in `ScriptExecutor`.
  `hooked` is the image the hook script was last run for.
* The percentage is computed with integers; the code divides floats and truncates,
  which may give one percent less. No property depends on it.
* In `CompositeCache` a file is `NoFile`, `Unfinished` or a composite, which is the versions of its two
  images and the percentage. `writers` are the processes that have it open. Opening truncates. When two processes write the
  same composite, the file is whole at the latest when both are done; when they write different ones, or
  one is killed, what is left may be either or a mixture (`mixed`, `Written`): ImageMagick and the
  file system promise nothing. What is put on screen is the file at the moment of
  the call. A name is its sequence of words between hyphens, so that `CompositePath` joins names as the
  format string does.
* In `SolarDay` an answer is a sequence of tokens, each one byte long. `unsent` is what the service has yet to
  send, `responsePayload` what `writeChunk` appended; `served` is a history variable. The library that
  computes sunrise and sunset is a constant function of the place.
* In `ScriptExecutor` the image of an event is its number, so that "older" is `<`. `SetByWallutils` and `FailToSetByWallutils`
  are the two answers of `SetWallpaperCustom` (`golang/background.go:14`); after an error the screen may have either picture, as
  nothing says how far the desktop came. `refused` is a history variable, the events answered with an error, and so is `overlapped`
  of a child: the setter scripts that had not ended when it was forked. `buffer` are lines in the
  buffer of the log file, which `fork` copies and `exit` writes; `log` counts lines in the file.
* In `BackgroundSetParser` a node is a scalar, a sequence, a deeper sequence or a map; a time string is a
  record of a sign, a clock of digits and the word sunrise or sunset, so that regular expressions are
  conditions. `remaining` are the keys the loop over the unordered map has yet to come to.
* In `Commands` a set is the kind its parser answers, its images, and the images `random --image` takes from
  it with its own, more careless parser. `asked` counts the calls that may use the network.
* The assertions of the code (`logAssert`) are properties: the ascending list is
  `FinishedListIsSorted`, the non-empty list is part of `EveryTimeKeepsASetEvent`,
  the positive duration is part of `TypeOK`.

## Runs

| Run | Shows |
|---|---|
| `builder` | All sets of up to 3 times on a day of 5 seconds, with 2 or 3 images, both orders, no transition or one of 2 or 6 seconds: the invariants of the removal loop, the sorted and complete list, transitions that end on time, the schedule of the day, agreement with the pass, termination. |
| `loop` | Six well-spaced sets on a day of 30 seconds of 3 milliseconds, started at each millisecond: the bounds on waking, no event twice, the duration of transitions, screens that do not jump, the refinement of `EventCycle`, and that every image comes again. |
| `loop_faults` | Five sets whose transitions end early (in place, no steps, steps of no length), with a cache directory that another instance creates or that cannot be created, and with composites that fail at any step. |
| `overlap_removal` | A counterexample to the comment about the removal of overlapping events. |
| `cache_alone` | One instance, a cached and an in-place transition, one image that may be replaced and one that may be removed: refinement of `CompositeMemo`. |
| `cache_shared` | Two instances, one crash and one replaced image at any point: the cache never holds, and never shows, what was made for another step. |
| `cache_finished` | Two instances without crashes, an image that may be removed: transitions end, and no part of a composite stays. |
| `cache_crash` | A counterexample to the comment about cached composites: an unfinished file is shown. |
| `solar_day` | Every combination of present, absent and unreadable fields, four pages the service may answer, in any chunks, three tries: who is asked, which fields decide, which location and day result, and that the search ends unless the service hangs. |
| `parse` | Files with any subset of the keys, well formed or not, read in every order: exactly the complete sets are accepted, times are what the strings say, and what is accepted satisfies the assumptions of the loop. |
| `scripts` | Two images with a fragment of a transition between them, with and without hook and setter script: images the desktop refuses, stale screens, what hooks find on the screen, repeated lines, zombies, and that events go on. |
| `commands` | Fifteen command lines, six configurations, files with two sets of every kind and a refused one, files that are missing or malformed: exit status, what is shown, with what, which image the hook runs for, how often the location is asked for. |

**Bounds.** A day of five seconds holds up to three times in every order and with
every repetition, next to each other, at midnight and apart; a transition of
2 seconds fits or does not, one of 6 seconds is longer than the day. Three
pairs give up to six events, enough for runs of overlapping events: two
transitions, two sets, a transition and a set in both orders, and a transition behind
an erased one. `MaxTimes` and `Durations` are the only bounds there.
In the loop `MaxBusy` bounds the milliseconds a call that sets an image takes, longer
than a whole second (3 milliseconds) and longer than the share of some steps in `loop`;
`MaxOversleep` bounds the delay of a sleep; the set of `Faults` says which errors
happen. A second of 3 milliseconds distinguishes the start, the middle and
the end of a second, which is what truncation is about. `WellSpaced` is the
assumption under which no event is skipped: each event lasts longer than
the worst delay of the one before it. It is part of `OrderlyDays`, a constant-level assumption TLC
evaluates. Without it a transition that is longer than the time between two images makes the loop skip
the set event before it, and its hook, every day. `ListsAreEventLists`, the hypothesis of other theorems about the loop, follows
from times that differ (`TurnsMakeEventLists`).

In `CompositeCache` two instances are enough for a reader and a writer, or two writers, of one file; two
steps make two files per transition; `MaxCrashes`, `MaxReplacements` and `MaxRemovals` bound what
the environment does. `cache_shared` uses the symmetry of instances, which is sound as
it checks no liveness property. The theorems need none of these bounds.

`solar_day` has a day of three hours of two units, so that a zone may be half an hour off; a buffer of four
bytes, shorter than one of the pages with nothing to spare; one polar place. `parse` has a real day, because
the strings do, and ints of 4096 values (`IntSize`) instead of 2^32: four digits overflow them, as ten do in the code.
`MaxUnsigned` is 65535 so that 70000 seconds exceed it. Its files come in three families (static, dynamic with all kinds of
lists, dynamic with all kinds of transitions) instead of their product. `scripts` has a limit of three processes for up
to five scripts, so that forks fail with and without zombies. `commands` has two sets because one is enough to be
tried, refused or shown and the other to be overlooked.

**Deadlock.** Every machine but `loop` ends: `builder` when the list is finished, `loop_faults` when the program
terminated, the cache runs when every instance has ended on an exception, `solar_day`, `parse` and
`commands` with their result, `scripts` when the events are over. These do not check for deadlock; where
waiting or erasing makes it doubtful that they end, a liveness property says that they do. `loop` does check.

**Fairness.** `WF_vars(Next)` in the builder and the loop: one thread that is runnable, or in a sleep that
ends. No choice among the actions is forced, so that a fault may always or
never happen. In `CompositeCache` each process is fair by itself (`WF_vars(Work(p))`): once it has begun a
transition it runs on; beginning one, crashes and changed images are not forced. The processes
share no lock, so that none can hold up another. In `SolarDay` only the program is fair (`WF_vars(Program)`): a service that neither sends
nor fails holds it up for ever, as no timeout is set (`networking.cpp:125`). In `ScriptExecutor`, too, only the program is:
scripts may hang, and the events go on. `Commands` and `BackgroundSetParser` state no fairness, as they check safety only.

Findings, each with the run that shows it and the line it contradicts, are in
`PROJECT.json`.

Other places where the code does not do what it says, met while modelling and
without a run of their own:

* Of two set events at the same time the code keeps the second
  (`dynamic_background_set.cpp:151`); the comment at line 124 says it prefers the first.
* The pairs of a random set are not sorted (`dynamic_background_set.cpp:235`), which the comment at
  line 223 says they are; with unsorted times a transition may start from an image that is not on screen.
* Hours with enough digits overflow an int (`time_util.hpp:93`): `HoursFit` is where `TimesAreWhatTheStringsSay` stops.
* Where the sun does not rise, NaN is converted to an int (`time_util.cpp:73`), which is undefined: any time of day in `SolarDay`.
* In-place transitions do not sleep between steps (`background_setter_definition.hpp:72`), so they
  do not last their duration: `TransitionLastsItsDuration` fails for them, and `loop` has none.
* A program started within a transition carries it out in full, and the image at its end comes
  late by up to the duration (`EnteredAfter` in `WakesInTime`).
* When the cache directory cannot be created the program ends (`FailCreateDirectory`), and when
  another instance creates it first the transition is given up (`FailNoCacheDir`), although
  the comment at `file_util.hpp:34` promises an answer in both cases.
* With two instances, `ShownIsInterpolated` also fails because one shows what the other is
  still writing, or has written to the same temporary file; with a replaced image because the old
  composite is found.
* The name of a composite joins the names of its images with hyphens (`image_compositor.cpp:104`), so that
  images with hyphens in their names may share one: `UniquePath` is the condition under which they do not.
* The seed of a random order is chosen in each iteration (`dynamic_background_set.hpp:218`), although
  the comment at lines 174-176 says the order stays consistent: each iteration looks up its event
  in another list.
* When a composite cannot be made, the error is recorded but `value()` of the result throws before
  anyone looks (`background_setter_definition.hpp:60`): the program ends (`FailCompositeImage`).
* A long transition leaves no time in front of it: the loop skips set events of days that are not
  `WellSpaced`, together with their hooks (`cmdline_helper.cpp:582`).
* When the desktop refuses an image, the error is printed (`golang/background.go:16`) and nobody is told: the hook runs for an image that
  is not on the screen, although `README.org` says it runs after setting the background. The macOS build drops the status of
  `osascript` in the same way (`background_setter_macos.cpp:28`). `HookFollowsTheImage` of `ScriptExecutor` says what holds all the same.
* `show` with the path of an image runs no hook (`main.cpp:99`), although `README.org` says the hook script
  runs after setting the background: `HookFollowsTheImage` of `Commands` leaves it out.
* A static set with an empty list of images is accepted, as the check at `background_set.cpp:176` is about
  an optional that is always there; `show` then fails its assertion.
* The path of a setter script is compared in lower case and `~` is not expanded in it
  (`yaml_helper.hpp:105`), so a path with capitals is passed over for wallutils without an error
  (`SetterIsAsConfigured`).
* `random --image` wants a mode in each set, which `README.org` calls optional; a set without one
  ends the command.
* One set that throws ends `list` and `validate` (`cmdline_helper.cpp:376`), although `cmdline_helper.hpp` says "Does not
  add BackgroundSets that errored out". `validate` says "All good" of a set that is refused.
* `README.org` names other default files than `defaults.hpp`.
* Nothing compares the number of images with the number of times: a linear set drops what has no
  partner (`LinearPairs`).
* Sunrise and sunset are computed once, before a loop that runs for days (`cmdline_helper.cpp:413`), and the library is
  never given a date (`time_util.cpp:148`).
* A negative number of steps becomes the greatest unsigned number (`yaml_helper.hpp:63`); one more than that
  is 0, which the percentage divides by (`background_setter_definition.hpp:32`).

## Proofs

`EventListBuilder_proofs` proves, for every length of the day and every
set of background sets (assumptions `DayAssumption`: a day is a positive number of
seconds; `BackgroundsAssumption`: sets have what the parser guarantees):

* `TypeCorrect`: `Spec => []TypeOK`. It rests on lemmas about each operator:
  reducing gives a time of day, cutting a transition gives a length that is a
  natural number, erasing and sorting give sequences of events.
* `FinishedListIsAlwaysSorted`: not inductive by itself. `RemovalLoopInvariant`
  strengthens it: the list ascends weakly everywhere and strictly up to `first`.
  Sorting establishes it, `Advance` extends the strict part by the comparison it
  makes, and an erase at or behind `first` preserves it (`ErasedAscends`), even when
  it erases the wrong element. When the loop ends, `first` is the last index.
* `EveryTimeAlwaysKeepsASetEvent`: strengthened by `ParsedTimesHaveSetEvents` to the
  pairs already parsed. The erases remove transitions, or a set event that is
  followed by one at the same time (`ErasedKeepsSet`).
* `TransitionsAlwaysEndOnTime`: cutting a transition keeps start plus duration at
  its end modulo a day, across midnight too (`NonOverlappingEnds`); every
  later step only moves or erases events.
* `LoopAlwaysAgreesWithPass`, `FinishedListIsAlwaysAnEventList`: the loop with its indices and erases computes the
  left-to-right pass of `EventList`. The fold behind the pass is a recursive function on the indices, so what it makes of the
  part behind `first` follows step by step; the invariant says that the part up to `first` is what the pass has kept.
* `ListIsAlwaysTheDaySchedule`, from the previous one and `ListsOfDistinctTimes` below.

`EventList_proofs` proves what the lists are, under the same assumptions. Pairs are `InTurn` if their times differ and follow
one another around the clock; `TakesTurns(b)` says it of all pairs of a set.

* `ListsOfDistinctTimes`: the list ascends and its events are exactly those of `DaySchedule`. What `FlattenSeq`
  puts together is described by an induction over its length; sorting keeps the elements; as no two events
  have the same time, the pass removes none.
* `TransitionsJoinNeighbours`: a transition lasts exactly from the event that set its first image to the one that sets
  its second: no event of the schedule lies between the two.
* `DistinctTimesTakeTurns`, `ListsKeepTheirTimes`, `LinearListsAreOne`: for a linear set different times are
  enough; shuffles change images and not times; linear sets have the same list in each iteration.

`CompositeCache_proofs` proves, for any number of instances, any transitions, any number of
crashes and any changes of the images (`CacheAssumption`: transitions have at least one step
and fewer than `Percent`; `ContentAssumption`: an unfinished file is no composite):

* `TypeCorrect`, with `AtWork` and `WritersAreWriting`: a process that has a file open is at
  the step whose file it is. Lemmas give the type of a percentage and the
  effect of opening a file; one lemma per action follows.
* `CacheAlwaysHoldsItsOwn`: `FilesHoldTheirOwn` is not inductive, as a finished write
  puts the composite of its writer into the file; `WritersHoldTheirOwn` says what
  that composite is. The step from the writer to the file is `UniquePathRequest`:
  whoever has a file of a unique name open is at the step it is named for.
* `NothingForeignIsEverShown`: an action property from the same invariant.
* `AloneItIsAMemo`: under `Undisturbed` (one instance, no crashes, a name for each composite) each step is one of
  `CompositeMemo` or a stutter. `AloneInv` adds that a file of the cache is whole unless the
  instance is writing it, and that what the instance is about to show is what it asked for. The environment may replace and remove
  images at any time; TLC evaluates `Undisturbed` for `cache_alone` (`UndisturbedAssumption`).

What these theorems leave open is just what the counterexamples show: the
file may be unfinished, made of older versions, or have a name that is not unique.

`DynamicLoop_proofs` proves, for every length of the day and the second and every bound on the time calls and
oversleeping take. Its first theorems suppose `ListsAreEventLists`, which speaks of constants: the lists
are not empty, ascend strictly, and a transition is over before the next event. `TurnsMakeEventLists` derives it from the
configuration: it holds of all sets that take turns.

* `TypeCorrect`: from `Shape`, which says that the current event is the one `CurrentIndex`
  finds for the time this iteration read, and `Screen`.
* `NeverFarBehind`: `Timing` bounds what the iteration has spent (one step of a transition takes at most
  `StepMax`) and keeps the sleep that was computed. `ReadBetween` puts the time
  that was read between the current event and the next, with midnight in one gap or in none, and
  `Gap` concludes that the time since the one and the time until the other add up to the length of the event. So a
  transition that is entered late passes on its delay, and never more.
* `TransitionsLast` and `NeverTooEarly` need `Steady` in addition: no errors, and transitions that are not in place
  with 1 to `Milli + 1` steps. `Pace` is the lower bound on each step. The second that is added to each
  sleep makes up for what the division into steps drops; with more steps it may not.
* `OrderlyDaysAreInOrder`: on orderly days the loop implements `EventCycle`, but for its promise to go on. A
  delay is shorter than the event that follows (`WellSpaced`), so the loop wakes within the same event or the next: neither
  `NeverWakesEarly` nor `Steady` is needed, as an event that is carried out twice is a stutter of the cycle. Lists of different
  shuffles have the same times, so an index means the same in each. `OrderlyDays` asks that there is a list at all
  (`ListsOf[b] # {}`), as the set of permutations behind the sort is built into TLC and unknown to the provers; TLC evaluates it for the
  days of `loop` and `loop_faults` (`DaysAssumption` in `MCDynamicLoop`).
* `NothingJumps`: with `Steady`, a transition starts from the image on the screen, by `TransitionsJoinNeighbours` and `Shown`,
  which says that after a set event its image is on the screen.

`SolarDay_proofs` (assumption `SolarDayAssumption`: fields have the types the conversions give, the service answers
in tokens): `TypeCorrect`, `AskingIsAllowed`, `FieldsHaveTheirOrder`, `LocationIsAnswered`,
`DayIsOneOfThePossible`, `SunTimesAreAlwaysLocal`, for any number of tries, pages and sizes of chunks. `Transfer` says that what was
received and what is unsent make up the page of the last request; `Counting` relates tries to requests;
`DayFollows` ties the day to the provider. `LocalTimeIsNear` adds the arithmetic: what the division into whole hours drops is less
than an hour, and days that are added or dropped play no part.

`BackgroundSetParser_proofs` (`ParserAssumption`: a scalar of a key says a text of its kind; `TimeStringsAssumption`: an hour and a minute
are positive numbers of seconds, an int holds two digits) proves, for any files:

* `TimesAreRead`: the regular expressions let through what `IsTime` describes, and the conversion gives `ExactTime`, for any number of digits.
  The code reads digits from the left and wraps around; `DecimalValue` gives each digit its weight.
  `ReadingIsExact` is the induction that both agree as long as the number fits in an int (`ReadingSteps`, `PrefixSteps`);
  `OffsetsReduce` says that an offset may be reduced modulo a day before it is added.
* `TypeCorrect`, `OutcomeAlwaysFitsTheFile`, `AcceptedDynamicIsAlwaysBackground`, `TimesAreAlwaysWhatTheStringsSay` and
  `OrderOfKeysDoesNotMatter`, all from `ParserInv`: the fields are those of the keys read so far (`FieldsRead`), whatever the order, and the
  end is a function of the fields. `FieldsOfTheFile` says what each field tells about the file, `DynamicIfComplete`, `FailsIfZeroLength`
  and `CreatedIfComplete` that the checks of the code find exactly the complete files.

With `AcceptedDynamicIsAlwaysBackground` the assumption `BackgroundsAssumption` of the modules about lists and the loop is
itself a theorem about the parser.

`ScriptExecutor_proofs` (`ScriptAssumption`): its five theorems hold for any list of events and any limit of processes. `TypeCorrect`
includes that limit. `HookFindsTheImage` needs `Answered`: when the call is back, each image the desktop was given is on the screen,
has given way to a later one, or was refused. `ForwardStep` says that with wallutils only those answers change the screen, and never
to an older image. `Order`
says that children are forked in the order of their images, and `overlapped` names the setters still alive at a fork; `Logged` counts
the copies of a line that buffers still hold.

`Commands_proofs` (`CommandsAssumption`): ten theorems for any configurations, files of sets and command lines. `Control`
says at each label which commands get there and what has been decided, `Collected` what the loops over the sets
have taken and left, `Asked` counts searches with the cardinality of the sets that were tried.

Type invariants, the strengthenings, and those results that are theorems for all
values of the constants and follow closely the shape of the code (`DayIsPossible`, `FieldsDecide`,
`ListsTheParsedSets`, `RandomFindsASet`, `ShownWasAskedFor`) are not repeated in the runs, but for the type invariants
of `SolarDay` and `BackgroundSetParser`.

**Induction.** The induction theorems of the library take an operator, which the provers cannot instantiate. `NatLessThanWellFounded`
and `WFMin` speak of sets only, and give `NumbersByInduction` and `NumbersUpTo` (`EventList_proofs`): a set of numbers that has 0, and with
each number the next, has all. As the folds and `FlattenSeq` of the community modules are recursive *functions*, what they compute
is proved from these (`RecursionExists` shows that such a function exists).

Only model-checked: liveness everywhere, which is out of the prover's reach (`BuildingTerminates`, `EveryImageIsShown` and
`EveryImageIsShownUnlessTerminated`, `EveryTransitionEnds`, `EveryFragmentIsFinished`, `EndsUnlessTheServiceHangs`, `EventsGoOn`, and of
`ImplementsEventCycle` the fairness; its safety is `OrderlyDaysAreInOrder`), and that every sequence has a sorted arrangement. All other
properties of the runs that pass are theorems.

## Not modelled

* Logging but for the lines a fork may repeat, formatting, and the text of output.
* YAML syntax and the pixels of composites: both are libraries.
* The desktop's own setter (wallutils, macOS) beyond whether it takes an image or answers an error; benchmarks.
* A clock that is set or changes to summer time while the loop runs: the loop has a fixed time zone.
* The delays between the tries for the location, which no property depends on.
* In `CompositeCache` nobody deletes files of the cache, the directory can be created
  (`DynamicLoop` has the failure), and percentages of 0 are left to `DynamicLoop`, where
  `Composite` answers the image itself.

## Plan

What could follow: `DynamicLoop` with a clock that is set; that `OrderlyDays` follows from the configuration, with a bound on the
distance of the times instead of one on the lists; a memo for several instances that nobody kills.
