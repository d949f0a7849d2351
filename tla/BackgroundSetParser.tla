------------------------- MODULE BackgroundSetParser -------------------------
(***************************************************************************)
(* parseFromYAML of src/src/background_set.cpp: one background set, from   *)
(* the keys of its map to a set the commands can show, an error, or an     *)
(* exception that nothing catches.                                         *)
(*                                                                         *)
(* A file is a function from the keys it has to nodes; a node is a scalar, *)
(* a sequence of scalars, a sequence with anything deeper in it, or a map. *)
(* The text of a scalar is what it says: a name, a number, a time string,  *)
(* or Garbage.                                                             *)
(***************************************************************************)
EXTENDS TimeStrings, EventList

CONSTANTS
  Files,              \* the maps considered
  solarDay,           \* the day they are read on
  MaxUnsigned,        \* UINT_MAX
  TransitionSteps,    \* BackgroundSetDefaults::transitionSteps
  Garbage,            \* a text that is none of the words or numbers expected
  None                \* the empty optional

Scalar(text) == [shape |-> "scalar", text |-> text]

Sequence(entries) == [shape |-> "sequence", entries |-> entries]

DeepSequence == [shape |-> "deep"]

Map == [shape |-> "map"]

EnumKeys == {"mode", "order", "type", "in_place"}

NumberKeys == {"transition_length", "number_transition_steps"}

ListKeys == {"images", "times"}

Keys == EnumKeys \cup NumberKeys \cup ListKeys \cup {"image_directory", "image"}

\* Words the code compares or returns; the provers need to be told that they are texts.
Words == {"static", "dynamic", "linear", "random",
          "NoImages", "NoImageDirectory", "NoTimes", "BadTimes"}

\* What the scalar of a key may say.
Texts(key) ==
  CASE key = "type" -> {"static", "dynamic", Garbage}
    [] key = "order" -> {"linear", "random", Garbage}
    [] key = "mode" -> STRING \cup {Garbage}
    [] key = "in_place" -> BOOLEAN \cup {Garbage}
    [] key \in NumberKeys -> Int \cup {Garbage}
    [] OTHER -> STRING

Nodes(key) ==
  [shape : {"scalar"}, text : Texts(key)]
  \cup [shape : {"sequence"}, entries : Seq(IF key = "times" THEN Strings ELSE STRING)]
  \cup {DeepSequence, Map}

ASSUME ParserAssumption ==
  /\ solarDay \in [SUN -> TimeOfDay]
  /\ TransitionSteps \in Nat /\ MaxUnsigned \in Nat \ {0} /\ TransitionSteps <= MaxUnsigned
  /\ \A file \in Files :
       DOMAIN file \subseteq Keys /\ \A key \in DOMAIN file : file[key] \in Nodes(key)
  /\ Garbage \notin Words \cup STRING \cup Int
  /\ None \notin Words \cup STRING \cup Int \cup Seq(STRING) \cup Seq(Strings) \cup {Garbage}

VARIABLES
  file,          \* yamlMap
  remaining,     \* keys the loop over the unordered map has yet to come to
  parsingInfo,   \* ParsingInfo, from keys to values or None
  pc,            \* "reading", "done", or "terminated" by an exception
  result         \* a background set, or an error

vars == <<file, remaining, parsingInfo, pc, result>>

Init ==
  /\ file \in Files
  /\ remaining = DOMAIN file
  /\ parsingInfo = [key \in Keys |-> None]
  /\ pc = "reading"
  /\ result = None

-------------------------------------------------------------------------------
(* insertIntoParsingInfo. *)

\* Mutant: the result is not clamped.
UnsignedUnclamped(number) == number

\* std::stoul takes a minus sign and wraps around; the result is clamped to an
\* unsigned int.
Unsigned(number) == IF number < 0 \/ number > MaxUnsigned THEN MaxUnsigned ELSE number

\* The entries an iteration over the node comes to: none for a scalar.
EntriesOf(node) == IF node.shape = "sequence" THEN node.entries ELSE <<>>

\* A conversion that throws: to a string of what is not a scalar, and to a number of
\* what is none.  The two keys that ask for the shape first ignore the wrong ones.
Throws(key, node) ==
  CASE key = "image_directory" -> FALSE
    [] key = "images" -> node.shape = "deep"
    [] key = "times" -> node.shape \in {"deep", "map"}
    [] key \in NumberKeys -> node.shape = "scalar" => node.text = Garbage
    [] OTHER -> node.shape # "scalar"

\* The value a field has after the node, None when it stays as it was.
Value(key, node) ==
  CASE key = "image_directory" -> IF node.shape = "scalar" THEN node.text ELSE None
    [] key = "images" -> IF node.shape = "sequence" THEN node.entries ELSE None
    [] key = "times" -> EntriesOf(node)
    [] key \in NumberKeys -> Unsigned(node.text)
    [] OTHER -> IF node.text = Garbage THEN None ELSE node.text

\* One iteration of the loop of parseFromYAML, updateParsingInfoWithYamlNode.
ReadField(key) ==
  /\ pc = "reading" /\ key \in remaining
  /\ ~ Throws(key, file[key])
  /\ remaining' = remaining \ {key}
  /\ parsingInfo' = [parsingInfo EXCEPT ![key] = Value(key, file[key])]
  /\ UNCHANGED <<file, pc, result>>

ThrowOnField(key) ==
  /\ pc = "reading" /\ key \in remaining
  /\ Throws(key, file[key])
  /\ pc' = "terminated"
  /\ UNCHANGED <<file, remaining, parsingInfo, result>>

-------------------------------------------------------------------------------
(* createBackgroundSetFromInfo. *)

ValueOr(value, default) == IF value = None THEN default ELSE value

Error(error) == [kind |-> "error", error |-> error]

StaticSet(info, imageNames) ==
  [kind |-> "static", imageDirectory |-> info["image_directory"],
   mode |-> ValueOr(info["mode"], "center"), imageNames |-> imageNames]

\* The images have precedence over the image, and may be an empty list.
CreateStatic(info) ==
  IF info["image"] = None /\ info["images"] = None THEN Error("NoImages")
  ELSE IF info["image_directory"] = None THEN Error("NoImageDirectory")
  ELSE StaticSet(info, ValueOr(info["images"], <<info["image"]>>))

\* TransitionInfo, whose constructor asserts that the duration is positive: a length
\* of 0 is looked for only where the number of steps is given as well.
Duration(info) == info["transition_length"]

Steps(info) == info["number_transition_steps"]

TransitionAsserts(info) == Duration(info) = 0 /\ Steps(info) = None

\* Mutant: a length of 0 is not looked for.
CreateTransitionUnchecked(info) ==
  IF Duration(info) = None THEN NoTransition
  ELSE [duration |-> Duration(info), steps |-> ValueOr(Steps(info), TransitionSteps),
        inPlace |-> ValueOr(info["in_place"], FALSE)]

\* tryCreateTransitionInfoFrom.
CreateTransition(info) ==
  IF Duration(info) \in {None, 0} THEN NoTransition
  ELSE [duration |-> Duration(info), steps |-> ValueOr(Steps(info), TransitionSteps),
        inPlace |-> ValueOr(info["in_place"], FALSE)]

DynamicSet(info) ==
  [kind |-> "dynamic", imageDirectory |-> info["image_directory"],
   mode |-> ValueOr(info["mode"], "center"), transition |-> CreateTransition(info),
   order |-> ValueOr(info["order"], "linear"), imageNames |-> info["images"],
   times |-> TimeStringsToTimes(info["times"], solarDay)]

\* Mutant: an empty list of times is taken for a list.
DynamicErrorWithoutEmptyTimes(info) ==
  IF info["images"] \in {None, <<>>} THEN "NoImages"
  ELSE IF info["image_directory"] = None THEN "NoImageDirectory"
  ELSE IF info["times"] = None THEN "NoTimes"
  ELSE IF TimeStringsToTimes(info["times"], solarDay) = Unreadable THEN "BadTimes"
  ELSE None

\* The checks of createDynamicBackgroundSetFromInfo, in their order.
DynamicError(info) ==
  IF info["images"] \in {None, <<>>} THEN "NoImages"
  ELSE IF info["image_directory"] = None THEN "NoImageDirectory"
  ELSE IF info["times"] \in {None, <<>>} THEN "NoTimes"
  ELSE IF TimeStringsToTimes(info["times"], solarDay) = Unreadable THEN "BadTimes"
  ELSE None

CreateDynamic(info) ==
  IF DynamicError(info) = None THEN DynamicSet(info) ELSE Error(DynamicError(info))

IsDynamic(info) == info["type"] = "dynamic"

FailToCreate ==
  /\ pc = "reading" /\ remaining = {}
  /\ IsDynamic(parsingInfo) /\ DynamicError(parsingInfo) = None
  /\ TransitionAsserts(parsingInfo)
  /\ pc' = "terminated"
  /\ UNCHANGED <<file, remaining, parsingInfo, result>>

Create ==
  /\ pc = "reading" /\ remaining = {}
  /\ ~ (/\ IsDynamic(parsingInfo) /\ DynamicError(parsingInfo) = None
        /\ TransitionAsserts(parsingInfo))
  /\ result' = CASE parsingInfo["type"] = None -> Error("NoType")
                 [] IsDynamic(parsingInfo) -> CreateDynamic(parsingInfo)
                 [] OTHER -> CreateStatic(parsingInfo)
  /\ pc' = "done"
  /\ UNCHANGED <<file, remaining, parsingInfo>>

-------------------------------------------------------------------------------

Next ==
  \/ \E key \in Keys : ReadField(key) \/ ThrowOnField(key)
  \/ FailToCreate \/ Create

Spec == Init /\ [][Next]_vars

-------------------------------------------------------------------------------
(* Properties. *)

\* Every variable has its type: fields that were not read are empty, and no number
\* exceeds an unsigned int.
TypeOK ==
  /\ DOMAIN file \subseteq Keys /\ remaining \subseteq DOMAIN file
  /\ pc \in {"reading", "done", "terminated"}
  /\ DOMAIN parsingInfo = Keys
  /\ \A key \in (Keys \ DOMAIN file) \cup remaining : parsingInfo[key] = None
  /\ \A key \in NumberKeys : parsingInfo[key] = None \/ parsingInfo[key] \in 0 .. MaxUnsigned
  /\ pc = "done" => remaining = {} /\ result.kind \in {"error", "static", "dynamic"}

Has(key, shape) == key \in DOMAIN file /\ file[key].shape = shape

IsOfType(type) == "type" \in DOMAIN file /\ file["type"] = Scalar(type)

\* A time one may write: sunrise, sunset, a clock, or a clock before or behind one.
IsTime(string) ==
  LET clock == string.clock
  IN  /\ string.sun \in SUN \cup {""} /\ (string.sun # "" \/ clock # NoClock)
      /\ clock = NoClock <=> (string.sign = "" /\ string.sun # "")
      /\ string.sign # "" => string.sun # ""
      /\ clock # NoClock =>
           /\ clock.hours # <<>>
           /\ Len(clock.minutes) = 2 /\ clock.minutes[1] <= 5
           /\ clock.seconds = <<>> \/ (Len(clock.seconds) = 2 /\ clock.seconds[1] <= 5)

\* What README.org asks of a set: images and a directory, and times if it is dynamic.
Complete ==
  /\ Has("image_directory", "scalar")
  /\ \/ IsOfType("static") /\ (Has("images", "sequence") \/ Has("image", "scalar"))
     \/ /\ IsOfType("dynamic")
        /\ Has("images", "sequence") /\ file["images"].entries # <<>>
        /\ Has("times", "sequence") /\ file["times"].entries # <<>>
        /\ \A string \in Range(file["times"].entries) : IsTime(string)

Malformed == \E key \in DOMAIN file : Throws(key, file[key])

ZeroLength ==
  /\ Complete /\ IsOfType("dynamic")
  /\ Has("transition_length", "scalar") /\ file["transition_length"].text = 0
  /\ ~ Has("number_transition_steps", "scalar")

\* Whatever the order the keys come in: a set is accepted exactly if it is complete, and
\* refused otherwise, unless a field of it, or a transition of no length, ends the program.
OutcomeFitsTheFile ==
  /\ pc = "terminated" => Malformed \/ ZeroLength
  /\ pc = "done" => /\ ~ Malformed /\ ~ ZeroLength
                    /\ result.kind # "error" <=> Complete

Accepted(kind) == pc = "done" /\ result.kind = kind

\* A dynamic set that is accepted is one the loop can run: what EventList and DynamicLoop
\* assume of every background set.
AcceptedDynamicIsBackground ==
  Accepted("dynamic") =>
    IsBackground([times |-> result.times, imageNames |-> result.imageNames,
                  order |-> result.order, transition |-> result.transition])

\* Each digit counts ten times what the next one does.
DecimalValue(digits) ==
  LET n == Len(digits)
      weight[k \in 0 .. n] == IF k = 0 THEN 1 ELSE weight[k - 1] * 10
      value[k \in 0 .. n] == IF k = 0 THEN 0 ELSE value[k - 1] + digits[k] * weight[n - k]
  IN  value[n]

\* The time a string means, with exact numbers.
ExactTime(string) ==
  LET base == IF string.sun = "" THEN 0 ELSE solarDay[string.sun]
      offset == IF string.clock = NoClock THEN 0
                ELSE Hour * DecimalValue(string.clock.hours)
                     + Minute * DecimalValue(string.clock.minutes)
                     + DecimalValue(string.clock.seconds)
  IN  IF string.sign = "-" THEN Minus(base, offset) ELSE Plus(base, offset)

HoursFit(string) ==
  string.clock = NoClock \/ DecimalValue(string.clock.hours) < IntSize

\* The times of a set are what its strings say, modulo a day, one for one; hours that do
\* not fit in an unsigned int are the exception.
TimesAreWhatTheStringsSay ==
  Accepted("dynamic") =>
    /\ Len(result.times) = Len(file["times"].entries)
    /\ \A i \in DOMAIN result.times :
         LET string == file["times"].entries[i]
         IN  HoursFit(string) => result.times[i] = ExactTime(string)

===============================================================================
