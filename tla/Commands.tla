------------------------------- MODULE Commands -------------------------------
(***************************************************************************)
(* One run of the program, from the arguments to its exit status or to the *)
(* loop of a dynamic set: src/src/main.cpp, with cmdline_helper.cpp and    *)
(* static_background_set.hpp.                                              *)
(*                                                                         *)
(* A background set is what BackgroundSetParser makes of it:               *)
(*   parse    "static", "dynamic", "refused" (an error is logged and the   *)
(*            set passed over), or "throws"                                *)
(*   images   the images the set lists, none when it is refused            *)
(*   offered  the images `random --image` takes from it, which has a       *)
(*            parser of its own, or Throwing                               *)
(***************************************************************************)
EXTENDS GeneralConfig, FiniteSets

CONSTANTS
  CommandLines,   \* [kind, name]; name is Absent where there is none
  Configs,        \* the configuration files considered
  DefaultConfig,  \* DEFAULT_CONFIG_FILE_CONTENTS
  SetFiles,       \* the background set files considered: functions from names
  ExistingImages, \* images std::filesystem::exists answers true for
  RegularFiles,   \* names std::filesystem::is_regular_file answers true for
  Throwing

Kinds == {"error", "exception", "none", "help", "list", "validate", "cache", "show", "info",
          "random", "random image"}

ASSUME CommandsAssumption ==
  /\ \A line \in CommandLines : line.kind \in Kinds
  /\ Absent \notin {"success", "failure", "terminated"} \cup RegularFiles
  /\ Absent \notin ExistingPaths /\ Garbage \notin ExistingPaths
  /\ ExistingPaths \subseteq Seq(DOMAIN Lower)
  /\ DefaultConfig \in Configs
  /\ \A sets \in SetFiles : IsFiniteSet(DOMAIN sets)
  /\ \A sets \in SetFiles : \A name \in DOMAIN sets :
       /\ sets[name].parse \in {"static", "dynamic", "refused", "throws"}
       /\ sets[name].parse = "dynamic" => sets[name].images # {}
       /\ Absent \notin sets[name].images
       /\ sets[name].offered # Throwing => Absent \notin sets[name].offered

VARIABLES
  commandLine,   \* the arguments
  configFile,    \* "readable", or what is wrong with it
  config,        \* its fields
  logWritable,   \* the log file can be opened
  setsFile,      \* "readable", or what is wrong with it
  sets,          \* its background sets
  pc,
  exitStatus,    \* Absent before the end; "success", "failure" or "terminated"
  asked,         \* calls of getSolarDay that search for the location
  remaining,     \* names the loop of the command has yet to come to
  found,         \* names of the sets it has taken
  incomplete,    \* names of the sets validate reports for images that do not exist
  screen,        \* the image that was set, or Absent
  setter,        \* what it was set with
  hooked         \* the image the hook script was run for, or Absent

inputs == <<commandLine, configFile, config, logWritable, setsFile, sets>>

shown == <<screen, setter, hooked>>

vars == <<inputs, pc, exitStatus, asked, remaining, found, incomplete, shown>>

Init ==
  /\ commandLine \in CommandLines
  /\ configFile \in {"readable", "missing", "default missing", "default denied", "malformed",
                    "unusable"}
  /\ config \in (IF configFile = "readable" THEN Configs ELSE {DefaultConfig})
  /\ logWritable \in BOOLEAN
  /\ setsFile \in {"readable", "missing", "malformed", "no map"}
  /\ sets \in (IF setsFile = "readable" THEN SetFiles ELSE {<<>>})
  /\ pc = "arguments" /\ exitStatus = Absent
  /\ asked = 0 /\ remaining = DOMAIN sets /\ found = {} /\ incomplete = {}
  /\ screen = Absent /\ setter = Absent /\ hooked = Absent

\* The program ends, with an exit status or by an exception nothing catches.
End(status) == pc' = "ended" /\ exitStatus' = status

GoTo(label) == pc' = label /\ UNCHANGED exitStatus

-------------------------------------------------------------------------------
(* main, up to the configuration. *)

\* An error of argparse is a failure; any other exception, no subcommand, and help
\* are not.
ParseArguments ==
  /\ pc = "arguments"
  /\ CASE commandLine.kind = "error" -> End("failure")
       [] commandLine.kind \in {"exception", "none", "help"} -> End("success")
       [] OTHER -> GoTo("config")
  /\ UNCHANGED <<inputs, asked, remaining, found, incomplete, shown>>

\* getConfigAndSetupLogging: a default configuration is made where there is none, or
\* create_directories throws.
CreateDefaultConfigFile ==
  /\ pc = "config"
  /\ IF configFile = "default denied" THEN End("terminated") ELSE GoTo("config file")
  /\ UNCHANGED <<inputs, asked, remaining, found, incomplete, shown>>

\* Mutant: the default file is not there.
LoadConfigFileOnly ==
  /\ pc = "config file"
  /\ CASE configFile \in {"missing", "default missing", "malformed"} -> End("failure")
       [] configFile = "unusable" -> End("terminated")
       [] OTHER -> GoTo("logging")
  /\ UNCHANGED <<inputs, asked, remaining, found, incomplete, shown>>

\* loadConfigFileIntoYAML.  A file that is a scalar, or has a list for a field, is found
\* out when the fields are read.
LoadConfigFile ==
  /\ pc = "config file"
  /\ CASE configFile \in {"missing", "malformed"} -> End("failure")
       [] configFile = "unusable" -> End("terminated")
       [] OTHER -> GoTo("logging")
  /\ UNCHANGED <<inputs, asked, remaining, found, incomplete, shown>>

\* spdlog throws when it cannot open the file.
SetUpLogging ==
  /\ pc = "logging"
  /\ IF logWritable THEN GoTo("dispatch") ELSE End("terminated")
  /\ UNCHANGED <<inputs, asked, remaining, found, incomplete, shown>>

\* Mutant: every command looks for the location.
FindLocationAlways == TRUE

\* The second argument of getConfigAndSetupLogging.
FindLocationOverHttp == commandLine.kind \in {"show", "info", "random", "random image"}

\* One call of config.solarDayProvider.getSolarDay().
GetSolarDay ==
  asked' = asked + IF SearchesLocation(Provider(config, FindLocationOverHttp)) THEN 1 ELSE 0

\* setBackgroundToImage or the setter script, and the hook script where it is run.
SetBackground(image) == screen' = image /\ setter' = Method(config)

RunHook(image) == hooked' = IF HookScript(config) = Absent THEN Absent ELSE image

ShowsRegularFile == commandLine.kind = "show" /\ commandLine.name \in RegularFiles

\* handleShowCommand, for a path: the hook is not run.
ShowRegularFile ==
  /\ pc = "dispatch" /\ ShowsRegularFile
  /\ SetBackground(commandLine.name)
  /\ End("success")
  /\ UNCHANGED <<inputs, asked, remaining, found, incomplete, hooked>>

\* handleCacheCommand.
ShowCacheInfo ==
  /\ pc = "dispatch" /\ commandLine.kind = "cache"
  /\ End("success")
  /\ UNCHANGED <<inputs, asked, remaining, found, incomplete, shown>>

-------------------------------------------------------------------------------
(* The background sets. *)

Loops(kind) ==
  CASE kind \in {"list", "validate"} -> "all sets"
    [] kind \in {"show", "info"} -> "named set"
    [] kind = "random" -> "random set"
    [] kind = "random image" -> "images"

\* nameAndYAMLInfoFromFile catches what cannot be parsed, and neither a file that is not
\* there, for which handleListCommand looks itself, nor one that is no map.
LoadSets ==
  /\ pc = "dispatch" /\ commandLine.kind # "cache" /\ ~ ShowsRegularFile
  /\ CASE setsFile = "missing" ->
            End(IF commandLine.kind = "list" THEN "failure" ELSE "terminated")
       [] setsFile = "malformed" -> End("failure")
       [] setsFile = "no map" -> End("terminated")
       [] OTHER -> GoTo(Loops(commandLine.kind))
  /\ IF setsFile = "readable" /\ commandLine.kind \in {"list", "validate"}
     THEN GetSolarDay ELSE UNCHANGED asked
  /\ UNCHANGED <<inputs, remaining, found, incomplete, shown>>

Parsed(name) == sets[name].parse \in {"static", "dynamic"}

\* getBackgroundSetsFromFile.
ParseNextSet(name) ==
  /\ pc = "all sets" /\ name \in remaining
  /\ remaining' = remaining \ {name}
  /\ found' = IF Parsed(name) THEN found \cup {name} ELSE found
  /\ IF sets[name].parse = "throws" THEN End("terminated") ELSE GoTo(pc)
  /\ UNCHANGED <<inputs, asked, incomplete, shown>>

\* Mutant: only static sets are looked at.
StaticWithMissingFiles ==
  {name \in found : sets[name].parse = "static" /\ ~ sets[name].images \subseteq ExistingImages}

\* getMissingFilesInBackgroundSet.
WithMissingFiles == {name \in found : ~ sets[name].images \subseteq ExistingImages}

\* handleListCommand and validateBackgroundSets print what was found; validate says "All
\* good" when no set is incomplete.
PrintSets ==
  /\ pc = "all sets" /\ remaining = {}
  /\ incomplete' = IF commandLine.kind = "validate" THEN WithMissingFiles ELSE {}
  /\ End("success")
  /\ UNCHANGED <<inputs, asked, remaining, found, shown>>

\* getBackgroundSetWithNameFromFile; info prints the set that is found.
FindNamedSet ==
  /\ pc = "named set" /\ commandLine.name \in DOMAIN sets
  /\ GetSolarDay
  /\ CASE sets[commandLine.name].parse = "throws" -> End("terminated")
       [] Parsed(commandLine.name) /\ commandLine.kind = "show" -> GoTo("show")
       [] OTHER -> End("success")
  /\ found' = IF Parsed(commandLine.name) THEN {commandLine.name} ELSE found
  /\ UNCHANGED <<inputs, remaining, incomplete, shown>>

MissNamedSet ==
  /\ pc = "named set" /\ commandLine.name \notin DOMAIN sets
  /\ End("success")
  /\ UNCHANGED <<inputs, asked, remaining, found, incomplete, shown>>

\* getRandomBackgroundSet: a shuffled order, up to the first set that can be parsed.
TryRandomSet(name) ==
  /\ pc = "random set" /\ name \in remaining
  /\ GetSolarDay
  /\ remaining' = remaining \ {name}
  /\ found' = IF Parsed(name) THEN {name} ELSE found
  /\ CASE sets[name].parse = "throws" -> End("terminated")
       [] sets[name].parse = "refused" -> GoTo(pc)
       [] OTHER -> GoTo("show")
  /\ UNCHANGED <<inputs, incomplete, shown>>

FindNoRandomSet ==
  /\ pc = "random set" /\ remaining = {}
  /\ End("success")
  /\ UNCHANGED <<inputs, asked, remaining, found, incomplete, shown>>

\* The loop of getRandomImageAndModeFromAllBackgroundSets.
CollectImages(name) ==
  /\ pc = "images" /\ name \in remaining
  /\ remaining' = remaining \ {name}
  /\ IF sets[name].offered = Throwing
     THEN End("terminated") /\ UNCHANGED found
     ELSE GoTo(pc) /\ found' = found \cup {name}
  /\ UNCHANGED <<inputs, asked, incomplete, shown>>

WallpaperOptions == UNION {sets[name].offered : name \in found}

\* showRandomImageFromAllBackgroundSets.
ShowRandomImage ==
  /\ pc = "images" /\ remaining = {}
  /\ IF WallpaperOptions = {} THEN UNCHANGED shown
     ELSE \E image \in WallpaperOptions : SetBackground(image) /\ RunHook(image)
  /\ End("success")
  /\ UNCHANGED <<inputs, asked, remaining, found, incomplete>>

-------------------------------------------------------------------------------
(* showBackgroundSet. *)

Chosen == CHOOSE name \in found : TRUE

\* Mutant: the hook is forgotten.
ShowStaticWithoutHook ==
  /\ pc = "show" /\ sets[Chosen].parse = "static"
  /\ IF sets[Chosen].images = {} THEN End("terminated") /\ UNCHANGED shown
     ELSE /\ \E image \in sets[Chosen].images : SetBackground(image)
          /\ End("success") /\ UNCHANGED hooked
  /\ UNCHANGED <<inputs, asked, remaining, found, incomplete>>

\* Mutant: the hook is run before an image is chosen.
ShowStaticHookFirst ==
  /\ pc = "show" /\ sets[Chosen].parse = "static"
  /\ IF sets[Chosen].images = {}
     THEN End("terminated") /\ RunHook("directory") /\ UNCHANGED <<screen, setter>>
     ELSE /\ \E image \in sets[Chosen].images : SetBackground(image) /\ RunHook(image)
          /\ End("success")
  /\ UNCHANGED <<inputs, asked, remaining, found, incomplete>>

\* StaticBackgroundData::show, which asserts that there are images.
ShowStatic ==
  /\ pc = "show" /\ sets[Chosen].parse = "static"
  /\ IF sets[Chosen].images = {} THEN End("terminated") /\ UNCHANGED shown
     ELSE /\ \E image \in sets[Chosen].images : SetBackground(image) /\ RunHook(image)
          /\ End("success")
  /\ UNCHANGED <<inputs, asked, remaining, found, incomplete>>

\* The loop of DynamicLoop, which never ends.
StartLoop ==
  /\ pc = "show" /\ sets[Chosen].parse = "dynamic"
  /\ GoTo("looping")
  /\ UNCHANGED <<inputs, asked, remaining, found, incomplete, shown>>

-------------------------------------------------------------------------------

Next ==
  \/ ParseArguments \/ CreateDefaultConfigFile \/ LoadConfigFile \/ SetUpLogging
  \/ ShowRegularFile \/ ShowCacheInfo \/ LoadSets
  \/ \E name \in DOMAIN sets : ParseNextSet(name) \/ TryRandomSet(name) \/ CollectImages(name)
  \/ PrintSets \/ FindNamedSet \/ MissNamedSet \/ FindNoRandomSet \/ ShowRandomImage
  \/ ShowStatic \/ StartLoop

Spec == Init /\ [][Next]_vars

-------------------------------------------------------------------------------
(* Properties. *)

\* Every variable has its type.
TypeOK ==
  /\ pc \in {"arguments", "config", "config file", "logging", "dispatch", "all sets", "named set",
            "random set", "images", "show", "looping", "ended"}
  /\ exitStatus \in {Absent, "success", "failure", "terminated"}
  /\ pc = "ended" <=> exitStatus # Absent
  /\ asked \in Nat
  /\ remaining \subseteq DOMAIN sets /\ found \subseteq DOMAIN sets
  /\ incomplete \subseteq found
  /\ pc \in {"show", "looping"} => Cardinality(found) = 1

Ended(status) == pc = "ended" /\ exitStatus = status

\* What a command that goes well does not meet.  One set that throws is enough to end a
\* command over all sets, though "Does not add BackgroundSets that errored out".
Healthy ==
  /\ commandLine.kind # "error"
  /\ configFile \in {"readable", "default missing"} /\ logWritable
  /\ setsFile = "readable"
  /\ \A name \in DOMAIN sets :
       /\ sets[name].parse # "throws" /\ sets[name].offered # Throwing
       /\ sets[name].parse = "static" => sets[name].images # {}

\* With a configuration and sets that are in order no command fails.
HealthyCommandsSucceed ==
  Healthy => ~ Ended("failure") /\ ~ Ended("terminated")

\* A command that fails has done nothing: whatever goes wrong comes before the first
\* image is set, and before its hook.
FailuresShowNothing ==
  Ended("failure") \/ Ended("terminated") => screen = Absent /\ hooked = Absent

Acceptable == {name \in DOMAIN sets : Parsed(name)}

\* list and validate print every set that can be parsed, and no other; sets that are
\* refused are passed over without a word of it in the output.
ListsTheParsedSets ==
  commandLine.kind \in {"list", "validate"} /\ Ended("success") => found = Acceptable

\* "All good": whatever set show or random may show afterwards has its images.  A set that is
\* refused is good, too.
AllGoodMeansShowable ==
  commandLine.kind = "validate" /\ Ended("success") /\ incomplete = {} =>
    \A name \in Acceptable : sets[name].images \subseteq ExistingImages

\* random shows nothing only if there is nothing to show.
RandomFindsASet ==
  Ended("success") /\ screen = Absent =>
    /\ commandLine.kind = "random" => Acceptable = {}
    /\ commandLine.kind = "random image" =>
         \A name \in DOMAIN sets : sets[name].offered = {}

\* The location service is asked at most once for each set that is tried, and never by a
\* command that shows nothing but names.
AsksOncePerSet ==
  /\ asked <= IF commandLine.kind = "random" THEN Cardinality(DOMAIN sets \ remaining) ELSE 1
  /\ commandLine.kind \in {"list", "validate", "cache", "random image"} => asked = 0

\* "a script that is run after setting the background": the hook is run for the image that
\* was set, unless it was given by its path.
HookFollowsTheImage ==
  Ended("success") /\ ~ ShowsRegularFile =>
    hooked = IF HookScript(config) = Absent THEN Absent ELSE screen

InLowerCase(path) == \A i \in DOMAIN path : Lower[path[i]] = path[i]

\* "a string path pointing to a script to use to set the background": the script that is
\* configured is used, and no file that does not exist.  A path with capitals or with ~ is the
\* exception: it is looked for as another path, and passed over for wallutils.
SetterIsAsConfigured ==
  screen # Absent =>
    /\ setter \in ExistingPaths \cup {Wallutils}
    /\ config.method \in ExistingPaths /\ InLowerCase(config.method) => setter = config.method

\* The image belongs to the set that was asked for, or to one that random may take.
ShownWasAskedFor ==
  screen # Absent =>
    \/ ShowsRegularFile /\ screen = commandLine.name
    \/ /\ commandLine.kind = "show" /\ ~ ShowsRegularFile
       /\ commandLine.name \in DOMAIN sets /\ screen \in sets[commandLine.name].images
    \/ commandLine.kind = "random" /\ \E name \in Acceptable : screen \in sets[name].images
    \/ /\ commandLine.kind = "random image"
       /\ \E name \in DOMAIN sets : screen \in sets[name].offered

===============================================================================
