---------------------------- MODULE Commands_proofs ----------------------------
(***************************************************************************)
(* Proofs about one run of the program, for every command line, every      *)
(* configuration and every file of background sets.                        *)
(***************************************************************************)
EXTENDS Commands, FiniteSetTheorems, TLAPS

-------------------------------------------------------------------------------
(* What the run is given. *)

Inputs ==
  /\ commandLine \in CommandLines
  /\ sets \in SetFiles \cup {<<>>}

\* A set of the file has one of the four outcomes, and lists images only.
LEMMA SetsOfTheFile ==
  ASSUME Inputs, NEW name \in DOMAIN sets
  PROVE  /\ sets[name].parse \in {"static", "dynamic", "refused", "throws"}
         /\ sets[name].parse = "dynamic" => sets[name].images # {}
         /\ Absent \notin sets[name].images
         /\ sets[name].offered # Throwing => Absent \notin sets[name].offered
<1>1. CASE sets \in SetFiles
  BY <1>1, CommandsAssumption
<1>2. CASE sets = <<>>
  <2>1. DOMAIN sets = {}
    BY <1>2
  <2>2. QED
    BY <2>1
<1>3. QED
  BY <1>1, <1>2 DEF Inputs

\* The inputs do not change.
LEMMA InputsNext == Inputs /\ [Next]_vars => Inputs' /\ UNCHANGED inputs
<1> SUFFICES ASSUME Inputs, [Next]_vars PROVE Inputs' /\ UNCHANGED inputs
  OBVIOUS
<1>1. CASE ParseArguments
  BY <1>1 DEF ParseArguments, End, GoTo, inputs, shown, Inputs
<1>2. CASE CreateDefaultConfigFile
  BY <1>2 DEF CreateDefaultConfigFile, End, GoTo, inputs, shown, Inputs
<1>3. CASE LoadConfigFile
  BY <1>3 DEF LoadConfigFile, End, GoTo, inputs, shown, Inputs
<1>4. CASE SetUpLogging
  BY <1>4 DEF SetUpLogging, End, GoTo, inputs, shown, Inputs
<1>5. CASE ShowRegularFile
  BY <1>5 DEF ShowRegularFile, End, GoTo, inputs, shown, Inputs
<1>6. CASE ShowCacheInfo
  BY <1>6 DEF ShowCacheInfo, End, GoTo, inputs, shown, Inputs
<1>7. CASE LoadSets
  BY <1>7 DEF LoadSets, End, GoTo, inputs, shown, Inputs
<1>8. CASE \E name \in DOMAIN sets : ParseNextSet(name)
  BY <1>8 DEF ParseNextSet, End, GoTo, inputs, shown, Inputs
<1>9. CASE \E name \in DOMAIN sets : TryRandomSet(name)
  BY <1>9 DEF TryRandomSet, End, GoTo, inputs, shown, Inputs
<1>10. CASE \E name \in DOMAIN sets : CollectImages(name)
  BY <1>10 DEF CollectImages, End, GoTo, inputs, shown, Inputs
<1>11. CASE PrintSets
  BY <1>11 DEF PrintSets, End, GoTo, inputs, shown, Inputs
<1>12. CASE FindNamedSet
  BY <1>12 DEF FindNamedSet, End, GoTo, inputs, shown, Inputs
<1>13. CASE MissNamedSet
  BY <1>13 DEF MissNamedSet, End, GoTo, inputs, shown, Inputs
<1>14. CASE FindNoRandomSet
  BY <1>14 DEF FindNoRandomSet, End, GoTo, inputs, shown, Inputs
<1>15. CASE ShowRandomImage
  BY <1>15 DEF ShowRandomImage, End, GoTo, inputs, shown, Inputs
<1>16. CASE ShowStatic
  BY <1>16 DEF ShowStatic, End, GoTo, inputs, shown, Inputs
<1>17. CASE StartLoop
  BY <1>17 DEF StartLoop, End, GoTo, inputs, shown, Inputs
<1>18. CASE UNCHANGED vars
  BY <1>18 DEF vars, inputs, shown, Inputs
<1>19. QED
  BY <1>1, <1>2, <1>3, <1>4, <1>5, <1>6, <1>7, <1>8, <1>9,
     <1>10, <1>11, <1>12, <1>13, <1>14, <1>15, <1>16, <1>17, <1>18 DEF Next

-------------------------------------------------------------------------------
(* The inductive invariant. *)

Early == {"arguments", "config", "config file", "logging", "dispatch"}

Labels == Early \cup {"all sets", "named set", "random set", "images", "show", "looping", "ended"}

\* Where the program is tells which command it runs.
Control ==
  /\ pc \in Labels
  /\ exitStatus \in {Absent, "success", "failure", "terminated"}
  /\ pc = "ended" <=> exitStatus # Absent
  /\ pc \in Early \ {"arguments"} => commandLine.kind \notin {"error", "exception", "none", "help"}
  /\ pc = "all sets" => commandLine.kind \in {"list", "validate"}
  /\ pc = "named set" => commandLine.kind \in {"show", "info"}
  /\ pc = "random set" => commandLine.kind = "random"
  /\ pc = "images" => commandLine.kind = "random image"
  /\ pc \in {"show", "looping"} => commandLine.kind \in {"show", "random"}
  /\ pc \in {"all sets", "named set", "random set", "images", "show", "looping"} =>
       ~ ShowsRegularFile

\* What has been found is what the command has come by.
Collected ==
  /\ pc \in Early => found = {} /\ remaining = DOMAIN sets
  /\ pc = "all sets" => found = {name \in DOMAIN sets \ remaining : Parsed(name)}
  /\ pc = "named set" => found = {}
  /\ pc = "random set" => found = {} /\ \A name \in DOMAIN sets \ remaining : ~ Parsed(name)
  /\ pc = "images" =>
       /\ found = DOMAIN sets \ remaining
       /\ \A name \in found : sets[name].offered # Throwing
  /\ pc \in {"show", "looping"} =>
       \E name \in DOMAIN sets :
         /\ found = {name} /\ Parsed(name)
         /\ commandLine.kind = "show" => name = commandLine.name

\* Nothing is shown before the end.
Quiet == pc # "ended" => screen = Absent /\ hooked = Absent

Inv == Inputs /\ Control /\ Collected /\ Quiet

\* The invariant holds before the arguments are read.
LEMMA InvInit == Init => Inv
<1> SUFFICES ASSUME Init PROVE Inv
  OBVIOUS
<1>1. Inputs
  BY DEF Init, Inputs
<1>2. Absent \notin {"success", "failure", "terminated"}
  BY CommandsAssumption
<1>3. Control /\ Collected /\ Quiet
  BY <1>2 DEF Init, Control, Collected, Quiet, Early, Labels
<1>4. QED
  BY <1>1, <1>3 DEF Inv

\* A command goes from label to label along its own way.
LEMMA ControlNext == Inputs /\ Control /\ Collected /\ [Next]_vars => Control'
<1> SUFFICES ASSUME Inputs, Control, Collected, [Next]_vars PROVE Control'
  OBVIOUS
<1>k. commandLine.kind \in Kinds /\ Absent \notin {"success", "failure", "terminated"}
  BY CommandsAssumption DEF Inputs
<1>s. ShowsRegularFile' <=> ShowsRegularFile
  BY InputsNext DEF inputs, ShowsRegularFile
<1>1. CASE ParseArguments
  BY <1>1, <1>k, <1>s DEF ParseArguments, Kinds, End, GoTo, inputs, shown, Control, Early, Labels
<1>2. CASE CreateDefaultConfigFile
  BY <1>2, <1>k, <1>s DEF CreateDefaultConfigFile, End, GoTo, inputs, shown, Control, Early, Labels
<1>3. CASE LoadConfigFile
  BY <1>3, <1>k, <1>s DEF LoadConfigFile, End, GoTo, inputs, shown, Control, Early, Labels
<1>4. CASE SetUpLogging
  BY <1>4, <1>k, <1>s DEF SetUpLogging, End, GoTo, inputs, shown, Control, Early, Labels
<1>5. CASE ShowRegularFile
  BY <1>5, <1>k, <1>s DEF ShowRegularFile, Kinds, End, GoTo, inputs, shown, Control, Early, Labels
<1>6. CASE ShowCacheInfo
  BY <1>6, <1>k, <1>s DEF ShowCacheInfo, End, GoTo, inputs, shown, Control, Early, Labels
<1>7. CASE LoadSets
  BY <1>7, <1>k, <1>s DEF LoadSets, Loops, Kinds, End, GoTo, inputs, shown, Control, Early, Labels
<1>8. CASE \E name \in DOMAIN sets : ParseNextSet(name)
  BY <1>8, <1>k, <1>s DEF ParseNextSet, End, GoTo, inputs, shown, Control, Early, Labels
<1>9. CASE \E name \in DOMAIN sets : TryRandomSet(name)
  BY <1>9, <1>k, <1>s DEF TryRandomSet, End, GoTo, inputs, shown, Control, Early, Labels
<1>10. CASE \E name \in DOMAIN sets : CollectImages(name)
  BY <1>10, <1>k, <1>s DEF CollectImages, End, GoTo, inputs, shown, Control, Early, Labels
<1>11. CASE PrintSets
  BY <1>11, <1>k, <1>s DEF PrintSets, End, GoTo, inputs, shown, Control, Early, Labels
<1>12. CASE FindNamedSet
  BY <1>12, <1>k, <1>s DEF FindNamedSet, End, GoTo, inputs, shown, Control, Early, Labels
<1>13. CASE MissNamedSet
  BY <1>13, <1>k, <1>s DEF MissNamedSet, End, GoTo, inputs, shown, Control, Early, Labels
<1>14. CASE FindNoRandomSet
  BY <1>14, <1>k, <1>s DEF FindNoRandomSet, End, GoTo, inputs, shown, Control, Early, Labels
<1>15. CASE ShowRandomImage
  BY <1>15, <1>k, <1>s DEF ShowRandomImage, End, GoTo, inputs, shown, Control, Early, Labels
<1>16. CASE ShowStatic
  BY <1>16, <1>k, <1>s DEF ShowStatic, End, GoTo, inputs, shown, Control, Early, Labels
<1>17. CASE StartLoop
  BY <1>17, <1>k, <1>s DEF StartLoop, End, GoTo, inputs, shown, Control, Early, Labels
<1>18. CASE UNCHANGED vars
  BY <1>18, <1>s DEF vars, inputs, shown, Control, Early, Labels
<1>19. QED
  BY <1>1, <1>2, <1>3, <1>4, <1>5, <1>6, <1>7, <1>8, <1>9,
     <1>10, <1>11, <1>12, <1>13, <1>14, <1>15, <1>16, <1>17, <1>18 DEF Next

\* Every label has found what it stands for.
LEMMA CollectedNext == Inputs /\ Control /\ Collected /\ [Next]_vars => Collected'
<1> SUFFICES ASSUME Inputs, Control, Collected, [Next]_vars PROVE Collected'
  OBVIOUS
<1>k. commandLine.kind \in Kinds
  BY CommandsAssumption DEF Inputs
<1>p. \A name : Parsed(name)' <=> Parsed(name)
  BY InputsNext DEF inputs, Parsed
<1>1. CASE ParseArguments
  BY <1>1, <1>p DEF ParseArguments, End, GoTo, inputs, shown, Control, Collected, Early, Labels
<1>2. CASE CreateDefaultConfigFile
  BY <1>2, <1>p DEF CreateDefaultConfigFile, End, GoTo, inputs, shown, Control, Collected, Early, Labels
<1>3. CASE LoadConfigFile
  BY <1>3, <1>p DEF LoadConfigFile, End, GoTo, inputs, shown, Control, Collected, Early, Labels
<1>4. CASE SetUpLogging
  BY <1>4, <1>p DEF SetUpLogging, End, GoTo, inputs, shown, Control, Collected, Early, Labels
<1>5. CASE ShowRegularFile
  BY <1>5, <1>p DEF ShowRegularFile, End, GoTo, inputs, shown, Control, Collected, Early, Labels
<1>6. CASE ShowCacheInfo
  BY <1>6, <1>p DEF ShowCacheInfo, End, GoTo, inputs, shown, Control, Collected, Early, Labels
<1>7. CASE LoadSets
  <2>1. /\ pc = "dispatch" /\ found' = found /\ remaining' = remaining /\ sets' = sets
        /\ commandLine' = commandLine
    BY <1>7 DEF LoadSets, inputs
  <2>2. pc' \in {"ended", "all sets", "named set", "random set", "images"}
    BY <1>7, <1>k DEF LoadSets, Loops, Kinds, End, GoTo, Control, Early
  <2>3. found = {} /\ remaining = DOMAIN sets
    BY <2>1 DEF Collected, Early
  <2>4. QED
    BY <2>1, <2>2, <2>3 DEF Collected, Early
<1>8. CASE \E name \in DOMAIN sets : ParseNextSet(name)
  <2>1. PICK name \in DOMAIN sets : ParseNextSet(name)
    BY <1>8
  <2>2. /\ pc = "all sets" /\ sets' = sets /\ name \in remaining
        /\ remaining' = remaining \ {name}
        /\ found' = IF Parsed(name) THEN found \cup {name} ELSE found
        /\ pc' \in {"all sets", "ended"}
    BY <2>1 DEF ParseNextSet, inputs, End, GoTo
  <2>3. found = {other \in DOMAIN sets \ remaining : Parsed(other)}
    BY <2>2 DEF Collected
  <2>4. found' = {other \in DOMAIN sets \ remaining' : Parsed(other)}
    BY <2>2, <2>3
  <2>5. {other \in DOMAIN sets \ remaining : Parsed(other)}'
           = {other \in DOMAIN sets \ remaining' : Parsed(other)}
    BY <2>2, <1>p
  <2>6. QED
    BY <2>2, <2>4, <2>5 DEF Collected, Early
<1>9. CASE \E name \in DOMAIN sets : TryRandomSet(name)
  <2>1. PICK name \in DOMAIN sets : TryRandomSet(name)
    BY <1>9
  <2>2. /\ pc = "random set" /\ sets' = sets /\ commandLine' = commandLine
        /\ remaining' = remaining \ {name}
        /\ found' = IF Parsed(name) THEN {name} ELSE found
    BY <2>1 DEF TryRandomSet, inputs
  <2>3. /\ sets[name].parse = "refused" => pc' = "random set"
        /\ sets[name].parse = "throws" => pc' = "ended"
        /\ sets[name].parse \notin {"refused", "throws"} => pc' = "show"
    BY <2>1 DEF TryRandomSet, End, GoTo
  <2>4. /\ found = {} /\ commandLine.kind = "random"
        /\ \A other \in DOMAIN sets \ remaining : ~ Parsed(other)
    BY <2>2 DEF Collected, Control
  <2>5. CASE sets[name].parse = "refused"
    <3>1. ~ Parsed(name)
      BY <2>5 DEF Parsed
    <3>2. \A other \in DOMAIN sets' \ remaining' : ~ Parsed(other)'
      BY <3>1, <2>2, <2>4, <1>p
    <3>3. QED
      BY <3>1, <3>2, <2>2, <2>3, <2>4, <2>5 DEF Collected, Early
  <2>6. CASE sets[name].parse = "throws"
    BY <2>3, <2>6 DEF Collected, Early
  <2>7. CASE sets[name].parse \in {"static", "dynamic"}
    <3>1. Parsed(name)
      BY <2>7 DEF Parsed
    <3>2. found' = {name} /\ name \in DOMAIN sets' /\ Parsed(name)' /\ pc' = "show"
      BY <3>1, <2>2, <2>3, <2>7, <1>p
    <3>3. QED
      BY <3>2, <2>2, <2>4 DEF Collected, Early
  <2>8. QED
    BY <2>5, <2>6, <2>7, SetsOfTheFile
<1>10. CASE \E name \in DOMAIN sets : CollectImages(name)
  BY <1>10, <1>p DEF CollectImages, End, GoTo, inputs, shown, Control, Collected, Early, Labels
<1>11. CASE PrintSets
  BY <1>11, <1>p DEF PrintSets, End, GoTo, inputs, shown, Control, Collected, Early, Labels
<1>12. CASE FindNamedSet
  BY <1>12, <1>p DEF FindNamedSet, End, GoTo, inputs, shown, Control, Collected, Early, Labels
<1>13. CASE MissNamedSet
  BY <1>13, <1>p DEF MissNamedSet, End, GoTo, inputs, shown, Control, Collected, Early, Labels
<1>14. CASE FindNoRandomSet
  BY <1>14, <1>p DEF FindNoRandomSet, End, GoTo, inputs, shown, Control, Collected, Early, Labels
<1>15. CASE ShowRandomImage
  BY <1>15, <1>p DEF ShowRandomImage, End, GoTo, inputs, shown, Control, Collected, Early, Labels
<1>16. CASE ShowStatic
  BY <1>16, <1>p DEF ShowStatic, End, GoTo, inputs, shown, Control, Collected, Early, Labels
<1>17. CASE StartLoop
  BY <1>17, <1>p DEF StartLoop, End, GoTo, inputs, shown, Control, Collected, Early, Labels
<1>18. CASE UNCHANGED vars
  BY <1>18, <1>p DEF vars, inputs, shown, Collected, Early, Labels
<1>19. QED
  BY <1>1, <1>2, <1>3, <1>4, <1>5, <1>6, <1>7, <1>8, <1>9,
     <1>10, <1>11, <1>12, <1>13, <1>14, <1>15, <1>16, <1>17, <1>18 DEF Next

\* An image is set in the last step only.
LEMMA QuietNext == Quiet /\ [Next]_vars => Quiet'
<1> SUFFICES ASSUME Quiet, [Next]_vars PROVE Quiet'
  OBVIOUS
<1>1. CASE ParseArguments
  BY <1>1 DEF ParseArguments, End, GoTo, inputs, shown, Quiet
<1>2. CASE CreateDefaultConfigFile
  BY <1>2 DEF CreateDefaultConfigFile, End, GoTo, inputs, shown, Quiet
<1>3. CASE LoadConfigFile
  BY <1>3 DEF LoadConfigFile, End, GoTo, inputs, shown, Quiet
<1>4. CASE SetUpLogging
  BY <1>4 DEF SetUpLogging, End, GoTo, inputs, shown, Quiet
<1>5. CASE ShowRegularFile
  BY <1>5 DEF ShowRegularFile, End, GoTo, inputs, shown, Quiet
<1>6. CASE ShowCacheInfo
  BY <1>6 DEF ShowCacheInfo, End, GoTo, inputs, shown, Quiet
<1>7. CASE LoadSets
  BY <1>7 DEF LoadSets, End, GoTo, inputs, shown, Quiet
<1>8. CASE \E name \in DOMAIN sets : ParseNextSet(name)
  BY <1>8 DEF ParseNextSet, End, GoTo, inputs, shown, Quiet
<1>9. CASE \E name \in DOMAIN sets : TryRandomSet(name)
  BY <1>9 DEF TryRandomSet, End, GoTo, inputs, shown, Quiet
<1>10. CASE \E name \in DOMAIN sets : CollectImages(name)
  BY <1>10 DEF CollectImages, End, GoTo, inputs, shown, Quiet
<1>11. CASE PrintSets
  BY <1>11 DEF PrintSets, End, GoTo, inputs, shown, Quiet
<1>12. CASE FindNamedSet
  BY <1>12 DEF FindNamedSet, End, GoTo, inputs, shown, Quiet
<1>13. CASE MissNamedSet
  BY <1>13 DEF MissNamedSet, End, GoTo, inputs, shown, Quiet
<1>14. CASE FindNoRandomSet
  BY <1>14 DEF FindNoRandomSet, End, GoTo, inputs, shown, Quiet
<1>15. CASE ShowRandomImage
  BY <1>15 DEF ShowRandomImage, End, GoTo, inputs, shown, Quiet
<1>16. CASE ShowStatic
  BY <1>16 DEF ShowStatic, End, GoTo, inputs, shown, Quiet
<1>17. CASE StartLoop
  BY <1>17 DEF StartLoop, End, GoTo, inputs, shown, Quiet
<1>18. CASE UNCHANGED vars
  BY <1>18 DEF vars, inputs, shown, Quiet
<1>19. QED
  BY <1>1, <1>2, <1>3, <1>4, <1>5, <1>6, <1>7, <1>8, <1>9,
     <1>10, <1>11, <1>12, <1>13, <1>14, <1>15, <1>16, <1>17, <1>18 DEF Next

\* The whole is inductive.
LEMMA InvNext == Inv /\ [Next]_vars => Inv'
BY InputsNext, ControlNext, CollectedNext, QuietNext DEF Inv

\* What is defined by the inputs alone does not change.
LEMMA InputsStay ==
  ASSUME UNCHANGED inputs
  PROVE  /\ ShowsRegularFile' <=> ShowsRegularFile
         /\ Healthy' <=> Healthy
         /\ Acceptable' = Acceptable
         /\ HookScript(config)' = HookScript(config)
         /\ \A name : Parsed(name)' <=> Parsed(name)
<1>1. /\ commandLine' = commandLine /\ configFile' = configFile /\ config' = config
      /\ logWritable' = logWritable /\ setsFile' = setsFile /\ sets' = sets
  BY DEF inputs
<1>2. \A name : Parsed(name)' <=> Parsed(name)
  BY <1>1 DEF Parsed
<1>3. Acceptable' = Acceptable
  BY <1>1 DEF Acceptable, Parsed
<1>4. Healthy' <=> Healthy
  BY <1>1 DEF Healthy
<1>5. HookScript(config)' = HookScript(config)
  BY <1>1 DEF HookScript, ParseOptional, ExpandPath
<1>6. QED
  BY <1>1, <1>2, <1>3, <1>4, <1>5 DEF ShowsRegularFile

\* Behind the end nothing happens.
LEMMA EndIsTheEnd == pc = "ended" /\ [Next]_vars => UNCHANGED vars
<1> SUFFICES ASSUME pc = "ended", [Next]_vars PROVE UNCHANGED vars
  OBVIOUS
<1>1. CASE ParseArguments
  BY <1>1 DEF ParseArguments, End, GoTo, inputs, shown
<1>2. CASE CreateDefaultConfigFile
  BY <1>2 DEF CreateDefaultConfigFile, End, GoTo, inputs, shown
<1>3. CASE LoadConfigFile
  BY <1>3 DEF LoadConfigFile, End, GoTo, inputs, shown
<1>4. CASE SetUpLogging
  BY <1>4 DEF SetUpLogging, End, GoTo, inputs, shown
<1>5. CASE ShowRegularFile
  BY <1>5 DEF ShowRegularFile, End, GoTo, inputs, shown
<1>6. CASE ShowCacheInfo
  BY <1>6 DEF ShowCacheInfo, End, GoTo, inputs, shown
<1>7. CASE LoadSets
  BY <1>7 DEF LoadSets, End, GoTo, inputs, shown
<1>8. CASE \E name \in DOMAIN sets : ParseNextSet(name)
  BY <1>8 DEF ParseNextSet, End, GoTo, inputs, shown
<1>9. CASE \E name \in DOMAIN sets : TryRandomSet(name)
  BY <1>9 DEF TryRandomSet, End, GoTo, inputs, shown
<1>10. CASE \E name \in DOMAIN sets : CollectImages(name)
  BY <1>10 DEF CollectImages, End, GoTo, inputs, shown
<1>11. CASE PrintSets
  BY <1>11 DEF PrintSets, End, GoTo, inputs, shown
<1>12. CASE FindNamedSet
  BY <1>12 DEF FindNamedSet, End, GoTo, inputs, shown
<1>13. CASE MissNamedSet
  BY <1>13 DEF MissNamedSet, End, GoTo, inputs, shown
<1>14. CASE FindNoRandomSet
  BY <1>14 DEF FindNoRandomSet, End, GoTo, inputs, shown
<1>15. CASE ShowRandomImage
  BY <1>15 DEF ShowRandomImage, End, GoTo, inputs, shown
<1>16. CASE ShowStatic
  BY <1>16 DEF ShowStatic, End, GoTo, inputs, shown
<1>17. CASE StartLoop
  BY <1>17 DEF StartLoop, End, GoTo, inputs, shown
<1>18. CASE UNCHANGED vars
  BY <1>18 DEF vars, inputs, shown
<1>19. QED
  BY <1>1, <1>2, <1>3, <1>4, <1>5, <1>6, <1>7, <1>8, <1>9,
     <1>10, <1>11, <1>12, <1>13, <1>14, <1>15, <1>16, <1>17, <1>18 DEF Next

-------------------------------------------------------------------------------
(* The types. *)

\* At most one set is shown.
LEMMA OneIsFound ==
  ASSUME Collected, pc \in {"show", "looping"}
  PROVE  Cardinality(found) = 1
BY FS_Singleton DEF Collected

\* Counts and the sets of names keep their types.
Types ==
  /\ asked \in Nat
  /\ remaining \subseteq DOMAIN sets /\ found \subseteq DOMAIN sets
  /\ incomplete \subseteq found
  /\ pc \in Early \cup {"all sets", "named set", "random set", "images"} => incomplete = {}

\* The calls of getSolarDay are counted.
LEMMA AskedGrows ==
  ASSUME asked \in Nat, GetSolarDay
  PROVE  asked' \in Nat
BY DEF GetSolarDay

\* Every step preserves them.
LEMMA TypesNext == Inv /\ Types /\ [Next]_vars => Types'
<1> SUFFICES ASSUME Inv, Types, [Next]_vars PROVE Types'
  OBVIOUS
<1>1. CASE ParseArguments
  BY <1>1 DEF ParseArguments, End, GoTo, inputs, shown, Types, Early
<1>2. CASE CreateDefaultConfigFile
  BY <1>2 DEF CreateDefaultConfigFile, End, GoTo, inputs, shown, Types, Early
<1>3. CASE LoadConfigFile
  BY <1>3 DEF LoadConfigFile, End, GoTo, inputs, shown, Types, Early
<1>4. CASE SetUpLogging
  BY <1>4 DEF SetUpLogging, End, GoTo, inputs, shown, Types, Early
<1>5. CASE ShowRegularFile
  BY <1>5 DEF ShowRegularFile, End, GoTo, inputs, shown, Types, Early
<1>6. CASE ShowCacheInfo
  BY <1>6 DEF ShowCacheInfo, End, GoTo, inputs, shown, Types, Early
<1>7. CASE LoadSets
  <2>1. /\ pc = "dispatch" /\ sets' = sets /\ remaining' = remaining /\ found' = found
        /\ incomplete' = incomplete /\ (GetSolarDay \/ asked' = asked)
    BY <1>7 DEF LoadSets, inputs
  <2>2. asked' \in Nat
    BY <2>1, AskedGrows DEF Types
  <2>3. QED
    BY <2>1, <2>2 DEF Types, Early
<1>8. CASE \E name \in DOMAIN sets : ParseNextSet(name)
  BY <1>8 DEF ParseNextSet, End, GoTo, inputs, shown, Types, Early
<1>9. CASE \E name \in DOMAIN sets : TryRandomSet(name)
  <2>1. PICK name \in DOMAIN sets : TryRandomSet(name)
    BY <1>9
  <2>2. /\ pc = "random set" /\ sets' = sets /\ remaining' = remaining \ {name}
        /\ found' = (IF Parsed(name) THEN {name} ELSE found)
        /\ incomplete' = incomplete /\ GetSolarDay
    BY <2>1 DEF TryRandomSet, inputs
  <2>3. asked' \in Nat /\ incomplete = {}
    BY <2>2, AskedGrows DEF Types
  <2>4. QED
    BY <2>2, <2>3 DEF Types
<1>10. CASE \E name \in DOMAIN sets : CollectImages(name)
  BY <1>10 DEF CollectImages, End, GoTo, inputs, shown, Types, Early
<1>11. CASE PrintSets
  BY <1>11 DEF PrintSets, WithMissingFiles, End, GoTo, inputs, shown, Types, Early
<1>12. CASE FindNamedSet
  <2>1. /\ pc = "named set" /\ sets' = sets /\ remaining' = remaining
        /\ commandLine.name \in DOMAIN sets
        /\ found' = (IF Parsed(commandLine.name) THEN {commandLine.name} ELSE found)
        /\ incomplete' = incomplete /\ GetSolarDay
    BY <1>12 DEF FindNamedSet, inputs
  <2>2. asked' \in Nat /\ incomplete = {}
    BY <2>1, AskedGrows DEF Types
  <2>3. QED
    BY <2>1, <2>2 DEF Types
<1>13. CASE MissNamedSet
  BY <1>13 DEF MissNamedSet, End, GoTo, inputs, shown, Types, Early
<1>14. CASE FindNoRandomSet
  BY <1>14 DEF FindNoRandomSet, End, GoTo, inputs, shown, Types, Early
<1>15. CASE ShowRandomImage
  BY <1>15 DEF ShowRandomImage, End, GoTo, inputs, shown, Types, Early
<1>16. CASE ShowStatic
  BY <1>16 DEF ShowStatic, End, GoTo, inputs, shown, Types, Early
<1>17. CASE StartLoop
  BY <1>17 DEF StartLoop, End, GoTo, inputs, shown, Types, Early
<1>18. CASE UNCHANGED vars
  BY <1>18 DEF vars, inputs, shown, Types, Early
<1>19. QED
  BY <1>1, <1>2, <1>3, <1>4, <1>5, <1>6, <1>7, <1>8, <1>9,
     <1>10, <1>11, <1>12, <1>13, <1>14, <1>15, <1>16, <1>17, <1>18 DEF Next

-------------------------------------------------------------------------------
(* What holds at the end. *)

\* The set that is shown.
LEMMA ChosenIsFound ==
  ASSUME Collected, pc = "show"
  PROVE  /\ Chosen \in DOMAIN sets /\ found = {Chosen} /\ Parsed(Chosen)
         /\ commandLine.kind = "show" => Chosen = commandLine.name
<1>1. PICK name \in DOMAIN sets :
        /\ found = {name} /\ Parsed(name)
        /\ commandLine.kind = "show" => name = commandLine.name
  BY DEF Collected
<1>2. Chosen = name
  BY <1>1 DEF Chosen
<1>3. QED
  BY <1>1, <1>2

\* The sets cannot be read, or the command goes on to them.
LEMMA LoadSetsEnds ==
  ASSUME Inputs, Control, LoadSets
  PROVE  /\ ~ Ended("success")'
         /\ setsFile = "readable" => ~ Ended("failure")' /\ ~ Ended("terminated")'
<1>1. Absent \notin {"success", "failure", "terminated"}
  BY CommandsAssumption
<1>2. exitStatus = Absent
  BY DEF LoadSets, Control
<1>3. QED
  BY <1>1, <1>2 DEF LoadSets, End, GoTo, Ended

\* A failure comes with nothing shown.
LEMMA FailuresShowNothingNext == Inv /\ FailuresShowNothing /\ [Next]_vars => FailuresShowNothing'
<1> SUFFICES ASSUME Inv, FailuresShowNothing, [Next]_vars PROVE FailuresShowNothing'
  OBVIOUS
<1>i. Inputs /\ Control /\ Collected /\ Quiet
  BY DEF Inv
<1>s. /\ ShowsRegularFile' <=> ShowsRegularFile
      /\ Healthy' <=> Healthy
      /\ Acceptable' = Acceptable
      /\ HookScript(config)' = HookScript(config)
      /\ UNCHANGED inputs
  BY <1>i, InputsNext, InputsStay
<1>1. CASE ParseArguments
  BY <1>1, <1>i, <1>s DEF ParseArguments, End, GoTo, inputs, shown, Quiet, FailuresShowNothing, Ended
<1>2. CASE CreateDefaultConfigFile
  BY <1>2, <1>i, <1>s DEF CreateDefaultConfigFile, End, GoTo, inputs, shown, Quiet, FailuresShowNothing, Ended
<1>3. CASE LoadConfigFile
  BY <1>3, <1>i, <1>s DEF LoadConfigFile, End, GoTo, inputs, shown, Quiet, FailuresShowNothing, Ended
<1>4. CASE SetUpLogging
  BY <1>4, <1>i, <1>s DEF SetUpLogging, End, GoTo, inputs, shown, Quiet, FailuresShowNothing, Ended
<1>5. CASE ShowRegularFile
  BY <1>5, <1>i, <1>s DEF ShowRegularFile, End, GoTo, inputs, shown, Quiet, FailuresShowNothing, Ended
<1>6. CASE ShowCacheInfo
  BY <1>6, <1>i, <1>s DEF ShowCacheInfo, End, GoTo, inputs, shown, Quiet, FailuresShowNothing, Ended
<1>7. CASE LoadSets
  BY <1>7, <1>i, <1>s DEF LoadSets, End, GoTo, inputs, shown, Quiet, FailuresShowNothing, Ended
<1>8. CASE \E name \in DOMAIN sets : ParseNextSet(name)
  BY <1>8, <1>i, <1>s DEF ParseNextSet, End, GoTo, inputs, shown, Quiet, FailuresShowNothing, Ended
<1>9. CASE \E name \in DOMAIN sets : TryRandomSet(name)
  BY <1>9, <1>i, <1>s DEF TryRandomSet, End, GoTo, inputs, shown, Quiet, FailuresShowNothing, Ended
<1>10. CASE \E name \in DOMAIN sets : CollectImages(name)
  BY <1>10, <1>i, <1>s DEF CollectImages, End, GoTo, inputs, shown, Quiet, FailuresShowNothing, Ended
<1>11. CASE PrintSets
  BY <1>11, <1>i, <1>s DEF PrintSets, End, GoTo, inputs, shown, Quiet, FailuresShowNothing, Ended
<1>12. CASE FindNamedSet
  BY <1>12, <1>i, <1>s DEF FindNamedSet, End, GoTo, inputs, shown, Quiet, FailuresShowNothing, Ended
<1>13. CASE MissNamedSet
  BY <1>13, <1>i, <1>s DEF MissNamedSet, End, GoTo, inputs, shown, Quiet, FailuresShowNothing, Ended
<1>14. CASE FindNoRandomSet
  BY <1>14, <1>i, <1>s DEF FindNoRandomSet, End, GoTo, inputs, shown, Quiet, FailuresShowNothing, Ended
<1>15. CASE ShowRandomImage
  BY <1>15, <1>i, <1>s DEF ShowRandomImage, End, GoTo, inputs, shown, Quiet, FailuresShowNothing, Ended
<1>16. CASE ShowStatic
  BY <1>16, <1>i, <1>s DEF ShowStatic, End, GoTo, inputs, shown, Quiet, FailuresShowNothing, Ended
<1>17. CASE StartLoop
  BY <1>17, <1>i, <1>s DEF StartLoop, End, GoTo, inputs, shown, Quiet, FailuresShowNothing, Ended
<1>18. CASE UNCHANGED vars
  BY <1>18, <1>s DEF vars, inputs, shown, FailuresShowNothing, Ended
<1>19. QED
  BY <1>1, <1>2, <1>3, <1>4, <1>5, <1>6, <1>7, <1>8, <1>9,
     <1>10, <1>11, <1>12, <1>13, <1>14, <1>15, <1>16, <1>17, <1>18 DEF Next

\* The step that sets an image runs the hook for it, or there is none.
LEMMA HookFollowsNext == Inv /\ HookFollowsTheImage /\ [Next]_vars => HookFollowsTheImage'
<1> SUFFICES ASSUME Inv, HookFollowsTheImage, [Next]_vars PROVE HookFollowsTheImage'
  OBVIOUS
<1>i. Inputs /\ Control /\ Collected /\ Quiet
  BY DEF Inv
<1>s. /\ ShowsRegularFile' <=> ShowsRegularFile
      /\ Healthy' <=> Healthy
      /\ Acceptable' = Acceptable
      /\ HookScript(config)' = HookScript(config)
      /\ UNCHANGED inputs
  BY <1>i, InputsNext, InputsStay
<1>1. CASE ParseArguments
  BY <1>1, <1>i, <1>s DEF ParseArguments, End, GoTo, inputs, shown, Quiet, HookFollowsTheImage, Ended
<1>2. CASE CreateDefaultConfigFile
  BY <1>2, <1>i, <1>s DEF CreateDefaultConfigFile, End, GoTo, inputs, shown, Quiet, HookFollowsTheImage, Ended
<1>3. CASE LoadConfigFile
  BY <1>3, <1>i, <1>s DEF LoadConfigFile, End, GoTo, inputs, shown, Quiet, HookFollowsTheImage, Ended
<1>4. CASE SetUpLogging
  BY <1>4, <1>i, <1>s DEF SetUpLogging, End, GoTo, inputs, shown, Quiet, HookFollowsTheImage, Ended
<1>5. CASE ShowRegularFile
  BY <1>5, <1>i, <1>s DEF ShowRegularFile, End, GoTo, inputs, shown, Quiet, HookFollowsTheImage, Ended
<1>6. CASE ShowCacheInfo
  BY <1>6, <1>i, <1>s DEF ShowCacheInfo, End, GoTo, inputs, shown, Quiet, HookFollowsTheImage, Ended
<1>7. CASE LoadSets
  BY <1>7, <1>i, <1>s DEF LoadSets, End, GoTo, inputs, shown, Quiet, HookFollowsTheImage, Ended
<1>8. CASE \E name \in DOMAIN sets : ParseNextSet(name)
  BY <1>8, <1>i, <1>s DEF ParseNextSet, End, GoTo, inputs, shown, Quiet, HookFollowsTheImage, Ended
<1>9. CASE \E name \in DOMAIN sets : TryRandomSet(name)
  BY <1>9, <1>i, <1>s DEF TryRandomSet, End, GoTo, inputs, shown, Quiet, HookFollowsTheImage, Ended
<1>10. CASE \E name \in DOMAIN sets : CollectImages(name)
  BY <1>10, <1>i, <1>s DEF CollectImages, End, GoTo, inputs, shown, Quiet, HookFollowsTheImage, Ended
<1>11. CASE PrintSets
  BY <1>11, <1>i, <1>s DEF PrintSets, End, GoTo, inputs, shown, Quiet, HookFollowsTheImage, Ended
<1>12. CASE FindNamedSet
  BY <1>12, <1>i, <1>s DEF FindNamedSet, End, GoTo, inputs, shown, Quiet, HookFollowsTheImage, Ended
<1>13. CASE MissNamedSet
  BY <1>13, <1>i, <1>s DEF MissNamedSet, End, GoTo, inputs, shown, Quiet, HookFollowsTheImage, Ended
<1>14. CASE FindNoRandomSet
  BY <1>14, <1>i, <1>s DEF FindNoRandomSet, End, GoTo, inputs, shown, Quiet, HookFollowsTheImage, Ended
<1>15. CASE ShowRandomImage
  BY <1>15, <1>i, <1>s DEF ShowRandomImage, SetBackground, RunHook, End, GoTo, inputs, shown, Quiet, HookFollowsTheImage, Ended
<1>16. CASE ShowStatic
  BY <1>16, <1>i, <1>s DEF ShowStatic, SetBackground, RunHook, End, GoTo, inputs, shown, Quiet, HookFollowsTheImage, Ended
<1>17. CASE StartLoop
  BY <1>17, <1>i, <1>s DEF StartLoop, End, GoTo, inputs, shown, Quiet, HookFollowsTheImage, Ended
<1>18. CASE UNCHANGED vars
  BY <1>18, <1>s DEF vars, inputs, shown, HookFollowsTheImage, Ended
<1>19. QED
  BY <1>1, <1>2, <1>3, <1>4, <1>5, <1>6, <1>7, <1>8, <1>9,
     <1>10, <1>11, <1>12, <1>13, <1>14, <1>15, <1>16, <1>17, <1>18 DEF Next

\* A command in order has no step that fails.
LEMMA HealthyNext == Inv /\ HealthyCommandsSucceed /\ [Next]_vars => HealthyCommandsSucceed'
<1> SUFFICES ASSUME Inv, HealthyCommandsSucceed, [Next]_vars PROVE HealthyCommandsSucceed'
  OBVIOUS
<1>i. Inputs /\ Control /\ Collected /\ Quiet
  BY DEF Inv
<1>s. /\ ShowsRegularFile' <=> ShowsRegularFile
      /\ Healthy' <=> Healthy
      /\ Acceptable' = Acceptable
      /\ HookScript(config)' = HookScript(config)
      /\ UNCHANGED inputs
  BY <1>i, InputsNext, InputsStay
<1>1. CASE ParseArguments
  BY <1>1, <1>i, <1>s DEF ParseArguments, Healthy, End, GoTo, inputs, shown, HealthyCommandsSucceed, Ended
<1>2. CASE CreateDefaultConfigFile
  BY <1>2, <1>i, <1>s DEF CreateDefaultConfigFile, Healthy, End, GoTo, inputs, shown, HealthyCommandsSucceed, Ended
<1>3. CASE LoadConfigFile
  BY <1>3, <1>i, <1>s DEF LoadConfigFile, Healthy, End, GoTo, inputs, shown, HealthyCommandsSucceed, Ended
<1>4. CASE SetUpLogging
  BY <1>4, <1>i, <1>s DEF SetUpLogging, Healthy, End, GoTo, inputs, shown, HealthyCommandsSucceed, Ended
<1>5. CASE ShowRegularFile
  BY <1>5, <1>i, <1>s DEF ShowRegularFile, Healthy, End, GoTo, inputs, shown, HealthyCommandsSucceed, Ended
<1>6. CASE ShowCacheInfo
  BY <1>6, <1>i, <1>s DEF ShowCacheInfo, Healthy, End, GoTo, inputs, shown, HealthyCommandsSucceed, Ended
<1>7. CASE LoadSets
  <2>1. Healthy => ~ Ended("failure")' /\ ~ Ended("terminated")'
    BY <1>7, <1>i, LoadSetsEnds DEF Healthy
  <2>2. QED
    BY <2>1, <1>s DEF HealthyCommandsSucceed
<1>8. CASE \E name \in DOMAIN sets : ParseNextSet(name)
  BY <1>8, <1>i, <1>s DEF ParseNextSet, Healthy, End, GoTo, inputs, shown, HealthyCommandsSucceed, Ended
<1>9. CASE \E name \in DOMAIN sets : TryRandomSet(name)
  BY <1>9, <1>i, <1>s DEF TryRandomSet, Healthy, End, GoTo, inputs, shown, HealthyCommandsSucceed, Ended
<1>10. CASE \E name \in DOMAIN sets : CollectImages(name)
  BY <1>10, <1>i, <1>s DEF CollectImages, Healthy, End, GoTo, inputs, shown, HealthyCommandsSucceed, Ended
<1>11. CASE PrintSets
  BY <1>11, <1>i, <1>s DEF PrintSets, Healthy, End, GoTo, inputs, shown, HealthyCommandsSucceed, Ended
<1>12. CASE FindNamedSet
  BY <1>12, <1>i, <1>s DEF FindNamedSet, Healthy, End, GoTo, inputs, shown, HealthyCommandsSucceed, Ended
<1>13. CASE MissNamedSet
  BY <1>13, <1>i, <1>s DEF MissNamedSet, Healthy, End, GoTo, inputs, shown, HealthyCommandsSucceed, Ended
<1>14. CASE FindNoRandomSet
  BY <1>14, <1>i, <1>s DEF FindNoRandomSet, Healthy, End, GoTo, inputs, shown, HealthyCommandsSucceed, Ended
<1>15. CASE ShowRandomImage
  BY <1>15, <1>i, <1>s DEF ShowRandomImage, Healthy, End, GoTo, inputs, shown, HealthyCommandsSucceed, Ended
<1>16. CASE ShowStatic
  <2>1. Chosen \in DOMAIN sets
    BY <1>16, <1>i, ChosenIsFound DEF ShowStatic
  <2>2. Healthy => sets[Chosen].images # {}
    BY <1>16, <2>1 DEF ShowStatic, Healthy, Healthy
  <2>3. Healthy => exitStatus' = "success"
    BY <1>16, <2>2 DEF ShowStatic, Healthy, End
  <2>4. QED
    BY <2>3, <1>s DEF HealthyCommandsSucceed, Ended
<1>17. CASE StartLoop
  BY <1>17, <1>i, <1>s DEF StartLoop, Healthy, End, GoTo, inputs, shown, HealthyCommandsSucceed, Ended
<1>18. CASE UNCHANGED vars
  BY <1>18, <1>s DEF vars, inputs, shown, HealthyCommandsSucceed, Ended
<1>19. QED
  BY <1>1, <1>2, <1>3, <1>4, <1>5, <1>6, <1>7, <1>8, <1>9,
     <1>10, <1>11, <1>12, <1>13, <1>14, <1>15, <1>16, <1>17, <1>18 DEF Next

\* list and validate end when every set was looked at.
LEMMA ListsNext == Inv /\ ListsTheParsedSets /\ [Next]_vars => ListsTheParsedSets'
<1> SUFFICES ASSUME Inv, ListsTheParsedSets, [Next]_vars PROVE ListsTheParsedSets'
  OBVIOUS
<1>i. Inputs /\ Control /\ Collected /\ Quiet
  BY DEF Inv
<1>s. /\ ShowsRegularFile' <=> ShowsRegularFile
      /\ Healthy' <=> Healthy
      /\ Acceptable' = Acceptable
      /\ HookScript(config)' = HookScript(config)
      /\ UNCHANGED inputs
  BY <1>i, InputsNext, InputsStay
<1>1. CASE ParseArguments
  BY <1>1, <1>i, <1>s DEF ParseArguments, End, GoTo, inputs, shown, Control, ListsTheParsedSets, Ended
<1>2. CASE CreateDefaultConfigFile
  BY <1>2, <1>i, <1>s DEF CreateDefaultConfigFile, End, GoTo, inputs, shown, Control, ListsTheParsedSets, Ended
<1>3. CASE LoadConfigFile
  BY <1>3, <1>i, <1>s DEF LoadConfigFile, End, GoTo, inputs, shown, Control, ListsTheParsedSets, Ended
<1>4. CASE SetUpLogging
  BY <1>4, <1>i, <1>s DEF SetUpLogging, End, GoTo, inputs, shown, Control, ListsTheParsedSets, Ended
<1>5. CASE ShowRegularFile
  BY <1>5, <1>i, <1>s DEF ShowRegularFile, ShowsRegularFile, End, GoTo, inputs, shown, Control, ListsTheParsedSets, Ended
<1>6. CASE ShowCacheInfo
  BY <1>6, <1>i, <1>s DEF ShowCacheInfo, End, GoTo, inputs, shown, Control, ListsTheParsedSets, Ended
<1>7. CASE LoadSets
  <2>1. ~ Ended("success")'
    BY <1>7, <1>i, LoadSetsEnds
  <2>2. QED
    BY <2>1 DEF ListsTheParsedSets
<1>8. CASE \E name \in DOMAIN sets : ParseNextSet(name)
  BY <1>8, <1>i, <1>s DEF ParseNextSet, End, GoTo, inputs, shown, Control, ListsTheParsedSets, Ended
<1>9. CASE \E name \in DOMAIN sets : TryRandomSet(name)
  BY <1>9, <1>i, <1>s DEF TryRandomSet, End, GoTo, inputs, shown, Control, ListsTheParsedSets, Ended
<1>10. CASE \E name \in DOMAIN sets : CollectImages(name)
  BY <1>10, <1>i, <1>s DEF CollectImages, End, GoTo, inputs, shown, Control, ListsTheParsedSets, Ended
<1>11. CASE PrintSets
  <2>1. found = {name \in DOMAIN sets : Parsed(name)}
    BY <1>11, <1>i DEF PrintSets, Collected
  <2>2. found' = Acceptable'
    BY <1>11, <2>1, <1>s DEF PrintSets, Acceptable
  <2>3. QED
    BY <2>2 DEF ListsTheParsedSets
<1>12. CASE FindNamedSet
  BY <1>12, <1>i, <1>s DEF FindNamedSet, End, GoTo, inputs, shown, Control, ListsTheParsedSets, Ended
<1>13. CASE MissNamedSet
  BY <1>13, <1>i, <1>s DEF MissNamedSet, End, GoTo, inputs, shown, Control, ListsTheParsedSets, Ended
<1>14. CASE FindNoRandomSet
  BY <1>14, <1>i, <1>s DEF FindNoRandomSet, End, GoTo, inputs, shown, Control, ListsTheParsedSets, Ended
<1>15. CASE ShowRandomImage
  BY <1>15, <1>i, <1>s DEF ShowRandomImage, End, GoTo, inputs, shown, Control, ListsTheParsedSets, Ended
<1>16. CASE ShowStatic
  BY <1>16, <1>i, <1>s DEF ShowStatic, End, GoTo, inputs, shown, Control, ListsTheParsedSets, Ended
<1>17. CASE StartLoop
  BY <1>17, <1>i, <1>s DEF StartLoop, End, GoTo, inputs, shown, Control, ListsTheParsedSets, Ended
<1>18. CASE UNCHANGED vars
  BY <1>18, <1>s DEF vars, inputs, shown, Control, ListsTheParsedSets, Ended
<1>19. QED
  BY <1>1, <1>2, <1>3, <1>4, <1>5, <1>6, <1>7, <1>8, <1>9,
     <1>10, <1>11, <1>12, <1>13, <1>14, <1>15, <1>16, <1>17, <1>18 DEF Next

\* validate looks for the images of every set it has found.
LEMMA AllGoodNext == Inv /\ AllGoodMeansShowable /\ [Next]_vars => AllGoodMeansShowable'
<1> SUFFICES ASSUME Inv, AllGoodMeansShowable, [Next]_vars PROVE AllGoodMeansShowable'
  OBVIOUS
<1>i. Inputs /\ Control /\ Collected /\ Quiet
  BY DEF Inv
<1>s. /\ ShowsRegularFile' <=> ShowsRegularFile
      /\ Healthy' <=> Healthy
      /\ Acceptable' = Acceptable
      /\ HookScript(config)' = HookScript(config)
      /\ UNCHANGED inputs
  BY <1>i, InputsNext, InputsStay
<1>1. CASE ParseArguments
  BY <1>1, <1>i, <1>s DEF ParseArguments, End, GoTo, inputs, shown, Control, AllGoodMeansShowable, Ended
<1>2. CASE CreateDefaultConfigFile
  BY <1>2, <1>i, <1>s DEF CreateDefaultConfigFile, End, GoTo, inputs, shown, Control, AllGoodMeansShowable, Ended
<1>3. CASE LoadConfigFile
  BY <1>3, <1>i, <1>s DEF LoadConfigFile, End, GoTo, inputs, shown, Control, AllGoodMeansShowable, Ended
<1>4. CASE SetUpLogging
  BY <1>4, <1>i, <1>s DEF SetUpLogging, End, GoTo, inputs, shown, Control, AllGoodMeansShowable, Ended
<1>5. CASE ShowRegularFile
  BY <1>5, <1>i, <1>s DEF ShowRegularFile, ShowsRegularFile, End, GoTo, inputs, shown, Control, AllGoodMeansShowable, Ended
<1>6. CASE ShowCacheInfo
  BY <1>6, <1>i, <1>s DEF ShowCacheInfo, End, GoTo, inputs, shown, Control, AllGoodMeansShowable, Ended
<1>7. CASE LoadSets
  <2>1. ~ Ended("success")'
    BY <1>7, <1>i, LoadSetsEnds
  <2>2. QED
    BY <2>1 DEF AllGoodMeansShowable
<1>8. CASE \E name \in DOMAIN sets : ParseNextSet(name)
  BY <1>8, <1>i, <1>s DEF ParseNextSet, End, GoTo, inputs, shown, Control, AllGoodMeansShowable, Ended
<1>9. CASE \E name \in DOMAIN sets : TryRandomSet(name)
  BY <1>9, <1>i, <1>s DEF TryRandomSet, End, GoTo, inputs, shown, Control, AllGoodMeansShowable, Ended
<1>10. CASE \E name \in DOMAIN sets : CollectImages(name)
  BY <1>10, <1>i, <1>s DEF CollectImages, End, GoTo, inputs, shown, Control, AllGoodMeansShowable, Ended
<1>11. CASE PrintSets
  <2>1. Acceptable' = Acceptable /\ sets' = sets /\ commandLine' = commandLine
    BY <1>s DEF inputs
  <2>2. Acceptable \subseteq found
    BY <1>11, <1>i DEF PrintSets, Collected, Acceptable
  <2>3. commandLine.kind = "validate" => incomplete' = WithMissingFiles
    BY <1>11 DEF PrintSets
  <2>4. WithMissingFiles = {} => \A name \in found : sets[name].images \subseteq ExistingImages
    BY DEF WithMissingFiles
  <2>5. QED
    BY <2>1, <2>2, <2>3, <2>4 DEF AllGoodMeansShowable
<1>12. CASE FindNamedSet
  BY <1>12, <1>i, <1>s DEF FindNamedSet, End, GoTo, inputs, shown, Control, AllGoodMeansShowable, Ended
<1>13. CASE MissNamedSet
  BY <1>13, <1>i, <1>s DEF MissNamedSet, End, GoTo, inputs, shown, Control, AllGoodMeansShowable, Ended
<1>14. CASE FindNoRandomSet
  BY <1>14, <1>i, <1>s DEF FindNoRandomSet, End, GoTo, inputs, shown, Control, AllGoodMeansShowable, Ended
<1>15. CASE ShowRandomImage
  BY <1>15, <1>i, <1>s DEF ShowRandomImage, End, GoTo, inputs, shown, Control, AllGoodMeansShowable, Ended
<1>16. CASE ShowStatic
  BY <1>16, <1>i, <1>s DEF ShowStatic, End, GoTo, inputs, shown, Control, AllGoodMeansShowable, Ended
<1>17. CASE StartLoop
  BY <1>17, <1>i, <1>s DEF StartLoop, End, GoTo, inputs, shown, Control, AllGoodMeansShowable, Ended
<1>18. CASE UNCHANGED vars
  BY <1>18, <1>s DEF vars, inputs, shown, Control, AllGoodMeansShowable, Ended
<1>19. QED
  BY <1>1, <1>2, <1>3, <1>4, <1>5, <1>6, <1>7, <1>8, <1>9,
     <1>10, <1>11, <1>12, <1>13, <1>14, <1>15, <1>16, <1>17, <1>18 DEF Next

\* random shows nothing only when all sets have been tried.
LEMMA RandomFindsNext == Inv /\ RandomFindsASet /\ [Next]_vars => RandomFindsASet'
<1> SUFFICES ASSUME Inv, RandomFindsASet, [Next]_vars PROVE RandomFindsASet'
  OBVIOUS
<1>i. Inputs /\ Control /\ Collected /\ Quiet
  BY DEF Inv
<1>s. /\ ShowsRegularFile' <=> ShowsRegularFile
      /\ Healthy' <=> Healthy
      /\ Acceptable' = Acceptable
      /\ HookScript(config)' = HookScript(config)
      /\ UNCHANGED inputs
  BY <1>i, InputsNext, InputsStay
<1>1. CASE ParseArguments
  BY <1>1, <1>i, <1>s DEF ParseArguments, End, GoTo, inputs, shown, Control, RandomFindsASet, Ended
<1>2. CASE CreateDefaultConfigFile
  BY <1>2, <1>i, <1>s DEF CreateDefaultConfigFile, End, GoTo, inputs, shown, Control, RandomFindsASet, Ended
<1>3. CASE LoadConfigFile
  BY <1>3, <1>i, <1>s DEF LoadConfigFile, End, GoTo, inputs, shown, Control, RandomFindsASet, Ended
<1>4. CASE SetUpLogging
  BY <1>4, <1>i, <1>s DEF SetUpLogging, End, GoTo, inputs, shown, Control, RandomFindsASet, Ended
<1>5. CASE ShowRegularFile
  BY <1>5, <1>i, <1>s DEF ShowRegularFile, ShowsRegularFile, End, GoTo, inputs, shown, Control, RandomFindsASet, Ended
<1>6. CASE ShowCacheInfo
  BY <1>6, <1>i, <1>s DEF ShowCacheInfo, End, GoTo, inputs, shown, Control, RandomFindsASet, Ended
<1>7. CASE LoadSets
  <2>1. ~ Ended("success")'
    BY <1>7, <1>i, LoadSetsEnds
  <2>2. QED
    BY <2>1 DEF RandomFindsASet
<1>8. CASE \E name \in DOMAIN sets : ParseNextSet(name)
  BY <1>8, <1>i, <1>s DEF ParseNextSet, End, GoTo, inputs, shown, Control, RandomFindsASet, Ended
<1>9. CASE \E name \in DOMAIN sets : TryRandomSet(name)
  BY <1>9, <1>i, <1>s DEF TryRandomSet, End, GoTo, inputs, shown, Control, RandomFindsASet, Ended
<1>10. CASE \E name \in DOMAIN sets : CollectImages(name)
  BY <1>10, <1>i, <1>s DEF CollectImages, End, GoTo, inputs, shown, Control, RandomFindsASet, Ended
<1>11. CASE PrintSets
  BY <1>11, <1>i, <1>s DEF PrintSets, End, GoTo, inputs, shown, Control, RandomFindsASet, Ended
<1>12. CASE FindNamedSet
  BY <1>12, <1>i, <1>s DEF FindNamedSet, End, GoTo, inputs, shown, Control, RandomFindsASet, Ended
<1>13. CASE MissNamedSet
  BY <1>13, <1>i, <1>s DEF MissNamedSet, End, GoTo, inputs, shown, Control, RandomFindsASet, Ended
<1>14. CASE FindNoRandomSet
  <2>1. commandLine.kind = "random" /\ commandLine' = commandLine
    BY <1>14, <1>i, <1>s DEF FindNoRandomSet, Control, inputs
  <2>2. Acceptable = {}
    BY <1>14, <1>i DEF FindNoRandomSet, Collected, Acceptable
  <2>3. QED
    BY <2>1, <2>2, <1>s DEF RandomFindsASet
<1>15. CASE ShowRandomImage
  <2>1. commandLine.kind = "random image" /\ commandLine' = commandLine /\ sets' = sets
    BY <1>15, <1>i, <1>s DEF ShowRandomImage, Control, inputs
  <2>2. found = DOMAIN sets /\ \A name \in found : sets[name].offered # Throwing
    BY <1>15, <1>i DEF ShowRandomImage, Collected
  <2>3. Absent \notin WallpaperOptions
    BY <2>2, <1>i, SetsOfTheFile DEF WallpaperOptions
  <2>4. screen' = Absent => WallpaperOptions = {}
    BY <1>15, <2>3 DEF ShowRandomImage, SetBackground
  <2>5. WallpaperOptions = {} => \A name \in DOMAIN sets : sets[name].offered = {}
    BY <2>2 DEF WallpaperOptions
  <2>6. QED
    BY <2>1, <2>4, <2>5 DEF RandomFindsASet
<1>16. CASE ShowStatic
  <2>1. Chosen \in DOMAIN sets /\ commandLine.kind \in {"show", "random"}
    BY <1>16, <1>i, ChosenIsFound DEF ShowStatic, Control
  <2>2. Absent \notin sets[Chosen].images
    BY <2>1, <1>i, SetsOfTheFile
  <2>3. exitStatus' = "success" => screen' # Absent
    BY <1>16, <2>2 DEF ShowStatic, SetBackground, End
  <2>4. QED
    BY <2>3 DEF RandomFindsASet, Ended
<1>17. CASE StartLoop
  BY <1>17, <1>i, <1>s DEF StartLoop, End, GoTo, inputs, shown, Control, RandomFindsASet, Ended
<1>18. CASE UNCHANGED vars
  BY <1>18, <1>s DEF vars, inputs, shown, Control, RandomFindsASet, Ended
<1>19. QED
  BY <1>1, <1>2, <1>3, <1>4, <1>5, <1>6, <1>7, <1>8, <1>9,
     <1>10, <1>11, <1>12, <1>13, <1>14, <1>15, <1>16, <1>17, <1>18 DEF Next

\* The image that is set belongs to what was found.
LEMMA ShownNext == Inv /\ ShownWasAskedFor /\ [Next]_vars => ShownWasAskedFor'
<1> SUFFICES ASSUME Inv, ShownWasAskedFor, [Next]_vars PROVE ShownWasAskedFor'
  OBVIOUS
<1>i. Inputs /\ Control /\ Collected /\ Quiet
  BY DEF Inv
<1>s. /\ ShowsRegularFile' <=> ShowsRegularFile
      /\ Healthy' <=> Healthy
      /\ Acceptable' = Acceptable
      /\ HookScript(config)' = HookScript(config)
      /\ UNCHANGED inputs
  BY <1>i, InputsNext, InputsStay
<1>1. CASE ParseArguments
  BY <1>1, <1>i, <1>s DEF ParseArguments, End, GoTo, inputs, shown, Quiet, ShownWasAskedFor
<1>2. CASE CreateDefaultConfigFile
  BY <1>2, <1>i, <1>s DEF CreateDefaultConfigFile, End, GoTo, inputs, shown, Quiet, ShownWasAskedFor
<1>3. CASE LoadConfigFile
  BY <1>3, <1>i, <1>s DEF LoadConfigFile, End, GoTo, inputs, shown, Quiet, ShownWasAskedFor
<1>4. CASE SetUpLogging
  BY <1>4, <1>i, <1>s DEF SetUpLogging, End, GoTo, inputs, shown, Quiet, ShownWasAskedFor
<1>5. CASE ShowRegularFile
  BY <1>5, <1>i, <1>s DEF ShowRegularFile, SetBackground, End, GoTo, inputs, shown, Quiet, ShownWasAskedFor
<1>6. CASE ShowCacheInfo
  BY <1>6, <1>i, <1>s DEF ShowCacheInfo, End, GoTo, inputs, shown, Quiet, ShownWasAskedFor
<1>7. CASE LoadSets
  BY <1>7, <1>i, <1>s DEF LoadSets, End, GoTo, inputs, shown, Quiet, ShownWasAskedFor
<1>8. CASE \E name \in DOMAIN sets : ParseNextSet(name)
  BY <1>8, <1>i, <1>s DEF ParseNextSet, End, GoTo, inputs, shown, Quiet, ShownWasAskedFor
<1>9. CASE \E name \in DOMAIN sets : TryRandomSet(name)
  BY <1>9, <1>i, <1>s DEF TryRandomSet, End, GoTo, inputs, shown, Quiet, ShownWasAskedFor
<1>10. CASE \E name \in DOMAIN sets : CollectImages(name)
  BY <1>10, <1>i, <1>s DEF CollectImages, End, GoTo, inputs, shown, Quiet, ShownWasAskedFor
<1>11. CASE PrintSets
  BY <1>11, <1>i, <1>s DEF PrintSets, End, GoTo, inputs, shown, Quiet, ShownWasAskedFor
<1>12. CASE FindNamedSet
  BY <1>12, <1>i, <1>s DEF FindNamedSet, End, GoTo, inputs, shown, Quiet, ShownWasAskedFor
<1>13. CASE MissNamedSet
  BY <1>13, <1>i, <1>s DEF MissNamedSet, End, GoTo, inputs, shown, Quiet, ShownWasAskedFor
<1>14. CASE FindNoRandomSet
  BY <1>14, <1>i, <1>s DEF FindNoRandomSet, End, GoTo, inputs, shown, Quiet, ShownWasAskedFor
<1>15. CASE ShowRandomImage
  <2>1. /\ commandLine.kind = "random image" /\ found = DOMAIN sets
    BY <1>15, <1>i DEF ShowRandomImage, Control, Collected
  <2>2. commandLine' = commandLine /\ sets' = sets
    BY <1>s DEF inputs
  <2>3. screen' # Absent => screen' \in WallpaperOptions
    BY <1>15, <1>i DEF ShowRandomImage, SetBackground, shown, Quiet
  <2>4. QED
    BY <2>1, <2>2, <2>3 DEF ShownWasAskedFor, WallpaperOptions
<1>16. CASE ShowStatic
  <2>1. /\ Chosen \in DOMAIN sets /\ Parsed(Chosen)
        /\ commandLine.kind = "show" => Chosen = commandLine.name
        /\ commandLine.kind \in {"show", "random"} /\ ~ ShowsRegularFile
    BY <1>16, <1>i, ChosenIsFound DEF ShowStatic, Control
  <2>2. commandLine' = commandLine /\ sets' = sets
    BY <1>s DEF inputs
  <2>3. screen' # Absent => screen' \in sets[Chosen].images
    BY <1>16, <1>i DEF ShowStatic, SetBackground, shown, Quiet
  <2>4. Chosen \in Acceptable
    BY <2>1 DEF Acceptable
  <2>5. QED
    BY <2>1, <2>2, <2>3, <2>4, <1>s DEF ShownWasAskedFor
<1>17. CASE StartLoop
  BY <1>17, <1>i, <1>s DEF StartLoop, End, GoTo, inputs, shown, Quiet, ShownWasAskedFor
<1>18. CASE UNCHANGED vars
  BY <1>18, <1>s DEF vars, inputs, shown, ShownWasAskedFor
<1>19. QED
  BY <1>1, <1>2, <1>3, <1>4, <1>5, <1>6, <1>7, <1>8, <1>9,
     <1>10, <1>11, <1>12, <1>13, <1>14, <1>15, <1>16, <1>17, <1>18 DEF Next

-------------------------------------------------------------------------------
(* The setter. *)

\* The method is wallutils or a path that exists, and a path in lower case that exists
\* is used as it is.
LEMMA MethodOfConfig ==
  /\ Method(config) \in ExistingPaths \cup {Wallutils}
  /\ config.method \in ExistingPaths /\ InLowerCase(config.method) =>
       Method(config) = config.method
<1>1. Method(config) \in ExistingPaths \cup {Wallutils}
  BY DEF Method, ParseOrUseDefault, ParseMethod
<1>2. ASSUME config.method \in ExistingPaths, InLowerCase(config.method)
      PROVE  Method(config) = config.method
  <2> DEFINE path == config.method
  <2>1. path \in Seq(DOMAIN Lower) /\ path # Absent /\ path # Garbage
    BY <1>2, CommandsAssumption
  <2> HIDE DEF path
  <2>2. \A i \in DOMAIN path : Lower[path[i]] = path[i]
    BY <1>2 DEF InLowerCase, path
  <2>3. [i \in DOMAIN path |-> Lower[path[i]]] = path
    BY <2>1, <2>2
  <2>4. ParseMethod(path) = path
    BY <2>3, <1>2 DEF ParseMethod, path
  <2>5. QED
    BY <2>1, <2>4 DEF Method, ParseOrUseDefault, path
<1>3. QED
  BY <1>1, <1>2

\* Whatever shows an image has used the configured method.
UsesTheMethod == screen # Absent => setter = Method(config)

\* The method is a matter of the configuration.
LEMMA MethodStays ==
  ASSUME UNCHANGED inputs
  PROVE  Method(config)' = Method(config)
BY DEF inputs, Method

\* Each step that sets an image uses it.
LEMMA SetterNext == Inv /\ UsesTheMethod /\ [Next]_vars => UsesTheMethod'
<1> SUFFICES ASSUME Inv, UsesTheMethod, [Next]_vars PROVE UsesTheMethod'
  OBVIOUS
<1>i. Inputs /\ Control /\ Collected /\ Quiet
  BY DEF Inv
<1>s. /\ ShowsRegularFile' <=> ShowsRegularFile
      /\ Healthy' <=> Healthy
      /\ Acceptable' = Acceptable
      /\ HookScript(config)' = HookScript(config)
      /\ UNCHANGED inputs /\ Method(config)' = Method(config)
  BY <1>i, InputsNext, InputsStay, MethodStays
<1>1. CASE ParseArguments
  BY <1>1, <1>i, <1>s DEF ParseArguments, End, GoTo, inputs, shown, Quiet, UsesTheMethod
<1>2. CASE CreateDefaultConfigFile
  BY <1>2, <1>i, <1>s DEF CreateDefaultConfigFile, End, GoTo, inputs, shown, Quiet, UsesTheMethod
<1>3. CASE LoadConfigFile
  BY <1>3, <1>i, <1>s DEF LoadConfigFile, End, GoTo, inputs, shown, Quiet, UsesTheMethod
<1>4. CASE SetUpLogging
  BY <1>4, <1>i, <1>s DEF SetUpLogging, End, GoTo, inputs, shown, Quiet, UsesTheMethod
<1>5. CASE ShowRegularFile
  BY <1>5, <1>i, <1>s DEF ShowRegularFile, SetBackground, End, GoTo, inputs, shown, Quiet, UsesTheMethod
<1>6. CASE ShowCacheInfo
  BY <1>6, <1>i, <1>s DEF ShowCacheInfo, End, GoTo, inputs, shown, Quiet, UsesTheMethod
<1>7. CASE LoadSets
  BY <1>7, <1>i, <1>s DEF LoadSets, End, GoTo, inputs, shown, Quiet, UsesTheMethod
<1>8. CASE \E name \in DOMAIN sets : ParseNextSet(name)
  BY <1>8, <1>i, <1>s DEF ParseNextSet, End, GoTo, inputs, shown, Quiet, UsesTheMethod
<1>9. CASE \E name \in DOMAIN sets : TryRandomSet(name)
  BY <1>9, <1>i, <1>s DEF TryRandomSet, End, GoTo, inputs, shown, Quiet, UsesTheMethod
<1>10. CASE \E name \in DOMAIN sets : CollectImages(name)
  BY <1>10, <1>i, <1>s DEF CollectImages, End, GoTo, inputs, shown, Quiet, UsesTheMethod
<1>11. CASE PrintSets
  BY <1>11, <1>i, <1>s DEF PrintSets, End, GoTo, inputs, shown, Quiet, UsesTheMethod
<1>12. CASE FindNamedSet
  BY <1>12, <1>i, <1>s DEF FindNamedSet, End, GoTo, inputs, shown, Quiet, UsesTheMethod
<1>13. CASE MissNamedSet
  BY <1>13, <1>i, <1>s DEF MissNamedSet, End, GoTo, inputs, shown, Quiet, UsesTheMethod
<1>14. CASE FindNoRandomSet
  BY <1>14, <1>i, <1>s DEF FindNoRandomSet, End, GoTo, inputs, shown, Quiet, UsesTheMethod
<1>15. CASE ShowRandomImage
  BY <1>15, <1>i, <1>s DEF ShowRandomImage, SetBackground, End, GoTo, inputs, shown, Quiet, UsesTheMethod
<1>16. CASE ShowStatic
  BY <1>16, <1>i, <1>s DEF ShowStatic, SetBackground, End, GoTo, inputs, shown, Quiet, UsesTheMethod
<1>17. CASE StartLoop
  BY <1>17, <1>i, <1>s DEF StartLoop, End, GoTo, inputs, shown, Quiet, UsesTheMethod
<1>18. CASE UNCHANGED vars
  BY <1>18, <1>s DEF vars, inputs, shown, UsesTheMethod
<1>19. QED
  BY <1>1, <1>2, <1>3, <1>4, <1>5, <1>6, <1>7, <1>8, <1>9,
     <1>10, <1>11, <1>12, <1>13, <1>14, <1>15, <1>16, <1>17, <1>18 DEF Next

-------------------------------------------------------------------------------
(* The searches for the location. *)

\* Without the caller's leave there is no search.
LEMMA NoSearch ==
  ASSUME NEW find, ~ find
  PROVE  ~ SearchesLocation(Provider(config, find))
BY DEF SearchesLocation, Provider, DayProvider, LocationProvider

\* How many searches there have been where the program is.
Asked ==
  /\ pc \in Early \cup {"named set"} => asked = 0
  /\ commandLine.kind \in {"list", "validate", "cache", "random image"} => asked = 0
  /\ commandLine.kind = "random" => asked <= Cardinality(DOMAIN sets \ remaining)
  /\ commandLine.kind # "random" => asked <= 1

\* A file has finitely many sets.
LEMMA FiniteFile == Inputs => IsFiniteSet(DOMAIN sets)
<1> SUFFICES ASSUME Inputs PROVE IsFiniteSet(DOMAIN sets)
  OBVIOUS
<1>1. CASE sets \in SetFiles
  BY <1>1, CommandsAssumption
<1>2. CASE sets = <<>>
  <2>1. DOMAIN sets = {}
    BY <1>2
  <2>2. QED
    BY <2>1, FS_EmptySet
<1>3. QED
  BY <1>1, <1>2 DEF Inputs

\* One call of getSolarDay is one search at most, and none for a command that does not
\* look for the location.
LEMMA OneCall ==
  ASSUME asked \in Nat, GetSolarDay
  PROVE  /\ asked' \in Nat /\ asked' <= asked + 1
         /\ ~ FindLocationOverHttp => asked' = asked
<1>1. asked' = asked + IF SearchesLocation(Provider(config, FindLocationOverHttp)) THEN 1 ELSE 0
  BY DEF GetSolarDay
<1>2. asked' \in Nat /\ asked' <= asked + 1
  BY <1>1
<1>3. ASSUME ~ FindLocationOverHttp PROVE asked' = asked
  <2>1. ~ SearchesLocation(Provider(config, FindLocationOverHttp))
    BY <1>3, NoSearch
  <2>2. QED
    BY <1>1, <2>1
<1>4. QED
  BY <1>2, <1>3

\* A name that is tried is counted.
LEMMA OneMoreTried ==
  ASSUME NEW S, IsFiniteSet(S), NEW R \in SUBSET S, NEW name \in R
  PROVE  /\ Cardinality(S \ R) \in Nat
         /\ Cardinality(S \ (R \ {name})) = Cardinality(S \ R) + 1
<1>1. IsFiniteSet(S \ R) /\ Cardinality(S \ R) \in Nat
  BY FS_Difference, FS_CardinalityType
<1>2. S \ (R \ {name}) = (S \ R) \cup {name} /\ name \notin S \ R
  OBVIOUS
<1>3. QED
  BY <1>1, <1>2, FS_AddElement

\* Each set that is tried asks once at most.
LEMMA AskedNext == Inv /\ Types /\ Asked /\ [Next]_vars => Asked'
<1> SUFFICES ASSUME Inv, Types, Asked, [Next]_vars PROVE Asked'
  OBVIOUS
<1>i. Inputs /\ Control /\ Collected /\ Quiet
  BY DEF Inv
<1>s. /\ ShowsRegularFile' <=> ShowsRegularFile
      /\ Healthy' <=> Healthy
      /\ Acceptable' = Acceptable
      /\ HookScript(config)' = HookScript(config)
      /\ UNCHANGED inputs
  BY <1>i, InputsNext, InputsStay
<1>1. CASE ParseArguments
  BY <1>1, <1>i, <1>s DEF ParseArguments, End, GoTo, inputs, shown, Asked, Control, Early
<1>2. CASE CreateDefaultConfigFile
  BY <1>2, <1>i, <1>s DEF CreateDefaultConfigFile, End, GoTo, inputs, shown, Asked, Control, Early
<1>3. CASE LoadConfigFile
  BY <1>3, <1>i, <1>s DEF LoadConfigFile, End, GoTo, inputs, shown, Asked, Control, Early
<1>4. CASE SetUpLogging
  BY <1>4, <1>i, <1>s DEF SetUpLogging, End, GoTo, inputs, shown, Asked, Control, Early
<1>5. CASE ShowRegularFile
  BY <1>5, <1>i, <1>s DEF ShowRegularFile, End, GoTo, inputs, shown, Asked, Control, Early
<1>6. CASE ShowCacheInfo
  BY <1>6, <1>i, <1>s DEF ShowCacheInfo, End, GoTo, inputs, shown, Asked, Control, Early
<1>7. CASE LoadSets
  <2>1. /\ pc = "dispatch" /\ sets' = sets /\ remaining' = remaining /\ commandLine' = commandLine
        /\ \/ commandLine.kind \in {"list", "validate"} /\ GetSolarDay
           \/ asked' = asked
    BY <1>7, <1>s DEF LoadSets, inputs
  <2>2. asked = 0
    BY <2>1 DEF Asked, Early
  <2>3. asked' = 0
    BY <2>1, <2>2, OneCall DEF FindLocationOverHttp
  <2>4. 0 <= Cardinality(DOMAIN sets \ remaining)
    BY <2>1, <1>i, FS_EmptySet DEF Collected, Early
  <2>5. QED
    BY <2>1, <2>3, <2>4, <2>2 DEF Asked
<1>8. CASE \E name \in DOMAIN sets : ParseNextSet(name)
  <2>1. /\ pc = "all sets" /\ commandLine' = commandLine /\ asked' = asked
        /\ pc' \in {"ended", "all sets"} /\ commandLine.kind \in {"list", "validate"}
    BY <1>8, <1>i DEF ParseNextSet, inputs, Control, End, GoTo
  <2>2. QED
    BY <2>1 DEF Asked, Early
<1>9. CASE \E name \in DOMAIN sets : TryRandomSet(name)
  <2>1. PICK name \in DOMAIN sets : TryRandomSet(name)
    BY <1>9
  <2>2. /\ pc = "random set" /\ GetSolarDay /\ sets' = sets /\ commandLine' = commandLine
        /\ name \in remaining /\ remaining' = remaining \ {name}
        /\ commandLine.kind = "random"
    BY <2>1, <1>i DEF TryRandomSet, inputs, Control
  <2>3. IsFiniteSet(DOMAIN sets) /\ remaining \subseteq DOMAIN sets /\ asked \in Nat
    BY <1>i, FiniteFile DEF Types
  <2>4. /\ Cardinality(DOMAIN sets \ remaining) \in Nat
        /\ Cardinality(DOMAIN sets \ remaining') = Cardinality(DOMAIN sets \ remaining) + 1
    BY <2>2, <2>3, OneMoreTried
  <2>5. asked <= Cardinality(DOMAIN sets \ remaining)
    BY <2>2 DEF Asked
  <2>c. asked' \in Nat /\ asked' <= asked + 1
    BY <2>2, <2>3, OneCall
  <2>6. asked' <= Cardinality(DOMAIN sets \ remaining')
    BY <2>3, <2>4, <2>5, <2>c
  <2>7. pc' \in {"random set", "show", "ended"}
    BY <2>1 DEF TryRandomSet, End, GoTo
  <2>8. QED
    BY <2>2, <2>6, <2>7 DEF Asked, Early
<1>10. CASE \E name \in DOMAIN sets : CollectImages(name)
  <2>1. /\ pc = "images" /\ commandLine' = commandLine /\ asked' = asked
        /\ pc' \in {"ended", "images"} /\ commandLine.kind = "random image"
    BY <1>10, <1>i DEF CollectImages, inputs, Control, End, GoTo
  <2>2. QED
    BY <2>1 DEF Asked, Early
<1>11. CASE PrintSets
  BY <1>11, <1>i, <1>s DEF PrintSets, End, GoTo, inputs, shown, Asked, Control, Early
<1>12. CASE FindNamedSet
  <2>1. /\ pc = "named set" /\ GetSolarDay /\ commandLine' = commandLine
        /\ pc' \in {"ended", "show"} /\ commandLine.kind \in {"show", "info"}
    BY <1>12, <1>i DEF FindNamedSet, inputs, Control, End, GoTo
  <2>2. asked = 0
    BY <2>1 DEF Asked
  <2>c. asked \in Nat
    BY DEF Types
  <2>d. asked' \in Nat /\ asked' <= asked + 1
    BY <2>1, <2>c, OneCall
  <2>3. asked' <= 1
    BY <2>2, <2>d
  <2>4. QED
    BY <2>1, <2>3 DEF Asked, Early
<1>13. CASE MissNamedSet
  BY <1>13, <1>i, <1>s DEF MissNamedSet, End, GoTo, inputs, shown, Asked, Control, Early
<1>14. CASE FindNoRandomSet
  BY <1>14, <1>i, <1>s DEF FindNoRandomSet, End, GoTo, inputs, shown, Asked, Control, Early
<1>15. CASE ShowRandomImage
  BY <1>15, <1>i, <1>s DEF ShowRandomImage, End, GoTo, inputs, shown, Asked, Control, Early
<1>16. CASE ShowStatic
  BY <1>16, <1>i, <1>s DEF ShowStatic, End, GoTo, inputs, shown, Asked, Control, Early
<1>17. CASE StartLoop
  BY <1>17, <1>i, <1>s DEF StartLoop, End, GoTo, inputs, shown, Asked, Control, Early
<1>18. CASE UNCHANGED vars
  BY <1>18, <1>s DEF vars, inputs, shown, Asked, Control, Early
<1>19. QED
  BY <1>1, <1>2, <1>3, <1>4, <1>5, <1>6, <1>7, <1>8, <1>9,
     <1>10, <1>11, <1>12, <1>13, <1>14, <1>15, <1>16, <1>17, <1>18 DEF Next


-------------------------------------------------------------------------------
(* The theorems. *)

\* The whole invariant, with what the run of a command leaves behind.
Outcome ==
  /\ FailuresShowNothing /\ HealthyCommandsSucceed
  /\ ListsTheParsedSets /\ AllGoodMeansShowable
  /\ RandomFindsASet /\ HookFollowsTheImage
  /\ ShownWasAskedFor /\ UsesTheMethod

IInv == Inv /\ Types /\ Asked /\ Outcome

\* Before the first step there is no outcome.
LEMMA IInvInit == Init => IInv
<1> SUFFICES ASSUME Init PROVE IInv
  OBVIOUS
<1>1. Inv
  BY InvInit
<1>2. Types
  BY DEF Init, Types, Early
<1>3. Asked
  <2>1. Cardinality(DOMAIN sets \ remaining) = 0
    BY FS_EmptySet DEF Init
  <2>2. asked = 0
    BY DEF Init
  <2>3. QED
    BY <2>1, <2>2 DEF Asked
<1>4. pc = "arguments" /\ screen = Absent
  BY DEF Init
<1>5. Outcome
  BY <1>4 DEF Outcome, FailuresShowNothing, HealthyCommandsSucceed, ListsTheParsedSets,
     AllGoodMeansShowable, RandomFindsASet, HookFollowsTheImage, ShownWasAskedFor,
     UsesTheMethod, Ended
<1>6. QED
  BY <1>1, <1>2, <1>3, <1>5 DEF IInv

\* Every step preserves it.
LEMMA IInvNext == IInv /\ [Next]_vars => IInv'
<1> SUFFICES ASSUME IInv, [Next]_vars PROVE IInv'
  OBVIOUS
<1>1. Inv /\ Types /\ Asked /\ Outcome
  BY DEF IInv
<1>2. Inv' /\ Types' /\ Asked'
  BY <1>1, InvNext, TypesNext, AskedNext
<1>3. FailuresShowNothing' /\ HealthyCommandsSucceed' /\ ListsTheParsedSets'
  BY <1>1, FailuresShowNothingNext, HealthyNext, ListsNext DEF Outcome
<1>4. AllGoodMeansShowable' /\ RandomFindsASet' /\ HookFollowsTheImage'
  BY <1>1, AllGoodNext, RandomFindsNext, HookFollowsNext DEF Outcome
<1>5. ShownWasAskedFor' /\ UsesTheMethod'
  BY <1>1, ShownNext, SetterNext DEF Outcome
<1>6. QED
  BY <1>2, <1>3, <1>4, <1>5 DEF IInv, Outcome

\* The inductive invariant of a run.
LEMMA Invariant == Spec => []IInv
BY IInvInit, IInvNext, PTL DEF Spec

\* Type correctness of a run of the program: main.cpp and cmdline_helper.cpp.
THEOREM TypeCorrect == Spec => []TypeOK
<1>1. IInv => TypeOK
  <2> SUFFICES ASSUME IInv PROVE TypeOK
    OBVIOUS
  <2>1. pc \in {"show", "looping"} => Cardinality(found) = 1
    BY OneIsFound DEF IInv, Inv
  <2>2. QED
    BY <2>1 DEF IInv, Inv, Types, Control, Labels, Early, TypeOK
<1>2. QED
  BY <1>1, Invariant, PTL

\* No command fails when its files are in order: main.cpp and cmdline_helper.cpp.
THEOREM HealthyCommandsDoNotFail == Spec => []HealthyCommandsSucceed
<1>1. IInv => HealthyCommandsSucceed
  BY DEF IInv, Outcome
<1>2. QED
  BY <1>1, Invariant, PTL

\* A command that fails has shown nothing and run no hook: every error of main.cpp,
\* cmdline_helper.cpp and static_background_set.hpp comes first.
THEOREM FailuresComeFirst == Spec => []FailuresShowNothing
<1>1. IInv => FailuresShowNothing
  BY DEF IInv, Outcome
<1>2. QED
  BY <1>1, Invariant, PTL

\* list and validate print the sets that can be parsed: getBackgroundSetsFromFile.
THEOREM EverySetIsListed == Spec => []ListsTheParsedSets
<1>1. IInv => ListsTheParsedSets
  BY DEF IInv, Outcome
<1>2. QED
  BY <1>1, Invariant, PTL

\* The verdict of validate is about every set that may be shown: validateBackgroundSets.
THEOREM AllGoodIsTrue == Spec => []AllGoodMeansShowable
<1>1. IInv => AllGoodMeansShowable
  BY DEF IInv, Outcome
<1>2. QED
  BY <1>1, Invariant, PTL

\* random overlooks no set: getRandomBackgroundSet, showRandomImageFromAllBackgroundSets.
THEOREM RandomOverlooksNothing == Spec => []RandomFindsASet
<1>1. IInv => RandomFindsASet
  BY DEF IInv, Outcome
<1>2. QED
  BY <1>1, Invariant, PTL

\* The location service is asked once for each set that is tried, and by no command that
\* only lists: SolarDayProvider::getSolarDay and its callers in cmdline_helper.cpp.
THEOREM SearchesAreFew == Spec => []AsksOncePerSet
<1>1. IInv => AsksOncePerSet
  BY DEF IInv, Asked, AsksOncePerSet
<1>2. QED
  BY <1>1, Invariant, PTL

\* The hook script is run for the image that was set: static_background_set.hpp and
\* showRandomImageFromAllBackgroundSets.
THEOREM HookIsRunForTheImage == Spec => []HookFollowsTheImage
<1>1. IInv => HookFollowsTheImage
  BY DEF IInv, Outcome
<1>2. QED
  BY <1>1, Invariant, PTL

\* The configured script sets the background, if it is found: yaml_helper.hpp, config.cpp.
THEOREM SetterIsConfigured == Spec => []SetterIsAsConfigured
<1>1. IInv => SetterIsAsConfigured
  BY MethodOfConfig DEF IInv, Outcome, UsesTheMethod, SetterIsAsConfigured
<1>2. QED
  BY <1>1, Invariant, PTL

\* Only what was asked for is shown: the handlers of cmdline_helper.cpp.
THEOREM ShownIsAskedFor == Spec => []ShownWasAskedFor
<1>1. IInv => ShownWasAskedFor
  BY DEF IInv, Outcome
<1>2. QED
  BY <1>1, Invariant, PTL

===============================================================================
