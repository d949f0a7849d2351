---------------------------- MODULE ScriptExecutor ----------------------------
(***************************************************************************)
(* The hook script and the setter script, and what becomes of the          *)
(* processes that run them: src/src/script_executor.cpp, with the callers  *)
(* in background_setter.cpp and doEvent of dynamic_background_set.hpp.     *)
(*                                                                         *)
(* The program carries out a list of events.  A "set" event shows an       *)
(* image and runs the hook, a "fragment" of a transition only shows one.   *)
(* The image of an event is its number.                                    *)
(***************************************************************************)
EXTENDS Integers, Sequences, FiniteSets

CONSTANTS Events,         \* what the program carries out
          ProcessLimit    \* children the system lets the program have

ASSUME ScriptAssumption ==
  /\ Events \in Seq({"set", "fragment"})
  /\ ProcessLimit \in Nat

Roles == {"setter", "hook"}

\* The lines logTrace writes, one for each attempt to run a script.
Lines == Roles \X (1 .. Len(Events))

VARIABLES
  method,    \* config.method: "wallutils" or "script"
  hook,      \* config.hookScript.has_value()
  event,     \* the last event begun, 0 before the first
  pc,        \* "idle", "set", "hook"
  children,  \* the processes that were forked
  screen,    \* the image on the screen
  refused,   \* history: the events whose image the desktop's setter answered an error for
  buffer,    \* lines of the log in the stdio buffer of the program
  log        \* how often each line is in the log file

vars == <<method, hook, event, pc, children, screen, refused, buffer, log>>

Init ==
  /\ method \in {"wallutils", "script"}
  /\ hook \in BOOLEAN
  /\ event = 0 /\ pc = "idle"
  /\ children = <<>>
  /\ screen = 0 /\ refused = {}
  /\ buffer = {} /\ log = [line \in Lines |-> 0]

-------------------------------------------------------------------------------
(* The program. *)

BeginEvent ==
  /\ pc = "idle" /\ event < Len(Events)
  /\ event' = event + 1
  /\ pc' = "set"
  /\ UNCHANGED <<method, hook, children, screen, refused, buffer, log>>

\* What doEvent, or a step of lerpBackgroundBetweenImages, does when the image is set.
AfterSetting == IF hook /\ Events[event] = "set" THEN "hook" ELSE "idle"

\* Mutant: the call returns before the desktop has the image.
SetByWallutilsInBackground ==
  /\ pc = "set" /\ method = "wallutils"
  /\ pc' = AfterSetting
  /\ UNCHANGED <<method, hook, event, children, screen, refused, buffer, log>>

\* setBackgroundToImage returns when the desktop has answered, here that it has the image.
SetByWallutils ==
  /\ pc = "set" /\ method = "wallutils"
  /\ screen' = event
  /\ pc' = AfterSetting
  /\ UNCHANGED <<method, hook, event, children, refused, buffer, log>>

\* SetWallpaperCustom answers an error, which is printed and goes no further: the caller
\* does as if the image were set.  Whether a part of the desktop shows it is unknown.
FailToSetByWallutils ==
  /\ pc = "set" /\ method = "wallutils"
  /\ screen' \in {screen, event}
  /\ refused' = refused \cup {event}
  /\ pc' = AfterSetting
  /\ UNCHANGED <<method, hook, event, children, buffer, log>>

RunsScript == pc = "hook" \/ (pc = "set" /\ method = "script")

Role == IF pc = "hook" THEN "hook" ELSE "setter"

\* Mutant: monitorScript waits for each process.
OccupiedWhenMonitored == {i \in DOMAIN children : children[i].status \in {"forked", "running"}}

\* monitorScript is never started: a process keeps its place until the program ends.
Occupied == DOMAIN children

AliveSetters ==
  {i \in DOMAIN children :
     children[i].role = "setter" /\ children[i].status \in {"forked", "running"}}

\* Mutant: the path is that of the last set event.
NewChildWithOldImage(lines) ==
  [role |-> Role, image |-> IF event > 2 THEN event - 2 ELSE event, status |-> "forked",
   shown |-> FALSE, overlapped |-> AliveSetters, buffer |-> lines]

\* A process with the arguments of the script and a copy of the buffer.  History: the
\* setters it started beside.
NewChild(lines) ==
  [role |-> Role, image |-> event, status |-> "forked",
   shown |-> FALSE, overlapped |-> AliveSetters, buffer |-> lines]

\* After runScript, whether or not it failed.
Continue ==
  /\ buffer' = buffer \cup {<<Role, event>>}
  /\ pc' = IF pc = "set" THEN AfterSetting ELSE "idle"
  /\ UNCHANGED <<method, hook, event, screen, refused, log>>

\* runScript: the parent goes on at once.
RunScript ==
  /\ RunsScript
  /\ Cardinality(Occupied) < ProcessLimit
  /\ children' = Append(children, NewChild(buffer \cup {<<Role, event>>}))
  /\ Continue

\* Mutant: a fork that fails is tried again until one succeeds.
FailToForkAndRetry == RunsScript /\ UNCHANGED vars

\* fork fails, at the limit or before.  runHookScript and runBackgroundSetScript drop
\* the error, so that the program goes on here too.
FailToFork == RunsScript /\ Continue /\ UNCHANGED children

\* stdio writes the buffer whenever it is full.
FlushLog ==
  /\ buffer # {}
  /\ log' = [line \in Lines |-> log[line] + IF line \in buffer THEN 1 ELSE 0]
  /\ buffer' = {}
  /\ UNCHANGED <<method, hook, event, pc, children, screen, refused>>

-------------------------------------------------------------------------------
(* The processes. *)

\* Mutant: the buffer is written before execv.
ExecWithFlush(i) ==
  /\ children[i].status = "forked"
  /\ children' = [children EXCEPT ![i].status = "running", ![i].buffer = {}]
  /\ log' = [line \in Lines |-> log[line] + IF line \in children[i].buffer THEN 1 ELSE 0]
  /\ UNCHANGED <<method, hook, event, pc, screen, refused, buffer>>

\* execv: the copy of the buffer is gone.
Exec(i) ==
  /\ children[i].status = "forked"
  /\ children' = [children EXCEPT ![i].status = "running", ![i].buffer = {}]
  /\ UNCHANGED <<method, hook, event, pc, screen, refused, buffer, log>>

\* execv fails.  The child leaves by exit, not _exit: the handlers of the program run in
\* it, and write the lines the program will write again.
FailToExec(i) ==
  /\ children[i].status = "forked"
  /\ children' = [children EXCEPT ![i].status = "failed", ![i].buffer = {}]
  /\ log' = [line \in Lines |-> log[line] + IF line \in children[i].buffer THEN 1 ELSE 0]
  /\ UNCHANGED <<method, hook, event, pc, screen, refused, buffer>>

\* The setter script changes the background.
Show(i) ==
  /\ children[i].status = "running" /\ children[i].role = "setter"
  /\ ~ children[i].shown
  /\ screen' = children[i].image
  /\ children' = [children EXCEPT ![i].shown = TRUE]
  /\ UNCHANGED <<method, hook, event, pc, refused, buffer, log>>

\* The script ends, with or without success: nobody asks.
Exit(i) ==
  /\ children[i].status = "running"
  /\ children' = [children EXCEPT ![i].status = "zombie"]
  /\ UNCHANGED <<method, hook, event, pc, screen, refused, buffer, log>>

-------------------------------------------------------------------------------

Program ==
  BeginEvent \/ SetByWallutils \/ FailToSetByWallutils \/ RunScript \/ FailToFork

Process(i) == Exec(i) \/ FailToExec(i) \/ Show(i) \/ Exit(i)

Next == Program \/ FlushLog \/ \E i \in DOMAIN children : Process(i)

\* The program goes on when it can.  A script may hang.
Spec == Init /\ [][Next]_vars /\ WF_vars(Program)

-------------------------------------------------------------------------------
(* Properties. *)

Statuses == {"forked", "running", "zombie", "failed"}

\* Every variable has its type, hooks belong to set events only, only the desktop's own
\* setter refuses an image, and there are never more children than the limit admits.
TypeOK ==
  /\ method \in {"wallutils", "script"} /\ hook \in BOOLEAN
  /\ event \in 0 .. Len(Events) /\ screen \in 0 .. event
  /\ pc \in {"idle", "set", "hook"} /\ (pc # "idle" => event > 0)
  /\ children \in Seq([role : Roles, image : 1 .. Len(Events), status : Statuses,
                       shown : BOOLEAN, overlapped : SUBSET Nat, buffer : SUBSET Lines])
  /\ buffer \subseteq Lines /\ log \in [Lines -> Nat]
  /\ refused \subseteq 1 .. event /\ (refused # {} => method = "wallutils")
  /\ Len(children) <= ProcessLimit
  /\ \A i \in DOMAIN children :
       children[i].role = "hook" => hook /\ Events[children[i].image] = "set"

\* The picture on the screen is older than one a script has shown only if the two scripts
\* ran at the same time: a script that ends before the next image comes never wins over it.
StaleOnlyByOverlap ==
  \A j \in DOMAIN children :
    (children[j].shown /\ children[j].image > screen) =>
      \E i \in children[j].overlapped :
        children[i].shown /\ children[i].image = screen

\* "a script that is run after setting the background": with wallutils the hook of an event
\* finds on the screen every image up to its own that the desktop has taken, or a later one.
\* An error leaves the hook with an older picture, but never with one older than the last
\* image that was taken.
HookFollowsTheImage ==
  method = "wallutils" =>
    \A i \in DOMAIN children :
      \A n \in (1 .. children[i].image) \ refused : n <= screen

FailedExecs == {i \in DOMAIN children : children[i].status = "failed"}

\* A line is in the log more than once only for processes that could not run their script.
LinesAreRepeatedByFailuresOnly ==
  \A line \in Lines :
    log[line] <= (IF line \in buffer THEN 0 ELSE 1) + Cardinality(FailedExecs)

\* A process that has ended keeps its place, so that only the first ProcessLimit scripts of
\* a run count: what a script sets the background to later on never gets to the screen.
OnlyTheFirstScriptsCount ==
  method = "script" /\ screen # 0 =>
    \E i \in DOMAIN children :
      i <= ProcessLimit /\ children[i].role = "setter" /\ children[i].image = screen

\* Events go on whatever the scripts do: one that hangs, fails or cannot be started
\* holds nothing up.
EventsGoOn == <>(event = Len(Events) /\ pc = "idle")

===============================================================================
