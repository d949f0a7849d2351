---------------------------- MODULE CompositeCache ----------------------------
(***************************************************************************)
(* The files that instances of the program share while they carry out      *)
(* transitions: lerpBackgroundBetweenImages                                *)
(* (background_setter_definition.hpp), the two compositors                 *)
(* (image_compositor.cpp, magick_compositor.cpp) and FilesystemHandler     *)
(* (file_util.cpp).                                                        *)
(*                                                                         *)
(* Each instance is a process.  A composite is looked up by its name in    *)
(* the cache directory, and written there under that name if it does not   *)
(* exist; in-place transitions write one temporary file instead.  Nothing  *)
(* is locked, a process may be killed at any point, and images may be      *)
(* replaced or removed while the program runs.                             *)
(***************************************************************************)
EXTENDS Integers, Sequences, FiniteSets

CONSTANTS
  Instances,        \* processes of the program
  Transitions,      \* transitions of the background sets shown
  Percent,          \* the whole: 100 in the code
  NoFile,           \* the file does not exist
  Unfinished,       \* the file has none or a part of its bytes
  MaxCrashes,       \* bound: instances killed
  MaxReplacements,  \* bound: nothing is replaced any more once an image was so often
  MaxRemovals       \* bound: images removed

\* A name is the sequence of words between its hyphens.
Words == Seq(STRING)

\* A transition that fades from one image of a directory to another.  With
\* `Percent` steps or more some percentages are 0, and the image itself is shown,
\* which is Composite of DynamicLoop.
IsTransition(t) ==
  /\ t.dir \in [parent : STRING, base : Words]
  /\ t.start \in [stem : Words, extension : STRING]
  /\ t.end \in [stem : Words, extension : STRING]
  /\ t.steps \in 1 .. (Percent - 1)
  /\ t.inPlace \in BOOLEAN

ASSUME CacheAssumption ==
  /\ \A t \in Transitions : IsTransition(t)
  /\ Percent \in Nat
  /\ MaxCrashes \in Nat /\ MaxReplacements \in Nat /\ MaxRemovals \in Nat

StartImage(t) == [dir |-> t.dir, name |-> t.start]
EndImage(t) == [dir |-> t.dir, name |-> t.end]

Images == {StartImage(t) : t \in Transitions} \cup {EndImage(t) : t \in Transitions}

Percentage(t, i) == (Percent * (i + 1)) \div (t.steps + 1)

\* What step i of a transition asks for.
Request(t, i) ==
  [start |-> StartImage(t), end |-> EndImage(t), percentage |-> Percentage(t, i)]

Extension(t) == IF t.start.extension = "" THEN t.end.extension ELSE t.start.extension

\* The path has the last part of the directory only, the stems without their
\* extensions, and hyphens between them that are like those within them.
CompositePath(t, i) ==
  [place |-> "cache", words |-> t.dir.base \o t.start.stem \o t.end.stem,
   percentage |-> Percentage(t, i), extension |-> Extension(t)]

\* IN_PLACE_FILE_NAME in the directory for temporary files.
TemporaryPath(t) ==
  [place |-> "temporary", words |-> <<>>, percentage |-> 0, extension |-> Extension(t)]

Path(t, i) == IF t.inPlace THEN TemporaryPath(t) ELSE CompositePath(t, i)

Steps == {r \in Transitions \X (0 .. (Percent - 2)) : r[2] < r[1].steps}

Paths == {Path(r[1], r[2]) : r \in Steps}

VARIABLES
  cacheDir,     \* whether the cache directory exists
  version,      \* how often each image was replaced
  removed,      \* the images that were removed
  files,        \* contents and writers of each file
  pc,           \* where each instance is
  transition,   \* the transition it carries out, or carried out last
  step,         \* i of its interpolation loop
  composite,    \* the composite it has computed and is writing
  shown,        \* what it last put on screen
  crashes       \* how many instances were killed

vars == <<cacheDir, version, removed, files, pc, transition, step, composite,
          shown, crashes>>

Composites ==
  [start : [image : Images, version : Nat], end : [image : Images, version : Nat],
   percentage : 0 .. Percent]

ASSUME ContentAssumption ==
  NoFile \notin Composites /\ Unfinished \notin Composites /\ NoFile # Unfinished

\* A file a process has open for writing: `mixed` when its writers may leave
\* something else than the composite of the one that closes it last.
FileStates ==
  [content : Composites \cup {NoFile, Unfinished}, writers : SUBSET Instances,
   mixed : BOOLEAN]

At(image) == [image |-> image, version |-> version[image]]

\* The composite of the images as they are now.
Interpolated(t, i) ==
  [start |-> At(StartImage(t)), end |-> At(EndImage(t)), percentage |-> Percentage(t, i)]

\* The file instance p looks up, writes and shows.
File(p) == Path(transition[p], step[p])

Exists(f) == files[f].content # NoFile

Goto(p, label) == pc' = [pc EXCEPT ![p] = label]

-------------------------------------------------------------------------------

Init ==
  /\ cacheDir \in BOOLEAN
  /\ version = [image \in Images |-> 0]
  /\ removed = {}
  /\ files = [f \in Paths |-> [content |-> NoFile, writers |-> {}, mixed |-> FALSE]]
  /\ pc = [p \in Instances |-> "idle"]
  /\ \E t \in Transitions : transition = [p \in Instances |-> t]
  /\ step = [p \in Instances |-> 0]
  /\ composite = [p \in Instances |-> Unfinished]
  /\ shown = [p \in Instances |-> NoFile]
  /\ crashes = 0

\* lerpBackgroundBetweenImages is called, and asks whether the directory exists.
Begin(p, t) ==
  /\ pc[p] = "idle"
  /\ transition' = [transition EXCEPT ![p] = t]
  /\ step' = [step EXCEPT ![p] = 0]
  /\ Goto(p, IF cacheDir THEN "lookUp" ELSE "makeDirectory")
  /\ UNCHANGED <<cacheDir, version, removed, files, composite, shown, crashes>>

MakeDirectory(p) ==
  /\ pc[p] = "makeDirectory" /\ ~cacheDir
  /\ cacheDir' = TRUE
  /\ Goto(p, "lookUp")
  /\ UNCHANGED <<version, removed, files, transition, step, composite, shown, crashes>>

\* Mutant: the directory is waited for, though it exists.
FailNoCacheDirAndRetry(p) ==
  /\ pc[p] = "makeDirectory" /\ cacheDir
  /\ Goto(p, "makeDirectory")
  /\ UNCHANGED <<cacheDir, version, removed, files, transition, step, composite,
                 shown, crashes>>

\* Another instance made the directory since this one looked: create_directories
\* answers that it created nothing, which is taken for a failure (NoCacheDir).
FailNoCacheDir(p) ==
  /\ pc[p] = "makeDirectory" /\ cacheDir
  /\ Goto(p, "idle")
  /\ UNCHANGED <<cacheDir, version, removed, files, transition, step, composite,
                 shown, crashes>>

\* ImageCompositor finds the composite, and returns its path.
FindComposite(p) ==
  /\ pc[p] = "lookUp" /\ ~transition[p].inPlace
  /\ Exists(File(p))
  /\ Goto(p, "show")
  /\ UNCHANGED <<cacheDir, version, removed, files, transition, step, composite,
                 shown, crashes>>

\* Mutant: the file is created before the images are looked for.
MissCompositeAndReserve(p) ==
  /\ pc[p] = "lookUp" /\ ~transition[p].inPlace
  /\ ~Exists(File(p))
  /\ files' = [files EXCEPT ![File(p)].content = Unfinished]
  /\ Goto(p, "create")
  /\ UNCHANGED <<cacheDir, version, removed, transition, step, composite, shown, crashes>>

MissComposite(p) ==
  /\ pc[p] = "lookUp" /\ ~transition[p].inPlace
  /\ ~Exists(File(p))
  /\ Goto(p, "create")
  /\ UNCHANGED <<cacheDir, version, removed, files, transition, step, composite,
                 shown, crashes>>

\* ImageCompositorInPlace creates its file if it does not exist.
FindTemporary(p) ==
  /\ pc[p] = "lookUp" /\ transition[p].inPlace
  /\ Goto(p, IF Exists(File(p)) THEN "create" ELSE "place")
  /\ UNCHANGED <<cacheDir, version, removed, files, transition, step, composite,
                 shown, crashes>>

\* A file that is opened for writing loses its contents; whoever is writing it
\* goes on behind the gap.
Opened(f, writers) ==
  [files EXCEPT ![f] = [content |-> Unfinished, writers |-> writers,
                        mixed |-> files[f].writers # {} /\
                          \/ files[f].mixed
                          \/ writers = files[f].writers
                          \/ \E p, q \in writers : composite[p] # composite[q]]]

PlaceTemporary(p) ==
  /\ pc[p] = "place"
  /\ files' = Opened(File(p), files[File(p)].writers)
  /\ Goto(p, "create")
  /\ UNCHANGED <<cacheDir, version, removed, transition, step, composite, shown, crashes>>

\* An image does not exist: the failed result's value() is called, which throws.
FailFileDoesntExist(p) ==
  /\ pc[p] = "create"
  /\ {StartImage(transition[p]), EndImage(transition[p])} \cap removed # {}
  /\ Goto(p, "terminated")
  /\ UNCHANGED <<cacheDir, version, removed, files, transition, step, composite,
                 shown, crashes>>

\* Mutant: the composite of the next step is computed.
ReadImagesOfNextStep(p) ==
  /\ pc[p] = "create"
  /\ {StartImage(transition[p]), EndImage(transition[p])} \cap removed = {}
  /\ composite' = [composite EXCEPT ![p] = Interpolated(transition[p], step[p] + 1)]
  /\ Goto(p, "write")
  /\ UNCHANGED <<cacheDir, version, removed, files, transition, step, shown, crashes>>

\* Both images are read and the composite is computed in memory.
ReadImages(p) ==
  /\ pc[p] = "create"
  /\ {StartImage(transition[p]), EndImage(transition[p])} \cap removed = {}
  /\ composite' = [composite EXCEPT ![p] = Interpolated(transition[p], step[p])]
  /\ Goto(p, "write")
  /\ UNCHANGED <<cacheDir, version, removed, files, transition, step, shown, crashes>>

\* Magick::Image::write opens the file under its final name.
OpenFile(p) ==
  /\ pc[p] = "write"
  /\ files' = Opened(File(p), files[File(p)].writers \cup {p})
  /\ Goto(p, "writing")
  /\ UNCHANGED <<cacheDir, version, removed, transition, step, composite, shown, crashes>>

\* What may be in the file when p has written all its bytes: its composite, for
\* sure when nobody else wrote anything else and nobody is still writing.
Written(f, p) ==
  IF files[f].mixed \/ files[f].writers # {p}
  THEN {composite[p], files[f].content, Unfinished}
  ELSE {composite[p]}

FinishWrite(p) ==
  /\ pc[p] = "writing"
  /\ \E content \in Written(File(p), p) :
       files' = [files EXCEPT ![File(p)].content = content,
                              ![File(p)].writers = @ \ {p}]
  /\ composite' = [composite EXCEPT ![p] = Unfinished]
  /\ Goto(p, "show")
  /\ UNCHANGED <<cacheDir, version, removed, transition, step, shown, crashes>>

\* The background is set to the file, as it is now; on to the next step.
Show(p) ==
  /\ pc[p] = "show"
  /\ shown' = [shown EXCEPT ![p] = files[File(p)].content]
  /\ step' = [step EXCEPT ![p] = @ + 1]
  /\ Goto(p, IF step[p] + 1 = transition[p].steps THEN "idle" ELSE "lookUp")
  /\ UNCHANGED <<cacheDir, version, removed, files, transition, composite, crashes>>

\* The process is killed, and started again later.  The bytes it has not written
\* are missing from what others write to the same file.
Crash(p) ==
  /\ crashes < MaxCrashes
  /\ pc[p] \notin {"idle", "terminated"}
  /\ crashes' = crashes + 1
  /\ files' = [f \in Paths |->
                 IF p \in files[f].writers
                 THEN [files[f] EXCEPT !.writers = @ \ {p}, !.mixed = TRUE]
                 ELSE files[f]]
  /\ composite' = [composite EXCEPT ![p] = Unfinished]
  /\ step' = [step EXCEPT ![p] = 0]
  /\ Goto(p, "idle")
  /\ UNCHANGED <<cacheDir, version, removed, transition, shown>>

\* The user replaces an image by another one of the same name.
Replace(image) ==
  /\ \A other \in Images : version[other] < MaxReplacements
  /\ image \notin removed
  /\ version' = [version EXCEPT ![image] = @ + 1]
  /\ UNCHANGED <<cacheDir, removed, files, pc, transition, step, composite, shown, crashes>>

Remove(image) ==
  /\ Cardinality(removed) < MaxRemovals
  /\ removed' = removed \cup {image}
  /\ UNCHANGED <<cacheDir, version, files, pc, transition, step, composite, shown, crashes>>

Work(p) ==
  \/ MakeDirectory(p) \/ FailNoCacheDir(p)
  \/ FindComposite(p) \/ MissComposite(p)
  \/ FindTemporary(p) \/ PlaceTemporary(p)
  \/ FailFileDoesntExist(p) \/ ReadImages(p)
  \/ OpenFile(p) \/ FinishWrite(p)
  \/ Show(p)

Next ==
  \/ \E p \in Instances : Work(p) \/ Crash(p) \/ \E t \in Transitions : Begin(p, t)
  \/ \E image \in Images : Replace(image) \/ Remove(image)

\* Each process runs on once it has begun a transition; nobody has to begin one.
Spec == Init /\ [][Next]_vars /\ \A p \in Instances : WF_vars(Work(p))

-------------------------------------------------------------------------------
(* Properties. *)

\* An instance at work is at a step of its transition, and has a composite to write
\* when it is about to.
AtWork ==
  \A p \in Instances :
    /\ pc[p] \notin {"idle", "terminated"} => step[p] < transition[p].steps
    /\ pc[p] \in {"write", "writing"} => composite[p] \in Composites

\* Only who is writing has a file open, and it is its own.
WritersAreWriting ==
  \A f \in Paths : \A p \in files[f].writers : pc[p] = "writing" /\ f = File(p)

\* Every variable has its type; steps, composites and open files agree with where
\* each instance is.
TypeOK ==
  /\ cacheDir \in BOOLEAN
  /\ version \in [Images -> Nat]
  /\ removed \subseteq Images
  /\ files \in [Paths -> FileStates]
  /\ pc \in [Instances -> {"idle", "makeDirectory", "lookUp", "place", "create",
                          "write", "writing", "show", "terminated"}]
  /\ transition \in [Instances -> Transitions]
  /\ step \in [Instances -> Nat]
  /\ composite \in [Instances -> Composites \cup {Unfinished}]
  /\ shown \in [Instances -> Composites \cup {NoFile, Unfinished}]
  /\ crashes \in 0 .. MaxCrashes
  /\ AtWork
  /\ WritersAreWriting

\* Nothing else that is cached has the name of this composite.
UniquePath(t, i) ==
  \A r \in Steps :
    ~r[1].inPlace /\ CompositePath(r[1], r[2]) = CompositePath(t, i)
      => Request(r[1], r[2]) = Request(t, i)

\* What the contents of a file answer.
RequestOf(content) ==
  IF content \in Composites
  THEN [start |-> content.start.image, end |-> content.end.image,
        percentage |-> content.percentage]
  ELSE NoFile

\* A whole composite of these images, of whatever version, at this percentage.
MadeFor(content, t, i) ==
  content \in Composites => RequestOf(content) = Request(t, i)

FilesHoldTheirOwn ==
  \A r \in Steps :
    ~r[1].inPlace /\ UniquePath(r[1], r[2])
      => MadeFor(files[CompositePath(r[1], r[2])].content, r[1], r[2])

WritersHoldTheirOwn ==
  \A p \in Instances :
    pc[p] \in {"write", "writing"} => MadeFor(composite[p], transition[p], step[p])

\* A file in the cache never holds the composite of another step or of other
\* images, whoever wrote it, in whatever order and however often it was
\* interrupted, unless the names are the same.
CacheHoldsItsOwn == FilesHoldTheirOwn /\ WritersHoldTheirOwn

\* What goes to the screen is made for the step that asked for it: the file that
\* getCompositedImage returned may have been opened again by others since.
NothingForeignIsShown ==
  [][\A p \in Instances :
       /\ step'[p] = step[p] + 1
       /\ ~transition[p].inPlace /\ UniquePath(transition[p], step[p])
       => MadeFor(shown'[p], transition[p], step[p])]_vars

\* A transition that has begun ends, whatever other instances do with its files.
EveryTransitionEnds ==
  \A p \in Instances : pc[p] # "idle" ~> pc[p] \in {"idle", "terminated"}

\* When nobody is killed and no image is replaced, a part of a composite does not
\* stay in the cache: someone finishes it, although several may write it at once.
EveryFragmentIsFinished ==
  \A r \in Steps :
    ~r[1].inPlace /\ UniquePath(r[1], r[2])
      => []<>(files[CompositePath(r[1], r[2])].content # Unfinished)

\* There is one instance, nobody kills it, and no two steps share a name in the cache.
Undisturbed ==
  /\ \A p, q \in Instances : p = q
  /\ MaxCrashes = 0
  /\ \A r \in Steps : ~r[1].inPlace => UniquePath(r[1], r[2])

\* What each file of the cache answers.
Kept == [f \in {f \in Paths : f.place = "cache"} |-> RequestOf(files[f].content)]

\* What each instance is about to show.
Asked ==
  [p \in Instances |->
     CASE pc[p] = "idle" -> NoFile
       [] pc[p] = "terminated" -> Unfinished
       [] OTHER -> Request(transition[p], step[p])]

Presented == [p \in Instances |-> RequestOf(shown[p])]

\* An instance that is alone and not interrupted uses the cache as a memo: what
\* is in it is never made again or changed, and each step shows its composite.
Memo == INSTANCE CompositeMemo WITH
          Requests <- {Request(r[1], r[2]) : r \in Steps},
          Nothing <- NoFile, Failed <- Unfinished,
          memo <- Kept, asked <- Asked, shown <- Presented

ImplementsMemo == Memo!Spec

-------------------------------------------------------------------------------
(* What comments say, and the code does not do. *)

\* "Returns the path to an image that is interpolated between [the images] by
\* `percentage`%".
ShownIsInterpolated ==
  [][\A p \in Instances :
       step'[p] = step[p] + 1 => shown'[p] = Interpolated(transition[p], step[p])]_vars

===============================================================================
