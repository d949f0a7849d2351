------------------------- MODULE CompositeCache_proofs -------------------------
(***************************************************************************)
(* What the cache of composites guarantees for any number of instances,    *)
(* any transitions, any number of crashes and any changes of the images.   *)
(***************************************************************************)
EXTENDS CompositeCache, TLAPS

(* Operators. *)

LEMMA StepsExist ==
  ASSUME NEW t \in Transitions, NEW i \in Nat, i < t.steps
  PROVE  <<t, i>> \in Steps
<1>1. Percent \in Nat /\ t.steps \in 1 .. (Percent - 1)
  BY CacheAssumption DEF IsTransition
<1>2. i \in 0 .. (Percent - 2)
  BY <1>1
<1> QED  BY <1>2 DEF Steps

LEMMA PathsExist ==
  ASSUME NEW t \in Transitions, NEW i \in Nat, i < t.steps
  PROVE  Path(t, i) \in Paths
<1> DEFINE r == <<t, i>>
<1>1. r \in Steps
  BY StepsExist
<1>2. Path(t, i) = Path(r[1], r[2])
  OBVIOUS
<1> QED  BY <1>1, <1>2 DEF Paths

LEMMA PercentageType ==
  ASSUME NEW t \in Transitions, NEW i \in Nat, i < t.steps
  PROVE  Percentage(t, i) \in 0 .. Percent
<1> DEFINE n == Percent
           d == t.steps + 1
           a == i + 1
<1>1. n \in Nat /\ d \in Nat /\ d > 1 /\ a \in 1 .. d
  BY CacheAssumption DEF IsTransition
<1> HIDE DEF n, d, a
<1>2. n * a \in Nat /\ n * a <= n * d
  BY <1>1
<1>3. (n * a) \div d \in 0 .. n
  BY <1>1, <1>2
<1> QED  BY <1>3 DEF Percentage, n, d, a

LEMMA InterpolatedType ==
  ASSUME TypeOK, NEW t \in Transitions, NEW i \in Nat, i < t.steps
  PROVE  Interpolated(t, i) \in Composites
<1>1. StartImage(t) \in Images /\ EndImage(t) \in Images
  BY DEF Images
<1>2. /\ At(StartImage(t)) \in [image : Images, version : Nat]
      /\ At(EndImage(t)) \in [image : Images, version : Nat]
  BY <1>1 DEF At, TypeOK
<1>3. Percentage(t, i) \in 0 .. Percent
  BY PercentageType
<1> QED  BY <1>2, <1>3 DEF Interpolated, Composites

LEMMA FileExists ==
  ASSUME TypeOK, NEW p \in Instances, pc[p] \notin {"idle", "terminated"}
  PROVE  File(p) \in Paths
<1>1. /\ transition[p] \in Transitions
      /\ step[p] \in Nat
      /\ step[p] < transition[p].steps
  BY DEF TypeOK, AtWork
<1> QED  BY <1>1, PathsExist DEF File

\* Opening a file changes that file only, and leaves nothing in it.
LEMMA OpenedProperties ==
  ASSUME TypeOK, NEW f \in Paths, NEW writers \in SUBSET Instances
  PROVE  /\ Opened(f, writers) \in [Paths -> FileStates]
         /\ Opened(f, writers)[f].content = Unfinished
         /\ Opened(f, writers)[f].writers = writers
         /\ \A g \in Paths \ {f} : Opened(f, writers)[g] = files[g]
<1> DEFINE mixed == /\ files[f].writers # {}
                    /\ \/ files[f].mixed
                       \/ writers = files[f].writers
                       \/ \E p, q \in writers : composite[p] # composite[q]
           opened == [content |-> Unfinished, writers |-> writers, mixed |-> mixed]
<1>1. mixed \in BOOLEAN
  OBVIOUS
<1> HIDE DEF mixed
<1>2. opened \in FileStates
  BY <1>1 DEF FileStates
<1>3. Opened(f, writers) = [files EXCEPT ![f] = opened]
  BY DEF Opened, mixed
<1>4. files \in [Paths -> FileStates]
  BY DEF TypeOK
<1> HIDE DEF opened
<1>5. /\ Opened(f, writers) \in [Paths -> FileStates]
      /\ Opened(f, writers)[f] = opened
      /\ \A g \in Paths \ {f} : Opened(f, writers)[g] = files[g]
  BY <1>2, <1>3, <1>4
<1> QED  BY <1>5 DEF opened

-------------------------------------------------------------------------------
(* Types. *)

Labels == {"idle", "makeDirectory", "lookUp", "place", "create", "write",
           "writing", "show", "terminated"}

\* A step that only moves one instance, which has nothing open.
LEMMA MoveKeepsWork ==
  ASSUME TypeOK, NEW p \in Instances, NEW label \in Labels, Goto(p, label),
         pc[p] \notin {"idle", "terminated", "writing"},
         label \notin {"write", "writing"},
         UNCHANGED <<transition, step, composite>>
  PROVE  pc' \in [Instances -> Labels] /\ AtWork'
<1>1. pc \in [Instances -> Labels] /\ AtWork
  BY DEF TypeOK, Labels
<1>2. pc' = [pc EXCEPT ![p] = label]
  BY DEF Goto
<1>3. pc' \in [Instances -> Labels]
  BY <1>1, <1>2
<1>4. AtWork'
  <2> SUFFICES ASSUME NEW q \in Instances
               PROVE  /\ pc'[q] \notin {"idle", "terminated"} => step[q] < transition[q].steps
                      /\ pc'[q] \in {"write", "writing"} => composite[q] \in Composites
    BY DEF AtWork
  <2>1. CASE q = p
    BY <1>1, <1>2, <2>1 DEF AtWork
  <2>2. CASE q # p
    BY <1>1, <1>2, <2>2 DEF AtWork
  <2> QED  BY <2>1, <2>2
<1> QED  BY <1>3, <1>4

LEMMA OthersKeepWriting ==
  ASSUME TypeOK, NEW p \in Instances, NEW label \in Labels, Goto(p, label),
         pc[p] # "writing",
         \A q \in Instances \ {p} : transition'[q] = transition[q] /\ step'[q] = step[q],
         UNCHANGED files
  PROVE  WritersAreWriting'
<1> SUFFICES ASSUME NEW f \in Paths, NEW q \in files[f].writers
             PROVE  pc'[q] = "writing" /\ f = File(q)'
  BY DEF WritersAreWriting
<1>1. q \in Instances
  BY DEF TypeOK, FileStates
<1>2. pc[q] = "writing" /\ f = File(q)
  BY DEF TypeOK, WritersAreWriting
<1>3. q # p
  BY <1>2
<1>4. pc'[q] = pc[q]
  BY <1>1, <1>3 DEF Goto, TypeOK
<1>5. File(q)' = File(q)
  BY <1>1, <1>3 DEF File
<1> QED  BY <1>2, <1>4, <1>5

LEMMA MoveKeepsTypes ==
  ASSUME TypeOK, NEW p \in Instances, NEW label \in Labels, Goto(p, label),
         pc[p] \notin {"idle", "terminated", "writing"},
         label \notin {"write", "writing"},
         cacheDir' \in BOOLEAN,
         UNCHANGED <<version, removed, files, transition, step, composite, shown, crashes>>
  PROVE  TypeOK'
<1>1. pc' \in [Instances -> Labels] /\ AtWork'
  BY MoveKeepsWork
<1>2. WritersAreWriting'
  BY OthersKeepWriting
<1> QED  BY <1>1, <1>2 DEF TypeOK, Labels

LEMMA InitTypes == Init => TypeOK
<1> SUFFICES ASSUME Init PROVE TypeOK
  OBVIOUS
<1>1. version \in [Images -> Nat] /\ removed \subseteq Images
  BY DEF Init
<1>2. files \in [Paths -> FileStates]
  BY DEF Init, FileStates
<1>3. transition \in [Instances -> Transitions] /\ crashes \in 0 .. MaxCrashes
  BY CacheAssumption DEF Init
<1>4. AtWork /\ WritersAreWriting
  BY DEF Init, AtWork, WritersAreWriting
<1> QED  BY <1>1, <1>2, <1>3, <1>4 DEF Init, TypeOK

LEMMA BeginKeepsTypes ==
  ASSUME TypeOK, NEW p \in Instances, NEW t \in Transitions, Begin(p, t)
  PROVE  TypeOK'
<1> DEFINE label == IF cacheDir THEN "lookUp" ELSE "makeDirectory"
<1>1. Goto(p, label) /\ label \in Labels \ {"idle", "terminated", "write", "writing"}
  BY DEF Begin, Labels
<1> HIDE DEF label
<1>2. /\ transition' = [transition EXCEPT ![p] = t]
      /\ step' = [step EXCEPT ![p] = 0]
      /\ UNCHANGED <<files, composite>>
      /\ pc[p] = "idle"
  BY DEF Begin
<1>3. /\ transition' \in [Instances -> Transitions]
      /\ step' \in [Instances -> Nat]
      /\ pc' \in [Instances -> Labels]
  BY <1>1, <1>2 DEF TypeOK, Goto, Labels
<1>4. AtWork'
  <2> SUFFICES ASSUME NEW q \in Instances
               PROVE  /\ pc'[q] \notin {"idle", "terminated"}
                           => step'[q] < transition'[q].steps
                      /\ pc'[q] \in {"write", "writing"} => composite[q] \in Composites
    BY <1>2 DEF AtWork
  <2>1. CASE q = p
    <3>1. t.steps \in 1 .. (Percent - 1) /\ Percent \in Nat
      BY CacheAssumption DEF IsTransition
    <3>2. step'[p] = 0 /\ transition'[p] = t /\ pc'[p] = label
      BY <1>1, <1>2 DEF TypeOK, Goto
    <3> QED  BY <1>1, <2>1, <3>1, <3>2
  <2>2. CASE q # p
    <3>1. step'[q] = step[q] /\ transition'[q] = transition[q] /\ pc'[q] = pc[q]
      BY <1>1, <1>2, <2>2 DEF TypeOK, Goto
    <3> QED  BY <3>1 DEF TypeOK, AtWork
  <2> QED  BY <2>1, <2>2
<1>5. WritersAreWriting'
  <2>1. \A q \in Instances \ {p} : transition'[q] = transition[q] /\ step'[q] = step[q]
    BY <1>2 DEF TypeOK
  <2> QED  BY <1>1, <1>2, <2>1, OthersKeepWriting
<1> QED  BY <1>3, <1>4, <1>5 DEF TypeOK, Begin, Labels

LEMMA PlaceTemporaryKeepsTypes ==
  ASSUME TypeOK, NEW p \in Instances, PlaceTemporary(p)
  PROVE  TypeOK'
<1> DEFINE f == File(p)
<1>1. f \in Paths
  BY FileExists DEF PlaceTemporary
<1>2. files[f].writers \in SUBSET Instances
  BY <1>1 DEF TypeOK, FileStates
<1> HIDE DEF f
<1>3. files' = Opened(f, files[f].writers)
  BY DEF PlaceTemporary, f
<1>4. /\ files' \in [Paths -> FileStates]
      /\ \A g \in Paths : files'[g].writers = files[g].writers
  BY <1>1, <1>2, <1>3, OpenedProperties
<1>5. pc' \in [Instances -> Labels] /\ AtWork'
  BY MoveKeepsWork DEF PlaceTemporary, Labels
<1>6. WritersAreWriting'
  <2> SUFFICES ASSUME NEW g \in Paths, NEW q \in files[g].writers
               PROVE  pc'[q] = "writing" /\ g = File(q)'
    BY <1>4 DEF WritersAreWriting
  <2>1. q \in Instances /\ pc[q] = "writing" /\ g = File(q)
    BY DEF TypeOK, FileStates, WritersAreWriting
  <2>2. q # p
    BY <2>1 DEF PlaceTemporary
  <2>3. pc'[q] = pc[q] /\ File(q)' = File(q)
    BY <2>1, <2>2 DEF PlaceTemporary, Goto, TypeOK, File
  <2> QED  BY <2>1, <2>3
<1> QED  BY <1>4, <1>5, <1>6 DEF TypeOK, PlaceTemporary, Labels

LEMMA ReadImagesKeepsTypes ==
  ASSUME TypeOK, NEW p \in Instances, ReadImages(p)
  PROVE  TypeOK'
<1> DEFINE c == Interpolated(transition[p], step[p])
<1>1. /\ transition[p] \in Transitions
      /\ step[p] \in Nat
      /\ step[p] < transition[p].steps
  BY DEF ReadImages, TypeOK, AtWork
<1>2. c \in Composites
  BY <1>1, InterpolatedType
<1> HIDE DEF c
<1>3. composite' = [composite EXCEPT ![p] = c] /\ pc' = [pc EXCEPT ![p] = "write"]
  BY DEF ReadImages, Goto, c
<1>4. /\ composite' \in [Instances -> Composites \cup {Unfinished}]
      /\ pc' \in [Instances -> Labels]
  BY <1>2, <1>3 DEF TypeOK, Labels
<1>5. AtWork'
  <2> SUFFICES ASSUME NEW q \in Instances
               PROVE  /\ pc'[q] \notin {"idle", "terminated"} => step[q] < transition[q].steps
                      /\ pc'[q] \in {"write", "writing"} => composite'[q] \in Composites
    BY DEF AtWork, ReadImages
  <2>1. CASE q = p
    BY <1>1, <1>2, <1>3, <2>1 DEF TypeOK
  <2>2. CASE q # p
    BY <1>3, <2>2 DEF TypeOK, AtWork
  <2> QED  BY <2>1, <2>2
<1>6. WritersAreWriting'
  BY OthersKeepWriting DEF ReadImages, Labels
<1> QED  BY <1>4, <1>5, <1>6 DEF TypeOK, ReadImages, Labels

LEMMA OpenFileKeepsTypes ==
  ASSUME TypeOK, NEW p \in Instances, OpenFile(p)
  PROVE  TypeOK'
<1> DEFINE f == File(p)
           w == files[f].writers \cup {p}
<1>1. f \in Paths
  BY FileExists DEF OpenFile
<1>2. w \in SUBSET Instances
  BY <1>1 DEF TypeOK, FileStates
<1>3. files' = Opened(f, w)
  BY DEF OpenFile
<1>4. /\ pc' = [pc EXCEPT ![p] = "writing"]
      /\ UNCHANGED <<transition, step, composite>>
  BY DEF OpenFile, Goto
<1> HIDE DEF w
<1>5. /\ files' \in [Paths -> FileStates]
      /\ files'[f].writers = w
      /\ \A g \in Paths \ {f} : files'[g].writers = files[g].writers
  BY <1>1, <1>2, <1>3, OpenedProperties
<1>6. pc' \in [Instances -> Labels]
  BY <1>4 DEF TypeOK, Labels
<1>7. AtWork'
  <2> SUFFICES ASSUME NEW q \in Instances
               PROVE  /\ pc'[q] \notin {"idle", "terminated"} => step[q] < transition[q].steps
                      /\ pc'[q] \in {"write", "writing"} => composite[q] \in Composites
    BY <1>4 DEF AtWork
  <2>1. CASE q = p
    BY <2>1 DEF OpenFile, TypeOK, AtWork
  <2>2. CASE q # p
    BY <1>4, <2>2 DEF TypeOK, AtWork
  <2> QED  BY <2>1, <2>2
<1>8. WritersAreWriting'
  <2> SUFFICES ASSUME NEW g \in Paths, NEW q \in files'[g].writers
               PROVE  pc'[q] = "writing" /\ g = File(q)'
    BY DEF WritersAreWriting
  <2>1. File(q)' = File(q)
    BY <1>4 DEF File
  <2>2. CASE g = f /\ q = p
    BY <1>4, <2>1, <2>2 DEF TypeOK
  <2>3. CASE ~(g = f /\ q = p)
    <3>1. q \in files[g].writers
      BY <1>5, <2>3 DEF w
    <3>2. q \in Instances /\ pc[q] = "writing" /\ g = File(q)
      BY <3>1 DEF TypeOK, FileStates, WritersAreWriting
    <3>3. pc'[q] = "writing"
      BY <1>4, <3>2 DEF TypeOK
    <3> QED  BY <2>1, <3>2, <3>3
  <2> QED  BY <2>2, <2>3
<1> QED  BY <1>5, <1>6, <1>7, <1>8 DEF TypeOK, OpenFile, Labels

LEMMA FinishWriteKeepsTypes ==
  ASSUME TypeOK, NEW p \in Instances, FinishWrite(p)
  PROVE  TypeOK'
<1> DEFINE f == File(p)
<1>1. f \in Paths /\ files \in [Paths -> FileStates]
  BY FileExists DEF FinishWrite, TypeOK
<1>2. PICK content \in Written(f, p) :
        files' = [files EXCEPT ![f].content = content, ![f].writers = @ \ {p}]
  BY DEF FinishWrite
<1>3. content \in Composites \cup {NoFile, Unfinished}
  <2>1. composite[p] \in Composites
    BY DEF FinishWrite, TypeOK, AtWork
  <2>2. files[f].content \in Composites \cup {NoFile, Unfinished}
    BY <1>1 DEF FileStates
  <2> QED  BY <2>1, <2>2 DEF Written
<1>4. /\ pc' = [pc EXCEPT ![p] = "show"]
      /\ composite' = [composite EXCEPT ![p] = Unfinished]
      /\ UNCHANGED <<transition, step>>
  BY DEF FinishWrite, Goto
<1> HIDE DEF f
<1>5. /\ files' \in [Paths -> FileStates]
      /\ files'[f].writers = files[f].writers \ {p}
      /\ \A g \in Paths \ {f} : files'[g].writers = files[g].writers
  BY <1>1, <1>2, <1>3 DEF FileStates
<1>6. /\ pc' \in [Instances -> Labels]
      /\ composite' \in [Instances -> Composites \cup {Unfinished}]
  BY <1>4 DEF TypeOK, Labels
<1>7. AtWork'
  <2> SUFFICES ASSUME NEW q \in Instances
               PROVE  /\ pc'[q] \notin {"idle", "terminated"} => step[q] < transition[q].steps
                      /\ pc'[q] \in {"write", "writing"} => composite'[q] \in Composites
    BY <1>4 DEF AtWork
  <2>1. CASE q = p
    BY <1>4, <2>1 DEF FinishWrite, TypeOK, AtWork
  <2>2. CASE q # p
    BY <1>4, <2>2 DEF TypeOK, AtWork
  <2> QED  BY <2>1, <2>2
<1>8. WritersAreWriting'
  <2> SUFFICES ASSUME NEW g \in Paths, NEW q \in files'[g].writers
               PROVE  pc'[q] = "writing" /\ g = File(q)'
    BY DEF WritersAreWriting
  <2>1. q \in files[g].writers
    BY <1>5
  <2>2. q \in Instances /\ pc[q] = "writing" /\ g = File(q)
    BY <2>1 DEF TypeOK, FileStates, WritersAreWriting
  <2>3. q # p
    BY <1>5, <2>2 DEF f
  <2> QED  BY <1>4, <2>2, <2>3 DEF TypeOK, File
<1> QED  BY <1>5, <1>6, <1>7, <1>8 DEF TypeOK, FinishWrite, Labels

LEMMA ShowKeepsTypes ==
  ASSUME TypeOK, NEW p \in Instances, Show(p)
  PROVE  TypeOK'
<1> DEFINE label == IF step[p] + 1 = transition[p].steps THEN "idle" ELSE "lookUp"
<1>1. Goto(p, label) /\ label \in Labels /\ pc[p] = "show"
  BY DEF Show, Labels
<1>2. /\ step' = [step EXCEPT ![p] = @ + 1]
      /\ UNCHANGED <<files, transition, composite>>
  BY DEF Show
<1>3. shown' \in [Instances -> Composites \cup {NoFile, Unfinished}]
  <2>1. File(p) \in Paths
    BY <1>1, FileExists
  <2>2. files[File(p)].content \in Composites \cup {NoFile, Unfinished}
    BY <2>1 DEF TypeOK, FileStates
  <2>3. shown' = [shown EXCEPT ![p] = files[File(p)].content]
    BY DEF Show
  <2> QED  BY <2>2, <2>3 DEF TypeOK
<1>4. pc' \in [Instances -> Labels] /\ step' \in [Instances -> Nat]
  BY <1>1, <1>2 DEF TypeOK, Goto, Labels
<1>5. AtWork'
  <2> SUFFICES ASSUME NEW q \in Instances
               PROVE  /\ pc'[q] \notin {"idle", "terminated"} => step'[q] < transition[q].steps
                      /\ pc'[q] \in {"write", "writing"} => composite[q] \in Composites
    BY <1>2 DEF AtWork
  <2>1. CASE q = p
    <3>1. /\ step[p] \in Nat /\ step[p] < transition[p].steps
          /\ transition[p].steps \in Nat
      BY <1>1, CacheAssumption DEF TypeOK, AtWork, IsTransition
    <3>2. step'[p] = step[p] + 1 /\ pc'[p] = label
      BY <1>1, <1>2 DEF TypeOK, Goto
    <3> QED  BY <2>1, <3>1, <3>2
  <2>2. CASE q # p
    <3>1. step'[q] = step[q] /\ pc'[q] = pc[q]
      BY <1>1, <1>2, <2>2 DEF TypeOK, Goto
    <3> QED  BY <3>1 DEF TypeOK, AtWork
  <2> QED  BY <2>1, <2>2
<1>6. WritersAreWriting'
  <2>1. \A q \in Instances \ {p} : transition'[q] = transition[q] /\ step'[q] = step[q]
    BY <1>2 DEF TypeOK
  <2> HIDE DEF label
  <2> QED  BY <1>1, <1>2, <2>1, OthersKeepWriting
<1> QED  BY <1>3, <1>4, <1>5, <1>6 DEF TypeOK, Show, Labels

LEMMA CrashKeepsTypes ==
  ASSUME TypeOK, NEW p \in Instances, Crash(p)
  PROVE  TypeOK'
<1>1. /\ pc' = [pc EXCEPT ![p] = "idle"]
      /\ step' = [step EXCEPT ![p] = 0]
      /\ composite' = [composite EXCEPT ![p] = Unfinished]
      /\ UNCHANGED transition
  BY DEF Crash, Goto
<1>2. /\ files' \in [Paths -> FileStates]
      /\ \A f \in Paths : files'[f].writers = files[f].writers \ {p}
  <2> DEFINE left(f) == IF p \in files[f].writers
                        THEN [files[f] EXCEPT !.writers = @ \ {p}, !.mixed = TRUE]
                        ELSE files[f]
  <2>1. ASSUME NEW f \in Paths
        PROVE  left(f) \in FileStates /\ left(f).writers = files[f].writers \ {p}
    <3>1. files[f] \in FileStates
      BY DEF TypeOK
    <3>2. CASE p \in files[f].writers
      BY <3>1, <3>2 DEF FileStates
    <3>3. CASE p \notin files[f].writers
      BY <3>1, <3>3 DEF FileStates
    <3> QED  BY <3>2, <3>3
  <2>2. files' = [f \in Paths |-> left(f)]
    BY DEF Crash
  <2> HIDE DEF left
  <2> QED  BY <2>1, <2>2
<1>3. /\ pc' \in [Instances -> Labels]
      /\ step' \in [Instances -> Nat]
      /\ composite' \in [Instances -> Composites \cup {Unfinished}]
  BY <1>1 DEF TypeOK, Labels
<1>4. crashes' \in 0 .. MaxCrashes
  <2>1. MaxCrashes \in Nat
    BY CacheAssumption
  <2>2. crashes \in 0 .. MaxCrashes /\ crashes < MaxCrashes /\ crashes' = crashes + 1
    BY DEF Crash, TypeOK
  <2> QED  BY <2>1, <2>2
<1>5. AtWork'
  <2> SUFFICES ASSUME NEW q \in Instances
               PROVE  /\ pc'[q] \notin {"idle", "terminated"} => step'[q] < transition[q].steps
                      /\ pc'[q] \in {"write", "writing"} => composite'[q] \in Composites
    BY <1>1 DEF AtWork
  <2>1. CASE q = p
    BY <1>1, <2>1 DEF TypeOK
  <2>2. CASE q # p
    BY <1>1, <2>2 DEF TypeOK, AtWork
  <2> QED  BY <2>1, <2>2
<1>6. WritersAreWriting'
  <2> SUFFICES ASSUME NEW f \in Paths, NEW q \in files'[f].writers
               PROVE  pc'[q] = "writing" /\ f = File(q)'
    BY DEF WritersAreWriting
  <2>1. q \in files[f].writers /\ q # p
    BY <1>2
  <2>2. q \in Instances /\ pc[q] = "writing" /\ f = File(q)
    BY <2>1 DEF TypeOK, FileStates, WritersAreWriting
  <2> QED  BY <1>1, <2>1, <2>2 DEF TypeOK, File
<1> QED  BY <1>2, <1>3, <1>4, <1>5, <1>6 DEF TypeOK, Crash, Labels

LEMMA ChangedImagesKeepTypes ==
  ASSUME TypeOK, NEW image \in Images, Replace(image) \/ Remove(image)
  PROVE  TypeOK'
<1>1. version' \in [Images -> Nat] /\ removed' \subseteq Images
  BY DEF Replace, Remove, TypeOK
<1>2. UNCHANGED <<cacheDir, files, pc, transition, step, composite, shown, crashes>>
  BY DEF Replace, Remove
<1>3. AtWork' /\ WritersAreWriting'
  BY <1>2 DEF TypeOK, AtWork, WritersAreWriting, File
<1> QED  BY <1>1, <1>2, <1>3 DEF TypeOK

LEMMA WorkKeepsTypes ==
  ASSUME TypeOK, NEW p \in Instances, Work(p)
  PROVE  TypeOK'
<1>1. CASE MakeDirectory(p)
  BY <1>1, MoveKeepsTypes DEF MakeDirectory, Labels, TypeOK
<1>2. CASE FailNoCacheDir(p)
  BY <1>2, MoveKeepsTypes DEF FailNoCacheDir, Labels, TypeOK
<1>3. CASE FindComposite(p)
  BY <1>3, MoveKeepsTypes DEF FindComposite, Labels, TypeOK
<1>4. CASE MissComposite(p)
  BY <1>4, MoveKeepsTypes DEF MissComposite, Labels, TypeOK
<1>5. CASE FindTemporary(p)
  <2> DEFINE label == IF Exists(File(p)) THEN "create" ELSE "place"
  <2>1. Goto(p, label) /\ label \in Labels \ {"write", "writing"}
    BY <1>5 DEF FindTemporary, Labels
  <2> HIDE DEF label
  <2> QED  BY <1>5, <2>1, MoveKeepsTypes DEF FindTemporary, TypeOK
<1>6. CASE PlaceTemporary(p)
  BY <1>6, PlaceTemporaryKeepsTypes
<1>7. CASE FailFileDoesntExist(p)
  BY <1>7, MoveKeepsTypes DEF FailFileDoesntExist, Labels, TypeOK
<1>8. CASE ReadImages(p)
  BY <1>8, ReadImagesKeepsTypes
<1>9. CASE OpenFile(p)
  BY <1>9, OpenFileKeepsTypes
<1>10. CASE FinishWrite(p)
  BY <1>10, FinishWriteKeepsTypes
<1>11. CASE Show(p)
  BY <1>11, ShowKeepsTypes
<1> QED  BY <1>1, <1>2, <1>3, <1>4, <1>5, <1>6, <1>7, <1>8, <1>9, <1>10, <1>11
         DEF Work

LEMMA StepTypes == TypeOK /\ [Next]_vars => TypeOK'
<1> SUFFICES ASSUME TypeOK, [Next]_vars PROVE TypeOK'
  OBVIOUS
<1>1. ASSUME NEW p \in Instances, Work(p) PROVE TypeOK'
  BY <1>1, WorkKeepsTypes
<1>2. ASSUME NEW p \in Instances, Crash(p) PROVE TypeOK'
  BY <1>2, CrashKeepsTypes
<1>3. ASSUME NEW p \in Instances, NEW t \in Transitions, Begin(p, t) PROVE TypeOK'
  BY <1>3, BeginKeepsTypes
<1>4. ASSUME NEW image \in Images, Replace(image) \/ Remove(image) PROVE TypeOK'
  BY <1>4, ChangedImagesKeepTypes
<1>5. CASE UNCHANGED vars
  BY <1>5 DEF vars, TypeOK, AtWork, WritersAreWriting, File
<1> QED  BY <1>1, <1>2, <1>3, <1>4, <1>5 DEF Next

\* All variables keep their types, no instance at work is beyond the end of its
\* transition, and a file is only open where an instance is writing it.
THEOREM TypeCorrect == Spec => []TypeOK
<1> QED  BY InitTypes, StepTypes, PTL DEF Spec

-------------------------------------------------------------------------------
(* Names. *)

LEMMA PathsByPlace ==
  ASSUME NEW r \in Steps, NEW t \in Transitions, NEW i \in Nat,
         CompositePath(r[1], r[2]) = Path(t, i)
  PROVE  ~t.inPlace /\ CompositePath(r[1], r[2]) = CompositePath(t, i)
<1>1. CompositePath(r[1], r[2]).place = "cache"
  BY DEF CompositePath
<1>2. TemporaryPath(t).place = "temporary"
  BY DEF TemporaryPath
<1> QED  BY <1>1, <1>2 DEF Path

\* Whoever writes a file whose name is unique writes what belongs there.
LEMMA UniquePathRequest ==
  ASSUME NEW r \in Steps, UniquePath(r[1], r[2]),
         NEW t \in Transitions, NEW i \in Nat, i < t.steps,
         CompositePath(r[1], r[2]) = Path(t, i)
  PROVE  Request(t, i) = Request(r[1], r[2])
<1> DEFINE own == <<t, i>>
<1>1. own \in Steps /\ own[1] = t /\ own[2] = i
  BY StepsExist
<1>2. ~t.inPlace /\ CompositePath(t, i) = CompositePath(r[1], r[2])
  BY PathsByPlace
<1> HIDE DEF own
<1> QED  BY <1>1, <1>2 DEF UniquePath

LEMMA InterpolatedIsOwn ==
  ASSUME NEW t \in Transitions, NEW i \in Nat
  PROVE  MadeFor(Interpolated(t, i), t, i)
BY DEF MadeFor, RequestOf, Interpolated, At, Request

LEMMA CachedPathsExist ==
  ASSUME NEW r \in Steps, ~r[1].inPlace
  PROVE  /\ r[1] \in Transitions /\ r[2] \in Nat /\ r[2] < r[1].steps
         /\ Path(r[1], r[2]) = CompositePath(r[1], r[2])
         /\ CompositePath(r[1], r[2]) \in Paths
<1>1. r[1] \in Transitions /\ r[2] \in Nat /\ r[2] < r[1].steps
  BY DEF Steps
<1>2. Path(r[1], r[2]) = CompositePath(r[1], r[2])
  BY DEF Path
<1> QED  BY <1>1, <1>2 DEF Paths

-------------------------------------------------------------------------------
(* The cache holds its own composites. *)

OwnInv == TypeOK /\ CacheHoldsItsOwn

\* A step after which each file holds what it held, nothing, or what a writer
\* had for it.
LEMMA FilesKeepTheirOwn ==
  ASSUME OwnInv,
         \A f \in Paths :
           \/ files'[f].content \in {files[f].content, NoFile, Unfinished}
           \/ \E p \in Instances : /\ pc[p] = "writing" /\ f = File(p)
                                   /\ files'[f].content = composite[p]
  PROVE  FilesHoldTheirOwn'
<1> SUFFICES ASSUME NEW r \in Steps, ~r[1].inPlace, UniquePath(r[1], r[2])
             PROVE  MadeFor(files'[CompositePath(r[1], r[2])].content, r[1], r[2])
  BY DEF FilesHoldTheirOwn, MadeFor, RequestOf
<1> DEFINE f == CompositePath(r[1], r[2])
<1>1. f \in Paths
  BY CachedPathsExist
<1>2. MadeFor(files[f].content, r[1], r[2])
  BY DEF OwnInv, CacheHoldsItsOwn, FilesHoldTheirOwn
<1>3. CASE files'[f].content = files[f].content
  BY <1>2, <1>3
<1>4. CASE files'[f].content \in {NoFile, Unfinished}
  BY <1>4, ContentAssumption DEF MadeFor
<1>5. ASSUME NEW p \in Instances, pc[p] = "writing", f = File(p),
             files'[f].content = composite[p]
      PROVE  MadeFor(files'[f].content, r[1], r[2])
  <2>1. transition[p] \in Transitions /\ step[p] \in Nat /\ step[p] < transition[p].steps
    BY <1>5 DEF OwnInv, TypeOK, AtWork
  <2>2. Request(transition[p], step[p]) = Request(r[1], r[2])
    BY <1>5, <2>1, UniquePathRequest DEF File
  <2>3. MadeFor(composite[p], transition[p], step[p])
    BY <1>5 DEF OwnInv, CacheHoldsItsOwn, WritersHoldTheirOwn
  <2> QED  BY <1>5, <2>2, <2>3 DEF MadeFor
<1> HIDE DEF f
<1>6. \/ files'[f].content = files[f].content
      \/ files'[f].content \in {NoFile, Unfinished}
      \/ \E p \in Instances : /\ pc[p] = "writing" /\ f = File(p)
                              /\ files'[f].content = composite[p]
  BY <1>1
<1> QED  BY <1>3, <1>4, <1>5, <1>6 DEF f

\* A step of one instance that does not start to write.
LEMMA WritersKeepTheirOwn ==
  ASSUME OwnInv, NEW p \in Instances, NEW label \in Labels, Goto(p, label),
         \/ label \notin {"write", "writing"}
         \/ /\ pc[p] = "write"
            /\ UNCHANGED <<composite, transition, step>>,
         \A q \in Instances \ {p} : /\ composite'[q] = composite[q]
                                    /\ transition'[q] = transition[q]
                                    /\ step'[q] = step[q]
  PROVE  WritersHoldTheirOwn'
<1> SUFFICES ASSUME NEW q \in Instances, pc'[q] \in {"write", "writing"}
             PROVE  MadeFor(composite'[q], transition'[q], step'[q])
  BY DEF WritersHoldTheirOwn, MadeFor, RequestOf, Request, Percentage
<1>1. pc' = [pc EXCEPT ![p] = label] /\ pc \in [Instances -> Labels]
  BY DEF Goto, OwnInv, TypeOK, Labels
<1>2. CASE q = p
  <2>1. pc[p] = "write" /\ UNCHANGED <<composite, transition, step>>
    BY <1>1, <1>2
  <2>2. MadeFor(composite[q], transition[q], step[q])
    BY <1>2, <2>1 DEF OwnInv, CacheHoldsItsOwn, WritersHoldTheirOwn
  <2> QED  BY <2>1, <2>2
<1>3. CASE q # p
  <2>1. /\ pc[q] \in {"write", "writing"} /\ composite'[q] = composite[q]
        /\ transition'[q] = transition[q] /\ step'[q] = step[q]
    BY <1>1, <1>3
  <2>2. MadeFor(composite[q], transition[q], step[q])
    BY <2>1 DEF OwnInv, CacheHoldsItsOwn, WritersHoldTheirOwn
  <2> QED  BY <2>1, <2>2
<1> QED  BY <1>2, <1>3

LEMMA InitOwn == Init => CacheHoldsItsOwn
<1> SUFFICES ASSUME Init PROVE CacheHoldsItsOwn
  OBVIOUS
<1>1. FilesHoldTheirOwn
  <2> SUFFICES ASSUME NEW r \in Steps, ~r[1].inPlace
               PROVE  MadeFor(files[CompositePath(r[1], r[2])].content, r[1], r[2])
    BY DEF FilesHoldTheirOwn
  <2>1. CompositePath(r[1], r[2]) \in Paths
    BY CachedPathsExist
  <2>2. files[CompositePath(r[1], r[2])].content = NoFile
    BY <2>1 DEF Init
  <2> QED  BY <2>2, ContentAssumption DEF MadeFor
<1>2. WritersHoldTheirOwn
  BY DEF Init, WritersHoldTheirOwn
<1> QED  BY <1>1, <1>2 DEF CacheHoldsItsOwn

\* Steps that leave files alone and do not start to write.
LEMMA MoveKeepsOwn ==
  ASSUME OwnInv, NEW p \in Instances, NEW label \in Labels \ {"write", "writing"},
         Goto(p, label), UNCHANGED <<files, composite>>,
         \A q \in Instances \ {p} : transition'[q] = transition[q] /\ step'[q] = step[q]
  PROVE  CacheHoldsItsOwn'
<1>1. FilesHoldTheirOwn'
  BY FilesKeepTheirOwn
<1>2. WritersHoldTheirOwn'
  BY WritersKeepTheirOwn
<1> QED  BY <1>1, <1>2 DEF CacheHoldsItsOwn

\* Steps that open a file.
LEMMA OpeningKeepsOwn ==
  ASSUME OwnInv, NEW p \in Instances, pc[p] \notin {"idle", "terminated"},
         NEW writers \in SUBSET Instances, files' = Opened(File(p), writers)
  PROVE  FilesHoldTheirOwn'
<1> DEFINE f == File(p)
<1>1. TypeOK /\ f \in Paths
  BY FileExists DEF OwnInv
<1> HIDE DEF f
<1>2. files' = Opened(f, writers)
  BY DEF f
<1>3. \A g \in Paths : files'[g].content \in {files[g].content, NoFile, Unfinished}
  BY <1>1, <1>2, OpenedProperties
<1> QED  BY <1>3, FilesKeepTheirOwn

LEMMA WorkKeepsOwn ==
  ASSUME OwnInv, NEW p \in Instances, Work(p)
  PROVE  CacheHoldsItsOwn'
<1> USE DEF Labels
<1>0. TypeOK
  BY DEF OwnInv
<1>1. CASE MakeDirectory(p)
  BY <1>1, MoveKeepsOwn DEF MakeDirectory
<1>2. CASE FailNoCacheDir(p)
  BY <1>2, MoveKeepsOwn DEF FailNoCacheDir
<1>3. CASE FindComposite(p)
  BY <1>3, MoveKeepsOwn DEF FindComposite
<1>4. CASE MissComposite(p)
  BY <1>4, MoveKeepsOwn DEF MissComposite
<1>5. CASE FindTemporary(p)
  <2> DEFINE label == IF Exists(File(p)) THEN "create" ELSE "place"
  <2>1. Goto(p, label) /\ label \in Labels \ {"write", "writing"}
    BY <1>5 DEF FindTemporary
  <2> HIDE DEF label
  <2> QED  BY <1>5, <2>1, MoveKeepsOwn DEF FindTemporary
<1>6. CASE PlaceTemporary(p)
  <2>1. files[File(p)].writers \in SUBSET Instances
    BY <1>0, <1>6, FileExists DEF PlaceTemporary, TypeOK, FileStates
  <2>2. FilesHoldTheirOwn'
    BY <1>6, <2>1, OpeningKeepsOwn DEF PlaceTemporary
  <2>3. WritersHoldTheirOwn'
    BY <1>6, WritersKeepTheirOwn DEF PlaceTemporary
  <2> QED  BY <2>2, <2>3 DEF CacheHoldsItsOwn
<1>7. CASE FailFileDoesntExist(p)
  BY <1>7, MoveKeepsOwn DEF FailFileDoesntExist
<1>8. CASE ReadImages(p)
  <2>1. FilesHoldTheirOwn'
    BY <1>8, FilesKeepTheirOwn DEF ReadImages
  <2>2. ASSUME NEW q \in Instances, pc'[q] \in {"write", "writing"}
        PROVE  MadeFor(composite'[q], transition[q], step[q])
    <3>1. /\ composite' = [composite EXCEPT ![p] = Interpolated(transition[p], step[p])]
          /\ pc' = [pc EXCEPT ![p] = "write"]
      BY <1>8 DEF ReadImages, Goto
    <3>2. CASE q = p
      <4>1. composite'[q] = Interpolated(transition[q], step[q])
        BY <1>0, <3>1, <3>2 DEF TypeOK
      <4>2. transition[q] \in Transitions /\ step[q] \in Nat
        BY <1>0 DEF TypeOK
      <4> QED  BY <4>1, <4>2, InterpolatedIsOwn
    <3>3. CASE q # p
      <4>1. composite'[q] = composite[q] /\ pc[q] \in {"write", "writing"}
        BY <1>0, <2>2, <3>1, <3>3 DEF TypeOK
      <4> QED  BY <4>1 DEF OwnInv, CacheHoldsItsOwn, WritersHoldTheirOwn
    <3> QED  BY <3>2, <3>3
  <2>3. WritersHoldTheirOwn'
    <3>1. UNCHANGED <<transition, step>>
      BY <1>8 DEF ReadImages
    <3> QED  BY <2>2, <3>1 DEF WritersHoldTheirOwn, MadeFor, RequestOf, Request, Percentage
  <2> QED  BY <2>1, <2>3 DEF CacheHoldsItsOwn
<1>9. CASE OpenFile(p)
  <2>1. files[File(p)].writers \cup {p} \in SUBSET Instances
    BY <1>0, <1>9, FileExists DEF OpenFile, TypeOK, FileStates
  <2>2. FilesHoldTheirOwn'
    BY <1>9, <2>1, OpeningKeepsOwn DEF OpenFile
  <2>3. WritersHoldTheirOwn'
    BY <1>9, WritersKeepTheirOwn DEF OpenFile
  <2> QED  BY <2>2, <2>3 DEF CacheHoldsItsOwn
<1>10. CASE FinishWrite(p)
  <2> DEFINE f == File(p)
  <2>1. f \in Paths /\ files \in [Paths -> FileStates] /\ pc[p] = "writing"
    BY <1>0, <1>10, FileExists DEF FinishWrite, TypeOK
  <2>2. PICK content \in {composite[p], files[f].content, Unfinished} :
          files' = [files EXCEPT ![f].content = content, ![f].writers = @ \ {p}]
    BY <1>10 DEF FinishWrite, Written
  <2>3. /\ files'[f].content = content
        /\ \A g \in Paths \ {f} : files'[g].content = files[g].content
    <3> HIDE DEF f
    <3> QED  BY <2>1, <2>2 DEF FileStates
  <2>4. FilesHoldTheirOwn'
    BY <2>1, <2>2, <2>3, FilesKeepTheirOwn
  <2>5. WritersHoldTheirOwn'
    <3>1. Goto(p, "show") /\ UNCHANGED <<transition, step>>
      BY <1>10 DEF FinishWrite
    <3>2. \A q \in Instances \ {p} : composite'[q] = composite[q]
      BY <1>0, <1>10 DEF FinishWrite, TypeOK
    <3> QED  BY <3>1, <3>2, WritersKeepTheirOwn
  <2> QED  BY <2>4, <2>5 DEF CacheHoldsItsOwn
<1>11. CASE Show(p)
  <2> DEFINE label == IF step[p] + 1 = transition[p].steps THEN "idle" ELSE "lookUp"
  <2>1. Goto(p, label) /\ label \in Labels \ {"write", "writing"}
    BY <1>11 DEF Show
  <2>2. /\ UNCHANGED <<files, composite, transition>>
        /\ \A q \in Instances \ {p} : step'[q] = step[q]
    BY <1>0, <1>11 DEF Show, TypeOK
  <2> HIDE DEF label
  <2> QED  BY <2>1, <2>2, MoveKeepsOwn
<1> QED  BY <1>1, <1>2, <1>3, <1>4, <1>5, <1>6, <1>7, <1>8, <1>9, <1>10, <1>11
         DEF Work

LEMMA StepOwn == OwnInv /\ [Next]_vars => CacheHoldsItsOwn'
<1> SUFFICES ASSUME OwnInv, [Next]_vars PROVE CacheHoldsItsOwn'
  OBVIOUS
<1>0. TypeOK
  BY DEF OwnInv
<1>1. ASSUME NEW p \in Instances, Work(p) PROVE CacheHoldsItsOwn'
  BY <1>1, WorkKeepsOwn
<1>2. ASSUME NEW p \in Instances, Crash(p) PROVE CacheHoldsItsOwn'
  <2>1. \A f \in Paths : files'[f].content = files[f].content
    BY <1>0, <1>2 DEF Crash, TypeOK, FileStates
  <2>2. FilesHoldTheirOwn'
    BY <2>1, FilesKeepTheirOwn
  <2>3. /\ Goto(p, "idle") /\ UNCHANGED transition
        /\ \A q \in Instances \ {p} : composite'[q] = composite[q] /\ step'[q] = step[q]
    BY <1>0, <1>2 DEF Crash, TypeOK
  <2>4. WritersHoldTheirOwn'
    BY <2>3, WritersKeepTheirOwn DEF Labels
  <2> QED  BY <2>2, <2>4 DEF CacheHoldsItsOwn
<1>3. ASSUME NEW p \in Instances, NEW t \in Transitions, Begin(p, t)
      PROVE  CacheHoldsItsOwn'
  <2> DEFINE label == IF cacheDir THEN "lookUp" ELSE "makeDirectory"
  <2>1. Goto(p, label) /\ label \in Labels \ {"write", "writing"}
    BY <1>3 DEF Begin, Labels
  <2>2. /\ UNCHANGED <<files, composite>>
        /\ \A q \in Instances \ {p} : transition'[q] = transition[q] /\ step'[q] = step[q]
    BY <1>0, <1>3 DEF Begin, TypeOK
  <2> HIDE DEF label
  <2> QED  BY <2>1, <2>2, MoveKeepsOwn
<1>4. CASE UNCHANGED <<files, pc, transition, step, composite>>
  <2>1. FilesHoldTheirOwn'
    BY <1>4, FilesKeepTheirOwn
  <2>2. WritersHoldTheirOwn'
    BY <1>4 DEF OwnInv, CacheHoldsItsOwn, WritersHoldTheirOwn, MadeFor, RequestOf,
                Request, Percentage
  <2> QED  BY <2>1, <2>2 DEF CacheHoldsItsOwn
<1>5. ASSUME NEW image \in Images, Replace(image) \/ Remove(image)
      PROVE  CacheHoldsItsOwn'
  BY <1>4, <1>5 DEF Replace, Remove
<1>6. CASE UNCHANGED vars
  BY <1>4, <1>6 DEF vars
<1> QED  BY <1>1, <1>2, <1>3, <1>5, <1>6 DEF Next

THEOREM OwnInvariant == Spec => []OwnInv
<1>1. Init => OwnInv
  BY InitTypes, InitOwn DEF OwnInv
<1>2. OwnInv /\ [Next]_vars => OwnInv'
  BY StepTypes, StepOwn DEF OwnInv
<1> QED  BY <1>1, <1>2, PTL DEF Spec

\* Without locks, with instances killed at any point and images replaced or
\* removed, no file of the cache ever holds what belongs to another name.
THEOREM CacheAlwaysHoldsItsOwn == Spec => []CacheHoldsItsOwn
<1>1. OwnInv => CacheHoldsItsOwn
  BY DEF OwnInv
<1> QED  BY <1>1, OwnInvariant, PTL

LEMMA StepShowsNothingForeign ==
  OwnInv /\ [Next]_vars =>
    \A p \in Instances :
      /\ step'[p] = step[p] + 1
      /\ ~transition[p].inPlace /\ UniquePath(transition[p], step[p])
      => MadeFor(shown'[p], transition[p], step[p])
<1> SUFFICES ASSUME OwnInv, [Next]_vars, NEW p \in Instances,
                    step'[p] = step[p] + 1, ~transition[p].inPlace,
                    UniquePath(transition[p], step[p])
             PROVE  MadeFor(shown'[p], transition[p], step[p])
  OBVIOUS
<1>0. TypeOK /\ step \in [Instances -> Nat] /\ step'[p] # step[p] /\ step'[p] # 0
  BY DEF OwnInv, TypeOK
<1>1. Show(p)
  <2>1. ASSUME NEW q \in Instances, Work(q) PROVE Show(q) /\ q = p
    <3>1. UNCHANGED step \/ Show(q)
      BY <2>1 DEF Work, MakeDirectory, FailNoCacheDir, FindComposite, MissComposite,
                  FindTemporary, PlaceTemporary, FailFileDoesntExist, ReadImages,
                  OpenFile, FinishWrite
    <3>2. Show(q)
      BY <1>0, <3>1
    <3> QED  BY <1>0, <3>2 DEF Show
  <2>2. ASSUME NEW q \in Instances, Crash(q) PROVE FALSE
    BY <1>0, <2>2 DEF Crash
  <2>3. ASSUME NEW q \in Instances, NEW t \in Transitions, Begin(q, t) PROVE FALSE
    BY <1>0, <2>3 DEF Begin
  <2>4. ASSUME NEW image \in Images, Replace(image) \/ Remove(image) PROVE FALSE
    BY <1>0, <2>4 DEF Replace, Remove
  <2>5. ~UNCHANGED vars
    BY <1>0 DEF vars
  <2> QED  BY <2>1, <2>2, <2>3, <2>4, <2>5 DEF Next
<1> DEFINE r == <<transition[p], step[p]>>
<1>2. r \in Steps /\ r[1] = transition[p] /\ r[2] = step[p]
  BY <1>1, StepsExist DEF Show, OwnInv, TypeOK, AtWork
<1> HIDE DEF r
<1>3. File(p) = CompositePath(r[1], r[2])
  BY <1>2 DEF File, Path
<1>4. MadeFor(files[CompositePath(r[1], r[2])].content, r[1], r[2])
  BY <1>2 DEF OwnInv, CacheHoldsItsOwn, FilesHoldTheirOwn
<1>5. shown'[p] = files[File(p)].content
  BY <1>1 DEF Show, OwnInv, TypeOK
<1> QED  BY <1>2, <1>3, <1>4, <1>5

\* What an instance puts on screen from the cache was made for the step that asks
\* for it, unless it is unfinished or the names are the same.
THEOREM NothingForeignIsEverShown == Spec => NothingForeignIsShown
<1> QED  BY OwnInvariant, StepShowsNothingForeign, PTL DEF Spec, NothingForeignIsShown
-------------------------------------------------------------------------------
(* An instance that is not disturbed. *)

\* What the file of instance p holds on its way to the screen.
HoldsOwn(p) ==
  /\ pc[p] = "makeDirectory" => ~cacheDir
  /\ pc[p] = "place" => transition[p].inPlace
  /\ pc[p] \in {"create", "write"} /\ ~transition[p].inPlace
       => files[File(p)].content = NoFile
  /\ pc[p] = "writing" => /\ files[File(p)].content = Unfinished
                          /\ files[File(p)].writers = {p}
  /\ pc[p] = "show" => /\ files[File(p)].content \in Composites
                       /\ RequestOf(files[File(p)].content) = Request(transition[p], step[p])

\* Nothing is cut off: no file is mixed, and a file of the cache without all its
\* bytes is being written.
NothingLeftUnfinished ==
  \A f \in Paths :
    /\ ~files[f].mixed
    /\ f.place = "cache" /\ files[f].content = Unfinished
         => \E p \in Instances : pc[p] = "writing" /\ f = File(p)

AloneInv == OwnInv /\ NothingLeftUnfinished /\ \A p \in Instances : HoldsOwn(p)

LEMMA PlaceOfPaths ==
  ASSUME NEW p \in Instances
  PROVE  File(p).place = (IF transition[p].inPlace THEN "temporary" ELSE "cache")
BY DEF File, Path, TemporaryPath, CompositePath

LEMMA AloneAtWork ==
  ASSUME AloneInv, NEW p \in Instances, pc[p] \notin {"idle", "terminated"}
  PROVE  /\ TypeOK /\ File(p) \in Paths /\ files \in [Paths -> FileStates]
         /\ <<transition[p], step[p]>> \in Steps
<1>1. TypeOK
  BY DEF AloneInv, OwnInv
<1>2. <<transition[p], step[p]>> \in Steps
  BY <1>1, StepsExist DEF TypeOK, AtWork
<1> QED  BY <1>1, <1>2, FileExists DEF TypeOK

\* Who is alone and not writing finds every file closed.
LEMMA AloneClosed ==
  ASSUME AloneInv, NEW p \in Instances, Instances = {p}, pc[p] # "writing"
  PROVE  \A f \in Paths : /\ files[f].writers = {}
                          /\ f.place = "cache" => files[f].content # Unfinished
<1> SUFFICES ASSUME NEW f \in Paths
             PROVE  /\ files[f].writers = {}
                    /\ f.place = "cache" => files[f].content # Unfinished
  OBVIOUS
<1>1. files[f].writers \subseteq {p}
  BY DEF AloneInv, OwnInv, TypeOK, FileStates
<1>2. \A q \in files[f].writers : pc[q] = "writing"
  BY DEF AloneInv, OwnInv, TypeOK, WritersAreWriting
<1>3. f.place = "cache" => files[f].content # Unfinished
  BY DEF AloneInv, NothingLeftUnfinished
<1> QED  BY <1>1, <1>2, <1>3

\* A closed file that is opened is not mixed.
LEMMA OpenedAlone ==
  ASSUME AloneInv, NEW p \in Instances, Instances = {p}, pc[p] # "writing",
         pc[p] \notin {"idle", "terminated"}, NEW writers \in SUBSET Instances,
         files' = Opened(File(p), writers)
  PROVE  /\ files' \in [Paths -> FileStates]
         /\ files'[File(p)].content = Unfinished /\ files'[File(p)].writers = writers
         /\ \A g \in Paths \ {File(p)} : files'[g] = files[g]
         /\ \A g \in Paths : ~files'[g].mixed
<1> DEFINE f == File(p)
<1>1. TypeOK /\ f \in Paths /\ files[f].writers = {}
  BY AloneAtWork, AloneClosed
<1> HIDE DEF f
<1>2. /\ Opened(f, writers) \in [Paths -> FileStates]
      /\ Opened(f, writers)[f].content = Unfinished
      /\ Opened(f, writers)[f].writers = writers
      /\ \A g \in Paths \ {f} : Opened(f, writers)[g] = files[g]
  BY <1>1, OpenedProperties
<1>3. Opened(f, writers) =
        [files EXCEPT ![f] = [content |-> Unfinished, writers |-> writers, mixed |-> FALSE]]
  BY <1>1 DEF Opened
<1>4. Opened(f, writers)[f].mixed = FALSE
  BY <1>1, <1>3 DEF TypeOK
<1>5. \A g \in Paths : ~files[g].mixed
  BY DEF AloneInv, NothingLeftUnfinished
<1>6. files' = Opened(f, writers)
  BY DEF f
<1>7. \A g \in Paths : ~files'[g].mixed
  BY <1>2, <1>4, <1>5, <1>6
<1> QED  BY <1>2, <1>6, <1>7 DEF f

\* What is kept changes with the contents of the files only.
LEMMA KeptStays ==
  ASSUME files \in [Paths -> FileStates], files' \in [Paths -> FileStates],
         \A f \in Paths :
           f.place = "cache" => RequestOf(files'[f].content) = RequestOf(files[f].content)
  PROVE  Kept' = Kept
BY DEF Kept, RequestOf

LEMMA KeptGrows ==
  ASSUME files \in [Paths -> FileStates], files' \in [Paths -> FileStates],
         NEW f \in Paths, f.place = "cache",
         \A g \in Paths \ {f} : files'[g].content = files[g].content
  PROVE  Kept' = [Kept EXCEPT ![f] = RequestOf(files'[f].content)]
<1>1. \A g \in Paths : g # f => RequestOf(files'[g].content) = RequestOf(files[g].content)
  OBVIOUS
<1> QED  BY <1>1 DEF Kept, RequestOf

\* A step that leaves the files alone, while none is being written.
LEMMA MovesLeaveNothing ==
  ASSUME AloneInv, NEW p \in Instances, Instances = {p}, pc[p] # "writing",
         UNCHANGED files
  PROVE  NothingLeftUnfinished' /\ Kept' = Kept
<1>1. \A f \in Paths : f.place = "cache" => files[f].content # Unfinished
  BY AloneClosed
<1>2. \A f \in Paths : ~files[f].mixed
  BY DEF AloneInv, NothingLeftUnfinished
<1>3. Kept' = Kept
  BY KeptStays DEF AloneInv, OwnInv, TypeOK
<1> QED  BY <1>1, <1>2, <1>3 DEF NothingLeftUnfinished

LEMMA AskedStays ==
  ASSUME TypeOK, NEW p \in Instances, Instances = {p},
         pc[p] \notin {"idle", "terminated"}, pc'[p] \notin {"idle", "terminated"},
         UNCHANGED <<transition, step>>
  PROVE  Asked' = Asked
BY DEF Asked, Request, Percentage, StartImage, EndImage

\* A step that only moves the instance on its way, which the memo does not see.
LEMMA MovesStutter ==
  ASSUME AloneInv, NEW p \in Instances, Instances = {p}, pc[p] # "writing",
         pc[p] \notin {"idle", "terminated"}, pc'[p] \notin {"idle", "terminated"},
         UNCHANGED <<files, transition, step, shown>>
  PROVE  NothingLeftUnfinished' /\ UNCHANGED Memo!vars
<1>1. Asked' = Asked
  BY AskedStays DEF AloneInv, OwnInv
<1>2. Presented' = Presented
  BY DEF Presented, RequestOf
<1> QED  BY <1>1, <1>2, MovesLeaveNothing DEF Memo!vars

LEMMA FindCompositeAlone ==
  ASSUME AloneInv, Undisturbed, NEW p \in Instances, Instances = {p}, FindComposite(p)
  PROVE  HoldsOwn(p)' /\ NothingLeftUnfinished' /\ UNCHANGED Memo!vars
<1> DEFINE r == <<transition[p], step[p]>>
<1>1. /\ pc[p] = "lookUp" /\ ~transition[p].inPlace /\ files[File(p)].content # NoFile
      /\ pc' = [pc EXCEPT ![p] = "show"]
      /\ UNCHANGED <<files, transition, step, shown>>
  BY DEF FindComposite, Exists, Goto
<1>2. /\ TypeOK /\ File(p) \in Paths /\ files \in [Paths -> FileStates] /\ r \in Steps
      /\ pc'[p] = "show"
  BY <1>1, AloneAtWork DEF TypeOK
<1>3. r[1] = transition[p] /\ r[2] = step[p] /\ File(p) = CompositePath(r[1], r[2])
  BY <1>1 DEF File, Path
<1> HIDE DEF r
<1>4. MadeFor(files[File(p)].content, r[1], r[2])
  <2>1. UniquePath(r[1], r[2])
    BY <1>1, <1>2, <1>3 DEF Undisturbed
  <2> QED  BY <1>1, <1>2, <1>3, <2>1 DEF AloneInv, OwnInv, CacheHoldsItsOwn, FilesHoldTheirOwn
<1>5. files[File(p)].content # Unfinished
  BY <1>1, <1>2, AloneClosed, PlaceOfPaths
<1>6. files[File(p)].content \in Composites
  BY <1>1, <1>2, <1>5 DEF FileStates
<1>7. RequestOf(files[File(p)].content) = Request(transition[p], step[p])
  BY <1>3, <1>4, <1>6 DEF MadeFor
<1>8. File(p)' = File(p)
  BY <1>1 DEF File, Path, CompositePath, TemporaryPath, Percentage, Extension
<1>9. HoldsOwn(p)'
  BY <1>1, <1>2, <1>6, <1>7, <1>8
     DEF HoldsOwn, Request, RequestOf, Percentage, StartImage, EndImage
<1> QED  BY <1>1, <1>2, <1>9, MovesStutter

LEMMA MovesAlone ==
  ASSUME AloneInv, Undisturbed, NEW p \in Instances, Instances = {p},
         \/ MakeDirectory(p) \/ FailNoCacheDir(p) \/ MissComposite(p)
         \/ FindTemporary(p) \/ ReadImages(p)
  PROVE  HoldsOwn(p)' /\ NothingLeftUnfinished' /\ UNCHANGED Memo!vars
<1>1. TypeOK /\ HoldsOwn(p)
  BY DEF AloneInv, OwnInv
<1>2. ~FailNoCacheDir(p)
  BY <1>1 DEF FailNoCacheDir, HoldsOwn
<1>3. /\ pc[p] \notin {"idle", "terminated", "writing"}
      /\ UNCHANGED <<files, transition, step, shown>>
  BY <1>2 DEF MakeDirectory, MissComposite, FindTemporary, ReadImages
<1>4. File(p)' = File(p)
  BY <1>3 DEF File, Path, CompositePath, TemporaryPath, Percentage, Extension
<1>5. \/ /\ pc'[p] = "lookUp"
      \/ /\ pc'[p] \in {"create", "place"} /\ transition[p].inPlace
      \/ /\ pc'[p] = "create" /\ files[File(p)].content = NoFile
      \/ /\ pc'[p] = "write" /\ pc[p] = "create"
  BY <1>1, <1>2
     DEF TypeOK, MakeDirectory, MissComposite, FindTemporary, ReadImages, Goto, Exists
<1>6. HoldsOwn(p)'
  BY <1>1, <1>3, <1>4, <1>5 DEF HoldsOwn
<1> QED  BY <1>3, <1>5, <1>6, MovesStutter

LEMMA PlaceTemporaryAlone ==
  ASSUME AloneInv, Undisturbed, NEW p \in Instances, Instances = {p}, PlaceTemporary(p)
  PROVE  HoldsOwn(p)' /\ NothingLeftUnfinished' /\ UNCHANGED Memo!vars
<1> DEFINE f == File(p)
           w == files[f].writers
<1>1. /\ pc[p] = "place" /\ pc' = [pc EXCEPT ![p] = "create"]
      /\ files' = Opened(f, w)
      /\ UNCHANGED <<transition, step, shown>>
  BY DEF PlaceTemporary, Goto
<1>2. TypeOK /\ f \in Paths /\ files \in [Paths -> FileStates] /\ pc'[p] = "create"
  BY <1>1, AloneAtWork DEF TypeOK
<1>3. w \in SUBSET Instances
  BY <1>2 DEF FileStates
<1>4. transition[p].inPlace /\ f.place = "temporary"
  BY <1>1, PlaceOfPaths DEF AloneInv, HoldsOwn
<1> HIDE DEF w
<1>5. /\ files' \in [Paths -> FileStates]
      /\ \A g \in Paths \ {f} : files'[g] = files[g]
      /\ \A g \in Paths : ~files'[g].mixed
  BY <1>1, <1>3, OpenedAlone
<1> HIDE DEF f
<1>6. \A g \in Paths : g.place = "cache" => files'[g] = files[g] /\ files[g].content # Unfinished
  BY <1>1, <1>4, <1>5, AloneClosed
<1>7. NothingLeftUnfinished'
  BY <1>5, <1>6 DEF NothingLeftUnfinished
<1>8. HoldsOwn(p)'
  BY <1>1, <1>2, <1>4 DEF HoldsOwn
<1>9. Kept' = Kept
  BY <1>2, <1>5, <1>6, KeptStays
<1>10. Asked' = Asked
  BY <1>1, <1>2, AskedStays
<1>11. Presented' = Presented
  BY <1>1 DEF Presented, RequestOf
<1> QED  BY <1>7, <1>8, <1>9, <1>10, <1>11 DEF Memo!vars

LEMMA OpenFileAlone ==
  ASSUME AloneInv, Undisturbed, NEW p \in Instances, Instances = {p}, OpenFile(p)
  PROVE  HoldsOwn(p)' /\ NothingLeftUnfinished' /\ UNCHANGED Memo!vars
<1> DEFINE f == File(p)
           w == files[f].writers \cup {p}
<1>1. /\ pc[p] = "write" /\ pc' = [pc EXCEPT ![p] = "writing"]
      /\ files' = Opened(f, w)
      /\ UNCHANGED <<transition, step, shown>>
  BY DEF OpenFile, Goto
<1>2. TypeOK /\ f \in Paths /\ files \in [Paths -> FileStates] /\ pc'[p] = "writing"
  BY <1>1, AloneAtWork DEF TypeOK
<1>3. w \in SUBSET Instances /\ w = {p}
  BY <1>1, <1>2, AloneClosed
<1>4. f.place = "cache" => files[f].content = NoFile
  BY <1>1, PlaceOfPaths DEF AloneInv, HoldsOwn
<1> HIDE DEF w
<1>5. /\ files' \in [Paths -> FileStates]
      /\ files'[f].content = Unfinished /\ files'[f].writers = w
      /\ \A g \in Paths \ {f} : files'[g] = files[g]
      /\ \A g \in Paths : ~files'[g].mixed
  BY <1>1, <1>3, OpenedAlone
<1>6. f' = f
  BY <1>1 DEF File, Path, CompositePath, TemporaryPath, Percentage, Extension
<1>7. \A g \in Paths : g.place = "cache" => files[g].content # Unfinished
  BY <1>1, AloneClosed
<1>8. NothingLeftUnfinished'
  <2> SUFFICES ASSUME NEW g \in Paths, g.place = "cache", files'[g].content = Unfinished
               PROVE  pc'[p] = "writing" /\ g = f'
    BY <1>5 DEF NothingLeftUnfinished
  <2> HIDE DEF f
  <2>1. g = f
    BY <1>5, <1>7
  <2> QED  BY <1>2, <1>6, <2>1
<1>9. HoldsOwn(p)'
  BY <1>2, <1>3, <1>5, <1>6 DEF HoldsOwn
<1>10. Kept' = Kept
  <2> HIDE DEF f
  <2>1. RequestOf(Unfinished) = NoFile /\ RequestOf(NoFile) = NoFile
    BY ContentAssumption DEF RequestOf
  <2> QED  BY <1>2, <1>4, <1>5, <2>1, KeptStays
<1>11. Asked' = Asked
  BY <1>1, <1>2, AskedStays
<1>12. Presented' = Presented
  BY <1>1 DEF Presented, RequestOf
<1> QED  BY <1>8, <1>9, <1>10, <1>11, <1>12 DEF Memo!vars

LEMMA FinishWriteAlone ==
  ASSUME AloneInv, Undisturbed, NEW p \in Instances, Instances = {p}, FinishWrite(p)
  PROVE  HoldsOwn(p)' /\ NothingLeftUnfinished' /\ [Memo!Next]_Memo!vars
<1> DEFINE f == File(p)
           c == composite[p]
           request == Request(transition[p], step[p])
<1>1. /\ pc[p] = "writing" /\ pc' = [pc EXCEPT ![p] = "show"]
      /\ UNCHANGED <<transition, step, shown>>
  BY DEF FinishWrite, Goto
<1>2. /\ TypeOK /\ f \in Paths /\ files \in [Paths -> FileStates] /\ pc'[p] = "show"
      /\ <<transition[p], step[p]>> \in Steps
  BY <1>1, AloneAtWork DEF TypeOK
<1>3. files[f].content = Unfinished /\ files[f].writers = {p} /\ ~files[f].mixed
  BY <1>1, <1>2 DEF AloneInv, HoldsOwn, NothingLeftUnfinished
<1>4. c \in Composites /\ RequestOf(c) = request
  <2>1. c \in Composites
    BY <1>1, <1>2 DEF TypeOK, AtWork
  <2>2. MadeFor(c, transition[p], step[p])
    BY <1>1 DEF AloneInv, OwnInv, CacheHoldsItsOwn, WritersHoldTheirOwn
  <2> QED  BY <2>1, <2>2 DEF MadeFor
<1>5. files' = [files EXCEPT ![f].content = c, ![f].writers = @ \ {p}]
  BY <1>3 DEF FinishWrite, Written
<1>6. f' = f /\ request' = request
  BY <1>1 DEF File, Path, CompositePath, TemporaryPath, Percentage, Extension, Request,
              StartImage, EndImage
<1>7. f.place = (IF transition[p].inPlace THEN "temporary" ELSE "cache")
  BY PlaceOfPaths
<1>8. request \in {Request(r[1], r[2]) : r \in Steps}
  <2> DEFINE r == <<transition[p], step[p]>>
  <2>1. r \in Steps /\ request = Request(r[1], r[2])
    BY <1>2
  <2> QED  BY <2>1
<1> HIDE DEF c, f, request
<1>9. /\ files' \in [Paths -> FileStates]
      /\ files'[f].content = c /\ files'[f].mixed = files[f].mixed
      /\ \A g \in Paths \ {f} : files'[g] = files[g]
  BY <1>2, <1>4, <1>5 DEF FileStates
<1>10. \A g \in Paths \ {f} : g.place = "cache" => files[g].content # Unfinished
  <2> SUFFICES ASSUME NEW g \in Paths \ {f}, g.place = "cache",
                      files[g].content = Unfinished
               PROVE  FALSE
    OBVIOUS
  <2>1. g = File(p)
    BY DEF AloneInv, NothingLeftUnfinished
  <2> QED  BY <2>1 DEF f
<1>11. NothingLeftUnfinished'
  <2>1. \A g \in Paths : ~files'[g].mixed
    BY <1>9 DEF AloneInv, NothingLeftUnfinished
  <2>2. \A g \in Paths : g.place = "cache" => files'[g].content # Unfinished
    BY <1>4, <1>9, <1>10, ContentAssumption
  <2> QED  BY <2>1, <2>2 DEF NothingLeftUnfinished
<1>12. HoldsOwn(p)'
  <2>1. RequestOf(files'[f].content) = request'
    BY <1>4, <1>6, <1>9
  <2>2. File(p)' = f /\ Request(transition[p], step[p])' = request'
    BY <1>6 DEF f, request
  <2>3. RequestOf(files[File(p)].content)' = RequestOf(files'[f].content)
    BY <2>2 DEF RequestOf
  <2> QED  BY <1>2, <1>4, <1>9, <2>1, <2>2, <2>3 DEF HoldsOwn
<1>13. Asked' = Asked
  BY <1>1, <1>2, AskedStays
<1>14. Presented' = Presented
  BY <1>1 DEF Presented, RequestOf
<1>15. CASE f.place = "cache"
  <2>1. Kept' = [Kept EXCEPT ![f] = request]
    BY <1>2, <1>4, <1>9, <1>15, KeptGrows
  <2>2. f \in DOMAIN Kept /\ Kept[f] = NoFile
    BY <1>2, <1>3, <1>15, ContentAssumption DEF Kept, RequestOf
  <2>3. Memo!Keep
    BY <1>8, <1>13, <1>14, <2>1, <2>2 DEF Memo!Keep
  <2> QED  BY <1>11, <1>12, <2>3 DEF Memo!Next
<1>16. CASE f.place # "cache"
  <2>1. Kept' = Kept
    BY <1>2, <1>9, <1>16, KeptStays
  <2> QED  BY <1>11, <1>12, <1>13, <1>14, <2>1 DEF Memo!vars
<1> QED  BY <1>15, <1>16

LEMMA RequestExists ==
  ASSUME NEW t \in Transitions, NEW i \in Nat, i < t.steps
  PROVE  Request(t, i) \in {Request(r[1], r[2]) : r \in Steps}
<1> DEFINE r == <<t, i>>
<1>1. r \in Steps /\ Request(t, i) = Request(r[1], r[2])
  BY StepsExist
<1> HIDE DEF r
<1> QED  BY <1>1

LEMMA ShowAlone ==
  ASSUME AloneInv, Undisturbed, NEW p \in Instances, Instances = {p}, Show(p)
  PROVE  HoldsOwn(p)' /\ NothingLeftUnfinished' /\ Memo!Present(p)
<1> DEFINE request == Request(transition[p], step[p])
           last == step[p] + 1 = transition[p].steps
           next == Asked'[p]
           requests == {Request(r[1], r[2]) : r \in Steps}
<1>1. /\ pc[p] = "show" /\ pc' = [pc EXCEPT ![p] = IF last THEN "idle" ELSE "lookUp"]
      /\ shown' = [shown EXCEPT ![p] = files[File(p)].content]
      /\ step' = [step EXCEPT ![p] = @ + 1]
      /\ UNCHANGED <<files, transition>>
  BY DEF Show, Goto
<1>2. /\ TypeOK /\ transition[p] \in Transitions /\ step[p] \in Nat
      /\ step[p] < transition[p].steps /\ transition[p].steps \in Nat
  BY <1>1, CacheAssumption DEF AloneInv, OwnInv, TypeOK, AtWork, IsTransition
<1>3. RequestOf(files[File(p)].content) = request
  BY <1>1 DEF AloneInv, HoldsOwn
<1>4. request \in requests /\ Asked[p] = request
  BY <1>1, <1>2, RequestExists DEF Asked
<1> HIDE DEF last
<1>5. pc'[p] = (IF last THEN "idle" ELSE "lookUp") /\ step'[p] = step[p] + 1
  BY <1>1, <1>2 DEF TypeOK
<1>6. HoldsOwn(p)'
  BY <1>5 DEF HoldsOwn
<1>7. next \in requests \cup {NoFile}
  <2>1. CASE last
    <3>1. Asked'[p] = NoFile
      BY <1>5, <2>1 DEF Asked
    <3> QED  BY <3>1
  <2>2. CASE ~last
    <3>1. step[p] + 1 \in Nat /\ step[p] + 1 < transition[p].steps
      BY <1>2, <2>2 DEF last
    <3>2. Asked'[p] = Request(transition[p], step[p] + 1)
      BY <1>1, <1>5, <2>2 DEF Asked, Request, Percentage, StartImage, EndImage
    <3>3. Request(transition[p], step[p] + 1) \in requests
      BY <1>2, <3>1, RequestExists
    <3> QED  BY <3>2, <3>3
  <2> QED  BY <2>1, <2>2
<1>8. Asked' = [Asked EXCEPT ![p] = next]
  <2>1. \A q \in Instances : q = p
    OBVIOUS
  <2>2. DOMAIN Asked = Instances /\ DOMAIN Asked' = Instances
    BY DEF Asked
  <2>3. Asked = [q \in Instances |-> Asked[q]] /\ Asked' = [q \in Instances |-> Asked'[q]]
    BY DEF Asked
  <2> HIDE DEF next
  <2> QED  BY <2>1, <2>2, <2>3 DEF next
<1>9. Presented' = [Presented EXCEPT ![p] = Asked[p]]
  <2>1. \A q \in Instances : q = p
    OBVIOUS
  <2>2. shown'[p] = files[File(p)].content
    BY <1>1, <1>2 DEF TypeOK
  <2>3. Presented'[p] = request
    BY <1>3, <2>2 DEF Presented, RequestOf
  <2>4. /\ Presented = [q \in Instances |-> Presented[q]]
        /\ Presented' = [q \in Instances |-> Presented'[q]]
    BY DEF Presented
  <2> QED  BY <1>4, <2>1, <2>3, <2>4
<1>10. NothingLeftUnfinished' /\ Kept' = Kept
  BY <1>1, MovesLeaveNothing
<1> HIDE DEF next, requests, request
<1>11. Memo!Present(p)
  BY <1>4, <1>7, <1>8, <1>9, <1>10 DEF Memo!Present, requests
<1> QED  BY <1>6, <1>10, <1>11

LEMMA BeginAlone ==
  ASSUME AloneInv, Undisturbed, NEW p \in Instances, Instances = {p},
         NEW t \in Transitions, Begin(p, t)
  PROVE  HoldsOwn(p)' /\ NothingLeftUnfinished' /\ Memo!Ask(p)
<1> DEFINE request == Request(t, 0)
<1>1. /\ pc[p] = "idle" /\ pc' = [pc EXCEPT ![p] = IF cacheDir THEN "lookUp" ELSE "makeDirectory"]
      /\ transition' = [transition EXCEPT ![p] = t] /\ step' = [step EXCEPT ![p] = 0]
      /\ UNCHANGED <<cacheDir, files, shown>>
  BY DEF Begin, Goto
<1>2. /\ pc'[p] = (IF cacheDir THEN "lookUp" ELSE "makeDirectory")
      /\ transition'[p] = t /\ step'[p] = 0
  BY <1>1 DEF AloneInv, OwnInv, TypeOK
<1>3. HoldsOwn(p)'
  BY <1>1, <1>2 DEF HoldsOwn
<1>4. request \in {Request(r[1], r[2]) : r \in Steps}
  <2>1. t.steps \in 1 .. (Percent - 1) /\ Percent \in Nat
    BY CacheAssumption DEF IsTransition
  <2> QED  BY <2>1, RequestExists
<1>5. Asked[p] = NoFile /\ Asked'[p] = request
  BY <1>1, <1>2 DEF Asked, Request, Percentage, StartImage, EndImage
<1> HIDE DEF request
<1>6. Asked' = [Asked EXCEPT ![p] = request]
  <2>1. \A q \in Instances : q = p
    OBVIOUS
  <2>2. Asked = [q \in Instances |-> Asked[q]] /\ Asked' = [q \in Instances |-> Asked'[q]]
    BY DEF Asked
  <2> QED  BY <1>5, <2>1, <2>2
<1>7. NothingLeftUnfinished' /\ Kept' = Kept
  BY <1>1, MovesLeaveNothing
<1>8. Presented' = Presented
  BY <1>1 DEF Presented, RequestOf
<1> QED  BY <1>3, <1>4, <1>5, <1>6, <1>7, <1>8 DEF Memo!Ask

LEMMA FailFileDoesntExistAlone ==
  ASSUME AloneInv, Undisturbed, NEW p \in Instances, Instances = {p},
         FailFileDoesntExist(p)
  PROVE  HoldsOwn(p)' /\ NothingLeftUnfinished' /\ Memo!GiveUp(p)
<1>1. /\ pc[p] = "create" /\ pc' = [pc EXCEPT ![p] = "terminated"]
      /\ UNCHANGED <<files, transition, step, shown>>
  BY DEF FailFileDoesntExist, Goto
<1>2. /\ pc'[p] = "terminated" /\ transition[p] \in Transitions /\ step[p] \in Nat
      /\ step[p] < transition[p].steps
  BY <1>1 DEF AloneInv, OwnInv, TypeOK, AtWork
<1>3. HoldsOwn(p)'
  BY <1>2 DEF HoldsOwn
<1>4. Asked[p] \in {Request(r[1], r[2]) : r \in Steps}
  <2>1. Asked[p] = Request(transition[p], step[p])
    BY <1>1 DEF Asked
  <2> QED  BY <1>2, <2>1, RequestExists
<1>5. Asked'[p] = Unfinished
  BY <1>2 DEF Asked
<1>6. Asked' = [Asked EXCEPT ![p] = Unfinished]
  <2>1. \A q \in Instances : q = p
    OBVIOUS
  <2>2. Asked = [q \in Instances |-> Asked[q]] /\ Asked' = [q \in Instances |-> Asked'[q]]
    BY DEF Asked
  <2> QED  BY <1>5, <2>1, <2>2
<1>7. NothingLeftUnfinished' /\ Kept' = Kept
  BY <1>1, MovesLeaveNothing
<1>8. Presented' = Presented
  BY <1>1 DEF Presented, RequestOf
<1> QED  BY <1>3, <1>4, <1>6, <1>7, <1>8 DEF Memo!GiveUp

LEMMA NextAlone ==
  ASSUME AloneInv, Undisturbed, [Next]_vars
  PROVE  AloneInv' /\ [Memo!Next]_Memo!vars
<1> DEFINE Good == /\ \A p \in Instances : HoldsOwn(p)'
                   /\ NothingLeftUnfinished'
                   /\ [Memo!Next]_Memo!vars
<1>1. OwnInv'
  BY StepTypes, StepOwn DEF AloneInv, OwnInv
<1>2. ASSUME NEW p \in Instances, Work(p) PROVE Good
  <2>1. Instances = {p}
    BY DEF Undisturbed
  <2>2. HoldsOwn(p)' /\ NothingLeftUnfinished' /\ [Memo!Next]_Memo!vars
    <3>1. CASE \/ MakeDirectory(p) \/ FailNoCacheDir(p) \/ MissComposite(p)
               \/ FindTemporary(p) \/ ReadImages(p)
      BY <2>1, <3>1, MovesAlone
    <3>2. CASE FindComposite(p)
      BY <2>1, <3>2, FindCompositeAlone
    <3>3. CASE PlaceTemporary(p)
      BY <2>1, <3>3, PlaceTemporaryAlone
    <3>4. CASE FailFileDoesntExist(p)
      BY <2>1, <3>4, FailFileDoesntExistAlone DEF Memo!Next
    <3>5. CASE OpenFile(p)
      BY <2>1, <3>5, OpenFileAlone
    <3>6. CASE FinishWrite(p)
      BY <2>1, <3>6, FinishWriteAlone
    <3>7. CASE Show(p)
      BY <2>1, <3>7, ShowAlone DEF Memo!Next
    <3> QED  BY <1>2, <3>1, <3>2, <3>3, <3>4, <3>5, <3>6, <3>7 DEF Work
  <2>3. \A q \in Instances : HoldsOwn(q)'
    BY <2>1, <2>2
  <2> QED  BY <2>2, <2>3
<1>3. ASSUME NEW p \in Instances, Crash(p) PROVE FALSE
  <2>1. crashes < MaxCrashes
    BY <1>3 DEF Crash
  <2>2. crashes \in 0 .. MaxCrashes
    BY DEF AloneInv, OwnInv, TypeOK
  <2>3. MaxCrashes = 0
    BY DEF Undisturbed
  <2> QED  BY <2>1, <2>2, <2>3
<1>4. ASSUME NEW p \in Instances, NEW t \in Transitions, Begin(p, t) PROVE Good
  <2>1. Instances = {p}
    BY DEF Undisturbed
  <2>2. HoldsOwn(p)' /\ NothingLeftUnfinished' /\ Memo!Ask(p)
    BY <1>4, <2>1, BeginAlone
  <2>3. \A q \in Instances : HoldsOwn(q)'
    BY <2>1, <2>2
  <2> QED  BY <2>2, <2>3 DEF Memo!Next
<1>5. ASSUME UNCHANGED <<cacheDir, files, pc, transition, step, shown>> PROVE Good
  <2>0. ASSUME NEW p \in Instances
        PROVE  /\ File(p)' = File(p)
               /\ Request(transition[p], step[p])' = Request(transition[p], step[p])
    BY <1>5 DEF File, Path, CompositePath, TemporaryPath, Percentage, Extension, Request,
                StartImage, EndImage
  <2>1. \A p \in Instances : HoldsOwn(p)'
    <3> SUFFICES ASSUME NEW p \in Instances PROVE HoldsOwn(p)'
      OBVIOUS
    <3>1. HoldsOwn(p)
      BY DEF AloneInv
    <3>2. RequestOf(files[File(p)].content)' = RequestOf(files[File(p)].content)
      BY <1>5, <2>0 DEF RequestOf
    <3> QED  BY <1>5, <2>0, <3>1, <3>2 DEF HoldsOwn
  <2>2. NothingLeftUnfinished'
    BY <1>5, <2>0 DEF AloneInv, NothingLeftUnfinished
  <2>3. Kept' = Kept /\ Asked' = Asked /\ Presented' = Presented
    BY <1>5 DEF Kept, Asked, Presented, Request, RequestOf, Percentage, StartImage, EndImage
  <2> QED  BY <2>1, <2>2, <2>3 DEF Memo!vars
<1>6. ASSUME NEW image \in Images, Replace(image) \/ Remove(image) PROVE Good
  BY <1>5, <1>6 DEF Replace, Remove
<1>7. ASSUME UNCHANGED vars PROVE Good
  BY <1>5, <1>7 DEF vars
<1> HIDE DEF Good
<1>8. Good
  BY <1>2, <1>3, <1>4, <1>6, <1>7 DEF Next
<1> QED  BY <1>1, <1>8 DEF AloneInv, Good

LEMMA InitAlone ==
  ASSUME Init
  PROVE  AloneInv /\ Memo!Init
<1>1. OwnInv
  BY InitTypes, InitOwn DEF OwnInv
<1>2. \A p \in Instances : HoldsOwn(p)
  BY DEF Init, HoldsOwn
<1>3. NothingLeftUnfinished
  BY ContentAssumption DEF Init, NothingLeftUnfinished
<1>4. Kept = [path \in DOMAIN Kept |-> NoFile]
  BY ContentAssumption DEF Init, Kept, RequestOf
<1>5. Asked = [p \in Instances |-> NoFile]
  BY DEF Init, Asked
<1>6. Presented = [p \in Instances |-> NoFile]
  BY ContentAssumption DEF Init, Presented, RequestOf
<1> QED  BY <1>1, <1>2, <1>3, <1>4, <1>5, <1>6 DEF AloneInv, Memo!Init

\* A single instance that is not killed, whose steps have names of their own, uses
\* the cache as a memo, however often images are replaced or removed: what is kept is
\* never made again or changed, and every step shows what it asked for.
THEOREM AloneItIsAMemo == Undisturbed => (Spec => ImplementsMemo)
<1>1. SUFFICES ASSUME Undisturbed
               PROVE  Spec => ImplementsMemo
  OBVIOUS
<1>2. Init => AloneInv /\ Memo!Init
  BY InitAlone
<1>3. AloneInv /\ [Next]_vars => AloneInv' /\ [Memo!Next]_Memo!vars
  BY <1>1, NextAlone
<1> QED  BY <1>2, <1>3, PTL DEF Spec, ImplementsMemo, Memo!Spec

===============================================================================
