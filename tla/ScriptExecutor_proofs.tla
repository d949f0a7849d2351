------------------------- MODULE ScriptExecutor_proofs -------------------------
(***************************************************************************)
(* Proofs about the scripts, for every list of events and every limit on   *)
(* the number of processes.                                                *)
(***************************************************************************)
EXTENDS ScriptExecutor, SequenceTheorems, FiniteSetTheorems, TLAPS

-------------------------------------------------------------------------------
(* The processes as a sequence. *)

Child ==
  [role : Roles, image : 1 .. Len(Events), status : Statuses,
   shown : BOOLEAN, overlapped : SUBSET Nat, buffer : SUBSET Lines]

\* There are as many events as there are, and each is one of the two kinds.
LEMMA EventsType ==
  /\ Len(Events) \in Nat
  /\ \A i \in 1 .. Len(Events) : Events[i] \in {"set", "fragment"}
  /\ ProcessLimit \in Nat
BY ScriptAssumption, LenProperties, ElementOfSeq

\* A process that changes leaves the others where they are.
LEMMA ReplaceElement ==
  ASSUME NEW S, NEW s \in Seq(S), NEW i \in 1 .. Len(s), NEW e \in S
  PROVE  /\ [s EXCEPT ![i] = e] \in Seq(S)
         /\ Len([s EXCEPT ![i] = e]) = Len(s)
         /\ [s EXCEPT ![i] = e][i] = e
         /\ \A j \in 1 .. Len(s) : j # i => [s EXCEPT ![i] = e][j] = s[j]
BY ExceptSeq

\* One more process behind the others.
LEMMA AppendChild ==
  ASSUME NEW S, NEW s \in Seq(S), NEW e \in S
  PROVE  /\ Append(s, e) \in Seq(S)
         /\ Len(Append(s, e)) = Len(s) + 1
         /\ Append(s, e)[Len(s) + 1] = e
         /\ \A j \in 1 .. Len(s) : Append(s, e)[j] = s[j]
BY AppendProperties

Children == children \in Seq(Child)

\* Each process is one of them.
LEMMA ChildOf ==
  ASSUME Children, NEW i \in DOMAIN children
  PROVE  /\ children[i] \in Child /\ i \in Nat
         /\ children[i].image \in 1 .. Len(Events) /\ children[i].image \in Nat
<1>1. i \in 1 .. Len(children) /\ children \in Seq(Child)
  BY LenProperties DEF Children
<1>2. children[i] \in Child
  BY <1>1, ElementOfSeq
<1>3. children[i].image \in 1 .. Len(Events)
  BY <1>2 DEF Child
<1>4. QED
  BY <1>1, <1>2, <1>3, EventsType

\* A step of a process changes its status, what it has shown and its buffer.
LEMMA ProcessStep ==
  ASSUME Children, NEW i \in DOMAIN children, Process(i)
  PROVE  /\ children' \in Seq(Child) /\ Len(children') = Len(children)
         /\ DOMAIN children' = DOMAIN children
         /\ \A j \in DOMAIN children :
              /\ j # i => children'[j] = children[j]
              /\ children'[j].role = children[j].role
              /\ children'[j].image = children[j].image
              /\ children'[j].overlapped = children[j].overlapped
              /\ children'[j].buffer \subseteq children[j].buffer
              /\ children'[j].status \in {"forked", "running"} =>
                   children[j].status \in {"forked", "running"}
              /\ children[j].shown => children'[j].shown
         /\ UNCHANGED <<method, hook, event, pc, refused, buffer>>
<1>1. children \in Seq(Child) /\ i \in 1 .. Len(children) /\ DOMAIN children = 1 .. Len(children)
  BY LenProperties DEF Children
<1>2. children[i] \in Child
  BY <1>1, ElementOfSeq
<1>3. PICK c \in Child :
        /\ children' = [children EXCEPT ![i] = c]
        /\ c.role = children[i].role /\ c.image = children[i].image
        /\ c.overlapped = children[i].overlapped /\ c.buffer \subseteq children[i].buffer
        /\ c.status \in {"forked", "running"} => children[i].status \in {"forked", "running"}
        /\ children[i].shown => c.shown
  <2>1. CASE Exec(i)
    <3> DEFINE c == [children[i] EXCEPT !.status = "running", !.buffer = {}]
    <3>1. c \in Child /\ children' = [children EXCEPT ![i] = c]
      BY <1>1, <1>2, <2>1 DEF Exec, Child, Statuses
    <3>2. QED
      BY <1>2, <2>1, <3>1 DEF Exec, Child
  <2>2. CASE FailToExec(i)
    <3> DEFINE c == [children[i] EXCEPT !.status = "failed", !.buffer = {}]
    <3>1. c \in Child /\ children' = [children EXCEPT ![i] = c]
      BY <1>1, <1>2, <2>2 DEF FailToExec, Child, Statuses
    <3>2. QED
      BY <1>2, <2>2, <3>1 DEF FailToExec, Child
  <2>3. CASE Show(i)
    <3> DEFINE c == [children[i] EXCEPT !.shown = TRUE]
    <3>1. c \in Child /\ children' = [children EXCEPT ![i] = c]
      BY <1>1, <1>2, <2>3 DEF Show, Child
    <3>2. QED
      BY <1>2, <2>3, <3>1 DEF Show, Child
  <2>4. CASE Exit(i)
    <3> DEFINE c == [children[i] EXCEPT !.status = "zombie"]
    <3>1. c \in Child /\ children' = [children EXCEPT ![i] = c]
      BY <1>1, <1>2, <2>4 DEF Exit, Child, Statuses
    <3>2. QED
      BY <1>2, <2>4, <3>1 DEF Exit, Child
  <2>5. QED
    BY <2>1, <2>2, <2>3, <2>4 DEF Process
<1>4. /\ children' \in Seq(Child) /\ Len(children') = Len(children)
      /\ children'[i] = c
      /\ \A j \in 1 .. Len(children) : j # i => children'[j] = children[j]
  BY <1>1, <1>3, ReplaceElement
<1>5. DOMAIN children' = DOMAIN children
  BY <1>1, <1>4, LenProperties
<1>6. \A j \in DOMAIN children :
        /\ j # i => children'[j] = children[j]
        /\ children'[j].role = children[j].role
        /\ children'[j].image = children[j].image
        /\ children'[j].overlapped = children[j].overlapped
        /\ children'[j].buffer \subseteq children[j].buffer
        /\ children'[j].status \in {"forked", "running"} =>
             children[j].status \in {"forked", "running"}
        /\ children[j].shown => children'[j].shown
  BY <1>1, <1>3, <1>4
<1>7. UNCHANGED <<method, hook, event, pc, refused, buffer>>
  BY DEF Process, Exec, FailToExec, Show, Exit
<1>8. QED
  BY <1>4, <1>5, <1>6, <1>7

\* The variables other than the processes.
Scalars ==
  /\ method \in {"wallutils", "script"} /\ hook \in BOOLEAN
  /\ event \in 0 .. Len(Events) /\ screen \in 0 .. event
  /\ pc \in {"idle", "set", "hook"} /\ (pc # "idle" => event > 0)
  /\ buffer \subseteq Lines /\ log \in [Lines -> Nat]
  /\ refused \subseteq 1 .. event /\ (refused # {} => method = "wallutils")

\* A hook belongs to a set event, and with wallutils every process is one.
Hooks ==
  /\ \A i \in DOMAIN children :
       children[i].role = "hook" => hook /\ Events[children[i].image] = "set"
  /\ pc = "hook" => hook /\ Events[event] = "set"
  /\ method = "wallutils" => \A i \in DOMAIN children : children[i].role = "hook"

\* With wallutils an image that was taken is on the screen until a later one is, also
\* while later ones are refused.
Answered ==
  method = "wallutils" =>
    \A n \in (1 .. event) \ refused : n <= screen \/ (n = event /\ pc = "set")

\* Processes are started in the order of their images, each beside the setters that are
\* still there, and no more of them than there may be.
Order ==
  /\ Len(children) <= ProcessLimit
  /\ \A i \in DOMAIN children :
       children[i].image <= event /\ children[i].overlapped \subseteq DOMAIN children
  /\ \A i, j \in DOMAIN children : i < j =>
       /\ children[i].image <= children[j].image
       /\ children[i].role = "setter" /\ children[i].status \in {"forked", "running"} =>
            i \in children[j].overlapped

\* The line an attempt writes.
LEMMA LineType ==
  ASSUME Scalars, RunsScript
  PROVE  /\ <<Role, event>> \in Lines /\ Role \in Roles /\ event \in 1 .. Len(Events)
         /\ buffer \cup {<<Role, event>>} \subseteq Lines
<1>1. event \in 1 .. Len(Events)
  BY EventsType DEF Scalars, RunsScript
<1>2. Role \in Roles
  BY DEF Role, Roles
<1>3. QED
  BY <1>1, <1>2 DEF Lines, Scalars

\* A script that is started is the last process, and none of the others changes.
LEMMA RunStep ==
  ASSUME Children, Scalars, RunScript
  PROVE  LET n == Len(children) + 1
         IN  /\ children' \in Seq(Child) /\ Len(children') = n
             /\ DOMAIN children = 1 .. Len(children) /\ DOMAIN children' = 1 .. n
             /\ Len(children) \in Nat /\ Len(children) < ProcessLimit
             /\ \A j \in DOMAIN children : children'[j] = children[j]
             /\ children'[n] = NewChild(buffer \cup {<<Role, event>>})
<1> DEFINE c == NewChild(buffer \cup {<<Role, event>>})
<1>1. children \in Seq(Child) /\ Len(children) \in Nat /\ DOMAIN children = 1 .. Len(children)
  BY LenProperties DEF Children
<1>2. RunsScript
  BY DEF RunScript
<1>3. c \in Child
  <2>1. AliveSetters \subseteq Nat
    BY <1>1 DEF AliveSetters
  <2>2. QED
    BY <1>2, <2>1, LineType DEF NewChild, Child, Statuses
<1>4. children' = Append(children, c)
  BY DEF RunScript
<1> HIDE DEF c
<1>5. /\ children' \in Seq(Child) /\ Len(children') = Len(children) + 1
      /\ children'[Len(children) + 1] = c
      /\ \A j \in 1 .. Len(children) : children'[j] = children[j]
  BY <1>1, <1>3, <1>4, AppendChild
<1>6. DOMAIN children' = 1 .. (Len(children) + 1)
  BY <1>5, LenProperties
<1>7. Len(children) < ProcessLimit
  <2>1. Cardinality(1 .. Len(children)) = Len(children)
    BY <1>1, FS_Interval
  <2>2. QED
    BY <1>1, <2>1 DEF RunScript, Occupied
<1>8. QED
  BY <1>1, <1>5, <1>6, <1>7 DEF c

-------------------------------------------------------------------------------
(* Each part is preserved. *)

\* The processes keep their type.
LEMMA ChildrenNext == Children /\ Scalars /\ [Next]_vars => Children'
<1> SUFFICES ASSUME Children, Scalars, [Next]_vars PROVE Children'
  OBVIOUS
<1>1. CASE RunScript
  BY <1>1, RunStep DEF Children
<1>2. CASE \E i \in DOMAIN children : Process(i)
  BY <1>2, ProcessStep DEF Children
<1>3. CASE BeginEvent \/ SetByWallutils \/ FailToSetByWallutils \/ FailToFork \/ FlushLog
           \/ UNCHANGED vars
  BY <1>3 DEF BeginEvent, SetByWallutils, FailToSetByWallutils, FailToFork, FlushLog, vars, Children
<1>4. QED
  BY <1>1, <1>2, <1>3 DEF Next, Program

\* The other variables keep theirs.
LEMMA ScalarsNext == Children /\ Scalars /\ Order /\ [Next]_vars => Scalars'
<1> SUFFICES ASSUME Children, Scalars, Order, [Next]_vars PROVE Scalars'
  OBVIOUS
<1>0. Len(Events) \in Nat
  BY EventsType
<1>1. CASE BeginEvent
  BY <1>0, <1>1 DEF BeginEvent, Scalars
<1>2. CASE SetByWallutils \/ FailToSetByWallutils
  <2>1. /\ pc = "set" /\ method = "wallutils" /\ pc' = AfterSetting
        /\ screen' \in {screen, event} /\ refused' \subseteq refused \cup {event}
        /\ UNCHANGED <<method, hook, event, buffer, log>>
    BY <1>2 DEF SetByWallutils, FailToSetByWallutils
  <2>2. screen' \in 0 .. event /\ refused' \subseteq 1 .. event
    BY <1>0, <2>1 DEF Scalars
  <2>3. QED
    BY <2>1, <2>2 DEF Scalars, AfterSetting
<1>3. CASE RunScript \/ FailToFork
  <2>1. RunsScript /\ Continue
    BY <1>3 DEF RunScript, FailToFork
  <2>2. buffer' \subseteq Lines
    BY <2>1, LineType DEF Continue
  <2>3. pc' \in {"idle", "hook"} /\ event > 0
    BY <2>1 DEF Continue, AfterSetting, RunsScript, Scalars
  <2>4. QED
    BY <2>1, <2>2, <2>3 DEF Continue, Scalars
<1>4. CASE FlushLog
  <2>1. log' \in [Lines -> Nat]
    BY <1>4 DEF FlushLog, Scalars
  <2>2. QED
    BY <1>4, <2>1 DEF FlushLog, Scalars
<1>5. CASE \E i \in DOMAIN children : Process(i)
  <2>1. PICK i \in DOMAIN children : Process(i)
    BY <1>5
  <2>2. UNCHANGED <<method, hook, event, pc, refused, buffer>>
    BY <2>1, ProcessStep
  <2>3. log' \in [Lines -> Nat]
    BY <2>1 DEF Process, Exec, FailToExec, Show, Exit, Scalars
  <2>4. children[i].image \in 1 .. Len(Events) /\ children[i].image <= event
    BY ChildOf DEF Order
  <2>5. screen' = screen \/ screen' = children[i].image
    BY <2>1 DEF Process, Exec, FailToExec, Show, Exit
  <2>6. screen' \in 0 .. event
    BY <1>0, <2>4, <2>5 DEF Scalars
  <2>7. QED
    BY <2>2, <2>3, <2>6 DEF Scalars
<1>6. CASE UNCHANGED vars
  BY <1>6 DEF vars, Scalars
<1>7. QED
  BY <1>1, <1>2, <1>3, <1>4, <1>5, <1>6 DEF Next, Program

\* Hooks are started for set events, behind the image.
LEMMA HooksNext == Children /\ Scalars /\ Hooks /\ [Next]_vars => Hooks'
<1> SUFFICES ASSUME Children, Scalars, Hooks, [Next]_vars PROVE Hooks'
  OBVIOUS
<1>1. CASE BeginEvent
  BY <1>1 DEF BeginEvent, Hooks
<1>2. CASE SetByWallutils \/ FailToSetByWallutils
  BY <1>2 DEF SetByWallutils, FailToSetByWallutils, Hooks, AfterSetting
<1>3. CASE RunScript
  <2> DEFINE n == Len(children) + 1
  <2>1. /\ DOMAIN children' = DOMAIN children \cup {n}
        /\ \A j \in DOMAIN children : children'[j] = children[j]
        /\ children'[n].role = Role /\ children'[n].image = event
    BY <1>3, RunStep DEF NewChild
  <2>2. /\ UNCHANGED <<method, hook, event, screen>>
        /\ pc = "set" => pc' = AfterSetting /\ method = "script"
        /\ pc = "hook" => pc' = "idle"
        /\ pc \in {"set", "hook"}
    BY <1>3 DEF RunScript, Continue, RunsScript
  <2>3. Role = "hook" => hook /\ Events[event] = "set"
    BY <2>2 DEF Role, Hooks
  <2>4. method = "wallutils" => Role = "hook"
    BY <2>2 DEF Role
  <2>5. pc' = "hook" => hook /\ Events[event] = "set" /\ method = "script"
    BY <2>2 DEF AfterSetting
  <2> HIDE DEF n
  <2>6. QED
    BY <2>1, <2>2, <2>3, <2>4, <2>5 DEF Hooks
<1>4. CASE FailToFork
  <2>1. /\ UNCHANGED <<method, hook, event, screen, children>>
        /\ pc = "set" => pc' = AfterSetting /\ method = "script"
        /\ pc = "hook" => pc' = "idle"
        /\ pc \in {"set", "hook"}
    BY <1>4 DEF FailToFork, Continue, RunsScript
  <2>2. pc' = "hook" => hook /\ Events[event] = "set" /\ method = "script"
    BY <2>1 DEF AfterSetting
  <2>3. QED
    BY <2>1, <2>2 DEF Hooks
<1>5. CASE FlushLog
  BY <1>5 DEF FlushLog, Hooks
<1>6. CASE \E i \in DOMAIN children : Process(i)
  <2>1. PICK i \in DOMAIN children : Process(i)
    BY <1>6
  <2>2. /\ UNCHANGED <<method, hook, event, pc>> /\ DOMAIN children' = DOMAIN children
        /\ \A j \in DOMAIN children : /\ children'[j].role = children[j].role
                                      /\ children'[j].image = children[j].image
    BY <2>1, ProcessStep
  <2>3. QED
    BY <2>2 DEF Hooks
<1>7. CASE UNCHANGED vars
  BY <1>7 DEF vars, Hooks
<1>8. QED
  BY <1>1, <1>2, <1>3, <1>4, <1>5, <1>6, <1>7 DEF Next, Program

\* The order of the processes, and who ran beside whom.
LEMMA OrderNext == Children /\ Scalars /\ Order /\ [Next]_vars => Order'
<1> SUFFICES ASSUME Children, Scalars, Order, [Next]_vars PROVE Order'
  OBVIOUS
<1>0. \A i \in DOMAIN children : children[i].image \in Nat
  BY ChildOf
<1>1. CASE BeginEvent
  BY <1>0, <1>1 DEF BeginEvent, Order, Scalars
<1>2. CASE SetByWallutils \/ FailToSetByWallutils \/ FailToFork \/ FlushLog \/ UNCHANGED vars
  BY <1>2 DEF SetByWallutils, FailToSetByWallutils, FailToFork, FlushLog, Continue, vars, Order
<1>3. CASE RunScript
  <2> DEFINE n == Len(children) + 1
  <2>1. /\ DOMAIN children = 1 .. Len(children) /\ DOMAIN children' = 1 .. n
        /\ Len(children) \in Nat /\ Len(children') = n
        /\ Len(children) < ProcessLimit /\ ProcessLimit \in Nat
        /\ \A j \in DOMAIN children : children'[j] = children[j]
    BY <1>3, RunStep, EventsType
  <2>2. children'[n].image = event /\ children'[n].overlapped = AliveSetters /\ event' = event
    BY <1>3, RunStep DEF NewChild, RunScript, Continue
  <2>3. ASSUME NEW i \in DOMAIN children', NEW j \in DOMAIN children', i < j
        PROVE  /\ children'[i].image <= children'[j].image
               /\ children'[i].role = "setter" /\ children'[i].status \in {"forked", "running"} =>
                    i \in children'[j].overlapped
    <3>1. i \in DOMAIN children /\ children'[i] = children[i]
      BY <2>1, <2>3
    <3>2. CASE j = n
      <4>1. children[i].image <= event
        BY <3>1 DEF Order
      <4>2. QED
        BY <2>2, <3>1, <3>2, <4>1 DEF AliveSetters
    <3>3. CASE j # n
      <4>1. j \in DOMAIN children /\ children'[j] = children[j]
        BY <2>1, <3>3
      <4>2. QED
        BY <2>3, <3>1, <4>1 DEF Order
    <3>4. QED
      BY <3>2, <3>3
  <2>4. ASSUME NEW i \in DOMAIN children'
        PROVE  children'[i].image <= event' /\ children'[i].overlapped \subseteq DOMAIN children'
    <3>1. CASE i = n
      BY <2>1, <2>2, <3>1 DEF AliveSetters, Scalars
    <3>2. CASE i # n
      <4>1. i \in DOMAIN children /\ children'[i] = children[i]
        BY <2>1, <3>2
      <4>2. QED
        BY <2>1, <2>2, <4>1 DEF Order
    <3>3. QED
      BY <3>1, <3>2
  <2>5. Len(children') <= ProcessLimit
    BY <2>1
  <2>6. QED
    BY <2>3, <2>4, <2>5 DEF Order
<1>4. CASE \E i \in DOMAIN children : Process(i)
  <2>1. PICK i \in DOMAIN children : Process(i)
    BY <1>4
  <2>2. /\ event' = event /\ DOMAIN children' = DOMAIN children /\ Len(children') = Len(children)
        /\ \A j \in DOMAIN children :
             /\ children'[j].role = children[j].role
             /\ children'[j].image = children[j].image
             /\ children'[j].overlapped = children[j].overlapped
             /\ children'[j].status \in {"forked", "running"} =>
                  children[j].status \in {"forked", "running"}
    BY <2>1, ProcessStep
  <2>3. QED
    BY <2>2 DEF Order
<1>5. QED
  BY <1>1, <1>2, <1>3, <1>4 DEF Next, Program

\* A setter is the only process that changes the screen, and shows its own image.
LEMMA ShowStep ==
  ASSUME Children, NEW i \in DOMAIN children, Process(i)
  PROVE  \/ screen' = screen /\ \A j \in DOMAIN children : children'[j].shown = children[j].shown
         \/ /\ screen' = children[i].image
            /\ children[i].role = "setter" /\ children[i].status = "running"
            /\ children'[i].shown
            /\ \A j \in DOMAIN children : j # i => children'[j].shown = children[j].shown
<1>1. children[i] \in Child /\ i \in 1 .. Len(children) /\ DOMAIN children = 1 .. Len(children)
  BY ChildOf, LenProperties DEF Children
<1>2. CASE Show(i)
  <2>1. children'[i].shown
    BY <1>1, <1>2 DEF Show, Child
  <2>2. QED
    BY <1>2, <2>1, ProcessStep DEF Show
<1>3. CASE Exec(i) \/ FailToExec(i) \/ Exit(i)
  <2>1. screen' = screen /\ children'[i].shown = children[i].shown
    BY <1>1, <1>3 DEF Exec, FailToExec, Exit, Child
  <2>2. QED
    BY <2>1, ProcessStep
<1>4. QED
  BY <1>2, <1>3 DEF Process

\* The picture goes back only to one of a setter that ran beside.
LEMMA StaleNext ==
  Children /\ Scalars /\ Order /\ StaleOnlyByOverlap /\ [Next]_vars => StaleOnlyByOverlap'
<1> SUFFICES ASSUME Children, Scalars, Order, StaleOnlyByOverlap, [Next]_vars
             PROVE  StaleOnlyByOverlap'
  OBVIOUS
<1>0. event \in Nat /\ screen \in Nat
  BY EventsType DEF Scalars
<1>1. CASE BeginEvent \/ FailToFork \/ FlushLog \/ UNCHANGED vars
  BY <1>1 DEF BeginEvent, FailToFork, FlushLog, Continue, vars, StaleOnlyByOverlap
<1>2. CASE SetByWallutils \/ FailToSetByWallutils
  <2>1. \A j \in DOMAIN children : ~ (children[j].image > event)
    BY <1>0, ChildOf DEF Order
  <2>2. screen' \in {screen, event} /\ children' = children
    BY <1>2 DEF SetByWallutils, FailToSetByWallutils
  <2>3. QED
    BY <2>1, <2>2 DEF StaleOnlyByOverlap
<1>3. CASE RunScript
  <2> DEFINE n == Len(children) + 1
  <2>1. /\ DOMAIN children' = DOMAIN children \cup {n}
        /\ \A j \in DOMAIN children : children'[j] = children[j]
        /\ ~ children'[n].shown /\ screen' = screen
        /\ DOMAIN children \subseteq DOMAIN children'
    BY <1>3, RunStep DEF NewChild, RunScript, Continue
  <2> HIDE DEF n
  <2>2. ASSUME NEW j \in DOMAIN children', children'[j].shown, children'[j].image > screen'
        PROVE  \E i \in children'[j].overlapped : children'[i].shown /\ children'[i].image = screen'
    <3>1. j \in DOMAIN children /\ children'[j] = children[j]
      BY <2>1, <2>2
    <3>2. PICK i \in children[j].overlapped : children[i].shown /\ children[i].image = screen
      BY <3>1, <2>1, <2>2 DEF StaleOnlyByOverlap
    <3>3. i \in DOMAIN children
      BY <3>1, <3>2 DEF Order
    <3>4. QED
      BY <3>1, <3>2, <3>3, <2>1
  <2>3. QED
    BY <2>2 DEF StaleOnlyByOverlap
<1>4. CASE \E i \in DOMAIN children : Process(i)
  <2>1. PICK i \in DOMAIN children : Process(i)
    BY <1>4
  <2>2. /\ DOMAIN children' = DOMAIN children
        /\ \A j \in DOMAIN children :
             /\ children'[j].image = children[j].image
             /\ children'[j].overlapped = children[j].overlapped
             /\ children[j].shown => children'[j].shown
    BY <2>1, ProcessStep
  <2>3. CASE /\ screen' = screen
             /\ \A j \in DOMAIN children : children'[j].shown = children[j].shown
    <3>1. ASSUME NEW j \in DOMAIN children, children[j].shown, children[j].image > screen
          PROVE  \E k \in children'[j].overlapped : children'[k].shown /\ children'[k].image = screen'
      <4>1. PICK k \in children[j].overlapped : children[k].shown /\ children[k].image = screen
        BY <3>1 DEF StaleOnlyByOverlap
      <4>2. k \in DOMAIN children
        BY <4>1 DEF Order
      <4>3. QED
        BY <2>2, <2>3, <4>1, <4>2
    <3>2. QED
      BY <2>2, <2>3, <3>1 DEF StaleOnlyByOverlap
  <2>4. CASE /\ screen' = children[i].image
             /\ children[i].role = "setter" /\ children[i].status = "running"
             /\ children'[i].shown
    <3>1. ASSUME NEW j \in DOMAIN children, children[j].image > children[i].image
          PROVE  i \in children[j].overlapped
      <4>1. children[i].image \in Nat /\ children[j].image \in Nat /\ i \in Nat /\ j \in Nat
        BY ChildOf
      <4>2. ~ (j < i) /\ j # i
        BY <3>1, <4>1 DEF Order
      <4>3. i < j
        BY <4>1, <4>2
      <4>4. QED
        BY <2>4, <4>3 DEF Order
    <3>2. QED
      BY <2>2, <2>4, <3>1 DEF StaleOnlyByOverlap
  <2>5. QED
    BY <2>1, <2>3, <2>4, ShowStep
<1>5. QED
  BY <1>1, <1>2, <1>3, <1>4 DEF Next, Program

\* The setter is configured once.
LEMMA MethodStays == Children /\ [Next]_vars => method' = method
<1> SUFFICES ASSUME Children, [Next]_vars PROVE method' = method
  OBVIOUS
<1>1. CASE \E i \in DOMAIN children : Process(i)
  BY <1>1, ProcessStep
<1>2. CASE Program \/ FlushLog \/ UNCHANGED vars
  BY <1>2 DEF Program, BeginEvent, SetByWallutils, FailToSetByWallutils, RunScript, FailToFork,
     FlushLog, Continue, vars
<1>3. QED
  BY <1>1, <1>2 DEF Next

\* With wallutils only the desktop's answers change the screen, and never to an older image.
LEMMA ForwardStep ==
  ASSUME Children, Scalars, Hooks, [Next]_vars, method = "wallutils"
  PROVE  /\ method' = "wallutils" /\ screen \in Nat /\ screen' \in Nat /\ screen <= screen'
         /\ refused \subseteq refused'
<1>0. event \in Nat /\ screen \in 0 .. event
  BY EventsType DEF Scalars
<1>1. CASE BeginEvent \/ RunScript \/ FailToFork \/ FlushLog \/ UNCHANGED vars
  BY <1>0, <1>1 DEF BeginEvent, RunScript, FailToFork, FlushLog, Continue, vars
<1>2. CASE SetByWallutils \/ FailToSetByWallutils
  BY <1>0, <1>2 DEF SetByWallutils, FailToSetByWallutils
<1>3. CASE \E i \in DOMAIN children : Process(i)
  <2>1. PICK i \in DOMAIN children : Process(i)
    BY <1>3
  <2>2. screen' = screen /\ UNCHANGED <<method, refused>>
    BY <2>1, ShowStep, ProcessStep DEF Hooks
  <2>3. QED
    BY <1>0, <2>2
<1>4. QED
  BY <1>1, <1>2, <1>3 DEF Next, Program

\* Each attempt ends with the image on the screen or refused.
LEMMA AnsweredNext ==
  Children /\ Scalars /\ Hooks /\ Answered /\ [Next]_vars => Answered'
<1> SUFFICES ASSUME Children, Scalars, Hooks, Answered, [Next]_vars PROVE Answered'
  OBVIOUS
<1> SUFFICES ASSUME method = "wallutils", NEW n \in (1 .. event') \ refused'
             PROVE  n <= screen' \/ (n = event' /\ pc' = "set")
  BY MethodStays DEF Answered
<1>0. event \in Nat /\ screen \in Nat /\ screen' \in Nat /\ screen <= screen' /\ n \notin refused
  BY ForwardStep, EventsType DEF Scalars
<1>1. CASE BeginEvent
  <2>1. n = event + 1 \/ n \in (1 .. event) \ refused
    BY <1>0, <1>1 DEF BeginEvent
  <2>2. QED
    BY <1>1, <2>1 DEF BeginEvent, Answered
<1>2. CASE SetByWallutils
  BY <1>0, <1>2 DEF SetByWallutils
<1>3. CASE FailToSetByWallutils
  <2>1. n \in (1 .. event) \ refused /\ n # event
    BY <1>0, <1>3 DEF FailToSetByWallutils
  <2>2. n <= screen
    BY <2>1 DEF Answered
  <2>3. QED
    BY <1>0, <2>2
<1>4. CASE RunScript \/ FailToFork
  BY <1>4 DEF RunScript, FailToFork, RunsScript, Continue, Answered
<1>5. CASE FlushLog \/ UNCHANGED vars
  BY <1>5 DEF FlushLog, vars, Answered
<1>6. CASE \E i \in DOMAIN children : Process(i)
  <2>1. UNCHANGED <<event, pc, refused>>
    BY <1>6, ProcessStep
  <2>2. n <= screen \/ (n = event /\ pc = "set")
    BY <1>0, <2>1 DEF Answered
  <2>3. QED
    BY <1>0, <2>1, <2>2
<1>7. QED
  BY <1>1, <1>2, <1>3, <1>4, <1>5, <1>6 DEF Next, Program

\* A hook is started when its image, and each before it, has been answered for; the screen
\* then only moves forward.
LEMMA HookFollowsNext ==
  /\ Children /\ Scalars /\ Hooks /\ Answered /\ HookFollowsTheImage /\ [Next]_vars
  => HookFollowsTheImage'
<1> SUFFICES ASSUME Children, Scalars, Hooks, Answered, HookFollowsTheImage, [Next]_vars
             PROVE  HookFollowsTheImage'
  OBVIOUS
<1>0. event \in Nat /\ screen \in Nat /\ \A i \in DOMAIN children : children[i].image \in Nat
  BY ChildOf, EventsType DEF Scalars
<1>1. CASE RunScript
  <2> DEFINE m == Len(children) + 1
  <2>1. /\ DOMAIN children' = DOMAIN children \cup {m}
        /\ \A j \in DOMAIN children : children'[j] = children[j]
        /\ children'[m].image = event
        /\ UNCHANGED <<screen, refused, method>>
    BY <1>1, RunStep DEF NewChild, RunScript, Continue
  <2>2. method = "wallutils" => pc = "hook"
    BY <1>1 DEF RunScript, RunsScript
  <2>3. method = "wallutils" => \A n \in (1 .. event) \ refused : n <= screen
    BY <2>2 DEF Answered
  <2> HIDE DEF m
  <2>4. QED
    BY <2>1, <2>3 DEF HookFollowsTheImage
<1>2. CASE ~ RunScript
  <2>1. /\ method' = method /\ DOMAIN children' = DOMAIN children
        /\ \A j \in DOMAIN children : children'[j].image = children[j].image
    <3>1. CASE \E i \in DOMAIN children : Process(i)
      BY <3>1, ProcessStep
    <3>2. CASE BeginEvent \/ SetByWallutils \/ FailToSetByWallutils \/ FailToFork \/ FlushLog
               \/ UNCHANGED vars
      BY <3>2 DEF BeginEvent, SetByWallutils, FailToSetByWallutils, FailToFork, FlushLog,
         Continue, vars
    <3>3. QED
      BY <1>2, <3>1, <3>2 DEF Next, Program
  <2>2. method = "wallutils" =>
          screen' \in Nat /\ screen <= screen' /\ refused \subseteq refused'
    BY ForwardStep
  <2>3. ASSUME method = "wallutils", NEW j \in DOMAIN children,
               NEW n \in (1 .. children[j].image) \ refused'
        PROVE  n <= screen'
    <3>1. n <= screen /\ n \in Nat
      BY <1>0, <2>2, <2>3 DEF HookFollowsTheImage
    <3>2. QED
      BY <1>0, <2>2, <2>3, <3>1
  <2>4. QED
    BY <2>1, <2>3 DEF HookFollowsTheImage
<1>3. QED
  BY <1>1, <1>2

\* What is shown was shown by one of the first processes.
LEMMA FirstScriptsNext ==
  Children /\ Scalars /\ Order /\ OnlyTheFirstScriptsCount /\ [Next]_vars => OnlyTheFirstScriptsCount'
<1> SUFFICES ASSUME Children, Scalars, Order, OnlyTheFirstScriptsCount, [Next]_vars
             PROVE  OnlyTheFirstScriptsCount'
  OBVIOUS
<1>1. CASE \/ BeginEvent \/ FailToFork \/ FlushLog \/ SetByWallutils \/ FailToSetByWallutils
           \/ UNCHANGED vars
  BY <1>1 DEF BeginEvent, FailToFork, FlushLog, SetByWallutils, FailToSetByWallutils, Continue,
     vars, OnlyTheFirstScriptsCount
<1>2. CASE RunScript
  <2>1. /\ \A j \in DOMAIN children : j \in DOMAIN children' /\ children'[j] = children[j]
        /\ screen' = screen /\ method' = method
    BY <1>2, RunStep DEF RunScript, Continue
  <2>2. QED
    BY <2>1 DEF OnlyTheFirstScriptsCount
<1>3. CASE \E i \in DOMAIN children : Process(i)
  <2>1. PICK i \in DOMAIN children : Process(i)
    BY <1>3
  <2>2. /\ DOMAIN children' = DOMAIN children /\ method' = method
        /\ \A j \in DOMAIN children : /\ children'[j].image = children[j].image
                                      /\ children'[j].role = children[j].role
    BY <2>1, ProcessStep
  <2>3. i <= ProcessLimit
    <3>1. i \in 1 .. Len(children) /\ Len(children) \in Nat
      BY LenProperties DEF Children
    <3>2. QED
      BY <3>1, EventsType DEF Order
  <2>4. screen' = screen \/ (screen' = children[i].image /\ children[i].role = "setter")
    BY <2>1, ShowStep
  <2>5. QED
    BY <2>2, <2>3, <2>4 DEF OnlyTheFirstScriptsCount
<1>4. QED
  BY <1>1, <1>2, <1>3 DEF Next, Program

-------------------------------------------------------------------------------
(* The log. *)

\* A line that has not been written yet: its attempt is still to come.
Coming(line) ==
  \/ line[2] > event
  \/ line[2] = event /\ pc = "set"
  \/ line[2] = event /\ pc = "hook" /\ line[1] = "hook"

\* What is still to come is nowhere.
Logged ==
  \A line \in Lines : Coming(line) =>
    /\ log[line] = 0 /\ line \notin buffer
    /\ \A i \in DOMAIN children : line \notin children[i].buffer

\* No step makes a line come again, and the one that is written had been coming.
LEMMA LoggedNext == Children /\ Scalars /\ Logged /\ [Next]_vars => Logged'
<1> SUFFICES ASSUME Children, Scalars, Logged, [Next]_vars PROVE Logged'
  OBVIOUS
<1>0. /\ event \in Nat /\ Len(Events) \in Nat
      /\ \A line \in Lines : line[1] \in Roles /\ line[2] \in 1 .. Len(Events)
  BY EventsType DEF Scalars, Lines
<1>1. CASE BeginEvent
  <2>1. \A line \in Lines : Coming(line)' => Coming(line)
    BY <1>0, <1>1 DEF BeginEvent, Coming
  <2>2. QED
    BY <1>1, <2>1 DEF BeginEvent, Logged
<1>2. CASE SetByWallutils \/ FailToSetByWallutils
  <2>1. \A line \in Lines : Coming(line)' => Coming(line)
    BY <1>0, <1>2 DEF SetByWallutils, FailToSetByWallutils, AfterSetting, Coming
  <2>2. QED
    BY <1>2, <2>1 DEF SetByWallutils, FailToSetByWallutils, Logged
<1>3. CASE RunScript \/ FailToFork
  <2>1. /\ RunsScript /\ event' = event /\ log' = log
        /\ buffer' = buffer \cup {<<Role, event>>}
        /\ pc' = IF pc = "set" THEN AfterSetting ELSE "idle"
    BY <1>3 DEF RunScript, FailToFork, Continue
  <2>2. ASSUME NEW line \in Lines, Coming(line)'
        PROVE  Coming(line) /\ line # <<Role, event>>
    BY <1>0, <2>1, <2>2 DEF RunsScript, AfterSetting, Coming, Role
  <2>3. \A i \in DOMAIN children' :
          \/ i \in DOMAIN children /\ children'[i] = children[i]
          \/ children'[i].buffer = buffer \cup {<<Role, event>>}
    <3>1. CASE RunScript
      BY <3>1, RunStep DEF NewChild
    <3>2. CASE FailToFork
      BY <3>2 DEF FailToFork
    <3>3. QED
      BY <1>3, <3>1, <3>2
  <2>4. QED
    BY <2>1, <2>2, <2>3 DEF Logged
<1>4. CASE FlushLog
  <2>1. \A line \in Lines : Coming(line)' <=> Coming(line)
    BY <1>4 DEF FlushLog, Coming
  <2>2. \A line \in Lines : Coming(line) => log'[line] = 0
    BY <1>4 DEF FlushLog, Logged
  <2>3. QED
    BY <1>4, <2>1, <2>2 DEF FlushLog, Logged
<1>5. CASE \E i \in DOMAIN children : Process(i)
  <2>1. PICK i \in DOMAIN children : Process(i)
    BY <1>5
  <2>2. /\ DOMAIN children' = DOMAIN children /\ UNCHANGED <<event, pc, buffer>>
        /\ \A j \in DOMAIN children : children'[j].buffer \subseteq children[j].buffer
    BY <2>1, ProcessStep
  <2>3. \A line \in Lines : Coming(line)' <=> Coming(line)
    BY <2>2 DEF Coming
  <2>4. \A line \in Lines : Coming(line) => log'[line] = 0
    BY <2>1 DEF Process, Exec, FailToExec, Show, Exit, Logged
  <2>5. QED
    BY <2>2, <2>3, <2>4 DEF Logged
<1>6. CASE UNCHANGED vars
  BY <1>6 DEF vars, Logged, Coming
<1>7. QED
  BY <1>1, <1>2, <1>3, <1>4, <1>5, <1>6 DEF Next, Program

\* There are finitely many failures.
LEMMA FailuresAreFinite ==
  ASSUME Children
  PROVE  IsFiniteSet(FailedExecs) /\ Cardinality(FailedExecs) \in Nat
<1>1. IsFiniteSet(DOMAIN children)
  <2>1. DOMAIN children = 1 .. Len(children) /\ Len(children) \in Nat
    BY LenProperties DEF Children
  <2>2. QED
    BY <2>1, FS_Interval
<1>2. FailedExecs \subseteq DOMAIN children
  BY DEF FailedExecs
<1>3. QED
  BY <1>1, <1>2, FS_Subset, FS_CardinalityType

\* A process step adds one failure, or none; only a failure writes to the log.
LEMMA FailureStep ==
  ASSUME Children, Scalars, NEW i \in DOMAIN children, Process(i)
  PROVE  \/ Cardinality(FailedExecs') = Cardinality(FailedExecs) /\ log' = log
         \/ /\ Cardinality(FailedExecs') = Cardinality(FailedExecs) + 1
            /\ \A line \in Lines : log'[line] <= log[line] + 1
<1>1. children[i] \in Child
  BY ChildOf
<1>2. /\ DOMAIN children' = DOMAIN children
      /\ \A j \in DOMAIN children : j # i => children'[j] = children[j]
  BY ProcessStep
<1>3. CASE FailToExec(i)
  <2>1. children[i].status = "forked" /\ children'[i].status = "failed"
    BY <1>1, <1>3, LenProperties DEF FailToExec, Child, Children
  <2>2. FailedExecs' = FailedExecs \cup {i} /\ i \notin FailedExecs
    BY <1>2, <2>1 DEF FailedExecs
  <2>3. Cardinality(FailedExecs') = Cardinality(FailedExecs) + 1
    BY <2>2, FailuresAreFinite, FS_AddElement
  <2>4. \A line \in Lines : log'[line] <= log[line] + 1
    BY <1>3 DEF FailToExec, Scalars
  <2>5. QED
    BY <2>3, <2>4
<1>4. CASE Exec(i) \/ Show(i) \/ Exit(i)
  <2>1. log' = log /\ children[i].status # "failed" /\ children'[i].status # "failed"
    BY <1>1, <1>4, LenProperties DEF Exec, Show, Exit, Child, Children
  <2>2. FailedExecs' = FailedExecs
    BY <1>2, <2>1 DEF FailedExecs
  <2>3. QED
    BY <2>1, <2>2
<1>5. QED
  BY <1>3, <1>4 DEF Process

\* Each repetition of a line has its failure.
LEMMA RepetitionNext ==
  /\ Children /\ Scalars /\ Logged /\ LinesAreRepeatedByFailuresOnly /\ [Next]_vars
  => LinesAreRepeatedByFailuresOnly'
<1> SUFFICES ASSUME Children, Scalars, Logged, LinesAreRepeatedByFailuresOnly, [Next]_vars
             PROVE  LinesAreRepeatedByFailuresOnly'
  OBVIOUS
<1>0. /\ Cardinality(FailedExecs) \in Nat /\ log \in [Lines -> Nat]
      /\ \A line \in Lines : log[line] \in Nat
  BY FailuresAreFinite DEF Scalars
<1>1. CASE BeginEvent \/ SetByWallutils \/ FailToSetByWallutils \/ UNCHANGED vars
  <2>1. buffer' = buffer /\ log' = log /\ children' = children
    BY <1>1 DEF BeginEvent, SetByWallutils, FailToSetByWallutils, vars
  <2>2. QED
    BY <2>1 DEF LinesAreRepeatedByFailuresOnly, FailedExecs
<1>2. CASE RunScript \/ FailToFork
  <2>1. /\ RunsScript /\ log' = log /\ buffer' = buffer \cup {<<Role, event>>}
    BY <1>2 DEF RunScript, FailToFork, Continue
  <2>2. Coming(<<Role, event>>) /\ <<Role, event>> \in Lines
    BY <2>1, LineType DEF RunsScript, Role, Coming
  <2>3. log[<<Role, event>>] = 0
    BY <2>2 DEF Logged
  <2>4. FailedExecs' = FailedExecs
    <3>1. CASE RunScript
      <4>1. /\ DOMAIN children' = DOMAIN children \cup {Len(children) + 1}
            /\ \A j \in DOMAIN children : children'[j] = children[j]
            /\ Len(children) + 1 \notin DOMAIN children
            /\ children'[Len(children) + 1].status = "forked"
        BY <3>1, RunStep DEF NewChild
      <4>2. QED
        BY <4>1 DEF FailedExecs
    <3>2. CASE FailToFork
      BY <3>2 DEF FailToFork, FailedExecs
    <3>3. QED
      BY <1>2, <3>1, <3>2
  <2>5. ASSUME NEW line \in Lines
        PROVE  log'[line] <= (IF line \in buffer' THEN 0 ELSE 1) + Cardinality(FailedExecs')
    <3>1. CASE line = <<Role, event>>
      BY <1>0, <2>1, <2>3, <2>4, <3>1
    <3>2. CASE line # <<Role, event>>
      BY <2>1, <2>4, <3>2 DEF LinesAreRepeatedByFailuresOnly
    <3>3. QED
      BY <3>1, <3>2
  <2>6. QED
    BY <2>5 DEF LinesAreRepeatedByFailuresOnly
<1>3. CASE FlushLog
  <2>1. /\ buffer' = {} /\ FailedExecs' = FailedExecs
        /\ \A line \in Lines : log'[line] = log[line] + IF line \in buffer THEN 1 ELSE 0
    BY <1>3 DEF FlushLog, FailedExecs
  <2>2. ASSUME NEW line \in Lines
        PROVE  log'[line] <= (IF line \in buffer' THEN 0 ELSE 1) + Cardinality(FailedExecs')
    BY <1>0, <2>1 DEF LinesAreRepeatedByFailuresOnly
  <2>3. QED
    BY <2>2 DEF LinesAreRepeatedByFailuresOnly
<1>4. CASE \E i \in DOMAIN children : Process(i)
  <2>1. PICK i \in DOMAIN children : Process(i)
    BY <1>4
  <2>2. buffer' = buffer
    BY <2>1, ProcessStep
  <2>3. log' \in [Lines -> Nat]
    BY <2>1 DEF Process, Exec, FailToExec, Show, Exit, Scalars
  <2>4. ASSUME NEW line \in Lines
        PROVE  log'[line] <= (IF line \in buffer' THEN 0 ELSE 1) + Cardinality(FailedExecs')
    <3>1. log[line] <= (IF line \in buffer THEN 0 ELSE 1) + Cardinality(FailedExecs)
      BY DEF LinesAreRepeatedByFailuresOnly
    <3>2. log'[line] \in Nat /\ log[line] \in Nat
      BY <1>0, <2>3
    <3>3. QED
      BY <1>0, <2>1, <2>2, <3>1, <3>2, FailureStep
  <2>5. QED
    BY <2>4 DEF LinesAreRepeatedByFailuresOnly
<1>5. QED
  BY <1>1, <1>2, <1>3, <1>4 DEF Next, Program

-------------------------------------------------------------------------------
(* The theorems. *)

IInv ==
  /\ Children /\ Scalars /\ Hooks /\ Answered /\ Order /\ Logged
  /\ StaleOnlyByOverlap /\ HookFollowsTheImage
  /\ OnlyTheFirstScriptsCount /\ LinesAreRepeatedByFailuresOnly

\* Before the first event no script has run.
LEMMA IInvInit == Init => IInv
<1> SUFFICES ASSUME Init PROVE IInv
  OBVIOUS
<1>1. Len(Events) \in Nat /\ ProcessLimit \in Nat
  BY EventsType
<1>2. children = <<>> /\ Len(children) = 0 /\ DOMAIN children = {}
  BY DEF Init
<1>3. Children
  BY <1>2, EmptySeq DEF Children
<1>4. Scalars
  BY <1>1 DEF Init, Scalars
<1>5. Hooks /\ Answered /\ Order /\ StaleOnlyByOverlap /\ HookFollowsTheImage
  BY <1>1, <1>2 DEF Init, Hooks, Answered, Order, StaleOnlyByOverlap,
     HookFollowsTheImage
<1>6. OnlyTheFirstScriptsCount /\ Logged
  BY <1>2 DEF Init, OnlyTheFirstScriptsCount, Logged
<1>7. LinesAreRepeatedByFailuresOnly
  BY <1>3, FailuresAreFinite DEF Init, LinesAreRepeatedByFailuresOnly
<1>8. QED
  BY <1>3, <1>4, <1>5, <1>6, <1>7 DEF IInv

\* Every step preserves the invariant.
LEMMA IInvNext == IInv /\ [Next]_vars => IInv'
BY ChildrenNext, ScalarsNext, HooksNext, AnsweredNext, OrderNext, LoggedNext,
   StaleNext, HookFollowsNext, FirstScriptsNext, RepetitionNext DEF IInv

\* The inductive invariant of the scripts.
LEMMA Invariant == Spec => []IInv
BY IInvInit, IInvNext, PTL DEF Spec

\* Type correctness, and never more children than the system lets the program have:
\* script_executor.cpp and its callers.
THEOREM TypeCorrect == Spec => []TypeOK
<1>1. IInv => TypeOK
  BY DEF IInv, Children, Child, Scalars, Hooks, Order, TypeOK
<1>2. QED
  BY <1>1, Invariant, PTL

\* An older picture wins only against a script that ran beside its own: runScript waits
\* for none, and starts them in the order of the images.
THEOREM OnlyOverlapMakesStale == Spec => []StaleOnlyByOverlap
<1>1. IInv => StaleOnlyByOverlap
  BY DEF IInv
<1>2. QED
  BY <1>1, Invariant, PTL

\* With wallutils a hook finds on the screen what the desktop has taken up to its event, or
\* something later, and also when images were refused: background.go, background_setter.cpp,
\* doEvent.
THEOREM HookFindsTheImage == Spec => []HookFollowsTheImage
<1>1. IInv => HookFollowsTheImage
  BY DEF IInv
<1>2. QED
  BY <1>1, Invariant, PTL

\* The log has a line twice only for a child that could not run its script and left by exit:
\* runScript.
THEOREM RepetitionNeedsFailure == Spec => []LinesAreRepeatedByFailuresOnly
<1>1. IInv => LinesAreRepeatedByFailuresOnly
  BY DEF IInv
<1>2. QED
  BY <1>1, Invariant, PTL

\* No script behind the limit ever sets the background: monitorScript is not called, so no
\* process makes room.
THEOREM LateScriptsDoNotCount == Spec => []OnlyTheFirstScriptsCount
<1>1. IInv => OnlyTheFirstScriptsCount
  BY DEF IInv
<1>2. QED
  BY <1>1, Invariant, PTL

===============================================================================
