---------------------------- MODULE EventList_proofs ----------------------------
(***************************************************************************)
(* What the operators of EventList compute, for days of any length and     *)
(* background sets of any size.                                            *)
(***************************************************************************)
EXTENDS EventList, SequenceTheorems, FiniteSetTheorems, WellFoundedInduction, TLAPS

Pairs == [time : TimeOfDay, name : STRING]

-------------------------------------------------------------------------------
(* Numbers. *)

Less == {ss \in Nat \X Nat : ss[1] < ss[2]}

\* Indices have a greatest.
LEMMA MaxExists ==
  ASSUME NEW n \in Nat, NEW S \in SUBSET (1 .. n), S # {}
  PROVE  Max(S) \in S /\ \A y \in S : Max(S) >= y
<1> DEFINE T == {k \in Nat : \E x \in S : k = n - x}
<1>1. T \subseteq Nat
  OBVIOUS
<1>2. T # {}
  <2>1. PICK x \in S : TRUE
    OBVIOUS
  <2>2. n - x \in T
    BY <2>1
  <2>3. QED
    BY <2>2
<1>3. IsWellFoundedOn(Less, Nat)
  BY NatLessThanWellFounded DEF OpToRel, Less
<1> HIDE DEF T
<1>4. PICK m \in T : \A k \in T : ~ (<<k, m>> \in Less)
  BY <1>1, <1>2, <1>3, WFMin
<1>5. PICK x \in S : m = n - x
  BY <1>4 DEF T
<1>6. ASSUME NEW y \in S PROVE x >= y
  <2>1. n - y \in T
    BY DEF T
  <2>2. ~ (n - y < m)
    BY <1>1, <1>4, <2>1 DEF Less
  <2>3. n - y \in Nat /\ n - x \in Nat /\ x \in Nat /\ y \in Nat
    OBVIOUS
  <2>4. QED
    BY <1>5, <2>2, <2>3
<1>7. QED
  BY <1>6 DEF Max

\* A remainder is an index of a sequence, counted from zero.
LEMMA IndexWraps ==
  ASSUME NEW k \in Nat, NEW n \in Nat \ {0}
  PROVE  (k % n) + 1 \in 1 .. n
OBVIOUS

-------------------------------------------------------------------------------
(* Times and pairs. *)

\* Reducing any number of seconds gives a time of day.
LEMMA FromSecondsType ==
  ASSUME NEW s \in Int
  PROVE  FromSeconds(s) \in TimeOfDay
BY DayAssumption DEF FromSeconds, TimeOfDay

\* A remainder that is already reduced, or short of it by less than a day.
LEMMA FromSecondsOfNearby ==
  ASSUME NEW s \in Int
  PROVE  /\ 0 <= s /\ s < Day => FromSeconds(s) = s
         /\ -Day <= s /\ s < 0 => FromSeconds(s) = s + Day
         /\ Day <= s /\ s < 2 * Day => FromSeconds(s) = s - Day
BY DayAssumption DEF FromSeconds

\* The cut transition starts at a time of day and lasts a whole number of seconds.
LEMMA NonOverlappingType ==
  ASSUME NEW time \in TimeOfDay, NEW duration \in Nat, NEW after \in TimeOfDay
  PROVE  /\ NonOverlapping(time, duration, after).time \in TimeOfDay
         /\ NonOverlapping(time, duration, after).duration \in Nat
<1> DEFINE notBefore == IF after > time THEN after - Day ELSE after
           start == IF time - duration >= notBefore THEN time - duration ELSE notBefore
<1>1. start \in Int
  BY DayAssumption DEF TimeOfDay
<1>2. time - start \in Int
  BY <1>1 DEF TimeOfDay
<1>3. FromSeconds(start) \in TimeOfDay /\ FromSeconds(time - start) \in TimeOfDay
  BY <1>1, <1>2, FromSecondsType
<1>4. QED
  BY <1>3, DayAssumption DEF NonOverlapping, Minus, TimeOfDay

\* The transition that ends at `time` does end there, modulo a day, and lasts
\* no longer than asked for.
LEMMA NonOverlappingEnds ==
  ASSUME NEW time \in TimeOfDay, NEW duration \in Nat, NEW after \in TimeOfDay
  PROVE  LET slot == NonOverlapping(time, duration, after)
         IN  Plus(slot.time, slot.duration) = time /\ slot.duration <= duration
<1> DEFINE notBefore == IF after > time THEN after - Day ELSE after
           start == IF time - duration >= notBefore THEN time - duration ELSE notBefore
           length == time - start
<1>1. /\ start \in Int /\ -Day < start /\ start <= time /\ time \in Int
      /\ 0 <= time /\ time < Day
  BY DayAssumption DEF TimeOfDay
<1>2. length \in Int /\ 0 <= length /\ length < Day /\ length <= duration
  BY DayAssumption DEF TimeOfDay
<1>3. NonOverlapping(time, duration, after) =
        [time |-> FromSeconds(start), duration |-> FromSeconds(length)]
  BY DEF NonOverlapping, Minus
<1> HIDE DEF start
<1>4. FromSeconds(length) = length
  BY <1>2, FromSecondsOfNearby
<1>5. FromSeconds(FromSeconds(start) + length) = time
  <2>1. CASE start >= 0
    <3>1. FromSeconds(start) = start
      BY <1>1, <2>1, DayAssumption, FromSecondsOfNearby
    <3>2. FromSeconds(start) + length = time
      BY <1>1, <3>1
    <3>3. QED
      BY <1>1, <3>2, FromSecondsOfNearby
  <2>2. CASE start < 0
    <3>1. FromSeconds(start) = start + Day
      BY <1>1, <2>2, DayAssumption, FromSecondsOfNearby
    <3>2. FromSeconds(start) + length = time + Day
      BY <1>1, <3>1, DayAssumption
    <3>3. time + Day \in Int /\ Day <= time + Day /\ time + Day < 2 * Day
      BY <1>1, DayAssumption
    <3>4. FromSeconds(time + Day) = time
      BY <1>1, <3>3, DayAssumption, FromSecondsOfNearby
    <3>5. QED
      BY <3>2, <3>4
  <2>3. QED
    BY <1>1, <2>1, <2>2
<1>6. QED
  BY <1>2, <1>3, <1>4, <1>5 DEF Plus

\* What one pair contributes is a sequence of events, the last of which sets
\* the image of the pair at its time.
LEMMA EventsAtType ==
  ASSUME NEW b \in Backgrounds, NEW ps \in Seq(Pairs), NEW i \in 1 .. Len(ps)
  PROVE  LET added == EventsAt(b.transition, ps, i)
         IN  /\ added \in Seq(Events)
             /\ Len(added) \in Nat \ {0}
             /\ added[Len(added)] = SetEvent(ps[i].time, ps[i].name)
<1> DEFINE t == b.transition
           p == ps[i]
           q == ps[Before(ps, i)]
           slot == NonOverlapping(p.time, t.duration, Plus(q.time, 1))
           lerp == IF t = NoTransition THEN <<>> ELSE TransitionInto(t, ps, i)
           set == SetEvent(p.time, p.name)
<1>1. p \in Pairs /\ q \in Pairs
  BY DEF Before
<1>2. set \in Events
  BY <1>1 DEF Pairs, SetEvent, SetEvents, Events
<1>3. lerp \in Seq(Events)
  <2>1. CASE t = NoTransition
    BY <2>1
  <2>2. CASE t # NoTransition
    <3>1. t \in Transitions
      BY <2>2, BackgroundsAssumption DEF IsBackground
    <3>2. t.duration \in Nat
      BY <3>1 DEF Transitions
    <3>3. Plus(q.time, 1) \in TimeOfDay
      <4>1. q.time + 1 \in Int
        BY <1>1, DayAssumption DEF Pairs, TimeOfDay
      <4>2. QED
        BY <4>1, FromSecondsType DEF Plus
    <3>4. slot.time \in TimeOfDay /\ slot.duration \in Nat
      BY <1>1, <3>2, <3>3, NonOverlappingType DEF Pairs
    <3>5. slot.duration > 0 => LerpEvent(slot.time, q.name, p.name, slot.duration) \in Events
      BY <1>1, <3>4 DEF LerpEvent, LerpEvents, Events, Pairs
    <3>6. lerp = IF slot.duration > 0
                 THEN <<LerpEvent(slot.time, q.name, p.name, slot.duration)>> ELSE <<>>
      BY <2>2 DEF TransitionInto
    <3> HIDE DEF lerp, slot
    <3>7. QED
      BY <3>5, <3>6
  <2>3. QED
    BY <2>1, <2>2
<1>4. EventsAt(t, ps, i) = lerp \o <<set>>
  BY DEF EventsAt
<1>5. <<set>> \in Seq(Events) /\ Len(<<set>>) = 1 /\ <<set>>[1] = set
  BY <1>2
<1> HIDE DEF lerp, set
<1>6. /\ lerp \o <<set>> \in Seq(Events)
      /\ Len(lerp \o <<set>>) = Len(lerp) + 1
      /\ (lerp \o <<set>>)[Len(lerp) + 1] = set
  BY <1>3, <1>5, ConcatProperties
<1>7. QED
  BY <1>3, <1>4, <1>6 DEF set

\* Events happen at a time of day.
LEMMA EventTime ==
  ASSUME NEW list \in Seq(Events), NEW i \in 1 .. Len(list)
  PROVE  list[i].time \in TimeOfDay /\ list[i].time \in Int
<1>1. list[i] \in Events
  OBVIOUS
<1>2. QED
  BY <1>1 DEF Events, SetEvents, LerpEvents, TimeOfDay

\* Sorting permutes a list, no element lost and none added, and leaves its
\* times ascending.
LEMMA SortedArrangementsProperties ==
  ASSUME NEW S, NEW list \in Seq(S), NEW sorted \in SortedArrangements(list)
  PROVE  /\ sorted \in Seq(S)
         /\ Len(sorted) = Len(list)
         /\ \A i, j \in 1 .. Len(list) : i < j => sorted[i].time <= sorted[j].time
         /\ \A i \in 1 .. Len(list) : \E j \in 1 .. Len(list) : sorted[j] = list[i]
         /\ \A i \in 1 .. Len(list) : \E j \in 1 .. Len(list) : sorted[i] = list[j]
<1>1. PICK p :
         /\ sorted = [i \in DOMAIN list |-> list[p[i]]]
         /\ \A i, j \in DOMAIN list : i < j => list[p[i]].time <= list[p[j]].time
         /\ p \in [DOMAIN list -> DOMAIN list]
         /\ \A i \in DOMAIN list : \E j \in DOMAIN list : p[j] = i
  BY DEF SortedArrangements, IsPermutation
<1>2. DOMAIN list = 1 .. Len(list)
  OBVIOUS
<1>3. p \in [1 .. Len(list) -> 1 .. Len(list)]
  BY <1>1, <1>2
<1>4. sorted \in Seq(S) /\ Len(sorted) = Len(list)
  BY <1>1, <1>2, <1>3
<1>5. \A i, j \in 1 .. Len(list) : i < j => sorted[i].time <= sorted[j].time
  BY <1>1, <1>2, <1>3
<1>6. ASSUME NEW i \in 1 .. Len(list)
      PROVE  \E j \in 1 .. Len(list) : sorted[j] = list[i]
  <2>1. PICK j \in DOMAIN list : p[j] = i
    BY <1>1, <1>2
  <2>2. sorted[j] = list[i]
    BY <1>1, <2>1
  <2>3. QED
    BY <1>2, <2>1, <2>2
<1>7. ASSUME NEW i \in 1 .. Len(list)
      PROVE  \E j \in 1 .. Len(list) : sorted[i] = list[j]
  <2>1. p[i] \in 1 .. Len(list)
    BY <1>3
  <2>2. sorted[i] = list[p[i]]
    BY <1>1, <1>2
  <2>3. QED
    BY <2>1, <2>2
<1>8. QED
  BY <1>4, <1>5, <1>6, <1>7

\* The pairs of a linear set: one per time that has an image.
LEMMA LinearPairsType ==
  ASSUME NEW b \in Backgrounds
  PROVE  LinearPairs(b) \in Seq(Pairs) /\ Len(LinearPairs(b)) # 0
<1> DEFINE n == IF Len(b.times) <= Len(b.imageNames) THEN Len(b.times) ELSE Len(b.imageNames)
<1>1. /\ b.times \in Seq(TimeOfDay) /\ Len(b.times) # 0
      /\ b.imageNames \in Seq(STRING) /\ Len(b.imageNames) # 0
  BY BackgroundsAssumption DEF IsBackground
<1>2. n \in Nat /\ n # 0 /\ DOMAIN b.times \cap DOMAIN b.imageNames = 1 .. n
  BY <1>1
<1>3. \A i \in 1 .. n : Pair(b.times[i], b.imageNames[i]) \in Pairs
  BY <1>1 DEF Pair, Pairs
<1> HIDE DEF n
<1>4. LinearPairs(b) = [i \in 1 .. n |-> Pair(b.times[i], b.imageNames[i])]
  BY <1>2 DEF LinearPairs
<1>5. LinearPairs(b) \in [1 .. n -> Pairs]
  BY <1>3, <1>4
<1>6. QED
  BY <1>2, <1>5

\* The pairs of a random set: one per time, whatever the shuffle.
LEMMA RandomPairsType ==
  ASSUME NEW b \in Backgrounds, NEW names \in Shuffles(b.imageNames)
  PROVE  RandomPairs(b, names) \in Seq(Pairs) /\ Len(RandomPairs(b, names)) # 0
<1>1. /\ b.times \in Seq(TimeOfDay) /\ Len(b.times) # 0
      /\ b.imageNames \in Seq(STRING) /\ Len(b.imageNames) # 0
  BY BackgroundsAssumption DEF IsBackground
<1>2. PICK p : /\ names = [i \in DOMAIN b.imageNames |-> b.imageNames[p[i]]]
               /\ p \in [DOMAIN b.imageNames -> DOMAIN b.imageNames]
  BY DEF Shuffles, IsPermutation
<1>3. names \in Seq(STRING) /\ Len(names) = Len(b.imageNames)
  <2>1. DOMAIN b.imageNames = 1 .. Len(b.imageNames) /\ Len(b.imageNames) \in Nat
    BY <1>1
  <2>2. p \in [1 .. Len(b.imageNames) -> 1 .. Len(b.imageNames)]
    BY <1>2, <2>1
  <2>3. QED
    BY <1>1, <1>2, <2>1, <2>2
<1>4. ASSUME NEW i \in 1 .. Len(b.times)
      PROVE  Pair(b.times[i], names[((i - 1) % Len(names)) + 1]) \in Pairs
  <2>1. i - 1 \in Nat /\ Len(names) \in Nat \ {0}
    BY <1>1, <1>3
  <2>2. ((i - 1) % Len(names)) + 1 \in 1 .. Len(names)
    BY <2>1, IndexWraps
  <2>3. b.times[i] \in TimeOfDay /\ names[((i - 1) % Len(names)) + 1] \in STRING
    BY <1>1, <1>3, <2>2
  <2>4. QED
    BY <2>3 DEF Pair, Pairs
<1>6. DOMAIN b.times = 1 .. Len(b.times) /\ Len(b.times) \in Nat
  BY <1>1
<1>7. RandomPairs(b, names) \in [1 .. Len(b.times) -> Pairs]
  BY <1>4, <1>6 DEF RandomPairs
<1>8. QED
  BY <1>1, <1>6, <1>7

-------------------------------------------------------------------------------
(* Recursion over data.  A set of numbers that has 0 and the successor of   *)
(* each of its members has them all; that is enough to compute with the     *)
(* recursive functions behind FoldLeft and FlattenSeq.                      *)

\* Induction, for a set instead of a predicate.
LEMMA NumbersByInduction ==
  ASSUME NEW S \in SUBSET Nat, 0 \in S, \A n \in S : n + 1 \in S
  PROVE  \A n \in Nat : n \in S
<1> SUFFICES ASSUME NEW k \in Nat, k \notin S
             PROVE  FALSE
  OBVIOUS
<1> DEFINE T == Nat \ S
<1>1. IsWellFoundedOn(Less, Nat)
  BY NatLessThanWellFounded DEF OpToRel, Less
<1>2. PICK n \in T : \A m \in T : ~ (<<m, n>> \in Less)
  BY <1>1, WFMin
<1>3. n # 0 /\ n - 1 \in Nat
  BY <1>2
<1>4. <<n - 1, n>> \in Less
  BY <1>3 DEF Less
<1>5. n - 1 \in S
  BY <1>2, <1>3, <1>4
<1>6. QED
  BY <1>2, <1>3, <1>5

\* The same up to a bound.
LEMMA NumbersUpTo ==
  ASSUME NEW n \in Nat, NEW S, 0 \in S, \A k \in 0 .. (n - 1) : k \in S => k + 1 \in S
  PROVE  \A k \in 0 .. n : k \in S
<1> DEFINE T == {k \in Nat : k <= n => k \in S}
<1>1. 0 \in T /\ T \in SUBSET Nat
  OBVIOUS
<1>2. ASSUME NEW k \in T PROVE k + 1 \in T
  OBVIOUS
<1> HIDE DEF T
<1>3. \A k \in Nat : k \in T
  BY <1>1, <1>2, NumbersByInduction
<1>4. QED
  BY <1>3 DEF T

-------------------------------------------------------------------------------
(* removeOverlappingEvents as a pass. *)

\* What the pass has made of no event.
Untouched == [kept |-> <<>>, eraseLerp |-> FALSE]

\* What it makes of the events with these indices, by FoldLeft.
Pass(list) ==
  CHOOSE pass :
    pass = [s \in SUBSET DOMAIN list |->
              IF s = {} THEN Untouched ELSE RemoveStep(pass[s \ {Max(s)}], list[Max(s)])]

\* After the first n events.
PassAt(list, n) == Pass(list)[1 .. n]

\* There is such a function: for each number of events, one that is right about
\* all sets of so many indices is made from one for sets of one index less.
LEMMA PassExists ==
  ASSUME NEW S, NEW list \in Seq(S)
  PROVE  Pass(list) =
           [s \in SUBSET DOMAIN list |->
              IF s = {} THEN Untouched
              ELSE RemoveStep(Pass(list)[s \ {Max(s)}], list[Max(s)])]
<1> DEFINE D == DOMAIN list
           Down(f, s) == IF s = {} THEN Untouched ELSE RemoveStep(f[s \ {Max(s)}], list[Max(s)])
           Right(f, n) == \A s \in SUBSET D : s \subseteq 1 .. n => f[s] = Down(f, s)
           Reached == {n \in Nat : \E f : Right(f, n)}
<1>1. Len(list) \in Nat /\ D = 1 .. Len(list)
  BY LenProperties
<1>2. 0 \in Reached
  <2> DEFINE f == [s \in SUBSET D |-> Untouched]
  <2>1. \A s \in SUBSET D : s \subseteq 1 .. 0 => s = {}
    OBVIOUS
  <2>2. Right(f, 0)
    BY <2>1
  <2>3. QED
    BY <2>2
<1>3. ASSUME NEW n \in Reached PROVE n + 1 \in Reached
  <2>1. n \in Nat
    OBVIOUS
  <2>2. PICK f : Right(f, n)
    OBVIOUS
  <2> DEFINE g == [s \in SUBSET D |-> Down(f, s)]
  <2>3. ASSUME NEW s \in SUBSET D, s \subseteq 1 .. (n + 1)
        PROVE  g[s] = Down(g, s)
    <3>1. CASE s = {}
      BY <3>1
    <3>2. CASE s # {}
      <4> DEFINE rest == s \ {Max(s)}
      <4>1. Max(s) \in s /\ \A y \in s : Max(s) >= y
        BY <1>1, <3>2, MaxExists
      <4>2. rest \in SUBSET D /\ rest \subseteq 1 .. n
        <5>1. ASSUME NEW y \in rest PROVE y \in 1 .. n
          <6>1. y \in 1 .. (n + 1) /\ Max(s) \in 1 .. (n + 1) /\ y # Max(s) /\ Max(s) >= y
            BY <2>1, <2>3, <4>1
          <6>2. QED
            BY <2>1, <6>1
        <5>2. QED
          BY <5>1
      <4>3. f[rest] = Down(f, rest) /\ g[rest] = Down(f, rest)
        BY <2>2, <4>2
      <4>4. g[s] = RemoveStep(f[rest], list[Max(s)])
        BY <3>2
      <4>5. QED
        BY <3>2, <4>3, <4>4
    <3>3. QED
      BY <3>1, <3>2
  <2>4. Right(g, n + 1)
    BY <2>3
  <2> HIDE DEF g, Right
  <2>5. n + 1 \in Nat /\ \E h : Right(h, n + 1)
    BY <2>1, <2>4
  <2>6. QED
    BY <2>5
<1>4. Len(list) \in Reached
  <2> HIDE DEF Reached
  <2>1. Reached \in SUBSET Nat
    BY DEF Reached
  <2>2. QED
    BY <1>1, <1>2, <1>3, <2>1, NumbersByInduction
<1>5. PICK f : Right(f, Len(list))
  BY <1>4
<1> DEFINE g == [s \in SUBSET D |-> f[s]]
<1>6. g = [s \in SUBSET D |-> Down(g, s)]
  <2>1. ASSUME NEW s \in SUBSET D PROVE f[s] = Down(g, s)
    <3>1. f[s] = Down(f, s)
      BY <1>1, <1>5
    <3>2. s \ {Max(s)} \in SUBSET D
      OBVIOUS
    <3>3. QED
      BY <3>1, <3>2
  <2>2. QED
    BY <2>1
<1>7. QED
  BY <1>6 DEF Pass

\* The pass takes the events one by one.
LEMMA PassSteps ==
  ASSUME NEW S, NEW list \in Seq(S)
  PROVE  /\ PassAt(list, 0) = Untouched
         /\ \A n \in 1 .. Len(list) : PassAt(list, n) = RemoveStep(PassAt(list, n - 1), list[n])
         /\ RemoveOverlapping(list) = PassAt(list, Len(list)).kept
<1>1. Len(list) \in Nat /\ DOMAIN list = 1 .. Len(list)
  BY LenProperties
<1> DEFINE Down(s) == IF s = {} THEN Untouched
                      ELSE RemoveStep(Pass(list)[s \ {Max(s)}], list[Max(s)])
<1>2. \A s \in SUBSET DOMAIN list : Pass(list)[s] = Down(s)
  <2>1. Pass(list) = [s \in SUBSET DOMAIN list |-> Down(s)]
    BY PassExists
  <2> HIDE DEF Down
  <2>2. QED
    BY <2>1
<1>3. PassAt(list, 0) = Untouched
  <2>1. 1 .. 0 = {}
    OBVIOUS
  <2>2. QED
    BY <1>2, <2>1 DEF PassAt
<1>4. ASSUME NEW n \in 1 .. Len(list)
      PROVE  PassAt(list, n) = RemoveStep(PassAt(list, n - 1), list[n])
  <2>1. 1 .. n \in SUBSET DOMAIN list /\ 1 .. n # {} /\ n \in Nat /\ n \in 1 .. n
    <3>1. n \in Nat /\ n \in 1 .. n
      BY <1>1
    <3>2. \A i \in 1 .. n : i \in DOMAIN list
      BY <1>1
    <3>3. QED
      BY <3>1, <3>2
  <2>2. Max(1 .. n) = n
    <3>1. Max(1 .. n) \in 1 .. n /\ Max(1 .. n) >= n
      BY <2>1, MaxExists
    <3>2. QED
      BY <2>1, <3>1
  <2>3. (1 .. n) \ {n} = 1 .. (n - 1)
    BY <2>1
  <2>4. QED
    BY <1>2, <2>1, <2>2, <2>3 DEF PassAt
<1>5. RemoveOverlapping(list) = Pass(list)[DOMAIN list].kept
  BY DEF RemoveOverlapping, FoldLeft, MapThenFoldSet, Pass, Untouched
<1>6. QED
  BY <1>1, <1>3, <1>4, <1>5 DEF PassAt

\* Two passes that agree at some point, and have the same events before them, agree
\* at the end.
LEMMA PassesAgree ==
  ASSUME NEW S, NEW one \in Seq(S), NEW other \in Seq(S),
         NEW m \in 0 .. Len(one), NEW n \in 0 .. Len(other), Len(one) - m = Len(other) - n,
         \A k \in 1 .. (Len(one) - m) : one[m + k] = other[n + k],
         PassAt(one, m) = PassAt(other, n)
  PROVE  RemoveOverlapping(one) = RemoveOverlapping(other)
<1> DEFINE ahead == Len(one) - m
           Agreed == {k \in 0 .. ahead : PassAt(one, m + k) = PassAt(other, n + k)}
<1>1. /\ Len(one) \in Nat /\ Len(other) \in Nat /\ m \in Nat /\ n \in Nat /\ ahead \in Nat
      /\ m + ahead = Len(one) /\ n + ahead = Len(other)
  BY LenProperties
<1>2. 0 \in Agreed
  BY <1>1
<1>3. ASSUME NEW k \in 0 .. (ahead - 1), k \in Agreed PROVE k + 1 \in Agreed
  <2>1. /\ m + (k + 1) \in 1 .. Len(one) /\ n + (k + 1) \in 1 .. Len(other)
        /\ m + (k + 1) - 1 = m + k /\ n + (k + 1) - 1 = n + k
        /\ k + 1 \in 1 .. ahead /\ k + 1 \in 0 .. ahead
    BY <1>1
  <2>2. /\ PassAt(one, m + (k + 1)) = RemoveStep(PassAt(one, m + k), one[m + (k + 1)])
        /\ PassAt(other, n + (k + 1)) = RemoveStep(PassAt(other, n + k), other[n + (k + 1)])
    BY <2>1, PassSteps
  <2>3. one[m + (k + 1)] = other[n + (k + 1)] /\ PassAt(one, m + k) = PassAt(other, n + k)
    BY <1>3, <2>1
  <2>4. QED
    BY <2>1, <2>2, <2>3
<1>4. ahead \in Agreed
  <2> HIDE DEF Agreed, ahead
  <2>1. \A k \in 0 .. ahead : k \in Agreed
    BY <1>1, <1>2, <1>3, NumbersUpTo
  <2>2. QED
    BY <1>1, <2>1
<1>5. PassAt(one, Len(one)) = PassAt(other, Len(other))
  BY <1>1, <1>4
<1>6. QED
  BY <1>5, PassSteps

\* What the pass does with one event, by the kinds of it and of the last one kept.
LEMMA RemoveStepCases ==
  ASSUME NEW kept \in Seq(Events), NEW e \in Events, NEW erase \in BOOLEAN,
         erase => ~ IsLerp(e)
  PROVE  LET step == RemoveStep([kept |-> kept, eraseLerp |-> erase], e)
             last == kept[Len(kept)]
             others == SubSeq(kept, 1, Len(kept) - 1)
         IN  /\ kept = <<>> \/ last.time # e.time
                  => step = [kept |-> Append(kept, e), eraseLerp |-> FALSE]
             /\ kept # <<>> /\ last.time = e.time =>
                  /\ IsLerp(last) /\ IsLerp(e) => step = [kept |-> others, eraseLerp |-> FALSE]
                  /\ IsSet(last) /\ IsSet(e)
                       => step = [kept |-> Append(others, e), eraseLerp |-> FALSE]
                  /\ IsSet(last) /\ IsLerp(e) => step = [kept |-> kept, eraseLerp |-> FALSE]
                  /\ IsLerp(last) /\ IsSet(e)
                       => step = [kept |-> Append(others, e), eraseLerp |-> TRUE]
BY DEF RemoveStep, Last, Front, IsLerp, IsSet

\* After a transition was erased in front of a set event, the next transition goes.
LEMMA RemoveStepErases ==
  ASSUME NEW kept, NEW e, IsLerp(e)
  PROVE  RemoveStep([kept |-> kept, eraseLerp |-> TRUE], e)
           = [kept |-> kept, eraseLerp |-> FALSE]
BY DEF RemoveStep

\* A set event does not mind.
LEMMA RemoveStepSpares ==
  ASSUME NEW kept \in Seq(Events), NEW e \in Events, ~ IsLerp(e)
  PROVE  RemoveStep([kept |-> kept, eraseLerp |-> TRUE], e)
           = RemoveStep([kept |-> kept, eraseLerp |-> FALSE], e)
<1> DEFINE Step(erase) == RemoveStep([kept |-> kept, eraseLerp |-> erase], e)
           last == kept[Len(kept)]
           others == SubSeq(kept, 1, Len(kept) - 1)
<1>1. IsSet(e)
  BY DEF Events, SetEvents, LerpEvents, IsSet, IsLerp
<1>2. CASE kept = <<>> \/ last.time # e.time
  <2>1. \A erase \in BOOLEAN : Step(erase) = [kept |-> Append(kept, e), eraseLerp |-> FALSE]
    BY <1>2, RemoveStepCases
  <2>2. QED
    BY <2>1
<1>3. CASE kept # <<>> /\ last.time = e.time
  <2>1. Len(kept) \in 1 .. Len(kept)
    BY <1>3, LenProperties, EmptySeq
  <2>2. last \in Events
    BY <2>1, ElementOfSeq
  <2>3. IsLerp(last) \/ IsSet(last)
    BY <2>2 DEF Events, SetEvents, LerpEvents, IsSet, IsLerp
  <2>4. CASE IsLerp(last)
    <3>1. \A erase \in BOOLEAN : Step(erase) = [kept |-> Append(others, e), eraseLerp |-> TRUE]
      BY <1>1, <1>3, <2>4, RemoveStepCases
    <3>2. QED
      BY <3>1
  <2>5. CASE IsSet(last)
    <3>1. \A erase \in BOOLEAN : Step(erase) = [kept |-> Append(others, e), eraseLerp |-> FALSE]
      BY <1>1, <1>3, <2>5, RemoveStepCases
    <3>2. QED
      BY <3>1
  <2>6. QED
    BY <2>3, <2>4, <2>5
<1>4. QED
  BY <1>2, <1>3

\* A beginning of a list.
LEMMA Beginning ==
  ASSUME NEW list \in Seq(Events), NEW n \in 0 .. Len(list)
  PROVE  /\ SubSeq(list, 1, n) \in Seq(Events) /\ Len(SubSeq(list, 1, n)) = n
         /\ \A i \in 1 .. n : SubSeq(list, 1, n)[i] = list[i]
         /\ n = 0 <=> SubSeq(list, 1, n) = <<>>
         /\ n > 0 => /\ SubSeq(list, 1, n) = Append(SubSeq(list, 1, n - 1), list[n])
                     /\ SubSeq(SubSeq(list, 1, n), 1, n - 1) = SubSeq(list, 1, n - 1)
<1>1. Len(list) \in Nat /\ n \in Int /\ \A i \in 1 .. n : list[i] \in Events
  BY LenProperties, ElementOfSeq
<1>2. /\ SubSeq(list, 1, n) \in Seq(Events) /\ Len(SubSeq(list, 1, n)) = n
      /\ \A i \in 1 .. n : SubSeq(list, 1, n)[i] = list[i]
  <2>1. /\ SubSeq(list, 1, n) \in Seq(Events)
        /\ Len(SubSeq(list, 1, n)) = IF 1 <= n THEN n - 1 + 1 ELSE 0
        /\ \A i \in 1 .. n - 1 + 1 : SubSeq(list, 1, n)[i] = list[1 + i - 1]
    BY <1>1, SubSeqProperties
  <2>2. QED
    BY <1>1, <2>1
<1>3. n = 0 <=> SubSeq(list, 1, n) = <<>>
  BY <1>1, <1>2, EmptySeq
<1>4. ASSUME n > 0
      PROVE  /\ SubSeq(list, 1, n) = Append(SubSeq(list, 1, n - 1), list[n])
             /\ SubSeq(SubSeq(list, 1, n), 1, n - 1) = SubSeq(list, 1, n - 1)
  <2> DEFINE most == SubSeq(list, 1, n - 1)
             all == SubSeq(list, 1, n)
             again == SubSeq(all, 1, n - 1)
  <2>1. /\ most \in Seq(Events) /\ Len(most) = n - 1
        /\ \A i \in 1 .. (n - 1) : most[i] = list[i]
    <3>1. /\ SubSeq(list, 1, n - 1) \in Seq(Events)
          /\ Len(SubSeq(list, 1, n - 1)) = IF 1 <= n - 1 THEN n - 1 - 1 + 1 ELSE 0
          /\ \A i \in 1 .. n - 1 - 1 + 1 : SubSeq(list, 1, n - 1)[i] = list[1 + i - 1]
      BY <1>1, <1>4, SubSeqProperties
    <3>2. QED
      BY <1>1, <1>4, <3>1
  <2>2. /\ Append(most, list[n]) \in Seq(Events) /\ Len(Append(most, list[n])) = n
        /\ \A i \in 1 .. (n - 1) : Append(most, list[n])[i] = most[i]
        /\ Append(most, list[n])[n] = list[n]
    <3>1. list[n] \in Events
      BY <1>1, <1>4
    <3>2. QED
      BY <1>1, <1>4, <2>1, <3>1, AppendProperties
  <2>3. /\ again \in Seq(Events) /\ Len(again) = n - 1
        /\ \A i \in 1 .. (n - 1) : again[i] = all[i]
    <3>1. \A i \in 1 .. (n - 1) : all[i] \in Events
      BY <1>1, <1>2
    <3>2. /\ SubSeq(all, 1, n - 1) \in Seq(Events)
          /\ Len(SubSeq(all, 1, n - 1)) = IF 1 <= n - 1 THEN n - 1 - 1 + 1 ELSE 0
          /\ \A i \in 1 .. n - 1 - 1 + 1 : SubSeq(all, 1, n - 1)[i] = all[1 + i - 1]
      <4> HIDE DEF all
      <4>1. QED
        BY <1>1, <1>4, <3>1, SubSeqProperties
    <3>3. QED
      BY <1>1, <1>4, <3>2
  <2>4. \A i \in 1 .. n : all[i] = Append(most, list[n])[i]
    <3>1. ASSUME NEW i \in 1 .. n PROVE all[i] = Append(most, list[n])[i]
      <4>1. all[i] = list[i]
        BY <1>2
      <4>2. i = n \/ i \in 1 .. (n - 1)
        BY <1>1
      <4>3. QED
        BY <2>1, <2>2, <4>1, <4>2
    <3>2. QED
      BY <3>1
  <2>5. all = Append(most, list[n])
    <3> HIDE DEF all, most
    <3>1. all \in Seq(Events) /\ Len(all) = n
      BY <1>2 DEF all
    <3>2. QED
      BY <2>2, <2>4, <3>1, SeqEqual
  <2>6. again = most
    <3>1. \A i \in 1 .. (n - 1) : again[i] = most[i]
      BY <1>1, <1>2, <2>1, <2>3
    <3> HIDE DEF again, most
    <3>2. QED
      BY <2>1, <2>3, <3>1, SeqEqual
  <2>7. QED
    BY <2>5, <2>6
<1>5. QED
  BY <1>2, <1>3, <1>4

\* While the list ascends strictly, the pass keeps what it comes to.
LEMMA PassKeepsAscending ==
  ASSUME NEW list \in Seq(Events), NEW n \in 0 .. Len(list),
         \A i \in 1 .. (n - 1) : list[i].time # list[i + 1].time
  PROVE  PassAt(list, n) = [kept |-> SubSeq(list, 1, n), eraseLerp |-> FALSE]
<1> DEFINE Kept == {k \in 0 .. n : PassAt(list, k)
                                     = [kept |-> SubSeq(list, 1, k), eraseLerp |-> FALSE]}
<1>0. /\ PassAt(list, 0) = [kept |-> <<>>, eraseLerp |-> FALSE]
      /\ \A k \in 1 .. Len(list) : PassAt(list, k) = RemoveStep(PassAt(list, k - 1), list[k])
  BY PassSteps, Zenon DEF Untouched
<1>1. Len(list) \in Nat /\ n \in Nat
  BY LenProperties
<1>2. 0 \in Kept
  <2>1. SubSeq(list, 1, 0) = <<>>
    BY <1>1, Beginning
  <2>2. PassAt(list, 0) = [kept |-> SubSeq(list, 1, 0), eraseLerp |-> FALSE]
    BY <1>0, <2>1
  <2>3. 0 \in 0 .. n
    BY <1>1
  <2>4. QED
    BY <2>2, <2>3
<1>3. ASSUME NEW k \in 0 .. (n - 1), k \in Kept PROVE k + 1 \in Kept
  <2> DEFINE kept == SubSeq(list, 1, k)
             e == list[k + 1]
  <2>1. k + 1 \in 1 .. Len(list) /\ k + 1 \in 0 .. n /\ k + 1 - 1 = k /\ k \in 0 .. Len(list)
    BY <1>1
  <2>2. PassAt(list, k + 1) = RemoveStep([kept |-> kept, eraseLerp |-> FALSE], e)
    <3>1. PassAt(list, k) = [kept |-> kept, eraseLerp |-> FALSE]
      BY <1>3
    <3>2. PassAt(list, k + 1) = RemoveStep(PassAt(list, k + 1 - 1), e)
      BY <1>0, <2>1
    <3>3. QED
      BY <2>1, <3>1, <3>2
  <2>3. kept \in Seq(Events) /\ Len(kept) = k /\ (k > 0 => kept[k] = list[k]) /\ e \in Events
    <3>1. e \in Events
      BY <2>1, ElementOfSeq
    <3>2. /\ kept \in Seq(Events) /\ Len(kept) = k
          /\ \A i \in 1 .. k : kept[i] = list[i]
      BY <2>1, Beginning
    <3>3. QED
      BY <2>1, <3>1, <3>2
  <2>4. kept = <<>> \/ kept[Len(kept)].time # e.time
    <3>1. CASE k = 0
      BY <2>1, <3>1, Beginning
    <3>2. CASE k # 0
      <4>1. k \in 1 .. (n - 1) /\ k > 0
        BY <1>1, <3>2
      <4>2. QED
        BY <2>3, <4>1
    <3>3. QED
      BY <3>1, <3>2
  <2>5. RemoveStep([kept |-> kept, eraseLerp |-> FALSE], e)
          = [kept |-> Append(kept, e), eraseLerp |-> FALSE]
    <3> HIDE DEF kept, e
    <3>1. QED
      BY <2>3, <2>4, RemoveStepCases
  <2>6. SubSeq(list, 1, k + 1) = Append(kept, e)
    <3>1. k + 1 \in 0 .. Len(list) /\ k + 1 > 0
      BY <1>1, <2>1
    <3>2. SubSeq(list, 1, k + 1) = Append(SubSeq(list, 1, k + 1 - 1), list[k + 1])
      BY <3>1, Beginning
    <3>3. QED
      BY <2>1, <3>2
  <2>7. QED
    BY <2>1, <2>2, <2>5, <2>6
<1>4. n \in Kept
  <2> HIDE DEF Kept
  <2>1. \A k \in 0 .. n : k \in Kept
    BY <1>1, <1>2, <1>3, NumbersUpTo
  <2>2. QED
    BY <1>1, <2>1
<1>5. QED
  BY <1>4

\* The pass leaves a list alone that ascends strictly.
LEMMA PassOfSorted ==
  ASSUME NEW list \in Seq(Events), StrictlySorted(list)
  PROVE  RemoveOverlapping(list) = list
<1>1. Len(list) \in Nat /\ DOMAIN list = 1 .. Len(list)
  BY LenProperties
<1>2. ASSUME NEW i \in 1 .. (Len(list) - 1) PROVE list[i].time # list[i + 1].time
  <2>1. i \in DOMAIN list /\ i + 1 \in DOMAIN list /\ i < i + 1
    BY <1>1
  <2>2. list[i].time < list[i + 1].time
    BY <2>1 DEF StrictlySorted
  <2>3. list[i].time \in Int /\ list[i + 1].time \in Int
    BY <1>1, <2>1, EventTime
  <2>4. QED
    BY <2>2, <2>3
<1>3. PassAt(list, Len(list)) = [kept |-> SubSeq(list, 1, Len(list)), eraseLerp |-> FALSE]
  BY <1>1, <1>2, PassKeepsAscending
<1>4. QED
  BY <1>3, PassSteps, SubSeqFull
-------------------------------------------------------------------------------
(* The events of all pairs, appended one pair after the other. *)

\* The function FlattenSeq takes its value from.
Flattening(seqs) ==
  CHOOSE flatten :
    flatten = [i \in 1 .. Len(seqs) |->
                 IF i = 1 THEN seqs[i] ELSE flatten[i - 1] \o seqs[i]]

\* What it has made of the first n sequences.
Flattened(seqs, n) == IF n = 0 THEN <<>> ELSE Flattening(seqs)[n]

\* There is such a function: one that is right up to n is made from one that is
\* right up to n - 1.
LEMMA FlatteningExists ==
  ASSUME NEW seqs, Len(seqs) \in Nat
  PROVE  Flattening(seqs) =
           [i \in 1 .. Len(seqs) |->
              IF i = 1 THEN seqs[i] ELSE Flattening(seqs)[i - 1] \o seqs[i]]
<1> DEFINE D == 1 .. Len(seqs)
           Down(f, i) == IF i = 1 THEN seqs[i] ELSE f[i - 1] \o seqs[i]
           Right(f, n) == \A i \in D : i <= n => f[i] = Down(f, i)
           Reached == {n \in Nat : \E f : Right(f, n)}
<1>1. 0 \in Reached
  <2> DEFINE f == [i \in D |-> <<>>]
  <2>1. \A i \in D : ~ (i <= 0)
    OBVIOUS
  <2>2. Right(f, 0)
    BY <2>1
  <2>3. QED
    BY <2>2
<1>2. ASSUME NEW n \in Reached PROVE n + 1 \in Reached
  <2>1. n \in Nat
    OBVIOUS
  <2>2. PICK f : Right(f, n)
    OBVIOUS
  <2> DEFINE g == [i \in D |-> Down(f, i)]
  <2>3. ASSUME NEW i \in D, i <= n + 1 PROVE g[i] = Down(g, i)
    <3>1. CASE i = 1
      BY <3>1
    <3>2. CASE i # 1
      <4>1. i - 1 \in D /\ i - 1 <= n
        BY <2>1, <2>3, <3>2
      <4>2. f[i - 1] = g[i - 1]
        BY <2>2, <4>1
      <4>3. g[i] = f[i - 1] \o seqs[i]
        BY <3>2
      <4>4. QED
        BY <3>2, <4>2, <4>3
    <3>3. QED
      BY <3>1, <3>2
  <2>4. Right(g, n + 1)
    BY <2>3
  <2> HIDE DEF g, Right
  <2>5. n + 1 \in Nat /\ \E h : Right(h, n + 1)
    BY <2>1, <2>4
  <2>6. QED
    BY <2>5
<1>3. Len(seqs) \in Reached
  <2> HIDE DEF Reached
  <2>1. Reached \in SUBSET Nat
    BY DEF Reached
  <2>2. QED
    BY <1>1, <1>2, <2>1, NumbersByInduction
<1>4. PICK f : Right(f, Len(seqs))
  BY <1>3
<1> DEFINE g == [i \in D |-> f[i]]
<1>5. g = [i \in D |-> Down(g, i)]
  <2>1. ASSUME NEW i \in D PROVE f[i] = Down(g, i)
    <3>1. f[i] = Down(f, i)
      BY <1>4
    <3>2. i # 1 => i - 1 \in D
      OBVIOUS
    <3>3. QED
      BY <3>1, <3>2
  <2>2. QED
    BY <2>1
<1>6. QED
  BY <1>5 DEF Flattening

\* FlattenSeq appends the sequences one by one.
LEMMA FlattenSteps ==
  ASSUME NEW S, NEW seqs \in Seq(Seq(S))
  PROVE  /\ Flattened(seqs, 0) = <<>>
         /\ \A n \in 1 .. Len(seqs) : Flattened(seqs, n) = Flattened(seqs, n - 1) \o seqs[n]
         /\ \A n \in 0 .. Len(seqs) : Flattened(seqs, n) \in Seq(S)
         /\ FlattenSeq(seqs) = Flattened(seqs, Len(seqs))
<1>1. Len(seqs) \in Nat /\ \A n \in 1 .. Len(seqs) : seqs[n] \in Seq(S)
  BY LenProperties, ElementOfSeq
<1>2. Flattened(seqs, 0) = <<>>
  BY DEF Flattened
<1>3. ASSUME NEW n \in 1 .. Len(seqs)
      PROVE  Flattened(seqs, n) = Flattened(seqs, n - 1) \o seqs[n]
  <2>1. Flattening(seqs)[n] = IF n = 1 THEN seqs[n] ELSE Flattening(seqs)[n - 1] \o seqs[n]
    BY <1>1, FlatteningExists
  <2>2. CASE n = 1
    <3>1. <<>> \o seqs[1] = seqs[1]
      BY <1>1, <2>2, ConcatEmptySeq
    <3>2. QED
      BY <2>1, <2>2, <3>1 DEF Flattened
  <2>3. CASE n # 1
    <3>1. n # 0 /\ n - 1 # 0
      BY <1>1, <2>3
    <3>2. QED
      BY <2>1, <2>3, <3>1 DEF Flattened
  <2>4. QED
    BY <2>2, <2>3
<1>4. \A n \in 0 .. Len(seqs) : Flattened(seqs, n) \in Seq(S)
  <2> DEFINE Typed == {n \in 0 .. Len(seqs) : Flattened(seqs, n) \in Seq(S)}
  <2>1. 0 \in Typed
    <3>1. 0 \in 0 .. Len(seqs) /\ <<>> \in Seq(S)
      BY <1>1
    <3>2. QED
      BY <1>2, <3>1
  <2>2. ASSUME NEW k \in 0 .. (Len(seqs) - 1), k \in Typed PROVE k + 1 \in Typed
    <3>1. k + 1 \in 1 .. Len(seqs) /\ k + 1 \in 0 .. Len(seqs) /\ k + 1 - 1 = k
      BY <1>1
    <3>2. Flattened(seqs, k + 1) = Flattened(seqs, k) \o seqs[k + 1]
      <4> DEFINE n == k + 1
      <4>1. n \in 1 .. Len(seqs)
        BY <3>1
      <4> HIDE DEF n
      <4>2. Flattened(seqs, n) = Flattened(seqs, n - 1) \o seqs[n]
        BY <1>3, <4>1
      <4>3. n - 1 = k
        BY <3>1 DEF n
      <4>4. QED
        BY <4>2, <4>3 DEF n
    <3>3. Flattened(seqs, k) \in Seq(S) /\ seqs[k + 1] \in Seq(S)
      BY <1>1, <2>2, <3>1
    <3>4. Flattened(seqs, k + 1) \in Seq(S)
      BY <3>2, <3>3, ConcatProperties
    <3>5. QED
      BY <3>1, <3>4
  <2> HIDE DEF Typed
  <2>3. \A n \in 0 .. Len(seqs) : n \in Typed
    BY <1>1, <2>1, <2>2, NumbersUpTo
  <2>4. QED
    BY <2>3 DEF Typed
<1>5. FlattenSeq(seqs) = Flattened(seqs, Len(seqs))
  <2>1. CASE Len(seqs) = 0
    BY <2>1, EmptySeq DEF FlattenSeq, Flattened
  <2>2. CASE Len(seqs) # 0
    BY <2>2 DEF FlattenSeq, Flattened, Flattening
  <2>3. QED
    BY <2>1, <2>2
<1>6. QED
  BY <1>2, <1>3, <1>4, <1>5

\* The events of the first n pairs.
ParsedUpTo(transition, ps, n) ==
  Flattened([i \in DOMAIN ps |-> EventsAt(transition, ps, i)], n)

\* Parsing appends the events of one pair after the other, and ends with
\* ParsedEvents.
LEMMA ParsingSteps ==
  ASSUME NEW b \in Backgrounds, NEW ps \in Seq(Pairs)
  PROVE  LET t == b.transition
         IN  /\ ParsedUpTo(t, ps, 0) = <<>>
             /\ \A n \in 1 .. Len(ps) :
                  ParsedUpTo(t, ps, n) = ParsedUpTo(t, ps, n - 1) \o EventsAt(t, ps, n)
             /\ \A n \in 0 .. Len(ps) : ParsedUpTo(t, ps, n) \in Seq(Events)
             /\ ParsedEvents(t, ps) = ParsedUpTo(t, ps, Len(ps))
<1> DEFINE t == b.transition
           seqs == [i \in DOMAIN ps |-> EventsAt(t, ps, i)]
<1>1. Len(ps) \in Nat /\ DOMAIN ps = 1 .. Len(ps)
  BY LenProperties
<1>2. \A i \in 1 .. Len(ps) : EventsAt(t, ps, i) \in Seq(Events)
  BY EventsAtType
<1>3. seqs \in Seq(Seq(Events)) /\ Len(seqs) = Len(ps)
  BY <1>1, <1>2
<1>4. \A n \in 1 .. Len(ps) : seqs[n] = EventsAt(t, ps, n)
  BY <1>1
<1>5. FlattenSeq(seqs) = ParsedEvents(t, ps)
  BY DEF ParsedEvents
<1>6. \A n : ParsedUpTo(t, ps, n) = Flattened(seqs, n)
  BY DEF ParsedUpTo
<1> HIDE DEF seqs
<1>7. QED
  BY <1>3, <1>4, <1>5, <1>6, FlattenSteps

-------------------------------------------------------------------------------
(* The list of a day whose times all differ. *)

LEMMA MinOfTwo ==
  ASSUME NEW a \in Int, NEW b \in Int
  PROVE  Min({a, b}) = IF a <= b THEN a ELSE b
BY DEF Min

\* The seconds of the day that belong to a pair: after the pair before it, up to its
\* own time.
SlotOf(ps, i) == {s \in TimeOfDay : Minus(ps[i].time, s) < GapBefore(ps, i)}

\* How far one time of day is ahead of another.
LEMMA MinusTimes ==
  ASSUME NEW p \in TimeOfDay, NEW q \in TimeOfDay
  PROVE  /\ Minus(p, q) = IF p < q THEN p - q + Day ELSE p - q
         /\ Minus(p, q) \in 0 .. (Day - 1)
         /\ Minus(p, p) = 0 /\ (p # q => Minus(p, q) > 0)
         /\ \A k \in 0 .. (Day - 1) : Minus(p, FromSeconds(p - k)) = k
<1>1. /\ p \in Int /\ 0 <= p /\ p < Day /\ q \in Int /\ 0 <= q /\ q < Day
      /\ Day \in Int /\ Day > 0
  BY DayAssumption DEF TimeOfDay
<1>2. Minus(p, q) = IF p < q THEN p - q + Day ELSE p - q
  BY <1>1, FromSecondsOfNearby DEF Minus
<1>3. ASSUME NEW k \in 0 .. (Day - 1) PROVE Minus(p, FromSeconds(p - k)) = k
  <2>1. FromSeconds(p - k) = IF p < k THEN p - k + Day ELSE p - k
    BY <1>1, FromSecondsOfNearby
  <2> DEFINE back == IF p < k THEN p - k + Day ELSE p - k
  <2>2. p - back = IF p < k THEN k - Day ELSE k
    BY <1>1
  <2>3. FromSeconds(p - back) = k
    BY <1>1, <2>2, FromSecondsOfNearby
  <2>4. QED
    BY <2>1, <2>3 DEF Minus
<1>4. Minus(p, p) = 0
  <2>1. p - p = 0
    BY <1>1
  <2>2. QED
    BY <1>1, <2>1, FromSecondsOfNearby DEF Minus
<1>5. QED
  BY <1>1, <1>2, <1>3, <1>4

\* The times of two pairs, one of them the one before the other.
LEMMA TimesOfPairs ==
  ASSUME NEW ps \in Seq(Pairs), InTurn(ps), NEW i \in 1 .. Len(ps)
  PROVE  /\ ps[i] \in Pairs /\ ps[i].time \in TimeOfDay
         /\ Before(ps, i) \in 1 .. Len(ps)
         /\ ps[Before(ps, i)] \in Pairs /\ ps[Before(ps, i)].time \in TimeOfDay
         /\ GapBefore(ps, i) \in 0 .. (Day - 1)
         /\ Len(ps) > 1 => /\ ps[i].time # ps[Before(ps, i)].time
                           /\ GapBefore(ps, i) > 0
<1>1. Len(ps) \in Nat /\ DOMAIN ps = 1 .. Len(ps) /\ Before(ps, i) \in 1 .. Len(ps)
      /\ (Len(ps) > 1 => Before(ps, i) # i)
  BY LenProperties DEF Before
<1>2. /\ ps[i] \in Pairs /\ ps[i].time \in TimeOfDay
      /\ ps[Before(ps, i)] \in Pairs /\ ps[Before(ps, i)].time \in TimeOfDay
  <2>1. \A k \in 1 .. Len(ps) : ps[k] \in Pairs
    BY ElementOfSeq
  <2>2. QED
    BY <1>1, <2>1 DEF Pairs
<1>3. Len(ps) > 1 => ps[i].time # ps[Before(ps, i)].time
  BY <1>1 DEF InTurn
<1>4. /\ GapBefore(ps, i) \in 0 .. (Day - 1)
      /\ ps[i].time # ps[Before(ps, i)].time => GapBefore(ps, i) > 0
  <2> DEFINE p == ps[i].time
             q == ps[Before(ps, i)].time
  <2>1. GapBefore(ps, i) = Minus(p, q) /\ p \in TimeOfDay /\ q \in TimeOfDay
    BY <1>2 DEF GapBefore
  <2> HIDE DEF p, q
  <2>2. p # q => Minus(p, q) > 0
    BY <2>1, MinusTimes
  <2>3. QED
    BY <2>1, <2>2, MinusTimes DEF p, q
<1>5. QED
  BY <1>1, <1>2, <1>3, <1>4

\* The transition into a pair is the one of the day schedule, if there is room for
\* one, and it starts strictly between the pair before and the pair.
LEMMA TransitionIntoIsOfDay ==
  ASSUME NEW t \in Transitions, NEW ps \in Seq(Pairs), InTurn(ps), Len(ps) > 1,
         NEW i \in 1 .. Len(ps)
  PROVE  LET e == TransitionOfDay(t, ps, i)
             gap == GapBefore(ps, i)
         IN  /\ TransitionInto(t, ps, i) = IF gap > 1 THEN <<e>> ELSE <<>>
             /\ gap > 1 => /\ e \in LerpEvents
                           /\ e.time = FromSeconds(ps[i].time - e.duration)
                           /\ e.time \in SlotOf(ps, i)
                           /\ e.time # ps[i].time
                           /\ e.duration < gap
<1> DEFINE before == ps[Before(ps, i)]
           p == ps[i].time
           q == before.time
           d == t.duration
           after == Plus(q, 1)
           notBefore == IF after > p THEN after - Day ELSE after
           start == IF p - d >= notBefore THEN p - d ELSE notBefore
           gap == GapBefore(ps, i)
           length == p - start
           slot == NonOverlapping(p, d, after)
           e == LerpEvent(FromSeconds(start), before.name, ps[i].name, length)
<1>1. ps[i] \in Pairs /\ before \in Pairs /\ p \in TimeOfDay /\ q \in TimeOfDay /\ p # q
  BY TimesOfPairs
<1>2. /\ p \in Int /\ 0 <= p /\ p < Day /\ q \in Int /\ 0 <= q /\ q < Day
      /\ d \in Int /\ d > 0 /\ Day \in Int /\ Day > 0
  BY <1>1, DayAssumption DEF TimeOfDay, Transitions
<1>3. gap = Minus(p, q)
  BY DEF GapBefore
<1>4. slot = [time |-> FromSeconds(start), duration |-> FromSeconds(length)]
  BY DEF NonOverlapping, Minus
<1> HIDE DEF gap, slot, p, q, d
<1>5. gap = IF p < q THEN p - q + Day ELSE p - q
  BY <1>1, <1>3, MinusTimes
<1>6. after = IF q + 1 = Day THEN 0 ELSE q + 1
  BY <1>2, FromSecondsOfNearby DEF Plus
<1>7. notBefore = p - (gap - 1)
  BY <1>1, <1>2, <1>5, <1>6
<1> HIDE DEF notBefore
<1>8. length = IF d <= gap - 1 THEN d ELSE gap - 1
  BY <1>2, <1>5, <1>7
<1>9. /\ length \in Int /\ 0 <= length /\ length < Day /\ start = p - length
      /\ (length > 0 <=> gap > 1) /\ gap \in Int /\ length <= gap - 1
  BY <1>1, <1>2, <1>5, <1>7, <1>8
<1> HIDE DEF length, start
<1>10. FromSeconds(length) = length
  BY <1>9, FromSecondsOfNearby
<1>11. length = Min({d, gap - 1})
  BY <1>2, <1>8, <1>9, MinOfTwo
<1>12. TransitionOfDay(t, ps, i) = e
  BY <1>9, <1>11 DEF TransitionOfDay, Minus, gap, d, p
<1>13. TransitionInto(t, ps, i) = IF length > 0 THEN <<e>> ELSE <<>>
  <2>1. TransitionInto(t, ps, i) =
          IF slot.duration > 0
          THEN <<LerpEvent(slot.time, before.name, ps[i].name, slot.duration)>> ELSE <<>>
    BY DEF TransitionInto, slot, p, q, d
  <2>2. slot.time = FromSeconds(start) /\ slot.duration = length
    BY <1>4, <1>10
  <2>3. QED
    BY <2>1, <2>2
<1>14. ASSUME gap > 1
       PROVE  /\ FromSeconds(start) \in SlotOf(ps, i) /\ FromSeconds(start) # p
              /\ e \in LerpEvents
  <2>1. length > 0 /\ start \in Int
    BY <1>2, <1>9, <1>14
  <2>2. FromSeconds(start) \in TimeOfDay
    BY <2>1, FromSecondsType
  <2>3. Minus(p, FromSeconds(start)) = length
    <3>1. length \in 0 .. (Day - 1)
      BY <1>2, <1>9
    <3>2. QED
      BY <1>1, <1>9, <3>1, MinusTimes
  <2>4. FromSeconds(start) # p
    <3>1. Minus(p, p) = 0
      BY <1>1, <1>2, MinusTimes
    <3>2. QED
      BY <1>9, <2>1, <2>3, <3>1
  <2>5. FromSeconds(start) \in SlotOf(ps, i)
    BY <1>9, <2>2, <2>3 DEF SlotOf, p, gap
  <2>6. e \in LerpEvents
    <3>1. length \in Nat \ {0}
      BY <1>9, <2>1
    <3>2. QED
      BY <1>1, <2>2, <3>1 DEF LerpEvent, LerpEvents, Pairs
  <2>7. QED
    BY <2>4, <2>5, <2>6
<1>15. e.time = FromSeconds(start) /\ e.duration = length
  BY DEF LerpEvent
<1> HIDE DEF e
<1>16. length < gap
  BY <1>9
<1>17. QED
  BY <1>9, <1>12, <1>13, <1>14, <1>15, <1>16 DEF gap, p

DistinctTimes(list) == \A a, b \in DOMAIN list : a # b => list[a].time # list[b].time

\* No second of the day belongs to two pairs.
LEMMA SlotsDisjoint ==
  ASSUME NEW ps \in Seq(Pairs), InTurn(ps),
         NEW i \in 1 .. Len(ps), NEW j \in 1 .. Len(ps), i # j,
         NEW s, s \in SlotOf(ps, i)
  PROVE  s \notin SlotOf(ps, j)
<1> DEFINE p == ps[i].time
           q == ps[j].time
<1>1. p \in TimeOfDay /\ q \in TimeOfDay /\ s \in TimeOfDay
      /\ DOMAIN ps = 1 .. Len(ps)
  BY TimesOfPairs, LenProperties DEF SlotOf
<1>2. p # q /\ GapBefore(ps, i) <= Minus(p, q) /\ GapBefore(ps, j) <= Minus(q, p)
  BY <1>1 DEF InTurn
<1>3. GapBefore(ps, i) \in Int /\ GapBefore(ps, j) \in Int
  BY TimesOfPairs
<1>4. Minus(p, s) < GapBefore(ps, i)
  BY DEF SlotOf
<1>5. ASSUME s \in SlotOf(ps, j) PROVE FALSE
  <2>1. Minus(q, s) < GapBefore(ps, j)
    BY <1>5 DEF SlotOf
  <2> HIDE DEF p, q
  <2>2. /\ Minus(p, q) = IF p < q THEN p - q + Day ELSE p - q
        /\ Minus(q, p) = IF q < p THEN q - p + Day ELSE q - p
        /\ Minus(p, s) = IF p < s THEN p - s + Day ELSE p - s
        /\ Minus(q, s) = IF q < s THEN q - s + Day ELSE q - s
    BY <1>1, MinusTimes
  <2>3. /\ p \in Int /\ q \in Int /\ s \in Int /\ Day \in Int
        /\ 0 <= p /\ p < Day /\ 0 <= q /\ q < Day /\ 0 <= s /\ s < Day
    BY <1>1, DayAssumption DEF TimeOfDay
  <2>4. Minus(p, s) < Minus(p, q) /\ Minus(q, s) < Minus(q, p)
    BY <1>2, <1>3, <1>4, <2>1, <2>2, <2>3
  <2>5. QED
    BY <1>2, <2>2, <2>3, <2>4
<1>6. QED
  BY <1>5

LEMMA OneAfterTheOther ==
  ASSUME NEW x, NEW y
  PROVE  <<x>> \o <<y>> = <<x, y>>
<1> DEFINE S == {x, y}
<1>1. /\ <<x>> \in Seq(S) /\ Len(<<x>>) = 1 /\ <<x>>[1] = x
      /\ <<y>> \in Seq(S) /\ Len(<<y>>) = 1 /\ <<y>>[1] = y
      /\ <<x, y>> \in Seq(S) /\ Len(<<x, y>>) = 2 /\ <<x, y>>[1] = x /\ <<x, y>>[2] = y
  OBVIOUS
<1>2. /\ <<x>> \o <<y>> \in Seq(S) /\ Len(<<x>> \o <<y>>) = 2
      /\ (<<x>> \o <<y>>)[1] = x /\ (<<x>> \o <<y>>)[2] = y
  <2>1. /\ <<x>> \o <<y>> \in Seq(S) /\ Len(<<x>> \o <<y>>) = Len(<<x>>) + Len(<<y>>)
        /\ \A i \in 1 .. (Len(<<x>>) + Len(<<y>>)) :
             (<<x>> \o <<y>>)[i] = IF i <= Len(<<x>>) THEN <<x>>[i] ELSE <<y>>[i - Len(<<x>>)]
    BY <1>1, ConcatProperties
  <2>2. QED
    BY <1>1, <2>1
<1>3. \A i \in 1 .. 2 : (<<x>> \o <<y>>)[i] = <<x, y>>[i]
  <2> TAKE i \in 1 .. 2
  <2>1. i = 1 \/ i = 2
    OBVIOUS
  <2>2. QED
    BY <1>1, <1>2, <2>1
<1> HIDE DEF S
<1>4. \A s, t \in Seq(S) :
        Len(s) = Len(t) /\ (\A i \in 1 .. Len(s) : s[i] = t[i]) => s = t
  BY SeqEqual
<1>5. QED
  BY <1>1, <1>2, <1>3, <1>4

\* What one pair contributes to a day whose times all differ.
LEMMA EventsAtOfDay ==
  ASSUME NEW b \in Backgrounds, NEW ps \in Seq(Pairs), InTurn(ps), Len(ps) > 1,
         NEW i \in 1 .. Len(ps)
  PROVE  LET t == b.transition
             added == EventsAt(t, ps, i)
         IN  /\ DistinctTimes(added)
             /\ \A a \in DOMAIN added : added[a].time \in SlotOf(ps, i)
             /\ ToSet(added) =
                  {SetEvent(ps[i].time, ps[i].name)}
                    \cup IF t # NoTransition /\ GapBefore(ps, i) > 1
                         THEN {TransitionOfDay(t, ps, i)} ELSE {}
<1> DEFINE t == b.transition
           set == SetEvent(ps[i].time, ps[i].name)
           e == TransitionOfDay(t, ps, i)
           lerp == IF t = NoTransition THEN <<>> ELSE TransitionInto(t, ps, i)
           lasts == t # NoTransition /\ GapBefore(ps, i) > 1
<1>1. Len(ps) \in Nat /\ ps[i] \in Pairs /\ i \in Nat
  BY LenProperties, ElementOfSeq
<1>2. set.time = ps[i].time /\ set.time \in SlotOf(ps, i)
  <2>1. set.time = ps[i].time
    BY DEF SetEvent
  <2>2. ps[i].time \in TimeOfDay /\ GapBefore(ps, i) > 0
    BY TimesOfPairs
  <2>3. Minus(ps[i].time, ps[i].time) = 0
    <3> DEFINE p == ps[i].time
    <3>1. p \in TimeOfDay
      BY <2>2
    <3> HIDE DEF p
    <3>2. Minus(p, p) = 0
      BY <3>1, MinusTimes
    <3>3. QED
      BY <3>2 DEF p
  <2>4. QED
    BY <2>1, <2>2, <2>3 DEF SlotOf
<1>3. EventsAt(t, ps, i) = lerp \o <<set>>
  BY DEF EventsAt
<1>4. lasts => lerp = <<e>> /\ e.time \in SlotOf(ps, i) /\ e.time # set.time
  <2>1. ASSUME lasts PROVE t \in Transitions
    BY <2>1, BackgroundsAssumption DEF IsBackground
  <2>2. QED
    BY <1>2, <2>1, TransitionIntoIsOfDay
<1>5. ~ lasts => lerp = <<>>
  <2>1. ASSUME t # NoTransition PROVE t \in Transitions
    BY <2>1, BackgroundsAssumption DEF IsBackground
  <2>2. QED
    BY <2>1, TransitionIntoIsOfDay
<1> HIDE DEF set, e, lerp, lasts
<1>6. CASE lasts
  <2>1. EventsAt(t, ps, i) = <<e, set>>
    <3>1. <<e>> \o <<set>> = <<e, set>>
      BY OneAfterTheOther
    <3>2. QED
      BY <1>3, <1>4, <1>6, <3>1
  <2>2. DOMAIN <<e, set>> = {1, 2} /\ <<e, set>>[1] = e /\ <<e, set>>[2] = set
    OBVIOUS
  <2>3. ToSet(<<e, set>>) = {set} \cup {e}
    BY <2>2 DEF ToSet
  <2>4. DistinctTimes(<<e, set>>)
    BY <1>4, <1>6, <2>2 DEF DistinctTimes
  <2>5. \A a \in DOMAIN <<e, set>> : <<e, set>>[a].time \in SlotOf(ps, i)
    BY <1>2, <1>4, <1>6, <2>2
  <2>6. QED
    BY <1>6, <2>1, <2>3, <2>4, <2>5 DEF set, e, lasts
<1>7. CASE ~ lasts
  <2>1. EventsAt(t, ps, i) = <<set>>
    BY <1>3, <1>5, <1>7
  <2>2. DOMAIN <<set>> = {1} /\ <<set>>[1] = set
    OBVIOUS
  <2>3. ToSet(<<set>>) = {set} \cup {}
    BY <2>2 DEF ToSet
  <2>4. DistinctTimes(<<set>>)
    BY <2>2 DEF DistinctTimes
  <2>5. \A a \in DOMAIN <<set>> : <<set>>[a].time \in SlotOf(ps, i)
    BY <1>2, <2>2
  <2>6. QED
    BY <1>7, <2>1, <2>3, <2>4, <2>5 DEF set, e, lasts
<1>8. QED
  BY <1>6, <1>7

\* Appending adds up the elements, and keeps their times apart if they are.
LEMMA AppendedEvents ==
  ASSUME NEW list \in Seq(Events), NEW added \in Seq(Events),
         DistinctTimes(list), DistinctTimes(added),
         \A a \in DOMAIN list, c \in DOMAIN added : list[a].time # added[c].time
  PROVE  /\ DistinctTimes(list \o added)
         /\ ToSet(list \o added) = ToSet(list) \cup ToSet(added)
<1> DEFINE all == list \o added
<1>1. /\ Len(list) \in Nat /\ Len(added) \in Nat
      /\ DOMAIN list = 1 .. Len(list) /\ DOMAIN added = 1 .. Len(added)
  BY LenProperties
<1>2. /\ all \in Seq(Events) /\ Len(all) = Len(list) + Len(added)
      /\ \A i \in 1 .. (Len(list) + Len(added)) :
           all[i] = IF i <= Len(list) THEN list[i] ELSE added[i - Len(list)]
  BY ConcatProperties
<1>3. DOMAIN all = 1 .. (Len(list) + Len(added))
  BY <1>2, LenProperties
<1> HIDE DEF all
<1>4. \A i \in DOMAIN list : i \in DOMAIN all /\ all[i] = list[i]
  BY <1>1, <1>2, <1>3
<1>5. \A i \in DOMAIN added : Len(list) + i \in DOMAIN all /\ all[Len(list) + i] = added[i]
  <2> TAKE i \in DOMAIN added
  <2>1. /\ Len(list) + i \in 1 .. (Len(list) + Len(added)) /\ ~ (Len(list) + i <= Len(list))
        /\ Len(list) + i - Len(list) = i
    BY <1>1
  <2>2. QED
    BY <1>2, <1>3, <2>1
<1>6. \A i \in DOMAIN all :
        \/ i \in DOMAIN list /\ all[i] = list[i]
        \/ i - Len(list) \in DOMAIN added /\ all[i] = added[i - Len(list)] /\ ~ (i \in DOMAIN list)
  BY <1>1, <1>2, <1>3
<1>7. ToSet(all) = ToSet(list) \cup ToSet(added)
  BY <1>4, <1>5, <1>6 DEF ToSet
<1>8. DistinctTimes(all)
  <2> SUFFICES ASSUME NEW i \in DOMAIN all, NEW j \in DOMAIN all, i # j
               PROVE  all[i].time # all[j].time
    BY DEF DistinctTimes
  <2>1. i \in Int /\ j \in Int /\ Len(list) \in Int
    BY <1>1, <1>3
  <2>2. CASE i \in DOMAIN list /\ j \in DOMAIN list
    BY <1>4, <2>2 DEF DistinctTimes
  <2>3. CASE i \in DOMAIN list /\ j \notin DOMAIN list
    BY <1>6, <2>3
  <2>4. CASE i \notin DOMAIN list /\ j \in DOMAIN list
    BY <1>6, <2>4
  <2>5. CASE i \notin DOMAIN list /\ j \notin DOMAIN list
    <3>1. i - Len(list) # j - Len(list)
      BY <2>1
    <3>2. QED
      BY <1>6, <2>5, <3>1 DEF DistinctTimes
  <2>6. QED
    BY <2>2, <2>3, <2>4, <2>5
<1>9. QED
  BY <1>7, <1>8 DEF all

\* All the events of a day whose times all differ: nothing but the day schedule, each
\* event once, and no two at the same time.
LEMMA ParsedOfDay ==
  ASSUME NEW b \in Backgrounds, NEW ps \in Seq(Pairs), InTurn(ps), Len(ps) > 1
  PROVE  LET list == ParsedEvents(b.transition, ps)
         IN  /\ list \in Seq(Events)
             /\ DistinctTimes(list)
             /\ ToSet(list) = DaySchedule(b.transition, ps)
<1> DEFINE t == b.transition
           Part(i) == ToSet(EventsAt(t, ps, i))
           UpTo(n) == ParsedUpTo(t, ps, n)
           Good == {n \in 0 .. Len(ps) :
                      /\ DistinctTimes(UpTo(n))
                      /\ \A a \in DOMAIN UpTo(n) :
                           \E i \in 1 .. n : UpTo(n)[a].time \in SlotOf(ps, i)
                      /\ ToSet(UpTo(n)) = UNION {Part(i) : i \in 1 .. n}}
<1>1. Len(ps) \in Nat /\ DOMAIN ps = 1 .. Len(ps)
  BY LenProperties
<1>2. /\ UpTo(0) = <<>>
      /\ \A n \in 1 .. Len(ps) : UpTo(n) = UpTo(n - 1) \o EventsAt(t, ps, n)
      /\ \A n \in 0 .. Len(ps) : UpTo(n) \in Seq(Events)
      /\ ParsedEvents(t, ps) = UpTo(Len(ps))
  BY ParsingSteps
<1>3. 0 \in Good
  <2>1. 1 .. 0 = {} /\ 0 \in 0 .. Len(ps) /\ DOMAIN <<>> = {}
    BY <1>1
  <2>2. UNION {Part(i) : i \in 1 .. 0} = {}
    BY <2>1
  <2>3. ToSet(<<>>) = {}
    BY <2>1 DEF ToSet
  <2>4. QED
    BY <1>2, <2>1, <2>2, <2>3 DEF DistinctTimes
<1>4. ASSUME NEW k \in 0 .. (Len(ps) - 1), k \in Good PROVE k + 1 \in Good
  <2> DEFINE n == k + 1
             added == EventsAt(t, ps, n)
             before == UpTo(k)
  <2>1. n \in 1 .. Len(ps) /\ n - 1 = k /\ n \in 0 .. Len(ps) /\ k \in 0 .. Len(ps)
        /\ 1 .. n = (1 .. k) \cup {n} /\ \A i \in 1 .. k : i \in 1 .. Len(ps) /\ i # n
    BY <1>1
  <2> HIDE DEF n
  <2>2. UpTo(n) = before \o added /\ before \in Seq(Events) /\ added \in Seq(Events)
    BY <1>2, <2>1, EventsAtType
  <2>3. /\ DistinctTimes(before)
        /\ \A a \in DOMAIN before : \E i \in 1 .. k : before[a].time \in SlotOf(ps, i)
        /\ ToSet(before) = UNION {Part(i) : i \in 1 .. k}
    BY <1>4
  <2>4. /\ DistinctTimes(added)
        /\ \A a \in DOMAIN added : added[a].time \in SlotOf(ps, n)
    BY <2>1, EventsAtOfDay
  <2>5. ToSet(added) = Part(n)
    OBVIOUS
  <2> HIDE DEF added, before, UpTo, Part
  <2>6. \A a \in DOMAIN before, c \in DOMAIN added : before[a].time # added[c].time
    <3> SUFFICES ASSUME NEW a \in DOMAIN before, NEW c \in DOMAIN added
                 PROVE  before[a].time # added[c].time
      OBVIOUS
    <3>1. PICK i \in 1 .. k : before[a].time \in SlotOf(ps, i)
      BY <2>3
    <3>2. added[c].time \in SlotOf(ps, n) /\ i \in 1 .. Len(ps) /\ i # n
      BY <2>1, <2>4
    <3>3. QED
      BY <2>1, <3>1, <3>2, SlotsDisjoint
  <2>7. /\ DistinctTimes(before \o added)
        /\ ToSet(before \o added) = ToSet(before) \cup ToSet(added)
    BY <2>2, <2>3, <2>4, <2>6, AppendedEvents
  <2>8. \A e \in ToSet(before \o added) : \E i \in 1 .. n : e.time \in SlotOf(ps, i)
    <3>1. \A e \in ToSet(before) : \E i \in 1 .. k : e.time \in SlotOf(ps, i)
      BY <2>3 DEF ToSet
    <3>2. \A e \in ToSet(added) : e.time \in SlotOf(ps, n)
      BY <2>4 DEF ToSet
    <3>3. n \in 1 .. n /\ \A i \in 1 .. k : i \in 1 .. n
      BY <2>1
    <3>4. QED
      BY <2>7, <3>1, <3>2, <3>3
  <2>9. \A a \in DOMAIN (before \o added) :
          \E i \in 1 .. n : (before \o added)[a].time \in SlotOf(ps, i)
    BY <2>8 DEF ToSet
  <2>10. UNION {Part(i) : i \in 1 .. n} = ToSet(before) \cup ToSet(added)
    BY <2>1, <2>3, <2>5
  <2>11. n \in Good
    BY <2>1, <2>2, <2>7, <2>9, <2>10
  <2>12. QED
    BY <2>11 DEF n
<1>5. Len(ps) \in Good
  <2> HIDE DEF Good
  <2>1. \A n \in 0 .. Len(ps) : n \in Good
    BY <1>1, <1>3, <1>4, NumbersUpTo
  <2>2. QED
    BY <1>1, <2>1
<1>6. UNION {Part(i) : i \in 1 .. Len(ps)} = DaySchedule(t, ps)
  <2> DEFINE Sets == {SetEvent(ps[i].time, ps[i].name) : i \in 1 .. Len(ps)}
             Lerps == IF t = NoTransition THEN {}
                      ELSE {TransitionOfDay(t, ps, i) :
                              i \in {j \in 1 .. Len(ps) : GapBefore(ps, j) > 1}}
  <2>1. DaySchedule(t, ps) = Sets \cup Lerps
    BY <1>1 DEF DaySchedule
  <2>2. \A i \in 1 .. Len(ps) :
          Part(i) = {SetEvent(ps[i].time, ps[i].name)}
                      \cup IF t # NoTransition /\ GapBefore(ps, i) > 1
                           THEN {TransitionOfDay(t, ps, i)} ELSE {}
    BY EventsAtOfDay
  <2> HIDE DEF Part
  <2>3. ASSUME NEW e \in UNION {Part(i) : i \in 1 .. Len(ps)} PROVE e \in Sets \cup Lerps
    BY <2>2
  <2>4. ASSUME NEW e \in Sets PROVE e \in UNION {Part(i) : i \in 1 .. Len(ps)}
    BY <2>2
  <2>5. ASSUME NEW e \in Lerps PROVE e \in UNION {Part(i) : i \in 1 .. Len(ps)}
    BY <2>2
  <2>6. QED
    BY <2>1, <2>3, <2>4, <2>5
<1>7. /\ DistinctTimes(UpTo(Len(ps)))
      /\ ToSet(UpTo(Len(ps))) = UNION {Part(i) : i \in 1 .. Len(ps)}
  BY <1>5
<1>8. UpTo(Len(ps)) \in Seq(Events)
  BY <1>1, <1>2
<1>9. QED
  BY <1>2, <1>6, <1>7, <1>8

LEMMA EventTimes == \A e \in Events : e.time \in Int
BY DayAssumption DEF Events, SetEvents, LerpEvents, TimeOfDay

\* Sorting elements that happen at different times leaves nothing to choose: they ascend
\* strictly, and they are the same.
LEMMA SortedDistinct ==
  ASSUME NEW S, \A e \in S : e.time \in Int,
         NEW list \in Seq(S), DistinctTimes(list), NEW sorted \in SortedArrangements(list)
  PROVE  /\ sorted \in Seq(S)
         /\ StrictlySorted(sorted)
         /\ ToSet(sorted) = ToSet(list)
<1> DEFINE D == DOMAIN list
<1>1. PICK p :
         /\ sorted = [i \in D |-> list[p[i]]]
         /\ \A i, j \in D : i < j => list[p[i]].time <= list[p[j]].time
         /\ p \in [D -> D]
         /\ \A i \in D : \E j \in D : p[j] = i
  BY DEF SortedArrangements, IsPermutation
<1>2. D = 1 .. Len(list) /\ Len(list) \in Nat
  BY LenProperties
<1>3. p \in Injection(D, D)
  <2>1. p \in Surjection(D, D)
    BY <1>1 DEF Surjection
  <2>2. IsFiniteSet(D)
    BY <1>2, FS_Interval
  <2>3. QED
    BY <2>1, <2>2, FS_SurjSameCardinalityImpliesInj
<1>4. \A i, j \in D : i # j => p[i] # p[j]
  BY <1>1, <1>3 DEF Injection, IsInjective
<1>5. sorted \in Seq(S) /\ Len(sorted) = Len(list)
  BY SortedArrangementsProperties
<1>6. DOMAIN sorted = D
  BY <1>1
<1>7. ASSUME NEW i \in D, NEW j \in D, i < j PROVE sorted[i].time < sorted[j].time
  <2>1. sorted[i] = list[p[i]] /\ sorted[j] = list[p[j]] /\ p[i] \in D /\ p[j] \in D
    BY <1>1
  <2>2. p[i] # p[j]
    BY <1>2, <1>4, <1>7
  <2>3. list[p[i]].time # list[p[j]].time
    BY <2>1, <2>2 DEF DistinctTimes
  <2>4. list[p[i]].time \in Int /\ list[p[j]].time \in Int
    BY <1>2, <2>1, ElementOfSeq
  <2>5. list[p[i]].time <= list[p[j]].time
    BY <1>1, <1>7
  <2>6. QED
    BY <2>1, <2>3, <2>4, <2>5
<1>8. StrictlySorted(sorted)
  BY <1>6, <1>7 DEF StrictlySorted
<1>9. ToSet(sorted) = ToSet(list)
  <2>1. ASSUME NEW i \in D PROVE sorted[i] \in ToSet(list)
    BY <1>1 DEF ToSet
  <2>2. ASSUME NEW i \in D PROVE list[i] \in ToSet(sorted)
    <3>1. PICK j \in D : p[j] = i
      BY <1>1
    <3>2. sorted[j] = list[i]
      BY <1>1, <3>1
    <3>3. QED
      BY <1>6, <3>2 DEF ToSet
  <2>3. QED
    BY <1>6, <2>1, <2>2 DEF ToSet
<1>10. QED
  BY <1>5, <1>8, <1>9

\* Whenever the pairs take turns on the clock, the list of the day is the day
\* schedule in ascending order, whatever the sort does: no event is missing, added,
\* moved or removed as overlapping.
THEOREM ListsOfDistinctTimes ==
  ASSUME NEW b \in Backgrounds, NEW ps \in Seq(Pairs), ps # <<>>, InTurn(ps),
         NEW list \in ListsFromPairs(b.transition, ps)
  PROVE  /\ list \in Seq(Events)
         /\ StrictlySorted(list)
         /\ ToSet(list) = DaySchedule(b.transition, ps)
<1> DEFINE t == b.transition
<1>1. Len(ps) \in Nat /\ Len(ps) # 0 /\ DOMAIN ps = 1 .. Len(ps)
  BY LenProperties, EmptySeq
<1>2. CASE Len(ps) = 1
  <2> DEFINE set == SetEvent(ps[1].time, ps[1].name)
  <2>1. list = <<set>>
    BY <1>2 DEF ListsFromPairs
  <2>2. ps[1] \in Pairs
    BY <1>2, ElementOfSeq
  <2>3. set \in Events
    BY <2>2 DEF SetEvent, SetEvents, Events, Pairs
  <2>4. GapBefore(ps, 1) = 0
    <3>1. Before(ps, 1) = 1
      BY <1>2 DEF Before
    <3>2. ps[1].time \in Int
      BY <2>2, DayAssumption DEF Pairs, TimeOfDay
    <3>3. ps[1].time - ps[1].time = 0
      BY <3>2
    <3>4. FromSeconds(0) = 0
      BY DayAssumption, FromSecondsOfNearby
    <3>5. QED
      BY <3>1, <3>3, <3>4 DEF GapBefore, Minus
  <2>5. DOMAIN ps = {1}
    BY <1>1, <1>2
  <2>6. DaySchedule(t, ps) = {set}
    <3>1. {j \in DOMAIN ps : GapBefore(ps, j) > 1} = {}
      BY <2>4, <2>5
    <3>2. {TransitionOfDay(t, ps, i) : i \in {j \in DOMAIN ps : GapBefore(ps, j) > 1}} = {}
      BY <3>1
    <3>3. {SetEvent(ps[i].time, ps[i].name) : i \in DOMAIN ps} = {set}
      BY <2>5
    <3>4. QED
      BY <3>2, <3>3 DEF DaySchedule
  <2> HIDE DEF set
  <2>7. DOMAIN <<set>> = {1} /\ <<set>>[1] = set /\ <<set>> \in Seq(Events)
    BY <2>3
  <2>8. ToSet(<<set>>) = {set} /\ StrictlySorted(<<set>>)
    BY <2>7 DEF ToSet, StrictlySorted
  <2>9. QED
    BY <2>1, <2>6, <2>7, <2>8
<1>3. CASE Len(ps) # 1
  <2>1. PICK sorted \in SortedArrangements(ParsedEvents(t, ps)) :
           list = RemoveOverlapping(sorted)
    BY <1>3 DEF ListsFromPairs
  <2>2. /\ ParsedEvents(t, ps) \in Seq(Events) /\ DistinctTimes(ParsedEvents(t, ps))
        /\ ToSet(ParsedEvents(t, ps)) = DaySchedule(t, ps)
    BY <1>1, <1>3, ParsedOfDay
  <2>3. /\ sorted \in Seq(Events) /\ StrictlySorted(sorted)
        /\ ToSet(sorted) = DaySchedule(t, ps)
    BY <2>2, EventTimes, SortedDistinct
  <2>4. list = sorted
    BY <2>1, <2>3, PassOfSorted
  <2>5. QED
    BY <2>3, <2>4
<1>4. QED
  BY <1>2, <1>3

-------------------------------------------------------------------------------
(* The lists of a background set whose times all differ. *)

\* Pairs that ascend strictly follow each other around the clock.
LEMMA SortedTakeTurns ==
  ASSUME NEW ps \in Seq(Pairs), StrictlySorted(ps)
  PROVE  InTurn(ps)
<1> SUFFICES ASSUME NEW i \in DOMAIN ps, NEW j \in DOMAIN ps, i # j
             PROVE  /\ ps[i].time # ps[j].time
                    /\ GapBefore(ps, i) <= Minus(ps[i].time, ps[j].time)
  BY DEF InTurn
<1> DEFINE b == Before(ps, i)
           p == ps[i].time
           q == ps[b].time
           r == ps[j].time
<1>1. /\ Len(ps) \in Nat /\ DOMAIN ps = 1 .. Len(ps) /\ i \in 1 .. Len(ps) /\ j \in 1 .. Len(ps)
      /\ b \in 1 .. Len(ps)
  BY LenProperties DEF Before
<1>2. \A k \in 1 .. Len(ps) : ps[k].time \in TimeOfDay
  <2>1. \A k \in 1 .. Len(ps) : ps[k] \in Pairs
    BY ElementOfSeq
  <2>2. QED
    BY <2>1 DEF Pairs
<1>3. p \in TimeOfDay /\ q \in TimeOfDay /\ r \in TimeOfDay
  BY <1>1, <1>2
<1>4. \A k, m \in 1 .. Len(ps) : k < m => ps[k].time < ps[m].time
  BY <1>1 DEF StrictlySorted
<1>5. GapBefore(ps, i) = Minus(p, q)
  BY DEF GapBefore
<1>6. b = IF i = 1 THEN Len(ps) ELSE i - 1
  BY DEF Before
<1>7. /\ j < i => r < p /\ r <= q /\ q < p
      /\ i < j => p < r /\ (i = 1 => r <= q /\ p < q) /\ (i # 1 => q < p)
  <2>1. j < i => r < p /\ r <= q /\ q < p
    <3>1. j < i => b = i - 1 /\ (j = b \/ j < b) /\ b < i
      BY <1>1, <1>6
    <3>2. QED
      BY <1>1, <1>3, <1>4, <3>1 DEF TimeOfDay
  <2>2. i < j => p < r /\ (i = 1 => r <= q /\ p < q) /\ (i # 1 => q < p)
    <3>1. i < j => (i = 1 => b = Len(ps) /\ (j = b \/ j < b) /\ i < b) /\ (i # 1 => b < i)
      BY <1>1, <1>6
    <3>2. QED
      BY <1>1, <1>3, <1>4, <3>1 DEF TimeOfDay
  <2>3. QED
    BY <2>1, <2>2
<1> HIDE DEF p, q, r, b
<1>8. /\ Minus(p, q) = IF p < q THEN p - q + Day ELSE p - q
      /\ Minus(p, r) = IF p < r THEN p - r + Day ELSE p - r
  BY <1>3, MinusTimes
<1>9. /\ p \in Int /\ q \in Int /\ r \in Int /\ Day \in Int /\ i \in Int /\ j \in Int
      /\ 0 <= q /\ q < Day /\ 0 <= r /\ r < Day /\ 0 <= p /\ p < Day
  BY <1>1, <1>3, DayAssumption DEF TimeOfDay
<1>10. p # r /\ Minus(p, q) <= Minus(p, r)
  <2>1. CASE j < i
    BY <1>7, <1>8, <1>9, <2>1
  <2>2. CASE i < j
    BY <1>7, <1>8, <1>9, <2>2
  <2>3. QED
    BY <1>9, <2>1, <2>2
<1>11. QED
  BY <1>5, <1>10 DEF p, r

\* Strictly ascending sequences with the same times have them at the same places.
LEMMA SameTimesFirst ==
  ASSUME NEW S, \A e \in S : e.time \in Int, NEW one \in Seq(S), NEW other \in Seq(S),
         StrictlySorted(one), StrictlySorted(other),
         {one[i].time : i \in DOMAIN one} = {other[i].time : i \in DOMAIN other},
         Len(one) <= Len(other)
  PROVE  \A i \in 1 .. Len(one) : one[i].time = other[i].time
<1> DEFINE n == Len(one)
           Same == {k \in 0 .. n : \A i \in 1 .. k : one[i].time = other[i].time}
<1>1. /\ n \in Nat /\ Len(other) \in Nat /\ n <= Len(other)
      /\ DOMAIN one = 1 .. n /\ DOMAIN other = 1 .. Len(other)
  BY LenProperties
<1>2. /\ \A i \in 1 .. n : one[i].time \in Int
      /\ \A i \in 1 .. Len(other) : other[i].time \in Int
  BY ElementOfSeq
<1>3. /\ \A i, j \in 1 .. n : i < j => one[i].time < one[j].time
      /\ \A i, j \in 1 .. Len(other) : i < j => other[i].time < other[j].time
  BY <1>1 DEF StrictlySorted
<1>4. 0 \in Same
  BY <1>1
<1>5. ASSUME NEW k \in 0 .. (n - 1), k \in Same PROVE k + 1 \in Same
  <2>1. /\ k + 1 \in 1 .. n /\ k + 1 \in 1 .. Len(other) /\ k + 1 \in 0 .. n
        /\ \A i \in 1 .. (k + 1) : i = k + 1 \/ i \in 1 .. k
        /\ \A i \in 1 .. k : i \in 1 .. n /\ i \in 1 .. Len(other) /\ i < k + 1
    BY <1>1
  <2>2. \A i \in 1 .. k : one[i].time = other[i].time
    BY <1>5
  <2>3. other[k + 1].time <= one[k + 1].time
    <3>1. PICK j \in 1 .. Len(other) : one[k + 1].time = other[j].time
      BY <1>1, <2>1
    <3>2. ~ (j \in 1 .. k)
      <4>1. ASSUME j \in 1 .. k PROVE one[j].time < one[k + 1].time
        BY <1>3, <2>1, <4>1
      <4>2. QED
        BY <1>2, <2>1, <2>2, <3>1, <4>1
    <3>3. j = k + 1 \/ k + 1 < j
      BY <1>1, <2>1, <3>2
    <3>4. k + 1 < j => other[k + 1].time < other[j].time
      BY <1>3, <2>1
    <3>5. QED
      BY <1>2, <2>1, <3>1, <3>3, <3>4
  <2>4. one[k + 1].time <= other[k + 1].time
    <3>1. PICK j \in 1 .. n : other[k + 1].time = one[j].time
      BY <1>1, <2>1
    <3>2. ~ (j \in 1 .. k)
      <4>1. ASSUME j \in 1 .. k PROVE other[j].time < other[k + 1].time
        BY <1>3, <2>1, <4>1
      <4>2. QED
        BY <1>2, <2>1, <2>2, <3>1, <4>1
    <3>3. j = k + 1 \/ k + 1 < j
      BY <1>1, <2>1, <3>2
    <3>4. k + 1 < j => one[k + 1].time < one[j].time
      BY <1>3, <2>1
    <3>5. QED
      BY <1>2, <2>1, <3>1, <3>3, <3>4
  <2>5. one[k + 1].time = other[k + 1].time
    BY <1>2, <2>1, <2>3, <2>4
  <2>6. QED
    BY <2>1, <2>2, <2>5
<1>6. n \in Same
  <2> HIDE DEF Same
  <2>1. \A k \in 0 .. n : k \in Same
    BY <1>1, <1>4, <1>5, NumbersUpTo
  <2>2. QED
    BY <1>1, <2>1
<1>7. QED
  BY <1>6

LEMMA SameTimes ==
  ASSUME NEW S, \A e \in S : e.time \in Int, NEW one \in Seq(S), NEW other \in Seq(S),
         StrictlySorted(one), StrictlySorted(other),
         {one[i].time : i \in DOMAIN one} = {other[i].time : i \in DOMAIN other}
  PROVE  /\ Len(one) = Len(other)
         /\ \A i \in DOMAIN one : one[i].time = other[i].time
<1> DEFINE Times(list) == {list[i].time : i \in DOMAIN list}
<1>1. ASSUME NEW list \in Seq(S), NEW longer \in Seq(S),
             StrictlySorted(list), StrictlySorted(longer), Times(list) = Times(longer),
             Len(list) <= Len(longer)
      PROVE  /\ Len(list) = Len(longer)
             /\ \A i \in 1 .. Len(list) : list[i].time = longer[i].time
  <2>1. /\ Len(list) \in Nat /\ Len(longer) \in Nat
        /\ DOMAIN list = 1 .. Len(list) /\ DOMAIN longer = 1 .. Len(longer)
    BY LenProperties
  <2>2. \A i \in 1 .. Len(list) : list[i].time = longer[i].time
    BY <1>1, SameTimesFirst
  <2>3. Len(list) = Len(longer)
    <3> DEFINE m == Len(list) + 1
    <3>1. ASSUME Len(list) < Len(longer) PROVE FALSE
      <4>1. m \in 1 .. Len(longer) /\ \A i \in 1 .. Len(list) : i < m /\ i \in 1 .. Len(longer)
        BY <2>1, <3>1
      <4>2. longer[m].time \in Times(list)
        BY <1>1, <2>1, <4>1
      <4>3. PICK j \in 1 .. Len(list) : longer[m].time = list[j].time
        BY <2>1, <4>2
      <4> HIDE DEF m
      <4>4. longer[j].time < longer[m].time
        BY <1>1, <2>1, <4>1 DEF StrictlySorted
      <4>5. longer[j].time \in Int
        BY <1>1, <4>1, ElementOfSeq
      <4>6. QED
        BY <2>2, <4>3, <4>4, <4>5
    <3>2. Len(list) <= Len(longer)
      BY <1>1
    <3>3. ~ (Len(list) < Len(longer))
      BY <3>1
    <3> HIDE DEF m, Times
    <3>4. Len(list) \in Int /\ Len(longer) \in Int
      BY <2>1
    <3>5. QED
      BY <3>2, <3>3, <3>4
  <2>4. QED
    BY <2>2, <2>3
<1>2. Len(one) \in Nat /\ Len(other) \in Nat /\ DOMAIN one = 1 .. Len(one)
  BY LenProperties
<1>3. Len(one) <= Len(other) \/ Len(other) <= Len(one)
  BY <1>2
<1>4. QED
  BY <1>1, <1>2, <1>3

\* A day without transitions has one event for each pair; nothing else of the day is in
\* the slot of a pair but the event of the pair and its transition.
LEMMA OnlyTwoInSlot ==
  ASSUME NEW b \in Backgrounds, NEW ps \in Seq(Pairs), InTurn(ps), Len(ps) > 1,
         NEW i \in 1 .. Len(ps), NEW e \in DaySchedule(b.transition, ps),
         e.time \in SlotOf(ps, i)
  PROVE  \/ e = SetEvent(ps[i].time, ps[i].name)
         \/ /\ b.transition # NoTransition /\ GapBefore(ps, i) > 1
            /\ e = TransitionOfDay(b.transition, ps, i)
<1> DEFINE t == b.transition
<1>1. DOMAIN ps = 1 .. Len(ps)
  BY LenProperties
<1>2. CASE \E j \in 1 .. Len(ps) : e = SetEvent(ps[j].time, ps[j].name)
  <2>1. PICK j \in 1 .. Len(ps) : e = SetEvent(ps[j].time, ps[j].name)
    BY <1>2
  <2>2. e.time = ps[j].time /\ ps[j].time \in TimeOfDay /\ GapBefore(ps, j) > 0
    BY <2>1, TimesOfPairs DEF SetEvent
  <2>3. Minus(ps[j].time, e.time) = 0
    BY <2>2, MinusTimes
  <2>4. e.time \in SlotOf(ps, j)
    BY <2>2, <2>3 DEF SlotOf
  <2>5. i = j
    BY <2>4, SlotsDisjoint
  <2>6. QED
    BY <2>1, <2>5
<1>3. CASE t # NoTransition
           /\ \E j \in 1 .. Len(ps) : GapBefore(ps, j) > 1 /\ e = TransitionOfDay(t, ps, j)
  <2>1. PICK j \in 1 .. Len(ps) : GapBefore(ps, j) > 1 /\ e = TransitionOfDay(t, ps, j)
    BY <1>3
  <2>2. t \in Transitions
    BY <1>3, BackgroundsAssumption DEF IsBackground
  <2>3. e.time \in SlotOf(ps, j)
    BY <2>1, <2>2, TransitionIntoIsOfDay
  <2>4. i = j
    BY <2>3, SlotsDisjoint
  <2>5. QED
    BY <1>3, <2>1, <2>4
<1>4. QED
  BY <1>1, <1>2, <1>3 DEF DaySchedule

\* Sorted around the clock, the event to which it takes the shortest time is the next.
LEMMA NextIsNearest ==
  ASSUME NEW list \in Seq(Events), StrictlySorted(list),
         NEW k \in 1 .. Len(list), NEW m \in 1 .. Len(list), k # m,
         \A j \in 1 .. Len(list) :
           j # m /\ j # k => TimeUntilNext(list[k].time, 0, list[m].time)
                               < TimeUntilNext(list[k].time, 0, list[j].time)
  PROVE  NextIndex(list, k) = m
<1> DEFINE n == NextIndex(list, k)
           At(j) == list[j].time
           Far(j) == TimeUntilNext(At(k), 0, At(j))
           last == Len(list)
<1>1. last \in Nat /\ DOMAIN list = 1 .. last /\ k \in 1 .. last /\ m \in 1 .. last
  BY LenProperties
<1>2. n = IF k = last THEN 1 ELSE k + 1
  BY DEF NextIndex
<1>3. \A j \in 1 .. last : At(j) \in Int /\ 0 <= At(j) /\ At(j) < Day
  <2>1. \A j \in 1 .. last : At(j) \in TimeOfDay
    BY EventTime
  <2>2. QED
    BY <2>1, DayAssumption DEF TimeOfDay
<1>4. \A i, j \in 1 .. last : i < j => At(i) < At(j)
  BY <1>1 DEF StrictlySorted
<1>5. \A j \in 1 .. last :
        Far(j) = IF At(k) < At(j) THEN At(j) - At(k) ELSE Day - At(k) + At(j)
  BY <1>3, DayAssumption DEF TimeUntilNext
<1>6. \A j \in 1 .. last : j # m /\ j # k => Far(m) < Far(j)
  OBVIOUS
<1> HIDE DEF n, At, Far, last
<1>7. n \in 1 .. last /\ n # k
  BY <1>1, <1>2
<1>8. ASSUME n # m PROVE FALSE
  <2>1. Far(m) < Far(n)
    BY <1>6, <1>7, <1>8
  <2>2. CASE k = last
    <3>1. n < m /\ m < k /\ n < k
      BY <1>1, <1>2, <1>7, <1>8, <2>2
    <3>2. At(n) < At(m) /\ At(m) < At(k) /\ At(n) < At(k)
      BY <1>1, <1>4, <1>7, <3>1
    <3>3. QED
      BY <1>1, <1>3, <1>5, <1>7, <2>1, <3>2, DayAssumption
  <2>3. CASE k # last
    <3>1. k < n /\ (n < m \/ m < k)
      BY <1>1, <1>2, <1>7, <1>8, <2>3
    <3>2. At(k) < At(n) /\ (At(n) < At(m) \/ At(m) < At(k))
      BY <1>1, <1>4, <1>7, <3>1
    <3>3. QED
      BY <1>1, <1>3, <1>5, <1>7, <2>1, <3>2, DayAssumption
  <2>4. QED
    BY <2>2, <2>3
<1>9. QED
  BY <1>8 DEF n

\* On the clock, a time s between q and p splits the way from q to p; what is reached
\* from s before p, or from q before s, is in the slot of p.
LEMMA WithinTheSlot ==
  ASSUME NEW p \in TimeOfDay, NEW q \in TimeOfDay, NEW s \in TimeOfDay, NEW x \in TimeOfDay,
         0 < Minus(p, s), Minus(p, s) < Minus(p, q)
  PROVE  /\ TimeUntilNext(s, 0, p) = Minus(p, s)
         /\ TimeUntilNext(s, 0, x) <= Minus(p, s) => Minus(p, x) < Minus(p, q)
         /\ TimeUntilNext(q, 0, s) < TimeUntilNext(q, 0, p)
         /\ TimeUntilNext(q, 0, x) <= TimeUntilNext(q, 0, s) => Minus(p, x) < Minus(p, q)
<1>1. /\ p \in Int /\ q \in Int /\ s \in Int /\ x \in Int /\ Day \in Int
      /\ 0 <= p /\ p < Day /\ 0 <= q /\ q < Day /\ 0 <= s /\ s < Day /\ 0 <= x /\ x < Day
  BY DayAssumption DEF TimeOfDay
<1>2. /\ Minus(p, q) = IF p < q THEN p - q + Day ELSE p - q
      /\ Minus(p, s) = IF p < s THEN p - s + Day ELSE p - s
      /\ Minus(p, x) = IF p < x THEN p - x + Day ELSE p - x
  BY MinusTimes
<1>3. \A a, c \in 0 .. (Day - 1) :
        TimeUntilNext(a, 0, c) = IF a < c THEN c - a ELSE Day - a + c
  BY DayAssumption DEF TimeUntilNext
<1>4. /\ TimeUntilNext(s, 0, p) = IF s < p THEN p - s ELSE Day - s + p
      /\ TimeUntilNext(s, 0, x) = IF s < x THEN x - s ELSE Day - s + x
      /\ TimeUntilNext(q, 0, s) = IF q < s THEN s - q ELSE Day - q + s
      /\ TimeUntilNext(q, 0, p) = IF q < p THEN p - q ELSE Day - q + p
      /\ TimeUntilNext(q, 0, x) = IF q < x THEN x - q ELSE Day - q + x
  BY <1>3 DEF TimeOfDay
<1> HIDE DEF TimeOfDay
<1>5. QED
  BY <1>1, <1>2, <1>4

\* No two events of the list have the same next event.
LEMMA NextIndexInjective ==
  ASSUME NEW n \in Nat, NEW list, Len(list) = n, NEW i \in 1 .. n, NEW j \in 1 .. n,
         NextIndex(list, i) = NextIndex(list, j)
  PROVE  i = j
BY DEF NextIndex

\* In a list of pairs that take turns a transition comes after the event that sets the
\* image it starts from, and lasts exactly until the event that sets the image it ends at:
\* nothing happens in between.
THEOREM TransitionsJoinNeighbours ==
  ASSUME NEW b \in Backgrounds, NEW ps \in Seq(Pairs), ps # <<>>, InTurn(ps),
         NEW list \in ListsFromPairs(b.transition, ps),
         NEW k \in 1 .. Len(list), IsLerp(list[k])
  PROVE  /\ b.transition # NoTransition
         /\ LET next == list[NextIndex(list, k)]
            IN  /\ list[k].duration = TimeUntilNext(list[k].time, 0, next.time)
                /\ IsSet(next) /\ next.image = list[k].end
         /\ \A r \in 1 .. Len(list) :
              NextIndex(list, r) = k => IsSet(list[r]) /\ list[r].image = list[k].start
<1> DEFINE t == b.transition
           e == list[k]
<1>1. /\ list \in Seq(Events) /\ StrictlySorted(list)
      /\ ToSet(list) = DaySchedule(t, ps)
  BY ListsOfDistinctTimes
<1>2. /\ Len(list) \in Nat /\ DOMAIN list = 1 .. Len(list)
      /\ Len(ps) \in Nat \ {0} /\ DOMAIN ps = 1 .. Len(ps)
  BY <1>1, LenProperties, EmptySeq
<1>3. PICK i \in 1 .. Len(ps) : GapBefore(ps, i) > 1 /\ t # NoTransition /\ e = TransitionOfDay(t, ps, i)
  <2>1. e \in DaySchedule(t, ps)
    BY <1>1, <1>2 DEF ToSet
  <2>2. \A i \in DOMAIN ps : e # SetEvent(ps[i].time, ps[i].name)
    <3> TAKE i \in DOMAIN ps
    <3>1. SetEvent(ps[i].time, ps[i].name).kind = "set"
      BY DEF SetEvent
    <3>2. QED
      BY <3>1 DEF IsLerp
  <2>3. QED
    BY <1>2, <2>1, <2>2 DEF DaySchedule
<1>4. Len(ps) > 1
  <2>1. CASE Len(ps) = 1
    <3>1. i = 1 /\ Before(ps, 1) = 1
      BY <2>1 DEF Before
    <3>2. ps[1].time \in TimeOfDay /\ GapBefore(ps, 1) = Minus(ps[1].time, ps[1].time)
      BY <3>1, TimesOfPairs DEF GapBefore
    <3>3. Minus(ps[1].time, ps[1].time) = 0
      BY <3>2, MinusTimes
    <3>4. QED
      BY <1>3, <3>1, <3>2, <3>3
  <2>2. QED
    BY <1>2, <2>1
<1> DEFINE p == ps[i].time
           before == ps[Before(ps, i)]
           q == before.time
           s == e.time
<1>5. p \in TimeOfDay /\ q \in TimeOfDay /\ Before(ps, i) \in 1 .. Len(ps)
      /\ GapBefore(ps, i) = Minus(p, q)
  BY TimesOfPairs DEF GapBefore
<1>6. /\ e.start = before.name /\ e.end = ps[i].name
      /\ s = FromSeconds(p - e.duration) /\ s \in SlotOf(ps, i) /\ s # p
      /\ e.duration < GapBefore(ps, i) /\ e.duration \in Nat \ {0}
  <2>1. t \in Transitions
    BY <1>3, BackgroundsAssumption DEF IsBackground
  <2>2. e \in LerpEvents
    BY <1>3, <1>4, <2>1, TransitionIntoIsOfDay
  <2>3. e.start = before.name /\ e.end = ps[i].name
    BY <1>3 DEF TransitionOfDay, LerpEvent
  <2>4. QED
    BY <1>3, <1>4, <2>1, <2>2, <2>3, TransitionIntoIsOfDay DEF LerpEvents
<1>7. s \in TimeOfDay /\ Minus(p, s) = e.duration
  <2>1. e.duration \in 0 .. (Day - 1)
    BY <1>5, <1>6, MinusTimes, DayAssumption
  <2>2. QED
    BY <1>5, <1>6, <2>1, MinusTimes DEF SlotOf
<1>8. PICK m \in 1 .. Len(list) : list[m] = SetEvent(p, ps[i].name)
  <2>1. SetEvent(p, ps[i].name) \in ToSet(list)
    BY <1>1, <1>2 DEF DaySchedule
  <2>2. QED
    BY <1>2, <2>1 DEF ToSet
<1>9. PICK f \in 1 .. Len(list) : list[f] = SetEvent(q, before.name)
  <2>1. SetEvent(q, before.name) \in ToSet(list)
    BY <1>1, <1>2, <1>5 DEF DaySchedule
  <2>2. QED
    BY <1>2, <2>1 DEF ToSet
<1>10. /\ IsSet(list[m]) /\ list[m].image = ps[i].name /\ list[m].time = p /\ m # k
       /\ IsSet(list[f]) /\ list[f].image = before.name /\ list[f].time = q /\ f # k
  BY <1>8, <1>9 DEF SetEvent, IsSet, IsLerp
<1>11. ASSUME NEW j \in 1 .. Len(list), j # m, j # k PROVE ~ (Minus(p, list[j].time) < Minus(p, q))
  <2>1. list[j] \in DaySchedule(t, ps)
    BY <1>1, <1>2 DEF ToSet
  <2>2. list[j].time \in TimeOfDay
    BY <1>1, EventTime
  <2>3. list[j].time # list[m].time /\ list[j].time # list[k].time
    <3>1. \A u, v \in 1 .. Len(list) : u < v => list[u].time < list[v].time
      BY <1>1, <1>2 DEF StrictlySorted
    <3>2. \A u \in 1 .. Len(list) : list[u].time \in Int
      BY <1>1, EventTime
    <3>3. (j < m \/ m < j) /\ (j < k \/ k < j)
      BY <1>2, <1>11
    <3>4. QED
      BY <3>1, <3>2, <3>3
  <2>4. list[j] # SetEvent(p, ps[i].name) /\ list[j] # TransitionOfDay(t, ps, i)
    BY <1>3, <1>8, <2>3
  <2>5. list[j].time \notin SlotOf(ps, i)
    BY <1>4, <2>1, <2>4, OnlyTwoInSlot
  <2>6. QED
    BY <1>5, <2>2, <2>5 DEF SlotOf
<1>12. 0 < Minus(p, s) /\ Minus(p, s) < Minus(p, q)
  BY <1>5, <1>6, <1>7
<1>13. \A j \in 1 .. Len(list) : list[j].time \in TimeOfDay
  BY <1>1, EventTime
<1> DEFINE Far(x, y) == TimeUntilNext(x, 0, y)
<1>14. /\ Far(s, p) = Minus(p, s) /\ Far(q, s) < Far(q, p)
       /\ \A x \in TimeOfDay : /\ Far(s, x) <= Minus(p, s) => Minus(p, x) < Minus(p, q)
                               /\ Far(q, x) <= Far(q, s) => Minus(p, x) < Minus(p, q)
  <2> HIDE DEF p, q, s
  <2>1. QED
    BY <1>5, <1>7, <1>12, WithinTheSlot
<1>15. \A x, y \in TimeOfDay : Far(x, y) \in Int
  BY DayAssumption DEF TimeOfDay, TimeUntilNext
<1>16. NextIndex(list, k) = m
  <2>1. ASSUME NEW j \in 1 .. Len(list), j # m, j # k
        PROVE  TimeUntilNext(list[k].time, 0, list[m].time)
                 < TimeUntilNext(list[k].time, 0, list[j].time)
    <3>1. ~ (Far(s, list[j].time) <= Far(s, p))
      BY <1>11, <1>13, <1>14, <2>1
    <3>2. Far(s, list[j].time) \in Int /\ Far(s, p) \in Int
      BY <1>5, <1>7, <1>13, <1>15
    <3> HIDE DEF Far
    <3>3. Far(s, p) < Far(s, list[j].time)
      BY <3>1, <3>2
    <3>4. QED
      BY <1>10, <3>3 DEF Far
  <2>2. QED
    BY <1>1, <1>10, <2>1, NextIsNearest
<1>17. NextIndex(list, f) = k
  <2>1. ASSUME NEW j \in 1 .. Len(list), j # k, j # f
        PROVE  TimeUntilNext(list[f].time, 0, list[k].time)
                 < TimeUntilNext(list[f].time, 0, list[j].time)
    <3>1. CASE j = m
      BY <1>10, <1>14, <3>1
    <3>2. CASE j # m
      <4>1. ~ (Far(q, list[j].time) <= Far(q, s))
        BY <1>11, <1>13, <1>14, <2>1, <3>2
      <4>2. Far(q, list[j].time) \in Int /\ Far(q, s) \in Int
        BY <1>5, <1>7, <1>13, <1>15
      <4> HIDE DEF Far
      <4>3. Far(q, s) < Far(q, list[j].time)
        BY <4>1, <4>2
      <4>4. QED
        BY <1>10, <4>3 DEF Far
    <3>3. QED
      BY <3>1, <3>2
  <2>2. QED
    BY <1>1, <1>10, <2>1, NextIsNearest
<1>18. \A r \in 1 .. Len(list) : NextIndex(list, r) = k => r = f
  <2> TAKE r \in 1 .. Len(list)
  <2>1. QED
    BY <1>2, <1>17, NextIndexInjective
<1>19. list[k].duration = TimeUntilNext(list[k].time, 0, list[m].time)
  BY <1>7, <1>10, <1>14
<1>20. QED
  BY <1>3, <1>6, <1>10, <1>16, <1>18, <1>19

-------------------------------------------------------------------------------
(* The lists of a background set. *)

\* Whatever a background set is paired to, it is a sequence of pairs, and not empty.
LEMMA PairsOfBackground ==
  ASSUME NEW b \in Backgrounds, NEW ps \in TimesAndNames(b)
  PROVE  ps \in Seq(Pairs) /\ ps # <<>>
<1>1. CASE b.order = "linear"
  <2>1. LinearPairs(b) \in Seq(Pairs) /\ Len(LinearPairs(b)) # 0
    BY LinearPairsType
  <2>2. ps \in SortedArrangements(LinearPairs(b))
    BY <1>1 DEF TimesAndNames
  <2>3. ps \in Seq(Pairs) /\ Len(ps) = Len(LinearPairs(b))
    BY <2>1, <2>2, SortedArrangementsProperties
  <2>4. QED
    BY <2>1, <2>3
<1>2. CASE b.order # "linear"
  <2>1. PICK names \in Shuffles(b.imageNames) : ps = RandomPairs(b, names)
    BY <1>2 DEF TimesAndNames
  <2>2. ps \in Seq(Pairs) /\ Len(ps) # 0
    BY <2>1, RandomPairsType
  <2>3. QED
    BY <2>2
<1>3. QED
  BY <1>1, <1>2

LEMMA PairTimes == \A pair \in Pairs : pair.time \in Int
BY DayAssumption DEF Pairs, TimeOfDay

\* It is enough for a linear set that the times that have an image differ.
THEOREM DistinctTimesTakeTurns ==
  ASSUME NEW b \in Backgrounds, b.order = "linear", DistinctTimes(LinearPairs(b))
  PROVE  TakesTurns(b)
<1>1. ASSUME NEW ps \in TimesAndNames(b) PROVE InTurn(ps)
  <2>1. ps \in SortedArrangements(LinearPairs(b)) /\ LinearPairs(b) \in Seq(Pairs)
    BY LinearPairsType DEF TimesAndNames
  <2>2. ps \in Seq(Pairs) /\ StrictlySorted(ps)
    BY <2>1, PairTimes, SortedDistinct
  <2>3. QED
    BY <2>2, SortedTakeTurns
<1>2. QED
  BY <1>1 DEF TakesTurns

\* Strictly ascending sequences of the same elements are the same.
LEMMA SameElements ==
  ASSUME NEW S, \A e \in S : e.time \in Int, NEW one \in Seq(S), NEW other \in Seq(S),
         StrictlySorted(one), StrictlySorted(other), ToSet(one) = ToSet(other)
  PROVE  one = other
<1>1. {one[i].time : i \in DOMAIN one} = {other[i].time : i \in DOMAIN other}
  <2> DEFINE TimesOf(list) == {list[i].time : i \in DOMAIN list}
  <2>1. ASSUME NEW list, NEW longer, ToSet(list) = ToSet(longer), NEW x \in TimesOf(list)
        PROVE  x \in TimesOf(longer)
    <3>1. PICK i \in DOMAIN list : x = list[i].time
      OBVIOUS
    <3>2. PICK j \in DOMAIN longer : longer[j] = list[i]
      BY <2>1 DEF ToSet
    <3>3. x = longer[j].time
      BY <3>1, <3>2
    <3>4. QED
      BY <3>3
  <2> HIDE DEF TimesOf
  <2>2. \A x \in TimesOf(one) : x \in TimesOf(other)
    BY <2>1
  <2>3. \A x \in TimesOf(other) : x \in TimesOf(one)
    BY <2>1
  <2>4. TimesOf(one) = TimesOf(other)
    BY <2>2, <2>3
  <2>5. QED
    BY <2>4 DEF TimesOf
<1>2. Len(one) = Len(other) /\ \A i \in DOMAIN one : one[i].time = other[i].time
  BY <1>1, SameTimes
<1>3. DOMAIN one = 1 .. Len(one) /\ Len(one) \in Nat /\ DOMAIN other = 1 .. Len(other)
  BY LenProperties
<1>4. ASSUME NEW i \in 1 .. Len(one) PROVE one[i] = other[i]
  <2>1. PICK j \in DOMAIN other : other[j] = one[i]
    BY <1>3 DEF ToSet
  <2>2. other[j].time = other[i].time
    BY <1>2, <1>3, <2>1
  <2>3. \A a, c \in DOMAIN other : a < c => other[a].time < other[c].time
    BY DEF StrictlySorted
  <2>4. \A a \in DOMAIN other : other[a].time \in Int
    BY <1>3, ElementOfSeq
  <2>5. i \in DOMAIN other
    BY <1>2, <1>3
  <2>6. ~ (i < j) /\ ~ (j < i)
    BY <2>1, <2>2, <2>3, <2>4, <2>5
  <2>7. i = j
    BY <1>3, <2>1, <2>5, <2>6
  <2>8. QED
    BY <2>1, <2>7
<1>5. QED
  BY <1>2, <1>3, <1>4, SeqEqual

\* A linear set whose times differ is paired in one way only: the sort leaves nothing to
\* choose.
LEMMA LinearPairsAreOne ==
  ASSUME NEW b \in Backgrounds, TakesTurns(b), b.order = "linear",
         NEW one \in TimesAndNames(b), NEW other \in TimesAndNames(b)
  PROVE  one = other
<1> DEFINE ps == LinearPairs(b)
<1>1. ps \in Seq(Pairs) /\ DOMAIN ps = 1 .. Len(ps)
  BY LinearPairsType, LenProperties
<1>2. ASSUME NEW sorted \in TimesAndNames(b)
      PROVE  StrictlySorted(sorted) /\ ToSet(sorted) = ToSet(ps)
  <2>1. sorted \in SortedArrangements(ps)
    BY <1>2 DEF TimesAndNames
  <2>2. /\ sorted \in Seq(Pairs) /\ Len(sorted) = Len(ps)
        /\ \A i, j \in 1 .. Len(ps) : i < j => sorted[i].time <= sorted[j].time
        /\ \A i \in 1 .. Len(ps) : \E j \in 1 .. Len(ps) : sorted[j] = ps[i]
        /\ \A i \in 1 .. Len(ps) : \E j \in 1 .. Len(ps) : sorted[i] = ps[j]
    BY <1>1, <2>1, SortedArrangementsProperties
  <2>3. DOMAIN sorted = 1 .. Len(ps) /\ Len(ps) \in Nat
    BY <1>1, <2>2, LenProperties
  <2> HIDE DEF ps
  <2>4. ToSet(sorted) = ToSet(ps)
    <3>1. \A i \in DOMAIN sorted : \E j \in DOMAIN ps : sorted[i] = ps[j]
      BY <1>1, <2>2, <2>3
    <3>2. \A i \in DOMAIN ps : \E j \in DOMAIN sorted : sorted[j] = ps[i]
      BY <1>1, <2>2, <2>3
    <3>3. QED
      BY <3>1, <3>2 DEF ToSet
  <2>5. \A i, j \in DOMAIN sorted : i # j => sorted[i].time # sorted[j].time
    BY <1>2 DEF TakesTurns, InTurn
  <2>6. \A i \in DOMAIN sorted : sorted[i].time \in Int
    BY <2>2, <2>3, ElementOfSeq, PairTimes
  <2>7. ASSUME NEW i \in DOMAIN sorted, NEW j \in DOMAIN sorted, i < j
        PROVE  sorted[i].time < sorted[j].time
    <3>1. i # j
      BY <2>3, <2>7
    <3>2. sorted[i].time <= sorted[j].time
      BY <2>2, <2>3, <2>7
    <3>3. QED
      BY <2>5, <2>6, <3>1, <3>2
  <2>8. QED
    BY <2>4, <2>7 DEF StrictlySorted
<1>3. one \in Seq(Pairs) /\ other \in Seq(Pairs)
  BY PairsOfBackground
<1>4. QED
  BY <1>2, <1>3, PairTimes, SameElements

\* Two pairings of such a set have the same times at the same places: the sort leaves
\* nothing to choose, and a shuffle does not touch the times.
LEMMA PairsKeepTheirTimes ==
  ASSUME NEW b \in Backgrounds, TakesTurns(b),
         NEW one \in TimesAndNames(b), NEW other \in TimesAndNames(b)
  PROVE  /\ DOMAIN one = DOMAIN other
         /\ \A i \in DOMAIN one : one[i].time = other[i].time
<1>1. one \in Seq(Pairs) /\ other \in Seq(Pairs)
  BY PairsOfBackground
<1>2. CASE b.order = "linear"
  BY <1>2, LinearPairsAreOne
<1>3. CASE b.order # "linear"
  <2>1. ASSUME NEW ps \in TimesAndNames(b)
        PROVE  DOMAIN ps = DOMAIN b.times /\ \A i \in DOMAIN b.times : ps[i].time = b.times[i]
    <3>1. PICK names \in Shuffles(b.imageNames) : ps = RandomPairs(b, names)
      BY <1>3, <2>1 DEF TimesAndNames
    <3>2. QED
      BY <3>1 DEF RandomPairs, Pair
  <2>2. QED
    BY <2>1
<1>4. QED
  BY <1>2, <1>3

LEMMA SameLength ==
  ASSUME NEW m \in Nat, NEW n \in Nat, 1 .. m = 1 .. n
  PROVE  m = n
<1>1. (m = 0 \/ m \in 1 .. n) /\ (n = 0 \/ n \in 1 .. m)
  OBVIOUS
<1>2. QED
  BY <1>1

\* The times of a day schedule depend on the times of the pairs only.
LEMMA ScheduleTimes ==
  ASSUME NEW t, NEW one \in Seq(Pairs), NEW other \in Seq(Pairs),
         DOMAIN one = DOMAIN other, \A i \in DOMAIN one : one[i].time = other[i].time,
         NEW e \in DaySchedule(t, one)
  PROVE  \E d \in DaySchedule(t, other) : d.time = e.time
<1>1. /\ DOMAIN one = 1 .. Len(one) /\ Len(one) \in Nat
      /\ DOMAIN other = 1 .. Len(other) /\ Len(other) \in Nat
  BY LenProperties
<1>2. Len(one) = Len(other)
  BY <1>1, SameLength
<1>3. \A i \in DOMAIN one : Before(one, i) = Before(other, i) /\ Before(one, i) \in DOMAIN one
  BY <1>1, <1>2 DEF Before
<1>4. \A i \in DOMAIN one : GapBefore(one, i) = GapBefore(other, i)
  BY <1>3 DEF GapBefore
<1>5. CASE \E i \in DOMAIN one : e = SetEvent(one[i].time, one[i].name)
  <2>1. PICK i \in DOMAIN one : e = SetEvent(one[i].time, one[i].name)
    BY <1>5
  <2>2. SetEvent(other[i].time, other[i].name) \in DaySchedule(t, other)
    BY <2>1 DEF DaySchedule
  <2>3. SetEvent(other[i].time, other[i].name).time = e.time
    BY <2>1 DEF SetEvent
  <2>4. QED
    BY <2>2, <2>3
<1>6. CASE t # NoTransition
           /\ \E i \in DOMAIN one : GapBefore(one, i) > 1 /\ e = TransitionOfDay(t, one, i)
  <2>1. PICK i \in DOMAIN one : GapBefore(one, i) > 1 /\ e = TransitionOfDay(t, one, i)
    BY <1>6
  <2>2. i \in DOMAIN other /\ GapBefore(other, i) > 1
    BY <1>4, <2>1
  <2>3. TransitionOfDay(t, other, i) \in DaySchedule(t, other)
    BY <1>6, <2>2 DEF DaySchedule
  <2>4. TransitionOfDay(t, other, i).time = e.time
    BY <1>4, <2>1 DEF TransitionOfDay, LerpEvent
  <2>5. QED
    BY <2>3, <2>4
<1>7. QED
  BY <1>5, <1>6 DEF DaySchedule

\* The list of such a set may differ from one iteration to the next in its images, when
\* they are shuffled, but never in its times: however it comes out, the same event of the
\* day is current, and the same is next.
THEOREM ListsKeepTheirTimes ==
  ASSUME NEW b \in Backgrounds, TakesTurns(b),
         NEW one \in EventLists(b), NEW other \in EventLists(b)
  PROVE  /\ Len(one) = Len(other)
         /\ \A i \in DOMAIN one : one[i].time = other[i].time
<1> DEFINE t == b.transition
           TimesIn(S) == {e.time : e \in S}
<1>1. PICK onePairs \in TimesAndNames(b) : one \in ListsFromPairs(t, onePairs)
  BY DEF EventLists
<1>2. PICK otherPairs \in TimesAndNames(b) : other \in ListsFromPairs(t, otherPairs)
  BY DEF EventLists
<1>3. /\ onePairs \in Seq(Pairs) /\ onePairs # <<>> /\ InTurn(onePairs)
      /\ otherPairs \in Seq(Pairs) /\ otherPairs # <<>> /\ InTurn(otherPairs)
  BY PairsOfBackground DEF TakesTurns
<1>4. /\ one \in Seq(Events) /\ StrictlySorted(one) /\ ToSet(one) = DaySchedule(t, onePairs)
      /\ other \in Seq(Events) /\ StrictlySorted(other) /\ ToSet(other) = DaySchedule(t, otherPairs)
  BY <1>1, <1>2, <1>3, ListsOfDistinctTimes
<1>5. /\ DOMAIN onePairs = DOMAIN otherPairs
      /\ \A i \in DOMAIN onePairs : onePairs[i].time = otherPairs[i].time
  BY PairsKeepTheirTimes
<1>6. TimesIn(ToSet(one)) = TimesIn(ToSet(other))
  <2>1. \A e \in ToSet(one) : \E d \in ToSet(other) : d.time = e.time
    BY <1>3, <1>4, <1>5, ScheduleTimes
  <2>2. \A e \in ToSet(other) : \E d \in ToSet(one) : d.time = e.time
    BY <1>3, <1>4, <1>5, ScheduleTimes
  <2>3. QED
    BY <2>1, <2>2
<1>7. {one[i].time : i \in DOMAIN one} = {other[i].time : i \in DOMAIN other}
  BY <1>6 DEF ToSet
<1>8. QED
  BY <1>4, <1>7, EventTimes, SameTimes

\* A linear set whose times differ has one list: it is the same in every iteration.
THEOREM LinearListsAreOne ==
  ASSUME NEW b \in Backgrounds, TakesTurns(b), b.order = "linear",
         NEW one \in EventLists(b), NEW other \in EventLists(b)
  PROVE  one = other
<1> DEFINE t == b.transition
<1>1. PICK onePairs \in TimesAndNames(b) : one \in ListsFromPairs(t, onePairs)
  BY DEF EventLists
<1>2. PICK otherPairs \in TimesAndNames(b) : other \in ListsFromPairs(t, otherPairs)
  BY DEF EventLists
<1>3. /\ onePairs \in Seq(Pairs) /\ onePairs # <<>> /\ InTurn(onePairs)
      /\ otherPairs \in Seq(Pairs) /\ otherPairs # <<>> /\ InTurn(otherPairs)
  BY PairsOfBackground DEF TakesTurns
<1>4. onePairs = otherPairs
  BY LinearPairsAreOne
<1>5. /\ one \in Seq(Events) /\ StrictlySorted(one) /\ ToSet(one) = DaySchedule(t, onePairs)
      /\ other \in Seq(Events) /\ StrictlySorted(other) /\ ToSet(other) = DaySchedule(t, otherPairs)
  BY <1>1, <1>2, <1>3, ListsOfDistinctTimes
<1>6. QED
  BY <1>4, <1>5, EventTimes, SameElements

===============================================================================
