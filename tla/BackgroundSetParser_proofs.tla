----------------------- MODULE BackgroundSetParser_proofs -----------------------
(***************************************************************************)
(* What parsing guarantees for every file, every time string and every     *)
(* solar day: the outcome is decided by the file and not by the order of   *)
(* its keys, an accepted dynamic set is one the loop can run, and its      *)
(* times are what the strings say.                                         *)
(***************************************************************************)
EXTENDS BackgroundSetParser, EventList_proofs

-------------------------------------------------------------------------------
(* Recursion. *)

\* The numbers f has at 0 .. n come from one another.
Follows(f, n, base, next) ==
  /\ f \in [0 .. n -> Nat] /\ f[0] = base
  /\ \A k \in 1 .. n : f[k] = next[<<k, f[k - 1]>>]

\* A function from 0 .. n to Nat may be defined by what it is at 0 and by how each value
\* follows from the one before.
LEMMA RecursionExists ==
  ASSUME NEW n \in Nat, NEW base \in Nat, NEW next \in [(1 .. n) \X Nat -> Nat]
  PROVE  \E f : Follows(f, n, base, next)
<1> DEFINE Right(f, m) ==
             /\ f[0] = base
             /\ \A k \in 1 .. n : k <= m => f[k] = next[<<k, f[k - 1]>>]
           Reached == {m \in 0 .. n : \E f \in [0 .. n -> Nat] : Right(f, m)}
<1>1. 0 \in Reached
  <2> DEFINE f == [k \in 0 .. n |-> base]
  <2>1. f \in [0 .. n -> Nat] /\ Right(f, 0)
    OBVIOUS
  <2> HIDE DEF f, Right
  <2> QED  BY <2>1
<1>2. ASSUME NEW m \in 0 .. (n - 1), m \in Reached
      PROVE  m + 1 \in Reached
  <2>1. PICK f \in [0 .. n -> Nat] : Right(f, m)
    BY <1>2
  <2> DEFINE last == next[<<m + 1, f[m]>>]
             g == [f EXCEPT ![m + 1] = last]
  <2>2. last \in Nat /\ m + 1 \in 1 .. n /\ m \in 0 .. n
    <3>1. m + 1 \in 1 .. n /\ m \in 0 .. n
      OBVIOUS
    <3>2. f[m] \in Nat
      BY <2>1, <3>1
    <3> QED  BY <3>1, <3>2
  <2> HIDE DEF last
  <2>3. g \in [0 .. n -> Nat] /\ g[m + 1] = last
    BY <2>1, <2>2
  <2>4. \A k \in 0 .. n : k # m + 1 => g[k] = f[k]
    BY <2>1
  <2> HIDE DEF g
  <2>5. g[0] = base
    BY <2>1, <2>4
  <2>6. ASSUME NEW k \in 1 .. n, k <= m + 1 PROVE g[k] = next[<<k, g[k - 1]>>]
    <3>1. k - 1 \in 0 .. n /\ k - 1 # m + 1 /\ g[k - 1] = f[k - 1]
      BY <2>4, <2>6
    <3>2. CASE k = m + 1
      <4>1. k - 1 = m
        BY <3>2
      <4> QED  BY <2>3, <3>1, <3>2, <4>1 DEF last
    <3>3. CASE k # m + 1
      <4>1. k <= m /\ k \in 0 .. n
        BY <2>6, <3>3
      <4>2. g[k] = f[k]
        BY <2>4, <3>3, <4>1
      <4> QED  BY <2>1, <3>1, <4>1, <4>2
    <3> QED  BY <3>2, <3>3
  <2>7. Right(g, m + 1)
    BY <2>5, <2>6
  <2> HIDE DEF Right
  <2>8. \E h \in [0 .. n -> Nat] : Right(h, m + 1)
    BY <2>3, <2>7
  <2>9. m + 1 \in 0 .. n
    OBVIOUS
  <2> QED  BY <2>8, <2>9
<1>3. n \in Reached
  <2> HIDE DEF Reached
  <2> QED  BY <1>1, <1>2, NumbersUpTo
<1>4. PICK f \in [0 .. n -> Nat] : Right(f, n)
  BY <1>3
<1>5. Follows(f, n, base, next)
  BY <1>4 DEF Follows
<1> QED  BY <1>5

-------------------------------------------------------------------------------
(* Numbers. *)

\* What a digit counts, seen from the end: 1, 10, 100...
Weight(n) == CHOOSE w : w = [k \in 0 .. n |-> IF k = 0 THEN 1 ELSE w[k - 1] * 10]

LEMMA WeightSteps ==
  ASSUME NEW n \in Nat
  PROVE  /\ Weight(n)[0] = 1
         /\ \A k \in 1 .. n : Weight(n)[k] = Weight(n)[k - 1] * 10
         /\ \A k \in 0 .. n : Weight(n)[k] \in Nat
<1> DEFINE next == [x \in (1 .. n) \X Nat |-> x[2] * 10]
<1>1. next \in [(1 .. n) \X Nat -> Nat]
  OBVIOUS
<1>2. \A k \in 1 .. n, x \in Nat : next[<<k, x>>] = x * 10
  OBVIOUS
<1> HIDE DEF next
<1>3. PICK f : f \in [0 .. n -> Nat] /\ f[0] = 1 /\ \A k \in 1 .. n : f[k] = next[<<k, f[k - 1]>>]
  <2>1. \E f : Follows(f, n, 1, next)
    BY <1>1, 1 \in Nat, RecursionExists, Zenon
  <2> QED  BY <2>1 DEF Follows
<1>4. f = [k \in 0 .. n |-> IF k = 0 THEN 1 ELSE f[k - 1] * 10]
  <2>1. ASSUME NEW k \in 0 .. n
        PROVE  f[k] = IF k = 0 THEN 1 ELSE f[k - 1] * 10
    <3>1. CASE k = 0
      BY <1>3, <3>1
    <3>2. CASE k # 0
      <4>1. k \in 1 .. n /\ f[k - 1] \in Nat
        BY <1>3, <3>2
      <4> QED  BY <1>2, <1>3, <3>2, <4>1
    <3> QED  BY <3>1, <3>2
  <2>2. f = [k \in 0 .. n |-> f[k]]
    BY <1>3
  <2> QED  BY <2>1, <2>2
<1> DEFINE w == Weight(n)
<1>5. w = [k \in 0 .. n |-> IF k = 0 THEN 1 ELSE w[k - 1] * 10]
  BY <1>4 DEF Weight
<1> HIDE DEF w
<1>6. w[0] = 1 /\ \A k \in 1 .. n : w[k] = w[k - 1] * 10
  BY <1>5
<1> DEFINE Natural == {k \in 0 .. n : w[k] \in Nat}
<1>7. \A k \in 0 .. n : k \in Natural
  <2>1. 0 \in Natural
    BY <1>6
  <2>2. ASSUME NEW k \in 0 .. (n - 1), k \in Natural PROVE k + 1 \in Natural
    <3>1. k + 1 \in 1 .. n /\ (k + 1) - 1 = k
      OBVIOUS
    <3>2. w[k + 1] = w[k] * 10
      BY <1>6, <3>1
    <3> QED  BY <2>2, <3>1, <3>2
  <2> HIDE DEF Natural
  <2> QED  BY <2>1, <2>2, NumbersUpTo
<1> QED  BY <1>6, <1>7 DEF w

\* The number the first k digits make.
Prefix(digits) ==
  CHOOSE h \in [0 .. Len(digits) -> Nat] :
    /\ h[0] = 0
    /\ \A k \in 1 .. Len(digits) : h[k] = 10 * h[k - 1] + digits[k]

LEMMA PrefixSteps ==
  ASSUME NEW digits \in Seq(Digits)
  PROVE  /\ Prefix(digits) \in [0 .. Len(digits) -> Nat]
         /\ Prefix(digits)[0] = 0
         /\ \A k \in 1 .. Len(digits) :
              Prefix(digits)[k] = 10 * Prefix(digits)[k - 1] + digits[k]
<1> DEFINE n == Len(digits)
           next == [x \in (1 .. n) \X Nat |-> 10 * x[2] + digits[x[1]]]
<1>0. n \in Nat
  OBVIOUS
<1>1. \A k \in 1 .. n : digits[k] \in Nat
  BY DEF Digits
<1> HIDE DEF n
<1>2. next \in [(1 .. n) \X Nat -> Nat]
  BY <1>1
<1>3. \A k \in 1 .. n, x \in Nat : next[<<k, x>>] = 10 * x + digits[k]
  OBVIOUS
<1> HIDE DEF next
<1>4. PICK h : h \in [0 .. n -> Nat] /\ h[0] = 0 /\ \A k \in 1 .. n : h[k] = next[<<k, h[k - 1]>>]
  <2>1. \E h : Follows(h, n, 0, next)
    BY <1>0, <1>2, 0 \in Nat, RecursionExists, Zenon
  <2> QED  BY <2>1 DEF Follows
<1>5. ASSUME NEW k \in 1 .. n PROVE h[k] = 10 * h[k - 1] + digits[k]
  <2>1. h[k - 1] \in Nat
    BY <1>0, <1>4
  <2> QED  BY <1>3, <1>4, <2>1
<1>6. \E g \in [0 .. n -> Nat] :
        g[0] = 0 /\ \A k \in 1 .. n : g[k] = 10 * g[k - 1] + digits[k]
  BY <1>4, <1>5
<1> QED  BY <1>6 DEF Prefix, n

\* Counting the digits by their weights gives the number they make.
LEMMA DecimalIsPrefix ==
  ASSUME NEW digits \in Seq(Digits)
  PROVE  DecimalValue(digits) = Prefix(digits)[Len(digits)]
<1> DEFINE n == Len(digits)
           w == Weight(n)
           h == Prefix(digits)
           Sum(v) == [k \in 0 .. n |-> IF k = 0 THEN 0 ELSE v[k - 1] + digits[k] * w[n - k]]
           value == CHOOSE v : v = Sum(v)
<1>0. n \in Nat
  OBVIOUS
<1>1. \A k \in 1 .. n : digits[k] \in Nat
  BY DEF Digits
<1>2. h \in [0 .. n -> Nat] /\ h[0] = 0 /\ \A k \in 1 .. n : h[k] = 10 * h[k - 1] + digits[k]
  BY PrefixSteps
<1>3. DecimalValue(digits) = value[n]
  BY DEF DecimalValue, Weight
<1> HIDE DEF n, h
<1>4. /\ w[0] = 1 /\ \A k \in 1 .. n : w[k] = w[k - 1] * 10
      /\ \A k \in 0 .. n : w[k] \in Nat
  BY <1>0, WeightSteps
<1> HIDE DEF w
\* The sum of the first k, counted by their weights among all n.
<1> DEFINE f == [k \in 0 .. n |-> h[k] * w[n - k]]
<1>5. f = Sum(f)
  <2>1. ASSUME NEW k \in 0 .. n
        PROVE  f[k] = IF k = 0 THEN 0 ELSE f[k - 1] + digits[k] * w[n - k]
    <3>1. CASE k = 0
      <4>1. f[0] = 0 * w[n]
        BY <1>0, <1>2
      <4>2. w[n] \in Nat
        BY <1>0, <1>4
      <4> HIDE DEF f
      <4> QED  BY <3>1, <4>1, <4>2
    <3>2. CASE k # 0
      <4>1. k \in 1 .. n /\ k - 1 \in 0 .. n /\ n - k \in 0 .. n /\ (n - k) + 1 \in 1 .. n
        BY <1>0, <3>2
      <4> DEFINE a == h[k - 1]
                 q == w[n - k]
                 d == digits[k]
      <4>2. a \in Nat /\ q \in Nat /\ d \in Nat
        BY <1>1, <1>2, <1>4, <4>1
      <4>3. h[k] = 10 * a + d
        BY <1>2, <4>1
      <4>4. w[n - (k - 1)] = q * 10
        <5>1. n - (k - 1) = (n - k) + 1 /\ ((n - k) + 1) - 1 = n - k
          BY <1>0
        <5>2. w[(n - k) + 1] = w[((n - k) + 1) - 1] * 10
          BY <1>4, <4>1
        <5> QED  BY <5>1, <5>2
      <4>5. f[k] = h[k] * q /\ f[k - 1] = a * w[n - (k - 1)]
        BY <4>1
      <4> HIDE DEF f, a, q, d
      <4>6. f[k] = (10 * a + d) * q /\ f[k - 1] = a * (q * 10)
        BY <4>3, <4>4, <4>5
      <4>7. (10 * a + d) * q = a * (q * 10) + d * q
        BY <4>2
      <4> QED  BY <3>2, <4>6, <4>7 DEF q, d
    <3> QED  BY <3>1, <3>2
  <2>2. f = [k \in 0 .. n |-> f[k]]
    OBVIOUS
  <2> HIDE DEF f
  <2> QED  BY <2>1, <2>2
<1>6. value = Sum(value)
  <2> HIDE DEF f, Sum
  <2> QED  BY <1>5
<1> HIDE DEF f, value
<1> DEFINE Same == {k \in 0 .. n : value[k] = f[k]}
<1>7. value[0] = 0 /\ f[0] = 0
  BY <1>0, <1>5, <1>6
<1>8. \A k \in 1 .. n : /\ value[k] = value[k - 1] + digits[k] * w[n - k]
                        /\ f[k] = f[k - 1] + digits[k] * w[n - k]
  <2> SUFFICES ASSUME NEW k \in 1 .. n
               PROVE  /\ value[k] = value[k - 1] + digits[k] * w[n - k]
                      /\ f[k] = f[k - 1] + digits[k] * w[n - k]
    OBVIOUS
  <2>1. k \in 0 .. n /\ k # 0
    BY <1>0
  <2>2. value[k] = value[k - 1] + digits[k] * w[n - k]
    BY <1>6, <2>1
  <2>3. f[k] = f[k - 1] + digits[k] * w[n - k]
    BY <1>5, <2>1
  <2> QED  BY <2>2, <2>3
<1>9. \A k \in 0 .. n : k \in Same
  <2>1. 0 \in Same
    BY <1>0, <1>7
  <2>2. ASSUME NEW k \in 0 .. (n - 1), k \in Same PROVE k + 1 \in Same
    <3>1. k + 1 \in 1 .. n /\ k + 1 \in 0 .. n /\ (k + 1) - 1 = k
      BY <1>0
    <3>2. value[k] = f[k]
      BY <2>2
    <3>3. value[k + 1] = f[k + 1]
      BY <1>8, <3>1, <3>2
    <3> QED  BY <3>1, <3>3
  <2> HIDE DEF Same
  <2> QED  BY <1>0, <2>1, <2>2, NumbersUpTo
<1>10. value[n] = f[n]
  BY <1>0, <1>9
<1>11. f[n] = h[n]
  <2>1. n \in 0 .. n /\ n - n = 0 /\ h[n] \in Nat
    BY <1>0, <1>2
  <2>2. f[n] = h[n] * w[0]
    BY <2>1 DEF f
  <2> QED  BY <1>4, <2>1, <2>2
<1> QED  BY <1>3, <1>10, <1>11 DEF n, h

\* What stringViewToInt makes of one more digit, and, by FoldLeft, of the digits with
\* these indices.
NextInt(res, digit) == (10 * res + digit) % IntSize

Reading(digits) ==
  CHOOSE r :
    r = [s \in SUBSET DOMAIN digits |->
           IF s = {} THEN 0 ELSE NextInt(r[s \ {Max(s)}], digits[Max(s)])]

LEMMA ReadingExists ==
  ASSUME NEW digits \in Seq(Digits)
  PROVE  Reading(digits) =
           [s \in SUBSET DOMAIN digits |->
              IF s = {} THEN 0 ELSE NextInt(Reading(digits)[s \ {Max(s)}], digits[Max(s)])]
<1> DEFINE D == DOMAIN digits
           Down(f, s) == IF s = {} THEN 0 ELSE NextInt(f[s \ {Max(s)}], digits[Max(s)])
           Right(f, n) == \A s \in SUBSET D : s \subseteq 1 .. n => f[s] = Down(f, s)
           Reached == {n \in Nat : \E f : Right(f, n)}
<1>1. Len(digits) \in Nat /\ D = 1 .. Len(digits)
  BY LenProperties
<1>2. 0 \in Reached
  <2> DEFINE f == [s \in SUBSET D |-> 0]
  <2>1. \A s \in SUBSET D : s \subseteq 1 .. 0 => s = {}
    OBVIOUS
  <2>2. Right(f, 0)
    BY <2>1
  <2> QED  BY <2>2
<1>3. ASSUME NEW n \in Reached PROVE n + 1 \in Reached
  <2>1. n \in Nat
    OBVIOUS
  <2>2. PICK f : Right(f, n)
    OBVIOUS
  <2> DEFINE g == [s \in SUBSET D |-> Down(f, s)]
  <2>3. ASSUME NEW s \in SUBSET D, s \subseteq 1 .. (n + 1)
        PROVE  g[s] = Down(g, s)
    <3>1. CASE s = {}
      BY <3>1
    <3>2. CASE s # {}
      <4> DEFINE rest == s \ {Max(s)}
      <4>1. Max(s) \in s /\ \A y \in s : Max(s) >= y
        BY <1>1, <3>2, MaxExists
      <4>2. rest \in SUBSET D /\ rest \subseteq 1 .. n
        <5> SUFFICES ASSUME NEW y \in rest PROVE y \in 1 .. n
          OBVIOUS
        <5>1. y \in 1 .. (n + 1) /\ Max(s) \in 1 .. (n + 1) /\ y # Max(s) /\ Max(s) >= y
          BY <2>1, <2>3, <4>1
        <5> QED  BY <2>1, <5>1
      <4>3. f[rest] = Down(f, rest) /\ g[rest] = Down(f, rest)
        BY <2>2, <4>2
      <4>4. g[s] = NextInt(f[rest], digits[Max(s)])
        BY <3>2
      <4> QED  BY <3>2, <4>3, <4>4
    <3> QED  BY <3>1, <3>2
  <2>4. Right(g, n + 1)
    BY <2>3
  <2> HIDE DEF g, Right
  <2>5. n + 1 \in Nat /\ \E h : Right(h, n + 1)
    BY <2>1, <2>4
  <2> QED  BY <2>5
<1>4. Len(digits) \in Reached
  <2> HIDE DEF Reached
  <2>1. Reached \in SUBSET Nat
    BY DEF Reached
  <2> QED  BY <1>1, <1>2, <1>3, <2>1, NumbersByInduction
<1>5. PICK f : Right(f, Len(digits))
  BY <1>4
<1> DEFINE g == [s \in SUBSET D |-> f[s]]
<1>6. g = [s \in SUBSET D |-> Down(g, s)]
  <2>1. ASSUME NEW s \in SUBSET D PROVE f[s] = Down(g, s)
    <3>1. f[s] = Down(f, s)
      BY <1>1, <1>5
    <3>2. s \ {Max(s)} \in SUBSET D
      OBVIOUS
    <3> QED  BY <3>1, <3>2
  <2> QED  BY <2>1
<1> QED  BY <1>6 DEF Reading

\* The digits are taken one by one.
LEMMA ReadingSteps ==
  ASSUME NEW digits \in Seq(Digits)
  PROVE  /\ Reading(digits)[1 .. 0] = 0
         /\ \A k \in 1 .. Len(digits) :
              Reading(digits)[1 .. k] = NextInt(Reading(digits)[1 .. (k - 1)], digits[k])
         /\ StringViewToInt(digits) = Reading(digits)[1 .. Len(digits)]
<1>1. Len(digits) \in Nat /\ DOMAIN digits = 1 .. Len(digits)
  BY LenProperties
<1> DEFINE Down(s) == IF s = {} THEN 0
                      ELSE NextInt(Reading(digits)[s \ {Max(s)}], digits[Max(s)])
<1>2. \A s \in SUBSET DOMAIN digits : Reading(digits)[s] = Down(s)
  <2>1. Reading(digits) = [s \in SUBSET DOMAIN digits |-> Down(s)]
    BY ReadingExists
  <2> HIDE DEF Down
  <2> QED  BY <2>1
<1>3. Reading(digits)[1 .. 0] = 0
  <2>1. 1 .. 0 = {}
    OBVIOUS
  <2> QED  BY <1>2, <2>1
<1>4. ASSUME NEW k \in 1 .. Len(digits)
      PROVE  Reading(digits)[1 .. k] = NextInt(Reading(digits)[1 .. (k - 1)], digits[k])
  <2>1. 1 .. k \in SUBSET DOMAIN digits /\ 1 .. k # {} /\ k \in Nat /\ k \in 1 .. k
    <3>1. k \in Nat /\ k \in 1 .. k
      BY <1>1
    <3>2. \A i \in 1 .. k : i \in DOMAIN digits
      BY <1>1
    <3> QED  BY <3>1, <3>2
  <2>2. Max(1 .. k) = k
    <3>1. Max(1 .. k) \in 1 .. k /\ Max(1 .. k) >= k
      BY <2>1, MaxExists
    <3> QED  BY <2>1, <3>1
  <2>3. (1 .. k) \ {k} = 1 .. (k - 1)
    BY <2>1
  <2> QED  BY <1>2, <2>1, <2>2, <2>3
<1>5. StringViewToInt(digits) = Reading(digits)[DOMAIN digits]
  BY DEF StringViewToInt, FoldLeft, MapThenFoldSet, Reading, NextInt
<1> QED  BY <1>1, <1>3, <1>4, <1>5

\* What the digits so far make never gets smaller.
LEMMA PrefixGrows ==
  ASSUME NEW digits \in Seq(Digits)
  PROVE  \A k \in 0 .. Len(digits) : Prefix(digits)[k] <= Prefix(digits)[Len(digits)]
<1> DEFINE n == Len(digits)
           h == Prefix(digits)
           Below == {k \in 0 .. n : h[n - k] <= h[n]}
<1>0. n \in Nat
  OBVIOUS
<1>1. \A k \in 1 .. n : digits[k] \in Nat
  BY DEF Digits
<1>2. h \in [0 .. n -> Nat] /\ \A k \in 1 .. n : h[k] = 10 * h[k - 1] + digits[k]
  BY PrefixSteps
<1> HIDE DEF n, h
<1>3. 0 \in Below
  BY <1>0, <1>2
<1>4. ASSUME NEW k \in 0 .. (n - 1), k \in Below PROVE k + 1 \in Below
  <2>1. n - k \in 1 .. n /\ (n - k) - 1 = n - (k + 1) /\ n - (k + 1) \in 0 .. n /\ n \in 0 .. n
    BY <1>0
  <2>2. h[n - k] = 10 * h[n - (k + 1)] + digits[n - k]
    BY <1>2, <2>1
  <2>3. /\ h[n - k] \in Nat /\ h[n - (k + 1)] \in Nat /\ h[n] \in Nat
        /\ digits[n - k] \in Nat
    BY <1>1, <1>2, <2>1
  <2>4. h[n - (k + 1)] <= h[n - k]
    BY <2>2, <2>3
  <2>5. h[n - (k + 1)] <= h[n]
    BY <1>4, <2>3, <2>4
  <2>6. k + 1 \in 0 .. n
    BY <1>0
  <2> QED  BY <2>5, <2>6
<1>5. \A k \in 0 .. n : k \in Below
  <2> HIDE DEF Below
  <2> QED  BY <1>0, <1>3, <1>4, NumbersUpTo
<1>6. ASSUME NEW k \in 0 .. n PROVE h[k] <= h[n]
  <2>1. n - k \in 0 .. n /\ n - (n - k) = k
    BY <1>0
  <2>2. n - k \in Below
    BY <1>5, <2>1
  <2> QED  BY <2>1, <2>2
<1> QED  BY <1>6 DEF n, h

\* stringViewToInt reads every number that an int can hold, and gives an int of the
\* others too.
LEMMA ReadingIsExact ==
  ASSUME NEW digits \in Seq(Digits)
  PROVE  /\ StringViewToInt(digits) \in Nat
         /\ DecimalValue(digits) \in Nat
         /\ DecimalValue(digits) < IntSize => StringViewToInt(digits) = DecimalValue(digits)
<1> DEFINE n == Len(digits)
           h == Prefix(digits)
           r(k) == Reading(digits)[1 .. k]
<1>0. n \in Nat /\ IntSize \in Nat /\ IntSize > 99
  BY TimeStringsAssumption
<1>1. \A k \in 1 .. n : digits[k] \in Nat
  BY DEF Digits
<1>2. /\ h \in [0 .. n -> Nat] /\ h[0] = 0
      /\ \A k \in 1 .. n : h[k] = 10 * h[k - 1] + digits[k]
      /\ DecimalValue(digits) = h[n]
  BY PrefixSteps, DecimalIsPrefix
<1>3. r(0) = 0 /\ \A k \in 1 .. n : r(k) = NextInt(r(k - 1), digits[k])
  BY ReadingSteps
<1>4. StringViewToInt(digits) = r(n)
  BY ReadingSteps
<1>5. \A k \in 0 .. n : h[k] <= h[n]
  BY PrefixGrows
<1> HIDE DEF n, h, r
<1> DEFINE Natural == {k \in 0 .. n : r(k) \in Nat}
           Exact == {k \in 0 .. n : h[n] < IntSize => r(k) = h[k]}
<1>6. \A k \in 0 .. n : k \in Natural
  <2>1. 0 \in Natural
    BY <1>0, <1>3
  <2>2. ASSUME NEW k \in 0 .. (n - 1), k \in Natural PROVE k + 1 \in Natural
    <3>1. k + 1 \in 1 .. n /\ (k + 1) - 1 = k /\ r(k) \in Nat
      BY <1>0, <2>2
    <3>2. r(k + 1) = (10 * r(k) + digits[k + 1]) % IntSize
      BY <1>3, <3>1 DEF NextInt
    <3>3. 10 * r(k) + digits[k + 1] \in Nat
      BY <1>1, <3>1
    <3>4. r(k + 1) \in Nat
      BY <1>0, <3>2, <3>3
    <3> QED  BY <1>0, <3>1, <3>4
  <2> HIDE DEF Natural
  <2> QED  BY <1>0, <2>1, <2>2, NumbersUpTo
<1>7. \A k \in 0 .. n : k \in Exact
  <2>1. 0 \in Exact
    BY <1>0, <1>2, <1>3
  <2>2. ASSUME NEW k \in 0 .. (n - 1), k \in Exact PROVE k + 1 \in Exact
    <3>1. k + 1 \in 1 .. n /\ (k + 1) - 1 = k /\ k \in 0 .. n /\ k + 1 \in 0 .. n
      BY <1>0
    <3>2. r(k + 1) = (10 * r(k) + digits[k + 1]) % IntSize
      BY <1>3, <3>1 DEF NextInt
    <3>3. ASSUME h[n] < IntSize PROVE r(k + 1) = h[k + 1]
      <4>1. r(k) = h[k]
        BY <2>2, <3>3
      <4>2. h[k + 1] = 10 * h[k] + digits[k + 1]
        BY <1>2, <3>1
      <4>3. h[k + 1] \in Nat /\ h[n] \in Nat /\ h[k + 1] <= h[n]
        BY <1>0, <1>2, <1>5, <3>1
      <4>4. r(k + 1) = h[k + 1] % IntSize
        BY <3>2, <4>1, <4>2
      <4> QED  BY <1>0, <3>3, <4>3, <4>4
    <3> QED  BY <3>1, <3>3
  <2> HIDE DEF Exact
  <2> QED  BY <1>0, <2>1, <2>2, NumbersUpTo
<1>8. n \in 0 .. n
  BY <1>0
<1>9. r(n) \in Nat /\ h[n] \in Nat /\ (h[n] < IntSize => r(n) = h[n])
  BY <1>2, <1>6, <1>7, <1>8
<1> QED  BY <1>2, <1>4, <1>9

\* Minutes and seconds fit: they have two digits, or none at all.
LEMMA TwoDigits ==
  ASSUME NEW digits \in Seq(Digits)
  PROVE  /\ digits = <<>> => StringViewToInt(digits) = 0 /\ DecimalValue(digits) = 0
         /\ Len(digits) = 2 =>
              /\ digits[1] \in Digits /\ digits[2] \in Digits
              /\ StringViewToInt(digits) = DecimalValue(digits)
              /\ DecimalValue(digits) = 10 * digits[1] + digits[2]
<1> DEFINE n == Len(digits)
           h == Prefix(digits)
<1>0. n = 2 => digits[1] \in Digits /\ digits[2] \in Digits
  OBVIOUS
<1>1. h[0] = 0 /\ DecimalValue(digits) = h[n]
  BY PrefixSteps, DecimalIsPrefix
<1>2. IntSize > 99 /\ IntSize \in Nat
  BY TimeStringsAssumption
<1>3. ASSUME digits = <<>> PROVE DecimalValue(digits) = 0
  <2>1. n = 0
    BY <1>3
  <2> QED  BY <1>1, <2>1
<1>4. ASSUME n = 2 PROVE DecimalValue(digits) = 10 * digits[1] + digits[2]
  <2>1. digits[1] \in Digits /\ digits[2] \in Digits
    BY <1>4
  <2>2. \A k \in 1 .. n : h[k] = 10 * h[k - 1] + digits[k]
    BY PrefixSteps
  <2>3. h[1] = 10 * h[1 - 1] + digits[1] /\ h[2] = 10 * h[2 - 1] + digits[2]
    <3> HIDE DEF h, n
    <3> QED  BY <1>4, <2>2
  <2> HIDE DEF h, n
  <2>4. h[1] = digits[1]
    BY <1>1, <2>1, <2>3 DEF Digits
  <2> QED  BY <1>1, <1>4, <2>1, <2>3, <2>4 DEF Digits
<1>5. ASSUME n = 2 PROVE DecimalValue(digits) < IntSize
  <2>1. digits[1] \in Digits /\ digits[2] \in Digits
    BY <1>5
  <2> QED  BY <1>2, <1>4, <1>5, <2>1 DEF Digits
<1>6. DecimalValue(digits) < IntSize => StringViewToInt(digits) = DecimalValue(digits)
  BY ReadingIsExact
<1> QED  BY <1>0, <1>2, <1>3, <1>4, <1>5, <1>6

-------------------------------------------------------------------------------
(* Times. *)

LEMMA RemainderIsUnique ==
  ASSUME NEW k \in Int, NEW r \in TimeOfDay
  PROVE  FromSeconds(Day * k + r) = r
<1> DEFINE a == Day * k + r
           j == a \div Day
           s == a % Day
<1>1. Day \in Nat /\ Day > 0 /\ r \in Nat /\ r < Day
  BY DayAssumption DEF TimeOfDay
<1>2. a \in Int
  BY <1>1
<1>3. a = Day * k + r
  OBVIOUS
<1> HIDE DEF a
<1>4. j \in Int /\ s \in Nat /\ s < Day /\ a = Day * j + s
  BY <1>1, <1>2
<1> HIDE DEF j, s
<1> DEFINE d == k - j
<1>5. d \in Int /\ k = j + d
  BY <1>4
<1> HIDE DEF d
<1>6. Day * d = s - r
  <2>1. Day * (j + d) = Day * j + Day * d
    BY <1>1, <1>4, <1>5
  <2>2. Day * j \in Int /\ Day * d \in Int
    BY <1>1, <1>4, <1>5
  <2> QED  BY <1>1, <1>3, <1>4, <1>5, <2>1, <2>2
<1>7. d = 0
  <2>1. d >= 1 => Day * d >= Day
    BY <1>1, <1>5
  <2>2. d <= -1 => Day * d <= -Day
    BY <1>1, <1>5
  <2> QED  BY <1>1, <1>4, <1>5, <1>6, <2>1, <2>2
<1>8. s = r
  BY <1>1, <1>4, <1>6, <1>7
<1> QED  BY <1>8 DEF FromSeconds, a, s

\* An offset may be reduced before it is added or subtracted.
LEMMA OffsetsReduce ==
  ASSUME NEW x \in Int, NEW offset \in Int
  PROVE  /\ FromSeconds(x + FromSeconds(offset)) = FromSeconds(x + offset)
         /\ FromSeconds(x - FromSeconds(offset)) = FromSeconds(x - offset)
<1> DEFINE q == offset \div Day
           r == offset % Day
<1>1. Day \in Nat /\ Day > 0
  BY DayAssumption
<1>2. q \in Int /\ r \in Int /\ offset = Day * q + r /\ r = FromSeconds(offset)
  BY <1>1 DEF FromSeconds
<1> HIDE DEF q, r
<1>3. ASSUME NEW y \in Int, NEW k \in Int PROVE FromSeconds(y + Day * k) = FromSeconds(y)
  <2> DEFINE j == y \div Day
             s == y % Day
  <2>1. j \in Int /\ s \in TimeOfDay /\ y = Day * j + s /\ s = FromSeconds(y)
    BY <1>1 DEF TimeOfDay, FromSeconds
  <2> HIDE DEF j, s
  <2>2. s \in Int /\ Day * j \in Int /\ Day * k \in Int
    BY <1>1, <2>1 DEF TimeOfDay
  <2>3. y + Day * k = Day * (j + k) + s
    <3>1. Day * (j + k) = Day * j + Day * k
      BY <1>1, <2>1
    <3> QED  BY <2>1, <2>2, <3>1
  <2>4. j + k \in Int
    BY <2>1
  <2>5. FromSeconds(Day * (j + k) + s) = s
    BY <2>1, <2>4, RemainderIsUnique
  <2> QED  BY <2>1, <2>3, <2>5
<1>4. FromSeconds(x + r) = FromSeconds(x + offset)
  <2>1. x + offset = (x + r) + Day * q /\ x + r \in Int
    <3>1. Day * q \in Int
      BY <1>1, <1>2
    <3> QED  BY <1>2, <3>1
  <2> QED  BY <1>2, <1>3, <2>1
<1>5. FromSeconds(x - r) = FromSeconds(x - offset)
  <2>1. x - offset = (x - r) + Day * (-q) /\ x - r \in Int /\ -q \in Int
    <3>1. Day * (-q) = -(Day * q) /\ Day * q \in Int
      BY <1>1, <1>2
    <3> QED  BY <1>2, <3>1
  <2> QED  BY <1>2, <1>3, <2>1
<1> QED  BY <1>2, <1>4, <1>5

\* The ranges of minutes and seconds, by their first digit.
LEMMA ClockRanges ==
  ASSUME NEW clock \in Clocks
  PROVE  IsClock(clock) <=>
           /\ Len(clock.minutes) = 2 /\ clock.minutes[1] <= 5
           /\ clock.seconds = <<>> \/ (Len(clock.seconds) = 2 /\ clock.seconds[1] <= 5)
<1>1. clock.minutes \in Seq(Digits) /\ clock.seconds \in Seq(Digits)
  BY DEF Clocks
<1>2. ASSUME NEW digits \in Seq(Digits), Len(digits) = 2
      PROVE  StringViewToInt(digits) <= 59 <=> digits[1] <= 5
  <2>1. digits[1] \in 0 .. 9 /\ digits[2] \in 0 .. 9
    BY <1>2, TwoDigits DEF Digits
  <2>2. StringViewToInt(digits) = 10 * digits[1] + digits[2]
    BY <1>2, TwoDigits
  <2>3. \A a, b \in 0 .. 9 : 10 * a + b <= 59 <=> a <= 5
    OBVIOUS
  <2> QED  BY <2>1, <2>2, <2>3
<1>3. StringViewToInt(<<>>) = 0
  <2>1. <<>> \in Seq(Digits)
    OBVIOUS
  <2> QED  BY <2>1, TwoDigits
<1>4. \A digits \in Seq(Digits) : Len(digits) = 0 <=> digits = <<>>
  BY EmptySeq
<1>5. Len(clock.minutes) = 2 => (StringViewToInt(clock.minutes) <= 59 <=> clock.minutes[1] <= 5)
  BY <1>1, <1>2
<1>6. Len(clock.seconds) = 2 => (StringViewToInt(clock.seconds) <= 59 <=> clock.seconds[1] <= 5)
  BY <1>1, <1>2
<1>7. clock.seconds = <<>> => StringViewToInt(clock.seconds) <= 59
  BY <1>3
<1>8. Len(clock.seconds) \in {0, 2} <=> clock.seconds = <<>> \/ Len(clock.seconds) = 2
  BY <1>1, <1>4
<1> QED  BY <1>5, <1>6, <1>7, <1>8 DEF IsClock

\* The three forms of a time are those the regular expressions let through.
LEMMA FormsOfTimes ==
  ASSUME NEW string \in Strings
  PROVE  IsTime(string) <=> IsSun(string) \/ IsSunOffset(string) \/ IsPlainClock(string)
<1>1. string.sign \in {"+", "-", ""} /\ string.clock \in Clocks \cup {NoClock}
  BY DEF Strings
<1>2. CASE string.clock = NoClock
  BY <1>1, <1>2 DEF IsTime, IsSun, IsSunOffset, IsPlainClock, MatchesClock, SUN
<1>3. CASE string.clock # NoClock
  <2>1. string.clock \in Clocks
    BY <1>1, <1>3
  <2> DEFINE matches == MatchesClock(string)
  <2>2. matches <=> /\ string.clock.hours # <<>>
                    /\ Len(string.clock.minutes) = 2 /\ string.clock.minutes[1] <= 5
                    /\ \/ string.clock.seconds = <<>>
                       \/ Len(string.clock.seconds) = 2 /\ string.clock.seconds[1] <= 5
    BY <1>3, <2>1, ClockRanges DEF MatchesClock
  <2>3. IsTime(string) <=> /\ string.sun \in SUN \cup {""}
                           /\ ~ (string.sign = "" /\ string.sun # "")
                           /\ string.sign # "" => string.sun # ""
                           /\ matches
    BY <1>3, <2>2 DEF IsTime
  <2>4. /\ IsSunOffset(string) <=> matches /\ string.sign \in {"+", "-"} /\ string.sun \in SUN
        /\ IsPlainClock(string) <=> matches /\ string.sign = "" /\ string.sun = ""
        /\ ~ IsSun(string)
    BY <1>3 DEF IsSunOffset, IsPlainClock, IsSun
  <2> HIDE DEF matches
  <2> QED  BY <1>1, <2>3, <2>4 DEF SUN
<1> QED  BY <1>2, <1>3

\* The seconds of a clock, with exact numbers.
ExactSeconds(clock) ==
  Hour * DecimalValue(clock.hours) + Minute * DecimalValue(clock.minutes)
  + DecimalValue(clock.seconds)

LEMMA ClockTimeIsExact ==
  ASSUME NEW clock \in Clocks, IsClock(clock)
  PROVE  /\ ClockTime(clock) \in TimeOfDay /\ ExactSeconds(clock) \in Int
         /\ DecimalValue(clock.hours) < IntSize => ClockTime(clock) = FromSeconds(ExactSeconds(clock))
<1>1. clock.hours \in Seq(Digits) /\ clock.minutes \in Seq(Digits) /\ clock.seconds \in Seq(Digits)
  BY DEF Clocks
<1> DEFINE h == StringViewToInt(clock.hours)
           m == StringViewToInt(clock.minutes)
           s == StringViewToInt(clock.seconds)
           eh == DecimalValue(clock.hours)
           em == DecimalValue(clock.minutes)
           es == DecimalValue(clock.seconds)
<1>2. h \in Nat /\ m \in Nat /\ s \in Nat /\ eh \in Nat /\ em \in Nat /\ es \in Nat
  BY <1>1, ReadingIsExact
<1>3. m = em
  BY <1>1, TwoDigits DEF IsClock
<1>4. s = es
  <2>1. clock.seconds = <<>> \/ Len(clock.seconds) = 2
    BY <1>1, EmptySeq DEF IsClock
  <2> QED  BY <1>1, <2>1, TwoDigits
<1>5. eh < IntSize => h = eh
  BY <1>1, ReadingIsExact
<1>6. /\ ClockTime(clock) = FromSeconds(h * Hour + s + m * Minute)
      /\ ExactSeconds(clock) = Hour * eh + Minute * em + es
  BY DEF ClockTime, ExactSeconds
<1> HIDE DEF h, m, s, eh, em, es
<1>7. Hour \in Nat /\ Minute \in Nat
  BY TimeStringsAssumption
<1>8. /\ h * Hour \in Nat /\ m * Minute \in Nat /\ Hour * eh \in Nat /\ Minute * em \in Nat
      /\ m * Minute = Minute * m /\ h * Hour = Hour * h
  BY <1>2, <1>7
<1>9. ClockTime(clock) \in TimeOfDay
  BY <1>2, <1>6, <1>8, FromSecondsType
<1>10. ExactSeconds(clock) \in Int
  BY <1>2, <1>6, <1>8
<1>11. ASSUME eh < IntSize PROVE h * Hour + s + m * Minute = Hour * eh + Minute * em + es
  <2>1. h * Hour = Hour * eh /\ m * Minute = Minute * em
    BY <1>3, <1>5, <1>8, <1>11
  <2> QED  BY <1>2, <1>4, <1>8, <2>1
<1> QED  BY <1>6, <1>9, <1>10, <1>11 DEF eh

\* Every time one may write is read, as what it says, and nothing else is.
THEOREM TimesAreRead ==
  ASSUME NEW string \in Strings
  PROVE  /\ IsTime(string) => TimeStringToTime(string, solarDay) \in TimeOfDay
         /\ IsTime(string) /\ HoursFit(string)
              => TimeStringToTime(string, solarDay) = ExactTime(string)
         /\ ~ IsTime(string) => TimeStringToTime(string, solarDay) = Unreadable
<1> DEFINE time == TimeStringToTime(string, solarDay)
           clock == string.clock
<1>0. solarDay \in [SUN -> TimeOfDay] /\ Day \in Nat \ {0} /\ TimeOfDay \subseteq Int
  BY ParserAssumption, DayAssumption DEF TimeOfDay
<1>1. clock \in Clocks \cup {NoClock} /\ string.sign \in {"+", "-", ""}
  BY DEF Strings
<1>2. CASE IsSun(string)
  <2>1. /\ time = solarDay[string.sun] /\ string.sun \in SUN /\ string.sun # ""
        /\ string.sign = "" /\ clock = NoClock
    <3>0. ~ IsSunOffset(string) /\ ~ IsPlainClock(string)
      BY <1>2 DEF IsSun, IsSunOffset, IsPlainClock, MatchesClock
    <3>1. time = solarDay[string.sun]
      BY <1>2, <3>0 DEF TimeStringToTime
    <3>2. string.sun \in SUN /\ string.sign = "" /\ clock = NoClock
      BY <1>2 DEF IsSun
    <3> QED  BY <3>1, <3>2 DEF SUN
  <2>2. time \in TimeOfDay
    BY <1>0, <2>1
  <2>3. ExactTime(string) = Plus(solarDay[string.sun], 0)
    BY <2>1 DEF ExactTime
  <2>4. Plus(solarDay[string.sun], 0) = time
    <3>1. solarDay[string.sun] \in TimeOfDay /\ solarDay[string.sun] = time
      BY <2>1, <2>2
    <3> HIDE DEF time
    <3>2. FromSeconds(Day * 0 + time) = time
      BY <2>2, RemainderIsUnique
    <3>3. Day * 0 + time = time + 0
      BY <1>0, <2>2
    <3> QED  BY <3>1, <3>2, <3>3 DEF Plus
  <2> QED  BY <1>2, <2>2, <2>3, <2>4, FormsOfTimes
<1>3. CASE IsSunOffset(string)
  <2>1. /\ string.sign \in {"+", "-"} /\ string.sun \in SUN /\ string.sun # ""
        /\ clock \in Clocks /\ clock # NoClock /\ IsClock(clock)
    BY <1>1, <1>3 DEF IsSunOffset, MatchesClock, SUN
  <2>2. ~ IsSun(string) /\ time = SunOffset(string, solarDay)
    <3>1. ~ IsSun(string) /\ ~ IsPlainClock(string)
      BY <2>1 DEF IsSun, IsPlainClock
    <3> QED  BY <1>3, <3>1 DEF TimeStringToTime
  <2> DEFINE base == solarDay[string.sun]
             offset == ExactSeconds(clock)
             read == ClockTime(clock)
  <2>3. base \in TimeOfDay
    BY <1>0, <2>1
  <2>4. /\ read \in TimeOfDay /\ offset \in Int
        /\ HoursFit(string) => read = FromSeconds(offset)
    BY <2>1, ClockTimeIsExact DEF HoursFit
  <2>5. time = IF string.sign = "+" THEN Plus(base, read) ELSE Minus(base, read)
    BY <2>2 DEF SunOffset
  <2>6. ExactTime(string) = IF string.sign = "-" THEN Minus(base, offset) ELSE Plus(base, offset)
    BY <2>1 DEF ExactTime, ExactSeconds
  <2> HIDE DEF time, base, read, offset
  <2>7. base \in Int /\ read \in Int
    BY <1>0, <2>3, <2>4
  <2>8. time \in TimeOfDay
    <3>1. base + read \in Int /\ base - read \in Int
      BY <2>7
    <3> QED  BY <2>5, <3>1, FromSecondsType DEF Plus, Minus
  <2>9. HoursFit(string) => time = ExactTime(string)
    <3>1. HoursFit(string) => /\ Plus(base, read) = Plus(base, offset)
                              /\ Minus(base, read) = Minus(base, offset)
      BY <2>4, <2>7, OffsetsReduce DEF Plus, Minus
    <3> QED  BY <2>1, <2>5, <2>6, <3>1
  <2> QED  BY <1>3, <2>8, <2>9, FormsOfTimes DEF time
<1>4. CASE IsPlainClock(string)
  <2>1. /\ string.sign = "" /\ string.sun = ""
        /\ clock \in Clocks /\ clock # NoClock /\ IsClock(clock)
    BY <1>1, <1>4 DEF IsPlainClock, MatchesClock
  <2>2. time = ClockTime(clock)
    BY <1>4, <2>1 DEF IsSun, IsSunOffset, SUN, TimeStringToTime
  <2>3. ExactTime(string) = Plus(0, ExactSeconds(clock))
    BY <2>1 DEF ExactTime, ExactSeconds
  <2>4. /\ time \in TimeOfDay /\ ExactSeconds(clock) \in Int
        /\ HoursFit(string) => time = FromSeconds(ExactSeconds(clock))
    BY <2>1, <2>2, ClockTimeIsExact DEF HoursFit
  <2>5. Plus(0, ExactSeconds(clock)) = FromSeconds(ExactSeconds(clock))
    BY <2>4 DEF Plus
  <2> QED  BY <1>4, <2>3, <2>4, <2>5, FormsOfTimes
<1>5. CASE ~ (IsSun(string) \/ IsSunOffset(string) \/ IsPlainClock(string))
  BY <1>5, FormsOfTimes DEF TimeStringToTime
<1> QED  BY <1>2, <1>3, <1>4, <1>5

\* A list of strings is read as the list of their times, or not at all.
LEMMA ListsAreRead ==
  ASSUME NEW strings \in Seq(Strings)
  PROVE  LET times == TimeStringsToTimes(strings, solarDay)
         IN  /\ (\A i \in DOMAIN strings : IsTime(strings[i])) <=> times # Unreadable
             /\ times # Unreadable =>
                  /\ times \in Seq(TimeOfDay) /\ Len(times) = Len(strings)
                  /\ \A i \in DOMAIN times : times[i] = TimeStringToTime(strings[i], solarDay)
<1> DEFINE n == Len(strings)
           read(i) == TimeStringToTime(strings[i], solarDay)
           times == [i \in DOMAIN strings |-> read(i)]
<1>1. n \in Nat /\ DOMAIN strings = 1 .. n /\ \A i \in 1 .. n : strings[i] \in Strings
  OBVIOUS
<1>2. \A i \in 1 .. n : IF IsTime(strings[i]) THEN read(i) \in TimeOfDay ELSE read(i) = Unreadable
  BY <1>1, TimesAreRead
<1>3. TimeStringsToTimes(strings, solarDay) =
        IF Unreadable \in Range(times) THEN Unreadable ELSE times
  BY DEF TimeStringsToTimes
<1> HIDE DEF n, read
<1>4. Unreadable \notin TimeOfDay /\ Unreadable \notin Seq(TimeOfDay)
  BY TimeStringsAssumption
<1>5. CASE \A i \in DOMAIN strings : IsTime(strings[i])
  <2>1. \A i \in 1 .. n : times[i] \in TimeOfDay /\ times[i] = read(i)
    BY <1>1, <1>2, <1>5
  <2>2. Unreadable \notin Range(times)
    BY <1>1, <1>4, <2>1 DEF Range
  <2>3. times \in [1 .. n -> TimeOfDay]
    BY <1>1, <2>1
  <2>4. times \in Seq(TimeOfDay) /\ Len(times) = n
    BY <1>1, <2>3, LenProperties, SeqDef
  <2> HIDE DEF times
  <2>5. DOMAIN times = 1 .. n
    BY <2>3
  <2> QED  BY <1>3, <1>4, <1>5, <2>1, <2>2, <2>4, <2>5 DEF n, read
<1>6. CASE ~ \A i \in DOMAIN strings : IsTime(strings[i])
  <2>1. PICK i \in 1 .. n : times[i] = Unreadable
    BY <1>1, <1>2, <1>6
  <2>2. Unreadable \in Range(times)
    BY <1>1, <2>1 DEF Range
  <2> QED  BY <1>3, <1>6, <2>2
<1> QED  BY <1>5, <1>6

-------------------------------------------------------------------------------
(* The fields. *)

\* The ParsingInfo the keys read so far make, in whatever order they were read.
FieldsRead ==
  [key \in Keys |-> IF key \in DOMAIN file \ remaining THEN Value(key, file[key]) ELSE None]

\* The constructor of the transition fails its assertion.
Fails(info) == IsDynamic(info) /\ DynamicError(info) = None /\ TransitionAsserts(info)

\* What createBackgroundSetFromInfo returns.
Created(info) ==
  CASE info["type"] = None -> Error("NoType")
    [] IsDynamic(info) -> CreateDynamic(info)
    [] OTHER -> CreateStatic(info)

\* The fields are those of the keys that were read, none of which throws; the end is
\* decided by the fields alone.
ParserInv ==
  /\ file \in Files
  /\ remaining \subseteq DOMAIN file
  /\ pc \in {"reading", "done", "terminated"}
  /\ parsingInfo = FieldsRead
  /\ \A key \in DOMAIN file \ remaining : ~ Throws(key, file[key])
  /\ pc = "done" => remaining = {} /\ ~ Fails(parsingInfo) /\ result = Created(parsingInfo)
  /\ pc = "terminated" => Malformed \/ (remaining = {} /\ Fails(parsingInfo))

LEMMA InvInitially == Init => ParserInv
  BY DEF Init, ParserInv, FieldsRead

LEMMA ReadFieldKeepsInv ==
  ASSUME ParserInv, NEW key \in Keys, ReadField(key)
  PROVE  ParserInv'
<1>1. /\ pc = "reading" /\ key \in remaining /\ ~ Throws(key, file[key])
      /\ remaining' = remaining \ {key}
      /\ parsingInfo' = [parsingInfo EXCEPT ![key] = Value(key, file[key])]
      /\ file' = file /\ pc' = pc
  BY DEF ReadField
<1>2. /\ file \in Files /\ remaining \subseteq DOMAIN file /\ parsingInfo = FieldsRead
      /\ \A k \in DOMAIN file \ remaining : ~ Throws(k, file[k])
  BY DEF ParserInv
<1>3. DOMAIN file \ remaining' = (DOMAIN file \ remaining) \cup {key}
  BY <1>1, <1>2
<1>4. parsingInfo' = FieldsRead'
  BY <1>1, <1>2, <1>3 DEF FieldsRead
<1>5. \A k \in DOMAIN file \ remaining' : ~ Throws(k, file[k])
  BY <1>1, <1>2, <1>3
<1>6. \A k \in DOMAIN file' \ remaining' : ~ Throws(k, file'[k])
  BY <1>1, <1>5
<1> QED  BY <1>1, <1>2, <1>4, <1>6 DEF ParserInv

LEMMA StepsKeepInv == ParserInv /\ [Next]_vars => ParserInv'
<1> SUFFICES ASSUME ParserInv, [Next]_vars PROVE ParserInv'
  OBVIOUS
<1>1. ASSUME NEW key \in Keys, ReadField(key) PROVE ParserInv'
  BY <1>1, ReadFieldKeepsInv
<1>2. ASSUME NEW key \in Keys, ThrowOnField(key) PROVE ParserInv'
  <2>1. /\ key \in remaining /\ Throws(key, file[key]) /\ pc' = "terminated"
        /\ file' = file /\ remaining' = remaining /\ parsingInfo' = parsingInfo
    BY <1>2 DEF ThrowOnField
  <2>2. Malformed'
    BY <2>1 DEF ParserInv, Malformed
  <2> QED  BY <2>1, <2>2 DEF ParserInv, FieldsRead
<1>3. CASE FailToCreate
  BY <1>3 DEF FailToCreate, ParserInv, FieldsRead, Fails
<1>4. CASE Create
  <2>1. /\ remaining = {} /\ ~ Fails(parsingInfo) /\ pc' = "done"
        /\ result' = Created(parsingInfo)
        /\ file' = file /\ remaining' = remaining /\ parsingInfo' = parsingInfo
    BY <1>4 DEF Create, Fails, Created
  <2> QED  BY <2>1 DEF ParserInv, FieldsRead
<1>5. CASE UNCHANGED vars
  BY <1>5 DEF vars, ParserInv, FieldsRead, Malformed
<1> QED  BY <1>1, <1>2, <1>3, <1>4, <1>5 DEF Next

LEMMA AlwaysParserInv == Spec => []ParserInv
<1> QED  BY InvInitially, StepsKeepInv, PTL DEF Spec

-------------------------------------------------------------------------------
(* What the fields say of the file. *)

LEMMA ShapesOfNodes ==
  ASSUME NEW key \in Keys, NEW node \in Nodes(key)
  PROVE  /\ node.shape \in {"scalar", "sequence", "deep", "map"}
         /\ node.shape = "scalar" => node = Scalar(node.text) /\ node.text \in Texts(key)
         /\ node.shape = "sequence" =>
              node.entries \in Seq(IF key = "times" THEN Strings ELSE STRING)
<1>1. CASE node \in [shape : {"scalar"}, text : Texts(key)]
  BY <1>1 DEF Scalar
<1>2. CASE node \in [shape : {"sequence"}, entries : Seq(IF key = "times" THEN Strings ELSE STRING)]
  BY <1>2
<1>3. CASE node \in {DeepSequence, Map}
  BY <1>3 DEF DeepSequence, Map
<1> QED  BY <1>1, <1>2, <1>3 DEF Nodes

\* Once every key is read, each field is that of its node.
LEMMA FieldsAreValues ==
  ASSUME ParserInv, remaining = {}, NEW key \in Keys
  PROVE  IF key \in DOMAIN file
         THEN /\ parsingInfo[key] = Value(key, file[key]) /\ ~ Throws(key, file[key])
              /\ file[key].shape \in {"scalar", "sequence", "deep", "map"}
              /\ file[key].shape = "scalar" =>
                   file[key] = Scalar(file[key].text) /\ file[key].text \in Texts(key)
              /\ file[key].shape = "sequence" =>
                   file[key].entries \in Seq(IF key = "times" THEN Strings ELSE STRING)
         ELSE parsingInfo[key] = None
<1>1. /\ parsingInfo[key] = IF key \in DOMAIN file THEN Value(key, file[key]) ELSE None
      /\ key \in DOMAIN file => ~ Throws(key, file[key])
  BY DEF ParserInv, FieldsRead
<1>2. key \in DOMAIN file => file[key] \in Nodes(key)
  BY ParserAssumption DEF ParserInv
<1> QED  BY <1>1, <1>2, ShapesOfNodes

LEMMA NoneIsNew ==
  /\ None \notin STRING /\ None \notin Int /\ None # Garbage
  /\ None \notin Seq(STRING) /\ None \notin Seq(Strings)
  /\ Garbage \notin STRING /\ Garbage \notin Int
  /\ {None, Garbage} \cap {"static", "dynamic", "linear", "random"} = {}
  BY ParserAssumption DEF Words

LEMMA FieldsOfTheFile ==
  ASSUME ParserInv, remaining = {}
  PROVE  /\ parsingInfo["type"] \in {None, "static", "dynamic"}
         /\ \A type \in {"static", "dynamic"} : IsOfType(type) <=> parsingInfo["type"] = type
         /\ IF Has("images", "sequence")
            THEN parsingInfo["images"] = file["images"].entries /\ parsingInfo["images"] \in Seq(STRING)
            ELSE parsingInfo["images"] = None
         /\ IF Has("times", "sequence")
            THEN parsingInfo["times"] = file["times"].entries /\ parsingInfo["times"] \in Seq(Strings)
            ELSE parsingInfo["times"] \in {None, <<>>}
         /\ Has("image_directory", "scalar") <=> parsingInfo["image_directory"] # None
         /\ Has("image", "scalar") <=> parsingInfo["image"] # None
         /\ parsingInfo["order"] \in {None, "linear", "random"}
         /\ parsingInfo["in_place"] \in BOOLEAN \cup {None}
         /\ \A key \in NumberKeys :
              IF Has(key, "scalar")
              THEN file[key].text \in Int /\ parsingInfo[key] = Unsigned(file[key].text)
              ELSE parsingInfo[key] = None
<1> USE NoneIsNew
<1>1. /\ parsingInfo["type"] \in {None, "static", "dynamic"}
      /\ \A type \in {"static", "dynamic"} : IsOfType(type) <=> parsingInfo["type"] = type
  <2>1. "type" \in Keys
    BY DEF Keys, EnumKeys
  <2>2. CASE "type" \notin DOMAIN file
    BY <2>1, <2>2, FieldsAreValues DEF IsOfType
  <2>3. CASE "type" \in DOMAIN file
    <3>1. /\ file["type"] = Scalar(file["type"].text)
          /\ file["type"].text \in {"static", "dynamic", Garbage}
          /\ parsingInfo["type"] = IF file["type"].text = Garbage THEN None ELSE file["type"].text
      BY <2>1, <2>3, FieldsAreValues DEF Throws, Value, Texts, NumberKeys
    <3>2. \A a, b : Scalar(a) = Scalar(b) <=> a = b
      <4>1. \A a : Scalar(a).text = a
        BY DEF Scalar
      <4> QED  BY <4>1
    <3> HIDE DEF Scalar
    <3> QED  BY <2>3, <3>1, <3>2 DEF IsOfType
  <2> QED  BY <2>2, <2>3
<1>2. IF Has("images", "sequence")
      THEN parsingInfo["images"] = file["images"].entries /\ parsingInfo["images"] \in Seq(STRING)
      ELSE parsingInfo["images"] = None
  <2>1. "images" \in Keys
    BY DEF Keys, ListKeys
  <2> QED  BY <2>1, FieldsAreValues DEF Throws, Value, Has, NumberKeys
<1>3. IF Has("times", "sequence")
      THEN parsingInfo["times"] = file["times"].entries /\ parsingInfo["times"] \in Seq(Strings)
      ELSE parsingInfo["times"] \in {None, <<>>}
  <2>1. "times" \in Keys
    BY DEF Keys, ListKeys
  <2> QED  BY <2>1, FieldsAreValues DEF Throws, Value, Has, NumberKeys, EntriesOf
<1>4. Has("image_directory", "scalar") <=> parsingInfo["image_directory"] # None
  <2>1. "image_directory" \in Keys /\ Texts("image_directory") = STRING
    BY DEF Keys, Texts, NumberKeys
  <2> QED  BY <2>1, FieldsAreValues DEF Throws, Value, Has, NumberKeys
<1>5. Has("image", "scalar") <=> parsingInfo["image"] # None
  <2>1. "image" \in Keys /\ Texts("image") = STRING
    BY DEF Keys, Texts, NumberKeys
  <2> QED  BY <2>1, FieldsAreValues DEF Throws, Value, Has, NumberKeys
<1>6. parsingInfo["order"] \in {None, "linear", "random"}
  <2>1. "order" \in Keys /\ Texts("order") = {"linear", "random", Garbage}
    BY DEF Keys, EnumKeys, Texts, NumberKeys
  <2> QED  BY <2>1, FieldsAreValues DEF Throws, Value, NumberKeys
<1>7. parsingInfo["in_place"] \in BOOLEAN \cup {None}
  <2>1. "in_place" \in Keys /\ Texts("in_place") = BOOLEAN \cup {Garbage}
    BY DEF Keys, EnumKeys, Texts, NumberKeys
  <2>2. CASE "in_place" \notin DOMAIN file
    BY <2>1, <2>2, FieldsAreValues
  <2>3. CASE "in_place" \in DOMAIN file
    <3>1. ~ Throws("in_place", file["in_place"])
          /\ parsingInfo["in_place"] = Value("in_place", file["in_place"])
      BY <2>1, <2>3, FieldsAreValues
    <3>2. /\ file["in_place"].shape = "scalar"
          /\ parsingInfo["in_place"] = IF file["in_place"].text = Garbage THEN None
                                       ELSE file["in_place"].text
      BY <3>1 DEF Throws, Value, NumberKeys
    <3>3. file["in_place"].text \in BOOLEAN \cup {Garbage}
      BY <2>1, <2>3, <3>2, FieldsAreValues
    <3> QED  BY <3>2, <3>3, Zenon
  <2> QED  BY <2>2, <2>3
<1>8. ASSUME NEW key \in NumberKeys
      PROVE  IF Has(key, "scalar")
             THEN file[key].text \in Int /\ parsingInfo[key] = Unsigned(file[key].text)
             ELSE parsingInfo[key] = None
  <2>1. key \in Keys /\ Texts(key) = Int \cup {Garbage}
    BY <1>8 DEF Keys, NumberKeys, Texts
  <2>2. CASE key \notin DOMAIN file
    BY <2>1, <2>2, FieldsAreValues DEF Has
  <2>3. CASE key \in DOMAIN file
    <3>1. ~ Throws(key, file[key]) /\ parsingInfo[key] = Value(key, file[key])
      BY <2>1, <2>3, FieldsAreValues
    <3>2. /\ file[key].shape = "scalar" /\ file[key].text # Garbage
          /\ parsingInfo[key] = Unsigned(file[key].text)
      BY <1>8, <3>1 DEF Throws, Value, NumberKeys
    <3>3. file[key].text \in Int \cup {Garbage}
      BY <2>1, <2>3, <3>2, FieldsAreValues
    <3> QED  BY <2>3, <3>2, <3>3 DEF Has
  <2> QED  BY <2>2, <2>3
<1> HIDE NoneIsNew
<1> QED  BY <1>1, <1>2, <1>3, <1>4, <1>5, <1>6, <1>7, <1>8

-------------------------------------------------------------------------------
(* The outcome. *)

LEMMA NumbersAreUnsigned ==
  ASSUME NEW number \in Int
  PROVE  /\ Unsigned(number) \in 0 .. MaxUnsigned
         /\ Unsigned(number) = 0 <=> number = 0
  BY ParserAssumption DEF Unsigned

\* A dynamic set passes every check exactly if it is complete.
LEMMA DynamicIfComplete ==
  ASSUME ParserInv, remaining = {}
  PROVE  /\ IsDynamic(parsingInfo) /\ DynamicError(parsingInfo) = None
              <=> Complete /\ IsOfType("dynamic")
         /\ IsDynamic(parsingInfo) /\ DynamicError(parsingInfo) = None =>
              /\ Has("images", "sequence") /\ Has("times", "sequence")
              /\ parsingInfo["images"] # <<>> /\ parsingInfo["times"] # <<>>
              /\ TimeStringsToTimes(parsingInfo["times"], solarDay) # Unreadable
<1> DEFINE info == parsingInfo
           images == info["images"]
           times == info["times"]
           directory == info["image_directory"]
           read == TimeStringsToTimes(times, solarDay)
<1>1. {"NoImages", "NoImageDirectory", "NoTimes", "BadTimes"} \cap {None} = {}
  BY ParserAssumption DEF Words
<1>2. DynamicError(info) = None <=> /\ images \notin {None, <<>>} /\ directory # None
                                    /\ times \notin {None, <<>>} /\ read # Unreadable
  <2>1. DynamicError(info) = IF images \in {None, <<>>} THEN "NoImages"
                             ELSE IF directory = None THEN "NoImageDirectory"
                             ELSE IF times \in {None, <<>>} THEN "NoTimes"
                             ELSE IF read = Unreadable THEN "BadTimes" ELSE None
    BY DEF DynamicError
  <2> HIDE DEF images, directory, times, read
  <2> QED  BY <1>1, <2>1
<1>3. Has("images", "sequence") => images = file["images"].entries /\ images # None
  BY FieldsOfTheFile, NoneIsNew
<1>4. ~ Has("images", "sequence") => images = None
  BY FieldsOfTheFile
<1>5. Has("times", "sequence") =>
        times = file["times"].entries /\ times \in Seq(Strings) /\ times # None
  BY FieldsOfTheFile, NoneIsNew
<1>6. ~ Has("times", "sequence") => times \in {None, <<>>}
  BY FieldsOfTheFile
<1>7. Has("image_directory", "scalar") <=> directory # None
  BY FieldsOfTheFile
<1>8. IsDynamic(info) <=> IsOfType("dynamic")
  BY FieldsOfTheFile DEF IsDynamic
<1>9. IsOfType("dynamic") => ~ IsOfType("static")
  <2>1. IsOfType("dynamic") <=> info["type"] = "dynamic"
    BY FieldsOfTheFile
  <2>2. IsOfType("static") <=> info["type"] = "static"
    BY FieldsOfTheFile
  <2> QED  BY <2>1, <2>2
<1>10. Has("times", "sequence") =>
         ((\A string \in Range(file["times"].entries) : IsTime(string)) <=> read # Unreadable)
  <2> SUFFICES ASSUME Has("times", "sequence")
               PROVE  (\A string \in Range(times) : IsTime(string)) <=> read # Unreadable
    BY <1>5
  <2>1. times \in Seq(Strings)
    BY <1>5
  <2> HIDE DEF times
  <2>2. (\A i \in DOMAIN times : IsTime(times[i])) <=> read # Unreadable
    BY <2>1, ListsAreRead
  <2>3. (\A string \in Range(times) : IsTime(string)) <=> \A i \in DOMAIN times : IsTime(times[i])
    BY DEF Range
  <2> QED  BY <2>2, <2>3
<1> HIDE DEF info, images, times, directory, read
<1>11. Complete /\ IsOfType("dynamic") <=>
         /\ IsOfType("dynamic") /\ Has("image_directory", "scalar")
         /\ Has("images", "sequence") /\ images # <<>>
         /\ Has("times", "sequence") /\ times # <<>> /\ read # Unreadable
  BY <1>3, <1>5, <1>9, <1>10 DEF Complete
<1>12. IsDynamic(info) /\ DynamicError(info) = None <=> Complete /\ IsOfType("dynamic")
  BY <1>2, <1>3, <1>4, <1>5, <1>6, <1>7, <1>8, <1>11
<1> QED  BY <1>11, <1>12 DEF info, images, times, read

\* The transition of a dynamic set ends the program exactly if it has no length.
LEMMA FailsIfZeroLength ==
  ASSUME ParserInv, remaining = {}
  PROVE  Fails(parsingInfo) <=> ZeroLength
<1>1. TransitionAsserts(parsingInfo) <=>
        /\ Has("transition_length", "scalar") /\ file["transition_length"].text = 0
        /\ ~ Has("number_transition_steps", "scalar")
  <2>1. "transition_length" \in NumberKeys /\ "number_transition_steps" \in NumberKeys
    BY DEF NumberKeys
  <2> DEFINE length == parsingInfo["transition_length"]
             steps == parsingInfo["number_transition_steps"]
  <2>2. /\ Has("transition_length", "scalar") =>
             /\ file["transition_length"].text \in Int
             /\ length = Unsigned(file["transition_length"].text)
        /\ ~ Has("transition_length", "scalar") => length = None
    BY <2>1, FieldsOfTheFile
  <2>3. /\ Has("number_transition_steps", "scalar") =>
             /\ file["number_transition_steps"].text \in Int
             /\ steps = Unsigned(file["number_transition_steps"].text)
        /\ ~ Has("number_transition_steps", "scalar") => steps = None
    BY <2>1, FieldsOfTheFile
  <2>4. TransitionAsserts(parsingInfo) <=> length = 0 /\ steps = None
    BY DEF TransitionAsserts, Duration, Steps
  <2> HIDE DEF length, steps
  <2>5. length = 0 <=> Has("transition_length", "scalar") /\ file["transition_length"].text = 0
    BY <2>2, NoneIsNew, NumbersAreUnsigned
  <2>6. steps = None <=> ~ Has("number_transition_steps", "scalar")
    <3>1. ASSUME Has("number_transition_steps", "scalar") PROVE steps \in Int
      BY <2>3, <3>1, NumbersAreUnsigned
    <3> QED  BY <2>3, <3>1, NoneIsNew
  <2> QED  BY <2>4, <2>5, <2>6
<1> QED  BY <1>1, DynamicIfComplete DEF Fails, ZeroLength

\* What is created is a set exactly if the file is complete.
LEMMA CreatedIfComplete ==
  ASSUME ParserInv, remaining = {}
  PROVE  /\ Created(parsingInfo).kind \in {"error", "static", "dynamic"}
         /\ Created(parsingInfo).kind # "error" <=> Complete
         /\ Created(parsingInfo).kind = "dynamic" =>
              /\ IsDynamic(parsingInfo) /\ DynamicError(parsingInfo) = None
              /\ Created(parsingInfo) = DynamicSet(parsingInfo)
<1> DEFINE info == parsingInfo
<1>1. /\ info["type"] \in {None, "static", "dynamic"} /\ None \notin {"static", "dynamic"}
      /\ IsOfType("static") <=> info["type"] = "static"
      /\ IsOfType("dynamic") <=> info["type"] = "dynamic"
  BY FieldsOfTheFile, NoneIsNew
<1>2. CASE info["type"] = None
  <2>1. Created(info) = Error("NoType") /\ ~ IsOfType("static") /\ ~ IsOfType("dynamic")
    BY <1>1, <1>2 DEF Created, IsDynamic
  <2> QED  BY <2>1 DEF Error, Complete
<1>3. CASE info["type"] = "dynamic"
  <2>1. Created(info) = CreateDynamic(info) /\ IsDynamic(info)
    BY <1>1, <1>3 DEF Created, IsDynamic
  <2>2. DynamicError(info) = None <=> Complete
    BY <1>1, <1>3, <2>1, DynamicIfComplete
  <2>3. CASE DynamicError(info) = None
    <3>1. Created(info) = DynamicSet(info)
      BY <2>1, <2>3 DEF CreateDynamic
    <3>2. DynamicSet(info).kind = "dynamic"
      BY DEF DynamicSet
    <3> QED  BY <2>1, <2>2, <2>3, <3>1, <3>2
  <2>4. CASE DynamicError(info) # None
    <3>1. Created(info) = Error(DynamicError(info))
      BY <2>1, <2>4 DEF CreateDynamic
    <3> QED  BY <2>2, <2>4, <3>1 DEF Error
  <2> QED  BY <2>3, <2>4
<1>4. CASE info["type"] = "static"
  <2>1. Created(info) = CreateStatic(info)
    BY <1>1, <1>4 DEF Created, IsDynamic
  <2>2. /\ Has("image_directory", "scalar") <=> info["image_directory"] # None
        /\ Has("image", "scalar") <=> info["image"] # None
    BY FieldsOfTheFile
  <2>3. Has("images", "sequence") <=> info["images"] # None
    BY FieldsOfTheFile, NoneIsNew
  <2>4. Complete <=> /\ info["image_directory"] # None
                     /\ info["images"] # None \/ info["image"] # None
    BY <1>1, <1>4, <2>2, <2>3 DEF Complete
  <2>5. /\ CreateStatic(info).kind \in {"error", "static"}
        /\ CreateStatic(info).kind # "error" <=>
             /\ info["image_directory"] # None
             /\ info["images"] # None \/ info["image"] # None
    BY DEF CreateStatic, StaticSet, Error
  <2> QED  BY <2>1, <2>4, <2>5
<1> QED  BY <1>1, <1>2, <1>3, <1>4

-------------------------------------------------------------------------------
(* The invariants. *)

LEMMA InvGivesTypes == ParserInv => TypeOK
<1> SUFFICES ASSUME ParserInv PROVE TypeOK
  OBVIOUS
<1>1. /\ file \in Files /\ remaining \subseteq DOMAIN file /\ parsingInfo = FieldsRead
      /\ \A key \in DOMAIN file \ remaining : ~ Throws(key, file[key])
  BY DEF ParserInv
<1>2. DOMAIN file \subseteq Keys /\ \A key \in DOMAIN file : file[key] \in Nodes(key)
  BY <1>1, ParserAssumption
<1>3. ASSUME NEW key \in NumberKeys
      PROVE  parsingInfo[key] = None \/ parsingInfo[key] \in 0 .. MaxUnsigned
  <2>1. key \in Keys /\ Texts(key) = Int \cup {Garbage}
    BY <1>3 DEF Keys, NumberKeys, Texts
  <2>2. CASE key \in DOMAIN file \ remaining
    <3>1. parsingInfo[key] = Value(key, file[key]) /\ ~ Throws(key, file[key])
      BY <1>1, <2>1, <2>2 DEF FieldsRead
    <3>2. /\ file[key].shape = "scalar" /\ file[key].text # Garbage
          /\ parsingInfo[key] = Unsigned(file[key].text)
      BY <1>3, <3>1 DEF Throws, Value, NumberKeys
    <3>3. file[key].text \in Int
      BY <1>2, <2>1, <2>2, <3>2, ShapesOfNodes
    <3> QED  BY <3>2, <3>3, NumbersAreUnsigned
  <2>3. CASE key \notin DOMAIN file \ remaining
    BY <1>1, <2>1, <2>3 DEF FieldsRead
  <2> QED  BY <2>2, <2>3
<1>4. ASSUME pc = "done" PROVE remaining = {} /\ result.kind \in {"error", "static", "dynamic"}
  BY <1>4, CreatedIfComplete DEF ParserInv
<1>5. /\ DOMAIN parsingInfo = Keys
      /\ \A key \in (Keys \ DOMAIN file) \cup remaining : parsingInfo[key] = None
  BY <1>1, <1>2 DEF FieldsRead
<1>6. pc \in {"reading", "done", "terminated"}
  BY DEF ParserInv
<1> QED  BY <1>1, <1>2, <1>3, <1>4, <1>5, <1>6 DEF TypeOK

LEMMA InvGivesOutcome == ParserInv => OutcomeFitsTheFile
<1> SUFFICES ASSUME ParserInv PROVE OutcomeFitsTheFile
  OBVIOUS
<1>1. ASSUME pc = "terminated" PROVE Malformed \/ ZeroLength
  BY <1>1, FailsIfZeroLength DEF ParserInv
<1>2. ASSUME pc = "done"
      PROVE  ~ Malformed /\ ~ ZeroLength /\ (result.kind # "error" <=> Complete)
  <2>1. /\ remaining = {} /\ ~ Fails(parsingInfo) /\ result = Created(parsingInfo)
        /\ \A key \in DOMAIN file : ~ Throws(key, file[key])
    BY <1>2 DEF ParserInv
  <2> QED  BY <2>1, FailsIfZeroLength, CreatedIfComplete DEF Malformed
<1> QED  BY <1>1, <1>2 DEF OutcomeFitsTheFile

\* What an accepted dynamic set is made of.
LEMMA AcceptedSets ==
  ASSUME ParserInv, Accepted("dynamic")
  PROVE  /\ remaining = {} /\ ~ TransitionAsserts(parsingInfo)
         /\ result = DynamicSet(parsingInfo)
         /\ parsingInfo["images"] \in Seq(STRING) /\ parsingInfo["images"] # <<>>
         /\ file["times"].entries \in Seq(Strings)
         /\ result.times \in Seq(TimeOfDay) /\ result.times # <<>>
         /\ Len(result.times) = Len(file["times"].entries)
         /\ \A i \in DOMAIN result.times :
              result.times[i] = TimeStringToTime(file["times"].entries[i], solarDay)
<1>1. /\ remaining = {} /\ ~ Fails(parsingInfo) /\ result = Created(parsingInfo)
      /\ result.kind = "dynamic"
  BY DEF ParserInv, Accepted
<1>2. /\ IsDynamic(parsingInfo) /\ DynamicError(parsingInfo) = None
      /\ result = DynamicSet(parsingInfo)
  BY <1>1, CreatedIfComplete
<1> DEFINE strings == file["times"].entries
           times == TimeStringsToTimes(strings, solarDay)
<1>3. /\ Has("images", "sequence") /\ Has("times", "sequence")
      /\ parsingInfo["images"] # <<>> /\ parsingInfo["times"] # <<>>
      /\ TimeStringsToTimes(parsingInfo["times"], solarDay) # Unreadable
  BY <1>1, <1>2, DynamicIfComplete
<1>4. /\ parsingInfo["images"] \in Seq(STRING)
      /\ parsingInfo["times"] = strings /\ strings \in Seq(Strings)
  BY <1>1, <1>3, FieldsOfTheFile
<1>5. result.times = times
  BY <1>2, <1>4 DEF DynamicSet
<1>6. times # Unreadable /\ strings # <<>>
  BY <1>3, <1>4
<1> HIDE DEF strings
<1>7. /\ times \in Seq(TimeOfDay) /\ Len(times) = Len(strings)
      /\ \A i \in DOMAIN times : times[i] = TimeStringToTime(strings[i], solarDay)
  BY <1>4, <1>6, ListsAreRead
<1>8. times # <<>>
  <2>1. Len(strings) # 0
    BY <1>4, <1>6, EmptySeq
  <2> HIDE DEF times
  <2> QED  BY <1>7, <2>1, EmptySeq
<1> QED  BY <1>1, <1>2, <1>3, <1>4, <1>5, <1>7, <1>8 DEF Fails, strings

LEMMA InvGivesBackgrounds == ParserInv => AcceptedDynamicIsBackground
<1> SUFFICES ASSUME ParserInv, Accepted("dynamic")
             PROVE  IsBackground([times |-> result.times, imageNames |-> result.imageNames,
                                  order |-> result.order, transition |-> result.transition])
  BY DEF AcceptedDynamicIsBackground
<1>1. /\ result.order = ValueOr(parsingInfo["order"], "linear")
      /\ result.imageNames = parsingInfo["images"]
      /\ result.transition = CreateTransition(parsingInfo)
  BY AcceptedSets DEF DynamicSet
<1>2. result.order \in {"linear", "random"}
  BY <1>1, AcceptedSets, FieldsOfTheFile DEF ValueOr
<1>3. CreateTransition(parsingInfo) \in Transitions \cup {NoTransition}
  <2> DEFINE length == Duration(parsingInfo)
             steps == ValueOr(Steps(parsingInfo), TransitionSteps)
             inPlace == ValueOr(parsingInfo["in_place"], FALSE)
  <2>1. \A key \in NumberKeys : parsingInfo[key] = None \/ parsingInfo[key] \in Nat
    BY InvGivesTypes DEF TypeOK
  <2>2. length = None \/ length \in Nat
    BY <2>1 DEF Duration, NumberKeys
  <2>3. steps \in Nat
    BY <2>1, ParserAssumption DEF Steps, ValueOr, NumberKeys
  <2>4. inPlace \in BOOLEAN
    <3>1. parsingInfo["in_place"] \in BOOLEAN \cup {None}
      BY AcceptedSets, FieldsOfTheFile
    <3> QED  BY <3>1, Zenon DEF ValueOr
  <2>5. CreateTransition(parsingInfo) =
          IF length \in {None, 0} THEN NoTransition
          ELSE [duration |-> length, steps |-> steps, inPlace |-> inPlace]
    BY DEF CreateTransition
  <2> HIDE DEF length, steps, inPlace
  <2> QED  BY <2>2, <2>3, <2>4, <2>5 DEF Transitions
<1> QED  BY <1>1, <1>2, <1>3, AcceptedSets DEF IsBackground

LEMMA InvGivesTimes == ParserInv => TimesAreWhatTheStringsSay
<1> SUFFICES ASSUME ParserInv, Accepted("dynamic")
             PROVE  /\ Len(result.times) = Len(file["times"].entries)
                    /\ \A i \in DOMAIN result.times :
                         HoursFit(file["times"].entries[i]) =>
                           result.times[i] = ExactTime(file["times"].entries[i])
  BY DEF TimesAreWhatTheStringsSay
<1> DEFINE strings == file["times"].entries
<1>1. /\ strings \in Seq(Strings) /\ result.times \in Seq(TimeOfDay)
      /\ Len(result.times) = Len(strings)
      /\ \A i \in DOMAIN result.times : /\ result.times[i] = TimeStringToTime(strings[i], solarDay)
                                        /\ result.times[i] \in TimeOfDay
  BY AcceptedSets
<1> HIDE DEF strings
<1>2. DOMAIN result.times = DOMAIN strings /\ \A i \in DOMAIN strings : strings[i] \in Strings
  BY <1>1
<1>3. \A i \in DOMAIN result.times :
        /\ strings[i] \in Strings
        /\ TimeStringToTime(strings[i], solarDay) # Unreadable
  BY <1>1, <1>2, TimeStringsAssumption
<1>4. \A i \in DOMAIN result.times : HoursFit(strings[i]) => result.times[i] = ExactTime(strings[i])
  BY <1>1, <1>3, TimesAreRead
<1> QED  BY <1>1, <1>4 DEF strings

\* The variables keep their types: fields not read are empty, and no number, however
\* negative or large it is written, exceeds an unsigned int.
THEOREM TypeCorrect == Spec => []TypeOK
<1> QED  BY AlwaysParserInv, InvGivesTypes, PTL

\* For every file, and every order its keys come in, a set is accepted exactly if it is
\* complete, and the program ends only over a field it cannot convert or a transition of
\* no length.
THEOREM OutcomeAlwaysFitsTheFile == Spec => []OutcomeFitsTheFile
<1> QED  BY AlwaysParserInv, InvGivesOutcome, PTL

\* Every dynamic set that is accepted is one the loop may assume.
THEOREM AcceptedDynamicIsAlwaysBackground == Spec => []AcceptedDynamicIsBackground
<1> QED  BY AlwaysParserInv, InvGivesBackgrounds, PTL

\* The times of every accepted set are those its strings say, with as many digits as one
\* likes, unless the hours do not fit in an int.
THEOREM TimesAreAlwaysWhatTheStringsSay == Spec => []TimesAreWhatTheStringsSay
<1> QED  BY AlwaysParserInv, InvGivesTimes, PTL

\* The fields of a file whose keys are all read.
AllFields == [key \in Keys |-> IF key \in DOMAIN file THEN Value(key, file[key]) ELSE None]

\* The unordered map may hand out its keys in any order: the set that is created depends
\* on the file alone.
THEOREM OrderOfKeysDoesNotMatter ==
  Spec => [](pc = "done" => ~ Malformed /\ result = Created(AllFields))
<1>1. ParserInv => (pc = "done" => ~ Malformed /\ result = Created(AllFields))
  BY DEF ParserInv, FieldsRead, AllFields, Malformed
<1> QED  BY <1>1, AlwaysParserInv, PTL

===============================================================================
