----------------------- MODULE CameraPipeline_proofs -----------------------
(***************************************************************************)
(* Proofs about a camera's pipeline and its tracker, for any scenes, frame *)
(* rates and behaviour of the source: one event announces each track,      *)
(* polling a frame again finds nothing new in it, an object that stays     *)
(* where it is keeps its track, and stop() leaves nothing at work.         *)
(*                                                                         *)
(* What the tracker's loops compute is proved by induction, on a list's    *)
(* length or on the number of pairs left to match, from the set of the     *)
(* numbers for which the claim holds (lemma Induction).                    *)
(***************************************************************************)
EXTENDS CameraPipeline, SequenceTheorems, FiniteSetTheorems, NaturalsInduction, TLAPS

-----------------------------------------------------------------------------
(* Lists *)

\* A set with 0 that holds k + 1 with every k holds all naturals.
LEMMA Induction ==
  ASSUME NEW S, 0 \in S, \A k \in Nat : k \in S => k + 1 \in S
  PROVE  Nat \subseteq S
<1> DEFINE Less == OpToRel(<, Nat)
           T == Nat \ S
<1>1. SUFFICES ASSUME T # {} PROVE FALSE
  OBVIOUS
<1>2. PICK x \in T : \A y \in T : ~(<<y, x>> \in Less)
  <2> HIDE DEF T, Less
  <2>1. T \subseteq Nat
    BY DEF T
  <2>2. IsWellFoundedOn(Less, Nat)
    BY NatLessThanWellFounded DEF Less
  <2>3. QED BY <1>1, <2>1, <2>2, WFMin
<1>3. x \in Nat /\ x # 0 /\ x - 1 \in Nat
  OBVIOUS
<1>4. x - 1 \in T
  BY <1>3
<1>5. <<x - 1, x>> \in Less
  BY <1>3 DEF OpToRel
<1>6. QED BY <1>2, <1>4, <1>5

\* What Select's loop has kept of the first i elements.
Kept(s, places, f, i) ==
  IF i = 0 THEN <<>> ELSE IF i \in places THEN Append(f[i - 1], s[i]) ELSE f[i - 1]

\* Its recursion has a value.
LEMMA KeptExists ==
  ASSUME NEW s, NEW places, NEW n \in Nat
  PROVE  \E f : f = [i \in 0..n |-> Kept(s, places, f, i)]
<1> DEFINE S == {m \in Nat : \E f : f = [i \in 0..m |-> Kept(s, places, f, i)]}
<1>1. 0 \in S
  <2> DEFINE f == [i \in 0..0 |-> <<>>]
  <2>1. f = [i \in 0..0 |-> Kept(s, places, f, i)]
    BY DEF Kept
  <2> HIDE DEF f
  <2>2. QED BY <2>1
<1>2. ASSUME NEW m \in Nat, m \in S PROVE m + 1 \in S
  <2>1. PICK f : f = [i \in 0..m |-> Kept(s, places, f, i)]
    BY <1>2
  <2> DEFINE g == [i \in 0..(m + 1) |-> IF i <= m THEN f[i] ELSE Kept(s, places, f, i)]
  <2>2. ASSUME NEW i \in 0..(m + 1) PROVE g[i] = Kept(s, places, g, i)
    <3>1. i # 0 => i - 1 \in 0..m /\ i - 1 \in 0..(m + 1) /\ g[i - 1] = f[i - 1]
      OBVIOUS
    <3>2. Kept(s, places, g, i) = Kept(s, places, f, i)
      BY <3>1 DEF Kept
    <3>3. CASE i <= m
      <4>1. i \in 0..m
        BY <3>3
      <4>2. f[i] = Kept(s, places, f, i)
        BY <2>1, <4>1
      <4>3. QED BY <3>2, <3>3, <4>2
    <3>4. CASE ~(i <= m)
      BY <3>2, <3>4
    <3>5. QED BY <3>3, <3>4
  <2>3. g = [i \in 0..(m + 1) |-> Kept(s, places, g, i)]
    BY <2>2
  <2> HIDE DEF g
  <2>4. QED BY <2>3
<1>3. n \in S
  <2> HIDE DEF S
  <2> QED BY <1>1, <1>2, Induction
<1>4. QED BY <1>3

\* o lists the places, n in number, each once.
Lists(o, n, places) ==
  /\ n \in Nat
  /\ o \in [1..n -> places]
  /\ \A j, k \in 1..n : o[j] = o[k] => j = k
  /\ \A i \in places : \E k \in 1..n : o[k] = i

\* A function on 1..n is a sequence.
LEMMA Listed ==
  ASSUME NEW X, NEW n \in Nat, NEW f \in [1..n -> X]
  PROVE  f \in Seq(X) /\ Len(f) = n
  OBVIOUS

\* Select puts the elements at the places one after the other, each once.
LEMMA Selected ==
  ASSUME NEW X, NEW s \in Seq(X), NEW places \in SUBSET (1..Len(s))
  PROVE  \E n, o : Lists(o, n, places) /\ Select(s, places) = [k \in 1..n |-> s[o[k]]]
<1> DEFINE N == Len(s)
           kept == CHOOSE f : f = [i \in 0..N |-> Kept(s, places, f, i)]
           Good(i, n, o) ==
             /\ n \in Nat
             /\ o \in [1..n -> places \cap 1..i]
             /\ \A k, l \in 1..n : o[k] = o[l] => k = l
             /\ \A j \in places \cap 1..i : \E k \in 1..n : o[k] = j
             /\ kept[i] = [k \in 1..n |-> s[o[k]]]
           S == {i \in Nat : i <= N => \E n, o : Good(i, n, o)}
<1>n. N \in Nat
  OBVIOUS
<1>1. Select(s, places) = kept[N]
  BY DEF Select, Kept
<1>2. kept = [i \in 0..N |-> Kept(s, places, kept, i)]
  BY <1>n, KeptExists
<1>3. ASSUME NEW i \in 0..N PROVE kept[i] = Kept(s, places, kept, i)
  <2> HIDE DEF kept
  <2> QED BY <1>2
<1> HIDE DEF kept
<1>4. 0 \in S
  <2> DEFINE o == [k \in 1..0 |-> s[k]]
  <2>1. kept[0] = <<>>
    BY <1>n, <1>3 DEF Kept
  <2>2. Good(0, 0, o)
    BY <2>1
  <2> HIDE DEF Good
  <2>3. QED BY <2>2
<1>5. ASSUME NEW i \in Nat, i \in S PROVE i + 1 \in S
  <2> HIDE DEF Good
  <2> SUFFICES ASSUME i + 1 <= N PROVE \E n, o : Good(i + 1, n, o)
    OBVIOUS
  <2>1. PICK n, o : Good(i, n, o)
    <3>1. i <= N
      BY <1>n
    <3>2. QED BY <1>5, <3>1
  <2> USE DEF Good
  <2>2. i + 1 \in 0..N /\ (i + 1) - 1 = i /\ i + 1 # 0
    BY <1>n
  <2>3. kept[i + 1] = IF i + 1 \in places THEN Append(kept[i], s[i + 1]) ELSE kept[i]
    BY <1>3, <2>2 DEF Kept
  <2>4. CASE i + 1 \in places
    <3> DEFINE q == [k \in 1..(n + 1) |-> IF k <= n THEN o[k] ELSE i + 1]
    <3>1. n + 1 \in Nat /\ q \in [1..(n + 1) -> places \cap 1..(i + 1)]
      BY <2>1, <2>4
    <3>2. \A k, l \in 1..(n + 1) : q[k] = q[l] => k = l
      <4>1. \A k \in 1..n : o[k] \in 1..i
        BY <2>1
      <4>2. QED BY <2>1, <4>1
    <3>3. ASSUME NEW j \in places \cap 1..(i + 1) PROVE \E k \in 1..(n + 1) : q[k] = j
      <4>1. CASE j = i + 1
        <5>1. n + 1 \in 1..(n + 1) /\ q[n + 1] = j
          BY <2>1, <4>1
        <5>2. QED BY <5>1
      <4>2. CASE j # i + 1
        <5>1. PICK k \in 1..n : o[k] = j
          BY <2>1, <4>2
        <5>2. k \in 1..(n + 1) /\ q[k] = j
          BY <2>1, <5>1
        <5>3. QED BY <5>2
      <4>3. QED BY <4>1, <4>2
    <3>4. kept[i + 1] = [k \in 1..(n + 1) |-> s[q[k]]]
      <4>1. kept[i] \in Seq(X) /\ Len(kept[i]) = n
        <5>1. \A k \in 1..n : s[o[k]] \in X
          BY <2>1
        <5>2. QED BY <2>1, <5>1
      <4>2. s[i + 1] \in X
        BY <2>2
      <4>3. kept[i + 1] = Append(kept[i], s[i + 1])
        BY <2>3, <2>4
      <4>4. /\ kept[i + 1] \in Seq(X) /\ Len(kept[i + 1]) = n + 1
            /\ \A k \in 1..n : kept[i + 1][k] = kept[i][k]
            /\ kept[i + 1][n + 1] = s[i + 1]
        BY <2>1, <4>1, <4>2, <4>3
      <4>5. ASSUME NEW k \in 1..(n + 1) PROVE kept[i + 1][k] = s[q[k]]
        BY <2>1, <4>4
      <4>6. kept[i + 1] = [k \in 1..(n + 1) |-> kept[i + 1][k]]
        BY <4>4
      <4> HIDE DEF q
      <4>7. QED BY <4>5, <4>6
    <3> HIDE DEF q
    <3>5. Good(i + 1, n + 1, q)
      BY <3>1, <3>2, <3>3, <3>4
    <3> HIDE DEF Good
    <3>6. QED BY <3>5
  <2>5. CASE i + 1 \notin places
    <3>1. places \cap 1..(i + 1) = places \cap 1..i
      BY <2>5
    <3>2. kept[i + 1] = kept[i]
      BY <2>3, <2>5
    <3>3. Good(i + 1, n, o)
      BY <2>1, <3>1, <3>2
    <3> HIDE DEF Good
    <3>4. QED BY <3>3
  <2>6. QED BY <2>4, <2>5
<1>6. N \in S
  <2> HIDE DEF S
  <2> QED BY <1>4, <1>5, <1>n, Induction
<1>7. PICK n, o : Good(N, n, o)
  <2> HIDE DEF Good
  <2> QED BY <1>6, <1>n
<1>8. places \cap 1..N = places
  OBVIOUS
<1>9. Lists(o, n, places) /\ kept[N] = [k \in 1..n |-> s[o[k]]]
  BY <1>7, <1>8 DEF Lists
<1>10. QED BY <1>1, <1>9

-----------------------------------------------------------------------------
(* Boxes *)

\* Of any extent, even none.
Boxes == [x : Int, y : Int, width : Nat, height : Nat]

LEMMA Extremes ==
  ASSUME NEW a \in Int, NEW b \in Int
  PROVE  /\ Max({a, b}) = IF a >= b THEN a ELSE b
         /\ Min({a, b}) = IF a <= b THEN a ELSE b
<1>1. Max({a, b}) \in {a, b} /\ Max({a, b}) >= a /\ Max({a, b}) >= b
  <2>1. \E m \in {a, b} : \A y \in {a, b} : m >= y
    <3>1. CASE a >= b
      BY <3>1
    <3>2. CASE ~(a >= b)
      BY <3>2
    <3>3. QED BY <3>1, <3>2
  <2>2. QED BY <2>1 DEF Max
<1>2. Min({a, b}) \in {a, b} /\ Min({a, b}) <= a /\ Min({a, b}) <= b
  <2>1. \E m \in {a, b} : \A y \in {a, b} : m <= y
    <3>1. CASE a <= b
      BY <3>1
    <3>2. CASE ~(a <= b)
      BY <3>2
    <3>3. QED BY <3>1, <3>2
  <2>2. QED BY <2>1 DEF Min
<1>3. QED BY <1>1, <1>2

\* What two stretches share is at most either; all of both only when they are one.
LEMMA Shared ==
  ASSUME NEW s \in Int, NEW m \in Nat, NEW t \in Int, NEW n \in Nat
  PROVE  /\ Overlap(s, m, t, n) \in Nat
         /\ Overlap(s, m, t, n) <= m
         /\ Overlap(s, m, t, n) <= n
         /\ (Overlap(s, m, t, n) = m /\ Overlap(s, m, t, n) = n /\ m > 0) => s = t
         /\ Overlap(s, m, s, m) = m
<1>1. /\ Min({s + m, t + n}) = IF s + m <= t + n THEN s + m ELSE t + n
      /\ Max({s, t}) = IF s >= t THEN s ELSE t
      /\ Min({s + m, s + m}) = s + m
      /\ Max({s, s}) = s
  BY Extremes
<1> DEFINE d == Min({s + m, t + n}) - Max({s, t})
           e == Min({s + m, s + m}) - Max({s, s})
<1>2. d \in Int /\ e = m
  BY <1>1
<1>3. Max({0, d}) = (IF 0 >= d THEN 0 ELSE d) /\ Max({0, e}) = (IF 0 >= e THEN 0 ELSE e)
  <2> HIDE DEF d, e
  <2> QED BY <1>2, Extremes
<1>4. QED BY <1>1, <1>2, <1>3 DEF Overlap

\* A product is at most one of larger factors, and less if a factor is.
LEMMA Products ==
  ASSUME NEW a \in Nat, NEW b \in Nat, NEW c \in Nat, NEW d \in Nat, a <= c, b <= d
  PROVE  /\ a * b \in Nat
         /\ a * b <= c * d
         /\ a * b = c * d /\ c * d > 0 => a = c /\ b = d
<1>1. a * b \in Nat /\ c * d \in Nat /\ a * d \in Nat
  OBVIOUS
<1>2. a * b <= a * d /\ a * d <= c * d
  OBVIOUS
<1>3. ASSUME a * b = c * d, c * d > 0 PROVE a = c /\ b = d
  <2>1. c > 0 /\ d > 0
    <3>1. c = 0 => c * d = 0
      OBVIOUS
    <3>2. d = 0 => c * d = 0
      OBVIOUS
    <3>3. QED BY <1>3, <3>1, <3>2
  <2>2. a * d = c * d
    BY <1>1, <1>2, <1>3
  <2>3. a = c
    <3>1. (c - a) * d = 0
      BY <2>2
    <3>2. c - a > 0 => (c - a) * d > 0
      BY <2>1
    <3>3. QED BY <3>1, <3>2
  <2>4. c * b = c * d
    BY <1>3, <2>3
  <2>5. b = d
    <3>1. c * (d - b) = 0
      BY <2>4
    <3>2. d - b > 0 => c * (d - b) > 0
      BY <2>1
    <3>3. QED BY <3>1, <3>2
  <2>6. QED BY <2>3, <2>5
<1>4. QED BY <1>1, <1>2, <1>3

\* The intersection over the union is a fraction, 1 for a box and itself only.
LEMMA Fractions ==
  ASSUME NEW a \in Boxes, NEW b \in Boxes
  PROVE  /\ Intersection(a, b) \in Nat
         /\ Union(a, b) \in Nat
         /\ Area(a) \in Nat
         /\ Intersection(a, b) <= Union(a, b)
         /\ Intersection(a, b) = Union(a, b) /\ Union(a, b) > 0 => a = b
         /\ Intersection(a, a) = Area(a)
         /\ Union(a, a) = Area(a)
<1> DEFINE h == Overlap(a.x, a.width, b.x, b.width)
           v == Overlap(a.y, a.height, b.y, b.height)
<1>1. /\ a.x \in Int /\ a.y \in Int /\ a.width \in Nat /\ a.height \in Nat
      /\ b.x \in Int /\ b.y \in Int /\ b.width \in Nat /\ b.height \in Nat
  BY DEF Boxes
<1>2. /\ h \in Nat /\ h <= a.width /\ h <= b.width
      /\ h = a.width /\ h = b.width /\ h > 0 => a.x = b.x
  <2>1. h \in Nat /\ h <= a.width /\ h <= b.width
    BY <1>1, Shared
  <2>2. h = a.width /\ h = b.width /\ a.width > 0 => a.x = b.x
    <3> DEFINE s == a.x
               m == a.width
               t == b.x
               n == b.width
    <3>1. s \in Int /\ m \in Nat /\ t \in Int /\ n \in Nat
      BY <1>1
    <3> HIDE DEF s, m, t, n
    <3>2. (Overlap(s, m, t, n) = m /\ Overlap(s, m, t, n) = n /\ m > 0) => s = t
      BY <3>1, Shared
    <3>3. QED BY <3>2 DEF s, m, t, n
  <2> HIDE DEF h
  <2>3. QED BY <2>1, <2>2
<1>3. /\ v \in Nat /\ v <= a.height /\ v <= b.height
      /\ v = a.height /\ v = b.height /\ v > 0 => a.y = b.y
  <2>1. v \in Nat /\ v <= a.height /\ v <= b.height
    BY <1>1, Shared
  <2>2. v = a.height /\ v = b.height /\ a.height > 0 => a.y = b.y
    <3> DEFINE s == a.y
               m == a.height
               t == b.y
               n == b.height
    <3>1. s \in Int /\ m \in Nat /\ t \in Int /\ n \in Nat
      BY <1>1
    <3> HIDE DEF s, m, t, n
    <3>2. (Overlap(s, m, t, n) = m /\ Overlap(s, m, t, n) = n /\ m > 0) => s = t
      BY <3>1, Shared
    <3>3. QED BY <3>2 DEF s, m, t, n
  <2> HIDE DEF v
  <2>3. QED BY <2>1, <2>2
<1> HIDE DEF h, v
<1>4. /\ h * v \in Nat
      /\ h * v <= a.width * a.height
      /\ h * v = a.width * a.height /\ a.width * a.height > 0 => h = a.width /\ v = a.height
  BY <1>1, <1>2, <1>3, Products
<1>5. /\ h * v <= b.width * b.height
      /\ h * v = b.width * b.height /\ b.width * b.height > 0 => h = b.width /\ v = b.height
  BY <1>1, <1>2, <1>3, Products
<1>6. Area(a) = a.width * a.height /\ Area(b) = b.width * b.height
  BY DEF Area
<1>7. Area(a) \in Nat /\ Area(b) \in Nat
  BY <1>1, <1>6
<1>8. Intersection(a, b) = h * v
  BY DEF Intersection, h, v
<1>9. Union(a, b) = Area(a) + Area(b) - h * v
  BY <1>8 DEF Union
<1>10. ASSUME h * v = Area(a) + Area(b) - h * v, h * v > 0 PROVE a = b
  <2>1. h * v = a.width * a.height /\ h * v = b.width * b.height
    BY <1>10, <1>4, <1>5, <1>6, <1>7
  <2>2. h = a.width /\ v = a.height /\ h = b.width /\ v = b.height
    BY <1>10, <1>4, <1>5, <2>1
  <2>3. h > 0 /\ v > 0
    <3>1. (h = 0 => h * v = 0) /\ (v = 0 => h * v = 0)
      BY <1>2, <1>3
    <3>2. QED BY <1>10, <1>2, <1>3, <3>1
  <2>4. a.x = b.x /\ a.y = b.y /\ a.width = b.width /\ a.height = b.height
    BY <1>2, <1>3, <2>2, <2>3
  <2>5. QED BY <2>4 DEF Boxes
<1>11. Intersection(a, a) = Area(a)
  BY <1>1, <1>6, Shared DEF Intersection
<1>12. Union(a, a) = Area(a)
  BY <1>7, <1>11 DEF Union
<1>13. QED BY <1>4, <1>5, <1>6, <1>7, <1>8, <1>9, <1>10, <1>11, <1>12

-----------------------------------------------------------------------------
(* Greedy matching *)

Detected == [box : Boxes, passed : BOOLEAN]

Tracked == [id : Nat, box : Boxes, missed : Nat, new : BOOLEAN]

\* Comparing fractions crosswise is transitive.
LEMMA Crosswise ==
  ASSUME NEW a \in Nat, NEW u \in Nat \ {0}, NEW b \in Nat, NEW v \in Nat \ {0},
         NEW c \in Nat, NEW w \in Nat \ {0},
         a * v - b * u >= 0, b * w - c * v >= 0
  PROVE  /\ a * w - c * u >= 0
         /\ a * w - c * u = 0 => a * v - b * u = 0 /\ b * w - c * v = 0
<1> DEFINE x == a * v - b * u
           y == b * w - c * v
           z == a * w - c * u
<1>1. x \in Nat /\ y \in Nat /\ z \in Int
  OBVIOUS
<1>2. v * z = w * x + u * y
  OBVIOUS
<1> HIDE DEF x, y, z
<1>3. w * x >= 0 /\ u * y >= 0 /\ (w * x = 0 => x = 0) /\ (u * y = 0 => y = 0) /\ w * x \in Int /\ u * y \in Int
  BY <1>1
<1>4. z >= 0
  <2>1. z < 0 => v * z < 0
    BY <1>1
  <2>2. QED BY <1>1, <1>2, <1>3, <2>1
<1>5. z = 0 => x = 0 /\ y = 0
  BY <1>1, <1>2, <1>3
<1>6. QED BY <1>4, <1>5 DEF x, y, z

\* The boxes of a pair overlap.
LEMMA PairFractions ==
  ASSUME NEW ts \in Seq(Tracked), NEW dets \in Seq(Detected), NEW p \in Pairs(ts, dets)
  PROVE  /\ p[1] \in 1..Len(ts) /\ p[2] \in 1..Len(dets) /\ p = <<p[1], p[2]>>
         /\ ts[p[1]].box \in Boxes /\ dets[p[2]].box \in Boxes
         /\ Intersection(ts[p[1]].box, dets[p[2]].box) \in Nat
         /\ Union(ts[p[1]].box, dets[p[2]].box) \in Nat \ {0}
<1>1. p[1] \in 1..Len(ts) /\ p[2] \in 1..Len(dets) /\ p = <<p[1], p[2]>>
  BY DEF Pairs
<1>2. ts[p[1]] \in Tracked /\ dets[p[2]] \in Detected
  BY <1>1
<1>3. ts[p[1]].box \in Boxes /\ dets[p[2]].box \in Boxes
  BY <1>2 DEF Tracked, Detected
<1>4. Union(ts[p[1]].box, dets[p[2]].box) > 0
  BY DEF Pairs, Similar
<1> QED BY <1>1, <1>3, <1>4, Fractions

\* Python's sort: of two pairs one is before the other, consistently.
LEMMA BeforeOrders ==
  ASSUME NEW ts \in Seq(Tracked), NEW dets \in Seq(Detected)
  PROVE  /\ \A p, q \in Pairs(ts, dets) :
              p # q => Before(ts, dets, p, q) \/ Before(ts, dets, q, p)
         /\ \A p, q, r \in Pairs(ts, dets) :
              Before(ts, dets, p, q) /\ Before(ts, dets, q, r) => Before(ts, dets, p, r)
<1> DEFINE I(p) == Intersection(ts[p[1]].box, dets[p[2]].box)
           U(p) == Union(ts[p[1]].box, dets[p[2]].box)
           First(p, q) == p[1] < q[1] \/ (p[1] = q[1] /\ p[2] < q[2])
<1>1. ASSUME NEW p \in Pairs(ts, dets)
      PROVE  I(p) \in Nat /\ U(p) \in Nat \ {0} /\ p[1] \in Int /\ p[2] \in Int /\ p = <<p[1], p[2]>>
  BY PairFractions
<1>2. ASSUME NEW p, NEW q
      PROVE  Before(ts, dets, p, q)
               <=> \/ I(p) * U(q) - I(q) * U(p) > 0
                   \/ I(p) * U(q) - I(q) * U(p) = 0 /\ First(p, q)
  BY DEF Before, Better
<1> HIDE DEF I, U
<1>3. ASSUME NEW p \in Pairs(ts, dets), NEW q \in Pairs(ts, dets), p # q
      PROVE  Before(ts, dets, p, q) \/ Before(ts, dets, q, p)
  <2>1. First(p, q) \/ First(q, p)
    BY <1>1, <1>3
  <2>2. I(p) * U(q) - I(q) * U(p) \in Int /\ I(q) * U(p) - I(p) * U(q) = -(I(p) * U(q) - I(q) * U(p))
    BY <1>1
  <2> HIDE DEF First
  <2>3. QED BY <1>2, <2>1, <2>2
<1>4. ASSUME NEW p \in Pairs(ts, dets), NEW q \in Pairs(ts, dets), NEW r \in Pairs(ts, dets),
             Before(ts, dets, p, q), Before(ts, dets, q, r)
      PROVE  Before(ts, dets, p, r)
  <2>1. First(p, q) /\ First(q, r) => First(p, r)
    BY <1>1
  <2> DEFINE x == I(p) * U(q) - I(q) * U(p)
             y == I(q) * U(r) - I(r) * U(q)
             z == I(p) * U(r) - I(r) * U(p)
  <2>t. /\ I(p) \in Nat /\ I(q) \in Nat /\ I(r) \in Nat
        /\ U(p) \in Nat \ {0} /\ U(q) \in Nat \ {0} /\ U(r) \in Nat \ {0}
    BY <1>1
  <2>2. x \in Int /\ y \in Int /\ z \in Int
    <3>1. \A i, j, u, v \in Nat : i * v - j * u \in Int
      OBVIOUS
    <3>2. QED BY <2>t, <3>1
  <2>3. (x > 0 \/ (x = 0 /\ First(p, q))) /\ (y > 0 \/ (y = 0 /\ First(q, r)))
    BY <1>2, <1>4
  <2>4. x >= 0 /\ y >= 0
    <3> HIDE DEF x, y, First
    <3> QED BY <2>2, <2>3
  <2>5. z >= 0 /\ (z = 0 => x = 0 /\ y = 0)
    <3> DEFINE a == I(p)
               b == I(q)
               c == I(r)
               u == U(p)
               v == U(q)
               w == U(r)
    <3>1. /\ a \in Nat /\ b \in Nat /\ c \in Nat
          /\ u \in Nat \ {0} /\ v \in Nat \ {0} /\ w \in Nat \ {0}
      BY <2>t
    <3>2. a * v - b * u >= 0 /\ b * w - c * v >= 0
      BY <2>4
    <3> HIDE DEF a, b, c, u, v, w
    <3>3. /\ a * w - c * u >= 0
          /\ a * w - c * u = 0 => a * v - b * u = 0 /\ b * w - c * v = 0
      BY <3>1, <3>2, Crosswise
    <3>4. QED BY <3>3 DEF a, b, c, u, v, w
  <2> HIDE DEF First, x, y, z
  <2>6. z > 0 \/ (z = 0 /\ First(p, r))
    BY <2>1, <2>2, <2>3, <2>5
  <2>7. QED BY <1>2, <2>6 DEF z
<1>5. QED BY <1>3, <1>4

\* Of any pairs there is a first.
LEMMA FirstPair ==
  ASSUME NEW ts \in Seq(Tracked), NEW dets \in Seq(Detected)
  PROVE  /\ IsFiniteSet(Pairs(ts, dets))
         /\ \A P \in SUBSET Pairs(ts, dets) :
              P # {} => \E p \in P : \A q \in P \ {p} : Before(ts, dets, p, q)
<1> DEFINE All == Pairs(ts, dets)
           Leads(p, P) == \A q \in P \ {p} : Before(ts, dets, p, q)
           S == {k \in Nat : \A P \in SUBSET All : Cardinality(P) = k /\ P # {} => \E p \in P : Leads(p, P)}
<1>1. IsFiniteSet(All)
  <2>1. IsFiniteSet(1..Len(ts)) /\ IsFiniteSet(1..Len(dets))
    BY FS_Interval
  <2>2. IsFiniteSet((1..Len(ts)) \X (1..Len(dets)))
    BY <2>1, FS_Product
  <2>3. All \in SUBSET ((1..Len(ts)) \X (1..Len(dets)))
    BY DEF Pairs
  <2>4. QED BY <2>2, <2>3, FS_Subset
<1> HIDE DEF All
<1>2. 0 \in S
  <2>1. ASSUME NEW P \in SUBSET All, Cardinality(P) = 0 PROVE P = {}
    <3>1. IsFiniteSet(P)
      BY <1>1, FS_Subset
    <3>2. QED BY <2>1, <3>1, FS_EmptySet
  <2>2. QED BY <2>1
<1>3. ASSUME NEW k \in Nat, k \in S PROVE k + 1 \in S
  <2> SUFFICES ASSUME NEW P \in SUBSET All, Cardinality(P) = k + 1, P # {}
               PROVE  \E p \in P : Leads(p, P)
    OBVIOUS
  <2>1. PICK x : x \in P
    OBVIOUS
  <2> DEFINE R == P \ {x}
  <2>2. R \in SUBSET All /\ IsFiniteSet(P) /\ Cardinality(R) = k
    <3>1. IsFiniteSet(P)
      BY <1>1, FS_Subset
    <3>2. Cardinality(R) = Cardinality(P) - 1
      BY <2>1, <3>1, FS_RemoveElement
    <3>3. QED BY <3>1, <3>2
  <2>3. CASE R = {}
    BY <2>1, <2>3
  <2>4. CASE R # {}
    <3>1. PICK y \in R : Leads(y, R)
      <4> HIDE DEF R, Leads
      <4> QED BY <1>3, <2>2, <2>4
    <3>2. x \in All /\ y \in All /\ y # x
      BY <2>1, <3>1
    <3>3. CASE Before(ts, dets, y, x)
      BY <3>1, <3>3
    <3>4. CASE Before(ts, dets, x, y)
      <4>1. ASSUME NEW q \in P \ {x} PROVE Before(ts, dets, x, q)
        <5>1. q \in All
          OBVIOUS
        <5>2. CASE q = y
          BY <3>4, <5>2
        <5>3. CASE q # y
          <6>1. Before(ts, dets, y, q)
            BY <3>1, <5>3
          <6>2. QED BY <3>2, <3>4, <5>1, <6>1, BeforeOrders DEF All
        <5>4. QED BY <5>2, <5>3
      <4>2. QED BY <2>1, <4>1
    <3>5. QED BY <3>2, <3>3, <3>4, BeforeOrders DEF All
  <2>5. QED BY <2>3, <2>4
<1>4. ASSUME NEW P \in SUBSET All, P # {} PROVE \E p \in P : Leads(p, P)
  <2>1. Cardinality(P) \in Nat
    BY <1>1, FS_Subset, FS_CardinalityType
  <2>2. Nat \subseteq S
    <3> HIDE DEF S
    <3> QED BY <1>2, <1>3, Induction
  <2> HIDE DEF Leads
  <2>3. QED BY <1>4, <2>1, <2>2
<1>5. QED BY <1>1, <1>4 DEF All

FirstOf(ts, dets, P) == CHOOSE p \in P : \A q \in P \ {p} : Before(ts, dets, p, q)

\* What the first of the pairs P leaves to match.
Rest(ts, dets, P) ==
  {q \in P : q[1] # FirstOf(ts, dets, P)[1] /\ q[2] # FirstOf(ts, dets, P)[2]}

Greedy(ts, dets, f, P) ==
  IF P = {} THEN {} ELSE {FirstOf(ts, dets, P)} \cup f[Rest(ts, dets, P)]

\* Its first pair is not left.
LEMMA RestShrinks ==
  ASSUME NEW ts \in Seq(Tracked), NEW dets \in Seq(Detected),
         NEW P \in SUBSET Pairs(ts, dets), P # {}
  PROVE  /\ FirstOf(ts, dets, P) \in P
         /\ \A q \in P : q # FirstOf(ts, dets, P) => Before(ts, dets, FirstOf(ts, dets, P), q)
         /\ Rest(ts, dets, P) \in SUBSET P
         /\ Cardinality(P) \in Nat
         /\ Cardinality(Rest(ts, dets, P)) \in Nat
         /\ Cardinality(Rest(ts, dets, P)) < Cardinality(P)
<1> DEFINE b == FirstOf(ts, dets, P)
           R == Rest(ts, dets, P)
<1>1. \E p \in P : \A q \in P \ {p} : Before(ts, dets, p, q)
  BY FirstPair
<1>2. b \in P /\ \A q \in P \ {b} : Before(ts, dets, b, q)
  BY <1>1 DEF FirstOf
<1>3. R \in SUBSET P /\ b \notin R
  BY DEF Rest
<1>4. IsFiniteSet(P)
  BY FirstPair, FS_Subset
<1> HIDE DEF b, R
<1>5. Cardinality(R) <= Cardinality(P) /\ IsFiniteSet(R)
  BY <1>3, <1>4, FS_Subset
<1>6. Cardinality(R) # Cardinality(P)
  BY <1>2, <1>3, <1>4, FS_Subset
<1>7. Cardinality(R) \in Nat /\ Cardinality(P) \in Nat
  BY <1>4, <1>5, FS_CardinalityType
<1>8. QED BY <1>2, <1>3, <1>5, <1>6, <1>7 DEF b, R

\* The loop's recursion has a value too.
LEMMA GreedyExists ==
  ASSUME NEW ts \in Seq(Tracked), NEW dets \in Seq(Detected)
  PROVE  \E f : f = [P \in SUBSET Pairs(ts, dets) |-> Greedy(ts, dets, f, P)]
<1> DEFINE All == Pairs(ts, dets)
           Small(k) == {P \in SUBSET All : Cardinality(P) <= k}
           G(f, P) == Greedy(ts, dets, f, P)
           S == {k \in Nat : \E f : f = [P \in Small(k) |-> G(f, P)]}
<1>c. ASSUME NEW P \in SUBSET All
      PROVE  Cardinality(P) \in Nat /\ Cardinality(P) <= Cardinality(All) /\ (Cardinality(P) = 0 => P = {})
  <2>1. IsFiniteSet(All)
    BY FirstPair
  <2>2. IsFiniteSet(P) /\ Cardinality(P) <= Cardinality(All)
    BY <2>1, FS_Subset
  <2>3. QED BY <2>2, FS_CardinalityType, FS_EmptySet
<1>1. 0 \in S
  <2> DEFINE f == [P \in Small(0) |-> {}]
  <2>1. ASSUME NEW P \in Small(0) PROVE G(f, P) = {}
    <3>1. P = {}
      BY <1>c
    <3>2. QED BY <3>1 DEF Greedy
  <2>2. f = [P \in Small(0) |-> G(f, P)]
    BY <2>1
  <2> HIDE DEF f, G, Small
  <2>3. QED BY <2>2
<1>2. ASSUME NEW k \in Nat, k \in S PROVE k + 1 \in S
  <2>1. PICK f : f = [P \in Small(k) |-> G(f, P)]
    BY <1>2
  <2> DEFINE g == [P \in Small(k + 1) |-> IF P \in Small(k) THEN f[P] ELSE G(f, P)]
  <2>2. ASSUME NEW P \in Small(k + 1) PROVE g[P] = G(g, P)
    <3>1. P # {} => Rest(ts, dets, P) \in Small(k) /\ Rest(ts, dets, P) \in Small(k + 1)
      BY RestShrinks
    <3>2. G(g, P) = G(f, P)
      <4> HIDE DEF Small
      <4> QED BY <3>1 DEF Greedy
    <3>3. CASE P \in Small(k)
      <4>1. f[P] = G(f, P)
        <5> HIDE DEF G, Small
        <5> QED BY <2>1, <3>3
      <4> HIDE DEF G, Small
      <4>2. QED BY <3>2, <3>3, <4>1
    <3>4. CASE P \notin Small(k)
      <4> HIDE DEF G, Small
      <4> QED BY <3>2, <3>4
    <3>5. QED BY <3>3, <3>4
  <2>3. g = [P \in Small(k + 1) |-> G(g, P)]
    <3> HIDE DEF G, Small
    <3> QED BY <2>2
  <2> HIDE DEF g, G, Small
  <2>4. QED BY <2>3
<1>3. Cardinality(All) \in S
  <2>1. Cardinality(All) \in Nat
    BY <1>c
  <2> HIDE DEF S
  <2>2. QED BY <1>1, <1>2, <2>1, Induction
<1>4. Small(Cardinality(All)) = SUBSET All
  BY <1>c
<1> HIDE DEF G, Small
<1>5. PICK f : f = [P \in SUBSET All |-> G(f, P)]
  BY <1>3, <1>4
<1>6. QED BY <1>5 DEF G

\* A greedy choice among pairs: no track and no detection twice, and a pair is
\* passed over only for one before it with its track or its detection.
Stable(ts, dets, P, M) ==
  /\ M \subseteq P
  /\ \A p, q \in M : p[1] = q[1] \/ p[2] = q[2] => p = q
  /\ \A p \in P : \E q \in M : /\ q[1] = p[1] \/ q[2] = p[2]
                               /\ q # p => Before(ts, dets, q, p)

\* The loop over the sorted pairs chooses greedily.
LEMMA MatchingStable ==
  ASSUME NEW ts \in Seq(Tracked), NEW dets \in Seq(Detected)
  PROVE  Stable(ts, dets, Pairs(ts, dets), Matching(ts, dets))
<1> DEFINE All == Pairs(ts, dets)
           greedy == CHOOSE f : f = [P \in SUBSET All |-> Greedy(ts, dets, f, P)]
           S == {k \in Nat : \A P \in SUBSET All : Cardinality(P) <= k => Stable(ts, dets, P, greedy[P])}
<1>1. Matching(ts, dets) = greedy[All]
  BY DEF Matching, Greedy, FirstOf, Rest
<1>2. greedy = [P \in SUBSET All |-> Greedy(ts, dets, greedy, P)]
  BY GreedyExists
<1> HIDE DEF greedy
<1>3. ASSUME NEW P \in SUBSET All PROVE greedy[P] = Greedy(ts, dets, greedy, P)
  BY <1>2
<1>4. ASSUME NEW P \in SUBSET All, P = {} PROVE Stable(ts, dets, P, greedy[P])
  BY <1>3, <1>4 DEF Greedy, Stable
<1>c. ASSUME NEW P \in SUBSET All
      PROVE  Cardinality(P) \in Nat /\ (Cardinality(P) = 0 => P = {})
  <2>1. IsFiniteSet(P)
    BY FirstPair, FS_Subset
  <2>2. QED BY <2>1, FS_CardinalityType, FS_EmptySet
<1>5. 0 \in S
  <2> SUFFICES ASSUME NEW P \in SUBSET All, Cardinality(P) <= 0 PROVE Stable(ts, dets, P, greedy[P])
    OBVIOUS
  <2>1. P = {}
    BY <1>c
  <2>2. QED BY <1>4, <2>1
<1>6. ASSUME NEW k \in Nat, k \in S PROVE k + 1 \in S
  <2> SUFFICES ASSUME NEW P \in SUBSET All, Cardinality(P) <= k + 1, P # {}
               PROVE  Stable(ts, dets, P, greedy[P])
    BY <1>4
  <2> DEFINE b == FirstOf(ts, dets, P)
             R == Rest(ts, dets, P)
  <2>1. /\ b \in P /\ (\A q \in P : q # b => Before(ts, dets, b, q))
        /\ R \in SUBSET P /\ Cardinality(R) <= k
    BY RestShrinks
  <2>2. greedy[P] = {b} \cup greedy[R]
    BY <1>3 DEF Greedy
  <2>3. Stable(ts, dets, R, greedy[R])
    BY <1>6, <2>1
  <2>4. \A q : q \in R <=> q \in P /\ q[1] # b[1] /\ q[2] # b[2]
    BY DEF Rest
  <2> HIDE DEF b, R
  <2> DEFINE M == greedy[R]
  <2>5. /\ M \subseteq R
        /\ \A p, q \in M : p[1] = q[1] \/ p[2] = q[2] => p = q
        /\ \A p \in R : \E q \in M : /\ q[1] = p[1] \/ q[2] = p[2]
                                     /\ q # p => Before(ts, dets, q, p)
    BY <2>3 DEF Stable
  <2> HIDE DEF M
  <2>6. greedy[P] = {b} \cup M
    BY <2>2 DEF M
  <2>7. {b} \cup M \subseteq P
    BY <2>1, <2>5
  <2>8. ASSUME NEW p \in {b} \cup M, NEW q \in {b} \cup M, p[1] = q[1] \/ p[2] = q[2] PROVE p = q
    BY <2>4, <2>5, <2>8
  <2>9. ASSUME NEW p \in P
        PROVE  \E q \in {b} \cup M : /\ q[1] = p[1] \/ q[2] = p[2]
                                     /\ q # p => Before(ts, dets, q, p)
    <3>1. CASE p \in R
      BY <2>5, <3>1
    <3>2. CASE p \notin R
      BY <2>1, <2>4, <3>2
    <3>3. QED BY <3>1, <3>2
  <2>10. QED BY <2>6, <2>7, <2>8, <2>9 DEF Stable
<1>7. Stable(ts, dets, All, greedy[All])
  <2>1. Cardinality(All) \in Nat /\ Cardinality(All) <= Cardinality(All)
    BY <1>c
  <2>2. Cardinality(All) \in S
    <3> HIDE DEF S
    <3> QED BY <1>5, <1>6, <2>1, Induction
  <2>3. QED BY <2>1, <2>2
<1>8. QED BY <1>1, <1>7

-----------------------------------------------------------------------------
(* Update *)

\* The tracks before the stale ones go: the old ones in their places, then a new
\* one for each of the m detections left over, at places l; and of them those at
\* the places o are kept.
Parts(ts, dets, last, m, l, all, n, o) ==
  LET M == Matching(ts, dets)
      fresh == {i \in 1..Len(all) : all[i].missed <= MaxAge}
  IN /\ Lists(l, m, Left(dets, M))
     /\ all \in Seq(Tracked)
     /\ Len(all) = Len(ts) + m
     /\ \A i \in 1..Len(ts) : all[i].id = ts[i].id /\ ~all[i].new
     /\ \A p \in M : all[p[1]].box = dets[p[2]].box /\ all[p[1]].missed = 0
     /\ \A k \in 1..m : all[Len(ts) + k] =
          [id |-> last + k, box |-> dets[l[k]].box, missed |-> 0, new |-> TRUE]
     /\ Lists(o, n, fresh)
     /\ Update(ts, dets, last) = [k \in 1..n |-> all[o[k]]]

\* What becomes of a track, matched or not.
LEMMA SeenUnseen ==
  ASSUME NEW t \in Tracked, NEW b \in Boxes
  PROVE  /\ Seen(t, b) \in Tracked /\ Seen(t, b).id = t.id /\ ~Seen(t, b).new
         /\ Seen(t, b).box = b /\ Seen(t, b).missed = 0
         /\ Unseen(t) \in Tracked /\ Unseen(t).id = t.id /\ ~Unseen(t).new
<1>1. Seen(t, b) \in Tracked
  BY DEF Seen, Tracked
<1>2. Seen(t, b).id = t.id
  BY DEF Seen, Tracked
<1>3. ~Seen(t, b).new
  BY DEF Seen, Tracked
<1>4. Seen(t, b).box = b
  BY DEF Seen, Tracked
<1>5. Seen(t, b).missed = 0
  BY DEF Seen, Tracked
<1>6. Unseen(t) \in Tracked
  <2>1. t.missed \in Nat /\ t.missed + 1 \in Nat
    BY DEF Tracked
  <2>2. QED BY <2>1 DEF Unseen, Tracked
<1>7. Unseen(t).id = t.id
  BY DEF Unseen, Tracked
<1>8. ~Unseen(t).new
  BY DEF Unseen, Tracked
<1>9. QED BY <1>1, <1>2, <1>3, <1>4, <1>5, <1>6, <1>7, <1>8

\* There are such parts.
LEMMA UpdateParts ==
  ASSUME NEW ts \in Seq(Tracked), NEW dets \in Seq(Detected), NEW last \in Nat
  PROVE  \E m, l, all, n, o : Parts(ts, dets, last, m, l, all, n, o)
<1> DEFINE M == Matching(ts, dets)
           left == Select([j \in 1..Len(dets) |-> j], Left(dets, M))
           old == [i \in 1..Len(ts) |->
                     IF \E p \in M : p[1] = i
                     THEN Seen(ts[i], dets[(CHOOSE p \in M : p[1] = i)[2]].box)
                     ELSE Unseen(ts[i])]
           born == [k \in 1..Len(left) |->
                      [id |-> last + k, box |-> dets[left[k]].box, missed |-> 0, new |-> TRUE]]
           all == old \o born
           fresh == {i \in 1..Len(all) : all[i].missed <= MaxAge}
<1>u. Update(ts, dets, last) = Select(all, fresh)
  BY DEF Update
<1>m. Stable(ts, dets, Pairs(ts, dets), M)
  BY MatchingStable
<1>p. /\ \A p \in M : /\ p[1] \in 1..Len(ts) /\ p[2] \in 1..Len(dets)
                      /\ dets[p[2]].box \in Boxes
      /\ \A p, q \in M : p[1] = q[1] \/ p[2] = q[2] => p = q
  <2> HIDE DEF M
  <2>1. M \subseteq Pairs(ts, dets) /\ \A p, q \in M : p[1] = q[1] \/ p[2] = q[2] => p = q
    BY <1>m DEF Stable
  <2>2. QED BY <2>1, PairFractions
<1> HIDE DEF M
<1>n. Len(ts) \in Nat /\ Len(dets) \in Nat
  OBVIOUS
<1>1. PICK m, l : Lists(l, m, Left(dets, M)) /\ left = l
  <2> DEFINE s == [j \in 1..Len(dets) |-> j]
  <2>1. s \in Seq(Nat) /\ Len(s) = Len(dets)
    BY <1>n
  <2>2. Left(dets, M) \in SUBSET (1..Len(s))
    BY <2>1 DEF Left
  <2>3. \A j \in Left(dets, M) : s[j] = j
    BY DEF Left
  <2>4. left = Select(s, Left(dets, M))
    OBVIOUS
  <2> HIDE DEF s, left
  <2>5. PICK m, l : Lists(l, m, Left(dets, M)) /\ left = [k \in 1..m |-> s[l[k]]]
    <3>1. \E m, l : /\ Lists(l, m, Left(dets, M))
                   /\ Select(s, Left(dets, M)) = [k \in 1..m |-> s[l[k]]]
      BY <2>1, <2>2, Selected, Zenon
    <3>2. QED BY <2>4, <3>1
  <2>6. left = l
    BY <2>3, <2>5 DEF Lists
  <2>7. QED BY <2>5, <2>6
<1> HIDE DEF left
<1>4. m \in Nat /\ l \in [1..m -> 1..Len(dets)] /\ left = l /\ Len(left) = m
  BY <1>1 DEF Left, Lists
<1>6. ASSUME NEW i \in 1..Len(ts)
      PROVE  /\ old[i] \in Tracked /\ old[i].id = ts[i].id /\ ~old[i].new
             /\ \A p \in M : p[1] = i => old[i].box = dets[p[2]].box /\ old[i].missed = 0
  <2>1. ts[i] \in Tracked
    OBVIOUS
  <2>2. CASE \E p \in M : p[1] = i
    <3> DEFINE q == CHOOSE p \in M : p[1] = i
    <3>1. q \in M /\ q[1] = i
      BY <2>2
    <3>2. old[i] = Seen(ts[i], dets[q[2]].box)
      BY <2>2
    <3> HIDE DEF q, old
    <3>3. dets[q[2]].box \in Boxes
      BY <3>1, <1>p
    <3>4. \A p \in M : p[1] = i => p = q
      BY <3>1, <1>p
    <3>5. /\ Seen(ts[i], dets[q[2]].box) \in Tracked
          /\ Seen(ts[i], dets[q[2]].box).id = ts[i].id
          /\ ~Seen(ts[i], dets[q[2]].box).new
          /\ Seen(ts[i], dets[q[2]].box).box = dets[q[2]].box
          /\ Seen(ts[i], dets[q[2]].box).missed = 0
      BY <2>1, <3>3, SeenUnseen
    <3>6. QED BY <3>2, <3>4, <3>5
  <2>3. CASE ~\E p \in M : p[1] = i
    <3>1. old[i] = Unseen(ts[i])
      BY <2>3
    <3> HIDE DEF old
    <3>2. /\ Unseen(ts[i]) \in Tracked
          /\ Unseen(ts[i]).id = ts[i].id
          /\ ~Unseen(ts[i]).new
      <4>1. [x |-> 0, y |-> 0, width |-> 0, height |-> 0] \in Boxes
        BY DEF Boxes
      <4>2. QED BY <2>1, <4>1, SeenUnseen
    <3>3. QED BY <2>3, <3>1, <3>2
  <2>4. QED BY <2>2, <2>3
<1>7. old \in Seq(Tracked) /\ Len(old) = Len(ts)
  <2>1. \A i \in 1..Len(ts) : old[i] \in Tracked
    BY <1>6
  <2>2. old = [i \in 1..Len(ts) |-> old[i]]
    OBVIOUS
  <2> HIDE DEF old
  <2>3. QED BY <1>n, <2>1, <2>2
<1>8. born \in Seq(Tracked) /\ Len(born) = m
  <2>1. ASSUME NEW k \in 1..m PROVE born[k] \in Tracked
    <3>1. dets[l[k]] \in Detected
      BY <1>4
    <3>2. dets[l[k]].box \in Boxes /\ last + k \in Nat
      BY <3>1 DEF Detected
    <3>3. QED BY <1>4, <3>2 DEF Tracked
  <2>2. m \in Nat
    BY <1>4
  <2>3. born \in [1..m -> Tracked]
    BY <1>4, <2>1
  <2> HIDE DEF born
  <2>4. QED BY <2>2, <2>3, Listed
<1>9. \A k \in 1..m : born[k] = [id |-> last + k, box |-> dets[l[k]].box, missed |-> 0, new |-> TRUE]
  BY <1>4
<1> HIDE DEF old, born
<1>10. /\ all \in Seq(Tracked) /\ Len(all) = Len(ts) + m
       /\ \A i \in 1..Len(ts) : all[i] = old[i]
       /\ \A k \in 1..m : all[Len(ts) + k] = born[k]
  <2>0. old \in Seq(Tracked) /\ born \in Seq(Tracked)
    BY <1>7, <1>8
  <2>1. all \in Seq(Tracked) /\ Len(all) = Len(old) + Len(born)
    BY <2>0, ConcatProperties
  <2>2. ASSUME NEW i \in 1..Len(ts) PROVE all[i] = old[i]
    BY <1>n, <1>4, <1>7, <1>8, ConcatProperties
  <2>3. ASSUME NEW k \in 1..m PROVE all[Len(ts) + k] = born[k]
    BY <1>n, <1>4, <1>7, <1>8, ConcatProperties
  <2>4. QED BY <1>7, <1>8, <2>1, <2>2, <2>3
<1> HIDE DEF all
<1>11. PICK n, o : Lists(o, n, fresh) /\ Select(all, fresh) = [k \in 1..n |-> all[o[k]]]
  <2>1. fresh \in SUBSET (1..Len(all)) /\ all \in Seq(Tracked)
    BY <1>10
  <2> HIDE DEF fresh
  <2>2. QED BY <2>1, Selected
<1>13. \A i \in 1..Len(ts) : all[i].id = ts[i].id /\ ~all[i].new
  BY <1>6, <1>10
<1>14. ASSUME NEW p \in M PROVE all[p[1]].box = dets[p[2]].box /\ all[p[1]].missed = 0
  <2>1. p[1] \in 1..Len(ts)
    BY <1>p
  <2>2. all[p[1]] = old[p[1]]
    BY <1>10, <2>1
  <2>3. QED BY <1>6, <2>1, <2>2
<1>15. Parts(ts, dets, last, m, l, all, n, o)
  <2>1. Update(ts, dets, last) = [k \in 1..n |-> all[o[k]]]
    BY <1>u, <1>11
  <2>2. \A k \in 1..m : all[Len(ts) + k] =
          [id |-> last + k, box |-> dets[l[k]].box, missed |-> 0, new |-> TRUE]
    BY <1>9, <1>10
  <2>3. Lists(o, n, {i \in 1..Len(all) : all[i].missed <= MaxAge})
    BY <1>11
  <2> HIDE DEF fresh
  <2>4. QED BY <1>1, <1>10, <1>13, <1>14, <2>1, <2>2, <2>3 DEF Parts, M
<1>16. QED BY <1>15

\* What lists a set counts it.
LEMMA ListsCount ==
  ASSUME NEW o, NEW n, NEW places, Lists(o, n, places)
  PROVE  n \in Nat /\ IsFiniteSet(places) /\ Cardinality(places) = n
<1>1. n \in Nat /\ o \in Bijection(1..n, places)
  <2>1. n \in Nat /\ o \in [1..n -> places]
    BY DEF Lists
  <2>2. \A a, b \in 1..n : o[a] = o[b] => a = b
    BY DEF Lists
  <2>3. \A t \in places : \E a \in 1..n : o[a] = t
    BY DEF Lists
  <2>4. o \in Injection(1..n, places)
    BY <2>1, <2>2 DEF Injection, IsInjective
  <2>5. o \in Surjection(1..n, places)
    BY <2>1, <2>3 DEF Surjection
  <2>6. QED BY <2>1, <2>4, <2>5 DEF Bijection
<1>2. ExistsBijection(1..n, places)
  BY <1>1 DEF ExistsBijection
<1>3. IsFiniteSet(1..n)
  BY <1>1, FS_Interval
<1>4. IsFiniteSet(places)
  BY <1>2, <1>3, FS_Bijection
<1>5. Cardinality(places) = n
  BY <1>1, <1>2, FS_CountingElements
<1>6. QED BY <1>1, <1>4, <1>5

\* What an update returns and leaves: known tracks that are not new, none unseen
\* too long.
LEMMA UpdateKnown ==
  ASSUME NEW ts \in Seq(Tracked), NEW dets \in Seq(Detected), NEW last \in Nat,
         NEW m, NEW l, NEW all, NEW n, NEW o, Parts(ts, dets, last, m, l, all, n, o)
  PROVE  LET up == Update(ts, dets, last)
         IN  /\ up \in Seq(Tracked) /\ Len(up) = n
             /\ \A k \in 1..n : up[k] = all[o[k]] /\ up[k].missed <= MaxAge
             /\ \A k \in 1..n : \/ up[k].new /\ \E j \in 1..m : o[k] = Len(ts) + j /\ up[k].id = last + j
                                \/ ~up[k].new /\ \E i \in 1..Len(ts) : o[k] = i /\ up[k].id = ts[i].id
<1> DEFINE up == Update(ts, dets, last)
           fresh == {i \in 1..Len(all) : all[i].missed <= MaxAge}
<1>1. /\ n \in Nat /\ o \in [1..n -> fresh] /\ up = [k \in 1..n |-> all[o[k]]]
      /\ m \in Nat /\ all \in Seq(Tracked) /\ Len(all) = Len(ts) + m /\ Len(ts) \in Nat
  BY DEF Parts, Lists
<1> HIDE DEF up
<1>2. ASSUME NEW k \in 1..n
      PROVE  /\ o[k] \in 1..Len(all) /\ all[o[k]].missed <= MaxAge
             /\ all[o[k]] \in Tracked /\ up[k] = all[o[k]]
  <2>1. o[k] \in fresh
    BY <1>1
  <2>2. QED BY <1>1, <2>1
<1>3. up \in Seq(Tracked) /\ Len(up) = n
  <2>1. \A k \in 1..n : all[o[k]] \in Tracked
    BY <1>2
  <2>2. QED BY <1>1, <2>1
<1>4. ASSUME NEW k \in 1..n
      PROVE  \/ up[k].new /\ \E j \in 1..m : o[k] = Len(ts) + j /\ up[k].id = last + j
             \/ ~up[k].new /\ \E i \in 1..Len(ts) : o[k] = i /\ up[k].id = ts[i].id
  <2>1. CASE o[k] \in 1..Len(ts)
    <3>1. all[o[k]].id = ts[o[k]].id /\ ~all[o[k]].new
      BY <2>1 DEF Parts
    <3>2. QED BY <1>2, <2>1, <3>1
  <2>2. CASE o[k] \notin 1..Len(ts)
    <3> DEFINE j == o[k] - Len(ts)
    <3>1. j \in 1..m /\ o[k] = Len(ts) + j
      BY <1>1, <1>2, <2>2
    <3> HIDE DEF j
    <3>2. all[Len(ts) + j] = [id |-> last + j, box |-> dets[l[j]].box, missed |-> 0, new |-> TRUE]
      BY <3>1 DEF Parts
    <3>3. up[k].new /\ up[k].id = last + j
      BY <1>2, <3>1, <3>2
    <3>4. QED BY <3>1, <3>3
  <2>3. QED BY <2>1, <2>2
<1>5. QED BY <1>2, <1>3, <1>4 DEF up

Newly(up) == Select(up, {i \in 1..Len(up) : up[i].new})

\* The new tracks of an update are numbered after the last one, each once, and are as
\* many as the detections left over.
LEMMA UpdateNew ==
  ASSUME NEW ts \in Seq(Tracked), NEW dets \in Seq(Detected), NEW last \in Nat,
         NEW m, NEW l, NEW all, NEW n, NEW o, Parts(ts, dets, last, m, l, all, n, o)
  PROVE  LET new == Newly(Update(ts, dets, last))
         IN  /\ m \in Nat /\ m = Cardinality(Left(dets, Matching(ts, dets)))
             /\ new \in Seq(Tracked) /\ Len(new) = m
             /\ \A j \in 1..m : new[j].new /\ new[j].id \in (last + 1)..(last + m)
             /\ \A j, k \in 1..m : new[j].id = new[k].id => j = k
             /\ \A id \in (last + 1)..(last + m) : \E j \in 1..m : new[j].id = id
<1> DEFINE up == Update(ts, dets, last)
           N == {i \in 1..Len(up) : up[i].new}
           fresh == {i \in 1..Len(all) : all[i].missed <= MaxAge}
<1>1. m \in Nat /\ m = Cardinality(Left(dets, Matching(ts, dets)))
  <2>1. Lists(l, m, Left(dets, Matching(ts, dets)))
    BY DEF Parts
  <2>2. QED BY <2>1, ListsCount
<1>2. /\ up \in Seq(Tracked) /\ Len(up) = n
      /\ \A k \in 1..n : up[k] = all[o[k]]
      /\ \A k \in 1..n : \/ up[k].new /\ \E j \in 1..m : o[k] = Len(ts) + j /\ up[k].id = last + j
                         \/ ~up[k].new /\ \E i \in 1..Len(ts) : o[k] = i /\ up[k].id = ts[i].id
  BY UpdateKnown
<1>3. /\ n \in Nat /\ \A j, k \in 1..n : o[j] = o[k] => j = k
      /\ \A i \in fresh : \E k \in 1..n : o[k] = i
      /\ Len(ts) \in Nat /\ Len(all) = Len(ts) + m
  BY DEF Parts, Lists
<1> HIDE DEF up
\* Each new one is among those kept.
<1>4. ASSUME NEW j \in 1..m PROVE \E k \in N : o[k] = Len(ts) + j /\ up[k].id = last + j
  <2>1. all[Len(ts) + j] = [id |-> last + j, box |-> dets[l[j]].box, missed |-> 0, new |-> TRUE]
    BY DEF Parts
  <2>2. Len(ts) + j \in 1..Len(all) /\ 0 <= MaxAge
    BY <1>1, <1>3, TrackerAssumption
  <2>3. Len(ts) + j \in fresh
    BY <2>1, <2>2
  <2>4. PICK k \in 1..n : o[k] = Len(ts) + j
    BY <1>3, <2>3
  <2>5. up[k].new /\ up[k].id = last + j
    BY <1>2, <2>1, <2>4
  <2>6. QED BY <1>2, <2>4, <2>5
<1>5. ASSUME NEW k \in N PROVE \E j \in 1..m : o[k] = Len(ts) + j /\ up[k].id = last + j
  BY <1>2
<1>6. PICK r, q : Lists(q, r, N) /\ Newly(up) = [k \in 1..r |-> up[q[k]]]
  <2>1. N \in SUBSET (1..Len(up))
    OBVIOUS
  <2>2. Newly(up) = Select(up, N)
    BY DEF Newly
  <2> HIDE DEF N
  <2>3. PICK r, q : Lists(q, r, N) /\ Select(up, N) = [k \in 1..r |-> up[q[k]]]
    <3>1. up \in Seq(Tracked)
      BY <1>2
    <3>2. QED BY <2>1, <3>1, Selected, Zenon
  <2>4. QED BY <2>2, <2>3
<1>7. r = m
  <2> DEFINE b == [j \in 1..m |-> CHOOSE k \in N : o[k] = Len(ts) + j]
  <2>1. ASSUME NEW j \in 1..m PROVE b[j] \in N /\ o[b[j]] = Len(ts) + j
    BY <1>4
  <2>2. b \in [1..m -> N]
    BY <2>1
  <2>3. \A j, k \in 1..m : b[j] = b[k] => j = k
    <3> SUFFICES ASSUME NEW j \in 1..m, NEW k \in 1..m, b[j] = b[k] PROVE j = k
      OBVIOUS
    <3>1. Len(ts) + j = Len(ts) + k
      BY <2>1
    <3>2. QED BY <1>1, <1>3, <3>1
  <2>4. ASSUME NEW i \in N PROVE \E j \in 1..m : b[j] = i
    <3>1. PICK j \in 1..m : o[i] = Len(ts) + j
      BY <1>5
    <3>2. b[j] \in 1..n /\ i \in 1..n /\ o[b[j]] = o[i]
      BY <1>2, <2>1, <3>1
    <3>3. b[j] = i
      BY <1>3, <3>2
    <3>4. QED BY <3>3
  <2> HIDE DEF b, N
  <2>5. Lists(b, m, N)
    BY <1>1, <2>2, <2>3, <2>4 DEF Lists
  <2>6. QED BY <1>6, <2>5, ListsCount
<1>8. /\ q \in [1..m -> N] /\ \A j, k \in 1..m : q[j] = q[k] => j = k
      /\ \A i \in N : \E k \in 1..m : q[k] = i
      /\ Newly(up) = [k \in 1..m |-> up[q[k]]]
  BY <1>6, <1>7 DEF Lists
<1>9. ASSUME NEW j \in 1..m
      PROVE  /\ q[j] \in N /\ up[q[j]] \in Tracked /\ Newly(up)[j] = up[q[j]]
             /\ up[q[j]].new /\ up[q[j]].id \in (last + 1)..(last + m)
  <2>1. q[j] \in N /\ q[j] \in 1..n
    BY <1>2, <1>8
  <2>2. PICK k \in 1..m : up[q[j]].id = last + k
    BY <1>5, <2>1
  <2>3. up[q[j]].id \in (last + 1)..(last + m)
    BY <1>1, <2>2
  <2>4. QED BY <1>2, <1>8, <2>1, <2>3
<1>10. Newly(up) \in Seq(Tracked) /\ Len(Newly(up)) = m
  <2>1. Newly(up) \in [1..m -> Tracked]
    BY <1>8, <1>9
  <2>2. QED BY <1>1, <2>1, Listed
<1>11. ASSUME NEW j \in 1..m, NEW k \in 1..m, Newly(up)[j].id = Newly(up)[k].id PROVE j = k
  <2>1. PICK x \in 1..m : o[q[j]] = Len(ts) + x /\ up[q[j]].id = last + x
    BY <1>5, <1>9
  <2>2. PICK y \in 1..m : o[q[k]] = Len(ts) + y /\ up[q[k]].id = last + y
    BY <1>5, <1>9
  <2>3. last + x = last + y
    BY <1>9, <1>11, <2>1, <2>2
  <2>4. x = y
    BY <1>1, <2>3
  <2>5. q[j] \in 1..n /\ q[k] \in 1..n /\ o[q[j]] = o[q[k]]
    BY <1>2, <1>9, <2>1, <2>2, <2>4
  <2>6. QED BY <1>3, <1>8, <2>5
<1>12. ASSUME NEW id \in (last + 1)..(last + m) PROVE \E j \in 1..m : Newly(up)[j].id = id
  <2>1. id - last \in 1..m /\ last + (id - last) = id
    BY <1>1
  <2>2. PICK k \in N : up[k].id = id
    BY <1>4, <2>1
  <2>3. PICK j \in 1..m : q[j] = k
    BY <1>8
  <2>4. QED BY <1>9, <2>2, <2>3
<1>13. QED BY <1>1, <1>9, <1>10, <1>11, <1>12 DEF up

\* The matching is of pairs, and one to one.
LEMMA MatchingPairs ==
  ASSUME NEW ts \in Seq(Tracked), NEW dets \in Seq(Detected), NEW p \in Matching(ts, dets)
  PROVE  /\ p \in Pairs(ts, dets)
         /\ p[1] \in 1..Len(ts) /\ p[2] \in 1..Len(dets)
         /\ \A q \in Matching(ts, dets) : p[1] = q[1] \/ p[2] = q[2] => p = q
<1> DEFINE M == Matching(ts, dets)
<1>1. Stable(ts, dets, Pairs(ts, dets), M)
  BY MatchingStable
<1> HIDE DEF M
<1>2. M \subseteq Pairs(ts, dets) /\ \A q, r \in M : q[1] = r[1] \/ q[2] = r[2] => q = r
  BY <1>1 DEF Stable
<1>3. p \in M
  BY DEF M
<1>4. QED BY <1>2, <1>3, PairFractions DEF M

\* A track whose box is that of a detection is matched, or the detection is, and
\* with the very same box.
LEMMA SameBoxFirst ==
  ASSUME NEW ts \in Seq(Tracked), NEW dets \in Seq(Detected),
         NEW i \in 1..Len(ts), NEW d \in 1..Len(dets),
         ts[i].box = dets[d].box, Area(dets[d].box) > 0
  PROVE  \E q \in Matching(ts, dets) :
           /\ q[1] = i \/ q[2] = d
           /\ ts[q[1]].box = dets[q[2]].box
<1> DEFINE M == Matching(ts, dets)
           b == dets[d].box
           p == <<i, d>>
<1>1. b \in Boxes
  <2>1. dets[d] \in Detected
    OBVIOUS
  <2>2. QED BY <2>1 DEF Detected
<1> HIDE DEF b
<1>2. Intersection(b, b) = Area(b) /\ Union(b, b) = Area(b) /\ Area(b) \in Nat /\ Area(b) > 0
  BY <1>1, Fractions DEF b
<1>3. p \in Pairs(ts, dets)
  <2>1. Similar(b, b)
    BY <1>2 DEF Similar
  <2>2. QED BY <2>1 DEF Pairs, b
<1>4. PICK q \in M : (q[1] = i \/ q[2] = d) /\ (q # p => Before(ts, dets, q, p))
  <2>1. Stable(ts, dets, Pairs(ts, dets), M)
    BY MatchingStable
  <2> HIDE DEF M
  <2>2. \E q \in M : (q[1] = p[1] \/ q[2] = p[2]) /\ (q # p => Before(ts, dets, q, p))
    BY <1>3, <2>1 DEF Stable
  <2>3. QED BY <2>2
<1>5. CASE q = p
  BY <1>4, <1>5
<1>6. CASE q # p
  <2> DEFINE I == Intersection(ts[q[1]].box, dets[q[2]].box)
             U == Union(ts[q[1]].box, dets[q[2]].box)
             A == Area(b)
  <2>1. /\ I \in Nat /\ U \in Nat /\ U > 0 /\ I <= U
        /\ I = U /\ U > 0 => ts[q[1]].box = dets[q[2]].box
    <3>1. q \in Pairs(ts, dets)
      BY MatchingPairs
    <3>2. ts[q[1]].box \in Boxes /\ dets[q[2]].box \in Boxes /\ U \in Nat \ {0}
      BY <3>1, PairFractions
    <3>3. I \in Nat /\ U \in Nat /\ I <= U /\ (I = U /\ U > 0 => ts[q[1]].box = dets[q[2]].box)
      BY <3>2, Fractions
    <3>4. QED BY <3>2, <3>3
  <2>2. I * A - A * U >= 0
    <3>1. Before(ts, dets, q, p)
      BY <1>4, <1>6
    <3>2. Intersection(ts[p[1]].box, dets[p[2]].box) = A /\ Union(ts[p[1]].box, dets[p[2]].box) = A
      BY <1>2 DEF b
    <3>3. Better(ts, dets, q, p) = I * A - A * U
      BY <3>2 DEF Better
    <3>4. I * A - A * U \in Int
      BY <1>2, <2>1
    <3> HIDE DEF p, I, U, A
    <3>5. QED BY <3>1, <3>3, <3>4 DEF Before
  <2>3. I = U
    <3> HIDE DEF I, U, A
    <3>0. A \in Nat /\ A > 0
      BY <1>2 DEF A
    <3>1. I * A - A * U = A * (I - U)
      BY <2>1, <3>0
    <3>2. I - U < 0 => A * (I - U) < 0
      BY <2>1, <3>0
    <3>3. A * (I - U) >= 0
      BY <2>2, <3>1
    <3>4. ~(I - U < 0)
      <4>1. A * (I - U) \in Int
        BY <2>1, <3>0
      <4>2. QED BY <3>2, <3>3, <4>1
    <3>5. I \in Int /\ U \in Int /\ I <= U
      BY <2>1
    <3>6. QED BY <3>4, <3>5
  <2>4. QED BY <1>4, <2>1, <2>3
<1>7. QED BY <1>5, <1>6

\* A track of its own for every detection.
Owns(t, ts, dets) ==
  /\ t \in [1..Len(dets) -> 1..Len(ts)]
  /\ \A i, j \in 1..Len(dets) : t[i] = t[j] => i = j
  /\ \A j \in 1..Len(dets) : ts[t[j]].box = dets[j].box

\* Tracks that have the boxes of all detections leave none of them over.
LEMMA NoneLeft ==
  ASSUME NEW ts \in Seq(Tracked), NEW dets \in Seq(Detected), NEW t, Owns(t, ts, dets),
         \A j \in 1..Len(dets) : Area(dets[j].box) > 0
  PROVE  Left(dets, Matching(ts, dets)) = {}
<1> DEFINE M == Matching(ts, dets)
<1>1. SUFFICES ASSUME NEW d \in 1..Len(dets), \A p \in M : p[2] # d PROVE FALSE
  BY DEF Left
<1> DEFINE b == dets[d].box
           T == {i \in 1..Len(ts) : ts[i].box = b}
           D == {j \in 1..Len(dets) : dets[j].box = b}
           g == [i \in T |-> CHOOSE j \in D \ {d} : <<i, j>> \in M]
\* Every track with this box is given away to a detection with this box.
<1>2. ASSUME NEW i \in T PROVE \E j \in D \ {d} : <<i, j>> \in M
  <2>1. PICK q \in M : (q[1] = i \/ q[2] = d) /\ ts[q[1]].box = dets[q[2]].box
    BY SameBoxFirst
  <2>2. q[1] = i /\ q[2] # d
    BY <1>1, <2>1
  <2>3. q \in Pairs(ts, dets) /\ q[2] \in 1..Len(dets)
    BY MatchingPairs
  <2>4. q = <<i, q[2]>>
    BY <2>2, <2>3 DEF Pairs
  <2>5. q[2] \in D \ {d}
    BY <2>1, <2>2, <2>3
  <2>6. QED BY <2>4, <2>5
<1> HIDE DEF M
<1>3. ASSUME NEW i \in T PROVE g[i] \in D \ {d} /\ <<i, g[i]>> \in M
  BY <1>2
<1>4. g \in [T -> D \ {d}]
  BY <1>3
<1>5. ASSUME NEW i \in T, NEW j \in T, g[i] = g[j] PROVE i = j
  <2>1. <<i, g[i]>> \in M /\ <<j, g[j]>> \in M
    BY <1>3
  <2>2. <<i, g[i]>> = <<j, g[j]>>
    BY <1>5, <2>1, MatchingPairs DEF M
  <2>3. QED BY <2>2
<1>6. IsFiniteSet(D) /\ IsFiniteSet(T)
  <2>1. IsFiniteSet(1..Len(dets)) /\ IsFiniteSet(1..Len(ts))
    BY FS_Interval
  <2>2. D \in SUBSET (1..Len(dets)) /\ T \in SUBSET (1..Len(ts))
    OBVIOUS
  <2> HIDE DEF D, T
  <2>3. QED BY <2>1, <2>2, FS_Subset
<1>7. d \in D
  OBVIOUS
\* But they are as many as the detections.
<1> DEFINE f == [j \in D |-> t[j]]
<1>8. f \in [D -> T]
  BY DEF Owns
<1>9. \A i, j \in D : f[i] = f[j] => i = j
  BY DEF Owns
<1> HIDE DEF D, T, g, f
<1>10. Cardinality(T) <= Cardinality(D \ {d})
  <2>1. IsFiniteSet(D \ {d})
    BY <1>6, FS_RemoveElement
  <2>2. g \in Injection(T, D \ {d})
    BY <1>4, <1>5 DEF Injection, IsInjective
  <2>3. QED BY <2>1, <2>2, FS_Injection
<1>11. Cardinality(D) <= Cardinality(T)
  <2>1. f \in Injection(D, T)
    BY <1>8, <1>9 DEF Injection, IsInjective
  <2>2. QED BY <1>6, <2>1, FS_Injection
<1>12. Cardinality(D \ {d}) = Cardinality(D) - 1 /\ Cardinality(D) \in Nat /\ Cardinality(T) \in Nat
  BY <1>6, <1>7, FS_RemoveElement, FS_CardinalityType
<1>13. QED BY <1>10, <1>11, <1>12

\* A track that alone has its box, and whose object is detected where it was, is
\* matched with a detection of that box.
LEMMA AloneMatched ==
  ASSUME NEW ts \in Seq(Tracked), NEW dets \in Seq(Detected),
         NEW i \in 1..Len(ts), \A j \in 1..Len(ts) : ts[j].box = ts[i].box => i = j,
         NEW d \in 1..Len(dets), dets[d].box = ts[i].box, Area(ts[i].box) > 0
  PROVE  \E q \in Matching(ts, dets) : q[1] = i /\ dets[q[2]].box = ts[i].box
<1>1. PICK q \in Matching(ts, dets) :
        (q[1] = i \/ q[2] = d) /\ ts[q[1]].box = dets[q[2]].box
  BY SameBoxFirst
<1>2. q[1] \in 1..Len(ts)
  BY MatchingPairs
<1>3. QED BY <1>1, <1>2

\* After an update every detection has a track of its own: the one it matched or
\* the one made for it.
LEMMA UpdateOwns ==
  ASSUME NEW ts \in Seq(Tracked), NEW dets \in Seq(Detected), NEW last \in Nat,
         NEW m, NEW l, NEW all, NEW n, NEW o, Parts(ts, dets, last, m, l, all, n, o)
  PROVE  \E t : Owns(t, Update(ts, dets, last), dets)
<1> DEFINE up == Update(ts, dets, last)
           M == Matching(ts, dets)
           fresh == {i \in 1..Len(all) : all[i].missed <= MaxAge}
           Of(j, i) == \/ <<i, j>> \in M
                       \/ (\A p \in M : p[2] # j) /\ \E k \in 1..m : l[k] = j /\ i = Len(ts) + k
           t == [j \in 1..Len(dets) |-> CHOOSE k \in 1..n : Of(j, o[k])]
<1>1. up \in Seq(Tracked) /\ Len(up) = n /\ \A k \in 1..n : up[k] = all[o[k]]
  BY UpdateKnown
<1>2. /\ n \in Nat /\ \A i \in fresh : \E k \in 1..n : o[k] = i
      /\ m \in Nat /\ l \in [1..m -> Left(dets, M)]
      /\ \A i, j \in 1..m : l[i] = l[j] => i = j
      /\ \A j \in Left(dets, M) : \E k \in 1..m : l[k] = j
      /\ Len(ts) \in Nat /\ Len(all) = Len(ts) + m /\ MaxAge >= 0
  BY TrackerAssumption DEF Parts, Lists
<1>3. ASSUME NEW p \in M
      PROVE  /\ p = <<p[1], p[2]>> /\ p[1] \in fresh /\ p[1] \in 1..Len(ts) /\ p[2] \in 1..Len(dets)
             /\ all[p[1]].box = dets[p[2]].box
  <2>1. p \in Pairs(ts, dets) /\ p[1] \in 1..Len(ts) /\ p[2] \in 1..Len(dets)
    BY MatchingPairs
  <2>2. all[p[1]].box = dets[p[2]].box /\ all[p[1]].missed = 0
    BY DEF Parts
  <2>3. p[1] \in fresh
    BY <1>2, <2>1, <2>2
  <2>4. p = <<p[1], p[2]>>
    BY <2>1 DEF Pairs
  <2>5. QED BY <2>1, <2>2, <2>3, <2>4
<1>4. ASSUME NEW k \in 1..m
      PROVE  Len(ts) + k \in fresh /\ all[Len(ts) + k].box = dets[l[k]].box
  <2>1. all[Len(ts) + k] = [id |-> last + k, box |-> dets[l[k]].box, missed |-> 0, new |-> TRUE]
    BY DEF Parts
  <2>2. Len(ts) + k \in 1..Len(all)
    BY <1>2
  <2>3. QED BY <1>2, <2>1, <2>2
<1>5. ASSUME NEW j \in 1..Len(dets) PROVE \E k \in 1..n : Of(j, o[k])
  <2>1. CASE \E p \in M : p[2] = j
    <3>1. PICK p \in M : p[2] = j
      BY <2>1
    <3>2. PICK k \in 1..n : o[k] = p[1]
      BY <1>2, <1>3, <3>1
    <3>3. <<o[k], j>> = p
      BY <1>3, <3>1, <3>2
    <3>4. QED BY <3>1, <3>3
  <2>2. CASE \A p \in M : p[2] # j
    <3>1. PICK k \in 1..m : l[k] = j
      BY <1>2, <2>2 DEF Left
    <3>2. PICK i \in 1..n : o[i] = Len(ts) + k
      BY <1>2, <1>4
    <3>3. QED BY <2>2, <3>1, <3>2
  <2>3. QED BY <2>1, <2>2
<1>6. ASSUME NEW j \in 1..Len(dets) PROVE t[j] \in 1..n /\ Of(j, o[t[j]])
  BY <1>5
<1>7. ASSUME NEW j \in 1..Len(dets), NEW i, Of(j, i)
      PROVE  all[i].box = dets[j].box
  <2>1. CASE <<i, j>> \in M
    <3> DEFINE p == <<i, j>>
    <3>1. p[1] = i /\ p[2] = j
      OBVIOUS
    <3>2. all[p[1]].box = dets[p[2]].box
      BY <1>3, <2>1
    <3>3. QED BY <3>1, <3>2
  <2>2. CASE \E k \in 1..m : l[k] = j /\ i = Len(ts) + k
    BY <1>4, <2>2
  <2>3. QED BY <1>7, <2>1, <2>2
<1>8. ASSUME NEW j \in 1..Len(dets), NEW k \in 1..Len(dets), NEW i, Of(j, i), Of(k, i)
      PROVE  j = k
  <2>1. CASE <<i, j>> \in M /\ <<i, k>> \in M
    <3>1. <<i, j>> = <<i, k>>
      BY <2>1, MatchingPairs
    <3>2. QED BY <3>1
  <2>2. CASE <<i, j>> \in M /\ \E x \in 1..m : l[x] = k /\ i = Len(ts) + x
    <3>1. i \in 1..Len(ts)
      BY <1>3, <2>2
    <3>2. QED BY <1>2, <2>2, <3>1
  <2>3. CASE <<i, k>> \in M /\ \E x \in 1..m : l[x] = j /\ i = Len(ts) + x
    <3>1. i \in 1..Len(ts)
      BY <1>3, <2>3
    <3>2. QED BY <1>2, <2>3, <3>1
  <2>4. ASSUME NEW x \in 1..m, l[x] = j, i = Len(ts) + x,
               NEW y \in 1..m, l[y] = k, i = Len(ts) + y
        PROVE  j = k
    <3>1. x = y
      BY <1>2, <2>4
    <3>2. QED BY <2>4, <3>1
  <2>5. QED BY <1>8, <2>1, <2>2, <2>3, <2>4
<1> HIDE DEF Of, up
<1>9. Owns(t, up, dets)
  <2>1. t \in [1..Len(dets) -> 1..Len(up)]
    BY <1>1, <1>6
  <2>2. ASSUME NEW i \in 1..Len(dets), NEW j \in 1..Len(dets), t[i] = t[j] PROVE i = j
    BY <1>6, <1>8, <2>2
  <2>3. ASSUME NEW j \in 1..Len(dets) PROVE up[t[j]].box = dets[j].box
    BY <1>1, <1>6, <1>7
  <2> HIDE DEF t
  <2>4. QED BY <2>1, <2>2, <2>3 DEF Owns
<1>10. QED BY <1>9 DEF up

\* A matched track stays, with its number and the box of the detection.
LEMMA UpdateKeeps ==
  ASSUME NEW ts \in Seq(Tracked), NEW dets \in Seq(Detected), NEW last \in Nat,
         NEW m, NEW l, NEW all, NEW n, NEW o, Parts(ts, dets, last, m, l, all, n, o),
         NEW p \in Matching(ts, dets)
  PROVE  LET up == Update(ts, dets, last)
         IN  \E k \in 1..Len(up) : up[k].id = ts[p[1]].id /\ up[k].box = dets[p[2]].box
<1> DEFINE up == Update(ts, dets, last)
<1>1. up \in Seq(Tracked) /\ Len(up) = n /\ \A k \in 1..n : up[k] = all[o[k]]
  BY UpdateKnown
<1> HIDE DEF up
<1>2. p[1] \in 1..Len(ts)
  BY MatchingPairs
<1>3. all[p[1]].box = dets[p[2]].box /\ all[p[1]].missed = 0 /\ all[p[1]].id = ts[p[1]].id
  BY <1>2 DEF Parts
<1>4. PICK k \in 1..n : o[k] = p[1]
  <2>1. /\ m \in Nat /\ Len(ts) \in Nat /\ Len(all) = Len(ts) + m
        /\ \A i \in {i \in 1..Len(all) : all[i].missed <= MaxAge} : \E k \in 1..n : o[k] = i
    BY DEF Parts, Lists
  <2>2. p[1] \in 1..Len(all) /\ 0 <= MaxAge
    BY <1>2, <2>1, TrackerAssumption
  <2>3. p[1] \in {i \in 1..Len(all) : all[i].missed <= MaxAge}
    BY <1>3, <2>2
  <2>4. QED BY <2>1, <2>3
<1>5. QED BY <1>1, <1>3, <1>4 DEF up
\* What an update does, in one place.
LEMMA Updated ==
  ASSUME NEW ts \in Seq(Tracked), NEW dets \in Seq(Detected), NEW last \in Nat
  PROVE  LET up == Update(ts, dets, last)
             new == Newly(up)
         IN  /\ up \in Seq(Tracked) /\ new \in Seq(Tracked)
             /\ \A k \in 1..Len(up) :
                  /\ up[k].missed <= MaxAge
                  /\ \/ up[k].id \in (last + 1)..(last + Len(new))
                     \/ \E i \in 1..Len(ts) : up[k].id = ts[i].id
             /\ Len(new) = Cardinality(Left(dets, Matching(ts, dets)))
             /\ \A j \in 1..Len(new) : new[j].new /\ new[j].id \in (last + 1)..(last + Len(new))
             /\ \A j, k \in 1..Len(new) : new[j].id = new[k].id => j = k
             /\ \A id \in (last + 1)..(last + Len(new)) : \E j \in 1..Len(new) : new[j].id = id
             /\ \E t : Owns(t, up, dets)
             /\ \A p \in Matching(ts, dets) :
                  \E k \in 1..Len(up) : up[k].id = ts[p[1]].id /\ up[k].box = dets[p[2]].box
<1> DEFINE up == Update(ts, dets, last)
           new == Newly(up)
<1>1. PICK m, l, all, n, o : Parts(ts, dets, last, m, l, all, n, o)
  BY UpdateParts
<1>2. /\ up \in Seq(Tracked) /\ Len(up) = n
      /\ \A k \in 1..n : up[k].missed <= MaxAge
      /\ \A k \in 1..n : \/ \E j \in 1..m : up[k].id = last + j
                         \/ \E i \in 1..Len(ts) : up[k].id = ts[i].id
  <2> HIDE DEF up
  <2>1. /\ up \in Seq(Tracked) /\ Len(up) = n
        /\ \A k \in 1..n : up[k] = all[o[k]] /\ up[k].missed <= MaxAge
        /\ \A k \in 1..n : \/ up[k].new /\ \E j \in 1..m : o[k] = Len(ts) + j /\ up[k].id = last + j
                           \/ ~up[k].new /\ \E i \in 1..Len(ts) : o[k] = i /\ up[k].id = ts[i].id
    BY <1>1, UpdateKnown DEF up
  <2>2. QED BY <2>1
<1>3. /\ m \in Nat /\ m = Cardinality(Left(dets, Matching(ts, dets)))
      /\ new \in Seq(Tracked) /\ Len(new) = m
      /\ \A j \in 1..m : new[j].new /\ new[j].id \in (last + 1)..(last + m)
      /\ \A j, k \in 1..m : new[j].id = new[k].id => j = k
      /\ \A id \in (last + 1)..(last + m) : \E j \in 1..m : new[j].id = id
  BY <1>1, UpdateNew
<1>4. \E t : Owns(t, up, dets)
  BY <1>1, UpdateOwns
<1>5. \A p \in Matching(ts, dets) :
        \E k \in 1..Len(up) : up[k].id = ts[p[1]].id /\ up[k].box = dets[p[2]].box
  BY <1>1, UpdateKeeps
<1> HIDE DEF new, up
<1>6. \A k \in 1..Len(up) :
        /\ up[k].missed <= MaxAge
        /\ \/ up[k].id \in (last + 1)..(last + Len(new))
           \/ \E i \in 1..Len(ts) : up[k].id = ts[i].id
  <2>1. \A j \in 1..m : last + j \in (last + 1)..(last + Len(new))
    BY <1>3
  <2>2. QED BY <1>2, <2>1
<1>7. QED BY <1>2, <1>3, <1>4, <1>5, <1>6 DEF up, new

-----------------------------------------------------------------------------
(* The pipeline *)

\* The gate takes detections away and leaves the others as they are.
LEMMA GatedKnown ==
  ASSUME NEW shows \in Seq(Detected)
  PROVE  /\ Gated(shows) \in Seq(Detected)
         /\ \A j \in 1..Len(Gated(shows)) : \E d \in 1..Len(shows) : Gated(shows)[j] = shows[d]
         /\ \A d \in 1..Len(shows) :
              shows[d].passed => \E j \in 1..Len(Gated(shows)) : Gated(shows)[j] = shows[d]
<1> DEFINE P == {i \in 1..Len(shows) : shows[i].passed}
<1>1. P \in SUBSET (1..Len(shows))
  OBVIOUS
<1>2. PICK n, o : Lists(o, n, P) /\ Gated(shows) = [k \in 1..n |-> shows[o[k]]]
  <2> HIDE DEF P
  <2>1. \E n, o : Lists(o, n, P) /\ Select(shows, P) = [k \in 1..n |-> shows[o[k]]]
    BY <1>1, Selected
  <2>2. Gated(shows) = Select(shows, P)
    BY DEF Gated, P
  <2>3. QED BY <2>1, <2>2
<1>3. n \in Nat /\ o \in [1..n -> P] /\ \A i \in P : \E k \in 1..n : o[k] = i
  BY <1>2 DEF Lists
<1>4. \A k \in 1..n : o[k] \in 1..Len(shows) /\ shows[o[k]] \in Detected
  BY <1>1, <1>3
<1> HIDE DEF P
<1>5. Gated(shows) \in Seq(Detected) /\ Len(Gated(shows)) = n
  <2>1. n \in Nat /\ \A k \in 1..n : shows[o[k]] \in Detected
    BY <1>3, <1>4
  <2>2. [k \in 1..n |-> shows[o[k]]] \in Seq(Detected) /\ Len([k \in 1..n |-> shows[o[k]]]) = n
    BY <2>1
  <2>3. QED BY <1>2, <2>2
<1>6. \A j \in 1..n : Gated(shows)[j] = shows[o[j]]
  BY <1>2
<1>7. \A d \in 1..Len(shows) : shows[d].passed => d \in P
  BY DEF P
<1>8. ASSUME NEW j \in 1..Len(Gated(shows))
      PROVE  \E d \in 1..Len(shows) : Gated(shows)[j] = shows[d]
  BY <1>4, <1>5, <1>6
<1>9. ASSUME NEW d \in 1..Len(shows), shows[d].passed
      PROVE  \E j \in 1..Len(Gated(shows)) : Gated(shows)[j] = shows[d]
  <2>1. PICK k \in 1..n : o[k] = d
    BY <1>3, <1>7, <1>9
  <2>2. QED BY <1>5, <1>6, <2>1
<1>10. QED BY <1>5, <1>8, <1>9

LEMMA FramesDetected ==
  ASSUME NEW f \in Frames
  PROVE  f.shows \in Seq(Detected) /\ f.number \in Nat
<1>1. f.number \in Nat /\ f.shows \in Scenes \cup {<<>>}
  BY DEF Frames
<1>2. \A scene \in Scenes : scene \in Seq(Detected)
  BY CameraAssumption DEF Detected, Boxes
<1>3. <<>> \in Seq(Detected)
  OBVIOUS
<1>4. QED BY <1>1, <1>2, <1>3

\* The two halves of TypeOK: the thread's and the event loop's.
FeederTypes ==
  /\ file \in BOOLEAN
  /\ running \in BOOLEAN
  /\ cap \in {"none", "open", "shut"}
  /\ connected \in BOOLEAN
  /\ thread \in {"none", "test", "read", "release", "open"}
  /\ reads \in Nat
  /\ latest \in Frames
  /\ latest.number = reads \div FrameSkip
  /\ gaveUp \in BOOLEAN

TrackTypes ==
  /\ loop \in {"start", "run", "publish", "join", "release", "stopped"}
  /\ frame \in Frames
  /\ frame.number <= latest.number
  /\ made \in Nat
  /\ \A i \in 1..Len(tracks) : tracks[i].id \in 1..made /\ tracks[i].missed \in 0..MaxAge
  /\ \A i \in 1..Len(due) : due[i].new
  /\ (loop = "publish") = (due # <<>>)
  /\ lost \subseteq 1..made

LEMMA TypeParts == TypeOK <=> FeederTypes /\ TrackTypes
BY Zenon DEF TypeOK, FeederTypes, TrackTypes

Known ==
  /\ tracks \in Seq(Tracked)
  /\ due \in Seq(Tracked)
  /\ events \in Seq(Nat)

\* Every track made is published, due or lost, and once.
Numbered ==
  /\ \A i \in 1..Len(events) : events[i] \in (1..made) \ lost
  /\ \A i \in 1..Len(due) : due[i].id \in (1..made) \ lost
  /\ \A i, j \in 1..Len(events) : events[i] = events[j] => i = j
  /\ \A i, j \in 1..Len(due) : due[i].id = due[j].id => i = j
  /\ \A i \in 1..Len(events) : \A j \in 1..Len(due) : events[i] # due[j].id
  /\ \A id \in (1..made) \ lost : \/ \E i \in 1..Len(events) : events[i] = id
                                  \/ \E i \in 1..Len(due) : due[i].id = id

\* The detections of the last frame processed have a track each.
Remembered == \E t : Owns(t, tracks, Gated(frame.shows))

CameraInv == TypeOK /\ Known /\ Numbered /\ Remembered

\* Every frame read is counted, and every FrameSkip-th is emitted.
LEMMA Emitted ==
  ASSUME NEW n \in Nat, NEW skip \in Nat \ {0}
  PROVE  /\ 0 \div skip = 0
         /\ n \div skip \in Nat
         /\ (n + 1) \div skip =
              IF (n + 1) % skip = 0 THEN (n \div skip) + 1 ELSE n \div skip
<1> DEFINE q == n \div skip
           r == n % skip
<1>1. q \in Int /\ r \in 0..(skip - 1) /\ n = skip * q + r
  OBVIOUS
<1>2. QED BY <1>1

LEMMA CameraInit == Init => CameraInv
<1> SUFFICES ASSUME Init PROVE CameraInv
  OBVIOUS
<1>1. TypeOK
  <2>1. 0 \div FrameSkip = 0
    BY CameraAssumption, Emitted
  <2>2. NoFrame \in Frames /\ NoFrame.number = 0
    BY DEF Frames, NoFrame
  <2>3. FeederTypes
    BY <2>1, <2>2 DEF Init, FeederTypes
  <2>4. TrackTypes
    BY <2>2 DEF Init, TrackTypes
  <2>5. QED BY <2>3, <2>4, TypeParts
<1>2. Known /\ Numbered
  BY DEF Init, Known, Numbered
<1>3. Remembered
  <2>1. frame.shows = <<>> /\ tracks = <<>>
    BY DEF Init, NoFrame
  <2>2. <<>> \in Seq(Detected)
    OBVIOUS
  <2>3. Gated(<<>>) \in Seq(Detected) /\ \A j \in 1..Len(Gated(<<>>)) : \E d \in 1..Len(<<>>) : TRUE
    BY <2>2, GatedKnown
  <2>4. Len(Gated(<<>>)) = 0
    BY <2>3
  <2> DEFINE none == [j \in 1..0 |-> 0]
  <2>5. Owns(none, tracks, Gated(frame.shows))
    BY <2>1, <2>4 DEF Owns
  <2>6. QED BY <2>5 DEF Remembered
<1>4. QED BY <1>1, <1>2, <1>3 DEF CameraInv

\* The actions that leave the tracks alone.
Idle ==
  \/ Capture \/ Start \/ StartFails \/ Stop \/ Join \/ JoinTimesOut \/ Release
  \/ UNCHANGED vars

LEMMA IdleLeaves == Idle => UNCHANGED tracking
BY DEF Idle, Capture, TestRunning, ReadFrame, ReadFails, DropCapture, ReopenSucceeds, ReopenFails,
       Start, StartFails, Stop, Join, JoinTimesOut, Release, vars, tracking

LEMMA FeederStep == FeederTypes /\ Idle => FeederTypes' /\ latest.number <= latest'.number
<1> SUFFICES ASSUME FeederTypes, Idle PROVE FeederTypes' /\ latest.number <= latest'.number
  OBVIOUS
<1>1. latest.number \in Nat /\ latest.shows \in Scenes \cup {<<>>}
  BY DEF FeederTypes, Frames
<1>2. CASE \E scene \in Scenes : ReadFrame(scene)
  <2>1. PICK scene \in Scenes : ReadFrame(scene)
    BY <1>2
  <2>2. latest'.number = reads' \div FrameSkip /\ latest' \in Frames /\ latest.number <= latest'.number
    <3>1. reads \in Nat /\ reads' = reads + 1 /\ latest.number = reads \div FrameSkip
      BY <2>1 DEF ReadFrame, FeederTypes
    <3>2. reads' \div FrameSkip = IF reads' % FrameSkip = 0 THEN latest.number + 1 ELSE latest.number
      BY <3>1, Emitted, CameraAssumption
    <3>3. CASE reads' % FrameSkip = 0
      <4>1. latest' = [number |-> latest.number + 1, shows |-> scene]
        BY <2>1, <3>3 DEF ReadFrame
      <4>2. QED BY <1>1, <3>2, <3>3, <4>1 DEF Frames
    <3>4. CASE reads' % FrameSkip # 0
      <4>1. latest' = latest
        BY <2>1, <3>4 DEF ReadFrame
      <4>2. QED BY <1>1, <3>2, <3>4, <4>1 DEF FeederTypes
    <3>5. QED BY <3>3, <3>4
  <2>3. /\ UNCHANGED <<file, running, cap, gaveUp>>
        /\ thread' = "test" /\ connected' = TRUE /\ reads' = reads + 1
    BY <2>1 DEF ReadFrame
  <2>4. QED BY <2>2, <2>3 DEF FeederTypes
<1>3. CASE ~(\E scene \in Scenes : ReadFrame(scene))
  <2>1. UNCHANGED <<reads, latest>>
    BY <1>3 DEF Idle, Capture, TestRunning, ReadFails, DropCapture, ReopenSucceeds, ReopenFails,
         Start, StartFails, Stop, Join, JoinTimesOut, Release, vars, feeder
  <2>2. file' \in BOOLEAN /\ running' \in BOOLEAN /\ gaveUp' \in BOOLEAN
    BY <1>3 DEF FeederTypes, Idle, Capture, TestRunning, ReadFails, DropCapture, ReopenSucceeds,
         ReopenFails, Start, StartFails, Stop, Join, JoinTimesOut, Release, vars, feeder
  <2>3. cap' \in {"none", "open", "shut"} /\ connected' \in BOOLEAN
    BY <1>3 DEF FeederTypes, Idle, Capture, TestRunning, ReadFails, DropCapture, ReopenSucceeds,
         ReopenFails, Start, StartFails, Stop, Join, JoinTimesOut, Release, vars, feeder
  <2>4. thread' \in {"none", "test", "read", "release", "open"}
    BY <1>3 DEF FeederTypes, Idle, Capture, TestRunning, ReadFails, DropCapture, ReopenSucceeds,
         ReopenFails, Start, StartFails, Stop, Join, JoinTimesOut, Release, vars, feeder
  <2>5. QED BY <1>1, <2>1, <2>2, <2>3, <2>4 DEF FeederTypes
<1>4. QED BY <1>2, <1>3

LEMMA IdleKeeps == CameraInv /\ Idle => CameraInv'
<1> SUFFICES ASSUME CameraInv, Idle PROVE CameraInv'
  OBVIOUS
<1>1. frame' = frame /\ tracks' = tracks /\ made' = made /\ due' = due /\ events' = events /\ lost' = lost
  BY IdleLeaves DEF tracking
<1>2. Known' /\ Numbered' /\ Remembered'
  <2>1. Known' = Known
    BY <1>1 DEF Known
  <2>2. Numbered' = Numbered
    BY <1>1 DEF Numbered
  <2>3. Remembered' = Remembered
    BY <1>1 DEF Remembered
  <2>4. QED BY <2>1, <2>2, <2>3 DEF CameraInv
<1>3. FeederTypes /\ TrackTypes
  BY TypeParts DEF CameraInv
<1>4. FeederTypes' /\ latest.number <= latest'.number
  BY <1>3, FeederStep
<1>5. TrackTypes'
  <2>1. /\ loop' \in {"start", "run", "publish", "join", "release", "stopped"}
        /\ (loop' = "publish") = (loop = "publish")
    BY <1>3 DEF TrackTypes, Idle, Capture, TestRunning, ReadFrame, ReadFails, DropCapture,
         ReopenSucceeds, ReopenFails, Start, StartFails, Stop, Join, JoinTimesOut, Release, vars, feeder
  <2>2. frame'.number <= latest'.number
    <3>1. frame.number \in Nat /\ latest.number \in Nat /\ latest'.number \in Nat
      BY <1>3, <1>4 DEF FeederTypes, TrackTypes, Frames
    <3>2. QED BY <1>1, <1>3, <1>4, <3>1 DEF TrackTypes
  <2>3. QED BY <1>1, <1>3, <2>1, <2>2 DEF TrackTypes
<1>6. QED
  <2>1. TypeOK'
    BY <1>4, <1>5, Zenon DEF TypeOK, FeederTypes, TrackTypes
  <2>2. QED BY <1>2, <2>1 DEF CameraInv

\* What a poll of the frame does.
LEMMA Processed ==
  ASSUME CameraInv, ProcessFrame
  PROVE  /\ Gated(latest.shows) \in Seq(Detected)
         /\ tracks' = Update(tracks, Gated(latest.shows), made)
         /\ due' = Newly(tracks') /\ due' \in Seq(Tracked)
         /\ made' = made + Len(due')
         /\ frame' = latest /\ UNCHANGED <<feeder, events, lost>>
         /\ due = <<>> /\ loop = "run" /\ loop' = (IF due' = <<>> THEN "run" ELSE "publish")
<1>1. FeederTypes /\ TrackTypes /\ Known
  BY TypeParts DEF CameraInv
<1>2. Gated(latest.shows) \in Seq(Detected)
  BY <1>1, FramesDetected, GatedKnown DEF FeederTypes
<1>3. /\ tracks' = Update(tracks, Gated(latest.shows), made)
      /\ due' = Newly(tracks')
      /\ made' = made + Len(due')
      /\ frame' = latest /\ UNCHANGED <<feeder, events, lost>>
      /\ loop = "run" /\ loop' = (IF due' = <<>> THEN "run" ELSE "publish")
  BY DEF ProcessFrame, Newly
<1>4. due = <<>>
  BY <1>1, <1>3 DEF TrackTypes
<1>5. due' \in Seq(Tracked)
  <2>1. made \in Nat /\ tracks \in Seq(Tracked)
    BY <1>1 DEF TrackTypes, Known
  <2>2. QED BY <1>2, <1>3, <2>1, Updated
<1>6. QED BY <1>2, <1>3, <1>4, <1>5

\* The new tracks are numbered on from the last one and are due, all of them.
LEMMA ProcessKeeps == CameraInv /\ ProcessFrame => CameraInv'
<1> SUFFICES ASSUME CameraInv, ProcessFrame PROVE CameraInv'
  OBVIOUS
<1>1. FeederTypes /\ TrackTypes /\ Known /\ Numbered
  BY TypeParts DEF CameraInv
<1> DEFINE dets == Gated(latest.shows)
           n == Len(due')
<1>2. /\ dets \in Seq(Detected)
      /\ tracks' = Update(tracks, dets, made)
      /\ due' = Newly(tracks') /\ due' \in Seq(Tracked) /\ n \in Nat
      /\ made' = made + n
      /\ frame' = latest /\ UNCHANGED <<feeder, events, lost>>
      /\ due = <<>> /\ loop = "run" /\ loop' = (IF due' = <<>> THEN "run" ELSE "publish")
  BY Processed
<1>3. made \in Nat /\ tracks \in Seq(Tracked)
  BY <1>1 DEF TrackTypes, Known
<1> HIDE DEF dets
<1>4. /\ tracks' \in Seq(Tracked)
      /\ \A k \in 1..Len(tracks') :
           /\ tracks'[k].missed <= MaxAge
           /\ tracks'[k].id \in (made + 1)..(made + n) \/ \E i \in 1..Len(tracks) : tracks'[k].id = tracks[i].id
      /\ \A j \in 1..n : due'[j].new /\ due'[j].id \in (made + 1)..(made + n)
      /\ \A j, k \in 1..n : due'[j].id = due'[k].id => j = k
      /\ \A id \in (made + 1)..(made + n) : \E j \in 1..n : due'[j].id = id
      /\ \E t : Owns(t, tracks', dets)
  <2> DEFINE up == Update(tracks, dets, made)
             new == Newly(up)
  <2>1. /\ up \in Seq(Tracked)
        /\ \A k \in 1..Len(up) :
             /\ up[k].missed <= MaxAge
             /\ up[k].id \in (made + 1)..(made + Len(new)) \/ \E i \in 1..Len(tracks) : up[k].id = tracks[i].id
        /\ \A j \in 1..Len(new) : new[j].new /\ new[j].id \in (made + 1)..(made + Len(new))
        /\ \A j, k \in 1..Len(new) : new[j].id = new[k].id => j = k
        /\ \A id \in (made + 1)..(made + Len(new)) : \E j \in 1..Len(new) : new[j].id = id
        /\ \E t : Owns(t, up, dets)
    BY <1>2, <1>3, Updated
  <2>2. tracks' = up /\ due' = new
    BY <1>2
  <2> HIDE DEF up, new
  <2>3. QED BY <2>1, <2>2
<1> HIDE DEF n
<1>5. Known'
  BY <1>1, <1>2, <1>4 DEF Known
<1>6. Remembered'
  <2>1. Gated(frame'.shows) = dets
    BY <1>2 DEF dets
  <2>2. QED BY <1>4, <2>1 DEF Remembered
<1>7. FeederTypes'
  BY <1>1, <1>2 DEF FeederTypes, feeder
<1>8. TrackTypes'
  <2>1. frame' \in Frames /\ frame'.number <= latest'.number
    <3>1. latest' = latest
      BY <1>2 DEF feeder
    <3>2. latest \in Frames /\ latest.number \in Nat
      BY <1>1 DEF FeederTypes, Frames
    <3>3. QED BY <1>2, <3>1, <3>2
  <2>2. ASSUME NEW k \in 1..Len(tracks') PROVE tracks'[k].id \in 1..made' /\ tracks'[k].missed \in 0..MaxAge
    <3>1. tracks'[k] \in Tracked
      BY <1>4
    <3>2. tracks'[k].missed \in Nat /\ tracks'[k].missed <= MaxAge
      BY <1>4, <3>1 DEF Tracked
    <3>3. CASE tracks'[k].id \in (made + 1)..(made + n)
      BY <1>2, <1>3, <3>2, <3>3, TrackerAssumption
    <3>4. CASE \E i \in 1..Len(tracks) : tracks'[k].id = tracks[i].id
      <4>1. tracks'[k].id \in 1..made
        BY <1>1, <3>4 DEF TrackTypes
      <4>2. QED BY <1>2, <1>3, <3>2, <4>1, TrackerAssumption
    <3>5. QED BY <1>4, <3>3, <3>4
  <2>3. \A i \in 1..Len(due') : due'[i].new
    BY <1>4 DEF n
  <2>4. made' \in Nat /\ lost' \subseteq 1..made'
    BY <1>1, <1>2, <1>3 DEF TrackTypes
  <2>5. loop' \in {"run", "publish"} /\ ((loop' = "publish") = (due' # <<>>))
    BY <1>2
  <2>6. QED BY <2>1, <2>2, <2>3, <2>4, <2>5 DEF TrackTypes
<1>9. Numbered'
  <2>0. Len(due) = 0 /\ events' = events /\ lost' = lost /\ lost \subseteq 1..made
    BY <1>1, <1>2 DEF TrackTypes
  <2>1. \A i \in 1..Len(events) : events[i] \in (1..made) \ lost
    BY <1>1 DEF Numbered
  <2>2. \A i \in 1..Len(events') : events'[i] \in (1..made') \ lost'
    BY <1>2, <1>3, <2>0, <2>1
  <2>3. \A i \in 1..Len(due') : due'[i].id \in (1..made') \ lost'
    <3>1. \A i \in 1..Len(due') : due'[i].id \in (made + 1)..(made + n)
      BY <1>4 DEF n
    <3>2. \A x \in (made + 1)..(made + n) : x \in (1..made') \ lost'
      BY <1>2, <1>3, <2>0
    <3>3. QED BY <3>1, <3>2
  <2>4. \A i, j \in 1..Len(events') : events'[i] = events'[j] => i = j
    BY <1>1, <2>0 DEF Numbered
  <2>5. \A i, j \in 1..Len(due') : due'[i].id = due'[j].id => i = j
    BY <1>4 DEF n
  <2>6. \A i \in 1..Len(events') : \A j \in 1..Len(due') : events'[i] # due'[j].id
    <3>1. SUFFICES ASSUME NEW i \in 1..Len(events), NEW j \in 1..Len(due') PROVE events[i] # due'[j].id
      BY <2>0
    <3>2. events[i] \in 1..made /\ due'[j].id \in (made + 1)..(made + n)
      BY <1>4, <2>1 DEF n
    <3>3. QED BY <1>2, <1>3, <3>2
  <2>7. ASSUME NEW id \in (1..made') \ lost'
        PROVE  \/ \E i \in 1..Len(events') : events'[i] = id
               \/ \E i \in 1..Len(due') : due'[i].id = id
    <3>1. CASE id \in 1..made
      <4>1. id \in (1..made) \ lost
        BY <2>0, <3>1
      <4>2. \E i \in 1..Len(events) : events[i] = id
        BY <1>1, <2>0, <4>1 DEF Numbered
      <4>3. QED BY <2>0, <4>2
    <3>2. CASE id \notin 1..made
      <4>1. id \in (made + 1)..(made + n)
        BY <1>2, <1>3, <3>2
      <4>2. QED BY <1>4, <4>1 DEF n
    <3>3. QED BY <3>1, <3>2
  <2>8. QED BY <2>2, <2>3, <2>4, <2>5, <2>6, <2>7 DEF Numbered
<1>10. QED
  <2>1. TypeOK'
    BY <1>7, <1>8, Zenon DEF TypeOK, FeederTypes, TrackTypes
  <2>2. QED BY <1>5, <1>6, <1>9, <2>1 DEF CameraInv

\* Publishing takes the first of the tracks due.
LEMMA PublishKeeps == CameraInv /\ Publish => CameraInv'
<1> SUFFICES ASSUME CameraInv, Publish PROVE CameraInv'
  OBVIOUS
<1>1. FeederTypes /\ TrackTypes /\ Known /\ Numbered
  BY TypeParts DEF CameraInv
<1>2. /\ loop = "publish" /\ events' = Append(events, Head(due).id) /\ due' = Tail(due)
      /\ loop' = (IF Tail(due) = <<>> THEN "run" ELSE "publish")
      /\ UNCHANGED <<frame, tracks, made, lost>> /\ UNCHANGED feeder
  BY DEF Publish
<1> DEFINE n == Len(due)
           e == Len(events)
<1>3. /\ due \in Seq(Tracked) /\ due # <<>> /\ n \in Nat /\ n > 0
      /\ events \in Seq(Nat) /\ e \in Nat /\ due[1] \in Tracked
  BY <1>1, <1>2 DEF Known, TrackTypes
<1>4. /\ due' \in Seq(Tracked) /\ Len(due') = n - 1 /\ \A i \in 1..(n - 1) : due'[i] = due[i + 1]
  BY <1>2, <1>3
<1>5. /\ events' \in Seq(Nat) /\ Len(events') = e + 1 /\ events'[e + 1] = due[1].id
      /\ \A i \in 1..e : events'[i] = events[i]
  <2>1. Head(due) = due[1] /\ due[1].id \in Nat
    BY <1>3 DEF Tracked
  <2>2. QED BY <1>2, <1>3, <2>1
<1> HIDE DEF n, e
<1>6. Known' /\ Remembered' /\ FeederTypes'
  BY <1>1, <1>2, <1>4, <1>5 DEF CameraInv, Known, Remembered, FeederTypes, feeder
<1>7. TrackTypes'
  <2>1. latest' = latest
    BY <1>2 DEF feeder
  <2>2. \A i \in 1..Len(due') : due'[i].new
    <3>1. \A i \in 1..(n - 1) : i + 1 \in 1..n
      BY <1>3
    <3>2. QED BY <1>1, <1>4, <3>1 DEF TrackTypes, n
  <2>3. loop' \in {"run", "publish"} /\ ((loop' = "publish") = (due' # <<>>))
    BY <1>2
  <2>4. QED BY <1>1, <1>2, <2>1, <2>2, <2>3 DEF TrackTypes
<1>8. Numbered'
  <2>1. /\ \A i \in 1..e : events[i] \in (1..made) \ lost
        /\ \A i \in 1..n : due[i].id \in (1..made) \ lost
        /\ \A i, j \in 1..e : events[i] = events[j] => i = j
        /\ \A i, j \in 1..n : due[i].id = due[j].id => i = j
        /\ \A i \in 1..e : \A j \in 1..n : events[i] # due[j].id
        /\ \A id \in (1..made) \ lost : \/ \E i \in 1..e : events[i] = id
                                        \/ \E i \in 1..n : due[i].id = id
    BY <1>1 DEF Numbered, n, e
  <2>2. 1 \in 1..n /\ \A i \in 1..(n - 1) : i + 1 \in 1..n /\ i + 1 # 1
    BY <1>3
  <2>3. \A i \in 1..(e + 1) : i \in 1..e \/ i = e + 1
    BY <1>3
  <2>4. \A i \in 1..Len(events') : events'[i] \in (1..made') \ lost'
    BY <1>2, <1>5, <2>1, <2>2, <2>3
  <2>5. ASSUME NEW i \in 1..Len(due') PROVE due'[i].id \in (1..made') \ lost'
    <3>1. i + 1 \in 1..n /\ due'[i] = due[i + 1]
      BY <1>4, <2>2
    <3>2. QED BY <1>2, <2>1, <3>1
  <2>6. ASSUME NEW i \in 1..Len(events'), NEW j \in 1..Len(events'), events'[i] = events'[j]
        PROVE  i = j
    <3>1. (i \in 1..e \/ i = e + 1) /\ (j \in 1..e \/ j = e + 1)
      BY <1>5, <2>3
    <3>2. CASE i \in 1..e /\ j \in 1..e
      <4>1. events[i] = events[j]
        BY <1>5, <2>6, <3>2
      <4>2. QED BY <2>1, <3>2, <4>1
    <3>3. \A k \in 1..e : events'[k] # events'[e + 1]
      BY <1>5, <2>1, <2>2
    <3>4. QED BY <2>6, <3>1, <3>2, <3>3
  <2>7. ASSUME NEW i \in 1..Len(due'), NEW j \in 1..Len(due'), due'[i].id = due'[j].id PROVE i = j
    <3>1. i \in 1..(n - 1) /\ j \in 1..(n - 1)
      BY <1>4
    <3>2. i + 1 = j + 1
      BY <1>4, <2>1, <2>2, <2>7, <3>1
    <3>3. QED BY <1>3, <3>1, <3>2
  <2>8. ASSUME NEW i \in 1..Len(events'), NEW j \in 1..Len(due') PROVE events'[i] # due'[j].id
    <3>1. j + 1 \in 1..n /\ j + 1 # 1 /\ due'[j] = due[j + 1]
      BY <1>4, <2>2
    <3>2. i \in 1..e \/ i = e + 1
      BY <1>5, <2>3
    <3>3. due[j + 1].id # due[1].id
      BY <2>1, <2>2, <3>1
    <3>4. QED BY <1>5, <2>1, <3>1, <3>2, <3>3
  <2>9. ASSUME NEW id \in (1..made') \ lost'
        PROVE  \/ \E i \in 1..Len(events') : events'[i] = id
               \/ \E i \in 1..Len(due') : due'[i].id = id
    <3>1. CASE \E i \in 1..e : events[i] = id
      <4>1. \A i \in 1..e : i \in 1..Len(events')
        BY <1>3, <1>5
      <4>2. QED BY <1>5, <3>1, <4>1
    <3>2. CASE \E i \in 1..n : due[i].id = id
      <4>1. PICK i \in 1..n : due[i].id = id
        BY <3>2
      <4>2. CASE i = 1
        <5>1. e + 1 \in 1..Len(events')
          BY <1>3, <1>5
        <5>2. QED BY <1>5, <4>1, <4>2, <5>1
      <4>3. CASE i # 1
        <5>1. i - 1 \in 1..(n - 1) /\ (i - 1) + 1 = i
          BY <1>3, <4>3
        <5>2. QED BY <1>4, <4>1, <5>1
      <4>4. QED BY <4>2, <4>3
    <3>3. QED BY <1>2, <2>1, <3>1, <3>2
  <2>10. QED BY <2>4, <2>5, <2>6, <2>7, <2>8, <2>9 DEF Numbered
<1>9. TypeOK'
  BY <1>6, <1>7, Zenon DEF TypeOK, FeederTypes, TrackTypes
<1>10. QED BY <1>6, <1>8, <1>9 DEF CameraInv

\* All that are due are lost together.
LEMMA RaiseKeeps == CameraInv /\ PublishRaises => CameraInv'
<1> SUFFICES ASSUME CameraInv, PublishRaises PROVE CameraInv'
  OBVIOUS
<1>1. FeederTypes /\ TrackTypes /\ Known /\ Numbered
  BY TypeParts DEF CameraInv
<1> DEFINE gone == {due[i].id : i \in 1..Len(due)}
<1>2. /\ lost' = lost \cup gone /\ due' = <<>> /\ loop' = "run"
      /\ UNCHANGED <<frame, tracks, made, events>> /\ UNCHANGED feeder
  BY DEF PublishRaises
<1>3. /\ \A i \in 1..Len(due) : due[i].id \in gone
      /\ \A x \in gone : \E i \in 1..Len(due) : due[i].id = x
  OBVIOUS
<1> HIDE DEF gone
<1>4. gone \subseteq 1..made /\ \A i \in 1..Len(events) : events[i] \notin gone
  BY <1>1, <1>3 DEF Numbered
<1>5. Known' /\ Remembered' /\ FeederTypes'
  <2>1. Remembered'
    BY <1>2 DEF CameraInv, Remembered
  <2>2. FeederTypes'
    BY <1>1, <1>2 DEF FeederTypes, feeder
  <2>3. Known'
    BY <1>1, <1>2 DEF Known
  <2>4. QED BY <2>1, <2>2, <2>3
<1>6. TrackTypes'
  <2>1. latest' = latest
    BY <1>2 DEF feeder
  <2>2. QED BY <1>1, <1>2, <1>4, <2>1 DEF TrackTypes
<1>7. Numbered'
  <2>1. Len(due') = 0
    BY <1>2
  <2>2. QED BY <1>1, <1>2, <1>3, <1>4, <2>1 DEF Numbered
<1>8. TypeOK'
  BY <1>5, <1>6, Zenon DEF TypeOK, FeederTypes, TrackTypes
<1>9. QED BY <1>5, <1>7, <1>8 DEF CameraInv

LEMMA NextSplit == [Next]_vars => Idle \/ ProcessFrame \/ Publish \/ PublishRaises
BY DEF Next, Loop, Idle

LEMMA CameraAlways == Spec => []CameraInv
<1>1. CameraInv /\ [Next]_vars => CameraInv'
  BY NextSplit, IdleKeeps, ProcessKeeps, PublishKeeps, RaiseKeeps
<1>2. QED BY CameraInit, <1>1, PTL DEF Spec

-----------------------------------------------------------------------------
(* Theorems *)

\* The variables of the thread, the loop and the tracker keep their types.
THEOREM TypeCorrect == Spec => []TypeOK
<1>1. CameraInv => TypeOK
  BY DEF CameraInv
<1>2. QED BY <1>1, CameraAlways, PTL

\* main.py process_frame: one event announces each track, or is due, unless
\* publishing raised; none is announced twice however often a frame is polled.
THEOREM EventForEachTrack == Spec => []AnnouncedOnce
<1>1. CameraInv => AnnouncedOnce
  <2> SUFFICES ASSUME CameraInv, NEW id \in 1..made
               PROVE  Cardinality({i \in 1..Len(events) : events[i] = id})
                        + Cardinality({i \in 1..Len(due) : due[i].id = id})
                        + (IF id \in lost THEN 1 ELSE 0) = 1
    BY DEF AnnouncedOnce
  <2>1. Numbered /\ Len(events) \in Nat /\ Len(due) \in Nat
    BY DEF CameraInv, Known
  <2> DEFINE E == \E i \in 1..Len(events) : events[i] = id
             D == \E i \in 1..Len(due) : due[i].id = id
             A == {i \in 1..Len(events) : events[i] = id}
             B == {i \in 1..Len(due) : due[i].id = id}
  <2>2. Cardinality(A) = IF E THEN 1 ELSE 0
    <3>1. CASE E
      <4>1. PICK i \in 1..Len(events) : events[i] = id
        BY <3>1
      <4>2. A = {i}
        BY <2>1, <4>1 DEF Numbered
      <4>3. QED BY <3>1, <4>2, FS_Singleton
    <3>2. CASE ~E
      <4>1. A = {}
        BY <3>2
      <4>2. QED BY <3>2, <4>1, FS_EmptySet
    <3>3. QED BY <3>1, <3>2
  <2>3. Cardinality(B) = IF D THEN 1 ELSE 0
    <3>1. CASE D
      <4>1. PICK i \in 1..Len(due) : due[i].id = id
        BY <3>1
      <4>2. B = {i}
        BY <2>1, <4>1 DEF Numbered
      <4>3. QED BY <3>1, <4>2, FS_Singleton
    <3>2. CASE ~D
      <4>1. B = {}
        BY <3>2
      <4>2. QED BY <3>2, <4>1, FS_EmptySet
    <3>3. QED BY <3>1, <3>2
  <2>4. (id \in lost /\ ~E /\ ~D) \/ (id \notin lost /\ E /\ ~D) \/ (id \notin lost /\ ~E /\ D)
    BY <2>1 DEF Numbered
  <2> HIDE DEF A, B, E, D
  <2>5. Cardinality(A) + Cardinality(B) + (IF id \in lost THEN 1 ELSE 0) = 1
    BY <2>2, <2>3, <2>4
  <2>6. QED BY <2>5 DEF A, B
<1>2. QED BY <1>1, CameraAlways, PTL

\* main.py's loop polls the feeder faster than frames come: a frame polled again
\* makes no track, if its boxes have an area.
THEOREM PollingMakesNone == Spec => SameFrameQuiet
<1>1. ASSUME CameraInv, [Next]_vars, loop = "run", latest = frame,
             \A i \in 1..Len(latest.shows) : Area(latest.shows[i].box) > 0
      PROVE  made' = made
  <2>1. CASE ProcessFrame
    <3> DEFINE shows == latest.shows
               dets == Gated(shows)
    <3>1. FeederTypes /\ TrackTypes /\ Known
      BY <1>1, TypeParts DEF CameraInv
    <3>2. shows \in Seq(Detected)
      BY <3>1, FramesDetected DEF FeederTypes
    <3>3. PICK t : Owns(t, tracks, dets)
      BY <1>1 DEF CameraInv, Remembered
    <3>4. dets \in Seq(Detected) /\ \A j \in 1..Len(dets) : Area(dets[j].box) > 0
      <4> HIDE DEF shows
      <4>1. /\ dets \in Seq(Detected)
            /\ \A j \in 1..Len(dets) : \E d \in 1..Len(shows) : dets[j] = shows[d]
        BY <3>2, GatedKnown
      <4>2. \A d \in 1..Len(shows) : Area(shows[d].box) > 0
        BY <1>1 DEF shows
      <4> HIDE DEF dets
      <4>3. QED BY <4>1, <4>2
    <3>5. tracks \in Seq(Tracked) /\ made \in Nat
      BY <3>1 DEF Known, TrackTypes
    <3>6. made' = made + Len(due') /\ due' = Newly(Update(tracks, dets, made))
      BY <1>1, <2>1, Processed
    <3> HIDE DEF dets
    <3>7. Left(dets, Matching(tracks, dets)) = {}
      BY <3>3, <3>4, <3>5, NoneLeft
    <3>8. Len(due') = 0
      <4> DEFINE new == Newly(Update(tracks, dets, made))
      <4>1. tracks \in Seq(Tracked) /\ dets \in Seq(Detected) /\ made \in Nat
        BY <3>4, <3>5
      <4>2. PICK m, l, all, n, o : Parts(tracks, dets, made, m, l, all, n, o)
        BY <4>1, UpdateParts
      <4>3. Len(new) = m /\ m = Cardinality(Left(dets, Matching(tracks, dets)))
        BY <4>1, <4>2, UpdateNew
      <4> HIDE DEF new
      <4>4. QED BY <3>6, <3>7, <4>3, FS_EmptySet DEF new
    <3>9. QED BY <3>5, <3>6, <3>8
  <2>2. CASE Idle
    BY <2>2, IdleLeaves DEF tracking
  <2>3. CASE Publish \/ PublishRaises
    BY <2>3 DEF Publish, PublishRaises
  <2>4. QED BY <1>1, <2>1, <2>2, <2>3, NextSplit
<1>2. CameraInv /\ [Next]_vars =>
        [loop = "run" /\ latest = frame /\ (\A i \in 1..Len(latest.shows) : Area(latest.shows[i].box) > 0)
           => made' = made]_vars
  BY <1>1
<1>3. QED BY <1>2, CameraAlways, PTL DEF Spec, SameFrameQuiet

\* tracker.py update: an object that has not moved, and whose box no other track
\* has, keeps its track, whatever other objects the frame shows.
THEOREM StillKept == Spec => StillKeepsTrack
<1>1. ASSUME CameraInv, [Next]_vars, NEW i \in 1..Len(tracks),
             \A j \in 1..Len(tracks) : tracks[j].box = tracks[i].box => i = j,
             NEW d \in 1..Len(latest.shows),
             latest.shows[d].passed, latest.shows[d].box = tracks[i].box,
             Area(tracks[i].box) > 0
      PROVE  \E k \in 1..Len(tracks') :
               tracks'[k].id = tracks[i].id /\ tracks'[k].box = tracks[i].box
  <2>1. CASE ProcessFrame
    <3> DEFINE shows == latest.shows
               dets == Gated(shows)
               up == Update(tracks, dets, made)
    <3>1. FeederTypes /\ TrackTypes /\ Known
      BY <1>1, TypeParts DEF CameraInv
    <3>2. shows \in Seq(Detected) /\ tracks \in Seq(Tracked) /\ made \in Nat
      BY <3>1, FramesDetected DEF FeederTypes, Known, TrackTypes
    <3>3. PICK j \in 1..Len(dets) : dets[j] = shows[d]
      <4>1. d \in 1..Len(shows) /\ shows[d].passed
        BY <1>1
      <4> HIDE DEF shows
      <4>2. QED BY <3>2, <4>1, GatedKnown
    <3>4. dets \in Seq(Detected) /\ tracks' = up
      BY <1>1, <2>1, Processed
    <3>5. dets[j].box = tracks[i].box
      BY <1>1, <3>3
    <3> HIDE DEF dets
    <3>6. PICK q \in Matching(tracks, dets) : q[1] = i /\ dets[q[2]].box = tracks[i].box
      BY <1>1, <3>2, <3>4, <3>5, AloneMatched
    <3>7. \E k \in 1..Len(up) : up[k].id = tracks[q[1]].id /\ up[k].box = dets[q[2]].box
      <4>1. tracks \in Seq(Tracked) /\ dets \in Seq(Detected) /\ made \in Nat
        BY <3>2, <3>4
      <4>2. PICK m, l, all, n, o : Parts(tracks, dets, made, m, l, all, n, o)
        BY <4>1, UpdateParts
      <4>3. QED BY <4>1, <4>2, UpdateKeeps
    <3> HIDE DEF up
    <3>8. QED BY <3>4, <3>6, <3>7
  <2>2. CASE Idle \/ Publish \/ PublishRaises
    <3>1. tracks' = tracks
      BY <2>2, IdleLeaves DEF tracking, Publish, PublishRaises
    <3>2. QED BY <3>1
  <2>3. QED BY <1>1, <2>1, <2>2, NextSplit
<1> DEFINE KeepsStill ==
      \A i \in 1..Len(tracks) :
       /\ \A j \in 1..Len(tracks) : tracks[j].box = tracks[i].box => i = j
       /\ \E d \in 1..Len(latest.shows) :
            latest.shows[d].passed /\ latest.shows[d].box = tracks[i].box
       /\ Area(tracks[i].box) > 0
       => \E k \in 1..Len(tracks') :
            tracks'[k].id = tracks[i].id /\ tracks'[k].box = tracks[i].box
<1>2. CameraInv /\ [Next]_vars => KeepsStill
  BY <1>1
<1>3. CameraInv /\ [Next]_vars => [KeepsStill]_vars
  BY <1>2
<1>4. QED BY <1>3, CameraAlways, PTL DEF Spec, StillKeepsTrack

-----------------------------------------------------------------------------
(* Stopping *)

\* The thread of a stopped feeder is at its end, or stop() gave up on it; and it
\* started before stop() did.
StopInv ==
  /\ loop = "start" => thread = "none"
  /\ loop \in {"join", "release", "stopped"} => ~running
  /\ loop \in {"release", "stopped"} /\ ~gaveUp => thread = "none"
  /\ loop = "stopped" /\ ~gaveUp => cap = "none" /\ ~connected

LEMMA StopInit == Init => StopInv
BY DEF Init, StopInv

\* A thread at work is one that stop() has not waited for.
LEMMA CaptureKeeps == StopInv /\ Capture => StopInv'
<1> SUFFICES ASSUME StopInv, Capture PROVE StopInv'
  OBVIOUS
<1>1. thread # "none" /\ UNCHANGED <<loop, gaveUp>> /\ (running' => running)
  BY DEF Capture, TestRunning, ReadFrame, ReadFails,
         DropCapture, ReopenSucceeds, ReopenFails
<1>2. QED BY <1>1 DEF StopInv

LEMMA ProcessingKeeps ==
  StopInv /\ (ProcessFrame \/ Publish \/ PublishRaises) => StopInv'
<1> SUFFICES ASSUME StopInv, ProcessFrame \/ Publish \/ PublishRaises
             PROVE  StopInv'
  OBVIOUS
<1>1. UNCHANGED feeder
  BY DEF ProcessFrame, Publish, PublishRaises
<1>2. loop' \in {"run", "publish"}
  BY DEF ProcessFrame, Publish, PublishRaises
<1>3. QED BY <1>1, <1>2 DEF StopInv, feeder

LEMMA LoopKeeps == StopInv /\ Loop => StopInv'
<1> SUFFICES ASSUME StopInv, Loop PROVE StopInv'
  OBVIOUS
<1>1. CASE Start
  BY <1>1 DEF StopInv, Start
<1>2. CASE StartFails
  BY <1>2 DEF StopInv, StartFails
<1>3. CASE ProcessFrame \/ Publish \/ PublishRaises
  BY <1>3, ProcessingKeeps
<1>4. CASE Stop
  BY <1>4 DEF StopInv, Stop
<1>5. CASE Join
  BY <1>5 DEF StopInv, Join, feeder
<1>6. CASE JoinTimesOut
  BY <1>6 DEF StopInv, JoinTimesOut
<1>7. CASE Release
  BY <1>7 DEF StopInv, Release
<1>8. QED BY <1>1, <1>2, <1>3, <1>4, <1>5, <1>6, <1>7 DEF Loop

\* video_feeder.py stop: when it was able to wait for the capture thread, the
\* thread has ended and the source stays released.
THEOREM StopReleases == Spec => []StoppedClean
<1>1. StopInv /\ [Next]_vars => StopInv'
  <2>1. StopInv /\ UNCHANGED vars => StopInv'
    BY DEF StopInv, vars
  <2>2. QED BY <2>1, CaptureKeeps, LoopKeeps DEF Next
<1>2. StopInv => StoppedClean
  BY DEF StopInv, StoppedClean
<1>3. QED BY StopInit, <1>1, <1>2, PTL DEF Spec
=============================================================================
