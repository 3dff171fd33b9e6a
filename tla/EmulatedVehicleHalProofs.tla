---------------------- MODULE EmulatedVehicleHalProofs ----------------------
(***************************************************************************)
(* Proofs about EmulatedVehicleHal, for any configuration to watch, any    *)
(* threads and any requests: its events tell what is stored, its checks    *)
(* permit what is written, its reads are answered, freeze frames stay      *)
(* until they are cleared, and the hub's queue holds an event of each      *)
(* generator.                                                              *)
(*                                                                         *)
(* The lemmas count the events of the queue, show that the table of        *)
(* properties and the ids of records fit each other, and say what a step   *)
(* of Next does to each part of the state; the invariant is kept part by   *)
(* part from these.                                                        *)
(***************************************************************************)
EXTENDS EmulatedVehicleHal, SelectionProofs, FiniteSetTheorems, TLAPS

-----------------------------------------------------------------------------
(***************************************************************************)
(* The queue of the hub, by the number of its events of each cookie.       *)
(***************************************************************************)

OfCookie(q, c) == {i \in DOMAIN q : q[i].cookie = c}
Count(q, c) == Cardinality(OfCookie(q, c))

\* A sequence, of whatever elements it has.
IsSeq(q) == q \in Seq(ToSet(q))

LEMMA SeqOfItsElements ==
    ASSUME NEW T, NEW q \in Seq(T)
    PROVE  IsSeq(q)
BY DEF IsSeq, ToSet

LEMMA OfCookieIsFinite ==
    ASSUME NEW T, NEW q \in Seq(T), NEW c
    PROVE  IsFiniteSet(OfCookie(q, c)) /\ Count(q, c) \in Nat
<1>1. IsFiniteSet(1 .. Len(q))
  BY FS_Interval
<1>2. OfCookie(q, c) \in SUBSET (1 .. Len(q))
  BY DEF OfCookie
<1>3. QED
  BY <1>1, <1>2, FS_Subset, FS_CardinalityType DEF Count

\* The elements of a sequence with another one inserted.
LEMMA InsertedElements ==
    ASSUME NEW T, NEW q \in Seq(T), NEW e \in T, NEW k \in 1 .. Len(q) + 1
    PROVE  /\ InsertAt(q, k, e) \in Seq(T)
           /\ Len(InsertAt(q, k, e)) = Len(q) + 1
           /\ \A i \in 1 .. Len(q) + 1 :
                 InsertAt(q, k, e)[i] =
                     IF i < k THEN q[i] ELSE IF i = k THEN e ELSE q[i - 1]
<1> DEFINE a == SubSeq(q, 1, k - 1)
           b == <<e>>
           d == SubSeq(q, k, Len(q))
<1>1. /\ a \in Seq(T) /\ Len(a) = k - 1
      /\ \A i \in 1 .. k - 1 : a[i] = q[i]
  OBVIOUS
<1>2. /\ d \in Seq(T) /\ Len(d) = Len(q) + 1 - k
      /\ \A i \in 1 .. Len(q) + 1 - k : d[i] = q[k + i - 1]
  OBVIOUS
<1>3. b \in Seq(T) /\ Len(b) = 1 /\ b[1] = e
  OBVIOUS
<1>4. InsertAt(q, k, e) = (a \o b) \o d
  BY DEF InsertAt
<1> HIDE DEF a, b, d
<1>5. /\ a \o b \in Seq(T) /\ Len(a \o b) = k
      /\ \A i \in 1 .. k : (a \o b)[i] = IF i < k THEN q[i] ELSE e
  <2>1. PICK x \in Seq(T), y \in Seq(T), m \in Nat : x = a /\ y = b /\ m = k - 1
    BY <1>1, <1>3
  <2>2. Len(x) = m /\ Len(y) = 1 /\ k = m + 1
    BY <2>1, <1>1, <1>3
  <2>3. /\ x \o y \in Seq(T) /\ Len(x \o y) = Len(x) + Len(y)
        /\ \A i \in 1 .. Len(x) + Len(y) :
              (x \o y)[i] = IF i <= Len(x) THEN x[i] ELSE y[i - Len(x)]
    BY <2>1
  <2>4. /\ x \o y \in Seq(T) /\ Len(x \o y) = k
        /\ \A i \in 1 .. k : (x \o y)[i] = IF i < k THEN x[i] ELSE y[1]
    BY <2>2, <2>3
  <2>5. y[1] = e /\ \A i \in 1 .. k : i < k => x[i] = q[i]
    BY <2>1, <1>1, <1>3
  <2>6. QED
    BY <2>1, <2>4, <2>5
<1>6. /\ (a \o b) \o d \in Seq(T) /\ Len((a \o b) \o d) = Len(q) + 1
      /\ \A i \in 1 .. Len(q) + 1 :
            ((a \o b) \o d)[i] = IF i <= k THEN (a \o b)[i] ELSE d[i - k]
  <2>1. PICK x \in Seq(T), y \in Seq(T) : x = a \o b /\ y = d
    BY <1>2, <1>5
  <2>2. Len(x) = k /\ Len(y) = Len(q) + 1 - k
    BY <2>1, <1>2, <1>5
  <2>3. /\ x \o y \in Seq(T) /\ Len(x \o y) = Len(x) + Len(y)
        /\ \A i \in 1 .. Len(x) + Len(y) :
              (x \o y)[i] = IF i <= Len(x) THEN x[i] ELSE y[i - Len(x)]
    OBVIOUS
  <2>4. /\ x \o y \in Seq(T) /\ Len(x \o y) = Len(q) + 1
        /\ \A i \in 1 .. Len(q) + 1 :
              (x \o y)[i] = IF i <= k THEN x[i] ELSE y[i - k]
    BY <2>2, <2>3
  <2>5. QED
    BY <2>1, <2>4
<1>7. ASSUME NEW i \in 1 .. Len(q) + 1
      PROVE  ((a \o b) \o d)[i] = IF i < k THEN q[i] ELSE IF i = k THEN e ELSE q[i - 1]
  <2>1. CASE i <= k
    BY <2>1, <1>5, <1>6
  <2>2. CASE i > k
    <3>1. i - k \in 1 .. Len(q) + 1 - k /\ k + (i - k) - 1 = i - 1
      BY <2>2
    <3>2. QED
      BY <3>1, <2>2, <1>2, <1>6
  <2>3. i <= k \/ i > k
    OBVIOUS
  <2>4. QED
    BY <2>1, <2>2, <2>3
<1>8. QED
  BY <1>4, <1>6, <1>7

\* An inserted event adds one to the count of its cookie.
LEMMA InsertedCount ==
    ASSUME NEW T, NEW q \in Seq(T), NEW e \in T, NEW k \in 1 .. Len(q) + 1, NEW c
    PROVE  Count(InsertAt(q, k, e), c) =
               IF e.cookie = c THEN Count(q, c) + 1 ELSE Count(q, c)
<1> DEFINE r == InsertAt(q, k, e)
           moved(i) == IF i < k THEN i ELSE i + 1
           image == {i \in DOMAIN r : i # k /\ r[i].cookie = c}
           f == [i \in OfCookie(q, c) |-> IF i < k THEN i ELSE i + 1]
<1>1. /\ r \in Seq(T) /\ Len(r) = Len(q) + 1 /\ DOMAIN r = 1 .. Len(q) + 1
      /\ \A i \in 1 .. Len(q) + 1 :
            r[i] = IF i < k THEN q[i] ELSE IF i = k THEN e ELSE q[i - 1]
  BY InsertedElements
<1> HIDE DEF r
<1>2. DOMAIN q = 1 .. Len(q) /\ Len(q) \in Nat
  OBVIOUS
<1>3. f \in [OfCookie(q, c) -> image]
  <2>1. ASSUME NEW i \in OfCookie(q, c) PROVE f[i] \in image
    <3>1. i \in 1 .. Len(q) /\ q[i].cookie = c /\ f[i] = IF i < k THEN i ELSE i + 1
      BY <1>2 DEF OfCookie
    <3>2. CASE i < k
      BY <3>1, <3>2, <1>1
    <3>3. CASE ~(i < k)
      <4>1. i + 1 \in 1 .. Len(q) + 1 /\ ~(i + 1 < k) /\ i + 1 # k /\ (i + 1) - 1 = i
        BY <3>1, <3>3
      <4>2. QED
        BY <3>1, <3>3, <4>1, <1>1
    <3>4. QED
      BY <3>2, <3>3
  <2>2. QED
    BY <2>1
<1>4. \A i, j \in OfCookie(q, c) : f[i] = f[j] => i = j
  BY <1>2 DEF OfCookie
<1>5. ASSUME NEW j \in image PROVE \E i \in OfCookie(q, c) : f[i] = j
  <2>1. CASE j < k
    BY <2>1, <1>1, <1>2 DEF OfCookie
  <2>2. CASE j > k
    <3>1. j - 1 \in OfCookie(q, c) /\ ~(j - 1 < k)
      BY <2>2, <1>1, <1>2 DEF OfCookie
    <3>2. f[j - 1] = j
      BY <3>1, <1>1, <1>2
    <3>3. QED
      BY <3>1, <3>2
  <2>3. QED
    BY <2>1, <2>2, <1>1
<1>6. ExistsBijection(OfCookie(q, c), image)
  <2> HIDE DEF f, image
  <2>1. f \in Bijection(OfCookie(q, c), image)
    BY <1>3, <1>4, <1>5 DEF Bijection, Injection, Surjection, IsInjective
  <2>2. QED
    BY <2>1 DEF ExistsBijection
<1>7. IsFiniteSet(image) /\ Cardinality(image) = Count(q, c)
  BY <1>6, OfCookieIsFinite, FS_Bijection DEF Count
<1>8. CASE e.cookie = c
  <2>1. OfCookie(r, c) = image \cup {k} /\ k \notin image
    BY <1>8, <1>1 DEF OfCookie
  <2> HIDE DEF image
  <2>2. QED
    BY <1>7, <1>8, <2>1, FS_AddElement DEF Count, r
<1>9. CASE e.cookie # c
  <2>1. OfCookie(r, c) = image
    BY <1>9, <1>1 DEF OfCookie
  <2> HIDE DEF image
  <2>2. QED
    BY <1>7, <1>9, <2>1 DEF Count, r
<1>10. QED
  BY <1>8, <1>9

\* So does Push.
LEMMA PushCounts ==
    ASSUME NEW T, NEW q \in Seq(T), NEW e \in T
    PROVE  /\ Push(q, e) \in Seq(T)
           /\ Push(q, e) # <<>>
           /\ \A c : Count(Push(q, e), c) =
                         IF e.cookie = c THEN Count(q, c) + 1 ELSE Count(q, c)
<1> DEFINE earlier == {i \in DOMAIN q : q[i].due <= e.due}
           k == Cardinality(earlier) + 1
<1>1. IsFiniteSet(1 .. Len(q)) /\ Cardinality(1 .. Len(q)) = Len(q)
  <2>1. PICK n \in Int : n = Len(q) /\ n >= 0 /\ 1 \in Int
    OBVIOUS
  <2>2. IsFiniteSet(1 .. n) /\ Cardinality(1 .. n) = IF 1 > n THEN 0 ELSE n - 1 + 1
    BY <2>1, FS_Interval
  <2>3. QED
    BY <2>1, <2>2
<1>2. earlier \in SUBSET (1 .. Len(q))
  OBVIOUS
<1>3. Push(q, e) = InsertAt(q, k, e)
  BY DEF Push
<1> HIDE DEF earlier
<1>4. Cardinality(earlier) \in Nat /\ Cardinality(earlier) <= Len(q)
  BY <1>1, <1>2, FS_Subset, FS_CardinalityType
<1>5. k \in 1 .. Len(q) + 1
  BY <1>4
<1> HIDE DEF k
<1>6. Push(q, e) \in Seq(T) /\ Len(Push(q, e)) = Len(q) + 1
  BY <1>3, <1>5, InsertedElements
<1>7. QED
  BY <1>3, <1>5, <1>6, InsertedCount

\* Inserting what was removed gives the queue back.
LEMMA InsertRemoved ==
    ASSUME NEW T, NEW q \in Seq(T), NEW k \in 1 .. Len(q)
    PROVE  /\ RemoveAt(q, k) \in Seq(T)
           /\ Len(RemoveAt(q, k)) = Len(q) - 1
           /\ InsertAt(RemoveAt(q, k), k, q[k]) = q
<1> DEFINE a == SubSeq(q, 1, k - 1)
           d == SubSeq(q, k + 1, Len(q))
           r == RemoveAt(q, k)
<1>1. /\ a \in Seq(T) /\ Len(a) = k - 1
      /\ \A i \in 1 .. k - 1 : a[i] = q[i]
  OBVIOUS
<1>2. /\ d \in Seq(T) /\ Len(d) = Len(q) - k
      /\ \A i \in 1 .. Len(q) - k : d[i] = q[k + i]
  OBVIOUS
<1>3. r = a \o d
  BY DEF RemoveAt
<1> HIDE DEF a, d, r
<1>4. /\ r \in Seq(T) /\ Len(r) = Len(q) - 1
      /\ \A i \in 1 .. k - 1 : r[i] = q[i]
      /\ \A i \in k .. Len(q) - 1 : r[i] = d[i - k + 1]
  <2>1. PICK x \in Seq(T), y \in Seq(T) : x = a /\ y = d
    BY <1>1, <1>2
  <2>2. /\ x \o y \in Seq(T) /\ Len(x \o y) = Len(x) + Len(y)
        /\ \A i \in 1 .. Len(x) + Len(y) :
              (x \o y)[i] = IF i <= Len(x) THEN x[i] ELSE y[i - Len(x)]
    OBVIOUS
  <2>3. Len(x) = k - 1 /\ Len(y) = Len(q) - k
    BY <2>1, <1>1, <1>2
  <2>4. /\ x \o y \in Seq(T) /\ Len(x \o y) = Len(q) - 1
        /\ \A i \in 1 .. k - 1 : (x \o y)[i] = x[i]
        /\ \A i \in k .. Len(q) - 1 : (x \o y)[i] = y[i - (k - 1)]
    <3>1. Len(x) + Len(y) = Len(q) - 1
      BY <2>3
    <3>2. \A i \in 1 .. k - 1 : i \in 1 .. Len(q) - 1 /\ i <= k - 1
      OBVIOUS
    <3>3. \A i \in k .. Len(q) - 1 : i \in 1 .. Len(q) - 1 /\ ~(i <= k - 1)
      OBVIOUS
    <3>4. QED
      BY <2>2, <2>3, <3>1, <3>2, <3>3
  <2>5. \A i \in k .. Len(q) - 1 : i - (k - 1) = i - k + 1
    OBVIOUS
  <2>6. \A i \in 1 .. k - 1 : x[i] = q[i]
    BY <2>1, <1>1
  <2>7. QED
    BY <2>1, <2>4, <2>5, <2>6, <1>3
<1>5. \A i \in k .. Len(q) - 1 : r[i] = q[i + 1]
  <2>1. ASSUME NEW i \in k .. Len(q) - 1 PROVE d[i - k + 1] = q[i + 1]
    <3>1. i - k + 1 \in 1 .. Len(q) - k /\ k + (i - k + 1) = i + 1
      OBVIOUS
    <3>2. QED
      BY <3>1, <1>2
  <2>2. QED
    BY <2>1, <1>4
<1>6. q[k] \in T /\ k \in 1 .. Len(r) + 1 /\ Len(r) + 1 = Len(q)
  BY <1>4
<1>7. PICK e \in T : e = q[k]
  BY <1>6
<1>8. /\ InsertAt(r, k, e) \in Seq(T)
      /\ Len(InsertAt(r, k, e)) = Len(r) + 1
      /\ \A i \in 1 .. Len(r) + 1 :
            InsertAt(r, k, e)[i] = IF i < k THEN r[i] ELSE IF i = k THEN e ELSE r[i - 1]
  BY <1>4, <1>6, InsertedElements
<1> DEFINE w == InsertAt(r, k, e)
<1> HIDE DEF w
<1>9. ASSUME NEW i \in 1 .. Len(q) PROVE w[i] = q[i]
  <2>1. CASE i < k
    BY <2>1, <1>4, <1>6, <1>8 DEF w
  <2>2. CASE i = k
    BY <2>2, <1>6, <1>7, <1>8 DEF w
  <2>3. CASE i > k
    <3>1. i - 1 \in k .. Len(q) - 1 /\ (i - 1) + 1 = i
      BY <2>3
    <3>2. w[i] = r[i - 1]
      BY <2>3, <1>6, <1>8 DEF w
    <3>3. QED
      BY <3>1, <3>2, <1>5
  <2>4. QED
    BY <2>1, <2>2, <2>3
<1>10. w \in Seq(T) /\ Len(w) = Len(q)
  BY <1>6, <1>8 DEF w
<1>11. w = q
  BY <1>9, <1>10
<1>12. QED
  BY <1>4, <1>7, <1>11 DEF r, w

\* A queue is its tail with its head put in front.
LEMMA HeadIsInserted ==
    ASSUME NEW T, NEW q \in Seq(T), q # <<>>
    PROVE  /\ Tail(q) \in Seq(T) /\ Head(q) \in T
           /\ q = InsertAt(Tail(q), 1, Head(q))
<1>1. /\ Tail(q) \in Seq(T) /\ Len(Tail(q)) = Len(q) - 1 /\ Len(q) \in Nat \ {0}
      /\ \A i \in 1 .. Len(q) - 1 : Tail(q)[i] = q[i + 1]
      /\ Head(q) \in T /\ Head(q) = q[1]
  OBVIOUS
<1>2. PICK e \in T, r \in Seq(T) : e = Head(q) /\ r = Tail(q)
  BY <1>1
<1>3. 1 \in 1 .. Len(r) + 1
  BY <1>1, <1>2
<1>4. /\ InsertAt(r, 1, e) \in Seq(T)
      /\ Len(InsertAt(r, 1, e)) = Len(r) + 1
      /\ \A i \in 1 .. Len(r) + 1 :
            InsertAt(r, 1, e)[i] = IF i < 1 THEN r[i] ELSE IF i = 1 THEN e ELSE r[i - 1]
  BY <1>3, InsertedElements
<1>5. ASSUME NEW i \in 1 .. Len(q) PROVE InsertAt(r, 1, e)[i] = q[i]
  <2>1. CASE i = 1
    BY <2>1, <1>1, <1>2, <1>4
  <2>2. CASE i > 1
    <3>1. i - 1 \in 1 .. Len(q) - 1 /\ (i - 1) + 1 = i
      BY <2>2
    <3>2. QED
      BY <3>1, <2>2, <1>1, <1>2, <1>4
  <2>3. QED
    BY <2>1, <2>2
<1>6. InsertAt(r, 1, e) = q
  BY <1>1, <1>2, <1>4, <1>5
<1>7. QED
  BY <1>1, <1>2, <1>6

\* Popping takes one from the count of the first event's cookie.
LEMMA PoppedCounts ==
    ASSUME NEW T, NEW q \in Seq(T), q # <<>>, NEW p \in Popped(q)
    PROVE  /\ p \in Seq(T)
           /\ \A c : Count(q, c) =
                         IF Head(q).cookie = c THEN Count(p, c) + 1 ELSE Count(p, c)
<1>1. PICK e \in T, rest \in Seq(T) :
          e = Head(q) /\ rest = Tail(q) /\ q = InsertAt(rest, 1, e)
  BY HeadIsInserted
<1>2. 1 \in 1 .. Len(rest) + 1
  OBVIOUS
<1>3. \A c : Count(q, c) = IF e.cookie = c THEN Count(rest, c) + 1 ELSE Count(rest, c)
  <2>1. \A c : Count(InsertAt(rest, 1, e), c) =
                   IF e.cookie = c THEN Count(rest, c) + 1 ELSE Count(rest, c)
    BY <1>2, InsertedCount
  <2>2. QED
    BY <2>1, <1>1
<1>4. p \in Seq(T) /\ \A c : Count(p, c) = Count(rest, c)
  <2>1. CASE rest = <<>>
    BY <2>1, <1>1 DEF Popped
  <2>2. CASE rest # <<>>
    <3>1. PICK i \in DOMAIN rest : p = <<rest[i]>> \o RemoveAt(rest, i)
      BY <2>2, <1>1 DEF Popped
    <3>2. i \in 1 .. Len(rest) /\ rest[i] \in T
      BY <3>1
    <3>3. PICK r \in Seq(T), x \in T :
              r = RemoveAt(rest, i) /\ x = rest[i] /\ Len(r) = Len(rest) - 1
              /\ InsertAt(r, i, x) = rest
      BY <3>2, InsertRemoved
    <3>4. i \in 1 .. Len(r) + 1 /\ 1 \in 1 .. Len(r) + 1
      BY <3>2, <3>3
    <3>5. p = InsertAt(r, 1, x)
      <4>1. InsertAt(r, 1, x) = SubSeq(r, 1, 1 - 1) \o <<x>> \o SubSeq(r, 1, Len(r))
        BY DEF InsertAt
      <4>2. SubSeq(r, 1, 1 - 1) = <<>> /\ SubSeq(r, 1, Len(r)) = r
        OBVIOUS
      <4>3. <<>> \o <<x>> = <<x>>
        OBVIOUS
      <4>4. QED
        BY <4>1, <4>2, <4>3, <3>1, <3>3
    <3>6. \A c : Count(p, c) = Count(rest, c)
      BY <3>3, <3>4, <3>5, InsertedCount
    <3>7. p \in Seq(T)
      BY <3>4, <3>5, InsertedElements
    <3>8. QED
      BY <3>6, <3>7
  <2>3. QED
    BY <2>1, <2>2
<1>5. QED
  BY <1>1, <1>3, <1>4

-----------------------------------------------------------------------------
(***************************************************************************)
(* The table of properties: what the proofs need of its rows.              *)
(***************************************************************************)

\* No property is called "none", live frames are global, and the property
\* that clears the freeze frames cannot be read.
Proper(row) ==
    /\ row.prop # "none"
    /\ row.prop = "OBD2_LIVE_FRAME" => row.areaConfigs = {}
    /\ row.prop = "OBD2_FREEZE_FRAME_CLEAR" => row.access = "WRITE"

LEMMA GlobalIsProper ==
    ASSUME NEW p, NEW t, NEW a, NEW c, NEW v, p # "none",
           p = "OBD2_FREEZE_FRAME_CLEAR" => a = "WRITE"
    PROVE  Proper(Global(p, t, a, c, v))
BY DEF Proper, Global

LEMMA ZonedIsProper ==
    ASSUME NEW p, NEW t, NEW a, NEW c, NEW areas, NEW v,
           p \notin {"none", "OBD2_LIVE_FRAME", "OBD2_FREEZE_FRAME_CLEAR"}
    PROVE  Proper(Zoned(p, t, a, c, areas, v))
BY DEF Proper, Global, Zoned

LEMMA PerAreaIsProper ==
    ASSUME NEW p, NEW t, NEW a, NEW c, NEW values,
           p \notin {"none", "OBD2_LIVE_FRAME", "OBD2_FREEZE_FRAME_CLEAR"}
    PROVE  Proper(PerArea(p, t, a, c, values))
BY DEF Proper, Global, PerArea

LEMMA SampledIsProper ==
    ASSUME NEW row, NEW lowest, NEW highest, Proper(row)
    PROVE  Proper(Sampled(row, lowest, highest))
BY DEF Proper, Sampled

LEMMA ListsAreSequences ==
    /\ InfoProperties \in Seq(ToSet(InfoProperties))
    /\ DrivingProperties \in Seq(ToSet(DrivingProperties))
    /\ MotionProperties \in Seq(ToSet(MotionProperties))
    /\ HvacProperties \in Seq(ToSet(HvacProperties))
    /\ CabinProperties \in Seq(ToSet(CabinProperties))
    /\ BodyProperties \in Seq(ToSet(BodyProperties))
    /\ SystemProperties \in Seq(ToSet(SystemProperties))
    /\ LightProperties \in Seq(ToSet(LightProperties))
    /\ VendorProperties \in Seq(ToSet(VendorProperties))
<1>1. InfoProperties \in Seq(ToSet(InfoProperties))
  BY DEF InfoProperties, ToSet
<1>2. DrivingProperties \in Seq(ToSet(DrivingProperties))
  BY DEF DrivingProperties, ToSet
<1>3. MotionProperties \in Seq(ToSet(MotionProperties))
  BY DEF MotionProperties, ToSet
<1>4. HvacProperties \in Seq(ToSet(HvacProperties))
  BY DEF HvacProperties, ToSet
<1>5. CabinProperties \in Seq(ToSet(CabinProperties))
  BY DEF CabinProperties, ToSet
<1>6. BodyProperties \in Seq(ToSet(BodyProperties))
  BY DEF BodyProperties, ToSet
<1>7. SystemProperties \in Seq(ToSet(SystemProperties))
  BY DEF SystemProperties, ToSet
<1>8. LightProperties \in Seq(ToSet(LightProperties))
  BY DEF LightProperties, ToSet
<1>9. VendorProperties \in Seq(ToSet(VendorProperties))
  BY DEF VendorProperties, ToSet
<1>10. QED
  BY <1>1, <1>2, <1>3, <1>4, <1>5, <1>6, <1>7, <1>8, <1>9

LEMMA ListsAreProper ==
    /\ \A i \in DOMAIN InfoProperties : Proper(InfoProperties[i])
    /\ \A i \in DOMAIN DrivingProperties : Proper(DrivingProperties[i])
    /\ \A i \in DOMAIN MotionProperties : Proper(MotionProperties[i])
    /\ \A i \in DOMAIN HvacProperties : Proper(HvacProperties[i])
    /\ \A i \in DOMAIN CabinProperties : Proper(CabinProperties[i])
    /\ \A i \in DOMAIN BodyProperties : Proper(BodyProperties[i])
    /\ \A i \in DOMAIN SystemProperties : Proper(SystemProperties[i])
    /\ \A i \in DOMAIN LightProperties : Proper(LightProperties[i])
    /\ \A i \in DOMAIN VendorProperties : Proper(VendorProperties[i])
<1>1. \A i \in DOMAIN InfoProperties : Proper(InfoProperties[i])
  BY GlobalIsProper DEF InfoProperties
<1>2. \A i \in DOMAIN DrivingProperties : Proper(DrivingProperties[i])
  BY GlobalIsProper, SampledIsProper DEF DrivingProperties
<1>3. \A i \in DOMAIN MotionProperties : Proper(MotionProperties[i])
  BY GlobalIsProper, ZonedIsProper, SampledIsProper DEF MotionProperties
<1>4. \A i \in DOMAIN HvacProperties : Proper(HvacProperties[i])
  BY GlobalIsProper, ZonedIsProper DEF HvacProperties
<1>5. \A i \in DOMAIN CabinProperties : Proper(CabinProperties[i])
  <2> DEFINE temperatures == "HVAC_LEFT" :> <<16>> @@ "HVAC_RIGHT" :> <<20>>
             row == PerArea("HVAC_TEMPERATURE_SET", "FLOAT", "READ_WRITE", "ON_CHANGE",
                            temperatures)
  <2>1. Proper(row)
    <3> HIDE DEF temperatures
    <3>1. QED
      BY PerAreaIsProper
  <2>2. \A i \in DOMAIN CabinProperties : i # 1 => Proper(CabinProperties[i])
    BY GlobalIsProper, SampledIsProper DEF CabinProperties
  <2>3. CabinProperties[1] = row
    BY DEF CabinProperties
  <2>4. QED
    BY <2>1, <2>2, <2>3
<1>6. \A i \in DOMAIN BodyProperties : Proper(BodyProperties[i])
  BY GlobalIsProper, ZonedIsProper, PerAreaIsProper, SampledIsProper DEF BodyProperties
<1>7. \A i \in DOMAIN SystemProperties : Proper(SystemProperties[i])
  BY GlobalIsProper DEF SystemProperties
<1>8. \A i \in DOMAIN LightProperties : Proper(LightProperties[i])
  BY GlobalIsProper DEF LightProperties
<1>9. \A i \in DOMAIN VendorProperties : Proper(VendorProperties[i])
  <2>1. /\ Proper(VendorProperties[1]) /\ Proper(VendorProperties[5])
        /\ DOMAIN VendorProperties = 1 .. 5
    BY GlobalIsProper DEF VendorProperties
  <2>2. Proper(VendorProperties[2])
    BY PerAreaIsProper DEF VendorProperties
  <2>3. Proper(VendorProperties[3])
    BY PerAreaIsProper DEF VendorProperties
  <2>4. Proper(VendorProperties[4])
    BY PerAreaIsProper DEF VendorProperties
  <2>5. \A i \in 1 .. 5 : i = 1 \/ i = 2 \/ i = 3 \/ i = 4 \/ i = 5
    OBVIOUS
  <2>6. QED
    BY <2>1, <2>2, <2>3, <2>4, <2>5
<1>10. QED
  BY <1>1, <1>2, <1>3, <1>4, <1>5, <1>6, <1>7, <1>8, <1>9

LEMMA ConcatIsProper ==
    ASSUME NEW s, NEW t, s \in Seq(ToSet(s)), t \in Seq(ToSet(t)),
           \A i \in DOMAIN s : Proper(s[i]), \A i \in DOMAIN t : Proper(t[i])
    PROVE  /\ s \o t \in Seq(ToSet(s \o t))
           /\ \A i \in DOMAIN (s \o t) : Proper((s \o t)[i])
<1> DEFINE T == ToSet(s) \cup ToSet(t)
<1>1. s \in Seq(T) /\ t \in Seq(T)
  OBVIOUS
<1>2. /\ s \o t \in Seq(T) /\ Len(s \o t) = Len(s) + Len(t)
      /\ \A i \in 1 .. Len(s) + Len(t) :
            (s \o t)[i] = IF i <= Len(s) THEN s[i] ELSE t[i - Len(s)]
  BY <1>1, ConcatProperties
<1>3. s \o t \in Seq(ToSet(s \o t))
  BY <1>2, SeqOfItsElements DEF IsSeq
<1>4. ASSUME NEW i \in DOMAIN (s \o t) PROVE Proper((s \o t)[i])
  <2>1. i \in 1 .. Len(s) + Len(t)
    BY <1>2
  <2>2. CASE i <= Len(s)
    <3>1. i \in DOMAIN s /\ (s \o t)[i] = s[i]
      BY <2>1, <2>2, <1>2
    <3>2. QED
      BY <3>1
  <2>3. CASE ~(i <= Len(s))
    <3>1. i - Len(s) \in DOMAIN t /\ (s \o t)[i] = t[i - Len(s)]
      BY <2>1, <2>3, <1>2
    <3>2. QED
      BY <3>1
  <2>4. QED
    BY <2>2, <2>3
<1>5. QED
  BY <1>3, <1>4

LEMMA TableIsProper ==
    /\ kVehicleProperties \in Seq(ToSet(kVehicleProperties))
    /\ \A i \in DOMAIN kVehicleProperties : Proper(kVehicleProperties[i])
<1> DEFINE Good(s) == s \in Seq(ToSet(s)) /\ \A i \in DOMAIN s : Proper(s[i])
<1>1. \A s, t : Good(s) /\ Good(t) => Good(s \o t)
  BY ConcatIsProper
<1>2. /\ Good(InfoProperties) /\ Good(DrivingProperties) /\ Good(MotionProperties)
      /\ Good(HvacProperties) /\ Good(CabinProperties) /\ Good(BodyProperties)
      /\ Good(SystemProperties) /\ Good(LightProperties) /\ Good(VendorProperties)
  BY ListsAreSequences, ListsAreProper
<1> HIDE DEF Good
<1>3. Good(kVehicleProperties)
  BY <1>1, <1>2 DEF kVehicleProperties
<1>4. QED
  BY <1>3 DEF Good

LEMMA RegistrationFields ==
    ASSUME NEW row, NEW byTimestamp
    PROVE  /\ Registration(row, byTimestamp).row = row
           /\ Registration(row, byTimestamp).byTimestamp = byTimestamp
BY Zenon DEF Registration

\* Every property is registered twice, and the first time counts: only the
\* records of freeze frames are told apart by their timestamps.
LEMMA ConfigOf ==
    ASSUME NEW p \in DOMAIN mConfigs
    PROVE  /\ Proper(mConfigs[p].row)
           /\ mConfigs[p].row.prop = p
           /\ p = FREEZE_FRAME => mConfigs[p].byTimestamp = TRUE
           /\ p # FREEZE_FRAME => mConfigs[p].byTimestamp = FALSE
<1> DEFINE first == [i \in DOMAIN kVehicleProperties |->
                        Registration(kVehicleProperties[i],
                                     kVehicleProperties[i].prop = FREEZE_FRAME)]
           second == [i \in DOMAIN kVehicleProperties |->
                         Registration(kVehicleProperties[i], FALSE)]
           T == ToSet(first) \cup ToSet(second)
           K == kVehicleProperties
           regs == first \o second
<1>1. PICK n \in Nat : n = Len(K) /\ DOMAIN K = 1 .. n
  BY TableIsProper
<1>2. /\ first \in Seq(T) /\ Len(first) = n
      /\ second \in Seq(T) /\ Len(second) = n
  <2>1. first \in [1 .. n -> T] /\ second \in [1 .. n -> T]
    BY <1>1 DEF ToSet
  <2> HIDE DEF first, second, T
  <2>2. QED
    BY <2>1
<1>3. initStaticConfig = first
  BY DEF initStaticConfig
<1>4. mConfigs = Registered(regs)
  BY <1>3 DEF mConfigs
<1>5. /\ \A i \in 1 .. n : first[i] = Registration(K[i], K[i].prop = FREEZE_FRAME)
      /\ \A i \in 1 .. n : second[i] = Registration(K[i], FALSE)
  BY <1>1
<1> HIDE DEF first, second, T, K
<1>6. /\ DOMAIN regs = 1 .. n + n
      /\ \A i \in 1 .. n + n : regs[i] = IF i <= n THEN first[i] ELSE second[i - n]
  <2>1. /\ regs \in Seq(T) /\ Len(regs) = Len(first) + Len(second)
        /\ \A i \in 1 .. Len(first) + Len(second) :
              regs[i] = IF i <= Len(first) THEN first[i] ELSE second[i - Len(first)]
    BY <1>2, ConcatProperties
  <2>2. QED
    BY <1>2, <2>1
<1> HIDE DEF regs
<1>7. /\ \A i \in 1 .. n : regs[i] = Registration(K[i], K[i].prop = FREEZE_FRAME)
      /\ \A i \in 1 .. n : regs[n + i] = Registration(K[i], FALSE)
      /\ \A j \in 1 .. n + n : j <= n \/ \E i \in 1 .. n : j = n + i
  <2>1. \A i \in 1 .. n : i \in 1 .. n + n /\ i <= n
    OBVIOUS
  <2>2. \A i \in 1 .. n : n + i \in 1 .. n + n /\ ~(n + i <= n) /\ (n + i) - n = i
    OBVIOUS
  <2>3. ASSUME NEW j \in 1 .. n + n, ~(j <= n) PROVE \E i \in 1 .. n : j = n + i
    <3>1. j - n \in 1 .. n /\ j = n + (j - n)
      BY <2>3
    <3>2. QED
      BY <3>1
  <2>4. QED
    BY <2>1, <2>2, <2>3, <1>5, <1>6
<1> DEFINE S == {i \in DOMAIN regs : regs[i].row.prop = p}
<1>8. S # {} /\ mConfigs[p] = regs[Min(S)]
  BY <1>4 DEF Registered
<1>9. PICK m \in S : m = Min(S) /\ \A i \in S : m <= i
  <2>1. S \in SUBSET Nat
    BY <1>6
  <2>2. \E x \in S : \A y \in S : x <= y
    <3> HIDE DEF S
    <3>1. QED
      BY <2>1, <1>8, LeastExists
  <2>3. QED
    BY <2>2 DEF Min
<1>10. m <= n
  <2>1. SUFFICES ASSUME ~(m <= n) PROVE FALSE
    OBVIOUS
  <2>2. PICK i \in 1 .. n : m = n + i
    BY <2>1, <1>6, <1>7
  <2>3. regs[m].row.prop = K[i].prop /\ regs[i].row.prop = K[i].prop
    <3>1. regs[n + i] = Registration(K[i], FALSE)
      BY <1>7
    <3>2. regs[i] = Registration(K[i], K[i].prop = FREEZE_FRAME)
      BY <1>7
    <3>3. regs[n + i].row = K[i]
      BY ONLY <3>1 DEF Registration
    <3>4. regs[i].row = K[i]
      BY ONLY <3>2, RegistrationFields
    <3>5. QED
      BY <2>2, <3>3, <3>4
  <2>4. i \in S
    BY <2>3, <1>6
  <2>5. m <= i
    BY <2>4, <1>9
  <2>6. QED
    BY <2>2, <2>5, <1>1
<1>11. m \in 1 .. n /\ regs[m].row.prop = p /\ mConfigs[p] = regs[m]
  BY <1>6, <1>8, <1>9, <1>10
<1>12. mConfigs[p] = Registration(K[m], K[m].prop = FREEZE_FRAME) /\ K[m].prop = p
  <2>1. regs[m] = Registration(K[m], K[m].prop = FREEZE_FRAME)
    BY <1>7, <1>11
  <2>2. QED
    BY <2>1, <1>11, RegistrationFields
<1>13. Proper(K[m])
  BY <1>1, <1>11, TableIsProper DEF K
<1>14. /\ mConfigs[p].row = K[m]
       /\ mConfigs[p].byTimestamp = (K[m].prop = FREEZE_FRAME)
  BY ONLY <1>12, RegistrationFields
<1>15. QED
  BY <1>12, <1>13, <1>14

LEMMA NoneIsNotConfigured == "none" \notin DOMAIN mConfigs
BY ConfigOf DEF Proper

-----------------------------------------------------------------------------
(***************************************************************************)
(* Records and their ids.                                                  *)
(***************************************************************************)

LEMMA IdFields ==
    ASSUME NEW v
    PROVE  /\ v.prop \in DOMAIN mConfigs => IdOf(v).prop = v.prop
           /\ v.prop \in DOMAIN mConfigs =>
                 IdOf(v).area = AreaOf(mConfigs[v.prop].row, v.areaId)
           /\ v.prop = FREEZE_FRAME /\ v.prop \in DOMAIN mConfigs =>
                 IdOf(v).token = v.timestamp
           /\ v.prop # FREEZE_FRAME /\ v.prop \in DOMAIN mConfigs => IdOf(v).token = 0
           /\ v.prop \notin DOMAIN mConfigs => IdOf(v).prop = "none"
<1>1. CASE v.prop \notin DOMAIN mConfigs
  BY <1>1 DEF IdOf, RecordId, NoRecord
<1>2. CASE v.prop \in DOMAIN mConfigs
  <2>1. /\ v.prop = FREEZE_FRAME => mConfigs[v.prop].byTimestamp = TRUE
        /\ v.prop # FREEZE_FRAME => mConfigs[v.prop].byTimestamp = FALSE
    BY <1>2, ConfigOf
  <2>2. IdOf(v) = [prop |-> v.prop, area |-> AreaOf(mConfigs[v.prop].row, v.areaId),
                   token |-> IF mConfigs[v.prop].byTimestamp THEN v.timestamp ELSE 0]
    BY <1>2 DEF IdOf, RecordId
  <2>3. QED
    BY <1>2, <2>1, <2>2
<1>3. QED
  BY <1>1, <1>2

LEMMA NotWritten ==
    ASSUME NEW records, NEW v, NEW updateStatus, v.prop \notin DOMAIN mConfigs
    PROVE  writeValue(mConfigs, records, v, updateStatus) = records
BY DEF writeValue

\* The records after a configured value has been written.
AreWritten(records, v, written) ==
    /\ DOMAIN written = DOMAIN records \cup {IdOf(v)}
    /\ \A id \in DOMAIN records : id # IdOf(v) => written[id] = records[id]
    /\ written[IdOf(v)].value = v.value
    /\ written[IdOf(v)].timestamp = v.timestamp
    /\ IdOf(v) \in DOMAIN records => written[IdOf(v)].prop = records[IdOf(v)].prop
    /\ IdOf(v) \notin DOMAIN records => written[IdOf(v)].prop = v.prop

LEMMA WrittenRecords ==
    ASSUME NEW records, NEW v, NEW updateStatus, v.prop \in DOMAIN mConfigs
    PROVE  AreWritten(records, v, writeValue(mConfigs, records, v, updateStatus))
<1> DEFINE written == writeValue(mConfigs, records, v, updateStatus)
<1>1. written = Put(records, IdOf(v), IF IdOf(v) \in DOMAIN records
                                      THEN Updated(records[IdOf(v)], v, updateStatus) ELSE v)
  BY DEF writeValue, IdOf, Holds
<1> HIDE DEF written
<1>2. /\ DOMAIN written = DOMAIN records \cup {IdOf(v)}
      /\ \A id \in DOMAIN records : id # IdOf(v) => written[id] = records[id]
      /\ IdOf(v) \in DOMAIN records =>
            written[IdOf(v)] = Updated(records[IdOf(v)], v, updateStatus)
      /\ IdOf(v) \notin DOMAIN records => written[IdOf(v)] = v
  BY <1>1 DEF Put
<1>3. \A r : /\ Updated(r, v, updateStatus).value = v.value
             /\ Updated(r, v, updateStatus).timestamp = v.timestamp
             /\ Updated(r, v, updateStatus).prop = r.prop
  BY DEF Updated
<1>4. AreWritten(records, v, written)
  BY <1>2, <1>3 DEF AreWritten
<1>5. QED
  BY <1>4 DEF written

LEMMA StoredRecords ==
    ASSUME NEW v, NEW updateStatus, Store(v, updateStatus), v.prop \in DOMAIN mConfigs
    PROVE  AreWritten(mPropStore, v, mPropStore')
BY WrittenRecords DEF Store

LEMMA ValueFields ==
    ASSUME NEW prop, NEW area, NEW status, NEW value
    PROVE  /\ Value(prop, area, status, value).prop = prop
           /\ Value(prop, area, status, value).areaId = area
           /\ Value(prop, area, status, value).status = status
           /\ Value(prop, area, status, value).value = value
           /\ Value(prop, area, status, value).timestamp = 0
BY DEF Value

LEMMA FrameFields ==
    ASSUME NEW prop, NEW dtc, NEW timestamp
    PROVE  /\ DefaultObd2Frame(prop, dtc, timestamp).prop = prop
           /\ DefaultObd2Frame(prop, dtc, timestamp).areaId = GlobalArea
           /\ DefaultObd2Frame(prop, dtc, timestamp).timestamp = timestamp
BY DEF DefaultObd2Frame, Value

-----------------------------------------------------------------------------
(***************************************************************************)
(* What a step does to each part of the state.                             *)
(***************************************************************************)

LEMMA StoreSteps ==
    ASSUME Steps
    PROVE  \/ UNCHANGED <<mPropStore, overlapped>>
           \/ \E t \in Threads : WriteValue(t)
           \/ WriteGenerated
           \/ \E t \in Threads : RemoveFrame(t) /\ UNCHANGED overlapped
           \/ /\ mPropStore' = removeValuesForProperty(mPropStore, FREEZE_FRAME)
              /\ UNCHANGED overlapped
<1>1. CASE \E t \in Clients : ClientCalls(t)
  BY <1>1 DEF ClientCalls, SetCommand, SetProperty, ClearFreezeFrames, SetMapService,
              Subscribe, Unsubscribe
<1>2. CASE \E t \in Vehicles, v \in VehicleRequests : SetPropertyFromVehicle(t, v)
  BY <1>2 DEF SetPropertyFromVehicle
<1>3. CASE \E t \in Threads : Continue(t)
  BY <1>3 DEF Continue, FindFrame, RemoveFrame, CheckStatus, Notify
<1>4. CASE Hub
  BY <1>4 DEF Hub, EmulatorUnchanged, NotifyGenerated
<1>5. CASE Tick /\ EmulatorUnchanged
  BY <1>5 DEF EmulatorUnchanged
<1>6. CASE Timer
  BY <1>6 DEF Timer, TimerCallback, TimerNotifies, TimerReads
<1>7. QED
  BY <1>1, <1>2, <1>3, <1>4, <1>5, <1>6 DEF Steps

LEMMA EventSteps ==
    ASSUME Steps
    PROVE  \/ UNCHANGED lastEvent
           \/ doHalEvent(KeyEvents)
           \/ \E state : doHalEvent(Value("AP_POWER_STATE_REQ", GlobalArea, "AVAILABLE",
                                          <<state, 0>>))
           \/ \E t \in Threads : Notify(t)
           \/ NotifyGenerated
           \/ TimerNotifies
<1>1. CASE \E t \in Clients : ClientCalls(t)
  <2>1. PICK t \in Clients : ClientCalls(t)
    BY <1>1
  <2>2. ASSUME NEW v \in ClientRequests, SetCommand(t, v)
        PROVE  UNCHANGED lastEvent \/ doHalEvent(KeyEvents)
    BY <2>2 DEF SetCommand, handleGenerateFakeDataRequest, HandleCommand
  <2>3. ASSUME NEW v \in ClientRequests, SetProperty(t, v)
        PROVE  \/ UNCHANGED lastEvent
               \/ \E state : doHalEvent(Value("AP_POWER_STATE_REQ", GlobalArea, "AVAILABLE",
                                              <<state, 0>>))
    BY <2>3 DEF SetProperty, ReplyToPowerReport
  <2>4. ASSUME \/ \E v \in ClientRequests : ClearFreezeFrames(t, v) \/ SetMapService(t, v)
               \/ \E prop \in Watched : Subscribe(t, prop) \/ Unsubscribe(t, prop)
        PROVE  UNCHANGED lastEvent
    BY <2>4 DEF ClearFreezeFrames, SetMapService, Subscribe, Unsubscribe
  <2>5. QED
    BY <2>1, <2>2, <2>3, <2>4 DEF ClientCalls
<1>2. CASE \E t \in Vehicles, v \in VehicleRequests : SetPropertyFromVehicle(t, v)
  BY <1>2 DEF SetPropertyFromVehicle, handleGenerateFakeDataRequest, HandleCommand
<1>3. CASE \E t \in Threads : Continue(t)
  BY <1>3 DEF Continue, FindFrame, RemoveFrame, CheckStatus, WriteValue
<1>4. CASE Hub
  BY <1>4 DEF Hub, EmulatorUnchanged, WriteGenerated
<1>5. CASE Tick /\ EmulatorUnchanged
  BY <1>5 DEF EmulatorUnchanged
<1>6. CASE Timer
  BY <1>6 DEF Timer, TimerCallback, TimerReads
<1>7. QED
  BY <1>1, <1>2, <1>3, <1>4, <1>5, <1>6 DEF Steps

LEMMA HubSteps ==
    ASSUME Steps
    PROVE  \/ UNCHANGED hubVars
           \/ \E c, g : registerGenerator(c, g)
           \/ \E c : unregisterGenerator(c)
           \/ HubThread
           \/ Tick
           \/ WriteGenerated
           \/ NotifyGenerated
<1>1. CASE \E t \in Clients : ClientCalls(t)
  <2>1. PICK t \in Clients : ClientCalls(t)
    BY <1>1
  <2>2. ASSUME NEW v \in ClientRequests, SetCommand(t, v)
        PROVE  \/ UNCHANGED hubVars
               \/ \E c, g : registerGenerator(c, g)
               \/ \E c : unregisterGenerator(c)
    BY <2>2 DEF SetCommand, handleGenerateFakeDataRequest, HandleCommand
  <2>3. ASSUME \/ \E v \in ClientRequests :
                     SetProperty(t, v) \/ ClearFreezeFrames(t, v) \/ SetMapService(t, v)
               \/ \E prop \in Watched : Subscribe(t, prop) \/ Unsubscribe(t, prop)
        PROVE  UNCHANGED hubVars
    BY <2>3 DEF SetProperty, ClearFreezeFrames, SetMapService, Subscribe, Unsubscribe
  <2>4. QED
    BY <2>1, <2>2, <2>3 DEF ClientCalls
<1>2. CASE \E t \in Vehicles, v \in VehicleRequests : SetPropertyFromVehicle(t, v)
  BY <1>2 DEF SetPropertyFromVehicle, handleGenerateFakeDataRequest, HandleCommand
<1>3. CASE \E t \in Threads : Continue(t)
  BY <1>3 DEF Continue, FindFrame, RemoveFrame, CheckStatus, WriteValue, Notify
<1>4. CASE Hub
  BY <1>4 DEF Hub
<1>5. CASE Tick /\ EmulatorUnchanged
  BY <1>5
<1>6. CASE Timer
  BY <1>6 DEF Timer, TimerCallback, TimerReads, TimerNotifies
<1>7. QED
  BY <1>1, <1>2, <1>3, <1>4, <1>5, <1>6 DEF Steps

\* A call moves on, or one begins.
CallBegins(t) ==
    /\ pc[t] = "idle"
    /\ \/ \E v \in ClientRequests :
             /\ t \in Clients
             /\ \/ MovesTo(t, v, "idle")
                \/ MovesTo(t, v, "check") /\ ~FanIsRefused(v)
                \/ MovesTo(t, v, "find")
       \/ \E v \in VehicleRequests :
             /\ t \in Vehicles
             /\ MovesTo(t, v, "write")

CallGoesOn(t) ==
    \/ pc[t] = "find" /\ \E place \in {"idle", "remove"} : MovesTo(t, request[t], place)
    \/ pc[t] = "remove" /\ \E place \in {"idle", "find"} : MovesTo(t, Shortened(request[t]), place)
    \/ /\ pc[t] = "check"
       /\ \/ MovesTo(t, request[t], "idle")
          \/ MovesTo(t, request[t], "write") /\ MaySet(request[t])
    \/ pc[t] = "write" /\ WriteValue(t)
    \/ pc[t] = "notify" /\ Notify(t)

LEMMA CallSteps ==
    ASSUME Steps
    PROVE  UNCHANGED callVars \/ \E t \in Threads : CallBegins(t) \/ CallGoesOn(t)
<1>1. CASE \E t \in Clients : ClientCalls(t)
  <2>1. PICK t \in Clients : ClientCalls(t)
    BY <1>1
  <2>2. ASSUME NEW v \in ClientRequests, SetCommand(t, v)
        PROVE  UNCHANGED callVars \/ CallBegins(t)
    <3>1. ~FanIsRefused(v)
      BY <2>2 DEF SetCommand, FanIsRefused, IsCommand, IsFan, kHvacPowerProperties
    <3>2. pc[t] = "idle" /\ (UNCHANGED callVars \/ MovesTo(t, v, "check"))
      BY <2>2 DEF SetCommand, handleGenerateFakeDataRequest, MayStart
    <3>3. QED
      BY <3>1, <3>2 DEF CallBegins
  <2>3. ASSUME NEW v \in ClientRequests, SetProperty(t, v)
        PROVE  CallBegins(t)
    BY <2>3 DEF SetProperty, MayStart, CallBegins
  <2>4. ASSUME NEW v \in ClientRequests, ClearFreezeFrames(t, v)
        PROVE  UNCHANGED callVars \/ CallBegins(t)
    BY <2>4 DEF ClearFreezeFrames, MayStart, CallBegins
  <2>5. ASSUME \/ \E v \in ClientRequests : SetMapService(t, v)
               \/ \E prop \in Watched : Subscribe(t, prop) \/ Unsubscribe(t, prop)
        PROVE  UNCHANGED callVars
    BY <2>5 DEF SetMapService, Subscribe, Unsubscribe
  <2>6. QED
    BY <2>1, <2>2, <2>3, <2>4, <2>5 DEF ClientCalls, Threads
<1>2. CASE \E t \in Vehicles, v \in VehicleRequests : SetPropertyFromVehicle(t, v)
  <2>1. PICK t \in Vehicles, v \in VehicleRequests : SetPropertyFromVehicle(t, v)
    BY <1>2
  <2>2. pc[t] = "idle" /\ (UNCHANGED callVars \/ MovesTo(t, v, "write"))
    BY <2>1 DEF SetPropertyFromVehicle, handleGenerateFakeDataRequest, MayStart
  <2>3. QED
    BY <2>2 DEF CallBegins, Threads
<1>3. CASE \E t \in Threads : Continue(t)
  <2>1. PICK t \in Threads : Continue(t)
    BY <1>3
  <2>2. CASE FindFrame(t)
    BY <2>2 DEF FindFrame, CallGoesOn
  <2>3. CASE RemoveFrame(t)
    BY <2>3 DEF RemoveFrame, CallGoesOn
  <2>4. CASE CheckStatus(t)
    BY <2>4 DEF CheckStatus, CallGoesOn
  <2>5. CASE WriteValue(t)
    BY <2>5 DEF WriteValue, CallGoesOn
  <2>6. CASE Notify(t)
    BY <2>6 DEF Notify, CallGoesOn
  <2>7. QED
    BY <2>1, <2>2, <2>3, <2>4, <2>5, <2>6 DEF Continue
<1>4. CASE Hub
  BY <1>4 DEF Hub, EmulatorUnchanged, WriteGenerated, NotifyGenerated
<1>5. CASE Tick /\ EmulatorUnchanged
  BY <1>5 DEF EmulatorUnchanged
<1>6. CASE Timer
  BY <1>6 DEF Timer, TimerCallback, TimerReads, TimerNotifies
<1>7. QED
  BY <1>1, <1>2, <1>3, <1>4, <1>5, <1>6 DEF Steps

LEMMA TimerSteps ==
    ASSUME Steps
    PROVE  \/ UNCHANGED timerVars
           \/ \E prop \in Watched :
                 /\ isContinuousProperty(prop)
                 /\ sampled' \in {sampled \cup {prop}, sampled \ {prop}}
                 /\ UNCHANGED <<timerTodo, timerHand>>
           \/ TimerCallback
           \/ TimerNotifies
           \/ \E prop \in timerTodo : TimerReads(prop)
<1>1. CASE \E t \in Clients : ClientCalls(t)
  <2>1. PICK t \in Clients : ClientCalls(t)
    BY <1>1
  <2>2. ASSUME \E v \in ClientRequests :
                  SetCommand(t, v) \/ SetProperty(t, v) \/ ClearFreezeFrames(t, v)
                  \/ SetMapService(t, v)
        PROVE  UNCHANGED timerVars
    BY <2>2 DEF SetCommand, SetProperty, ClearFreezeFrames, SetMapService
  <2>3. ASSUME NEW prop \in Watched, Subscribe(t, prop) \/ Unsubscribe(t, prop)
        PROVE  /\ isContinuousProperty(prop)
               /\ sampled' \in {sampled \cup {prop}, sampled \ {prop}}
               /\ UNCHANGED <<timerTodo, timerHand>>
    BY <2>3 DEF Subscribe, Unsubscribe
  <2>4. QED
    BY <2>1, <2>2, <2>3 DEF ClientCalls
<1>2. CASE \E t \in Vehicles, v \in VehicleRequests : SetPropertyFromVehicle(t, v)
  BY <1>2 DEF SetPropertyFromVehicle
<1>3. CASE \E t \in Threads : Continue(t)
  BY <1>3 DEF Continue, FindFrame, RemoveFrame, CheckStatus, WriteValue, Notify
<1>4. CASE Hub
  BY <1>4 DEF Hub, EmulatorUnchanged, WriteGenerated, NotifyGenerated
<1>5. CASE Tick /\ EmulatorUnchanged
  BY <1>5 DEF EmulatorUnchanged
<1>6. CASE Timer
  BY <1>6 DEF Timer
<1>7. QED
  BY <1>1, <1>2, <1>3, <1>4, <1>5, <1>6 DEF Steps

-----------------------------------------------------------------------------
(***************************************************************************)
(* The inductive invariant.                                                *)
(***************************************************************************)

Places == {"idle", "check", "find", "remove", "write", "notify"}

TypeOK ==
    /\ pc \in [Threads -> Places]
    /\ DOMAIN request = Threads
    /\ IsSeq(mEventQueue)
    /\ surplus \in [Cookies -> Nat]

\* Only clients clear freeze frames.
ClearersAreClients ==
    \A t \in Threads : pc[t] \in {"find", "remove"} => t \in Clients

\* A record is of the property in its id, which is configured, and a freeze
\* frame's token is its timestamp.
RecordsFitIds ==
    \A id \in DOMAIN mPropStore :
        /\ id.prop \in DOMAIN mConfigs
        /\ mPropStore[id].prop = id.prop
        /\ id.prop = FREEZE_FRAME => mPropStore[id].timestamp = id.token

\* The timer only handles continuous properties.
TimerIsContinuous ==
    /\ \A prop \in sampled \cup timerTodo : isContinuousProperty(prop)
    /\ timerHand # Nobody => isContinuousProperty(timerHand.prop)

\* Whoever is about to send an event of a record sends what is stored, unless
\* two writers overlapped.
PendingIsStored ==
    \A id \in DOMAIN mPropStore \ overlapped :
        id.prop # FREEZE_FRAME =>
            /\ \A t \in Threads :
                  pc[t] = "notify" /\ IdOf(request[t]) = id =>
                      request[t].value = mPropStore[id].value
            /\ hubPc = "written" /\ IdOf(Generated) = id =>
                  Generated.value = mPropStore[id].value

\* A record whose last event is stored has had one.
EventsAreKnown ==
    \A id \in DOMAIN mPropStore :
        (mConfigs[id.prop].row.changeMode = "ON_CHANGE" /\ ~IsPending(id)
            /\ id \notin overlapped /\ id.prop \notin EventOnly \cup {FREEZE_FRAME})
        => id \in DOMAIN lastEvent

\* The power is looked at before the status.
ChecksWerePowered ==
    \A t \in Clients : pc[t] = "check" => permitted[t].powered

\* The thread of the hub handles events of a queue that is not empty.
QueueIsReady ==
    hubPc \in {"timed", "handling", "written", "handled"} => mEventQueue # <<>>

IInv ==
    /\ TypeOK
    /\ ClearersAreClients
    /\ RecordsFitIds
    /\ TimerIsContinuous
    /\ PendingIsStored
    /\ EventsAreKnown
    /\ LastEventIsStored
    /\ ChecksWerePowered
    /\ SetsWerePermitted
    /\ ReadablePropertiesAnswer
    /\ QueueIsReady
    /\ EveryGeneratorIsQueued

\* A record that is not a freeze frame stays, or is written by the one step
\* that marks an overlap.
LEMMA RecordSteps ==
    ASSUME RecordsFitIds, Steps, NEW id \in DOMAIN mPropStore', id.prop # FREEZE_FRAME
    PROVE  \/ /\ id \in DOMAIN mPropStore
              /\ mPropStore'[id] = mPropStore[id]
              /\ id \in overlapped' <=> id \in overlapped
           \/ /\ \E t \in Threads :
                    /\ WriteValue(t)
                    /\ IdOf(request[t]) = id
                    /\ mPropStore'[id].value = request[t].value
              /\ IsPending(id) => id \in overlapped'
           \/ /\ WriteGenerated
              /\ IdOf(Generated) = id
              /\ mPropStore'[id].value = Generated.value
              /\ IsPending(id) => id \in overlapped'
<1>1. ASSUME NEW v, NEW updateStatus, Store(v, updateStatus), MarkOverlap(IdOf(v))
      PROVE  \/ /\ id \in DOMAIN mPropStore
                /\ mPropStore'[id] = mPropStore[id]
                /\ id \in overlapped' <=> id \in overlapped
             \/ /\ IdOf(v) = id
                /\ mPropStore'[id].value = v.value
                /\ IsPending(id) => id \in overlapped'
  <2>1. mPropStore' = writeValue(mConfigs, mPropStore, v, updateStatus)
    BY <1>1 DEF Store
  <2>2. CASE v.prop \notin DOMAIN mConfigs
    <3>1. mPropStore' = mPropStore /\ IdOf(v).prop = "none"
      BY <2>1, <2>2, NotWritten, IdFields
    <3>2. id.prop # "none"
      BY <3>1, NoneIsNotConfigured DEF RecordsFitIds
    <3>3. id # IdOf(v)
      BY <3>1, <3>2
    <3>4. QED
      BY <3>1, <3>3, <1>1 DEF MarkOverlap
  <2>3. CASE v.prop \in DOMAIN mConfigs
    <3>1. /\ DOMAIN mPropStore' = DOMAIN mPropStore \cup {IdOf(v)}
          /\ \A i \in DOMAIN mPropStore : i # IdOf(v) => mPropStore'[i] = mPropStore[i]
          /\ mPropStore'[IdOf(v)].value = v.value
      BY <1>1, <2>3, StoredRecords DEF AreWritten
    <3>2. CASE id = IdOf(v)
      BY <3>1, <3>2, <1>1 DEF MarkOverlap
    <3>3. CASE id # IdOf(v)
      BY <3>1, <3>3, <1>1 DEF MarkOverlap
    <3>4. QED
      BY <3>2, <3>3
  <2>4. QED
    BY <2>2, <2>3
<1>2. CASE UNCHANGED <<mPropStore, overlapped>>
  BY <1>2
<1>3. CASE \E t \in Threads : WriteValue(t)
  BY <1>3, <1>1 DEF WriteValue
<1>4. CASE WriteGenerated
  BY <1>4, <1>1 DEF WriteGenerated
<1>5. CASE \E t \in Threads : RemoveFrame(t) /\ UNCHANGED overlapped
  BY <1>5 DEF RemoveFrame, removeValue, Restrict
<1>6. CASE /\ mPropStore' = removeValuesForProperty(mPropStore, FREEZE_FRAME)
           /\ UNCHANGED overlapped
  BY <1>6 DEF removeValuesForProperty, Restrict
<1>7. QED
  BY <1>2, <1>3, <1>4, <1>5, <1>6, StoreSteps

\* A thread is about to send an event from its write on.
LEMMA NotifySteps ==
    ASSUME TypeOK, Steps, NEW t \in Threads
    PROVE  /\ pc'[t] = "notify" =>
                 /\ request'[t] = request[t]
                 /\ pc[t] = "notify" \/ WriteValue(t)
           /\ pc[t] = "notify" =>
                 \/ Notify(t)
                 \/ pc'[t] = "notify" /\ request'[t] = request[t]
<1>1. CASE UNCHANGED callVars
  BY <1>1 DEF callVars
<1>2. ASSUME NEW u \in Threads, CallBegins(u)
      PROVE  /\ pc[u] = "idle" /\ pc'[u] # "notify"
             /\ t # u => pc'[t] = pc[t] /\ request'[t] = request[t]
  BY <1>2 DEF CallBegins, MovesTo, TypeOK
<1>3. ASSUME NEW u \in Threads, CallGoesOn(u)
      PROVE  /\ t # u => pc'[t] = pc[t] /\ request'[t] = request[t]
             /\ pc'[u] = "notify" => WriteValue(u) /\ request'[u] = request[u]
             /\ pc[u] = "notify" => Notify(u)
  BY <1>3 DEF CallGoesOn, WriteValue, Notify, MovesTo, TypeOK
<1>4. QED
  BY <1>1, <1>2, <1>3, CallSteps

LEMMA WrittenSteps ==
    ASSUME Steps
    PROVE  /\ hubPc' = "written" => Generated' = Generated /\ (hubPc = "written" \/ WriteGenerated)
           /\ hubPc = "written" =>
                 NotifyGenerated \/ (hubPc' = "written" /\ Generated' = Generated)
<1>1. CASE UNCHANGED hubVars
  BY <1>1 DEF hubVars, Generated
<1>2. CASE \E c, g : registerGenerator(c, g)
  BY <1>2 DEF registerGenerator, Generated, mLockIsFree
<1>3. CASE \E c : unregisterGenerator(c)
  BY <1>3 DEF unregisterGenerator, Generated, mLockIsFree
<1>4. CASE HubThread
  BY <1>4 DEF HubThread, PopDeadEvent, WaitForEvents, WaitForEventTime, WakeEarly, Timeout,
              NextEvent, Scanning
<1>5. CASE Tick
  BY <1>5 DEF Tick, Generated
<1>6. CASE WriteGenerated
  BY <1>6 DEF WriteGenerated, Generated
<1>7. CASE NotifyGenerated
  BY <1>7 DEF NotifyGenerated, Generated
<1>8. QED
  BY <1>1, <1>2, <1>3, <1>4, <1>5, <1>6, <1>7, HubSteps

LEMMA PendingStep ==
    ASSUME TypeOK, RecordsFitIds, PendingIsStored, Steps
    PROVE  PendingIsStored'
<1>1. SUFFICES ASSUME NEW id \in DOMAIN mPropStore', id \notin overlapped',
                      id.prop # FREEZE_FRAME
               PROVE  /\ \A t \in Threads :
                            pc'[t] = "notify" /\ IdOf(request'[t]) = id =>
                                request'[t].value = mPropStore'[id].value
                      /\ hubPc' = "written" /\ IdOf(Generated') = id =>
                            Generated'.value = mPropStore'[id].value
  BY DEF PendingIsStored, IdOf
<1>2. CASE /\ id \in DOMAIN mPropStore
           /\ mPropStore'[id] = mPropStore[id]
           /\ id \in overlapped' <=> id \in overlapped
  <2>1. /\ \A t \in Threads :
              pc[t] = "notify" /\ IdOf(request[t]) = id => request[t].value = mPropStore[id].value
        /\ hubPc = "written" /\ IdOf(Generated) = id => Generated.value = mPropStore[id].value
    BY <1>1, <1>2 DEF PendingIsStored
  <2>2. ASSUME NEW t \in Threads, pc'[t] = "notify", IdOf(request'[t]) = id
        PROVE  request'[t].value = mPropStore'[id].value
    <3>1. request'[t] = request[t] /\ (pc[t] = "notify" \/ WriteValue(t))
      BY <2>2, NotifySteps
    <3>2. CASE pc[t] = "notify"
      BY <3>1, <3>2, <2>1, <2>2, <1>2
    <3>3. CASE WriteValue(t)
      <4>1. Store(request[t], t \in Vehicles)
        BY <3>3 DEF WriteValue
      <4>2. IdOf(request[t]) = id
        BY <3>1, <2>2
      <4>3. request[t].prop \in DOMAIN mConfigs
        BY <4>2, <1>2, IdFields, NoneIsNotConfigured DEF RecordsFitIds
      <4>4. mPropStore'[IdOf(request[t])].value = request[t].value
        BY <4>1, <4>3, StoredRecords DEF AreWritten
      <4>5. QED
        BY <4>2, <4>4, <3>1
    <3>4. QED
      BY <3>1, <3>2, <3>3
  <2>3. ASSUME hubPc' = "written", IdOf(Generated') = id
        PROVE  Generated'.value = mPropStore'[id].value
    <3>1. Generated' = Generated /\ (hubPc = "written" \/ WriteGenerated)
      BY <2>3, WrittenSteps
    <3>2. CASE hubPc = "written"
      BY <3>1, <3>2, <2>1, <2>3, <1>2
    <3>3. CASE WriteGenerated
      <4>1. Store(Generated, FALSE)
        BY <3>3 DEF WriteGenerated
      <4>2. IdOf(Generated) = id
        BY <3>1, <2>3
      <4>3. Generated.prop \in DOMAIN mConfigs
        BY <4>2, <1>2, IdFields, NoneIsNotConfigured DEF RecordsFitIds
      <4>4. mPropStore'[IdOf(Generated)].value = Generated.value
        BY <4>1, <4>3, StoredRecords DEF AreWritten
      <4>5. QED
        BY <4>2, <4>4, <3>1
    <3>4. QED
      BY <3>1, <3>2, <3>3
  <2>4. QED
    BY <2>2, <2>3
<1>3. ASSUME NEW u \in Threads, WriteValue(u), IdOf(request[u]) = id,
             mPropStore'[id].value = request[u].value, ~IsPending(id)
      PROVE  /\ \A t \in Threads :
                   pc'[t] = "notify" /\ IdOf(request'[t]) = id =>
                       request'[t].value = mPropStore'[id].value
             /\ hubPc' = "written" /\ IdOf(Generated') = id =>
                   Generated'.value = mPropStore'[id].value
  <2>1. pc' = [pc EXCEPT ![u] = "notify"] /\ request' = [request EXCEPT ![u] = request[u]]
    BY <1>3 DEF WriteValue, MovesTo
  <2>2. \A t \in Threads : t # u => pc'[t] = pc[t] /\ request'[t] = request[t]
    BY <2>1 DEF TypeOK
  <2>3. request'[u] = request[u]
    BY <2>1 DEF TypeOK
  <2>4. hubPc' = hubPc /\ Generated' = Generated
    BY <1>3 DEF WriteValue, hubVars, Generated
  <2>5. QED
    BY <1>3, <2>2, <2>3, <2>4 DEF IsPending
<1>4. ASSUME WriteGenerated, IdOf(Generated) = id,
             mPropStore'[id].value = Generated.value, ~IsPending(id)
      PROVE  /\ \A t \in Threads :
                   pc'[t] = "notify" /\ IdOf(request'[t]) = id =>
                       request'[t].value = mPropStore'[id].value
             /\ hubPc' = "written" /\ IdOf(Generated') = id =>
                   Generated'.value = mPropStore'[id].value
  <2>1. pc' = pc /\ request' = request /\ Generated' = Generated
    BY <1>4 DEF WriteGenerated, callVars, Generated
  <2>2. QED
    BY <1>4, <2>1 DEF IsPending
<1>5. QED
  BY <1>1, <1>2, <1>3, <1>4, RecordSteps

\* The last events after one of v.
LEMMA EventIds ==
    ASSUME NEW v, doHalEvent(v)
    PROVE  /\ DOMAIN lastEvent' = DOMAIN lastEvent \cup {IdOf(v)}
           /\ lastEvent'[IdOf(v)] = v.value
           /\ \A id \in DOMAIN lastEvent : id # IdOf(v) => lastEvent'[id] = lastEvent[id]
BY DEF doHalEvent, Put

\* A configured property that sends its changes is told by the event of who
\* wrote it, and by no other.
LEMMA OtherEvents ==
    ASSUME RecordsFitIds, TimerIsContinuous, Steps, NEW id, id.prop \in DOMAIN mConfigs,
           mConfigs[id.prop].row.changeMode = "ON_CHANGE", id.prop \notin EventOnly,
           \A t \in Threads : Notify(t) => IdOf(request[t]) # id,
           NotifyGenerated => IdOf(Generated) # id
    PROVE  id \in DOMAIN lastEvent =>
               id \in DOMAIN lastEvent' /\ lastEvent'[id] = lastEvent[id]
<1>1. \A v : doHalEvent(v) /\ IdOf(v) # id /\ id \in DOMAIN lastEvent =>
                id \in DOMAIN lastEvent' /\ lastEvent'[id] = lastEvent[id]
  BY EventIds
<1>2. \A v : IdOf(v) = id => v.prop = id.prop
  BY IdFields, NoneIsNotConfigured
<1>3. CASE UNCHANGED lastEvent
  BY <1>3
<1>4. CASE doHalEvent(KeyEvents)
  <2>1. IdOf(KeyEvents) # id
    BY <1>2, ValueFields DEF KeyEvents, EventOnly
  <2>2. QED
    BY <1>1, <1>4, <2>1
<1>5. CASE \E state : doHalEvent(Value("AP_POWER_STATE_REQ", GlobalArea, "AVAILABLE",
                                       <<state, 0>>))
  <2>1. PICK state : doHalEvent(Value("AP_POWER_STATE_REQ", GlobalArea, "AVAILABLE",
                                      <<state, 0>>))
    BY <1>5
  <2>2. PICK v : v = Value("AP_POWER_STATE_REQ", GlobalArea, "AVAILABLE", <<state, 0>>)
    OBVIOUS
  <2>3. doHalEvent(v) /\ v.prop = "AP_POWER_STATE_REQ"
    BY <2>1, <2>2, ValueFields
  <2>4. QED
    BY <1>1, <1>2, <2>3 DEF EventOnly
<1>6. CASE \E t \in Threads : Notify(t)
  BY <1>1, <1>6 DEF Notify
<1>7. CASE NotifyGenerated
  BY <1>1, <1>7 DEF NotifyGenerated
<1>8. CASE TimerNotifies
  <2>1. doHalEvent(timerHand) /\ isContinuousProperty(timerHand.prop)
    BY <1>8 DEF TimerNotifies, TimerIsContinuous
  <2>2. IdOf(timerHand) # id
    BY <2>1, <1>2 DEF isContinuousProperty
  <2>3. QED
    BY <1>1, <2>1, <2>2
<1>9. QED
  BY <1>3, <1>4, <1>5, <1>6, <1>7, <1>8, EventSteps

\* What is said of each record in EventsAreKnown and in LastEventIsStored.
Settled(id) ==
    /\ mConfigs[id.prop].row.changeMode = "ON_CHANGE"
    /\ ~IsPending(id)
    /\ id \notin overlapped
    /\ id.prop \notin EventOnly \cup {FREEZE_FRAME}

EventIsStored(id) == id \in DOMAIN lastEvent /\ lastEvent[id] = mPropStore[id].value

LEMMA SettledRecords ==
    EventsAreKnown /\ LastEventIsStored <=>
        \A id \in DOMAIN mPropStore : Settled(id) => EventIsStored(id)
BY DEF EventsAreKnown, LastEventIsStored, Settled, EventIsStored

LEMMA EventStep ==
    ASSUME TypeOK, RecordsFitIds, RecordsFitIds', TimerIsContinuous, PendingIsStored,
           EventsAreKnown, LastEventIsStored, Steps,
           NEW id \in DOMAIN mPropStore', Settled(id)'
    PROVE  EventIsStored(id)'
<1>1. /\ id.prop \in DOMAIN mConfigs
      /\ mConfigs[id.prop].row.changeMode = "ON_CHANGE"
      /\ id.prop \notin EventOnly
      /\ id.prop # FREEZE_FRAME
      /\ id \notin overlapped'
  BY DEF Settled, RecordsFitIds
<1>2. /\ \A t \in Threads : ~(pc'[t] = "notify" /\ IdOf(request'[t]) = id)
      /\ ~(hubPc' = "written" /\ IdOf(Generated') = id)
  BY DEF Settled, IsPending, IdOf
<1>3. /\ id \in DOMAIN mPropStore
      /\ mPropStore'[id] = mPropStore[id]
      /\ id \in overlapped' <=> id \in overlapped
  <2>1. ASSUME NEW t \in Threads, WriteValue(t) PROVE IdOf(request[t]) # id
    <3>1. pc' = [pc EXCEPT ![t] = "notify"] /\ request' = [request EXCEPT ![t] = request[t]]
      BY <2>1 DEF WriteValue, MovesTo
    <3>2. pc'[t] = "notify" /\ request'[t] = request[t]
      BY <3>1 DEF TypeOK
    <3>3. QED
      BY <3>2, <1>2
  <2>2. ASSUME WriteGenerated PROVE IdOf(Generated) # id
    <3>1. hubPc' = "written" /\ Generated' = Generated
      BY <2>2 DEF WriteGenerated, Generated
    <3>2. QED
      BY <3>1, <1>2
  <2>3. QED
    BY <1>1, <2>1, <2>2, RecordSteps
<1>4. CASE \E t \in Threads : Notify(t) /\ IdOf(request[t]) = id
  <2>1. PICK t \in Threads : Notify(t) /\ IdOf(request[t]) = id
    BY <1>4
  <2>2. request[t].value = mPropStore[id].value
    BY <2>1, <1>1, <1>3 DEF PendingIsStored, Notify
  <2>3. id \in DOMAIN lastEvent' /\ lastEvent'[id] = request[t].value
    BY <2>1, EventIds DEF Notify
  <2>4. QED
    BY <2>2, <2>3, <1>3 DEF EventIsStored
<1>5. CASE NotifyGenerated /\ IdOf(Generated) = id
  <2>1. Generated.value = mPropStore[id].value
    BY <1>5, <1>1, <1>3 DEF PendingIsStored, NotifyGenerated
  <2>2. curEvent.prop = id.prop
    <3>1. Generated.prop = curEvent.prop
      BY ValueFields DEF Generated
    <3>2. QED
      BY <3>1, <1>1, <1>5, IdFields, NoneIsNotConfigured
  <2>3. doHalEvent(Generated)
    BY <1>1, <1>5, <2>2 DEF NotifyGenerated
  <2>4. id \in DOMAIN lastEvent' /\ lastEvent'[id] = Generated.value
    BY <2>3, <1>5, EventIds
  <2>5. QED
    BY <2>1, <2>4, <1>3 DEF EventIsStored
<1>6. CASE /\ \A t \in Threads : Notify(t) => IdOf(request[t]) # id
           /\ NotifyGenerated => IdOf(Generated) # id
  <2>1. ~IsPending(id)
    <3>1. ASSUME NEW t \in Threads, pc[t] = "notify", IdOf(request[t]) = id PROVE FALSE
      <4>1. Notify(t) \/ (pc'[t] = "notify" /\ request'[t] = request[t])
        BY <3>1, NotifySteps
      <4>2. QED
        BY <4>1, <3>1, <1>2, <1>6
    <3>2. ASSUME hubPc = "written", IdOf(Generated) = id PROVE FALSE
      <4>1. NotifyGenerated \/ (hubPc' = "written" /\ Generated' = Generated)
        BY <3>2, WrittenSteps
      <4>2. QED
        BY <4>1, <3>2, <1>2, <1>6
    <3>3. QED
      BY <3>1, <3>2 DEF IsPending
  <2>2. Settled(id)
    BY <2>1, <1>1, <1>3 DEF Settled
  <2>3. EventIsStored(id)
    BY <2>2, <1>3, SettledRecords
  <2>4. id \in DOMAIN lastEvent' /\ lastEvent'[id] = lastEvent[id]
    BY <2>3, <1>1, <1>6, OtherEvents DEF EventIsStored
  <2>5. QED
    BY <2>3, <2>4, <1>3 DEF EventIsStored
<1>7. QED
  BY <1>4, <1>5, <1>6

LEMMA FrameIds ==
    ASSUME NEW t
    PROVE  /\ IdOf(FrameAt(t)).prop \in {FREEZE_FRAME, "none"}
           /\ IdOf(FrameAt(t)).prop = FREEZE_FRAME =>
                 IdOf(FrameAt(t)).token = Head(request[t].value)
<1>1. PICK v : v = FrameAt(t)
  OBVIOUS
<1>2. v.prop = FREEZE_FRAME /\ v.timestamp = Head(request[t].value)
  <2>1. PICK prop, dtc, timestamp :
            prop = FREEZE_FRAME /\ dtc = "" /\ timestamp = Head(request[t].value)
    OBVIOUS
  <2>2. v = DefaultObd2Frame(prop, dtc, timestamp)
    BY ONLY <1>1, <2>1 DEF FrameAt
  <2>3. QED
    <3>1. v.prop = prop /\ v.timestamp = timestamp
      BY ONLY <2>2, FrameFields
    <3>2. QED
      BY <2>1, <3>1
<1>3. QED
  BY <1>1, <1>2, IdFields DEF FREEZE_FRAME

LEMMA RecordsStep ==
    ASSUME RecordsFitIds, Steps
    PROVE  RecordsFitIds'
<1>1. ASSUME NEW v, NEW updateStatus, Store(v, updateStatus)
      PROVE  RecordsFitIds'
  <2>1. CASE v.prop \notin DOMAIN mConfigs
    BY <2>1, <1>1, NotWritten DEF Store, RecordsFitIds
  <2>2. CASE v.prop \in DOMAIN mConfigs
    <3>1. AreWritten(mPropStore, v, mPropStore')
      BY <1>1, <2>2, StoredRecords
    <3>2. IdOf(v).prop = v.prop /\ (v.prop = FREEZE_FRAME => IdOf(v).token = v.timestamp)
      BY <2>2, IdFields
    <3>3. SUFFICES ASSUME NEW id \in DOMAIN mPropStore'
                   PROVE  /\ id.prop \in DOMAIN mConfigs
                          /\ mPropStore'[id].prop = id.prop
                          /\ id.prop = FREEZE_FRAME => mPropStore'[id].timestamp = id.token
      BY DEF RecordsFitIds
    <3>4. CASE id = IdOf(v)
      BY <3>1, <3>2, <3>4, <2>2 DEF AreWritten, RecordsFitIds
    <3>5. CASE id # IdOf(v)
      BY <3>1, <3>5 DEF AreWritten, RecordsFitIds
    <3>6. QED
      BY <3>4, <3>5
  <2>3. QED
    BY <2>1, <2>2
<1>2. CASE UNCHANGED mPropStore
  BY <1>2 DEF RecordsFitIds
<1>3. CASE \E t \in Threads : WriteValue(t)
  BY <1>1, <1>3 DEF WriteValue
<1>4. CASE WriteGenerated
  BY <1>1, <1>4 DEF WriteGenerated
<1>5. CASE \E t \in Threads : RemoveFrame(t)
  BY <1>5 DEF RemoveFrame, removeValue, Restrict, RecordsFitIds
<1>6. CASE mPropStore' = removeValuesForProperty(mPropStore, FREEZE_FRAME)
  BY <1>6 DEF removeValuesForProperty, Restrict, RecordsFitIds
<1>7. QED
  BY <1>2, <1>3, <1>4, <1>5, <1>6, StoreSteps

LEMMA TimerStep ==
    ASSUME RecordsFitIds, TimerIsContinuous, Steps
    PROVE  TimerIsContinuous'
<1>1. CASE UNCHANGED timerVars
  BY <1>1 DEF timerVars, TimerIsContinuous, isContinuousProperty
<1>2. CASE \E prop \in Watched :
              /\ isContinuousProperty(prop)
              /\ sampled' \in {sampled \cup {prop}, sampled \ {prop}}
              /\ UNCHANGED <<timerTodo, timerHand>>
  BY <1>2 DEF TimerIsContinuous, isContinuousProperty
<1>3. CASE TimerCallback
  BY <1>3 DEF TimerCallback, TimerIsContinuous, isContinuousProperty
<1>4. CASE TimerNotifies
  BY <1>4 DEF TimerNotifies, TimerIsContinuous, isContinuousProperty
<1>5. ASSUME NEW prop \in timerTodo, TimerReads(prop) PROVE TimerIsContinuous'
  <2>1. isContinuousProperty(prop)
    BY DEF TimerIsContinuous
  <2>2. PICK v : v = Value(prop, GlobalArea, "AVAILABLE", <<>>)
    OBVIOUS
  <2>3. IdOf(v).prop = prop
    BY <2>1, <2>2, ValueFields, IdFields DEF isContinuousProperty
  <2>4. ASSUME NEW found \in ReadValueOrNull(v) PROVE found.prop = prop
    BY <2>3 DEF ReadValueOrNull, Holds, RecordsFitIds
  <2>5. /\ timerTodo' \subseteq timerTodo /\ sampled' = sampled
        /\ timerHand' = Nobody \/ timerHand' \in ReadValueOrNull(v)
    BY <1>5, <2>2 DEF TimerReads
  <2>6. timerHand' = Nobody \/ isContinuousProperty(timerHand'.prop)
    BY <2>1, <2>4, <2>5
  <2>7. QED
    BY <2>5, <2>6 DEF TimerIsContinuous, isContinuousProperty
<1>6. QED
  BY <1>1, <1>2, <1>3, <1>4, <1>5, TimerSteps

LEMMA PlacesStep ==
    ASSUME TypeOK, ClearersAreClients, Steps
    PROVE  /\ pc' \in [Threads -> Places]
           /\ DOMAIN request' = Threads
           /\ ClearersAreClients'
<1>1. CASE UNCHANGED callVars
  BY <1>1 DEF callVars, TypeOK, ClearersAreClients
<1>2. ASSUME NEW t \in Threads, CallBegins(t)
      PROVE  /\ pc' \in [Threads -> Places]
             /\ DOMAIN request' = Threads
             /\ ClearersAreClients'
  BY <1>2 DEF CallBegins, MovesTo, TypeOK, Places, ClearersAreClients
<1>3. ASSUME NEW t \in Threads, CallGoesOn(t)
      PROVE  /\ pc' \in [Threads -> Places]
             /\ DOMAIN request' = Threads
             /\ ClearersAreClients'
  BY <1>3 DEF CallGoesOn, WriteValue, Notify, MovesTo, TypeOK, Places, ClearersAreClients
<1>4. QED
  BY <1>1, <1>2, <1>3, CallSteps

LEMMA EitherFields ==
    ASSUME NEW a, NEW b
    PROVE  /\ Either(a, b).available = (a.available \/ b.available)
           /\ Either(a, b).powered = (a.powered \/ b.powered)
BY Zenon DEF Either

\* A permit that was there before the step, or is there in the state before it.
LEMMA PermitsRemain ==
    ASSUME RecordPermits, NEW t \in Clients, pc'[t] \in {"check", "write"}
    PROVE  /\ permitted[t].available \/ PermitFrom(mPropStore, request'[t]).available
                 => permitted'[t].available
           /\ permitted[t].powered \/ PermitFrom(mPropStore, request'[t]).powered
                 => permitted'[t].powered
<1>1. permitted'[t] = Either(Either(permitted[t], PermitFrom(mPropStore, request'[t])),
                             PermitFrom(mPropStore', request'[t]))
  BY DEF RecordPermits
<1> DEFINE before == Either(permitted[t], PermitFrom(mPropStore, request'[t]))
<1>2. /\ before.available = (permitted[t].available \/ PermitFrom(mPropStore, request'[t]).available)
      /\ before.powered = (permitted[t].powered \/ PermitFrom(mPropStore, request'[t]).powered)
  BY EitherFields
<1>3. /\ permitted'[t].available =
            (before.available \/ PermitFrom(mPropStore', request'[t]).available)
      /\ permitted'[t].powered =
            (before.powered \/ PermitFrom(mPropStore', request'[t]).powered)
  BY ONLY <1>1, EitherFields
<1>4. QED
  BY ONLY <1>2, <1>3, Zenon

LEMMA PermitStep ==
    ASSUME TypeOK, ChecksWerePowered, SetsWerePermitted, Steps, RecordPermits
    PROVE  ChecksWerePowered' /\ SetsWerePermitted'
<1>1. SUFFICES ASSUME NEW t \in Clients, pc'[t] \in {"check", "write"}
               PROVE  /\ permitted'[t].powered
                      /\ pc'[t] = "write" => permitted'[t].available
  BY DEF ChecksWerePowered, SetsWerePermitted
<1>2. \/ pc'[t] = pc[t] /\ request'[t] = request[t]
      \/ pc'[t] = "check" /\ ~FanIsRefused(request'[t])
      \/ /\ pc[t] = "check" /\ pc'[t] = "write"
         /\ request'[t] = request[t] /\ MaySet(request[t])
  <2>1. CASE UNCHANGED callVars
    BY <2>1 DEF callVars
  <2>2. ASSUME NEW u \in Threads, CallBegins(u), u # t
        PROVE  pc'[t] = pc[t] /\ request'[t] = request[t]
    BY <2>2 DEF CallBegins, MovesTo, TypeOK, Threads
  <2>3. CASE CallBegins(t)
    BY <2>3, <1>1, ThreadsAssumption DEF CallBegins, MovesTo, TypeOK, Threads
  <2>4. ASSUME NEW u \in Threads, CallGoesOn(u), u # t
        PROVE  pc'[t] = pc[t] /\ request'[t] = request[t]
    BY <2>4 DEF CallGoesOn, WriteValue, Notify, MovesTo, TypeOK, Threads
  <2>5. CASE CallGoesOn(t)
    BY <2>5, <1>1 DEF CallGoesOn, WriteValue, Notify, MovesTo, TypeOK, Threads
  <2>6. QED
    BY <2>1, <2>2, <2>3, <2>4, <2>5, CallSteps DEF Threads
<1>3. CASE pc'[t] = pc[t] /\ request'[t] = request[t]
  BY <1>1, <1>3, PermitsRemain DEF ChecksWerePowered, SetsWerePermitted
<1>4. CASE pc'[t] = "check" /\ ~FanIsRefused(request'[t])
  <2>1. PermitFrom(mPropStore, request'[t]).powered
    BY <1>4 DEF PermitFrom, FanIsRefused
  <2>2. QED
    BY <1>4, <2>1, PermitsRemain
<1>5. CASE /\ pc[t] = "check" /\ pc'[t] = "write"
           /\ request'[t] = request[t] /\ MaySet(request[t])
  <2>1. PermitFrom(mPropStore, request'[t]).available
    BY <1>5 DEF PermitFrom, MaySet, ReadValueOrNull, Holds
  <2>2. QED
    BY <1>5, <2>1, PermitsRemain DEF ChecksWerePowered
<1>6. QED
  BY <1>2, <1>3, <1>4, <1>5

LEMMA AnswersStep ==
    ASSUME ReadablePropertiesAnswer, Steps
    PROVE  ReadablePropertiesAnswer'
<1>1. ASSUME NEW id \in DOMAIN mPropStore, id.prop \notin {FREEZE_FRAME, "none"}
      PROVE  id \in DOMAIN mPropStore'
  <2>1. ASSUME NEW v, NEW updateStatus, Store(v, updateStatus)
        PROVE  id \in DOMAIN mPropStore'
    <3>1. CASE v.prop \notin DOMAIN mConfigs
      BY <2>1, <3>1, NotWritten DEF Store
    <3>2. CASE v.prop \in DOMAIN mConfigs
      BY <2>1, <3>2, StoredRecords DEF AreWritten
    <3>3. QED
      BY <3>1, <3>2
  <2>2. CASE \E t \in Threads : WriteValue(t)
    BY <2>1, <2>2 DEF WriteValue
  <2>3. CASE WriteGenerated
    BY <2>1, <2>3 DEF WriteGenerated
  <2>4. ASSUME NEW t \in Threads, RemoveFrame(t)
        PROVE  id \in DOMAIN mPropStore'
    <3>1. id # IdOf(FrameAt(t))
      BY <1>1, FrameIds
    <3>2. QED
      BY <2>4, <3>1 DEF RemoveFrame, removeValue, Restrict, IdOf
  <2>5. CASE mPropStore' = removeValuesForProperty(mPropStore, FREEZE_FRAME)
    BY <1>1, <2>5 DEF removeValuesForProperty, RecordsOf, Restrict
  <2>6. QED
    BY <2>2, <2>3, <2>4, <2>5, StoreSteps
<1>2. ASSUME NEW prop \in Readable, NEW area,
             Get(Value(prop, area, "AVAILABLE", <<>>)) # {}
      PROVE  Get(Value(prop, area, "AVAILABLE", <<>>))' # {}
  <2>1. PICK v : v = Value(prop, area, "AVAILABLE", <<>>)
    OBVIOUS
  <2>2. v.prop = prop /\ prop # FREEZE_FRAME /\ prop \in DOMAIN mConfigs
    BY <2>1, ValueFields, WatchedAssumption DEF Readable
  <2>3. CASE prop = "OBD2_FREEZE_FRAME_INFO"
    BY <2>1, <2>2, <2>3 DEF Get
  <2>4. CASE prop # "OBD2_FREEZE_FRAME_INFO"
    <3>1. IdOf(v) \in DOMAIN mPropStore
      BY <1>2, <2>1, <2>2, <2>4 DEF Get, ReadValueOrNull, Holds
    <3>2. IdOf(v).prop \notin {FREEZE_FRAME, "none"}
      BY <2>2, IdFields, NoneIsNotConfigured
    <3>3. IdOf(v) \in DOMAIN mPropStore'
      BY <1>1, <3>1, <3>2
    <3>4. QED
      BY <2>1, <2>2, <2>4, <3>3 DEF Get, ReadValueOrNull, Holds
  <2>5. QED
    BY <2>3, <2>4
<1>3. QED
  BY <1>2 DEF ReadablePropertiesAnswer, Readable


-----------------------------------------------------------------------------
(***************************************************************************)
(* The queue in a step: an event comes or goes with its generator.         *)
(***************************************************************************)

LEMMA Pushed ==
    ASSUME NEW q, IsSeq(q), NEW e
    PROVE  /\ IsSeq(Push(q, e))
           /\ Push(q, e) # <<>>
           /\ \A c : Count(Push(q, e), c) =
                         IF e.cookie = c THEN Count(q, c) + 1 ELSE Count(q, c)
<1> DEFINE T == ToSet(q) \cup {e}
<1>1. q \in Seq(T) /\ e \in T
  BY DEF IsSeq
<1> HIDE DEF T
<1>2. QED
  BY <1>1, PushCounts, SeqOfItsElements

LEMMA PoppedFront ==
    ASSUME NEW q, IsSeq(q), q # <<>>, NEW p \in Popped(q)
    PROVE  /\ IsSeq(p)
           /\ \A c : Count(q, c) =
                         IF Head(q).cookie = c THEN Count(p, c) + 1 ELSE Count(p, c)
<1> DEFINE T == ToSet(q)
<1>1. q \in Seq(T)
  BY DEF IsSeq
<1> HIDE DEF T
<1>2. QED
  BY <1>1, PoppedCounts, SeqOfItsElements

LEMMA CountIsNat ==
    ASSUME NEW q, IsSeq(q), NEW c
    PROVE  /\ Count(q, c) \in Nat
           /\ OfCookie(q, c) # {} <=> Count(q, c) >= 1
<1>1. IsFiniteSet(OfCookie(q, c)) /\ Count(q, c) \in Nat
  BY OfCookieIsFinite DEF IsSeq
<1>2. Count(q, c) = 0 <=> OfCookie(q, c) = {}
  BY <1>1, FS_EmptySet DEF Count
<1>3. QED
  BY <1>1, <1>2

\* What EveryGeneratorIsQueued says of a queue, by numbers.
Balanced(generators, q, r) ==
    /\ \A c \in generators : Count(q, c) >= 1
    /\ \A c \in Cookies : Count(q, c) <= 1 + r[c]

LEMMA BalancedQueue ==
    ASSUME IsSeq(mEventQueue)
    PROVE  EveryGeneratorIsQueued <=>
               Balanced(DOMAIN mGenerators \ overtaken, mEventQueue, surplus)
<1>1. \A c : Queued(c) = OfCookie(mEventQueue, c)
  BY DEF Queued, OfCookie
<1>2. \A c : Queued(c) # {} <=> Count(mEventQueue, c) >= 1
  BY <1>1, CountIsNat
<1>3. \A c : Cardinality(Queued(c)) = Count(mEventQueue, c)
  BY <1>1 DEF Count
<1>4. QED
  BY <1>2, <1>3 DEF EveryGeneratorIsQueued, Balanced

LEMMA BalancedQueueNext ==
    ASSUME IsSeq(mEventQueue')
    PROVE  EveryGeneratorIsQueued' <=>
               Balanced(DOMAIN mGenerators' \ overtaken', mEventQueue', surplus')
<1>1. \A c : Queued(c)' = OfCookie(mEventQueue', c)
  BY DEF Queued, OfCookie
<1>2. \A c : Queued(c)' # {} <=> Count(mEventQueue', c) >= 1
  BY <1>1, CountIsNat
<1>3. \A c : Cardinality(Queued(c))' = Count(mEventQueue', c)
  BY <1>1 DEF Count
<1>4. QED
  BY <1>2, <1>3 DEF EveryGeneratorIsQueued, Balanced

LEMMA EventOfCookie ==
    ASSUME NEW c, NEW g
    PROVE  EventOf(c, g).cookie = c
BY DEF EventOf

LEMMA EarlierCookie ==
    ASSUME NEW e
    PROVE  Earlier(e).cookie = e.cookie
BY DEF Earlier

\* The invariant of the hub, and what a step makes of it.
QueueOK ==
    /\ IsSeq(mEventQueue)
    /\ surplus \in [Cookies -> Nat]
    /\ QueueIsReady
    /\ EveryGeneratorIsQueued

LEMMA RegisterStep ==
    ASSUME QueueOK, NEW c, NEW g, registerGenerator(c, g)
    PROVE  QueueOK'
<1> DEFINE new == hasNext(g) /\ c \notin DOMAIN mGenerators
           again == new /\ Queued(c) # {}
<1>1. /\ hubPc' = hubPc /\ overtaken' = (IF new THEN overtaken \ {c} ELSE overtaken)
      /\ mEventQueue' = IF new THEN Push(mEventQueue, EventOf(c, g)) ELSE mEventQueue
      /\ mGenerators' = IF ~hasNext(g) THEN mGenerators
                        ELSE Put(mGenerators, c, IF new THEN Advanced(g) ELSE g)
      /\ surplus' = [surplus EXCEPT ![c] = IF again THEN @ + 1 ELSE @]
  BY DEF registerGenerator
<1> HIDE DEF again
<1>2. /\ surplus' \in [Cookies -> Nat]
      /\ \A d \in Cookies : surplus'[d] = IF d = c /\ again THEN surplus[d] + 1 ELSE surplus[d]
  <2>1. surplus \in [Cookies -> Nat]
    BY DEF QueueOK
  <2>2. CASE again
    <3>1. surplus' = [surplus EXCEPT ![c] = @ + 1]
      BY <1>1, <2>2
    <3>2. /\ DOMAIN surplus' = Cookies
          /\ \A d \in Cookies : surplus'[d] = IF d = c THEN surplus[d] + 1 ELSE surplus[d]
      BY ONLY <2>1, <3>1
    <3>3. \A d \in Cookies : surplus'[d] \in Nat
      BY ONLY <2>1, <3>2
    <3>4. surplus' = [d \in Cookies |-> surplus'[d]]
      BY ONLY <2>1, <3>1, <3>2
    <3>5. QED
      BY <2>2, <3>2, <3>3, <3>4
  <2>3. CASE ~again
    <3>1. surplus' = [surplus EXCEPT ![c] = @]
      BY <1>1, <2>3
    <3>2. QED
      BY <2>1, <2>3, <3>1
  <2>4. QED
    BY <2>2, <2>3
<1>3. Balanced(DOMAIN mGenerators \ overtaken, mEventQueue, surplus)
  BY BalancedQueue DEF QueueOK
<1>4. again <=> new /\ Count(mEventQueue, c) >= 1
  <2>1. Queued(c) = OfCookie(mEventQueue, c)
    BY DEF Queued, OfCookie
  <2>2. QED
    BY <2>1, CountIsNat DEF QueueOK, again
<1>5. \A d : Count(mEventQueue, d) \in Nat
  BY CountIsNat DEF QueueOK
<1>6. DOMAIN mGenerators' = IF hasNext(g) THEN DOMAIN mGenerators \cup {c} ELSE DOMAIN mGenerators
  BY <1>1 DEF Put
<1>7. CASE new
  <2>1. /\ IsSeq(mEventQueue') /\ mEventQueue' # <<>>
        /\ \A d : Count(mEventQueue', d) =
                      IF c = d THEN Count(mEventQueue, d) + 1 ELSE Count(mEventQueue, d)
    <3>1. PICK e : e = EventOf(c, g) /\ e.cookie = c
      BY EventOfCookie
    <3>2. mEventQueue' = Push(mEventQueue, e)
      BY <3>1, <1>1, <1>7
    <3>3. QED
      BY <3>1, <3>2, Pushed DEF QueueOK
  <2>2. Balanced(DOMAIN mGenerators' \ overtaken', mEventQueue', surplus')
    <3>1. overtaken' = overtaken \ {c}
      BY <1>1, <1>7
    <3>2. /\ \A d \in DOMAIN mGenerators \ overtaken : Count(mEventQueue, d) >= 1
          /\ \A d \in Cookies : Count(mEventQueue, d) <= 1 + surplus[d]
      BY <1>3 DEF Balanced
    <3>3. \A d \in DOMAIN mGenerators' \ overtaken' : Count(mEventQueue', d) >= 1
      BY <3>1, <3>2, <2>1, <1>5, <1>6
    <3>4. ASSUME NEW d \in Cookies PROVE Count(mEventQueue', d) <= 1 + surplus'[d]
      BY <3>2, <2>1, <1>2, <1>4, <1>5, <1>7 DEF QueueOK
    <3>5. QED
      BY <3>3, <3>4 DEF Balanced
  <2>3. QED
    BY <2>1, <2>2, <1>1, <1>2, BalancedQueueNext DEF QueueOK, QueueIsReady
<1>8. CASE ~new
  <2>1. /\ mEventQueue' = mEventQueue /\ overtaken' = overtaken
        /\ DOMAIN mGenerators' = DOMAIN mGenerators
    BY <1>1, <1>6, <1>8
  <2>2. surplus' = surplus
    BY <1>1, <1>4, <1>8 DEF QueueOK
  <2>3. QED
    BY <2>1, <2>2, <1>1, <1>3, BalancedQueueNext DEF QueueOK, QueueIsReady
<1>9. QED
  BY <1>7, <1>8

LEMMA UnregisterStep ==
    ASSUME QueueOK, NEW c, unregisterGenerator(c)
    PROVE  QueueOK'
<1>1. /\ mEventQueue' = mEventQueue /\ surplus' = surplus /\ overtaken' = overtaken
      /\ hubPc' = hubPc /\ DOMAIN mGenerators' \subseteq DOMAIN mGenerators
  BY DEF unregisterGenerator, Restrict
<1>2. Balanced(DOMAIN mGenerators \ overtaken, mEventQueue, surplus)
  BY BalancedQueue DEF QueueOK
<1>3. Balanced(DOMAIN mGenerators' \ overtaken', mEventQueue', surplus')
  BY <1>1, <1>2 DEF Balanced
<1>4. QED
  BY <1>1, <1>3, BalancedQueueNext DEF QueueOK, QueueIsReady

LEMMA PopDeadStep ==
    ASSUME QueueOK, PopDeadEvent
    PROVE  QueueOK'
<1>1. /\ mEventQueue # <<>> /\ Head(mEventQueue).cookie \notin DOMAIN mGenerators
      /\ mEventQueue' \in Popped(mEventQueue)
      /\ surplus' = surplus /\ overtaken' = overtaken /\ mGenerators' = mGenerators
      /\ hubPc' = "scan"
  BY DEF PopDeadEvent, FrontIsDead
<1>2. /\ IsSeq(mEventQueue')
      /\ \A c : Count(mEventQueue, c) =
                    IF Head(mEventQueue).cookie = c THEN Count(mEventQueue', c) + 1
                    ELSE Count(mEventQueue', c)
  BY <1>1, PoppedFront DEF QueueOK
<1>3. \A c : Count(mEventQueue', c) \in Nat
  BY <1>2, CountIsNat
<1>4. Balanced(DOMAIN mGenerators \ overtaken, mEventQueue, surplus)
  BY BalancedQueue DEF QueueOK
<1>5. Balanced(DOMAIN mGenerators' \ overtaken', mEventQueue', surplus')
  <2>2. \A c \in DOMAIN mGenerators \ overtaken : Count(mEventQueue', c) >= 1
    BY <1>1, <1>2, <1>4 DEF Balanced
  <2>3. ASSUME NEW c \in Cookies PROVE Count(mEventQueue', c) <= 1 + surplus[c]
    BY <1>2, <1>3, <1>4 DEF Balanced, QueueOK
  <2>4. QED
    BY <2>2, <2>3, <1>1 DEF Balanced
<1>6. QED
  BY <1>1, <1>2, <1>5, BalancedQueueNext DEF QueueOK, QueueIsReady

LEMMA NextEventStep ==
    ASSUME QueueOK, NextEvent
    PROVE  QueueOK'
<1> DEFINE c == curEvent.cookie
           front == Head(mEventQueue).cookie
           goesOn == c \in DOMAIN mGenerators /\ hasNext(mGenerators[c])
           beside == goesOn /\ front # c
<1>1. /\ hubPc = "handled" /\ hubPc' = "start"
      /\ overtaken' = (IF Cardinality(Queued(front)) = 1 THEN overtaken \cup {front}
                       ELSE overtaken) \ {c}
      /\ surplus' = IF beside THEN [surplus EXCEPT ![c] = @ + 1] ELSE surplus
  BY DEF NextEvent
<1>2. mEventQueue # <<>>
  BY <1>1 DEF QueueOK, QueueIsReady
<1>3. PICK q \in Popped(mEventQueue) :
          IF goesOn
          THEN /\ mEventQueue' = Push(q, EventOf(c, mGenerators[c]))
               /\ DOMAIN mGenerators' = DOMAIN mGenerators
          ELSE /\ mEventQueue' = q
               /\ DOMAIN mGenerators' = DOMAIN mGenerators \ {c}
  BY DEF NextEvent, Restrict
<1>4. /\ IsSeq(q)
      /\ \A d : Count(mEventQueue, d) =
                    IF front = d THEN Count(q, d) + 1 ELSE Count(q, d)
  BY <1>2, PoppedFront DEF QueueOK
<1>5. \A d : Count(q, d) \in Nat
  BY <1>4, CountIsNat
<1>6. /\ \A d \in DOMAIN mGenerators \ overtaken : Count(mEventQueue, d) >= 1
      /\ \A d \in Cookies : Count(mEventQueue, d) <= 1 + surplus[d]
  BY BalancedQueue DEF QueueOK, Balanced
<1>7. Cardinality(Queued(front)) = Count(mEventQueue, front)
  BY DEF Queued, OfCookie, Count
<1>8. c \in DOMAIN mGenerators' => goesOn
  BY <1>3
<1> HIDE DEF c, front
<1>9. /\ surplus' \in [Cookies -> Nat]
      /\ \A d \in Cookies : surplus'[d] = IF beside /\ d = c THEN surplus[d] + 1
                                          ELSE surplus[d]
  <2>1. surplus \in [Cookies -> Nat]
    BY DEF QueueOK
  <2>2. CASE beside
    <3>1. surplus' = [surplus EXCEPT ![c] = @ + 1]
      BY <1>1, <2>2
    <3>2. /\ DOMAIN surplus' = Cookies
          /\ \A d \in Cookies : surplus'[d] = IF d = c THEN surplus[d] + 1 ELSE surplus[d]
      BY ONLY <2>1, <3>1
    <3>3. \A d \in Cookies : surplus'[d] \in Nat
      BY ONLY <2>1, <3>2
    <3>4. surplus' = [d \in Cookies |-> surplus'[d]]
      BY ONLY <2>1, <3>1, <3>2
    <3> QED
      BY <2>2, <3>2, <3>3, <3>4
  <2>3. CASE ~beside
    BY ONLY <1>1, <2>1, <2>3
  <2> QED
    BY <2>2, <2>3
<1> HIDE DEF beside
<1>10. /\ IsSeq(mEventQueue')
       /\ \A d : Count(mEventQueue', d) = IF goesOn /\ c = d THEN Count(q, d) + 1
                                          ELSE Count(q, d)
  <2>1. CASE goesOn
    <3>1. PICK e : e = EventOf(c, mGenerators[c]) /\ e.cookie = c
      BY EventOfCookie
    <3>2. mEventQueue' = Push(q, e)
      BY <3>1, <2>1, <1>3
    <3> QED
      BY <3>1, <3>2, <2>1, <1>4, Pushed
  <2>2. CASE ~goesOn
    BY <2>2, <1>3, <1>4
  <2> QED
    BY <2>1, <2>2
<1>11. DOMAIN mGenerators' \subseteq DOMAIN mGenerators
  BY <1>3
<1>12. ASSUME NEW d \in DOMAIN mGenerators' \ overtaken'
       PROVE  Count(mEventQueue', d) >= 1
  <2>1. CASE d = c
    BY <2>1, <1>5, <1>8, <1>10
  <2>2. CASE d # c
    <3>1. d \notin overtaken /\ (d = front => Count(mEventQueue, d) # 1)
      BY <2>2, <1>1, <1>7
    <3>2. Count(mEventQueue, d) >= 1
      BY <3>1, <1>6, <1>11
    <3> QED
      BY <2>2, <3>1, <3>2, <1>4, <1>5, <1>10
  <2> QED
    BY <2>1, <2>2
<1>13. ASSUME NEW d \in Cookies PROVE Count(mEventQueue', d) <= 1 + surplus'[d]
  <2>1. surplus[d] \in Nat /\ Count(mEventQueue, d) <= 1 + surplus[d]
    BY <1>6 DEF QueueOK
  <2>2. /\ Count(mEventQueue, d) = IF front = d THEN Count(q, d) + 1 ELSE Count(q, d)
        /\ Count(mEventQueue', d) = IF goesOn /\ c = d THEN Count(q, d) + 1
                                    ELSE Count(q, d)
        /\ Count(q, d) \in Nat
    BY <1>4, <1>5, <1>10
  <2>3. surplus'[d] = IF beside /\ d = c THEN surplus[d] + 1 ELSE surplus[d]
    BY <1>9
  <2> QED
    BY <2>1, <2>2, <2>3 DEF beside
<1>14. Balanced(DOMAIN mGenerators' \ overtaken', mEventQueue', surplus')
  BY <1>12, <1>13 DEF Balanced
<1>15. QED
  BY <1>1, <1>9, <1>10, <1>14, BalancedQueueNext DEF QueueOK, QueueIsReady

LEMMA TickStep ==
    ASSUME QueueOK, Tick
    PROVE  QueueOK'
<1>1. /\ mEventQueue # <<>>
      /\ mEventQueue' = [i \in DOMAIN mEventQueue |-> Earlier(mEventQueue[i])]
      /\ surplus' = surplus /\ overtaken' = overtaken /\ mGenerators' = mGenerators
      /\ hubPc' = hubPc
  BY DEF Tick
<1>2. PICK n \in Nat : n = Len(mEventQueue) /\ DOMAIN mEventQueue = 1 .. n /\ n # 0
  BY <1>1 DEF QueueOK, IsSeq
<1>3. IsSeq(mEventQueue') /\ DOMAIN mEventQueue' = 1 .. n /\ mEventQueue' # <<>>
  <2>1. PICK r : r = mEventQueue'
    OBVIOUS
  <2>2. DOMAIN r = 1 .. n /\ r = [i \in 1 .. n |-> r[i]]
    BY <1>1, <1>2, <2>1
  <2>3. r \in [1 .. n -> ToSet(r)]
    BY <2>2 DEF ToSet
  <2>4. r \in Seq(ToSet(r))
    BY <2>3
  <2>5. QED
    BY <2>1, <2>2, <2>4, <1>2 DEF IsSeq
<1>4. \A c : Count(mEventQueue', c) = Count(mEventQueue, c)
  <2>1. ASSUME NEW c PROVE OfCookie(mEventQueue', c) = OfCookie(mEventQueue, c)
    <3>1. \A i \in 1 .. n : mEventQueue'[i].cookie = mEventQueue[i].cookie
      BY <1>1, <1>2, EarlierCookie
    <3>2. QED
      BY <3>1, <1>2, <1>3 DEF OfCookie
  <2>2. QED
    BY <2>1 DEF Count
<1>5. Balanced(DOMAIN mGenerators \ overtaken, mEventQueue, surplus)
  BY BalancedQueue DEF QueueOK
<1>6. Balanced(DOMAIN mGenerators' \ overtaken', mEventQueue', surplus')
  BY <1>1, <1>4, <1>5 DEF Balanced
<1>7. QED
  BY <1>1, <1>3, <1>6, BalancedQueueNext DEF QueueOK, QueueIsReady

LEMMA QueueStep ==
    ASSUME QueueOK, Steps
    PROVE  QueueOK'
<1>1. Balanced(DOMAIN mGenerators \ overtaken, mEventQueue, surplus)
  BY BalancedQueue DEF QueueOK
<1>2. ASSUME UNCHANGED <<mGenerators, mEventQueue, overtaken, surplus>>,
             QueueIsReady'
      PROVE  QueueOK'
  BY <1>1, <1>2, BalancedQueueNext DEF QueueOK
<1>3. CASE UNCHANGED hubVars
  BY <1>2, <1>3 DEF hubVars, QueueOK, QueueIsReady
<1>4. CASE HubThread
  <2>1. CASE WaitForEvents
    BY <1>2, <2>1 DEF WaitForEvents, QueueIsReady
  <2>2. CASE WaitForEventTime
    BY <1>2, <2>2 DEF WaitForEventTime, QueueIsReady
  <2>3. CASE WakeEarly
    BY <1>2, <2>3 DEF WakeEarly, QueueIsReady
  <2>4. CASE Timeout
    BY <1>2, <2>4 DEF Timeout, QueueOK, QueueIsReady
  <2>5. QED
    BY <1>4, <2>1, <2>2, <2>3, <2>4, PopDeadStep, NextEventStep DEF HubThread
<1>5. CASE WriteGenerated
  BY <1>2, <1>5 DEF WriteGenerated, QueueOK, QueueIsReady
<1>6. CASE NotifyGenerated
  BY <1>2, <1>6 DEF NotifyGenerated, QueueOK, QueueIsReady
<1>7. QED
  BY <1>3, <1>4, <1>5, <1>6, HubSteps, RegisterStep, UnregisterStep, TickStep

-----------------------------------------------------------------------------
(***************************************************************************)
(* The records after onCreate.                                             *)
(***************************************************************************)

\* RecordsFitIds, of any records.
FitIds(records) ==
    \A id \in DOMAIN records :
        /\ id.prop \in DOMAIN mConfigs
        /\ records[id].prop = id.prop
        /\ id.prop = FREEZE_FRAME => records[id].timestamp = id.token

LEMMA WrittenFit ==
    ASSUME NEW records, FitIds(records), NEW v, NEW updateStatus
    PROVE  FitIds(writeValue(mConfigs, records, v, updateStatus))
<1>1. CASE v.prop \notin DOMAIN mConfigs
  BY <1>1, NotWritten
<1>2. CASE v.prop \in DOMAIN mConfigs
  <2>1. PICK written : /\ written = writeValue(mConfigs, records, v, updateStatus)
                       /\ AreWritten(records, v, written)
    BY <1>2, WrittenRecords
  <2>2. IdOf(v).prop = v.prop /\ (v.prop = FREEZE_FRAME => IdOf(v).token = v.timestamp)
    BY <1>2, IdFields
  <2>3. ASSUME NEW id \in DOMAIN written
        PROVE  /\ id.prop \in DOMAIN mConfigs
               /\ written[id].prop = id.prop
               /\ id.prop = FREEZE_FRAME => written[id].timestamp = id.token
    <3>1. CASE id = IdOf(v)
      BY <2>1, <2>2, <3>1, <1>2 DEF AreWritten, FitIds
    <3>2. CASE id # IdOf(v)
      BY <2>1, <3>2 DEF AreWritten, FitIds
    <3>3. QED
      BY <3>1, <3>2
  <2>4. QED
    BY <2>1, <2>3 DEF FitIds
<1>3. QED
  BY <1>1, <1>2

LEMMA WritesKeepRecords ==
    ASSUME NEW records, NEW v, NEW updateStatus
    PROVE  /\ DOMAIN records \subseteq DOMAIN writeValue(mConfigs, records, v, updateStatus)
           /\ v.prop \in DOMAIN mConfigs =>
                 IdOf(v) \in DOMAIN writeValue(mConfigs, records, v, updateStatus)
<1>1. CASE v.prop \notin DOMAIN mConfigs
  BY <1>1, NotWritten
<1>2. CASE v.prop \in DOMAIN mConfigs
  <2>1. PICK written : /\ written = writeValue(mConfigs, records, v, updateStatus)
                       /\ AreWritten(records, v, written)
    BY <1>2, WrittenRecords
  <2>2. QED
    BY <2>1 DEF AreWritten
<1>3. QED
  BY <1>1, <1>2

\* The id of a value that is not a freeze frame.
LEMMA PlainId ==
    ASSUME NEW v, v.prop \in DOMAIN mConfigs, v.prop # FREEZE_FRAME
    PROVE  IdOf(v) = [prop |-> v.prop, area |-> AreaOf(mConfigs[v.prop].row, v.areaId),
                      token |-> 0]
<1>1. mConfigs[v.prop].byTimestamp = FALSE
  BY ConfigOf
<1>2. IdOf(v) = [prop |-> v.prop, area |-> AreaOf(mConfigs[v.prop].row, v.areaId),
                 token |-> IF mConfigs[v.prop].byTimestamp THEN v.timestamp ELSE 0]
  BY DEF IdOf, RecordId
<1>3. QED
  BY <1>1, <1>2

\* Every record that get looks for exists once onCreate has returned.
LEMMA CreatedRecords ==
    /\ FitIds(onCreate)
    /\ \A v : /\ v.prop \in DOMAIN mConfigs
              /\ ~isDiagnosticProperty(v.prop) \/ v.prop = "OBD2_LIVE_FRAME"
              /\ AreaOf(mConfigs[v.prop].row, v.areaId) \in AreasToCreate(mConfigs[v.prop].row)
              => IdOf(v) \in DOMAIN onCreate
<1> DEFINE live == writeValue(mConfigs, InitialRecords,
                              DefaultObd2Frame("OBD2_LIVE_FRAME", "", 1), TRUE)
           one == writeValue(mConfigs, live, DefaultObd2Frame(FREEZE_FRAME, sampleDtcs[1], 1),
                             TRUE)
<1>1. onCreate = writeValue(mConfigs, one, DefaultObd2Frame(FREEZE_FRAME, sampleDtcs[2], 2),
                            TRUE)
  BY DEF onCreate
<1>2. FitIds(InitialRecords)
  <2>1. SUFFICES ASSUME NEW id \in DOMAIN InitialRecords
                 PROVE  /\ id.prop \in DOMAIN mConfigs
                        /\ InitialRecords[id].prop = id.prop
                        /\ id.prop # FREEZE_FRAME
    BY DEF FitIds
  <2>2. id \in InitialIds /\ ~isDiagnosticProperty(id.prop)
    BY DEF InitialRecords
  <2>3. PICK prop \in DOMAIN mConfigs :
            id \in {[prop |-> prop, area |-> area, token |-> 0] :
                       area \in AreasToCreate(mConfigs[prop].row)}
    BY <2>2 DEF InitialIds
  <2>4. id.prop = prop
    BY <2>3
  <2>5. InitialRecords[id].prop = id.prop
    <3>1. InitialRecords[id] =
              Value(id.prop, id.area, "AVAILABLE", InitialValue(mConfigs[id.prop].row, id.area))
      BY DEF InitialRecords
    <3>2. QED
      BY <3>1, ValueFields
  <2>6. QED
    BY <2>2, <2>3, <2>4, <2>5 DEF isDiagnosticProperty
<1>3. FitIds(onCreate)
  <2>1. FitIds(live)
    BY <1>2, WrittenFit
  <2> HIDE DEF live
  <2>2. FitIds(one)
    BY <2>1, WrittenFit
  <2> HIDE DEF one
  <2>3. QED
    BY <2>2, <1>1, WrittenFit
<1>4. DOMAIN live \subseteq DOMAIN onCreate
  <2> HIDE DEF live
  <2>1. DOMAIN live \subseteq DOMAIN one
    BY WritesKeepRecords
  <2> HIDE DEF one
  <2>2. DOMAIN one \subseteq DOMAIN onCreate
    BY <1>1, WritesKeepRecords
  <2>3. QED
    BY <2>1, <2>2
<1>5. ASSUME NEW v, v.prop \in DOMAIN mConfigs, v.prop # FREEZE_FRAME,
             AreaOf(mConfigs[v.prop].row, v.areaId) \in AreasToCreate(mConfigs[v.prop].row),
             ~isDiagnosticProperty(v.prop)
      PROVE  IdOf(v) \in DOMAIN onCreate
  <2>1. IdOf(v) = [prop |-> v.prop, area |-> AreaOf(mConfigs[v.prop].row, v.areaId),
                   token |-> 0]
    BY <1>5, PlainId
  <2>2. IdOf(v) \in InitialIds
    BY <2>1, <1>5 DEF InitialIds
  <2>3. IdOf(v) \in DOMAIN InitialRecords
    BY <2>1, <2>2, <1>5 DEF InitialRecords
  <2>4. DOMAIN InitialRecords \subseteq DOMAIN live
    BY WritesKeepRecords
  <2>5. QED
    BY <2>3, <2>4, <1>4
<1>6. ASSUME NEW v, v.prop \in DOMAIN mConfigs, v.prop = "OBD2_LIVE_FRAME"
      PROVE  IdOf(v) \in DOMAIN onCreate
  <2>1. PICK frame : frame = DefaultObd2Frame("OBD2_LIVE_FRAME", "", 1)
    OBVIOUS
  <2>2. frame.prop = "OBD2_LIVE_FRAME"
    <3>1. PICK prop, dtc, timestamp : prop = "OBD2_LIVE_FRAME" /\ dtc = "" /\ timestamp = 1
      OBVIOUS
    <3>2. frame = DefaultObd2Frame(prop, dtc, timestamp)
      BY <2>1, <3>1
    <3>3. frame.prop = prop
      BY ONLY <3>2, FrameFields
    <3>4. QED
      BY <3>1, <3>3
  <2>3. \A area : AreaOf(mConfigs["OBD2_LIVE_FRAME"].row, area) = GlobalArea
    BY <1>6, ConfigOf DEF Proper, AreaOf, isGlobalProp
  <2>4. IdOf(v) = IdOf(frame)
    BY <1>6, <2>2, <2>3, PlainId DEF FREEZE_FRAME
  <2>5. IdOf(frame) \in DOMAIN live
    BY <1>6, <2>1, <2>2, WritesKeepRecords
  <2>6. QED
    BY <2>4, <2>5, <1>4
<1>7. QED
  BY <1>3, <1>5, <1>6 DEF isDiagnosticProperty

LEMMA RestrictedRecords ==
    ASSUME NEW records
    PROVE  /\ DOMAIN Restricted(records) = {id \in DOMAIN records : id.prop \in Watched}
           /\ \A id \in DOMAIN Restricted(records) : Restricted(records)[id] = records[id]
BY DEF Restricted, Restrict

LEMMA InitIInv ==
    ASSUME Init
    PROVE  IInv
<1>1. /\ mPropStore = Restricted(onCreate)
      /\ lastEvent = [id \in DOMAIN Restricted(onCreate) |-> onCreate[id].value]
      /\ pc = [t \in Threads |-> "idle"] /\ request = [t \in Threads |-> Nobody]
      /\ sampled = {} /\ timerTodo = {} /\ timerHand = Nobody
      /\ mEventQueue = <<>> /\ mGenerators = <<>> /\ hubPc = "start"
      /\ surplus = [c \in Cookies |-> 0]
  BY DEF Init, HubInit
<1>2. /\ DOMAIN mPropStore = {id \in DOMAIN onCreate : id.prop \in Watched}
      /\ \A id \in DOMAIN mPropStore :
            mPropStore[id] = onCreate[id] /\ lastEvent[id] = onCreate[id].value
      /\ DOMAIN lastEvent = DOMAIN mPropStore
  BY <1>1, RestrictedRecords
<1>3. TypeOK
  BY <1>1 DEF TypeOK, Places, IsSeq
<1>4. ClearersAreClients /\ ChecksWerePowered /\ SetsWerePermitted
  BY <1>1 DEF ClearersAreClients, ChecksWerePowered, SetsWerePermitted, Threads
<1>5. RecordsFitIds
  BY <1>2, CreatedRecords DEF FitIds, RecordsFitIds
<1>6. TimerIsContinuous
  BY <1>1 DEF TimerIsContinuous
<1>7. PendingIsStored
  BY <1>1 DEF PendingIsStored
<1>8. EventsAreKnown /\ LastEventIsStored
  BY <1>2 DEF EventsAreKnown, LastEventIsStored
<1>9. ReadablePropertiesAnswer
  <2>1. SUFFICES ASSUME NEW prop \in Readable,
                        NEW area \in IF mConfigs[prop].row.areaConfigs = {} THEN {GlobalArea}
                                     ELSE mConfigs[prop].row.areaConfigs
                 PROVE  Get(Value(prop, area, "AVAILABLE", <<>>)) # {}
    BY DEF ReadablePropertiesAnswer
  <2>2. PICK v : v = Value(prop, area, "AVAILABLE", <<>>)
    OBVIOUS
  <2>3. /\ v.prop = prop /\ v.areaId = area /\ prop \in Watched
        /\ prop \in DOMAIN mConfigs /\ prop # FREEZE_FRAME
        /\ mConfigs[prop].row.access # "WRITE"
    BY <2>2, ValueFields, WatchedAssumption DEF Readable
  <2>4. CASE prop = "OBD2_FREEZE_FRAME_INFO"
    BY <2>2, <2>3, <2>4 DEF Get
  <2>5. CASE prop # "OBD2_FREEZE_FRAME_INFO"
    <3>1. prop # "OBD2_FREEZE_FRAME_CLEAR"
      <4>1. PICK row : row = mConfigs[prop].row
        OBVIOUS
      <4>2. Proper(row) /\ row.prop = prop /\ row.access # "WRITE"
        BY <4>1, <2>3, ConfigOf
      <4>3. QED
        BY <4>2 DEF Proper
    <3>2. ~isDiagnosticProperty(prop) \/ prop = "OBD2_LIVE_FRAME"
      BY <2>3, <2>5, <3>1 DEF isDiagnosticProperty
    <3>3. AreaOf(mConfigs[prop].row, area) \in AreasToCreate(mConfigs[prop].row)
      BY <2>1 DEF AreaOf, AreasToCreate, isGlobalProp
    <3>4. IdOf(v) \in DOMAIN onCreate /\ IdOf(v).prop = prop
      BY <2>3, <3>2, <3>3, CreatedRecords, IdFields
    <3>5. IdOf(v) \in DOMAIN mPropStore
      BY <2>3, <3>4, <1>2
    <3>6. QED
      BY <2>2, <2>3, <2>5, <3>5 DEF Get, ReadValueOrNull, Holds
  <2>6. QED
    BY <2>4, <2>5
<1>10. QueueIsReady
  BY <1>1 DEF QueueIsReady
<1>11. EveryGeneratorIsQueued
  <2>1. DOMAIN mGenerators = {}
    BY <1>1
  <2>2. \A c : Queued(c) = {}
    BY <1>1 DEF Queued
  <2>3. \A c : Cardinality(Queued(c)) = 0
    BY <2>2, FS_EmptySet
  <2>4. QED
    BY <1>1, <2>1, <2>3 DEF EveryGeneratorIsQueued
<1>12. QED
  BY <1>3, <1>4, <1>5, <1>6, <1>7, <1>8, <1>9, <1>10, <1>11 DEF IInv

-----------------------------------------------------------------------------
(***************************************************************************)
(* The theorems.                                                           *)
(***************************************************************************)

LEMMA IInvStep ==
    ASSUME IInv, [Next]_vars
    PROVE  IInv'
<1>1. CASE UNCHANGED vars
  <2>1. /\ mPropStore' = mPropStore /\ lastEvent' = lastEvent /\ overlapped' = overlapped
        /\ pc' = pc /\ request' = request /\ permitted' = permitted
        /\ sampled' = sampled /\ timerTodo' = timerTodo /\ timerHand' = timerHand
        /\ mEventQueue' = mEventQueue /\ mGenerators' = mGenerators /\ hubPc' = hubPc
        /\ curEvent' = curEvent /\ surplus' = surplus /\ overtaken' = overtaken
    BY <1>1 DEF vars, callVars, timerVars, hubVars
  <2>2. (TypeOK /\ ClearersAreClients /\ RecordsFitIds /\ TimerIsContinuous)'
    BY <2>1 DEF IInv, TypeOK, ClearersAreClients, RecordsFitIds, TimerIsContinuous,
                isContinuousProperty
  <2>3. PendingIsStored'
    BY <2>1 DEF IInv, PendingIsStored, IdOf, Generated
  <2>4. (EventsAreKnown /\ LastEventIsStored)'
    BY <2>1 DEF IInv, EventsAreKnown, LastEventIsStored, IsPending, IdOf, Generated
  <2>5. (ChecksWerePowered /\ SetsWerePermitted /\ QueueIsReady)'
    BY <2>1 DEF IInv, ChecksWerePowered, SetsWerePermitted, QueueIsReady
  <2>6. ReadablePropertiesAnswer'
    BY <2>1 DEF IInv, ReadablePropertiesAnswer, Get, ReadValueOrNull, Holds, IdOf,
                fillObd2FreezeFrame, fillObd2DtcInfo
  <2>7. EveryGeneratorIsQueued'
    BY <2>1 DEF IInv, EveryGeneratorIsQueued, Queued
  <2>8. QED
    BY <2>2, <2>3, <2>4, <2>5, <2>6, <2>7 DEF IInv
<1>2. CASE Steps /\ RecordPermits
  <2>1. RecordsFitIds'
    BY <1>2, RecordsStep DEF IInv
  <2>2. QueueOK'
    BY <1>2, QueueStep DEF IInv, QueueOK, TypeOK
  <2>3. TypeOK' /\ ClearersAreClients'
    BY <1>2, <2>2, PlacesStep DEF IInv, QueueOK, TypeOK
  <2>4. TimerIsContinuous'
    BY <1>2, TimerStep DEF IInv
  <2>5. PendingIsStored'
    BY <1>2, PendingStep DEF IInv
  <2>6. (EventsAreKnown /\ LastEventIsStored)'
    <3>1. \A id \in DOMAIN mPropStore' : Settled(id)' => EventIsStored(id)'
      BY <1>2, <2>1, EventStep DEF IInv
    <3>2. QED
      BY <3>1 DEF EventsAreKnown, LastEventIsStored, Settled, EventIsStored
  <2>7. (ChecksWerePowered /\ SetsWerePermitted)'
    BY <1>2, PermitStep DEF IInv
  <2>8. ReadablePropertiesAnswer'
    BY <1>2, AnswersStep DEF IInv
  <2>9. QED
    BY <2>1, <2>2, <2>3, <2>4, <2>5, <2>6, <2>7, <2>8 DEF IInv, QueueOK
<1>3. QED
  BY <1>1, <1>2 DEF Next

\* The invariant that the others follow from: every state of the emulated HAL
\* has it, whatever is configured, asked for, generated and sampled, and by
\* however many threads.
THEOREM Invariance == Spec => []IInv
<1>1. Init => IInv
  BY InitIInv
<1>2. IInv /\ [Next]_vars => IInv'
  BY IInvStep
<1>3. QED
  BY <1>1, <1>2, PTL DEF Spec

\* A client's value is written only if, at some time of its call, the property
\* was available and, for a fan, the power was on.
\* EmulatedVehicleHal.cpp:142-206.
THEOREM SetsArePermitted == Spec => []SetsWerePermitted
<1>1. IInv => SetsWerePermitted
  BY DEF IInv
<1>2. QED
  BY <1>1, Invariance, PTL

\* Once nobody is about to send an event of a record, its last event carries
\* the value that is stored, whichever of the three kinds of writers wrote it,
\* but for overlapping writers of one record.
\* EmulatedVehicleHal.cpp:204-209, 333-341, 455-467.
THEOREM EventsTellTheStore == Spec => []LastEventIsStored
<1>1. IInv => LastEventIsStored
  BY DEF IInv
<1>2. QED
  BY <1>1, Invariance, PTL

\* get answers for each area of every property that a client may read, from
\* the return of onCreate on.  EmulatedVehicleHal.cpp:106-132, 225-275.
THEOREM ReadsAreAnswered == Spec => []ReadablePropertiesAnswer
<1>1. IInv => ReadablePropertiesAnswer
  BY DEF IInv
<1>2. QED
  BY <1>1, Invariance, PTL

\* Every registered generator has an event in the queue, but for one whose only
\* event was popped in place of the handled one, and a cookie has no more
\* events there than it was registered again, or moved on, beside an event of
\* its own.  GeneratorHub.cpp:34-93.
THEOREM GeneratorsStayQueued == Spec => []EveryGeneratorIsQueued
<1>1. IInv => EveryGeneratorIsQueued
  BY DEF IInv
<1>2. QED
  BY <1>1, Invariance, PTL

\* The frames that a step takes from the store.
LEMMA ClearedFrames ==
    ASSUME IInv, Steps, NEW timestamp \in Listed \ Listed'
    PROVE  \/ Listed' = {}
           \/ \E t \in Clients : pc[t] = "remove" /\ Head(request[t].value) = timestamp
<1>1. PICK id \in DOMAIN mPropStore :
          id.prop = FREEZE_FRAME /\ mPropStore[id].timestamp = timestamp
  BY DEF Listed, RecordsOf
<1>2. id.token = timestamp
  BY <1>1 DEF IInv, RecordsFitIds
<1>3. CASE id \in DOMAIN mPropStore'
  <2>1. RecordsFitIds'
    BY RecordsStep DEF IInv
  <2>2. mPropStore'[id].timestamp = timestamp
    BY <1>1, <1>2, <1>3, <2>1 DEF RecordsFitIds
  <2>3. timestamp \in Listed'
    BY <1>1, <1>3, <2>2 DEF Listed, RecordsOf
  <2>4. QED
    BY <2>3
<1>4. CASE id \notin DOMAIN mPropStore'
  <2>1. ASSUME NEW v, NEW updateStatus, Store(v, updateStatus) PROVE FALSE
    BY <2>1, <1>4, WritesKeepRecords DEF Store
  <2>2. CASE \E t \in Threads : WriteValue(t)
    BY <2>1, <2>2 DEF WriteValue
  <2>3. CASE WriteGenerated
    BY <2>1, <2>3 DEF WriteGenerated
  <2>4. ASSUME NEW t \in Threads, RemoveFrame(t)
        PROVE  \E u \in Clients : pc[u] = "remove" /\ Head(request[u].value) = timestamp
    <3>1. id = IdOf(FrameAt(t))
      BY <1>4, <2>4 DEF RemoveFrame, removeValue, Restrict, IdOf
    <3>2. Head(request[t].value) = timestamp
      BY <3>1, <1>1, <1>2, FrameIds
    <3>3. pc[t] = "remove" /\ t \in Clients
      BY <2>4 DEF RemoveFrame, IInv, ClearersAreClients
    <3>4. QED
      BY <3>2, <3>3
  <2>5. CASE mPropStore' = removeValuesForProperty(mPropStore, FREEZE_FRAME)
    <3>1. \A i \in DOMAIN mPropStore' : i.prop # FREEZE_FRAME
      BY <2>5 DEF removeValuesForProperty, Restrict, RecordsOf
    <3>2. Listed' = {}
      BY <3>1 DEF Listed, RecordsOf
    <3>3. QED
      BY <3>2
  <2>6. QED
    BY <2>2, <2>3, <2>4, <2>5, <1>4, StoreSteps
<1>5. QED
  BY <1>3, <1>4

\* A freeze frame leaves the store only when it is cleared by its timestamp,
\* by a client, or with all the others.  EmulatedVehicleHal.cpp:542-557.
THEOREM FramesStay == Spec => FramesStayUntilCleared
<1>1. IInv /\ [Next]_vars =>
          [\A timestamp \in Listed \ Listed' :
              \/ Listed' = {}
              \/ \E t \in Clients : pc[t] = "remove" /\ Head(request[t].value) = timestamp]_mPropStore
  BY ClearedFrames DEF Next, vars
<1>2. QED
  BY <1>1, Invariance, PTL DEF Spec, FramesStayUntilCleared

=============================================================================
