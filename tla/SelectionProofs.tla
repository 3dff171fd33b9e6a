-------------------------- MODULE SelectionProofs --------------------------
(***************************************************************************)
(* What Selected returns, for every sequence and every set, and the        *)
(* principles of induction that this and other proofs need, about sets:    *)
(* the provers take no theorem about an operator.                          *)
(***************************************************************************)
EXTENDS Selection, SequencesExt, FiniteSetTheorems, SequenceTheorems, TLAPS

\* Induction, with the set of the numbers that have the property.
LEMMA InductionOverNat ==
    ASSUME NEW S \in SUBSET Nat, 0 \in S, \A n \in S : n + 1 \in S
    PROVE  S = Nat
<1>1. SUFFICES ASSUME NEW m \in Nat, m \notin S PROVE FALSE
  OBVIOUS
<1>a. \A n \in S : n \in Nat
  OBVIOUS
<1> DEFINE Low == {n \in S : n < m}
           f == [n \in Low |-> n + 1]
<1>2. IsFiniteSet(Low)
  <2>1. /\ Low \in SUBSET Nat
        /\ \A n \in Low : n <= m
    <3>1. \A n \in Low : n \in Nat /\ n < m
      BY <1>a
    <3>2. \A n \in Low : n <= m
      BY <3>1
    <3> QED
      BY <3>1, <3>2
  <2> QED
    BY <2>1, FS_BoundedSetOfNaturals
<1>3. /\ IsFiniteSet(Low \ {0})
      /\ Cardinality(Low \ {0}) < Cardinality(Low)
  <2>1. 0 \in Low
    BY <1>1
  <2>2. Cardinality(Low) \in Nat
    BY <1>2, FS_CardinalityType
  <2>3. /\ IsFiniteSet(Low \ {0})
        /\ Cardinality(Low \ {0}) = Cardinality(Low) - 1
    BY <1>2, <2>1, FS_RemoveElement
  <2> HIDE DEF Low
  <2> QED
    BY <2>2, <2>3
<1>4. f \in [Low -> Low \ {0}]
  <2>1. \A n \in Low : n \in Nat /\ n + 1 \in S /\ n + 1 # m
    BY <1>1, <1>a
  <2>2. \A n \in Low : n + 1 \in Low \ {0}
    BY <2>1
  <2> QED
    BY <2>2
<1>5. PICK x, y \in Low : x # y /\ f[x] = f[y]
  <2> HIDE DEF Low, f
  <2> QED
    BY <1>2, <1>3, <1>4, FS_PigeonHole
<1>6. x \in Nat /\ y \in Nat /\ x + 1 = y + 1
  BY <1>5, <1>a
<1> QED
  BY <1>5, <1>6

\* A set of numbers that is not empty has a least one.
LEMMA LeastExists ==
    ASSUME NEW numbers \in SUBSET Nat, numbers # {}
    PROVE  \E x \in numbers : \A y \in numbers : x <= y
<1>1. SUFFICES ASSUME \A x \in numbers : \E y \in numbers : y < x
               PROVE  FALSE
  OBVIOUS
<1> DEFINE Below == {n \in Nat : \A y \in numbers : n < y}
<1>2. 0 \in Below
  <2>1. \A x \in numbers : 0 <= x
    OBVIOUS
  <2> QED
    BY <1>1
<1>3. \A n \in Below : n + 1 \in Below
  <2>1. SUFFICES ASSUME NEW n \in Below, NEW y \in numbers PROVE n + 1 < y
    OBVIOUS
  <2>2. PICK z \in numbers : z < y
    BY <1>1
  <2>3. n < z
    OBVIOUS
  <2> QED
    BY <2>2, <2>3
<1>4. Below = Nat
  BY <1>2, <1>3, InductionOverNat
<1>5. PICK x \in numbers : x \in Nat
  OBVIOUS
<1>6. x < x
  BY <1>4, <1>5
<1> QED
  BY <1>5, <1>6

\* Induction over the sequences of a set, that grow at their end.
LEMMA InductionOverSeq ==
    ASSUME NEW T, NEW G \in SUBSET Seq(T), <<>> \in G,
           \A s \in G, x \in T : Append(s, x) \in G
    PROVE  G = Seq(T)
<1> DEFINE N == {n \in Nat : \A s \in Seq(T) : Len(s) = n => s \in G}
<1>1. 0 \in N
  <2>1. \A s \in Seq(T) : Len(s) = 0 => s = <<>>
    BY EmptySeq
  <2> QED
    BY <2>1
<1>2. \A n \in N : n + 1 \in N
  <2>1. SUFFICES ASSUME NEW n \in N
                 PROVE  n + 1 \in Nat /\ \A s \in Seq(T) : Len(s) = n + 1 => s \in G
    OBVIOUS
  <2>2. n \in Nat /\ n + 1 \in Nat
    OBVIOUS
  <2>0. SUFFICES ASSUME NEW s \in Seq(T), Len(s) = n + 1 PROVE s \in G
    BY <2>2
  <2>3. PICK t \in Seq(T), x \in T : s = Append(t, x)
    <3>1. s # <<>>
      BY <2>0, <2>2
    <3> QED
      BY <3>1, SequenceEmptyOrAppend
  <2>4. Len(t) = n
    BY <2>0, <2>2, <2>3
  <2> QED
    BY <2>3, <2>4
<1>3. N = Nat
  <2> HIDE DEF N
  <2>1. N \in SUBSET Nat
    BY DEF N
  <2> QED
    BY <1>1, <1>2, <2>1, InductionOverNat
<1>4. \A s \in Seq(T) : Len(s) \in Nat
  OBVIOUS
<1> QED
  BY <1>3, <1>4

-----------------------------------------------------------------------------
(***************************************************************************)
(* The recursive function of Selected exists.                              *)
(***************************************************************************)

Counted(s, S, m, f) ==
    f = [n \in 0 .. m |->
            IF n = 0 THEN <<>>
            ELSE IF s[n] \in S THEN Append(f[n - 1], s[n]) ELSE f[n - 1]]

LEMMA CountedExists ==
    ASSUME NEW s, NEW S, NEW m \in Nat
    PROVE  \E f : Counted(s, S, m, f)
<1> DEFINE N == {n \in Nat : \E f : Counted(s, S, n, f)}
<1>1. 0 \in N
  <2> DEFINE f == [n \in 0 .. 0 |-> <<>>]
  <2>1. Counted(s, S, 0, f)
    BY DEF Counted
  <2> QED
    BY <2>1
<1>2. \A n \in N : n + 1 \in N
  <2>1. SUFFICES ASSUME NEW n \in N PROVE \E f : Counted(s, S, n + 1, f)
    OBVIOUS
  <2>2. PICK f : Counted(s, S, n, f)
    OBVIOUS
  <2>3. n \in Nat
    OBVIOUS
  <2> DEFINE last == IF s[n + 1] \in S THEN Append(f[n], s[n + 1]) ELSE f[n]
             g == [i \in 0 .. n + 1 |-> IF i = n + 1 THEN last ELSE f[i]]
             h == [i \in 0 .. n + 1 |->
                      IF i = 0 THEN <<>>
                      ELSE IF s[i] \in S THEN Append(g[i - 1], s[i]) ELSE g[i - 1]]
  <2>4. \A i \in 0 .. n : f[i] = IF i = 0 THEN <<>>
                                 ELSE IF s[i] \in S THEN Append(f[i - 1], s[i]) ELSE f[i - 1]
    BY <2>2 DEF Counted
  <2>5. \A i \in 0 .. n + 1 : g[i] = h[i]
    <3>1. TAKE i \in 0 .. n + 1
    <3>2. CASE i = n + 1
      <4>1. i # 0 /\ i - 1 = n /\ n \in 0 .. n + 1 /\ n # n + 1
        BY <2>3, <3>2
      <4>2. g[i - 1] = f[n]
        BY <4>1
      <4> QED
        BY <3>2, <4>1, <4>2
    <3>3. CASE i # n + 1
      <4>1. i \in 0 .. n /\ g[i] = f[i]
        BY <2>3, <3>3
      <4>2. i # 0 => i - 1 \in 0 .. n + 1 /\ i - 1 # n + 1
        BY <2>3, <4>1
      <4>3. i # 0 => g[i - 1] = f[i - 1]
        BY <4>2
      <4> HIDE DEF g
      <4> QED
        BY <2>4, <4>1, <4>3
    <3> QED
      BY <3>2, <3>3
  <2>6. Counted(s, S, n + 1, g)
    <3>1. g = h
      BY <2>5
    <3> QED
      BY <3>1 DEF Counted
  <2> QED
    BY <2>6
<1>3. N = Nat
  <2>1. N \in SUBSET Nat
    OBVIOUS
  <2> HIDE DEF N
  <2> QED
    BY <1>1, <1>2, <2>1, InductionOverNat
<1> QED
  BY <1>3

\* Two such functions agree as far as their sequences do.
LEMMA CountedAgree ==
    ASSUME NEW s, NEW t, NEW S, NEW m \in Nat, NEW k \in Nat, m <= k,
           \A n \in 1 .. m : s[n] = t[n],
           NEW f, NEW g, Counted(s, S, m, f), Counted(t, S, k, g)
    PROVE  f[m] = g[m]
<1> DEFINE N == {n \in Nat : n <= m => f[n] = g[n]}
<1>1. \A n \in 0 .. m : f[n] = IF n = 0 THEN <<>>
                               ELSE IF s[n] \in S THEN Append(f[n - 1], s[n]) ELSE f[n - 1]
  BY DEF Counted
<1>2. \A n \in 0 .. k : g[n] = IF n = 0 THEN <<>>
                               ELSE IF t[n] \in S THEN Append(g[n - 1], t[n]) ELSE g[n - 1]
  BY DEF Counted
<1>3. 0 \in N
  BY <1>1, <1>2
<1>4. \A n \in N : n + 1 \in N
  <2>1. SUFFICES ASSUME NEW n \in N, n + 1 <= m PROVE f[n + 1] = g[n + 1]
    OBVIOUS
  <2>2. n \in Nat /\ f[n] = g[n]
    BY <2>1
  <2>3. n + 1 \in 0 .. m /\ n + 1 \in 0 .. k /\ n + 1 # 0 /\ (n + 1) - 1 = n /\ n + 1 \in 1 .. m
    BY <2>1, <2>2
  <2> HIDE DEF N
  <2> QED
    BY <1>1, <1>2, <2>2, <2>3
<1>5. N = Nat
  <2>1. N \in SUBSET Nat
    OBVIOUS
  <2> HIDE DEF N
  <2> QED
    BY <1>3, <1>4, <2>1, InductionOverNat
<1> QED
  BY <1>5

-----------------------------------------------------------------------------
(***************************************************************************)
(* Selected, from the end of the sequence.                                 *)
(***************************************************************************)

UpTo(s, S) == CHOOSE f : Counted(s, S, Len(s), f)

LEMMA SelectedIsUpTo ==
    ASSUME NEW T, NEW s \in Seq(T), NEW S
    PROVE  /\ Selected(s, S) = UpTo(s, S)[Len(s)]
           /\ Counted(s, S, Len(s), UpTo(s, S))
<1>1. Selected(s, S) = UpTo(s, S)[Len(s)]
  BY DEF Selected, UpTo, Counted
<1>2. Counted(s, S, Len(s), UpTo(s, S))
  BY CountedExists DEF UpTo
<1> QED
  BY <1>1, <1>2

LEMMA SelectedEmpty ==
    ASSUME NEW S
    PROVE  Selected(<<>>, S) = <<>>
<1>1. /\ Selected(<<>>, S) = UpTo(<<>>, S)[Len(<<>>)]
      /\ Counted(<<>>, S, Len(<<>>), UpTo(<<>>, S))
  <2>1. <<>> \in Seq({})
    OBVIOUS
  <2> QED
    BY <2>1, SelectedIsUpTo
<1> QED
  BY <1>1 DEF Counted

LEMMA SelectedAppend ==
    ASSUME NEW T, NEW s \in Seq(T), NEW x \in T, NEW S
    PROVE  Selected(Append(s, x), S) =
               IF x \in S THEN Append(Selected(s, S), x) ELSE Selected(s, S)
<1> DEFINE t == Append(s, x)
           n == Len(s)
<1>1. /\ t \in Seq(T) /\ Len(t) = n + 1 /\ n \in Nat /\ t[n + 1] = x
      /\ \A i \in 1 .. n : s[i] = t[i]
  OBVIOUS
<1>2. /\ Selected(s, S) = UpTo(s, S)[n]
      /\ Counted(s, S, n, UpTo(s, S))
  BY SelectedIsUpTo
<1>3. /\ Selected(t, S) = UpTo(t, S)[n + 1]
      /\ Counted(t, S, n + 1, UpTo(t, S))
  <2> HIDE DEF t
  <2> QED
    BY <1>1, SelectedIsUpTo
<1> HIDE DEF t, n
<1>4. UpTo(s, S)[n] = UpTo(t, S)[n]
  <2>1. n + 1 \in Nat /\ n <= n + 1
    BY <1>1
  <2> QED
    BY <1>1, <1>2, <1>3, <2>1, CountedAgree
<1>5. UpTo(t, S)[n + 1] =
          IF x \in S THEN Append(UpTo(t, S)[n], x) ELSE UpTo(t, S)[n]
  <2>1. n + 1 \in 0 .. n + 1 /\ n + 1 # 0 /\ (n + 1) - 1 = n
    BY <1>1
  <2> QED
    BY <1>1, <1>3, <2>1 DEF Counted
<1>6. Selected(t, S) = IF x \in S THEN Append(Selected(s, S), x) ELSE Selected(s, S)
  BY <1>2, <1>3, <1>4, <1>5
<1> QED
  BY <1>6 DEF t

-----------------------------------------------------------------------------
(***************************************************************************)
(* The algebra of Selected.                                                *)
(***************************************************************************)

LEMMA AppendOfConcat ==
    ASSUME NEW T, NEW s \in Seq(T), NEW t \in Seq(T), NEW x \in T
    PROVE  s \o Append(t, x) = Append(s \o t, x)
<1>1. <<x>> \in Seq(T) /\ s \o t \in Seq(T)
  OBVIOUS
<1>2. Append(t, x) = t \o <<x>> /\ Append(s \o t, x) = (s \o t) \o <<x>>
  BY <1>1, AppendIsConcat
<1> QED
  BY <1>1, <1>2, ConcatAssociative

LEMMA ToSetEmpty == ToSet(<<>>) = {}
BY DEF ToSet

LEMMA ToSetOfSeq ==
    ASSUME NEW T, NEW s \in Seq(T)
    PROVE  ToSet(s) \subseteq T
BY DEF ToSet

LEMMA ToSetAppend ==
    ASSUME NEW T, NEW s \in Seq(T), NEW x \in T
    PROVE  ToSet(Append(s, x)) = ToSet(s) \cup {x}
<1>1. PICK r : r = Append(s, x)
  OBVIOUS
<1>2. /\ Len(r) = Len(s) + 1 /\ r[Len(s) + 1] = x /\ r \in Seq(T)
      /\ \A i \in 1 .. Len(s) : r[i] = s[i]
  BY <1>1, AppendProperties
<1>3. Len(s) \in Nat /\ DOMAIN s = 1 .. Len(s) /\ DOMAIN r = 1 .. Len(s) + 1
  BY <1>2
<1>4. \A i \in DOMAIN r : i \in DOMAIN s \/ i = Len(s) + 1
  BY <1>3
<1>5. DOMAIN s \subseteq DOMAIN r /\ Len(s) + 1 \in DOMAIN r
  BY <1>3
<1>6. {r[i] : i \in DOMAIN r} = {s[i] : i \in DOMAIN s} \cup {x}
  BY <1>2, <1>3, <1>4, <1>5
<1> QED
  BY <1>1, <1>6 DEF ToSet

LEMMA ToSetConcat ==
    ASSUME NEW T, NEW s \in Seq(T), NEW t \in Seq(T)
    PROVE  ToSet(s \o t) = ToSet(s) \cup ToSet(t)
<1>1. PICK r : r = s \o t
  OBVIOUS
<1>2. /\ r \in Seq(T) /\ Len(r) = Len(s) + Len(t)
      /\ \A i \in 1 .. Len(s) : r[i] = s[i]
      /\ \A i \in 1 .. Len(t) : r[Len(s) + i] = t[i]
  BY <1>1
<1>3. /\ Len(s) \in Nat /\ Len(t) \in Nat
      /\ DOMAIN s = 1 .. Len(s) /\ DOMAIN t = 1 .. Len(t) /\ DOMAIN r = 1 .. Len(s) + Len(t)
  BY <1>2
<1>4. \A i \in DOMAIN r : i \in DOMAIN s \/ \E j \in DOMAIN t : i = Len(s) + j
  <2>1. SUFFICES ASSUME NEW i \in DOMAIN r, i \notin DOMAIN s
                 PROVE  \E j \in DOMAIN t : i = Len(s) + j
    OBVIOUS
  <2>2. i - Len(s) \in DOMAIN t /\ i = Len(s) + (i - Len(s))
    BY <1>3, <2>1
  <2> QED
    BY <2>2
<1>5. \A i \in DOMAIN s : i \in DOMAIN r
  BY <1>3
<1>6. \A i \in DOMAIN t : Len(s) + i \in DOMAIN r
  BY <1>3
<1>7. {r[i] : i \in DOMAIN r} \subseteq {s[i] : i \in DOMAIN s} \cup {t[i] : i \in DOMAIN t}
  BY <1>2, <1>3, <1>4
<1>8. {s[i] : i \in DOMAIN s} \subseteq {r[i] : i \in DOMAIN r}
  BY <1>2, <1>3, <1>5
<1>9. {t[i] : i \in DOMAIN t} \subseteq {r[i] : i \in DOMAIN r}
  BY <1>2, <1>3, <1>6
<1>10. {r[i] : i \in DOMAIN r} = {s[i] : i \in DOMAIN s} \cup {t[i] : i \in DOMAIN t}
  BY <1>7, <1>8, <1>9
<1> QED
  BY <1>1, <1>10 DEF ToSet

\* What is selected are the elements that are in the set.
LEMMA SelectedElements ==
    ASSUME NEW T, NEW s \in Seq(T), NEW S
    PROVE  /\ Selected(s, S) \in Seq(T)
           /\ ToSet(Selected(s, S)) = ToSet(s) \cap S
<1> DEFINE G == {r \in Seq(T) : /\ Selected(r, S) \in Seq(T)
                                /\ ToSet(Selected(r, S)) = ToSet(r) \cap S}
<1>1. <<>> \in G
  <2>1. Selected(<<>>, S) = <<>> /\ <<>> \in Seq(T)
    BY SelectedEmpty
  <2> QED
    BY <2>1, ToSetEmpty
<1>2. ASSUME NEW r \in G, NEW x \in T PROVE Append(r, x) \in G
  <2>1. /\ r \in Seq(T) /\ Append(r, x) \in Seq(T) /\ Selected(r, S) \in Seq(T)
        /\ ToSet(Selected(r, S)) = ToSet(r) \cap S
    OBVIOUS
  <2>2. ToSet(Append(r, x)) = ToSet(r) \cup {x}
    BY <2>1, ToSetAppend
  <2>3. CASE x \in S
    <3>1. Selected(Append(r, x), S) = Append(Selected(r, S), x)
      BY <2>1, <2>3, SelectedAppend
    <3>2. ToSet(Append(Selected(r, S), x)) = ToSet(Selected(r, S)) \cup {x}
      BY <2>1, ToSetAppend
    <3>3. Append(Selected(r, S), x) \in Seq(T)
      BY <2>1
    <3>4. /\ Selected(Append(r, x), S) \in Seq(T)
          /\ ToSet(Selected(Append(r, x), S)) = ToSet(Append(r, x)) \cap S
      BY <2>1, <2>2, <2>3, <3>1, <3>2, <3>3
    <3> QED
      BY <2>1, <3>4
  <2>4. CASE x \notin S
    <3>1. Selected(Append(r, x), S) = Selected(r, S)
      BY <2>1, <2>4, SelectedAppend
    <3>2. ToSet(Append(r, x)) \cap S = ToSet(r) \cap S
      BY <2>2, <2>4
    <3> QED
      BY <2>1, <3>1, <3>2
  <2> QED
    BY <2>3, <2>4
<1>3. G = Seq(T)
  <2>1. G \in SUBSET Seq(T)
    OBVIOUS
  <2> HIDE DEF G
  <2> QED
    BY <1>1, <1>2, <2>1, InductionOverSeq
<1> QED
  BY <1>3

LEMMA SelectedConcat ==
    ASSUME NEW T, NEW s \in Seq(T), NEW t \in Seq(T), NEW S
    PROVE  Selected(s \o t, S) = Selected(s, S) \o Selected(t, S)
<1> DEFINE G == {r \in Seq(T) : Selected(s \o r, S) = Selected(s, S) \o Selected(r, S)}
<1>0. Selected(s, S) \in Seq(T)
  BY SelectedElements
<1>1. <<>> \in G
  <2>1. s \o <<>> = s /\ Selected(s, S) \o <<>> = Selected(s, S)
    BY <1>0, ConcatEmptySeq
  <2>2. Selected(<<>>, S) = <<>> /\ <<>> \in Seq(T)
    BY SelectedEmpty
  <2> QED
    BY <2>1, <2>2
<1>2. ASSUME NEW r \in G, NEW x \in T PROVE Append(r, x) \in G
  <2>1. /\ r \in Seq(T) /\ Append(r, x) \in Seq(T) /\ s \o r \in Seq(T)
        /\ Selected(s \o r, S) = Selected(s, S) \o Selected(r, S)
    OBVIOUS
  <2>2. s \o Append(r, x) = Append(s \o r, x)
    BY <2>1, AppendOfConcat
  <2>a. \A q \in Seq(T) : Selected(Append(q, x), S) =
                              IF x \in S THEN Append(Selected(q, S), x) ELSE Selected(q, S)
    BY SelectedAppend
  <2>5. /\ Selected(Append(r, x), S) =
               IF x \in S THEN Append(Selected(r, S), x) ELSE Selected(r, S)
        /\ Selected(Append(s \o r, x), S) =
               IF x \in S THEN Append(Selected(s \o r, S), x) ELSE Selected(s \o r, S)
    BY <2>1, <2>a
  <2>3. CASE x \in S
    <3>1. /\ Selected(Append(r, x), S) = Append(Selected(r, S), x)
          /\ Selected(Append(s \o r, x), S) = Append(Selected(s \o r, S), x)
      BY <2>3, <2>5
    <3>2. Selected(r, S) \in Seq(T)
      BY <2>1, SelectedElements
    <3>3. Selected(s, S) \o Append(Selected(r, S), x) = Append(Selected(s, S) \o Selected(r, S), x)
      BY <1>0, <3>2, AppendOfConcat
    <3> QED
      BY <2>1, <2>2, <3>1, <3>3
  <2>4. CASE x \notin S
    <3>1. /\ Selected(Append(r, x), S) = Selected(r, S)
          /\ Selected(Append(s \o r, x), S) = Selected(s \o r, S)
      BY <2>4, <2>5
    <3> QED
      BY <2>1, <2>2, <3>1
  <2> QED
    BY <2>3, <2>4
<1>3. G = Seq(T)
  <2>1. G \in SUBSET Seq(T)
    OBVIOUS
  <2> HIDE DEF G
  <2> QED
    BY <1>1, <1>2, <2>1, InductionOverSeq
<1> QED
  BY <1>3

\* Only what a set says of the elements of the sequence matters.
LEMMA SelectedAgrees ==
    ASSUME NEW T, NEW s \in Seq(T), NEW A, NEW B, ToSet(s) \cap A = ToSet(s) \cap B
    PROVE  Selected(s, A) = Selected(s, B)
<1> DEFINE G == {r \in Seq(T) : ToSet(r) \cap A = ToSet(r) \cap B =>
                                    Selected(r, A) = Selected(r, B)}
<1>1. <<>> \in G
  BY SelectedEmpty
<1>2. ASSUME NEW r \in G, NEW x \in T PROVE Append(r, x) \in G
  <2>1. /\ r \in Seq(T) /\ Append(r, x) \in Seq(T)
        /\ ToSet(r) \cap A = ToSet(r) \cap B => Selected(r, A) = Selected(r, B)
    OBVIOUS
  <2>2. SUFFICES ASSUME ToSet(Append(r, x)) \cap A = ToSet(Append(r, x)) \cap B
                 PROVE  Selected(Append(r, x), A) = Selected(Append(r, x), B)
    BY <2>1
  <2>3. ToSet(Append(r, x)) = ToSet(r) \cup {x}
    BY <2>1, ToSetAppend
  <2>4. (x \in A <=> x \in B) /\ ToSet(r) \cap A = ToSet(r) \cap B
    BY <2>2, <2>3
  <2>5. /\ Selected(Append(r, x), A) = IF x \in A THEN Append(Selected(r, A), x) ELSE Selected(r, A)
        /\ Selected(Append(r, x), B) = IF x \in B THEN Append(Selected(r, B), x) ELSE Selected(r, B)
    BY <2>1, SelectedAppend
  <2> QED
    BY <2>1, <2>4, <2>5
<1>3. G = Seq(T)
  <2>1. G \in SUBSET Seq(T)
    OBVIOUS
  <2> HIDE DEF G
  <2> QED
    BY <1>1, <1>2, <2>1, InductionOverSeq
<1> QED
  BY <1>3

LEMMA SelectedNothing ==
    ASSUME NEW T, NEW s \in Seq(T), NEW S, ToSet(s) \cap S = {}
    PROVE  Selected(s, S) = <<>>
<1>1. Selected(s, S) \in Seq(T) /\ ToSet(Selected(s, S)) = {}
  BY SelectedElements
<1>2. DOMAIN Selected(s, S) = {}
  BY <1>1 DEF ToSet
<1> QED
  BY <1>1, <1>2, EmptySeq, LenProperties

LEMMA SelectedAll ==
    ASSUME NEW T, NEW s \in Seq(T), NEW S, ToSet(s) \subseteq S
    PROVE  Selected(s, S) = s
<1> DEFINE G == {r \in Seq(T) : ToSet(r) \subseteq S => Selected(r, S) = r}
<1>1. <<>> \in G
  BY SelectedEmpty
<1>2. ASSUME NEW r \in G, NEW x \in T PROVE Append(r, x) \in G
  <2>1. /\ r \in Seq(T) /\ Append(r, x) \in Seq(T)
        /\ ToSet(r) \subseteq S => Selected(r, S) = r
    OBVIOUS
  <2>2. ToSet(Append(r, x)) = ToSet(r) \cup {x}
    BY <2>1, ToSetAppend
  <2>3. Selected(Append(r, x), S) = IF x \in S THEN Append(Selected(r, S), x) ELSE Selected(r, S)
    BY <2>1, SelectedAppend
  <2> QED
    BY <2>1, <2>2, <2>3
<1>3. G = Seq(T)
  <2>1. G \in SUBSET Seq(T)
    OBVIOUS
  <2> HIDE DEF G
  <2> QED
    BY <1>1, <1>2, <2>1, InductionOverSeq
<1> QED
  BY <1>3

LEMMA SelectedTwice ==
    ASSUME NEW T, NEW s \in Seq(T), NEW A, NEW B
    PROVE  Selected(Selected(s, A), B) = Selected(s, A \cap B)
<1> DEFINE G == {r \in Seq(T) : Selected(Selected(r, A), B) = Selected(r, A \cap B)}
<1>1. <<>> \in G
  BY SelectedEmpty
<1>2. ASSUME NEW r \in G, NEW x \in T PROVE Append(r, x) \in G
  <2>1. /\ r \in Seq(T) /\ Append(r, x) \in Seq(T)
        /\ Selected(Selected(r, A), B) = Selected(r, A \cap B)
    OBVIOUS
  <2>2. Selected(r, A) \in Seq(T)
    BY <2>1, SelectedElements
  <2>3. Selected(Append(r, x), A) = IF x \in A THEN Append(Selected(r, A), x) ELSE Selected(r, A)
    BY <2>1, SelectedAppend
  <2>4. Selected(Append(r, x), A \cap B) =
            IF x \in A \cap B THEN Append(Selected(r, A \cap B), x) ELSE Selected(r, A \cap B)
    BY <2>1, SelectedAppend
  <2>5. Selected(Append(Selected(r, A), x), B) =
            IF x \in B THEN Append(Selected(Selected(r, A), B), x) ELSE Selected(Selected(r, A), B)
    <3>1. PICK q \in Seq(T) : q = Selected(r, A)
      BY <2>2
    <3>2. Selected(Append(q, x), B) = IF x \in B THEN Append(Selected(q, B), x) ELSE Selected(q, B)
      BY SelectedAppend
    <3> QED
      BY <3>1, <3>2
  <2>6. Selected(Selected(Append(r, x), A), B) = Selected(Append(r, x), A \cap B)
    <3>1. CASE x \in A /\ x \in B
      BY <2>1, <2>3, <2>4, <2>5, <3>1
    <3>2. CASE x \in A /\ x \notin B
      BY <2>1, <2>3, <2>4, <2>5, <3>2
    <3>3. CASE x \notin A
      BY <2>1, <2>3, <2>4, <3>3
    <3> QED
      BY <3>1, <3>2, <3>3
  <2> QED
    BY <2>1, <2>6
<1>3. G = Seq(T)
  <2>1. G \in SUBSET Seq(T)
    OBVIOUS
  <2> HIDE DEF G
  <2> QED
    BY <1>1, <1>2, <2>1, InductionOverSeq
<1> QED
  BY <1>3

\* What is selected from distinct elements is distinct.
LEMMA AppendedInjective ==
    ASSUME NEW T, NEW s \in Seq(T), NEW x \in T
    PROVE  IsInjective(Append(s, x)) <=> IsInjective(s) /\ x \notin ToSet(s)
<1>1. PICK r : r = Append(s, x)
  OBVIOUS
<1>2. /\ r \in Seq(T) /\ Len(r) = Len(s) + 1 /\ r[Len(s) + 1] = x
      /\ \A i \in 1 .. Len(s) : r[i] = s[i]
  BY <1>1, AppendProperties
<1>3. Len(s) \in Nat /\ DOMAIN s = 1 .. Len(s) /\ DOMAIN r = 1 .. Len(s) + 1
  BY <1>2
<1>4. ASSUME IsInjective(r) PROVE IsInjective(s) /\ x \notin ToSet(s)
  <2>1. \A i \in DOMAIN s : i \in DOMAIN r /\ r[i] = s[i] /\ i # Len(s) + 1
    BY <1>2, <1>3
  <2>2. Len(s) + 1 \in DOMAIN r
    BY <1>3
  <2>3. IsInjective(s)
    BY <1>4, <2>1 DEF IsInjective
  <2>4. x \notin ToSet(s)
    BY <1>2, <1>4, <2>1, <2>2 DEF IsInjective, ToSet
  <2> QED
    BY <2>3, <2>4
<1>5. ASSUME IsInjective(s), x \notin ToSet(s) PROVE IsInjective(r)
  <2>1. SUFFICES ASSUME NEW i \in DOMAIN r, NEW j \in DOMAIN r, r[i] = r[j] PROVE i = j
    BY DEF IsInjective
  <2>a. \A k \in DOMAIN r : k \in DOMAIN s \/ k = Len(s) + 1
    BY <1>3
  <2>b. \A k \in DOMAIN s : r[k] = s[k]
    BY <1>2, <1>3
  <2>2. /\ (i \in DOMAIN s /\ r[i] = s[i]) \/ (i = Len(s) + 1 /\ r[i] = x)
        /\ (j \in DOMAIN s /\ r[j] = s[j]) \/ (j = Len(s) + 1 /\ r[j] = x)
    BY <1>2, <2>a, <2>b
  <2>3. \A k \in DOMAIN s : s[k] # x
    BY <1>5 DEF ToSet
  <2> QED
    BY <1>5, <2>1, <2>2, <2>3 DEF IsInjective
<1> QED
  BY <1>1, <1>4, <1>5

LEMMA SelectedInjective ==
    ASSUME NEW T, NEW s \in Seq(T), NEW S, IsInjective(s)
    PROVE  IsInjective(Selected(s, S))
<1> DEFINE G == {r \in Seq(T) : IsInjective(r) => IsInjective(Selected(r, S))}
<1>1. <<>> \in G
  <2>1. Selected(<<>>, S) = <<>> /\ <<>> \in Seq(T)
    BY SelectedEmpty
  <2> QED
    BY <2>1
<1>2. ASSUME NEW r \in G, NEW x \in T PROVE Append(r, x) \in G
  <2>1. /\ r \in Seq(T) /\ Append(r, x) \in Seq(T)
        /\ IsInjective(r) => IsInjective(Selected(r, S))
    OBVIOUS
  <2>2. SUFFICES ASSUME IsInjective(Append(r, x)) PROVE IsInjective(Selected(Append(r, x), S))
    BY <2>1
  <2>3. IsInjective(r) /\ x \notin ToSet(r)
    BY <2>1, <2>2, AppendedInjective
  <2>4. Selected(r, S) \in Seq(T) /\ x \notin ToSet(Selected(r, S))
    BY <2>1, <2>3, SelectedElements
  <2>5. IsInjective(Append(Selected(r, S), x))
    BY <2>1, <2>3, <2>4, AppendedInjective
  <2>6. Selected(Append(r, x), S) = IF x \in S THEN Append(Selected(r, S), x) ELSE Selected(r, S)
    BY <2>1, SelectedAppend
  <2> QED
    BY <2>1, <2>3, <2>5, <2>6
<1>3. G = Seq(T)
  <2>1. G \in SUBSET Seq(T)
    OBVIOUS
  <2> HIDE DEF G
  <2> QED
    BY <1>1, <1>2, <2>1, InductionOverSeq
<1> QED
  BY <1>3

\* The values of a function at the elements of a sequence.
EachOf(f, s) == [i \in DOMAIN s |-> f[s[i]]]

LEMMA MappedIsSeq ==
    ASSUME NEW T, NEW f, NEW s \in Seq(T)
    PROVE  /\ EachOf(f, s) \in Seq({f[x] : x \in T})
           /\ Len(EachOf(f, s)) = Len(s)
           /\ \A i \in 1 .. Len(s) : EachOf(f, s)[i] = f[s[i]]
BY DEF EachOf

LEMMA MappedAppend ==
    ASSUME NEW T, NEW f, NEW s \in Seq(T), NEW x \in T
    PROVE  EachOf(f, Append(s, x)) = Append(EachOf(f, s), f[x])
<1>0. PICK U : U = {f[y] : y \in T}
  OBVIOUS
<1>1. PICK r, t, m : r = Append(s, x) /\ t = Append(EachOf(f, s), f[x]) /\ m = EachOf(f, s)
  OBVIOUS
<1>2. m \in Seq(U) /\ Len(m) = Len(s) /\ \A i \in 1 .. Len(s) : m[i] = f[s[i]]
  BY <1>0, <1>1 DEF EachOf
<1>3. /\ r \in Seq(T) /\ Len(r) = Len(s) + 1 /\ r[Len(s) + 1] = x
      /\ \A i \in 1 .. Len(s) : r[i] = s[i]
  BY <1>1, AppendProperties
<1>4. f[x] \in U
  BY <1>0
<1>5. /\ t \in Seq(U) /\ Len(t) = Len(s) + 1 /\ t[Len(s) + 1] = f[x]
      /\ \A i \in 1 .. Len(s) : t[i] = m[i]
  BY <1>1, <1>2, <1>4, AppendProperties
<1>6. PICK n : n = EachOf(f, r)
  OBVIOUS
<1>7. n \in Seq(U) /\ Len(n) = Len(s) + 1 /\ \A i \in 1 .. Len(s) + 1 : n[i] = f[r[i]]
  <2>1. n \in Seq(U) /\ Len(n) = Len(r) /\ \A i \in 1 .. Len(r) : n[i] = f[r[i]]
    <3>1. r \in Seq(T)
      BY <1>3
    <3>2. /\ EachOf(f, r) \in Seq(U) /\ Len(EachOf(f, r)) = Len(r)
          /\ \A i \in 1 .. Len(r) : EachOf(f, r)[i] = f[r[i]]
      BY <1>0, <3>1 DEF EachOf
    <3> QED
      BY <1>6, <3>2
  <2> QED
    BY <1>3, <2>1
<1>8. \A i \in 1 .. Len(s) + 1 : n[i] = t[i]
  BY <1>2, <1>3, <1>5, <1>7
<1>9. n = t
  BY <1>5, <1>7, <1>8, SeqEqual
<1> QED
  BY <1>1, <1>6, <1>9

\* To select and then map is to map and then select.
LEMMA SelectedMapped ==
    ASSUME NEW T, NEW f, NEW s \in Seq(T), NEW A, NEW B,
           \A x \in ToSet(s) : x \in A <=> f[x] \in B
    PROVE  EachOf(f, Selected(s, A)) = Selected(EachOf(f, s), B)
<1> DEFINE G == {r \in Seq(T) : (\A x \in ToSet(r) : x \in A <=> f[x] \in B) =>
                                    EachOf(f, Selected(r, A)) = Selected(EachOf(f, r), B)}
<1>1. <<>> \in G
  <2>1. /\ Selected(<<>>, A) = <<>> /\ Selected(<<>>, B) = <<>>
        /\ <<>> \in Seq(T) /\ EachOf(f, <<>>) = <<>>
    BY SelectedEmpty DEF EachOf
  <2> QED
    BY <2>1
<1>2. ASSUME NEW r \in G, NEW x \in T PROVE Append(r, x) \in G
  <2>1. /\ r \in Seq(T) /\ Append(r, x) \in Seq(T)
        /\ (\A y \in ToSet(r) : y \in A <=> f[y] \in B) =>
               EachOf(f, Selected(r, A)) = Selected(EachOf(f, r), B)
    OBVIOUS
  <2>2. SUFFICES ASSUME \A y \in ToSet(Append(r, x)) : y \in A <=> f[y] \in B
                 PROVE  EachOf(f, Selected(Append(r, x), A)) = Selected(EachOf(f, Append(r, x)), B)
    BY <2>1
  <2>3. /\ x \in A <=> f[x] \in B
        /\ EachOf(f, Selected(r, A)) = Selected(EachOf(f, r), B)
    BY <2>1, <2>2, ToSetAppend
  <2>4. Selected(Append(r, x), A) = IF x \in A THEN Append(Selected(r, A), x) ELSE Selected(r, A)
    BY <2>1, SelectedAppend
  <2>5. Selected(Append(EachOf(f, r), f[x]), B) =
            IF f[x] \in B THEN Append(Selected(EachOf(f, r), B), f[x])
            ELSE Selected(EachOf(f, r), B)
    <3>1. PICK U : U = {f[y] : y \in T}
      OBVIOUS
    <3>2. PICK q \in Seq(U) : q = EachOf(f, r)
      <4>1. r \in Seq(T)
        BY <2>1
      <4>2. EachOf(f, r) \in Seq({f[y] : y \in T})
        BY <4>1, MappedIsSeq
      <4> QED
        BY <3>1, <4>2
    <3>3. PICK z \in U : z = f[x]
      BY <3>1
    <3>4. Selected(Append(q, z), B) = IF z \in B THEN Append(Selected(q, B), z) ELSE Selected(q, B)
      BY SelectedAppend
    <3> QED
      BY <3>2, <3>3, <3>4
  <2>6. EachOf(f, Append(r, x)) = Append(EachOf(f, r), f[x])
    BY <2>1, MappedAppend
  <2>7. EachOf(f, Append(Selected(r, A), x)) = Append(EachOf(f, Selected(r, A)), f[x])
    <3>1. Selected(r, A) \in Seq(T)
      BY <2>1, SelectedElements
    <3> QED
      BY <3>1, MappedAppend
  <2> QED
    BY <2>3, <2>4, <2>5, <2>6, <2>7
<1>3. G = Seq(T)
  <2>1. G \in SUBSET Seq(T)
    OBVIOUS
  <2> HIDE DEF G
  <2> QED
    BY <1>1, <1>2, <2>1, InductionOverSeq
<1> QED
  BY <1>3

LEMMA ConcatInjective ==
    ASSUME NEW T, NEW s \in Seq(T), NEW t \in Seq(T), IsInjective(s), IsInjective(t),
           ToSet(s) \cap ToSet(t) = {}
    PROVE  IsInjective(s \o t)
<1>1. PICK r : r = s \o t
  OBVIOUS
<1>2. /\ r \in Seq(T) /\ Len(r) = Len(s) + Len(t) /\ Len(s) \in Nat /\ Len(t) \in Nat
      /\ \A i \in 1 .. Len(s) : r[i] = s[i]
      /\ \A i \in 1 .. Len(t) : r[Len(s) + i] = t[i]
  BY <1>1
<1>3. DOMAIN r = 1 .. Len(s) + Len(t) /\ DOMAIN s = 1 .. Len(s) /\ DOMAIN t = 1 .. Len(t)
  BY <1>2
<1>4. \A i \in DOMAIN r : \/ i \in DOMAIN s /\ r[i] = s[i]
                          \/ \E k \in DOMAIN t : i = Len(s) + k /\ r[i] = t[k]
  <2>1. SUFFICES ASSUME NEW i \in DOMAIN r, i \notin DOMAIN s
                 PROVE  \E k \in DOMAIN t : i = Len(s) + k /\ r[i] = t[k]
    BY <1>2, <1>3
  <2>2. i - Len(s) \in 1 .. Len(t) /\ i = Len(s) + (i - Len(s))
    BY <1>2, <1>3, <2>1
  <2>3. r[i] = t[i - Len(s)]
    BY <1>2, <2>2
  <2> QED
    BY <1>3, <2>2, <2>3
<1>5. SUFFICES ASSUME NEW i \in DOMAIN r, NEW j \in DOMAIN r, r[i] = r[j] PROVE i = j
  BY <1>1 DEF IsInjective
<1>6. \A k \in DOMAIN s, l \in DOMAIN t : s[k] # t[l]
  BY DEF ToSet
<1>7. CASE i \in DOMAIN s /\ r[i] = s[i] /\ j \in DOMAIN s /\ r[j] = s[j]
  BY <1>5, <1>7 DEF IsInjective
<1>8. CASE (\E k \in DOMAIN t : i = Len(s) + k /\ r[i] = t[k])
           /\ (\E k \in DOMAIN t : j = Len(s) + k /\ r[j] = t[k])
  BY <1>5, <1>8 DEF IsInjective
<1>9. CASE i \in DOMAIN s /\ r[i] = s[i] /\ \E k \in DOMAIN t : j = Len(s) + k /\ r[j] = t[k]
  BY <1>5, <1>6, <1>9
<1>10. CASE j \in DOMAIN s /\ r[j] = s[j] /\ \E k \in DOMAIN t : i = Len(s) + k /\ r[i] = t[k]
  BY <1>5, <1>6, <1>10
<1> QED
  BY <1>4, <1>7, <1>8, <1>9, <1>10

LEMMA MappedConcat ==
    ASSUME NEW T, NEW f, NEW s \in Seq(T), NEW t \in Seq(T)
    PROVE  EachOf(f, s \o t) = EachOf(f, s) \o EachOf(f, t)
<1>0. PICK U : U = {f[x] : x \in T}
  OBVIOUS
<1>1. PICK r, m, n, q : /\ r = s \o t /\ m = EachOf(f, s) /\ n = EachOf(f, t) /\ q = EachOf(f, r)
  OBVIOUS
<1>2. /\ r \in Seq(T) /\ Len(r) = Len(s) + Len(t) /\ Len(s) \in Nat /\ Len(t) \in Nat
      /\ \A i \in 1 .. Len(s) : r[i] = s[i]
      /\ \A i \in 1 .. Len(t) : r[Len(s) + i] = t[i]
  BY <1>1
<1>3. /\ m \in Seq(U) /\ Len(m) = Len(s) /\ \A i \in 1 .. Len(s) : m[i] = f[s[i]]
      /\ n \in Seq(U) /\ Len(n) = Len(t) /\ \A i \in 1 .. Len(t) : n[i] = f[t[i]]
      /\ q \in Seq(U) /\ Len(q) = Len(r) /\ \A i \in 1 .. Len(r) : q[i] = f[r[i]]
  <2>1. m \in Seq(U) /\ Len(m) = Len(s) /\ \A i \in 1 .. Len(s) : m[i] = f[s[i]]
    BY <1>0, <1>1 DEF EachOf
  <2>2. n \in Seq(U) /\ Len(n) = Len(t) /\ \A i \in 1 .. Len(t) : n[i] = f[t[i]]
    <3>1. n = EachOf(f, t)
      BY <1>1
    <3> QED
      BY <1>0, <3>1 DEF EachOf
  <2>3. q \in Seq(U) /\ Len(q) = Len(r) /\ \A i \in 1 .. Len(r) : q[i] = f[r[i]]
    BY <1>0, <1>1, <1>2 DEF EachOf
  <2> QED
    BY <2>1, <2>2, <2>3
<1>4. PICK w : w = m \o n
  OBVIOUS
<1>5. /\ w \in Seq(U) /\ Len(w) = Len(s) + Len(t)
      /\ \A i \in 1 .. Len(s) : w[i] = f[s[i]]
      /\ \A i \in 1 .. Len(t) : w[Len(s) + i] = f[t[i]]
  <2>1. /\ w \in Seq(U) /\ Len(w) = Len(m) + Len(n) /\ Len(m) \in Nat
        /\ \A i \in 1 .. Len(m) : w[i] = m[i]
        /\ \A i \in 1 .. Len(n) : w[Len(m) + i] = n[i]
    <3>1. m \in Seq(U) /\ n \in Seq(U)
      BY <1>3
    <3> QED
      BY <1>4, <3>1
  <2> QED
    BY <1>3, <2>1
<1>6. ASSUME NEW i \in 1 .. Len(q) PROVE q[i] = w[i]
  <2>1. CASE i \in 1 .. Len(s)
    BY <1>2, <1>3, <1>5, <2>1
  <2>2. CASE i \notin 1 .. Len(s)
    <3>1. i - Len(s) \in 1 .. Len(t) /\ i = Len(s) + (i - Len(s))
      BY <1>2, <1>3, <2>2
    <3>2. r[i] = t[i - Len(s)] /\ w[i] = f[t[i - Len(s)]]
      BY <1>2, <1>5, <3>1
    <3> QED
      BY <1>3, <3>2
  <2> QED
    BY <2>1, <2>2
<1>7. q = w
  BY <1>2, <1>3, <1>5, <1>6, SeqEqual
<1> QED
  BY <1>1, <1>4, <1>7

\* A sequence without repetition, cut in two.
LEMMA SubSeqSplit ==
    ASSUME NEW T, NEW s \in Seq(T), NEW n \in Nat, NEW m \in Nat, n <= m, m <= Len(s)
    PROVE  /\ SubSeq(s, 1, n) \in Seq(T) /\ SubSeq(s, n + 1, m) \in Seq(T)
           /\ SubSeq(s, 1, m) = SubSeq(s, 1, n) \o SubSeq(s, n + 1, m)
           /\ IsInjective(s) => ToSet(SubSeq(s, 1, n)) \cap ToSet(SubSeq(s, n + 1, m)) = {}
<1>1. PICK a, b, w : a = SubSeq(s, 1, n) /\ b = SubSeq(s, n + 1, m) /\ w = SubSeq(s, 1, m)
  OBVIOUS
<1>0. Len(s) \in Nat /\ \A i \in 1 .. Len(s) : s[i] \in T
  BY ElementOfSeq
<1>2. a \in Seq(T) /\ Len(a) = n /\ \A i \in 1 .. n : a[i] = s[i]
  <2>1. \A i \in 1 .. n : s[i] \in T
    BY <1>0
  <2> QED
    BY <1>0, <1>1, <2>1, SubSeqProperties
<1>3. b \in Seq(T) /\ Len(b) = m - n /\ \A i \in 1 .. m - n : b[i] = s[n + i]
  <2>1. \A i \in n + 1 .. m : s[i] \in T
    BY <1>0
  <2>2. /\ b \in Seq(T) /\ Len(b) = IF n + 1 <= m THEN m - (n + 1) + 1 ELSE 0
        /\ \A i \in 1 .. m - (n + 1) + 1 : b[i] = s[(n + 1) + i - 1]
    BY <1>1, <2>1, SubSeqProperties
  <2>3. \A i \in 1 .. m - n : i \in 1 .. m - (n + 1) + 1 /\ (n + 1) + i - 1 = n + i
    OBVIOUS
  <2>4. Len(b) = m - n
    BY <2>2
  <2> QED
    BY <2>2, <2>3, <2>4
<1>4. w \in Seq(T) /\ Len(w) = m /\ \A i \in 1 .. m : w[i] = s[i]
  <2>1. \A i \in 1 .. m : s[i] \in T
    BY <1>0
  <2> QED
    BY <1>0, <1>1, <2>1, SubSeqProperties
<1>5. PICK c : c = a \o b
  OBVIOUS
<1>6. /\ c \in Seq(T) /\ Len(c) = m
      /\ \A i \in 1 .. n : c[i] = a[i]
      /\ \A i \in 1 .. m - n : c[n + i] = b[i]
  BY <1>2, <1>3, <1>5
<1>7. ASSUME NEW i \in 1 .. m PROVE w[i] = c[i]
  <2>1. CASE i \in 1 .. n
    BY <1>2, <1>4, <1>6, <2>1
  <2>2. CASE i \notin 1 .. n
    <3>1. i - n \in 1 .. m - n /\ n + (i - n) = i
      BY <2>2
    <3> QED
      BY <1>3, <1>4, <1>6, <3>1
  <2> QED
    BY <2>1, <2>2
<1>8. w = c
  BY <1>4, <1>6, <1>7, SeqEqual
<1>9. ASSUME IsInjective(s) PROVE ToSet(a) \cap ToSet(b) = {}
  <2>1. SUFFICES ASSUME NEW x \in ToSet(a), x \in ToSet(b) PROVE FALSE
    OBVIOUS
  <2>2. PICK i \in 1 .. n : x = s[i]
    BY <1>2, <2>1 DEF ToSet
  <2>3. PICK k \in 1 .. m - n : x = s[n + k]
    <3>1. DOMAIN b = 1 .. m - n
      BY <1>3
    <3>2. PICK k \in DOMAIN b : x = b[k]
      BY <2>1 DEF ToSet
    <3> QED
      BY <1>3, <3>1, <3>2
  <2>4. i \in DOMAIN s /\ n + k \in DOMAIN s /\ i # n + k
    BY <1>0
  <2> QED
    BY <1>9, <2>2, <2>3, <2>4 DEF IsInjective
<1> QED
  BY <1>1, <1>2, <1>3, <1>5, <1>8, <1>9

LEMMA SuffixOfConcat ==
    ASSUME NEW T, NEW s \in Seq(T), NEW u \in Seq(T)
    PROVE  IsSuffix(s, u \o s)
<1>1. PICK t : t = u \o s
  OBVIOUS
<1>2. /\ t \in Seq(T) /\ Len(t) = Len(u) + Len(s) /\ Len(u) \in Nat /\ Len(s) \in Nat
      /\ \A i \in 1 .. Len(s) : t[Len(u) + i] = s[i]
  BY <1>1
<1>3. PICK a, b : a = Reverse(s) /\ b = Reverse(t)
  OBVIOUS
<1>4. a \in Seq(T) /\ Len(a) = Len(s) /\ \A i \in 1 .. Len(s) : a[i] = s[Len(s) - i + 1]
  <2>1. \A i \in 1 .. Len(s) : Len(s) - i + 1 \in 1 .. Len(s)
    BY <1>2
  <2> QED
    BY <1>2, <1>3, <2>1 DEF Reverse
<1>5. b \in Seq(T) /\ Len(b) = Len(t) /\ \A i \in 1 .. Len(t) : b[i] = t[Len(t) - i + 1]
  <2>1. \A i \in 1 .. Len(t) : Len(t) - i + 1 \in 1 .. Len(t)
    BY <1>2
  <2> QED
    BY <1>2, <1>3, <2>1 DEF Reverse
<1>6. ASSUME NEW i \in 1 .. Len(s) PROVE a[i] = b[i]
  <2>1. Len(s) - i + 1 \in 1 .. Len(s) /\ i \in 1 .. Len(t)
        /\ Len(t) - i + 1 = Len(u) + (Len(s) - i + 1)
    BY <1>2
  <2> QED
    BY <1>2, <1>4, <1>5, <2>1
<1>7. PICK d, e : d = SubSeq(a, 1, Len(a)) /\ e = SubSeq(b, 1, Len(a))
  OBVIOUS
<1>8. d \in Seq(T) /\ Len(d) = Len(s) /\ \A i \in 1 .. Len(s) : d[i] = a[i]
  <2>1. \A i \in 1 .. Len(a) : a[i] \in T
    BY <1>4, ElementOfSeq
  <2> QED
    BY <1>2, <1>4, <1>7, <2>1, SubSeqProperties
<1>9. e \in Seq(T) /\ Len(e) = Len(s) /\ \A i \in 1 .. Len(s) : e[i] = b[i]
  <2>1. \A i \in 1 .. Len(b) : b[i] \in T
    BY <1>5, ElementOfSeq
  <2>2. \A i \in 1 .. Len(a) : b[i] \in T
    BY <1>2, <1>4, <1>5, <2>1
  <2> QED
    BY <1>2, <1>4, <1>7, <2>2, SubSeqProperties
<1>10. d = e
  BY <1>6, <1>8, <1>9, SeqEqual
<1>11. Len(a) <= Len(b)
  BY <1>2, <1>4, <1>5
<1> QED
  BY <1>1, <1>3, <1>7, <1>10, <1>11 DEF IsSuffix, IsPrefix

\* What is selected from the beginning of a sequence without repetition is all
\* that is selected from more of it.
LEMMA LongerSelection ==
    ASSUME NEW T, NEW s \in Seq(T), IsInjective(s), NEW n \in Nat, NEW m \in Nat, n <= m,
           m <= Len(s), NEW E, E \subseteq ToSet(SubSeq(s, 1, n))
    PROVE  Selected(SubSeq(s, 1, m), E) = Selected(SubSeq(s, 1, n), E)
<1>1. PICK a \in Seq(T), b \in Seq(T) :
          /\ a = SubSeq(s, 1, n) /\ SubSeq(s, 1, m) = a \o b /\ ToSet(a) \cap ToSet(b) = {}
  <2>1. /\ SubSeq(s, 1, n) \in Seq(T) /\ SubSeq(s, n + 1, m) \in Seq(T)
        /\ SubSeq(s, 1, m) = SubSeq(s, 1, n) \o SubSeq(s, n + 1, m)
        /\ ToSet(SubSeq(s, 1, n)) \cap ToSet(SubSeq(s, n + 1, m)) = {}
    BY SubSeqSplit
  <2> QED
    BY <2>1
<1>2. Selected(a \o b, E) = Selected(a, E) \o Selected(b, E)
  BY SelectedConcat
<1>3. Selected(b, E) = <<>>
  <2>1. ToSet(b) \cap E = {}
    BY <1>1
  <2> QED
    BY <2>1, SelectedNothing
<1>4. Selected(a, E) \in Seq(T)
  BY SelectedElements
<1>5. Selected(a, E) \o <<>> = Selected(a, E)
  BY <1>4, ConcatEmptySeq
<1> QED
  BY <1>1, <1>2, <1>3, <1>5

LEMMA SubSeqOfAppend ==
    ASSUME NEW T, NEW s \in Seq(T), NEW x \in T, NEW n \in Nat, n <= Len(s)
    PROVE  SubSeq(Append(s, x), 1, n) = SubSeq(s, 1, n)
<1>1. PICK t : t = Append(s, x)
  OBVIOUS
<1>2. /\ t \in Seq(T) /\ Len(t) = Len(s) + 1 /\ Len(s) \in Nat
      /\ \A i \in 1 .. Len(s) : t[i] = s[i] /\ s[i] \in T
  BY <1>1, AppendProperties, ElementOfSeq
<1>3. PICK a, b : a = SubSeq(t, 1, n) /\ b = SubSeq(s, 1, n)
  OBVIOUS
<1>4. b \in Seq(T) /\ Len(b) = n /\ \A i \in 1 .. n : b[i] = s[i]
  <2>1. \A i \in 1 .. n : s[i] \in T
    BY <1>2
  <2> QED
    BY <1>3, <2>1, SubSeqProperties
<1>5. a \in Seq(T) /\ Len(a) = n /\ \A i \in 1 .. n : a[i] = s[i]
  <2>1. \A i \in 1 .. n : t[i] \in T /\ t[i] = s[i]
    BY <1>2
  <2> QED
    BY <1>3, <2>1, SubSeqProperties
<1>6. a = b
  BY <1>4, <1>5, SeqEqual
<1> QED
  BY <1>1, <1>3, <1>6

LEMMA SubSeqOfAll ==
    ASSUME NEW T, NEW s \in Seq(T)
    PROVE  SubSeq(s, 1, Len(s)) = s
<1>1. PICK a : a = SubSeq(s, 1, Len(s))
  OBVIOUS
<1>2. Len(s) \in Nat /\ \A i \in 1 .. Len(s) : s[i] \in T
  BY ElementOfSeq
<1>3. a \in Seq(T) /\ Len(a) = Len(s) /\ \A i \in 1 .. Len(s) : a[i] = s[i]
  BY <1>1, <1>2, SubSeqProperties
<1> QED
  BY <1>1, <1>3, SeqEqual

=============================================================================
