---------------------------- MODULE FilteringProofs ----------------------------
(***************************************************************************)
(* What Filtered returns, for every sequence: its elements, their number   *)
(* and their order.  The provers cannot instantiate the induction theorems *)
(* of the library, which take a predicate; they can use that a set of      *)
(* numbers has a least element, so the induction here is about sets.       *)
(***************************************************************************)
EXTENDS Filtering, FiniteSetTheorems, SequenceTheorems, TLAPS

LEMMA LeastElement ==
    ASSUME NEW T \in SUBSET Nat, T # {}
    PROVE  \E m \in T : \A n \in T : m <= n
<1> DEFINE R == OpToRel(<, Nat)
<1>1. IsWellFoundedOn(R, Nat)
  BY NatLessThanWellFounded
<1>2. \A x, y \in Nat : <<x, y>> \in R <=> x < y
  BY DEF OpToRel
<1> HIDE DEF R
<1>3. PICK m \in T : \A n \in T : <<n, m>> \notin R
  BY <1>1, WFMin, Zenon
<1>4. \A n \in T : ~(n < m)
  BY <1>2, <1>3, Zenon
<1> QED
  BY <1>4

\* Induction, over a set of numbers.
LEMMA SetInduction ==
    ASSUME NEW S, 0 \in S, \A n \in Nat : n \in S => n + 1 \in S
    PROVE  Nat \subseteq S
<1> SUFFICES ASSUME Nat \ S # {} PROVE FALSE
  OBVIOUS
<1>1. PICK m \in Nat \ S : \A n \in Nat \ S : m <= n
  BY LeastElement
<1>2. m # 0 /\ m - 1 \in Nat
  BY <1>1
<1>3. m - 1 \in S
  BY <1>1, <1>2
<1> QED
  BY <1>1, <1>2, <1>3

\* kept is the function that Filtered(s, S) is the last value of, up to n.
Keeps(kept, s, S, n) ==
    kept = [i \in 0..n |->
              IF i = 0 THEN <<>>
              ELSE IF s[i] \in S THEN Append(kept[i - 1], s[i]) ELSE kept[i - 1]]

KeptUpTo(s, S, n) == CHOOSE kept : Keeps(kept, s, S, n)

LEMMA KeepsStep ==
    ASSUME NEW s, NEW S, NEW n \in Nat, NEW f, Keeps(f, s, S, n)
    PROVE  \E g : Keeps(g, s, S, n + 1)
<1> DEFINE last == IF s[n + 1] \in S THEN Append(f[n], s[n + 1]) ELSE f[n]
           g == [i \in 0..(n + 1) |-> IF i = n + 1 THEN last ELSE f[i]]
<1>1. f[0] = <<>>
  BY DEF Keeps
<1>2. ASSUME NEW i \in 0..(n + 1), i # 0, i # n + 1
      PROVE  f[i] = IF s[i] \in S THEN Append(f[i - 1], s[i]) ELSE f[i - 1]
  <2>1. i \in 0..n
    BY <1>2
  <2> QED
    BY <1>2, <2>1 DEF Keeps
<1> HIDE DEF last
<1>3. g[0] = <<>> /\ g[n + 1] = last /\ g[n] = f[n]
  BY <1>1
<1>4. ASSUME NEW i \in 0..(n + 1), i # 0, i # n + 1
      PROVE  g[i] = f[i] /\ g[i - 1] = f[i - 1]
  BY <1>4
<1>5. ASSUME NEW i \in 0..(n + 1)
      PROVE  g[i] = IF i = 0 THEN <<>>
                    ELSE IF s[i] \in S THEN Append(g[i - 1], s[i]) ELSE g[i - 1]
  <2>1. CASE i = 0
    BY <1>3, <2>1
  <2>2. CASE i = n + 1
    <3>1. i - 1 = n /\ i # 0
      BY <2>2
    <3> QED
      BY <1>3, <2>2, <3>1 DEF last
  <2>3. CASE i # 0 /\ i # n + 1
    BY <1>2, <1>4, <2>3, Zenon
  <2> QED
    BY <2>1, <2>2, <2>3
<1>6. g = [i \in 0..(n + 1) |-> g[i]]
  OBVIOUS
<1> HIDE DEF g
<1>7. Keeps(g, s, S, n + 1)
  BY <1>5, <1>6 DEF Keeps
<1> QED
  BY <1>7

LEMMA KeepsExists ==
    ASSUME NEW s, NEW S, NEW n \in Nat
    PROVE  Keeps(KeptUpTo(s, S, n), s, S, n)
<1> DEFINE T == {m \in Nat : \E f : Keeps(f, s, S, m)}
<1>1. 0 \in T
  <2>1. Keeps([i \in 0..0 |-> <<>>], s, S, 0)
    BY DEF Keeps
  <2> QED
    BY <2>1, 0 \in Nat, Zenon
<1>2. ASSUME NEW m \in Nat, m \in T PROVE m + 1 \in T
  <2>1. PICK f : Keeps(f, s, S, m)
    BY <1>2
  <2>2. \E g : Keeps(g, s, S, m + 1)
    BY <2>1, KeepsStep
  <2> QED
    BY <2>2, m + 1 \in Nat, Zenon
<1> HIDE DEF T
<1>3. Nat \subseteq T
  BY <1>1, <1>2, SetInduction
<1>4. \E f : Keeps(f, s, S, n)
  BY <1>3 DEF T
<1> QED
  BY <1>4, Zenon DEF KeptUpTo

\* On a common prefix the functions are the same.
LEMMA KeepsAgree ==
    ASSUME NEW s, NEW t, NEW S, NEW m \in Nat, NEW n \in Nat, m <= n,
           NEW f, Keeps(f, s, S, m), NEW g, Keeps(g, t, S, n),
           \A i \in 1..m : s[i] = t[i]
    PROVE  f[m] = g[m]
<1> DEFINE T == {i \in Nat : i <= m => f[i] = g[i]}
<1>1. 0 \in T
  BY DEF Keeps
<1>2. ASSUME NEW i \in Nat, i \in T PROVE i + 1 \in T
  <2> SUFFICES ASSUME i + 1 <= m PROVE f[i + 1] = g[i + 1]
    OBVIOUS
  <2>1. i + 1 \in 0..m /\ i + 1 \in 0..n /\ i + 1 # 0 /\ (i + 1) - 1 = i
    OBVIOUS
  <2>2. f[i] = g[i] /\ s[i + 1] = t[i + 1]
    BY <1>2
  <2>3. f[i + 1] = IF s[i + 1] \in S THEN Append(f[i], s[i + 1]) ELSE f[i]
    BY <2>1 DEF Keeps
  <2>4. g[i + 1] = IF t[i + 1] \in S THEN Append(g[i], t[i + 1]) ELSE g[i]
    BY <2>1 DEF Keeps
  <2> QED
    BY <2>2, <2>3, <2>4
<1> HIDE DEF T
<1>3. Nat \subseteq T
  BY <1>1, <1>2, SetInduction
<1> QED
  BY <1>3 DEF T

LEMMA FilteredIsKept ==
    ASSUME NEW s, NEW S
    PROVE  Filtered(s, S) = KeptUpTo(s, S, Len(s))[Len(s)]
BY DEF Filtered, KeptUpTo, Keeps

\* The two equations of a filter: nothing is left of nothing, and an element at
\* the end is kept or dropped.
LEMMA FilteredEmpty == ASSUME NEW S PROVE Filtered(<<>>, S) = <<>>
<1>1. Len(<<>>) = 0
  OBVIOUS
<1>2. Keeps(KeptUpTo(<<>>, S, 0), <<>>, S, 0)
  BY KeepsExists
<1>3. KeptUpTo(<<>>, S, 0)[0] = <<>>
  BY <1>2 DEF Keeps
<1> QED
  BY <1>1, <1>3, FilteredIsKept

LEMMA FilteredAppend ==
    ASSUME NEW A, NEW s \in Seq(A), NEW x \in A, NEW S
    PROVE  Filtered(Append(s, x), S) =
              IF x \in S THEN Append(Filtered(s, S), x) ELSE Filtered(s, S)
<1> DEFINE n == Len(s)
           t == Append(s, x)
           f == KeptUpTo(s, S, n)
           g == KeptUpTo(t, S, n + 1)
<1>1. n \in Nat /\ Len(t) = n + 1 /\ t[n + 1] = x /\ \A i \in 1..n : s[i] = t[i]
  BY AppendProperties, LenProperties
<1>2. Keeps(f, s, S, n) /\ Keeps(g, t, S, n + 1)
  BY <1>1, KeepsExists
<1>3. Filtered(s, S) = f[n] /\ Filtered(t, S) = g[n + 1]
  BY <1>1, FilteredIsKept
<1> HIDE DEF n, t, f, g
<1>4. f[n] = g[n]
  <2>1. n \in Nat
    BY <1>1
  <2>2. n + 1 \in Nat /\ n <= n + 1
    BY <2>1
  <2> QED
    BY <1>1, <1>2, <2>1, <2>2, KeepsAgree
<1>5. g[n + 1] = IF t[n + 1] \in S THEN Append(g[n], t[n + 1]) ELSE g[n]
  <2>1. n + 1 \in 0..(n + 1) /\ n + 1 # 0 /\ (n + 1) - 1 = n
    BY <1>1
  <2> QED
    BY <1>2, <2>1 DEF Keeps
<1> QED
  BY <1>1, <1>3, <1>4, <1>5 DEF t

\* Induction on sequences, over a set of them.
LEMMA SeqInduction ==
    ASSUME NEW A, NEW P, <<>> \in P,
           \A s \in Seq(A), x \in A : s \in P => Append(s, x) \in P
    PROVE  Seq(A) \subseteq P
<1> DEFINE T == {n \in Nat : \A s \in Seq(A) : Len(s) = n => s \in P}
<1>1. 0 \in T
  <2>1. \A s \in Seq(A) : Len(s) = 0 => s = <<>>
    BY EmptySeq
  <2> QED
    BY <2>1
<1>2. ASSUME NEW n \in Nat, n \in T PROVE n + 1 \in T
  <2> SUFFICES ASSUME NEW s \in Seq(A), Len(s) = n + 1 PROVE s \in P
    OBVIOUS
  <2>1. s # <<>>
    BY EmptySeq
  <2>2. PICK r \in Seq(A), x \in A : s = Append(r, x)
    BY <2>1, SequenceEmptyOrAppend
  <2>3. Len(r) = n
    BY <2>2, AppendProperties, LenProperties
  <2> QED
    BY <1>2, <2>2, <2>3
<1> HIDE DEF T
<1>3. Nat \subseteq T
  BY <1>1, <1>2, SetInduction
<1> QED
  BY <1>3, LenProperties DEF T

------------------------------------------------------------------------------
\* What a filter keeps

Distinct(s)   == \A i, j \in 1..Len(s) : s[i] = s[j] => i = j
Increasing(s) == \A i, j \in 1..Len(s) : i < j => s[i] < s[j]

\* What appending does to the elements of a sequence.
LEMMA AppendRange ==
    ASSUME NEW A, NEW s \in Seq(A), NEW x \in A
    PROVE  /\ Append(s, x) \in Seq(A)
           /\ Len(Append(s, x)) = Len(s) + 1
           /\ Range(Append(s, x)) = Range(s) \cup {x}
<1> DEFINE t == Append(s, x)
<1>1. /\ t \in Seq(A) /\ Len(s) \in Nat /\ Len(t) = Len(s) + 1
      /\ DOMAIN s = 1..Len(s) /\ DOMAIN t = 1..(Len(s) + 1)
      /\ \A i \in 1..Len(s) : t[i] = s[i]
      /\ t[Len(s) + 1] = x
  BY AppendProperties, LenProperties
<1> HIDE DEF t
<1>2. Range(t) \subseteq Range(s) \cup {x}
  BY <1>1 DEF Range
<1>3. Range(s) \subseteq Range(t)
  BY <1>1 DEF Range
<1>4. x \in Range(t)
  <2>1. Len(s) + 1 \in DOMAIN t
    BY <1>1
  <2> QED
    BY <1>1, <2>1 DEF Range
<1> QED
  BY <1>1, <1>2, <1>3, <1>4 DEF t

LEMMA EmptyRange == Range(<<>>) = {}
BY DEF Range

\* The elements of s that are in S, and no others.
LEMMA FilteredElements ==
    ASSUME NEW A, NEW s \in Seq(A), NEW S
    PROVE  /\ Filtered(s, S) \in Seq(A)
           /\ Range(Filtered(s, S)) = Range(s) \cap S
           /\ Len(Filtered(s, S)) <= Len(s)
<1> DEFINE OK(r) == /\ Filtered(r, S) \in Seq(A)
                    /\ Range(Filtered(r, S)) = Range(r) \cap S
                    /\ Len(Filtered(r, S)) <= Len(r)
           P == {r \in Seq(A) : OK(r)}
<1>1. <<>> \in P
  <2>1. <<>> \in Seq(A) /\ Filtered(<<>>, S) = <<>> /\ Len(<<>>) <= Len(<<>>)
    BY FilteredEmpty, EmptySeq
  <2>2. Range(<<>>) = Range(<<>>) \cap S
    BY EmptyRange
  <2> QED
    BY <2>1, <2>2
<1>2. ASSUME NEW r \in Seq(A), NEW x \in A, r \in P PROVE Append(r, x) \in P
  <2> DEFINE q == Filtered(r, S)
  <2>1. q \in Seq(A) /\ Range(q) = Range(r) \cap S /\ Len(q) <= Len(r)
    BY <1>2
  <2>2. Filtered(Append(r, x), S) = IF x \in S THEN Append(q, x) ELSE q
    BY FilteredAppend
  <2>3. /\ Append(r, x) \in Seq(A) /\ Len(Append(r, x)) = Len(r) + 1
        /\ Range(Append(r, x)) = Range(r) \cup {x}
    BY AppendRange
  <2>4. /\ Append(q, x) \in Seq(A) /\ Len(Append(q, x)) = Len(q) + 1
        /\ Range(Append(q, x)) = Range(q) \cup {x}
    BY <2>1, AppendRange
  <2>5. Len(q) \in Nat /\ Len(r) \in Nat
    BY <2>1, LenProperties
  <2> HIDE DEF q
  <2>6. CASE x \in S
    <3>1. Range(q) \cup {x} = (Range(r) \cup {x}) \cap S
      BY <2>1, <2>6
    <3>2. Len(q) + 1 <= Len(r) + 1
      BY <2>1, <2>5
    <3> QED
      BY <2>2, <2>3, <2>4, <2>6, <3>1, <3>2
  <2>7. CASE x \notin S
    BY <2>1, <2>2, <2>3, <2>4, <2>5, <2>7
  <2> QED
    BY <2>6, <2>7
<1> HIDE DEF P
<1>3. Seq(A) \subseteq P
  BY <1>1, <1>2, SeqInduction
<1> QED
  BY <1>3 DEF P

\* Their order: what increases still does.
LEMMA FilteredIncreasing ==
    ASSUME NEW s \in Seq(Nat), Increasing(s), NEW S
    PROVE  Increasing(Filtered(s, S))
<1> DEFINE P == {r \in Seq(Nat) : Increasing(r) => Increasing(Filtered(r, S))}
<1>1. <<>> \in P
  BY FilteredEmpty, EmptySeq DEF Increasing
<1>2. ASSUME NEW r \in Seq(Nat), NEW x \in Nat, r \in P PROVE Append(r, x) \in P
  <2> SUFFICES ASSUME Increasing(Append(r, x)) PROVE Increasing(Filtered(Append(r, x), S))
    BY AppendRange
  <2> DEFINE q == Filtered(r, S)
  <2>1. /\ Len(r) \in Nat /\ Len(Append(r, x)) = Len(r) + 1
        /\ \A i \in 1..Len(r) : Append(r, x)[i] = r[i]
        /\ Append(r, x)[Len(r) + 1] = x
    BY AppendProperties, LenProperties
  <2>2. Increasing(r) /\ \A i \in 1..Len(r) : r[i] < x
    <3> DEFINE t == Append(r, x)
    <3>1. \A i, j \in 1..(Len(r) + 1) : i < j => t[i] < t[j]
      BY <2>1 DEF Increasing
    <3> HIDE DEF t
    <3>2. \A i \in 1..Len(r) : t[i] = r[i] /\ i \in 1..(Len(r) + 1) /\ i < Len(r) + 1
      BY <2>1 DEF t
    <3>3. t[Len(r) + 1] = x /\ Len(r) + 1 \in 1..(Len(r) + 1)
      BY <2>1 DEF t
    <3> QED
      BY <3>1, <3>2, <3>3 DEF Increasing
  <2>3. q \in Seq(Nat) /\ Increasing(q) /\ Range(q) \subseteq Range(r)
    BY <1>2, <2>2, FilteredElements
  <2>4. Len(q) \in Nat /\ \A i \in 1..Len(q) : q[i] \in Range(q)
    BY <2>3, LenProperties DEF Range
  <2>5. \A i \in 1..Len(q) : q[i] < x
    <3>1. \A e \in Range(r) : e < x
      BY <2>2, LenProperties DEF Range
    <3> QED
      BY <2>3, <2>4, <3>1
  <2>6. /\ Len(Append(q, x)) = Len(q) + 1
        /\ \A i \in 1..Len(q) : Append(q, x)[i] = q[i]
        /\ Append(q, x)[Len(q) + 1] = x
    BY <2>3, AppendProperties
  <2>7. Filtered(Append(r, x), S) = IF x \in S THEN Append(q, x) ELSE q
    BY FilteredAppend
  <2> HIDE DEF q
  <2>8. Increasing(Append(q, x))
    <3> SUFFICES ASSUME NEW i \in 1..(Len(q) + 1), NEW j \in 1..(Len(q) + 1), i < j
                 PROVE  Append(q, x)[i] < Append(q, x)[j]
      BY <2>6 DEF Increasing
    <3>1. i \in 1..Len(q) /\ (j \in 1..Len(q) \/ j = Len(q) + 1)
      <4> DEFINE m == Len(q)
      <4>1. m \in Nat /\ i \in 1..(m + 1) /\ j \in 1..(m + 1) /\ i < j
        BY <2>4
      <4> HIDE DEF m
      <4>2. i \in 1..m /\ (j \in 1..m \/ j = m + 1)
        BY <4>1
      <4> QED
        BY <4>2 DEF m
    <3> QED
      BY <2>3, <2>5, <2>6, <3>1 DEF Increasing
  <2> QED
    BY <2>3, <2>7, <2>8
<1> HIDE DEF P
<1>3. Seq(Nat) \subseteq P
  BY <1>1, <1>2, SeqInduction
<1> QED
  BY <1>3 DEF P

\* Something new at the end is no repetition.
LEMMA AppendDistinct ==
    ASSUME NEW A, NEW s \in Seq(A), Distinct(s), NEW x \in A, x \notin Range(s)
    PROVE  Distinct(Append(s, x))
<1>1. /\ Len(s) \in Nat /\ Len(Append(s, x)) = Len(s) + 1
      /\ \A i \in 1..Len(s) : Append(s, x)[i] = s[i] /\ s[i] # x
      /\ Append(s, x)[Len(s) + 1] = x
  BY AppendProperties, LenProperties DEF Range
<1> QED
  BY <1>1 DEF Distinct

\* What has no repetition has none afterwards.
LEMMA FilteredDistinct ==
    ASSUME NEW A, NEW s \in Seq(A), Distinct(s), NEW S
    PROVE  Distinct(Filtered(s, S))
<1> DEFINE P == {r \in Seq(A) : Distinct(r) => Distinct(Filtered(r, S))}
<1>1. <<>> \in P
  BY FilteredEmpty, EmptySeq DEF Distinct
<1>2. ASSUME NEW r \in Seq(A), NEW x \in A, r \in P PROVE Append(r, x) \in P
  <2> SUFFICES ASSUME Distinct(Append(r, x)) PROVE Distinct(Filtered(Append(r, x), S))
    BY AppendRange
  <2> DEFINE q == Filtered(r, S)
  <2>1. /\ Len(r) \in Nat /\ Len(Append(r, x)) = Len(r) + 1
        /\ \A i \in 1..Len(r) : Append(r, x)[i] = r[i]
        /\ Append(r, x)[Len(r) + 1] = x
    BY AppendProperties, LenProperties
  <2>2. Distinct(r) /\ x \notin Range(r)
    <3>1. Distinct(r)
      BY <2>1 DEF Distinct
    <3>2. \A i \in 1..Len(r) : r[i] # x
      BY <2>1 DEF Distinct
    <3> QED
      BY <3>1, <3>2, LenProperties DEF Range
  <2>3. q \in Seq(A) /\ Distinct(q) /\ x \notin Range(q)
    BY <1>2, <2>2, FilteredElements
  <2>4. Filtered(Append(r, x), S) = IF x \in S THEN Append(q, x) ELSE q
    BY FilteredAppend
  <2> HIDE DEF q
  <2>5. Distinct(Append(q, x))
    BY <2>3, AppendDistinct
  <2> QED
    BY <2>3, <2>4, <2>5
<1> HIDE DEF P
<1>3. Seq(A) \subseteq P
  BY <1>1, <1>2, SeqInduction
<1> QED
  BY <1>3 DEF P

\* A sequence without repetition is as long as it has elements.
LEMMA DistinctLength ==
    ASSUME NEW A, NEW s \in Seq(A), Distinct(s)
    PROVE  IsFiniteSet(Range(s)) /\ Cardinality(Range(s)) = Len(s)
<1>1. Len(s) \in Nat /\ s \in [1..Len(s) -> A] /\ DOMAIN s = 1..Len(s)
  BY LenProperties
<1>2. s \in Bijection(1..Len(s), Range(s))
  BY <1>1 DEF Distinct, Bijection, Injection, Surjection, Range, IsInjective
<1>3. ExistsBijection(1..Len(s), Range(s))
  BY <1>2 DEF ExistsBijection
<1> QED
  BY <1>1, <1>3, FS_NatBijection, FS_CountingElements

LEMMA UpToProperties ==
    ASSUME NEW n \in Nat
    PROVE  /\ UpTo(n) \in Seq(Nat) /\ Len(UpTo(n)) = n /\ Range(UpTo(n)) = 1..n
           /\ Increasing(UpTo(n))
           /\ UpTo(n + 1) = Append(UpTo(n), n + 1)
<1>1. UpTo(n) \in Seq(Nat) /\ Len(UpTo(n)) = n
  BY DEF UpTo
<1>2. Range(UpTo(n)) = 1..n
  BY DEF UpTo, Range
<1>3. Increasing(UpTo(n))
  BY DEF UpTo, Increasing
<1>4. UpTo(n + 1) = Append(UpTo(n), n + 1)
  <2>1. UpTo(n + 1) \in Seq(Nat) /\ Len(UpTo(n + 1)) = n + 1
    BY DEF UpTo
  <2>2. /\ Append(UpTo(n), n + 1) \in Seq(Nat) /\ Len(Append(UpTo(n), n + 1)) = n + 1
        /\ \A i \in 1..n : Append(UpTo(n), n + 1)[i] = UpTo(n)[i]
        /\ Append(UpTo(n), n + 1)[n + 1] = n + 1
    BY <1>1, n + 1 \in Nat, AppendProperties
  <2>3. \A i \in 1..(n + 1) : UpTo(n + 1)[i] = Append(UpTo(n), n + 1)[i]
    BY <2>2 DEF UpTo
  <2> QED
    BY <2>1, <2>2, <2>3, SeqEqual
<1> QED
  BY <1>1, <1>2, <1>3, <1>4

LEMMA UpToNext ==
    ASSUME NEW n \in Nat
    PROVE  UpTo(n) \in Seq(Nat) /\ UpTo(n + 1) = Append(UpTo(n), n + 1)
BY UpToProperties, Zenon

LEMMA UpToRange ==
    ASSUME NEW n \in Nat
    PROVE  UpTo(n) \in Seq(1..n) /\ Range(UpTo(n)) = 1..n
<1>1. UpTo(n) \in [1..n -> 1..n]
  BY DEF UpTo
<1>2. UpTo(n) \in Seq(1..n)
  BY <1>1
<1>3. Range(UpTo(n)) = 1..n
  BY UpToProperties, Zenon
<1> QED
  BY <1>2, <1>3

\* Only the elements s has matter.
LEMMA FilteredSame ==
    ASSUME NEW A, NEW s \in Seq(A), NEW S, NEW T, Range(s) \cap S = Range(s) \cap T
    PROVE  Filtered(s, S) = Filtered(s, T)
<1> DEFINE P == {r \in Seq(A) : Range(r) \cap S = Range(r) \cap T
                                => Filtered(r, S) = Filtered(r, T)}
<1>1. <<>> \in P
  BY FilteredEmpty, EmptySeq
<1>2. ASSUME NEW r \in Seq(A), NEW x \in A, r \in P PROVE Append(r, x) \in P
  <2>1. Append(r, x) \in Seq(A) /\ Range(Append(r, x)) = Range(r) \cup {x}
    BY AppendRange
  <2> SUFFICES ASSUME Range(Append(r, x)) \cap S = Range(Append(r, x)) \cap T
               PROVE  Filtered(Append(r, x), S) = Filtered(Append(r, x), T)
    BY <2>1
  <2>2. Range(r) \cap S = Range(r) \cap T /\ (x \in S <=> x \in T)
    BY <2>1
  <2>3. Filtered(r, S) = Filtered(r, T)
    BY <1>2, <2>2
  <2>4. Filtered(Append(r, x), S) = IF x \in S THEN Append(Filtered(r, S), x)
                                               ELSE Filtered(r, S)
    BY FilteredAppend
  <2>5. Filtered(Append(r, x), T) = IF x \in T THEN Append(Filtered(r, T), x)
                                               ELSE Filtered(r, T)
    BY FilteredAppend
  <2> QED
    BY <2>2, <2>3, <2>4, <2>5, Zenon
<1> HIDE DEF P
<1>3. Seq(A) \subseteq P
  BY <1>1, <1>2, SeqInduction
<1> QED
  BY <1>3 DEF P

\* The numbers of S up to n are those up to m when none lies between.
LEMMA FilteredUpToSkip ==
    ASSUME NEW m \in Nat, NEW n \in Nat, m <= n, NEW S \in SUBSET Nat,
           \A k \in S : k <= n => k <= m
    PROVE  Filtered(UpTo(n), S) = Filtered(UpTo(m), S)
<1> DEFINE T == {i \in Nat : m <= i /\ i <= n => Filtered(UpTo(i), S) = Filtered(UpTo(m), S)}
<1>1. 0 \in T
  <2>1. 0 \in Nat /\ (m <= 0 => m = 0)
    OBVIOUS
  <2> QED
    BY <2>1
<1>2. ASSUME NEW i \in Nat, i \in T PROVE i + 1 \in T
  <2> SUFFICES ASSUME m <= i + 1, i + 1 <= n
               PROVE  Filtered(UpTo(i + 1), S) = Filtered(UpTo(m), S)
    OBVIOUS
  <2>1. CASE m = i + 1
    BY <2>1
  <2>2. CASE m <= i
    <3>1. i + 1 \notin S
      BY <2>2
    <3>2. Filtered(UpTo(i), S) = Filtered(UpTo(m), S)
      BY <1>2, <2>2
    <3>3. UpTo(i) \in Seq(Nat) /\ UpTo(i + 1) = Append(UpTo(i), i + 1) 
      BY UpToNext, Zenon
    <3> i + 1 \in Nat
      OBVIOUS
    <3>4. Filtered(Append(UpTo(i), i + 1), S) = Filtered(UpTo(i), S)
      BY <3>1, <3>3, FilteredAppend
    <3> QED
      BY <3>2, <3>3, <3>4
  <2> QED
    BY <2>1, <2>2
<1> HIDE DEF T
<1>3. Nat \subseteq T
  BY <1>1, <1>2, SetInduction
<1>4. n \in T
  BY <1>3
<1> QED
  BY <1>4 DEF T

\* The next number of S goes to the end.
LEMMA FilteredUpToNext ==
    ASSUME NEW m \in Nat, NEW n \in Nat, m < n, NEW S \in SUBSET Nat, n \in S,
           \A k \in S : k < n => k <= m
    PROVE  Filtered(UpTo(n), S) = Append(Filtered(UpTo(m), S), n)
<1>1. n - 1 \in Nat /\ m <= n - 1 /\ (n - 1) + 1 = n
  OBVIOUS
<1>2. \A k \in S : k <= n - 1 => k <= m
  <2> SUFFICES ASSUME NEW k \in S, k <= n - 1, ~(k <= m) PROVE FALSE
    OBVIOUS
  <2> QED
    OBVIOUS
<1>3. Filtered(UpTo(n - 1), S) = Filtered(UpTo(m), S)
  BY <1>1, <1>2, FilteredUpToSkip
<1>4. UpTo(n - 1) \in Seq(Nat) /\ UpTo(n) = Append(UpTo(n - 1), n)
  BY <1>1, UpToNext
<1>5. Filtered(Append(UpTo(n - 1), n), S) = Append(Filtered(UpTo(n - 1), S), n)
  <2> DEFINE u == UpTo(n - 1)
  <2>1. u \in Seq(Nat)
    BY <1>4
  <2> HIDE DEF u
  <2>2. Filtered(Append(u, n), S) = Append(Filtered(u, S), n)
    BY <2>1, FilteredAppend
  <2> QED
    BY <2>2 DEF u
<1> QED
  BY <1>3, <1>4, <1>5

\* The numbers of S up to n, all there.
LEMMA FilteredUpToElements ==
    ASSUME NEW n \in Nat, NEW S
    PROVE  /\ Filtered(UpTo(n), S) \in Seq(1..n)
           /\ Range(Filtered(UpTo(n), S)) = (1..n) \cap S
<1>1. UpTo(n) \in Seq(1..n) /\ Range(UpTo(n)) = 1..n
  BY UpToRange
<1> DEFINE u == UpTo(n)
<1> HIDE DEF u
<1>2. u \in Seq(1..n) /\ Range(u) = 1..n
  BY <1>1 DEF u
<1>3. Filtered(u, S) \in Seq(1..n) /\ Range(Filtered(u, S)) = Range(u) \cap S
  BY <1>2, FilteredElements
<1> QED
  BY <1>2, <1>3 DEF u
==============================================================================
