----------------------------- MODULE OrderFacts -----------------------------
(***************************************************************************)
(* Facts about naturals, sequences and ordered sets that the proofs of     *)
(* several components rest on.                                             *)
(***************************************************************************)
EXTENDS Ordered, Sequences, SequencesExt, Functions, TLAPS,
        FiniteSetTheorems, FunctionTheorems, SequenceTheorems, WellFoundedInduction

\* Every nonempty set of naturals has a least element: the loops of the code
\* that stop at the first match (State.Goto, announceClockView, the search for
\* a linked URL) are well defined as a CHOOSE of the least index.
LEMMA LeastNatural ==
  ASSUME NEW T \in SUBSET Nat, T # {}
  PROVE  \E i \in T : \A j \in T : i <= j
<1> DEFINE R == OpToRel(<, Nat)
<1>1. IsWellFoundedOn(R, Nat)
  BY NatLessThanWellFounded
<1>2. \E x \in T : \A y \in T : ~ (<<y, x>> \in R)
  <2> HIDE DEF R
  <2> QED BY <1>1, WFMin
<1>3. \A x, y \in Nat : <<y, x>> \in R <=> y < x
  BY DEF OpToRel
<1> HIDE DEF R
<1>4. PICK x \in T : \A y \in T : ~ (<<y, x>> \in R)
  BY <1>2
<1>5. \A y \in T : x <= y
  <2> TAKE y \in T
  <2>1. x \in Nat /\ y \in Nat
    OBVIOUS
  <2>2. ~ (y < x)
    BY <1>4, <1>3, <2>1
  <2> QED BY <2>1, <2>2
<1> QED BY <1>5

\* A bounded nonempty set of naturals has a greatest element.
LEMMA GreatestNatural ==
  ASSUME NEW T \in SUBSET Nat, T # {}, NEW bound \in Nat, \A i \in T : i <= bound
  PROVE  \E i \in T : \A j \in T : j <= i
<1> DEFINE U == {n \in Nat : \A i \in T : i <= n}
<1>1. PICK n \in U : \A m \in U : n <= m
  <2>1. bound \in U
    OBVIOUS
  <2>2. U \in SUBSET Nat /\ U # {}
    BY <2>1
  <2> HIDE DEF U
  <2> QED BY <2>2, LeastNatural
<1>2. n \in T
  <2> SUFFICES ASSUME n \notin T PROVE FALSE
    OBVIOUS
  <2>1. \A i \in T : i < n
    <3> TAKE i \in T
    <3>1. i <= n /\ i # n /\ i \in Nat /\ n \in Nat
      BY <1>1
    <3> QED BY <3>1
  <2>2. PICK i \in T : TRUE
    OBVIOUS
  <2>3. n - 1 \in Nat
    BY <2>1, <2>2, <1>1
  <2>4. n - 1 \in U
    BY <2>1, <2>3
  <2> QED BY <2>4, <1>1
<1> QED BY <1>1, <1>2

-----------------------------------------------------------------------------
(* Sorted *)

\* On S, R is a strict total order.
OrderOn(R, S) ==
  /\ \A x, y \in S : <<x, y>> \in R => <<y, x>> \notin R
  /\ \A x, y, z \in S : <<x, y>> \in R /\ <<y, z>> \in R => <<x, z>> \in R
  /\ \A x, y \in S : x = y \/ <<x, y>> \in R \/ <<y, x>> \in R

\* s goes through all of S, upwards.
Enumerates(s, n, S, R) ==
  /\ s \in [1 .. n -> S]
  /\ \A x \in S : \E i \in 1 .. n : s[i] = x
  /\ \A i, j \in 1 .. n : i < j => <<s[i], s[j]>> \in R

\* Whatever goes upwards through all of a set is the set's sorted sequence.
LEMMA EnumerationIsSorted ==
  ASSUME NEW S, NEW R, NEW n \in Nat, NEW s, Enumerates(s, n, S, R),
         \A x, y \in S : <<x, y>> \in R => <<y, x>> \notin R
  PROVE  /\ IsFiniteSet(S) /\ Cardinality(S) = n
         /\ \A i \in 1 .. n : Rank(S, R, s[i]) = i - 1
         /\ Sorted(S, R) = s
<1>1. \A i, j \in 1 .. n : i # j => s[i] # s[j]
  <2> TAKE i, j \in 1 .. n
  <2>1. s[i] \in S /\ s[j] \in S
    BY DEF Enumerates
  <2>2. CASE i < j
    BY <2>1, <2>2 DEF Enumerates
  <2>3. CASE j < i
    BY <2>1, <2>3 DEF Enumerates
  <2> QED BY <2>2, <2>3
<1>2. IsFiniteSet(S) /\ Cardinality(S) = n
  <2>1. s \in Bijection(1 .. n, S)
    BY <1>1 DEF Enumerates, Bijection, Injection, Surjection, IsInjective
  <2>2. ExistsBijection(1 .. n, S)
    BY <2>1 DEF ExistsBijection
  <2>3. IsFiniteSet(1 .. n) /\ Cardinality(1 .. n) = n
    BY FS_Interval
  <2> QED BY <2>2, <2>3, FS_Bijection
<1>3. ASSUME NEW i \in 1 .. n PROVE Rank(S, R, s[i]) = i - 1
  <2> DEFINE B == {y \in S : <<y, s[i]>> \in R}
             f == [j \in 1 .. i - 1 |-> s[j]]
  <2>1. \A j \in 1 .. n : s[j] \in B <=> j < i
    <3> TAKE j \in 1 .. n
    <3>1. CASE j < i
      BY <3>1 DEF Enumerates
    <3>2. CASE j = i
      BY <3>2 DEF Enumerates
    <3>3. CASE j > i
      BY <3>3 DEF Enumerates
    <3> QED BY <3>1, <3>2, <3>3
  <2>2. f \in [1 .. i - 1 -> B]
    BY <2>1
  <2>3. \A y \in B : \E j \in 1 .. i - 1 : f[j] = y
    <3> TAKE y \in B
    <3>1. PICK j \in 1 .. n : s[j] = y
      BY DEF Enumerates
    <3>2. j < i
      BY <3>1, <2>1
    <3>3. j \in 1 .. i - 1
      BY <3>2
    <3> QED BY <3>1, <3>3
  <2>4. \A j, k \in 1 .. i - 1 : f[j] = f[k] => j = k
    BY <1>1
  <2>5. f \in Bijection(1 .. i - 1, B)
    <3> HIDE DEF f, B
    <3> QED BY <2>2, <2>3, <2>4 DEF Bijection, Injection, Surjection, IsInjective
  <2>6. ExistsBijection(1 .. i - 1, B)
    BY <2>5 DEF ExistsBijection
  <2>7. IsFiniteSet(1 .. i - 1) /\ Cardinality(1 .. i - 1) = i - 1
    BY FS_Interval
  <2>8. Cardinality(B) = i - 1
    <3> HIDE DEF B
    <3> QED BY <2>6, <2>7, FS_Bijection
  <2> QED BY <2>8 DEF Rank
<1>4. Sorted(S, R) = s
  <2>1. \A i \in 1 .. n : (CHOOSE x \in S : Rank(S, R, x) = i - 1) = s[i]
    <3> TAKE i \in 1 .. n
    <3>1. s[i] \in S /\ Rank(S, R, s[i]) = i - 1
      BY <1>3 DEF Enumerates
    <3>2. \A x \in S : Rank(S, R, x) = i - 1 => x = s[i]
      <4> TAKE x \in S
      <4> HAVE Rank(S, R, x) = i - 1
      <4>1. PICK j \in 1 .. n : s[j] = x
        BY DEF Enumerates
      <4>2. j - 1 = i - 1
        BY <4>1, <1>3
      <4> QED BY <4>1, <4>2
    <3> QED BY <3>1, <3>2
  <2>2. Sorted(S, R) = [i \in 1 .. n |-> CHOOSE x \in S : Rank(S, R, x) = i - 1]
    BY <1>2 DEF Sorted
  <2> QED BY <2>1, <2>2 DEF Enumerates
<1> QED BY <1>2, <1>3, <1>4

\* A finite set that is ordered is gone through by its sorted sequence.
LEMMA SortedEnumerates ==
  ASSUME NEW S, IsFiniteSet(S), NEW R, OrderOn(R, S)
  PROVE  Enumerates(Sorted(S, R), Cardinality(S), S, R)
<1> DEFINE n    == Cardinality(S)
           B(x) == {y \in S : <<y, x>> \in R}
           rank == [x \in S |-> Rank(S, R, x)]
<1>1. n \in Nat
  BY FS_CardinalityType
<1>2. \A x \in S : IsFiniteSet(B(x)) /\ Rank(S, R, x) = Cardinality(B(x)) /\ Rank(S, R, x) \in Nat
  <2> TAKE x \in S
  <2>1. B(x) \in SUBSET S
    OBVIOUS
  <2>2. IsFiniteSet(B(x))
    BY <2>1, FS_Subset
  <2>3. Rank(S, R, x) = Cardinality(B(x))
    BY DEF Rank
  <2> QED BY <2>2, <2>3, FS_CardinalityType
<1>3. \A x, y \in S : <<x, y>> \in R => Rank(S, R, x) < Rank(S, R, y)
  <2> TAKE x, y \in S
  <2> HAVE <<x, y>> \in R
  <2>1. B(x) \in SUBSET B(y) /\ x \in B(y) /\ x \notin B(x)
    BY DEF OrderOn
  <2>2. Cardinality(B(x)) <= Cardinality(B(y)) /\ Cardinality(B(x)) # Cardinality(B(y))
    <3>1. B(x) # B(y)
      BY <2>1
    <3>2. IsFiniteSet(B(y))
      BY <1>2
    <3> HIDE DEF B
    <3> QED BY <2>1, <3>1, <3>2, FS_Subset
  <2>3. /\ Rank(S, R, x) = Cardinality(B(x)) /\ Rank(S, R, x) \in Nat
        /\ Rank(S, R, y) = Cardinality(B(y)) /\ Rank(S, R, y) \in Nat
    BY <1>2
  <2> HIDE DEF B
  <2> QED BY <2>2, <2>3
<1>4. \A x \in S : Rank(S, R, x) < n
  <2> TAKE x \in S
  <2>1. B(x) \in SUBSET S /\ x \notin B(x)
    BY DEF OrderOn
  <2>2. Cardinality(B(x)) <= n /\ Cardinality(B(x)) # n
    <3>1. B(x) # S
      BY <2>1
    <3> HIDE DEF B
    <3> QED BY <2>1, <3>1, FS_Subset
  <2> HIDE DEF B
  <2> QED BY <2>2, <1>1, <1>2
<1>5. \A x, y \in S : Rank(S, R, x) = Rank(S, R, y) => x = y
  <2> TAKE x, y \in S
  <2> HAVE Rank(S, R, x) = Rank(S, R, y)
  <2>1. Rank(S, R, x) \in Nat /\ Rank(S, R, y) \in Nat
    BY <1>2
  <2>2. <<x, y>> \notin R /\ <<y, x>> \notin R
    BY <2>1, <1>3
  <2> QED BY <2>2 DEF OrderOn
<1>6. \A i \in 1 .. n : \E x \in S : Rank(S, R, x) = i - 1
  <2>1. rank \in Injection(S, 0 .. n - 1)
    <3>1. \A x \in S : Rank(S, R, x) \in 0 .. n - 1
      <4> TAKE x \in S
      <4>1. Rank(S, R, x) \in Nat /\ Rank(S, R, x) < n
        BY <1>2, <1>4
      <4> HIDE DEF n
      <4> QED BY <4>1, <1>1
    <3>2. rank \in [S -> 0 .. n - 1]
      BY <3>1
    <3> QED BY <3>2, <1>5 DEF Injection, IsInjective
  <2>2. IsFiniteSet(0 .. n - 1) /\ Cardinality(0 .. n - 1) = n
    <3> HIDE DEF n
    <3>1. 0 \in Int /\ n - 1 \in Int /\ (IF 0 > n - 1 THEN 0 ELSE n - 1 - 0 + 1) = n
      BY <1>1
    <3> QED BY <3>1, FS_Interval
  <2>3. rank \in Surjection(S, 0 .. n - 1)
    <3> HIDE DEF rank
    <3> QED BY <2>1, <2>2, FS_Injection
  <2> TAKE i \in 1 .. n
  <2>4. i - 1 \in 0 .. n - 1
    <3> HIDE DEF n
    <3> QED BY <1>1
  <2>5. PICK x \in S : rank[x] = i - 1
    <3> HIDE DEF rank
    <3> QED BY <2>3, <2>4 DEF Surjection
  <2> QED BY <2>5
<1> DEFINE s == Sorted(S, R)
<1>7. s = [i \in 1 .. n |-> CHOOSE x \in S : Rank(S, R, x) = i - 1]
  BY DEF Sorted
<1>8. \A i \in 1 .. n : s[i] \in S /\ Rank(S, R, s[i]) = i - 1
  <2> TAKE i \in 1 .. n
  <2>1. s[i] = CHOOSE x \in S : Rank(S, R, x) = i - 1
    BY <1>7
  <2> HIDE DEF s, n
  <2> QED BY <2>1, <1>6
<1>9. s \in [1 .. n -> S]
  <2> HIDE DEF n
  <2> QED BY <1>7, <1>8
<1>10. \A x \in S : \E i \in 1 .. n : s[i] = x
  <2> TAKE x \in S
  <2> DEFINE i == Rank(S, R, x) + 1
  <2>1. i \in 1 .. n
    <3>1. Rank(S, R, x) \in Nat /\ Rank(S, R, x) < n
      BY <1>2, <1>4
    <3> HIDE DEF n
    <3> QED BY <3>1, <1>1
  <2>2. s[i] \in S /\ Rank(S, R, s[i]) = i - 1
    BY <2>1, <1>8
  <2>3. Rank(S, R, s[i]) = Rank(S, R, x)
    <3>1. Rank(S, R, x) \in Nat
      BY <1>2
    <3> HIDE DEF s
    <3> QED BY <2>2, <3>1
  <2>4. s[i] = x
    BY <2>2, <2>3, <1>5
  <2> QED BY <2>1, <2>4
<1>11. \A i, j \in 1 .. n : i < j => <<s[i], s[j]>> \in R
  <2> HIDE DEF s, n
  <2> TAKE i, j \in 1 .. n
  <2> HAVE i < j
  <2>1. s[i] \in S /\ s[j] \in S /\ Rank(S, R, s[i]) = i - 1 /\ Rank(S, R, s[j]) = j - 1
    BY <1>8
  <2>2. s[i] # s[j]
    BY <2>1, <1>1
  <2>3. <<s[j], s[i]>> \notin R
    BY <2>1, <1>1, <1>3
  <2> QED BY <2>1, <2>2, <2>3 DEF OrderOn
<1> HIDE DEF s, n
<1>12. Enumerates(s, n, S, R)
  BY <1>9, <1>10, <1>11 DEF Enumerates
<1> QED BY <1>12 DEF s, n

-----------------------------------------------------------------------------
(* Operators of SequencesExt, element by element. *)

LEMMA FrontAndLast ==
  ASSUME NEW S, NEW s \in Seq(S), s # << >>
  PROVE  /\ Len(s) \in Nat \ {0} /\ Last(s) \in S /\ Last(s) = s[Len(s)]
         /\ Front(s) \in Seq(S) /\ Len(Front(s)) = Len(s) - 1
         /\ \A k \in 1 .. Len(s) - 1 : Front(s)[k] = s[k]
         /\ s = Append(Front(s), Last(s))
<1>1. Len(s) \in Nat \ {0} /\ s \in [1 .. Len(s) -> S]
  BY EmptySeq, LenProperties
<1>2. Last(s) = s[Len(s)] /\ Last(s) \in S
  BY <1>1 DEF Last
<1>3. /\ Front(s) \in Seq(S) /\ Len(Front(s)) = Len(s) - 1
      /\ \A k \in 1 .. Len(s) - 1 : Front(s)[k] = s[k]
  <2> DEFINE n == Len(s) - 1
  <2>1. n \in Nat /\ \A i \in 1 .. n : s[i] \in S
    BY <1>1
  <2>2. Front(s) = SubSeq(s, 1, n)
    BY DEF Front
  <2> HIDE DEF n
  <2>3. /\ SubSeq(s, 1, n) \in Seq(S)
        /\ Len(SubSeq(s, 1, n)) = IF 1 <= n THEN n - 1 + 1 ELSE 0
        /\ \A i \in 1 .. n - 1 + 1 : SubSeq(s, 1, n)[i] = s[1 + i - 1]
    BY <2>1, SubSeqProperties
  <2>4. Len(SubSeq(s, 1, n)) = n /\ \A i \in 1 .. n : SubSeq(s, 1, n)[i] = s[i]
    BY <2>1, <2>3
  <2> QED BY <2>2, <2>3, <2>4 DEF n
<1>4. s = Append(Front(s), Last(s))
  <2> DEFINE f == Front(s)  x == Last(s)  t == Append(f, x)
  <2>1. /\ t \in Seq(S) /\ Len(t) = Len(s) /\ t[Len(s)] = Last(s)
        /\ \A k \in 1 .. Len(s) - 1 : t[k] = Front(s)[k]
    <3>1. f \in Seq(S) /\ x \in S /\ Len(f) = Len(s) - 1 /\ Len(s) \in Nat
      BY <1>1, <1>2, <1>3
    <3> HIDE DEF f, x
    <3>2. /\ t \in Seq(S) /\ Len(t) = Len(f) + 1 /\ t[Len(f) + 1] = x
          /\ \A k \in 1 .. Len(f) : t[k] = f[k]
      BY <3>1, AppendProperties
    <3>3. Len(f) + 1 = Len(s) /\ 1 .. Len(f) = 1 .. Len(s) - 1
      BY <3>1
    <3> HIDE DEF t
    <3>4. Len(t) = Len(s) /\ t[Len(s)] = x /\ \A k \in 1 .. Len(s) - 1 : t[k] = f[k]
      BY <3>2, <3>3
    <3> QED BY <3>2, <3>4 DEF f, x
  <2>2. \A k \in 1 .. Len(s) : s[k] = t[k]
    <3> TAKE k \in 1 .. Len(s)
    <3> HIDE DEF t
    <3>1. CASE k = Len(s)
      BY <3>1, <2>1, <1>2
    <3>2. CASE k # Len(s)
      BY <3>2, <2>1, <1>1, <1>3
    <3> QED BY <3>1, <3>2
  <2> HIDE DEF t
  <2> QED BY <2>1, <2>2, SeqEqual DEF t
<1> QED BY <1>1, <1>2, <1>3, <1>4

LEMMA FrontOfAppend ==
  ASSUME NEW S, NEW s \in Seq(S), NEW x \in S
  PROVE  /\ Append(s, x) \in Seq(S) /\ Append(s, x) # << >> /\ Len(Append(s, x)) = Len(s) + 1
         /\ \A k \in 1 .. Len(s) : Append(s, x)[k] = s[k]
         /\ Append(s, x)[Len(s) + 1] = x
         /\ Front(Append(s, x)) = s /\ Last(Append(s, x)) = x
<1> DEFINE t == Append(s, x)
<1>1. /\ t \in Seq(S) /\ Len(t) = Len(s) + 1 /\ Len(s) \in Nat
      /\ \A k \in 1 .. Len(s) : t[k] = s[k]
      /\ t[Len(s) + 1] = x
  BY AppendProperties, LenProperties
<1> HIDE DEF t
<1>2. t # << >>
  BY <1>1, EmptySeq
<1>3. /\ Front(t) \in Seq(S) /\ Len(Front(t)) = Len(s) /\ Last(t) = x
      /\ \A k \in 1 .. Len(s) : Front(t)[k] = s[k]
  BY <1>1, <1>2, FrontAndLast
<1>4. Front(t) = s
  BY <1>3, SeqEqual
<1> QED BY <1>1, <1>2, <1>3, <1>4 DEF t

LEMMA PrefixByElement ==
  ASSUME NEW S, NEW s \in Seq(S), NEW t \in Seq(S)
  PROVE  IsPrefix(s, t) <=> Len(s) <= Len(t) /\ \A k \in 1 .. Len(s) : s[k] = t[k]
<1>1. Len(s) \in Nat /\ Len(t) \in Nat /\ SubSeq(s, 1, Len(s)) = s
  BY LenProperties, SubSeqFull
<1>2. ASSUME Len(s) <= Len(t)
      PROVE  SubSeq(t, 1, Len(s)) = s <=> \A k \in 1 .. Len(s) : s[k] = t[k]
  <2> DEFINE n == Len(s)  u == SubSeq(t, 1, n)
  <2>1. n \in Nat /\ n <= Len(t)
    BY <1>1, <1>2
  <2>2. \A i \in 1 .. n : t[i] \in S
    BY <1>1, <2>1, ElementOfSeq
  <2> HIDE DEF n
  <2>3. /\ u \in Seq(S) /\ Len(u) = IF 1 <= n THEN n - 1 + 1 ELSE 0
        /\ \A i \in 1 .. n - 1 + 1 : u[i] = t[1 + i - 1]
    BY <2>1, <2>2, SubSeqProperties
  <2>4. Len(u) = n /\ \A i \in 1 .. n : u[i] = t[i]
    BY <2>1, <2>3
  <2>5. ASSUME \A k \in 1 .. n : s[k] = t[k] PROVE u = s
    <3> HIDE DEF u
    <3>1. Len(u) = Len(s) /\ \A k \in 1 .. Len(u) : u[k] = s[k]
      BY <2>4, <2>5 DEF n
    <3> QED BY <2>3, <3>1, SeqEqual
  <2> HIDE DEF u
  <2> QED BY <2>4, <2>5 DEF n, u
<1> QED BY <1>1, <1>2 DEF IsPrefix

LEMMA RemoveByElement ==
  ASSUME NEW S, NEW s \in Seq(S), NEW i \in 1 .. Len(s)
  PROVE  /\ RemoveAt(s, i) \in Seq(S) /\ Len(RemoveAt(s, i)) = Len(s) - 1
         /\ \A k \in 1 .. i - 1 : RemoveAt(s, i)[k] = s[k]
         /\ \A k \in i .. Len(s) - 1 : RemoveAt(s, i)[k] = s[k + 1]
<1> DEFINE u == SubSeq(s, 1, i - 1)  v == SubSeq(s, i + 1, Len(s))
<1>1. Len(s) \in Nat /\ \A k \in 1 .. Len(s) : s[k] \in S
  BY LenProperties, ElementOfSeq
<1>2. /\ u \in Seq(S) /\ Len(u) = i - 1 /\ \A k \in 1 .. i - 1 : u[k] = s[k]
  <2>1. i - 1 \in Int /\ 1 \in Int /\ \A k \in 1 .. i - 1 : s[k] \in S
    BY <1>1
  <2>2. /\ u \in Seq(S) /\ Len(u) = IF 1 <= i - 1 THEN i - 1 - 1 + 1 ELSE 0
        /\ \A k \in 1 .. i - 1 - 1 + 1 : u[k] = s[1 + k - 1]
    BY <2>1, SubSeqProperties
  <2> HIDE DEF u
  <2> QED BY <2>2, <1>1
<1>3. /\ v \in Seq(S) /\ Len(v) = Len(s) - i /\ \A k \in 1 .. Len(s) - i : v[k] = s[i + k]
  <2>1. i + 1 \in Int /\ Len(s) \in Int /\ \A k \in i + 1 .. Len(s) : s[k] \in S
    BY <1>1
  <2>2. /\ v \in Seq(S) /\ Len(v) = IF i + 1 <= Len(s) THEN Len(s) - (i + 1) + 1 ELSE 0
        /\ \A k \in 1 .. Len(s) - (i + 1) + 1 : v[k] = s[i + 1 + k - 1]
    BY <2>1, SubSeqProperties
  <2> HIDE DEF v
  <2> QED BY <2>2, <1>1
<1> HIDE DEF u, v
<1>4. RemoveAt(s, i) = u \o v
  BY DEF RemoveAt, u, v
<1>5. /\ u \o v \in Seq(S) /\ Len(u \o v) = Len(u) + Len(v)
      /\ \A k \in 1 .. Len(u) + Len(v) : (u \o v)[k] =
           IF k <= Len(u) THEN u[k] ELSE v[k - Len(u)]
  BY <1>2, <1>3, ConcatProperties
<1>6. ASSUME NEW k \in 1 .. Len(s) - 1
      PROVE  (u \o v)[k] = IF k < i THEN s[k] ELSE s[k + 1]
  <2>1. CASE k < i
    BY <2>1, <1>1, <1>2, <1>3, <1>5
  <2>2. CASE ~ (k < i)
    <3>1. (u \o v)[k] = v[k - (i - 1)] /\ k - (i - 1) \in 1 .. Len(s) - i
      BY <2>2, <1>1, <1>2, <1>3, <1>5
    <3>2. i + (k - (i - 1)) = k + 1
      BY <1>1
    <3> QED BY <2>2, <3>1, <3>2, <1>3
  <2> QED BY <2>1, <2>2
<1>7. Len(u \o v) = Len(s) - 1
  BY <1>1, <1>2, <1>3, <1>5
<1>8. /\ \A k \in 1 .. i - 1 : (u \o v)[k] = s[k]
      /\ \A k \in i .. Len(s) - 1 : (u \o v)[k] = s[k + 1]
  <2>1. ASSUME NEW k \in 1 .. i - 1 PROVE (u \o v)[k] = s[k]
    <3>1. k \in 1 .. Len(s) - 1 /\ k < i
      BY <1>1
    <3> QED BY <3>1, <1>6
  <2>2. ASSUME NEW k \in i .. Len(s) - 1 PROVE (u \o v)[k] = s[k + 1]
    <3>1. k \in 1 .. Len(s) - 1 /\ ~ (k < i)
      BY <1>1
    <3> QED BY <3>1, <1>6
  <2> QED BY <2>1, <2>2
<1> QED BY <1>4, <1>5, <1>7, <1>8

LEMMA InsertByElement ==
  ASSUME NEW S, NEW s \in Seq(S), NEW i \in 1 .. Len(s) + 1, NEW x \in S
  PROVE  /\ InsertAt(s, i, x) \in Seq(S) /\ Len(InsertAt(s, i, x)) = Len(s) + 1
         /\ \A k \in 1 .. i - 1 : InsertAt(s, i, x)[k] = s[k]
         /\ InsertAt(s, i, x)[i] = x
         /\ \A k \in i .. Len(s) : InsertAt(s, i, x)[k + 1] = s[k]
<1> DEFINE u == SubSeq(s, 1, i - 1)  v == SubSeq(s, i, Len(s))  y == <<x>>  w == u \o y
<1>1. Len(s) \in Nat /\ \A k \in 1 .. Len(s) : s[k] \in S
  BY LenProperties, ElementOfSeq
<1>2. /\ u \in Seq(S) /\ Len(u) = i - 1 /\ \A k \in 1 .. i - 1 : u[k] = s[k]
  <2>1. i - 1 \in Int /\ 1 \in Int /\ \A k \in 1 .. i - 1 : s[k] \in S
    BY <1>1
  <2>2. /\ u \in Seq(S) /\ Len(u) = IF 1 <= i - 1 THEN i - 1 - 1 + 1 ELSE 0
        /\ \A k \in 1 .. i - 1 - 1 + 1 : u[k] = s[1 + k - 1]
    BY <2>1, SubSeqProperties
  <2> HIDE DEF u
  <2> QED BY <2>2, <1>1
<1>3. /\ v \in Seq(S) /\ Len(v) = Len(s) - i + 1 /\ \A k \in 1 .. Len(s) - i + 1 : v[k] = s[i + k - 1]
  <2>1. i \in Int /\ Len(s) \in Int /\ \A k \in i .. Len(s) : s[k] \in S
    BY <1>1
  <2>2. /\ v \in Seq(S) /\ Len(v) = IF i <= Len(s) THEN Len(s) - i + 1 ELSE 0
        /\ \A k \in 1 .. Len(s) - i + 1 : v[k] = s[i + k - 1]
    BY <2>1, SubSeqProperties
  <2> HIDE DEF v
  <2> QED BY <2>2, <1>1
<1>4. y \in Seq(S) /\ Len(y) = 1 /\ y[1] = x
  OBVIOUS
<1>5. InsertAt(s, i, x) = w \o v
  BY DEF InsertAt
<1> HIDE DEF u, v, y
<1>6. /\ w \in Seq(S) /\ Len(w) = i
      /\ \A k \in 1 .. i : w[k] = IF k < i THEN s[k] ELSE x
  <2>1. /\ w \in Seq(S) /\ Len(w) = Len(u) + Len(y)
        /\ \A k \in 1 .. Len(u) + Len(y) : w[k] =
             IF k <= Len(u) THEN u[k] ELSE y[k - Len(u)]
    BY <1>2, <1>4, ConcatProperties
  <2> HIDE DEF w
  <2>2. ASSUME NEW k \in 1 .. i PROVE w[k] = IF k < i THEN s[k] ELSE x
    <3>1. w[k] = IF k <= i - 1 THEN u[k] ELSE y[k - (i - 1)]
      BY <2>1, <1>2, <1>4
    <3>2. CASE k < i
      BY <3>1, <3>2, <1>2
    <3>3. CASE ~ (k < i)
      <4>1. k - (i - 1) = 1
        BY <3>3
      <4> QED BY <3>1, <3>3, <4>1, <1>4
    <3> QED BY <3>2, <3>3
  <2> QED BY <2>1, <2>2, <1>2, <1>4
<1> HIDE DEF w
<1>7. /\ w \o v \in Seq(S) /\ Len(w \o v) = Len(w) + Len(v)
      /\ \A k \in 1 .. Len(w) + Len(v) : (w \o v)[k] =
           IF k <= Len(w) THEN w[k] ELSE v[k - Len(w)]
  BY <1>3, <1>6, ConcatProperties
<1>8. ASSUME NEW k \in 1 .. Len(s) + 1
      PROVE  (w \o v)[k] = IF k < i THEN s[k] ELSE IF k = i THEN x ELSE s[k - 1]
  <2>1. (w \o v)[k] = IF k <= i THEN w[k] ELSE v[k - i]
    BY <1>1, <1>3, <1>6, <1>7
  <2>2. CASE k <= i
    BY <2>1, <2>2, <1>6
  <2>3. CASE ~ (k <= i)
    <3>1. k - i \in 1 .. Len(s) - i + 1 /\ i + (k - i) - 1 = k - 1
      BY <2>3, <1>1
    <3> QED BY <2>1, <2>3, <3>1, <1>3
  <2> QED BY <2>2, <2>3
<1>9. Len(w \o v) = Len(s) + 1
  BY <1>1, <1>3, <1>6, <1>7
<1> HIDE DEF v
<1>10. /\ \A k \in 1 .. i - 1 : (w \o v)[k] = s[k]
       /\ (w \o v)[i] = x
       /\ \A k \in i .. Len(s) : (w \o v)[k + 1] = s[k]
  <2>1. ASSUME NEW k \in 1 .. i - 1 PROVE (w \o v)[k] = s[k]
    <3>1. k \in 1 .. Len(s) + 1 /\ k < i
      BY <1>1
    <3> QED BY <3>1, <1>8
  <2>2. (w \o v)[i] = x
    <3>1. i \in 1 .. Len(s) + 1 /\ ~ (i < i)
      BY <1>1
    <3> QED BY <3>1, <1>8
  <2>3. ASSUME NEW k \in i .. Len(s) PROVE (w \o v)[k + 1] = s[k]
    <3>1. k + 1 \in 1 .. Len(s) + 1 /\ ~ (k + 1 < i) /\ k + 1 # i /\ (k + 1) - 1 = k
      BY <1>1
    <3> QED BY <3>1, <1>8
  <2> QED BY <2>1, <2>2, <2>3
<1> QED BY <1>5, <1>7, <1>9, <1>10
=============================================================================
