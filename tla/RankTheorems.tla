----------------------------- MODULE RankTheorems ----------------------------
(* Lemmas that the proofs of several components need: finite sets in an    *)
(* order, since the models name the elements of a set by how many come     *)
(* before them, wherever the code walks through a list or a heap; the      *)
(* parts of sequences; and recursion.                                      *)
EXTENDS Integers, FiniteSets, FiniteSetsExt, FiniteSetTheorems, FunctionTheorems,
        SequenceTheorems, WellFoundedInduction, TLAPS

(* Strict total orders, as sets of pairs. *)
Orders(R, S) ==
    /\ \A x \in S : <<x, x>> \notin R
    /\ \A x, y, z \in S : <<x, y>> \in R /\ <<y, z>> \in R => <<x, z>> \in R
    /\ \A x, y \in S : x # y => <<x, y>> \in R \/ <<y, x>> \in R

Ahead(R, S, x) == {y \in S : <<y, x>> \in R}

(* The order of numbers. *)
LessThan == {p \in Int \X Int : p[1] < p[2]}

LEMMA IntegersOrdered ==
    ASSUME NEW S \in SUBSET Int
    PROVE  /\ Orders(LessThan, S)
           /\ \A x \in S : Ahead(LessThan, S, x) = {y \in S : y < x}
<1>1. \A x, y \in S : <<x, y>> \in LessThan <=> x < y
  BY DEF LessThan
<1>2. Orders(LessThan, S)
  BY <1>1 DEF Orders
<1>3. \A x \in S : Ahead(LessThan, S, x) = {y \in S : y < x}
  BY <1>1 DEF Ahead
<1> QED
  BY <1>2, <1>3

(* Who comes later has more ahead of it. *)
LEMMA LaterHasMoreAhead ==
    ASSUME NEW R, NEW S, IsFiniteSet(S), Orders(R, S),
           NEW x \in S, NEW y \in S, <<x, y>> \in R
    PROVE  Cardinality(Ahead(R, S, x)) < Cardinality(Ahead(R, S, y))
<1> DEFINE A == Ahead(R, S, x)
           B == Ahead(R, S, y)
<1>1. A \subseteq B /\ x \in B /\ x \notin A /\ B \subseteq S
  BY DEF Orders, Ahead
<1> HIDE DEF A, B
<1>2. IsFiniteSet(B)
  BY <1>1, FS_Subset
<1>3. IsFiniteSet(A) /\ Cardinality(A) <= Cardinality(B) /\ Cardinality(A) # Cardinality(B)
  <2>1. A \in SUBSET B /\ A # B
    BY <1>1
  <2> QED
    BY <1>2, <2>1, FS_Subset
<1>4. Cardinality(A) \in Nat /\ Cardinality(B) \in Nat
  BY <1>2, <1>3, FS_CardinalityType
<1>5. Cardinality(A) < Cardinality(B)
  BY <1>3, <1>4
<1> QED
  BY <1>5 DEF A, B

LEMMA AheadBounded ==
    ASSUME NEW R, NEW S, IsFiniteSet(S), Orders(R, S), NEW x \in S
    PROVE  Cardinality(Ahead(R, S, x)) \in 0 .. Cardinality(S) - 1
<1> DEFINE A == Ahead(R, S, x)
<1>1. A \in SUBSET S /\ A # S
  BY DEF Orders, Ahead
<1> HIDE DEF A
<1>2. IsFiniteSet(A) /\ Cardinality(A) <= Cardinality(S) /\ Cardinality(A) # Cardinality(S)
  BY <1>1, FS_Subset
<1>3. Cardinality(A) \in Nat /\ Cardinality(S) \in Nat
  BY <1>2, FS_CardinalityType
<1>4. Cardinality(A) \in 0 .. Cardinality(S) - 1
  BY <1>2, <1>3
<1> QED
  BY <1>4 DEF A

LEMMA AheadTellsApart ==
    ASSUME NEW R, NEW S, IsFiniteSet(S), Orders(R, S), NEW x \in S, NEW y \in S,
           Cardinality(Ahead(R, S, x)) = Cardinality(Ahead(R, S, y))
    PROVE  x = y
<1>1. Cardinality(Ahead(R, S, x)) \in Int
  BY AheadBounded
<1> SUFFICES ASSUME x # y PROVE FALSE
  OBVIOUS
<1>2. <<x, y>> \in R \/ <<y, x>> \in R
  BY DEF Orders
<1>3. \/ Cardinality(Ahead(R, S, x)) < Cardinality(Ahead(R, S, y))
      \/ Cardinality(Ahead(R, S, y)) < Cardinality(Ahead(R, S, x))
  BY <1>2, LaterHasMoreAhead
<1> QED
  BY <1>1, <1>3

(* Every place of the line is taken by exactly one element. *)
LEMMA EveryPlaceTaken ==
    ASSUME NEW R, NEW S, IsFiniteSet(S), Orders(R, S),
           NEW k \in 0 .. Cardinality(S) - 1
    PROVE  \E x \in S : Cardinality(Ahead(R, S, x)) = k
<1> DEFINE place == [x \in S |-> Cardinality(Ahead(R, S, x))]
           T == 0 .. Cardinality(S) - 1
<1>1. Cardinality(S) \in Nat
  BY FS_CardinalityType
<1>2. place \in [S -> T]
  BY AheadBounded
<1>3. \A x, y \in S : place[x] = place[y] => x = y
  BY AheadTellsApart
<1>4. IsFiniteSet(T) /\ Cardinality(T) = Cardinality(S)
  BY <1>1, FS_Interval
<1> HIDE DEF place
<1>5. place \in Injection(S, T)
  BY <1>2, <1>3, Fun_IsInj
<1>6. place \in Surjection(S, T)
  <2> HIDE DEF T
  <2> QED
    BY <1>4, <1>5, FS_Injection
<1>7. \E x \in S : place[x] = k
  BY <1>6 DEF Surjection
<1> QED
  BY <1>7 DEF place

------------------------------------------------------------------------------
(* L lists S in the order R: each element at the place that the number of  *)
(* elements ahead of it gives.                                             *)
InOrder(L, R, S) ==
    /\ L \in Seq(S)
    /\ Len(L) = Cardinality(S)
    /\ \A i \in 1 .. Len(L) : Cardinality(Ahead(R, S, L[i])) = i - 1

(* There is one such list. *)
LEMMA OneList ==
    ASSUME NEW R, NEW S, IsFiniteSet(S), Orders(R, S), NEW K, NEW L,
           InOrder(K, R, S), InOrder(L, R, S)
    PROVE  K = L
<1>1. K \in Seq(S) /\ L \in Seq(S) /\ Len(K) = Len(L)
  BY DEF InOrder
<1>2. \A i \in 1 .. Len(K) : K[i] \in S /\ L[i] \in S
  BY <1>1, ElementOfSeq
<1>3. ASSUME NEW i \in 1 .. Len(K) PROVE K[i] = L[i]
  <2>1. Cardinality(Ahead(R, S, K[i])) = Cardinality(Ahead(R, S, L[i]))
    BY <1>1 DEF InOrder
  <2> QED
    BY <1>2, <2>1, AheadTellsApart
<1> QED
  BY <1>1, <1>3, SeqEqual

(* It has every element, and the earlier places come first. *)
LEMMA ListIsSorted ==
    ASSUME NEW R, NEW S, IsFiniteSet(S), Orders(R, S), NEW L, InOrder(L, R, S)
    PROVE  /\ \A x \in S : \E i \in 1 .. Len(L) : L[i] = x
           /\ \A i, j \in 1 .. Len(L) : <<L[i], L[j]>> \in R <=> i < j
<1>1. \A i \in 1 .. Len(L) : L[i] \in S
  BY ElementOfSeq DEF InOrder
<1>2. Len(L) = Cardinality(S) /\ Len(L) \in Nat
  BY FS_CardinalityType DEF InOrder
<1>3. ASSUME NEW x \in S PROVE \E i \in 1 .. Len(L) : L[i] = x
  <2> DEFINE c == Cardinality(Ahead(R, S, x))
  <2>1. c \in 0 .. Len(L) - 1
    BY <1>2, AheadBounded
  <2>2. PICK i \in 1 .. Len(L) : i - 1 = c
    <3> HIDE DEF c
    <3>1. c + 1 \in 1 .. Len(L) /\ (c + 1) - 1 = c
      BY <1>2, <2>1
    <3> QED
      BY <3>1
  <2>3. Cardinality(Ahead(R, S, L[i])) = Cardinality(Ahead(R, S, x))
    BY <2>2 DEF InOrder
  <2> QED
    BY <1>1, <2>3, AheadTellsApart
<1>4. ASSUME NEW i \in 1 .. Len(L), NEW j \in 1 .. Len(L), <<L[i], L[j]>> \in R
      PROVE  i < j
  <2>1. Cardinality(Ahead(R, S, L[i])) < Cardinality(Ahead(R, S, L[j]))
    BY <1>1, <1>4, LaterHasMoreAhead
  <2>2. Cardinality(Ahead(R, S, L[i])) = i - 1 /\ Cardinality(Ahead(R, S, L[j])) = j - 1
    BY DEF InOrder
  <2>3. i - 1 < j - 1
    BY <2>1, <2>2
  <2> QED
    BY <1>2, <2>3
<1>5. ASSUME NEW i \in 1 .. Len(L), NEW j \in 1 .. Len(L), i < j
      PROVE  <<L[i], L[j]>> \in R
  <2>1. Cardinality(Ahead(R, S, L[i])) = i - 1 /\ Cardinality(Ahead(R, S, L[j])) = j - 1
    BY DEF InOrder
  <2>2. i - 1 # j - 1
    BY <1>2, <1>5
  <2>3. L[i] # L[j]
    BY <2>1, <2>2
  <2>4. <<L[i], L[j]>> \in R \/ <<L[j], L[i]>> \in R
    BY <1>1, <2>3 DEF Orders
  <2>5. <<L[j], L[i]>> \notin R
    BY <1>2, <1>4, <1>5
  <2> QED
    BY <2>4, <2>5
<1> QED
  BY <1>3, <1>4, <1>5

(* A sequence that has every element, the earlier ones first, is the list. *)
LEMMA SortedIsList ==
    ASSUME NEW R, NEW S, IsFiniteSet(S), Orders(R, S), NEW L \in Seq(S),
           \A x \in S : \E i \in 1 .. Len(L) : L[i] = x,
           \A i, j \in 1 .. Len(L) : i < j => <<L[i], L[j]>> \in R
    PROVE  InOrder(L, R, S)
<1>1. Len(L) \in Nat /\ \A i \in 1 .. Len(L) : L[i] \in S
  BY LenProperties, ElementOfSeq
<1>2. \A i, j \in 1 .. Len(L) : L[i] = L[j] => i = j
  <2> SUFFICES ASSUME NEW i \in 1 .. Len(L), NEW j \in 1 .. Len(L), i < j
               PROVE  L[i] # L[j]
    BY <1>1
  <2> QED
    BY <1>1 DEF Orders
<1>3. Len(L) = Cardinality(S)
  <2>1. L \in Bijection(1 .. Len(L), S)
    <3>1. L \in [1 .. Len(L) -> S]
      BY LenProperties
    <3>2. \A x \in S : \E i \in 1 .. Len(L) : L[i] = x
      OBVIOUS
    <3> QED
      BY <1>2, <3>1, <3>2, Fun_IsBij
  <2>2. IsFiniteSet(1 .. Len(L)) /\ Cardinality(1 .. Len(L)) = Len(L)
    <3>1. 1 \in Int /\ Len(L) \in Int
      BY <1>1
    <3>2. /\ IsFiniteSet(1 .. Len(L))
          /\ Cardinality(1 .. Len(L)) = IF 1 > Len(L) THEN 0 ELSE Len(L) - 1 + 1
      BY <3>1, FS_Interval
    <3> QED
      BY <1>1, <3>2
  <2> QED
    BY <2>1, <2>2, FS_Bijection DEF ExistsBijection
<1>4. ASSUME NEW i \in 1 .. Len(L) PROVE Cardinality(Ahead(R, S, L[i])) = i - 1
  <2> DEFINE I == 1 .. i - 1
             A == Ahead(R, S, L[i])
             f == [j \in I |-> L[j]]
  <2>1. \A j \in I : j \in 1 .. Len(L) /\ j < i
    BY <1>1
  <2>2. \A j \in I : L[j] \in A
    BY <1>1, <2>1 DEF Ahead
  <2>3. ASSUME NEW x \in A PROVE \E j \in I : L[j] = x
    <3>1. PICK j \in 1 .. Len(L) : L[j] = x
      BY DEF Ahead
    <3>2. <<L[j], L[i]>> \in R
      BY <3>1 DEF Ahead
    <3>3. ~(i < j) /\ i # j
      BY <1>1, <3>2 DEF Orders
    <3>4. j \in I
      BY <1>1, <3>3
    <3> QED
      BY <3>1, <3>4
  <2>4. f \in Bijection(I, A)
    <3> HIDE DEF A, I
    <3>1. f \in [I -> A]
      BY <2>2
    <3>2. \A j, k \in I : f[j] = f[k] => j = k
      BY <1>2, <2>1
    <3>3. \A x \in A : \E j \in I : f[j] = x
      BY <2>3
    <3> HIDE DEF f
    <3> QED
      BY <3>1, <3>2, <3>3, Fun_IsBij
  <2>5. IsFiniteSet(I) /\ Cardinality(I) = i - 1
    <3>1. 1 \in Int /\ i - 1 \in Int /\ i >= 1
      BY <1>1
    <3>2. /\ IsFiniteSet(1 .. i - 1)
          /\ Cardinality(1 .. i - 1) = IF 1 > i - 1 THEN 0 ELSE i - 1 - 1 + 1
      BY <3>1, FS_Interval
    <3> QED
      BY <3>1, <3>2
  <2> HIDE DEF f, A, I
  <2>6. Cardinality(A) = i - 1
    BY <2>4, <2>5, FS_Bijection DEF ExistsBijection
  <2> QED
    BY <2>6 DEF A
<1> QED
  BY <1>3, <1>4 DEF InOrder

LEMMA OnlySortedList ==
    ASSUME NEW R, NEW S, IsFiniteSet(S), Orders(R, S), NEW L, InOrder(L, R, S),
           NEW K \in Seq(S),
           \A x \in S : \E i \in 1 .. Len(K) : K[i] = x,
           \A i, j \in 1 .. Len(K) : i < j => <<K[i], K[j]>> \in R
    PROVE  L = K
BY SortedIsList, OneList

(* A sequence cut in two, a part of it, and what stands where when the     *)
(* parts are joined around an element or without one.                      *)
LEMMA FrontOfSeq ==
    ASSUME NEW S, NEW s \in Seq(S), NEW k \in 0 .. Len(s), NEW t, t = SubSeq(s, 1, k)
    PROVE  t \in Seq(S) /\ Len(t) = k /\ \A i \in 1 .. k : t[i] = s[i]
<1>1. Len(s) \in Nat /\ \A i \in 1 .. Len(s) : s[i] \in S
  BY LenProperties, ElementOfSeq
<1>2. 1 \in Int /\ k \in Int /\ k >= 0 /\ \A i \in 1 .. k : s[i] \in S
  BY <1>1
<1>3. /\ t \in Seq(S)
      /\ Len(t) = IF 1 <= k THEN k - 1 + 1 ELSE 0
      /\ \A i \in 1 .. k - 1 + 1 : t[i] = s[1 + i - 1]
  BY <1>2, SubSeqProperties
<1>4. Len(t) = k
  BY <1>2, <1>3
<1>5. ASSUME NEW i \in 1 .. k PROVE t[i] = s[i]
  <2>1. i \in 1 .. k - 1 + 1 /\ 1 + i - 1 = i
    BY <1>2
  <2> QED
    BY <1>3, <2>1
<1> QED
  BY <1>3, <1>4, <1>5

LEMMA RestOfSeq ==
    ASSUME NEW S, NEW s \in Seq(S), NEW k \in 0 .. Len(s), NEW t,
           t = SubSeq(s, k + 1, Len(s))
    PROVE  t \in Seq(S) /\ Len(t) = Len(s) - k /\ \A i \in 1 .. Len(t) : t[i] = s[k + i]
<1>1. Len(s) \in Nat /\ \A i \in 1 .. Len(s) : s[i] \in S
  BY LenProperties, ElementOfSeq
<1>2. k + 1 \in Int /\ Len(s) \in Int /\ \A i \in k + 1 .. Len(s) : s[i] \in S
  BY <1>1
<1>3. /\ t \in Seq(S)
      /\ Len(t) = IF k + 1 <= Len(s) THEN Len(s) - (k + 1) + 1 ELSE 0
      /\ \A i \in 1 .. Len(s) - (k + 1) + 1 : t[i] = s[k + 1 + i - 1]
  BY <1>2, SubSeqProperties
<1>4. Len(t) = Len(s) - k
  <2>1. k \in Nat /\ k <= Len(s)
    BY <1>1
  <2>2. Len(s) - k = IF k + 1 <= Len(s) THEN Len(s) - (k + 1) + 1 ELSE 0
    BY <1>1, <2>1
  <2> QED
    BY <1>3, <2>2
<1>5. ASSUME NEW i \in 1 .. Len(t) PROVE t[i] = s[k + i]
  <2>1. i \in 1 .. Len(s) - (k + 1) + 1 /\ k + 1 + i - 1 = k + i
    BY <1>1, <1>4
  <2> QED
    BY <1>3, <2>1
<1> QED
  BY <1>3, <1>4, <1>5

Rest(t, s, k) ==
    /\ Len(t) = Len(s) - k
    /\ \A i \in 1 .. Len(t) : t[i] = s[k + i]

LEMMA RestIsRest ==
    ASSUME NEW S, NEW s \in Seq(S), NEW k \in 0 .. Len(s), NEW t,
           t = SubSeq(s, k + 1, Len(s))
    PROVE  t \in Seq(S) /\ Rest(t, s, k)
BY RestOfSeq DEF Rest

LEMMA SeqWithin ==
    ASSUME NEW S, NEW s \in Seq(S), NEW T, \A i \in 1 .. Len(s) : s[i] \in T
    PROVE  s \in Seq(T)
<1>1. Len(s) \in Int /\ 1 \in Int
  BY LenProperties
<1>2. SubSeq(s, 1, Len(s)) \in Seq(T)
  BY <1>1, SubSeqProperties
<1> QED
  BY <1>2, SubSeqFull

Joined(t, a, b) ==
    /\ Len(t) = Len(a) + Len(b)
    /\ \A i \in 1 .. Len(a) : t[i] = a[i]
    /\ \A i \in 1 .. Len(b) : t[Len(a) + i] = b[i]

LEMMA JoinedSeq ==
    ASSUME NEW S, NEW a \in Seq(S), NEW b \in Seq(S), NEW t, t = a \o b
    PROVE  t \in Seq(S) /\ Joined(t, a, b)
<1>1. Len(a) \in Nat /\ Len(b) \in Nat
  BY LenProperties
<1>2. /\ t \in Seq(S)
      /\ Len(t) = Len(a) + Len(b)
      /\ \A i \in 1 .. Len(a) + Len(b) : t[i] = IF i <= Len(a) THEN a[i] ELSE b[i - Len(a)]
  BY ConcatProperties, Zenon
<1>3. ASSUME NEW i \in 1 .. Len(a) PROVE t[i] = a[i]
  BY <1>1, <1>2
<1>4. ASSUME NEW i \in 1 .. Len(b) PROVE t[Len(a) + i] = b[i]
  <2>1. /\ Len(a) + i \in 1 .. Len(a) + Len(b) /\ ~(Len(a) + i <= Len(a))
        /\ Len(a) + i - Len(a) = i
    BY <1>1
  <2> QED
    BY <1>2, <2>1
<1> QED
  BY <1>2, <1>3, <1>4 DEF Joined

Inserted(t, s, k, e) ==
    /\ Len(t) = Len(s) + 1
    /\ \A i \in 1 .. k : t[i] = s[i]
    /\ t[k + 1] = e
    /\ \A i \in 1 .. Len(s) - k : t[k + 1 + i] = s[k + i]

LEMMA InsertedSeq ==
    ASSUME NEW S, NEW s \in Seq(S), NEW k \in 0 .. Len(s), NEW e \in S, NEW t,
           t = SubSeq(s, 1, k) \o <<e>> \o SubSeq(s, k + 1, Len(s))
    PROVE  t \in Seq(S) /\ Inserted(t, s, k, e)
<1>1. Len(s) \in Nat /\ k \in Nat /\ k <= Len(s)
  BY LenProperties
<1>2. PICK a : a = SubSeq(s, 1, k)
  OBVIOUS
<1>3. PICK b : b = SubSeq(s, k + 1, Len(s))
  OBVIOUS
<1>4. PICK c : c = a \o <<e>>
  OBVIOUS
<1>5. a \in Seq(S) /\ Len(a) = k /\ \A i \in 1 .. k : a[i] = s[i]
  BY <1>2, FrontOfSeq
<1>6. b \in Seq(S) /\ Len(b) = Len(s) - k /\ \A i \in 1 .. Len(b) : b[i] = s[k + i]
  BY <1>3, RestOfSeq
<1>7. <<e>> \in Seq(S) /\ Len(<<e>>) = 1 /\ <<e>>[1] = e /\ 1 \in 1 .. 1
  OBVIOUS
<1>8. /\ c \in Seq(S) /\ Len(c) = k + 1
      /\ \A i \in 1 .. k : c[i] = a[i]
      /\ c[k + 1] = e
  <2>1. c \in Seq(S) /\ Joined(c, a, <<e>>)
    BY <1>4, <1>5, <1>7, JoinedSeq
  <2> QED
    BY <1>5, <1>7, <2>1 DEF Joined
<1>9. t = c \o b
  BY <1>2, <1>3, <1>4
<1>10. /\ t \in Seq(S) /\ Len(t) = Len(c) + Len(b)
       /\ \A i \in 1 .. Len(c) : t[i] = c[i]
       /\ \A i \in 1 .. Len(b) : t[Len(c) + i] = b[i]
  <2>1. t \in Seq(S) /\ Joined(t, c, b)
    BY <1>6, <1>8, <1>9, JoinedSeq
  <2> QED
    BY <2>1 DEF Joined
<1>11. /\ Len(c) + Len(b) = Len(s) + 1 /\ k + 1 \in 1 .. Len(c)
       /\ \A i \in 1 .. k : i \in 1 .. Len(c)
  BY <1>1, <1>6, <1>8
<1>12. (\A i \in 1 .. k : t[i] = s[i]) /\ t[k + 1] = e
  BY <1>5, <1>8, <1>10, <1>11
<1>13. \A i \in 1 .. Len(b) : t[k + 1 + i] = s[k + i]
  BY <1>6, <1>8, <1>10
<1>14. \A i \in 1 .. Len(s) - k : t[k + 1 + i] = s[k + i]
  BY <1>6, <1>13
<1> QED
  BY <1>10, <1>11, <1>12, <1>14 DEF Inserted

LEMMA AppendedSeq ==
    ASSUME NEW S, NEW s \in Seq(S), NEW e \in S, NEW t, t = Append(s, e)
    PROVE  t \in Seq(S) /\ Inserted(t, s, Len(s), e)
<1>1. Len(s) \in Nat
  BY LenProperties
<1>2. t \in Seq(S) /\ Len(t) = Len(s) + 1 /\ t[Len(s) + 1] = e
  BY AppendProperties
<1>3. \A i \in 1 .. Len(s) : t[i] = s[i]
  BY AppendProperties
<1>4. \A i \in 1 .. Len(s) - Len(s) : t[Len(s) + 1 + i] = s[Len(s) + i]
  BY <1>1
<1> QED
  BY <1>2, <1>3, <1>4, Zenon DEF Inserted

Shortened(t, s, m) ==
    /\ Len(t) = Len(s) - 1
    /\ \A i \in 1 .. m - 1 : t[i] = s[i]
    /\ \A i \in 1 .. Len(s) - m : t[m - 1 + i] = s[m + i]

LEMMA ShortenedSeq ==
    ASSUME NEW S, NEW s \in Seq(S), NEW m \in 1 .. Len(s), NEW t,
           t = SubSeq(s, 1, m - 1) \o SubSeq(s, m + 1, Len(s))
    PROVE  t \in Seq(S) /\ Shortened(t, s, m)
<1>1. Len(s) \in Nat /\ m \in 0 .. Len(s) /\ m - 1 \in 0 .. Len(s)
  BY LenProperties
<1>2. PICK a : a = SubSeq(s, 1, m - 1)
  OBVIOUS
<1>3. PICK b : b = SubSeq(s, m + 1, Len(s))
  OBVIOUS
<1>4. a \in Seq(S) /\ Len(a) = m - 1 /\ \A i \in 1 .. m - 1 : a[i] = s[i]
  BY <1>1, <1>2, FrontOfSeq
<1>5. b \in Seq(S) /\ Len(b) = Len(s) - m /\ \A i \in 1 .. Len(b) : b[i] = s[m + i]
  BY <1>1, <1>3, RestOfSeq
<1>6. /\ t \in Seq(S) /\ Len(t) = Len(a) + Len(b)
      /\ \A i \in 1 .. Len(a) : t[i] = a[i]
      /\ \A i \in 1 .. Len(b) : t[Len(a) + i] = b[i]
  <2>1. t = a \o b
    BY <1>2, <1>3
  <2>2. t \in Seq(S) /\ Joined(t, a, b)
    BY <1>4, <1>5, <2>1, JoinedSeq
  <2> QED
    BY <2>2 DEF Joined
<1>7. Len(a) + Len(b) = Len(s) - 1
  BY <1>1, <1>4, <1>5
<1> QED
  BY <1>4, <1>5, <1>6, <1>7 DEF Shortened

------------------------------------------------------------------------------
(* A set of positions has a least element, and Min is it. *)
LEMMA LeastPosition ==
    ASSUME NEW I \in SUBSET Nat, I # {}
    PROVE  Min(I) \in I /\ \A i \in I : Min(I) <= i
<1> DEFINE R == {ss \in Nat \X Nat : ss[1] < ss[2]}
<1>1. IsWellFoundedOn(R, Nat)
  BY NatLessThanWellFounded, Zenon DEF OpToRel
<1>2. PICK x \in I : \A y \in I : <<y, x>> \notin R
  <2> HIDE DEF R
  <2> QED
    BY <1>1, WFMin
<1>3. ASSUME NEW y \in I PROVE x <= y
  <2>1. x \in Nat /\ y \in Nat
    OBVIOUS
  <2>2. ~(y < x)
    BY <1>2, <2>1
  <2> QED
    BY <2>1, <2>2
<1> QED
  BY <1>3 DEF Min

LEMMA IntervalSize ==
    ASSUME NEW n \in Nat
    PROVE  IsFiniteSet(1 .. n) /\ Cardinality(1 .. n) = n
<1>1. 1 \in Int /\ n \in Int
  OBVIOUS
<1>2. IsFiniteSet(1 .. n) /\ Cardinality(1 .. n) = IF 1 > n THEN 0 ELSE n - 1 + 1
  BY <1>1, FS_Interval
<1> QED
  BY <1>2

------------------------------------------------------------------------------
(* What holds of 0, and of n + 1 when of n, holds of every number. *)
LEMMA CountingUp ==
    ASSUME NEW G, 0 \in G, \A n \in Nat : n \in G => n + 1 \in G
    PROVE  \A n \in Nat : n \in G
<1> DEFINE I == {n \in Nat : n \notin G}
<1> SUFFICES ASSUME I # {} PROVE FALSE
  OBVIOUS
<1>1. PICK k \in I : \A i \in I : k <= i
  BY LeastPosition
<1>2. k # 0 /\ k \in Nat
  OBVIOUS
<1>3. k - 1 \in Nat /\ k - 1 \notin I
  BY <1>1, <1>2
<1>4. k - 1 \in G /\ (k - 1) + 1 = k
  BY <1>2, <1>3
<1> QED
  BY <1>3, <1>4

(* A function defined by recursion on a rank exists: H says what stands at *)
(* x, given a function that is right wherever the rank is lower.           *)
Grounded(D, S, N, rank, H) ==
    /\ S # {} /\ N \in Nat /\ rank \in [D -> 0 .. N] /\ H \in [D -> [[D -> S] -> S]]
    /\ \A x \in D : \A f, g \in [D -> S] :
           (\A y \in D : rank[y] < rank[x] => f[y] = g[y]) => H[x][f] = H[x][g]
Recursive(D, S, H) == \E f \in [D -> S] : \A x \in D : f[x] = H[x][f]

LEMMA RecursionOnRank ==
    ASSUME NEW D, NEW S, NEW N, NEW rank, NEW H, Grounded(D, S, N, rank, H)
    PROVE  Recursive(D, S, H)
<1> USE DEF Grounded, Recursive
<1> DEFINE G == {n \in Nat : \E f \in [D -> S] : \A x \in D : rank[x] < n => f[x] = H[x][f]}
<1>1. \A x \in D : rank[x] \in Nat /\ rank[x] < N + 1
  OBVIOUS
<1>2. 0 \in G
  <2>1. PICK s \in S : TRUE
    OBVIOUS
  <2>2. [x \in D |-> s] \in [D -> S]
    OBVIOUS
  <2>3. \A x \in D : ~(rank[x] < 0)
    BY <1>1
  <2> QED
    BY <2>2, <2>3
<1>3. ASSUME NEW n \in Nat, n \in G PROVE n + 1 \in G
  <2>1. PICK f \in [D -> S] : \A x \in D : rank[x] < n => f[x] = H[x][f]
    BY <1>3
  <2>2. PICK g : g = [x \in D |-> IF rank[x] < n THEN f[x] ELSE H[x][f]]
    OBVIOUS
  <2>3. \A x \in D : H[x][f] \in S
    OBVIOUS
  <2>4. g \in [D -> S]
    BY <2>2, <2>3
  <2>5. ASSUME NEW x \in D, rank[x] < n + 1 PROVE g[x] = H[x][g]
    <3>1. \A y \in D : rank[y] < rank[x] => f[y] = g[y]
      BY <1>1, <2>2, <2>5
    <3>2. H[x][f] = H[x][g]
      BY <2>4, <3>1
    <3> QED
      BY <2>1, <2>2, <3>2
  <2> QED
    BY <2>4, <2>5
<1>4. N + 1 \in G
  <2> HIDE DEF G
  <2>1. \A n \in Nat : n \in G
    BY <1>2, <1>3, CountingUp
  <2> QED
    BY <2>1
<1> QED
  BY <1>1, <1>4

LEMMA CountingUpTo ==
    ASSUME NEW N \in Nat, NEW G, 0 \in G, \A n \in 1 .. N : n - 1 \in G => n \in G
    PROVE  \A n \in 0 .. N : n \in G
<1> DEFINE I == {n \in Nat : n <= N => n \in G}
<1>1. 0 \in I
  OBVIOUS
<1>2. ASSUME NEW n \in Nat, n \in I PROVE n + 1 \in I
  <2> SUFFICES ASSUME n + 1 <= N PROVE n + 1 \in G
    OBVIOUS
  <2>1. n + 1 \in 1 .. N /\ (n + 1) - 1 = n /\ n \in G
    BY <1>2
  <2> QED
    BY <2>1
<1> HIDE DEF I
<1>3. \A n \in Nat : n \in I
  BY <1>1, <1>2, CountingUp
<1> QED
  BY <1>3 DEF I

(* What is computed step by step. *)
Steps(f, S, start, N, step) ==
    f \in [0 .. N -> S] /\ f[0] = start /\ \A n \in 1 .. N : f[n] = step[n][f[n - 1]]
Stepwise(S, start, N, step) == start \in S /\ N \in Nat /\ step \in [1 .. N -> [S -> S]]

LEMMA StepsExist ==
    ASSUME NEW S, NEW start, NEW N, NEW step, Stepwise(S, start, N, step)
    PROVE  \E f : Steps(f, S, start, N, step)
<1> USE DEF Stepwise
<1> DEFINE D == 0 .. N
           H == [n \in D |-> [f \in [D -> S] |-> IF n = 0 THEN start ELSE step[n][f[n - 1]]]]
           rank == [n \in D |-> n]
<1>1. \A n \in D : n # 0 => n \in 1 .. N /\ n - 1 \in D /\ n - 1 < n
  OBVIOUS
<1>2. \A n \in 1 .. N : n \in D /\ n # 0
  OBVIOUS
<1>3. 0 \in D /\ \A n \in D : rank[n] = n
  OBVIOUS
<1>4. rank \in [D -> 0 .. N]
  OBVIOUS
<1> HIDE DEF D, rank
<1>5. H \in [D -> [[D -> S] -> S]]
  BY <1>1
<1>6. ASSUME NEW n \in D, NEW f \in [D -> S], NEW g \in [D -> S],
             \A k \in D : rank[k] < rank[n] => f[k] = g[k]
      PROVE  H[n][f] = H[n][g]
  <2>1. n # 0 => f[n - 1] = g[n - 1]
    BY <1>1, <1>3, <1>6
  <2> QED
    BY <2>1
<1>7. Grounded(D, S, N, rank, H)
  <2> HIDE DEF H
  <2> QED
    BY <1>4, <1>5, <1>6 DEF Grounded
<1>8. PICK f \in [D -> S] : \A n \in D : f[n] = H[n][f]
  <2> HIDE DEF H
  <2> QED
    BY <1>7, RecursionOnRank DEF Recursive
<1>9. f[0] = start
  BY <1>3, <1>8
<1>10. \A n \in 1 .. N : f[n] = step[n][f[n - 1]]
  BY <1>2, <1>8
<1> QED
  BY <1>8, <1>9, <1>10 DEF D, Steps

LEMMA OnlySteps ==
    ASSUME NEW S, NEW start, NEW N, NEW step, Stepwise(S, start, N, step),
           NEW f, DOMAIN f = 0 .. N, f = [n \in DOMAIN f |-> f[n]], f[0] = start,
           \A n \in 1 .. N : f[n - 1] \in S => f[n] = step[n][f[n - 1]]
    PROVE  Steps(f, S, start, N, step)
<1> DEFINE G == {n \in 0 .. N : f[n] \in S}
<1>1. N \in Nat /\ start \in S /\ step \in [1 .. N -> [S -> S]]
  BY DEF Stepwise
<1>2. 0 \in G
  BY <1>1
<1>3. ASSUME NEW n \in 1 .. N, n - 1 \in G PROVE n \in G
  BY <1>1, <1>3
<1> HIDE DEF G
<1>4. \A n \in 0 .. N : n \in G
  BY <1>1, <1>2, <1>3, CountingUpTo
<1>5. \A n \in 0 .. N : f[n] \in S
  BY <1>4 DEF G
<1>6. f \in [0 .. N -> S]
  BY <1>5
<1>7. \A n \in 1 .. N : n - 1 \in 0 .. N
  BY <1>1
<1> QED
  BY <1>5, <1>6, <1>7 DEF Steps
=============================================================================
