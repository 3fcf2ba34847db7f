---------------------- MODULE FolderMeasurementProofs -----------------------
(* Proofs about the folder measurement, for every file system of finitely  *)
(* many paths and nodes: a path leads to one place, the walk visits the    *)
(* children of a folder in their order and each once, the bytes that are   *)
(* measured are those of the files it found, and the total hash can be     *)
(* read back.                                                              *)
EXTENDS FolderMeasurement, SequenceTheorems, FiniteSetTheorems, WellFoundedInduction, TLAPS

-----------------------------------------------------------------------------
(* Sorting *)

\* A set of numbers has a least element.
LEMMA LeastOf ==
    ASSUME NEW S, S \subseteq Nat, S # {}
    PROVE  \E x \in S : \A y \in S : x <= y
<1> DEFINE R == OpToRel(<, Nat)
<1>1. IsWellFoundedOn(R, Nat)
    BY NatLessThanWellFounded
<1>2. \A x, y \in Nat : x < y => <<x, y>> \in R
    BY DEF OpToRel
<1> HIDE DEF R
<1>3. PICK x \in S : \A y \in S : ~ (<<y, x>> \in R)
    BY <1>1, WFMin
<1>4. ASSUME NEW y \in S PROVE x <= y
  <2>1. ~ (y < x)
    BY <1>2, <1>3
  <2> QED
    BY <2>1
<1> QED
    BY <1>4

\* A strict total order of C.
Irreflexive(R, C) == \A a \in C : <<a, a>> \notin R
Transitive(R, C) == \A a, b, c \in C : <<a, b>> \in R /\ <<b, c>> \in R => <<a, c>> \in R
Total(R, C) == \A a, b \in C : a # b => <<a, b>> \in R \/ <<b, a>> \in R
Orders(R, C) == Irreflexive(R, C) /\ Transitive(R, C) /\ Total(R, C)

\* Sequences differ first at place i, and there the first one is smaller: it
\* ends, or its element is smaller.
LexAt(R, s, t, i) ==
    /\ i \in 1..Len(t) /\ i <= Len(s) + 1
    /\ \A j \in 1..(i - 1) : s[j] = t[j]
    /\ i = Len(s) + 1 \/ <<s[i], t[i]>> \in R
Lex(R, C) == {x \in Seq(C) \X Seq(C) : \E i \in Nat : LexAt(R, x[1], x[2], i)}

\* No sequence is smaller than itself.
LEMMA LexIrreflexive ==
    ASSUME NEW C, NEW R, Orders(R, C)
    PROVE  Irreflexive(Lex(R, C), Seq(C))
<1> SUFFICES ASSUME NEW s \in Seq(C), NEW i \in Nat, LexAt(R, s, s, i) PROVE FALSE
    BY DEF Irreflexive, Lex
<1>1. Len(s) \in Nat /\ i \in 1..Len(s) /\ <<s[i], s[i]>> \in R
    BY DEF LexAt
<1>2. s[i] \in C
    BY <1>1, ElementOfSeq
<1> QED
    BY <1>1, <1>2 DEF Orders, Irreflexive

\* Where the first two differ, or where the last two do, the first and the last do.
LEMMA LexTransitive ==
    ASSUME NEW C, NEW R, Orders(R, C)
    PROVE  Transitive(Lex(R, C), Seq(C))
<1> SUFFICES ASSUME NEW s \in Seq(C), NEW t \in Seq(C), NEW u \in Seq(C),
                    NEW i \in Nat, LexAt(R, s, t, i), NEW k \in Nat, LexAt(R, t, u, k)
             PROVE  \E n \in Nat : LexAt(R, s, u, n)
    BY DEF Transitive, Lex
<1>1. /\ Len(s) \in Nat /\ Len(t) \in Nat /\ Len(u) \in Nat
      /\ \A n \in 1..Len(s) : s[n] \in C
      /\ \A n \in 1..Len(t) : t[n] \in C
      /\ \A n \in 1..Len(u) : u[n] \in C
    BY LenProperties, ElementOfSeq
<1>2. CASE i < k
  <2>1. i \in 1..Len(u) /\ t[i] = u[i] /\ i <= Len(t)
    BY <1>1, <1>2 DEF LexAt
  <2>2. LexAt(R, s, u, i)
    BY <1>1, <1>2, <2>1 DEF LexAt
  <2> QED
    BY <2>2
<1>3. CASE k < i
  <2>1. k \in 1..Len(s) /\ k \in 1..Len(t) /\ s[k] = t[k] /\ k # Len(t) + 1 /\ k # Len(s) + 1
    BY <1>1, <1>3 DEF LexAt
  <2>2. LexAt(R, s, u, k)
    BY <1>1, <1>3, <2>1 DEF LexAt
  <2> QED
    BY <2>2
<1>4. CASE i = k
  <2>1. i \in 1..Len(t) /\ i \in 1..Len(u) /\ <<t[i], u[i]>> \in R
    BY <1>1, <1>4 DEF LexAt
  <2>2. i = Len(s) + 1 \/ <<s[i], u[i]>> \in R
    <3>1. CASE i = Len(s) + 1
      BY <3>1
    <3>2. CASE i # Len(s) + 1
      <4>1. i \in 1..Len(s) /\ <<s[i], t[i]>> \in R
        BY <1>1, <3>2 DEF LexAt
      <4> QED
        BY <1>1, <2>1, <4>1 DEF Orders, Transitive
    <3> QED
      BY <3>1, <3>2
  <2>3. LexAt(R, s, u, i)
    BY <1>1, <1>4, <2>1, <2>2 DEF LexAt
  <2> QED
    BY <2>3
<1> QED
    BY <1>2, <1>3, <1>4

\* Two sequences differ at a first place, or one ends where the other goes on.
LEMMA LexTotal ==
    ASSUME NEW C, NEW R, Orders(R, C)
    PROVE  Total(Lex(R, C), Seq(C))
<1> SUFFICES ASSUME NEW s \in Seq(C), NEW t \in Seq(C), s # t
             PROVE  \E n \in Nat : LexAt(R, s, t, n) \/ LexAt(R, t, s, n)
    BY DEF Total, Lex
<1>1. /\ Len(s) \in Nat /\ Len(t) \in Nat
      /\ \A n \in 1..Len(s) : s[n] \in C
      /\ \A n \in 1..Len(t) : t[n] \in C
    BY LenProperties, ElementOfSeq
<1> DEFINE D == {n \in Nat : /\ n >= 1 /\ n <= Len(s) + 1 /\ n <= Len(t) + 1
                             /\ n = Len(s) + 1 \/ n = Len(t) + 1 \/ s[n] # t[n]}
<1>2. D \subseteq Nat /\ D # {}
  <2>1. CASE Len(s) <= Len(t)
    <3>1. Len(s) + 1 \in D
      BY <1>1, <2>1
    <3> QED
      BY <3>1
  <2>2. CASE Len(t) <= Len(s)
    <3>1. Len(t) + 1 \in D
      BY <1>1, <2>2
    <3> QED
      BY <3>1
  <2> QED
    BY <1>1, <2>1, <2>2
<1>3. PICK n \in D : \A m \in D : n <= m
    BY <1>2, LeastOf
<1>4. ASSUME NEW j \in 1..(n - 1) PROVE s[j] = t[j]
  <2>1. j \in Nat /\ j < n /\ j >= 1
    BY <1>3
  <2>2. j \notin D
    BY <1>3, <2>1
  <2> QED
    BY <1>1, <1>3, <2>1, <2>2
<1>5. /\ n \in Nat /\ n >= 1 /\ n <= Len(s) + 1 /\ n <= Len(t) + 1
      /\ n = Len(s) + 1 \/ n = Len(t) + 1 \/ s[n] # t[n]
    BY <1>3
<1> HIDE DEF D
<1>6. CASE n = Len(s) + 1 /\ n = Len(t) + 1
  <2>1. Len(s) = Len(t) /\ \A j \in 1..Len(s) : s[j] = t[j]
    BY <1>1, <1>4, <1>6
  <2>2. s = t
    BY <2>1, SeqEqual
  <2> QED
    BY <2>2
<1>7. CASE n = Len(s) + 1 /\ n # Len(t) + 1
  <2>1. LexAt(R, s, t, n)
    BY <1>1, <1>4, <1>5, <1>7 DEF LexAt
  <2> QED
    BY <1>5, <2>1
<1>8. CASE n = Len(t) + 1 /\ n # Len(s) + 1
  <2>1. LexAt(R, t, s, n)
    BY <1>1, <1>4, <1>5, <1>8 DEF LexAt
  <2> QED
    BY <1>5, <2>1
<1>9. CASE n # Len(s) + 1 /\ n # Len(t) + 1
  <2>1. n \in 1..Len(s) /\ n \in 1..Len(t) /\ s[n] # t[n]
    BY <1>1, <1>5, <1>9
  <2>2. <<s[n], t[n]>> \in R \/ <<t[n], s[n]>> \in R
    BY <1>1, <2>1 DEF Orders, Total
  <2>3. LexAt(R, s, t, n) \/ LexAt(R, t, s, n)
    BY <1>1, <1>4, <2>1, <2>2 DEF LexAt
  <2> QED
    BY <1>5, <2>3
<1> QED
    BY <1>6, <1>7, <1>8, <1>9

\* The lexicographic order is one.
LEMMA LexOrders ==
    ASSUME NEW C, NEW R, Orders(R, C)
    PROVE  Orders(Lex(R, C), Seq(C))
    BY LexIrreflexive, LexTransitive, LexTotal DEF Orders

\* The orders of names and of paths.
NumberOrder == {x \in Nat \X Nat : x[1] < x[2]}
NameOrder == Lex(NumberOrder, Nat)
PathOrder == Lex(NameOrder, Seq(Nat))

\* They are what the model compares by.
LEMMA NamesOrdered ==
    /\ Orders(NameOrder, Seq(Nat))
    /\ \A s, t \in Seq(Nat) : Less(s, t) <=> <<s, t>> \in NameOrder
<1>1. Orders(NumberOrder, Nat)
    BY DEF Orders, Irreflexive, Transitive, Total, NumberOrder
<1>2. Orders(NameOrder, Seq(Nat))
    BY <1>1, LexOrders DEF NameOrder
<1>3. ASSUME NEW s \in Seq(Nat), NEW t \in Seq(Nat)
      PROVE  Less(s, t) <=> <<s, t>> \in NameOrder
  <2>1. /\ Len(s) \in Nat /\ Len(t) \in Nat
        /\ \A n \in 1..Len(s) : s[n] \in Nat
        /\ \A n \in 1..Len(t) : t[n] \in Nat
    BY LenProperties, ElementOfSeq
  <2>2. \A i \in 1..Len(t) : i <= Len(s) + 1 =>
          (i = Len(s) + 1 \/ s[i] < t[i] <=> i = Len(s) + 1 \/ <<s[i], t[i]>> \in NumberOrder)
    BY <2>1 DEF NumberOrder
  <2>3. <<s, t>> \in NameOrder <=> \E i \in Nat : LexAt(NumberOrder, s, t, i)
    BY DEF NameOrder, Lex
  <2>4. 1..Len(t) \subseteq Nat
    BY <2>1
  <2> QED
    BY <2>2, <2>3, <2>4 DEF Less, LexAt
<1> QED
    BY <1>2, <1>3

\* Paths are ordered by their first different component, as sorted.
LEMMA PathsOrdered ==
    /\ Orders(PathOrder, Seq(Seq(Nat)))
    /\ \A p, q \in Seq(Seq(Nat)) : PathLess(p, q) <=> <<p, q>> \in PathOrder
<1>1. Orders(PathOrder, Seq(Seq(Nat)))
    BY NamesOrdered, LexOrders DEF PathOrder
<1>2. ASSUME NEW s \in Seq(Seq(Nat)), NEW t \in Seq(Seq(Nat))
      PROVE  PathLess(s, t) <=> <<s, t>> \in PathOrder
  <2>1. /\ Len(s) \in Nat /\ Len(t) \in Nat
        /\ \A n \in 1..Len(s) : s[n] \in Seq(Nat)
        /\ \A n \in 1..Len(t) : t[n] \in Seq(Nat)
    BY LenProperties, ElementOfSeq
  <2>2. ASSUME NEW i \in 1..Len(t), i <= Len(s) + 1
        PROVE  i = Len(s) + 1 \/ Less(s[i], t[i]) <=> i = Len(s) + 1 \/ <<s[i], t[i]>> \in NameOrder
    <3>1. i # Len(s) + 1 => i \in 1..Len(s)
      BY <2>1, <2>2
    <3> QED
      BY <2>1, <3>1, NamesOrdered
  <2>3. <<s, t>> \in PathOrder <=> \E i \in Nat : LexAt(NameOrder, s, t, i)
    BY DEF PathOrder, Lex
  <2>4. 1..Len(t) \subseteq Nat
    BY <2>1
  <2> QED
    BY <2>2, <2>3, <2>4 DEF PathLess, LexAt
<1> QED
    BY <1>1, <1>2

\* A collection of subsets of a finite set has a smallest one.
LEMMA SmallestOf ==
    ASSUME NEW D, IsFiniteSet(D), NEW B, B \subseteq SUBSET D, B # {}
    PROVE  \E T \in B : \A U \in B : U \subseteq T => U = T
<1>1. IsWellFoundedOn(StrictSubsetOrdering(D), FiniteSubsetsOf(D))
    BY FS_StrictSubsetOrderingWellFounded
<1>2. B \subseteq FiniteSubsetsOf(D)
    BY FS_FiniteSubsetsOfFinite
<1>3. PICK T \in B : \A U \in B : ~ (<<U, T>> \in StrictSubsetOrdering(D))
    BY <1>1, <1>2, WFMin
<1>4. ASSUME NEW U \in B, U \subseteq T, U # T PROVE FALSE
  <2>1. <<U, T>> \in (SUBSET D) \X (SUBSET D) /\ <<U, T>>[1] = U /\ <<U, T>>[2] = T
    OBVIOUS
  <2>2. <<U, T>> \in StrictSubsetOrdering(D)
    BY <1>4, <2>1 DEF StrictSubsetOrdering
  <2> QED
    BY <1>3, <2>2
<1> QED
    BY <1>3, <1>4

\* A sequence lists a set in the order R.
Lists(s, S, R) ==
    /\ s \in [1..Cardinality(S) -> S]
    /\ \A i, j \in 1..Cardinality(S) : i < j => <<s[i], s[j]>> \in R

\* A new element finds its place in a sorted listing.
LEMMA Inserted ==
    ASSUME NEW C, NEW R, Orders(R, C), NEW T, T \subseteq C, IsFiniteSet(T), NEW x \in T,
           NEW s, Lists(s, T \ {x}, R)
    PROVE  \E u : Lists(u, T, R)
<1> DEFINE n == Cardinality(T \ {x})
<1>1. n \in Nat /\ Cardinality(T) = n + 1
  <2>1. Cardinality(T) \in Nat /\ n = Cardinality(T) - 1 /\ IsFiniteSet(T \ {x})
    BY FS_RemoveElement, FS_CardinalityType
  <2>2. n \in Nat
    BY <2>1, FS_CardinalityType
  <2> QED
    BY <2>1, <2>2
<1>2. /\ s \in [1..n -> T \ {x}]
      /\ \A i, j \in 1..n : i < j => <<s[i], s[j]>> \in R
    BY DEF Lists
<1> HIDE DEF n
<1> DEFINE K == {k \in 1..n : <<x, s[k]>> \in R} \cup {n + 1}
<1>3. PICK k \in K : \A m \in K : k <= m
  <2>1. K \subseteq Nat /\ K # {}
    BY <1>1
  <2> HIDE DEF K
  <2> QED
    BY <2>1, LeastOf
<1>4. k \in Nat /\ k >= 1 /\ k <= n + 1
    BY <1>1, <1>3
<1>5. ASSUME NEW i \in 1..n
      PROVE  /\ s[i] \in C /\ s[i] \in T
             /\ i < k => <<s[i], x>> \in R
             /\ i >= k => <<x, s[i]>> \in R
  <2>1. s[i] \in C /\ s[i] \in T /\ s[i] # x /\ x \in C
    BY <1>2
  <2>2. ASSUME i < k PROVE <<s[i], x>> \in R
    <3>1. i \notin K
      BY <1>1, <1>3, <1>4, <2>2
    <3>2. <<x, s[i]>> \notin R
      BY <3>1
    <3> QED
      BY <2>1, <3>2 DEF Orders, Total
  <2>3. ASSUME i >= k PROVE <<x, s[i]>> \in R
    <3>1. k \in 1..n /\ <<x, s[k]>> \in R
      BY <1>1, <1>3, <1>4, <2>3
    <3>2. CASE i = k
      BY <3>1, <3>2
    <3>3. CASE i # k
      <4>1. <<s[k], s[i]>> \in R /\ s[k] \in C
        BY <1>2, <1>4, <2>3, <3>1, <3>3
      <4> QED
        BY <2>1, <3>1, <4>1 DEF Orders, Transitive
    <3> QED
      BY <3>2, <3>3
  <2> QED
    BY <2>1, <2>2, <2>3
<1> HIDE DEF K
<1> DEFINE u == [i \in 1..(n + 1) |-> IF i < k THEN s[i] ELSE IF i = k THEN x ELSE s[i - 1]]
<1>6. ASSUME NEW i \in 1..(n + 1) PROVE u[i] \in T
  <2>1. i < k => i \in 1..n
    BY <1>1, <1>4
  <2>2. i > k => i - 1 \in 1..n
    BY <1>1, <1>4
  <2>3. i \in Int /\ \A j \in 1..n : s[j] \in T
    BY <1>1, <1>2
  <2>4. CASE i < k
    <3>1. u[i] = s[i]
      BY <2>4
    <3> QED
      BY <2>1, <2>3, <2>4, <3>1
  <2>5. CASE i = k
    BY <2>5, <1>4
  <2>6. CASE i > k
    <3>1. u[i] = s[i - 1]
      BY <1>4, <2>3, <2>6
    <3> QED
      BY <2>2, <2>3, <2>6, <3>1
  <2> QED
    BY <1>4, <2>3, <2>4, <2>5, <2>6
<1>7. ASSUME NEW i \in 1..(n + 1), NEW j \in 1..(n + 1), i < j PROVE <<u[i], u[j]>> \in R
  <2>1. CASE j < k
    <3>1. i \in 1..n /\ j \in 1..n /\ u[i] = s[i] /\ u[j] = s[j]
      BY <1>1, <1>4, <1>7, <2>1
    <3> QED
      BY <1>2, <1>7, <3>1
  <2>2. CASE j = k
    <3>1. i \in 1..n /\ u[i] = s[i] /\ u[j] = x /\ i < k
      BY <1>1, <1>4, <1>7, <2>2
    <3> QED
      BY <1>5, <3>1
  <2>3. CASE j > k /\ i = k
    <3>1. j - 1 \in 1..n /\ u[i] = x /\ u[j] = s[j - 1] /\ j - 1 >= k
      BY <1>1, <1>4, <1>7, <2>3
    <3> QED
      BY <1>5, <3>1
  <2>4. CASE j > k /\ i < k
    <3>1. i \in 1..n /\ j - 1 \in 1..n /\ i < j - 1 /\ u[i] = s[i] /\ u[j] = s[j - 1]
      BY <1>1, <1>4, <1>7, <2>4
    <3> QED
      BY <1>2, <3>1
  <2>5. CASE j > k /\ i > k
    <3>1. i - 1 \in 1..n /\ j - 1 \in 1..n /\ i - 1 < j - 1 /\ u[i] = s[i - 1] /\ u[j] = s[j - 1]
      BY <1>1, <1>4, <1>7, <2>5
    <3> QED
      BY <1>2, <3>1
  <2> QED
    BY <1>4, <2>1, <2>2, <2>3, <2>4, <2>5
<1>8. u \in [1..(n + 1) -> T]
    BY <1>6
<1> HIDE DEF u
<1> QED
    BY <1>1, <1>7, <1>8 DEF Lists

\* A finite set can be listed in any order of its elements.
LEMMA Listable ==
    ASSUME NEW C, IsFiniteSet(C), NEW R, Orders(R, C)
    PROVE  \E s : Lists(s, C, R)
<1> DEFINE B == {T \in SUBSET C : ~ \E s : Lists(s, T, R)}
<1>1. SUFFICES ASSUME B # {} PROVE FALSE
    OBVIOUS
<1>2. PICK T \in B : \A U \in B : U \subseteq T => U = T
  <2>1. B \subseteq SUBSET C
    OBVIOUS
  <2> HIDE DEF B
  <2> QED
    BY <1>1, <2>1, SmallestOf
<1>3. T \subseteq C /\ IsFiniteSet(T) /\ ~ \E s : Lists(s, T, R)
    BY <1>2, FS_Subset
<1>4. CASE T = {}
  <2>1. Cardinality(T) = 0
    BY <1>4, FS_EmptySet
  <2>2. Lists(<<>>, T, R)
    BY <1>4, <2>1 DEF Lists
  <2> QED
    BY <1>3, <2>2
<1>5. CASE T # {}
  <2>1. PICK x \in T : TRUE
    BY <1>5
  <2>2. T \ {x} \in SUBSET C /\ T \ {x} \notin B
    BY <1>2, <2>1
  <2>3. PICK s : Lists(s, T \ {x}, R)
    BY <2>2
  <2>4. \E u : Lists(u, T, R)
    BY <1>3, <2>1, <2>3, Inserted
  <2> QED
    BY <1>3, <2>4
<1> QED
    BY <1>4, <1>5

\* A sorted listing names every element.
LEMMA ListsAll ==
    ASSUME NEW S, IsFiniteSet(S), NEW R, Irreflexive(R, S), NEW s, Lists(s, S, R)
    PROVE  /\ \A x \in S : \E j \in 1..Cardinality(S) : s[j] = x
           /\ \A i, j \in 1..Cardinality(S) : s[i] = s[j] => i = j
<1> DEFINE n == Cardinality(S)
<1>1. n \in Nat /\ s \in [1..n -> S]
    BY FS_CardinalityType DEF Lists
<1>2. \A i, j \in 1..n : s[i] = s[j] => i = j
  <2> SUFFICES ASSUME NEW i \in 1..n, NEW j \in 1..n, s[i] = s[j], i # j PROVE FALSE
    OBVIOUS
  <2>1. i < j \/ j < i
    BY <1>1
  <2>2. s[i] \in S /\ s[j] \in S
    BY <1>1
  <2>3. <<s[i], s[j]>> \in R \/ <<s[j], s[i]>> \in R
    BY <2>1 DEF Lists
  <2> QED
    BY <2>2, <2>3 DEF Irreflexive
<1>3. IsFiniteSet(1..n) /\ Cardinality(1..n) = n
  <2> HIDE DEF n
  <2>1. n \in Int /\ 1 \in Int /\ (1 > n => n = 0) /\ (~(1 > n) => n - 1 + 1 = n)
    BY <1>1
  <2> QED
    BY <2>1, FS_Interval
<1>4. s \in Injection(1..n, S)
    BY <1>1, <1>2 DEF Injection, IsInjective
<1>5. s \in Surjection(1..n, S)
    BY <1>3, <1>4, FS_Injection DEF n
<1> QED
    BY <1>2, <1>5 DEF Surjection

\* There is only one sorted listing.
LEMMA ListsUnique ==
    ASSUME NEW S, IsFiniteSet(S), NEW R, Irreflexive(R, S), Transitive(R, S),
           NEW s, Lists(s, S, R), NEW u, Lists(u, S, R)
    PROVE  s = u
<1> DEFINE n == Cardinality(S)
           B == {i \in 1..n : s[i] # u[i]}
<1>1. n \in Nat /\ s \in [1..n -> S] /\ u \in [1..n -> S]
    BY FS_CardinalityType DEF Lists
<1>2. /\ \A x \in S : \E j \in 1..n : s[j] = x
      /\ \A x \in S : \E j \in 1..n : u[j] = x
      /\ \A i, j \in 1..n : s[i] = s[j] => i = j
      /\ \A i, j \in 1..n : u[i] = u[j] => i = j
    BY ListsAll
<1>3. /\ \A i, j \in 1..n : i < j => <<s[i], s[j]>> \in R
      /\ \A i, j \in 1..n : i < j => <<u[i], u[j]>> \in R
    BY DEF Lists
<1> HIDE DEF n
<1>4. B = {}
  <2> SUFFICES ASSUME B # {} PROVE FALSE
    OBVIOUS
  <2>1. PICK i \in B : \A j \in B : i <= j
    <3>1. B \subseteq Nat
      BY <1>1
    <3> HIDE DEF B
    <3> QED
      BY <3>1, LeastOf
  <2>2. i \in 1..n /\ s[i] # u[i] /\ s[i] \in S /\ u[i] \in S
    BY <1>1, <2>1
  <2>3. \A j \in 1..n : j < i => s[j] = u[j]
    <3>1. \A j \in 1..n : j \in B \/ s[j] = u[j]
      OBVIOUS
    <3>2. \A j \in 1..n : j < i => ~(i <= j)
      BY <1>1, <2>2
    <3> HIDE DEF B
    <3> QED
      BY <2>1, <3>1, <3>2
  <2> HIDE DEF B
  <2>4. PICK j \in 1..n : u[j] = s[i]
    BY <1>2, <2>2
  <2>5. PICK k \in 1..n : s[k] = u[i]
    BY <1>2, <2>2
  <2>6. i < j
    <3>1. j # i
      BY <2>2, <2>4
    <3>2. ~(j < i)
      BY <1>2, <2>2, <2>3, <2>4, <3>1
    <3> QED
      BY <1>1, <2>2, <3>1, <3>2
  <2>7. i < k
    <3>1. k # i
      BY <2>2, <2>5
    <3>2. ~(k < i)
      BY <1>2, <2>2, <2>3, <2>5, <3>1
    <3> QED
      BY <1>1, <2>2, <3>1, <3>2
  <2>8. <<u[i], s[i]>> \in R /\ <<s[i], u[i]>> \in R
    BY <1>3, <2>2, <2>4, <2>5, <2>6, <2>7
  <2> QED
    BY <2>2, <2>8 DEF Irreflexive, Transitive
<1>5. \A i \in 1..n : s[i] = u[i]
    BY <1>4
<1> QED
    BY <1>1, <1>5

\* Sorted is such a listing: of paths by components.
LEMMA SortedPaths ==
    ASSUME NEW S, IsFiniteSet(S), S \subseteq Seq(Seq(Nat))
    PROVE  Lists(Sorted(S, PathLess), S, PathOrder)
<1>1. Orders(PathOrder, S)
    BY PathsOrdered DEF Orders, Irreflexive, Transitive, Total
<1>2. PICK s : Lists(s, S, PathOrder)
    BY <1>1, Listable
<1>3. Cardinality(S) \in Nat
    BY FS_CardinalityType
<1>4. \A u \in [1..Cardinality(S) -> S] :
        (\A i, j \in DOMAIN u : i < j => PathLess(u[i], u[j])) <=> Lists(u, S, PathOrder)
  <2> SUFFICES ASSUME NEW u \in [1..Cardinality(S) -> S]
               PROVE  (\A i, j \in DOMAIN u : i < j => PathLess(u[i], u[j])) <=> Lists(u, S, PathOrder)
    OBVIOUS
  <2>1. \A i \in 1..Cardinality(S) : u[i] \in Seq(Seq(Nat))
    OBVIOUS
  <2>2. \A i, j \in 1..Cardinality(S) : PathLess(u[i], u[j]) <=> <<u[i], u[j]>> \in PathOrder
    BY <2>1, PathsOrdered
  <2> QED
    BY <2>2 DEF Lists
<1>5. s \in [1..Cardinality(S) -> S] /\ \A i, j \in DOMAIN s : i < j => PathLess(s[i], s[j])
    BY <1>2, <1>4 DEF Lists
<1>6. /\ Sorted(S, PathLess) \in [1..Cardinality(S) -> S]
      /\ \A i, j \in DOMAIN Sorted(S, PathLess) :
            i < j => PathLess(Sorted(S, PathLess)[i], Sorted(S, PathLess)[j])
    BY <1>5 DEF Sorted
<1> QED
    BY <1>4, <1>6

-----------------------------------------------------------------------------
(* Functions that follow a sequence *)

\* The values that a step function takes on the way along the first k elements.
RunTo(u, p, k, st, v0) ==
    u[0] = v0 /\ \A i \in 1..k : u[i] = st[<<u[i - 1], p[i]>>]

\* They are determined by the elements.
LEMMA RunUnique ==
    ASSUME NEW st, NEW v0, NEW p, NEW q, NEW k \in Nat, \A i \in 1..k : p[i] = q[i],
           NEW u, NEW w, RunTo(u, p, k, st, v0), RunTo(w, q, k, st, v0)
    PROVE  \A i \in 0..k : u[i] = w[i]
<1> DEFINE D == {i \in 0..k : u[i] # w[i]}
<1>1. SUFFICES ASSUME D # {} PROVE FALSE
    OBVIOUS
<1>2. PICK i \in D : \A j \in D : i <= j
  <2>1. D \subseteq Nat
    OBVIOUS
  <2> HIDE DEF D
  <2> QED
    BY <1>1, <2>1, LeastOf
<1>3. i \in 0..k /\ u[i] # w[i]
    BY <1>2
<1>4. i # 0
    BY <1>3 DEF RunTo
<1>5. i \in 1..k /\ i - 1 \in 0..k /\ ~(i <= i - 1)
    BY <1>3, <1>4
<1>6. u[i - 1] = w[i - 1]
    BY <1>2, <1>5
<1>7. u[i] = st[<<u[i - 1], p[i]>>] /\ w[i] = st[<<w[i - 1], q[i]>>] /\ p[i] = q[i]
    BY <1>5 DEF RunTo
<1> QED
    BY <1>3, <1>6, <1>7

\* There are such values for every sequence.
LEMMA RunExists ==
    ASSUME NEW V, NEW C, NEW st \in [V \X C -> V], NEW v0 \in V, NEW p \in Seq(C)
    PROVE  \E u \in [0..Len(p) -> V] : RunTo(u, p, Len(p), st, v0)
<1>1. Len(p) \in Nat /\ \A i \in 1..Len(p) : p[i] \in C
    BY LenProperties, ElementOfSeq
<1> DEFINE B == {k \in 0..Len(p) : ~ \E u \in [0..k -> V] : RunTo(u, p, k, st, v0)}
<1>2. ASSUME B # {} PROVE FALSE
  <2>1. PICK k \in B : \A j \in B : k <= j
    <3>1. B \subseteq Nat
      BY <1>1
    <3> HIDE DEF B
    <3> QED
      BY <1>2, <3>1, LeastOf
  <2>2. k \in 0..Len(p) /\ k \in Nat /\ ~ \E u \in [0..k -> V] : RunTo(u, p, k, st, v0)
    BY <1>1, <2>1
  <2>3. CASE k = 0
    <3> DEFINE u == [i \in 0..0 |-> v0]
    <3>1. u \in [0..k -> V] /\ RunTo(u, p, k, st, v0)
      BY <2>3 DEF RunTo
    <3> QED
      BY <2>2, <3>1
  <2>4. CASE k # 0
    <3>1. k - 1 \in 0..Len(p) /\ ~(k <= k - 1) /\ k \in 1..Len(p)
      BY <2>2, <2>4
    <3>2. k - 1 \notin B
      BY <2>1, <3>1
    <3>3. PICK w \in [0..(k - 1) -> V] : RunTo(w, p, k - 1, st, v0)
      BY <3>1, <3>2
    <3> HIDE DEF B
    <3> DEFINE u == [i \in 0..k |-> IF i = k THEN st[<<w[k - 1], p[k]>>] ELSE w[i]]
    <3>4. st[<<w[k - 1], p[k]>>] \in V
      <4>1. w[k - 1] \in V /\ p[k] \in C
        BY <1>1, <2>2, <3>1
      <4> QED
        BY <4>1
    <3>5. u \in [0..k -> V]
      <4>1. \A i \in 0..k : i # k => i \in 0..(k - 1)
        BY <2>2
      <4> QED
        BY <3>4, <4>1
    <3>6. RunTo(u, p, k, st, v0)
      <4>1. u[0] = v0
        BY <2>2, <2>4, <3>3 DEF RunTo
      <4>2. ASSUME NEW i \in 1..k PROVE u[i] = st[<<u[i - 1], p[i]>>]
        <5>1. i - 1 \in 0..k /\ i - 1 # k /\ i \in 0..k
          BY <2>2
        <5>2. u[i - 1] = w[i - 1]
          BY <5>1
        <5>3. CASE i = k
          BY <5>1, <5>2, <5>3
        <5>4. CASE i # k
          <6>1. i \in 1..(k - 1) /\ u[i] = w[i]
            BY <2>2, <5>1, <5>4
          <6>2. w[i] = st[<<w[i - 1], p[i]>>]
            BY <3>3, <6>1 DEF RunTo
          <6> QED
            BY <5>2, <6>1, <6>2
        <5> QED
          BY <5>3, <5>4
      <4> HIDE DEF u
      <4> QED
        BY <4>1, <4>2 DEF RunTo
    <3> QED
      BY <2>2, <3>5, <3>6
  <2> QED
    BY <2>3, <2>4
<1>3. Len(p) \in 0..Len(p) /\ Len(p) \notin B
    BY <1>1, <1>2
<1> QED
    BY <1>3

\* The path above a path.
LEMMA ParentOf ==
    ASSUME NEW C, NEW p \in Seq(C), p # <<>>
    PROVE  /\ Parent(p) \in Seq(C) /\ Len(Parent(p)) = Len(p) - 1 /\ Len(p) \in Nat \ {0}
           /\ \A i \in 1..(Len(p) - 1) : Parent(p)[i] = p[i]
           /\ p[Len(p)] \in C
           /\ p = Append(Parent(p), p[Len(p)])
<1>1. Len(p) \in Nat \ {0} /\ \A i \in 1..Len(p) : p[i] \in C
    BY EmptySeq, LenProperties, ElementOfSeq
<1>2. /\ Parent(p) \in Seq(C) /\ Len(Parent(p)) = Len(p) - 1
      /\ \A i \in 1..(Len(p) - 1) : Parent(p)[i] = p[i]
  <2> DEFINE n == Len(p) - 1
  <2>1. n \in Nat /\ \A i \in 1..n : p[i] \in C
    BY <1>1
  <2> HIDE DEF n
  <2>2. /\ SubSeq(p, 1, n) \in Seq(C)
        /\ Len(SubSeq(p, 1, n)) = IF 1 <= n THEN n - 1 + 1 ELSE 0
        /\ \A i \in 1..(n - 1 + 1) : SubSeq(p, 1, n)[i] = p[1 + i - 1]
    BY <2>1, SubSeqProperties
  <2>3. Len(SubSeq(p, 1, n)) = n /\ \A i \in 1..n : SubSeq(p, 1, n)[i] = p[i]
    BY <2>1, <2>2
  <2> QED
    BY <2>2, <2>3 DEF Parent, n
<1>3. p[Len(p)] \in C
    BY <1>1
<1>4. p = Append(Parent(p), p[Len(p)])
  <2> DEFINE q == Append(Parent(p), p[Len(p)])
  <2>1. /\ q \in Seq(C) /\ Len(q) = Len(p)
        /\ \A i \in 1..(Len(p) - 1) : q[i] = p[i]
        /\ q[Len(p)] = p[Len(p)]
    BY <1>1, <1>2, <1>3, AppendProperties
  <2> HIDE DEF q
  <2>2. \A i \in 1..Len(p) : p[i] = q[i]
    BY <1>1, <2>1
  <2>3. p = q
    BY <2>1, <2>2, SeqEqual
  <2> QED
    BY <2>3 DEF q
<1> QED
    BY <1>1, <1>2, <1>3, <1>4

\* A function of sequences that gives each the step from the one before.
Follows(g, st, v0, C) ==
    /\ g[<<>>] = v0
    /\ \A p \in Seq(C) : p # <<>> => g[p] = st[<<g[Parent(p)], p[Len(p)]>>]

\* There is one.
LEMMA FollowerExists ==
    ASSUME NEW V, NEW C, NEW st \in [V \X C -> V], NEW v0 \in V
    PROVE  \E g \in [Seq(C) -> V] : Follows(g, st, v0, C)
<1> DEFINE run(p) == CHOOSE u \in [0..Len(p) -> V] : RunTo(u, p, Len(p), st, v0)
           g == [p \in Seq(C) |-> run(p)[Len(p)]]
<1>1. ASSUME NEW p \in Seq(C)
      PROVE  run(p) \in [0..Len(p) -> V] /\ RunTo(run(p), p, Len(p), st, v0)
    BY RunExists
<1> HIDE DEF run
<1>2. ASSUME NEW p \in Seq(C) PROVE g[p] \in V
  <2>1. Len(p) \in Nat
    BY LenProperties
  <2>2. Len(p) \in 0..Len(p) /\ run(p) \in [0..Len(p) -> V]
    BY <1>1, <2>1
  <2> QED
    BY <2>2
<1>3. g[<<>>] = v0
  <2>1. <<>> \in Seq(C) /\ Len(<<>>) = 0
    BY EmptySeq
  <2>2. run(<<>>)[0] = v0
    BY <1>1, <2>1 DEF RunTo
  <2> QED
    BY <2>1, <2>2
<1>4. ASSUME NEW p \in Seq(C), p # <<>> PROVE g[p] = st[<<g[Parent(p)], p[Len(p)]>>]
  <2> DEFINE k == Len(p) - 1
  <2>1. /\ Parent(p) \in Seq(C) /\ Len(Parent(p)) = k /\ Len(p) \in Nat \ {0}
        /\ \A i \in 1..k : Parent(p)[i] = p[i]
    BY <1>4, ParentOf
  <2>2. k \in Nat /\ Len(p) \in 1..Len(p)
    BY <2>1
  <2>3. RunTo(run(p), p, Len(p), st, v0) /\ RunTo(run(Parent(p)), Parent(p), k, st, v0)
    BY <1>1, <2>1
  <2>4. RunTo(run(p), p, k, st, v0)
    BY <2>2, <2>3 DEF RunTo
  <2>5. \A i \in 0..k : run(p)[i] = run(Parent(p))[i]
    <3>1. k \in Nat /\ \A i \in 1..k : p[i] = Parent(p)[i]
      BY <2>1, <2>2
    <3> HIDE DEF k
    <3>2. PICK u, w, q : u = run(p) /\ w = run(Parent(p)) /\ q = Parent(p)
      OBVIOUS
    <3>3. RunTo(u, p, k, st, v0) /\ RunTo(w, q, k, st, v0)
      BY <2>3, <2>4, <3>2
    <3>4. k \in Nat /\ \A i \in 1..k : p[i] = q[i]
      BY <3>1, <3>2
    <3>5. \A i \in 0..k : u[i] = w[i]
      BY ONLY <3>3, <3>4, RunUnique
    <3> QED
      BY <3>2, <3>5
  <2>6. run(p)[k] = run(Parent(p))[k]
    BY <2>2, <2>5
  <2>7. run(p)[Len(p)] = st[<<run(p)[k], p[Len(p)]>>]
    BY <2>2, <2>3 DEF RunTo
  <2>8. g[p] = run(p)[Len(p)] /\ g[Parent(p)] = run(Parent(p))[k]
    BY <2>1
  <2> QED
    BY <2>6, <2>7, <2>8
<1>5. g \in [Seq(C) -> V]
    BY <1>2
<1> HIDE DEF g
<1> QED
    BY <1>3, <1>4, <1>5 DEF Follows

\* A name is a sequence of letters.
LEMMA NameType ==
    ASSUME NEW p \in Seq(Seq(Nat))
    PROVE  Name(p) \in Seq(Nat)
<1> DEFINE n == Len(p)
           step(h) == [i \in 1..n |-> IF i = 1 THEN p[i] ELSE h[i - 1] \o p[i]]
           flatten == CHOOSE h : h = step(h)
<1>1. n \in Nat /\ \A i \in 1..n : p[i] \in Seq(Nat)
    BY LenProperties, ElementOfSeq
<1>2. CASE n = 0
  <2>1. p = <<>>
    BY <1>2, EmptySeq
  <2> QED
    BY <1>2, <2>1, EmptySeq DEF Name, FlattenSeq
<1>3. CASE n # 0
  <2>1. Name(p) = flatten[n]
    BY <1>3 DEF Name, FlattenSeq
  <2> DEFINE st == [x \in Seq(Nat) \X Seq(Nat) |-> x[1] \o x[2]]
  <2>2. st \in [Seq(Nat) \X Seq(Nat) -> Seq(Nat)]
    BY ConcatProperties
  <2>3. \A s, t \in Seq(Nat) : st[<<s, t>>] = s \o t
    OBVIOUS
  <2> HIDE DEF st, n
  <2>4. PICK u \in [0..n -> Seq(Nat)] : RunTo(u, p, n, st, <<>>)
    BY <2>2, EmptySeq, RunExists DEF n
  <2>5. ASSUME NEW i \in 1..n
        PROVE  u[i] = IF i = 1 THEN p[i] ELSE u[i - 1] \o p[i]
    <3>1. i - 1 \in 0..n /\ u[i - 1] \in Seq(Nat) /\ p[i] \in Seq(Nat)
      BY <1>1, <2>4
    <3>2. u[i] = u[i - 1] \o p[i]
      BY <2>3, <2>4, <3>1 DEF RunTo
    <3>3. u[0] = <<>> /\ <<>> \o p[i] = p[i]
      BY <2>4, <3>1, ConcatEmptySeq DEF RunTo
    <3>4. i = 1 => u[i] = p[i]
      <4>1. i = 1 => i - 1 = 0
        OBVIOUS
      <4> QED
        BY <3>2, <3>3, <4>1
    <3> QED
      BY <3>2, <3>4
  <2> DEFINE g == [i \in 1..n |-> u[i]]
  <2>6. g = step(g)
    <3>1. ASSUME NEW i \in 1..n PROVE g[i] = IF i = 1 THEN p[i] ELSE g[i - 1] \o p[i]
      <4>1. i # 1 => i - 1 \in 1..n
        BY <1>1
      <4> QED
        BY <2>5, <4>1
    <3> QED
      BY <3>1
  <2>7. flatten = step(flatten)
    <3>1. \E h : h = step(h)
      BY <2>6, Zenon
    <3> QED
      BY <3>1, Zenon
  <2> HIDE DEF flatten, g
  <2>8. \A i \in 1..n : flatten[i] = IF i = 1 THEN p[i] ELSE flatten[i - 1] \o p[i]
    BY <2>7
  <2> HIDE DEF step
  <2> DEFINE B == {i \in 1..n : flatten[i] \notin Seq(Nat)}
  <2>9. ASSUME B # {} PROVE FALSE
    <3>1. PICK i \in B : \A j \in B : i <= j
      <4>1. B \subseteq Nat
        BY <1>1
      <4> HIDE DEF B
      <4> QED
        BY <2>9, <4>1, LeastOf
    <3>2. i \in 1..n /\ flatten[i] \notin Seq(Nat) /\ p[i] \in Seq(Nat)
      BY <1>1, <3>1
    <3>3. CASE i = 1
      BY <2>8, <3>2, <3>3
    <3>4. CASE i # 1
      <4>1. i - 1 \in 1..n /\ ~(i <= i - 1)
        BY <1>1, <3>2, <3>4
      <4>2. flatten[i - 1] \in Seq(Nat)
        BY <3>1, <4>1
      <4>3. flatten[i] = flatten[i - 1] \o p[i]
        BY <2>8, <3>2, <3>4
      <4> QED
        BY <3>2, <4>2, <4>3, ConcatProperties
    <3> QED
      BY <3>3, <3>4
  <2>10. B = {} /\ n \in 1..n
    <3> HIDE DEF B
    <3> QED
      BY <1>1, <1>3, <2>9
  <2> QED
    BY <2>1, <2>10
<1> QED
    BY <1>2, <1>3

\* Names that are equal are ordered by their places.
LEMMA PlacesOrdered ==
    ASSUME NEW n \in Nat, NEW nm, \A i \in 1..n : nm[i] \in Seq(Nat), NEW R,
           \A i, j \in 1..n : <<i, j>> \in R <=>
               \/ <<nm[i], nm[j]>> \in NameOrder
               \/ nm[i] = nm[j] /\ i < j
    PROVE  Orders(R, 1..n)
<1>1. /\ \A a \in Seq(Nat) : <<a, a>> \notin NameOrder
      /\ \A a, b \in Seq(Nat) : a # b => <<a, b>> \in NameOrder \/ <<b, a>> \in NameOrder
      /\ \A a, b, c \in Seq(Nat) :
            <<a, b>> \in NameOrder /\ <<b, c>> \in NameOrder => <<a, c>> \in NameOrder
    BY NamesOrdered DEF Orders, Irreflexive, Transitive, Total
<1>2. Irreflexive(R, 1..n)
  <2> SUFFICES ASSUME NEW i \in 1..n, <<i, i>> \in R PROVE FALSE
    BY DEF Irreflexive
  <2>1. nm[i] \in Seq(Nat) /\ ~(i < i)
    OBVIOUS
  <2> QED
    BY <1>1, <2>1
<1>3. Total(R, 1..n)
  <2> SUFFICES ASSUME NEW i \in 1..n, NEW j \in 1..n, i # j
               PROVE  <<i, j>> \in R \/ <<j, i>> \in R
    BY DEF Total
  <2>1. i < j \/ j < i
    OBVIOUS
  <2> QED
    BY <1>1, <2>1
<1>4. Transitive(R, 1..n)
  <2> SUFFICES ASSUME NEW i \in 1..n, NEW j \in 1..n, NEW k \in 1..n,
                      <<i, j>> \in R, <<j, k>> \in R
               PROVE  <<i, k>> \in R
    BY DEF Transitive
  <2>1. i < j /\ j < k => i < k
    OBVIOUS
  <2>2. nm[i] \in Seq(Nat) /\ nm[j] \in Seq(Nat) /\ nm[k] \in Seq(Nat)
    OBVIOUS
  <2> QED
    BY <1>1, <2>1, <2>2
<1> QED
    BY <1>2, <1>3, <1>4 DEF Orders

\* The sorted paths are the collected ones, each from its own place, by name
\* and then by place.
LEMMA SortedPlaces ==
    ASSUME NEW ps \in Seq(Seq(Seq(Nat)))
    PROVE  \E order \in [1..Len(ps) -> 1..Len(ps)] :
              /\ SortedByName(ps) = [i \in 1..Len(ps) |-> ps[order[i]]]
              /\ \A i, j \in 1..Len(ps) : i < j =>
                   \/ <<Name(ps[order[i]]), Name(ps[order[j]])>> \in NameOrder
                   \/ Name(ps[order[i]]) = Name(ps[order[j]]) /\ order[i] < order[j]
              /\ \A i, j \in 1..Len(ps) : order[i] = order[j] => i = j
              /\ \A k \in 1..Len(ps) : \E i \in 1..Len(ps) : order[i] = k
<1> DEFINE n == Len(ps)
           before(i, j) == Less(Name(ps[i]), Name(ps[j])) \/ (Name(ps[i]) = Name(ps[j]) /\ i < j)
           R == {x \in (1..n) \X (1..n) : before(x[1], x[2])}
           order == Sorted(1..n, LAMBDA i, j : before(i, j))
<1>1. n \in Nat /\ \A i \in 1..n : Name(ps[i]) \in Seq(Nat)
    BY LenProperties, ElementOfSeq, NameType
<1>2. IsFiniteSet(1..n) /\ Cardinality(1..n) = n
  <2> HIDE DEF n
  <2>1. n \in Int /\ 1 \in Int /\ (1 > n => n = 0) /\ (~(1 > n) => n - 1 + 1 = n)
    BY <1>1
  <2> QED
    BY <2>1, FS_Interval
<1>3. /\ Orders(R, 1..n)
      /\ \A i, j \in 1..n : before(i, j) <=>
          \/ <<Name(ps[i]), Name(ps[j])>> \in NameOrder
          \/ Name(ps[i]) = Name(ps[j]) /\ i < j
  <2>1. \A i, j \in 1..n : before(i, j) <=>
          \/ <<Name(ps[i]), Name(ps[j])>> \in NameOrder
          \/ Name(ps[i]) = Name(ps[j]) /\ i < j
    BY <1>1, NamesOrdered
  <2>2. PICK nm : nm = [i \in 1..n |-> Name(ps[i])]
    OBVIOUS
  <2>3. \A i \in 1..n : nm[i] \in Seq(Nat)
    BY <1>1, <2>2
  <2>4. \A i, j \in 1..n : <<i, j>> \in R <=>
          \/ <<nm[i], nm[j]>> \in NameOrder
          \/ nm[i] = nm[j] /\ i < j
    BY <2>1, <2>2
  <2> HIDE DEF R, before, n
  <2> QED
    BY <1>1, <2>1, <2>3, <2>4, PlacesOrdered
<1>4. PICK s : Lists(s, 1..n, R)
    BY <1>2, <1>3, Listable
<1>5. s \in [1..Cardinality(1..n) -> 1..n] /\ \A i, j \in DOMAIN s : i < j => before(s[i], s[j])
    BY <1>2, <1>4 DEF Lists
<1> HIDE DEF before
<1>6. /\ order \in [1..Cardinality(1..n) -> 1..n]
      /\ \A i, j \in DOMAIN order : i < j => before(order[i], order[j])
    BY <1>5 DEF Sorted
<1>7. SortedByName(ps) = [i \in 1..n |-> ps[order[i]]]
    BY DEF SortedByName, before
<1> HIDE DEF order, n
<1>8. order \in [1..n -> 1..n]
    BY <1>2, <1>6
<1>9. \A i, j \in 1..n : i < j => before(order[i], order[j]) /\ <<order[i], order[j]>> \in R
    BY <1>6, <1>8
<1>10. Lists(order, 1..n, R)
    BY <1>2, <1>8, <1>9 DEF Lists
<1> HIDE DEF R
<1>11. /\ \A k \in 1..n : \E i \in 1..n : order[i] = k
       /\ \A i, j \in 1..n : order[i] = order[j] => i = j
  <2>1. PICK S : S = 1..n
    OBVIOUS
  <2>2. IsFiniteSet(S) /\ Cardinality(S) = n /\ Irreflexive(R, S) /\ Lists(order, S, R)
    BY <1>2, <1>3, <1>10, <2>1 DEF Orders
  <2>3. /\ \A k \in S : \E i \in 1..n : order[i] = k
        /\ \A i, j \in 1..n : order[i] = order[j] => i = j
    BY <2>2, ListsAll
  <2> QED
    BY <2>1, <2>3
<1>12. \A i, j \in 1..n : i < j =>
          \/ <<Name(ps[order[i]]), Name(ps[order[j]])>> \in NameOrder
          \/ Name(ps[order[i]]) = Name(ps[order[j]]) /\ order[i] < order[j]
    BY <1>3, <1>8, <1>9
<1> QED
    BY <1>7, <1>8, <1>11, <1>12 DEF n

\* The sorted paths are the collected ones.
LEMMA SortedNames ==
    ASSUME NEW ps \in Seq(Seq(Seq(Nat)))
    PROVE  /\ DOMAIN SortedByName(ps) = 1..Len(ps)
           /\ \A i \in 1..Len(ps) : \E j \in 1..Len(ps) : SortedByName(ps)[i] = ps[j]
<1>1. PICK order \in [1..Len(ps) -> 1..Len(ps)] :
        SortedByName(ps) = [i \in 1..Len(ps) |-> ps[order[i]]]
    BY SortedPlaces
<1> QED
    BY <1>1

\* The elements at the beginning of a sequence.
LEMMA PrefixElements ==
    ASSUME NEW C, NEW s, NEW k \in Nat, \A i \in 1..k : s[i] \in C
    PROVE  /\ SubSeq(s, 1, k) \in Seq(C) /\ Len(SubSeq(s, 1, k)) = k
           /\ \A i \in 1..k : SubSeq(s, 1, k)[i] = s[i]
<1>1. /\ SubSeq(s, 1, k) \in Seq(C)
      /\ Len(SubSeq(s, 1, k)) = IF 1 <= k THEN k - 1 + 1 ELSE 0
      /\ \A i \in 1..(k - 1 + 1) : SubSeq(s, 1, k)[i] = s[1 + i - 1]
    BY SubSeqProperties
<1>2. Len(SubSeq(s, 1, k)) = k /\ \A i \in 1..k : SubSeq(s, 1, k)[i] = s[i]
    BY <1>1
<1> QED
    BY <1>1, <1>2

\* The beginnings of two sequences that agree there.
LEMMA SamePrefix ==
    ASSUME NEW C, NEW p \in Seq(C), NEW q \in Seq(C), NEW k \in Nat,
           k <= Len(p), k <= Len(q), \A i \in 1..k : q[i] = p[i]
    PROVE  SubSeq(q, 1, k) = SubSeq(p, 1, k)
<1>1. \A i \in 1..k : p[i] \in C /\ q[i] \in C
  <2>1. Len(p) \in Nat /\ Len(q) \in Nat
    BY LenProperties
  <2> QED
    BY <2>1, ElementOfSeq
<1> DEFINE a == SubSeq(q, 1, k)
           b == SubSeq(p, 1, k)
<1>2. /\ a \in Seq(C) /\ Len(a) = k /\ \A i \in 1..k : a[i] = q[i]
      /\ b \in Seq(C) /\ Len(b) = k /\ \A i \in 1..k : b[i] = p[i]
    BY <1>1, PrefixElements
<1> HIDE DEF a, b
<1>3. a = b
    BY <1>2, SeqEqual
<1> QED
    BY <1>3 DEF a, b

\* The whole of a sequence.
LEMMA WholePrefix ==
    ASSUME NEW C, NEW p \in Seq(C)
    PROVE  SubSeq(p, 1, Len(p)) = p
<1> DEFINE a == SubSeq(p, 1, Len(p))
<1>0. Len(p) \in Nat
    BY LenProperties
<1>1. \A i \in 1..Len(p) : p[i] \in C
    BY ElementOfSeq
<1>2. a \in Seq(C) /\ Len(a) = Len(p) /\ \A i \in 1..Len(p) : a[i] = p[i]
    BY <1>0, <1>1, PrefixElements
<1> HIDE DEF a
<1>3. a = p
    BY <1>2, SeqEqual
<1> QED
    BY <1>3 DEF a

-----------------------------------------------------------------------------
(* Paths and what they lead to *)

\* The file systems that a state can have.
FileSystems == [Paths \cup OutsidePaths -> Nodes \cup {Dir, File(0)}]

\* A path to something that is no link, through directories that are none.
Real(f, p) ==
    /\ p \in Seq(Components)
    /\ \A k \in 0..(Len(p) - 1) : NodeAt(f, SubSeq(p, 1, k)) = Dir
    /\ NodeAt(f, p).kind \in {"file", "dir", "special"}
Reals(f) == {p \in Seq(Components) : Real(f, p)}

\* Where the component c leads from the place up: to what is there, or where
\* the link there leads.
Lead(f, follow, up, c) ==
    IF up = None THEN None
    ELSE IF NodeAt(f, up) # Dir \/ NodeAt(f, Append(up, c)) = Absent THEN None
    ELSE IF f[Append(up, c)].kind # "link" THEN Append(up, c)
    ELSE follow[f[Append(up, c)].to]

\* The paths of the model are made of components.
LEMMA PathsTyped ==
    /\ Components \subseteq Seq(Nat)
    /\ \A p \in Paths \cup OutsidePaths : p \in Seq(Components) /\ p # <<>>
    /\ Seq(Components) \subseteq Seq(Seq(Nat))
    /\ None \notin Seq(Components)
<1>1. ASSUME NEW p \in Paths \cup OutsidePaths
      PROVE  /\ p \in Seq(Seq(Nat)) /\ p # <<>> /\ Range(p) \subseteq Seq(Nat)
             /\ p \in Seq(Components)
  <2>1. p \in Seq(Seq(Nat)) /\ p # <<>>
    BY PathsAssumption
  <2>2. Range(p) = {p[i] : i \in 1..Len(p)}
    BY <2>1, LenProperties DEF Range
  <2>3. \A i \in 1..Len(p) : p[i] \in Seq(Nat)
    BY <2>1, ElementOfSeq
  <2>4. \A i \in 1..Len(p) : p[i] \in Components
    BY <2>2 DEF Components
  <2>5. p \in Seq(Components)
    <3>1. Len(p) \in Nat /\ p = [i \in 1..Len(p) |-> p[i]]
      BY <2>1, LenProperties
    <3>2. [i \in 1..Len(p) |-> p[i]] \in Seq(Components)
      BY <2>4, <3>1, IsASeq
    <3> QED
      BY <3>1, <3>2
  <2> QED
    BY <2>1, <2>2, <2>3, <2>5
<1>2. Components \subseteq Seq(Nat)
    BY <1>1 DEF Components
<1>3. ASSUME NEW p \in Seq(Components) PROVE p \in Seq(Seq(Nat))
  <2>1. Len(p) \in Nat /\ \A i \in 1..Len(p) : p[i] \in Seq(Nat)
    BY <1>2, LenProperties, ElementOfSeq
  <2>2. [i \in 1..Len(p) |-> p[i]] \in Seq(Seq(Nat))
    BY <2>1, IsASeq
  <2>3. p = [i \in 1..Len(p) |-> p[i]]
    BY LenProperties
  <2> QED
    BY <2>2, <2>3
<1> QED
    BY <1>1, <1>2, <1>3, NoneAssumption

\* What can be at a path.
LEMMA NodesTyped ==
    ASSUME NEW f \in FileSystems, NEW p
    PROVE  /\ NodeAt(f, p) \in Nodes \cup {Dir, Absent, File(0)}
           /\ NodeAt(f, p).kind \in {"file", "dir", "special", "link", "absent"}
           /\ NodeAt(f, p).kind = "dir" <=> NodeAt(f, p) = Dir
           /\ NodeAt(f, p).kind = "absent" <=> NodeAt(f, p) = Absent
           /\ NodeAt(f, p).kind = "file" => NodeAt(f, p).content \in Contents
           /\ NodeAt(f, p).kind = "link" => NodeAt(f, p).to \in Paths \cup OutsidePaths
           /\ NodeAt(f, p) # Absent /\ p # <<>> => p \in DOMAIN f /\ NodeAt(f, p) = f[p]
<1>1. NodeAt(f, p) \in Nodes \cup {Dir, Absent, File(0)}
    BY DEF NodeAt, FileSystems
<1>2. NodeAt(f, p) # Absent /\ p # <<>> => p \in DOMAIN f /\ NodeAt(f, p) = f[p]
    BY DEF NodeAt
<1> DEFINE x == NodeAt(f, p)
<1> HIDE DEF x
<1>3. x \in Nodes \cup {Dir, Absent, File(0)}
    BY <1>1 DEF x
<1>4. \/ x = Absent \/ x = Dir \/ x = Special
      \/ \E c \in Contents : x = File(c)
      \/ \E q \in Paths \cup OutsidePaths : x = Link(q)
    BY <1>3, NodesAssumption
<1>5. /\ x.kind \in {"file", "dir", "special", "link", "absent"}
      /\ x.kind = "dir" <=> x = Dir
      /\ x.kind = "absent" <=> x = Absent
      /\ x.kind = "file" => x.content \in Contents
      /\ x.kind = "link" => x.to \in Paths \cup OutsidePaths
    BY <1>4 DEF Absent, Dir, Special, File, Link
<1> QED
    BY <1>1, <1>2, <1>5 DEF x

\* Where a component leads from a real path is a real path, if what its link
\* leads to is.
LEMMA LeadReal ==
    ASSUME NEW f \in FileSystems,
           NEW follow \in [Seq(Components) -> Reals(f) \cup {None}],
           NEW up \in Reals(f) \cup {None}, NEW c \in Components
    PROVE  Lead(f, follow, up, c) \in Reals(f) \cup {None}
<1> DEFINE q == Append(up, c)
<1>1. CASE up = None \/ NodeAt(f, up) # Dir \/ NodeAt(f, q) = Absent
    BY <1>1 DEF Lead
<1>2. CASE up # None /\ NodeAt(f, up) = Dir /\ NodeAt(f, q) # Absent
  <2>1. up \in Seq(Components) /\ Real(f, up)
    BY <1>2 DEF Reals
  <2>2. q \in Seq(Components) /\ q # <<>> /\ Len(q) = Len(up) + 1 /\ Len(up) \in Nat
    BY <2>1, AppendProperties, LenProperties
  <2>3. \A i \in 1..Len(up) : q[i] = up[i]
    BY <2>1, AppendProperties
  <2> HIDE DEF q
  <2>4. f[q] = NodeAt(f, q)
    BY <1>2, <2>2, NodesTyped
  <2>5. CASE f[q].kind # "link"
    <3>1. ASSUME NEW k \in 0..(Len(q) - 1) PROVE NodeAt(f, SubSeq(q, 1, k)) = Dir
      <4>1. k \in 0..Len(up) /\ k \in Nat
        BY <2>2
      <4>2. SubSeq(q, 1, k) = SubSeq(up, 1, k)
        BY <2>1, <2>2, <2>3, <4>1, SamePrefix
      <4>3. CASE k = Len(up)
        BY <1>2, <2>1, <4>2, <4>3, WholePrefix
      <4>4. CASE k # Len(up)
        <5>1. k \in 0..(Len(up) - 1)
          BY <2>2, <4>1, <4>4
        <5>2. NodeAt(f, SubSeq(up, 1, k)) = Dir
          BY <2>1, <5>1 DEF Real
        <5> QED
          BY <4>2, <5>2
      <4> QED
        BY <4>3, <4>4
    <3>2. NodeAt(f, q).kind \in {"file", "dir", "special"}
      BY <1>2, <2>4, <2>5, NodesTyped
    <3>3. Real(f, q)
      BY <2>2, <3>1, <3>2 DEF Real
    <3> QED
      BY <1>2, <2>2, <2>5, <3>3 DEF Lead, Reals, q
  <2>6. CASE f[q].kind = "link"
    <3>1. f[q].to \in Seq(Components)
      BY <2>4, <2>6, NodesTyped, PathsTyped
    <3>2. Lead(f, follow, up, c) = follow[f[q].to]
      BY <1>2, <2>6 DEF Lead, q
    <3> QED
      BY <3>1, <3>2
  <2> QED
    BY <2>5, <2>6
<1> QED
    BY <1>1, <1>2

\* Following at most n links: a function that resolves every path.
Resolves(f, g, follow) ==
    /\ g \in [Seq(Components) -> Reals(f) \cup {None}]
    /\ g[<<>>] = <<>>
    /\ \A p \in Seq(Components) :
          p # <<>> => g[p] = Lead(f, follow, g[Parent(p)], p[Len(p)])

\* The empty path is real.
LEMMA RootReal ==
    ASSUME NEW f PROVE <<>> \in Reals(f)
<1>1. <<>> \in Seq(Components) /\ Len(<<>>) = 0
    BY EmptySeq
<1>2. NodeAt(f, <<>>).kind = "dir"
    BY DEF NodeAt, Dir
<1> QED
    BY <1>1, <1>2 DEF Reals, Real

\* There is one, for whatever the links lead to.
LEMMA ResolverExists ==
    ASSUME NEW f \in FileSystems, NEW follow \in [Seq(Components) -> Reals(f) \cup {None}]
    PROVE  \E g : Resolves(f, g, follow)
<1> DEFINE V == Reals(f) \cup {None}
           st == [x \in V \X Components |-> Lead(f, follow, x[1], x[2])]
<1>1. st \in [V \X Components -> V]
    BY LeadReal
<1>2. <<>> \in V
    BY RootReal
<1>3. \A up \in V, c \in Components : st[<<up, c>>] = Lead(f, follow, up, c)
    OBVIOUS
<1> HIDE DEF V, st
<1>4. PICK g \in [Seq(Components) -> V] : Follows(g, st, <<>>, Components)
    BY <1>1, <1>2, FollowerExists
<1>5. ASSUME NEW p \in Seq(Components), p # <<>>
      PROVE  g[p] = Lead(f, follow, g[Parent(p)], p[Len(p)])
  <2>1. Parent(p) \in Seq(Components) /\ p[Len(p)] \in Components
    BY <1>5, ParentOf
  <2> QED
    BY <1>3, <1>4, <1>5, <2>1 DEF Follows
<1> QED
    BY <1>4, <1>5 DEF Follows, Resolves, V

\* Resolving with no link left, and with one more than before.
Levels(f, lev) ==
    /\ lev \in [Nat -> [Seq(Components) -> Reals(f) \cup {None}]]
    /\ Resolves(f, lev[0], [p \in Seq(Components) |-> None])
    /\ \A n \in Nat : Resolves(f, lev[n + 1], lev[n])

\* There is such a sequence of resolving functions.
LEMMA LevelsExist ==
    ASSUME NEW f \in FileSystems
    PROVE  \E lev : Levels(f, lev)
<1> DEFINE V == [Seq(Components) -> Reals(f) \cup {None}]
           none == [p \in Seq(Components) |-> None]
           more(g) == CHOOSE x : Resolves(f, x, g)
           st == [x \in V \X {0} |-> more(x[1])]
           zeros(n) == [i \in 1..n |-> 0]
<1>1. none \in V
    OBVIOUS
<1>2. ASSUME NEW g \in V PROVE Resolves(f, more(g), g) /\ more(g) \in V
  <2>1. \E x : Resolves(f, x, g)
    BY ResolverExists
  <2>2. Resolves(f, more(g), g)
    BY <2>1, Zenon
  <2> QED
    BY <2>2 DEF Resolves
<1> HIDE DEF more, none
<1>3. st \in [V \X {0} -> V]
  <2> HIDE DEF V
  <2> QED
    BY <1>2
<1>4. \A g \in V : st[<<g, 0>>] = more(g)
  <2> HIDE DEF V
  <2> QED
    OBVIOUS
<1> HIDE DEF V, st
<1>5. PICK u \in [Seq({0}) -> V] : Follows(u, st, more(none), {0})
    BY <1>1, <1>2, <1>3, FollowerExists
<1>6. ASSUME NEW n \in Nat
      PROVE  /\ zeros(n) \in Seq({0}) /\ Len(zeros(n)) = n
             /\ \A i \in 1..n : zeros(n)[i] = 0
    BY IsASeq
<1>7. zeros(0) = <<>>
    BY <1>6, EmptySeq
<1>8. ASSUME NEW n \in Nat
      PROVE  zeros(n + 1) # <<>> /\ Parent(zeros(n + 1)) = zeros(n) /\ zeros(n + 1)[n + 1] = 0
  <2>1. n + 1 \in Nat /\ n + 1 \in 1..(n + 1) /\ (n + 1) - 1 = n
    OBVIOUS
  <2>2. zeros(n + 1) \in Seq({0}) /\ Len(zeros(n + 1)) = n + 1 /\ zeros(n + 1)[n + 1] = 0
    BY <1>6, <2>1
  <2>3. zeros(n + 1) # <<>>
    BY <2>1, <2>2, EmptySeq
  <2>4. /\ Parent(zeros(n + 1)) \in Seq({0}) /\ Len(Parent(zeros(n + 1))) = n
        /\ \A i \in 1..n : Parent(zeros(n + 1))[i] = zeros(n + 1)[i]
    <3> HIDE DEF zeros
    <3> QED
      BY <2>1, <2>2, <2>3, ParentOf
  <2>5. \A i \in 1..n : zeros(n + 1)[i] = zeros(n)[i]
    BY <1>6, <2>1
  <2>6. zeros(n) \in Seq({0}) /\ Len(zeros(n)) = n
    BY <1>6
  <2>7. Parent(zeros(n + 1)) = zeros(n)
    <3> HIDE DEF zeros
    <3> QED
      BY <2>4, <2>5, <2>6, SeqEqual
  <2> QED
    BY <2>2, <2>3, <2>7
<1> DEFINE lev == [n \in Nat |-> u[zeros(n)]]
<1>9. \A n \in Nat : lev[n] = u[zeros(n)] /\ lev[n] \in V
  <2> HIDE DEF zeros
  <2> QED
    BY <1>5, <1>6
<1>10. lev[0] = more(none)
  <2>1. lev[0] = u[zeros(0)]
    BY <1>9
  <2> QED
    BY <1>5, <1>7, <2>1 DEF Follows
<1>11. ASSUME NEW n \in Nat PROVE lev[n + 1] = more(lev[n])
  <2>1. n + 1 \in Nat
    OBVIOUS
  <2>2. zeros(n + 1) \in Seq({0}) /\ Len(zeros(n + 1)) = n + 1
    BY <1>6, <2>1
  <2>3. u[zeros(n + 1)] = st[<<u[zeros(n)], 0>>]
    <3> HIDE DEF zeros
    <3> QED
      BY <1>5, <1>8, <2>2 DEF Follows
  <2>4. lev[n] = u[zeros(n)] /\ lev[n] \in V /\ lev[n + 1] = u[zeros(n + 1)]
    BY <1>9, <2>1
  <2> HIDE DEF lev, zeros
  <2> QED
    BY <1>4, <2>3, <2>4
<1>12. lev \in [Nat -> V]
  <2>1. lev = [n \in Nat |-> lev[n]]
    OBVIOUS
  <2> HIDE DEF lev
  <2> QED
    BY <1>9, <2>1
<1> HIDE DEF lev, zeros
<1>13. Resolves(f, lev[0], none)
    BY <1>1, <1>2, <1>10
<1>14. \A n \in Nat : Resolves(f, lev[n + 1], lev[n])
    BY <1>2, <1>9, <1>11
<1> QED
    BY <1>12, <1>13, <1>14 DEF Levels, V, none

\* What a resolving function gives for n links and a path.
Given(f, h, n, p) ==
    LET up == h[<<n, Parent(p)>>]
        q == Append(up, p[Len(p)])
    IN  IF p = <<>> THEN <<>>
        ELSE IF up = None THEN None
        ELSE IF NodeAt(f, up) # Dir \/ NodeAt(f, q) = Absent THEN None
        ELSE IF f[q].kind # "link" THEN q
        ELSE IF n = 0 THEN None
        ELSE h[<<n - 1, f[q].to>>]
Fixpoint(f, h) ==
    \A n \in 0..MaxLinks, p \in Seq(Components) : h[<<n, p>>] = Given(f, h, n, p)

\* There is one, and what it gives is real or None.
LEMMA FixpointExists ==
    ASSUME NEW f \in FileSystems
    PROVE  \E h : /\ h \in [(0..MaxLinks) \X Seq(Components) -> Reals(f) \cup {None}]
                  /\ Fixpoint(f, h)
<1>1. PICK lev : Levels(f, lev)
    BY LevelsExist
<1> DEFINE V == Reals(f) \cup {None}
           h == [x \in (0..MaxLinks) \X Seq(Components) |-> lev[x[1]][x[2]]]
<1>2. \A n \in 0..MaxLinks : n \in Nat /\ lev[n] \in [Seq(Components) -> V]
    BY <1>1, BoundsAssumption DEF Levels
<1>3. h \in [(0..MaxLinks) \X Seq(Components) -> V]
  <2> HIDE DEF V
  <2> QED
    BY <1>2
<1>4. \A n \in 0..MaxLinks, p \in Seq(Components) : h[<<n, p>>] = lev[n][p]
    OBVIOUS
<1> HIDE DEF h
<1>5. ASSUME NEW n \in 0..MaxLinks, NEW p \in Seq(Components), NEW g, NEW fo,
             Resolves(f, g, fo),
             \A r \in Seq(Components) : h[<<n, r>>] = g[r],
             \A r \in Seq(Components) :
                fo[r] = IF n = 0 THEN None ELSE h[<<n - 1, r>>]
      PROVE  h[<<n, p>>] = Given(f, h, n, p)
  <2>1. CASE p = <<>>
    BY <1>5, <2>1 DEF Given, Resolves
  <2>2. CASE p # <<>>
    <3>1. Parent(p) \in Seq(Components) /\ p[Len(p)] \in Components
      BY <2>2, ParentOf
    <3> DEFINE up == g[Parent(p)]
               q == Append(up, p[Len(p)])
    <3>2. h[<<n, Parent(p)>>] = up /\ up \in Reals(f) \cup {None}
      BY <1>5, <3>1 DEF Resolves
    <3>3. h[<<n, p>>] = Lead(f, fo, up, p[Len(p)])
      BY <1>5, <2>2 DEF Resolves
    <3>4. CASE up = None \/ NodeAt(f, up) # Dir \/ NodeAt(f, q) = Absent
      BY <2>2, <3>2, <3>3, <3>4 DEF Given, Lead
    <3>5. CASE up # None /\ NodeAt(f, up) = Dir /\ NodeAt(f, q) # Absent
      <4>1. up \in Seq(Components)
        BY <3>2, <3>5 DEF Reals
      <4>2. q # <<>>
        BY <3>1, <4>1, AppendProperties
      <4>3. f[q] = NodeAt(f, q)
        BY <3>5, <4>2, NodesTyped
      <4>4. f[q].kind = "link" => f[q].to \in Seq(Components)
        BY <4>3, NodesTyped, PathsTyped
      <4>5. f[q].kind = "link" =>
              fo[f[q].to] = IF n = 0 THEN None ELSE h[<<n - 1, f[q].to>>]
        BY <1>5, <4>4
      <4> QED
        BY <2>2, <3>2, <3>3, <3>5, <4>5 DEF Given, Lead
    <3> QED
      BY <3>4, <3>5
  <2> QED
    BY <2>1, <2>2
<1>6. ASSUME NEW n \in 0..MaxLinks, NEW p \in Seq(Components), n = 0
      PROVE  h[<<n, p>>] = Given(f, h, n, p)
  <2> DEFINE fo == [r \in Seq(Components) |-> None]
  <2>1. \A r \in Seq(Components) : fo[r] = IF n = 0 THEN None ELSE h[<<n - 1, r>>]
    BY <1>6
  <2>2. Resolves(f, lev[0], fo)
    BY <1>1 DEF Levels
  <2> HIDE DEF fo
  <2>3. \A r \in Seq(Components) : h[<<n, r>>] = lev[0][r]
    BY <1>4, <1>6
  <2> QED
    BY <1>5, <2>1, <2>2, <2>3
<1>7. ASSUME NEW n \in 0..MaxLinks, NEW p \in Seq(Components), n # 0
      PROVE  h[<<n, p>>] = Given(f, h, n, p)
  <2>1. PICK k \in Nat : k = n - 1 /\ n = k + 1 /\ k \in 0..MaxLinks
    BY <1>7, BoundsAssumption
  <2>2. Resolves(f, lev[n], lev[k])
    BY <1>1, <2>1 DEF Levels
  <2>3. \A r \in Seq(Components) : lev[k][r] = IF n = 0 THEN None ELSE h[<<n - 1, r>>]
    BY <1>4, <1>7, <2>1
  <2>4. \A r \in Seq(Components) : h[<<n, r>>] = lev[n][r]
    BY <1>4
  <2> QED
    BY <1>5, <2>2, <2>3, <2>4
<1>8. Fixpoint(f, h)
    BY <1>6, <1>7 DEF Fixpoint
<1> QED
    BY <1>3, <1>8

\* Two functions give the same for one link less.
SameBelow(h, g, n) ==
    n # 0 => \A p \in Seq(Components) : h[<<n - 1, p>>] = g[<<n - 1, p>>]

\* Every other one gives the same for n links, if it does for fewer.
LEMMA SameLevel ==
    ASSUME NEW f \in FileSystems, NEW h, NEW g, Fixpoint(f, h), Fixpoint(f, g),
           g \in [(0..MaxLinks) \X Seq(Components) -> Reals(f) \cup {None}],
           NEW n \in 0..MaxLinks,
           SameBelow(h, g, n)
    PROVE  \A p \in Seq(Components) : h[<<n, p>>] = g[<<n, p>>]
<1> DEFINE B == {p \in Seq(Components) : h[<<n, p>>] # g[<<n, p>>]}
           L == {Len(p) : p \in B}
<1>1. SUFFICES ASSUME B # {} PROVE FALSE
    OBVIOUS
<1>2. PICK p \in B : \A r \in B : Len(p) <= Len(r)
  <2>1. L \subseteq Nat /\ L # {}
    <3>1. \A r \in Seq(Components) : Len(r) \in Nat
      BY LenProperties
    <3> QED
      BY <1>1, <3>1
  <2>2. PICK k \in L : \A j \in L : k <= j
    <3> HIDE DEF L
    <3> QED
      BY <2>1, LeastOf
  <2> QED
    BY <2>2
<1>3. p \in Seq(Components) /\ h[<<n, p>>] # g[<<n, p>>]
    BY <1>2
<1>4. h[<<n, p>>] = Given(f, h, n, p) /\ g[<<n, p>>] = Given(f, g, n, p)
    BY <1>3 DEF Fixpoint
<1>5. p # <<>>
    BY <1>3, <1>4 DEF Given
<1>6. /\ Parent(p) \in Seq(Components) /\ p[Len(p)] \in Components
      /\ Len(p) \in Nat /\ Len(Parent(p)) = Len(p) - 1
    BY <1>3, <1>5, ParentOf
<1>7. Parent(p) \notin B
  <2>1. ~(Len(p) <= Len(Parent(p)))
    BY <1>6
  <2> HIDE DEF B
  <2> QED
    BY <1>2, <2>1
<1> DEFINE up == g[<<n, Parent(p)>>]
           q == Append(up, p[Len(p)])
<1>8. h[<<n, Parent(p)>>] = up /\ up \in Reals(f) \cup {None}
    BY <1>6, <1>7
<1> HIDE DEF B
<1>9. CASE up = None \/ NodeAt(f, up) # Dir \/ NodeAt(f, q) = Absent
    BY <1>3, <1>4, <1>5, <1>8, <1>9 DEF Given
<1>10. CASE up # None /\ NodeAt(f, up) = Dir /\ NodeAt(f, q) # Absent
  <2>1. up \in Seq(Components)
    BY <1>8, <1>10 DEF Reals
  <2>2. q # <<>>
    BY <1>6, <2>1, AppendProperties
  <2>3. f[q] = NodeAt(f, q)
    BY <1>10, <2>2, NodesTyped
  <2>4. f[q].kind = "link" => f[q].to \in Seq(Components)
    BY <2>3, NodesTyped, PathsTyped
  <2>5. f[q].kind = "link" /\ n # 0 => h[<<n - 1, f[q].to>>] = g[<<n - 1, f[q].to>>]
    BY <2>4 DEF SameBelow
  <2> QED
    BY <1>3, <1>4, <1>5, <1>8, <1>10, <2>5 DEF Given
<1> QED
    BY <1>9, <1>10

\* All of them agree, so Resolve is one.
LEMMA ResolveIs ==
    ASSUME NEW f \in FileSystems
    PROVE  \E h \in [(0..MaxLinks) \X Seq(Components) -> Reals(f) \cup {None}] :
              Fixpoint(f, h) /\ \A p \in Seq(Components) : Resolve(f, p) = h[<<MaxLinks, p>>]
<1> DEFINE D == (0..MaxLinks) \X Seq(Components)
           step(h) == [x \in D |->
              LET n == x[1]
                  p == x[2]
                  up == h[<<n, Parent(p)>>]
                  q == Append(up, p[Len(p)])
              IN  IF p = <<>> THEN <<>>
                  ELSE IF up = None THEN None
                  ELSE IF NodeAt(f, up) # Dir \/ NodeAt(f, q) = Absent THEN None
                  ELSE IF f[q].kind # "link" THEN q
                  ELSE IF n = 0 THEN None
                  ELSE h[<<n - 1, f[q].to>>]]
           resolve == CHOOSE h : h = step(h)
<1>1. PICK g \in [D -> Reals(f) \cup {None}] : Fixpoint(f, g)
    BY FixpointExists
<1>2. \A p \in Seq(Components) : Resolve(f, p) = resolve[<<MaxLinks, p>>]
    BY DEF Resolve
<1>3. ASSUME NEW h, NEW n \in 0..MaxLinks, NEW p \in Seq(Components)
      PROVE  step(h)[<<n, p>>] = Given(f, h, n, p)
    BY DEF Given
<1>4. \A h : step(h) = [x \in D |-> step(h)[x]]
    OBVIOUS
<1> HIDE DEF step
<1>5. g = step(g)
  <2>1. \A n \in 0..MaxLinks, p \in Seq(Components) : g[<<n, p>>] = step(g)[<<n, p>>]
    BY <1>1, <1>3 DEF Fixpoint
  <2>2. g = [x \in D |-> g[x]] /\ step(g) = [x \in D |-> step(g)[x]]
    BY <1>1, <1>4
  <2> HIDE DEF D
  <2>3. \A x \in D : g[x] = step(g)[x]
    BY <2>1 DEF D
  <2> QED
    BY <2>2, <2>3
<1>6. resolve = step(resolve)
  <2>1. \E h : h = step(h)
    BY <1>5, Zenon
  <2> QED
    BY <2>1, Zenon
<1> HIDE DEF resolve
<1>7. Fixpoint(f, resolve)
  <2>1. ASSUME NEW n \in 0..MaxLinks, NEW p \in Seq(Components)
        PROVE  resolve[<<n, p>>] = Given(f, resolve, n, p)
    <3>1. step(resolve)[<<n, p>>] = Given(f, resolve, n, p)
      BY <1>3
    <3> QED
      BY <1>6, <3>1
  <2> QED
    BY <2>1 DEF Fixpoint
<1>8. ASSUME NEW n \in 0..MaxLinks,
             n # 0 => \A p \in Seq(Components) : resolve[<<n - 1, p>>] = g[<<n - 1, p>>]
      PROVE  \A p \in Seq(Components) : resolve[<<n, p>>] = g[<<n, p>>]
  <2>1. PICK h : h = resolve
    OBVIOUS
  <2>2. Fixpoint(f, h) /\ SameBelow(h, g, n)
    BY <1>7, <1>8, <2>1 DEF SameBelow
  <2>3. \A p \in Seq(Components) : h[<<n, p>>] = g[<<n, p>>]
    BY ZenonT(40), <1>1, <2>2, SameLevel
  <2> QED
    BY <2>1, <2>3
<1>9. \A n \in 0..MaxLinks, p \in Seq(Components) : resolve[<<n, p>>] = g[<<n, p>>]
  <2> DEFINE same(n) == \A p \in Seq(Components) : resolve[<<n, p>>] = g[<<n, p>>]
             B == {n \in 0..MaxLinks : ~same(n)}
  <2>1. \A n \in 0..MaxLinks : (n # 0 => same(n - 1)) => same(n)
    BY <1>8
  <2> HIDE DEF same
  <2>2. SUFFICES ASSUME B # {} PROVE FALSE
    BY DEF same
  <2>3. B \subseteq Nat
    BY BoundsAssumption
  <2>4. PICK n \in B : \A k \in B : n <= k
    <3> HIDE DEF B
    <3> QED
      BY <2>2, <2>3, LeastOf
  <2>5. n # 0 => n - 1 \in 0..MaxLinks /\ ~(n <= n - 1)
    BY <2>4, BoundsAssumption
  <2>6. n # 0 => same(n - 1)
    BY <2>4, <2>5
  <2> QED
    BY <2>1, <2>4, <2>6
<1>10. MaxLinks \in 0..MaxLinks
    BY BoundsAssumption
<1> QED
    BY <1>1, <1>2, <1>9, <1>10

\* What a path leads to is real, and the way there is followed one component
\* after the other.
LEMMA ResolveSteps ==
    ASSUME NEW f \in FileSystems, NEW p \in Seq(Components)
    PROVE  /\ Resolve(f, p) \in Reals(f) \cup {None}
           /\ p = <<>> => Resolve(f, p) = <<>>
           /\ p # <<>> /\ Resolve(f, Parent(p)) = None => Resolve(f, p) = None
           /\ p # <<>> /\ Resolve(f, Parent(p)) # None =>
                LET up == Resolve(f, Parent(p))
                    q == Append(up, p[Len(p)])
                IN  /\ NodeAt(f, up) # Dir \/ NodeAt(f, q) = Absent => Resolve(f, p) = None
                    /\ NodeAt(f, up) = Dir /\ NodeAt(f, q) # Absent /\ f[q].kind # "link" =>
                         Resolve(f, p) = q
<1>1. PICK h \in [(0..MaxLinks) \X Seq(Components) -> Reals(f) \cup {None}] :
         Fixpoint(f, h) /\ \A r \in Seq(Components) : Resolve(f, r) = h[<<MaxLinks, r>>]
    BY ResolveIs
<1>2. MaxLinks \in 0..MaxLinks
    BY BoundsAssumption
<1>3. h[<<MaxLinks, p>>] = Given(f, h, MaxLinks, p)
    BY <1>1, <1>2 DEF Fixpoint
<1>4. p # <<>> => Parent(p) \in Seq(Components)
    BY ParentOf
<1>5. p # <<>> => Resolve(f, Parent(p)) = h[<<MaxLinks, Parent(p)>>]
    BY <1>1, <1>4
<1>6. Resolve(f, p) = h[<<MaxLinks, p>>] /\ h[<<MaxLinks, p>>] \in Reals(f) \cup {None}
    BY <1>1, <1>2
<1> QED
    BY <1>3, <1>5, <1>6, PathsTyped DEF Given

\* A path that is real leads to itself.
LEMMA RealResolves ==
    ASSUME NEW f \in FileSystems, NEW p \in Reals(f)
    PROVE  Resolve(f, p) = p
<1> DEFINE B == {k \in 0..Len(p) : Resolve(f, SubSeq(p, 1, k)) # SubSeq(p, 1, k)}
<1>1. p \in Seq(Components) /\ Real(f, p) /\ Len(p) \in Nat
    BY LenProperties DEF Reals
<1>2. SUFFICES ASSUME B # {} PROVE FALSE
  <2>1. SubSeq(p, 1, Len(p)) = p /\ Len(p) \in 0..Len(p)
    BY <1>1, WholePrefix
  <2>2. B = {} => Resolve(f, SubSeq(p, 1, Len(p))) = SubSeq(p, 1, Len(p))
    BY <2>1
  <2> HIDE DEF B
  <2> QED
    BY <1>2, <2>1, <2>2
<1>3. PICK k \in B : \A j \in B : k <= j
  <2>1. B \subseteq Nat
    BY <1>1
  <2> HIDE DEF B
  <2> QED
    BY <1>2, <2>1, LeastOf
<1> DEFINE s == SubSeq(p, 1, k)
           t == SubSeq(p, 1, k - 1)
<1>4. k \in 0..Len(p) /\ k \in Nat /\ Resolve(f, s) # s
    BY <1>1, <1>3
<1>5. \A i \in 1..Len(p) : p[i] \in Components
    BY <1>1, ElementOfSeq
<1>6. s \in Seq(Components) /\ Len(s) = k /\ \A i \in 1..k : s[i] = p[i]
  <2>1. \A i \in 1..k : p[i] \in Components
    BY <1>1, <1>4, <1>5
  <2> QED
    BY <1>4, <2>1, PrefixElements
<1>7. k # 0
  <2>1. k = 0 => s = <<>>
    BY <1>6, EmptySeq
  <2> QED
    BY <1>4, <1>6, <2>1, ResolveSteps
<1>8. s # <<>>
    BY <1>6, <1>7, EmptySeq
<1>9. /\ Parent(s) = t /\ t \in Seq(Components) /\ s = Append(t, s[Len(s)])
      /\ s[Len(s)] \in Components
  <2> HIDE DEF s, t
  <2>1. /\ Parent(s) \in Seq(Components) /\ Len(Parent(s)) = k - 1
        /\ \A i \in 1..(k - 1) : Parent(s)[i] = s[i]
        /\ s = Append(Parent(s), s[Len(s)]) /\ s[Len(s)] \in Components
    BY <1>6, <1>8, ParentOf
  <2>2. k - 1 \in Nat /\ \A i \in 1..(k - 1) : p[i] \in Components /\ p[i] = s[i]
    BY <1>1, <1>4, <1>5, <1>6, <1>7
  <2>3. t \in Seq(Components) /\ Len(t) = k - 1 /\ \A i \in 1..(k - 1) : t[i] = p[i]
    BY <2>2, PrefixElements DEF t
  <2>4. Parent(s) = t
    BY <2>1, <2>2, <2>3, SeqEqual
  <2> QED
    BY <2>1, <2>3, <2>4
<1>10. k - 1 \in 0..(Len(p) - 1)
    BY <1>1, <1>4, <1>7
<1>11. Resolve(f, t) = t
  <2>1. k - 1 \in 0..Len(p) /\ ~(k <= k - 1)
    BY <1>1, <1>4, <1>10
  <2> QED
    BY <1>3, <2>1
<1>12. NodeAt(f, t) = Dir
    BY <1>1, <1>10 DEF Real
<1>13. NodeAt(f, s).kind \in {"file", "dir", "special"}
  <2>1. CASE k = Len(p)
    BY <1>1, <2>1, WholePrefix DEF Real
  <2>2. CASE k # Len(p)
    <3>1. k \in 0..(Len(p) - 1)
      BY <1>1, <1>4, <2>2
    <3>2. NodeAt(f, s) = Dir
      BY <1>1, <3>1 DEF Real
    <3> QED
      BY <3>2 DEF Dir
  <2> QED
    BY <2>1, <2>2
<1> HIDE DEF s, t, B
<1>14. NodeAt(f, s) # Absent /\ f[s] = NodeAt(f, s) /\ f[s].kind # "link"
    BY <1>8, <1>13, NodesTyped DEF Absent
<1>15. t # None
    BY <1>9, PathsTyped
<1> QED
    BY ZenonT(40), <1>4, <1>6, <1>8, <1>9, <1>11, <1>12, <1>14, <1>15, ResolveSteps

-----------------------------------------------------------------------------
(* The types *)

Named == Seq(Components) \ {<<>>}
Walking == {"start", "read_dir", "visit", "canonicalize", "target"}

\* The types of the variables, in full, and what has not been used yet.
FolderTypes ==
    /\ fs \in FileSystems
    /\ changes \in 0..MaxChanges
    /\ touched \subseteq Paths
    /\ pc \in Walking \cup {"read", "ok", "internal"}
    /\ dir \in Seq(Components) \cup {None}
    /\ pc = "read_dir" => dir # None
    /\ stack \in Seq(Seq(Named))
    /\ link \in [path : Named \cup {None}, target : Seq(Components) \cup {None}]
    /\ pc \in {"canonicalize", "target"} => link.path # None
    /\ pc = "target" => link.target # None
    /\ out \in Seq(Named)
    /\ entries \in Seq(Named)
    /\ measurement \in Seq([path : Named, name : Seq(Nat), content : Contents])
    /\ sources \subseteq Seq(Components)
    /\ total \in Seq(Nat)
    /\ Len(measurement) + Len(entries) <= Len(out)
    /\ pc \in Walking =>
         entries = <<>> /\ measurement = <<>> /\ sources = {} /\ total = <<>>

\* The children of a directory.
LEMMA ChildrenTyped ==
    ASSUME fs \in FileSystems, NEW d \in Seq(Components)
    PROVE  IsFiniteSet(Children(d)) /\ Children(d) \subseteq Named
<1> DEFINE at == Resolve(fs, d)
           below == {q \in DOMAIN fs : Parent(q) = at /\ (at = <<>> => Inside(q)) /\ fs[q] # Absent}
           sur == [q \in below |-> Append(d, q[Len(q)])]
<1>1. DOMAIN fs = Paths \cup OutsidePaths /\ IsFiniteSet(DOMAIN fs)
  <2>1. DOMAIN fs = Paths \cup OutsidePaths
    BY DEF FileSystems
  <2>2. IsFiniteSet(Paths) /\ IsFiniteSet(OutsidePaths)
    BY PathsAssumption
  <2>3. IsFiniteSet(Paths \cup OutsidePaths)
    BY <2>2, FS_Union
  <2> QED
    BY <2>1, <2>3
<1>2. below \subseteq DOMAIN fs /\ IsFiniteSet(below)
    BY <1>1, FS_Subset
<1>3. Children(d) = {Append(d, q[Len(q)]) : q \in below}
    BY DEF Children
<1> HIDE DEF below
<1>4. sur \in Surjection(below, Children(d))
    BY <1>3 DEF Surjection
<1>5. IsFiniteSet(Children(d))
    BY <1>2, <1>4, FS_Surjection
<1>6. ASSUME NEW q \in below PROVE Append(d, q[Len(q)]) \in Named
  <2>1. q \in Seq(Components) /\ q # <<>>
    BY <1>1, <1>2, PathsTyped
  <2>2. q[Len(q)] \in Components
    BY <2>1, ParentOf
  <2> QED
    BY <2>2, AppendProperties DEF Named
<1> QED
    BY <1>3, <1>5, <1>6

\* Sorted, they are a sequence of paths.
LEMMA SortedChildren ==
    ASSUME fs \in FileSystems, NEW d \in Seq(Components)
    PROVE  /\ Lists(Sorted(Children(d), PathLess), Children(d), PathOrder)
           /\ Sorted(Children(d), PathLess) \in Seq(Named)
           /\ Len(Sorted(Children(d), PathLess)) = Cardinality(Children(d))
<1>1. IsFiniteSet(Children(d)) /\ Children(d) \subseteq Named
    BY ChildrenTyped
<1>2. Children(d) \subseteq Seq(Seq(Nat))
    BY <1>1, PathsTyped DEF Named
<1>3. Lists(Sorted(Children(d), PathLess), Children(d), PathOrder)
    BY <1>1, <1>2, SortedPaths
<1> DEFINE s == Sorted(Children(d), PathLess)
           n == Cardinality(Children(d))
<1>4. n \in Nat
    BY <1>1, FS_CardinalityType
<1>5. s \in [1..n -> Children(d)]
    BY <1>3 DEF Lists
<1> HIDE DEF s, n
<1>6. s = [i \in 1..n |-> s[i]] /\ \A i \in 1..n : s[i] \in Named
    BY <1>1, <1>5
<1>7. [i \in 1..n |-> s[i]] \in Seq(Named) /\ Len([i \in 1..n |-> s[i]]) = n
  <2>1. [i \in 1..n |-> s[i]] \in Seq(Named)
    BY <1>4, <1>6, IsASeq
  <2> QED
    BY <1>4, <2>1
<1> QED
    BY <1>3, <1>6, <1>7 DEF s, n

\* At first.
LEMMA FolderInit == Init => FolderTypes
<1> SUFFICES ASSUME Init PROVE FolderTypes
    OBVIOUS
<1>1. fs \in FileSystems
    BY DEF Init, InitFs, FileSystems
<1>2. 0 \in 0..MaxChanges
    BY BoundsAssumption
<1>3. /\ <<>> \in Seq(Seq(Named)) /\ <<>> \in Seq(Named) /\ <<>> \in Seq(Nat)
      /\ <<>> \in Seq([path : Named, name : Seq(Nat), content : Contents])
      /\ Len(<<>>) = 0
    BY EmptySeq
<1> QED
    BY <1>1, <1>2, <1>3 DEF Init, FolderTypes, Walking

\* A change of the file system.
LEMMA FolderChange ==
    ASSUME FolderTypes, NEW p \in Paths, NEW node \in Nodes, Change(p, node)
    PROVE  FolderTypes'
<1>1. fs' \in FileSystems
    BY DEF FolderTypes, Change, FileSystems
<1>2. changes' \in 0..MaxChanges
    BY BoundsAssumption DEF FolderTypes, Change
<1>3. touched' \subseteq Paths
    BY DEF FolderTypes, Change
<1>4. UNCHANGED <<pc, dir, stack, link, out, entries, measurement, sources, total>>
    BY DEF Change, walkVars, readVars
<1> QED
    BY <1>1, <1>2, <1>3, <1>4 DEF FolderTypes

\* A step that ends the measurement, or begins it.
LEMMA FolderEnds ==
    ASSUME FolderTypes, Start \/ IoError \/ VisitGone \/ ReadGone \/ Finish
    PROVE  FolderTypes'
<1>1. UNCHANGED <<fs, changes, touched, stack, link, out, entries, measurement, sources, total>>
    BY DEF Start, IoError, VisitGone, ReadGone, Finish, fsVars, walkVars, readVars
<1>2. \/ pc' \in {"internal", "ok"} /\ dir' = dir
      \/ pc = "start" /\ pc' = "read_dir" /\ dir' = <<>>
    BY DEF Start, IoError, VisitGone, ReadGone, Finish, fsVars, walkVars, readVars
<1>3. <<>> \in Seq(Components) /\ <<>> # None
    BY EmptySeq, PathsTyped
<1> QED
    BY <1>1, <1>2, <1>3 DEF FolderTypes, Walking

\* A directory is read.
LEMMA FolderReadDir ==
    ASSUME FolderTypes, ReadDir
    PROVE  FolderTypes'
<1>1. UNCHANGED <<fs, changes, touched, dir, link, out, entries, measurement, sources, total>>
    BY DEF ReadDir, fsVars, readVars
<1>2. pc = "read_dir" /\ pc' \in {"visit", "internal"}
    BY DEF ReadDir
<1>3. stack' \in Seq(Seq(Named))
  <2>1. CASE UNCHANGED stack
    BY <2>1 DEF FolderTypes
  <2>2. CASE stack' = Append(stack, Sorted(Children(dir), PathLess))
    <3>1. stack \in Seq(Seq(Named)) /\ fs \in FileSystems /\ dir \in Seq(Components)
      BY <1>2 DEF FolderTypes
    <3>2. Sorted(Children(dir), PathLess) \in Seq(Named)
      BY <3>1, SortedChildren
    <3> QED
      BY <2>2, <3>1, <3>2, AppendProperties
  <2> QED
    BY <2>1, <2>2 DEF ReadDir
<1> QED
    BY <1>1, <1>2, <1>3 DEF FolderTypes, Walking

\* The next child, and the stack without it.
LEMMA NextChild ==
    ASSUME stack \in Seq(Seq(Named)), stack # <<>>, stack[Len(stack)] # <<>>
    PROVE  /\ Child \in Named /\ Visited \in Seq(Seq(Named))
           /\ Len(Visited) = Len(stack) /\ Len(stack) \in Nat \ {0}
           /\ \A i \in 1..(Len(stack) - 1) : Visited[i] = stack[i]
           /\ Visited[Len(stack)] = Tail(stack[Len(stack)])
<1>1. Len(stack) \in Nat \ {0}
    BY EmptySeq
<1>2. stack[Len(stack)] \in Seq(Named)
    BY <1>1, ElementOfSeq
<1>3. Child \in Named /\ Tail(stack[Len(stack)]) \in Seq(Named)
    BY <1>2, HeadTailProperties DEF Child
<1>4. Visited = [stack EXCEPT ![Len(stack)] = Tail(stack[Len(stack)])]
    BY DEF Visited
<1> DEFINE t == Tail(stack[Len(stack)])
           v == [stack EXCEPT ![Len(stack)] = t]
<1> HIDE DEF t
<1>5. /\ v \in Seq(Seq(Named)) /\ Len(v) = Len(stack)
      /\ \A j \in 1..Len(stack) : v[j] = IF j = Len(stack) THEN t ELSE stack[j]
    BY <1>1, <1>3, ExceptSeq DEF t
<1>6. Visited = v
    BY <1>4 DEF t
<1> HIDE DEF v
<1>7. /\ \A i \in 1..(Len(stack) - 1) : v[i] = stack[i]
      /\ v[Len(stack)] = t
    BY <1>1, <1>5
<1> QED
    BY <1>1, <1>3, <1>5, <1>6, <1>7 DEF t

\* A child is visited.
LEMMA FolderVisit ==
    ASSUME FolderTypes, Visit
    PROVE  FolderTypes'
<1>1. UNCHANGED <<fs, changes, touched, entries, measurement, sources, total>> /\ pc = "visit"
    BY DEF Visit, fsVars, readVars
<1>2. /\ stack \in Seq(Seq(Named)) /\ out \in Seq(Named) /\ dir \in Seq(Components) \cup {None}
      /\ link \in [path : Named \cup {None}, target : Seq(Components) \cup {None}]
    BY DEF FolderTypes
<1>3. Child \in Named /\ stack' \in Seq(Seq(Named))
    BY <1>2, NextChild DEF Visit
<1>4. Child \in Seq(Components) /\ Child # None
    BY <1>3, PathsTyped DEF Named
<1>5. out' \in Seq(Named) /\ Len(out') >= Len(out)
  <2>1. CASE UNCHANGED out
    BY <1>2, <2>1, LenProperties
  <2>2. CASE out' = Append(out, Child)
    BY <1>2, <1>3, <2>2, AppendProperties, LenProperties
  <2> QED
    BY <2>1, <2>2 DEF Visit
<1>6. \/ pc' = "read_dir" /\ dir' = Child /\ link' = link
      \/ pc' = "visit" /\ dir' = dir /\ link' = link
      \/ pc' = "canonicalize" /\ dir' = dir /\ link' = [path |-> Child, target |-> None]
    BY <1>1 DEF Visit
<1>7. /\ pc' \in Walking
      /\ dir' \in Seq(Components) \cup {None} /\ (pc' = "read_dir" => dir' # None)
      /\ link' \in [path : Named \cup {None}, target : Seq(Components) \cup {None}]
      /\ pc' \in {"canonicalize", "target"} => link'.path # None
      /\ pc' # "target"
    BY <1>2, <1>3, <1>4, <1>6 DEF Walking
<1>8. Len(measurement) + Len(entries) <= Len(out')
  <2>1. Len(out) \in Nat /\ Len(out') \in Nat
    BY <1>2, <1>5, LenProperties
  <2>2. Len(measurement) + Len(entries) <= Len(out) /\ Len(measurement) \in Nat /\ Len(entries) \in Nat
    BY LenProperties DEF FolderTypes
  <2> QED
    BY <1>5, <2>1, <2>2
<1> QED
    BY <1>1, <1>3, <1>5, <1>7, <1>8 DEF FolderTypes, Walking

\* A link is examined.
LEMMA FolderLink ==
    ASSUME FolderTypes, Canonicalize
    PROVE  FolderTypes'
<1>1. /\ UNCHANGED <<fs, changes, touched, dir, stack, out, entries, measurement, sources, total>>
      /\ pc = "canonicalize"
    BY DEF Canonicalize, fsVars, readVars
<1>2. /\ link \in [path : Named \cup {None}, target : Seq(Components) \cup {None}]
      /\ link.path # None /\ fs \in FileSystems
    BY <1>1 DEF FolderTypes
<1>3. Resolve(fs, link.path) \in Reals(fs) \cup {None}
    BY <1>2, ResolveSteps DEF Named
<1>4. \/ pc' = "visit" /\ link' = link
      \/ /\ pc' = "target" /\ Resolve(fs, link.path) # None
         /\ link' = [link EXCEPT !.target = Resolve(fs, link.path)]
    BY DEF Canonicalize
<1>5. /\ link' \in [path : Named \cup {None}, target : Seq(Components) \cup {None}]
      /\ pc' \in {"visit", "target"} /\ link'.path # None
      /\ pc' = "target" => link'.target # None
    BY <1>2, <1>3, <1>4 DEF Reals
<1> QED
    BY <1>1, <1>5 DEF FolderTypes, Walking

\* The target of a link is examined.
LEMMA FolderTarget ==
    ASSUME FolderTypes, TargetMetadata
    PROVE  FolderTypes'
<1>1. /\ UNCHANGED <<fs, changes, touched, dir, stack, link, entries, measurement, sources, total>>
      /\ pc = "target" /\ pc' = "visit"
    BY DEF TargetMetadata, fsVars, readVars
<1>2. link.path \in Named /\ out \in Seq(Named)
    BY <1>1 DEF FolderTypes
<1>3. out' = out \/ out' = Append(out, link.path)
    BY DEF TargetMetadata
<1>4. out' \in Seq(Named) /\ Len(out') >= Len(out)
  <2>1. CASE out' = out
    BY <1>2, <2>1, LenProperties
  <2>2. CASE out' = Append(out, link.path)
    BY <1>2, <2>2, AppendProperties, LenProperties
  <2> QED
    BY <1>3, <2>1, <2>2
<1>5. Len(measurement) + Len(entries) <= Len(out')
  <2>1. Len(out) \in Nat /\ Len(out') \in Nat
    BY <1>2, <1>4, LenProperties
  <2>2. Len(measurement) + Len(entries) <= Len(out) /\ Len(measurement) \in Nat /\ Len(entries) \in Nat
    BY LenProperties DEF FolderTypes
  <2> QED
    BY <1>4, <2>1, <2>2
<1> QED
    BY <1>1, <1>4, <1>5 DEF FolderTypes, Walking

\* The sorted paths, as many as were collected.
LEMMA SortedEntries ==
    ASSUME NEW ps \in Seq(Named)
    PROVE  SortedByName(ps) \in Seq(Named) /\ Len(SortedByName(ps)) = Len(ps)
<1> DEFINE n == Len(ps)
           s == SortedByName(ps)
<1>1. n \in Nat /\ ps \in Seq(Seq(Seq(Nat))) /\ \A i \in 1..n : ps[i] \in Named
  <2>1. \A i \in 1..Len(ps) : ps[i] \in Named
    BY ElementOfSeq
  <2>2. \A i \in 1..Len(ps) : ps[i] \in Seq(Seq(Nat))
    BY <2>1, PathsTyped DEF Named
  <2>3. Len(ps) \in Nat /\ ps = [i \in 1..Len(ps) |-> ps[i]]
    BY LenProperties
  <2>4. [i \in 1..Len(ps) |-> ps[i]] \in Seq(Seq(Seq(Nat)))
    BY <2>2, <2>3, IsASeq
  <2> QED
    BY <2>1, <2>3, <2>4
<1>2. s = [i \in 1..n |-> SortedByName(ps)[i]] /\ DOMAIN s = 1..n
    BY <1>1, SortedNames DEF SortedByName
<1>3. \A i \in 1..n : \E j \in 1..n : s[i] = ps[j]
    BY <1>1, SortedNames
<1> HIDE DEF n, s
<1>4. \A i \in 1..n : s[i] \in Named
    BY <1>1, <1>3
<1>5. s = [i \in 1..n |-> s[i]]
    BY <1>2 DEF s
<1>6. [i \in 1..n |-> s[i]] \in Seq(Named)
    BY <1>1, <1>4, IsASeq
<1>7. s \in Seq(Named) /\ Len(s) = n
    BY <1>1, <1>2, <1>5, <1>6, LenProperties
<1> QED
    BY <1>7 DEF s, n

\* A directory is left.
LEMMA FolderLeave ==
    ASSUME FolderTypes, LeaveDir
    PROVE  FolderTypes'
<1>1. /\ UNCHANGED <<fs, changes, touched, dir, link, out, measurement, sources, total>>
      /\ pc = "visit" /\ stack # <<>> /\ stack' = SubSeq(stack, 1, Len(stack) - 1)
    BY DEF LeaveDir, fsVars
<1>2. stack \in Seq(Seq(Named)) /\ out \in Seq(Named)
      /\ measurement = <<>>
    BY <1>1 DEF FolderTypes, Walking
<1>3. stack' \in Seq(Seq(Named))
    BY <1>1, <1>2, ParentOf DEF Parent
<1>4. CASE UNCHANGED <<pc, entries>>
    BY <1>1, <1>3, <1>4 DEF FolderTypes, Walking
<1>5. CASE pc' = "read" /\ entries' = SortedByName(out)
  <2>1. entries' \in Seq(Named) /\ Len(entries') = Len(out)
    BY <1>2, <1>5, SortedEntries
  <2>2. Len(measurement) + Len(entries') <= Len(out)
    BY <1>2, <2>1, EmptySeq, LenProperties
  <2> QED
    BY <1>1, <1>3, <1>5, <2>1, <2>2 DEF FolderTypes, Walking
<1> QED
    BY <1>4, <1>5 DEF LeaveDir

\* A file is read.
LEMMA FolderRead ==
    ASSUME FolderTypes, ReadFile
    PROVE  /\ FolderTypes'
           /\ Head(entries) \in Named /\ Name(Head(entries)) \in Seq(Nat)
           /\ fs[Resolve(fs, Head(entries))].content \in Contents
<1> DEFINE p == Head(entries)
           at == Resolve(fs, p)
           c == fs[at].content
<1>1. /\ UNCHANGED <<fs, changes, touched, pc, dir, stack, link, out>>
      /\ pc = "read" /\ entries # <<>> /\ entries' = Tail(entries)
      /\ at # None /\ NodeAt(fs, at).kind = "file"
      /\ measurement' = Append(measurement, [path |-> p, name |-> Name(p), content |-> c])
      /\ sources' = sources \cup {at} /\ total' = total \o HashEntry(Name(p), c)
    BY DEF ReadFile, fsVars, walkVars
<1>2. /\ entries \in Seq(Named) /\ fs \in FileSystems /\ total \in Seq(Nat)
      /\ measurement \in Seq([path : Named, name : Seq(Nat), content : Contents])
      /\ sources \subseteq Seq(Components)
    BY DEF FolderTypes
<1>3. /\ p \in Named /\ entries' \in Seq(Named) /\ Len(entries') = Len(entries) - 1
    BY <1>1, <1>2, HeadTailProperties
<1>4. p \in Seq(Components) /\ Name(p) \in Seq(Nat)
    BY <1>3, PathsTyped, NameType DEF Named
<1>5. at \in Seq(Components) /\ at # <<>>
  <2>1. at \in Reals(fs) \cup {None}
    BY <1>2, <1>4, ResolveSteps
  <2>2. at # <<>>
    BY <1>1 DEF NodeAt, Dir
  <2> QED
    BY <1>1, <2>1, <2>2 DEF Reals
<1>6. c \in Contents
  <2>1. NodeAt(fs, at).content \in Contents
    BY <1>1, <1>2, NodesTyped
  <2>2. NodeAt(fs, at) = fs[at]
    BY <1>1, <1>2, <1>5, NodesTyped DEF Absent
  <2> QED
    BY <2>1, <2>2
<1>7. HashEntry(Name(p), c) \in Seq(Nat)
  <2> DEFINE nm == Name(p)
  <2> HIDE DEF nm, c
  <2>1. nm \in Seq(Nat) /\ Len(nm) \in Nat /\ Hash(c) \in Nat
    <3>1. nm \in Seq(Nat)
      BY <1>4 DEF nm
    <3>2. c \in Nat
      BY <1>6, NodesAssumption
    <3> QED
      BY <3>1, <3>2, LenProperties DEF Hash
  <2>2. <<Len(nm)>> \in Seq(Nat) /\ <<Hash(c)>> \in Seq(Nat)
    BY <2>1
  <2>3. <<Len(nm)>> \o nm \o <<Hash(c)>> \in Seq(Nat)
    BY <2>1, <2>2, ConcatProperties
  <2> QED
    BY <2>3 DEF HashEntry, nm
<1> HIDE DEF p, at, c
<1>8. total' \in Seq(Nat)
    BY <1>1, <1>2, <1>7, ConcatProperties
<1>9. /\ measurement' \in Seq([path : Named, name : Seq(Nat), content : Contents])
      /\ Len(measurement') = Len(measurement) + 1
  <2>1. [path |-> p, name |-> Name(p), content |-> c]
          \in [path : Named, name : Seq(Nat), content : Contents]
    BY <1>3, <1>4, <1>6
  <2> QED
    BY <1>1, <1>2, <2>1, AppendProperties
<1>10. Len(measurement') + Len(entries') <= Len(out)
  <2>1. Len(measurement) \in Nat /\ Len(entries) \in Nat /\ Len(out) \in Nat
    BY LenProperties DEF FolderTypes
  <2>2. Len(measurement) + Len(entries) <= Len(out)
    BY DEF FolderTypes
  <2> QED
    BY <1>3, <1>9, <2>1, <2>2
<1>11. sources' \subseteq Seq(Components)
    BY <1>1, <1>2, <1>5
<1>12. FolderTypes'
    BY <1>1, <1>3, <1>8, <1>9, <1>10, <1>11 DEF FolderTypes, Walking
<1> QED
    BY <1>3, <1>4, <1>6, <1>12 DEF p, at, c

\* The types are kept in every state.
THEOREM FolderInvariance == Spec => []FolderTypes
<1>1. Init => FolderTypes
    BY FolderInit
<1>2. FolderTypes /\ [Next]_vars => FolderTypes'
  <2> SUFFICES ASSUME FolderTypes, [Next]_vars PROVE FolderTypes'
    OBVIOUS
  <2>1. CASE UNCHANGED vars
    BY <2>1 DEF vars, fsVars, walkVars, readVars, FolderTypes
  <2>2. CASE Next
    BY <2>2, FolderChange, FolderEnds, FolderReadDir, FolderVisit, FolderLink, FolderTarget,
       FolderLeave, FolderRead DEF Next
  <2> QED
    BY <2>1, <2>2
<1> QED
    BY <1>1, <1>2, PTL DEF Spec

\* In every state the variables have their types, and no more paths are
\* measured or waiting to be read than the walk collected.
THEOREM FolderTypeCorrect == Spec => []TypeOK
<1>1. FolderTypes => TypeOK
  <2> SUFFICES ASSUME FolderTypes PROVE TypeOK
    OBVIOUS
  <2>1. ASSUME NEW i \in 1..Len(measurement) PROVE measurement[i].content \in Contents
    <3>1. measurement \in Seq([path : Named, name : Seq(Nat), content : Contents])
      BY DEF FolderTypes
    <3>2. measurement[i] \in [path : Named, name : Seq(Nat), content : Contents]
      BY <3>1, ElementOfSeq
    <3> QED
      BY <3>2
  <2> QED
    BY <2>1 DEF FolderTypes, TypeOK, FileSystems, Walking
<1> QED
    BY <1>1, FolderInvariance, PTL

-----------------------------------------------------------------------------
(* The order of the walk *)

\* c is the beginning of p.
IsPre(c, p) == Len(c) <= Len(p) /\ \A i \in 1..Len(c) : c[i] = p[i]

\* a and b differ in a component that both have, and there a is smaller.
Apart(a, b) ==
    \E i \in 1..Len(a) :
        /\ i <= Len(b)
        /\ \A j \in 1..(i - 1) : a[j] = b[j]
        /\ <<a[i], b[i]>> \in NameOrder

\* Then everything below a differs from everything below b.
LEMMA ApartBelow ==
    ASSUME NEW a \in Seq(Components), NEW b \in Seq(Components), Apart(a, b),
           NEW p \in Seq(Components), NEW q \in Seq(Components), IsPre(a, p), IsPre(b, q)
    PROVE  Apart(p, q) /\ p # q /\ <<p, q>> \in PathOrder
<1>1. /\ Len(a) \in Nat /\ Len(b) \in Nat /\ Len(p) \in Nat /\ Len(q) \in Nat
      /\ Len(a) <= Len(p) /\ Len(b) <= Len(q)
      /\ \A i \in 1..Len(a) : a[i] = p[i]
      /\ \A i \in 1..Len(b) : b[i] = q[i]
    BY LenProperties DEF IsPre
<1>2. PICK i \in 1..Len(a) :
        /\ i <= Len(b)
        /\ \A j \in 1..(i - 1) : a[j] = b[j]
        /\ <<a[i], b[i]>> \in NameOrder
    BY DEF Apart
<1>3. /\ i \in 1..Len(p) /\ i <= Len(q) /\ i \in Nat
      /\ \A j \in 1..(i - 1) : p[j] = q[j]
      /\ <<p[i], q[i]>> \in NameOrder
  <2>1. i \in Nat /\ i \in 1..Len(p) /\ i <= Len(q) /\ i \in 1..Len(a) /\ i \in 1..Len(b)
    BY <1>1, <1>2
  <2>2. \A j \in 1..(i - 1) : j \in 1..Len(a) /\ j \in 1..Len(b)
    BY <1>1, <2>1
  <2>3. \A j \in 1..(i - 1) : p[j] = q[j]
    BY <1>1, <1>2, <2>2
  <2>4. a[i] = p[i] /\ b[i] = q[i]
    BY <1>1, <2>1
  <2> QED
    BY <1>2, <2>1, <2>3, <2>4
<1>4. p # q
  <2>1. p[i] \in Seq(Nat)
    BY <1>3, ElementOfSeq, PathsTyped
  <2> QED
    BY <1>3, <2>1, NamesOrdered DEF Orders, Irreflexive
<1>5. p \in Seq(Seq(Nat)) /\ q \in Seq(Seq(Nat))
    BY PathsTyped
<1>6. LexAt(NameOrder, p, q, i)
    BY <1>1, <1>3 DEF LexAt
<1> QED
    BY <1>3, <1>4, <1>5, <1>6 DEF Apart, PathOrder, Lex

\* A path is the beginning of itself and its parent is.
LEMMA PrefixOfItself ==
    ASSUME NEW p \in Seq(Components)
    PROVE  /\ IsPre(p, p) /\ IsPre(<<>>, p)
           /\ p # <<>> => IsPre(Parent(p), p)
<1>1. Len(p) \in Nat /\ Len(<<>>) = 0
    BY LenProperties, EmptySeq
<1>2. ASSUME p # <<>> PROVE IsPre(Parent(p), p)
  <2>1. /\ Len(Parent(p)) = Len(p) - 1
        /\ \A i \in 1..(Len(p) - 1) : Parent(p)[i] = p[i]
    BY <1>2, ParentOf
  <2> QED
    BY <1>1, <2>1 DEF IsPre
<1> QED
    BY <1>1, <1>2 DEF IsPre

\* Children of one directory differ in their last components.
LEMMA SiblingsApart ==
    ASSUME NEW d \in Seq(Components), NEW x \in Components, NEW y \in Components,
           <<Append(d, x), Append(d, y)>> \in PathOrder
    PROVE  Apart(Append(d, x), Append(d, y))
<1> DEFINE a == Append(d, x)
           b == Append(d, y)
<1>1. Len(a) \in Nat /\ Len(b) = Len(a)
    BY AppendProperties, LenProperties
<1> HIDE DEF a, b
<1>2. PICK i \in Nat : LexAt(NameOrder, a, b, i)
    BY DEF PathOrder, Lex, a, b
<1>3. /\ i \in 1..Len(a) /\ i <= Len(b) /\ i # Len(a) + 1
      /\ \A j \in 1..(i - 1) : a[j] = b[j]
      /\ <<a[i], b[i]>> \in NameOrder
    BY <1>1, <1>2 DEF LexAt
<1>4. Apart(a, b)
    BY <1>3 DEF Apart
<1> QED
    BY <1>4 DEF a, b

\* A beginning of an untouched path is untouched.
LEMMA UntouchedPrefix ==
    ASSUME NEW p \in Seq(Components), NEW c \in Seq(Components), IsPre(c, p), Untouched(p)
    PROVE  Untouched(c)
<1> SUFFICES ASSUME NEW n \in 1..Len(c) PROVE SubSeq(c, 1, n) \notin touched
    BY DEF Untouched
<1>1. Len(c) \in Nat /\ Len(p) \in Nat /\ Len(c) <= Len(p) /\ \A i \in 1..Len(c) : c[i] = p[i]
    BY LenProperties DEF IsPre
<1>2. n \in Nat /\ n <= Len(c) /\ n <= Len(p) /\ n \in 1..Len(p)
      /\ \A i \in 1..n : c[i] = p[i]
    BY <1>1
<1>3. SubSeq(c, 1, n) = SubSeq(p, 1, n)
    BY <1>2, SamePrefix
<1> QED
    BY <1>2, <1>3 DEF Untouched

\* An untouched path is not among the touched ones.
LEMMA UntouchedItself ==
    ASSUME NEW p \in Named, Untouched(p)
    PROVE  p \notin touched
<1>1. p \in Seq(Components) /\ p # <<>> /\ Len(p) \in Nat \ {0}
    BY EmptySeq DEF Named
<1>2. SubSeq(p, 1, Len(p)) = p /\ Len(p) \in 1..Len(p)
    BY <1>1, WholePrefix
<1> QED
    BY <1>2 DEF Untouched

\* Something is at a path only below directories.
LEMMA PresentBelow ==
    ASSUME NEW f \in FileSystems, WellFormed(f), NEW p \in Paths, f[p] # Absent
    PROVE  /\ \A k \in 1..Len(p) : SubSeq(p, 1, k) \in Paths /\ f[SubSeq(p, 1, k)] # Absent
           /\ \A k \in 0..(Len(p) - 1) : NodeAt(f, SubSeq(p, 1, k)) = Dir
<1> DEFINE s(k) == SubSeq(p, 1, k)
           good(k) == s(k) \in Paths /\ f[s(k)] # Absent
           B == {x \in 0..(Len(p) - 1) : ~ good(Len(p) - x)}
<1>1. p \in Seq(Components) /\ p # <<>> /\ Len(p) \in Nat \ {0} /\ s(Len(p)) = p
    BY PathsTyped, EmptySeq, WholePrefix
<1>2. ASSUME NEW k \in 1..Len(p) PROVE s(k) \in Seq(Components) /\ Len(s(k)) = k
  <2>1. k \in Nat /\ \A i \in 1..k : p[i] \in Components
    BY <1>1, ElementOfSeq
  <2> QED
    BY <2>1, PrefixElements
<1>3. ASSUME NEW k \in 1..Len(p) PROVE Parent(s(k)) = s(k - 1)
  <2>1. k \in Nat /\ k - 1 \in Nat /\ Len(p) \in Nat /\ \A i \in 1..k : p[i] \in Components
    BY <1>1, ElementOfSeq
  <2>2. s(k) \in Seq(Components) /\ Len(s(k)) = k /\ \A i \in 1..k : s(k)[i] = p[i]
    BY <2>1, PrefixElements
  <2> DEFINE t == s(k)
  <2> HIDE DEF t
  <2>3. t \in Seq(Components) /\ k - 1 <= Len(t) /\ k - 1 <= Len(p)
        /\ \A i \in 1..(k - 1) : t[i] = p[i]
    BY <2>1, <2>2 DEF t
  <2>4. SubSeq(t, 1, k - 1) = SubSeq(p, 1, k - 1)
    BY <1>1, <2>1, <2>3, SamePrefix
  <2> QED
    BY <2>2, <2>4 DEF Parent, t
<1>4. ASSUME NEW k \in 1..Len(p), good(k), k # 1 PROVE good(k - 1) /\ f[s(k - 1)] = Dir
  <2>1. k - 1 \in 1..Len(p)
    BY <1>1, <1>4
  <2>2. s(k - 1) # <<>>
    BY <1>1, <1>2, <2>1, EmptySeq
  <2>3. s(k - 1) \in Paths
    BY <1>3, <1>4, <2>2, PathsAssumption
  <2>4. f[s(k - 1)] = Dir
    BY <1>3, <1>4, <2>2 DEF WellFormed
  <2> QED
    BY <2>3, <2>4 DEF Dir, Absent
<1> HIDE DEF good
<1>5. B = {}
  <2> SUFFICES ASSUME B # {} PROVE FALSE
    OBVIOUS
  <2>1. PICK x \in B : \A y \in B : x <= y
    <3>1. B \subseteq Nat
      BY <1>1
    <3> HIDE DEF B
    <3> QED
      BY <3>1, LeastOf
  <2>2. x \in 0..(Len(p) - 1) /\ ~ good(Len(p) - x)
    BY <2>1
  <2>3. x # 0
    <3>1. good(Len(p))
      BY <1>1 DEF good
    <3>2. x = 0 => Len(p) - x = Len(p)
      BY <1>1
    <3> QED
      BY <2>2, <3>1, <3>2
  <2>4. x - 1 \in 0..(Len(p) - 1) /\ ~(x <= x - 1)
    BY <1>1, <2>2, <2>3
  <2>5. good(Len(p) - (x - 1))
    BY <2>1, <2>4
  <2>6. PICK k \in 1..Len(p) : k = Len(p) - (x - 1) /\ k # 1 /\ k - 1 = Len(p) - x
    <3>1. /\ Len(p) - (x - 1) \in 1..Len(p) /\ Len(p) - (x - 1) # 1
          /\ Len(p) - (x - 1) - 1 = Len(p) - x
      BY <1>1, <2>2, <2>3, <2>4
    <3> QED
      BY <3>1
  <2> QED
    BY <1>4, <2>2, <2>5, <2>6
<1>6. \A k \in 1..Len(p) : good(k)
  <2> SUFFICES ASSUME NEW k \in 1..Len(p) PROVE good(k)
    OBVIOUS
  <2>1. PICK x \in 0..(Len(p) - 1) : k = Len(p) - x
    <3>1. Len(p) - k \in 0..(Len(p) - 1) /\ k = Len(p) - (Len(p) - k)
      BY <1>1
    <3> QED
      BY <3>1
  <2>2. x \notin B => good(Len(p) - x)
    BY <2>1
  <2> HIDE DEF B
  <2> QED
    BY <1>5, <2>1, <2>2
<1>7. ASSUME NEW k \in 0..(Len(p) - 1) PROVE NodeAt(f, s(k)) = Dir
  <2>1. CASE k = 0
    <3>1. s(k) = <<>>
      BY <2>1, SubSeqEmpty
    <3> QED
      BY <3>1 DEF NodeAt
  <2>2. CASE k # 0
    <3>1. PICK n \in 1..Len(p) : n = k + 1 /\ n # 1 /\ k = n - 1
      BY <1>1, <2>2
    <3>2. good(n - 1) /\ f[s(n - 1)] = Dir
      BY <1>4, <1>6, <3>1
    <3>3. s(k) \in Paths /\ f[s(k)] = Dir /\ s(k) # <<>>
      BY <3>1, <3>2, PathsTyped DEF good
    <3> QED
      BY <3>3 DEF NodeAt, FileSystems
  <2> QED
    BY <2>1, <2>2
<1> QED
    BY <1>6, <1>7 DEF good

\* What is there, and no link, is real, and so is the directory it is in.
LEMMA PresentReal ==
    ASSUME NEW f \in FileSystems, WellFormed(f), NEW p \in Paths, f[p] # Absent
    PROVE  /\ NodeAt(f, p) = f[p]
           /\ f[p].kind # "link" => p \in Reals(f)
           /\ Parent(p) \in Reals(f) /\ NodeAt(f, Parent(p)) = Dir
<1>1. p \in Seq(Components) /\ p # <<>> /\ Len(p) \in Nat \ {0}
    BY PathsTyped, EmptySeq
<1>2. NodeAt(f, p) = f[p]
    BY <1>1 DEF NodeAt, FileSystems
<1>3. \A k \in 0..(Len(p) - 1) : NodeAt(f, SubSeq(p, 1, k)) = Dir
    BY PresentBelow
<1>4. ASSUME f[p].kind # "link" PROVE p \in Reals(f)
  <2>1. NodeAt(f, p).kind \in {"file", "dir", "special"}
    BY <1>2, <1>4, NodesTyped
  <2> QED
    BY <1>1, <1>3, <2>1 DEF Reals, Real
<1>5. Len(p) - 1 \in 0..(Len(p) - 1) /\ Parent(p) = SubSeq(p, 1, Len(p) - 1)
    BY <1>1 DEF Parent
<1>6. NodeAt(f, Parent(p)) = Dir
    BY <1>3, <1>5
<1>7. Parent(p) \in Reals(f)
  <2>1. /\ Parent(p) \in Seq(Components) /\ Len(Parent(p)) = Len(p) - 1
        /\ \A i \in 1..(Len(p) - 1) : Parent(p)[i] = p[i]
    BY <1>1, ParentOf
  <2>2. ASSUME NEW k \in 0..(Len(Parent(p)) - 1)
        PROVE  NodeAt(f, SubSeq(Parent(p), 1, k)) = Dir
    <3>1. /\ k \in Nat /\ k <= Len(Parent(p)) /\ k <= Len(p) /\ k \in 0..(Len(p) - 1)
          /\ \A i \in 1..k : Parent(p)[i] = p[i]
      BY <1>1, <2>1
    <3>2. SubSeq(Parent(p), 1, k) = SubSeq(p, 1, k)
      BY <1>1, <2>1, <3>1, SamePrefix
    <3> QED
      BY <1>3, <3>1, <3>2
  <2>3. NodeAt(f, Parent(p)).kind = "dir"
    BY <1>6 DEF Dir
  <2> QED
    BY <2>1, <2>2, <2>3 DEF Reals, Real
<1> QED
    BY <1>2, <1>4, <1>6, <1>7

\* A directory inside the root that no link leads to.
Place(f, d) == d \in Reals(f) /\ NodeAt(f, d) = Dir /\ Inside(d)

\* lstat of something in such a directory.
LEMMA LStatThere ==
    ASSUME NEW f \in FileSystems, NEW p \in Named, Place(f, Parent(p))
    PROVE  LStat(f, p) = NodeAt(f, p)
<1>1. p = Append(Parent(p), p[Len(p)]) /\ Parent(p) \in Seq(Components)
    BY ParentOf DEF Named
<1>2. Resolve(f, Parent(p)) = Parent(p) /\ Parent(p) # None
    BY <1>1, RealResolves, PathsTyped DEF Place
<1> QED
    BY <1>1, <1>2 DEF LStat, Place

\* The children of a directory are paths below it.
LEMMA ChildrenBelow ==
    ASSUME fs \in FileSystems, NEW d \in Seq(Components), NEW c \in Children(d)
    PROVE  /\ c \in Named /\ Parent(c) = d
           /\ \E x \in Components : c = Append(d, x)
           /\ Inside(d) => Inside(c)
           /\ IsPre(d, c)
<1> DEFINE at == Resolve(fs, d)
<1>1. PICK q \in DOMAIN fs : /\ Parent(q) = at /\ (at = <<>> => Inside(q)) /\ fs[q] # Absent
                             /\ c = Append(d, q[Len(q)])
    BY DEF Children
<1>2. q \in Seq(Components) /\ q # <<>>
    BY <1>1, PathsTyped DEF FileSystems
<1>3. q[Len(q)] \in Components /\ q = Append(Parent(q), q[Len(q)])
    BY <1>2, ParentOf
<1>4. /\ c \in Seq(Components) /\ c # <<>> /\ Len(c) = Len(d) + 1 /\ Len(d) \in Nat
      /\ \A i \in 1..Len(d) : c[i] = d[i]
    BY <1>1, <1>3, AppendProperties, LenProperties
<1>5. Parent(c) = d
  <2>1. Len(c) - 1 = Len(d) /\ Len(d) <= Len(c) /\ Len(d) <= Len(d)
    BY <1>4
  <2>2. SubSeq(c, 1, Len(d)) = SubSeq(d, 1, Len(d))
    BY <1>4, <2>1, SamePrefix
  <2> QED
    BY <2>1, <2>2, WholePrefix DEF Parent
<1>6. ASSUME Inside(d) PROVE Inside(c)
  <2>1. CASE d = <<>>
    <3>1. at = <<>>
      BY <2>1, ResolveSteps
    <3>2. c = q
      BY <1>1, <1>3, <2>1, <3>1
    <3> QED
      BY <1>1, <3>1, <3>2
  <2>2. CASE d # <<>>
    <3>1. 1 \in 1..Len(d)
      BY <1>4, <2>2, EmptySeq
    <3> QED
      BY <1>4, <1>6, <2>2, <3>1 DEF Inside
  <2> QED
    BY <2>1, <2>2
<1>7. IsPre(d, c)
    BY <1>4 DEF IsPre
<1> QED
    BY <1>1, <1>3, <1>4, <1>5, <1>6, <1>7 DEF Named

\* Whatever is below a directory is below one of its children.
LEMMA BelowSomeChild ==
    ASSUME fs \in FileSystems, WellFormed(fs), NEW d, Place(fs, d),
           NEW p \in Paths, fs[p] # Absent, IsPre(d, p), d # p
    PROVE  \E c \in Children(d) : IsPre(c, p)
<1> DEFINE k == Len(d) + 1
           c == SubSeq(p, 1, k)
<1>1. /\ p \in Seq(Components) /\ d \in Seq(Components) /\ Len(p) \in Nat /\ Len(d) \in Nat
      /\ Len(d) <= Len(p) /\ \A i \in 1..Len(d) : d[i] = p[i]
    BY PathsTyped, LenProperties DEF Place, Reals, IsPre
<1>2. Len(d) # Len(p)
  <2>1. ASSUME Len(d) = Len(p) PROVE d = p
    BY <1>1, <2>1, SeqEqual
  <2> QED
    BY <2>1
<1>3. k \in Nat /\ k \in 1..Len(p) /\ k <= Len(p) /\ k - 1 = Len(d)
    BY <1>1, <1>2
<1>4. \A i \in 1..k : p[i] \in Components
    BY <1>1, <1>3, ElementOfSeq
<1>5. c \in Seq(Components) /\ Len(c) = k /\ \A i \in 1..k : c[i] = p[i]
    BY <1>3, <1>4, PrefixElements
<1>6. c \in Paths /\ fs[c] # Absent
    BY <1>3, PresentBelow
<1> HIDE DEF k, c
<1>7. c # <<>> /\ c[Len(c)] \in Components
    BY <1>3, <1>5, EmptySeq, ParentOf
<1>8. Parent(c) = d
  <2>1. /\ Len(d) <= Len(c) /\ Len(d) <= Len(d)
        /\ \A i \in 1..Len(d) : c[i] = d[i]
    BY <1>1, <1>3, <1>5
  <2>2. SubSeq(c, 1, Len(d)) = SubSeq(d, 1, Len(d))
    BY <1>1, <1>5, <2>1, SamePrefix
  <2>3. Len(c) - 1 = Len(d)
    BY <1>3, <1>5
  <2> QED
    BY <1>1, <2>2, <2>3, WholePrefix DEF Parent
<1>9. c = Append(d, c[Len(c)])
    BY <1>5, <1>7, <1>8, ParentOf
<1>10. Resolve(fs, d) = d /\ Inside(c)
    BY <1>6, RealResolves, PathsAssumption DEF Place
<1>11. c \in Children(d)
  <2>1. c \in DOMAIN fs
    BY <1>6 DEF FileSystems
  <2> QED
    BY <1>6, <1>8, <1>9, <1>10, <2>1 DEF Children
<1>12. IsPre(c, p)
    BY <1>1, <1>3, <1>5 DEF IsPre
<1> QED
    BY <1>11, <1>12

\* Where nothing is different on the way, a path stays what it is.
LEMMA SteadyReal ==
    ASSUME NEW f, NEW g, NEW p \in Seq(Components),
           \A k \in 0..Len(p) : NodeAt(f, SubSeq(p, 1, k)) = NodeAt(g, SubSeq(p, 1, k))
    PROVE  /\ NodeAt(f, p) = NodeAt(g, p)
           /\ p \in Reals(f) <=> p \in Reals(g)
<1>1. Len(p) \in Nat /\ SubSeq(p, 1, Len(p)) = p
    BY LenProperties, WholePrefix
<1>2. NodeAt(f, p) = NodeAt(g, p)
  <2>1. Len(p) \in 0..Len(p)
    BY <1>1
  <2> QED
    BY <1>1, <2>1
<1>3. \A k \in 0..(Len(p) - 1) : NodeAt(f, SubSeq(p, 1, k)) = NodeAt(g, SubSeq(p, 1, k))
  <2>1. \A k \in 0..(Len(p) - 1) : k \in 0..Len(p)
    BY <1>1
  <2> QED
    BY <2>1
<1> QED
    BY <1>2, <1>3 DEF Reals, Real

\* A change on no part of the way.
LEMMA ChangeElsewhere ==
    ASSUME fs \in FileSystems, NEW q \in Paths, NEW node, fs' = [fs EXCEPT ![q] = node],
           q \in touched', NEW p \in Seq(Components), Untouched(p)'
    PROVE  /\ NodeAt(fs', p) = NodeAt(fs, p)
           /\ p \in Reals(fs') <=> p \in Reals(fs)
           /\ p \in Paths => fs'[p] = fs[p]
<1>1. ASSUME NEW k \in 0..Len(p) PROVE NodeAt(fs', SubSeq(p, 1, k)) = NodeAt(fs, SubSeq(p, 1, k))
  <2>1. CASE k = 0
    <3>1. SubSeq(p, 1, k) = <<>>
      BY <2>1, SubSeqEmpty
    <3> QED
      BY <3>1 DEF NodeAt
  <2>2. CASE k # 0
    <3>1. k \in 1..Len(p)
      BY <2>2, LenProperties
    <3>2. SubSeq(p, 1, k) # q
      BY <3>1 DEF Untouched
    <3> QED
      BY <3>2 DEF NodeAt, FileSystems
  <2> QED
    BY <2>1, <2>2
<1>2. PICK g : g = fs'
    OBVIOUS
<1>3. \A k \in 0..Len(p) : NodeAt(g, SubSeq(p, 1, k)) = NodeAt(fs, SubSeq(p, 1, k))
    BY <1>1, <1>2
<1>4. NodeAt(g, p) = NodeAt(fs, p) /\ (p \in Reals(g) <=> p \in Reals(fs))
    BY <1>3, SteadyReal
<1>5. p \in Paths => fs'[p] = fs[p]
  <2> SUFFICES ASSUME p \in Paths PROVE p # q
    BY DEF FileSystems
  <2>1. Len(p) \in 1..Len(p) /\ SubSeq(p, 1, Len(p)) = p
    <3>1. Len(p) \in Nat \ {0}
      BY EmptySeq, PathsTyped
    <3> QED
      BY <3>1, WholePrefix
  <2> QED
    BY <2>1 DEF Untouched
<1> QED
    BY <1>2, <1>4, <1>5

-----------------------------------------------------------------------------
(* The children yet to be visited *)

Todo(st) == {c \in Named : \E i \in 1..Len(st) : \E j \in 1..Len(st[i]) : c = st[i][j]}

\* They are visited in their order: those of a directory from the first to the
\* last, those of an inner directory before the rest of an outer one.
StackOrdered(st) ==
    /\ \A i, k \in 1..Len(st) : i < k =>
         \A j \in 1..Len(st[k]), l \in 1..Len(st[i]) : Apart(st[k][j], st[i][l])
    /\ \A i \in 1..Len(st) : \A j, l \in 1..Len(st[i]) : j < l => Apart(st[i][j], st[i][l])

\* The next child, and those after it.
LEMMA TodoNext ==
    ASSUME stack \in Seq(Seq(Named)), stack # <<>>, stack[Len(stack)] # <<>>, StackOrdered(stack)
    PROVE  /\ Child \in Todo(stack)
           /\ Todo(stack) \subseteq Todo(Visited) \cup {Child}
           /\ Todo(Visited) \subseteq Todo(stack)
           /\ \A c \in Todo(Visited) : Apart(Child, c)
           /\ StackOrdered(Visited)
<1> DEFINE n == Len(stack)
           v == Visited
           top == stack[n]
<1>1. /\ Child \in Named /\ v \in Seq(Seq(Named)) /\ Len(v) = n /\ n \in Nat \ {0}
      /\ \A i \in 1..(n - 1) : v[i] = stack[i]
      /\ v[n] = Tail(top)
    BY NextChild
<1>2. top \in Seq(Named) /\ top # <<>>
    BY <1>1, ElementOfSeq
<1>3. /\ Len(top) \in Nat \ {0} /\ Len(v[n]) = Len(top) - 1
      /\ \A j \in 1..(Len(top) - 1) : v[n][j] = top[j + 1]
      /\ Child = top[1]
  <2>1. Len(top) \in Nat \ {0} /\ Len(Tail(top)) = Len(top) - 1
        /\ \A j \in 1..Len(Tail(top)) : Tail(top)[j] = top[j + 1]
    BY <1>2, HeadTailProperties, EmptySeq
  <2> QED
    BY <1>1, <1>2, <2>1 DEF Child
<1>4. \A i \in 1..n : stack[i] \in Seq(Named) /\ v[i] \in Seq(Named) /\ Len(stack[i]) \in Nat
    BY <1>1, ElementOfSeq, LenProperties
<1> HIDE DEF v, top
<1>5. \A i \in 1..n : i # n => v[i] = stack[i]
    BY <1>1
<1>6. \A j \in 1..Len(v[n]) : j + 1 \in 1..Len(top) /\ v[n][j] = top[j + 1] /\ 1 < j + 1
    BY <1>3
<1>7. Child \in Todo(stack)
  <2>1. n \in 1..n /\ 1 \in 1..Len(top)
    BY <1>1, <1>3
  <2> QED
    BY <1>1, <1>3, <2>1 DEF Todo, top
<1>8. ASSUME NEW c \in Todo(stack) PROVE c \in Todo(v) \cup {Child}
  <2>1. PICK i \in 1..n : \E j \in 1..Len(stack[i]) : c = stack[i][j] /\ c \in Named
    BY DEF Todo
  <2>0. PICK j \in 1..Len(stack[i]) : c = stack[i][j] /\ c \in Named
    BY <2>1
  <2>2. CASE i # n
    BY <1>1, <1>5, <2>0, <2>2 DEF Todo
  <2>3. CASE i = n /\ j # 1
    <3>1. j - 1 \in 1..Len(v[n]) /\ j - 1 + 1 = j
      BY <1>3, <2>0, <2>3 DEF top
    <3>2. v[n][j - 1] = c
      BY <1>6, <2>0, <2>3, <3>1 DEF top
    <3> QED
      BY <1>1, <2>0, <2>3, <3>1, <3>2 DEF Todo
  <2>4. CASE i = n /\ j = 1
    BY <1>3, <2>0, <2>4 DEF top
  <2> QED
    BY <2>2, <2>3, <2>4
<1>9. ASSUME NEW c \in Todo(v) PROVE c \in Todo(stack) /\ Apart(Child, c)
  <2>1. PICK i \in 1..n : \E j \in 1..Len(v[i]) : c = v[i][j] /\ c \in Named
    BY <1>1 DEF Todo
  <2>0. PICK j \in 1..Len(v[i]) : c = v[i][j] /\ c \in Named
    BY <2>1
  <2>2. CASE i # n
    <3>1. v[i] = stack[i] /\ i < n /\ 1 \in 1..Len(stack[n]) /\ n \in 1..n
      BY SMTT(30), <1>1, <1>3, <1>5, <2>2 DEF top
    <3>2. Apart(stack[n][1], stack[i][j])
      BY <2>0, <3>1 DEF StackOrdered
    <3> QED
      BY <1>3, <2>0, <3>1, <3>2 DEF Todo, top
  <2>3. CASE i = n
    <3>1. j + 1 \in 1..Len(top) /\ c = top[j + 1] /\ 1 < j + 1 /\ 1 \in 1..Len(top)
      BY <1>3, <1>6, <2>0, <2>3
    <3>2. Apart(top[1], top[j + 1])
      BY <1>1, <3>1 DEF StackOrdered, top
    <3>3. /\ n \in 1..Len(stack) /\ j + 1 \in 1..Len(stack[n])
          /\ c = stack[n][j + 1] /\ c \in Named
      BY <1>1, <1>3, <2>0, <3>1 DEF top
    <3>4. c \in Todo(stack)
      BY <3>3 DEF Todo
    <3> QED
      BY <1>3, <3>1, <3>2, <3>4
  <2> QED
    BY <2>2, <2>3
<1>10. StackOrdered(v)
  <2>1. ASSUME NEW i \in 1..n, NEW k \in 1..n, i < k,
               NEW j \in 1..Len(v[k]), NEW l \in 1..Len(v[i])
        PROVE  Apart(v[k][j], v[i][l])
    <3>1. i # n /\ v[i] = stack[i]
      BY <1>1, <1>5, <2>1
    <3>2. CASE k # n
      BY <1>5, <2>1, <3>1, <3>2 DEF StackOrdered
    <3>3. CASE k = n
      <4>1. j + 1 \in 1..Len(stack[n]) /\ v[n][j] = stack[n][j + 1]
        BY <1>6, <2>1, <3>3 DEF top
      <4>2. Apart(stack[n][j + 1], stack[i][l])
        BY <2>1, <3>1, <3>3, <4>1 DEF StackOrdered
      <4> QED
        BY <3>1, <3>3, <4>1, <4>2
    <3> QED
      BY <3>2, <3>3
  <2>2. ASSUME NEW i \in 1..n, NEW j \in 1..Len(v[i]), NEW l \in 1..Len(v[i]), j < l
        PROVE  Apart(v[i][j], v[i][l])
    <3>1. CASE i # n
      BY <1>5, <2>2, <3>1 DEF StackOrdered
    <3>2. CASE i = n
      <4>1. /\ j + 1 \in 1..Len(stack[n]) /\ v[n][j] = stack[n][j + 1]
            /\ l + 1 \in 1..Len(stack[n]) /\ v[n][l] = stack[n][l + 1] /\ j + 1 < l + 1
        BY <1>6, <2>2, <3>2 DEF top
      <4>2. Apart(stack[n][j + 1], stack[n][l + 1])
        BY SMTT(30), <1>1, <4>1 DEF StackOrdered
      <4> QED
        BY <3>2, <4>1, <4>2
    <3> QED
      BY <3>1, <3>2
  <2> QED
    BY <1>1, <2>1, <2>2 DEF StackOrdered
<1> QED
    BY <1>7, <1>8, <1>9, <1>10 DEF v

\* The children of a directory come before what is there.
LEMMA TodoMore ==
    ASSUME NEW st \in Seq(Seq(Named)), StackOrdered(st), NEW s \in Seq(Named),
           \A j, l \in 1..Len(s) : j < l => Apart(s[j], s[l]),
           \A j \in 1..Len(s), c \in Todo(st) : Apart(s[j], c)
    PROVE  /\ Todo(Append(st, s)) = Todo(st) \cup {s[j] : j \in 1..Len(s)}
           /\ StackOrdered(Append(st, s))
<1> DEFINE t == Append(st, s)
           n == Len(st)
<1>1. n \in Nat /\ Len(t) = n + 1 /\ t[n + 1] = s /\ \A i \in 1..n : t[i] = st[i]
    BY AppendProperties, LenProperties
<1> HIDE DEF t, n
<1>2. ASSUME NEW i \in 1..(n + 1)
      PROVE  \/ i = n + 1 /\ t[i] = s
             \/ i \in 1..n /\ t[i] = st[i] /\ i < n + 1
  <2>1. CASE i = n + 1
    BY <1>1, <2>1
  <2>2. CASE i # n + 1
    <3>1. i \in 1..n /\ i < n + 1
      BY <1>1, <2>2
    <3> QED
      BY <1>1, <3>1
  <2> QED
    BY <2>1, <2>2
<1>3. /\ \A i \in 1..n : i \in 1..(n + 1)
      /\ n + 1 \in 1..(n + 1)
      /\ \A j \in 1..Len(s) : s[j] \in Named
  <2>1. \A j \in 1..Len(s) : s[j] \in Named
    BY ElementOfSeq
  <2> QED
    BY <1>1, <2>1
<1>4. Todo(t) \subseteq Todo(st) \cup {s[j] : j \in 1..Len(s)}
  <2> SUFFICES ASSUME NEW c \in Todo(t) PROVE c \in Todo(st) \cup {s[j] : j \in 1..Len(s)}
    OBVIOUS
  <2>1. PICK i \in 1..(n + 1) : \E j \in 1..Len(t[i]) : c = t[i][j] /\ c \in Named
    BY <1>1 DEF Todo
  <2>0. PICK j \in 1..Len(t[i]) : c = t[i][j] /\ c \in Named
    BY <2>1
  <2> QED
    BY <1>2, <2>0 DEF Todo, n
<1>5. Todo(st) \subseteq Todo(t)
  <2> SUFFICES ASSUME NEW c \in Todo(st) PROVE c \in Todo(t)
    OBVIOUS
  <2>1. PICK i \in 1..n : \E j \in 1..Len(st[i]) : c = st[i][j] /\ c \in Named
    BY DEF Todo, n
  <2>0. PICK j \in 1..Len(st[i]) : c = st[i][j] /\ c \in Named
    BY <2>1
  <2> QED
    BY <1>1, <1>3, <2>0 DEF Todo
<1>6. {s[j] : j \in 1..Len(s)} \subseteq Todo(t)
    BY <1>1, <1>3 DEF Todo
<1>7. StackOrdered(t)
  <2>1. ASSUME NEW i \in 1..(n + 1), NEW k \in 1..(n + 1), i < k,
               NEW j \in 1..Len(t[k]), NEW l \in 1..Len(t[i])
        PROVE  Apart(t[k][j], t[i][l])
    <3>1. i \in 1..n /\ t[i] = st[i]
      BY <1>1, <2>1
    <3>2. CASE k \in 1..n
      BY <1>1, <2>1, <3>1, <3>2 DEF StackOrdered, n
    <3>3. CASE k = n + 1
      <4>1. st[i] \in Seq(Named)
        BY <3>1, ElementOfSeq DEF n
      <4>2. st[i][l] \in Named
        BY <2>1, <3>1, <4>1, ElementOfSeq
      <4>3. st[i][l] \in Todo(st)
        BY <2>1, <3>1, <4>2 DEF Todo, n
      <4> QED
        BY <1>1, <2>1, <3>1, <3>3, <4>3
    <3> QED
      BY <1>2, <3>2, <3>3
  <2>2. ASSUME NEW i \in 1..(n + 1), NEW j \in 1..Len(t[i]), NEW l \in 1..Len(t[i]), j < l
        PROVE  Apart(t[i][j], t[i][l])
    BY <1>2, <2>2 DEF StackOrdered, n
  <2> QED
    BY <1>1, <2>1, <2>2 DEF StackOrdered
<1> QED
    BY <1>4, <1>5, <1>6, <1>7 DEF t

\* A directory that has been visited leaves nothing.
LEMMA TodoLess ==
    ASSUME NEW st \in Seq(Seq(Named)), st # <<>>, st[Len(st)] = <<>>, StackOrdered(st)
    PROVE  Todo(Parent(st)) = Todo(st) /\ StackOrdered(Parent(st))
<1> DEFINE t == Parent(st)
           n == Len(st)
<1>1. /\ t \in Seq(Seq(Named)) /\ Len(t) = n - 1 /\ n \in Nat \ {0}
      /\ \A i \in 1..(n - 1) : t[i] = st[i]
    BY ParentOf
<1>2. Len(st[n]) = 0
    BY EmptySeq
<1> HIDE DEF t, n
<1>3. \A i \in 1..n : i = n \/ i \in 1..(n - 1)
    BY <1>1
<1>4. \A i \in 1..(n - 1) : i \in 1..n
    BY <1>1
<1>5. Todo(t) \subseteq Todo(st)
    BY <1>1, <1>4 DEF Todo, n
<1>6. Todo(st) \subseteq Todo(t)
  <2> SUFFICES ASSUME NEW c \in Todo(st) PROVE c \in Todo(t)
    OBVIOUS
  <2>1. PICK i \in 1..n : \E j \in 1..Len(st[i]) : c = st[i][j] /\ c \in Named
    BY DEF Todo, n
  <2>0. PICK j \in 1..Len(st[i]) : c = st[i][j] /\ c \in Named
    BY <2>1
  <2>2. i # n
    BY <1>2, <2>1
  <2> QED
    BY <1>1, <1>3, <2>0, <2>2 DEF Todo
<1>7. StackOrdered(t)
    BY <1>1, <1>4 DEF StackOrdered, n
<1> QED
    BY <1>5, <1>6, <1>7 DEF t

-----------------------------------------------------------------------------
(* What the walk keeps *)

Current ==
    IF pc = "read_dir" THEN {dir}
    ELSE IF pc \in {"canonicalize", "target"} THEN {link.path}
    ELSE {}

\* What has been collected comes before what is being examined, and that before
\* what is yet to be visited.
OrderInv ==
    /\ StackOrdered(stack)
    /\ \A i, j \in 1..Len(out) : i < j => Apart(out[i], out[j])
    /\ \A i \in 1..Len(out), c \in Current \cup Todo(stack) : Apart(out[i], c)
    /\ \A x \in Current, c \in Todo(stack) : Apart(x, c)

\* Where nothing has been touched, directories that are or were read are there
\* and are no links, and what was collected is what it was collected as.
PlaceInv ==
    /\ WellFormed(fs)
    /\ \A c \in Current \cup Todo(stack) : Inside(c)
    /\ pc = "read_dir" /\ Untouched(dir) => Place(fs, dir)
    /\ \A c \in Todo(stack) : Untouched(Parent(c)) => Place(fs, Parent(c))
    /\ pc \in {"canonicalize", "target"} /\ Untouched(link.path) =>
         link.path \in Paths /\ fs[link.path].kind = "link"
    /\ pc = "target" /\ touched = {} =>
         link.target = Resolve(fs, link.path) /\ Inside(link.target)
    /\ \A i \in 1..Len(out) :
         Untouched(out[i]) => out[i] \in Paths /\ fs[out[i]].kind \in {"file", "link"}
    /\ touched = {} => \A i \in 1..Len(out) : out[i] \in Measurable(fs)

\* What has to be measured is collected, or the walk will come to it.
Wanted(p) ==
    \/ Untouched(p) /\ fs[p].kind = "file"
    \/ touched = {} /\ p \in Measurable(fs)
Found(p) ==
    \/ \E i \in 1..Len(out) : out[i] = p
    \/ pc = "read_dir" /\ IsPre(dir, p) /\ dir # p
    \/ pc \in {"canonicalize", "target"} /\ link.path = p
    \/ \E c \in Todo(stack) : IsPre(c, p)
FoundInv == pc \notin {"start", "internal"} => \A p \in Paths : Wanted(p) => Found(p)

WalkInv ==
    /\ FolderTypes /\ OrderInv /\ PlaceInv /\ FoundInv
    /\ pc = "start" => stack = <<>> /\ out = <<>>
    /\ pc \in {"read", "ok"} => stack = <<>>

\* Nothing is to do on an empty stack.
LEMMA TodoNone == Todo(<<>>) = {} /\ StackOrdered(<<>>) /\ Len(<<>>) = 0
    BY EmptySeq DEF Todo, StackOrdered

\* What is wanted is there, and nothing on the way to it has been touched.
LEMMA WantedThere ==
    ASSUME FolderTypes, NEW p \in Paths, Wanted(p)
    PROVE  /\ fs[p] # Absent /\ Untouched(p) /\ p \in Named
           /\ fs[p].kind \in {"file", "link"}
           /\ fs[p].kind = "link" => touched = {} /\ p \in Measurable(fs)
<1>1. p \in Named /\ fs \in FileSystems
    BY PathsTyped DEF Named, FolderTypes
<1>2. touched = {} => Untouched(p)
    BY DEF Untouched
<1> QED
    BY <1>1, <1>2 DEF Wanted, Measurable, Absent

\* At first.
LEMMA WalkInit == Init => WalkInv
<1> SUFFICES ASSUME Init PROVE WalkInv
    OBVIOUS
<1>1. FolderTypes
    BY FolderInit
<1>2. WellFormed(fs)
    BY DEF Init, InitFs
<1>3. pc = "start" /\ stack = <<>> /\ out = <<>> /\ Current = {}
    BY DEF Init, Current
<1>4. OrderInv
    BY <1>3, TodoNone DEF OrderInv
<1>5. PlaceInv
    BY <1>2, <1>3, TodoNone DEF PlaceInv
<1> QED
    BY <1>1, <1>3, <1>4, <1>5 DEF WalkInv, FoundInv

\* A change of the file system.
LEMMA WalkChange ==
    ASSUME WalkInv, NEW q \in Paths, NEW node \in Nodes, Change(q, node)
    PROVE  WalkInv'
<1>1. FolderTypes /\ FolderTypes'
    BY FolderChange DEF WalkInv
<1>2. /\ UNCHANGED <<pc, dir, stack, link, out>>
      /\ fs' = [fs EXCEPT ![q] = node] /\ WellFormed(fs')
      /\ pc # "start" => touched' = touched \cup {q}
    BY DEF Change, walkVars
<1>3. OrderInv' /\ Current' = Current
    BY <1>2 DEF WalkInv, OrderInv, Current
<1>4. CASE pc = "start"
  <2>1. stack = <<>> /\ out = <<>> /\ Current = {}
    BY <1>4 DEF WalkInv, Current
  <2>2. PlaceInv'
    BY <1>2, <1>3, <1>4, <2>1, TodoNone DEF PlaceInv
  <2> QED
    BY <1>1, <1>2, <1>3, <1>4, <2>1, <2>2 DEF WalkInv, FoundInv
<1>5. CASE pc # "start"
  <2>1. q \in touched' /\ touched' # {} /\ fs \in FileSystems
    BY <1>1, <1>2, <1>5 DEF FolderTypes
  <2>2. ASSUME NEW p \in Seq(Components), Untouched(p)'
        PROVE  /\ Untouched(p)
               /\ NodeAt(fs', p) = NodeAt(fs, p)
               /\ p \in Reals(fs') <=> p \in Reals(fs)
               /\ p \in Paths => fs'[p] = fs[p]
    <3>1. Untouched(p)
      BY <1>2, <1>5, <2>2 DEF Untouched
    <3> QED
      BY <1>2, <2>1, <2>2, <3>1, ChangeElsewhere
  <2>3. ASSUME NEW p \in Seq(Components), Untouched(p)', Untouched(p) => Place(fs, p)
        PROVE  Place(fs', p)
    BY <2>2, <2>3 DEF Place
  <2>4. PlaceInv'
    <3> USE DEF WalkInv, PlaceInv
    <3>1. WellFormed(fs')
      BY <1>2
    <3>2. (\A c \in Current \cup Todo(stack) : Inside(c))'
      BY <1>2, <1>3
    <3>3. (pc = "read_dir" /\ Untouched(dir) => Place(fs, dir))'
      <4> SUFFICES ASSUME pc = "read_dir", Untouched(dir)' PROVE Place(fs', dir)
        BY <1>2
      <4>1. dir \in Seq(Components)
        BY <1>1 DEF FolderTypes
      <4>2. PICK d : d = dir
        OBVIOUS
      <4>3. Untouched(d)' /\ (Untouched(d) => Place(fs, d)) /\ d \in Seq(Components)
        BY <1>2, <4>1, <4>2
      <4>4. Place(fs', d)
        BY <2>3, <4>3
      <4> QED
        BY <4>2, <4>4
    <3>4. (\A c \in Todo(stack) : Untouched(Parent(c)) => Place(fs, Parent(c)))'
      <4> SUFFICES ASSUME NEW c \in Todo(stack), Untouched(Parent(c))' PROVE Place(fs', Parent(c))
        BY <1>2
      <4>1. Parent(c) \in Seq(Components)
        BY ParentOf DEF Todo, Named
      <4>2. PICK d : d = Parent(c)
        OBVIOUS
      <4>3. Untouched(d)' /\ (Untouched(d) => Place(fs, d)) /\ d \in Seq(Components)
        BY <4>1, <4>2
      <4>4. Place(fs', d)
        BY <2>3, <4>3
      <4> QED
        BY <4>2, <4>4
    <3>5. (pc \in {"canonicalize", "target"} /\ Untouched(link.path) =>
             link.path \in Paths /\ fs[link.path].kind = "link")'
      <4> SUFFICES ASSUME pc \in {"canonicalize", "target"}, Untouched(link.path)'
                   PROVE  link.path \in Paths /\ fs'[link.path].kind = "link"
        BY <1>2
      <4>1. link.path \in Seq(Components)
        BY <1>1 DEF FolderTypes, Named
      <4>2. PICK d : d = link.path
        OBVIOUS
      <4>3. Untouched(d)' /\ d \in Seq(Components)
        BY <1>2, <4>1, <4>2
      <4>4. Untouched(d) /\ (d \in Paths => fs'[d] = fs[d])
        BY <2>2, <4>3
      <4> QED
        BY <4>2, <4>4
    <3>6. (\A i \in 1..Len(out) :
             Untouched(out[i]) => out[i] \in Paths /\ fs[out[i]].kind \in {"file", "link"})'
      <4> SUFFICES ASSUME NEW i \in 1..Len(out), Untouched(out[i])'
                   PROVE  out[i] \in Paths /\ fs'[out[i]].kind \in {"file", "link"}
        BY <1>2
      <4>1. out[i] \in Seq(Components)
        <5>1. out[i] \in Named
          BY <1>1, ElementOfSeq DEF FolderTypes
        <5> QED
          BY <5>1 DEF Named
      <4>2. PICK d : d = out[i]
        OBVIOUS
      <4>3. Untouched(d)' /\ d \in Seq(Components)
        BY <1>2, <4>1, <4>2
      <4>4. Untouched(d) /\ (d \in Paths => fs'[d] = fs[d])
        BY <2>2, <4>3
      <4> QED
        BY <4>2, <4>4
    <3> QED
      BY <2>1, <3>1, <3>2, <3>3, <3>4, <3>5, <3>6
  <2>5. FoundInv'
    <3> SUFFICES ASSUME pc \notin {"start", "internal"}, NEW p \in Paths, Wanted(p)'
                 PROVE  Found(p)'
      BY <1>2 DEF FoundInv
    <3>1. Untouched(p)' /\ fs'[p].kind = "file"
      BY <2>1 DEF Wanted
    <3>2. Untouched(p) /\ fs'[p] = fs[p]
      BY <2>2, <3>1, PathsTyped
    <3>3. Found(p)
      BY <3>1, <3>2 DEF WalkInv, FoundInv, Wanted
    <3> QED
      BY <1>2, <3>3 DEF Found
  <2> QED
    BY <1>1, <1>2, <1>3, <1>5, <2>4, <2>5 DEF WalkInv
<1> QED
    BY <1>4, <1>5

\* A step that ends the measurement, or begins it.
LEMMA WalkEnds ==
    ASSUME WalkInv, Start \/ IoError \/ VisitGone \/ ReadGone \/ Finish
    PROVE  WalkInv'
<1>1. FolderTypes /\ FolderTypes'
    BY FolderEnds DEF WalkInv
<1>2. UNCHANGED <<fs, touched, stack, link, out>>
    BY DEF Start, IoError, VisitGone, ReadGone, Finish, fsVars, walkVars
<1>3. \/ pc' = "internal" /\ dir' = dir
      \/ pc = "read" /\ pc' = "ok" /\ dir' = dir
      \/ pc = "start" /\ pc' = "read_dir" /\ dir' = <<>>
    BY DEF Start, IoError, VisitGone, ReadGone, Finish, walkVars
<1>4. CASE pc' = "internal" \/ (pc = "read" /\ pc' = "ok" /\ dir' = dir)
  <2>1. Current' = {}
    BY <1>4 DEF Current
  <2>2. OrderInv'
    BY <1>2, <2>1 DEF WalkInv, OrderInv
  <2>3. PlaceInv'
    BY <1>2, <1>4, <2>1 DEF WalkInv, PlaceInv, Untouched
  <2>4. FoundInv'
    BY <1>2, <1>4 DEF WalkInv, FoundInv, Wanted, Found, Untouched
  <2> QED
    BY <1>1, <1>2, <1>4, <2>2, <2>3, <2>4 DEF WalkInv
<1>5. CASE pc = "start" /\ pc' = "read_dir" /\ dir' = <<>>
  <2>1. stack' = <<>> /\ out' = <<>> /\ Current' = {<<>>}
    BY <1>2, <1>5 DEF WalkInv, Current
  <2>2. OrderInv'
    BY <2>1, TodoNone DEF OrderInv
  <2>3. Place(fs', <<>>) /\ WellFormed(fs')
    BY <1>2, RootReal DEF WalkInv, PlaceInv, Place, NodeAt, Inside
  <2>4. PlaceInv'
    BY <1>5, <2>1, <2>3, TodoNone DEF PlaceInv, Inside
  <2>5. FoundInv'
    <3> SUFFICES ASSUME NEW p \in Paths PROVE Found(p)'
      BY DEF FoundInv
    <3>1. IsPre(<<>>, p) /\ p # <<>>
      BY PathsTyped, PrefixOfItself
    <3> QED
      BY <1>5, <3>1 DEF Found
  <2> QED
    BY <1>1, <1>5, <2>2, <2>4, <2>5 DEF WalkInv
<1> QED
    BY <1>3, <1>4, <1>5

\* A directory is read.
LEMMA WalkReadDir ==
    ASSUME WalkInv, ReadDir
    PROVE  WalkInv'
<1>1. FolderTypes /\ FolderTypes'
    BY FolderReadDir DEF WalkInv
<1>2. UNCHANGED <<fs, touched, dir, link, out>> /\ pc = "read_dir"
    BY DEF ReadDir, fsVars
<1>3. /\ fs \in FileSystems /\ dir \in Seq(Components) /\ stack \in Seq(Seq(Named))
      /\ out \in Seq(Named)
    BY <1>1, <1>2 DEF FolderTypes
<1>4. Current = {dir}
    BY <1>2 DEF Current
<1>5. CASE pc' = "internal" /\ UNCHANGED stack
  <2>1. Current' = {}
    BY <1>5 DEF Current
  <2>2. OrderInv'
    BY <1>2, <1>5, <2>1 DEF WalkInv, OrderInv
  <2>3. PlaceInv'
    BY <1>2, <1>5, <2>1 DEF WalkInv, PlaceInv, Untouched
  <2> QED
    BY <1>1, <1>2, <1>5, <2>2, <2>3 DEF WalkInv, FoundInv
<1>6. CASE pc' = "visit" /\ stack' = Append(stack, Sorted(Children(dir), PathLess))
  <2> DEFINE s == Sorted(Children(dir), PathLess)
             n == Cardinality(Children(dir))
  <2>1. s \in Seq(Named) /\ Len(s) = n /\ Lists(s, Children(dir), PathOrder)
    BY <1>3, SortedChildren
  <2>2. /\ IsFiniteSet(Children(dir)) /\ Children(dir) \subseteq Named
        /\ Irreflexive(PathOrder, Children(dir))
    <3>1. IsFiniteSet(Children(dir)) /\ Children(dir) \subseteq Named
      BY <1>3, ChildrenTyped
    <3>2. Children(dir) \subseteq Seq(Seq(Nat))
      BY <3>1, PathsTyped DEF Named
    <3>3. \A a \in Seq(Seq(Nat)) : <<a, a>> \notin PathOrder
      BY PathsOrdered DEF Orders, Irreflexive
    <3> QED
      BY <3>1, <3>2, <3>3 DEF Irreflexive
  <2>3. \A x \in Children(dir) : \E j \in 1..n : s[j] = x
    BY <2>1, <2>2, ListsAll
  <2>4. /\ s \in [1..n -> Children(dir)]
        /\ \A j, l \in 1..n : j < l => <<s[j], s[l]>> \in PathOrder
    BY <2>1 DEF Lists
  <2> HIDE DEF s, n
  <2>5. {s[j] : j \in 1..Len(s)} = Children(dir)
    BY <2>1, <2>3, <2>4
  <2>6. ASSUME NEW c \in Children(dir)
        PROVE  /\ c \in Named /\ Parent(c) = dir /\ IsPre(dir, c) /\ c \in Seq(Components)
               /\ Inside(c) /\ \E x \in Components : c = Append(dir, x)
    <3>1. Inside(dir)
      BY <1>4 DEF WalkInv, PlaceInv
    <3> QED
      BY <1>3, <3>1, ChildrenBelow DEF Named
  <2>7. ASSUME NEW j \in 1..Len(s), NEW l \in 1..Len(s), j < l
        PROVE  Apart(s[j], s[l])
    <3>1. s[j] \in Children(dir) /\ s[l] \in Children(dir)
      BY <2>1, <2>4
    <3>2. PICK x \in Components : s[j] = Append(dir, x)
      BY <2>6, <3>1
    <3>3. PICK y \in Components : s[l] = Append(dir, y)
      BY <2>6, <3>1
    <3>4. <<s[j], s[l]>> \in PathOrder
      BY <2>1, <2>4, <2>7
    <3>5. Apart(Append(dir, x), Append(dir, y))
      BY <1>3, <3>2, <3>3, <3>4, SiblingsApart
    <3> QED
      BY <3>2, <3>3, <3>5
  <2>8. ASSUME NEW c \in Children(dir), NEW b \in Todo(stack)
        PROVE  Apart(c, b)
    <3>1. b \in Seq(Components) /\ IsPre(b, b)
      BY PrefixOfItself DEF Todo, Named
    <3>2. Apart(dir, b)
      BY <1>4 DEF WalkInv, OrderInv
    <3> QED
      BY <1>3, <2>6, <3>1, <3>2, ApartBelow
  <2>9. /\ Todo(stack') = Todo(stack) \cup Children(dir)
        /\ StackOrdered(stack')
    <3>1. \A j \in 1..Len(s), c \in Todo(stack) : Apart(s[j], c)
      BY <2>5, <2>8
    <3>2. StackOrdered(stack)
      BY DEF WalkInv, OrderInv
    <3>3. PICK st : st = Append(stack, s)
      OBVIOUS
    <3>4. Todo(st) = Todo(stack) \cup {s[j] : j \in 1..Len(s)} /\ StackOrdered(st)
      BY <1>3, <2>1, <2>7, <3>1, <3>2, <3>3, TodoMore
    <3>5. stack' = st
      BY <1>6, <3>3 DEF s
    <3> QED
      BY <2>5, <3>4, <3>5
  <2>10. Current' = {}
    BY <1>6 DEF Current
  <2>11. ASSUME NEW i \in 1..Len(out), NEW c \in Children(dir)
         PROVE  Apart(out[i], c)
    <3>1. out[i] \in Seq(Components) /\ IsPre(out[i], out[i])
      <4>1. out[i] \in Named
        BY <1>3, ElementOfSeq
      <4> QED
        BY <4>1, PrefixOfItself DEF Named
    <3>2. Apart(out[i], dir)
      BY <1>4 DEF WalkInv, OrderInv
    <3> QED
      BY <1>3, <2>6, <3>1, <3>2, ApartBelow
  <2>12. OrderInv'
    <3>1. \A i, j \in 1..Len(out) : i < j => Apart(out[i], out[j])
      BY DEF WalkInv, OrderInv
    <3>2. \A i \in 1..Len(out), c \in Todo(stack) \cup Children(dir) : Apart(out[i], c)
      BY <2>11 DEF WalkInv, OrderInv
    <3> QED
      BY <1>2, <2>9, <2>10, <3>1, <3>2 DEF OrderInv
  <2>13. PlaceInv'
    <3>1. \A c \in Children(dir) : Untouched(Parent(c)) => Place(fs, Parent(c))
      BY <1>2, <2>6 DEF WalkInv, PlaceInv
    <3>2. \A c \in Todo(stack) \cup Children(dir) :
            Inside(c) /\ (Untouched(Parent(c)) => Place(fs, Parent(c)))
      BY <2>6, <3>1 DEF WalkInv, PlaceInv
    <3>3. \A p : Untouched(p)' <=> Untouched(p)
      BY <1>2 DEF Untouched
    <3>4. (\A c \in Todo(stack) : Untouched(Parent(c)) => Place(fs, Parent(c)))'
      BY <1>2, <2>9, <3>2, <3>3
    <3>5. (\A c \in Current \cup Todo(stack) : Inside(c))'
      BY <2>9, <2>10, <3>2
    <3>6. (\A i \in 1..Len(out) :
             Untouched(out[i]) => out[i] \in Paths /\ fs[out[i]].kind \in {"file", "link"})'
      BY <1>2, <3>3 DEF WalkInv, PlaceInv
    <3>7. WellFormed(fs)' /\ (touched = {} => \A i \in 1..Len(out) : out[i] \in Measurable(fs))'
      BY <1>2 DEF WalkInv, PlaceInv
    <3> QED
      BY <1>6, <3>4, <3>5, <3>6, <3>7 DEF PlaceInv
  <2>14. FoundInv'
    <3> SUFFICES ASSUME NEW p \in Paths, Wanted(p)' PROVE Found(p)'
      BY DEF FoundInv
    <3>1. Wanted(p)
      BY <1>2 DEF Wanted, Untouched
    <3>2. Found(p)
      BY <1>2, <3>1 DEF WalkInv, FoundInv
    <3>3. CASE \E i \in 1..Len(out) : out[i] = p
      BY <1>2, <3>3 DEF Found
    <3>4. CASE \E c \in Todo(stack) : IsPre(c, p)
      BY <2>9, <3>4 DEF Found
    <3>5. CASE IsPre(dir, p) /\ dir # p
      <4>1. fs[p] # Absent /\ Untouched(p) /\ p \in Seq(Components)
        BY <1>1, <3>1, WantedThere DEF Named
      <4>2. Place(fs, dir) /\ WellFormed(fs)
        BY <1>2, <1>3, <3>5, <4>1, UntouchedPrefix DEF WalkInv, PlaceInv
      <4>3. \E c \in Children(dir) : IsPre(c, p)
        BY <1>3, <3>5, <4>1, <4>2, BelowSomeChild
      <4> QED
        BY <2>9, <4>3 DEF Found
    <3> QED
      BY <1>2, <3>2, <3>3, <3>4, <3>5 DEF Found
  <2> QED
    BY <1>1, <1>6, <2>12, <2>13, <2>14 DEF WalkInv
<1> QED
    BY <1>5, <1>6 DEF ReadDir

\* What lstat says of a child on an untouched path.
LEMMA ChildSeen ==
    ASSUME FolderTypes, PlaceInv, NEW c \in Todo(stack), Untouched(c)
    PROVE  /\ LStat(fs, c) = NodeAt(fs, c)
           /\ NodeAt(fs, c) # Absent => c \in Paths /\ NodeAt(fs, c) = fs[c]
           /\ NodeAt(fs, c) = Dir => Place(fs, c)
<1>1. c \in Named /\ c \in Seq(Components) /\ c # <<>> /\ Inside(c) /\ fs \in FileSystems
    BY DEF Todo, Named, PlaceInv, FolderTypes
<1>2. Place(fs, Parent(c))
  <2>1. Parent(c) \in Seq(Components) /\ IsPre(Parent(c), c)
    BY <1>1, ParentOf, PrefixOfItself
  <2>2. Untouched(Parent(c))
    BY <1>1, <2>1, UntouchedPrefix
  <2> QED
    BY <2>2 DEF PlaceInv
<1>3. LStat(fs, c) = NodeAt(fs, c)
    BY <1>1, <1>2, LStatThere
<1>4. ASSUME NodeAt(fs, c) # Absent PROVE c \in Paths /\ NodeAt(fs, c) = fs[c]
  <2>1. c \in DOMAIN fs /\ NodeAt(fs, c) = fs[c]
    BY <1>1, <1>4, NodesTyped
  <2> QED
    BY <1>1, <2>1, PathsAssumption DEF FileSystems
<1>5. ASSUME NodeAt(fs, c) = Dir PROVE Place(fs, c)
  <2>1. c \in Paths /\ fs[c] = Dir
    BY <1>4, <1>5 DEF Dir, Absent
  <2>2. fs[c] # Absent /\ fs[c].kind # "link"
    BY <2>1 DEF Dir, Absent
  <2>3. c \in Reals(fs)
    BY <1>1, <2>1, <2>2, PresentReal DEF PlaceInv
  <2> QED
    BY <1>1, <1>5, <2>3 DEF Place
<1> QED
    BY <1>3, <1>4, <1>5

\* A child on the way to what is wanted is that, or a directory it is in.
LEMMA ChildWanted ==
    ASSUME FolderTypes, PlaceInv, NEW c \in Todo(stack), NEW p \in Paths, Wanted(p), IsPre(c, p)
    PROVE  /\ c = p => LStat(fs, c).kind \in {"file", "link"}
           /\ c # p => LStat(fs, c).kind = "dir"
<1>1. /\ c \in Seq(Components) /\ p \in Seq(Components) /\ c # <<>> /\ fs \in FileSystems
      /\ fs[p] # Absent /\ Untouched(p) /\ fs[p].kind \in {"file", "link"}
    BY WantedThere DEF Todo, Named, FolderTypes
<1>2. LStat(fs, c) = NodeAt(fs, c)
    BY <1>1, UntouchedPrefix, ChildSeen
<1>3. c = p => NodeAt(fs, c) = fs[p]
    BY <1>1, PresentReal DEF PlaceInv
<1>4. ASSUME c # p PROVE NodeAt(fs, c) = Dir
  <2>1. /\ Len(c) \in Nat /\ Len(p) \in Nat /\ Len(c) <= Len(p)
        /\ \A i \in 1..Len(c) : c[i] = p[i]
    BY <1>1, LenProperties DEF IsPre
  <2>2. Len(c) # Len(p)
    <3>1. ASSUME Len(c) = Len(p) PROVE c = p
      BY <1>1, <2>1, <3>1, SeqEqual
    <3> QED
      BY <1>4, <3>1
  <2>3. Len(c) \in 0..(Len(p) - 1)
    BY <2>1, <2>2
  <2>4. SubSeq(p, 1, Len(c)) = SubSeq(c, 1, Len(c))
    <3>1. Len(c) <= Len(c) /\ \A i \in 1..Len(c) : p[i] = c[i]
      BY <2>1
    <3> QED
      BY <1>1, <2>1, <3>1, SamePrefix
  <2>5. NodeAt(fs, SubSeq(p, 1, Len(c))) = Dir
    BY <1>1, <2>3, PresentBelow DEF PlaceInv
  <2> QED
    BY <1>1, <2>4, <2>5, WholePrefix
<1> QED
    BY <1>1, <1>2, <1>3, <1>4 DEF Dir

\* A child is visited.
LEMMA WalkVisit ==
    ASSUME WalkInv, Visit
    PROVE  WalkInv'
<1>1. FolderTypes /\ FolderTypes'
    BY FolderVisit DEF WalkInv
<1>2. /\ UNCHANGED <<fs, touched>> /\ pc = "visit" /\ stack' = Visited
      /\ stack # <<>> /\ stack[Len(stack)] # <<>>
    BY DEF Visit, fsVars
<1>3. /\ fs \in FileSystems /\ stack \in Seq(Seq(Named)) /\ out \in Seq(Named)
    BY <1>1 DEF FolderTypes
<1> DEFINE c == Child
<1>4. /\ c \in Todo(stack)
      /\ Todo(stack) \subseteq Todo(stack') \cup {c}
      /\ Todo(stack') \subseteq Todo(stack)
      /\ \A b \in Todo(stack') : Apart(c, b)
      /\ StackOrdered(stack')
  <2>1. StackOrdered(stack)
    BY DEF WalkInv, OrderInv
  <2>2. PICK v : v = Visited
    OBVIOUS
  <2>3. /\ Child \in Todo(stack)
        /\ Todo(stack) \subseteq Todo(v) \cup {Child}
        /\ Todo(v) \subseteq Todo(stack)
        /\ \A b \in Todo(v) : Apart(Child, b)
        /\ StackOrdered(v)
    BY <1>2, <1>3, <2>1, <2>2, TodoNext
  <2> QED
    BY <1>2, <2>2, <2>3
<1>5. \/ /\ LStat(fs, c).kind = "dir" /\ pc' = "read_dir" /\ dir' = c
         /\ link' = link /\ out' = out
      \/ /\ LStat(fs, c).kind = "file" /\ pc' = "visit" /\ dir' = dir
         /\ link' = link /\ out' = Append(out, c)
      \/ /\ LStat(fs, c).kind = "link" /\ pc' = "canonicalize" /\ dir' = dir
         /\ link' = [path |-> c, target |-> None] /\ out' = out
      \/ /\ LStat(fs, c).kind = "special" /\ pc' = "visit" /\ dir' = dir
         /\ link' = link /\ out' = out
    BY <1>2 DEF Visit
<1>6. /\ c \in Named /\ c \in Seq(Components) /\ Inside(c)
      /\ Untouched(c) => /\ LStat(fs, c) = NodeAt(fs, c)
                         /\ NodeAt(fs, c) # Absent => c \in Paths /\ NodeAt(fs, c) = fs[c]
                         /\ NodeAt(fs, c) = Dir => Place(fs, c)
  <2>1. c \in Named /\ c \in Seq(Components) /\ Inside(c)
    BY <1>4 DEF Todo, Named, WalkInv, PlaceInv
  <2>2. PICK b \in Todo(stack) : b = c
    BY <1>4
  <2>3. Untouched(b) => /\ LStat(fs, b) = NodeAt(fs, b)
                        /\ NodeAt(fs, b) # Absent => b \in Paths /\ NodeAt(fs, b) = fs[b]
                        /\ NodeAt(fs, b) = Dir => Place(fs, b)
    BY <1>1, ChildSeen DEF WalkInv
  <2> QED
    BY <2>1, <2>2, <2>3
<1>7. ASSUME NEW p \in Paths, Wanted(p), IsPre(c, p)
      PROVE  /\ c = p => LStat(fs, c).kind \in {"file", "link"}
             /\ c # p => LStat(fs, c).kind = "dir"
  <2>1. PICK b \in Todo(stack) : b = c
    BY <1>4
  <2>2. /\ b = p => LStat(fs, b).kind \in {"file", "link"}
        /\ b # p => LStat(fs, b).kind = "dir"
    BY <1>1, <1>7, <2>1, ChildWanted DEF WalkInv
  <2> QED
    BY <2>1, <2>2
<1>8. /\ \A i, j \in 1..Len(out) : i < j => Apart(out[i], out[j])
      /\ \A i \in 1..Len(out), b \in Todo(stack) : Apart(out[i], b)
    BY DEF WalkInv, OrderInv
<1>9. PICK o, st : o = Append(out, c) /\ st = stack'
    OBVIOUS
<1>10. /\ Len(o) = Len(out) + 1 /\ o[Len(out) + 1] = c /\ Len(out) \in Nat
       /\ \A i \in 1..Len(out) : o[i] = out[i]
    BY <1>3, <1>6, <1>9, AppendProperties, LenProperties
<1> HIDE DEF c
<1>11. \A i \in 1..(Len(out) + 1) : i = Len(out) + 1 \/ (i \in 1..Len(out) /\ i < Len(out) + 1)
    BY <1>10
<1>12. Current' \subseteq {c} /\ (Current' # {} => out' = out)
    BY <1>5 DEF Current
<1>13. \A p : Untouched(p)' <=> Untouched(p)
    BY <1>2 DEF Untouched
<1>14. OrderInv'
  <2>1. CASE out' = out
    <3>1. \A i \in 1..Len(out), b \in {c} \cup Todo(stack') : Apart(out[i], b)
      BY <1>4, <1>8
    <3> QED
      BY <1>4, <1>8, <1>12, <2>1, <3>1 DEF OrderInv
  <2>2. CASE out' = Append(out, c) /\ Current' = {}
    <3>1. \A i, j \in 1..Len(o) : i < j => Apart(o[i], o[j])
      <4> SUFFICES ASSUME NEW i \in 1..Len(o), NEW j \in 1..Len(o), i < j
                   PROVE  Apart(o[i], o[j])
        OBVIOUS
      <4>1. i \in 1..Len(out) /\ o[i] = out[i]
        BY <1>10, <1>11
      <4>2. CASE j \in 1..Len(out)
        BY <1>8, <1>10, <4>1, <4>2
      <4>3. CASE j = Len(out) + 1
        BY <1>4, <1>8, <1>10, <4>1, <4>3
      <4> QED
        BY <1>10, <1>11, <4>2, <4>3
    <3>2. \A i \in 1..Len(o), b \in Todo(stack') : Apart(o[i], b)
      BY <1>4, <1>8, <1>10, <1>11
    <3> QED
      BY <1>4, <1>9, <2>2, <3>1, <3>2 DEF OrderInv
  <2> QED
    BY <1>5, <1>12, <2>1, <2>2 DEF Current
<1>15. ASSUME LStat(fs, c).kind \in {"file", "link"}, Untouched(c)
       PROVE  /\ c \in Paths /\ fs[c] = LStat(fs, c)
              /\ LStat(fs, c).kind = "file" => c \in Measurable(fs)
  <2>1. NodeAt(fs, c) # Absent
    BY <1>6, <1>15 DEF Absent
  <2> QED
    BY <1>6, <1>15, <2>1 DEF Measurable
<1>16. touched = {} => Untouched(c)
    BY DEF Untouched
<1>17. PlaceInv'
  <2> USE DEF WalkInv, PlaceInv
  <2>1. WellFormed(fs)' /\ (\A b \in Current \cup Todo(stack) : Inside(b))'
    BY <1>2, <1>4, <1>6, <1>12
  <2>2. (pc = "read_dir" /\ Untouched(dir) => Place(fs, dir))'
    <3> SUFFICES ASSUME pc' = "read_dir", Untouched(dir)' PROVE Place(fs', dir')
      OBVIOUS
    <3>1. dir' = c /\ LStat(fs, c).kind = "dir" /\ Untouched(c)
      BY <1>2, <1>5 DEF Untouched
    <3>2. NodeAt(fs, c).kind = "dir" => NodeAt(fs, c) = Dir
      BY <1>3, <1>6, NodesTyped
    <3> QED
      BY <1>2, <1>6, <3>1, <3>2
  <2>3. (\A b \in Todo(stack) : Untouched(Parent(b)) => Place(fs, Parent(b)))'
    BY <1>2, <1>4, <1>13
  <2>4. (pc \in {"canonicalize", "target"} /\ Untouched(link.path) =>
           link.path \in Paths /\ fs[link.path].kind = "link")'
    <3> SUFFICES ASSUME pc' \in {"canonicalize", "target"}, Untouched(link.path)'
                 PROVE  link'.path \in Paths /\ fs'[link'.path].kind = "link"
      OBVIOUS
    <3>1. link'.path = c /\ LStat(fs, c).kind = "link" /\ Untouched(c)
      BY <1>2, <1>5 DEF Untouched
    <3> QED
      BY <1>2, <1>15, <3>1
  <2>5. pc' # "target"
    BY <1>5
  <2>6. (\A i \in 1..Len(out) :
           Untouched(out[i]) => out[i] \in Paths /\ fs[out[i]].kind \in {"file", "link"})'
    <3>1. CASE out' = out
      BY <1>2, <1>13, <3>1
    <3>2. CASE out' = o /\ LStat(fs, c).kind = "file"
      <4>1. \A i \in 1..Len(o) : Untouched(o[i]) => o[i] \in Paths /\ fs[o[i]].kind \in {"file", "link"}
        BY <1>10, <1>11, <1>15, <3>2
      <4> QED
        BY <1>2, <1>13, <3>2, <4>1
    <3> QED
      BY <1>5, <1>9, <3>1, <3>2
  <2>7. (touched = {} => \A i \in 1..Len(out) : out[i] \in Measurable(fs))'
    <3>1. CASE out' = out
      BY <1>2, <3>1
    <3>2. CASE out' = o /\ LStat(fs, c).kind = "file"
      <4>1. touched = {} => \A i \in 1..Len(o) : o[i] \in Measurable(fs)
        BY <1>10, <1>11, <1>15, <1>16, <3>2
      <4> QED
        BY <1>2, <3>2, <4>1
    <3> QED
      BY <1>5, <1>9, <3>1, <3>2
  <2> QED
    BY <2>1, <2>2, <2>3, <2>4, <2>5, <2>6, <2>7
<1>18. FoundInv'
  <2> SUFFICES ASSUME NEW p \in Paths, Wanted(p)' PROVE Found(p)'
    BY DEF FoundInv
  <2>1. Wanted(p)
    BY <1>2 DEF Wanted, Untouched
  <2>2. Found(p)
    BY <1>2, <2>1 DEF WalkInv, FoundInv
  <2>3. CASE \E i \in 1..Len(out) : out[i] = p
    <3>1. \E i \in 1..Len(o) : o[i] = p
      BY <1>10, <2>3
    <3> QED
      BY <1>5, <1>9, <2>3, <3>1 DEF Found
  <2>4. CASE \E b \in Todo(stack) : IsPre(b, p) /\ b \in Todo(stack')
    BY <2>4 DEF Found
  <2>5. CASE IsPre(c, p)
    <3>1. CASE c = p
      <4>1. LStat(fs, c).kind \in {"file", "link"}
        BY <1>7, <2>1, <2>5, <3>1
      <4>2. \E i \in 1..Len(o) : o[i] = p
        BY <1>10, <3>1
      <4> QED
        BY <1>5, <1>9, <3>1, <4>1, <4>2 DEF Found
    <3>2. CASE c # p
      <4>1. LStat(fs, c).kind = "dir"
        BY <1>7, <2>1, <2>5, <3>2
      <4> QED
        BY <1>5, <2>5, <3>2, <4>1 DEF Found
    <3> QED
      BY <3>1, <3>2
  <2> QED
    BY <1>2, <1>4, <2>2, <2>3, <2>4, <2>5 DEF Found
<1>19. pc' \notin {"start", "read", "ok"}
    BY <1>5
<1> QED
    BY <1>1, <1>14, <1>17, <1>18, <1>19 DEF WalkInv

\* A link is examined.
LEMMA WalkLink ==
    ASSUME WalkInv, Canonicalize
    PROVE  WalkInv'
<1>1. FolderTypes /\ FolderTypes'
    BY FolderLink DEF WalkInv
<1>2. UNCHANGED <<fs, touched, dir, stack, out>> /\ pc = "canonicalize"
    BY DEF Canonicalize, fsVars
<1>3. \A p : (Untouched(p)' <=> Untouched(p)) /\ (Wanted(p)' <=> Wanted(p))
    BY <1>2 DEF Untouched, Wanted
<1>4. Current = {link.path} /\ Current' \subseteq Current
  <2>1. link'.path = link.path /\ pc' \in {"target", "visit"}
    BY <1>1 DEF Canonicalize, FolderTypes
  <2> QED
    BY <1>2, <2>1 DEF Current
<1>5. OrderInv'
    BY <1>2, <1>4 DEF WalkInv, OrderInv
<1>6. /\ WellFormed(fs)' /\ (\A b \in Current \cup Todo(stack) : Inside(b))'
      /\ (\A b \in Todo(stack) : Untouched(Parent(b)) => Place(fs, Parent(b)))'
      /\ (\A i \in 1..Len(out) :
             Untouched(out[i]) => out[i] \in Paths /\ fs[out[i]].kind \in {"file", "link"})'
      /\ (touched = {} => \A i \in 1..Len(out) : out[i] \in Measurable(fs))'
      /\ pc' # "read_dir"
    BY <1>2, <1>3, <1>4 DEF WalkInv, PlaceInv, Canonicalize
<1>7. CASE /\ pc' = "target" /\ Inside(Resolve(fs, link.path))
           /\ link' = [link EXCEPT !.target = Resolve(fs, link.path)]
  <2>1. link'.path = link.path /\ link'.target = Resolve(fs, link.path)
    BY <1>1, <1>7 DEF FolderTypes
  <2>2. PlaceInv'
    BY <1>2, <1>3, <1>6, <1>7, <2>1 DEF WalkInv, PlaceInv
  <2>3. FoundInv'
    <3> SUFFICES ASSUME NEW p \in Paths, Wanted(p) PROVE Found(p)'
      BY <1>3 DEF FoundInv
    <3>1. Found(p)
      BY <1>2 DEF WalkInv, FoundInv
    <3> QED
      BY <1>2, <1>7, <2>1, <3>1 DEF Found
  <2> QED
    BY <1>1, <1>5, <1>7, <2>2, <2>3 DEF WalkInv
<1>8. CASE /\ pc' = "visit" /\ link' = link
           /\ Resolve(fs, link.path) # None => ~Inside(Resolve(fs, link.path))
  <2>1. PlaceInv'
    BY <1>6, <1>8 DEF PlaceInv
  <2>2. FoundInv'
    <3> SUFFICES ASSUME NEW p \in Paths, Wanted(p) PROVE Found(p)'
      BY <1>3 DEF FoundInv
    <3>1. Found(p)
      BY <1>2 DEF WalkInv, FoundInv
    <3>2. p # link.path
      <4> SUFFICES ASSUME p = link.path PROVE FALSE
        OBVIOUS
      <4>1. Untouched(p)
        BY <1>1, WantedThere
      <4>2. fs[p].kind = "link"
        BY <1>2, <4>1 DEF WalkInv, PlaceInv
      <4>3. p \in Measurable(fs)
        BY <1>1, <4>2, WantedThere
      <4> QED
        BY <1>8, <4>2, <4>3 DEF Measurable
    <3> QED
      BY <1>2, <1>8, <3>1, <3>2 DEF Found
  <2> QED
    BY <1>1, <1>5, <1>8, <2>1, <2>2 DEF WalkInv
<1> QED
    BY <1>7, <1>8 DEF Canonicalize

\* The target of a link is examined.
LEMMA WalkTarget ==
    ASSUME WalkInv, TargetMetadata
    PROVE  WalkInv'
<1>1. FolderTypes /\ FolderTypes'
    BY FolderTarget DEF WalkInv
<1>2. UNCHANGED <<fs, touched, dir, stack, link>> /\ pc = "target" /\ pc' = "visit"
    BY DEF TargetMetadata, fsVars
<1>3. /\ fs \in FileSystems /\ out \in Seq(Named) /\ link.path \in Named
      /\ link.target \in Seq(Components)
    BY <1>1, <1>2 DEF FolderTypes
<1> DEFINE l == link.path
           at == Resolve(fs, link.target)
<1>4. \A p : (Untouched(p)' <=> Untouched(p)) /\ (Wanted(p)' <=> Wanted(p))
    BY <1>2 DEF Untouched, Wanted
<1>5. Current = {l} /\ Current' = {}
    BY <1>2 DEF Current
<1>6. \/ at # None /\ NodeAt(fs, at).kind = "file" /\ out' = Append(out, l)
      \/ ~(at # None /\ NodeAt(fs, at).kind = "file") /\ out' = out
    BY DEF TargetMetadata
<1>7. touched = {} => /\ Untouched(l) /\ l \in Paths /\ fs[l].kind = "link"
                      /\ Resolve(fs, l) = at /\ Inside(at) /\ at # None
  <2> SUFFICES ASSUME touched = {}
               PROVE  /\ Untouched(l) /\ l \in Paths /\ fs[l].kind = "link"
                      /\ Resolve(fs, l) = at /\ Inside(at) /\ at # None
    OBVIOUS
  <2>1. Untouched(l)
    BY DEF Untouched
  <2>2. l \in Paths /\ fs[l].kind = "link" /\ link.target = Resolve(fs, l) /\ Inside(link.target)
    BY <1>2, <2>1 DEF WalkInv, PlaceInv
  <2>3. link.target \in Reals(fs)
    BY <1>3, <2>2, ResolveSteps, PathsTyped DEF Named
  <2>4. at = link.target
    BY <1>3, <2>3, RealResolves
  <2> QED
    BY <1>3, <2>1, <2>2, <2>4, PathsTyped
<1>8. /\ StackOrdered(stack)
      /\ \A i, j \in 1..Len(out) : i < j => Apart(out[i], out[j])
      /\ \A i \in 1..Len(out) : Apart(out[i], l)
      /\ \A i \in 1..Len(out), b \in Todo(stack) : Apart(out[i], b)
      /\ \A b \in Todo(stack) : Apart(l, b)
    BY <1>5 DEF WalkInv, OrderInv
<1>9. PICK o : o = Append(out, l)
    OBVIOUS
<1>10. /\ Len(o) = Len(out) + 1 /\ o[Len(out) + 1] = l /\ Len(out) \in Nat
       /\ \A i \in 1..Len(out) : o[i] = out[i]
    BY <1>3, <1>9, AppendProperties, LenProperties
<1>11. \A i \in 1..(Len(out) + 1) : i = Len(out) + 1 \/ (i \in 1..Len(out) /\ i < Len(out) + 1)
    BY <1>10
<1>12. OrderInv'
  <2>1. CASE out' = out
    BY <1>2, <1>5, <1>8, <2>1 DEF OrderInv
  <2>2. CASE out' = o
    <3>1. \A i, j \in 1..Len(o) : i < j => Apart(o[i], o[j])
      <4> SUFFICES ASSUME NEW i \in 1..Len(o), NEW j \in 1..Len(o), i < j
                   PROVE  Apart(o[i], o[j])
        OBVIOUS
      <4>1. i \in 1..Len(out) /\ o[i] = out[i]
        BY <1>10, <1>11
      <4>2. CASE j \in 1..Len(out)
        BY <1>8, <1>10, <4>1, <4>2
      <4>3. CASE j = Len(out) + 1
        BY <1>8, <1>10, <4>1, <4>3
      <4> QED
        BY <1>10, <1>11, <4>2, <4>3
    <3>2. \A i \in 1..Len(o), b \in Todo(stack) : Apart(o[i], b)
      BY <1>8, <1>10, <1>11
    <3> QED
      BY <1>2, <1>5, <1>8, <2>2, <3>1, <3>2 DEF OrderInv
  <2> QED
    BY <1>6, <1>9, <2>1, <2>2
<1>13. /\ WellFormed(fs)' /\ (\A b \in Current \cup Todo(stack) : Inside(b))'
       /\ (\A b \in Todo(stack) : Untouched(Parent(b)) => Place(fs, Parent(b)))'
       /\ \A i \in 1..Len(out) :
             Untouched(out[i]) => out[i] \in Paths /\ fs[out[i]].kind \in {"file", "link"}
       /\ touched = {} => \A i \in 1..Len(out) : out[i] \in Measurable(fs)
       /\ Untouched(l) => l \in Paths /\ fs[l].kind = "link"
    BY <1>2, <1>4, <1>5 DEF WalkInv, PlaceInv
<1>14. PlaceInv'
  <2>1. CASE out' = out
    BY <1>2, <1>4, <1>13, <2>1 DEF PlaceInv
  <2>2. CASE out' = o /\ NodeAt(fs, at).kind = "file"
    <3>1. \A i \in 1..Len(o) : Untouched(o[i]) => o[i] \in Paths /\ fs[o[i]].kind \in {"file", "link"}
      BY <1>10, <1>11, <1>13
    <3>2. touched = {} => l \in Measurable(fs)
      BY <1>7, <2>2 DEF Measurable, Absent
    <3>3. touched = {} => \A i \in 1..Len(o) : o[i] \in Measurable(fs)
      BY <1>10, <1>11, <1>13, <3>2
    <3> QED
      BY <1>2, <1>4, <1>13, <2>2, <3>1, <3>3 DEF PlaceInv
  <2> QED
    BY <1>6, <1>9, <2>1, <2>2
<1>15. FoundInv'
  <2> SUFFICES ASSUME NEW p \in Paths, Wanted(p) PROVE Found(p)'
    BY <1>4 DEF FoundInv
  <2>1. Found(p)
    BY <1>2 DEF WalkInv, FoundInv
  <2>2. CASE \E i \in 1..Len(out) : out[i] = p
    <3>1. \E i \in 1..Len(o) : o[i] = p
      BY <1>10, <2>2
    <3> QED
      BY <1>6, <1>9, <2>2, <3>1 DEF Found
  <2>3. CASE \E b \in Todo(stack) : IsPre(b, p)
    BY <1>2, <2>3 DEF Found
  <2>4. CASE l = p
    <3>1. Untouched(p)
      BY <1>1, WantedThere
    <3>2. fs[p].kind = "link"
      BY <1>13, <2>4, <3>1
    <3>3. touched = {} /\ p \in Measurable(fs)
      BY <1>1, <3>2, WantedThere
    <3>4. out' = o
      BY <1>6, <1>7, <1>9, <2>4, <3>2, <3>3 DEF Measurable
    <3>5. Len(out) + 1 \in 1..Len(o)
      BY <1>10
    <3> QED
      BY <1>10, <2>4, <3>4, <3>5 DEF Found
  <2> QED
    BY <1>2, <2>1, <2>2, <2>3, <2>4 DEF Found
<1> QED
    BY <1>1, <1>2, <1>12, <1>14, <1>15 DEF WalkInv

\* A directory is left.
LEMMA WalkLeave ==
    ASSUME WalkInv, LeaveDir
    PROVE  WalkInv'
<1>1. FolderTypes /\ FolderTypes'
    BY FolderLeave DEF WalkInv
<1>2. /\ UNCHANGED <<fs, touched, dir, link, out>> /\ pc = "visit"
      /\ stack # <<>> /\ stack[Len(stack)] = <<>> /\ stack' = Parent(stack)
      /\ pc' = "visit" \/ (pc' = "read" /\ Len(stack) = 1)
    BY DEF LeaveDir, fsVars, Parent
<1>3. \A p : (Untouched(p)' <=> Untouched(p)) /\ (Wanted(p)' <=> Wanted(p))
    BY <1>2 DEF Untouched, Wanted
<1>4. stack \in Seq(Seq(Named)) /\ StackOrdered(stack)
    BY DEF WalkInv, FolderTypes, OrderInv
<1>5. Todo(stack') = Todo(stack) /\ StackOrdered(stack')
  <2>1. Todo(Parent(stack)) = Todo(stack) /\ StackOrdered(Parent(stack))
    BY <1>2, <1>4, TodoLess
  <2>2. PICK t : t = Parent(stack)
    OBVIOUS
  <2> QED
    BY <1>2, <2>1, <2>2
<1>6. Current = {} /\ Current' = {}
    BY <1>2 DEF Current
<1>7. OrderInv'
    BY <1>2, <1>5, <1>6 DEF WalkInv, OrderInv
<1>8. PlaceInv'
    BY <1>2, <1>3, <1>5, <1>6 DEF WalkInv, PlaceInv
<1>9. FoundInv'
    BY <1>2, <1>3, <1>5 DEF WalkInv, FoundInv, Found
<1>10. pc' \in {"read", "ok"} => stack' = <<>>
  <2> SUFFICES ASSUME Len(stack) = 1 PROVE Parent(stack) = <<>>
    BY <1>2
  <2> QED
    BY SubSeqEmpty DEF Parent
<1> QED
    BY <1>1, <1>2, <1>7, <1>8, <1>9, <1>10 DEF WalkInv

\* A file is read.
LEMMA WalkRead ==
    ASSUME WalkInv, ReadFile
    PROVE  WalkInv'
<1>1. FolderTypes'
    BY FolderRead DEF WalkInv
<1>2. UNCHANGED <<fs, touched, pc, dir, stack, link, out>>
    BY DEF ReadFile, fsVars, walkVars
<1>3. \A p : (Untouched(p)' <=> Untouched(p)) /\ (Wanted(p)' <=> Wanted(p))
    BY <1>2 DEF Untouched, Wanted
<1>4. OrderInv'
    BY <1>2 DEF WalkInv, OrderInv, Current
<1>5. PlaceInv'
    BY <1>2, <1>3 DEF WalkInv, PlaceInv, Current
<1>6. FoundInv'
    BY <1>2, <1>3 DEF WalkInv, FoundInv, Found
<1> QED
    BY <1>1, <1>2, <1>4, <1>5, <1>6 DEF WalkInv

\* The walk takes the paths in their order, finds what it found where nothing
\* has been touched to be still there, and misses nothing that has to be
\* measured: it is collected, or below something yet to be visited.
THEOREM WalkInvariance == Spec => []WalkInv
<1>1. WalkInv /\ [Next]_vars => WalkInv'
  <2> SUFFICES ASSUME WalkInv, [Next]_vars PROVE WalkInv'
    OBVIOUS
  <2>1. CASE UNCHANGED vars
    <3>1. FolderTypes'
      BY <2>1 DEF vars, fsVars, walkVars, readVars, WalkInv, FolderTypes
    <3>2. UNCHANGED <<fs, touched, pc, dir, stack, link, out>>
      BY <2>1 DEF vars, fsVars, walkVars
    <3>3. \A p : (Untouched(p)' <=> Untouched(p)) /\ (Wanted(p)' <=> Wanted(p))
      BY <3>2 DEF Untouched, Wanted
    <3>4. OrderInv'
      BY <3>2 DEF WalkInv, OrderInv, Current
    <3>5. PlaceInv'
      BY <3>2, <3>3 DEF WalkInv, PlaceInv, Current
    <3>6. FoundInv'
      BY <3>2, <3>3 DEF WalkInv, FoundInv, Found
    <3> QED
      BY <3>1, <3>2, <3>4, <3>5, <3>6 DEF WalkInv
  <2>2. CASE Next
    BY <2>2, WalkChange, WalkEnds, WalkReadDir, WalkVisit, WalkLink, WalkTarget, WalkLeave,
       WalkRead DEF Next
  <2> QED
    BY <2>1, <2>2
<1> QED
    BY <1>1, WalkInit, PTL DEF Spec

-----------------------------------------------------------------------------
(* Reading the files *)

\* What is measurable leads to a place inside the root, a file to itself.
LEMMA MeasurableLeads ==
    ASSUME NEW f \in FileSystems, WellFormed(f), NEW p \in Paths
    PROVE  /\ f[p].kind = "file" => Resolve(f, p) = p
           /\ p \in Measurable(f) => Inside(Resolve(f, p))
<1>1. ASSUME f[p].kind = "file" PROVE Resolve(f, p) = p
  <2>1. f[p] # Absent /\ f[p].kind # "link"
    BY <1>1 DEF Absent
  <2> QED
    BY <2>1, PresentReal, RealResolves
<1>2. Inside(p)
    BY PathsAssumption
<1> QED
    BY <1>1, <1>2 DEF Measurable

\* The sorted paths are read one after the other: those read so far and those
\* yet to be read are the collected ones.  What was read of a file that has not
\* been touched is its contents, and so it is of a link when nothing has been.
ReadOrder ==
    pc \in {"read", "ok"} =>
        /\ Len(measurement) + Len(entries) = Len(out)
        /\ \A i \in 1..Len(entries) : entries[i] = SortedByName(out)[Len(measurement) + i]
        /\ \A i \in 1..Len(measurement) :
              /\ measurement[i].path = SortedByName(out)[i]
              /\ measurement[i].name = Name(measurement[i].path)
        /\ pc = "ok" => entries = <<>>
ReadContents ==
    pc \in {"read", "ok"} =>
        \A i \in 1..Len(measurement) :
            LET p == measurement[i].path
            IN  /\ Untouched(p) /\ p \in Paths /\ fs[p].kind = "file" =>
                     measurement[i].content = fs[p].content
                /\ touched = {} => measurement[i].content = fs[Resolve(fs, p)].content
ReadInv == WalkInv /\ ReadOrder /\ ReadContents /\ SourcesInside

\* What is yet to be read was collected.
LEMMA EntryCollected ==
    ASSUME FolderTypes, ReadOrder, pc = "read", entries # <<>>
    PROVE  /\ Head(entries) = SortedByName(out)[Len(measurement) + 1]
           /\ \E j \in 1..Len(out) : Head(entries) = out[j]
<1>1. /\ entries \in Seq(Named) /\ out \in Seq(Seq(Seq(Nat)))
      /\ Len(measurement) \in Nat /\ Len(entries) \in Nat \ {0} /\ Len(out) \in Nat
  <2>1. out \in Seq(Named) /\ entries \in Seq(Named)
    BY DEF FolderTypes
  <2>2. \A i \in 1..Len(out) : out[i] \in Seq(Seq(Nat))
    <3>1. \A i \in 1..Len(out) : out[i] \in Named
      BY <2>1, ElementOfSeq
    <3> QED
      BY <3>1, PathsTyped DEF Named
  <2>3. Len(out) \in Nat /\ out = [i \in 1..Len(out) |-> out[i]]
    BY <2>1, LenProperties
  <2>4. [i \in 1..Len(out) |-> out[i]] \in Seq(Seq(Seq(Nat)))
    BY <2>2, <2>3, IsASeq
  <2> QED
    BY <2>1, <2>3, <2>4, EmptySeq, LenProperties DEF FolderTypes
<1>2. /\ Len(measurement) + Len(entries) = Len(out)
      /\ \A i \in 1..Len(entries) : entries[i] = SortedByName(out)[Len(measurement) + i]
    BY DEF ReadOrder
<1>3. 1 \in 1..Len(entries) /\ Len(measurement) + 1 \in 1..Len(out)
    BY <1>1, <1>2
<1>4. Head(entries) = entries[1]
    BY <1>1
<1>5. Head(entries) = SortedByName(out)[Len(measurement) + 1]
    BY <1>2, <1>3, <1>4
<1> QED
    BY <1>1, <1>3, <1>5, SortedNames

\* At first, and when the walk ends.
LEMMA ReadBegins ==
    ASSUME ReadInv, WalkInv', UNCHANGED <<fs, touched, measurement, sources, out>>,
           \/ pc' \notin {"read", "ok"}
           \/ pc = "visit" /\ pc' = "read" /\ entries' = SortedByName(out)
           \/ pc = "read" /\ pc' = "ok" /\ entries = <<>> /\ entries' = entries
           \/ pc' = pc /\ entries' = entries
    PROVE  ReadInv'
<1>1. SourcesInside'
    BY DEF ReadInv, SourcesInside
<1>2. \A p : Untouched(p)' <=> Untouched(p)
    BY DEF Untouched
<1>3. CASE pc' \notin {"read", "ok"}
    BY <1>1, <1>3 DEF ReadInv, ReadOrder, ReadContents
<1>4. CASE pc = "visit" /\ pc' = "read" /\ entries' = SortedByName(out)
  <2>1. measurement = <<>> /\ Len(measurement) = 0 /\ out \in Seq(Named)
    BY <1>4, EmptySeq DEF ReadInv, WalkInv, FolderTypes, Walking
  <2>2. Len(SortedByName(out)) = Len(out) /\ Len(out) \in Nat
    BY <2>1, SortedEntries, LenProperties
  <2>3. PICK e : e = entries'
    OBVIOUS
  <2>4. \A i \in 1..Len(e) : e[i] = SortedByName(out)[Len(measurement) + i]
    <3> SUFFICES ASSUME NEW i \in 1..Len(e) PROVE e[i] = SortedByName(out)[Len(measurement) + i]
      OBVIOUS
    <3>1. Len(measurement) + i = i
      BY <2>1, <2>2
    <3> QED
      BY <1>4, <2>3, <3>1
  <2>5. Len(measurement) + Len(e) = Len(out)
    BY <1>4, <2>1, <2>2, <2>3
  <2>6. ReadOrder'
    BY <1>4, <2>1, <2>3, <2>4, <2>5 DEF ReadOrder
  <2>7. ReadContents'
    BY <2>1 DEF ReadContents
  <2> QED
    BY <1>1, <2>6, <2>7 DEF ReadInv
<1>5. CASE pc = "read" /\ pc' = "ok" /\ entries = <<>> /\ entries' = entries
    BY <1>1, <1>2, <1>5 DEF ReadInv, ReadOrder, ReadContents
<1>6. CASE pc' = pc /\ entries' = entries
    BY <1>1, <1>2, <1>6 DEF ReadInv, ReadOrder, ReadContents
<1> QED
    BY <1>3, <1>4, <1>5, <1>6

\* A change of the file system.
LEMMA ReadChange ==
    ASSUME ReadInv, NEW q \in Paths, NEW node \in Nodes, Change(q, node)
    PROVE  ReadInv'
<1>1. WalkInv' /\ FolderTypes
    BY WalkChange DEF ReadInv, WalkInv
<1>2. /\ UNCHANGED <<pc, out, entries, measurement, sources>>
      /\ fs' = [fs EXCEPT ![q] = node]
      /\ pc # "start" => touched' = touched \cup {q}
    BY DEF Change, walkVars, readVars
<1>3. ReadOrder'
    BY <1>2 DEF ReadInv, ReadOrder
<1>4. CASE pc = "start"
  <2>1. sources = {}
    BY <1>1, <1>4 DEF FolderTypes, Walking
  <2> QED
    BY <1>1, <1>2, <1>3, <1>4, <2>1 DEF ReadInv, ReadContents, SourcesInside
<1>5. CASE pc # "start"
  <2>1. q \in touched' /\ touched' # {} /\ fs \in FileSystems
    BY <1>1, <1>2, <1>5 DEF FolderTypes
  <2>2. ASSUME NEW p \in Paths, Untouched(p)'
        PROVE  Untouched(p) /\ fs'[p] = fs[p]
    <3>1. Untouched(p)
      BY <1>2, <1>5, <2>2 DEF Untouched
    <3> QED
      BY <1>2, <2>1, <2>2, <3>1, ChangeElsewhere, PathsTyped
  <2>3. ReadContents'
    <3> SUFFICES ASSUME pc \in {"read", "ok"}, NEW i \in 1..Len(measurement),
                        Untouched(measurement[i].path)', measurement[i].path \in Paths,
                        fs'[measurement[i].path].kind = "file"
                 PROVE  measurement[i].content = fs'[measurement[i].path].content
      BY <1>2, <2>1 DEF ReadContents
    <3>1. PICK p : p = measurement[i].path
      OBVIOUS
    <3>2. Untouched(p)' /\ p \in Paths
      BY <1>2, <3>1
    <3>3. Untouched(p) /\ fs'[p] = fs[p]
      BY <2>2, <3>2
    <3> QED
      BY <3>1, <3>2, <3>3 DEF ReadInv, ReadContents
  <2> QED
    BY <1>1, <1>3, <2>1, <2>3 DEF ReadInv, SourcesInside
<1> QED
    BY <1>4, <1>5

\* A file is read.
LEMMA ReadNext ==
    ASSUME ReadInv, ReadFile
    PROVE  ReadInv'
<1>1. WalkInv /\ WalkInv' /\ FolderTypes
    BY WalkRead DEF ReadInv, WalkInv
<1> DEFINE p == Head(entries)
           at == Resolve(fs, p)
           rec == [path |-> p, name |-> Name(p), content |-> fs[at].content]
           m == Len(measurement)
<1>2. /\ UNCHANGED <<fs, touched, pc, out>> /\ pc = "read" /\ entries # <<>>
      /\ entries' = Tail(entries) /\ measurement' = Append(measurement, rec)
      /\ sources' = sources \cup {at}
    BY DEF ReadFile, fsVars, walkVars
<1>3. /\ p = SortedByName(out)[m + 1] /\ p \in Named
      /\ \E j \in 1..Len(out) : p = out[j]
  <2>1. p \in Named
    BY <1>1, <1>2, HeadTailProperties DEF FolderTypes
  <2> QED
    BY <1>1, <1>2, <2>1, EntryCollected DEF ReadInv
<1>4. /\ fs \in FileSystems /\ WellFormed(fs)
      /\ touched = {} => p \in Measurable(fs) /\ p \in Paths
    BY ZenonT(40), <1>1, <1>3 DEF FolderTypes, WalkInv, PlaceInv, Measurable
<1>5. /\ p \in Paths /\ fs[p].kind = "file" => at = p
      /\ touched = {} => Inside(at)
    BY <1>4, MeasurableLeads
<1>6. SourcesInside'
    BY <1>2, <1>5 DEF ReadInv, SourcesInside
<1>7. /\ rec.path = p /\ rec.name = Name(p) /\ rec.content = fs[at].content
    OBVIOUS
<1> HIDE DEF rec, at, p
<1>8. PICK me, en : me = measurement' /\ en = entries'
    OBVIOUS
<1>9. /\ Len(me) = m + 1 /\ me[m + 1] = rec /\ \A i \in 1..m : me[i] = measurement[i]
      /\ m \in Nat
  <2>1. measurement \in Seq([path : Named, name : Seq(Nat), content : Contents])
    BY <1>1 DEF FolderTypes
  <2>2. rec \in [path : Named, name : Seq(Nat), content : Contents]
    BY <1>1, FolderRead DEF rec, at, p
  <2> QED
    BY <1>2, <1>8, <2>1, <2>2, AppendProperties, LenProperties
<1>10. /\ Len(en) = Len(entries) - 1 /\ Len(entries) \in Nat \ {0}
       /\ \A i \in 1..(Len(entries) - 1) : en[i] = entries[i + 1]
  <2>1. entries \in Seq(Named)
    BY <1>1 DEF FolderTypes
  <2> QED
    BY <1>2, <1>8, <2>1, HeadTailProperties, EmptySeq, LenProperties
<1> HIDE DEF m
<1>11. /\ m + Len(entries) = Len(out)
       /\ \A i \in 1..Len(entries) : entries[i] = SortedByName(out)[m + i]
       /\ \A i \in 1..m :
              /\ measurement[i].path = SortedByName(out)[i]
              /\ measurement[i].name = Name(measurement[i].path)
    BY <1>2 DEF ReadInv, ReadOrder, m
<1>12. \A i \in 1..(m + 1) : i = m + 1 \/ i \in 1..m
    BY <1>9
<1>13. ReadOrder'
  <2>1. Len(me) + Len(en) = Len(out)
    <3>1. /\ Len(me) = m + 1 /\ Len(en) = Len(entries) - 1 /\ m + Len(entries) = Len(out)
          /\ m \in Nat /\ Len(entries) \in Nat
      BY <1>9, <1>10, <1>11
    <3> QED
      BY <3>1
  <2>2. ASSUME NEW i \in 1..Len(en) PROVE en[i] = SortedByName(out)[Len(me) + i]
    <3>1. i + 1 \in 1..Len(entries) /\ i \in 1..(Len(entries) - 1)
      BY <1>10
    <3>2. entries[i + 1] = SortedByName(out)[m + (i + 1)]
      BY <1>11, <3>1
    <3>3. m + (i + 1) = Len(me) + i
      BY <1>9, <1>10
    <3> QED
      BY <1>10, <3>1, <3>2, <3>3
  <2>3. ASSUME NEW i \in 1..Len(me)
        PROVE  me[i].path = SortedByName(out)[i] /\ me[i].name = Name(me[i].path)
    BY <1>3, <1>7, <1>9, <1>11, <1>12 DEF m
  <2> QED
    BY <1>2, <1>8, <2>1, <2>2, <2>3 DEF ReadOrder
<1>14. ReadContents'
  <2>1. ASSUME NEW i \in 1..m
        PROVE  /\ Untouched(me[i].path) /\ me[i].path \in Paths /\ fs[me[i].path].kind = "file" =>
                     me[i].content = fs[me[i].path].content
               /\ touched = {} => me[i].content = fs[Resolve(fs, me[i].path)].content
    BY <1>2, <1>9 DEF ReadInv, ReadContents, m
  <2>2. /\ p \in Paths /\ fs[p].kind = "file" => rec.content = fs[p].content
        /\ rec.content = fs[Resolve(fs, p)].content
    BY <1>5, <1>7 DEF at
  <2>3. \A i \in 1..Len(me) :
           /\ Untouched(me[i].path) /\ me[i].path \in Paths /\ fs[me[i].path].kind = "file" =>
                 me[i].content = fs[me[i].path].content
           /\ touched = {} => me[i].content = fs[Resolve(fs, me[i].path)].content
    BY <1>7, <1>9, <1>12, <2>1, <2>2
  <2>4. \A x : Untouched(x)' <=> Untouched(x)
    BY <1>2 DEF Untouched
  <2> QED
    BY <1>2, <1>8, <2>3, <2>4 DEF ReadContents
<1> QED
    BY <1>1, <1>6, <1>13, <1>14 DEF ReadInv

\* The files are read in the order of their names, each once.
THEOREM ReadInvariance == Spec => []ReadInv
<1>1. Init => ReadInv
  <2> SUFFICES ASSUME Init PROVE ReadInv
    OBVIOUS
  <2>1. WalkInv
    BY WalkInit
  <2> QED
    BY <2>1 DEF Init, ReadInv, ReadOrder, ReadContents, SourcesInside
<1>2. WalkInv /\ WalkInv' /\ ReadInv /\ [Next]_vars => ReadInv'
  <2> SUFFICES ASSUME ReadInv, WalkInv', [Next]_vars PROVE ReadInv'
    OBVIOUS
  <2>1. CASE UNCHANGED vars
    BY <2>1, ReadBegins DEF vars, fsVars, walkVars, readVars
  <2>2. CASE \E p \in Paths, n \in Nodes : Change(p, n)
    BY <2>2, ReadChange
  <2>3. CASE Start \/ IoError \/ ReadDir \/ VisitGone \/ Visit \/ Canonicalize \/ ReadGone \/ Finish
    <3>1. UNCHANGED <<fs, touched, measurement, sources, entries>>
      BY <2>3 DEF Start, IoError, ReadDir, VisitGone, Visit, Canonicalize, ReadGone, Finish,
                  fsVars, readVars
    <3>2. CASE Visit
      <4>1. pc' \notin {"read", "ok"}
        BY <3>2 DEF Visit
      <4> QED
        BY <3>1, <4>1 DEF ReadInv, ReadOrder, ReadContents, SourcesInside
    <3>3. CASE Start \/ IoError \/ ReadDir \/ VisitGone \/ Canonicalize \/ ReadGone \/ Finish
      <4>1. UNCHANGED out
        BY <3>3 DEF Start, IoError, ReadDir, VisitGone, Canonicalize, ReadGone, Finish, walkVars
      <4>2. \/ pc' \notin {"read", "ok"}
            \/ pc = "read" /\ pc' = "ok" /\ entries = <<>> /\ entries' = entries
        BY <3>1, <3>3 DEF Start, IoError, ReadDir, VisitGone, Canonicalize, ReadGone, Finish
      <4> QED
        BY <3>1, <4>1, <4>2, ReadBegins
    <3> QED
      BY <2>3, <3>2, <3>3
  <2>4. CASE TargetMetadata
    <3>1. UNCHANGED <<fs, touched, measurement, sources, entries>> /\ pc' = "visit"
      BY <2>4 DEF TargetMetadata, fsVars, readVars
    <3> QED
      BY <3>1 DEF ReadInv, ReadOrder, ReadContents, SourcesInside
  <2>5. CASE LeaveDir
    <3>1. UNCHANGED <<fs, touched, measurement, sources, out>> /\ pc = "visit"
      BY <2>5 DEF LeaveDir, fsVars
    <3> QED
      BY <2>5, <3>1, ReadBegins DEF LeaveDir
  <2>6. CASE ReadFile
    BY <2>6, ReadNext
  <2> QED
    BY <2>1, <2>2, <2>3, <2>4, <2>5, <2>6 DEF Next
<1>3. ReadInv => WalkInv
    BY DEF ReadInv
<1> QED
    BY <1>1, <1>2, <1>3, WalkInvariance, PTL DEF Spec

\* Contents are read outside the root only after something changed below it.
THEOREM ReadInside == Spec => []SourcesInside
<1>1. ReadInv => SourcesInside
    BY DEF ReadInv
<1> QED
    BY <1>1, ReadInvariance, PTL

-----------------------------------------------------------------------------
(* The measurement *)

\* In the end, what was collected has been read, in its order.
LEMMA AllRead ==
    ASSUME ReadInv, pc = "ok"
    PROVE  /\ out \in Seq(Seq(Seq(Nat))) /\ Len(measurement) = Len(out) /\ Len(out) \in Nat
           /\ \A i \in 1..Len(out) : /\ out[i] \in Named
                                     /\ measurement[i].path = SortedByName(out)[i]
                                     /\ measurement[i].name = Name(SortedByName(out)[i])
           /\ \A i, j \in 1..Len(out) : i < j => out[i] # out[j] /\ <<out[i], out[j]>> \in PathOrder
           /\ \A p \in Paths : Wanted(p) => \E i \in 1..Len(out) : out[i] = p
<1>1. out \in Seq(Named) /\ Len(out) \in Nat /\ Len(measurement) \in Nat
    BY LenProperties DEF ReadInv, WalkInv, FolderTypes
<1>2. \A i \in 1..Len(out) : out[i] \in Named /\ out[i] \in Seq(Components)
                             /\ out[i] \in Seq(Seq(Nat))
  <2>1. \A i \in 1..Len(out) : out[i] \in Named
    BY <1>1, ElementOfSeq
  <2> QED
    BY <2>1, PathsTyped DEF Named
<1>3. out \in Seq(Seq(Seq(Nat)))
  <2>1. out = [i \in 1..Len(out) |-> out[i]]
    BY <1>1, LenProperties
  <2>2. [i \in 1..Len(out) |-> out[i]] \in Seq(Seq(Seq(Nat)))
    BY <1>1, <1>2, IsASeq
  <2> QED
    BY <2>1, <2>2
<1>4. /\ Len(measurement) + Len(entries) = Len(out) /\ entries = <<>>
      /\ \A i \in 1..Len(measurement) :
            /\ measurement[i].path = SortedByName(out)[i]
            /\ measurement[i].name = Name(measurement[i].path)
    BY DEF ReadInv, ReadOrder
<1>5. Len(measurement) = Len(out)
    BY <1>1, <1>4, EmptySeq
<1>6. ASSUME NEW i \in 1..Len(out), NEW j \in 1..Len(out), i < j
      PROVE  out[i] # out[j] /\ <<out[i], out[j]>> \in PathOrder
  <2>1. Apart(out[i], out[j])
    BY <1>6 DEF ReadInv, WalkInv, OrderInv
  <2>2. PICK a, b : a = out[i] /\ b = out[j]
    OBVIOUS
  <2>3. a \in Seq(Components) /\ b \in Seq(Components) /\ Apart(a, b)
    BY <1>2, <2>1, <2>2
  <2>4. IsPre(a, a) /\ IsPre(b, b)
    BY <2>3, PrefixOfItself
  <2>5. a # b /\ <<a, b>> \in PathOrder
    BY <2>3, <2>4, ApartBelow
  <2> QED
    BY <2>2, <2>5
<1>7. ASSUME NEW p \in Paths, Wanted(p) PROVE \E i \in 1..Len(out) : out[i] = p
  <2>1. Found(p) /\ Todo(stack) = {}
    BY <1>7, TodoNone DEF ReadInv, WalkInv, FoundInv
  <2> QED
    BY <2>1 DEF Found
<1> QED
    BY <1>1, <1>2, <1>3, <1>4, <1>5, <1>6, <1>7

\* Whatever changes under the measurement, a regular file that does not change,
\* in directories that do not, is measured once and with its contents; and a
\* FIFO, socket or device that does not change is not measured.
THEOREM UntouchedMeasured == Spec => []UntouchedExact
<1>1. ASSUME ReadInv, pc = "ok", NEW p \in Paths, Untouched(p)
      PROVE  LET found == {i \in 1..Len(measurement) : measurement[i].path = p}
             IN  /\ fs[p].kind = "file" =>
                      /\ Cardinality(found) = 1
                      /\ \A i \in found : measurement[i].content = fs[p].content
                 /\ fs[p].kind \in {"special", "dir", "absent"} => found = {}
  <2> DEFINE found == {i \in 1..Len(measurement) : measurement[i].path = p}
             n == Len(out)
  <2>1. /\ out \in Seq(Seq(Seq(Nat))) /\ Len(measurement) = n /\ n \in Nat
        /\ \A i \in 1..n : measurement[i].path = SortedByName(out)[i]
        /\ \A i, j \in 1..n : i < j => out[i] # out[j]
        /\ \A r \in Paths : Wanted(r) => \E i \in 1..n : out[i] = r
    BY <1>1, AllRead
  <2>2. PICK order \in [1..n -> 1..n] :
          /\ SortedByName(out) = [i \in 1..n |-> out[order[i]]]
          /\ \A i, j \in 1..n : i < j =>
               \/ <<Name(out[order[i]]), Name(out[order[j]])>> \in NameOrder
               \/ Name(out[order[i]]) = Name(out[order[j]]) /\ order[i] < order[j]
          /\ \A i, j \in 1..n : order[i] = order[j] => i = j
          /\ \A k \in 1..n : \E i \in 1..n : order[i] = k
    BY <2>1, SortedPlaces
  <2> HIDE DEF n
  <2>3. \A i \in 1..n : measurement[i].path = out[order[i]] /\ order[i] \in 1..n
    BY <2>1, <2>2
  <2>4. \A i, j \in 1..n : out[i] = out[j] => i = j
    <3>1. \A i, j \in 1..n : i # j => i < j \/ j < i
      BY <2>1
    <3> QED
      BY <2>1, <3>1
  <2>5. ASSUME fs[p].kind = "file"
        PROVE  /\ Cardinality(found) = 1
               /\ \A i \in found : measurement[i].content = fs[p].content
    <3>1. PICK k \in 1..n : out[k] = p
      BY <1>1, <2>1, <2>5 DEF Wanted
    <3>2. PICK i \in 1..n : order[i] = k
      BY <2>2
    <3>3. found = {i}
      <4>1. i \in found
        BY <2>1, <2>3, <3>1, <3>2
      <4>2. ASSUME NEW j \in found PROVE j = i
        <5>1. j \in 1..n /\ out[order[j]] = p /\ order[j] \in 1..n
          BY <2>1, <2>3
        <5>2. order[j] = k
          BY <2>4, <3>1, <5>1
        <5> QED
          BY <2>2, <3>2, <5>1, <5>2
      <4> QED
        BY <4>1, <4>2
    <3>4. Cardinality(found) = 1
      BY <3>3, FS_Singleton
    <3>5. \A j \in found : measurement[j].content = fs[p].content
      BY <1>1, <2>5 DEF ReadInv, ReadContents
    <3> QED
      BY <3>4, <3>5
  <2>6. ASSUME fs[p].kind \in {"special", "dir", "absent"} PROVE found = {}
    <3> SUFFICES ASSUME NEW i \in found PROVE FALSE
      OBVIOUS
    <3>1. i \in 1..n /\ out[order[i]] = p /\ order[i] \in 1..n
      BY <2>1, <2>3
    <3>2. \A j \in 1..n : Untouched(out[j]) => fs[out[j]].kind \in {"file", "link"}
      BY <1>1 DEF ReadInv, WalkInv, PlaceInv, n
    <3>3. fs[p].kind \in {"file", "link"}
      BY <1>1, <3>1, <3>2
    <3> QED
      BY <2>6, <3>3
  <2> QED
    BY <2>5, <2>6
<1>2. ReadInv => UntouchedExact
    BY <1>1 DEF UntouchedExact
<1> QED
    BY <1>2, ReadInvariance, PTL

\* Names that are equal are ordered by the paths.
LEMMA NamedPathsOrdered ==
    ASSUME NEW M, M \subseteq Seq(Seq(Nat)), NEW R,
           \A p, q \in M : <<p, q>> \in R <=>
               \/ <<Name(p), Name(q)>> \in NameOrder
               \/ Name(p) = Name(q) /\ <<p, q>> \in PathOrder
    PROVE  Irreflexive(R, M) /\ Transitive(R, M)
<1>1. /\ \A a \in Seq(Nat) : <<a, a>> \notin NameOrder
      /\ \A a, b, c \in Seq(Nat) :
            <<a, b>> \in NameOrder /\ <<b, c>> \in NameOrder => <<a, c>> \in NameOrder
    BY NamesOrdered DEF Orders, Irreflexive, Transitive
<1>2. /\ \A a \in M : <<a, a>> \notin PathOrder
      /\ \A a, b, c \in M :
            <<a, b>> \in PathOrder /\ <<b, c>> \in PathOrder => <<a, c>> \in PathOrder
    BY PathsOrdered DEF Orders, Irreflexive, Transitive
<1>3. \A p \in M : Name(p) \in Seq(Nat)
    BY NameType
<1>4. Irreflexive(R, M)
    BY <1>1, <1>2, <1>3 DEF Irreflexive
<1>5. Transitive(R, M)
  <2> SUFFICES ASSUME NEW a \in M, NEW b \in M, NEW c \in M, <<a, b>> \in R, <<b, c>> \in R
               PROVE  <<a, c>> \in R
    BY DEF Transitive
  <2>1. Name(a) \in Seq(Nat) /\ Name(b) \in Seq(Nat) /\ Name(c) \in Seq(Nat)
    BY <1>3
  <2> QED
    BY <1>1, <1>2, <2>1
<1> QED
    BY <1>4, <1>5

\* A directory that does not change under the measurement has one measurement,
\* that of the documentation, whatever order its directories are read in.
THEOREM UndisturbedMeasured == Spec => []UndisturbedExact
<1>1. ASSUME ReadInv, pc = "ok", touched = {} PROVE measurement = Reference(fs)
  <2> DEFINE n == Len(out)
             M == Measurable(fs)
             E == SortedByName(out)
             before(p, q) == Less(Name(p), Name(q)) \/ (Name(p) = Name(q) /\ PathLess(p, q))
             R == {x \in M \X M : before(x[1], x[2])}
             sorted == Sorted(M, LAMBDA p, q : before(p, q))
  <2>1. /\ out \in Seq(Seq(Seq(Nat))) /\ Len(measurement) = n /\ n \in Nat
        /\ \A i \in 1..n : measurement[i].path = E[i] /\ measurement[i].name = Name(E[i])
        /\ \A i, j \in 1..n : i < j => out[i] # out[j] /\ <<out[i], out[j]>> \in PathOrder
        /\ \A r \in Paths : Wanted(r) => \E i \in 1..n : out[i] = r
    BY <1>1, AllRead
  <2>2. PICK order \in [1..n -> 1..n] :
          /\ E = [i \in 1..n |-> out[order[i]]]
          /\ \A i, j \in 1..n : i < j =>
               \/ <<Name(out[order[i]]), Name(out[order[j]])>> \in NameOrder
               \/ Name(out[order[i]]) = Name(out[order[j]]) /\ order[i] < order[j]
          /\ \A i, j \in 1..n : order[i] = order[j] => i = j
          /\ \A k \in 1..n : \E i \in 1..n : order[i] = k
    BY <2>1, SortedPlaces
  <2>3. /\ \A i \in 1..n : out[i] \in M
        /\ \A p \in M : \E i \in 1..n : out[i] = p
        /\ IsFiniteSet(M) /\ M \subseteq Seq(Seq(Nat)) /\ M \subseteq Paths
    <3>1. M \subseteq Paths
      BY DEF Measurable
    <3>2. \A i \in 1..n : out[i] \in M
      BY <1>1 DEF ReadInv, WalkInv, PlaceInv
    <3>3. \A p \in M : \E i \in 1..n : out[i] = p
      BY <1>1, <2>1, <3>1 DEF Wanted
    <3>4. IsFiniteSet(M)
      BY <3>1, PathsAssumption, FS_Subset
    <3>5. M \subseteq Seq(Seq(Nat))
      BY <3>1, PathsTyped
    <3> QED
      BY <3>1, <3>2, <3>3, <3>4, <3>5
  <2> HIDE DEF n, M, E
  <2>4. \A i \in 1..n : E[i] = out[order[i]] /\ order[i] \in 1..n /\ E[i] \in M
    BY <2>2, <2>3
  <2>5. \A i, j \in 1..n : E[i] = E[j] => i = j
    <3>1. \A i, j \in 1..n : i # j => i < j \/ j < i
      BY <2>1
    <3>2. \A i, j \in 1..n : out[i] = out[j] => i = j
      BY <2>1, <3>1
    <3> QED
      BY ZenonT(40), <2>2, <2>4, <3>2
  <2>6. Cardinality(M) = n
    <3>1. IsFiniteSet(1..n) /\ Cardinality(1..n) = n
      <4>1. n \in Int /\ 1 \in Int /\ (1 > n => n = 0) /\ (~(1 > n) => n - 1 + 1 = n)
        BY <2>1
      <4> QED
        BY <4>1, FS_Interval
    <3>2. E \in [1..n -> M]
      BY <2>2, <2>4
    <3>3. E \in Bijection(1..n, M)
      <4>1. \A p \in M : \E i \in 1..n : E[i] = p
        BY <2>2, <2>3, <2>4
      <4> QED
        BY <2>5, <3>2, <4>1 DEF Bijection, Injection, Surjection, IsInjective
    <3>4. PICK S : S = 1..n
      OBVIOUS
    <3>5. IsFiniteSet(S) /\ Cardinality(S) = n /\ ExistsBijection(S, M)
      BY <3>1, <3>3, <3>4 DEF ExistsBijection
    <3> QED
      BY <3>5, FS_Bijection
  <2>7. \A p, q \in M : <<p, q>> \in R <=>
               \/ <<Name(p), Name(q)>> \in NameOrder
               \/ Name(p) = Name(q) /\ <<p, q>> \in PathOrder
    <3>1. \A p \in M : Name(p) \in Seq(Nat) /\ p \in Seq(Seq(Nat))
      BY <2>3, NameType
    <3> QED
      BY <3>1, NamesOrdered, PathsOrdered
  <2>8. Irreflexive(R, M) /\ Transitive(R, M)
    <3> HIDE DEF R
    <3> QED
      BY <2>3, <2>7, NamedPathsOrdered
  <2>9. Lists(E, M, R)
    <3>1. ASSUME NEW i \in 1..n, NEW j \in 1..n, i < j PROVE <<E[i], E[j]>> \in R
      <4>1. E[i] \in M /\ E[j] \in M /\ E[i] = out[order[i]] /\ E[j] = out[order[j]]
            /\ order[i] \in 1..n /\ order[j] \in 1..n
        BY <2>4
      <4>2. \/ <<Name(E[i]), Name(E[j])>> \in NameOrder
            \/ Name(E[i]) = Name(E[j]) /\ order[i] < order[j]
        BY <2>2, <3>1, <4>1
      <4>3. order[i] < order[j] => <<E[i], E[j]>> \in PathOrder
        BY <2>1, <4>1
      <4> HIDE DEF R
      <4> QED
        BY <2>7, <4>1, <4>2, <4>3
    <3>2. E \in [1..n -> M]
      BY <2>2, <2>4
    <3> HIDE DEF R
    <3> QED
      BY <2>6, <3>1, <3>2 DEF Lists
  <2>10. sorted = E
    <3>1. E \in [1..Cardinality(M) -> M] /\ \A i, j \in DOMAIN E : i < j => before(E[i], E[j])
      BY <2>9 DEF Lists
    <3> HIDE DEF before
    <3>2. /\ sorted \in [1..Cardinality(M) -> M]
          /\ \A i, j \in DOMAIN sorted : i < j => before(sorted[i], sorted[j])
      BY <3>1 DEF Sorted
    <3> HIDE DEF sorted
    <3>3. Lists(sorted, M, R)
      BY <3>2 DEF Lists
    <3> HIDE DEF R
    <3> QED
      BY <2>3, <2>8, <2>9, <3>3, ListsUnique
  <2>11. Reference(fs) = [i \in 1..Len(E) |->
            [path |-> E[i], name |-> Name(E[i]), content |-> fs[Resolve(fs, E[i])].content]]
    BY <2>10 DEF Reference, M
  <2>12. Len(E) = n
    BY <2>1, <2>2
  <2>13. ASSUME NEW i \in 1..n
         PROVE  measurement[i] = [path |-> E[i], name |-> Name(E[i]),
                                  content |-> fs[Resolve(fs, E[i])].content]
    <3>1. measurement \in Seq([path : Named, name : Seq(Nat), content : Contents])
      BY <1>1 DEF ReadInv, WalkInv, FolderTypes
    <3>2. measurement[i] \in [path : Named, name : Seq(Nat), content : Contents]
      BY <2>1, <3>1, ElementOfSeq
    <3>3. /\ measurement[i].path = E[i] /\ measurement[i].name = Name(E[i])
          /\ measurement[i].content = fs[Resolve(fs, E[i])].content
      BY <1>1, <2>1 DEF ReadInv, ReadContents
    <3> QED
      BY <3>2, <3>3
  <2>14. measurement = [i \in 1..n |-> measurement[i]]
    <3>1. measurement \in Seq([path : Named, name : Seq(Nat), content : Contents])
      BY <1>1 DEF ReadInv, WalkInv, FolderTypes
    <3> QED
      BY <2>1, <3>1, LenProperties
  <2> QED
    BY <2>11, <2>12, <2>13, <2>14
<1>2. ReadInv => UndisturbedExact
    BY <1>1 DEF UndisturbedExact
<1> QED
    BY <1>2, ReadInvariance, PTL

-----------------------------------------------------------------------------
(* The total hash *)

\* One step of Decode: what is at i, where the next entry begins, and the list
\* from i on if rest is the list from there on.
Item(s, i) == [name |-> SubSeq(s, i + 1, i + s[i]), hash |-> s[i + s[i] + 1]]
After(s, i) == i + s[i] + 2
Decoded(s, i, rest) ==
    IF i > Len(s) THEN <<>>
    ELSE IF i + s[i] + 1 > Len(s) THEN <<None>>
    ELSE <<Item(s, i)>> \o rest

\* Only an entry that ends within the string is followed by another.
LEMMA DecodedNext ==
    ASSUME NEW s \in Seq(Nat), NEW i \in 1..(Len(s) + 1)
    PROVE  \/ \A t, u : Decoded(s, i, t) = Decoded(s, i, u)
           \/ After(s, i) \in (i + 1)..(Len(s) + 1)
<1>1. Len(s) \in Nat /\ (i <= Len(s) => s[i] \in Nat)
    BY LenProperties, ElementOfSeq
<1>2. CASE i > Len(s)
    BY <1>2 DEF Decoded
<1>3. CASE i <= Len(s) /\ i + s[i] + 1 > Len(s)
    BY <1>3 DEF Decoded
<1>4. CASE i <= Len(s) /\ ~(i + s[i] + 1 > Len(s))
  <2>1. PICK x \in Nat : x = s[i]
    BY <1>1, <1>4
  <2>2. i + x + 2 \in (i + 1)..(Len(s) + 1)
    <3>1. PICK n \in Nat : n = Len(s)
      BY <1>1
    <3>2. i \in Nat /\ i + x + 1 <= n
      BY <1>1, <1>4, <2>1, <3>1
    <3>3. i + x + 2 \in (i + 1)..(n + 1)
      BY <3>2
    <3> QED
      BY <3>1, <3>3
  <2> QED
    BY <2>1, <2>2 DEF After
<1> QED
    BY <1>1, <1>2, <1>3, <1>4

\* Every string can be read from its end.
LEMMA DecodeExists ==
    ASSUME NEW s \in Seq(Nat)
    PROVE  \E h : h = [i \in 1..(Len(s) + 1) |-> Decoded(s, i, h[After(s, i)])]
<1> DEFINE N == Len(s)
           good(x) == \E h : \A i \in (N + 1 - x)..(N + 1) : h[i] = Decoded(s, i, h[After(s, i)])
           B == {x \in 0..N : ~ good(x)}
<1>1. N \in Nat
    BY LenProperties
<1>2. \A i \in 1..(N + 1) :
        \/ \A t, u : Decoded(s, i, t) = Decoded(s, i, u)
        \/ After(s, i) \in (i + 1)..(N + 1)
    BY DecodedNext
<1> HIDE DEF N
<1>3. B = {}
  <2> SUFFICES ASSUME B # {} PROVE FALSE
    OBVIOUS
  <2> HIDE DEF good
  <2>1. PICK x \in B : \A y \in B : x <= y
    <3>1. B \subseteq Nat
      BY <1>1
    <3> HIDE DEF B
    <3> QED
      BY <3>1, LeastOf
  <2>2. x \in 0..N /\ ~good(x)
    BY <2>1
  <2>3. PICK k \in 1..(N + 1) : k = N + 1 - x
    <3>1. N + 1 - x \in 1..(N + 1)
      BY <1>1, <2>2
    <3> QED
      BY <3>1
  <2>4. PICK h : \A i \in (k + 1)..(N + 1) : h[i] = Decoded(s, i, h[After(s, i)])
    <3>1. CASE x = 0
      <4>1. \A i \in (k + 1)..(N + 1) : FALSE
        BY <1>1, <2>3, <3>1
      <4> QED
        BY <4>1
    <3>2. CASE x # 0
      <4>1. x - 1 \in 0..N /\ ~(x <= x - 1) /\ N + 1 - (x - 1) = k + 1
        BY <1>1, <2>2, <2>3, <3>2
      <4>2. good(x - 1)
        BY <2>1, <4>1
      <4> QED
        BY <4>1, <4>2 DEF good
    <3> QED
      BY <3>1, <3>2
  <2> DEFINE g == [i \in k..(N + 1) |-> IF i = k THEN Decoded(s, k, h[After(s, k)]) ELSE h[i]]
  <2>5. \A i \in (k + 1)..(N + 1) : g[i] = h[i]
    <3>1. \A i \in (k + 1)..(N + 1) : i \in k..(N + 1) /\ i # k
      BY <1>1
    <3> QED
      BY <3>1
  <2>6. ASSUME NEW i \in k..(N + 1) PROVE g[i] = Decoded(s, i, g[After(s, i)])
    <3>1. g[i] = Decoded(s, i, h[After(s, i)])
      <4>1. i # k => i \in (k + 1)..(N + 1)
        BY <1>1, <2>3
      <4> QED
        BY <2>4, <4>1
    <3>2. i \in 1..(N + 1)
      BY <1>1, <2>3
    <3>3. After(s, i) \in (i + 1)..(N + 1) => After(s, i) \in (k + 1)..(N + 1)
      BY <1>1, <2>3
    <3> HIDE DEF g
    <3> QED
      BY <1>2, <2>5, <3>1, <3>2, <3>3
  <2> HIDE DEF g
  <2>7. good(x)
    BY <2>3, <2>6 DEF good
  <2> QED
    BY <2>2, <2>7
<1>4. N \in 0..N /\ N + 1 - N = 1
    BY <1>1
<1>5. good(N)
    BY <1>3, <1>4
<1>6. PICK h : \A i \in 1..(N + 1) : h[i] = Decoded(s, i, h[After(s, i)])
    BY <1>4, <1>5
<1> DEFINE g == [i \in 1..(N + 1) |-> h[i]]
<1>7. ASSUME NEW i \in 1..(N + 1) PROVE g[i] = Decoded(s, i, g[After(s, i)])
  <2>1. g[i] = Decoded(s, i, h[After(s, i)])
    BY <1>6
  <2>2. After(s, i) \in (i + 1)..(N + 1) => After(s, i) \in 1..(N + 1)
    BY <1>1
  <2>3. After(s, i) \in 1..(N + 1) => g[After(s, i)] = h[After(s, i)]
    OBVIOUS
  <2> HIDE DEF g
  <2> QED
    BY <1>2, <2>1, <2>2, <2>3
<1>8. g = [i \in 1..(N + 1) |-> Decoded(s, i, g[After(s, i)])]
    BY <1>7
<1> QED
    BY <1>8 DEF N

\* So Decode is what it says.
LEMMA DecodeIs ==
    ASSUME NEW s \in Seq(Nat)
    PROVE  \E h : /\ Decode(s) = h[1]
                  /\ \A i \in 1..(Len(s) + 1) : h[i] = Decoded(s, i, h[After(s, i)])
<1> DEFINE step(h) == [i \in 1..(Len(s) + 1) |-> Decoded(s, i, h[After(s, i)])]
           h0 == CHOOSE h : h = step(h)
<1>1. \E h : h = step(h)
    BY DecodeExists
<1>2. Decode(s) = h0[1]
    BY DEF Decode, Decoded, Item, After
<1> HIDE DEF step
<1>3. h0 = step(h0)
    BY <1>1, Zenon
<1> HIDE DEF h0
<1>4. \A i \in 1..(Len(s) + 1) : h0[i] = Decoded(s, i, h0[After(s, i)])
    BY <1>3 DEF step
<1> QED
    BY <1>2, <1>4

\* The entry of a measured file in the string: its place there, and where the
\* next one begins.
EntryAt(s, i, m, next) ==
    /\ i \in Nat /\ i >= 1 /\ next = i + Len(m.name) + 2 /\ next <= Len(s) + 1
    /\ s[i] = Len(m.name)
    /\ \A k \in 1..Len(m.name) : s[i + k] = m.name[k]
    /\ s[i + Len(m.name) + 1] = Hash(m.content)
Entries(s, ms, o) ==
    /\ o \in [1..(Len(ms) + 1) -> Nat]
    /\ o[1] = 1 /\ o[Len(ms) + 1] = Len(s) + 1
    /\ \A j \in 1..Len(ms) : EntryAt(s, o[j], ms[j], o[j + 1])
TotalInv == \E o : Entries(total, measurement, o)
Measured == [path : Named, name : Seq(Nat), content : Contents]

\* It is read as that.
LEMMA EntryDecoded ==
    ASSUME NEW s \in Seq(Nat), NEW i, NEW m \in Measured, NEW next, EntryAt(s, i, m, next),
           NEW t
    PROVE  /\ i \in 1..(Len(s) + 1)
           /\ After(s, i) = next
           /\ Decoded(s, i, t) = <<[name |-> m.name, hash |-> Hash(m.content)]>> \o t
<1> DEFINE n == Len(m.name)
<1>1. m.name \in Seq(Nat) /\ n \in Nat /\ Len(s) \in Nat
    BY LenProperties DEF Measured
<1>2. /\ i \in Nat /\ i >= 1 /\ next = i + n + 2 /\ next <= Len(s) + 1
      /\ s[i] = n /\ s[i + n + 1] = Hash(m.content)
      /\ \A k \in 1..n : s[i + k] = m.name[k]
    BY DEF EntryAt
<1>3. \A j \in (i + 1)..(i + n) : s[j] \in Nat
  <2>1. \A j \in (i + 1)..(i + n) : j \in 1..Len(s)
    <3> HIDE DEF n
    <3> QED
      BY <1>1, <1>2
  <2> QED
    BY <2>1, ElementOfSeq
<1>4. SubSeq(s, i + 1, i + n) = m.name
  <2> DEFINE u == SubSeq(s, i + 1, i + n)
  <2> HIDE DEF n
  <2>1. i + 1 \in Nat /\ i + n \in Nat /\ i + n - (i + 1) + 1 = n /\ 1 <= i + 1 /\ i + n <= Len(s)
    BY <1>1, <1>2
  <2>2. u \in Seq(Nat) /\ Len(u) = n /\ \A k \in 1..n : u[k] = s[i + k]
    <3>1. /\ u \in Seq(Nat)
          /\ Len(u) = IF i + 1 <= i + n THEN i + n - (i + 1) + 1 ELSE 0
          /\ \A k \in 1..(i + n - (i + 1) + 1) : u[k] = s[i + 1 + k - 1]
      <4>1. PICK a \in Int, b \in Int : a = i + 1 /\ b = i + n
        BY <2>1
      <4>2. \A k \in a..b : s[k] \in Nat
        BY <1>3, <4>1
      <4>3. /\ SubSeq(s, a, b) \in Seq(Nat)
            /\ Len(SubSeq(s, a, b)) = IF a <= b THEN b - a + 1 ELSE 0
            /\ \A k \in 1..(b - a + 1) : SubSeq(s, a, b)[k] = s[a + k - 1]
        BY <4>2, SubSeqProperties
      <4>4. u = SubSeq(s, a, b)
        BY <4>1
      <4> HIDE DEF u
      <4>5. /\ u \in Seq(Nat)
            /\ Len(u) = IF a <= b THEN b - a + 1 ELSE 0
            /\ \A k \in 1..(b - a + 1) : u[k] = s[a + k - 1]
        BY <4>3, <4>4
      <4>6. i \in Nat /\ n \in Nat
        BY <1>1, <1>2
      <4>7. \A k \in 1..(b - a + 1) : a + k - 1 = i + 1 + k - 1
        BY <4>1, <4>6
      <4>8. b - a + 1 = i + n - (i + 1) + 1
        BY <4>1, <4>6
      <4>9. \A k \in 1..(b - a + 1) : u[k] = s[i + 1 + k - 1]
        BY <4>5, <4>7
      <4>10. Len(u) = IF i + 1 <= i + n THEN i + n - (i + 1) + 1 ELSE 0
        BY <4>1, <4>5, <4>8
      <4> QED
        BY <4>5, <4>8, <4>9, <4>10
    <3> HIDE DEF u
    <3>2. Len(u) = n
      <4>1. Len(u) = IF i + 1 <= i + n THEN n ELSE 0
        BY <2>1, <3>1
      <4>2. ~(i + 1 <= i + n) => n = 0
        BY <1>1, <1>2
      <4> QED
        BY <4>1, <4>2
    <3>3. \A k \in 1..n : i + 1 + k - 1 = i + k
      BY <1>1, <1>2
    <3>4. \A k \in 1..n : u[k] = s[i + 1 + k - 1]
      BY <2>1, <3>1
    <3> QED
      BY <3>1, <3>2, <3>3, <3>4
  <2> HIDE DEF u
  <2>3. \A k \in 1..n : u[k] = m.name[k]
    BY <1>2, <2>2
  <2>4. Len(m.name) = n
    BY DEF n
  <2>5. u = m.name
    BY <1>1, <2>2, <2>3, <2>4, SeqEqual
  <2> QED
    BY <2>5 DEF u
<1> HIDE DEF n
<1>5. i <= Len(s) /\ ~(i + n + 1 > Len(s)) /\ i \in 1..(Len(s) + 1)
    BY <1>1, <1>2
<1>6. ~(i > Len(s)) /\ ~(i + s[i] + 1 > Len(s))
    BY <1>1, <1>2, <1>5
<1>7. Item(s, i) = [name |-> m.name, hash |-> Hash(m.content)]
    BY <1>2, <1>4 DEF Item
<1>8. After(s, i) = next
    BY <1>2 DEF After
<1> QED
    BY <1>5, <1>6, <1>7, <1>8 DEF Decoded

\* A string with such entries is read as their list.
LEMMA EntriesDecoded ==
    ASSUME NEW s \in Seq(Nat), NEW ms \in Seq(Measured), NEW o, Entries(s, ms, o)
    PROVE  Decode(s) = [i \in 1..Len(ms) |-> [name |-> ms[i].name, hash |-> Hash(ms[i].content)]]
<1>1. PICK h : /\ Decode(s) = h[1]
               /\ \A i \in 1..(Len(s) + 1) : h[i] = Decoded(s, i, h[After(s, i)])
    BY DecodeIs
<1> DEFINE m == Len(ms)
           rec(i) == [name |-> ms[i].name, hash |-> Hash(ms[i].content)]
           list(x) == [i \in 1..x |-> rec(m - x + i)]
           B == {x \in 0..m : h[o[m + 1 - x]] # list(x)}
<1>2. /\ m \in Nat /\ Len(s) \in Nat /\ \A j \in 1..m : ms[j] \in Measured
      /\ o[1] = 1 /\ o[m + 1] = Len(s) + 1
      /\ \A j \in 1..m : EntryAt(s, o[j], ms[j], o[j + 1])
    BY LenProperties, ElementOfSeq DEF Entries
<1> HIDE DEF m, rec
<1>3. B = {}
  <2> SUFFICES ASSUME B # {} PROVE FALSE
    OBVIOUS
  <2> HIDE DEF list
  <2>1. PICK x \in B : \A y \in B : x <= y
    <3>1. B \subseteq Nat
      BY <1>2
    <3> HIDE DEF B
    <3> QED
      BY <3>1, LeastOf
  <2>2. x \in 0..m /\ h[o[m + 1 - x]] # list(x)
    BY <2>1
  <2>3. CASE x = 0
    <3>1. o[m + 1 - x] = Len(s) + 1
      <4>1. m + 1 - x = m + 1
        BY <1>2, <2>3
      <4> QED
        BY <1>2, <4>1
    <3>2. Len(s) + 1 \in 1..(Len(s) + 1) /\ Len(s) + 1 > Len(s)
      BY <1>2
    <3>3. h[Len(s) + 1] = <<>>
      BY <1>1, <3>2 DEF Decoded
    <3>4. list(x) = <<>>
      BY <2>3 DEF list
    <3> QED
      BY <2>2, <3>1, <3>3, <3>4
  <2>4. CASE x # 0
    <3>1. x - 1 \in 0..m /\ ~(x <= x - 1)
      BY <1>2, <2>2, <2>4
    <3>2. PICK j \in 1..m : j = m + 1 - x /\ j + 1 = m + 1 - (x - 1) /\ j = m - x + 1
      <4>1. m + 1 - x \in 1..m /\ m + 1 - x + 1 = m + 1 - (x - 1) /\ m + 1 - x = m - x + 1
        BY <1>2, <2>2, <2>4
      <4> QED
        BY <4>1
    <3>3. h[o[j + 1]] = list(x - 1)
      BY <2>1, <3>1, <3>2
    <3>4. /\ o[j] \in 1..(Len(s) + 1) /\ After(s, o[j]) = o[j + 1]
          /\ Decoded(s, o[j], list(x - 1)) = <<rec(j)>> \o list(x - 1)
      <4>1. EntryAt(s, o[j], ms[j], o[j + 1]) /\ ms[j] \in Measured
        BY <1>2
      <4> QED
        BY <4>1, EntryDecoded DEF rec
    <3>5. h[o[j]] = <<rec(j)>> \o list(x - 1)
      BY <1>1, <3>3, <3>4
    <3>6. <<rec(j)>> \o list(x - 1) = list(x)
      <4>1. PICK y \in Nat : y = x - 1 /\ x = y + 1 /\ y <= m
        BY <1>2, <2>2, <3>1
      <4>2. \A i \in 1..x : (i = 1 \/ i - 1 \in 1..y) /\ m - x + i = m - y + (i - 1) /\ (i = 1 => m - x + i = j)
        BY <1>2, <3>2, <4>1
      <4> DEFINE t == [i \in 1..y |-> rec(m - y + i)]
      <4>3. t = list(x - 1) /\ Len(t) = y
        BY <4>1 DEF list
      <4>4. \A i \in 1..y : t[i] = rec(m - y + i)
        OBVIOUS
      <4>5. list(x) = [i \in 1..(y + 1) |-> rec(m - x + i)]
        BY <4>1 DEF list
      <4> DEFINE u == [i \in 1..(y + 1) |-> IF i = 1 THEN rec(j) ELSE t[i - 1]]
      <4>6. <<rec(j)>> \o t = u
        <5> HIDE DEF rec
        <5>1. Len(<<rec(j)>>) = 1 /\ <<rec(j)>>[1] = rec(j)
          OBVIOUS
        <5> DEFINE C == {rec(i) : i \in 1..m}
        <5>2. \A i \in 1..y : m - y + i \in 1..m
          BY <1>2, <4>1
        <5>3. t \in Seq(C)
          <6>1. \A i \in 1..y : rec(m - y + i) \in C
            BY <5>2
          <6> HIDE DEF C
          <6> QED
            BY <4>1, <6>1, IsASeq
        <5>4. <<rec(j)>> \in Seq(C)
          OBVIOUS
        <5> HIDE DEF t, C
        <5> DEFINE h1 == <<rec(j)>>
                   v == h1 \o t
        <5>5. h1 \in Seq(C) /\ Len(h1) = 1
          BY <5>1, <5>4
        <5> HIDE DEF h1
        <5>6. /\ v \in Seq(C) /\ Len(v) = Len(h1) + Len(t)
              /\ \A i \in 1..(Len(h1) + Len(t)) :
                   v[i] = IF i <= Len(h1) THEN h1[i] ELSE t[i - Len(h1)]
          BY <5>3, <5>5, ConcatProperties, Zenon
        <5>7. /\ v \in Seq(C) /\ Len(v) = 1 + y
              /\ \A i \in 1..(1 + y) : v[i] = IF i <= 1 THEN <<rec(j)>>[i] ELSE t[i - 1]
          BY <4>3, <5>5, <5>6, Zenon DEF h1
        <5> HIDE DEF v
        <5>8. v = [i \in 1..(1 + y) |-> v[i]]
          BY <5>7, LenProperties
        <5>9. \A i \in 1..(y + 1) : v[i] = IF i = 1 THEN rec(j) ELSE t[i - 1]
          <6>1. \A i \in 1..(y + 1) : i <= 1 <=> i = 1
            BY <4>1
          <6>2. 1 + y = y + 1
            BY <4>1
          <6> QED
            BY <5>1, <5>7, <6>1, <6>2
        <5>10. 1 + y = y + 1
          BY <4>1
        <5> QED
          BY <5>8, <5>9, <5>10 DEF v, h1
      <4>7. ASSUME NEW i \in 1..(y + 1)
            PROVE  (IF i = 1 THEN rec(j) ELSE t[i - 1]) = rec(m - x + i)
        <5> HIDE DEF t
        <5>1. i \in 1..x
          BY <4>1
        <5>2. CASE i = 1
          BY <4>2, <5>1, <5>2
        <5>3. CASE i # 1
          <6>1. i - 1 \in 1..y /\ m - x + i = m - y + (i - 1)
            BY <4>2, <5>1, <5>3
          <6>2. t[i - 1] = rec(m - y + (i - 1))
            BY <4>4, <6>1
          <6> QED
            BY <5>3, <6>1, <6>2
        <5> QED
          BY <5>2, <5>3
      <4> HIDE DEF t
      <4>8. u = list(x)
        BY <4>5, <4>7
      <4> HIDE DEF u
      <4> QED
        BY <4>3, <4>6, <4>8
    <3> QED
      BY <2>2, <3>2, <3>5, <3>6
  <2> QED
    BY <2>3, <2>4
<1>4. m \in 0..m /\ m + 1 - m = 1
    BY <1>2
<1>5. h[o[1]] = list(m)
    BY <1>3, <1>4
<1>6. list(m) = [i \in 1..m |-> rec(i)]
  <2>1. \A i \in 1..m : m - m + i = i
    BY <1>2
  <2> QED
    BY <2>1
<1> QED
    BY <1>1, <1>2, <1>5, <1>6 DEF m, rec

\* An entry stays where it is when the string grows.
LEMMA EntryStays ==
    ASSUME NEW s \in Seq(Nat), NEW e \in Seq(Nat), NEW i, NEW m \in Measured, NEW next,
           EntryAt(s, i, m, next)
    PROVE  EntryAt(s \o e, i, m, next)
<1> DEFINE n == Len(m.name)
           t == s \o e
<1>1. /\ n \in Nat /\ Len(s) \in Nat /\ Len(e) \in Nat /\ Len(t) = Len(s) + Len(e)
      /\ \A j \in 1..(Len(s) + Len(e)) : t[j] = IF j <= Len(s) THEN s[j] ELSE e[j - Len(s)]
    BY ConcatProperties, LenProperties DEF Measured
<1>2. \A j \in 1..Len(s) : t[j] = s[j]
  <2>1. \A j \in 1..Len(s) : j \in 1..(Len(s) + Len(e)) /\ j <= Len(s)
    BY <1>1
  <2> QED
    BY <1>1, <2>1
<1> HIDE DEF t, n
<1>3. /\ i \in Nat /\ i >= 1 /\ next = i + n + 2 /\ next <= Len(s) + 1
      /\ s[i] = n /\ s[i + n + 1] = Hash(m.content)
      /\ \A k \in 1..n : s[i + k] = m.name[k]
    BY DEF EntryAt, n
<1>4. /\ i \in 1..Len(s) /\ i + n + 1 \in 1..Len(s) /\ \A k \in 1..n : i + k \in 1..Len(s)
      /\ next <= Len(t) + 1
    BY <1>1, <1>3
<1>5. EntryAt(t, i, m, next)
    BY <1>2, <1>3, <1>4 DEF EntryAt, n
<1> QED
    BY <1>5 DEF t

\* What is fed to the hasher for a file is its entry.
LEMMA EntryAdded ==
    ASSUME NEW s \in Seq(Nat), NEW m \in Measured
    PROVE  LET t == s \o HashEntry(m.name, m.content)
           IN  /\ t \in Seq(Nat) /\ HashEntry(m.name, m.content) \in Seq(Nat)
               /\ EntryAt(t, Len(s) + 1, m, Len(t) + 1)
<1> DEFINE nm == m.name
           n == Len(nm)
           e == HashEntry(nm, m.content)
           t == s \o e
           head == <<n>> \o nm
           last == <<Hash(m.content)>>
<1>1. nm \in Seq(Nat) /\ n \in Nat /\ Len(s) \in Nat /\ Hash(m.content) \in Nat
  <2>1. m.content \in Nat
    BY NodesAssumption DEF Measured
  <2> QED
    BY <2>1, LenProperties DEF Measured, Hash
<1> HIDE DEF nm, n
<1>2. <<n>> \in Seq(Nat) /\ Len(<<n>>) = 1 /\ <<n>>[1] = n
      /\ last \in Seq(Nat) /\ Len(last) = 1 /\ last[1] = Hash(m.content)
    BY <1>1
<1>3. /\ head \in Seq(Nat) /\ Len(head) = 1 + n
      /\ \A j \in 1..(1 + n) : head[j] = IF j <= 1 THEN <<n>>[j] ELSE nm[j - 1]
    BY <1>1, <1>2, ConcatProperties DEF n
<1>4. e = head \o last
    BY DEF HashEntry, n
<1> HIDE DEF head, last, e
<1>5. /\ e \in Seq(Nat) /\ Len(e) = (1 + n) + 1
      /\ \A j \in 1..((1 + n) + 1) : e[j] = IF j <= 1 + n THEN head[j] ELSE last[j - (1 + n)]
  <2>1. PICK l \in Nat : l = Len(head) /\ l = 1 + n
    BY <1>1, <1>3
  <2>2. PICK u, v : u = head /\ v = last /\ e = u \o v
    BY <1>4
  <2>3. u \in Seq(Nat) /\ v \in Seq(Nat) /\ Len(u) = l /\ Len(v) = 1
    BY <1>2, <1>3, <2>1, <2>2
  <2>4. /\ e \in Seq(Nat) /\ Len(e) = l + 1
        /\ \A j \in 1..(l + 1) : e[j] = IF j <= l THEN u[j] ELSE v[j - l]
    <3>1. /\ u \o v \in Seq(Nat) /\ Len(u \o v) = Len(u) + Len(v)
          /\ \A j \in 1..(Len(u) + Len(v)) : (u \o v)[j] = IF j <= Len(u) THEN u[j] ELSE v[j - Len(u)]
      BY <2>3, ConcatProperties
    <3>2. PICK w : w = u \o v
      OBVIOUS
    <3> QED
      BY <2>2, <2>3, <3>1, <3>2
  <2> QED
    BY <2>1, <2>2, <2>4
<1>6. e[1] = n /\ e[n + 2] = Hash(m.content) /\ \A k \in 1..n : e[1 + k] = nm[k]
  <2>1. 1 \in 1..((1 + n) + 1) /\ 1 <= 1 + n /\ 1 \in 1..(1 + n)
    BY <1>1
  <2>2. n + 2 \in 1..((1 + n) + 1) /\ ~(n + 2 <= 1 + n) /\ n + 2 - (1 + n) = 1
    BY <1>1
  <2>3. \A k \in 1..n : /\ 1 + k \in 1..((1 + n) + 1) /\ 1 + k <= 1 + n /\ 1 + k \in 1..(1 + n)
                        /\ ~(1 + k <= 1) /\ 1 + k - 1 = k
    BY <1>1
  <2>4. e[1] = n
    BY <1>2, <1>3, <1>5, <2>1
  <2>5. e[n + 2] = Hash(m.content)
    BY <1>2, <1>5, <2>2
  <2>6. \A k \in 1..n : e[1 + k] = nm[k]
    BY <1>3, <1>5, <2>3
  <2> QED
    BY <2>4, <2>5, <2>6
<1>7. /\ t \in Seq(Nat) /\ Len(t) = Len(s) + Len(e)
      /\ \A j \in 1..(Len(s) + Len(e)) : t[j] = IF j <= Len(s) THEN s[j] ELSE e[j - Len(s)]
    BY <1>5, ConcatProperties
<1> HIDE DEF t
<1>8. \A k \in 1..(n + 2) : t[Len(s) + k] = e[k]
  <2>1. \A k \in 1..(n + 2) : /\ Len(s) + k \in 1..(Len(s) + Len(e)) /\ ~(Len(s) + k <= Len(s))
                              /\ Len(s) + k - Len(s) = k
    BY <1>1, <1>5
  <2> QED
    BY <1>7, <2>1
<1>9. EntryAt(t, Len(s) + 1, m, Len(t) + 1)
  <2>1. /\ 1 \in 1..(n + 2) /\ n + 2 \in 1..(n + 2) /\ \A k \in 1..n : 1 + k \in 1..(n + 2)
        /\ Len(s) + (n + 2) = Len(s) + 1 + n + 1 /\ \A k \in 1..n : Len(s) + (1 + k) = Len(s) + 1 + k
    BY <1>1
  <2>2. t[Len(s) + 1] = n
    BY <1>6, <1>8, <2>1
  <2>3. t[Len(s) + 1 + n + 1] = Hash(m.content)
    BY <1>6, <1>8, <2>1
  <2>4. \A k \in 1..n : t[Len(s) + 1 + k] = nm[k]
    BY <1>6, <1>8, <2>1
  <2>5. Len(t) + 1 = Len(s) + 1 + n + 2 /\ Len(t) + 1 <= Len(t) + 1
        /\ Len(s) + 1 \in Nat /\ Len(s) + 1 >= 1
    BY <1>1, <1>5, <1>7
  <2> QED
    BY <2>2, <2>3, <2>4, <2>5 DEF EntryAt, n, nm
<1> QED
    BY <1>5, <1>7, <1>9 DEF t, e, nm

\* The string grows by an entry with every file that is read.
LEMMA TotalGrows ==
    ASSUME NEW s \in Seq(Nat), NEW ms \in Seq(Measured), NEW o, Entries(s, ms, o), NEW m \in Measured
    PROVE  \E p : Entries(s \o HashEntry(m.name, m.content), Append(ms, m), p)
<1> DEFINE e == HashEntry(m.name, m.content)
           t == s \o e
           n == Len(ms)
           us == Append(ms, m)
           p == [j \in 1..(n + 2) |-> IF j = n + 2 THEN Len(t) + 1 ELSE o[j]]
<1>1. /\ t \in Seq(Nat) /\ e \in Seq(Nat) /\ EntryAt(t, Len(s) + 1, m, Len(t) + 1)
    BY EntryAdded
<1>2. n \in Nat /\ Len(us) = n + 1 /\ us[n + 1] = m /\ \A j \in 1..n : us[j] = ms[j]
    BY AppendProperties, LenProperties
<1>3. /\ o \in [1..(n + 1) -> Nat] /\ o[1] = 1 /\ o[n + 1] = Len(s) + 1
      /\ \A j \in 1..n : EntryAt(s, o[j], ms[j], o[j + 1])
    BY DEF Entries
<1>4. \A j \in 1..n : EntryAt(t, o[j], ms[j], o[j + 1])
  <2> SUFFICES ASSUME NEW j \in 1..n PROVE EntryAt(t, o[j], ms[j], o[j + 1])
    OBVIOUS
  <2>1. ms[j] \in Measured /\ EntryAt(s, o[j], ms[j], o[j + 1])
    BY <1>3, ElementOfSeq
  <2> HIDE DEF e
  <2> QED
    BY <1>1, <2>1, EntryStays
<1>5. Len(t) + 1 \in Nat
    BY <1>1, LenProperties
<1> HIDE DEF t, e, us, n
<1>6. /\ \A j \in 1..(n + 1) : p[j] = o[j] /\ p[j] \in Nat
      /\ p[n + 2] = Len(t) + 1
      /\ p[1] = 1
  <2>1. /\ \A j \in 1..(n + 1) : j \in 1..(n + 2) /\ j # n + 2
        /\ n + 2 \in 1..(n + 2) /\ 1 \in 1..(n + 1)
    BY <1>2
  <2> QED
    BY <1>3, <2>1
<1>7. p \in [1..(n + 2) -> Nat]
  <2>1. \A j \in 1..(n + 2) : j = n + 2 \/ j \in 1..(n + 1)
    BY <1>2
  <2> QED
    BY <1>3, <1>5, <2>1
<1> HIDE DEF p
<1>8. ASSUME NEW j \in 1..(n + 1) PROVE EntryAt(t, p[j], us[j], p[j + 1])
  <2>1. CASE j = n + 1
    <3>1. j + 1 = n + 2 /\ p[j] = Len(s) + 1 /\ us[j] = m
      BY <1>2, <1>3, <1>6, <2>1
    <3> QED
      BY <1>1, <1>6, <3>1
  <2>2. CASE j # n + 1
    <3>1. j \in 1..n /\ j + 1 \in 1..(n + 1)
      BY <1>2, <2>2
    <3>2. p[j] = o[j] /\ p[j + 1] = o[j + 1] /\ us[j] = ms[j]
      BY <1>2, <1>6, <3>1
    <3> QED
      BY <1>4, <3>1, <3>2
  <2> QED
    BY <2>1, <2>2
<1>9. Len(us) + 1 = n + 2
    BY <1>2
<1>10. Entries(t, us, p)
    BY <1>2, <1>6, <1>7, <1>8, <1>9 DEF Entries
<1> QED
    BY <1>10 DEF t, e, us

\* What is fed to the hasher is the entries of the files read, at all times.
THEOREM TotalInvariance == Spec => []TotalInv
<1>1. Init => TotalInv
  <2> SUFFICES ASSUME Init PROVE TotalInv
    OBVIOUS
  <2>1. total = <<>> /\ measurement = <<>> /\ Len(<<>>) = 0
    BY EmptySeq DEF Init
  <2> DEFINE o == [j \in 1..1 |-> 1]
  <2>2. o \in [1..1 -> Nat] /\ o[1] = 1
    OBVIOUS
  <2> HIDE DEF o
  <2>3. Entries(<<>>, <<>>, o)
    BY <2>1, <2>2 DEF Entries
  <2> QED
    BY <2>1, <2>3 DEF TotalInv
<1>2. FolderTypes /\ TotalInv /\ [Next]_vars => TotalInv'
  <2> SUFFICES ASSUME FolderTypes, TotalInv, [Next]_vars PROVE TotalInv'
    OBVIOUS
  <2>1. CASE UNCHANGED <<measurement, total>>
    BY <2>1 DEF TotalInv
  <2>2. CASE ReadFile
    <3> DEFINE p == Head(entries)
               rec == [path |-> p, name |-> Name(p), content |-> fs[Resolve(fs, p)].content]
    <3>1. /\ measurement' = Append(measurement, rec)
          /\ total' = total \o HashEntry(rec.name, rec.content)
      BY <2>2 DEF ReadFile
    <3>2. rec \in Measured
      BY <2>2, FolderRead DEF Measured
    <3>3. total \in Seq(Nat) /\ measurement \in Seq(Measured)
      BY DEF FolderTypes, Measured
    <3> HIDE DEF rec
    <3>4. PICK o : Entries(total, measurement, o)
      BY DEF TotalInv
    <3>5. PICK t, ms : t = total \o HashEntry(rec.name, rec.content) /\ ms = Append(measurement, rec)
      OBVIOUS
    <3>6. \E q : Entries(t, ms, q)
      BY <3>2, <3>3, <3>4, <3>5, TotalGrows
    <3> QED
      BY <3>1, <3>5, <3>6 DEF TotalInv
  <2>3. CASE Next /\ ~ReadFile
    <3>1. UNCHANGED <<measurement, total>>
      BY <2>3 DEF Next, Change, Start, IoError, ReadDir, VisitGone, Visit, Canonicalize,
                  TargetMetadata, LeaveDir, ReadGone, Finish, readVars
    <3> QED
      BY <2>1, <3>1
  <2> QED
    BY <2>1, <2>2, <2>3 DEF vars, readVars
<1> QED
    BY <1>1, <1>2, FolderInvariance, PTL DEF Spec

\* total_hash stands for the names and file hashes of the response, all of
\* them and in their order: they can be read back from the string fed to the
\* hasher, where names of any length follow each other.
THEOREM TotalReadBack == Spec => []TotalBindsEntries
<1>1. FolderTypes /\ TotalInv => TotalBindsEntries
  <2> SUFFICES ASSUME FolderTypes, TotalInv
               PROVE  Decode(total) = [i \in 1..Len(measurement) |->
                          [name |-> measurement[i].name, hash |-> Hash(measurement[i].content)]]
    BY DEF TotalBindsEntries
  <2>1. total \in Seq(Nat) /\ measurement \in Seq(Measured)
    BY DEF FolderTypes, Measured
  <2>2. PICK o : Entries(total, measurement, o)
    BY DEF TotalInv
  <2> QED
    BY <2>1, <2>2, EntriesDecoded
<1> QED
    BY <1>1, FolderInvariance, TotalInvariance, PTL
=============================================================================
