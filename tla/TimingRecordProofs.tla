------------------------- MODULE TimingRecordProofs -------------------------
(* Proofs about the timing record.  What a handler opens and closes is     *)
(* settled once for each program, by following the tags that are in scope; *)
(* the invariant then keeps the accounts of the spans while time passes,   *)
(* while spans are opened and booked, and while an error unwinds them.  At *)
(* the end, the types of all the parts that StatelessParts composes.       *)
EXTENDS StatelessPartsProofs

-----------------------------------------------------------------------------
(* Timing record: the sum of the buckets *)

\* A collection of subsets of a finite set has a smallest one.
LEMMA SmallestSet ==
    ASSUME NEW D, IsFiniteSet(D), NEW B, B \subseteq SUBSET D, B # {}
    PROVE  \E T \in B : \A U \in B : U \subseteq T => U = T
<1>1. IsWellFoundedOn(StrictSubsetOrdering(D), FiniteSubsetsOf(D))
    BY FS_StrictSubsetOrderingWellFounded
<1>2. B \subseteq FiniteSubsetsOf(D)
    BY FS_FiniteSubsetsOfFinite
<1>3. PICK T \in B : \A U \in B : ~ (<<U, T>> \in StrictSubsetOrdering(D))
    BY <1>1, <1>2, WFMin
<1>4. ASSUME NEW U \in B, U \subseteq T, U # T PROVE FALSE
  <2>1. <<U, T>> \in (SUBSET D) \X (SUBSET D) /\ <<U, T>>[1] = U /\ <<U, T>>[2] = T
    OBVIOUS
  <2>2. <<U, T>> \in StrictSubsetOrdering(D)
    BY <1>4, <2>1 DEF StrictSubsetOrdering
  <2> QED
    BY <1>3, <2>2
<1> QED
    BY <1>3, <1>4

\* The sum of b over T, as the number of the points below its graph.
Points(b, T) == {p \in T \X Nat : 1 <= p[2] /\ p[2] <= b[p[1]]}
Sum(b, T) == Cardinality(Points(b, T))

\* A column of m points.
Column(x, m) == {x} \X (1..m)

\* There are m points in it.
LEMMA ColumnSize ==
    ASSUME NEW x, NEW m \in Nat
    PROVE  IsFiniteSet(Column(x, m)) /\ Cardinality(Column(x, m)) = m
<1>1. IsFiniteSet({x}) /\ Cardinality({x}) = 1
    BY FS_Singleton
<1>2. IsFiniteSet(1..m) /\ Cardinality(1..m) = m
    BY FS_Interval
<1>3. IsFiniteSet({x} \X (1..m)) /\ Cardinality({x} \X (1..m)) = 1 * m
    BY ZenonT(60), <1>1, <1>2, FS_Product
<1> QED
    BY <1>3 DEF Column

\* The points over T are those over T without x, and the column at x.
LEMMA PointsSplit ==
    ASSUME NEW b, NEW T, NEW x \in T, b[x] \in Nat
    PROVE  /\ Points(b, T) = Points(b, T \ {x}) \cup Column(x, b[x])
           /\ Points(b, T \ {x}) \cap Column(x, b[x]) = {}
<1>1. \A p : p \in Column(x, b[x]) <=> \E k \in 1..b[x] : p = <<x, k>>
    BY DEF Column
<1>2. \A p, S : p \in Points(b, S) <=> \E y \in S, k \in Nat : p = <<y, k>> /\ 1 <= k /\ k <= b[y]
    BY DEF Points
<1>3. ASSUME NEW p \in Points(b, T) PROVE p \in Points(b, T \ {x}) \cup Column(x, b[x])
  <2>1. PICK y \in T, k \in Nat : p = <<y, k>> /\ 1 <= k /\ k <= b[y]
    BY <1>2
  <2>2. CASE y = x
    BY <1>1, <2>1, <2>2
  <2>3. CASE y # x
    BY <1>2, <2>1, <2>3
  <2> QED
    BY <2>2, <2>3
<1>4. ASSUME NEW p \in Points(b, T \ {x}) PROVE p \in Points(b, T) /\ p \notin Column(x, b[x])
  <2>1. PICK y \in T \ {x}, k \in Nat : p = <<y, k>> /\ 1 <= k /\ k <= b[y]
    BY <1>2
  <2>2. p \notin Column(x, b[x])
    BY <1>1, <2>1
  <2> QED
    BY <1>2, <2>1, <2>2
<1>5. ASSUME NEW p \in Column(x, b[x]) PROVE p \in Points(b, T)
  <2>1. PICK k \in 1..b[x] : p = <<x, k>>
    BY <1>1
  <2>2. k \in Nat /\ 1 <= k /\ k <= b[x]
    OBVIOUS
  <2> QED
    BY <1>2, <2>1, <2>2
<1> QED
    BY <1>3, <1>4, <1>5

\* A finite set has finitely many points over it.
LEMMA PointsFinite ==
    ASSUME NEW D, IsFiniteSet(D), NEW b, \A x \in D : b[x] \in Nat
    PROVE  \A T \in SUBSET D : IsFiniteSet(Points(b, T))
<1> DEFINE B == {T \in SUBSET D : ~ IsFiniteSet(Points(b, T))}
<1>1. SUFFICES ASSUME B # {} PROVE FALSE
    OBVIOUS
<1>2. PICK T \in B : \A U \in B : U \subseteq T => U = T
  <2>1. B \subseteq SUBSET D
    OBVIOUS
  <2> HIDE DEF B
  <2> QED
    BY <1>1, <2>1, SmallestSet
<1>3. T # {}
  <2>1. Points(b, {}) = {}
    BY DEF Points
  <2> QED
    BY <2>1, FS_EmptySet
<1>4. PICK x \in T : TRUE
    BY <1>3
<1>5. IsFiniteSet(Points(b, T \ {x}))
    BY <1>2, <1>4
<1>6. b[x] \in Nat
    OBVIOUS
<1>7. IsFiniteSet(Points(b, T))
  <2>1. Points(b, T) = Points(b, T \ {x}) \cup Column(x, b[x])
    BY <1>6, PointsSplit
  <2>2. IsFiniteSet(Column(x, b[x]))
    BY <1>6, ColumnSize
  <2> QED
    BY <1>5, <2>1, <2>2, FS_Union
<1> QED
    BY <1>7

\* Sums, element by element.
LEMMA SumStep ==
    ASSUME NEW D, IsFiniteSet(D), NEW b, \A x \in D : b[x] \in Nat, NEW T \in SUBSET D
    PROVE  /\ Sum(b, {}) = 0
           /\ Sum(b, T) \in Nat
           /\ \A x \in T : Sum(b, T) = b[x] + Sum(b, T \ {x})
<1>1. Sum(b, {}) = 0
  <2>1. Points(b, {}) = {}
    BY DEF Points
  <2> QED
    BY <2>1, FS_EmptySet DEF Sum
<1>2. Sum(b, T) \in Nat
    BY PointsFinite, FS_CardinalityType DEF Sum
<1>3. ASSUME NEW x \in T PROVE Sum(b, T) = b[x] + Sum(b, T \ {x})
  <2> DEFINE P == Points(b, T \ {x})
             C == Column(x, b[x])
  <2>1. b[x] \in Nat
    OBVIOUS
  <2>2. IsFiniteSet(P) /\ IsFiniteSet(C) /\ Cardinality(C) = b[x]
    BY <2>1, PointsFinite, ColumnSize
  <2>3. Points(b, T) = P \cup C /\ P \cap C = {}
    BY <2>1, PointsSplit
  <2> HIDE DEF P, C
  <2>4. Cardinality(P \cup C) = Cardinality(P) + Cardinality(C) - 0
    BY <2>2, <2>3, FS_Union, FS_EmptySet
  <2>5. Cardinality(P) \in Nat
    BY <2>2, FS_CardinalityType
  <2>6. Cardinality(P \cup C) = b[x] + Cardinality(P)
    BY <2>1, <2>2, <2>4, <2>5
  <2> QED
    BY <2>3, <2>6 DEF Sum, P
<1> QED
    BY <1>1, <1>2, <1>3

\* The sum that the code computes is this one.
LEMMA TotalIsSum ==
    ASSUME NEW b, IsFiniteSet(DOMAIN b), \A n \in DOMAIN b : b[n] \in Nat
    PROVE  Tim!Total(b) = Sum(b, DOMAIN b)
<1> DEFINE D == DOMAIN b
           step(h) == [s \in SUBSET D |->
                        IF s = {} THEN 0
                        ELSE b[CHOOSE x \in s : TRUE] + h[s \ {CHOOSE x \in s : TRUE}]]
           sum == CHOOSE h : h = step(h)
           g == [s \in SUBSET D |-> Sum(b, s)]
<1>1. Tim!Total(b) = sum[D]
    BY DEF Tim!Total, Tim!MapThenSumSet, Tim!MapThenFoldSet
<1>2. g = step(g)
  <2>1. ASSUME NEW s \in SUBSET D
        PROVE  g[s] = IF s = {} THEN 0
                      ELSE b[CHOOSE x \in s : TRUE] + g[s \ {CHOOSE x \in s : TRUE}]
    <3>1. CASE s = {}
      BY <3>1, SumStep
    <3>2. CASE s # {}
      <4> DEFINE x == CHOOSE x \in s : TRUE
      <4>1. x \in s
        BY <3>2
      <4> HIDE DEF x
      <4>2. Sum(b, s) = b[x] + Sum(b, s \ {x})
        BY <4>1, SumStep
      <4>3. s \ {x} \in SUBSET D
        OBVIOUS
      <4>4. g[s] = b[x] + g[s \ {x}]
        BY <4>2, <4>3
      <4> QED
        BY <3>2, <4>4 DEF x
    <3> QED
      BY <3>1, <3>2
  <2> QED
    BY <2>1
<1>3. sum = step(sum)
  <2>1. \E h : h = step(h)
    BY <1>2, Zenon
  <2> QED
    BY <2>1, Zenon
<1> HIDE DEF sum, g
<1>4. ASSUME NEW s \in SUBSET D PROVE sum[s] = Sum(b, s)
  <2> DEFINE B == {T \in SUBSET D : sum[T] # Sum(b, T)}
  <2>1. SUFFICES ASSUME B # {} PROVE FALSE
    OBVIOUS
  <2>2. PICK T \in B : \A U \in B : U \subseteq T => U = T
    <3>1. B \subseteq SUBSET D
      OBVIOUS
    <3> HIDE DEF B
    <3> QED
      BY <2>1, <3>1, SmallestSet
  <2>3. sum[T] = IF T = {} THEN 0
                 ELSE b[CHOOSE x \in T : TRUE] + sum[T \ {CHOOSE x \in T : TRUE}]
    BY <1>3
  <2>4. CASE T = {}
    BY <2>2, <2>3, <2>4, SumStep
  <2>5. CASE T # {}
    <3> DEFINE x == CHOOSE x \in T : TRUE
    <3>1. x \in T
      BY <2>5
    <3>2. sum[T] = b[x] + sum[T \ {x}]
      BY <2>3, <2>5
    <3> HIDE DEF x
    <3>3. sum[T \ {x}] = Sum(b, T \ {x})
      BY <2>2, <3>1
    <3>4. Sum(b, T) = b[x] + Sum(b, T \ {x})
      BY <3>1, SumStep
    <3> QED
      BY <2>2, <3>2, <3>3, <3>4
  <2> QED
    BY <2>4, <2>5
<1> QED
    BY <1>1, <1>4

\* A bucket's name, and the sum of the others.
LEMMA SumAgrees ==
    ASSUME NEW a, NEW b, NEW T, \A x \in T : a[x] = b[x]
    PROVE  Sum(a, T) = Sum(b, T)
<1>1. Points(a, T) = Points(b, T)
    BY DEF Points
<1> QED
    BY <1>1 DEF Sum

\* Buckets with finitely many names and natural numbers in them.
Book(b) == IsFiniteSet(DOMAIN b) /\ \A n \in DOMAIN b : b[n] \in Nat

\* One bucket has grown.
Raised(b, a, name, us) == \A n : Tim!Get(a, n) = Tim!Get(b, n) + (IF n = name THEN us ELSE 0)

\* Booking a duration adds it to the sum and to one bucket.
LEMMA Booking ==
    ASSUME NEW b, Book(b), NEW name, NEW us \in Nat
    PROVE  /\ Book(Tim!Add(b, name, us))
           /\ Tim!Total(Tim!Add(b, name, us)) = Tim!Total(b) + us
           /\ DOMAIN Tim!Add(b, name, us) = DOMAIN b \cup {name}
           /\ Raised(b, Tim!Add(b, name, us), name, us)
<1> DEFINE a == Tim!Add(b, name, us)
           D == DOMAIN b
           E == (D \cup {name}) \ {name}
<1>1. /\ DOMAIN a = D \cup {name}
      /\ \A n \in D \cup {name} :
            a[n] = (IF n \in D THEN b[n] ELSE 0) + (IF n = name THEN us ELSE 0)
    BY DEF Tim!Add
<1> HIDE DEF a
<1>2. IsFiniteSet(D \cup {name}) /\ IsFiniteSet(D)
    BY FS_AddElement DEF Book
<1>3. (\A n \in D \cup {name} : a[n] \in Nat) /\ \A n \in D : b[n] \in Nat
    BY <1>1 DEF Book
<1>4. Book(a)
    BY <1>1, <1>2, <1>3 DEF Book
<1>5. Tim!Total(a) = Sum(a, D \cup {name}) /\ Tim!Total(b) = Sum(b, D)
    BY <1>1, <1>2, <1>3, TotalIsSum
<1>6. Sum(a, D \cup {name}) = a[name] + Sum(a, E)
    BY <1>2, <1>3, SumStep
<1>7. Sum(a, E) = Sum(b, E)
  <2>1. \A n \in E : a[n] = b[n]
    BY <1>1, <1>3
  <2> QED
    BY <2>1, SumAgrees
<1>8. Sum(b, D) = Sum(b, E) + (IF name \in D THEN b[name] ELSE 0) /\ Sum(b, E) \in Nat
  <2>1. E \in SUBSET D /\ (name \in D => E = D \ {name}) /\ (name \notin D => E = D)
    OBVIOUS
  <2> HIDE DEF E, D
  <2>2. Sum(b, E) \in Nat
    BY <1>2, <1>3, <2>1, SumStep
  <2>3. CASE name \in D
    <3>0. D \in SUBSET D /\ \A n \in D : b[n] \in Nat
      BY <1>3
    <3>1. \A x \in D : Sum(b, D) = b[x] + Sum(b, D \ {x})
      BY ONLY <1>2, <3>0, SumStep
    <3>2. Sum(b, D) = b[name] + Sum(b, D \ {name})
      BY <2>3, <3>1
    <3>3. E = D \ {name} /\ b[name] \in Nat
      BY <1>3, <2>1, <2>3
    <3>4. Sum(b, D) = Sum(b, E) + b[name]
      BY <2>2, <3>2, <3>3
    <3> QED
      BY <2>2, <2>3, <3>4
  <2>4. CASE name \notin D
    BY <2>1, <2>2, <2>4
  <2> QED
    BY <2>2, <2>3, <2>4
<1>9. Tim!Total(a) = Tim!Total(b) + us
  <2>1. a[name] = (IF name \in D THEN b[name] ELSE 0) + us
    BY <1>1
  <2>2. (IF name \in D THEN b[name] ELSE 0) \in Nat
    BY <1>3
  <2> HIDE DEF D, E
  <2> QED
    BY <1>5, <1>6, <1>7, <1>8, <2>1, <2>2
<1>10. ASSUME NEW n
       PROVE  Tim!Get(a, n) = Tim!Get(b, n) + (IF n = name THEN us ELSE 0)
    BY <1>1, <1>3 DEF Tim!Get
<1> QED
    BY <1>1, <1>4, <1>9, <1>10 DEF a, Raised

\* Nothing is booked at first.
LEMMA NothingBooked ==
    Book(<<>>) /\ Tim!Total(<<>>) = 0 /\ \A n : Tim!Get(<<>>, n) = 0
<1>1. DOMAIN <<>> = {}
    OBVIOUS
<1>2. Book(<<>>)
    BY <1>1, FS_EmptySet DEF Book
<1>3. Tim!Total(<<>>) = Sum(<<>>, {})
    BY <1>1, <1>2, TotalIsSum DEF Book
<1>4. Sum(<<>>, {}) = 0
    BY <1>1, <1>2, SumStep DEF Book
<1> QED
    BY <1>1, <1>2, <1>3, <1>4 DEF Tim!Get

-----------------------------------------------------------------------------
(* Timing record: what a handler has open *)

\* The names of the spans.
Names ==
    {"http_body_read_us", "json_deserialize_us", "nonce_validate_us", "report_decode_us",
     "serialize_us", "lock_wait_us", "scratch_new_us", "scratch_drop_us",
     "measure_and_extend_us", "ensure_ak_us", "create_quote_us", "ak_pubkey_us",
     "tdx_report_us", "tdx_verify_us", "tpm_verify_us",
     "tpm2_us", "tpm2_checkquote_us", "measure_folder_us", "collect_regular_files_us",
     "read_and_hash_loop_us", "ioctl_get_report_us", "ioctl_verify_report_us",
     "decode_blob_us", "verify_write_us", "none"}

\* A span or a scratch directory in scope, without the time of its start.
Tags == {"stage", "unit", "scratch"} \X Names
Scratch == <<"scratch", "none">>
Removal == <<"stage", "scratch_drop_us">>
Folder == <<"unit", "measure_folder_us">>
InFolder == {<<"unit", "collect_regular_files_us">>, <<"unit", "read_and_hash_loop_us">>}
Tdx == <<"stage", "tdx_report_us">>
Ioctl == <<"unit", "ioctl_get_report_us">>
Commands == {<<"unit", "tpm2_us">>, <<"unit", "tpm2_checkquote_us">>}

\* Whether a stage is among the first n of w.
StageIn(w, n) == \E j \in 1..n : w[j][1] = "stage"

\* What may be opened on top of the first n of w.
Fits(r, w, n, g) ==
    /\ g \in {Scratch, Removal} /\ r = "verify_all" => StageIn(w, n)
    /\ g \in {Scratch, Removal} /\ r # "verify_all" => ~ StageIn(w, n)
    /\ g[1] = "stage" /\ g # Removal => ~ StageIn(w, n)
    /\ g[1] = "scratch" => g = Scratch
    /\ g \in InFolder => n > 0 /\ w[n] = Folder
    /\ g = Folder => \A j \in 1..n : w[j] # Folder
    /\ g \in Commands => \A j \in 1..n : w[j] \notin Commands
    /\ g = Ioctl => r = "attestation_with_random_number" \/ (n > 0 /\ w[n] = Tdx)
    /\ g = Tdx => r # "attestation_with_random_number"

\* Everything in scope was opened where it may be.
Legal(r, w) == w \in Seq(Tags) /\ \A i \in 1..Len(w) : Fits(r, w, i - 1, w[i])

\* Only what lies below matters.
LEMMA FitsBelow ==
    ASSUME NEW r, NEW n \in Nat, NEW g, NEW v, NEW w, \A j \in 1..n : v[j] = w[j], Fits(r, v, n, g)
    PROVE  Fits(r, w, n, g)
<1>1. StageIn(v, n) <=> StageIn(w, n)
    BY DEF StageIn
<1>2. n > 0 => v[n] = w[n]
    OBVIOUS
<1>3. (\A j \in 1..n : v[j] # Folder) => \A j \in 1..n : w[j] # Folder
    OBVIOUS
<1>4. (\A j \in 1..n : v[j] \notin Commands) => \A j \in 1..n : w[j] \notin Commands
    OBVIOUS
<1> QED
    BY <1>1, <1>2, <1>3, <1>4, Zenon DEF Fits

\* Opening, and closing again.
LEMMA LegalPush ==
    ASSUME NEW r, NEW w \in Seq(Tags), NEW g \in Tags
    PROVE  Legal(r, Append(w, g)) <=> Legal(r, w) /\ Fits(r, w, Len(w), g)
<1> DEFINE v == Append(w, g)
<1>1. /\ v \in Seq(Tags) /\ Len(w) \in Nat /\ Len(v) = Len(w) + 1
      /\ \A i \in 1..Len(w) : v[i] = w[i]
      /\ v[Len(w) + 1] = g
    BY AppendProperties, LenProperties
<1> HIDE DEF v
<1>2. ASSUME Legal(r, v) PROVE Legal(r, w) /\ Fits(r, w, Len(w), g)
  <2>1. ASSUME NEW i \in 1..Len(w) PROVE Fits(r, w, i - 1, w[i])
    <3>1. Fits(r, v, i - 1, w[i])
      BY <1>1, <1>2 DEF Legal
    <3>2. i - 1 \in Nat /\ \A j \in 1..(i - 1) : v[j] = w[j]
      BY <1>1
    <3> QED
      BY <3>1, <3>2, FitsBelow
  <2>2. Len(w) + 1 \in 1..Len(v) /\ (Len(w) + 1) - 1 = Len(w)
    BY <1>1
  <2>3. Fits(r, v, Len(w), g)
    BY <1>1, <1>2, <2>2 DEF Legal
  <2>4. Fits(r, w, Len(w), g)
    BY <1>1, <2>3, FitsBelow
  <2> QED
    BY <2>1, <2>4 DEF Legal
<1>3. ASSUME Legal(r, w), Fits(r, w, Len(w), g) PROVE Legal(r, v)
  <2>1. ASSUME NEW i \in 1..Len(v) PROVE Fits(r, v, i - 1, v[i])
    <3>1. CASE i = Len(w) + 1
      <4>1. Fits(r, v, Len(w), g)
        BY <1>1, <1>3, FitsBelow
      <4>2. i - 1 = Len(w) /\ v[i] = g
        BY <1>1, <3>1
      <4> QED
        BY <4>1, <4>2
    <3>2. CASE i # Len(w) + 1
      <4>1. i \in 1..Len(w) /\ i - 1 \in Nat /\ v[i] = w[i]
        BY <1>1, <3>2
      <4>2. \A j \in 1..(i - 1) : w[j] = v[j]
        BY <1>1, <4>1
      <4>3. Fits(r, w, i - 1, v[i])
        BY <1>3, <4>1 DEF Legal
      <4> QED
        BY <4>1, <4>2, <4>3, FitsBelow
    <3> QED
      BY <3>1, <3>2
  <2> QED
    BY <1>1, <2>1 DEF Legal
<1> QED
    BY <1>2, <1>3 DEF v

-----------------------------------------------------------------------------
(* Timing record: what the programs open and close *)

Point ==
    [op : {"open", "end", "try", "scratch", "drop"},
     kind : {"stage", "unit", "scratch", "none"},
     name : Names]

\* What a measurement point makes of the tags in scope.
Effect(point, v, w) ==
    \/ point.op \in {"open", "scratch"} /\ w = Append(v, <<point.kind, point.name>>)
    \/ point.op = "drop" /\ \E u \in Seq(Tags) : v = Append(u, Scratch) /\ w = Append(u, Removal)
    \/ point.op = "end" /\ \E g \in Tags : g[1] # "scratch" /\ v = Append(w, g)
    \/ point.op = "try" /\ w = v

\* A set of pairs of a program and the tags it starts with, each of which runs
\* to its end inside of the set and leaves nothing open.
Closed(r, X) ==
    \A x \in X :
        /\ x[1] \in Seq(Point) /\ Legal(r, x[2])
        /\ x[1] = <<>> => x[2] = <<>>
        /\ x[1] # <<>> => \E w \in Seq(Tags) : Effect(Head(x[1]), x[2], w) /\ <<Tail(x[1]), w>> \in X
Ok(r, p, w) == \E X : Closed(r, X) /\ <<p, w>> \in X

\* The program p leads from v to w, whatever follows it.
Runs(r, p, v, w) ==
    p \in Seq(Point) /\ \A q \in Seq(Point) : Ok(r, q, w) => Ok(r, p \o q, v)

\* A program that runs to its end.
LEMMA OkSteps ==
    ASSUME NEW r, NEW p, NEW v, Ok(r, p, v)
    PROVE  /\ p \in Seq(Point) /\ Legal(r, v)
           /\ p = <<>> => v = <<>>
           /\ p # <<>> => \E w \in Seq(Tags) : Effect(Head(p), v, w) /\ Ok(r, Tail(p), w)
<1>1. PICK X : Closed(r, X) /\ <<p, v>> \in X
    BY DEF Ok
<1>2. <<p, v>>[1] = p /\ <<p, v>>[2] = v
    OBVIOUS
<1>3. /\ p \in Seq(Point) /\ Legal(r, v)
      /\ p = <<>> => v = <<>>
      /\ p # <<>> => \E w \in Seq(Tags) : Effect(Head(p), v, w) /\ <<Tail(p), w>> \in X
    BY ONLY <1>1, <1>2, Zenon DEF Closed
<1> QED
    BY ONLY <1>1, <1>3 DEF Ok

\* Nothing is left to do.
LEMMA OkDone == ASSUME NEW r PROVE Ok(r, <<>>, <<>>)
<1> DEFINE X == {<<<<>>, <<>>>>}
<1>1. Legal(r, <<>>)
    BY EmptySeq DEF Legal
<1>2. <<>> \in Seq(Point)
    BY EmptySeq
<1>3. ASSUME NEW x \in X PROVE x[1] = <<>> /\ x[2] = <<>>
    OBVIOUS
<1>4. Closed(r, X)
    BY <1>1, <1>2, <1>3 DEF Closed
<1> QED
    BY <1>4 DEF Ok

\* One more measurement point.
LEMMA OkPoint ==
    ASSUME NEW r, NEW point \in Point, NEW q \in Seq(Point), NEW v, NEW w \in Seq(Tags),
           Legal(r, v), Effect(point, v, w), Ok(r, q, w)
    PROVE  Ok(r, <<point>> \o q, v)
<1> DEFINE p == <<point>> \o q
<1>1. p \in Seq(Point) /\ p # <<>> /\ Head(p) = point /\ Tail(p) = q
  <2>1. <<point>> \in Seq(Point) /\ Len(<<point>>) = 1 /\ <<point>>[1] = point
    OBVIOUS
  <2>2. Len(q) \in Nat
    BY LenProperties
  <2>3. /\ p \in Seq(Point) /\ Len(p) = 1 + Len(q)
        /\ \A i \in 1..(1 + Len(q)) : p[i] = IF i <= 1 THEN point ELSE q[i - 1]
    BY <2>1, ConcatProperties
  <2> HIDE DEF p
  <2>4. p # <<>>
    BY <2>2, <2>3, EmptySeq
  <2>5. /\ Tail(p) \in Seq(Point) /\ Len(Tail(p)) = Len(p) - 1
        /\ \A i \in 1..Len(Tail(p)) : Tail(p)[i] = p[i + 1]
    BY <2>3, <2>4, HeadTailProperties
  <2>6. Head(p) = point
    BY <2>2, <2>3
  <2>7. Tail(p) = q
    <3>1. Len(Tail(p)) = Len(q) /\ \A i \in 1..Len(Tail(p)) : Tail(p)[i] = q[i]
      BY <2>2, <2>3, <2>5
    <3> QED
      BY <2>5, <3>1, SeqEqual
  <2> QED
    BY <2>3, <2>4, <2>6, <2>7
<1> HIDE DEF p
<1>2. PICK Y : Closed(r, Y) /\ <<q, w>> \in Y
    BY DEF Ok
<1> DEFINE X == Y \cup {<<p, v>>}
<1>3. Closed(r, X)
  <2>1. ASSUME NEW x \in X
        PROVE  /\ x[1] \in Seq(Point) /\ Legal(r, x[2])
               /\ x[1] = <<>> => x[2] = <<>>
               /\ x[1] # <<>> => \E u \in Seq(Tags) : Effect(Head(x[1]), x[2], u) /\ <<Tail(x[1]), u>> \in X
    <3>1. CASE x \in Y
      <4>1. /\ x[1] \in Seq(Point) /\ Legal(r, x[2])
            /\ x[1] = <<>> => x[2] = <<>>
            /\ x[1] # <<>> => \E u \in Seq(Tags) : Effect(Head(x[1]), x[2], u) /\ <<Tail(x[1]), u>> \in Y
        BY ONLY <1>2, <3>1, Zenon DEF Closed
      <4> QED
        BY ONLY <4>1
    <3>2. CASE x = <<p, v>>
      <4>1. x[1] = p /\ x[2] = v
        BY <3>2
      <4>2. <<Tail(p), w>> \in X
        BY <1>1, <1>2
      <4> QED
        BY <1>1, <4>1, <4>2
    <3> QED
      BY <3>1, <3>2
  <2> HIDE DEF X
  <2> QED
    BY ONLY <2>1, Zenon DEF Closed
<1> QED
  <2>1. <<p, v>> \in X
    OBVIOUS
  <2> QED
    BY ONLY <1>3, <2>1, Zenon DEF Ok, p

\* One program after another.
LEMMA RunsThen ==
    ASSUME NEW r, NEW p, NEW q, NEW u, NEW v, NEW w, Runs(r, p, u, v), Runs(r, q, v, w)
    PROVE  Runs(r, p \o q, u, w)
<1>1. p \in Seq(Point) /\ q \in Seq(Point) /\ p \o q \in Seq(Point)
    BY ConcatProperties DEF Runs
<1>2. ASSUME NEW s \in Seq(Point), Ok(r, s, w) PROVE Ok(r, (p \o q) \o s, u)
  <2>1. Ok(r, q \o s, v) /\ q \o s \in Seq(Point)
    BY <1>1, <1>2, ConcatProperties DEF Runs
  <2>2. Ok(r, p \o (q \o s), u)
    BY <2>1 DEF Runs
  <2>3. (p \o q) \o s = p \o (q \o s)
    BY <1>1, ConcatAssociative
  <2> QED
    BY <2>2, <2>3
<1> QED
    BY <1>1, <1>2 DEF Runs

\* A `?`, and nothing at all.
LEMMA TryRuns == ASSUME NEW r, NEW w PROVE Runs(r, Tim!Fallible, w, w) /\ Runs(r, Tim!Nothing, w, w)
<1>1. Runs(r, Tim!Fallible, w, w)
  <2>1. Tim!Try \in Point /\ Tim!Try.op = "try" /\ Tim!Fallible = <<Tim!Try>>
    BY DEF Tim!Try, Point, Tim!Fallible, Names
  <2>2. Tim!Fallible \in Seq(Point)
    BY <2>1
  <2>3. ASSUME NEW q \in Seq(Point), Ok(r, q, w) PROVE Ok(r, Tim!Fallible \o q, w)
    <3>1. Legal(r, w) /\ w \in Seq(Tags)
      BY <2>3, OkSteps DEF Legal
    <3>2. Effect(Tim!Try, w, w)
      BY <2>1 DEF Effect
    <3> QED
      BY <2>1, <2>3, <3>1, <3>2, OkPoint
  <2> QED
    BY <2>2, <2>3 DEF Runs
<1>2. Runs(r, Tim!Nothing, w, w)
    BY EmptySeq, ConcatEmptySeq DEF Runs, Tim!Nothing
<1> QED
    BY <1>1, <1>2

\* The end of a span.
LEMMA EndRuns ==
    ASSUME NEW r, NEW w \in Seq(Tags), NEW g \in Tags, g[1] # "scratch", Fits(r, w, Len(w), g)
    PROVE  Runs(r, <<Tim!End>>, Append(w, g), w)
<1>1. Tim!End \in Point /\ Tim!End.op = "end" /\ <<Tim!End>> \in Seq(Point)
    BY DEF Tim!End, Point, Names
<1>2. ASSUME NEW q \in Seq(Point), Ok(r, q, w) PROVE Ok(r, <<Tim!End>> \o q, Append(w, g))
  <2>1. Legal(r, Append(w, g))
    BY <1>2, OkSteps, LegalPush
  <2>2. Effect(Tim!End, Append(w, g), w)
    BY <1>1 DEF Effect
  <2> QED
    BY <1>1, <1>2, <2>1, <2>2, OkPoint
<1> QED
    BY <1>1, <1>2 DEF Runs

\* The start of a span, or of the life of a scratch directory.
LEMMA StartRuns ==
    ASSUME NEW r, NEW w \in Seq(Tags), NEW point \in Point, point.op \in {"open", "scratch"},
           <<point.kind, point.name>> \in Tags
    PROVE  Runs(r, <<point>>, w, Append(w, <<point.kind, point.name>>))
<1> DEFINE g == <<point.kind, point.name>>
<1>1. <<point>> \in Seq(Point)
    OBVIOUS
<1>2. ASSUME NEW q \in Seq(Point), Ok(r, q, Append(w, g)) PROVE Ok(r, <<point>> \o q, w)
  <2>1. Legal(r, Append(w, g)) /\ Append(w, g) \in Seq(Tags)
    BY <1>2, OkSteps DEF Legal
  <2>2. Legal(r, w)
    BY <2>1, LegalPush
  <2>3. Effect(point, w, Append(w, g))
    BY DEF Effect
  <2> HIDE DEF g
  <2> QED
    BY <1>2, <2>1, <2>2, <2>3, OkPoint
<1> QED
    BY <1>1, <1>2 DEF Runs

\* The start of the removal of a scratch directory.
LEMMA DropRuns ==
    ASSUME NEW r, NEW w \in Seq(Tags), Fits(r, w, Len(w), Scratch)
    PROVE  Runs(r, <<Tim!DropScratch>>, Append(w, Scratch), Append(w, Removal))
<1>1. Tim!DropScratch \in Point /\ Tim!DropScratch.op = "drop" /\ <<Tim!DropScratch>> \in Seq(Point)
    BY DEF Tim!DropScratch, Point, Names
<1>2. Scratch \in Tags /\ Removal \in Tags
    BY DEF Scratch, Removal, Tags, Names
<1>3. ASSUME NEW q \in Seq(Point), Ok(r, q, Append(w, Removal))
      PROVE  Ok(r, <<Tim!DropScratch>> \o q, Append(w, Scratch))
  <2>1. Legal(r, Append(w, Removal)) /\ Append(w, Removal) \in Seq(Tags)
    BY <1>3, OkSteps DEF Legal
  <2>2. Legal(r, Append(w, Scratch))
    BY <1>2, <2>1, LegalPush
  <2>3. Effect(Tim!DropScratch, Append(w, Scratch), Append(w, Removal))
    BY <1>1 DEF Effect
  <2> QED
    BY <1>1, <1>3, <2>1, <2>2, <2>3, OkPoint
<1> QED
    BY <1>1, <1>3 DEF Runs

\* A span around a body.
LEMMA SpanRuns ==
    ASSUME NEW r, NEW w \in Seq(Tags), NEW name \in Names, NEW body,
           NEW kind \in {"stage", "unit"}, Fits(r, w, Len(w), <<kind, name>>),
           Runs(r, body, Append(w, <<kind, name>>), Append(w, <<kind, name>>))
    PROVE  /\ kind = "stage" => Runs(r, Tim!Stage(name, body), w, w)
           /\ kind = "unit" => Runs(r, Tim!Unit(name, body), w, w)
<1> DEFINE g == <<kind, name>>
           point == Tim!Open(kind, name)
<1>1. g \in Tags /\ g[1] # "scratch"
    BY DEF Tags
<1>2. point \in Point /\ point.op \in {"open", "scratch"} /\ <<point.kind, point.name>> = g
    BY DEF Tim!Open, Point
<1>3. (kind = "stage" => Tim!Stage(name, body) = <<point>> \o body \o <<Tim!End>>) /\ (kind = "unit" => Tim!Unit(name, body) = <<point>> \o body \o <<Tim!End>>)
    BY DEF Tim!Stage, Tim!Unit
<1> HIDE DEF g, point
<1>4. Runs(r, <<point>>, w, Append(w, g))
  <2>1. Runs(r, <<point>>, w, Append(w, <<point.kind, point.name>>))
    BY <1>1, <1>2, StartRuns
  <2> QED
    BY <1>2, <2>1
<1>5. Runs(r, <<point>> \o body, w, Append(w, g))
    BY <1>4, RunsThen DEF g
<1>6. Runs(r, <<Tim!End>>, Append(w, g), w)
    BY <1>1, EndRuns DEF g
<1>7. Runs(r, <<point>> \o body \o <<Tim!End>>, w, w)
    BY <1>5, <1>6, RunsThen
<1> QED
    BY <1>3, <1>7

\* Nothing but scratch directories in scope; no unit in scope.
Bare(w) == w \in Seq(Tags) /\ \A j \in 1..Len(w) : w[j] = Scratch
NoUnit(w) == w \in Seq(Tags) /\ \A j \in 1..Len(w) : w[j][1] # "unit"

\* How the two come about.
LEMMA Contexts ==
    /\ Bare(<<>>) /\ Bare(<<Scratch>>)
    /\ \A w : Bare(w) => NoUnit(w)
    /\ \A w, name : NoUnit(w) /\ name \in Names => NoUnit(Append(w, <<"stage", name>>))
    /\ \A w : NoUnit(w) => NoUnit(Append(w, Scratch))
<1>1. Scratch \in Tags /\ Scratch[1] # "unit"
    BY DEF Scratch, Tags, Names
<1>2. Bare(<<>>)
    BY EmptySeq DEF Bare
<1>3. Bare(<<Scratch>>)
  <2> HIDE DEF Scratch
  <2>1. <<Scratch>> \in Seq(Tags) /\ Len(<<Scratch>>) = 1 /\ <<Scratch>>[1] = Scratch
    BY <1>1
  <2> QED
    BY <2>1 DEF Bare
<1>4. ASSUME NEW w, Bare(w) PROVE NoUnit(w)
    BY <1>1, <1>4 DEF Bare, NoUnit
<1>5. ASSUME NEW w, NEW g \in Tags, NoUnit(w), g[1] # "unit" PROVE NoUnit(Append(w, g))
  <2>1. w \in Seq(Tags) /\ Len(w) \in Nat
    BY <1>5, LenProperties DEF NoUnit
  <2>2. /\ Append(w, g) \in Seq(Tags) /\ Len(Append(w, g)) = Len(w) + 1
        /\ \A i \in 1..Len(w) : Append(w, g)[i] = w[i]
        /\ Append(w, g)[Len(w) + 1] = g
    BY <2>1, AppendProperties
  <2>3. ASSUME NEW j \in 1..(Len(w) + 1) PROVE Append(w, g)[j][1] # "unit"
    <3>1. CASE j = Len(w) + 1
      BY <1>5, <2>2, <3>1
    <3>2. CASE j # Len(w) + 1
      <4>1. j \in 1..Len(w)
        BY <2>1, <3>2
      <4> QED
        BY <1>5, <2>2, <4>1 DEF NoUnit
    <3> QED
      BY <3>1, <3>2
  <2> QED
    BY <2>2, <2>3 DEF NoUnit
<1>6. ASSUME NEW w, NEW name \in Names, NoUnit(w) PROVE NoUnit(Append(w, <<"stage", name>>))
  <2>1. <<"stage", name>> \in Tags /\ <<"stage", name>>[1] # "unit"
    BY DEF Tags
  <2> QED
    BY <1>5, <1>6, <2>1
<1> QED
    BY <1>1, <1>2, <1>3, <1>4, <1>5, <1>6

\* A stage fits where none is open, but for the report on the random-number route.
LEMMA StageFits ==
    ASSUME NEW r, NEW w, Bare(w), NEW name \in Names, name # "scratch_drop_us",
           name = "tdx_report_us" => r # "attestation_with_random_number"
    PROVE  Fits(r, w, Len(w), <<"stage", name>>)
<1> DEFINE g == <<"stage", name>>
<1>1. g[1] = "stage" /\ g[2] = name
    OBVIOUS
<1>2. g # Removal /\ g # Scratch /\ g # Folder /\ g # Ioctl /\ g \notin InFolder /\ g \notin Commands
    BY <1>1 DEF Removal, Scratch, Folder, Ioctl, InFolder, Commands
<1>3. g = Tdx => r # "attestation_with_random_number"
    BY <1>1 DEF Tdx
<1>4. ~ StageIn(w, Len(w))
    BY DEF Bare, StageIn, Scratch
<1> HIDE DEF g
<1> QED
    BY <1>1, <1>2, <1>3, <1>4, Zenon DEF Fits, g

\* A unit fits where none is open, unless it is part of a larger one.
LEMMA UnitFits ==
    ASSUME NEW r, NEW w, NoUnit(w), NEW name \in Names, <<"unit", name>> \notin InFolder,
           <<"unit", name>> = Ioctl => r = "attestation_with_random_number"
    PROVE  Fits(r, w, Len(w), <<"unit", name>>)
<1> DEFINE g == <<"unit", name>>
<1>1. g[1] = "unit" /\ g \notin InFolder /\ (g = Ioctl => r = "attestation_with_random_number")
    OBVIOUS
<1>2. g # Removal /\ g # Scratch /\ g # Tdx
    BY <1>1 DEF Removal, Scratch, Tdx
<1>3. ASSUME NEW j \in 1..Len(w) PROVE w[j] # Folder /\ w[j] \notin Commands
    BY DEF NoUnit, Folder, Commands
<1>4. g[1] # "stage" /\ g[1] # "scratch"
    BY <1>1
<1> HIDE DEF g
<1> QED
    BY <1>1, <1>2, <1>3, <1>4, Zenon DEF Fits, g

\* The units that fit on top of what they belong to.
LEMMA PartFits ==
    ASSUME NEW r, NEW w \in Seq(Tags)
    PROVE  /\ \A g \in InFolder : Fits(r, Append(w, Folder), Len(Append(w, Folder)), g)
           /\ Fits(r, Append(w, Tdx), Len(Append(w, Tdx)), Ioctl)
<1>1. Folder \in Tags /\ Tdx \in Tags
    BY DEF Folder, Tdx, Tags, Names
<1>2. Folder # Ioctl /\ Folder \notin InFolder /\ Folder \notin Commands
    BY DEF Folder, Ioctl, InFolder, Commands
<1>3. ASSUME NEW g \in Tags
      PROVE  Len(Append(w, g)) > 0 /\ Append(w, g)[Len(Append(w, g))] = g
    BY AppendProperties, LenProperties
<1>4. ASSUME NEW g \in InFolder \cup {Ioctl}
      PROVE  /\ g[1] = "unit" /\ g # Removal /\ g # Scratch /\ g # Tdx /\ g # Folder
             /\ g \notin Commands /\ (g \in InFolder => g # Ioctl) /\ (g = Ioctl => g \notin InFolder)
             /\ g[1] # "stage" /\ g[1] # "scratch"
    BY DEF Removal, Scratch, Tdx, Folder, Commands, InFolder, Ioctl
<1>5. ASSUME NEW g \in InFolder PROVE Fits(r, Append(w, Folder), Len(Append(w, Folder)), g)
  <2>1. g \in InFolder \cup {Ioctl} /\ g \in InFolder
    OBVIOUS
  <2> QED
    BY ONLY <1>1, <1>3, <1>4, <2>1, Zenon DEF Fits
<1>6. Fits(r, Append(w, Tdx), Len(Append(w, Tdx)), Ioctl)
  <2>1. Ioctl \in InFolder \cup {Ioctl}
    OBVIOUS
  <2> QED
    BY ONLY <1>1, <1>3, <1>4, <2>1, Zenon DEF Fits
<1> QED
    BY <1>5, <1>6

\* Stages and units whose body is one fallible step, or none.
LEMMA SimpleStage ==
    ASSUME NEW r, NEW w, Bare(w), NEW name \in Names, name # "scratch_drop_us", name # "tdx_report_us"
    PROVE  Runs(r, Tim!Stage(name, Tim!Fallible), w, w) /\ Runs(r, Tim!Stage(name, Tim!Nothing), w, w)
<1>1. Fits(r, w, Len(w), <<"stage", name>>) /\ w \in Seq(Tags)
    BY StageFits DEF Bare
<1> QED
    BY <1>1, TryRuns, SpanRuns

\* A unit of work that opens no span of its own, whether or not it can fail.
LEMMA SimpleUnit ==
    ASSUME NEW r, NEW w \in Seq(Tags), NEW name \in Names, Fits(r, w, Len(w), <<"unit", name>>)
    PROVE  Runs(r, Tim!Unit(name, Tim!Fallible), w, w) /\ Runs(r, Tim!Unit(name, Tim!Nothing), w, w)
    BY TryRuns, SpanRuns

\* The tpm2 commands.
LEMMA CommandRuns ==
    ASSUME NEW r, NEW w, NoUnit(w)
    PROVE  Runs(r, Tim!Tpm2, w, w) /\ Runs(r, Tim!Tpm2Tolerated, w, w)
<1>1. "tpm2_us" \in Names
    BY DEF Names
<1>2. <<"unit", "tpm2_us">> \notin InFolder /\ <<"unit", "tpm2_us">> # Ioctl
    BY DEF InFolder, Ioctl
<1>3. Fits(r, w, Len(w), <<"unit", "tpm2_us">>) /\ w \in Seq(Tags)
    BY <1>1, <1>2, UnitFits DEF NoUnit
<1> QED
    BY <1>1, <1>3, SimpleUnit DEF Tim!Tpm2, Tim!Tpm2Tolerated

\* The measurement of the folder.
LEMMA FolderRuns ==
    ASSUME NEW r, NEW w, NoUnit(w)
    PROVE  Runs(r, Tim!measure_folder, w, w)
<1> DEFINE v == Append(w, Folder)
           walk == Tim!Unit("collect_regular_files_us", Tim!Fallible)
           read == Tim!Unit("read_and_hash_loop_us", Tim!Fallible)
<1>1. {"measure_folder_us", "collect_regular_files_us", "read_and_hash_loop_us"} \subseteq Names
    BY DEF Names
<1>2. Folder \in Tags /\ Folder \notin InFolder /\ Folder # Ioctl /\ Folder = <<"unit", "measure_folder_us">>
    BY DEF Folder, Tags, Names, InFolder, Ioctl
<1>3. Fits(r, w, Len(w), <<"unit", "measure_folder_us">>) /\ w \in Seq(Tags)
    BY <1>1, <1>2, UnitFits DEF NoUnit
<1>4. v \in Seq(Tags)
    BY <1>2, <1>3, AppendProperties
<1>5. /\ Fits(r, v, Len(v), <<"unit", "collect_regular_files_us">>)
      /\ Fits(r, v, Len(v), <<"unit", "read_and_hash_loop_us">>)
    BY <1>3, PartFits DEF InFolder
<1> HIDE DEF v
<1>6. Runs(r, walk, v, v) /\ Runs(r, read, v, v) /\ Runs(r, Tim!Fallible, v, v)
    BY <1>1, <1>4, <1>5, SimpleUnit, TryRuns
<1>7. Tim!measure_folder = Tim!Unit("measure_folder_us", Tim!Fallible \o walk \o read)
    BY DEF Tim!measure_folder
<1> HIDE DEF walk, read
<1>8. Runs(r, Tim!Fallible \o walk \o read, v, v)
    BY <1>6, RunsThen
<1>9. v = Append(w, <<"unit", "measure_folder_us">>)
    BY <1>2 DEF v
<1> QED
    BY <1>1, <1>3, <1>7, <1>8, <1>9, SpanRuns

\* A stage around a body that opens units.
LEMMA StageRuns ==
    ASSUME NEW r, NEW w, Bare(w), NEW name \in Names, name # "scratch_drop_us",
           name = "tdx_report_us" => r # "attestation_with_random_number", NEW body,
           NoUnit(Append(w, <<"stage", name>>)) =>
              Runs(r, body, Append(w, <<"stage", name>>), Append(w, <<"stage", name>>))
    PROVE  Runs(r, Tim!Stage(name, body), w, w)
<1>1. Fits(r, w, Len(w), <<"stage", name>>) /\ w \in Seq(Tags)
    BY StageFits DEF Bare
<1>2. NoUnit(Append(w, <<"stage", name>>))
    BY Contexts
<1> QED
    BY <1>1, <1>2, SpanRuns

\* The stages of a transaction.
LEMMA TpmStages ==
    ASSUME NEW r, NEW w, Bare(w)
    PROVE  /\ Runs(r, Tim!measure_and_extend, w, w)
           /\ \A name \in {"ensure_ak_us", "create_quote_us", "ak_pubkey_us"} :
                Runs(r, Tim!Stage(name, Tim!Tpm2), w, w) /\ Runs(r, Tim!Stage(name, Tim!Tpm2Tolerated), w, w)
           /\ r # "attestation_with_random_number" =>
                Runs(r, Tim!Stage("tdx_report_us", Tim!generate_tdx_report), w, w)
<1>1. {"ensure_ak_us", "create_quote_us", "ak_pubkey_us", "measure_and_extend_us", "tdx_report_us",
       "ioctl_get_report_us"} \subseteq Names
    BY DEF Names
<1>2. Runs(r, Tim!measure_and_extend, w, w)
  <2> DEFINE v == Append(w, <<"stage", "measure_and_extend_us">>)
  <2>1. ASSUME NoUnit(v) PROVE Runs(r, Tim!measure_folder \o Tim!Tpm2, v, v)
    <3> HIDE DEF v
    <3> QED
      BY <2>1, FolderRuns, CommandRuns, RunsThen
  <2> QED
    BY <1>1, <2>1, StageRuns DEF Tim!measure_and_extend
<1>3. ASSUME NEW name \in {"ensure_ak_us", "create_quote_us", "ak_pubkey_us"}
      PROVE  Runs(r, Tim!Stage(name, Tim!Tpm2), w, w) /\ Runs(r, Tim!Stage(name, Tim!Tpm2Tolerated), w, w)
  <2>1. name \in Names /\ name # "scratch_drop_us" /\ name # "tdx_report_us"
    BY <1>1
  <2> QED
    BY <2>1, StageRuns, CommandRuns
<1>4. ASSUME r # "attestation_with_random_number"
      PROVE  Runs(r, Tim!Stage("tdx_report_us", Tim!generate_tdx_report), w, w)
  <2> DEFINE v == Append(w, <<"stage", "tdx_report_us">>)
             ioctl == Tim!Unit("ioctl_get_report_us", Tim!Fallible)
  <2>1. v = Append(w, Tdx) /\ Ioctl = <<"unit", "ioctl_get_report_us">>
    BY DEF Tdx, Ioctl
  <2>2. w \in Seq(Tags)
    BY DEF Bare
  <2>3. Fits(r, v, Len(v), <<"unit", "ioctl_get_report_us">>)
    BY <2>1, <2>2, PartFits
  <2>4. ASSUME NoUnit(v) PROVE Runs(r, Tim!Fallible \o ioctl, v, v)
    <3>1. v \in Seq(Tags)
      BY <2>4 DEF NoUnit
    <3> HIDE DEF v
    <3>2. Runs(r, ioctl, v, v)
      BY <1>1, <2>3, <3>1, SimpleUnit
    <3> QED
      BY <3>2, TryRuns, RunsThen
  <2> QED
    BY <1>1, <1>4, <2>4, StageRuns DEF Tim!generate_tdx_report
<1> QED
    BY <1>2, <1>3, <1>4

\* Two points in a row.
LEMMA PairOf == ASSUME NEW a, NEW b PROVE <<a>> \o <<b>> = <<a, b>>
<1> DEFINE S == {a, b}
           s == <<a>>
           t == <<b>>
           u == <<a, b>>
<1>1. s \in Seq(S) /\ t \in Seq(S) /\ u \in Seq(S)
    OBVIOUS
<1>2. Len(s) = 1 /\ Len(t) = 1 /\ Len(u) = 2 /\ s[1] = a /\ t[1] = b /\ u[1] = a /\ u[2] = b
    OBVIOUS
<1> HIDE DEF s, t, u, S
<1>3. /\ s \o t \in Seq(S) /\ Len(s \o t) = Len(s) + Len(t)
      /\ \A i \in 1..(Len(s) + Len(t)) : (s \o t)[i] = IF i <= Len(s) THEN s[i] ELSE t[i - Len(s)]
    BY <1>1, ConcatProperties
<1>4. Len(s \o t) = Len(u) /\ \A i \in 1..Len(s \o t) : (s \o t)[i] = u[i]
    BY <1>2, <1>3
<1>5. s \o t = u
    BY <1>1, <1>3, <1>4, SeqEqual
<1> QED
    BY <1>5 DEF s, t, u

\* The scratch directory, and its removal.
LEMMA ScratchRuns ==
    ASSUME NEW r, NEW w \in Seq(Tags), Fits(r, w, Len(w), Scratch), NEW body,
           Runs(r, body, Append(w, Scratch), Append(w, Scratch))
    PROVE  Runs(r, <<Tim!NewScratch>> \o body \o <<Tim!DropScratch, Tim!End>>, w, w)
<1>1. Scratch \in Tags /\ Removal \in Tags /\ Removal[1] # "scratch" /\ Removal # Scratch
    BY DEF Scratch, Removal, Tags, Names
<1>2. /\ Tim!NewScratch \in Point /\ Tim!NewScratch.op \in {"open", "scratch"}
      /\ <<Tim!NewScratch.kind, Tim!NewScratch.name>> = Scratch
    BY DEF Tim!NewScratch, Point, Names, Scratch
<1>3. <<Tim!DropScratch>> \o <<Tim!End>> = <<Tim!DropScratch, Tim!End>>
    BY PairOf
<1>4. Runs(r, <<Tim!NewScratch>>, w, Append(w, Scratch))
  <2>1. Runs(r, <<Tim!NewScratch>>, w, Append(w, <<Tim!NewScratch.kind, Tim!NewScratch.name>>))
    BY <1>1, <1>2, StartRuns
  <2> QED
    BY <1>2, <2>1
<1>5. Fits(r, w, Len(w), Removal)
  <2>1. Removal[1] = "stage" /\ Removal # Folder /\ Removal # Ioctl /\ Removal # Tdx
        /\ Removal \notin InFolder /\ Removal \notin Commands
    BY DEF Removal, Folder, Ioctl, Tdx, InFolder, Commands
  <2> QED
    BY ONLY <1>1, <2>1, Fits(r, w, Len(w), Scratch), Zenon DEF Fits
<1>6. /\ Runs(r, <<Tim!DropScratch>>, Append(w, Scratch), Append(w, Removal))
      /\ Runs(r, <<Tim!End>>, Append(w, Removal), w)
    BY <1>1, <1>5, DropRuns, EndRuns
<1>7. Runs(r, <<Tim!DropScratch, Tim!End>>, Append(w, Scratch), w)
    BY <1>3, <1>6, RunsThen
<1> QED
    BY <1>4, <1>7, RunsThen

\* The stages around a transaction, the lock and the scratch directory.
LEMMA TransactionRuns ==
    ASSUME NEW r, r # "verify_all", NEW body, Runs(r, body, <<Scratch>>, <<Scratch>>)
    PROVE  Runs(r, Tim!Transaction(body), <<>>, <<>>)
<1>1. {"lock_wait_us", "scratch_new_us"} \subseteq Names
    BY DEF Names
<1>2. /\ Runs(r, Tim!Stage("lock_wait_us", Tim!Nothing), <<>>, <<>>)
      /\ Runs(r, Tim!Stage("scratch_new_us", Tim!Fallible), <<>>, <<>>)
    BY <1>1, Contexts, SimpleStage
<1>3. <<>> \in Seq(Tags) /\ Append(<<>>, Scratch) = <<Scratch>> /\ Len(<<>>) = 0
    BY EmptySeq
<1>4. Fits(r, <<>>, 0, Scratch)
  <2>1. /\ Scratch[1] = "scratch" /\ Scratch # Removal /\ Scratch # Folder /\ Scratch # Ioctl /\ Scratch # Tdx
        /\ Scratch \notin InFolder /\ Scratch \notin Commands /\ Scratch[1] # "stage"
    BY DEF Scratch, Removal, Folder, Ioctl, Tdx, InFolder, Commands
  <2>2. ~ StageIn(<<>>, 0)
    BY DEF StageIn
  <2> QED
    BY <2>1, <2>2, Zenon DEF Fits
<1>5. Runs(r, <<Tim!NewScratch>> \o body \o <<Tim!DropScratch, Tim!End>>, <<>>, <<>>)
    BY <1>3, <1>4, ScratchRuns
<1> DEFINE lock == Tim!Stage("lock_wait_us", Tim!Nothing)
           new == Tim!Stage("scratch_new_us", Tim!Fallible)
           rest == <<Tim!NewScratch>> \o body \o <<Tim!DropScratch, Tim!End>>
<1>6. Tim!Transaction(body) = lock \o new \o <<Tim!NewScratch>> \o body \o <<Tim!DropScratch, Tim!End>>
    BY DEF Tim!Transaction
<1>7. Tim!Transaction(body) = lock \o new \o rest
  <2>1. /\ lock \in Seq(Point) /\ new \in Seq(Point) /\ body \in Seq(Point)
    BY <1>2 DEF Runs
  <2>2. <<Tim!NewScratch>> \in Seq(Point) /\ <<Tim!DropScratch, Tim!End>> \in Seq(Point)
    <3>1. Tim!NewScratch \in Point
      BY DEF Tim!NewScratch, Point, Names
    <3>2. Tim!DropScratch \in Point
      BY DEF Tim!DropScratch, Point, Names
    <3>3. Tim!End \in Point
      BY DEF Tim!End, Point, Names
    <3> QED
      BY <3>1, <3>2, <3>3
  <2> DEFINE a == <<Tim!NewScratch>>
             z == <<Tim!DropScratch, Tim!End>>
  <2>3. a \in Seq(Point) /\ z \in Seq(Point)
    BY <2>2
  <2> HIDE DEF lock, new, a, z
  <2>4. lock \o new \in Seq(Point) /\ a \o body \in Seq(Point)
    BY <2>1, <2>3, ConcatProperties
  <2> DEFINE front == lock \o new
             back == a \o body
  <2>5. front \in Seq(Point) /\ back \in Seq(Point)
    BY <2>4
  <2>6. (front \o a) \o body = front \o back
    <3> HIDE DEF front
    <3> QED
      BY SMTT(40), <2>1, <2>3, <2>5, ConcatAssociative
  <2>7. (front \o back) \o z = front \o (back \o z)
    <3> HIDE DEF front, back
    <3> QED
      BY SMTT(40), <2>3, <2>5, ConcatAssociative
  <2>8. Tim!Transaction(body) = ((front \o a) \o body) \o z
    BY <1>6 DEF a, z
  <2>9. rest = back \o z
    BY DEF a, z
  <2> HIDE DEF back, rest
  <2>10. Tim!Transaction(body) = front \o rest
    BY <2>6, <2>7, <2>8, <2>9
  <2> QED
    BY <2>10
<1> HIDE DEF lock, new, rest
<1>8. Runs(r, lock \o new \o rest, <<>>, <<>>)
    BY <1>2, <1>5, RunsThen DEF lock, new, rest
<1> QED
    BY <1>7, <1>8

\* The stages between which a handler works.
LEMMA HandlerStages ==
    ASSUME NEW r
    PROVE  /\ Runs(r, Tim!Deserialize, <<>>, <<>>)
           /\ Runs(r, Tim!NonceValidate, <<>>, <<>>)
           /\ Runs(r, Tim!ReportDecode, <<>>, <<>>)
           /\ Runs(r, Tim!measure_json, <<>>, <<>>)
           /\ Runs(r, Tim!Fallible, <<>>, <<>>)
<1>1. {"json_deserialize_us", "nonce_validate_us", "report_decode_us", "serialize_us"} \subseteq Names
    BY DEF Names
<1>2. /\ Runs(r, Tim!Stage("json_deserialize_us", Tim!Fallible), <<>>, <<>>)
      /\ Runs(r, Tim!Stage("nonce_validate_us", Tim!Fallible), <<>>, <<>>)
      /\ Runs(r, Tim!Stage("report_decode_us", Tim!Fallible), <<>>, <<>>)
      /\ Runs(r, Tim!Stage("serialize_us", Tim!Nothing), <<>>, <<>>)
    BY <1>1, Contexts, SimpleStage
<1>3. Runs(r, Tim!Fallible, <<>>, <<>>)
    BY TryRuns
<1>4. Runs(r, Tim!Deserialize, <<>>, <<>>)
    BY <1>2, <1>3, RunsThen DEF Tim!Deserialize
<1> QED
    BY <1>2, <1>3, <1>4 DEF Tim!NonceValidate, Tim!ReportDecode, Tim!measure_json

\* The arrival of a request, which its handler ends.
Arrival == <<<<"stage", "http_body_read_us">>>>

\* A handler starts with its arrival in scope.
LEMMA EnterRuns == ASSUME NEW r PROVE Runs(r, Tim!enter_handler, Arrival, <<>>)
<1> DEFINE g == <<"stage", "http_body_read_us">>
<1>1. g \in Tags /\ g[1] # "scratch" /\ "http_body_read_us" \in Names
    BY DEF Tags, Names
<1>2. Append(<<>>, g) = Arrival /\ <<>> \in Seq(Tags)
    BY EmptySeq DEF Arrival
<1>3. Fits(r, <<>>, Len(<<>>), g)
    BY <1>1, Contexts, StageFits
<1> HIDE DEF g
<1>4. Runs(r, <<Tim!End>>, Append(<<>>, g), <<>>)
    BY <1>1, <1>2, <1>3, EndRuns
<1> QED
    BY <1>2, <1>4 DEF Tim!enter_handler

\* The verification of a report and of a quote.
LEMMA VerifyRuns ==
    /\ \A r, w : NoUnit(w) => Runs(r, Tim!verify_tdx_report, w, w)
    /\ Runs("verify_all", Tim!Stage("tdx_verify_us", Tim!verify_tdx_report), <<>>, <<>>)
    /\ Runs("verify_all", Tim!Stage("tpm_verify_us", Tim!verify_quote), <<>>, <<>>)
<1>1. {"ioctl_verify_report_us", "tdx_verify_us", "tpm_verify_us", "decode_blob_us", "verify_write_us",
       "tpm2_checkquote_us"} \subseteq Names
    BY DEF Names
<1>2. ASSUME NEW name \in {"ioctl_verify_report_us", "decode_blob_us", "verify_write_us", "tpm2_checkquote_us"},
             NEW r, NEW w, NoUnit(w)
      PROVE  Runs(r, Tim!Unit(name, Tim!Fallible), w, w)
  <2>1. name \in Names /\ <<"unit", name>> \notin InFolder /\ <<"unit", name>> # Ioctl
    BY <1>1 DEF InFolder, Ioctl
  <2>2. Fits(r, w, Len(w), <<"unit", name>>) /\ w \in Seq(Tags)
    BY <1>2, <2>1, UnitFits DEF NoUnit
  <2> QED
    BY <2>1, <2>2, SimpleUnit
<1>3. ASSUME NEW r, NEW w, NoUnit(w) PROVE Runs(r, Tim!verify_tdx_report, w, w)
    BY <1>2, <1>3, TryRuns, RunsThen DEF Tim!verify_tdx_report
<1>4. Runs("verify_all", Tim!Stage("tdx_verify_us", Tim!verify_tdx_report), <<>>, <<>>)
    BY <1>1, <1>3, Contexts, StageRuns
<1>5. Runs("verify_all", Tim!Stage("tpm_verify_us", Tim!verify_quote), <<>>, <<>>)
  <2> DEFINE g == <<"stage", "tpm_verify_us">>
             w == Append(<<>>, g)
             v == Append(w, Scratch)
             decode == Tim!Unit("decode_blob_us", Tim!Fallible)
             write == Tim!Unit("verify_write_us", Tim!Fallible)
             check == Tim!Unit("tpm2_checkquote_us", Tim!Fallible)
             rest == <<Tim!NewScratch>> \o (decode \o write \o check) \o <<Tim!DropScratch, Tim!End>>
  <2>1. g \in Tags /\ g[1] = "stage"
    BY <1>1 DEF Tags
  <2>2. w = <<g>> /\ w \in Seq(Tags) /\ Len(w) = 1 /\ w[1] = g
    BY <2>1
  <2>3. NoUnit(w) /\ NoUnit(v)
    BY <1>1, Contexts
  <2>4. Fits("verify_all", w, Len(w), Scratch)
    <3>1. /\ Scratch[1] = "scratch" /\ Scratch # Removal /\ Scratch # Folder /\ Scratch # Ioctl /\ Scratch # Tdx
          /\ Scratch \notin InFolder /\ Scratch \notin Commands /\ Scratch[1] # "stage"
      BY DEF Scratch, Removal, Folder, Ioctl, Tdx, InFolder, Commands
    <3>2. StageIn(w, Len(w))
      <4>1. 1 \in 1..Len(w) /\ w[1][1] = "stage"
        BY <2>1, <2>2
      <4> HIDE DEF w
      <4> QED
        BY <4>1 DEF StageIn
    <3> QED
      BY <3>1, <3>2, Zenon DEF Fits
  <2> HIDE DEF v, w
  <2>5. Runs("verify_all", decode, v, v) /\ Runs("verify_all", write, v, v) /\ Runs("verify_all", check, v, v)
    BY <1>2, <2>3
  <2> HIDE DEF decode, write, check
  <2>6. Runs("verify_all", decode \o write \o check, v, v)
    BY <2>5, RunsThen
  <2>7. Runs("verify_all", rest, w, w)
    BY <2>2, <2>4, <2>6, ScratchRuns DEF v
  <2>8. Tim!verify_quote = Tim!Fallible \o rest
    <3> DEFINE a == <<Tim!NewScratch>>
               z == <<Tim!DropScratch, Tim!End>>
               f == Tim!Fallible
    <3>1. a \in Seq(Point) /\ z \in Seq(Point) /\ f \in Seq(Point)
      <4>1. Tim!NewScratch \in Point
        BY DEF Tim!NewScratch, Point, Names
      <4>2. Tim!DropScratch \in Point
        BY DEF Tim!DropScratch, Point, Names
      <4>3. Tim!End \in Point
        BY DEF Tim!End, Point, Names
      <4>4. Tim!Fallible \in Seq(Point)
        BY TryRuns DEF Runs
      <4> QED
        BY <4>1, <4>2, <4>3, <4>4
    <3>2. decode \in Seq(Point) /\ write \in Seq(Point) /\ check \in Seq(Point)
      BY <2>5 DEF Runs
    <3>3. Tim!verify_quote = f \o a \o decode \o write \o check \o z
      BY DEF Tim!verify_quote, decode, write, check
    <3> HIDE DEF a, z, f
    <3> DEFINE fa == f \o a
               dw == decode \o write
               dwc == dw \o check
               adwc == a \o dwc
    <3>4. fa \in Seq(Point) /\ dw \in Seq(Point)
      BY <3>1, <3>2, ConcatProperties
    <3>5. (fa \o decode) \o write = fa \o dw
      <4> HIDE DEF fa
      <4> QED
        BY <3>2, <3>4, ConcatAssociative
    <3>6. dwc \in Seq(Point) /\ (fa \o dw) \o check = fa \o dwc
      <4> HIDE DEF fa, dw
      <4>1. dwc \in Seq(Point)
        BY <3>2, <3>4, ConcatProperties
      <4>2. ASSUME NEW x \in Seq(Point), NEW y \in Seq(Point), NEW u \in Seq(Point)
            PROVE  (x \o y) \o u = x \o (y \o u)
        BY SMTT(40), ConcatAssociative
      <4>3. (fa \o dw) \o check = fa \o (dw \o check)
        BY ONLY SMTT(40), <3>2, <3>4, <4>2
      <4> QED
        BY <4>1, <4>3
    <3>7. adwc \in Seq(Point) /\ fa \o dwc = f \o adwc
      <4>1. dwc \in Seq(Point)
        BY <3>6
      <4> HIDE DEF dwc
      <4>2. adwc \in Seq(Point)
        BY <3>1, <4>1, ConcatProperties
      <4>3. (f \o a) \o dwc = f \o (a \o dwc)
        BY <3>1, <4>1, ConcatAssociative
      <4> QED
        BY <4>2, <4>3
    <3>8. (f \o adwc) \o z = f \o (adwc \o z)
      <4> HIDE DEF adwc
      <4> QED
        BY <3>1, <3>7, ConcatAssociative
    <3>9. Tim!verify_quote = (((fa \o decode) \o write) \o check) \o z
      BY <3>3
    <3>10. rest = adwc \o z
      BY DEF a, z
    <3> HIDE DEF fa, dw, dwc, adwc, rest
    <3> QED
      BY <3>5, <3>6, <3>7, <3>8, <3>9, <3>10 DEF f
  <2>9. Runs("verify_all", Tim!verify_quote, w, w)
    <3> HIDE DEF rest
    <3> QED
      BY <2>7, <2>8, TryRuns, RunsThen
  <2>10. Bare(<<>>) /\ w = Append(<<>>, <<"stage", "tpm_verify_us">>)
    BY Contexts DEF w, g
  <2> QED
    BY <1>1, <2>9, <2>10, StageRuns
<1> QED
    BY <1>3, <1>4, <1>5

\* The routes that have a handler.
HandledRoutes ==
    {"information_tpm", "quote_tpm", "attestation_all", "verify_all",
     "attestation_with_random_number", "verify_report", "parse_report", "gpu_attestation"}

\* The routes with a transaction.
LEMMA TransactionPrograms ==
    /\ Runs("information_tpm", Tim!information_tpm, Arrival, <<>>)
    /\ Runs("quote_tpm", Tim!quote_tpm, Arrival, <<>>)
    /\ Runs("attestation_all", Tim!attestation_all, Arrival, <<>>)
<1>1. Runs("information_tpm", Tim!information_tpm, Arrival, <<>>)
  <2> DEFINE r == "information_tpm"
             body == Tim!measure_and_extend \o Tim!Stage("ensure_ak_us", Tim!Tpm2Tolerated)
  <2>1. r # "verify_all"
    OBVIOUS
  <2>2. Tim!information_tpm = Tim!enter_handler \o Tim!Transaction(body) \o Tim!measure_json
    BY DEF Tim!information_tpm
  <2> HIDE DEF r
  <2>3. Runs(r, body, <<Scratch>>, <<Scratch>>)
    BY Contexts, TpmStages, RunsThen
  <2> HIDE DEF body
  <2>4. Runs(r, Tim!Transaction(body), <<>>, <<>>)
    BY <2>1, <2>3, TransactionRuns
  <2>5. Runs(r, Tim!information_tpm, Arrival, <<>>)
    BY <2>2, <2>4, EnterRuns, HandlerStages, RunsThen
  <2> QED
    BY <2>5 DEF r
<1>2. Runs("quote_tpm", Tim!quote_tpm, Arrival, <<>>)
  <2> DEFINE r == "quote_tpm"
             a == Tim!Stage("ensure_ak_us", Tim!Tpm2)
             b == Tim!Stage("create_quote_us", Tim!Tpm2)
             c == Tim!Stage("ak_pubkey_us", Tim!Tpm2Tolerated)
             body == Tim!measure_and_extend \o a \o b \o c
  <2>1. r # "verify_all"
    OBVIOUS
  <2>2. Tim!quote_tpm = Tim!enter_handler \o Tim!Deserialize \o Tim!NonceValidate \o Tim!NonceValidate
                            \o Tim!Transaction(body) \o Tim!measure_json
    BY DEF Tim!quote_tpm
  <2> HIDE DEF r
  <2>3. Bare(<<Scratch>>)
    BY Contexts
  <2>4. /\ Runs(r, a, <<Scratch>>, <<Scratch>>) /\ Runs(r, b, <<Scratch>>, <<Scratch>>)
        /\ Runs(r, c, <<Scratch>>, <<Scratch>>) /\ Runs(r, Tim!measure_and_extend, <<Scratch>>, <<Scratch>>)
    BY <2>3, TpmStages
  <2> HIDE DEF a, b, c
  <2>5. Runs(r, body, <<Scratch>>, <<Scratch>>)
    BY <2>4, RunsThen
  <2> HIDE DEF body
  <2>6. Runs(r, Tim!Transaction(body), <<>>, <<>>)
    BY <2>1, <2>5, TransactionRuns
  <2>7. /\ Runs(r, Tim!enter_handler, Arrival, <<>>) /\ Runs(r, Tim!Deserialize, <<>>, <<>>)
        /\ Runs(r, Tim!NonceValidate, <<>>, <<>>) /\ Runs(r, Tim!measure_json, <<>>, <<>>)
    BY EnterRuns, HandlerStages
  <2>8. Runs(r, Tim!enter_handler \o Tim!Deserialize \o Tim!NonceValidate \o Tim!NonceValidate, Arrival, <<>>)
    BY ONLY <2>7, RunsThen
  <2>9. Runs(r, Tim!quote_tpm, Arrival, <<>>)
    BY ONLY <2>2, <2>6, <2>7, <2>8, RunsThen
  <2> QED
    BY <2>9 DEF r
<1>3. Runs("attestation_all", Tim!attestation_all, Arrival, <<>>)
  <2> DEFINE r == "attestation_all"
             a == Tim!Stage("ensure_ak_us", Tim!Tpm2)
             b == Tim!Stage("create_quote_us", Tim!Tpm2)
             t == Tim!Stage("tdx_report_us", Tim!generate_tdx_report)
             c == Tim!Stage("ak_pubkey_us", Tim!Tpm2Tolerated)
             body == Tim!measure_and_extend \o a \o b \o t \o c
  <2>1. r # "verify_all" /\ r # "attestation_with_random_number"
    OBVIOUS
  <2>2. Tim!attestation_all = Tim!enter_handler \o Tim!Deserialize \o Tim!NonceValidate \o Tim!NonceValidate
                            \o Tim!Transaction(body) \o Tim!measure_json
    BY DEF Tim!attestation_all
  <2> HIDE DEF r
  <2>3. Bare(<<Scratch>>)
    BY Contexts
  <2>4. /\ Runs(r, a, <<Scratch>>, <<Scratch>>) /\ Runs(r, b, <<Scratch>>, <<Scratch>>)
        /\ Runs(r, c, <<Scratch>>, <<Scratch>>) /\ Runs(r, Tim!measure_and_extend, <<Scratch>>, <<Scratch>>)
        /\ Runs(r, t, <<Scratch>>, <<Scratch>>)
    BY <2>1, <2>3, TpmStages
  <2> HIDE DEF a, b, c, t
  <2>5. Runs(r, body, <<Scratch>>, <<Scratch>>)
    BY <2>4, RunsThen
  <2> HIDE DEF body
  <2>6. Runs(r, Tim!Transaction(body), <<>>, <<>>)
    BY <2>1, <2>5, TransactionRuns
  <2>7. /\ Runs(r, Tim!enter_handler, Arrival, <<>>) /\ Runs(r, Tim!Deserialize, <<>>, <<>>)
        /\ Runs(r, Tim!NonceValidate, <<>>, <<>>) /\ Runs(r, Tim!measure_json, <<>>, <<>>)
    BY EnterRuns, HandlerStages
  <2>8. Runs(r, Tim!enter_handler \o Tim!Deserialize \o Tim!NonceValidate \o Tim!NonceValidate, Arrival, <<>>)
    BY ONLY <2>7, RunsThen
  <2>9. Runs(r, Tim!attestation_all, Arrival, <<>>)
    BY ONLY <2>2, <2>6, <2>7, <2>8, RunsThen
  <2> QED
    BY <2>9 DEF r
<1> QED
    BY <1>1, <1>2, <1>3

\* The others.
LEMMA OtherPrograms ==
    /\ Runs("verify_all", Tim!verify_all, Arrival, <<>>)
    /\ Runs("attestation_with_random_number", Tim!attestation_with_random_number, Arrival, <<>>)
    /\ \A r : /\ Runs(r, Tim!verify_report, Arrival, <<>>)
              /\ Runs(r, Tim!parse_report, Arrival, <<>>)
              /\ Runs(r, Tim!gpu_attestation, Arrival, <<>>)
<1>1. ASSUME NEW r
      PROVE  /\ Runs(r, Tim!enter_handler, Arrival, <<>>) /\ Runs(r, Tim!Deserialize, <<>>, <<>>)
             /\ Runs(r, Tim!NonceValidate, <<>>, <<>>) /\ Runs(r, Tim!measure_json, <<>>, <<>>)
             /\ Runs(r, Tim!Fallible, <<>>, <<>>) /\ Runs(r, Tim!ReportDecode, <<>>, <<>>)
    BY EnterRuns, HandlerStages
<1>2. ASSUME NEW r PROVE Runs(r, Tim!verify_tdx_report, <<>>, <<>>)
    BY Contexts, VerifyRuns
<1>3. Runs("verify_all", Tim!verify_all, Arrival, <<>>)
  <2> DEFINE r == "verify_all"
             a == Tim!Stage("tdx_verify_us", Tim!verify_tdx_report)
             b == Tim!Stage("tpm_verify_us", Tim!verify_quote)
  <2>1. Runs(r, a, <<>>, <<>>) /\ Runs(r, b, <<>>, <<>>)
    BY VerifyRuns
  <2>2. Tim!verify_all = Tim!enter_handler \o Tim!Deserialize \o Tim!Fallible \o Tim!ReportDecode
                            \o a \o b \o Tim!measure_json
    BY DEF Tim!verify_all
  <2> HIDE DEF r, a, b
  <2>3. Runs(r, Tim!enter_handler \o Tim!Deserialize \o Tim!Fallible \o Tim!ReportDecode, Arrival, <<>>)
    BY ONLY <1>1, RunsThen
  <2>4. Runs(r, Tim!verify_all, Arrival, <<>>)
    BY ONLY <1>1, <2>1, <2>2, <2>3, RunsThen
  <2> QED
    BY <2>4 DEF r
<1>4. Runs("attestation_with_random_number", Tim!attestation_with_random_number, Arrival, <<>>)
  <2> DEFINE r == "attestation_with_random_number"
             ioctl == Tim!Unit("ioctl_get_report_us", Tim!Fallible)
  <2>1. "ioctl_get_report_us" \in Names /\ <<"unit", "ioctl_get_report_us">> \notin InFolder
    BY DEF Names, InFolder
  <2>2. Fits(r, <<>>, Len(<<>>), <<"unit", "ioctl_get_report_us">>) /\ <<>> \in Seq(Tags)
    BY <2>1, Contexts, UnitFits, EmptySeq
  <2>3. Runs(r, ioctl, <<>>, <<>>)
    BY <2>1, <2>2, SimpleUnit
  <2>4. /\ Tim!generate_tdx_report = Tim!Fallible \o ioctl
        /\ Tim!attestation_with_random_number =
              Tim!enter_handler \o Tim!Fallible \o Tim!NonceValidate \o Tim!generate_tdx_report \o Tim!measure_json
    BY DEF Tim!attestation_with_random_number, Tim!generate_tdx_report
  <2> HIDE DEF r, ioctl
  <2>5. Runs(r, Tim!generate_tdx_report, <<>>, <<>>)
    BY ONLY <1>1, <2>3, <2>4, RunsThen
  <2>6. Runs(r, Tim!attestation_with_random_number, Arrival, <<>>)
    BY ONLY <1>1, <2>4, <2>5, RunsThen
  <2> QED
    BY <2>6 DEF r
<1>5. ASSUME NEW r PROVE Runs(r, Tim!verify_report, Arrival, <<>>)
    BY ONLY <1>1, <1>2, RunsThen DEF Tim!verify_report
<1>6. ASSUME NEW r PROVE Runs(r, Tim!parse_report, Arrival, <<>>) /\ Runs(r, Tim!gpu_attestation, Arrival, <<>>)
    BY ONLY <1>1, RunsThen DEF Tim!parse_report, Tim!gpu_attestation
<1> QED
    BY <1>3, <1>4, <1>5, <1>6

\* Every program closes what it opens, and opens it where it may be.
LEMMA ProgramsRun ==
    ASSUME NEW r \in HandledRoutes
    PROVE  Ok(r, Tim!Program(r), Arrival)
<1>1. Runs(r, Tim!Program(r), Arrival, <<>>)
  <2>1. /\ Tim!Program("information_tpm") = Tim!information_tpm
        /\ Tim!Program("quote_tpm") = Tim!quote_tpm
        /\ Tim!Program("attestation_all") = Tim!attestation_all
        /\ Tim!Program("verify_all") = Tim!verify_all
        /\ Tim!Program("attestation_with_random_number") = Tim!attestation_with_random_number
        /\ Tim!Program("verify_report") = Tim!verify_report
        /\ Tim!Program("parse_report") = Tim!parse_report
        /\ Tim!Program("gpu_attestation") = Tim!gpu_attestation
    BY DEF Tim!Program
  <2> QED
    BY <2>1, TransactionPrograms, OtherPrograms DEF HandledRoutes
<1>2. Ok(r, Tim!Program(r) \o <<>>, Arrival)
    BY <1>1, OkDone, EmptySeq DEF Runs
<1>3. Tim!Program(r) \o <<>> = Tim!Program(r)
    BY <1>1, ConcatEmptySeq DEF Runs
<1> QED
    BY <1>2, <1>3

-----------------------------------------------------------------------------
(* Timing record: the accounts that the spans keep *)

Spans == [kind : {"stage", "unit", "scratch"}, name : Names, started : Nat]
TagOf(s) == <<s.kind, s.name>>
Shape(L) == [i \in 1..Len(L) |-> TagOf(L[i])]

\* The tags of a stack, and of the stack with one more on top.
LEMMA ShapeOf ==
    ASSUME NEW K \in Seq(Spans)
    PROVE  /\ Shape(K) \in Seq(Tags) /\ Len(Shape(K)) = Len(K)
           /\ \A i \in 1..Len(K) : Shape(K)[i] = TagOf(K[i])
           /\ \A s \in Spans : Shape(Append(K, s)) = Append(Shape(K), TagOf(s))
<1>1. \A s \in Spans : TagOf(s) \in Tags
    BY DEF Spans, TagOf, Tags
<1>2. ASSUME NEW M \in Seq(Spans)
      PROVE  /\ Shape(M) \in Seq(Tags) /\ Len(Shape(M)) = Len(M) /\ Len(M) \in Nat
             /\ \A i \in 1..Len(M) : Shape(M)[i] = TagOf(M[i])
  <2>1. Len(M) \in Nat /\ \A i \in 1..Len(M) : M[i] \in Spans
    BY LenProperties
  <2>2. \A i \in 1..Len(M) : TagOf(M[i]) \in Tags
    BY <1>1, <2>1
  <2> QED
    BY <2>1, <2>2 DEF Shape
<1>3. ASSUME NEW s \in Spans PROVE Shape(Append(K, s)) = Append(Shape(K), TagOf(s))
  <2> DEFINE L == Append(K, s)
             v == Append(Shape(K), TagOf(s))
  <2>1. /\ L \in Seq(Spans) /\ Len(L) = Len(K) + 1
        /\ \A i \in 1..Len(K) : L[i] = K[i]
        /\ L[Len(K) + 1] = s
    BY AppendProperties
  <2>2. /\ v \in Seq(Tags) /\ Len(v) = Len(K) + 1
        /\ \A i \in 1..Len(K) : v[i] = Shape(K)[i]
        /\ v[Len(K) + 1] = TagOf(s)
    BY <1>1, <1>2, AppendProperties
  <2> HIDE DEF L, v
  <2>3. Shape(L) \in Seq(Tags) /\ Len(Shape(L)) = Len(K) + 1
        /\ \A i \in 1..(Len(K) + 1) : Shape(L)[i] = TagOf(L[i])
    BY <1>2, <2>1
  <2>4. \A i \in 1..(Len(K) + 1) : Shape(L)[i] = v[i]
    BY <1>2, <2>1, <2>2, <2>3
  <2>5. Shape(L) = v
    BY <2>2, <2>3, <2>4, SeqEqual
  <2> QED
    BY <2>5 DEF L, v
<1> QED
    BY <1>2, <1>3

\* How long the span at i has run, or ran before its part p was opened.
Until(L, C, i, t) == IF i < Len(L) /\ TagOf(L[i + 1]) \in C THEN L[i + 1].started ELSE t

\* The parts C of a span P, which is open at most once, took c, and P took m.
PairAccount(L, P, C, m, c, t) ==
    /\ (\A i \in 1..Len(L) : TagOf(L[i]) # P) => c <= m
    /\ \A i \in 1..Len(L) : TagOf(L[i]) = P => c + L[i].started <= m + Until(L, C, i, t)

\* The spans C, of which at most one is open at a time, took c.
UseAccount(L, C, c, t) ==
    c <= t /\ \A i \in 1..Len(L) : TagOf(L[i]) \in C => c <= L[i].started

\* The outermost stages took x, and the time in some stage is y.
StageAccount(L, x, y, t) ==
    /\ (\A i \in 1..Len(L) : L[i].kind # "stage") => x = y
    /\ \A i \in 1..Len(L) :
          L[i].kind = "stage" /\ (\A j \in 1..(i - 1) : L[j].kind # "stage") => x + t = y + L[i].started

\* At most one P is open, and its parts lie directly on it.
Placed(K, s, P, C) ==
    /\ \A i, j \in 1..Len(K) : TagOf(K[i]) = P /\ TagOf(K[j]) = P => i = j
    /\ TagOf(s) = P => \A i \in 1..Len(K) : TagOf(K[i]) # P
    /\ TagOf(s) \in C => Len(K) > 0 /\ TagOf(K[Len(K)]) = P
    /\ P \notin C

\* What a stack with one more on top looks like.
LEMMA OnTop ==
    ASSUME NEW K \in Seq(Spans), NEW s \in Spans
    PROVE  /\ Append(K, s) \in Seq(Spans) /\ Len(K) \in Nat /\ Len(Append(K, s)) = Len(K) + 1
           /\ \A i \in 1..Len(K) : Append(K, s)[i] = K[i] /\ K[i] \in Spans /\ K[i].started \in Nat
           /\ Append(K, s)[Len(K) + 1] = s
           /\ s.started \in Nat
<1>1. \A x \in Spans : x.started \in Nat
    BY DEF Spans
<1>2. Len(K) \in Nat /\ \A i \in 1..Len(K) : K[i] \in Spans
    BY LenProperties
<1> QED
    BY <1>1, <1>2, AppendProperties

\* Time passes.
LEMMA PairTick ==
    ASSUME NEW L \in Seq(Spans), NEW P, NEW C, NEW m \in Nat, NEW c \in Nat, NEW t \in Nat,
           PairAccount(L, P, C, m, c, t)
    PROVE  PairAccount(L, P, C, m, c, t + 1)
<1>1. Len(L) \in Nat /\ \A i \in 1..Len(L) : L[i].started \in Nat
  <2>1. \A x \in Spans : x.started \in Nat
    BY DEF Spans
  <2> QED
    BY <2>1, LenProperties
<1>2. ASSUME NEW i \in 1..Len(L), TagOf(L[i]) = P
      PROVE  c + L[i].started <= m + Until(L, C, i, t + 1)
  <2>1. c + L[i].started <= m + Until(L, C, i, t)
    BY <1>2 DEF PairAccount
  <2>2. CASE i < Len(L) /\ TagOf(L[i + 1]) \in C
    BY <2>1, <2>2 DEF Until
  <2>3. CASE ~ (i < Len(L) /\ TagOf(L[i + 1]) \in C)
    BY <1>1, <2>1, <2>3 DEF Until
  <2> QED
    BY <2>2, <2>3
<1> QED
    BY <1>2 DEF PairAccount

\* A span, or a scratch directory, is opened.
LEMMA PairPush ==
    ASSUME NEW K \in Seq(Spans), NEW s \in Spans, NEW P, NEW C,
           NEW m \in Nat, NEW c \in Nat, NEW t \in Nat, s.started = t,
           Placed(K, s, P, C), PairAccount(K, P, C, m, c, t)
    PROVE  PairAccount(Append(K, s), P, C, m, c, t)
<1> DEFINE L == Append(K, s)
           n == Len(K)
<1>1. /\ n \in Nat /\ Len(L) = n + 1 /\ L[n + 1] = s
      /\ \A i \in 1..n : L[i] = K[i] /\ K[i].started \in Nat
    BY OnTop
<1> HIDE DEF L
<1>2. ASSUME \A i \in 1..Len(L) : TagOf(L[i]) # P PROVE c <= m
  <2>1. \A i \in 1..n : TagOf(K[i]) # P
    BY <1>1, <1>2
  <2> QED
    BY <2>1 DEF PairAccount
<1>3. ASSUME NEW i \in 1..Len(L), TagOf(L[i]) = P
      PROVE  c + L[i].started <= m + Until(L, C, i, t)
  <2>1. CASE i = n + 1
    <3>1. L[i] = s /\ \A k \in 1..n : TagOf(K[k]) # P
      BY <1>1, <1>3, <2>1 DEF Placed
    <3>2. c <= m
      BY <3>1 DEF PairAccount
    <3>3. Until(L, C, i, t) = t
      BY <1>1, <2>1 DEF Until
    <3> QED
      BY <3>1, <3>2, <3>3
  <2>2. CASE i # n + 1
    <3>1. i \in 1..n /\ L[i] = K[i]
      BY <1>1, <2>2
    <3>2. c + K[i].started <= m + Until(K, C, i, t)
      BY <1>3, <3>1 DEF PairAccount
    <3>3. Until(L, C, i, t) = Until(K, C, i, t)
      <4>1. CASE i = n
        <5>1. L[i + 1] = s /\ i < Len(L) /\ ~ (i < n)
          BY <1>1, <4>1
        <5> QED
          BY <5>1 DEF Until
      <4>2. CASE i # n
        <5>1. i + 1 \in 1..n /\ i < Len(L) /\ i < n
          BY <1>1, <3>1, <4>2
        <5>2. L[i + 1] = K[i + 1]
          BY <1>1, <5>1
        <5> QED
          BY <5>1, <5>2 DEF Until
      <4> QED
        BY <4>1, <4>2
    <3> QED
      BY <3>1, <3>2, <3>3
  <2> QED
    BY <2>1, <2>2
<1> QED
    BY <1>2, <1>3 DEF PairAccount, L

\* What the span on top adds to the bucket of the tags C when it is booked.
Due(s, C, t) == IF TagOf(s) \in C THEN t - s.started ELSE 0

\* A span is booked, or a scratch directory goes.
LEMMA PairPop ==
    ASSUME NEW K \in Seq(Spans), NEW s \in Spans, NEW P, NEW C,
           NEW m \in Nat, NEW c \in Nat, NEW t \in Nat, s.started <= t,
           Placed(K, s, P, C), PairAccount(Append(K, s), P, C, m, c, t)
    PROVE  PairAccount(K, P, C, m + Due(s, {P}, t), c + Due(s, C, t), t)
<1> DEFINE L == Append(K, s)
           n == Len(K)
<1>1. /\ n \in Nat /\ Len(L) = n + 1 /\ L[n + 1] = s
      /\ \A i \in 1..n : L[i] = K[i] /\ K[i].started \in Nat
    BY OnTop
<1>2. PairAccount(L, P, C, m, c, t) /\ s.started \in Nat
    BY OnTop
<1> HIDE DEF L
<1>3. CASE TagOf(s) = P
  <2>1. Due(s, {P}, t) = t - s.started /\ Due(s, C, t) = 0
    BY <1>3 DEF Due, Placed
  <2>2. n + 1 \in 1..Len(L) /\ TagOf(L[n + 1]) = P
    BY <1>1, <1>3
  <2>3. c + s.started <= m + Until(L, C, n + 1, t)
    BY <1>1, <1>2, <2>2 DEF PairAccount
  <2>4. Until(L, C, n + 1, t) = t
    BY <1>1 DEF Until
  <2>5. c <= m + (t - s.started)
    BY <1>2, <2>3, <2>4
  <2>6. \A i \in 1..n : TagOf(K[i]) # P
    BY <1>3 DEF Placed
  <2>7. c + 0 <= m + (t - s.started)
    BY <2>5
  <2> QED
    BY <2>1, <2>6, <2>7 DEF PairAccount
<1>4. CASE TagOf(s) \in C
  <2>1. Due(s, {P}, t) = 0 /\ Due(s, C, t) = t - s.started
    BY <1>4 DEF Due, Placed
  <2>2. n \in 1..n /\ TagOf(K[n]) = P
    BY <1>1, <1>4 DEF Placed
  <2>3. n \in 1..Len(L) /\ L[n] = K[n]
    BY <1>1, <2>2
  <2>4. c + K[n].started <= m + Until(L, C, n, t)
    BY <1>2, <2>2, <2>3 DEF PairAccount
  <2>5. Until(L, C, n, t) = s.started
    BY <1>1, <1>4 DEF Until
  <2>6. Until(K, C, n, t) = t
    BY <1>1 DEF Until
  <2>7. (c + (t - s.started)) + K[n].started <= (m + 0) + Until(K, C, n, t)
    BY SMTT(40), <1>1, <1>2, <2>2, <2>4, <2>5, <2>6
  <2>8. \A i \in 1..n : TagOf(K[i]) = P => i = n
    BY <2>2 DEF Placed
  <2> QED
    BY <2>1, <2>2, <2>7, <2>8 DEF PairAccount
<1>5. CASE TagOf(s) # P /\ TagOf(s) \notin C
  <2>1. Due(s, {P}, t) = 0 /\ Due(s, C, t) = 0
    BY <1>5 DEF Due
  <2>2. m + 0 = m /\ c + 0 = c
    OBVIOUS
  <2>3. ASSUME \A i \in 1..n : TagOf(K[i]) # P PROVE c <= m
    <3>1. \A i \in 1..Len(L) : TagOf(L[i]) # P
      BY <1>1, <1>5, <2>3
    <3> QED
      BY <1>2, <3>1 DEF PairAccount
  <2>4. ASSUME NEW i \in 1..n, TagOf(K[i]) = P
        PROVE  c + K[i].started <= m + Until(K, C, i, t)
    <3>1. i \in 1..Len(L) /\ L[i] = K[i]
      BY <1>1
    <3>2. c + K[i].started <= m + Until(L, C, i, t)
      BY <1>2, <2>4, <3>1 DEF PairAccount
    <3>3. Until(L, C, i, t) = Until(K, C, i, t)
      <4>1. CASE i = n
        <5>1. L[i + 1] = s /\ i < Len(L) /\ ~ (i < n)
          BY <1>1, <4>1
        <5> QED
          BY <1>5, <5>1 DEF Until
      <4>2. CASE i # n
        <5>1. i + 1 \in 1..n /\ i < Len(L) /\ i < n
          BY <1>1, <4>2
        <5>2. L[i + 1] = K[i + 1]
          BY <1>1, <5>1
        <5> QED
          BY <5>1, <5>2 DEF Until
      <4> QED
        BY <4>1, <4>2
    <3> QED
      BY <3>2, <3>3
  <2>5. PairAccount(K, P, C, m, c, t)
    BY <2>3, <2>4 DEF PairAccount
  <2> QED
    BY <2>1, <2>2, <2>5
<1> QED
    BY <1>3, <1>4, <1>5

\* The same for the spans of which one at most is open.
LEMMA UseSteps ==
    ASSUME NEW K \in Seq(Spans), NEW s \in Spans, NEW C, NEW c \in Nat, NEW t \in Nat,
           TagOf(s) \in C => \A i \in 1..Len(K) : TagOf(K[i]) \notin C
    PROVE  /\ UseAccount(K, C, c, t) => UseAccount(K, C, c, t + 1)
           /\ UseAccount(K, C, c, t) /\ s.started = t => UseAccount(Append(K, s), C, c, t)
           /\ UseAccount(Append(K, s), C, c, t) /\ s.started <= t => UseAccount(K, C, c + Due(s, C, t), t)
<1> DEFINE L == Append(K, s)
           n == Len(K)
<1>1. /\ n \in Nat /\ Len(L) = n + 1 /\ L[n + 1] = s /\ s.started \in Nat
      /\ \A i \in 1..n : L[i] = K[i] /\ K[i].started \in Nat
    BY OnTop
<1> HIDE DEF L
<1>2. ASSUME UseAccount(K, C, c, t) PROVE UseAccount(K, C, c, t + 1)
    BY <1>2 DEF UseAccount
<1>3. ASSUME UseAccount(K, C, c, t), s.started = t PROVE UseAccount(L, C, c, t)
  <2>1. ASSUME NEW i \in 1..(n + 1), TagOf(L[i]) \in C PROVE c <= L[i].started
    <3>1. CASE i = n + 1
      BY <1>1, <1>3, <3>1 DEF UseAccount
    <3>2. CASE i # n + 1
      <4>1. i \in 1..n
        BY <1>1, <3>2
      <4> QED
        BY <1>1, <1>3, <2>1, <4>1 DEF UseAccount
    <3> QED
      BY <3>1, <3>2
  <2> QED
    BY <1>1, <1>3, <2>1 DEF UseAccount
<1>4. ASSUME UseAccount(L, C, c, t), s.started <= t PROVE UseAccount(K, C, c + Due(s, C, t), t)
  <2>1. CASE TagOf(s) \in C
    <3>1. c <= s.started
      BY <1>1, <1>4, <2>1 DEF UseAccount
    <3>2. c + (t - s.started) <= t
      BY <1>1, <1>4, <3>1
    <3> QED
      BY <2>1, <3>2 DEF UseAccount, Due
  <2>2. CASE TagOf(s) \notin C
    <3>1. Due(s, C, t) = 0 /\ c + 0 = c
      BY <2>2 DEF Due
    <3>2. \A i \in 1..n : TagOf(K[i]) \in C => c <= K[i].started
      <4>1. \A i \in 1..n : i \in 1..Len(L) /\ L[i] = K[i]
        BY <1>1
      <4> QED
        BY <1>4, <4>1 DEF UseAccount
    <3>3. UseAccount(K, C, c, t)
      BY <1>4, <3>2 DEF UseAccount
    <3> QED
      BY <3>1, <3>3
  <2> QED
    BY <2>1, <2>2
<1> QED
    BY <1>2, <1>3, <1>4 DEF L

\* And for the stages: only the outermost counts.
HasStage(K) == \E i \in 1..Len(K) : K[i].kind = "stage"
\* The account of the stages as time passes, a span is opened and a span is
\* booked.
LEMMA StageSteps ==
    ASSUME NEW K \in Seq(Spans), NEW s \in Spans, NEW x \in Int, NEW y \in Int, NEW t \in Nat
    PROVE  /\ StageAccount(K, x, y, t) => StageAccount(K, x, IF HasStage(K) THEN y + 1 ELSE y, t + 1)
           /\ StageAccount(K, x, y, t) /\ s.started = t => StageAccount(Append(K, s), x, y, t)
           /\ StageAccount(Append(K, s), x, y, t) =>
                StageAccount(K, IF s.kind = "stage" /\ ~ HasStage(K) THEN x + (t - s.started) ELSE x, y, t)
<1> DEFINE L == Append(K, s)
           n == Len(K)
<1>1. /\ n \in Nat /\ Len(L) = n + 1 /\ L[n + 1] = s /\ s.started \in Nat
      /\ \A i \in 1..n : L[i] = K[i] /\ K[i].started \in Nat
    BY OnTop
<1> HIDE DEF L
<1>2. ASSUME StageAccount(K, x, y, t)
      PROVE  StageAccount(K, x, IF HasStage(K) THEN y + 1 ELSE y, t + 1)
  <2>1. CASE HasStage(K)
    <3>1. ASSUME NEW i \in 1..n, K[i].kind = "stage", \A j \in 1..(i - 1) : K[j].kind # "stage"
          PROVE  x + (t + 1) = (y + 1) + K[i].started
      <4>1. x + t = y + K[i].started
        BY <1>2, <3>1 DEF StageAccount
      <4> QED
        BY SMTT(40), <1>1, <4>1
    <3> QED
      BY <2>1, <3>1 DEF StageAccount, HasStage
  <2>2. CASE ~ HasStage(K)
    BY <1>2, <2>2 DEF StageAccount, HasStage
  <2> QED
    BY <2>1, <2>2
<1>3. ASSUME StageAccount(K, x, y, t), s.started = t PROVE StageAccount(L, x, y, t)
  <2>1. ASSUME \A i \in 1..(n + 1) : L[i].kind # "stage" PROVE x = y
    <3>1. \A i \in 1..n : K[i].kind # "stage"
      BY <1>1, <2>1
    <3> QED
      BY <1>3, <3>1 DEF StageAccount
  <2>2. ASSUME NEW i \in 1..(n + 1), L[i].kind = "stage", \A j \in 1..(i - 1) : L[j].kind # "stage"
        PROVE  x + t = y + L[i].started
    <3>1. CASE i = n + 1
      <4>1. \A j \in 1..n : K[j].kind # "stage"
        BY <1>1, <2>2, <3>1
      <4>2. x = y
        BY <1>3, <4>1 DEF StageAccount
      <4> QED
        BY <1>1, <1>3, <3>1, <4>2
    <3>2. CASE i # n + 1
      <4>1. i \in 1..n /\ L[i] = K[i]
        BY <1>1, <3>2
      <4>2. \A j \in 1..(i - 1) : K[j].kind # "stage"
        BY <1>1, <2>2, <4>1
      <4> QED
        BY <1>3, <2>2, <4>1, <4>2 DEF StageAccount
    <3> QED
      BY <3>1, <3>2
  <2> QED
    BY <1>1, <2>1, <2>2 DEF StageAccount
<1>4. ASSUME StageAccount(L, x, y, t)
      PROVE  StageAccount(K, IF s.kind = "stage" /\ ~ HasStage(K) THEN x + (t - s.started) ELSE x, y, t)
  <2>1. CASE s.kind = "stage" /\ ~ HasStage(K)
    <3>1. \A j \in 1..n : K[j].kind # "stage" /\ L[j].kind # "stage"
      BY <1>1, <2>1 DEF HasStage
    <3>2. n + 1 \in 1..Len(L) /\ \A j \in 1..((n + 1) - 1) : L[j].kind # "stage"
      BY <1>1, <3>1
    <3>3. x + t = y + s.started
      BY <1>1, <1>4, <2>1, <3>2 DEF StageAccount
    <3>4. x + (t - s.started) = y
      BY SMTT(40), <1>1, <3>3
    <3> QED
      BY <2>1, <3>1, <3>4 DEF StageAccount
  <2>2. CASE ~ (s.kind = "stage" /\ ~ HasStage(K))
    <3>1. ASSUME \A i \in 1..n : K[i].kind # "stage" PROVE x = y
      <4>1. \A i \in 1..Len(L) : L[i].kind # "stage"
        <5>1. s.kind # "stage"
          BY <2>2, <3>1 DEF HasStage
        <5>2. ASSUME NEW i \in 1..(n + 1) PROVE L[i].kind # "stage"
          <6>1. CASE i = n + 1
            BY <1>1, <5>1, <6>1
          <6>2. CASE i # n + 1
            BY <1>1, <3>1, <6>2
          <6> QED
            BY <6>1, <6>2
        <5> QED
          BY <1>1, <5>2
      <4> QED
        BY <1>4, <4>1 DEF StageAccount
    <3>2. ASSUME NEW i \in 1..n, K[i].kind = "stage", \A j \in 1..(i - 1) : K[j].kind # "stage"
          PROVE  x + t = y + K[i].started
      <4>1. i \in 1..Len(L) /\ L[i] = K[i]
        BY <1>1
      <4>2. ASSUME NEW j \in 1..(i - 1) PROVE L[j].kind # "stage"
        <5>1. j \in 1..n
          BY <1>1
        <5> QED
          BY <1>1, <3>2, <5>1
      <4> QED
        BY <1>4, <3>2, <4>1, <4>2 DEF StageAccount
    <3>3. StageAccount(K, x, y, t)
      BY <3>1, <3>2 DEF StageAccount
    <3> QED
      BY <2>2, <3>3
  <2> QED
    BY <2>1, <2>2
<1> QED
    BY <1>2, <1>3, <1>4 DEF L

\* What the place of the topmost says about those below.
LEMMA TopPlaced ==
    ASSUME NEW r, NEW K \in Seq(Spans), NEW s \in Spans, Legal(r, Shape(Append(K, s)))
    PROVE  /\ Legal(r, Shape(K))
           /\ Placed(K, s, Folder, InFolder)
           /\ r # "attestation_with_random_number" => Placed(K, s, Tdx, {Ioctl})
           /\ r = "attestation_with_random_number" => TagOf(s) # Tdx
           /\ TagOf(s) \in Commands => \A i \in 1..Len(K) : TagOf(K[i]) \notin Commands
           /\ s.kind = "stage" => (HasStage(K) <=> r = "verify_all" /\ TagOf(s) = Removal)
<1> DEFINE w == Shape(K)
           g == TagOf(s)
           n == Len(K)
<1>1. /\ w \in Seq(Tags) /\ Len(w) = n /\ n \in Nat
      /\ \A i \in 1..n : w[i] = TagOf(K[i]) /\ w[i][1] = K[i].kind
      /\ Shape(Append(K, s)) = Append(w, g)
  <2>1. \A x \in Spans : TagOf(x)[1] = x.kind
    BY DEF TagOf
  <2> QED
    BY <2>1, ShapeOf, LenProperties
<1>2. g \in Tags /\ g[1] = s.kind
    BY DEF TagOf, Spans, Tags
<1> HIDE DEF w, g
<1>3. Legal(r, w) /\ Fits(r, w, n, g)
    BY <1>1, <1>2, LegalPush
<1>4. StageIn(w, n) <=> HasStage(K)
    BY <1>1 DEF StageIn, HasStage
<1>5. ASSUME NEW P \in {Folder, Tdx}, NEW i \in 1..n, NEW j \in 1..n, w[i] = P, w[j] = P, i < j
      PROVE  FALSE
  <2>1. Fits(r, w, j - 1, P) /\ i \in 1..(j - 1) /\ j - 1 \in Nat
    BY <1>1, <1>3, <1>5 DEF Legal
  <2>2. CASE P = Folder
    BY <1>5, <2>1, <2>2 DEF Fits
  <2>3. CASE P = Tdx
    <3>1. Tdx[1] = "stage" /\ Tdx # Removal
      BY DEF Tdx, Removal
    <3>2. StageIn(w, j - 1)
      BY <1>5, <2>1, <2>3, <3>1 DEF StageIn
    <3> QED
      BY <2>1, <2>3, <3>1, <3>2 DEF Fits
  <2> QED
    BY <2>2, <2>3
<1>6. ASSUME NEW P \in {Folder, Tdx}, NEW i \in 1..n, NEW j \in 1..n, TagOf(K[i]) = P, TagOf(K[j]) = P
      PROVE  i = j
  <2>1. w[i] = P /\ w[j] = P
    BY <1>1, <1>6
  <2>2. ~ (i < j) /\ ~ (j < i)
    BY <1>5, <2>1
  <2> QED
    BY <1>1, <2>2
<1>7. Placed(K, s, Folder, InFolder)
  <2>1. Folder \notin InFolder
    BY DEF Folder, InFolder
  <2>2. g = Folder => \A i \in 1..n : TagOf(K[i]) # Folder
    BY <1>1, <1>3 DEF Fits
  <2>3. g \in InFolder => n > 0 /\ TagOf(K[n]) = Folder
    BY <1>1, <1>3 DEF Fits
  <2> QED
    BY <1>6, <2>1, <2>2, <2>3 DEF Placed, g
<1>8. ASSUME r # "attestation_with_random_number" PROVE Placed(K, s, Tdx, {Ioctl})
  <2>1. Tdx # Ioctl /\ Tdx[1] = "stage" /\ Tdx # Removal
    BY DEF Tdx, Ioctl, Removal
  <2>2. ASSUME g = Tdx, NEW i \in 1..n PROVE TagOf(K[i]) # Tdx
    <3>1. ~ StageIn(w, n)
      BY <1>3, <2>1, <2>2 DEF Fits
    <3>2. w[i][1] # "stage"
      BY <3>1 DEF StageIn
    <3> QED
      BY <1>1, <2>1, <3>2
  <2>3. g \in {Ioctl} => n > 0 /\ TagOf(K[n]) = Tdx
    BY <1>1, <1>3, <1>8 DEF Fits
  <2> QED
    BY <1>6, <2>1, <2>2, <2>3 DEF Placed, g
<1>9. r = "attestation_with_random_number" => g # Tdx
    BY <1>3 DEF Fits
<1>10. g \in Commands => \A i \in 1..n : TagOf(K[i]) \notin Commands
    BY <1>1, <1>3 DEF Fits
<1>11. s.kind = "stage" => (HasStage(K) <=> r = "verify_all" /\ g = Removal)
    BY <1>2, <1>3, <1>4 DEF Fits
<1> QED
    BY <1>3, <1>7, <1>8, <1>9, <1>10, <1>11 DEF w, g

\* What the routes count twice.
Twice(r, S) == IF r = "verify_all" THEN Tim!Get(S, "scratch_drop_us") ELSE 0

FolderTime(U) == Tim!Get(U, "measure_folder_us")
FileTime(U) == Tim!Get(U, "collect_regular_files_us") + Tim!Get(U, "read_and_hash_loop_us")
TdxTime(S) == Tim!Get(S, "tdx_report_us")
IoctlTime(U) == Tim!Get(U, "ioctl_get_report_us")
CommandTime(U) == Tim!Get(U, "tpm2_us") + Tim!Get(U, "tpm2_checkquote_us")

\* The accounts at time t, with the spans L in scope, the buckets S and U, and
\* y ticks spent in some stage.
TimeAccount(r, t, L, S, U, y) ==
    /\ t \in Nat /\ y \in Int /\ L \in Seq(Spans) /\ \A i \in 1..Len(L) : L[i].started <= t
    /\ Book(S) /\ Book(U) /\ Legal(r, Shape(L))
    /\ PairAccount(L, Folder, InFolder, FolderTime(U), FileTime(U), t)
    /\ r # "attestation_with_random_number" =>
          PairAccount(L, Tdx, {Ioctl}, TdxTime(S), IoctlTime(U), t)
    /\ r = "attestation_with_random_number" => "tdx_report_us" \notin DOMAIN S
    /\ UseAccount(L, Commands, CommandTime(U), t)
    /\ StageAccount(L, Tim!Total(S) - Twice(r, S), y, t)

\* The buckets hold natural numbers.
LEMMA BookTypes ==
    ASSUME NEW b, Book(b)
    PROVE  Tim!Total(b) \in Nat /\ \A n : Tim!Get(b, n) \in Nat
<1>1. Tim!Total(b) = Sum(b, DOMAIN b)
    BY TotalIsSum DEF Book
<1>2. Sum(b, DOMAIN b) \in Nat
  <2>1. DOMAIN b \in SUBSET (DOMAIN b)
    OBVIOUS
  <2> QED
    BY <2>1, SumStep DEF Book
<1> QED
    BY <1>1, <1>2 DEF Book, Tim!Get

\* The amounts are natural numbers.
LEMMA TimeTypes ==
    ASSUME NEW r, NEW S, NEW U, Book(S), Book(U)
    PROVE  /\ FolderTime(U) \in Nat /\ FileTime(U) \in Nat /\ TdxTime(S) \in Nat /\ IoctlTime(U) \in Nat
           /\ CommandTime(U) \in Nat /\ Tim!Total(S) - Twice(r, S) \in Int
<1>1. /\ \A n : Tim!Get(U, n) \in Nat /\ Tim!Get(S, n) \in Nat
      /\ Tim!Total(S) \in Nat
    BY BookTypes
<1>2. Twice(r, S) \in Nat
    BY <1>1 DEF Twice
<1>3. /\ FolderTime(U) \in Nat /\ TdxTime(S) \in Nat /\ IoctlTime(U) \in Nat
    BY <1>1 DEF FolderTime, TdxTime, IoctlTime
<1>4. FileTime(U) \in Nat /\ CommandTime(U) \in Nat
  <2>1. Tim!Get(U, "collect_regular_files_us") \in Nat /\ Tim!Get(U, "read_and_hash_loop_us") \in Nat
        /\ Tim!Get(U, "tpm2_us") \in Nat /\ Tim!Get(U, "tpm2_checkquote_us") \in Nat
    BY <1>1
  <2> QED
    BY <2>1 DEF FileTime, CommandTime
<1> QED
    BY <1>1, <1>2, <1>3, <1>4

\* Time passes.
LEMMA AccountTick ==
    ASSUME NEW r, NEW t, NEW L, NEW S, NEW U, NEW y, TimeAccount(r, t, L, S, U, y)
    PROVE  TimeAccount(r, t + 1, L, S, U, IF HasStage(L) THEN y + 1 ELSE y)
<1>1. t \in Nat /\ y \in Int /\ L \in Seq(Spans) /\ Book(S) /\ Book(U)
    BY DEF TimeAccount
<1> DEFINE x == Tim!Total(S) - Twice(r, S)
           z == IF HasStage(L) THEN y + 1 ELSE y
<1>2. /\ FolderTime(U) \in Nat /\ FileTime(U) \in Nat /\ TdxTime(S) \in Nat /\ IoctlTime(U) \in Nat
      /\ CommandTime(U) \in Nat /\ x \in Int
    BY <1>1, TimeTypes
<1>3. PairAccount(L, Folder, InFolder, FolderTime(U), FileTime(U), t + 1)
    BY <1>1, <1>2, PairTick DEF TimeAccount
<1>4. r # "attestation_with_random_number" =>
          PairAccount(L, Tdx, {Ioctl}, TdxTime(S), IoctlTime(U), t + 1)
    BY <1>1, <1>2, PairTick DEF TimeAccount
<1>5. UseAccount(L, Commands, CommandTime(U), t + 1)
    BY SMTT(40), <1>1, <1>2 DEF TimeAccount, UseAccount
<1>6. StageAccount(L, x, z, t + 1)
  <2>1. StageAccount(L, x, y, t)
    BY DEF TimeAccount
  <2>2. \E s : s \in Spans
    <3>1. [kind |-> "stage", name |-> "none", started |-> 0] \in Spans
      BY DEF Spans, Names
    <3> QED
      BY <3>1
  <2> HIDE DEF x
  <2> QED
    BY <1>1, <1>2, <2>1, <2>2, StageSteps
<1>7. t + 1 \in Nat /\ z \in Int /\ \A i \in 1..Len(L) : L[i].started <= t + 1
  <2>1. \A i \in 1..Len(L) : L[i].started \in Nat /\ L[i].started <= t
    <3>1. \A s \in Spans : s.started \in Nat
      BY DEF Spans
    <3> QED
      BY <1>1, <3>1, LenProperties DEF TimeAccount
  <2> QED
    BY <1>1, <2>1
<1> HIDE DEF z
<1> QED
    BY <1>1, <1>3, <1>4, <1>5, <1>6, <1>7 DEF TimeAccount, x, z

\* A span or a scratch directory is opened.
LEMMA AccountPush ==
    ASSUME NEW r, NEW t, NEW K, NEW S, NEW U, NEW y, TimeAccount(r, t, K, S, U, y),
           NEW s \in Spans, s.started = t, Legal(r, Shape(Append(K, s)))
    PROVE  TimeAccount(r, t, Append(K, s), S, U, y)
<1>1. t \in Nat /\ y \in Int /\ K \in Seq(Spans) /\ Book(S) /\ Book(U)
    BY DEF TimeAccount
<1> DEFINE x == Tim!Total(S) - Twice(r, S)
<1>2. /\ FolderTime(U) \in Nat /\ FileTime(U) \in Nat /\ TdxTime(S) \in Nat /\ IoctlTime(U) \in Nat
      /\ CommandTime(U) \in Nat /\ x \in Int
    BY <1>1, TimeTypes
<1>3. /\ Placed(K, s, Folder, InFolder)
      /\ r # "attestation_with_random_number" => Placed(K, s, Tdx, {Ioctl})
      /\ TagOf(s) \in Commands => \A i \in 1..Len(K) : TagOf(K[i]) \notin Commands
    BY <1>1, TopPlaced
<1>4. PairAccount(Append(K, s), Folder, InFolder, FolderTime(U), FileTime(U), t)
    BY <1>1, <1>2, <1>3, PairPush DEF TimeAccount
<1>5. r # "attestation_with_random_number" =>
          PairAccount(Append(K, s), Tdx, {Ioctl}, TdxTime(S), IoctlTime(U), t)
    BY <1>1, <1>2, <1>3, PairPush DEF TimeAccount
<1>6. UseAccount(Append(K, s), Commands, CommandTime(U), t)
    BY <1>1, <1>2, <1>3, UseSteps DEF TimeAccount
<1>7. StageAccount(Append(K, s), x, y, t)
  <2>1. StageAccount(K, x, y, t)
    BY DEF TimeAccount
  <2> HIDE DEF x
  <2> QED
    BY <1>1, <1>2, <2>1, StageSteps
<1>8. Append(K, s) \in Seq(Spans) /\ \A i \in 1..Len(Append(K, s)) : Append(K, s)[i].started <= t
  <2>1. /\ Append(K, s) \in Seq(Spans) /\ Len(K) \in Nat /\ Len(Append(K, s)) = Len(K) + 1
        /\ \A i \in 1..Len(K) : Append(K, s)[i] = K[i]
        /\ Append(K, s)[Len(K) + 1] = s
    BY <1>1, OnTop
  <2>2. \A i \in 1..Len(K) : K[i].started <= t
    BY DEF TimeAccount
  <2> QED
    BY <1>1, <2>1, <2>2
<1> QED
    BY <1>1, <1>4, <1>5, <1>6, <1>7, <1>8 DEF TimeAccount, x

\* What is booked when s goes: its duration, under its own name only.
Booked(r, K, s, t, S, U, S2, U2) ==
    /\ Book(S2) /\ Book(U2)
    /\ FolderTime(U2) = FolderTime(U) + Due(s, {Folder}, t)
    /\ FileTime(U2) = FileTime(U) + Due(s, InFolder, t)
    /\ TdxTime(S2) = TdxTime(S) + Due(s, {Tdx}, t)
    /\ IoctlTime(U2) = IoctlTime(U) + Due(s, {Ioctl}, t)
    /\ CommandTime(U2) = CommandTime(U) + Due(s, Commands, t)
    /\ Tim!Total(S2) - Twice(r, S2) =
          IF s.kind = "stage" /\ ~ HasStage(K)
          THEN (Tim!Total(S) - Twice(r, S)) + (t - s.started)
          ELSE Tim!Total(S) - Twice(r, S)
    /\ "tdx_report_us" \in DOMAIN S2 => "tdx_report_us" \in DOMAIN S \/ TagOf(s) = Tdx

\* The topmost goes.
LEMMA AccountPop ==
    ASSUME NEW r, NEW t, NEW K \in Seq(Spans), NEW s \in Spans, NEW S, NEW U, NEW y, NEW S2, NEW U2,
           TimeAccount(r, t, Append(K, s), S, U, y), Booked(r, K, s, t, S, U, S2, U2)
    PROVE  TimeAccount(r, t, K, S2, U2, y)
<1>1. t \in Nat /\ y \in Int /\ Book(S) /\ Book(U) /\ Book(S2) /\ Book(U2) /\ Legal(r, Shape(Append(K, s)))
    BY DEF TimeAccount, Booked
<1> DEFINE x == Tim!Total(S) - Twice(r, S)
           x2 == Tim!Total(S2) - Twice(r, S2)
<1>2. /\ FolderTime(U) \in Nat /\ FileTime(U) \in Nat /\ TdxTime(S) \in Nat /\ IoctlTime(U) \in Nat
      /\ CommandTime(U) \in Nat /\ x \in Int
    BY <1>1, TimeTypes
<1>3. /\ Placed(K, s, Folder, InFolder) /\ Legal(r, Shape(K))
      /\ r # "attestation_with_random_number" => Placed(K, s, Tdx, {Ioctl})
      /\ r = "attestation_with_random_number" => TagOf(s) # Tdx
      /\ TagOf(s) \in Commands => \A i \in 1..Len(K) : TagOf(K[i]) \notin Commands
    BY <1>1, TopPlaced
<1>4. s.started <= t /\ \A i \in 1..Len(K) : K[i].started <= t
  <2>1. /\ Len(K) \in Nat /\ Len(Append(K, s)) = Len(K) + 1
        /\ \A i \in 1..Len(K) : Append(K, s)[i] = K[i]
        /\ Append(K, s)[Len(K) + 1] = s
    BY OnTop
  <2>2. \A i \in 1..(Len(K) + 1) : Append(K, s)[i].started <= t
    BY <2>1 DEF TimeAccount
  <2>3. Len(K) + 1 \in 1..(Len(K) + 1) /\ \A i \in 1..Len(K) : i \in 1..(Len(K) + 1)
    BY <2>1
  <2> QED
    BY <2>1, <2>2, <2>3
<1>5. PairAccount(K, Folder, InFolder, FolderTime(U2), FileTime(U2), t)
  <2>1. PairAccount(Append(K, s), Folder, InFolder, FolderTime(U), FileTime(U), t)
    BY DEF TimeAccount
  <2>2. PairAccount(K, Folder, InFolder, FolderTime(U) + Due(s, {Folder}, t), FileTime(U) + Due(s, InFolder, t), t)
    BY <1>1, <1>2, <1>3, <1>4, <2>1, PairPop
  <2> QED
    BY <2>2 DEF Booked
<1>6. ASSUME r # "attestation_with_random_number"
      PROVE  PairAccount(K, Tdx, {Ioctl}, TdxTime(S2), IoctlTime(U2), t)
  <2>1. PairAccount(Append(K, s), Tdx, {Ioctl}, TdxTime(S), IoctlTime(U), t)
    BY <1>6 DEF TimeAccount
  <2>2. PairAccount(K, Tdx, {Ioctl}, TdxTime(S) + Due(s, {Tdx}, t), IoctlTime(U) + Due(s, {Ioctl}, t), t)
    BY <1>1, <1>2, <1>3, <1>4, <1>6, <2>1, PairPop
  <2> QED
    BY <2>2 DEF Booked
<1>7. r = "attestation_with_random_number" => "tdx_report_us" \notin DOMAIN S2
    BY <1>3 DEF TimeAccount, Booked
<1>8. UseAccount(K, Commands, CommandTime(U2), t)
  <2>1. UseAccount(K, Commands, CommandTime(U) + Due(s, Commands, t), t)
    BY <1>1, <1>2, <1>3, <1>4, UseSteps DEF TimeAccount
  <2> QED
    BY <2>1 DEF Booked
<1>9. StageAccount(K, x2, y, t)
  <2>1. StageAccount(Append(K, s), x, y, t)
    BY DEF TimeAccount
  <2>2. x2 = IF s.kind = "stage" /\ ~ HasStage(K) THEN x + (t - s.started) ELSE x
    BY DEF Booked
  <2> HIDE DEF x, x2
  <2> QED
    BY <1>1, <1>2, <2>1, <2>2, StageSteps
<1> QED
    BY <1>1, <1>3, <1>4, <1>5, <1>6, <1>7, <1>8, <1>9 DEF TimeAccount, x2

\* A scratch directory goes without being booked.
LEMMA AccountDiscard ==
    ASSUME NEW r, NEW t, NEW K \in Seq(Spans), NEW s \in Spans, NEW S, NEW U, NEW y,
           s.kind = "scratch", TimeAccount(r, t, Append(K, s), S, U, y)
    PROVE  TimeAccount(r, t, K, S, U, y)
<1>1. Book(S) /\ Book(U)
    BY DEF TimeAccount
<1>2. /\ FolderTime(U) \in Nat /\ FileTime(U) \in Nat /\ TdxTime(S) \in Nat /\ IoctlTime(U) \in Nat
      /\ CommandTime(U) \in Nat
    BY <1>1, TimeTypes
<1>3. TagOf(s)[1] = "scratch"
    BY DEF TagOf
<1>4. TagOf(s) \notin {Folder} /\ TagOf(s) \notin InFolder /\ TagOf(s) \notin {Tdx} /\ TagOf(s) \notin {Ioctl}
      /\ TagOf(s) \notin Commands
    BY <1>3 DEF Folder, InFolder, Tdx, Ioctl, Commands
<1>5. /\ Due(s, {Folder}, t) = 0 /\ Due(s, InFolder, t) = 0 /\ Due(s, {Tdx}, t) = 0 /\ Due(s, {Ioctl}, t) = 0
      /\ Due(s, Commands, t) = 0
    BY <1>4 DEF Due
<1>6. Booked(r, K, s, t, S, U, S, U)
    BY <1>1, <1>2, <1>5 DEF Booked
<1> QED
    BY <1>6, AccountPop

\* A span is booked.
LEMMA AccountFinish ==
    ASSUME NEW r, NEW t, NEW K \in Seq(Spans), NEW s \in Spans, NEW S, NEW U, NEW y,
           s.kind # "scratch", TimeAccount(r, t, Append(K, s), S, U, y)
    PROVE  /\ s.kind = "stage" => TimeAccount(r, t, K, Tim!Add(S, s.name, t - s.started), U, y)
           /\ s.kind # "stage" => TimeAccount(r, t, K, S, Tim!Add(U, s.name, t - s.started), y)
<1> DEFINE us == t - s.started
           S2 == Tim!Add(S, s.name, us)
           U2 == Tim!Add(U, s.name, us)
<1>1. Book(S) /\ Book(U) /\ t \in Nat /\ Legal(r, Shape(Append(K, s)))
    BY DEF TimeAccount
<1>2. us \in Nat
  <2>1. /\ Len(K) \in Nat /\ Len(Append(K, s)) = Len(K) + 1
        /\ Append(K, s)[Len(K) + 1] = s /\ s.started \in Nat
    BY OnTop
  <2>2. s.started <= t
    BY <2>1 DEF TimeAccount
  <2> QED
    BY <1>1, <2>1, <2>2
<1>3. /\ FolderTime(U) \in Nat /\ FileTime(U) \in Nat /\ TdxTime(S) \in Nat /\ IoctlTime(U) \in Nat
      /\ CommandTime(U) \in Nat
    BY <1>1, TimeTypes
<1>4. /\ Tim!Total(S) \in Nat /\ Tim!Get(S, "scratch_drop_us") \in Nat
      /\ Tim!Get(U, "collect_regular_files_us") \in Nat /\ Tim!Get(U, "read_and_hash_loop_us") \in Nat
      /\ Tim!Get(U, "tpm2_us") \in Nat /\ Tim!Get(U, "tpm2_checkquote_us") \in Nat
    BY <1>1, BookTypes
<1>5. s.kind \in {"stage", "unit"} /\ s.name \in Names
    BY DEF Spans
<1>6. \A kind, name : TagOf(s) = <<kind, name>> <=> s.kind = kind /\ s.name = name
    BY DEF TagOf
<1>7. ASSUME s.kind = "stage" PROVE TimeAccount(r, t, K, S2, U, y)
  <2>1. /\ Book(S2) /\ Tim!Total(S2) = Tim!Total(S) + us
        /\ DOMAIN S2 = DOMAIN S \cup {s.name}
        /\ Raised(S, S2, s.name, us)
    <3> DEFINE name == s.name
    <3> HIDE DEF us, name
    <3> QED
      BY <1>1, <1>2, Booking DEF name
  <2>2. /\ TagOf(s) \notin {Folder} /\ TagOf(s) \notin InFolder /\ TagOf(s) \notin {Ioctl}
        /\ TagOf(s) \notin Commands
    <3>1. TagOf(s)[1] = "stage"
      BY <1>7 DEF TagOf
    <3> QED
      BY <3>1 DEF Folder, InFolder, Ioctl, Commands
  <2>3. (TagOf(s) = Tdx <=> s.name = "tdx_report_us") /\ (TagOf(s) = Removal <=> s.name = "scratch_drop_us")
    BY <1>6, <1>7 DEF Tdx, Removal
  <2>4. HasStage(K) <=> r = "verify_all" /\ TagOf(s) = Removal
    BY <1>1, <1>7, TopPlaced
  <2> HIDE DEF S2
  <2>5. /\ Due(s, {Folder}, t) = 0 /\ Due(s, InFolder, t) = 0 /\ Due(s, {Ioctl}, t) = 0
        /\ Due(s, Commands, t) = 0
    BY <2>2 DEF Due
  <2>6. TdxTime(S2) = TdxTime(S) + Due(s, {Tdx}, t)
    BY <2>1, <2>3 DEF Due, TdxTime, Raised
  <2>7. Twice(r, S2) = IF HasStage(K) THEN Twice(r, S) + us ELSE Twice(r, S)
    <3>1. Tim!Get(S2, "scratch_drop_us") = Tim!Get(S, "scratch_drop_us") + (IF s.name = "scratch_drop_us" THEN us ELSE 0)
      BY <2>1 DEF Raised
    <3> HIDE DEF us
    <3>2. CASE r = "verify_all"
      BY <1>2, <1>4, <2>3, <2>4, <3>1, <3>2 DEF Twice
    <3>3. CASE r # "verify_all"
      BY <2>4, <3>3 DEF Twice
    <3> QED
      BY <3>2, <3>3
  <2>8. Tim!Total(S2) - Twice(r, S2) = IF HasStage(K) THEN Tim!Total(S) - Twice(r, S)
                                       ELSE (Tim!Total(S) - Twice(r, S)) + us
    <3>1. Twice(r, S) \in Nat
      BY <1>4 DEF Twice
    <3> HIDE DEF us
    <3> QED
      BY <1>2, <1>4, <2>1, <2>7, <3>1
  <2>9. Booked(r, K, s, t, S, U, S2, U)
    BY <1>1, <1>3, <1>7, <2>1, <2>3, <2>5, <2>6, <2>8 DEF Booked
  <2> QED
    BY <2>9, AccountPop
<1>8. ASSUME s.kind # "stage" PROVE TimeAccount(r, t, K, S, U2, y)
  <2>1. /\ Book(U2)
        /\ Raised(U, U2, s.name, us)
    <3> DEFINE name == s.name
    <3> HIDE DEF us, name
    <3> QED
      BY <1>1, <1>2, Booking DEF name
  <2>2. s.kind = "unit"
    BY <1>5, <1>8
  <2>3. /\ TagOf(s) # Tdx
        /\ TagOf(s) \in {Folder} <=> s.name = "measure_folder_us"
        /\ TagOf(s) \in InFolder <=> s.name \in {"collect_regular_files_us", "read_and_hash_loop_us"}
        /\ TagOf(s) \in {Ioctl} <=> s.name = "ioctl_get_report_us"
        /\ TagOf(s) \in Commands <=> s.name \in {"tpm2_us", "tpm2_checkquote_us"}
    BY <1>6, <2>2 DEF Tdx, Folder, InFolder, Ioctl, Commands
  <2>4. TdxTime(S) = TdxTime(S) + Due(s, {Tdx}, t)
    BY <1>3, <2>3 DEF Due
  <2> HIDE DEF U2
  <2>5. FolderTime(U2) = FolderTime(U) + Due(s, {Folder}, t) /\ IoctlTime(U2) = IoctlTime(U) + Due(s, {Ioctl}, t)
    BY <2>1, <2>3 DEF Due, FolderTime, IoctlTime, Raised
  <2>6. FileTime(U2) = FileTime(U) + Due(s, InFolder, t)
    <3>1. Due(s, InFolder, t) = IF s.name \in {"collect_regular_files_us", "read_and_hash_loop_us"} THEN us ELSE 0
      BY <2>3 DEF Due
    <3>2. /\ Tim!Get(U2, "collect_regular_files_us") =
                Tim!Get(U, "collect_regular_files_us") + (IF s.name = "collect_regular_files_us" THEN us ELSE 0)
          /\ Tim!Get(U2, "read_and_hash_loop_us") =
                Tim!Get(U, "read_and_hash_loop_us") + (IF s.name = "read_and_hash_loop_us" THEN us ELSE 0)
      BY <2>1 DEF Raised
    <3> HIDE DEF us
    <3> QED
      BY <1>2, <1>4, <3>1, <3>2 DEF FileTime
  <2>7. CommandTime(U2) = CommandTime(U) + Due(s, Commands, t)
    <3>1. Due(s, Commands, t) = IF s.name \in {"tpm2_us", "tpm2_checkquote_us"} THEN us ELSE 0
      BY <2>3 DEF Due
    <3>2. /\ Tim!Get(U2, "tpm2_us") = Tim!Get(U, "tpm2_us") + (IF s.name = "tpm2_us" THEN us ELSE 0)
          /\ Tim!Get(U2, "tpm2_checkquote_us") =
                Tim!Get(U, "tpm2_checkquote_us") + (IF s.name = "tpm2_checkquote_us" THEN us ELSE 0)
      BY <2>1 DEF Raised
    <3> HIDE DEF us
    <3> QED
      BY <1>2, <1>4, <3>1, <3>2 DEF CommandTime
  <2>8. Booked(r, K, s, t, S, U, S, U2)
    BY <1>1, <1>8, <2>1, <2>4, <2>5, <2>6, <2>7 DEF Booked
  <2> QED
    BY <2>8, AccountPop
<1> QED
    BY <1>7, <1>8

\* The first n of a stack.
LEMMA FirstOf ==
    ASSUME NEW S, NEW L, NEW n \in Nat, \A i \in 1..n : L[i] \in S
    PROVE  /\ SubSeq(L, 1, n) \in Seq(S) /\ Len(SubSeq(L, 1, n)) = n
           /\ \A i \in 1..n : SubSeq(L, 1, n)[i] = L[i]
<1>1. SubSeq(L, 1, n) \in Seq(S)
    BY SubSeqProperties
<1>2. Len(SubSeq(L, 1, n)) = n
    BY SubSeqProperties
<1>3. ASSUME NEW i \in 1..n PROVE SubSeq(L, 1, n)[i] = L[i]
    BY SubSeqProperties
<1> QED
    BY <1>1, <1>2, <1>3

\* A stack that is not empty has a topmost.
LEMMA TopOf ==
    ASSUME NEW L \in Seq(Spans), L # <<>>
    PROVE  \E K \in Seq(Spans), s \in Spans :
              /\ L = Append(K, s) /\ K = SubSeq(L, 1, Len(L) - 1) /\ s = L[Len(L)]
              /\ Shape(L) = Append(Shape(K), TagOf(s))
<1> DEFINE n == Len(L) - 1
           K == SubSeq(L, 1, n)
           s == L[Len(L)]
<1>1. Len(L) \in Nat \ {0} /\ \A i \in 1..Len(L) : L[i] \in Spans
    BY EmptySeq, LenProperties
<1>2. n \in Nat /\ \A i \in 1..n : L[i] \in Spans
    BY <1>1
<1>3. K \in Seq(Spans) /\ Len(K) = n /\ \A i \in 1..n : K[i] = L[i]
  <2> HIDE DEF n
  <2> QED
    BY <1>2, FirstOf
<1>4. s \in Spans
    BY <1>1
<1> HIDE DEF K, s
<1>5. /\ Append(K, s) \in Seq(Spans) /\ Len(Append(K, s)) = n + 1
      /\ \A i \in 1..n : Append(K, s)[i] = L[i]
      /\ Append(K, s)[n + 1] = s
    BY <1>3, <1>4, AppendProperties
<1>6. Append(K, s) = L
  <2>1. Len(Append(K, s)) = Len(L)
    BY <1>1, <1>5
  <2>2. \A i \in 1..Len(L) : L[i] = Append(K, s)[i]
    BY <1>1, <1>5 DEF s
  <2> QED
    BY <1>5, <2>1, <2>2, SeqEqual
<1>7. Shape(L) = Append(Shape(K), TagOf(s))
    BY <1>3, <1>4, <1>6, ShapeOf
<1> QED
    BY <1>3, <1>4, <1>6, <1>7 DEF K, s

\* Two equal stacks have the same topmost, on the same stack.
LEMMA SameTop ==
    ASSUME NEW v \in Seq(Tags), NEW w \in Seq(Tags), NEW g \in Tags, NEW h \in Tags,
           Append(v, g) = Append(w, h)
    PROVE  v = w /\ g = h
<1>1. /\ Len(Append(v, g)) = Len(v) + 1 /\ (\A i \in 1..Len(v) : Append(v, g)[i] = v[i])
      /\ Append(v, g)[Len(v) + 1] = g /\ Len(v) \in Nat
    BY AppendProperties, LenProperties
<1>2. /\ Len(Append(w, h)) = Len(w) + 1 /\ (\A i \in 1..Len(w) : Append(w, h)[i] = w[i])
      /\ Append(w, h)[Len(w) + 1] = h /\ Len(w) \in Nat
    BY AppendProperties, LenProperties
<1>3. Len(v) = Len(w) /\ g = h
    BY <1>1, <1>2
<1>4. \A i \in 1..Len(v) : v[i] = w[i]
    BY <1>1, <1>2, <1>3
<1> QED
    BY <1>3, <1>4, SeqEqual

\* Where there is a scratch directory, its removal may be measured.
LEMMA RemovalFits ==
    ASSUME NEW r, NEW w, NEW n, Fits(r, w, n, Scratch)
    PROVE  Fits(r, w, n, Removal)
<1>1. Removal[1] = "stage" /\ Removal # Folder /\ Removal # Ioctl /\ Removal # Tdx
      /\ Removal \notin InFolder /\ Removal \notin Commands /\ Removal[1] # "scratch" /\ Removal # Scratch
    BY DEF Removal, Scratch, Folder, Ioctl, Tdx, InFolder, Commands
<1> QED
    BY <1>1, Zenon DEF Fits

Records == [e2e : Nat, unattributed : Int, checksum_ok : BOOLEAN, written : BOOLEAN]

\* The accounts are kept, and what is ahead closes what is open.
TimeInv ==
    /\ route \in HandledRoutes
    /\ TimeAccount(route, clock, locals, stages, units, staged)
    /\ clock <= MaxTicks
    /\ returning \in BOOLEAN
    /\ returning => program = <<>>
    /\ ~ returning => Ok(route, program, Shape(locals))
    /\ record \in Records
    /\ record.written => record.e2e = clock /\ program = <<>> /\ locals = <<>>

\* At first.
LEMMA TimeInit == Tim!Init => TimeInv
<1> SUFFICES ASSUME Tim!Init PROVE TimeInv
    OBVIOUS
<1> DEFINE s == [kind |-> "stage", name |-> "http_body_read_us", started |-> 0]
           L == <<s>>
<1>1. route \in HandledRoutes
    BY SetsAssumption DEF Tim!Init, HandledRoutes
<1>2. s \in Spans /\ s.started = 0 /\ TagOf(s) = <<"stage", "http_body_read_us">> /\ s.kind = "stage"
    BY DEF Spans, Names, TagOf
<1>3. /\ clock = 0 /\ program = Tim!Program(route) /\ locals = L /\ returning = FALSE
      /\ stages = <<>> /\ units = <<>> /\ staged = 0 /\ record = Tim!Unwritten
    BY DEF Tim!Init
<1> HIDE DEF s
<1>4. L \in Seq(Spans) /\ Len(L) = 1 /\ L[1] = s
    BY <1>2
<1> HIDE DEF L
<1>5. Shape(L) = Arrival
  <2>1. Shape(L) \in Seq(Tags) /\ Len(Shape(L)) = 1 /\ Shape(L)[1] = <<"stage", "http_body_read_us">>
    BY <1>2, <1>4, ShapeOf
  <2>2. Arrival \in Seq(Tags) /\ Len(Arrival) = 1 /\ Arrival[1] = <<"stage", "http_body_read_us">>
    BY DEF Arrival, Tags, Names
  <2>3. Len(Shape(L)) = Len(Arrival) /\ \A i \in 1..Len(Shape(L)) : Shape(L)[i] = Arrival[i]
    BY <2>1, <2>2
  <2> QED
    BY <2>1, <2>2, <2>3, SeqEqual
<1>6. Ok(route, program, Shape(L))
    BY <1>1, <1>3, <1>5, ProgramsRun
<1>7. Legal(route, Shape(L))
    BY <1>6, OkSteps
<1> DEFINE E == <<>>
<1>8. Book(E) /\ Tim!Total(E) = 0 /\ \A n : Tim!Get(E, n) = 0
    BY NothingBooked
<1>9. /\ FolderTime(E) = 0 /\ FileTime(E) = 0 /\ TdxTime(E) = 0 /\ IoctlTime(E) = 0
      /\ CommandTime(E) = 0 /\ Tim!Total(E) - Twice(route, E) = 0
    BY <1>8 DEF FolderTime, FileTime, TdxTime, IoctlTime, CommandTime, Twice
<1>10. \A i \in 1..Len(L) : i = 1 /\ L[i].started = 0 /\ L[i].kind = "stage"
    BY <1>2, <1>4
<1>11. \A i \in 1..Len(L) : TagOf(L[i]) # Folder /\ TagOf(L[i]) # Tdx /\ TagOf(L[i]) \notin Commands
    BY <1>2, <1>4 DEF Folder, Tdx, Commands
<1>12. /\ PairAccount(L, Folder, InFolder, 0, 0, 0) /\ PairAccount(L, Tdx, {Ioctl}, 0, 0, 0)
       /\ UseAccount(L, Commands, 0, 0) /\ StageAccount(L, 0, 0, 0)
    BY <1>4, <1>10, <1>11 DEF PairAccount, UseAccount, StageAccount
<1>13. "tdx_report_us" \notin DOMAIN E
    OBVIOUS
<1> HIDE DEF E
<1>14. TimeAccount(route, 0, L, E, E, 0)
    BY <1>4, <1>7, <1>8, <1>9, <1>10, <1>12, <1>13 DEF TimeAccount
<1>15. record \in Records /\ ~ record.written
    BY <1>3 DEF Records, Tim!Unwritten
<1>16. TimeAccount(route, clock, locals, stages, units, staged)
    BY <1>3, <1>14 DEF E
<1>17. clock <= MaxTicks
    BY <1>3, BoundsAssumption
<1> QED
    BY <1>1, <1>3, <1>6, <1>15, <1>16, <1>17 DEF TimeInv

\* Time passes.
LEMMA TimeTick == TimeInv /\ Tim!Tick => TimeInv'
<1> SUFFICES ASSUME TimeInv, Tim!Tick PROVE TimeInv'
    OBVIOUS
<1>1. TimeAccount(route, clock, locals, stages, units, staged)
    BY DEF TimeInv
<1>2. TimeAccount(route, clock + 1, locals, stages, units, IF HasStage(locals) THEN staged + 1 ELSE staged)
    BY <1>1, AccountTick
<1>3. staged' = IF HasStage(locals) THEN staged + 1 ELSE staged
    BY DEF Tim!Tick, Tim!InStage, HasStage
<1>4. /\ clock' = clock + 1 /\ clock < MaxTicks /\ ~ record.written
      /\ UNCHANGED <<program, locals, returning, stages, units, route, record>>
    BY DEF Tim!Tick, Tim!buckets
<1>5. TimeAccount(route', clock', locals', stages', units', staged')
    BY <1>2, <1>3, <1>4
<1>6. clock' <= MaxTicks
  <2>1. clock \in Nat
    BY <1>1 DEF TimeAccount
  <2> QED
    BY <1>4, <2>1, BoundsAssumption
<1> QED
    BY <1>4, <1>5, <1>6 DEF TimeInv

\* What a step or a return makes of the spans and of the buckets.
LEMMA TimeFinish ==
    ASSUME TimeInv, locals # <<>>, locals[Len(locals)].kind # "scratch", Tim!Finish
    PROVE  /\ TimeAccount(route, clock, locals', stages', units', staged)
           /\ locals' \in Seq(Spans)
           /\ \E g \in Tags : g[1] # "scratch" /\ Shape(locals) = Append(Shape(locals'), g)
<1>1. TimeAccount(route, clock, locals, stages, units, staged) /\ locals \in Seq(Spans)
    BY DEF TimeInv, TimeAccount
<1>2. PICK K \in Seq(Spans), s \in Spans :
         /\ locals = Append(K, s) /\ K = SubSeq(locals, 1, Len(locals) - 1) /\ s = locals[Len(locals)]
         /\ Shape(locals) = Append(Shape(K), TagOf(s))
    BY <1>1, TopOf
<1>3. /\ locals' = K
      /\ s.kind = "stage" => stages' = Tim!Add(stages, s.name, clock - s.started) /\ units' = units
      /\ s.kind # "stage" => units' = Tim!Add(units, s.name, clock - s.started) /\ stages' = stages
    BY <1>2 DEF Tim!Finish, Tim!Innermost, Tim!Outer
<1>4. TimeAccount(route, clock, Append(K, s), stages, units, staged) /\ s.kind # "scratch"
    BY <1>1, <1>2
<1>5. TimeAccount(route, clock, K, stages', units', staged)
  <2>1. /\ s.kind = "stage" => TimeAccount(route, clock, K, Tim!Add(stages, s.name, clock - s.started), units, staged)
        /\ s.kind # "stage" => TimeAccount(route, clock, K, stages, Tim!Add(units, s.name, clock - s.started), staged)
    BY <1>4, AccountFinish
  <2>2. CASE s.kind = "stage"
    BY <1>3, <2>1, <2>2
  <2>3. CASE s.kind # "stage"
    BY <1>3, <2>1, <2>3
  <2> QED
    BY <2>2, <2>3
<1>6. TagOf(s) \in Tags /\ TagOf(s)[1] # "scratch"
    BY <1>4 DEF TagOf, Spans, Tags
<1> QED
    BY <1>2, <1>3, <1>5, <1>6

\* The scratch directory on top is replaced by the measurement of its removal.
LEMMA TimeDrop ==
    ASSUME TimeInv, locals # <<>>, locals[Len(locals)].kind = "scratch", Tim!StartDrop
    PROVE  /\ TimeAccount(route, clock, locals', stages, units, staged)
           /\ \E v \in Seq(Tags) : Shape(locals) = Append(v, Scratch) /\ Shape(locals') = Append(v, Removal)
<1>1. TimeAccount(route, clock, locals, stages, units, staged) /\ locals \in Seq(Spans) /\ clock \in Nat
    BY DEF TimeInv, TimeAccount
<1>2. PICK K \in Seq(Spans), s \in Spans :
         /\ locals = Append(K, s) /\ K = SubSeq(locals, 1, Len(locals) - 1) /\ s = locals[Len(locals)]
         /\ Shape(locals) = Append(Shape(K), TagOf(s))
    BY <1>1, TopOf
<1> DEFINE d == [kind |-> "stage", name |-> "scratch_drop_us", started |-> clock]
           w == Shape(K)
<1>3. locals' = Append(K, d)
    BY <1>2 DEF Tim!StartDrop, Tim!Outer, Tim!DropScratch
<1>4. d \in Spans /\ TagOf(d) = Removal /\ d.started = clock
    BY <1>1 DEF Spans, Names, TagOf, Removal
<1> HIDE DEF d
<1>5. TimeAccount(route, clock, Append(K, s), stages, units, staged) /\ s.kind = "scratch"
    BY <1>1, <1>2
<1>6. TimeAccount(route, clock, K, stages, units, staged)
    BY <1>5, AccountDiscard
<1>7. w \in Seq(Tags) /\ Shape(Append(K, d)) = Append(w, Removal)
    BY <1>4, ShapeOf
<1>8. TagOf(s) \in Tags /\ TagOf(s)[1] = "scratch" /\ Removal \in Tags
    BY <1>5 DEF TagOf, Spans, Tags, Removal, Names
<1>9. Legal(route, Append(w, TagOf(s)))
    BY <1>1, <1>2 DEF TimeAccount
<1> HIDE DEF w
<1>10. Legal(route, w) /\ Fits(route, w, Len(w), TagOf(s))
    BY <1>7, <1>8, <1>9, LegalPush
<1>11. TagOf(s) = Scratch
    BY <1>8, <1>10 DEF Fits
<1>12. Legal(route, Append(w, Removal))
    BY <1>7, <1>8, <1>10, <1>11, RemovalFits, LegalPush
<1>13. TimeAccount(route, clock, Append(K, d), stages, units, staged)
    BY <1>4, <1>6, <1>7, <1>12, AccountPush
<1> QED
    BY <1>2, <1>3, <1>7, <1>11, <1>13 DEF w

\* A span, or a scratch directory, is opened at a point of the program.
LEMMA TimeStart ==
    ASSUME TimeInv, NEW point \in Point, NEW w \in Seq(Tags), Legal(route, w),
           w = Append(Shape(locals), <<point.kind, point.name>>), Tim!Start(point)
    PROVE  TimeAccount(route, clock, locals', stages, units, staged) /\ Shape(locals') = w
<1> DEFINE s == [kind |-> point.kind, name |-> point.name, started |-> clock]
<1>1. TimeAccount(route, clock, locals, stages, units, staged) /\ locals \in Seq(Spans) /\ clock \in Nat
    BY DEF TimeInv, TimeAccount
<1>2. Shape(locals) \in Seq(Tags) /\ point.kind \in {"stage", "unit", "scratch", "none"} /\ point.name \in Names
    BY <1>1, ShapeOf DEF Point
<1>3. point.kind \in {"stage", "unit", "scratch"}
  <2> DEFINE v == Shape(locals)
             g == <<point.kind, point.name>>
  <2>1. g \in {"stage", "unit", "scratch", "none"} \X Names
    BY <1>2
  <2>2. v \in Seq({"stage", "unit", "scratch", "none"} \X Names)
    BY <1>2, SeqMonotonic DEF Tags
  <2> HIDE DEF v, g
  <2>3. Len(Append(v, g)) = Len(v) + 1 /\ Append(v, g)[Len(v) + 1] = g /\ Len(v) \in Nat
    BY <2>1, <2>2, AppendProperties, LenProperties
  <2>4. w = Append(v, g)
    BY DEF v, g
  <2>5. Len(v) + 1 \in 1..Len(w)
    BY <2>3, <2>4
  <2>6. g \in Tags
    BY <2>3, <2>4, <2>5, ElementOfSeq
  <2> QED
    BY <2>6 DEF g, Tags
<1>4. s \in Spans /\ s.started = clock /\ TagOf(s) = <<point.kind, point.name>>
    BY <1>1, <1>2, <1>3 DEF Spans, TagOf
<1>5. locals' = Append(locals, s)
    BY DEF Tim!Start
<1> HIDE DEF s
<1>6. Shape(Append(locals, s)) = w
    BY <1>1, <1>4, ShapeOf
<1>7. TimeAccount(route, clock, Append(locals, s), stages, units, staged)
    BY <1>1, <1>4, <1>6, AccountPush
<1> QED
    BY <1>5, <1>6, <1>7

\* The handler reaches its next measurement point.
LEMMA TimeStep == TimeInv /\ Tim!Step => TimeInv'
<1> SUFFICES ASSUME TimeInv, Tim!Step PROVE TimeInv'
    OBVIOUS
<1>1. /\ ~ returning /\ program # <<>> /\ program' = Tail(program)
      /\ UNCHANGED <<clock, returning, staged, route, record>>
    BY DEF Tim!Step
<1>2. PICK point : point = Head(program)
    OBVIOUS
<1>3. \/ point.op \in {"open", "scratch"} /\ Tim!Start(point) /\ UNCHANGED <<stages, units>>
      \/ point.op = "drop" /\ Tim!StartDrop /\ UNCHANGED <<stages, units>>
      \/ point.op = "end" /\ Tim!Finish
      \/ point.op = "try" /\ UNCHANGED <<locals, stages, units>>
    BY <1>2 DEF Tim!Step, Tim!buckets
<1>4. /\ Ok(route, program, Shape(locals)) /\ locals \in Seq(Spans) /\ ~ record.written
      /\ TimeAccount(route, clock, locals, stages, units, staged)
    BY <1>1 DEF TimeInv, TimeAccount
<1>5. PICK w \in Seq(Tags) : Effect(point, Shape(locals), w) /\ Ok(route, Tail(program), w)
    BY <1>1, <1>2, <1>4, OkSteps
<1>6. point \in Point /\ Legal(route, w) /\ Shape(locals) \in Seq(Tags)
  <2>1. program \in Seq(Point)
    BY <1>4, OkSteps
  <2>2. Head(program) \in Point
    BY <1>1, <2>1, HeadTailProperties
  <2> QED
    BY <1>2, <1>4, <1>5, <2>2, OkSteps, ShapeOf
<1>7. /\ TimeAccount(route, clock, locals', stages', units', staged)
      /\ Shape(locals') = w
  <2>1. CASE point.op \in {"open", "scratch"} /\ Tim!Start(point) /\ UNCHANGED <<stages, units>>
    <3>1. w = Append(Shape(locals), <<point.kind, point.name>>)
      BY <1>5, <2>1 DEF Effect
    <3>2. TimeAccount(route, clock, locals', stages, units, staged) /\ Shape(locals') = w
      BY <1>6, <2>1, <3>1, TimeStart
    <3> QED
      BY <2>1, <3>2
  <2>2. CASE point.op = "drop" /\ Tim!StartDrop /\ UNCHANGED <<stages, units>>
    <3>1. PICK u \in Seq(Tags) : Shape(locals) = Append(u, Scratch) /\ w = Append(u, Removal)
      BY <1>5, <2>2 DEF Effect
    <3>2. Scratch \in Tags /\ Scratch[1] = "scratch"
      BY DEF Scratch, Tags, Names
    <3>3. locals # <<>> /\ locals[Len(locals)].kind = "scratch"
      <4>1. Len(Shape(locals)) = Len(u) + 1 /\ Shape(locals)[Len(u) + 1] = Scratch /\ Len(u) \in Nat
        BY <3>1, <3>2, AppendProperties, LenProperties
      <4>2. Len(locals) = Len(u) + 1 /\ TagOf(locals[Len(locals)]) = Scratch
        BY SMTT(40), <1>4, <4>1, ShapeOf
      <4>3. Len(<<>>) = 0
        OBVIOUS
      <4> QED
        BY <3>2, <4>1, <4>2, <4>3 DEF TagOf
    <3>4. TimeAccount(route, clock, locals', stages, units, staged)
      BY <2>2, <3>3, TimeDrop
    <3>5. PICK v \in Seq(Tags) : Shape(locals) = Append(v, Scratch) /\ Shape(locals') = Append(v, Removal)
      BY <2>2, <3>3, TimeDrop
    <3>6. u = v
      <4>1. Append(u, Scratch) = Append(v, Scratch)
        BY <3>1, <3>5
      <4> QED
        BY ONLY <3>2, <4>1, u \in Seq(Tags), v \in Seq(Tags), SameTop
    <3>7. Shape(locals') = w
      BY ONLY <3>1, <3>5, <3>6
    <3> QED
      BY <2>2, <3>4, <3>7
  <2>3. CASE point.op = "end" /\ Tim!Finish
    <3>1. PICK g \in Tags : g[1] # "scratch" /\ Shape(locals) = Append(w, g)
      BY <1>5, <2>3 DEF Effect
    <3>2. locals # <<>> /\ locals[Len(locals)].kind # "scratch"
      <4>1. Len(Shape(locals)) = Len(w) + 1 /\ Shape(locals)[Len(w) + 1] = g /\ Len(w) \in Nat
        BY <3>1, AppendProperties, LenProperties
      <4>2. Len(locals) = Len(w) + 1 /\ TagOf(locals[Len(locals)]) = g
        BY <1>4, <4>1, ShapeOf
      <4>3. Len(<<>>) = 0
        OBVIOUS
      <4> QED
        BY <3>1, <4>1, <4>2, <4>3 DEF TagOf
    <3>3. TimeAccount(route, clock, locals', stages', units', staged) /\ locals' \in Seq(Spans)
      BY <2>3, <3>2, TimeFinish
    <3>4. PICK h \in Tags : Shape(locals) = Append(Shape(locals'), h)
      BY <2>3, <3>2, TimeFinish
    <3>5. Shape(locals') = w
      <4>1. PICK K \in Seq(Spans) : K = locals'
        BY <3>3
      <4>2. PICK v : v = Shape(locals')
        OBVIOUS
      <4>3. v \in Seq(Tags)
        BY <4>1, <4>2, ShapeOf
      <4> QED
        BY <3>1, <3>4, <4>2, <4>3, SameTop
    <3> QED
      BY <3>3, <3>5
  <2>4. CASE point.op = "try" /\ UNCHANGED <<locals, stages, units>>
    <3>1. w = Shape(locals)
      BY <1>5, <2>4 DEF Effect
    <3> QED
      BY <1>4, <2>4, <3>1
  <2> QED
    BY <1>3, <2>1, <2>2, <2>3, <2>4
<1>8. Ok(route, program', Shape(locals'))
    BY <1>1, <1>5, <1>7
<1> QED
    BY <1>1, <1>4, <1>7, <1>8 DEF TimeInv

\* A `?` returns, and what is in scope is dropped.
LEMMA TimeReturn == TimeInv /\ (Tim!EarlyReturn \/ Tim!Unwind) => TimeInv'
<1> SUFFICES ASSUME TimeInv, Tim!EarlyReturn \/ Tim!Unwind PROVE TimeInv'
    OBVIOUS
<1>1. TimeAccount(route, clock, locals, stages, units, staged)
    BY DEF TimeInv
<1>2. CASE Tim!EarlyReturn
  <2>1. ~ record.written
    BY <1>2 DEF TimeInv, Tim!EarlyReturn
  <2>2. returning' = TRUE /\ program' = <<>>
        /\ UNCHANGED <<clock, locals, stages, units, staged, route, record>>
    BY <1>2 DEF Tim!EarlyReturn, Tim!buckets
  <2> QED
    BY <1>1, <2>1, <2>2 DEF TimeInv
<1>3. CASE Tim!Unwind
  <2>1. /\ returning /\ locals # <<>>
        /\ UNCHANGED <<clock, program, returning, staged, route, record>>
        /\ \/ locals[Len(locals)].kind = "scratch" /\ Tim!StartDrop /\ UNCHANGED <<stages, units>>
           \/ locals[Len(locals)].kind # "scratch" /\ Tim!Finish
    BY <1>3 DEF Tim!Unwind, Tim!Innermost, Tim!buckets
  <2>2. ~ record.written
    BY <2>1 DEF TimeInv
  <2>3. TimeAccount(route, clock, locals', stages', units', staged)
    BY <2>1, TimeDrop, TimeFinish
  <2> QED
    BY <2>1, <2>2, <2>3 DEF TimeInv
<1> QED
    BY <1>2, <1>3

\* The record is written.
LEMMA TimeRecord == TimeInv /\ Tim!record_response => TimeInv'
<1> SUFFICES ASSUME TimeInv, Tim!record_response PROVE TimeInv'
    OBVIOUS
<1>1. TimeAccount(route, clock, locals, stages, units, staged) /\ clock \in Nat
    BY DEF TimeInv, TimeAccount
<1>2. /\ program = <<>> /\ locals = <<>>
      /\ UNCHANGED <<clock, program, locals, returning, stages, units, staged, route>>
    BY DEF Tim!record_response, Tim!buckets
<1>3. record' \in Records /\ record'.e2e = clock
  <2>1. clock - Tim!Total(stages) \in Int
    BY <1>1, BookTypes DEF TimeAccount
  <2>2. Tim!checksum_ok(clock, clock - Tim!Total(stages)) \in BOOLEAN
    BY DEF Tim!checksum_ok
  <2> QED
    BY <1>1, <2>1, <2>2 DEF Tim!record_response, Records
<1> QED
    BY <1>1, <1>2, <1>3 DEF TimeInv

\* The accounts are kept in every state.
THEOREM TimeInvariance == Spec => []TimeInv
<1>1. Init => TimeInv
    BY TimeInit DEF Init
<1>2. TimeInv /\ [Next]_vars => TimeInv'
  <2> SUFFICES ASSUME TimeInv, [Next]_vars PROVE TimeInv'
    OBVIOUS
  <2>1. CASE RecordRequest
    BY <2>1, TimeTick, TimeStep, TimeReturn, TimeRecord DEF RecordRequest, Tim!Next
  <2>2. CASE UNCHANGED recordVars
    BY <2>2 DEF recordVars, TimeInv
  <2>3. RecordRequest \/ UNCHANGED recordVars
    BY DEF Next, ParseGpu, DecodeChallenge, DecodeReport, ReadClock, vars
  <2> QED
    BY <2>1, <2>2, <2>3
<1> QED
    BY <1>1, <1>2, PTL DEF Spec

\* What the accounts say when the record is written.
LEMMA TimeAnswers == TimeInv => Tim!StagesAddUp /\ Tim!PairsNested /\ Tim!TypeOK
<1> SUFFICES ASSUME TimeInv PROVE Tim!StagesAddUp /\ Tim!PairsNested /\ Tim!TypeOK
    OBVIOUS
<1>1. /\ clock \in Nat /\ staged \in Int /\ locals \in Seq(Spans) /\ Book(stages) /\ Book(units)
      /\ \A i \in 1..Len(locals) : locals[i].started <= clock
    BY DEF TimeInv, TimeAccount
<1>2. /\ \A n : Tim!Get(units, n) \in Nat /\ Tim!Get(stages, n) \in Nat
      /\ Tim!Total(stages) \in Nat
    BY <1>1, BookTypes
<1>3. Tim!StagesAddUp
  <2> SUFFICES ASSUME record.written PROVE Tim!Total(stages) = staged + Tim!CountedTwice
    BY DEF Tim!StagesAddUp
  <2>1. StageAccount(locals, Tim!Total(stages) - Twice(route, stages), staged, clock) /\ locals = <<>>
    BY DEF TimeInv, TimeAccount
  <2>2. Tim!Total(stages) - Twice(route, stages) = staged
    BY <2>1 DEF StageAccount
  <2>3. Twice(route, stages) = Tim!CountedTwice /\ Twice(route, stages) \in Nat
    BY <1>2 DEF Twice, Tim!CountedTwice
  <2> QED
    BY <1>1, <1>2, <2>2, <2>3
<1>4. Tim!PairsNested
  <2> SUFFICES ASSUME record.written PROVE Tim!ParentsCover(0) /\ Tim!CommandsWithin(record.e2e, 0)
    BY DEF Tim!PairsNested
  <2>1. locals = <<>> /\ record.e2e = clock
    BY DEF TimeInv
  <2>2. FileTime(units) <= FolderTime(units)
    BY <2>1 DEF TimeInv, TimeAccount, PairAccount
  <2>3. CommandTime(units) <= clock
    BY DEF TimeInv, TimeAccount, UseAccount
  <2>4. "tdx_report_us" \in DOMAIN stages => IoctlTime(units) <= TdxTime(stages)
    BY <2>1 DEF TimeInv, TimeAccount, PairAccount
  <2>5. /\ \A n \in DOMAIN units : units[n] = Tim!Get(units, n)
        /\ \A n \in DOMAIN stages : stages[n] = Tim!Get(stages, n)
    BY DEF Tim!Get
  <2>6. ASSUME Tim!Has(units, {"measure_folder_us", "collect_regular_files_us", "read_and_hash_loop_us"})
        PROVE  units["measure_folder_us"] + 0
                  >= units["collect_regular_files_us"] + units["read_and_hash_loop_us"]
    <3>1. /\ units["measure_folder_us"] = FolderTime(units)
          /\ units["collect_regular_files_us"] + units["read_and_hash_loop_us"] = FileTime(units)
      BY <2>5, <2>6 DEF Tim!Has, FolderTime, FileTime
    <3>2. FolderTime(units) \in Nat /\ FileTime(units) \in Nat
      BY <1>1, TimeTypes
    <3> QED
      BY <2>2, <3>1, <3>2
  <2>7. ASSUME Tim!Has(stages, {"tdx_report_us"}), Tim!Has(units, {"ioctl_get_report_us"})
        PROVE  stages["tdx_report_us"] + 0 >= units["ioctl_get_report_us"]
    <3>1. stages["tdx_report_us"] = TdxTime(stages) /\ units["ioctl_get_report_us"] = IoctlTime(units)
      BY <2>5, <2>7 DEF Tim!Has, TdxTime, IoctlTime
    <3>2. TdxTime(stages) \in Nat /\ IoctlTime(units) \in Nat
      BY <1>1, TimeTypes
    <3> QED
      BY <2>4, <2>7, <3>1, <3>2 DEF Tim!Has
  <2>8. Tim!ParentsCover(0)
    BY <2>6, <2>7 DEF Tim!ParentsCover
  <2>9. Tim!CommandsWithin(record.e2e, 0)
    <3>1. Tim!TpmUnits = CommandTime(units)
      BY DEF Tim!TpmUnits, CommandTime
    <3> QED
      BY <1>1, <2>1, <2>3, <3>1 DEF Tim!CommandsWithin
  <2> QED
    BY <2>8, <2>9
<1>5. Tim!TypeOK
  <2>1. clock \in 0..MaxTicks
    BY <1>1, BoundsAssumption DEF TimeInv
  <2>2. \A i \in 1..Len(locals) : locals[i].started \in 0..clock
    <3>1. \A s \in Spans : s.started \in Nat
      BY DEF Spans
    <3>2. \A i \in 1..Len(locals) : locals[i] \in Spans
      BY <1>1, LenProperties
    <3> QED
      BY <1>1, <3>1, <3>2
  <2>3. (\A n \in DOMAIN stages : stages[n] \in Nat) /\ \A n \in DOMAIN units : units[n] \in Nat
    BY <1>1 DEF Book
  <2>4. /\ record.e2e \in Nat /\ record.unattributed \in Int
        /\ {returning, record.written, record.checksum_ok} \subseteq BOOLEAN
    BY DEF TimeInv, Records
  <2> QED
    BY <2>1, <2>2, <2>3, <2>4 DEF Tim!TypeOK
<1> QED
    BY <1>3, <1>4, <1>5

\* The stages add up to the time that the request spent in them, on every path.
THEOREM StagesSum == Spec => []StagesAddUp
    BY TimeInvariance, TimeAnswers, PTL DEF StagesAddUp

\* The pairs that checksum_ok compares are nested in time.
THEOREM PairsNest == Spec => []PairsNested
    BY TimeInvariance, TimeAnswers, PTL DEF PairsNested

-----------------------------------------------------------------------------
(* The types of all the parts *)

\* One of the parts is called, and it stays that part.
PartInv == part \in Parts

\* The types of every part follow from what is kept of it.
LEMMA PartsTyped ==
    PartInv /\ GpuInv /\ ChallengeInv /\ ReportInv /\ ClockInv /\ TimeInv => TypeOK
<1> SUFFICES ASSUME PartInv, GpuInv, ChallengeInv, ReportInv, ClockInv, TimeInv PROVE TypeOK
    OBVIOUS
<1>1. Gpu!TypeOK
    BY DEF GpuInv, GpuTypes, Gpu!TypeOK
<1>2. Ch!TypeOK
    BY ChallengeAnswers
<1>3. Td!TypeOK
    BY ReportTypes
<1>4. Cal!TypeOK
    BY ClockTypes
<1>5. Tim!TypeOK
    BY TimeAnswers
<1> QED
    BY <1>1, <1>2, <1>3, <1>4, <1>5 DEF PartInv, Parts, TypeOK

\* In every state the variables of the part that is called have their types:
\* the devices and chains of a GPU reply, the bytes of a challenge, the fields
\* of a decoded report, the days and years of the calendar and the times of a
\* timing record.
THEOREM TypesHold == Spec => []TypeOK
<1>1. Init => PartInv
    BY DEF Init, PartInv
<1>2. PartInv /\ [Next]_vars => PartInv'
    BY DEF PartInv, Next, vars, ParseGpu, DecodeChallenge, DecodeReport, ReadClock, RecordRequest
<1> QED
    BY <1>1, <1>2, PartsTyped, GpuInvariance, ChallengeInvariance, ReportInvariance,
       ClockInvariance, TimeInvariance, PTL DEF Spec
=============================================================================
