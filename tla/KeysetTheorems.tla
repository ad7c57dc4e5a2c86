--------------------------- MODULE KeysetTheorems ---------------------------
(***************************************************************************)
(* What Keyset's operators guarantee for every table, cursor and page      *)
(* size: a statement has exactly one result, and what a page made of it    *)
(* says.                                                                   *)
(***************************************************************************)
EXTENDS Keyset, FiniteSetTheorems, TLAPS

\* A sequence over a set is one over any set that includes it.
LEMMA SeqSubset ==
  ASSUME NEW S, NEW T, S \subseteq T, NEW s \in Seq(S)
  PROVE  s \in Seq(T)
<1>1. \A i \in DOMAIN s : s[i] \in T
  OBVIOUS
<1>2. QED
  BY <1>1

\* The result of an ORDER BY ... LIMIT is a sequence of rows of the table, in
\* order, and leaves out only rows beyond a full result (the SQL tail of
\* every collection query).
LEMMA OrderedLimitFacts ==
  ASSUME NEW S, S \subseteq Int, NEW n \in Nat, NEW rows \in OrderedLimit(S, n)
  PROVE  /\ rows \in Seq(S)
         /\ Ascending(rows)
         /\ Len(rows) <= n
         /\ \A x \in S \ Keys(rows) : Len(rows) = n /\ \A y \in Keys(rows) : y < x
BY DEF OrderedLimit, IsOrderedLimit

\* A page of at least one row, read with one row of look-ahead: it is in
\* order, it is never longer than asked for, has_more says exactly that the
\* snapshot holds a row the page does not, the next cursor is the page's
\* last key, and every row of the snapshot up to that cursor - up to the end
\* when there is none - is on the page (NewPage, NextAfterID, FetchSize).
LEMMA PageFacts ==
  ASSUME NEW S, S \subseteq Int, NEW size \in Nat \ {0},
         NEW rows \in OrderedLimit(S, FetchSize(size)),
         NEW page, page = NewPage(rows, size)
  PROVE  /\ page.items \in Seq(S)
         /\ page.hasMore \in BOOLEAN
         /\ Ascending(page.items)
         /\ Len(page.items) <= size
         /\ page.hasMore <=> S \ Keys(page.items) # {}
         /\ page.hasMore =>
              /\ NextAfter(page) \in Keys(page.items)
              /\ \A x \in Keys(page.items) : x <= NextAfter(page)
         /\ ~page.hasMore => NextAfter(page) = None
         /\ \A x \in S : (page.hasMore => x <= NextAfter(page)) => x \in Keys(page.items)
<1>1. /\ rows \in Seq(S)
      /\ Ascending(rows)
      /\ Len(rows) <= size + 1
      /\ \A x \in S \ Keys(rows) :
           Len(rows) = size + 1 /\ \A y \in Keys(rows) : y < x
  <2>1. FetchSize(size) = size + 1 /\ FetchSize(size) \in Nat
    BY DEF FetchSize
  <2>2. QED
    BY <2>1, OrderedLimitFacts
<1>2. /\ Len(rows) \in Nat
      /\ DOMAIN rows = 1..Len(rows)
      /\ \A i \in 1..Len(rows) : rows[i] \in S
      /\ \A i \in 1..Len(rows) : rows[i] \in Int
  <2>1. rows \in Seq(S)
    BY <1>1
  <2>2. /\ Len(rows) \in Nat
        /\ DOMAIN rows = 1..Len(rows)
        /\ \A i \in 1..Len(rows) : rows[i] \in S
    BY <2>1
  <2>3. \A x \in S : x \in Int
    OBVIOUS
  <2>4. QED
    BY <2>2, <2>3
<1>3. \A i, j \in 1..Len(rows) : i < j => rows[i] < rows[j]
  BY <1>1, <1>2 DEF Ascending
<1>4. CASE Len(rows) > size
  <2>1. Len(rows) = size + 1
    <3>1. Len(rows) <= size + 1 /\ Len(rows) \in Nat
      BY <1>1, <1>2
    <3>2. QED
      BY <1>4, <3>1
  <2>2. page = [items |-> SubSeq(rows, 1, size), hasMore |-> TRUE]
    BY <1>4 DEF NewPage
  <2>3. /\ page.items \in Seq(S)
        /\ Len(page.items) = size
        /\ DOMAIN page.items = 1..size
        /\ \A i \in 1..size : page.items[i] = rows[i]
    <3>1. page.items = SubSeq(rows, 1, size)
      BY <2>2
    <3>2. QED
      BY <1>1, <2>1, <3>1
  <2>4. page.hasMore = TRUE
    BY <2>2
  <2>5. NextAfter(page) = rows[size]
    <3>1. page.items # <<>>
      BY <2>3
    <3>2. page.items[Len(page.items)] = rows[size]
      BY <2>3
    <3>3. QED
      BY <2>4, <3>1, <3>2 DEF NextAfter
  <2>6. Ascending(page.items)
    BY <1>3, <2>1, <2>3 DEF Ascending
  <2>7. Keys(page.items) = {rows[i] : i \in 1..size}
    BY <2>3 DEF Keys
  <2>8. rows[size + 1] \in S \ Keys(page.items)
    BY <1>2, <1>3, <2>1, <2>7
  <2>9. /\ rows[size] \in Keys(page.items)
        /\ \A x \in Keys(page.items) : x <= rows[size]
    BY <1>2, <1>3, <2>1, <2>7
  <2>10. ASSUME NEW x \in S, x <= rows[size]
         PROVE  x \in Keys(page.items)
    <3>1. x \in Keys(rows)
      <4>1. rows[size] \in Keys(rows)
        BY <1>2, <2>1 DEF Keys
      <4>2. QED
        BY <1>1, <1>2, <2>1, <2>10, <4>1
    <3>2. PICK i \in 1..(size + 1) : x = rows[i]
      BY <1>2, <2>1, <3>1 DEF Keys
    <3>3. i # size + 1
      BY <1>2, <1>3, <2>1, <2>10, <3>2
    <3>4. QED
      BY <2>7, <3>2, <3>3
  <2>11. Len(page.items) <= size
    BY <2>3
  <2>12. page.hasMore <=> S \ Keys(page.items) # {}
    BY <2>4, <2>8
  <2>13. /\ NextAfter(page) \in Keys(page.items)
         /\ \A x \in Keys(page.items) : x <= NextAfter(page)
    BY <2>5, <2>9
  <2>14. \A x \in S : x <= NextAfter(page) => x \in Keys(page.items)
    BY <2>5, <2>10
  <2>15. QED
    BY <2>3, <2>4, <2>6, <2>11, <2>12, <2>13, <2>14
<1>5. CASE ~(Len(rows) > size)
  <2>1. page = [items |-> rows, hasMore |-> FALSE]
    <3>1. (Len(rows) > size) = FALSE
      BY <1>5
    <3>2. QED
      BY <3>1 DEF NewPage
  <2>2. /\ page.items = rows
        /\ page.hasMore = FALSE
    BY <2>1
  <2>3. Len(rows) <= size
    BY <1>2, <1>5
  <2>4. S \ Keys(rows) = {}
    <3>1. Len(rows) \in Nat
      BY <1>2
    <3>2. Len(rows) # size + 1
      BY <2>3, <3>1
    <3>3. QED
      BY <1>1, <3>2
  <2>5. NextAfter(page) = None
    BY <2>2 DEF NextAfter
  <2>6. QED
    BY <1>1, <2>2, <2>3, <2>4, <2>5
<1>6. QED
  BY <1>4, <1>5

\* Pages concatenate: when the second begins beyond all of the first, the
\* whole is in order and holds the keys of both.
LEMMA ConcatAscending ==
  ASSUME NEW s \in Seq(Int), NEW t \in Seq(Int), Ascending(s), Ascending(t),
         \A x \in Keys(s) : \A y \in Keys(t) : x < y
  PROVE  /\ Ascending(s \o t)
         /\ Keys(s \o t) = Keys(s) \cup Keys(t)
<1>1. /\ s \o t \in Seq(Int)
      /\ Len(s \o t) = Len(s) + Len(t)
      /\ \A i \in 1..Len(s) : (s \o t)[i] = s[i]
      /\ \A i \in 1..Len(t) : (s \o t)[Len(s) + i] = t[i]
  OBVIOUS
<1>2. \A i \in DOMAIN (s \o t) :
        \/ i \in 1..Len(s) /\ (s \o t)[i] = s[i]
        \/ /\ i - Len(s) \in 1..Len(t)
           /\ (s \o t)[i] = t[i - Len(s)]
  OBVIOUS
<1>3. Keys(s \o t) = Keys(s) \cup Keys(t)
  <2>1. Keys(s \o t) \subseteq Keys(s) \cup Keys(t)
    BY <1>2 DEF Keys
  <2>2. ASSUME NEW i \in DOMAIN s PROVE s[i] \in Keys(s \o t)
    <3>1. i \in DOMAIN (s \o t) /\ (s \o t)[i] = s[i]
      BY <1>1
    <3>2. QED
      BY <3>1 DEF Keys
  <2>3. ASSUME NEW i \in DOMAIN t PROVE t[i] \in Keys(s \o t)
    <3>1. Len(s) + i \in DOMAIN (s \o t) /\ (s \o t)[Len(s) + i] = t[i]
      BY <1>1
    <3>2. QED
      BY <3>1 DEF Keys
  <2>4. QED
    BY <2>1, <2>2, <2>3 DEF Keys
<1>4. Ascending(s \o t)
  <2>1. SUFFICES ASSUME NEW i \in DOMAIN (s \o t), NEW j \in DOMAIN (s \o t), i < j
                 PROVE  (s \o t)[i] < (s \o t)[j]
    BY DEF Ascending
  <2>2. CASE j \in 1..Len(s)
    BY <1>1, <2>1, <2>2 DEF Ascending
  <2>3. CASE j \notin 1..Len(s)
    <3>1. j - Len(s) \in 1..Len(t) /\ (s \o t)[j] = t[j - Len(s)]
      BY <1>2, <2>3
    <3>2. CASE i \in 1..Len(s)
      BY <1>1, <3>1, <3>2 DEF Keys
    <3>3. CASE i \notin 1..Len(s)
      <4>1. i - Len(s) \in 1..Len(t) /\ (s \o t)[i] = t[i - Len(s)]
        BY <1>2, <3>3
      <4>2. i - Len(s) < j - Len(s)
        BY <2>1, <3>1, <4>1
      <4>3. QED
        BY <3>1, <4>1, <4>2 DEF Ascending
    <3>4. QED
      BY <3>2, <3>3
  <2>4. QED
    BY <2>2, <2>3
<1>5. QED
  BY <1>3, <1>4

-----------------------------------------------------------------------------
(* The rows before a row, and the first rows.                              *)

\* The rows before x.
Below(S, x) == {y \in S : y < x}

\* A set of natural numbers has a least one.
LEMMA LeastNatural ==
  ASSUME NEW S, S \subseteq Nat, S # {}
  PROVE  \E m \in S : \A y \in S : m <= y
<1>1. \E m \in S : \A y \in S : ~ (<<y, m>> \in OpToRel(<, Nat))
  BY NatLessThanWellFounded, WFMin
<1>2. PICK m \in S : \A y \in S : ~ (<<y, m>> \in OpToRel(<, Nat))
  BY <1>1
<1>3. ASSUME NEW y \in S PROVE m <= y
  <2>1. y \in Nat /\ m \in Nat
    OBVIOUS
  <2>2. ~ (y < m)
    BY <1>2, <2>1 DEF OpToRel
  <2>3. QED
    BY <2>1, <2>2
<1>4. QED
  BY <1>3

\* Rows before a row are finitely many, and more the further it is.
LEMMA BelowFacts ==
  ASSUME NEW S, S \subseteq Int, IsFiniteSet(S), NEW x \in Int
  PROVE  /\ IsFiniteSet(Below(S, x))
         /\ Cardinality(Below(S, x)) \in Nat
         /\ Cardinality(Below(S, x)) <= Cardinality(S)
         /\ \A T \in SUBSET S : Cardinality(Below(T, x)) <= Cardinality(Below(S, x))
         /\ \A y \in S : y < x => Cardinality(Below(S, y)) < Cardinality(Below(S, x))
<1>1. Below(S, x) \in SUBSET S
  BY DEF Below
<1>2. /\ IsFiniteSet(Below(S, x)) /\ Cardinality(Below(S, x)) <= Cardinality(S)
      /\ Cardinality(Below(S, x)) \in Nat
  BY <1>1, FS_Subset, FS_CardinalityType
<1>3. ASSUME NEW T \in SUBSET S
      PROVE  Cardinality(Below(T, x)) <= Cardinality(Below(S, x))
  <2>1. Below(T, x) \in SUBSET Below(S, x)
    BY DEF Below
  <2>2. QED
    BY <1>2, <2>1, FS_Subset
<1>4. ASSUME NEW y \in S, y < x
      PROVE  Cardinality(Below(S, y)) < Cardinality(Below(S, x))
  <2>1. y \in Int
    OBVIOUS
  <2>2. Below(S, y) \in SUBSET Below(S, x) /\ y \in Below(S, x) /\ y \notin Below(S, y)
    <3>1. ASSUME NEW z \in S, z < y PROVE z < x
      BY <1>4, <2>1, <3>1
    <3>2. ~ (y < y)
      BY <2>1
    <3>3. QED
      BY <1>4, <3>1, <3>2 DEF Below
  <2>3. Cardinality(Below(S, y)) <= Cardinality(Below(S, x))
    BY <1>2, <2>2, FS_Subset
  <2>4. Cardinality(Below(S, y)) # Cardinality(Below(S, x))
    BY <1>2, <2>2, FS_Subset
  <2>5. Cardinality(Below(S, y)) \in Nat
    BY <1>2, <2>2, FS_Subset, FS_CardinalityType
  <2>6. QED
    BY <1>2, <2>3, <2>4, <2>5
<1>5. QED
  BY <1>2, <1>3, <1>4

\* The number of rows before a row tells the rows of a set apart.
LEMMA RankInjective ==
  ASSUME NEW S, S \subseteq Int, IsFiniteSet(S), NEW x \in S, NEW y \in S,
         Cardinality(Below(S, x)) = Cardinality(Below(S, y))
  PROVE  x = y
<1>1. x \in Int /\ y \in Int
  OBVIOUS
<1>2. Cardinality(Below(S, x)) \in Nat /\ Cardinality(Below(S, y)) \in Nat
  BY <1>1, BelowFacts
<1>3. x < y => Cardinality(Below(S, x)) < Cardinality(Below(S, y))
  BY <1>1, BelowFacts
<1>4. y < x => Cardinality(Below(S, y)) < Cardinality(Below(S, x))
  BY <1>1, BelowFacts
<1>5. ~ (x < y) /\ ~ (y < x)
  BY <1>2, <1>3, <1>4
<1>6. QED
  BY <1>1, <1>5

\* The first n rows: no more than n, nothing before them left out, and a row
\* left out only beyond n of them (ORDER BY id LIMIT n).
LEMMA FirstFacts ==
  ASSUME NEW S, S \subseteq Int, IsFiniteSet(S), NEW n \in Nat
  PROVE  /\ First(S, n) \subseteq S /\ IsFiniteSet(First(S, n))
         /\ Cardinality(First(S, n)) \in 0..n
         /\ \A x \in S : x \in First(S, n) <=> Cardinality(Below(S, x)) < n
         /\ \A x \in S \ First(S, n) :
              Cardinality(First(S, n)) = n /\ \A y \in First(S, n) : y < x
<1> DEFINE F == First(S, n)
<1>1. F \in SUBSET S
  BY DEF First
<1>2. IsFiniteSet(F) /\ Cardinality(F) \in Nat
  BY <1>1, FS_Subset, FS_CardinalityType
<1>3. \A x \in S : x \in F <=> Cardinality(Below(S, x)) < n
  BY DEF First, Below
<1>4. \A x \in S : x \in Int /\ Cardinality(Below(S, x)) \in Nat
  BY BelowFacts
<1> HIDE DEF F
<1>5. Cardinality(F) <= n
  <2> DEFINE rank == [x \in F |-> Cardinality(Below(S, x))]
  <2>1. \A x \in F : Cardinality(Below(S, x)) \in 0..(n - 1)
    BY <1>1, <1>3, <1>4
  <2>2. rank \in [F -> 0..(n - 1)]
    BY <2>1
  <2>3. \A x, y \in F : rank[x] = rank[y] => x = y
    BY <1>1, RankInjective
  <2>4. rank \in Injection(F, 0..(n - 1))
    BY <2>2, <2>3 DEF Injection, IsInjective
  <2>5. IsFiniteSet(0..(n - 1)) /\ Cardinality(0..(n - 1)) = n
    <3>1. 0 \in Int /\ n - 1 \in Int
      OBVIOUS
    <3>2. /\ IsFiniteSet(0..(n - 1))
          /\ Cardinality(0..(n - 1)) = IF 0 > n - 1 THEN 0 ELSE (n - 1) - 0 + 1
      BY <3>1, FS_Interval
    <3>3. QED
      BY <3>2
  <2> HIDE DEF rank
  <2>6. Cardinality(F) <= Cardinality(0..(n - 1))
    BY <2>4, <2>5, FS_Injection
  <2>7. QED
    BY <2>5, <2>6
<1>6. ASSUME NEW x \in S \ F, NEW y \in F
      PROVE  y < x
  <2>1. /\ x \in Int /\ y \in Int /\ x # y
        /\ Cardinality(Below(S, x)) >= n /\ Cardinality(Below(S, y)) < n
    BY <1>1, <1>3, <1>4, <1>6
  <2>2. x < y => Cardinality(Below(S, x)) < Cardinality(Below(S, y))
    BY <1>1, <2>1, BelowFacts
  <2>3. Cardinality(Below(S, x)) \in Nat /\ Cardinality(Below(S, y)) \in Nat
    BY <1>1, <1>4
  <2>4. QED
    BY <2>1, <2>2, <2>3
<1>7. ASSUME NEW x \in S \ F
      PROVE  Cardinality(F) = n
  <2> DEFINE ranks == {Cardinality(Below(S, y)) : y \in S \ F}
  <2>1. PICK m \in ranks : \A k \in ranks : m <= k
    <3>1. ranks \subseteq Nat /\ ranks # {}
      BY <1>4, <1>7
    <3>2. QED
      BY <3>1, LeastNatural
  <2>2. PICK z \in S \ F : \A y \in S \ F : Cardinality(Below(S, z)) <= Cardinality(Below(S, y))
    BY <2>1
  <2>3. Below(S, z) \in SUBSET F
    <3>1. ASSUME NEW y \in S, y < z PROVE y \in F
      <4>1. Cardinality(Below(S, y)) < Cardinality(Below(S, z))
        BY <1>4, <3>1, BelowFacts
      <4>2. QED
        BY <1>4, <2>2, <4>1
    <3>2. QED
      BY <3>1 DEF Below
  <2>4. Cardinality(Below(S, z)) <= Cardinality(F)
    BY <1>2, <2>3, FS_Subset
  <2>5. Cardinality(Below(S, z)) >= n
    BY <1>3, <1>4
  <2>6. QED
    BY <1>2, <1>4, <1>5, <2>4, <2>5
<1>8. QED
  BY <1>1, <1>2, <1>3, <1>5, <1>6, <1>7 DEF F

-----------------------------------------------------------------------------
(* A statement's result: there is one, and only one.                       *)

\* The first m rows of an ascending sequence are m different ones.
LEMMA AscendingCounted ==
  ASSUME NEW rows \in Seq(Int), Ascending(rows), NEW m \in 0..Len(rows)
  PROVE  LET K == {rows[j] : j \in 1..m}
         IN  IsFiniteSet(K) /\ Cardinality(K) = m
<1> DEFINE K == {rows[j] : j \in 1..m}
           f == [j \in 1..m |-> rows[j]]
<1>1. \A j \in 1..m : j \in DOMAIN rows /\ rows[j] \in Int /\ j \in Int
  OBVIOUS
<1>2. ASSUME NEW j \in 1..m, NEW k \in 1..m, rows[j] = rows[k] PROVE j = k
  <2>1. ~ (j < k) /\ ~ (k < j)
    BY <1>1, <1>2 DEF Ascending
  <2>2. QED
    BY <1>1, <2>1
<1>3. f \in Bijection(1..m, K)
  <2>1. f \in [1..m -> K]
    OBVIOUS
  <2>2. \A j \in 1..m : f[j] = rows[j]
    OBVIOUS
  <2>3. \A y \in K : \E j \in 1..m : f[j] = y
    BY <2>2
  <2>4. \A j, k \in 1..m : f[j] = f[k] => j = k
    BY <1>2, <2>2
  <2> HIDE DEF f, K
  <2>5. DOMAIN f = 1..m
    BY <2>1
  <2>6. f \in Injection(1..m, K)
    BY <2>1, <2>4, <2>5 DEF Injection, IsInjective
  <2>7. f \in Surjection(1..m, K)
    BY <2>1, <2>3 DEF Surjection
  <2>8. QED
    BY <2>6, <2>7 DEF Bijection
<1>4. m \in Nat /\ ExistsBijection(1..m, K)
  <2>1. Len(rows) \in Nat
    OBVIOUS
  <2> HIDE DEF K, f
  <2>2. m \in Nat
    BY <2>1
  <2>3. Bijection(1..m, K) # {}
    BY <1>3
  <2>4. QED
    BY <2>2, <2>3 DEF ExistsBijection
<1>5. IsFiniteSet(K) /\ Cardinality(K) = m
  BY <1>4, FS_NatBijection, FS_CountingElements
<1>6. QED
  BY <1>5

\* A row of an ascending sequence has the rows before it before it.
LEMMA AscendingRank ==
  ASSUME NEW rows \in Seq(Int), Ascending(rows)
  PROVE  /\ Keys(rows) \subseteq Int /\ IsFiniteSet(Keys(rows))
         /\ Cardinality(Keys(rows)) = Len(rows)
         /\ \A i \in 1..Len(rows) : Cardinality(Below(Keys(rows), rows[i])) = i - 1
<1>1. Len(rows) \in 0..Len(rows) /\ Keys(rows) = {rows[j] : j \in 1..Len(rows)}
  BY DEF Keys
<1>2. IsFiniteSet(Keys(rows)) /\ Cardinality(Keys(rows)) = Len(rows)
  BY <1>1, AscendingCounted
<1>3. ASSUME NEW i \in 1..Len(rows)
      PROVE  Cardinality(Below(Keys(rows), rows[i])) = i - 1
  <2>1. ASSUME NEW j \in 1..Len(rows)
        PROVE  rows[j] < rows[i] <=> j \in 1..(i - 1)
    <3>1. /\ i \in DOMAIN rows /\ j \in DOMAIN rows /\ i \in Int /\ j \in Int /\ 1 <= j
          /\ rows[i] \in Int /\ rows[j] \in Int
      OBVIOUS
    <3>2. /\ j < i => rows[j] < rows[i]
          /\ i < j => rows[i] < rows[j]
      BY <3>1 DEF Ascending
    <3>3. CASE j < i
      BY <3>1, <3>2, <3>3
    <3>4. CASE i < j
      BY <3>1, <3>2, <3>4
    <3>5. CASE i = j
      BY <3>1, <3>5
    <3>6. QED
      BY <3>1, <3>3, <3>4, <3>5
  <2>2. Below(Keys(rows), rows[i]) = {rows[j] : j \in 1..(i - 1)}
    <3>1. \A j \in 1..(i - 1) : j \in 1..Len(rows)
      OBVIOUS
    <3>2. QED
      BY <1>1, <2>1, <3>1 DEF Below
  <2>3. i - 1 \in 0..Len(rows)
    OBVIOUS
  <2>4. QED
    BY <2>2, <2>3, AscendingCounted
<1>4. Keys(rows) \subseteq Int
  BY <1>1
<1>5. QED
  BY <1>2, <1>3, <1>4

\* The rows a statement returns are the first of the table (ORDER BY, LIMIT).
LEMMA LimitedAreFirst ==
  ASSUME NEW S, S \subseteq Int, IsFiniteSet(S), NEW n \in Nat, NEW rows \in OrderedLimit(S, n)
  PROVE  Keys(rows) = First(S, n) /\ Cardinality(First(S, n)) = Len(rows)
<1> DEFINE K == Keys(rows)
<1>1. /\ rows \in Seq(S) /\ Ascending(rows) /\ Len(rows) <= n
      /\ \A x \in S \ K : Len(rows) = n /\ \A y \in K : y < x
  BY OrderedLimitFacts
<1>2. rows \in Seq(Int) /\ K \in SUBSET S
  <2>1. rows \in Seq(Int)
    BY <1>1, SeqSubset
  <2>2. \A i \in DOMAIN rows : rows[i] \in S
    BY <1>1
  <2>3. QED
    BY <2>1, <2>2 DEF Keys
<1>3. /\ IsFiniteSet(K) /\ Cardinality(K) = Len(rows) /\ Len(rows) \in Nat
      /\ \A i \in 1..Len(rows) : Cardinality(Below(K, rows[i])) = i - 1
  BY <1>1, <1>2, AscendingRank
<1>4. ASSUME NEW x \in K PROVE Cardinality(Below(S, x)) < n
  <2>1. PICK i \in 1..Len(rows) : x = rows[i]
    BY <1>2 DEF Keys
  <2>2. Below(S, x) = Below(K, x)
    <3>1. ASSUME NEW y \in S, y < x PROVE y \in K
      <4>1. x \in S
        BY <1>2
      <4>2. x \in Int /\ y \in Int
        BY <4>1
      <4>3. ~ (x < y)
        BY <3>1, <4>2
      <4>4. y \in S \ K => x < y
        BY <1>1
      <4>5. QED
        BY <3>1, <4>3, <4>4
    <3>2. QED
      BY <1>2, <3>1 DEF Below
  <2>3. QED
    BY <1>1, <1>3, <2>1, <2>2
<1>5. ASSUME NEW x \in S \ K PROVE ~ (Cardinality(Below(S, x)) < n)
  <2>1. K \in SUBSET Below(S, x)
    BY <1>1, <1>2 DEF Below
  <2>2. IsFiniteSet(Below(S, x)) /\ Cardinality(Below(S, x)) \in Nat
    BY BelowFacts
  <2>3. Cardinality(K) <= Cardinality(Below(S, x))
    BY <2>1, <2>2, FS_Subset
  <2>4. QED
    BY <1>1, <1>3, <2>2, <2>3
<1>6. K = First(S, n)
  <2>1. First(S, n) = {x \in S : Cardinality(Below(S, x)) < n}
    BY DEF First, Below
  <2>2. QED
    BY <1>2, <1>4, <1>5, <2>1
<1>7. QED
  BY <1>3, <1>6

\* Two results of one statement are the same.
LEMMA LimitedUnique ==
  ASSUME NEW S, S \subseteq Int, IsFiniteSet(S), NEW n \in Nat,
         NEW rows \in OrderedLimit(S, n), NEW others \in OrderedLimit(S, n)
  PROVE  rows = others
<1>1. /\ rows \in Seq(Int) /\ Ascending(rows)
      /\ others \in Seq(Int) /\ Ascending(others)
  <2>1. rows \in Seq(S) /\ Ascending(rows)
    BY OrderedLimitFacts
  <2>2. others \in Seq(S) /\ Ascending(others)
    BY OrderedLimitFacts
  <2>3. rows \in Seq(Int) /\ others \in Seq(Int)
    BY <2>1, <2>2, SeqSubset
  <2>4. QED
    BY <2>1, <2>2, <2>3
<1>2. Keys(rows) = Keys(others) /\ Len(rows) = Len(others) /\ Len(rows) \in Nat
  <2>1. Keys(rows) = First(S, n) /\ Cardinality(First(S, n)) = Len(rows)
    BY LimitedAreFirst
  <2>2. Keys(others) = First(S, n) /\ Cardinality(First(S, n)) = Len(others)
    BY LimitedAreFirst
  <2>3. QED
    BY <1>1, <2>1, <2>2
<1> DEFINE K == Keys(rows)
<1>3. /\ K \subseteq Int /\ IsFiniteSet(K)
      /\ \A i \in 1..Len(rows) : Cardinality(Below(K, rows[i])) = i - 1
      /\ \A i \in 1..Len(rows) : Cardinality(Below(K, others[i])) = i - 1
  <2>1. /\ K \subseteq Int /\ IsFiniteSet(K)
        /\ \A i \in 1..Len(rows) : Cardinality(Below(K, rows[i])) = i - 1
    BY <1>1, AscendingRank
  <2>2. \A i \in 1..Len(others) : Cardinality(Below(Keys(others), others[i])) = i - 1
    BY <1>1, AscendingRank
  <2>3. QED
    BY <1>2, <2>1, <2>2
<1>4. \A i \in 1..Len(rows) : rows[i] \in K /\ others[i] \in K
  <2>1. DOMAIN rows = 1..Len(rows) /\ DOMAIN others = 1..Len(others)
    BY <1>1
  <2>2. \A i \in 1..Len(rows) : rows[i] \in Keys(rows)
    BY <2>1 DEF Keys
  <2>3. \A i \in 1..Len(others) : others[i] \in Keys(others)
    BY <2>1 DEF Keys
  <2>4. QED
    BY <1>2, <2>2, <2>3
<1> HIDE DEF K
<1>5. ASSUME NEW i \in 1..Len(rows) PROVE rows[i] = others[i]
  <2>1. /\ rows[i] \in K /\ others[i] \in K
        /\ Cardinality(Below(K, rows[i])) = Cardinality(Below(K, others[i]))
    BY <1>3, <1>4
  <2>2. K \subseteq Int /\ IsFiniteSet(K)
    BY <1>3
  <2>3. QED
    BY <2>1, <2>2, RankInjective
<1>6. QED
  BY <1>1, <1>2, <1>5

\* A statement has a result: the first rows, by the number of rows before them.
LEMMA LimitedExists ==
  ASSUME NEW S, S \subseteq Int, IsFiniteSet(S), NEW n \in Nat
  PROVE  OrderedLimit(S, n) # {}
<1> DEFINE F == First(S, n)
           m == Cardinality(F)
           rank == [x \in F |-> Cardinality(Below(F, x)) + 1]
<1>1. /\ F \subseteq S /\ F \subseteq Int /\ IsFiniteSet(F) /\ m \in 0..n
      /\ \A x \in S \ F : m = n /\ \A y \in F : y < x
  BY FirstFacts
<1> HIDE DEF F
<1>2. \A x \in F : Cardinality(Below(F, x)) \in Nat /\ Cardinality(Below(F, x)) < m
  <2> SUFFICES ASSUME NEW x \in F
               PROVE  Cardinality(Below(F, x)) \in Nat /\ Cardinality(Below(F, x)) < m
    OBVIOUS
  <2>1. Below(F, x) \in SUBSET F /\ x \notin Below(F, x) /\ x \in Int
    <3>1. x \in Int /\ ~ (x < x)
      BY <1>1
    <3>2. QED
      BY <3>1 DEF Below
  <2>2. Cardinality(Below(F, x)) \in Nat /\ Cardinality(Below(F, x)) <= m
    BY <1>1, <2>1, BelowFacts
  <2>3. Cardinality(Below(F, x)) # m
    BY <1>1, <2>1, FS_Subset
  <2>4. QED
    BY <1>1, <2>2, <2>3
<1>3. rank \in Injection(F, 1..m)
  <2>1. \A x \in F : Cardinality(Below(F, x)) + 1 \in 1..m
    BY <1>1, <1>2
  <2>2. rank \in [F -> 1..m]
    BY <2>1
  <2>3. ASSUME NEW x \in F, NEW y \in F, rank[x] = rank[y] PROVE x = y
    <3>1. Cardinality(Below(F, x)) = Cardinality(Below(F, y))
      BY <1>2, <2>3
    <3>2. QED
      BY <1>1, <3>1, RankInjective
  <2>4. QED
    BY <2>2, <2>3 DEF Injection, IsInjective
<1>4. IsFiniteSet(1..m) /\ Cardinality(1..m) = m /\ m \in Nat
  <2>1. 1 \in Int /\ m \in Int /\ m \in Nat
    BY <1>1
  <2>2. IsFiniteSet(1..m) /\ Cardinality(1..m) = IF 1 > m THEN 0 ELSE m - 1 + 1
    BY <2>1, FS_Interval
  <2>3. QED
    BY <2>1, <2>2
<1>5. rank \in Surjection(F, 1..m)
  BY <1>3, <1>4, FS_Injection
<1> DEFINE rows == [i \in 1..m |-> CHOOSE x \in F : rank[x] = i]
<1>6. \A i \in 1..m : \E x \in F : rank[x] = i
  BY <1>5 DEF Surjection
<1>7. \A i \in 1..m : rows[i] \in F /\ rank[rows[i]] = i
  BY <1>6
<1>8. \A x \in F : rank[x] \in 1..m /\ rows[rank[x]] = x
  <2>1. \A x, y \in F : rank[x] = rank[y] => x = y
    BY <1>3 DEF Injection, IsInjective
  <2>2. \A x \in F : rank[x] \in 1..m
    BY <1>3 DEF Injection
  <2>3. ASSUME NEW x \in F PROVE rows[rank[x]] = x
    <3>1. rank[x] \in 1..m
      BY <2>2
    <3>2. rows[rank[x]] \in F /\ rank[rows[rank[x]]] = rank[x]
      BY <1>7, <3>1
    <3>3. QED
      BY <2>1, <3>2
  <2>4. QED
    BY <2>2, <2>3
<1>9. rows \in [1..m -> S] /\ Len(rows) = m /\ DOMAIN rows = 1..m
  <2>1. \A i \in 1..m : rows[i] \in S
    BY <1>1, <1>7
  <2>2. DOMAIN rows = 1..m /\ rows = [i \in 1..m |-> rows[i]]
    OBVIOUS
  <2> HIDE DEF rows
  <2>3. rows \in [1..m -> S]
    BY <2>1, <2>2
  <2>4. Len(rows) = m
    BY <1>4, <2>2, <2>3
  <2>5. QED
    BY <2>2, <2>3, <2>4
<1>10. \A x \in F : rank[x] = Cardinality(Below(F, x)) + 1
  OBVIOUS
<1> HIDE DEF rank, rows
<1>11. Keys(rows) = F
  BY <1>7, <1>8, <1>9 DEF Keys
<1>12. ASSUME NEW i \in 1..m, NEW j \in 1..m, i < j PROVE rows[i] < rows[j]
  <2>1. /\ rows[i] \in Int /\ rows[j] \in Int /\ rows[i] \in F /\ rows[j] \in F
        /\ i \in Int /\ j \in Int
    <3>1. rows[i] \in F /\ rows[j] \in F
      BY <1>7
    <3>2. \A x \in F : x \in Int
      BY <1>1
    <3>3. i \in Int /\ j \in Int
      OBVIOUS
    <3>4. QED
      BY <3>1, <3>2, <3>3
  <2>2. /\ Cardinality(Below(F, rows[i])) \in Nat /\ Cardinality(Below(F, rows[i])) + 1 = i
        /\ Cardinality(Below(F, rows[j])) \in Nat /\ Cardinality(Below(F, rows[j])) + 1 = j
    BY <1>2, <1>7, <1>10
  <2>3. rows[i] # rows[j]
    BY <1>12, <2>1, <2>2
  <2>4. rows[j] < rows[i] => Cardinality(Below(F, rows[j])) < Cardinality(Below(F, rows[i]))
    BY <1>1, <2>1, BelowFacts
  <2>5. ~ (rows[j] < rows[i])
    BY <1>12, <2>1, <2>2, <2>4
  <2>6. QED
    BY <2>1, <2>3, <2>5
<1>13. IsOrderedLimit(S, n, rows)
  <2>1. Ascending(rows)
    <3>1. \A i, j \in 1..m : i < j => rows[i] < rows[j]
      BY <1>12
    <3>2. QED
      BY <1>9, <3>1 DEF Ascending
  <2>2. Len(rows) <= n
    BY <1>1, <1>9
  <2>3. \A x \in S \ Keys(rows) : Len(rows) = n /\ \A y \in Keys(rows) : y < x
    BY <1>1, <1>9, <1>11
  <2>4. QED
    BY <2>1, <2>2, <2>3 DEF IsOrderedLimit
<1>14. rows \in OrderedLimit(S, n)
  BY <1>1, <1>9, <1>13 DEF OrderedLimit
<1>15. QED
  BY <1>14

\* A statement that orders by a unique key and limits has exactly one result
\* (ORDER BY, LIMIT): what follows from it does not depend on PostgreSQL's plan.
THEOREM StatementDetermined ==
  ASSUME NEW S, S \subseteq Int, IsFiniteSet(S), NEW n \in Nat
  PROVE  \E rows \in Seq(S) : OrderedLimit(S, n) = {rows} /\ Keys(rows) = First(S, n)
<1>1. PICK rows : rows \in OrderedLimit(S, n)
  BY LimitedExists
<1>2. \A others \in OrderedLimit(S, n) : others = rows
  BY <1>1, LimitedUnique
<1>3. rows \in Seq(S) /\ Keys(rows) = First(S, n)
  BY <1>1, OrderedLimitFacts, LimitedAreFirst
<1>4. QED
  BY <1>1, <1>2, <1>3

\* An ascending sequence of all the rows of a table is what the statement
\* returns that has no need to page.
LEMMA WholeTable ==
  ASSUME NEW rows \in Seq(Int), Ascending(rows), NEW S, S = Keys(rows)
  PROVE  IsFiniteSet(S) /\ OrderedLimit(S, Cardinality(S)) = {rows}
<1>1. S \subseteq Int /\ IsFiniteSet(S) /\ Cardinality(S) = Len(rows) /\ Len(rows) \in Nat
  BY AscendingRank
<1>2. rows \in [1..Len(rows) -> S]
  <2>1. DOMAIN rows = 1..Len(rows)
    OBVIOUS
  <2>2. \A i \in 1..Len(rows) : rows[i] \in S
    BY <2>1 DEF Keys
  <2>3. rows = [i \in 1..Len(rows) |-> rows[i]]
    OBVIOUS
  <2>4. QED
    BY <2>2, <2>3
<1>3. IsOrderedLimit(S, Len(rows), rows)
  BY <1>1 DEF IsOrderedLimit
<1>4. Len(rows) \in 0..Len(rows)
  BY <1>1
<1>5. rows \in OrderedLimit(S, Cardinality(S))
  BY <1>1, <1>2, <1>3, <1>4 DEF OrderedLimit
<1>6. \A others \in OrderedLimit(S, Cardinality(S)) : others = rows
  BY <1>1, <1>5, LimitedUnique
<1>7. QED
  BY <1>1, <1>5, <1>6

=============================================================================
