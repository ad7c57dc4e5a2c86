------------------------ MODULE RelatedReleasesProofs -----------------------
(***************************************************************************)
(* The statements of RelatedReleases are the keyset selection for every    *)
(* snapshot, cursor and limit: limiting the branches of a union, a join or *)
(* a relation with several rows per release loses nothing, because the     *)
(* first rows of a whole are among the first rows of its parts.            *)
(***************************************************************************)
EXTENDS RelatedReleases, KeysetTheorems

-----------------------------------------------------------------------------
(* The first rows of a union.                                              *)

\* The first n rows of a table in a larger one: a row of it that the larger
\* one selects is selected here too.
LEMMA FirstOfPart ==
  ASSUME NEW T, T \subseteq Int, IsFiniteSet(T), NEW S \in SUBSET T, NEW n \in Nat
  PROVE  First(T, n) \cap S \subseteq First(S, n)
<1> SUFFICES ASSUME NEW x \in First(T, n), x \in S
             PROVE  x \in First(S, n)
  OBVIOUS
<1>1. IsFiniteSet(S) /\ S \subseteq Int /\ x \in Int
  BY FS_Subset
<1>2. Cardinality(Below(T, x)) < n
  BY FirstFacts
<1>3. /\ Cardinality(Below(T, x)) \in Nat /\ Cardinality(Below(S, x)) \in Nat
      /\ Cardinality(Below(S, x)) <= Cardinality(Below(T, x))
  BY <1>1, BelowFacts
<1>4. Cardinality(Below(S, x)) < n
  BY <1>2, <1>3
<1>5. QED
  BY <1>1, <1>4, FirstFacts

\* A part that holds the first n rows of the whole has the same first n rows.
LEMMA FirstOfFirst ==
  ASSUME NEW T, T \subseteq Int, IsFiniteSet(T), NEW n \in Nat,
         NEW S \in SUBSET T, First(T, n) \subseteq S
  PROVE  First(S, n) = First(T, n)
<1>1. IsFiniteSet(S) /\ S \subseteq Int
  BY FS_Subset
<1>2. First(T, n) \subseteq First(S, n)
  BY FirstOfPart
<1>3. ASSUME NEW x \in First(S, n), x \notin First(T, n)
      PROVE  FALSE
  <2>1. x \in S /\ x \in T /\ x \in Int /\ Cardinality(Below(S, x)) < n
    BY <1>1, FirstFacts
  <2>2. Cardinality(First(T, n)) = n /\ \A y \in First(T, n) : y < x
    BY <1>3, <2>1, FirstFacts
  <2>3. First(T, n) \in SUBSET Below(S, x)
    BY <2>2 DEF Below
  <2>4. /\ IsFiniteSet(Below(S, x)) /\ Cardinality(Below(S, x)) \in Nat
    BY <1>1, <2>1, BelowFacts
  <2>5. n <= Cardinality(Below(S, x))
    BY <2>2, <2>3, <2>4, FS_Subset
  <2>6. QED
    BY <2>1, <2>4, <2>5
<1>4. QED
  BY <1>2, <1>3

\* The first n rows of a union are the first n of its branches' first n rows
\* (the UNION of two statements that each have the page's LIMIT).
LEMMA FirstOfUnion ==
  ASSUME NEW S, S \subseteq Int, IsFiniteSet(S),
         NEW T, T \subseteq Int, IsFiniteSet(T), NEW n \in Nat
  PROVE  First(First(S, n) \cup First(T, n), n) = First(S \cup T, n)
<1>1. S \cup T \subseteq Int /\ IsFiniteSet(S \cup T)
  BY FS_Union
<1>2. First(S, n) \subseteq S /\ First(T, n) \subseteq T /\ First(S \cup T, n) \subseteq S \cup T
  BY <1>1, FirstFacts
<1>3. First(S \cup T, n) \cap S \subseteq First(S, n)
  BY <1>1, FirstOfPart
<1>4. First(S \cup T, n) \cap T \subseteq First(T, n)
  BY <1>1, FirstOfPart
<1>5. First(S, n) \cup First(T, n) \in SUBSET (S \cup T)
  BY <1>2
<1>6. First(S \cup T, n) \subseteq First(S, n) \cup First(T, n)
  BY <1>2, <1>3, <1>4
<1>7. QED
  BY <1>1, <1>5, <1>6, FirstOfFirst

-----------------------------------------------------------------------------
(* What the clauses select.                                                *)

\* There are finitely many releases.
LEMMA ReleaseIDsFinite == IsFiniteSet(ReleaseIDs) /\ ReleaseIDs \subseteq Int
<1>1. MaximumReleaseID \in Int /\ 1 \in Int
  BY RelatedAssumption
<1>2. QED
  BY <1>1, FS_Interval DEF ReleaseIDs

\* The rows a statement selects from, as identifiers.
LEMMA BeyondFinite ==
  ASSUME collection \in Collections, direct \subseteq ReleaseIDs, linked \subseteq Links,
         NEW after
  PROVE  Beyond(Related, after) \subseteq Int /\ IsFiniteSet(Beyond(Related, after))
<1>1. ReleasesOf(linked) \subseteq ReleaseIDs
  BY DEF ReleasesOf, Links
<1>2. ReleasesOf({row \in linked : row.value = Wanted}) \subseteq ReleaseIDs
  BY DEF ReleasesOf, Links
<1>3. Related \subseteq ReleaseIDs
  BY <1>1, <1>2 DEF Related, Collections
<1>4. Beyond(Related, after) \in SUBSET ReleaseIDs
  BY <1>3 DEF Beyond
<1>5. QED
  BY <1>4, ReleaseIDsFinite, FS_Subset

\* Cursor and WHERE select releases, not rows of the relation.
LEMMA BeyondReleases ==
  ASSUME NEW after
  PROVE  ReleasesOf(LinksBeyond(after)) = Beyond(ReleasesOf(linked), after)
BY DEF ReleasesOf, LinksBeyond, Beyond

\* A LEFT JOIN keeps every release of its left side and adds none
\* (MasterReleases joins the artists of a release).
LEMMA LeftJoinKeepsReleases ==
  ASSUME NEW S
  PROVE  ReleasesOf(LeftJoin(S)) = S
<1>1. \A row \in LeftJoin(S) : row.release \in S
  BY DEF LeftJoin
<1>2. ASSUME NEW id \in S PROVE \E row \in LeftJoin(S) : row.release = id
  <2>1. CASE id \in ReleasesOf(linked)
    BY <1>2, <2>1 DEF ReleasesOf, LeftJoin
  <2>2. CASE id \notin ReleasesOf(linked)
    <3>1. [release |-> id, value |-> None] \in LeftJoin(S)
      BY <1>2, <2>2 DEF LeftJoin
    <3>2. QED
      BY <3>1
  <2>3. QED
    BY <2>1, <2>2
<1>3. QED
  BY <1>1, <1>2 DEF ReleasesOf

\* Where every release has one row at most, LIMIT counts releases
\* (ReleasesByCatalogNumber: a catalog number names a release once).
LEMMA OneRowEach ==
  ASSUME NEW rows, NEW n,
         \A r \in rows : r \in Links /\ r.value = Wanted
  PROVE  FirstOfRows(rows, n) = First(ReleasesOf(rows), n)
<1> DEFINE before(id) == {x \in rows : x.release < id}
           ids(id) == {y \in ReleasesOf(rows) : y < id}
<1>1. \A r \in rows : r = [release |-> r.release, value |-> Wanted]
  BY DEF Links
<1>2. ASSUME NEW id PROVE Cardinality(before(id)) = Cardinality(ids(id))
  <2> DEFINE row == [y \in ids(id) |-> [release |-> y, value |-> Wanted]]
  <2>1. \A y \in ids(id) : [release |-> y, value |-> Wanted] \in before(id)
    BY <1>1 DEF ReleasesOf
  <2>2. \A r \in before(id) : r.release \in ids(id) /\ row[r.release] = r
    BY <1>1 DEF ReleasesOf
  <2>3. row \in [ids(id) -> before(id)]
    BY <2>1
  <2>4. \A y, z \in ids(id) : row[y] = row[z] => y = z
    <3>1. \A y \in ids(id) : row[y].release = y
      OBVIOUS
    <3>2. QED
      BY <3>1
  <2>5. IsFiniteSet(ids(id))
    <3>1. ids(id) \in SUBSET ReleaseIDs
      BY DEF ReleasesOf, Links
    <3>2. IsFiniteSet(ReleaseIDs)
      BY ReleaseIDsFinite
    <3>3. QED
      BY <3>1, <3>2, FS_Subset
  <2> HIDE DEF row, ids, before
  <2>6. row \in Injection(ids(id), before(id))
    BY <2>3, <2>4 DEF Injection, IsInjective
  <2>7. row \in Surjection(ids(id), before(id))
    BY <2>2, <2>3 DEF Surjection
  <2>8. ExistsBijection(ids(id), before(id))
    BY <2>6, <2>7 DEF ExistsBijection, Bijection
  <2>9. QED
    BY <2>5, <2>8, FS_Bijection
<1>3. QED
  BY <1>2 DEF FirstOfRows, First, ReleasesOf

\* Each statement finds the first n related releases beyond the cursor
\* (ArtistReleases, LabelReleases, MasterReleases, ReleasesByCatalogNumber,
\* ReleasesByIdentifier).
LEMMA StatementFindsFirst ==
  ASSUME collection \in Collections, direct \subseteq ReleaseIDs, linked \subseteq Links,
         NEW after \in Int, NEW n \in Nat
  PROVE  MatchingRelease(after, n) = First(Beyond(Related, after), n)
<1>1. ReleasesOf(LinksBeyond(after)) = Beyond(ReleasesOf(linked), after)
  BY BeyondReleases
<1>2. CASE collection = "artist"
  <2> DEFINE S == Beyond(direct, after)
             T == Beyond(ReleasesOf(linked), after)
  <2>1. S \in SUBSET ReleaseIDs /\ T \in SUBSET ReleaseIDs
    BY DEF Beyond, ReleasesOf, Links
  <2>2. IsFiniteSet(S) /\ IsFiniteSet(T) /\ S \subseteq Int /\ T \subseteq Int
    BY <2>1, ReleaseIDsFinite, FS_Subset
  <2>3. MatchingRelease(after, n) = First(First(S, n) \cup First(T, n), n)
    BY <1>1, <1>2 DEF MatchingRelease, FirstDistinct
  <2>4. Beyond(Related, after) = S \cup T
    BY <1>2 DEF Related, Beyond
  <2> HIDE DEF S, T
  <2>5. \A A, B : /\ A \subseteq Int /\ IsFiniteSet(A)
                   /\ B \subseteq Int /\ IsFiniteSet(B)
                   => First(First(A, n) \cup First(B, n), n) = First(A \cup B, n)
    BY FirstOfUnion
  <2>6. First(First(S, n) \cup First(T, n), n) = First(S \cup T, n)
    BY <2>2, <2>5
  <2>7. QED
    BY <2>3, <2>4, <2>6
<1>3. CASE collection \in {"label", "identifier"}
  BY <1>1, <1>3 DEF MatchingRelease, FirstDistinct, Related
<1>4. CASE collection = "master"
  BY <1>4, LeftJoinKeepsReleases DEF MatchingRelease, Related
<1>5. CASE collection = "catalogNumber"
  <2> DEFINE rows == {row \in LinksBeyond(after) : row.value = Wanted}
  <2>1. \A r \in rows : r \in Links /\ r.value = Wanted
    BY DEF LinksBeyond
  <2>2. ReleasesOf(rows) = Beyond(Related, after)
    BY <1>5 DEF ReleasesOf, LinksBeyond, Beyond, Related
  <2>3. MatchingRelease(after, n) = FirstOfRows(rows, n)
    BY <1>5 DEF MatchingRelease
  <2> HIDE DEF rows
  <2>4. QED
    BY <2>1, <2>2, <2>3, OneRowEach
<1>6. QED
  BY <1>2, <1>3, <1>4, <1>5 DEF Collections

-----------------------------------------------------------------------------
(* The invariant.                                                          *)

\* An answer is the statement's on the snapshot that is still there: the two
\* tables hold releases and relations, and what was returned is what the
\* statement finds now.
RelatedInv ==
  /\ collection \in Collections
  /\ direct \subseteq ReleaseIDs
  /\ linked \subseteq Links
  /\ answer # None =>
       \E after \in 0..MaximumReleaseID, n \in 1..MaximumFetch :
         answer = [after |-> after, limit |-> n,
                   rows |-> {ResultRow(id, n) : id \in MatchingRelease(after, n)}]

\* Every answer is computed from the tables as they are: a commit in between
\* makes the client ask again (CommitDirect, CommitLink, Select).
THEOREM RelatedInvariant == Spec => []RelatedInv
<1>1. Init => RelatedInv
  BY DEF Init, RelatedInv
<1>2. ASSUME RelatedInv, [Next]_vars
      PROVE  RelatedInv'
  <2>1. CASE CommitDirect
    BY <1>2, <2>1 DEF RelatedInv, CommitDirect
  <2>2. CASE CommitLink
    BY <1>2, <2>2 DEF RelatedInv, CommitLink
  <2>3. CASE \E after \in 0..MaximumReleaseID, n \in 1..MaximumFetch : Select(after, n)
    <3>1. PICK after \in 0..MaximumReleaseID, n \in 1..MaximumFetch : Select(after, n)
      BY <2>3
    <3>2. \A id, k : ResultRow(id, k)' = ResultRow(id, k)
      BY <3>1 DEF Select, ResultRow, Roles, Aggregated
    <3>3. \A a, k : MatchingRelease(a, k)' = MatchingRelease(a, k)
      BY <3>1 DEF Select, MatchingRelease, LinksBeyond, LeftJoin
    <3>4. /\ collection' \in Collections /\ direct' \subseteq ReleaseIDs
          /\ linked' \subseteq Links
      BY <1>2, <3>1 DEF RelatedInv, Select
    <3>5. answer' = [after |-> after, limit |-> n,
                     rows |-> {ResultRow(id, n)' : id \in MatchingRelease(after, n)'}]
      BY <3>1, <3>2, <3>3 DEF Select
    <3>6. QED
      BY <3>4, <3>5 DEF RelatedInv
  <2>4. CASE UNCHANGED vars
    <3>1. \A id, k : ResultRow(id, k)' = ResultRow(id, k)
      BY <2>4 DEF vars, ResultRow, Roles, Aggregated
    <3>2. \A a, k : MatchingRelease(a, k)' = MatchingRelease(a, k)
      BY <2>4 DEF vars, MatchingRelease, LinksBeyond, LeftJoin
    <3>3. QED
      BY <1>2, <2>4, <3>1, <3>2 DEF RelatedInv, vars
  <2>5. QED
    BY <1>2, <2>1, <2>2, <2>3, <2>4 DEF Next
<1>3. QED
  BY <1>1, <1>2, PTL DEF Spec

\* The rows returned are the page CollectionWalk selects, one row for each
\* release (StatementIsKeysetSelect): neither a LIMIT below a UNION, a
\* DISTINCT or a join, nor the number of rows that relate a release, costs a
\* release or returns one twice.
THEOREM StatementsAreKeysetSelects == Spec => []StatementIsKeysetSelect
<1>1. ASSUME RelatedInv, answer # None
      PROVE  \E rows \in OrderedLimit(Beyond(Related, answer.after), answer.limit) :
               /\ {row.id : row \in answer.rows} = Keys(rows)
               /\ Cardinality(answer.rows) = Len(rows)
  <2>1. PICK after \in 0..MaximumReleaseID, n \in 1..MaximumFetch :
          answer = [after |-> after, limit |-> n,
                    rows |-> {ResultRow(id, n) : id \in MatchingRelease(after, n)}]
    BY <1>1 DEF RelatedInv
  <2> DEFINE S == Beyond(Related, after)
             F == First(S, n)
             row == [id \in F |-> ResultRow(id, n)]
             R == {ResultRow(id, n) : id \in F}
  <2>2. after \in Int /\ n \in Nat
    BY RelatedAssumption
  <2>3. answer.after = after /\ answer.limit = n /\ answer.rows = R
    BY <1>1, <2>1, <2>2, StatementFindsFirst DEF RelatedInv
  <2>4. S \subseteq Int /\ IsFiniteSet(S)
    BY <1>1, BeyondFinite DEF RelatedInv
  <2>5. F \subseteq S /\ IsFiniteSet(F)
    BY <2>2, <2>4, FirstFacts
  <2>6. \A id : ResultRow(id, n).id = id
    BY DEF ResultRow
  <2>7. Cardinality(R) = Cardinality(F)
    <3>1. row \in [F -> R] /\ \A id \in F : row[id] = ResultRow(id, n)
      OBVIOUS
    <3>2. \A r \in R : \E id \in F : row[id] = r
      BY <3>1
    <3>3. \A x, y \in F : row[x] = row[y] => x = y
      BY <2>6, <3>1
    <3> HIDE DEF row, R, F
    <3>4. row \in Injection(F, R)
      BY <3>1, <3>3 DEF Injection, IsInjective
    <3>5. row \in Surjection(F, R)
      BY <3>1, <3>2 DEF Surjection
    <3>6. ExistsBijection(F, R)
      BY <3>4, <3>5 DEF ExistsBijection, Bijection
    <3>7. QED
      BY <2>5, <3>6, FS_Bijection
  <2>8. {r.id : r \in R} = F
    <3>1. \A id \in F : ResultRow(id, n) \in R
      OBVIOUS
    <3>2. \A r \in R : \E id \in F : r = ResultRow(id, n)
      OBVIOUS
    <3> HIDE DEF R, F
    <3>3. QED
      BY <2>6, <3>1, <3>2
  <2>9. PICK rows : rows \in OrderedLimit(S, n)
    BY <2>2, <2>4, LimitedExists
  <2>10. Keys(rows) = F /\ Cardinality(F) = Len(rows)
    BY <2>2, <2>4, <2>9, LimitedAreFirst
  <2> HIDE DEF R, F, S
  <2>11. rows \in OrderedLimit(Beyond(Related, answer.after), answer.limit)
    BY <2>3, <2>9 DEF S
  <2>12. /\ {r.id : r \in answer.rows} = Keys(rows)
         /\ Cardinality(answer.rows) = Len(rows)
    BY <2>3, <2>7, <2>8, <2>10
  <2>13. QED
    BY <2>11, <2>12
<1>2. RelatedInv => StatementIsKeysetSelect
  BY <1>1 DEF StatementIsKeysetSelect
<1>3. QED
  BY <1>2, RelatedInvariant, PTL

\* The values gathered for a release are those its rows have.
LEMMA AggregatedAll ==
  ASSUME linked \subseteq Links, NEW id, NEW n, NEW v \in Values
  PROVE  v \in Aggregated(id, n) <=> [release |-> id, value |-> v] \in linked
<1>1. \A r \in linked : r = [release |-> r.release, value |-> r.value]
  BY DEF Links
<1>2. v # None
  BY RelatedAssumption
<1>3. v \in Aggregated(id, n) <=> \E r \in linked : r.release = id /\ r.value = v
  BY <1>2 DEF Aggregated
<1> QED BY <1>1, <1>3

\* The roles of a release are those of its rows without the blanks around them,
\* and 'Main'.
LEMMA RolesAll ==
  ASSUME linked \subseteq Links, NEW id, NEW n, NEW v \in Values
  PROVE  v \in Roles(id, n) <=>
           \/ v = Main /\ id \in direct
           \/ \E role \in Values :
                Trim(role) = v /\ [release |-> id, value |-> role] \in linked
<1>1. Aggregated(id, n) \subseteq Values
  BY DEF Aggregated, Links
<1>2. Trim(Main) = Main
  BY RelatedAssumption DEF Trim
<1>3. v \in Roles(id, n) <=>
        \/ v = Main /\ id \in direct
        \/ \E role \in Aggregated(id, n) : Trim(role) = v
  BY <1>2 DEF Roles
<1> QED BY <1>1, <1>3, AggregatedAll

\* A row returned says all of how its release is related, and nothing else
\* (RelationsLossless): the LIMIT that ends the page never cuts the roles,
\* the catalog numbers or the artists gathered for one release.
THEOREM RelationsAreLossless == Spec => []RelationsLossless
<1>1. ASSUME RelatedInv, answer # None, collection \in {"artist", "label", "master"},
             NEW row \in answer.rows, NEW v \in Values
      PROVE  v \in row.values <=>
               IF collection = "artist"
               THEN \/ v = Main /\ row.id \in direct
                    \/ \E role \in Values :
                         Trim(role) = v /\ [release |-> row.id, value |-> role] \in linked
               ELSE [release |-> row.id, value |-> v] \in linked
  <2>1. PICK after \in 0..MaximumReleaseID, n \in 1..MaximumFetch :
          answer = [after |-> after, limit |-> n,
                    rows |-> {ResultRow(id, n) : id \in MatchingRelease(after, n)}]
    BY <1>1 DEF RelatedInv
  <2>2. PICK id \in MatchingRelease(after, n) : row = ResultRow(id, n)
    BY <1>1, <2>1
  <2>3. row.id = id /\ linked \subseteq Links
    BY <1>1, <2>2 DEF ResultRow, RelatedInv
  <2>4. CASE collection = "artist"
    <3>1. row.values = Roles(id, n)
      BY <2>2, <2>4 DEF ResultRow
    <3> QED BY <1>1, <2>3, <2>4, <3>1, RolesAll
  <2>5. CASE collection \in {"label", "master"}
    <3>1. row.values = Aggregated(id, n)
      BY <2>2, <2>5 DEF ResultRow
    <3> QED BY <1>1, <2>3, <2>5, <3>1, AggregatedAll
  <2> QED BY <1>1, <2>4, <2>5
<1>2. RelatedInv => RelationsLossless
  BY <1>1 DEF RelationsLossless
<1> QED BY <1>2, RelatedInvariant, PTL

=============================================================================
