--------------------------- MODULE RelatedReleases --------------------------
(***************************************************************************)
(* The statements behind the collections of releases that something is     *)
(* related to: an artist (two tables, one with several rows per release),  *)
(* a label (one row per catalog number), a master (joined with the         *)
(* artists of each release), a catalog number and an identifier.           *)
(*                                                                         *)
(* Each statement limits early, below a union, a DISTINCT, a join or a     *)
(* GROUP BY, and gathers what belongs to a release afterwards.  Here they  *)
(* are translated clause by clause, over one snapshot, and compared with   *)
(* the plain selection CollectionWalk pages through.                       *)
(*                                                                         *)
(* A relation is a set of rows: the importer's schema keeps a catalog      *)
(* number once per label and release, and an artist once per release.      *)
(* Nothing under src/ declares that; ReleasesByCatalogNumber, which has no *)
(* DISTINCT, and the arrays of MasterReleases rest on it.                  *)
(***************************************************************************)
EXTENDS Keyset

CONSTANTS
  MaximumReleaseID,  \* the largest release identifier
  Values,            \* roles, catalog numbers, artists or identifier slots
  Wanted,            \* the catalog number a lookup asks for
  Main,              \* the role 'Main', which a credit may have as well
  Plain, Padded,     \* a role, and the same with blanks around it
  MaximumFetch       \* bound: the largest LIMIT

ASSUME RelatedAssumption ==
  /\ MaximumReleaseID \in Nat
  /\ {Wanted, Main, Plain, Padded} \subseteq Values /\ None \notin Values
  /\ Padded \notin {Main, Plain}
  /\ MaximumFetch \in Nat

ReleaseIDs == 1..MaximumReleaseID

Collections == {"artist", "label", "master", "catalogNumber", "identifier"}

\* The rows of a relation; a role and a category_notation may be NULL.
Links == [release : ReleaseIDs, value : Values \cup {None}]

Nullable == {"artist", "label", "catalogNumber"}

VARIABLES
  collection,  \* the statement
  direct,      \* the releases of the artist (main) or of the master
  linked,      \* the rows of the other relation, for this artist, label, ...
  answer       \* what the statement returned on this snapshot, or None

vars == <<collection, direct, linked, answer>>

-----------------------------------------------------------------------------
(* Clauses.                                                                *)

\* SELECT release_item_id
ReleasesOf(rows) == {row.release : row \in rows}

\* As FirstDistinct, without the DISTINCT: rows of one release use up the LIMIT.
FirstOfRows(rows, n) ==
  {row.release : row \in {r \in rows : Cardinality({x \in rows : x.release < r.release}) < n}}

\* SELECT DISTINCT release_item_id ... ORDER BY release_item_id LIMIT n
FirstDistinct(rows, n) == First(ReleasesOf(rows), n)

\* WHERE ... AND release_item_id > $n
Beyond(S, after) == {id \in S : id > after}
LinksBeyond(after) == {row \in linked : row.release > after}

\* LEFT JOIN: a release without a link keeps one row, of NULLs.
LeftJoin(S) ==
  {row \in linked : row.release \in S}
    \cup [release : S \ ReleasesOf(linked), value : {None}]

-----------------------------------------------------------------------------
(* The statements.                                                         *)

\* The releases a statement finds; the joins with release_item keep them all,
\* by their foreign keys.
MatchingRelease(after, n) ==
  CASE collection = "artist" ->
         First(First(Beyond(direct, after), n) \cup FirstDistinct(LinksBeyond(after), n), n)
    [] collection = "label" -> FirstDistinct(LinksBeyond(after), n)
    [] collection = "master" -> First(ReleasesOf(LeftJoin(Beyond(direct, after))), n)
    [] collection = "catalogNumber" ->
         FirstOfRows({row \in LinksBeyond(after) : row.value = Wanted}, n)
    [] collection = "identifier" -> FirstDistinct(LinksBeyond(after), n)

\* The values among the n first rows of the relation only.
AggregatedBelowLimit(id, n) ==
  {row.value : row \in {r \in linked :
     /\ r.release = id
     /\ Cardinality({x \in linked : x.release <= id}) <= n}} \ {None}

\* string_agg and array_agg, per release and without NULLs: a separate look
\* at the relation, in which no LIMIT applies.
Aggregated(id, n) == {row.value : row \in {r \in linked : r.release = id}} \ {None}

\* trim
Trim(role) == IF role = Padded THEN Plain ELSE role

\* The roles of an artist: 'Main' for the artist's own release, and those of the
\* credits, each once after trim.  string_agg joins them with commas, so a role
\* that has one in it reads as two; the words of a role are not modelled.
Roles(id, n) ==
  {Trim(role) : role \in Aggregated(id, n) \cup (IF id \in direct THEN {Main} ELSE {})}

\* One row of the result.
ResultRow(id, n) ==
  [id |-> id,
   values |-> CASE collection = "artist" -> Roles(id, n)
                [] collection \in {"label", "master"} -> Aggregated(id, n)
                [] OTHER -> {}]

-----------------------------------------------------------------------------

Init ==
  /\ collection \in Collections
  /\ direct = {}
  /\ linked = {}
  /\ answer = None

\* The importer commits a change of one row.
CommitDirect ==
  /\ collection \in {"artist", "master"}
  /\ \E id \in ReleaseIDs :
       direct' = IF id \in direct THEN direct \ {id} ELSE direct \cup {id}
  /\ answer' = None
  /\ UNCHANGED <<collection, linked>>

CommitLink ==
  /\ \E row \in Links :
       /\ row.value = None => collection \in Nullable
       /\ linked' = IF row \in linked THEN linked \ {row} ELSE linked \cup {row}
  /\ answer' = None
  /\ UNCHANGED <<collection, direct>>

\* ArtistReleases, LabelReleases, MasterReleases, ReleasesByCatalogNumber,
\* ReleasesByIdentifier.
Select(after, n) ==
  /\ answer' = [after |-> after, limit |-> n,
                rows |-> {ResultRow(id, n) : id \in MatchingRelease(after, n)}]
  /\ UNCHANGED <<collection, direct, linked>>

Next ==
  \/ CommitDirect
  \/ CommitLink
  \/ \E after \in 0..MaximumReleaseID, n \in 1..MaximumFetch : Select(after, n)

Spec == Init /\ [][Next]_vars

-----------------------------------------------------------------------------
(* Properties.                                                             *)

\* The collection as the client knows it.
Related ==
  CASE collection = "artist" -> direct \cup ReleasesOf(linked)
    [] collection \in {"label", "identifier"} -> ReleasesOf(linked)
    [] collection = "master" -> direct
    [] collection = "catalogNumber" -> ReleasesOf({row \in linked : row.value = Wanted})

\* Every statement is the ordered, limited selection CollectionWalk assumes:
\* the first n related releases beyond the cursor, one row each, whatever the
\* number of rows that relate them (the limited branches of the union, the
\* DISTINCTs, the GROUP BY).
StatementIsKeysetSelect ==
  answer # None =>
    \E rows \in OrderedLimit(Beyond(Related, answer.after), answer.limit) :
      /\ {row.id : row \in answer.rows} = Keys(rows)
      /\ Cardinality(answer.rows) = Len(rows)

\* README: "Multiple catalog numbers for the same Label and Release are
\* preserved losslessly in the Label release catnos array".  The same holds of
\* the artists of a master's release and, up to the blanks around them, of the
\* roles of an artist, however few rows the page holds; 'Main' is there for a
\* release of the artist's own, or for a credit of that name.
RelationsLossless ==
  answer # None /\ collection \in {"artist", "label", "master"} =>
    \A row \in answer.rows, v \in Values :
      v \in row.values <=>
        IF collection = "artist"
        THEN \/ v = Main /\ row.id \in direct
             \/ \E role \in Values :
                  Trim(role) = v /\ [release |-> row.id, value |-> role] \in linked
        ELSE [release |-> row.id, value |-> v] \in linked

=============================================================================
