------------------------------- MODULE Keyset -------------------------------
(***************************************************************************)
(* Keyset pagination, the algorithm every collection of the API shares.    *)
(*                                                                         *)
(* A store query selects the matching rows beyond a cursor, in key order,  *)
(* and asks PostgreSQL for one row more than the page holds.  NewPage      *)
(* drops that look-ahead row and remembers that it was there; the key of   *)
(* the last row that is kept is the next cursor.                           *)
(*                                                                         *)
(* A row is represented by its key: an identifier (a positive int32) for   *)
(* the search and relation collections, a signed int32 hash for the        *)
(* tracks and the identifiers of a release.                                *)
(***************************************************************************)
EXTENDS Integers, Sequences, FiniteSets

CONSTANT None  \* the nil pointer of the Go code, JSON's null

ASSUME NoneAssumption == None \notin Int

\* The keys a page or a result carries.
Keys(rows) == {rows[i] : i \in DOMAIN rows}

\* ORDER BY over a unique key: strictly ascending.
Ascending(rows) == \A i, j \in DOMAIN rows : i < j => rows[i] < rows[j]

-----------------------------------------------------------------------------
(* The SQL tail "ORDER BY key LIMIT n".                                    *)

\* rows is the result of "SELECT key FROM S ORDER BY key LIMIT n": it is in
\* order, has at most n rows, and leaves a row of S out only when it is full
\* and that row comes after all it holds.
IsOrderedLimit(S, n, rows) ==
  /\ Ascending(rows)
  /\ Len(rows) <= n
  /\ \A x \in S \ Keys(rows) : Len(rows) = n /\ \A y \in Keys(rows) : y < x

\* PostgreSQL's answer, as the set that holds just that result.
OrderedLimit(S, n) ==
  {rows \in UNION {[1..k -> S] : k \in 0..n} : IsOrderedLimit(S, n, rows)}

\* The rows of that result alone, below a union or a join: those of S with
\* fewer than n rows before them.
First(S, n) == {x \in S : Cardinality({y \in S : y < x}) < n}

\* As OrderedLimit, without the ORDER BY: any n rows, in any order.
UnorderedLimit(S, n) ==
  {rows \in UNION {[1..k -> S] : k \in 0..n} :
     /\ \A i, j \in DOMAIN rows : i # j => rows[i] # rows[j]
     /\ \A x \in S \ Keys(rows) : Len(rows) = n}

-----------------------------------------------------------------------------
(* Pages.                                                                  *)

FetchSizeWithoutLookAhead(size) == size

\* PageRequest.FetchSize and HashPageRequest.FetchSize: one look-ahead row.
FetchSize(size) == size + 1

\* A page that announces more whenever it is full.
NewPageFullMeansMore(rows, size) ==
  [items |-> IF Len(rows) > size THEN SubSeq(rows, 1, size) ELSE rows,
   hasMore |-> Len(rows) >= size]

\* NewPage and NewHashPage: truncate to the size asked for, and record
\* whether a row was dropped.
NewPage(rows, size) ==
  LET hasMore == Len(rows) > size
  IN  [items |-> IF hasMore THEN SubSeq(rows, 1, size) ELSE rows,
       hasMore |-> hasMore]

\* The cursor taken from the first row of the page.
NextAfterFirst(page) ==
  IF ~page.hasMore \/ page.items = <<>> THEN None ELSE page.items[1]

\* The zero value where there is no next page, instead of nil.
NextAfterZero(page) ==
  IF ~page.hasMore \/ page.items = <<>>
  THEN 0 ELSE page.items[Len(page.items)]

\* Page.NextAfterID and HashPage.NextAfterHash.
NextAfter(page) ==
  IF ~page.hasMore \/ page.items = <<>>
  THEN None ELSE page.items[Len(page.items)]

=============================================================================
