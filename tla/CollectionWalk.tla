--------------------------- MODULE CollectionWalk ---------------------------
(***************************************************************************)
(* One client walks one collection - /artists, /labels, /masters,          *)
(* /releases or the releases of an artist, a label or a master - from its  *)
(* first page to its last, while the batch importer commits.               *)
(*                                                                         *)
(* A page is three steps: the handler parses the request, the store runs   *)
(* one SQL statement (one snapshot), the client receives the page.  The    *)
(* importer may commit between any two of them.  A query may fail or run   *)
(* out of time, a response may be lost; the client then sends the same     *)
(* cursor again.                                                           *)
(***************************************************************************)
EXTENDS Keyset

CONSTANTS
  MaximumResourceID,  \* the largest identifier, 2^31 - 1 in the code
  maximumPageSize,    \* the largest page, 30 in the code
  defaultPageSize,    \* the page of a request without a size, 20 in the code
  MaxFailures         \* bound: failed queries and lost responses of a walk

ASSUME WalkAssumption ==
  /\ MaximumResourceID \in Nat \ {0}
  /\ maximumPageSize \in Nat \ {0}
  /\ defaultPageSize \in 1..maximumPageSize
  /\ MaxFailures \in Nat

ResourceIDs == 1..MaximumResourceID

VARIABLES
  table,     \* identifiers of the committed rows that match the filters
  stable,    \* history: rows that have matched since the walk began
  ever,      \* history: rows that have matched at some time since then
  phase,     \* where the client and its request are
  cursor,    \* the after_id the client sends next, None on the first page
  request,   \* the parsed PageRequest, None when there is none
  reply,     \* the page on its way to the client, None when there is none
  seen,      \* the identifiers the client has received, in order
  failures   \* how many attempts have failed

vars == <<table, stable, ever, phase, cursor, request, reply, seen, failures>>

PageRequest == [after : 0..MaximumResourceID, size : 1..maximumPageSize]

PageResponse ==
  [items : Seq(ResourceIDs), hasMore : BOOLEAN, next : ResourceIDs \cup {None}]

TypeOK ==
  /\ table \subseteq ResourceIDs
  /\ stable \subseteq table
  /\ table \subseteq ever
  /\ ever \subseteq ResourceIDs
  /\ phase \in {"idle", "parsed", "answered", "done", "rejected"}
  /\ cursor \in ResourceIDs \cup {None}
  /\ request \in PageRequest \cup {None}
  /\ reply \in PageResponse \cup {None}
  /\ seen \in Seq(ResourceIDs)
  /\ failures \in 0..MaxFailures

Init ==
  /\ table \in SUBSET ResourceIDs
  /\ stable = table
  /\ ever = table
  /\ phase = "idle"
  /\ cursor = None
  /\ request = None
  /\ reply = None
  /\ seen = <<>>
  /\ failures = 0

-----------------------------------------------------------------------------
(* Requests.                                                               *)

\* The value of a parameter, or its fallback when the request omits it.
OrElse(parameter, fallback) == IF parameter = None THEN fallback ELSE parameter

\* Bounds that exclude the largest page size.
AcceptsSmallerPages(after, size) ==
  after \in 0..MaximumResourceID /\ size \in 1..(maximumPageSize - 1)

\* The bounds parseBoundedInt64 and parseBoundedInt enforce; outside them
\* the handler answers 400.
Accepts(after, size) ==
  after \in 0..MaximumResourceID /\ size \in 1..maximumPageSize

\* The client asks for the next page, and the handler parses its cursor.
Ask(size) ==
  LET after == OrElse(cursor, 0)
      fetched == OrElse(size, defaultPageSize)
  IN  /\ phase = "idle"
      /\ IF Accepts(after, fetched)
         THEN /\ phase' = "parsed"
              /\ request' = [after |-> after, size |-> fetched]
         ELSE /\ phase' = "rejected"
              /\ UNCHANGED request
      /\ UNCHANGED <<table, stable, ever, cursor, reply, seen, failures>>

-----------------------------------------------------------------------------
(* The store.                                                              *)

\* WHERE ... AND id > $n: the rows beyond the cursor in this snapshot.
MatchingBeyond(after) == {id \in table : id > after}

\* As SelectPage, without the ORDER BY.
SelectUnordered(r) == UnorderedLimit(MatchingBeyond(r.after), FetchSize(r.size))

\* The result of the statement, in its one snapshot.
SelectPage(r) == OrderedLimit(MatchingBeyond(r.after), FetchSize(r.size))

\* pageResponse: the page and the cursor of the next one.
PageResponseOf(page) ==
  [items |-> page.items, hasMore |-> page.hasMore, next |-> NextAfter(page)]

\* The store runs the query of the collection and the handler writes 200.
Query ==
  /\ phase = "parsed"
  /\ \E rows \in SelectPage(request) :
       reply' = PageResponseOf(NewPage(rows, request.size))
  /\ phase' = "answered"
  /\ UNCHANGED <<table, stable, ever, cursor, request, seen, failures>>

\* The attempt ends without a page: the query failed (500), ran out of its
\* time limit (504), or the response did not reach the client.
Fail ==
  /\ phase \in {"parsed", "answered"}
  /\ failures < MaxFailures
  /\ failures' = failures + 1
  /\ phase' = "idle"
  /\ request' = None
  /\ reply' = None
  /\ UNCHANGED <<table, stable, ever, cursor, seen>>

-----------------------------------------------------------------------------
(* The client, as the README tells it to paginate.                         *)

\* The client keeps the page, and goes on from next_after_id while has_more.
Receive ==
  /\ phase = "answered"
  /\ seen' = seen \o reply.items
  /\ cursor' = IF reply.hasMore THEN reply.next ELSE cursor
  /\ phase' = IF reply.hasMore THEN "idle" ELSE "done"
  /\ request' = None
  /\ reply' = None
  /\ UNCHANGED <<table, stable, ever, failures>>

\* The importer commits any change of the rows the collection matches.
Commit ==
  /\ table' \in SUBSET ResourceIDs
  /\ stable' = stable \cap table'
  /\ ever' = ever \cup table'
  /\ UNCHANGED <<phase, cursor, request, reply, seen, failures>>

AskSome == \E size \in (1..maximumPageSize) \cup {None} : Ask(size)

Next == AskSome \/ Query \/ Fail \/ Receive \/ Commit

Spec == Init /\ [][Next]_vars

\* The client goes on until the end, the server answers, the network
\* delivers; nothing obliges the importer to commit, or to stop.
FairSpec ==
  Spec /\ WF_vars(AskSome) /\ WF_vars(Query) /\ WF_vars(Receive)

-----------------------------------------------------------------------------
(* Properties.                                                             *)

\* No identifier arrives twice and none arrives out of order, whatever page
\* sizes the client mixes, however often it retries, and whatever is
\* committed between two pages (NewPage, NextAfterID, "id > $n").
NoDuplicates == Ascending(seen)

\* A row that matched all along is not skipped: every such row up to the
\* cursor has arrived, and at the end all of them have (the look-ahead row
\* NewPage drops is the first row of the next page).
StableRowsDelivered ==
  \A id \in stable :
    phase = "done" \/ (cursor # None /\ id <= cursor) => id \in Keys(seen)

\* has_more tells the truth about the snapshot the page was read from: a
\* page is cut short exactly when the snapshot holds a further row, it then
\* carries a cursor, and it is never longer than asked for (FetchSize,
\* NewPage, NextAfterID).
HasMoreTruthful ==
  [][phase = "parsed" /\ phase' = "answered" =>
       LET beyond == {id \in table : id > request.after} IN
       /\ Len(reply'.items) <= request.size
       /\ reply'.hasMore <=> beyond \ Keys(reply'.items) # {}
       /\ reply'.hasMore <=> reply'.next # None]_vars

\* The walk ends although the importer never does: the cursor climbs within
\* the identifiers, and neither a cursor the server hands out nor a size
\* README allows is refused.
WalkEnds == <>(phase = "done")

-----------------------------------------------------------------------------
(* The walk delivers what Enumeration promises.                            *)

Promise == INSTANCE Enumeration
             WITH Rows <- ResourceIDs, delivered <- seen, done <- (phase = "done")

\* Pages, cursors and retries together implement the abstract enumeration:
\* only rows that were committed at some time of the walk, each once, in
\* order, without passing over a stable row.
ImplementsEnumeration == Promise!Spec

-----------------------------------------------------------------------------
(* The inductive invariant behind these properties: what a request and a   *)
(* page in flight know of the walk they belong to.                         *)

\* Everything received lies at or behind the cursor the client goes on from.
SeenBehindCursor ==
  /\ Keys(seen) \subseteq ever
  /\ phase # "done" => \A id \in Keys(seen) : id <= OrElse(cursor, 0)

\* A request in flight asks for what follows the client's cursor.
RequestFollowsCursor ==
  phase \in {"parsed", "answered"} =>
    request \in PageRequest /\ request.after = OrElse(cursor, 0)

\* A page in flight continues its request in order, and holds every stable
\* row up to its own cursor, or to the end when it has none.
ReplyCoversStable ==
  phase = "answered" =>
    /\ reply \in PageResponse
    /\ Ascending(reply.items)
    /\ Keys(reply.items) \subseteq ever
    /\ \A id \in Keys(reply.items) : id > request.after
    /\ reply.hasMore =>
         /\ reply.next \in Keys(reply.items)
         /\ \A id \in Keys(reply.items) : id <= reply.next
    /\ \A id \in stable :
         /\ id > request.after
         /\ reply.hasMore => id <= reply.next
         => id \in Keys(reply.items)

WalkInv ==
  /\ TypeOK
  /\ NoDuplicates
  /\ StableRowsDelivered
  /\ SeenBehindCursor
  /\ RequestFollowsCursor
  /\ ReplyCoversStable

=============================================================================
