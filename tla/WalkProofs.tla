----------------------------- MODULE WalkProofs -----------------------------
(***************************************************************************)
(* A walk is correct for every number of identifiers, every page size and  *)
(* every number of failures, and so is one through a shared cache of any   *)
(* size: WalkInv and CachedWalkInv are inductive, and both walks implement *)
(* Enumeration.                                                            *)
(***************************************************************************)
EXTENDS CachedWalk, KeysetTheorems

-----------------------------------------------------------------------------
(* Facts about the constants and the store's answer.                       *)

LEMMA CursorFacts ==
  ASSUME NEW c \in ResourceIDs \cup {None}
  PROVE  /\ OrElse(c, 0) \in 0..MaximumResourceID
         /\ c = None => OrElse(c, 0) = 0
         /\ c # None => OrElse(c, 0) = c /\ c \in ResourceIDs
BY NoneAssumption, WalkAssumption DEF OrElse, ResourceIDs

\* The page Query puts in flight: in order, beyond the request's cursor,
\* no longer than asked for, carrying a cursor exactly when it was cut short,
\* and holding every matching row up to that cursor.
LEMMA QueryFacts ==
  ASSUME NEW r \in PageRequest, table \subseteq ResourceIDs,
         NEW rows \in SelectPage(r),
         NEW p, p = PageResponseOf(NewPage(rows, r.size))
  PROVE  /\ p \in PageResponse
         /\ Ascending(p.items)
         /\ Len(p.items) <= r.size
         /\ Keys(p.items) \subseteq MatchingBeyond(r.after)
         /\ p.hasMore <=> MatchingBeyond(r.after) \ Keys(p.items) # {}
         /\ p.hasMore <=> p.next # None
         /\ p.hasMore => /\ p.next \in Keys(p.items)
                         /\ \A id \in Keys(p.items) : id <= p.next
         /\ \A id \in MatchingBeyond(r.after) :
              (p.hasMore => id <= p.next) => id \in Keys(p.items)
<1> DEFINE S == MatchingBeyond(r.after)
           page == NewPage(rows, r.size)
<1>1. S \subseteq table /\ S \subseteq ResourceIDs /\ S \subseteq Int
  <2>1. S \subseteq table
    BY DEF MatchingBeyond
  <2>2. ResourceIDs \subseteq Int
    BY WalkAssumption DEF ResourceIDs
  <2>3. QED
    BY <2>1, <2>2
<1>2. r.size \in Nat \ {0} /\ rows \in OrderedLimit(S, FetchSize(r.size))
  BY WalkAssumption DEF PageRequest, SelectPage
<1>3. /\ page.items \in Seq(S)
      /\ page.hasMore \in BOOLEAN
      /\ Ascending(page.items)
      /\ Len(page.items) <= r.size
      /\ page.hasMore <=> S \ Keys(page.items) # {}
      /\ page.hasMore =>
           /\ NextAfter(page) \in Keys(page.items)
           /\ \A x \in Keys(page.items) : x <= NextAfter(page)
      /\ ~page.hasMore => NextAfter(page) = None
      /\ \A x \in S : (page.hasMore => x <= NextAfter(page)) => x \in Keys(page.items)
  <2> HIDE DEF S, page
  <2>1. \A pg : pg = NewPage(rows, r.size) =>
          /\ pg.items \in Seq(S)
          /\ pg.hasMore \in BOOLEAN
          /\ Ascending(pg.items)
          /\ Len(pg.items) <= r.size
          /\ pg.hasMore <=> S \ Keys(pg.items) # {}
          /\ pg.hasMore =>
               /\ NextAfter(pg) \in Keys(pg.items)
               /\ \A x \in Keys(pg.items) : x <= NextAfter(pg)
          /\ ~pg.hasMore => NextAfter(pg) = None
          /\ \A x \in S : (pg.hasMore => x <= NextAfter(pg)) => x \in Keys(pg.items)
    BY <1>1, <1>2, PageFacts
  <2>2. QED
    BY <2>1 DEF page
<1>4. /\ p.items = page.items
      /\ p.hasMore = page.hasMore
      /\ p.next = NextAfter(page)
      /\ p = [items |-> page.items, hasMore |-> page.hasMore, next |-> NextAfter(page)]
  BY DEF PageResponseOf
<1>5. Keys(page.items) \subseteq S
  <2> HIDE DEF S, page
  <2>1. \A i \in DOMAIN page.items : page.items[i] \in S
    BY <1>3
  <2>2. QED
    BY <2>1 DEF Keys
<1> HIDE DEF page
<1>6. page.hasMore => NextAfter(page) # None
  BY <1>1, <1>3, <1>5, NoneAssumption
<1>7. NextAfter(page) \in ResourceIDs \cup {None}
  BY <1>1, <1>3, <1>5
<1>8. page.items \in Seq(ResourceIDs)
  BY <1>1, <1>3
<1>9. p \in PageResponse
  BY <1>3, <1>4, <1>7, <1>8 DEF PageResponse
<1>10. QED
  BY <1>3, <1>4, <1>5, <1>6, <1>9

-----------------------------------------------------------------------------
(* Each action preserves the invariant.                                    *)

LEMMA InitInvariant == Init => WalkInv
<1> SUFFICES ASSUME Init PROVE WalkInv
  OBVIOUS
<1>1. seen = <<>> /\ cursor = None /\ phase = "idle"
  BY DEF Init
<1>2. Keys(seen) = {} /\ Ascending(seen)
  BY <1>1 DEF Keys, Ascending
<1>3. TypeOK
  <2>1. failures \in 0..MaxFailures
    BY WalkAssumption DEF Init
  <2>2. QED
    BY <2>1 DEF Init, TypeOK
<1>4. QED
  BY <1>1, <1>2, <1>3
     DEF WalkInv, NoDuplicates, StableRowsDelivered, SeenBehindCursor,
         RequestFollowsCursor, ReplyCoversStable

\* Ask changes only the phase and the request.
LEMMA AskInvariant ==
  ASSUME WalkInv, NEW size \in (1..maximumPageSize) \cup {None}, Ask(size)
  PROVE  WalkInv'
<1> USE DEF WalkInv
<1>1. /\ phase = "idle"
      /\ UNCHANGED <<table, stable, ever, cursor, reply, seen, failures>>
  BY DEF Ask
<1>2. \/ /\ phase' = "parsed"
         /\ request' \in PageRequest
         /\ request'.after = OrElse(cursor, 0)
      \/ phase' = "rejected" /\ request' = request
  <2>1. CASE Accepts(OrElse(cursor, 0), OrElse(size, defaultPageSize))
    BY <2>1 DEF Ask, Accepts, PageRequest
  <2>2. CASE ~Accepts(OrElse(cursor, 0), OrElse(size, defaultPageSize))
    BY <2>2 DEF Ask
  <2>3. QED
    BY <2>1, <2>2
<1>3. TypeOK'
  BY <1>1, <1>2 DEF TypeOK
<1>4. NoDuplicates' /\ StableRowsDelivered' /\ SeenBehindCursor'
  BY <1>1, <1>2 DEF NoDuplicates, StableRowsDelivered, SeenBehindCursor
<1>5. RequestFollowsCursor' /\ ReplyCoversStable'
  BY <1>1, <1>2 DEF RequestFollowsCursor, ReplyCoversStable
<1>6. QED
  BY <1>3, <1>4, <1>5

\* Query reads one snapshot, which holds every stable row.
LEMMA QueryInvariant ==
  ASSUME WalkInv, Query
  PROVE  WalkInv'
<1> USE DEF WalkInv
<1>1. /\ phase = "parsed" /\ phase' = "answered"
      /\ UNCHANGED <<table, stable, ever, cursor, request, seen, failures>>
  BY DEF Query
<1>2. /\ table \subseteq ResourceIDs /\ stable \subseteq table /\ table \subseteq ever
      /\ request \in PageRequest
  BY <1>1 DEF TypeOK, RequestFollowsCursor
<1>3. PICK rows \in SelectPage(request) :
        reply' = PageResponseOf(NewPage(rows, request.size))
  BY DEF Query
<1>4. /\ reply' \in PageResponse
      /\ Ascending(reply'.items)
      /\ Keys(reply'.items) \subseteq MatchingBeyond(request.after)
      /\ reply'.hasMore => /\ reply'.next \in Keys(reply'.items)
                           /\ \A id \in Keys(reply'.items) : id <= reply'.next
      /\ \A id \in MatchingBeyond(request.after) :
           (reply'.hasMore => id <= reply'.next) => id \in Keys(reply'.items)
  BY <1>2, <1>3, QueryFacts
<1>5. TypeOK'
  BY <1>1, <1>4 DEF TypeOK
<1>6. NoDuplicates' /\ StableRowsDelivered' /\ SeenBehindCursor' /\ RequestFollowsCursor'
  BY <1>1 DEF NoDuplicates, StableRowsDelivered, SeenBehindCursor, RequestFollowsCursor
<1>7. ReplyCoversStable'
  <2>1. \A id \in Keys(reply'.items) : id > request.after /\ id \in ever
    BY <1>2, <1>4 DEF MatchingBeyond
  <2>2. \A id \in stable :
          id > request.after /\ (reply'.hasMore => id <= reply'.next)
            => id \in Keys(reply'.items)
    BY <1>2, <1>4 DEF MatchingBeyond
  <2>3. QED
    BY <1>1, <1>4, <2>1, <2>2 DEF ReplyCoversStable
<1>8. QED
  BY <1>5, <1>6, <1>7

\* A failed attempt leaves the cursor and what has been received alone.
LEMMA FailInvariant ==
  ASSUME WalkInv, Fail
  PROVE  WalkInv'
<1> USE DEF WalkInv
<1>1. /\ phase \in {"parsed", "answered"} /\ phase' = "idle"
      /\ request' = None /\ reply' = None
      /\ UNCHANGED <<table, stable, ever, cursor, seen>>
  BY DEF Fail
<1>2. failures' \in 0..MaxFailures
  BY WalkAssumption DEF Fail, TypeOK
<1>3. TypeOK'
  BY <1>1, <1>2 DEF TypeOK
<1>4. NoDuplicates' /\ StableRowsDelivered' /\ SeenBehindCursor'
  BY <1>1 DEF NoDuplicates, StableRowsDelivered, SeenBehindCursor
<1>5. RequestFollowsCursor' /\ ReplyCoversStable'
  BY <1>1 DEF RequestFollowsCursor, ReplyCoversStable
<1>6. QED
  BY <1>3, <1>4, <1>5

\* A commit can only take rows away from the stable ones.
LEMMA CommitInvariant ==
  ASSUME WalkInv, Commit
  PROVE  WalkInv'
<1> USE DEF WalkInv
<1>1. /\ table' \subseteq ResourceIDs
      /\ stable' = stable \cap table'
      /\ ever' = ever \cup table'
      /\ UNCHANGED <<phase, cursor, request, reply, seen, failures>>
  BY DEF Commit
<1>2. TypeOK'
  BY <1>1 DEF TypeOK
<1>3. NoDuplicates'
  BY <1>1 DEF NoDuplicates
<1>4. StableRowsDelivered'
  BY <1>1 DEF StableRowsDelivered
<1>5. SeenBehindCursor' /\ RequestFollowsCursor'
  BY <1>1 DEF SeenBehindCursor, RequestFollowsCursor
<1>6. ReplyCoversStable'
  BY <1>1 DEF ReplyCoversStable
<1>7. QED
  BY <1>2, <1>3, <1>4, <1>5, <1>6

\* What the client holds after a page: the page continues what it had.
LEMMA ReceiveFacts ==
  ASSUME WalkInv, Receive
  PROVE  /\ seen' = seen \o reply.items
         /\ seen' \in Seq(ResourceIDs)
         /\ Ascending(seen')
         /\ Keys(seen') = Keys(seen) \cup Keys(reply.items)
         /\ Keys(reply.items) \subseteq ResourceIDs
<1> USE DEF WalkInv
<1>1. /\ phase = "answered"
      /\ seen' = seen \o reply.items
  BY DEF Receive
<1>2. /\ seen \in Seq(ResourceIDs) /\ reply.items \in Seq(ResourceIDs)
      /\ cursor \in ResourceIDs \cup {None}
  BY <1>1 DEF TypeOK, ReplyCoversStable, PageResponse
<1>3. seen' \in Seq(ResourceIDs)
  BY <1>1, <1>2
<1>4. /\ ResourceIDs \subseteq Int
      /\ seen \in Seq(Int) /\ reply.items \in Seq(Int)
  <2>1. ResourceIDs \subseteq Int
    BY WalkAssumption DEF ResourceIDs
  <2>2. \A s \in Seq(ResourceIDs) : s \in Seq(Int)
    BY <2>1, SeqSubset
  <2>3. QED
    BY <1>2, <2>1, <2>2
<1>5. Keys(reply.items) \subseteq ResourceIDs /\ Keys(seen) \subseteq ResourceIDs
  BY <1>2 DEF Keys
<1>6. Ascending(seen) /\ Ascending(reply.items)
  BY <1>1 DEF NoDuplicates, ReplyCoversStable
<1>7. \A x \in Keys(seen) : \A y \in Keys(reply.items) : x < y
  <2>1. OrElse(cursor, 0) \in Int /\ request.after = OrElse(cursor, 0)
    BY <1>1, <1>2, CursorFacts, WalkAssumption DEF RequestFollowsCursor
  <2>2. \A x \in Keys(seen) : x <= OrElse(cursor, 0)
    BY <1>1 DEF SeenBehindCursor
  <2>3. \A y \in Keys(reply.items) : y > OrElse(cursor, 0)
    BY <1>1, <2>1 DEF ReplyCoversStable
  <2>4. \A x \in Keys(seen) : x \in Int
    BY <1>4, <1>5
  <2>5. \A y \in Keys(reply.items) : y \in Int
    BY <1>4, <1>5
  <2>6. QED
    BY <2>1, <2>2, <2>3, <2>4, <2>5
<1>8. /\ Ascending(seen \o reply.items)
      /\ Keys(seen \o reply.items) = Keys(seen) \cup Keys(reply.items)
  BY <1>4, <1>6, <1>7, ConcatAscending
<1>9. QED
  BY <1>1, <1>3, <1>5, <1>8

\* The page delivers the stable rows from the old cursor to the new one.
LEMMA ReceiveInvariant ==
  ASSUME WalkInv, Receive
  PROVE  WalkInv'
<1> USE DEF WalkInv
<1>1. /\ phase = "answered" /\ request' = None /\ reply' = None
      /\ cursor' = IF reply.hasMore THEN reply.next ELSE cursor
      /\ phase' = IF reply.hasMore THEN "idle" ELSE "done"
      /\ UNCHANGED <<table, stable, ever, failures>>
  BY DEF Receive
<1>2. /\ seen' \in Seq(ResourceIDs)
      /\ Ascending(seen')
      /\ Keys(seen') = Keys(seen) \cup Keys(reply.items)
      /\ Keys(reply.items) \subseteq ResourceIDs
  BY ReceiveFacts
<1>3. /\ cursor \in ResourceIDs \cup {None}
      /\ stable \subseteq ResourceIDs
      /\ OrElse(cursor, 0) \in 0..MaximumResourceID
      /\ request.after = OrElse(cursor, 0)
  BY <1>1, CursorFacts DEF TypeOK, RequestFollowsCursor
<1>4. reply.hasMore =>
        /\ reply.next \in Keys(reply.items)
        /\ \A id \in Keys(reply.items) : id <= reply.next /\ id > OrElse(cursor, 0)
  BY <1>1, <1>3 DEF ReplyCoversStable
<1>5. reply.hasMore => cursor' \in ResourceIDs /\ cursor' = reply.next /\ cursor' # None
  BY <1>1, <1>2, <1>4, WalkAssumption, NoneAssumption DEF ResourceIDs
<1>6. TypeOK'
  <2>1. cursor' \in ResourceIDs \cup {None}
    BY <1>1, <1>3, <1>5
  <2>2. phase' \in {"idle", "done"}
    BY <1>1
  <2>3. QED
    BY <1>1, <1>2, <2>1, <2>2 DEF TypeOK
<1>7. NoDuplicates'
  BY <1>2 DEF NoDuplicates
<1>8. StableRowsDelivered'
  <2>1. SUFFICES ASSUME NEW id \in stable,
                        phase' = "done" \/ (cursor' # None /\ id <= cursor')
                 PROVE  id \in Keys(seen')
    BY <1>1 DEF StableRowsDelivered
  <2>2. id \in ResourceIDs /\ id \in Int /\ id > 0
    BY <1>3, WalkAssumption DEF ResourceIDs
  <2>3. reply.hasMore => id <= reply.next
    BY <1>1, <1>5, <2>1
  <2>4. CASE id > OrElse(cursor, 0)
    <3>1. id \in Keys(reply.items)
      BY <1>1, <1>3, <2>3, <2>4 DEF ReplyCoversStable
    <3>2. QED
      BY <1>2, <3>1
  <2>5. CASE ~(id > OrElse(cursor, 0))
    <3>1. cursor # None /\ id <= cursor
      BY <1>3, <2>2, <2>5, CursorFacts, WalkAssumption DEF ResourceIDs
    <3>2. id \in Keys(seen)
      BY <3>1 DEF StableRowsDelivered
    <3>3. QED
      BY <1>2, <3>2
  <2>6. QED
    BY <2>4, <2>5
<1>9. SeenBehindCursor'
  <2>1. Keys(seen') \subseteq ever
    BY <1>1, <1>2 DEF SeenBehindCursor, ReplyCoversStable
  <2>2. ASSUME phase' # "done", NEW id \in Keys(seen')
        PROVE  id <= OrElse(cursor', 0)
    <3>1. reply.hasMore
      BY <1>1, <2>2
    <3>2. OrElse(cursor', 0) = reply.next /\ reply.next \in Int
      BY <1>5, <3>1, WalkAssumption DEF OrElse, ResourceIDs
    <3>3. CASE id \in Keys(reply.items)
      BY <1>4, <3>1, <3>2, <3>3
    <3>4. CASE id \in Keys(seen)
      <4>1. id \in Int
        <5>1. id \in ResourceIDs
          BY <3>4 DEF SeenBehindCursor, TypeOK
        <5>2. QED
          BY <5>1, WalkAssumption DEF ResourceIDs
      <4>2. id <= OrElse(cursor, 0)
        BY <1>1, <3>4 DEF SeenBehindCursor
      <4>3. OrElse(cursor, 0) < reply.next
        BY <1>3, <1>4, <3>1, <3>2, WalkAssumption
      <4>4. QED
        BY <1>3, <3>2, <4>1, <4>2, <4>3, WalkAssumption
    <3>5. QED
      BY <1>2, <2>2, <3>3, <3>4
  <2>3. QED
    BY <1>1, <2>1, <2>2 DEF SeenBehindCursor
<1>10. RequestFollowsCursor' /\ ReplyCoversStable'
  BY <1>1 DEF RequestFollowsCursor, ReplyCoversStable
<1>11. QED
  BY <1>6, <1>7, <1>8, <1>9, <1>10

\* WalkInv is inductive: it holds at the start, and no step of the client,
\* the server or the importer breaks it.
THEOREM WalkInvariant == Spec => []WalkInv
<1>1. WalkInv /\ [Next]_vars => WalkInv'
  <2> SUFFICES ASSUME WalkInv, [Next]_vars PROVE WalkInv'
    OBVIOUS
  <2>1. CASE AskSome
    BY <2>1, AskInvariant DEF AskSome
  <2>2. CASE Query
    BY <2>2, QueryInvariant
  <2>3. CASE Fail
    BY <2>3, FailInvariant
  <2>4. CASE Receive
    BY <2>4, ReceiveInvariant
  <2>5. CASE Commit
    BY <2>5, CommitInvariant
  <2>6. CASE UNCHANGED vars
    BY <2>6 DEF vars, WalkInv, TypeOK, NoDuplicates, StableRowsDelivered,
                SeenBehindCursor, RequestFollowsCursor, ReplyCoversStable
  <2>7. QED
    BY <2>1, <2>2, <2>3, <2>4, <2>5, <2>6 DEF Next
<1>2. QED
  BY <1>1, InitInvariant, PTL DEF Spec

-----------------------------------------------------------------------------
(* The theorems.                                                           *)

\* Every variable keeps its type, whatever the page sizes, the failures and
\* the commits (the request and the page hold int32 identifiers only).
THEOREM TypeCorrect == Spec => []TypeOK
BY WalkInvariant, PTL DEF WalkInv

\* For every table and page size, no identifier is delivered twice or out of
\* order (the keyset predicate, ORDER BY and NextAfterID together).
THEOREM WalkHasNoDuplicates == Spec => []NoDuplicates
BY WalkInvariant, PTL DEF WalkInv

\* For every table and page size, no row that matched throughout the walk is
\* skipped (the look-ahead row dropped by NewPage comes back on the next page).
THEOREM WalkDeliversStableRows == Spec => []StableRowsDelivered
BY WalkInvariant, PTL DEF WalkInv

\* For every table and page size, has_more and next_after_id are exact for
\* the snapshot the page was read from.
THEOREM WalkHasMoreTruthful == Spec => HasMoreTruthful
<1> DEFINE Truthful ==
      phase = "parsed" /\ phase' = "answered" =>
        LET beyond == {id \in table : id > request.after} IN
        /\ Len(reply'.items) <= request.size
        /\ reply'.hasMore <=> beyond \ Keys(reply'.items) # {}
        /\ reply'.hasMore <=> reply'.next # None
<1>1. WalkInv /\ [Next]_vars => [Truthful]_vars
  <2> SUFFICES ASSUME WalkInv, Next, phase = "parsed", phase' = "answered"
               PROVE  Truthful
    OBVIOUS
  <2>1. Query
    BY DEF Next, AskSome, Ask, Fail, Receive, Commit
  <2>2. request \in PageRequest /\ table \subseteq ResourceIDs
    BY DEF WalkInv, RequestFollowsCursor, TypeOK
  <2>3. PICK rows \in SelectPage(request) :
          reply' = PageResponseOf(NewPage(rows, request.size))
    BY <2>1 DEF Query
  <2>4. /\ Len(reply'.items) <= request.size
        /\ reply'.hasMore <=> MatchingBeyond(request.after) \ Keys(reply'.items) # {}
        /\ reply'.hasMore <=> reply'.next # None
    BY <2>2, <2>3, QueryFacts
  <2>5. QED
    BY <2>4 DEF MatchingBeyond
<1>2. QED
  BY <1>1, WalkInvariant, PTL DEF Spec, HasMoreTruthful

-----------------------------------------------------------------------------
(* Refinement.                                                             *)

\* Receiving a page is a delivery: it extends what was delivered, in order,
\* by rows that were committed, and passes over no stable row.
LEMMA ReceiveDelivers ==
  ASSUME WalkInv, Receive
  PROVE  Promise!Deliver
<1> USE DEF WalkInv
<1>1. /\ phase = "answered" /\ WalkInv'
      /\ phase' = IF reply.hasMore THEN "idle" ELSE "done"
      /\ cursor' = IF reply.hasMore THEN reply.next ELSE cursor
      /\ UNCHANGED <<table, stable, ever>>
  BY ReceiveInvariant DEF Receive
<1>2. /\ seen' = seen \o reply.items
      /\ seen \in Seq(ResourceIDs)
      /\ reply.items \in Seq(ResourceIDs)
      /\ Keys(seen') = Keys(seen) \cup Keys(reply.items)
  BY <1>1, ReceiveFacts DEF TypeOK, ReplyCoversStable, PageResponse
<1>3. Len(seen) <= Len(seen') /\ seen = SubSeq(seen', 1, Len(seen))
  <2> DEFINE s == seen
             t == reply.items
             u == seen'
  <2>1. s \in Seq(ResourceIDs) /\ t \in Seq(ResourceIDs) /\ u = s \o t
    BY <1>2
  <2> HIDE DEF s, t, u
  <2>2. Len(s) <= Len(u) /\ s = SubSeq(u, 1, Len(s))
    BY <2>1
  <2>3. QED
    BY <2>2 DEF s, u
<1>4. Ascending(seen') /\ Keys(seen') \subseteq ever
  BY <1>1 DEF NoDuplicates, SeenBehindCursor
<1>5. Promise!NothingPassedOver(seen', phase' = "done")
  <2>1. SUFFICES ASSUME NEW x \in stable,
                        phase' = "done" \/ \E y \in Keys(seen') : x <= y
                 PROVE  x \in Keys(seen')
    BY DEF Promise!NothingPassedOver, Promise!Keys, Keys
  <2>2. CASE phase' = "done"
    BY <1>1, <2>2 DEF StableRowsDelivered
  <2>3. CASE phase' # "done"
    <3>1. PICK y \in Keys(seen') : x <= y
      BY <2>1, <2>3
    <3>2. y <= OrElse(cursor', 0)
      BY <1>1, <2>3 DEF SeenBehindCursor
    <3>3. cursor' \in ResourceIDs \cup {None}
      BY <1>1 DEF TypeOK
    <3>4. x \in ResourceIDs /\ y \in ResourceIDs
      BY <1>1, <1>4 DEF TypeOK
    <3>5. cursor' # None /\ x <= cursor'
      <4>1. x \in Int /\ x > 0 /\ y \in Int
        BY <3>4, WalkAssumption DEF ResourceIDs
      <4>2. /\ OrElse(cursor', 0) \in Int
            /\ cursor' = None => OrElse(cursor', 0) = 0
            /\ cursor' # None => OrElse(cursor', 0) = cursor'
        BY <3>3, CursorFacts, WalkAssumption
      <4>3. QED
        BY <3>1, <3>2, <4>1, <4>2
    <3>6. QED
      BY <1>1, <3>5 DEF StableRowsDelivered
  <2>4. QED
    BY <2>2, <2>3
<1>6. QED
  BY <1>1, <1>3, <1>4, <1>5
     DEF Promise!Deliver, Promise!Ascending, Promise!Keys, Ascending, Keys

\* The walk implements the abstract enumeration: every step of the client,
\* the server and the importer is a delivery, a commit or a stutter.
THEOREM WalkImplementsEnumeration == Spec => ImplementsEnumeration
<1>1. Init => Promise!Init
  BY DEF Init, Promise!Init
<1>2. WalkInv /\ [Next]_vars => [Promise!Next]_(Promise!vars)
  <2> SUFFICES ASSUME WalkInv, [Next]_vars
               PROVE  Promise!Next \/ UNCHANGED Promise!vars
    OBVIOUS
  <2>1. CASE AskSome
    BY <2>1 DEF AskSome, Ask, Promise!vars
  <2>2. CASE Query
    BY <2>2 DEF Query, Promise!vars
  <2>3. CASE Fail
    BY <2>3 DEF Fail, Promise!vars
  <2>4. CASE Receive
    BY <2>4, ReceiveDelivers DEF Promise!Next
  <2>5. CASE Commit
    BY <2>5 DEF Commit, Promise!Next, Promise!Commit, Promise!History
  <2>6. CASE UNCHANGED vars
    BY <2>6 DEF vars, Promise!vars
  <2>7. QED
    BY <2>1, <2>2, <2>3, <2>4, <2>5, <2>6 DEF Next
<1>3. QED
  BY <1>1, <1>2, WalkInvariant, PTL DEF Spec, ImplementsEnumeration, Promise!Spec

-----------------------------------------------------------------------------
(* The cache.                                                              *)

\* A page the API has just computed covers the stable rows.
LEMMA ComputedPageCovers ==
  ASSUME TypeOK, NEW r \in PageRequest, NEW rows \in SelectPage(r),
         NEW p, p = PageResponseOf(NewPage(rows, r.size))
  PROVE  p \in PageResponse /\ PageCoversStable(r, p)
<1>1. table \subseteq ResourceIDs /\ stable \subseteq table /\ table \subseteq ever
  BY DEF TypeOK
<1>2. /\ p \in PageResponse
      /\ Ascending(p.items)
      /\ Keys(p.items) \subseteq MatchingBeyond(r.after)
      /\ p.hasMore => /\ p.next \in Keys(p.items)
                      /\ \A id \in Keys(p.items) : id <= p.next
      /\ \A id \in MatchingBeyond(r.after) :
           (p.hasMore => id <= p.next) => id \in Keys(p.items)
  BY <1>1, QueryFacts
<1>3. QED
  BY <1>1, <1>2 DEF PageCoversStable, MatchingBeyond

\* Storing such a page, or nothing, keeps the cache as it should be.
LEMMA StoreInvariant ==
  ASSUME CachedWalkInv, TypeOK', UNCHANGED <<stable, ever>>,
         NEW r \in PageRequest, NEW status \in {200, 500, 504}, NEW p,
         status = 200 => p \in PageResponse /\ PageCoversStable(r, p),
         Store(r, status, p)
  PROVE  CachedTypeOK' /\ StoredPagesCoverStable'
<1>1. CASE UNCHANGED cache
  BY <1>1 DEF CachedWalkInv, CachedTypeOK, StoredPagesCoverStable, PageCoversStable
<1>2. CASE ~UNCHANGED cache
  <2> DEFINE new == [request |-> r, status |-> status, page |-> p]
  <2>1. status = 200 /\ cache' = {e \in cache : e.request # r} \cup {new}
    BY <1>2 DEF Store, Cacheable
  <2>2. /\ new \in Entries /\ new.status = 200 /\ new.page \in PageResponse
        /\ new.request = r /\ PageCoversStable(new.request, new.page)
    BY <2>1 DEF Entries
  <2> HIDE DEF new
  <2>3. CachedTypeOK'
    BY <2>1, <2>2 DEF CachedWalkInv, CachedTypeOK
  <2>4. StoredPagesCoverStable'
    <3>1. \A e \in cache' : PageCoversStable(e.request, e.page)
      BY <2>1, <2>2 DEF CachedWalkInv, StoredPagesCoverStable
    <3>2. QED
      BY <3>1 DEF StoredPagesCoverStable, PageCoversStable
  <2>5. QED
    BY <2>3, <2>4
<1>3. QED
  BY <1>1, <1>2

-----------------------------------------------------------------------------
(* Each action preserves the invariant.                                    *)

LEMMA CachedInitInvariant == CachedInit => CachedWalkInv
BY InitInvariant
   DEF CachedInit, CachedWalkInv, WalkInv, CachedTypeOK, StoredPagesCoverStable

\* The walk's own steps that leave the cache and the histories alone.
LEMMA WalkStepInvariant ==
  ASSUME CachedWalkInv, WalkInv', UNCHANGED <<stable, ever, cache>>
  PROVE  CachedWalkInv'
BY DEF CachedWalkInv, WalkInv, CachedTypeOK, StoredPagesCoverStable, PageCoversStable

\* What Query sends may also be stored.
LEMMA CachedQueryInvariant ==
  ASSUME CachedWalkInv, CachedQuery
  PROVE  CachedWalkInv'
<1>1. WalkInv'
  BY QueryInvariant DEF CachedWalkInv, CachedQuery
<1>2. /\ request \in PageRequest /\ TypeOK
      /\ UNCHANGED <<table, stable, ever>>
  BY DEF CachedWalkInv, WalkInv, CachedQuery, Query, RequestFollowsCursor
<1>3. PICK rows \in SelectPage(request) :
        reply' = PageResponseOf(NewPage(rows, request.size))
  BY DEF CachedQuery, Query
<1>4. reply' \in PageResponse /\ PageCoversStable(request, reply')
  BY <1>2, <1>3, ComputedPageCovers
<1>5. CachedTypeOK' /\ StoredPagesCoverStable'
  <2>1. TypeOK'
    BY <1>1 DEF WalkInv
  <2>2. Store(request, 200, reply')
    BY DEF CachedQuery
  <2>3. QED
    BY <1>2, <1>4, <2>1, <2>2, StoreInvariant
<1>6. QED
  BY <1>1, <1>5 DEF CachedWalkInv

\* A stored page is as good as a fresh one.
LEMMA HitInvariant ==
  ASSUME CachedWalkInv, Hit
  PROVE  CachedWalkInv'
<1>1. PICK e \in cache :
        /\ e.request = request
        /\ e.status = 200
        /\ phase' = "answered" /\ reply' = e.page /\ request' = request
  BY DEF Hit, SameURL, CachedWalkInv, CachedTypeOK
<1>2. /\ phase = "parsed"
      /\ UNCHANGED <<table, stable, ever, cursor, seen, failures, cache>>
  BY DEF Hit
<1>3. reply' \in PageResponse /\ PageCoversStable(request, reply')
  BY <1>1 DEF CachedWalkInv, CachedTypeOK, StoredPagesCoverStable
<1>4. TypeOK'
  BY <1>1, <1>2, <1>3 DEF CachedWalkInv, WalkInv, TypeOK
<1>5. NoDuplicates' /\ StableRowsDelivered' /\ SeenBehindCursor' /\ RequestFollowsCursor'
  BY <1>1, <1>2
     DEF CachedWalkInv, WalkInv, NoDuplicates, StableRowsDelivered, SeenBehindCursor,
         RequestFollowsCursor
<1>6. ReplyCoversStable'
  BY <1>1, <1>2, <1>3 DEF ReplyCoversStable, PageCoversStable
<1>7. QED
  BY <1>2, <1>4, <1>5, <1>6, WalkStepInvariant DEF WalkInv

\* No problem is stored.
LEMMA CachedFailInvariant ==
  ASSUME CachedWalkInv, CachedFail
  PROVE  CachedWalkInv'
<1>1. WalkInv' /\ UNCHANGED <<stable, ever>>
  BY FailInvariant DEF CachedWalkInv, CachedFail, Fail
<1>2. UNCHANGED cache
  BY DEF CachedFail, Store, Cacheable
<1>3. QED
  BY <1>1, <1>2, WalkStepInvariant

\* Another client's page covers the stable rows as well.
LEMMA FillInvariant ==
  ASSUME CachedWalkInv, Fill
  PROVE  CachedWalkInv'
<1>1. WalkInv' /\ UNCHANGED <<stable, ever>>
  BY DEF Fill, vars, CachedWalkInv, WalkInv, TypeOK, NoDuplicates, StableRowsDelivered,
         SeenBehindCursor, RequestFollowsCursor, ReplyCoversStable
<1>2. PICK r \in PageRequest :
        \E rows \in SelectPage(r) : Store(r, 200, PageResponseOf(NewPage(rows, r.size)))
  BY DEF Fill
<1>3. PICK rows \in SelectPage(r) : Store(r, 200, PageResponseOf(NewPage(rows, r.size)))
  BY <1>2
<1>4. \A p : p = PageResponseOf(NewPage(rows, r.size)) =>
        p \in PageResponse /\ PageCoversStable(r, p)
  <2>1. TypeOK
    BY DEF CachedWalkInv, WalkInv
  <2>2. QED
    BY <2>1, ComputedPageCovers
<1>5. CachedTypeOK' /\ StoredPagesCoverStable'
  <2>1. TypeOK'
    BY <1>1 DEF WalkInv
  <2>2. QED
    BY <1>1, <1>3, <1>4, <2>1, StoreInvariant
<1>6. QED
  BY <1>1, <1>5 DEF CachedWalkInv

LEMMA EvictInvariant ==
  ASSUME CachedWalkInv, Evict
  PROVE  CachedWalkInv'
<1>1. WalkInv' /\ TypeOK' /\ UNCHANGED <<stable, ever>> /\ cache' \subseteq cache
  BY DEF Evict, vars, CachedWalkInv, WalkInv, TypeOK, NoDuplicates, StableRowsDelivered,
         SeenBehindCursor, RequestFollowsCursor, ReplyCoversStable
<1>2. QED
  BY <1>1 DEF CachedWalkInv, CachedTypeOK, StoredPagesCoverStable, PageCoversStable

\* A commit shrinks stable and grows ever; what was covered stays so.
LEMMA CachedCommitInvariant ==
  ASSUME CachedWalkInv, Commit, UNCHANGED cache
  PROVE  CachedWalkInv'
<1>1. WalkInv' /\ stable' \subseteq stable /\ ever \subseteq ever'
  BY CommitInvariant DEF CachedWalkInv, Commit
<1>2. CachedTypeOK' /\ StoredPagesCoverStable'
  BY <1>1 DEF CachedWalkInv, WalkInv, CachedTypeOK, StoredPagesCoverStable, PageCoversStable
<1>3. QED
  BY <1>1, <1>2 DEF CachedWalkInv

\* CachedWalkInv is inductive: stored pages stay pages a walk may go on from,
\* whatever the importer commits (writeJSON's Cache-Control rule).
THEOREM CachedWalkInvariant == CachedSpec => []CachedWalkInv
<1>1. CachedWalkInv /\ [CachedNext]_cachedVars => CachedWalkInv'
  <2> SUFFICES ASSUME CachedWalkInv, [CachedNext]_cachedVars PROVE CachedWalkInv'
    OBVIOUS
  <2>1. CASE CachedQuery
    BY <2>1, CachedQueryInvariant
  <2>2. CASE Hit
    BY <2>2, HitInvariant
  <2>3. CASE CachedFail
    BY <2>3, CachedFailInvariant
  <2>4. CASE Fill
    BY <2>4, FillInvariant
  <2>5. CASE Evict
    BY <2>5, EvictInvariant
  <2>6. CASE AskSome /\ UNCHANGED cache
    <3>1. WalkInv'
      BY <2>6, AskInvariant DEF AskSome, CachedWalkInv
    <3>2. UNCHANGED <<stable, ever, cache>>
      BY <2>6 DEF AskSome, Ask
    <3>3. QED
      BY <3>1, <3>2, WalkStepInvariant
  <2>7. CASE Receive /\ UNCHANGED cache
    <3>1. WalkInv' /\ UNCHANGED <<stable, ever, cache>>
      BY <2>7, ReceiveInvariant DEF Receive, CachedWalkInv
    <3>2. QED
      BY <3>1, WalkStepInvariant
  <2>8. CASE Commit /\ UNCHANGED cache
    BY <2>8, CachedCommitInvariant
  <2>9. CASE UNCHANGED cachedVars
    BY <2>9 DEF cachedVars, vars, CachedWalkInv, WalkInv, TypeOK, NoDuplicates,
                StableRowsDelivered, SeenBehindCursor, RequestFollowsCursor,
                ReplyCoversStable, CachedTypeOK, StoredPagesCoverStable, PageCoversStable
  <2>10. QED
    BY <2>1, <2>2, <2>3, <2>4, <2>5, <2>6, <2>7, <2>8, <2>9 DEF CachedNext, Answered
<1>2. QED
  BY <1>1, CachedInitInvariant, PTL DEF CachedSpec

-----------------------------------------------------------------------------
(* Refinement.                                                             *)

\* Through a cache, too, a walk is an enumeration: in order, each row once, no
\* row passed over that has matched since a cache lifetime before the walk.
THEOREM CachedWalkImplementsEnumeration == CachedSpec => ImplementsEnumeration
<1>1. CachedInit => Promise!Init
  BY DEF CachedInit, Init, Promise!Init
<1>2. CachedWalkInv /\ [CachedNext]_cachedVars => [Promise!Next]_(Promise!vars)
  <2> SUFFICES ASSUME CachedWalkInv, [CachedNext]_cachedVars
               PROVE  Promise!Next \/ UNCHANGED Promise!vars
    OBVIOUS
  <2>1. CASE CachedQuery
    BY <2>1 DEF CachedQuery, Query, Promise!vars
  <2>2. CASE Hit
    <3>1. phase = "parsed" /\ phase' \in {"answered", "idle"}
          /\ UNCHANGED <<table, stable, ever, seen>>
      BY <2>2 DEF Hit
    <3>2. QED
      BY <3>1 DEF Promise!vars
  <2>3. CASE CachedFail
    BY <2>3 DEF CachedFail, Fail, Promise!vars
  <2>4. CASE Fill \/ Evict
    BY <2>4 DEF Fill, Evict, vars, Promise!vars
  <2>5. CASE AskSome
    BY <2>5 DEF AskSome, Ask, Promise!vars
  <2>6. CASE Receive
    BY <2>6, ReceiveDelivers DEF CachedWalkInv, Promise!Next
  <2>7. CASE Commit
    BY <2>7 DEF Commit, Promise!Next, Promise!Commit, Promise!History
  <2>8. CASE UNCHANGED cachedVars
    BY <2>8 DEF cachedVars, vars, Promise!vars
  <2>9. QED
    BY <2>1, <2>2, <2>3, <2>4, <2>5, <2>6, <2>7, <2>8 DEF CachedNext, Answered
<1>3. QED
  BY <1>1, <1>2, CachedWalkInvariant, PTL DEF CachedSpec, ImplementsEnumeration, Promise!Spec

-----------------------------------------------------------------------------
(* A walk while nothing is committed.                                      *)

\* Read in pages, a collection that did not change is the collection read by
\* one statement without a LIMIT that cuts.
QuietWalkReadsAll ==
  phase = "done" /\ stable = ever => OrderedLimit(table, Cardinality(table)) = {seen}

LEMMA QuietWalk == WalkInv => QuietWalkReadsAll
<1> SUFFICES ASSUME WalkInv, phase = "done", stable = ever
             PROVE  OrderedLimit(table, Cardinality(table)) = {seen}
  BY DEF QuietWalkReadsAll
<1>1. /\ stable \subseteq table /\ table \subseteq ever /\ seen \in Seq(ResourceIDs)
      /\ Keys(seen) \subseteq ever /\ Ascending(seen)
  BY DEF WalkInv, TypeOK, SeenBehindCursor, NoDuplicates
<1>2. stable \subseteq Keys(seen)
  BY DEF WalkInv, StableRowsDelivered
<1>3. table = Keys(seen)
  BY <1>1, <1>2
<1>4. seen \in Seq(Int)
  <2>1. ResourceIDs \subseteq Int
    BY WalkAssumption DEF ResourceIDs
  <2>2. QED
    BY <1>1, <2>1, SeqSubset
<1>5. QED
  BY <1>1, <1>3, <1>4, WholeTable

\* Whatever sizes its pages have and however often it tries again, a walk of
\* an unchanged collection ends with exactly its rows, in order (NewPage,
\* NextAfterID).
THEOREM QuietWalkIsComplete == Spec => []QuietWalkReadsAll
BY WalkInvariant, QuietWalk, PTL

\* The same of a walk through a cache, when nothing was committed since the
\* oldest page the cache may hold.
THEOREM QuietCachedWalkIsComplete == CachedSpec => []QuietWalkReadsAll
<1>1. CachedWalkInv => QuietWalkReadsAll
  BY QuietWalk DEF CachedWalkInv
<1>2. QED
  BY <1>1, CachedWalkInvariant, PTL

-----------------------------------------------------------------------------
(* Progress: the part of WalkEnds that no scheduling is needed for.        *)

\* The statement of a request has one result, whatever was committed.
StatementAnswers ==
  phase = "parsed" => \E rows \in Seq(ResourceIDs) : SelectPage(request) = {rows}

\* No request waits for a result that does not exist, and PostgreSQL has no
\* choice between two (ORDER BY the key and LIMIT, in SelectPage).
THEOREM WalkStatementsAnswer == Spec => []StatementAnswers
<1>1. ASSUME WalkInv, phase = "parsed"
      PROVE  \E rows \in Seq(ResourceIDs) : SelectPage(request) = {rows}
  <2> DEFINE S == MatchingBeyond(request.after)
             n == FetchSize(request.size)
  <2>1. request \in PageRequest /\ table \subseteq ResourceIDs
    BY <1>1 DEF WalkInv, RequestFollowsCursor, TypeOK
  <2>2. ResourceIDs \subseteq Int /\ IsFiniteSet(ResourceIDs)
    <3>1. 1 \in Int /\ MaximumResourceID \in Int
      BY WalkAssumption
    <3>2. QED
      BY <3>1, FS_Interval DEF ResourceIDs
  <2>3. S \in SUBSET ResourceIDs
    BY <2>1 DEF MatchingBeyond
  <2>4. S \subseteq Int /\ IsFiniteSet(S)
    BY <2>2, <2>3, FS_Subset
  <2>5. n \in Nat
    BY <2>1, WalkAssumption DEF PageRequest, FetchSize
  <2> HIDE DEF S, n
  <2>6. PICK rows \in Seq(S) : OrderedLimit(S, n) = {rows}
    BY <2>4, <2>5, StatementDetermined
  <2>7. rows \in Seq(ResourceIDs)
    BY <2>3, <2>6, SeqSubset
  <2>8. QED
    BY <2>6, <2>7 DEF S, n, SelectPage
<1>2. WalkInv => StatementAnswers
  BY <1>1 DEF StatementAnswers
<1>3. QED
  BY <1>2, WalkInvariant, PTL

\* A step never has the server refuse a cursor or a size, never moves the
\* client's cursor back, and asks again only after a failure or further on.
Advances ==
  /\ phase # "rejected" => phase' # "rejected"
  /\ cursor' # cursor => OrElse(cursor', 0) > OrElse(cursor, 0)
  /\ phase \in {"parsed", "answered"} /\ phase' = "idle" =>
       failures' > failures \/ cursor' # cursor

\* What the parser accepts includes every cursor handed out and every size
\* README allows (parseBoundedInt64, parseBoundedInt).
LEMMA AskIsAccepted ==
  ASSUME WalkInv, NEW size \in (1..maximumPageSize) \cup {None}, Ask(size)
  PROVE  phase' = "parsed" /\ UNCHANGED cursor
<1>1. cursor \in ResourceIDs \cup {None}
  BY DEF WalkInv, TypeOK
<1>2. OrElse(cursor, 0) \in 0..MaximumResourceID
  BY <1>1, CursorFacts
<1>3. OrElse(size, defaultPageSize) \in 1..maximumPageSize
  BY NoneAssumption, WalkAssumption DEF OrElse
<1>4. QED
  BY <1>2, <1>3 DEF Ask, Accepts

\* A page that announces more carries a cursor beyond its request's.
LEMMA ReceiveAdvances ==
  ASSUME WalkInv, Receive
  PROVE  Advances
<1>1. phase = "answered" /\ phase' # "rejected"
  BY DEF Receive
<1>2. request.after = OrElse(cursor, 0)
  BY <1>1 DEF WalkInv, RequestFollowsCursor
<1>3. CASE reply.hasMore
  <2>1. reply.next \in Keys(reply.items)
    BY <1>1, <1>3 DEF WalkInv, ReplyCoversStable
  <2>2. reply.next > request.after
    BY <1>1, <2>1 DEF WalkInv, ReplyCoversStable
  <2>3. reply.next \in ResourceIDs
    BY <2>1, ReceiveFacts
  <2>4. cursor' = reply.next /\ OrElse(cursor', 0) = reply.next
    <3>1. cursor' = reply.next
      BY <1>3 DEF Receive
    <3>2. reply.next # None
      BY <2>3, NoneAssumption, WalkAssumption DEF ResourceIDs
    <3>3. QED
      BY <3>1, <3>2 DEF OrElse
  <2>5. OrElse(cursor', 0) > OrElse(cursor, 0)
    BY <1>2, <2>2, <2>4
  <2>6. cursor' # cursor
    <3>1. OrElse(cursor, 0) \in Int
      BY CursorFacts, WalkAssumption DEF WalkInv, TypeOK
    <3>2. QED
      BY <2>5, <3>1
  <2>7. QED
    BY <1>1, <2>5, <2>6 DEF Advances
<1>4. CASE ~reply.hasMore
  BY <1>1, <1>4 DEF Receive, Advances
<1>5. QED
  BY <1>3, <1>4

LEMMA WalkStepAdvances ==
  ASSUME WalkInv, AskSome \/ Query \/ Fail \/ Receive \/ Commit
  PROVE  Advances
<1>1. CASE AskSome
  <2>1. phase = "idle" /\ phase' = "parsed" /\ UNCHANGED cursor
    BY <1>1, AskIsAccepted DEF AskSome, Ask
  <2>2. QED
    BY <2>1 DEF Advances
<1>2. CASE Query
  BY <1>2 DEF Query, Advances
<1>3. CASE Fail
  <2>1. failures' > failures /\ phase' = "idle" /\ UNCHANGED cursor
    BY <1>3, WalkAssumption DEF Fail, WalkInv, TypeOK
  <2>2. QED
    BY <2>1 DEF Advances
<1>4. CASE Receive
  BY <1>4, ReceiveAdvances
<1>5. CASE Commit
  BY <1>5 DEF Commit, Advances
<1>6. QED
  BY <1>1, <1>2, <1>3, <1>4, <1>5

\* Every page kept but the last moves the cursor on: a walk has at most one
\* page for each identifier and a last one, and one attempt more for each
\* failure, whatever is committed meanwhile (NextAfterID, "id > $n").
THEOREM WalkAdvances == Spec => [][Advances]_vars
<1>1. WalkInv /\ [Next]_vars => [Advances]_vars
  BY WalkStepAdvances DEF Next
<1>2. QED
  BY <1>1, WalkInvariant, PTL DEF Spec

\* A cache never sends a client round in a circle: a stored page moves the
\* walk on, too, and no problem is replayed (writeJSON gives a success alone
\* its Cache-Control, and the URL it is stored under carries the cursor).
THEOREM CachedWalkAdvances == CachedSpec => [][Advances]_vars
<1>1. CachedWalkInv /\ [CachedNext]_cachedVars => [Advances]_vars
  <2> SUFFICES ASSUME CachedWalkInv, CachedNext, ~ UNCHANGED vars
               PROVE  Advances
    BY DEF cachedVars
  <2>1. CASE Hit
    <3>1. ASSUME NEW e \in cache PROVE e.status = 200
      BY DEF CachedWalkInv, CachedTypeOK
    <3>2. phase' = "answered" /\ UNCHANGED cursor
      BY <2>1, <3>1 DEF Hit
    <3>3. QED
      BY <3>2 DEF Advances
  <2>2. CASE AskSome \/ Query \/ Fail \/ Receive \/ Commit
    BY <2>2, WalkStepAdvances DEF CachedWalkInv
  <2>3. QED
    BY <2>1, <2>2 DEF CachedNext, Answered, CachedQuery, CachedFail, Fill, Evict
<1>2. QED
  BY <1>1, CachedWalkInvariant, PTL DEF CachedSpec

=============================================================================
