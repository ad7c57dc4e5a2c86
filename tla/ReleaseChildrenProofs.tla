------------------------ MODULE ReleaseChildrenProofs ------------------------
(***************************************************************************)
(* The walk of a release's tracks or identifiers is correct for every      *)
(* range of signed hashes, every page size, every number of failures and   *)
(* both kinds of importer: ChildrenInv is inductive, no answer has a       *)
(* status that was true at no instant, and the walk implements             *)
(* Enumeration.                                                            *)
(***************************************************************************)
EXTENDS ReleaseChildren, KeysetTheorems

-----------------------------------------------------------------------------
(* Facts about the constants, the cursors and the store's answer.          *)

LEMMA HashFacts ==
  /\ Hashes \subseteq Int
  /\ None \notin Hashes
  /\ None \notin Tokens
BY ChildrenAssumption, NoneAssumption DEF Hashes, Tokens

\* A token and the hash it stands for (encodeHashCursor, decodeHashCursor).
LEMMA CursorFacts ==
  ASSUME NEW token \in Tokens \cup {None}
  PROVE  /\ Decodes(token)
         /\ DecodeHashCursor(token) \in Hashes \cup {None}
         /\ token = None <=> DecodeHashCursor(token) = None
         /\ token # None => DecodeHashCursor(token) = token.decimal
BY HashFacts DEF Decodes, DecodeHashCursor, Tokens

\* Beyond by its members.
LEMMA BeyondFacts ==
  ASSUME NEW S, NEW after
  PROVE  \A h : h \in Beyond(S, after) <=> h \in S /\ (after = None \/ h > after)
BY DEF Beyond

\* The page of the first statement: in order, beyond the request's hash,
\* carrying a token when it was cut short, and holding every child up to it.
LEMMA PageReadFacts ==
  ASSUME NEW r \in HashPageRequest, NEW S \in SUBSET Hashes,
         NEW rows \in OrderedLimit(Beyond(S, r.after), FetchSize(r.size)),
         NEW p, p = HashPageResponseOf(NewPage(rows, r.size))
  PROVE  /\ p \in HashPageResponse
         /\ Ascending(p.items)
         /\ Keys(p.items) \subseteq Beyond(S, r.after)
         /\ p.hasMore =>
              /\ p.next # None
              /\ p.next.decimal \in Keys(p.items)
              /\ \A h \in Keys(p.items) : h <= p.next.decimal
         /\ \A h \in Beyond(S, r.after) :
              (p.hasMore => h <= p.next.decimal) => h \in Keys(p.items)
<1> DEFINE T == Beyond(S, r.after)
           page == NewPage(rows, r.size)
           next == NextAfter(page)
<1>1. T \subseteq Hashes /\ T \subseteq Int
  BY HashFacts DEF Beyond
<1>2. r.size \in Nat \ {0} /\ rows \in OrderedLimit(T, FetchSize(r.size))
  BY ChildrenAssumption DEF HashPageRequest
<1>3. /\ page.items \in Seq(T)
      /\ page.hasMore \in BOOLEAN
      /\ Ascending(page.items)
      /\ page.hasMore =>
           /\ next \in Keys(page.items)
           /\ \A x \in Keys(page.items) : x <= next
      /\ ~page.hasMore => next = None
      /\ \A x \in T : (page.hasMore => x <= next) => x \in Keys(page.items)
  <2> HIDE DEF T, page
  <2>1. \A pg : pg = NewPage(rows, r.size) =>
          /\ pg.items \in Seq(T)
          /\ pg.hasMore \in BOOLEAN
          /\ Ascending(pg.items)
          /\ pg.hasMore =>
               /\ NextAfter(pg) \in Keys(pg.items)
               /\ \A x \in Keys(pg.items) : x <= NextAfter(pg)
          /\ ~pg.hasMore => NextAfter(pg) = None
          /\ \A x \in T : (pg.hasMore => x <= NextAfter(pg)) => x \in Keys(pg.items)
    BY <1>1, <1>2, PageFacts
  <2> QED BY <2>1 DEF page
<1>4. p = [items |-> page.items, hasMore |-> page.hasMore, next |-> EncodeHashCursor(next)]
  BY DEF HashPageResponseOf
<1>5. p.items = page.items /\ p.hasMore = page.hasMore /\ p.next = EncodeHashCursor(next)
  BY <1>4
<1> HIDE DEF T, page, next
<1>6. Keys(page.items) \subseteq T
  <2>1. \A i \in DOMAIN page.items : page.items[i] \in T
    BY <1>3
  <2> QED BY <2>1 DEF Keys
<1>7. page.hasMore => /\ next \in Hashes /\ next # None
                      /\ p.next \in Tokens /\ p.next # None /\ p.next.decimal = next
  <2> SUFFICES ASSUME page.hasMore
               PROVE  /\ next \in Hashes /\ next # None
                      /\ p.next \in Tokens /\ p.next # None /\ p.next.decimal = next
    OBVIOUS
  <2>1. next \in Hashes /\ next # None
    BY <1>1, <1>3, <1>6, HashFacts
  <2>2. p.next = [decimal |-> next]
    BY <1>5, <2>1 DEF EncodeHashCursor
  <2>3. p.next \in Tokens
    BY <2>1, <2>2 DEF Tokens
  <2> QED BY <2>1, <2>2, <2>3, HashFacts
<1>8. ~page.hasMore => p.next = None
  BY <1>3, <1>5 DEF EncodeHashCursor
<1>9. page.items \in Seq(Hashes)
  BY <1>1, <1>3, SeqSubset
<1>10. p \in HashPageResponse
  BY <1>3, <1>4, <1>5, <1>7, <1>8, <1>9 DEF HashPageResponse
<1>11. \A h \in T : (p.hasMore => h <= p.next.decimal) => h \in Keys(p.items)
  BY <1>3, <1>5, <1>7
<1>12. p.hasMore =>
         /\ p.next # None
         /\ p.next.decimal \in Keys(p.items)
         /\ \A h \in Keys(p.items) : h <= p.next.decimal
  BY <1>3, <1>5, <1>7
<1> QED BY <1>3, <1>5, <1>6, <1>10, <1>11, <1>12 DEF T

-----------------------------------------------------------------------------
(* Each action preserves the invariant.                                    *)

LEMMA InitInvariant == Init => ChildrenInv
<1> SUFFICES ASSUME Init PROVE ChildrenInv
  OBVIOUS
<1>1. /\ seen = <<>> /\ cursor = None /\ phase = "idle" /\ stable = children
      /\ ever = children /\ request = None /\ reply = None /\ witnessed = {}
      /\ wholeRecords \in Importers /\ exists \in BOOLEAN
  BY DEF Init
<1>2. Keys(seen) = {} /\ Ascending(seen)
  BY <1>1 DEF Keys, Ascending
<1>3. TypeOK
  <2>1. failures \in 0..MaxFailures
    BY ChildrenAssumption DEF Init
  <2>2. children \subseteq Hashes /\ (children # {} => exists)
    BY DEF Init
  <2>3. seen \in Seq(Hashes)
    BY <1>1
  <2> QED BY <1>1, <2>1, <2>2, <2>3 DEF TypeOK
<1>4. StableDelivered /\ SeenBehindCursor
  BY <1>1, <1>2 DEF StableDelivered, SeenBehindCursor, Passed
<1> QED
  BY <1>1, <1>2, <1>3, <1>4
     DEF ChildrenInv, RequestFollowsCursor, ReplyCoversStable, Observing,
         StatusWitnessed, EmptyPageWitnessedByStages, EmptyPageWitnessed

\* Ask begins a request at the client's cursor; every token is accepted.
LEMMA AskInvariant ==
  ASSUME ChildrenInv, NEW size \in 1..maximumPageSize, Ask(size)
  PROVE  ChildrenInv'
<1> USE DEF ChildrenInv
<1>1. /\ phase = "idle"
      /\ UNCHANGED <<wholeRecords, exists, children, stable, ever, cursor, reply, seen,
                     failures>>
  BY DEF Ask, database
<1>2. /\ Decodes(cursor)
      /\ DecodeHashCursor(cursor) \in Hashes \cup {None}
  BY CursorFacts DEF TypeOK
<1>3. /\ phase' = "parsed"
      /\ request' = [after |-> DecodeHashCursor(cursor), size |-> size]
      /\ witnessed' = Observed(exists, children, DecodeHashCursor(cursor))
  BY <1>2 DEF Ask
<1>4. /\ request' \in HashPageRequest
      /\ request'.after = DecodeHashCursor(cursor)
  BY <1>2, <1>3 DEF HashPageRequest
<1>5. TypeOK'
  <2>1. witnessed' \subseteq {"absent", "present", "exhausted"}
    BY <1>3 DEF Observed
  <2> QED BY <1>1, <1>3, <1>4, <2>1 DEF TypeOK
<1>6. Ascending(seen)' /\ StableDelivered' /\ SeenBehindCursor'
  BY <1>1, <1>3 DEF StableDelivered, SeenBehindCursor, Passed
<1>7. RequestFollowsCursor' /\ ReplyCoversStable'
  BY <1>1, <1>3, <1>4 DEF RequestFollowsCursor, ReplyCoversStable, DecodeHashCursor
<1>8. Observing' /\ StatusWitnessed' /\ EmptyPageWitnessedByStages'
  BY <1>1, <1>3, <1>4
     DEF Observing, StatusWitnessed, EmptyPageWitnessedByStages, EmptyPageWitnessed
<1> QED BY <1>5, <1>6, <1>7, <1>8

\* The first statement reads one snapshot, which holds every stable child.
LEMMA ReadChildrenInvariant ==
  ASSUME ChildrenInv, ReadChildren
  PROVE  ChildrenInv'
<1> USE DEF ChildrenInv
<1>1. /\ phase = "parsed"
      /\ phase' = IF reply'.items # <<>> THEN "answered" ELSE "checking"
      /\ UNCHANGED <<wholeRecords, exists, children, stable, ever, cursor, request,
                     witnessed, seen, failures>>
  BY DEF ReadChildren, database
<1>2. /\ children \in SUBSET Hashes /\ stable \subseteq children /\ children \subseteq ever
      /\ request \in HashPageRequest
  BY <1>1 DEF TypeOK, RequestFollowsCursor
<1>3. PICK rows \in OrderedLimit(Beyond(children, request.after), FetchSize(request.size)) :
        reply' = HashPageResponseOf(NewPage(rows, request.size))
  BY DEF ReadChildren, LoadHashPage
<1>4. /\ reply' \in HashPageResponse
      /\ Ascending(reply'.items)
      /\ Keys(reply'.items) \subseteq Beyond(children, request.after)
      /\ reply'.hasMore =>
           /\ reply'.next # None
           /\ reply'.next.decimal \in Keys(reply'.items)
           /\ \A h \in Keys(reply'.items) : h <= reply'.next.decimal
      /\ \A h \in Beyond(children, request.after) :
           (reply'.hasMore => h <= reply'.next.decimal) => h \in Keys(reply'.items)
  BY <1>2, <1>3, PageReadFacts
<1>5. TypeOK'
  BY <1>1, <1>4 DEF TypeOK
<1>6. Ascending(seen)' /\ StableDelivered' /\ SeenBehindCursor' /\ RequestFollowsCursor'
  <2>1. phase' # "done"
    BY <1>1
  <2> QED
    BY <1>1, <2>1
       DEF StableDelivered, SeenBehindCursor, Passed, RequestFollowsCursor, DecodeHashCursor
<1>7. ReplyCoversStable'
  <2>1. Keys(reply'.items) \subseteq Beyond(ever, request.after)
    BY <1>2, <1>4 DEF Beyond
  <2>2. \A h \in Beyond(stable, request.after) :
          (reply'.hasMore => h <= reply'.next.decimal) => h \in Keys(reply'.items)
    BY <1>2, <1>4 DEF Beyond
  <2> QED BY <1>1, <1>4, <2>1, <2>2 DEF ReplyCoversStable, Beyond
<1>8. Observed(exists, children, request.after) \subseteq witnessed
  BY <1>1 DEF Observing
<1>9. CASE reply'.items # <<>>
  <2>1. phase' = "answered"
    BY <1>1, <1>9
  <2>2. PICK h : h \in Keys(reply'.items)
    <3>1. reply'.items \in Seq(Hashes)
      BY <1>4 DEF HashPageResponse
    <3>2. 1 \in DOMAIN reply'.items
      BY <1>9, <3>1
    <3> QED BY <3>2 DEF Keys
  <2>3. children # {}
    BY <1>4, <2>2 DEF Beyond
  <2>4. "present" \in witnessed
    BY <1>8, <2>3 DEF TypeOK, Observed
  <2>5. Observing' /\ StatusWitnessed' /\ EmptyPageWitnessedByStages'
    BY <1>1, <1>9, <2>1, <2>4
       DEF Observing, StatusWitnessed, EmptyPageWitnessedByStages, EmptyPageWitnessed
  <2> QED BY <1>5, <1>6, <1>7, <2>5
<1>10. CASE reply'.items = <<>>
  <2>1. phase' = "checking"
    BY <1>1, <1>10
  <2>2. Keys(reply'.items) = {}
    BY <1>10 DEF Keys
  <2>3. Beyond(children, request.after) = {}
    BY <1>4, <2>2
  <2>4. exists => "exhausted" \in witnessed
    BY <1>8, <2>3 DEF Observed
  <2>5. Observing' /\ StatusWitnessed' /\ EmptyPageWitnessedByStages'
    BY <1>1, <1>8, <1>10, <2>1, <2>4
       DEF Observing, StatusWitnessed, EmptyPageWitnessedByStages, EmptyPageWitnessed
  <2> QED BY <1>5, <1>6, <1>7, <2>5
<1> QED BY <1>9, <1>10

\* The second statement sees a later snapshot, which the observer sees too.
LEMMA RequireReleaseInvariant ==
  ASSUME ChildrenInv, RequireRelease
  PROVE  ChildrenInv'
<1> USE DEF ChildrenInv
<1>1. /\ phase = "checking"
      /\ phase' = IF exists THEN "answered" ELSE "notFound"
      /\ UNCHANGED <<wholeRecords, exists, children, stable, ever, cursor, request, reply,
                     witnessed, seen, failures>>
  BY DEF RequireRelease, database
<1>2. TypeOK'
  BY <1>1 DEF TypeOK
<1>3. phase' # "done" /\ phase' \in {"answered", "notFound"}
  BY <1>1
<1>4. Ascending(seen)' /\ StableDelivered' /\ SeenBehindCursor' /\ RequestFollowsCursor'
  BY <1>1, <1>3
     DEF StableDelivered, SeenBehindCursor, Passed, RequestFollowsCursor, DecodeHashCursor
<1>5. ReplyCoversStable'
  BY <1>1, <1>3 DEF ReplyCoversStable, Beyond
<1>6. Observed(exists, children, request.after) \subseteq witnessed
  BY <1>1 DEF Observing
<1>7. StatusWitnessed'
  BY <1>1, <1>6 DEF StatusWitnessed, Observed
<1>8. Observing' /\ EmptyPageWitnessedByStages'
  BY <1>1, <1>3 DEF Observing, EmptyPageWitnessedByStages, EmptyPageWitnessed
<1> QED BY <1>2, <1>4, <1>5, <1>7, <1>8

\* A failed attempt and a 404 leave the cursor and what has arrived alone.
LEMMA EndInvariant ==
  ASSUME ChildrenInv, Fail \/ ReceiveNotFound
  PROVE  ChildrenInv'
<1> USE DEF ChildrenInv
<1>1. /\ phase # "done"
      /\ phase' \in {"idle", "missing"}
      /\ request' = None /\ reply' = None /\ witnessed' = {}
      /\ UNCHANGED <<wholeRecords, exists, children, stable, ever, cursor, seen>>
  BY DEF Fail, ReceiveNotFound, database
<1>2. failures' \in 0..MaxFailures
  BY ChildrenAssumption DEF Fail, ReceiveNotFound, TypeOK
<1>3. TypeOK'
  BY <1>1, <1>2 DEF TypeOK
<1>4. Ascending(seen)' /\ StableDelivered' /\ SeenBehindCursor'
  BY <1>1 DEF StableDelivered, SeenBehindCursor, Passed
<1>5. /\ RequestFollowsCursor' /\ ReplyCoversStable' /\ Observing'
      /\ StatusWitnessed' /\ EmptyPageWitnessedByStages'
  BY <1>1
     DEF RequestFollowsCursor, ReplyCoversStable, Observing, StatusWitnessed,
         EmptyPageWitnessedByStages, EmptyPageWitnessed
<1> QED BY <1>3, <1>4, <1>5

\* A commit takes children away from the stable ones, and is observed.
LEMMA CommitInvariant ==
  ASSUME ChildrenInv, Commit
  PROVE  ChildrenInv'
<1> USE DEF ChildrenInv
<1>1. PICK isThere \in BOOLEAN :
        \E S \in SUBSET Hashes :
          /\ Committed(isThere, S)
          /\ S # {} => isThere
          /\ ~exists /\ S # {} => wholeRecords
  BY DEF Commit, CommitRelease, CommitChildren, CommitRemoval, TypeOK
<1>2. PICK S \in SUBSET Hashes :
        /\ Committed(isThere, S)
        /\ S # {} => isThere
        /\ ~exists /\ S # {} => wholeRecords
  BY <1>1
<1>3. /\ exists' = isThere /\ children' = S
      /\ stable' = stable \cap S /\ ever' = ever \cup S
      /\ UNCHANGED <<wholeRecords, phase, cursor, request, reply, seen, failures>>
  BY <1>2 DEF Committed
<1>4. /\ phase \in {"parsed", "checking"} =>
           witnessed' = witnessed \cup Observed(isThere, S, request.after)
      /\ phase \notin {"parsed", "checking"} => witnessed' = witnessed
  BY <1>2 DEF Committed
<1>5. witnessed \subseteq witnessed'
  BY <1>4
<1>6. TypeOK'
  <2>1. witnessed' \subseteq {"absent", "present", "exhausted"}
    BY <1>4 DEF TypeOK, Observed
  <2> QED BY <1>2, <1>3, <2>1 DEF TypeOK
<1>7. Ascending(seen)' /\ StableDelivered' /\ SeenBehindCursor' /\ RequestFollowsCursor'
  BY <1>3
     DEF StableDelivered, SeenBehindCursor, Passed, RequestFollowsCursor, DecodeHashCursor
<1>8. ReplyCoversStable'
  BY <1>3 DEF ReplyCoversStable, Beyond
<1>9. Observing'
  <2>1. phase \in {"parsed", "checking"} =>
          Observed(exists', children', request'.after) \subseteq witnessed'
    BY <1>3, <1>4
  <2>2. ASSUME phase = "checking", exists', ~wholeRecords'
        PROVE  "exhausted" \in witnessed'
    <3>1. CASE exists
      BY <1>3, <1>5, <2>2, <3>1 DEF Observing
    <3>2. CASE ~exists
      <4>1. S = {} /\ isThere
        BY <1>2, <1>3, <2>2, <3>2
      <4>2. Beyond(S, request.after) = {}
        BY <4>1 DEF Beyond
      <4>3. "exhausted" \in Observed(isThere, S, request.after)
        BY <4>1, <4>2 DEF Observed
      <4> QED BY <1>4, <2>2, <4>3
    <3> QED BY <3>1, <3>2
  <2> QED BY <1>3, <2>1, <2>2 DEF Observing
<1>10. StatusWitnessed' /\ EmptyPageWitnessedByStages'
  BY <1>3, <1>5 DEF StatusWitnessed, EmptyPageWitnessedByStages, EmptyPageWitnessed
<1> QED BY <1>6, <1>7, <1>8, <1>9, <1>10

\* What the client holds after a page: the page continues what it had.
LEMMA ReceiveFacts ==
  ASSUME ChildrenInv, Receive
  PROVE  /\ seen' = seen \o reply.items
         /\ seen' \in Seq(Hashes)
         /\ Ascending(seen')
         /\ Keys(seen') = Keys(seen) \cup Keys(reply.items)
<1> USE DEF ChildrenInv
<1>1. phase = "answered" /\ seen' = seen \o reply.items
  BY DEF Receive
<1>2. seen \in Seq(Hashes) /\ reply.items \in Seq(Hashes) /\ cursor \in Tokens \cup {None}
  BY <1>1 DEF TypeOK, ReplyCoversStable, HashPageResponse
<1>3. seen' \in Seq(Hashes)
  BY <1>1, <1>2
<1>4. seen \in Seq(Int) /\ reply.items \in Seq(Int)
  <2>1. \A s \in Seq(Hashes) : s \in Seq(Int)
    BY HashFacts, SeqSubset
  <2> QED BY <1>2, <2>1
<1>5. Keys(reply.items) \subseteq Int /\ Keys(seen) \subseteq Int
  BY <1>4 DEF Keys
<1>6. Ascending(seen) /\ Ascending(reply.items)
  BY <1>1 DEF ReplyCoversStable
<1>7. ASSUME NEW x \in Keys(seen), NEW y \in Keys(reply.items)
      PROVE  x < y
  <2>1. cursor # None /\ x <= cursor.decimal
    BY <1>1 DEF SeenBehindCursor, Passed
  <2>2. request.after = cursor.decimal /\ request.after \in Hashes
    BY <1>1, <1>2, <2>1, CursorFacts, HashFacts DEF RequestFollowsCursor
  <2>3. y > request.after
    BY <1>1, <2>2, HashFacts DEF ReplyCoversStable, Beyond
  <2>4. x \in Int /\ y \in Int /\ request.after \in Int
    BY <1>5, <1>7, <2>2, HashFacts
  <2>5. x <= request.after /\ y > request.after
    BY <2>1, <2>2, <2>3
  <2> HIDE DEF ChildrenInv
  <2> QED BY <2>4, <2>5
<1>8. /\ Ascending(seen \o reply.items)
      /\ Keys(seen \o reply.items) = Keys(seen) \cup Keys(reply.items)
  BY <1>4, <1>6, <1>7, ConcatAscending
<1> QED BY <1>1, <1>3, <1>8

\* The page delivers the stable children from the old cursor to the new one.
LEMMA ReceiveInvariant ==
  ASSUME ChildrenInv, Receive
  PROVE  ChildrenInv'
<1> USE DEF ChildrenInv
<1>1. /\ phase = "answered" /\ request' = None /\ reply' = None /\ witnessed' = {}
      /\ cursor' = IF reply.hasMore THEN reply.next ELSE cursor
      /\ phase' = IF reply.hasMore THEN "idle" ELSE "done"
      /\ UNCHANGED <<wholeRecords, exists, children, stable, ever, failures>>
  BY DEF Receive, database
<1>2. /\ seen' \in Seq(Hashes)
      /\ Ascending(seen')
      /\ Keys(seen') = Keys(seen) \cup Keys(reply.items)
  BY ReceiveFacts
<1>3. /\ cursor \in Tokens \cup {None}
      /\ stable \subseteq Hashes
      /\ reply \in HashPageResponse
      /\ request.after = DecodeHashCursor(cursor)
  BY <1>1 DEF TypeOK, RequestFollowsCursor, ReplyCoversStable
<1>4. reply.hasMore =>
        /\ cursor' = reply.next /\ cursor' # None
        /\ cursor'.decimal \in Keys(reply.items)
        /\ \A h \in Keys(reply.items) : h <= cursor'.decimal
  BY <1>1 DEF ReplyCoversStable
<1>5. /\ Keys(reply.items) \subseteq Beyond(ever, request.after)
      /\ \A h \in Beyond(stable, request.after) :
           (reply.hasMore => h <= reply.next.decimal) => h \in Keys(reply.items)
  BY <1>1 DEF ReplyCoversStable
<1>6. TypeOK'
  <2>1. cursor' \in Tokens \cup {None}
    BY <1>1, <1>3 DEF HashPageResponse
  <2>2. phase' \in {"idle", "done"}
    BY <1>1
  <2> QED BY <1>1, <1>2, <2>1, <2>2 DEF TypeOK
<1>7. StableDelivered'
  <2>1. SUFFICES ASSUME NEW h \in stable,
                        phase' = "done" \/ (cursor' # None /\ h <= cursor'.decimal)
                 PROVE  h \in Keys(seen')
    BY <1>1 DEF StableDelivered, Passed
  <2>2. reply.hasMore => h <= reply.next.decimal
    BY <1>1, <1>4, <2>1
  <2>3. CASE h \in Beyond(stable, request.after)
    BY <1>2, <1>5, <2>2, <2>3
  <2>4. CASE h \notin Beyond(stable, request.after)
    <3>1. request.after # None /\ ~(h > request.after)
      BY <2>4 DEF Beyond
    <3>2. cursor # None /\ request.after = cursor.decimal /\ request.after \in Hashes
      BY <1>3, <3>1, CursorFacts
    <3>3. h <= cursor.decimal
      BY <1>3, <3>1, <3>2, HashFacts
    <3>4. h \in Keys(seen)
      BY <3>2, <3>3 DEF StableDelivered, Passed
    <3> QED BY <1>2, <3>4
  <2> QED BY <2>3, <2>4
<1>8. SeenBehindCursor'
  <2>1. Keys(seen') \subseteq ever'
    BY <1>1, <1>2, <1>5 DEF SeenBehindCursor, Beyond
  <2>2. ASSUME phase' # "done", NEW h \in Keys(seen')
        PROVE  cursor' # None /\ h <= cursor'.decimal
    <3>1. reply.hasMore
      BY <1>1, <2>2
    <3>2. cursor' # None /\ cursor'.decimal \in Keys(reply.items)
      BY <1>4, <3>1
    <3>3. CASE h \in Keys(reply.items)
      BY <1>4, <3>1, <3>2, <3>3
    <3>4. CASE h \in Keys(seen)
      <4>1. cursor # None /\ h <= cursor.decimal
        BY <1>1, <3>4 DEF SeenBehindCursor, Passed
      <4>2. request.after = cursor.decimal /\ request.after \in Hashes /\ request.after # None
        BY <1>3, <4>1, CursorFacts, HashFacts
      <4>3. cursor'.decimal > request.after /\ cursor'.decimal \in ever
        BY <1>5, <3>2, <4>2 DEF Beyond
      <4>4. cursor'.decimal \in Int /\ h \in Int /\ cursor.decimal \in Int
        <5>1. h \in ever /\ ever \subseteq Hashes
          BY <3>4 DEF SeenBehindCursor, TypeOK
        <5> QED BY <4>2, <4>3, <5>1, HashFacts
      <4> QED BY <3>2, <4>1, <4>2, <4>3, <4>4
    <3> QED BY <1>2, <2>2, <3>3, <3>4
  <2> QED BY <2>1, <2>2 DEF SeenBehindCursor, Passed
<1>9. /\ RequestFollowsCursor' /\ ReplyCoversStable' /\ Observing'
      /\ StatusWitnessed' /\ EmptyPageWitnessedByStages'
  BY <1>1
     DEF RequestFollowsCursor, ReplyCoversStable, Observing, StatusWitnessed,
         EmptyPageWitnessedByStages, EmptyPageWitnessed
<1> QED BY <1>2, <1>6, <1>7, <1>8, <1>9

\* ChildrenInv is inductive: it holds at the start, and no step of the client,
\* the server or the importer breaks it.
THEOREM ChildrenInvariant == Spec => []ChildrenInv
<1>1. ChildrenInv /\ [Next]_vars => ChildrenInv'
  <2> SUFFICES ASSUME ChildrenInv, [Next]_vars PROVE ChildrenInv'
    OBVIOUS
  <2>1. CASE AskSome
    BY <2>1, AskInvariant DEF AskSome
  <2>2. CASE Read
    BY <2>2, ReadChildrenInvariant, RequireReleaseInvariant DEF Read
  <2>3. CASE Fail \/ ReceiveNotFound
    BY <2>3, EndInvariant
  <2>4. CASE Receive
    BY <2>4, ReceiveInvariant
  <2>5. CASE Commit
    BY <2>5, CommitInvariant
  <2>6. CASE UNCHANGED vars
    BY <2>6
       DEF vars, ChildrenInv, TypeOK, SeenBehindCursor, StableDelivered, Passed,
           RequestFollowsCursor, DecodeHashCursor, ReplyCoversStable, Beyond, Observing,
           Observed, StatusWitnessed, EmptyPageWitnessedByStages, EmptyPageWitnessed
  <2> QED BY <2>1, <2>2, <2>3, <2>4, <2>5, <2>6 DEF Next
<1> QED BY <1>1, InitInvariant, PTL DEF Spec

-----------------------------------------------------------------------------
(* The theorems.                                                           *)

\* For every release and importer, 404 is answered only if the release was
\* absent, 200 only if it was there, at some time of the request
\* (requireRelease).
THEOREM StatusIsWitnessed == Spec => []StatusWitnessed
BY ChildrenInvariant, PTL DEF ChildrenInv

\* With an importer that commits in stages, an empty page is answered only if
\* the release was there without further children at some time of the request
\* (ReleaseTracks and ReleaseIdentifiers before requireRelease).
THEOREM EmptyPageIsWitnessed == Spec => []EmptyPageWitnessedByStages
BY ChildrenInvariant, PTL DEF ChildrenInv

\* Receiving a page is a delivery of the abstract enumeration.
LEMMA ReceiveDelivers ==
  ASSUME ChildrenInv, Receive
  PROVE  Promise!Deliver
<1> USE DEF ChildrenInv
<1>1. /\ phase = "answered" /\ ChildrenInv'
      /\ UNCHANGED <<children, stable, ever>>
  BY ReceiveInvariant DEF Receive, database
<1>2. /\ seen' = seen \o reply.items
      /\ seen \in Seq(Hashes) /\ reply.items \in Seq(Hashes)
  BY <1>1, ReceiveFacts DEF TypeOK, ReplyCoversStable, HashPageResponse
<1>3. Len(seen) <= Len(seen') /\ seen = SubSeq(seen', 1, Len(seen))
  <2> DEFINE s == seen
             t == reply.items
             u == seen'
  <2>1. s \in Seq(Hashes) /\ t \in Seq(Hashes) /\ u = s \o t
    BY <1>2
  <2> HIDE DEF s, t, u
  <2>2. Len(s) <= Len(u) /\ s = SubSeq(u, 1, Len(s))
    BY <2>1
  <2> QED BY <2>2 DEF s, u
<1>4. Ascending(seen') /\ Keys(seen') \subseteq ever
  BY <1>1 DEF SeenBehindCursor
<1>5. Promise!NothingPassedOver(seen', phase' = "done")
  <2>1. SUFFICES ASSUME NEW x \in stable,
                        phase' = "done" \/ \E y \in Keys(seen') : x <= y
                 PROVE  x \in Keys(seen')
    BY DEF Promise!NothingPassedOver, Promise!Keys, Keys
  <2>2. CASE phase' = "done"
    BY <1>1, <2>2 DEF StableDelivered
  <2>3. CASE phase' # "done"
    <3>1. PICK y \in Keys(seen') : x <= y
      BY <2>1, <2>3
    <3>2. cursor' # None /\ y <= cursor'.decimal
      BY <1>1, <2>3 DEF SeenBehindCursor, Passed
    <3>3. x \in Int /\ y \in Int /\ cursor'.decimal \in Int
      <4>1. x \in Hashes /\ y \in Hashes
        BY <1>1, <1>4 DEF TypeOK
      <4>2. cursor'.decimal \in Hashes
        BY <1>1, <3>2 DEF TypeOK, Tokens
      <4> QED BY <4>1, <4>2, HashFacts
    <3>4. x <= cursor'.decimal
      BY <3>1, <3>2, <3>3
    <3> QED BY <1>1, <3>2, <3>4 DEF StableDelivered, Passed
  <2> QED BY <2>2, <2>3
<1> QED
  BY <1>1, <1>3, <1>4, <1>5
     DEF Promise!Deliver, Promise!Ascending, Promise!Keys, Ascending, Keys

\* The walk over signed hashes implements the abstract enumeration: every step
\* of the client, the server and the importer is a delivery, a commit or a
\* stutter, and a hash's sign makes no difference.
THEOREM ChildrenImplementEnumeration == Spec => ImplementsEnumeration
<1>1. Init => Promise!Init
  <2> SUFFICES ASSUME Init PROVE Promise!Init
    OBVIOUS
  <2>1. children \in SUBSET Hashes
    BY DEF Init
  <2> QED BY <2>1 DEF Init, Promise!Init
<1>2. ChildrenInv /\ [Next]_vars => [Promise!Next]_(Promise!vars)
  <2> SUFFICES ASSUME ChildrenInv, [Next]_vars
               PROVE  Promise!Next \/ UNCHANGED Promise!vars
    OBVIOUS
  <2>1. CASE AskSome
    BY <2>1 DEF AskSome, Ask, database, Promise!vars
  <2>2. CASE Read
    BY <2>2 DEF Read, ReadChildren, RequireRelease, database, Promise!vars
  <2>3. CASE Fail \/ ReceiveNotFound
    BY <2>3 DEF Fail, ReceiveNotFound, database, Promise!vars
  <2>4. CASE Receive
    BY <2>4, ReceiveDelivers DEF Promise!Next
  <2>5. CASE Commit
    BY <2>5
       DEF Commit, CommitRelease, CommitChildren, CommitRemoval, Committed, Promise!Next,
           Promise!Commit, Promise!History
  <2>6. CASE UNCHANGED vars
    BY <2>6 DEF vars, Promise!vars
  <2> QED BY <2>1, <2>2, <2>3, <2>4, <2>5, <2>6 DEF Next
<1> QED
  BY <1>1, <1>2, ChildrenInvariant, PTL DEF Spec, ImplementsEnumeration, Promise!Spec

-----------------------------------------------------------------------------
(* A walk while nothing is committed.                                      *)

\* Read in pages, children that did not change are those read by one statement
\* without a LIMIT that cuts.
QuietWalkReadsAll ==
  phase = "done" /\ stable = ever => OrderedLimit(children, Cardinality(children)) = {seen}

\* A walk of a release whose children do not change ends with exactly those,
\* in the order of their signed hashes (hashPageResponse, decodeHashCursor).
THEOREM QuietChildrenWalkIsComplete == Spec => []QuietWalkReadsAll
<1>1. ASSUME ChildrenInv, phase = "done", stable = ever
      PROVE  OrderedLimit(children, Cardinality(children)) = {seen}
  <2>1. /\ stable \subseteq children /\ children \subseteq ever /\ seen \in Seq(Hashes)
        /\ Keys(seen) \subseteq ever /\ Ascending(seen)
    BY <1>1 DEF ChildrenInv, TypeOK, SeenBehindCursor
  <2>2. stable \subseteq Keys(seen)
    BY <1>1 DEF ChildrenInv, StableDelivered
  <2>3. children = Keys(seen)
    BY <1>1, <2>1, <2>2
  <2>4. seen \in Seq(Int)
    BY <2>1, HashFacts, SeqSubset
  <2>5. QED
    BY <2>1, <2>3, <2>4, WholeTable
<1>2. ChildrenInv => QuietWalkReadsAll
  BY <1>1 DEF QuietWalkReadsAll
<1>3. QED
  BY <1>2, ChildrenInvariant, PTL

-----------------------------------------------------------------------------
(* Progress: the part of WalkEnds that no scheduling is needed for.        *)

\* A step never has the server refuse a token, never moves the client's
\* cursor back, and asks again only after a failure or further on.
Advances ==
  /\ phase # "rejected" => phase' # "rejected"
  /\ cursor' # cursor =>
       /\ cursor' # None
       /\ cursor # None => cursor'.decimal > cursor.decimal
  /\ phase \in {"parsed", "checking", "answered", "notFound"} /\ phase' = "idle" =>
       failures' > failures \/ cursor' # cursor

\* Every token the server hands out is one it takes back, for negative hashes
\* too (encodeHashCursor, decodeHashCursor).
LEMMA AskIsAccepted ==
  ASSUME ChildrenInv, AskSome
  PROVE  phase = "idle" /\ phase' = "parsed" /\ UNCHANGED cursor
<1>1. cursor \in Tokens \cup {None}
  BY DEF ChildrenInv, TypeOK
<1>2. Decodes(cursor)
  BY <1>1, CursorFacts
<1>3. QED
  BY <1>2 DEF AskSome, Ask

\* A page that announces more carries a token beyond its request's.
LEMMA ReceiveAdvances ==
  ASSUME ChildrenInv, Receive
  PROVE  Advances
<1>1. phase = "answered" /\ phase' # "rejected"
  BY DEF Receive
<1>2. CASE reply.hasMore
  <2>1. /\ reply.next # None /\ reply.next.decimal \in Keys(reply.items)
        /\ Keys(reply.items) \subseteq Beyond(ever, request.after)
    BY <1>1, <1>2 DEF ChildrenInv, ReplyCoversStable
  <2>2. reply.next.decimal \in Int /\ (request.after = None \/ reply.next.decimal > request.after)
    BY <2>1, HashFacts DEF Beyond, ChildrenInv, TypeOK
  <2>3. cursor' = reply.next
    BY <1>2 DEF Receive
  <2>4. cursor \in Tokens \cup {None} /\ request.after = DecodeHashCursor(cursor)
    BY <1>1 DEF ChildrenInv, TypeOK, RequestFollowsCursor
  <2>5. cursor # None => /\ request.after = cursor.decimal /\ request.after # None
                         /\ cursor.decimal \in Int
    BY <2>4, CursorFacts, HashFacts
  <2>6. cursor # None => cursor'.decimal > cursor.decimal
    BY <2>2, <2>3, <2>5
  <2>7. cursor' # cursor
    <3>1. CASE cursor = None
      BY <2>1, <2>3, <3>1
    <3>2. CASE cursor # None
      <4>1. reply.next.decimal > cursor.decimal /\ cursor.decimal \in Int
        BY <2>3, <2>5, <2>6, <3>2
      <4>2. reply.next.decimal # cursor.decimal
        BY <2>2, <4>1
      <4>3. QED
        BY <2>3, <4>2
    <3>3. QED
      BY <3>1, <3>2
  <2>8. cursor' # None
    BY <2>1, <2>3
  <2>9. QED
    BY <1>1, <2>6, <2>7, <2>8 DEF Advances
<1>3. CASE ~reply.hasMore
  BY <1>1, <1>3 DEF Receive, Advances
<1>4. QED
  BY <1>2, <1>3

\* A walk over the tracks or the identifiers has at most one page for each
\* hash and a last one, and one attempt more for each failure, whatever the
\* importer commits meanwhile (NextAfterHash, "hash > $2").
THEOREM ChildrenWalkAdvances == Spec => [][Advances]_vars
<1>1. ASSUME ChildrenInv, Next PROVE Advances
  <2>1. CASE AskSome
    BY <1>1, <2>1, AskIsAccepted DEF Advances
  <2>2. CASE Read
    BY <2>2 DEF Read, ReadChildren, RequireRelease, Advances
  <2>3. CASE Fail
    <3>1. failures' > failures /\ phase' = "idle" /\ UNCHANGED cursor
      BY <1>1, <2>3, ChildrenAssumption DEF Fail, ChildrenInv, TypeOK
    <3>2. QED
      BY <3>1 DEF Advances
  <2>4. CASE Receive
    BY <1>1, <2>4, ReceiveAdvances
  <2>5. CASE ReceiveNotFound
    BY <2>5 DEF ReceiveNotFound, Advances
  <2>6. CASE Commit
    <3>1. UNCHANGED <<phase, cursor>>
      BY <2>6 DEF Commit, CommitRelease, CommitChildren, CommitRemoval, Committed
    <3>2. QED
      BY <3>1 DEF Advances
  <2>7. QED
    BY <1>1, <2>1, <2>2, <2>3, <2>4, <2>5, <2>6 DEF Next
<1>2. ChildrenInv /\ [Next]_vars => [Advances]_vars
  BY <1>1
<1>3. QED
  BY <1>2, ChildrenInvariant, PTL DEF Spec

=============================================================================
