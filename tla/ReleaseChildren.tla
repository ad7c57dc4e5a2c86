--------------------------- MODULE ReleaseChildren --------------------------
(***************************************************************************)
(* One client walks the tracks or the identifiers of one release           *)
(* (GET /releases/{id}/tracks, /releases/{id}/identifiers) while the batch *)
(* importer commits.                                                       *)
(*                                                                         *)
(* Children are ordered by a signed 32-bit hash, so no number can stand    *)
(* for "before the first": the cursor is an opaque token, absent on the    *)
(* first page.  A page with rows takes one statement.  A page without rows *)
(* takes a second one, which asks whether the release exists, and the      *)
(* importer may commit between the two.                                    *)
(***************************************************************************)
EXTENDS Keyset

CONSTANTS
  HashMin, HashMax,   \* the range of a hash, that of int32 in the code
  maximumPageSize,    \* the largest page, 30 in the code
  Importers,          \* whether whole records are one transaction: TRUE, FALSE
  MaxFailures         \* bound: failed queries and lost responses of a walk

ASSUME ChildrenAssumption ==
  /\ HashMin \in Int
  /\ HashMax \in Int
  /\ HashMin < HashMax
  /\ maximumPageSize \in Nat \ {0}
  /\ Importers \subseteq BOOLEAN
  /\ MaxFailures \in Nat
  /\ None \notin [decimal : HashMin..HashMax]

Hashes == HashMin..HashMax

VARIABLES
  wholeRecords,  \* the importer may commit a release with its children
  exists,     \* the release_item row is committed
  children,   \* the hashes of its committed tracks (or identifiers)
  stable,     \* history: children committed without interruption so far
  ever,       \* history: children committed at some time of the walk
  phase,      \* where the client and its request are
  cursor,     \* the token the client sends next, None on the first page
  request,    \* the parsed HashPageRequest, None when there is none
  reply,      \* the page read for the request, None when there is none
  witnessed,  \* history: what was true at some instant of the request
  seen,       \* the hashes the client has received, in order
  failures    \* how many attempts have failed

database == <<wholeRecords, exists, children, stable, ever>>
vars == <<wholeRecords, exists, children, stable, ever, phase, cursor, request, reply,
          witnessed, seen, failures>>

-----------------------------------------------------------------------------
(* Cursors.                                                                *)

\* A token is the base64 form of a decimal number; the number is all that
\* matters of it.
Tokens == [decimal : Hashes]

\* encodeHashCursor
EncodeHashCursor(hash) == IF hash = None THEN None ELSE [decimal |-> hash]

\* A decoder that reads the decimal as an unsigned number.
DecodesUnsigned(token) == token = None \/ token.decimal \in Hashes \cap Nat

\* decodeHashCursor accepts an absent token, and a decimal in int32's range;
\* for any other the handler answers 400.
Decodes(token) == token = None \/ token.decimal \in Hashes

\* A resumption from one hash before the cursor.
DecodeHashCursorBefore(token) ==
  IF token = None THEN None ELSE token.decimal - 1

\* The AfterHash of the request: nil for an absent token.
DecodeHashCursor(token) == IF token = None THEN None ELSE token.decimal

-----------------------------------------------------------------------------

HashPageRequest == [after : Hashes \cup {None}, size : 1..maximumPageSize]

HashPageResponse ==
  [items : Seq(Hashes), hasMore : BOOLEAN, next : Tokens \cup {None}]

TypeOK ==
  /\ wholeRecords \in Importers
  /\ exists \in BOOLEAN
  /\ children \subseteq Hashes
  /\ children # {} => exists
  /\ stable \subseteq children
  /\ children \subseteq ever
  /\ ever \subseteq Hashes
  /\ phase \in {"idle", "parsed", "checking", "answered", "notFound",
                "done", "missing", "rejected"}
  /\ cursor \in Tokens \cup {None}
  /\ request \in HashPageRequest \cup {None}
  /\ reply \in HashPageResponse \cup {None}
  /\ witnessed \subseteq {"absent", "present", "exhausted"}
  /\ seen \in Seq(Hashes)
  /\ failures \in 0..MaxFailures

Init ==
  /\ wholeRecords \in Importers
  /\ exists \in BOOLEAN
  /\ children \in SUBSET (IF exists THEN Hashes ELSE {})
  /\ stable = children
  /\ ever = children
  /\ phase = "idle"
  /\ cursor = None
  /\ request = None
  /\ reply = None
  /\ witnessed = {}
  /\ seen = <<>>
  /\ failures = 0

\* A start value in the place of the missing hash.
BeyondFromZero(S, after) == {h \in S : h > IF after = None THEN 0 ELSE after}

\* WHERE ... AND ($2::integer IS NULL OR hash > $2)
Beyond(S, after) == {h \in S : after = None \/ h > after}

\* What an observer of the database sees of the release and of the children
\* the request may return.
Observed(isThere, S, after) ==
  IF ~isThere THEN {"absent"}
  ELSE IF Beyond(S, after) = {} THEN {"present", "exhausted"} ELSE {"present"}

\* The client asks for a page, and releaseChildRequest parses its cursor.
Ask(size) ==
  /\ phase = "idle"
  /\ IF Decodes(cursor)
     THEN LET after == DecodeHashCursor(cursor) IN
          /\ phase' = "parsed"
          /\ request' = [after |-> after, size |-> size]
          /\ witnessed' = Observed(exists, children, after)
     ELSE /\ phase' = "rejected"
          /\ UNCHANGED <<request, witnessed>>
  /\ UNCHANGED <<database, cursor, reply, seen, failures>>

-----------------------------------------------------------------------------
(* The store: ReleaseTracks and ReleaseIdentifiers.                        *)

\* hashPageResponse: the page, and the token of the next one.
HashPageResponseOf(page) ==
  [items |-> page.items, hasMore |-> page.hasMore,
   next |-> EncodeHashCursor(NextAfter(page))]

\* One page of the children beyond the request's hash, in one snapshot.
LoadHashPage(p) ==
  \E rows \in OrderedLimit(Beyond(children, request.after), FetchSize(request.size)) :
    p = HashPageResponseOf(NewPage(rows, request.size))

\* The first statement: a page with rows is the answer.
ReadChildren ==
  /\ phase = "parsed"
  /\ LoadHashPage(reply')
  /\ phase' = IF reply'.items # <<>> THEN "answered" ELSE "checking"
  /\ UNCHANGED <<database, cursor, request, witnessed, seen, failures>>

\* An empty page is taken for a missing release, without asking.
EmptyMeansMissing ==
  /\ phase = "checking"
  /\ phase' = "notFound"
  /\ UNCHANGED <<database, cursor, request, reply, witnessed, seen, failures>>

\* requireRelease, for a page without rows: 404 unless the release exists.
RequireRelease ==
  /\ phase = "checking"
  /\ phase' = IF exists THEN "answered" ELSE "notFound"
  /\ UNCHANGED <<database, cursor, request, reply, witnessed, seen, failures>>

\* The two statements the other way round: the release first, then its rows.
ReadAfterCheck ==
  \/ /\ phase = "parsed"
     /\ phase' = IF exists THEN "checking" ELSE "notFound"
     /\ UNCHANGED <<database, cursor, request, reply, witnessed, seen, failures>>
  \/ /\ phase = "checking"
     /\ LoadHashPage(reply')
     /\ phase' = "answered"
     /\ UNCHANGED <<database, cursor, request, witnessed, seen, failures>>

\* One query of the store.
Read == ReadChildren \/ RequireRelease

\* A query fails, the time limit both statements share expires, or the
\* response does not reach the client.
Fail ==
  /\ phase \in {"parsed", "checking", "answered", "notFound"}
  /\ failures < MaxFailures
  /\ failures' = failures + 1
  /\ phase' = "idle"
  /\ request' = None
  /\ reply' = None
  /\ witnessed' = {}
  /\ UNCHANGED <<database, cursor, seen>>

-----------------------------------------------------------------------------
(* The client and the importer.                                            *)

\* The client keeps the page, and goes on from next_cursor while has_more.
Receive ==
  /\ phase = "answered"
  /\ seen' = seen \o reply.items
  /\ cursor' = IF reply.hasMore THEN reply.next ELSE cursor
  /\ phase' = IF reply.hasMore THEN "idle" ELSE "done"
  /\ request' = None
  /\ reply' = None
  /\ witnessed' = {}
  /\ UNCHANGED <<database, failures>>

\* The client learns that there is no such release (404).
ReceiveNotFound ==
  /\ phase = "notFound"
  /\ phase' = "missing"
  /\ request' = None
  /\ reply' = None
  /\ witnessed' = {}
  /\ UNCHANGED <<database, cursor, seen, failures>>

\* The importer commits; what the database now shows is witnessed by the
\* request in progress.
Committed(isThere, S) ==
  /\ exists' = isThere
  /\ children' = S
  /\ stable' = stable \cap S
  /\ ever' = ever \cup S
  /\ witnessed' =
       IF phase \in {"parsed", "checking"}
       THEN witnessed \cup Observed(isThere, S, request.after)
       ELSE witnessed
  /\ UNCHANGED <<wholeRecords, phase, cursor, request, reply, seen, failures>>

\* A release appears: alone, its relations being a later stage of the import,
\* or together with them if the importer's transactions hold whole records.
CommitRelease ==
  /\ ~exists
  /\ \E S \in SUBSET Hashes : (S # {} => wholeRecords) /\ Committed(TRUE, S)

CommitChildren == exists /\ \E S \in SUBSET Hashes : Committed(TRUE, S)

\* A release goes together with its children (foreign key, cascade).
CommitRemoval == exists /\ Committed(FALSE, {})

Commit == CommitRelease \/ CommitChildren \/ CommitRemoval

AskSome == \E size \in 1..maximumPageSize : Ask(size)

Next == AskSome \/ Read \/ Fail \/ Receive \/ ReceiveNotFound \/ Commit

Spec == Init /\ [][Next]_vars

\* The client goes on until the end, the server answers, the network
\* delivers; nothing obliges the importer to commit, or to stop.
FairSpec ==
  /\ Spec
  /\ WF_vars(AskSome)
  /\ WF_vars(Read)
  /\ WF_vars(Receive)
  /\ WF_vars(ReceiveNotFound)

-----------------------------------------------------------------------------
(* Properties.                                                             *)

\* An empty answer is no artefact of reading twice: at some instant of the
\* request the release existed and had nothing beyond the cursor (README:
\* "an existing Release without the requested relation returns an empty
\* page"; ReleaseTracks and ReleaseIdentifiers read the children first, and
\* requireRelease afterwards).
EmptyPageWitnessed ==
  phase = "answered" /\ reply.items = <<>> => "exhausted" \in witnessed

\* It is so as long as the importer commits a release before its children,
\* the stages of an import, and not in one transaction with them.
EmptyPageWitnessedByStages == ~wholeRecords => EmptyPageWitnessed

\* The status is that of a single instant: 404 only if the release was absent
\* at some time of the request, 200 only if it was there at some time of it
\* (requireRelease, and the foreign key behind a page with rows).
StatusWitnessed ==
  /\ phase = "notFound" => "absent" \in witnessed
  /\ phase = "answered" => "present" \in witnessed

\* The walk ends although the importer never does, with the last page or a
\* 404: every token the server hands out is accepted, negative hashes included.
WalkEnds == <>(phase \in {"done", "missing"})

Promise == INSTANCE Enumeration
             WITH Rows <- Hashes, table <- children, delivered <- seen,
                  done <- (phase = "done")

\* The two statements, the opaque cursor and the retries implement the
\* abstract enumeration: each child once, in hash order, none of the stable
\* ones passed over whatever the sign of its hash.
ImplementsEnumeration == Promise!Spec

-----------------------------------------------------------------------------
(* The inductive invariant behind these properties: what a request, its    *)
(* page and its observer know of the walk and of the database.             *)

\* The client goes on from a hash at or beyond this one.
Passed(h) == cursor # None /\ h <= cursor.decimal

\* Everything received lies at or behind the cursor.
SeenBehindCursor ==
  /\ Keys(seen) \subseteq ever
  /\ phase # "done" => \A h \in Keys(seen) : Passed(h)

\* Every stable child behind the cursor has arrived, at the end all have.
StableDelivered ==
  \A h \in stable : phase = "done" \/ Passed(h) => h \in Keys(seen)

\* A request in progress asks for what follows the client's cursor.
RequestFollowsCursor ==
  phase \in {"parsed", "checking", "answered", "notFound"} =>
    request \in HashPageRequest /\ request.after = DecodeHashCursor(cursor)

\* The page read for it continues the walk in order, and holds every stable
\* child up to its own token, or to the end when it has none.
ReplyCoversStable ==
  phase \in {"checking", "answered"} =>
    /\ reply \in HashPageResponse
    /\ Ascending(reply.items)
    /\ Keys(reply.items) \subseteq Beyond(ever, request.after)
    /\ reply.hasMore =>
         /\ reply.next # None
         /\ reply.next.decimal \in Keys(reply.items)
         /\ \A h \in Keys(reply.items) : h <= reply.next.decimal
    /\ \A h \in Beyond(stable, request.after) :
         (reply.hasMore => h <= reply.next.decimal) => h \in Keys(reply.items)

\* The observer has seen the database as it is; and when a page without rows
\* is checked, a release that is there has been there without rows, unless a
\* transaction brought it together with them.
Observing ==
  /\ phase \in {"parsed", "checking"} =>
       Observed(exists, children, request.after) \subseteq witnessed
  /\ phase = "checking" =>
       /\ reply.items = <<>>
       /\ exists /\ ~wholeRecords => "exhausted" \in witnessed

ChildrenInv ==
  /\ TypeOK
  /\ Ascending(seen)
  /\ SeenBehindCursor
  /\ StableDelivered
  /\ RequestFollowsCursor
  /\ ReplyCoversStable
  /\ Observing
  /\ StatusWitnessed
  /\ EmptyPageWitnessedByStages

=============================================================================
