----------------------------- MODULE CachedWalk -----------------------------
(***************************************************************************)
(* The walk of CollectionWalk through a shared HTTP cache.  A successful   *)
(* page carries Cache-Control (public, max-age=60 and                      *)
(* stale-while-revalidate=300 unless configured otherwise), so a page may  *)
(* have been computed for another client some minutes ago, from a table    *)
(* that has changed since, and two pages of one walk may come from         *)
(* snapshots in the reverse order of their requests.                       *)
(*                                                                         *)
(* The histories stable and ever begin with the oldest page the cache may  *)
(* still hold: at most one cache lifetime before the walk does.            *)
(***************************************************************************)
EXTENDS CollectionWalk, FiniteSets

CONSTANT MaxEntries  \* bound: answers the cache holds at once

ASSUME CachedWalkAssumption == MaxEntries \in Nat \ {0}

VARIABLE cache  \* the stored answers

cachedVars == <<vars, cache>>

Entries == [request : PageRequest, status : {200, 500, 504}, page : PageResponse \cup {None}]

CachedTypeOK ==
  /\ TypeOK
  /\ cache \subseteq Entries
  /\ \A e \in cache : e.status = 200 /\ e.page \in PageResponse
  /\ \A e, f \in cache : e.request = f.request => e = f

CachedInit == Init /\ cache = {}

-----------------------------------------------------------------------------
(* What may be stored, and what it answers.                                *)

\* An answer that is storable whatever its status.
CacheableAlways(status) == TRUE

\* writeJSON: only a success carries the Cache-Control header.
Cacheable(status) == status >= 200 /\ status < 300

\* A key without the cursor, as if it did not travel in the URL.
SameURLButCursor(e, r) == e.request.size = r.size

\* after_id and size are parameters of the URL, which is the cache's key.
SameURL(e, r) == e.request = r

\* The cache stores an answer in the place of an older one, or does not.
Store(r, status, page) ==
  \/ UNCHANGED cache
  \/ /\ Cacheable(status)
     /\ cache' = {e \in cache : e.request # r}
                   \cup {[request |-> r, status |-> status, page |-> page]}
     /\ Cardinality(cache') <= MaxEntries

-----------------------------------------------------------------------------

\* The request reaches the API, and its answer passes the cache.
CachedQuery == Query /\ Store(request, 200, reply')

\* The cache answers for the API; after a stored problem the client tries
\* again.
Hit ==
  /\ phase = "parsed"
  /\ \E e \in cache :
       /\ SameURL(e, request)
       /\ IF e.status = 200
          THEN phase' = "answered" /\ reply' = e.page /\ UNCHANGED request
          ELSE phase' = "idle" /\ request' = None /\ UNCHANGED reply
  /\ UNCHANGED <<table, stable, ever, cursor, seen, failures, cache>>

\* A problem passes the cache on its way to the client; a response that is
\* lost beyond the cache leaves it as it is.
CachedFail ==
  /\ Fail
  /\ IF phase = "parsed"
     THEN \E status \in {500, 504} : Store(request, status, None)
     ELSE UNCHANGED cache

\* Another client's request for a page of the same collection.
Fill ==
  /\ \E r \in PageRequest : \E rows \in SelectPage(r) :
       Store(r, 200, PageResponseOf(NewPage(rows, r.size)))
  /\ UNCHANGED vars

Evict ==
  /\ \E e \in cache : cache' = cache \ {e}
  /\ UNCHANGED vars

Answered == CachedQuery \/ Hit

CachedNext ==
  \/ Answered \/ CachedFail \/ Fill \/ Evict
  \/ (AskSome \/ Receive \/ Commit) /\ UNCHANGED cache

CachedSpec == CachedInit /\ [][CachedNext]_cachedVars

\* As FairSpec of the walk: the client goes on, and the API or the cache
\* answers.  Nothing obliges the cache to store, or to forget.
CachedFairSpec ==
  /\ CachedSpec
  /\ WF_cachedVars(AskSome /\ UNCHANGED cache)
  /\ WF_cachedVars(Answered)
  /\ WF_cachedVars(Receive /\ UNCHANGED cache)

-----------------------------------------------------------------------------
(* Properties.  With the histories that begin one cache lifetime earlier,  *)
(* the walk still implements Enumeration (ImplementsEnumeration): nothing  *)
(* arrives twice or out of order, and a row that has matched for the whole *)
(* walk and a cache lifetime before it is delivered.  And it still ends    *)
(* (WalkEnds), since no problem is ever replayed.  What no longer holds is *)
(* HasMoreTruthful, of the table at the time of the answer.                *)

\* A page continues its request in order, and holds every stable row up to its
\* own cursor, or to the end when it has none.
PageCoversStable(r, page) ==
  /\ Ascending(page.items)
  /\ Keys(page.items) \subseteq ever
  /\ \A id \in Keys(page.items) : id > r.after
  /\ page.hasMore =>
       /\ page.next \in Keys(page.items)
       /\ \A id \in Keys(page.items) : id <= page.next
  /\ \A id \in stable :
       id > r.after /\ (page.hasMore => id <= page.next) => id \in Keys(page.items)

\* Whatever has been committed since it was stored, a page of the cache is one
\* the walk may go on from, and no problem is in the cache (writeJSON).
StoredPagesCoverStable == \A e \in cache : PageCoversStable(e.request, e.page)

\* What the walk, the page in flight and the cache know of each other.
CachedWalkInv == WalkInv /\ CachedTypeOK /\ StoredPagesCoverStable

=============================================================================
