# A verification of go-open-discogs-api

The API serves a read-only view of a PostgreSQL database that a batch importer,
a program of another repository, fills and keeps changing. This directory holds
TLA+ modules translated from the Go source and its SQL, the TLC configurations
that check them on small instances, and theorems checked by TLAPS.

`tlc -config X.cfg M` checks a run, `tlapm M.tla` the proofs of a module.
`PROJECT.json` maps each definition to its lines, each run to its properties,
each property to a mutation of the model that violates it, and lists the hazards
of the code.

## 1. The system

| Part | Source (under `src/`) | State | Operations |
|---|---|---|---|
| Keyset pagination | `internal/catalog/catalog.go`, `internal/httpapi/pagination.go` | none: the cursor is the client's | parse a cursor, fetch one row more than asked for, cut the page, name the next cursor |
| Search collections | `internal/postgres/search.go`, `httpapi/{artist,label,master,release}.go` | none | one statement per page |
| Related releases | `internal/postgres/{related,release_lookup}.go` | none | one statement per page, with unions and aggregates |
| Release children | `internal/postgres/release_children.go` | none | one or two statements per page |
| Release lookups | `internal/httpapi/release_lookup.go`, `request.go` | none | choose among three statements |
| Router and responder | `internal/httpapi/{router,responder}.go` | the buffer pool, the in-flight gauge | wrap, recover, encode, write |
| Process | `main.go`, `internal/app/app.go` | telemetry, pool, listeners, server goroutines | start, serve, shut down |
| Configuration | `internal/config/config.go` | none | commands, defaults, environment, command line, validation |
| Management | `internal/management/handler.go` | none | liveness, readiness (a ping through the pool), metrics |
| Connection pool | pgx, from `internal/postgres/store.go` | places taken, spare connections, waiters | wait, connect, reuse or release within a query's time limit, close |
| Telemetry | `internal/telemetry`, `internal/observability` | the span exporter, the metrics | set up, flush, count |
| Schema check, snapshot, details | `internal/postgres/{schema,snapshot,details,details_decode}.go` | none | one statement each |
| Documentation, health command | `internal/httpapi/documentation.go`, `internal/healthcheck` | none | constant bytes; one HTTP request |

How the parts interact. `main` loads the configuration and calls `app.Run`, which
opens the telemetry, the pool and both listeners and starts a goroutine per
server. A public request runs in a goroutine of its own: wrapper, handler, store,
pool, and back through the responder, which shares its buffers with every other
request. The management server reads readiness through the same pool. The
database changes underneath all of them, one importer transaction at a time. A
client keeps a walk together with nothing but the cursor of the last page.

What is hard here:

- pages of one walk are read from different snapshots, and a client retries;
- an empty page of tracks is decided by two statements in two snapshots;
- SQL limits early, below unions and aggregates, and must still be the plain
  ordered selection the cursors need;
- requests share buffers, panic, time out and are cancelled;
- a shutdown races with signals, broken listeners, stuck handlers and queries;
- one endpoint is three, chosen by early returns over thirteen parameters;
- a setting has three sources, each with a meaning of its own for a blank.

What makes the parts correct is stated in section 3, run by run.

## 2. Modules

    Keyset                  pages and cursors, the SQL tail ORDER BY/LIMIT
      Enumeration           what a walk promises: the abstract specification
      CollectionWalk        a client, a collection and the importer
        CachedWalk          the same walk through a shared HTTP cache
      ReleaseChildren       tracks and identifiers, with MCReleaseChildren
      RelatedReleases       the statements behind a collection
    ReleaseSearch           /releases: three endpoints in one, date windows
    Responder               wrapper, status recorder, buffer pool, gauge
    RequestPool             requests and probes, connections and time limits
    Lifecycle               the process from app.Run to its exit code
    Configuration           what an invocation of the program does

The theorems about a module `M` are in `MProofs`, which extends it
(`ReleaseChildrenProofs`, `RelatedReleasesProofs`, `ReleaseSearchProofs`,
`ResponderProofs`, `RequestPoolProofs`). `WalkProofs` has those of both
`CollectionWalk` and `CachedWalk`, `ProcessProofs` those of `Configuration` and
`Lifecycle`, the process from its invocation to its exit. `KeysetTheorems` has what
the walks and the statements share: pages, concatenations, and the result of
`ORDER BY ... LIMIT`. An inductive invariant that needs more than the properties
say stands in the model after them, so that TLC checks what the proof uses; those
of `ReleaseSearch`, `RelatedReleases` and `Configuration`, which only say that the
one step has computed its result from the inputs, stand beside their proofs.

`Keyset` has the Go code's `FetchSize`, `NewPage` and `NextAfterID` as operators
on sequences of keys: a row is its key, since nothing else of it decides where a
page ends. A statement's result is *any* sequence that `IsOrderedLimit` allows, and
`StatementDetermined` proves that there is exactly one. `First` is the same
selection as a set: the rows with fewer than the limit before them.

`CollectionWalk`. One action per step in which another process may intervene:
`Ask` (the handler parses `after_id` and `size`), `Query` (one statement in its
snapshot, the cut of the page, the response), `Fail` (500, 504 or a lost
response; the client sends the same cursor again, with any size), `Receive`, and
`Commit`, with which the importer makes the set of matching rows anything at all.
Bulk stages, rollbacks and updates that move a row in or out of a filter are all
instances of it. `stable` and `ever` are history variables: what has matched all
along, and what has matched at some time.

`CachedWalk` extends it with the answers a shared cache holds. A page that
`writeJSON` marks with `Cache-Control` may be stored on its way (`CachedQuery`) or
for another client (`Fill`), stay while the importer commits, be forgotten
(`Evict`), and answer a later request with the same parameters (`Hit`), even when
the pages of one walk were then computed in the reverse order of its requests.
A problem passes the cache as well (`CachedFail`); it has no such header, and is
not stored. The histories begin with the oldest page the cache may hold, so that
what is promised is about rows stable for the walk *and one cache lifetime
before it*; `HasMoreTruthful` of the table at the time of the answer is not
promised any more.

`Enumeration` knows of no pages, cursors, retries or look-ahead rows: rows are
delivered in order, once, only if they were committed at some time of the walk,
and a stable row is never passed over. All three walks implement it with
`delivered <- seen`, `done <- (phase = "done")`.

`ReleaseChildren`. `ReadChildren` is the first statement, `RequireRelease` the
second; a commit may come between. `witnessed` records what was true at some
instant of the request. `wholeRecords` says whether the importer may commit a
release together with its children; a removal always takes the children with it
(foreign key with cascade, the importer's schema).

`RelatedReleases` translates each clause into a set expression: a limited branch is
`First` or `FirstDistinct`, a left join keeps a release without links, an
aggregate looks at the whole relation, and a role is trimmed before it is
compared with the others. `CommitDirect` and `CommitLink` take the
tables through every small content, `Select` runs the statement. The module is
what allows `CollectionWalk` to treat every collection alike.

`RequestPool` follows requests of one statement (a collection, a document) or two
(tracks of a release) and readiness probes through `acquire`, `connect` or `ping`,
and `query`, with the age of each and the limit of its context. The pool is
pgxpool as the code uses it: at most `MaxConns` places, first come first served,
spare connections reused before new ones are opened, a connect that goes on after
its request has given up (`EndAbandoned`), idle connections closed (`Evict`). A
spare connection that was idle for long is pinged before it is used. If the ping
is answered (`Pong`) the statement follows; if it fails (`Retry`) the connection is
closed, its place given back, and the request waits for another at the end of
the queue, as often as `tries` allows. An `Outage` breaks every open connection
without anybody noticing until a ping or a statement fails (`Retry`, `Break`),
`Migrate` damages the schema that was validated at startup, `Leave` is a client
that goes away, and `Expire` a time limit. A document that is not there is 404
after its only statement, a release without rows after its second (`NotFound`). `witness` records what was true at some
time of each request. The two limits around a probe (`readiness` and
`Store.timeout`) are one `Limit`, the smaller.

`ReleaseSearch` has one step, over every request. A parameter is absent, blank,
bad or good; a date is a number of months. `Responder` has one action per step of
`wrap` and `writeJSON`. `Lifecycle` has the main goroutine as a program counter
(`step`, `index`), a state per server goroutine, and counts of handlers and of
those that hold a connection. `Configuration` has one step, over every command
line and environment; a text is the number it denotes, or blank, good or bad.

## 3. Runs

| Run | Bounds | What it shows |
|---|---|---|
| `CollectionWalk` | 5 identifiers, pages of 1 or 2, one failed attempt | no row twice or out of order; no stable row skipped; `has_more` tells the truth; the walk implements `Enumeration` and ends |
| `ReleaseChildren` | hashes -2..1, pages of 1 or 2, one failed attempt, both importers | the same promise with opaque signed cursors; 404 and 200 are each true at some instant of the request |
| `ReleaseChildrenWhole` | as above, whole records | **violated**: finding 1 |
| `CachedWalk` | 3 identifiers, pages of 1 or 2, 2 stored answers, one failed attempt | the promise of `Enumeration` survives stale pages, and the walk ends: no problem is ever replayed |
| `RequestPool` | 2 public requests, 1 probe, 2 connections, limits of 2 and 1 ticks | no place of the pool leaks; one limit for two statements; every status has a witness; readiness recovers |
| `Lifecycle` | 2 requests per server, 2 connections | exit code 0 means drained; no stuck goroutine; telemetry outlives the pool and the pool the queries; everything is released; readiness outlasts the drain; the process ends |
| `Responder` | 2 requests, a pool of 1 buffer, responses of size 1 or 2 | exclusive buffers; each client receives its own answer, at most once; bounded retention; an exact gauge; silence only towards clients that left; every request ends |
| `ReleaseSearch` | 2 years of 3 months | accepted exactly when well-formed; nothing ignored; the window is the year or the month |
| `RelatedReleases` | 3 releases, 3 values (`Main`, one with and one without blanks around it) or NULL, LIMIT up to 3 | each statement is the ordered limited selection; no role, catalog number or artist is lost |
| `Configuration` | 2 arguments, 1 variable, int64 of 6 bits, int32 of 4 bits, MiB of 4 bytes | the strongest source wins, and of two arguments the later; what is served is within the inventory, and no conversion changes it |
| `ConfigurationRatio` | the same, ratios 0 and NaN | **violated**: finding 2 |
| `ConfigurationCommands` | the same | **violated**: finding 3 |

Why the bounds are enough. A walk needs three pages for a cursor to be taken from
a page that was itself reached by one; five identifiers in pages of two give
them, and leave a row on either side of a cursor to appear or vanish. One failure
repeats a cursor after a commit; failures do not accumulate, since a failed
attempt leaves only the counter changed. Two negative hashes and zero separate
the absent cursor from the number 0. In `RelatedReleases` three releases are one
more than a limit that cuts, and the values and a NULL more than a page that
could lose them; of the three values one is a role that reads like another once
trimmed, and one is the word that an artist's own release gets. Two stored answers are the two that can answer successive
pages out of order; three identifiers leave a row for each of them and one to
change. In `RequestPool` two public requests fill both connections, so that
the probe, or whichever comes third, waits; a limit of two ticks lets each of
two statements take one while a second limit would overrun the first, and the
probe's is the shorter one as in the code (`readinessTimeout` below
`query-timeout`'s default). Two broken spare connections have a request wait for
a place twice more before it gets one that is opened for it. Two
requests and a pool of one make every buffer contended, and
the sizes on either side of `maximumPooledResponseSize` occur. Two connections
let both servers hold one, or one server both. The settings and their rules are
independent of each other except for the pairs the runs cover with two arguments
and a variable (`db-min-conns` with `db-max-conns`, `tracing-enabled` with
`otlp-endpoint`, `database-url` with `db-host`, one setting given twice); a number
is taken from each side of each boundary, and above the int32 one that would wrap
to a legal count. Three months in a year have a first, a
middle and a last one; two years have a turn between them.

`ReleaseSearch` and the `Configuration` runs stop after their one step, so deadlock
is not checked there. Elsewhere it is.

Fairness. In the walks the client goes on (`AskSome`, `Receive`) and the server
answers (`Query`, or both statements): a query ends within its time limit
(`Store.timeout`) and a handler is a goroutine. Nothing obliges the importer to
commit or to pause, nor an attempt to fail. In `Lifecycle` goroutines are
scheduled, the shutdown's time limit passes, and a query ends with its own;
handlers need never return and servers need never break. In `Responder` a request
in progress goes on: `getBuffer` and `putBuffer` never wait. In `CachedWalk` a
request is answered by the API or by the cache, and nothing obliges the cache to
store or to forget. In `RequestPool` time passes (`Tick`), a connect that was left
behind ends (it has a limit of its own), and the handler of a probe goes on when
it can (`Serve`); nothing is asked of public requests beyond what the ticks and
their limits enforce, PostgreSQL need never return, and clients need never leave.
All of it is weak fairness.

`ReadinessRecovers` is stated for a server that is back, without competing public
requests and without slow pings: under sustained load the pool serves in order
and a probe may always be too late, which the code permits (readiness has no
connection of its own). What it excludes is a 503 for ever because of what an
outage left behind.

### Findings

1. `ReleaseTracks` and `ReleaseIdentifiers` can answer 200 with an empty page for a
   release that never existed without rows: it was absent when the rows were read
   and present, with its rows, when its existence was. The README says "A missing
   parent Release returns `404`; an existing Release without the requested
   relation returns an empty page." It needs an importer that commits a release
   together with its relations; with one that commits them in stages the answer
   is right (`EmptyPageWitnessedByStages`), and in the other order of the two
   statements it would be wrong in that case too, which is that property's mutant.
2. A trace sample ratio of `NaN` passes `validate`.
3. `--version=true` and `--healthcheck=true` are accepted and ignored, and the API
   is served: `hasArgument` compares whole arguments, and nobody reads the flags.

## 4. What is proved

For every value of the constants that satisfies the named assumptions: any range
of identifiers or hashes, any page sizes, any number of failures, cache entries,
releases, relations and limits, any number of requests, probes, buffers and
connections, any time limits, any number of years and of months in one, any
number of arguments and variables, and an integer of any width. The sets of
requests and buffers are finite, and there are enough buffers
(`Cardinality(Buffers)` at least the pool and the requests together: `getBuffer`
allocates when the pool is empty). `None` is a value that none of the others has,
and the texts that are no numbers (`TextsAssumption`) differ from each other and
from every number. No theorem assumes fairness.

| Module | Theorems | Statement |
|---|---|---|
| `KeysetTheorems` | `StatementDetermined` | `ORDER BY` a unique key with `LIMIT n` has exactly one result: in order, the rows with fewer than `n` before them |
| `WalkProofs` | `WalkInvariant`, `TypeCorrect`, `WalkHasNoDuplicates`, `WalkDeliversStableRows`, `WalkHasMoreTruthful` | `[]WalkInv`, `[]TypeOK`, `[]NoDuplicates`, `[]StableRowsDelivered`, `HasMoreTruthful` |
| | `WalkImplementsEnumeration`, `CachedWalkInvariant`, `CachedWalkImplementsEnumeration` | the refinement, without and with the cache; `[]CachedWalkInv` |
| | `WalkStatementsAnswer` | `Query` always has exactly one answer |
| | `QuietWalkIsComplete`, `QuietCachedWalkIsComplete` | a walk nobody disturbed ends with the whole table |
| | `WalkAdvances`, `CachedWalkAdvances` | no cursor is refused or moves back, no request is repeated without a failure |
| `ReleaseChildrenProofs` | `ChildrenInvariant`, `StatusIsWitnessed`, `EmptyPageIsWitnessed`, `ChildrenImplementEnumeration` | `[]ChildrenInv`, `[]StatusWitnessed`, `[]EmptyPageWitnessedByStages`, the refinement |
| | `QuietChildrenWalkIsComplete`, `ChildrenWalkAdvances` | as for the collections, over opaque signed cursors |
| `RelatedReleasesProofs` | `RelatedInvariant`, `StatementsAreKeysetSelects`, `RelationsAreLossless` | `[]RelatedInv`, `[]StatementIsKeysetSelect`, `[]RelationsLossless` |
| `ReleaseSearchProofs` | `AcceptsWellFormed`, `NoParameterIgnored`, `DateWindowsAreExact` | `[]AcceptsExactlyWellFormed`, `[]NothingIgnored`, `[]DateWindowExact` |
| `ResponderProofs` | `ResponderInvariant`, `BuffersNeverShared`, `ClientsReceiveTheirOwn`, `RetentionIsBounded`, `GaugeIsExact`, `SilentOnlyTowardsTheGone` | `[]ResponderInv` and its parts |
| | `RequestsNeverGoBack` | at most twelve steps of a request from its start to its end, a panic included |
| `RequestPoolProofs` | `PoolInvariant`, `NoPlaceLeaks`, `LimitsHold`, `AnswersHaveWitnesses` | `[]PoolInv`, `[]ConnectionsAccounted`, `[]AnswersInTime`, `AnswersWitnessed` |
| | `RetriesAreBounded` | at most `4 * MaxConns + 6` steps of a request: failed pings send it back to the queue, but at most `MaxConns` times for each of its statements |
| | `OutagesWearOff` | only an outage adds to the connections that are broken and not yet noticed |
| `ProcessProofs` | `InvocationInvariant`, `CommandLineOverrides`, `ServedWithinInventory` | `[]InvocationInv`, `[]CommandLineWins`, `[]ServesWithinInventory` |
| | `ServedSettingsAreNumbers` | nothing a parser refuses is served; the pool has a connection at least |
| | `LifecycleInvariant`, `CleanExitDrained`, `ReportsNeverWait`, `TelemetryFlushedLast`, `EverythingReleased`, `ManagementStopsLast` | `[]LifecycleInv`, and the five safety properties |
| | `MainNeverGoesBack` | at most fifteen steps of the main goroutine from `app.Run` to its exit, each of them forward |

The arguments.

**The statement.** That a selection has one result is a fact about data, and
would be an induction on its length; ranks avoid it. `First(S, n)` has the rows of
`S` with fewer than `n` smaller ones. The rank of a row is the number of rows up to
it, ranks are injective, and there are as many of them as rows, so that every
position is somebody's rank (`LimitedExists`): the inverse of the rank is the
result. Conversely the key at a position of any result has that position as its
rank (`AscendingRank`), so two results agree everywhere (`LimitedUnique`).

**The walk.** `NoDuplicates` and `StableRowsDelivered` speak of what was received,
and say nothing of the cursor or of a page that is on its way; neither is
inductive. `WalkInv` adds three facts. `SeenBehindCursor`: everything received is at
or behind the cursor. `RequestFollowsCursor`: a request in flight asks for what
follows that cursor. `ReplyCoversStable`: a page in flight continues it in order,
holds every stable row up to its own next cursor, or to the end when it has none,
and that cursor is its last key. `Query` establishes the last from
`IsOrderedLimit` (`QueryFacts`): the rows left out of a full result come after all
it holds, so the rows kept are exactly those up to the cursor, and the row that
is dropped is never lost. `Receive` appends a page beyond everything received
(`ConcatAscending` in `KeysetTheorems`). `Commit` only shrinks `stable` and grows
`ever`, and the invariant is monotone in both. The refinement follows: `Receive` is
`Deliver`, `Commit` is `Commit`, every other step stutters.

**Quiet walks and progress.** When nothing was committed `stable`, `table` and `ever`
are one set, so what was received is that set, in order, and by uniqueness the
result of one statement without a `LIMIT` that cuts. `WalkEnds` is beyond the
prover; the part of it that could be wrong in the code is not. `Advances` says that
a cursor the server named is never refused, that the client's cursor only grows,
and that the client asks again only after a failure or from further on: what is
left for TLC is that identifiers and failures are finitely many and that steps
are taken.

**Related releases.** The first `n` rows of a union are among the first `n` rows of
its branches (`FirstOfUnion`), since a row has no more rows before it in a branch
than in the whole. A left join keeps each release (`LeftJoinKeepsReleases`), and
grouping leaves one row for each release, so that a limit on rows is one on
releases (`OneRowEach`). `RelatedInv` says that the answer is what the statement
finds in the tables as they are; each of the five is then `First` of one set of
releases, and `StatementDetermined` makes it the page `CollectionWalk` begins with.

**The cache.** What `ReplyCoversStable` says of the page in flight, `PageCoversStable`
says of every stored one, for the request it answers. It too is monotone in
`stable` and `ever`, so a page that was right when it was stored stays right
whatever is committed; a hit therefore establishes `ReplyCoversStable` as a query
does.

**The release's children.** The same argument over tokens, whose order is that
of the hashes they decode to and in which the absent one comes before every
hash. `Observing` is what the two statements add: while an empty page waits for
the second, the observer has seen the state the first one read, and unless the
importer commits whole records a release that is there now has been there
without rows. `requireRelease` then decides on something that was seen.

**The responder.** `HeldByStage` ties the buffer of a request, and its being there
or not, to the step the request is at; `EncodedOwn` what the buffer holds to the
request, and `SentByStage` what was sent to the status. A buffer changes hands only
in `GetBuffer` and `PutBuffer`, where exclusiveness of pool and holders carries
over; the gauge is a cardinality that grows and shrinks by one. `Position` numbers
the steps of a request, those of the answer to a panic after those of the answer
it interrupted; that the answer to a panic does not panic in its turn is the
assumption of section 5.

**The pool.** `taken` is the number of abandoned connects plus the number of
requests that hold a place. Each action moves at most one request, in, out or
within that set (`HoldingStep`, `HoldingCounted`, `PlaceLeft`).
`QueueOfWaiters` says that the queue is exactly the requests that wait, so that
nobody waits outside it: leaving it in the middle is the one step that needs a
fact about sequences, which `RemoveAt` gives pointwise. `SoundWhileReachable` and
`WitnessedNow` are what `AnswersWitnessed`, a property of steps, needs of the state
before. Two facts about steps stand behind `ReadinessRecovers`. `Position` numbers
what a request has behind it: its statement, the pings that failed, and the step
it is at. Each of its own steps raises the number, one that sends it back to the
queue included, since that counts a failed ping, and no other actor touches it
(`OwnStepAdvances`, `OthersStay`); the number is bounded because the pool allows
`MaxConns + 1` tries. And `BrokenLeft`, the broken connections, spare or in use,
only shrinks between outages, since a request that takes one takes it from the
spare ones and gives none back.

**The invocation.** `InvocationInv` says that what is served was parsed to its end
and validated, and computed from the sources, which no step changes
(`SourcesDecide`). When parsing reached its end every argument was parsed
(`AllParsed`), so a setting that was given has a last position (`LastPosition`, by
well-foundedness of `<`), and its value is the one at that position; otherwise it
is that of the environment, or the default (`TypedValue`). `Validates` then bounds
each number. The memory limit and the connection counts are converted: a number
that fits is not wrapped (`FittingIsExact`), whatever the width, and both the
product (`BytesAreExact`) and the counts (`CountsAreExact`) fit.

**The process.** `ResourcesByStep` says what is open at each point of the main
goroutine and in which order it is given back, `ServersAgree` how a server's
goroutine, socket and outcome go together, `ReportsLeft` that the
channel holds at most one report for each server that ended, `StoppedInOrder`
which servers the loop of `serve` has passed. `ReportsNeverBlock` follows from a count: a server that is about to report
has not ended, so fewer reports than servers lie in the buffer, which has a place
for each. `Progress` numbers the positions of the main goroutine: the step, the
server its loop is at, and whether the shutdown of that server, or of the pool,
has begun. Each of its steps raises it and no other actor touches it, so
`EventuallyExits` can only fail by waiting, which is what its fairness is about.

**The search.** `AcceptsWellFormed` compares the early returns with a definition that
has none, a parameter at a time. `DateWindowsAreExact` is arithmetic: a month is
`year * MonthsPerYear + month - 1`, and the half-open window of a year or of a month
holds exactly the dates whose quotient, and remainder, are those asked for, so
the turn of the year is no special case.

Every safety property of a passing run has its theorem. Only model-checked are
liveness (`WalkEnds`, `EventuallyExits`, `EveryRequestEnds`, `ReadinessRecovers`),
which is beyond the prover, as is `ENABLED`, so the absence of deadlock. The
part of each that needs no scheduling is proved: what has begun moves only
forward, in a bounded number of steps of its own, and what an outage has broken
is not replaced by more. The three runs that expect a violation are findings, of
which there is nothing to prove.

## 5. What is not modelled, and why

- The match of a text with a filter, collation, and the columns of a row: no
  property distinguishes them. The `CollectionWalk` of a filter is that of the set
  of rows it matches.
- The browser's side of the documentation: `docs/scalar-1.75.0.js` is a vendored,
  minified third-party bundle and `docs/reference.js` a single call that
  configures it. They are most of the repository's JavaScript and none of its
  logic: constant bytes the Go server embeds and hands out, through `Document` and
  `Asset`, without looking at them. The modules model the Go program and its SQL,
  of which the map covers about 1500 lines.
- The age of a stored answer: `CachedWalk` lets the cache keep one for as long as
  the histories reach back, which is at least as much as a lifetime.
- The minimal size of the pool and its health check, except that idle connections
  may be closed at any time (`Evict`).
- `Document` and `Asset`, security headers, access log, histograms, span export:
  constant bytes, or write-only towards a library.
- Schema validation, snapshot and detail documents: one statement each. The
  first is a startup step that may fail in `Lifecycle`.
- A panic inside the deferred function of `wrap`, while it writes the 500: only the
  `ResponseWriter` below could panic there, and `net/http`'s does not. `Responder`
  assumes it away.
- That a label and a release are linked under a catalog number at most once, and
  a release and an artist at most once: nothing under `src/` declares it, and the
  tables of links being sets assumes it. `ReleasesByCatalogNumber` (a `LIMIT`
  without a `DISTINCT`) and the two arrays of `MasterReleases` rest on it; the other
  statements do not.
- The words of a role. `trim` is modelled; the commas with which `string_agg` joins
  the roles are not, and a role that has one in it reads as two. The artist and
  format texts of a label's release, which are joined in the same way, are columns
  like any other.
- The Kubernetes grace period, the health check command, CI and the benchmarks:
  outside this process.

Taken from how the code uses it: `net/http` (`Shutdown` closes the listeners in use
and waits for handlers; a connection may still be accepted until it returns; `Serve`
returns `ErrServerClosed`), pgxpool (`Close` waits for the connections in use; a
pool of no connections is refused; a connection idle for more than a second is
pinged before use, and one that fails is destroyed and another place waited for,
`MaxConns + 1` times in all; how long one was idle is left open), `flag` (parsing stops
at the first positional argument), PostgreSQL (one snapshot per statement), and
the importer (any commit, foreign keys kept).

## 6. What could come next

1. `ValidateSchema`'s verdict, one SQL statement over the system catalog, against
   a definition over every small schema.
2. The pages of a walk against the statements of `RelatedReleases` in one
   composition: `StatementsAreKeysetSelects` and `StatementDetermined` are put
   together in section 4, not in a theorem.
