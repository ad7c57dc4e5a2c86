----------------------------- MODULE RequestPool ----------------------------
(***************************************************************************)
(* Requests that share the connection pool: public ones, of one or two     *)
(* statements, and the readiness probes of the management server.  Each    *)
(* runs under a time limit, waits its turn for a connection, and may be    *)
(* cancelled by its client, while PostgreSQL comes and goes and a          *)
(* migration may damage the schema that was validated at startup.          *)
(*                                                                         *)
(* Time is counted in ticks.  What the pool itself does is pgxpool's: a    *)
(* first-come first-served limit on the connections in use, reuse of spare *)
(* ones, with a ping before if they were idle for long and another wait    *)
(* for a place if it fails, and a connect that goes on although the        *)
(* request that asked for it has given up.                                 *)
(***************************************************************************)
EXTENDS Integers, FiniteSets, SequencesExt

CONSTANTS
  None,              \* no connection
  Public,            \* the public requests that may be in progress at once
  Probes,            \* the readiness probes that may be in progress at once
  MaxConns,          \* the limit of the pool
  queryTimeout,      \* the time limit of a Store operation, in ticks
  readinessTimeout   \* the time limit of a probe, in ticks

ASSUME RequestPoolAssumption ==
  /\ MaxConns \in Nat \ {0}
  /\ queryTimeout \in Nat \ {0}
  /\ readinessTimeout \in Nat \ {0}
  /\ IsFiniteSet(Public) /\ IsFiniteSet(Probes)
  /\ Public \cap Probes = {}
  /\ None \notin {"sound", "broken"}

Requests == Public \cup Probes

Nothing == 0  \* no answer

VARIABLES
  stage,       \* where each request is
  statement,   \* which of its statements a request is at
  age,         \* the time since it began
  limit,       \* the age at which its context expires
  connection,  \* the connection it holds
  tries,       \* the pings before use that failed since it wants a connection
  answer,      \* what its client received
  waiting,     \* the requests that wait for a connection, in order
  taken,       \* how many places of the pool are in use
  spare,       \* the open connections nobody uses
  abandoned,   \* connects that go on without their request
  reachable,   \* PostgreSQL accepts connections
  intact,      \* the schema is the one that was validated
  witness      \* history: what was true at some time of each request

pool == <<waiting, taken, spare, abandoned>>
request == <<stage, statement, age, limit, connection, tries, answer>>
database == <<reachable, intact>>
vars == <<pool, request, database, witness>>

Qualities == {"sound", "broken"}

TypeOK ==
  /\ stage \in [Requests -> {"idle", "acquire", "connect", "ping", "query"}]
  /\ statement \in [Requests -> 1..2]
  /\ age \in [Requests -> 0..queryTimeout + readinessTimeout]
  /\ limit \in [Requests -> 0..queryTimeout + readinessTimeout]
  /\ connection \in [Requests -> Qualities \cup {None}]
  /\ tries \in [Requests -> 0..MaxConns]
  /\ answer \in [Requests -> {Nothing, 200, 404, 500, 503, 504}]
  /\ waiting \in Seq(Requests)
  /\ taken \in 0..MaxConns
  /\ spare \in [Qualities -> 0..MaxConns]
  /\ abandoned \in 0..MaxConns
  /\ reachable \in BOOLEAN
  /\ intact \in BOOLEAN
  /\ witness \in [Requests -> SUBSET {"up", "fault", "crowded", "slow"}]

\* What a request can observe of the database: that it is there, or a fault.  A
\* damaged schema is none to a probe.
Observed(r, there, whole) ==
  (IF there THEN {"up"} ELSE {"fault"}) \cup (IF whole \/ r \in Probes THEN {} ELSE {"fault"})

Init ==
  /\ stage = [r \in Requests |-> "idle"]
  /\ statement = [r \in Requests |-> 1]
  /\ age = [r \in Requests |-> 0]
  /\ limit = [r \in Requests |-> 0]
  /\ connection = [r \in Requests |-> None]
  /\ tries = [r \in Requests |-> 0]
  /\ answer = [r \in Requests |-> Nothing]
  /\ waiting = <<>>
  /\ taken = 0
  /\ spare = [q \in Qualities |-> 0]
  /\ abandoned = 0
  /\ reachable = TRUE
  /\ intact = TRUE
  /\ witness = [r \in Requests |-> {}]

InProgress(r) == stage[r] # "idle"

-----------------------------------------------------------------------------
(* The handlers: how a request begins, and how the outcome of its          *)
(* statements becomes an answer.                                           *)

\* Store.timeout; readiness sets its own limit around the Store's.
Limit(r) ==
  IF r \in Probes /\ readinessTimeout < queryTimeout THEN readinessTimeout ELSE queryTimeout

\* RepositoryError for a context that expired, and readiness for any error.
TimedOut(r) == IF r \in Probes THEN 503 ELSE 504
Failed(r) == IF r \in Probes THEN 503 ELSE 500

\* A request arrives: its handler asks the pool for a connection.
Start(r) ==
  /\ ~InProgress(r)
  /\ stage' = [stage EXCEPT ![r] = "acquire"]
  /\ statement' = [statement EXCEPT ![r] = 1]
  /\ age' = [age EXCEPT ![r] = 0]
  /\ limit' = [limit EXCEPT ![r] = Limit(r)]
  /\ answer' = [answer EXCEPT ![r] = Nothing]
  /\ waiting' = Append(waiting, r)
  /\ witness' = [witness EXCEPT ![r] = Observed(r, reachable, intact)]
  /\ UNCHANGED <<connection, tries, taken, spare, abandoned, reachable, intact>>

\* The handler answers, and the request is over.
Answer(r, status) ==
  /\ stage' = [stage EXCEPT ![r] = "idle"]
  /\ statement' = [statement EXCEPT ![r] = 1]
  /\ age' = [age EXCEPT ![r] = 0]
  /\ limit' = [limit EXCEPT ![r] = 0]
  /\ connection' = [connection EXCEPT ![r] = None]
  /\ tries' = [tries EXCEPT ![r] = 0]
  /\ answer' = [answer EXCEPT ![r] = status]
  /\ witness' = [witness EXCEPT ![r] = {}]

-----------------------------------------------------------------------------
(* The pool.                                                               *)

\* A released connection is spare again if it is sound, or closed.
Release(r) ==
  /\ taken' = taken - 1
  /\ spare' = IF connection[r] = "sound" THEN [spare EXCEPT !["sound"] = @ + 1] ELSE spare

\* A closed connection, whatever its quality, leaves its place.
Close == taken' = taken - 1 /\ UNCHANGED spare

\* The first in the queue takes a place: with a spare connection, pinged before
\* its use if it was idle for long, or with one that is to be opened.
Acquire(r) ==
  /\ waiting # <<>> /\ r = Head(waiting)
  /\ taken < MaxConns
  /\ waiting' = Tail(waiting)
  /\ taken' = taken + 1
  /\ \/ \E q \in Qualities, use \in {"ping", "query"} :
          /\ spare[q] > 0
          /\ spare' = [spare EXCEPT ![q] = @ - 1]
          /\ connection' = [connection EXCEPT ![r] = q]
          /\ stage' = [stage EXCEPT ![r] = use]
          /\ witness' = IF q = "broken" THEN [witness EXCEPT ![r] = @ \cup {"fault"}] ELSE witness
     \/ /\ \A q \in Qualities : spare[q] = 0
        /\ stage' = [stage EXCEPT ![r] = "connect"]
        /\ UNCHANGED <<spare, connection, witness>>
  /\ tries' = [tries EXCEPT ![r] = IF stage'[r] = "ping" THEN @ ELSE 0]
  /\ UNCHANGED <<statement, age, limit, answer, abandoned, reachable, intact>>

\* The ping finds the connection sound: the statement is sent on it.
Pong(r) ==
  /\ stage[r] = "ping" /\ connection[r] = "sound"
  /\ stage' = [stage EXCEPT ![r] = "query"]
  /\ tries' = [tries EXCEPT ![r] = 0]
  /\ UNCHANGED <<statement, age, limit, connection, answer, pool, database, witness>>

\* The ping fails: the connection is closed, its place is given back, and the
\* request waits for another at the end of the queue, or has had as many tries
\* as the pool allows, one more than it has places.
Retry(r) ==
  /\ stage[r] = "ping" /\ connection[r] = "broken"
  /\ Close
  /\ \/ /\ tries[r] < MaxConns
        /\ stage' = [stage EXCEPT ![r] = "acquire"]
        /\ connection' = [connection EXCEPT ![r] = None]
        /\ tries' = [tries EXCEPT ![r] = @ + 1]
        /\ waiting' = Append(waiting, r)
        /\ UNCHANGED <<statement, age, limit, answer, witness>>
     \/ tries[r] = MaxConns /\ Answer(r, Failed(r)) /\ UNCHANGED waiting
  /\ UNCHANGED <<abandoned, database>>

\* The connect succeeds, or is refused.
Connect(r) ==
  /\ stage[r] = "connect" /\ reachable
  /\ connection' = [connection EXCEPT ![r] = "sound"]
  /\ stage' = [stage EXCEPT ![r] = "query"]
  /\ UNCHANGED <<statement, age, limit, tries, answer, pool, database, witness>>

Refuse(r) ==
  /\ stage[r] = "connect" /\ ~reachable
  /\ Answer(r, Failed(r))
  /\ Close
  /\ UNCHANGED <<waiting, abandoned, database>>

\* A connect without its request ends: with a spare connection, or without.
EndAbandoned ==
  /\ abandoned > 0
  /\ abandoned' = abandoned - 1
  /\ taken' = taken - 1
  /\ spare' = IF reachable THEN [spare EXCEPT !["sound"] = @ + 1] ELSE spare
  /\ UNCHANGED <<waiting, request, database, witness>>

\* Idle time and lifetime close spare connections.
Evict ==
  /\ \E q \in Qualities : spare[q] > 0 /\ spare' = [spare EXCEPT ![q] = @ - 1]
  /\ UNCHANGED <<waiting, taken, abandoned, request, database, witness>>

-----------------------------------------------------------------------------
(* The statements.                                                         *)

\* A second statement that gets a time limit of its own.
RequireReleaseUnderNewLimit(r) ==
  /\ stage' = [stage EXCEPT ![r] = "acquire"]
  /\ statement' = [statement EXCEPT ![r] = 2]
  /\ limit' = [limit EXCEPT ![r] = age[r] + queryTimeout]
  /\ Release(r)
  /\ connection' = [connection EXCEPT ![r] = None]
  /\ waiting' = Append(waiting, r)
  /\ UNCHANGED <<age, tries, answer, witness>>

\* Rows that are never closed: their connection is lost.
RequireReleaseLeaking(r) ==
  /\ stage' = [stage EXCEPT ![r] = "acquire"]
  /\ statement' = [statement EXCEPT ![r] = 2]
  /\ connection' = [connection EXCEPT ![r] = None]
  /\ waiting' = Append(waiting, r)
  /\ UNCHANGED <<age, limit, tries, answer, taken, spare, witness>>

\* A second statement sent while the rows of the first are still open.
RequireReleaseHoldingRows(r) ==
  /\ stage' = [stage EXCEPT ![r] = "acquire"]
  /\ statement' = [statement EXCEPT ![r] = 2]
  /\ waiting' = Append(waiting, r)
  /\ UNCHANGED <<age, limit, connection, tries, answer, taken, spare, witness>>

\* A page without rows: collecting them has released the connection, and
\* requireRelease asks for one again, under the limit that is running.
RequireRelease(r) ==
  /\ stage' = [stage EXCEPT ![r] = "acquire"]
  /\ statement' = [statement EXCEPT ![r] = 2]
  /\ Release(r)
  /\ connection' = [connection EXCEPT ![r] = None]
  /\ waiting' = Append(waiting, r)
  /\ UNCHANGED <<age, limit, tries, answer, witness>>

\* No row of a document (notFound), or none of the release that requireRelease
\* looks for.
NotFound(r) == r \in Public /\ intact /\ Answer(r, 404) /\ Release(r) /\ UNCHANGED waiting

\* A statement brings rows or none.  If its relations are no longer there it
\* fails in the server; the connection stays sound.  Store.Ready names none.
Statement(r) ==
  /\ stage[r] = "query" /\ connection[r] = "sound"
  /\ \/ /\ r \in Probes \/ intact
        /\ Answer(r, 200) /\ Release(r) /\ UNCHANGED waiting
     \/ r \in Public /\ intact /\ statement[r] = 1 /\ RequireRelease(r)
     \/ NotFound(r)
     \/ /\ r \in Public /\ ~intact
        /\ Answer(r, Failed(r)) /\ Release(r) /\ UNCHANGED waiting
  /\ UNCHANGED <<abandoned, database>>

\* A connection that PostgreSQL has dropped fails its statement.
Break(r) ==
  /\ stage[r] = "query" /\ connection[r] = "broken"
  /\ Answer(r, Failed(r))
  /\ Release(r)
  /\ UNCHANGED <<waiting, abandoned, database>>

\* A request that waits for a connection stops waiting.
LeaveQueue(r) ==
  IF stage[r] = "acquire"
  THEN \E i \in DOMAIN waiting : waiting[i] = r /\ waiting' = RemoveAt(waiting, i)
  ELSE UNCHANGED waiting

\* A place given back by a connect that still goes on.
AbandonTwice(r, status) ==
  /\ Answer(r, status)
  /\ LeaveQueue(r)
  /\ abandoned' = IF stage[r] = "connect" THEN abandoned + 1 ELSE abandoned
  /\ IF stage[r] \in {"connect", "ping", "query"} THEN Close ELSE UNCHANGED <<taken, spare>>

\* The context ends first: the request leaves the queue, leaves its connect to
\* itself, or closes the connection its ping or its statement runs on.
Abandon(r, status) ==
  /\ Answer(r, status)
  /\ LeaveQueue(r)
  /\ abandoned' = IF stage[r] = "connect" THEN abandoned + 1 ELSE abandoned
  /\ IF stage[r] \in {"ping", "query"} THEN Close ELSE UNCHANGED <<taken, spare>>

Expire(r) == InProgress(r) /\ age[r] = limit[r] /\ Abandon(r, TimedOut(r)) /\ UNCHANGED database

\* The client leaves; nobody receives an answer.
Leave(r) == InProgress(r) /\ Abandon(r, Nothing) /\ UNCHANGED database

\* Readiness answered from a connection the pool believes to be open.
ReadyWithoutPing(r) ==
  IF r \in Probes
  THEN /\ stage[r] = "query"
       /\ Answer(r, 200) /\ Release(r)
       /\ UNCHANGED <<waiting, abandoned, database>>
  ELSE Statement(r) \/ Break(r)

\* The statement a handler waits for ends by itself.
Finish(r) == Statement(r) \/ Break(r)

-----------------------------------------------------------------------------
(* The database and time.                                                  *)

Record(there, whole) ==
  witness' = [r \in Requests |->
                IF InProgress(r) THEN witness[r] \cup Observed(r, there, whole) ELSE {}]

\* An outage breaks every open connection.
Outage ==
  /\ reachable
  /\ reachable' = FALSE
  /\ spare' = [q \in Qualities |->
                 IF q = "sound" THEN 0 ELSE spare["sound"] + spare["broken"]]
  /\ connection' = [r \in Requests |-> IF connection[r] = "sound" THEN "broken" ELSE connection[r]]
  /\ Record(FALSE, intact)
  /\ UNCHANGED <<stage, statement, age, limit, tries, answer, waiting, taken, abandoned, intact>>

Restore ==
  /\ ~reachable
  /\ reachable' = TRUE
  /\ Record(TRUE, intact)
  /\ UNCHANGED <<intact, request, pool>>

\* A table is dropped or replaced, or there again.
Migrate ==
  /\ intact' = ~intact
  /\ Record(reachable, ~intact)
  /\ UNCHANGED <<reachable, request, pool>>

\* What a probe spends a tick on, when the database is there: waiting while
\* the pool is full, or for what takes less than a tick when all is well, a
\* place that is free, a connect, a ping.
Spent(r) ==
  IF r \in Probes /\ stage[r] = "acquire"
  THEN IF taken = MaxConns /\ (reachable => abandoned = 0) THEN {"crowded"} ELSE {"slow"}
  ELSE IF r \in Probes /\ \/ stage[r] = "connect" /\ reachable
                          \/ stage[r] \in {"ping", "query"} /\ connection[r] = "sound"
  THEN {"slow"} ELSE {}

\* Time passes; no context outlives its limit.
Tick ==
  /\ \E r \in Requests : InProgress(r)
  /\ \A r \in Requests : InProgress(r) => age[r] < limit[r]
  /\ age' = [r \in Requests |-> IF InProgress(r) THEN age[r] + 1 ELSE age[r]]
  /\ witness' = [r \in Requests |-> witness[r] \cup Spent(r)]
  /\ UNCHANGED <<stage, statement, limit, connection, tries, answer, pool, database>>

-----------------------------------------------------------------------------

Serve(r) ==
  \/ Acquire(r) \/ Pong(r) \/ Retry(r) \/ Connect(r) \/ Refuse(r)
  \/ Finish(r) \/ Expire(r)

Next ==
  \/ \E r \in Requests : Start(r) \/ Serve(r) \/ Leave(r)
  \/ EndAbandoned \/ Evict \/ Outage \/ Restore \/ Migrate \/ Tick

Spec == Init /\ [][Next]_vars

\* The handler of a probe is a goroutine, time passes, and a connect has a limit
\* of its own.  Nothing is asked of public requests.
FairSpec ==
  Spec /\ WF_vars(Tick) /\ WF_vars(EndAbandoned) /\ \A p \in Probes : WF_vars(Serve(p))

-----------------------------------------------------------------------------
(* Properties.                                                             *)

\* Every place of the pool in use has an owner, and whoever waits for a place
\* holds none: requests of two statements cannot block each other, nothing
\* leaks on any way a request ends, and the connections open are never more
\* than MaxConns (ReleaseTracks closes its rows before requireRelease).
ConnectionsAccounted ==
  /\ taken = abandoned + Cardinality({r \in Requests : stage[r] \in {"connect", "ping", "query"}})
  /\ \A r \in Requests : connection[r] # None <=> stage[r] \in {"ping", "query"}
  /\ taken + spare["sound"] + spare["broken"] <= MaxConns

\* A request of two statements, and a probe, is over within one time limit,
\* the waits for its connections included (Store.timeout, readiness).
AnswersInTime ==
  /\ \A r \in Requests : age[r] <= queryTimeout
  /\ \A p \in Probes : age[p] <= readinessTimeout

\* An answer tells the truth about the time of its request.  Rows, a missing
\* release and readiness need PostgreSQL to have been there; 504 needs the
\* whole limit to have passed; 500 needs an outage, a connection broken by an
\* earlier one, or a damaged schema.  503 needs an outage or its consequence,
\* a full pool or a slow ping, and never comes from the schema
\* (RepositoryError, readiness).
AnswersWitnessed ==
  [][\A r \in Requests : InProgress(r) /\ ~InProgress(r)' =>
       /\ answer'[r] \in {200, 404} => "up" \in witness[r]
       /\ answer'[r] = 500 => "fault" \in witness[r]
       /\ answer'[r] = 503 => witness[r] \cap {"fault", "crowded", "slow"} # {}
       /\ answer'[r] = 504 => age[r] = queryTimeout]_vars

\* Readiness recovers: once PostgreSQL is back, no public request competes and
\* nothing is slow, a time comes from which no probe answers 503, whatever the
\* outage and the load before have left in the pool.
ReadinessRecovers ==
  /\ <>[](reachable /\ \A r \in Public : ~InProgress(r))
  /\ \A p \in Probes : <>[]("slow" \notin witness[p]) /\ []<>InProgress(p)
  => <>[](\A p \in Probes : answer[p] # 503)

-----------------------------------------------------------------------------
(* The inductive invariant behind these properties.                        *)

\* Who waits for a connection is in the queue, once, and nobody else is.
QueueOfWaiters ==
  /\ \A i \in DOMAIN waiting : stage[waiting[i]] = "acquire"
  /\ \A i, j \in DOMAIN waiting : i # j => waiting[i] # waiting[j]
  /\ \A r \in Requests : stage[r] = "acquire" => \E i \in DOMAIN waiting : waiting[i] = r

\* A request keeps the limit it began with, and does not outlive it.
LimitsKept ==
  \A r \in Requests :
    /\ age[r] <= limit[r]
    /\ limit[r] = IF InProgress(r) THEN Limit(r) ELSE 0

\* Sound connections are those of the present server.
SoundWhileReachable ==
  /\ spare["sound"] > 0 => reachable
  /\ \A r \in Requests : connection[r] = "sound" => reachable

\* What is true now has been witnessed by every request in progress, and what
\* a probe has waited for as well.
WitnessedNow ==
  \A r \in Requests :
    /\ InProgress(r) => Observed(r, reachable, intact) \subseteq witness[r]
    /\ connection[r] = "broken" => "fault" \in witness[r]
    /\ r \in Probes /\ age[r] > 0 => witness[r] \cap {"fault", "crowded", "slow"} # {}

PoolInv ==
  /\ TypeOK
  /\ ConnectionsAccounted
  /\ QueueOfWaiters
  /\ LimitsKept
  /\ SoundWhileReachable
  /\ WitnessedNow

=============================================================================
