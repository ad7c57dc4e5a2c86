------------------------------ MODULE Lifecycle -----------------------------
(***************************************************************************)
(* The life of the process, from main's app.Run to its exit code.          *)
(*                                                                         *)
(* The main goroutine acquires telemetry, the PostgreSQL pool and two      *)
(* listeners, starts one goroutine per HTTP server, waits for a signal or  *)
(* for a server to return, shuts both servers down under one time limit,   *)
(* and releases what it acquired in the reverse order (its defers).  The   *)
(* server goroutines, the handlers and their queries run beside it.        *)
(***************************************************************************)
EXTENDS Integers, Sequences

CONSTANTS
  MaxRequests,     \* bound: requests in progress on one server
  MaxConnections   \* the pool's MaxConns

ASSUME LifecycleAssumption ==
  /\ MaxRequests \in Nat \ {0}
  /\ MaxConnections \in Nat \ {0}

\* The servers in the order of shutdown the other way round.
ManagementFirst == <<"management", "public">>

\* The servers slice of run: they are opened and stopped in this order.
Servers == <<"public", "management">>

Roles == {"public", "management"}

ServerErrorBufferOfOne == 1

serverErrorBufferSize == 2

VARIABLES
  signalled,      \* SIGINT or SIGTERM has arrived: the context is done
  step,           \* where the main goroutine is
  index,          \* the server its loop is at
  telemetry,      \* the telemetry runtime
  pool,           \* the connection pool
  socket,         \* the listener of each server
  goroutine,      \* the goroutine that serves each server
  outcome,        \* what Serve returned: failed, or closed (ErrServerClosed)
  errorsChannel,  \* the buffered channel the goroutines report on
  closing,        \* Shutdown has been called on the server
  handling,       \* connections with a request, or new, on each server
  querying,       \* how many of them hold a pool connection
  deadline,       \* the time limit of the shutdown
  failed          \* run returns an error; main then exits with 1

resources == <<telemetry, pool>>
servers == <<socket, goroutine, outcome, errorsChannel, closing>>
requests == <<handling, querying>>
vars == <<signalled, step, index, telemetry, pool, socket, goroutine, outcome,
          errorsChannel, closing, handling, querying, deadline, failed>>

TypeOK ==
  /\ signalled \in BOOLEAN
  /\ step \in {"telemetry", "pool", "ping", "schema", "listen", "start", "select",
               "stop", "closePool", "flush", "exit"}
  /\ index \in 1..Len(Servers)
  /\ telemetry \in {"none", "running", "flushed"}
  /\ pool \in {"none", "open", "closing", "closed"}
  /\ socket \in [Roles -> {"none", "open", "closed"}]
  /\ goroutine \in [Roles -> {"none", "spawned", "serving", "reporting", "ended"}]
  /\ outcome \in [Roles -> {"none", "failed", "closed"}]
  /\ errorsChannel \in Seq({"failed", "closed"})
  /\ Len(errorsChannel) <= serverErrorBufferSize
  /\ closing \in [Roles -> BOOLEAN]
  /\ handling \in [Roles -> 0..MaxRequests]
  /\ querying \in [Roles -> 0..MaxConnections]
  /\ \A s \in Roles : querying[s] <= handling[s]
  /\ deadline \in {"none", "armed", "expired"}
  /\ failed \in BOOLEAN

Init ==
  /\ signalled = FALSE
  /\ step = "telemetry"
  /\ index = 1
  /\ telemetry = "none"
  /\ pool = "none"
  /\ socket = [s \in Roles |-> "none"]
  /\ goroutine = [s \in Roles |-> "none"]
  /\ outcome = [s \in Roles |-> "none"]
  /\ errorsChannel = <<>>
  /\ closing = [s \in Roles |-> FALSE]
  /\ handling = [s \in Roles |-> 0]
  /\ querying = [s \in Roles |-> 0]
  /\ deadline = "none"
  /\ failed = FALSE

Running == step # "exit"

-----------------------------------------------------------------------------
(* Startup: run, up to serve.                                              *)

\* The main goroutine goes on to the next step, or fails and unwinds.
GoTo(next) == step' = next /\ UNCHANGED failed
Abort(unwind) == step' = unwind /\ failed' = TRUE

SetupTelemetry ==
  /\ step = "telemetry"
  /\ \/ GoTo("pool") /\ telemetry' = "running"
     \/ Abort("exit") /\ UNCHANGED telemetry
  /\ UNCHANGED <<signalled, index, pool, servers, requests, deadline>>

\* databaseConfig and newPool
CreatePool ==
  /\ step = "pool"
  /\ \/ GoTo("ping") /\ pool' = "open"
     \/ Abort("flush") /\ UNCHANGED pool
  /\ UNCHANGED <<signalled, index, telemetry, servers, requests, deadline>>

\* Ping and ValidateSchema run under the signal's context and a time limit:
\* once a signal has arrived they can only fail.
CheckDatabase ==
  /\ \/ step = "ping" /\ ~signalled /\ GoTo("schema")
     \/ step = "schema" /\ ~signalled /\ GoTo("listen")
     \/ step \in {"ping", "schema"} /\ Abort("closePool")
  /\ UNCHANGED <<signalled, index, resources, servers, requests, deadline>>

\* An Advance that runs one past the last server.
AdvancePast(next) ==
  IF index <= Len(Servers)
  THEN index' = index + 1 /\ UNCHANGED step
  ELSE index' = 1 /\ step' = next

\* The loops over servers: the next server, or the code after the loop.
Advance(next) ==
  IF index < Len(Servers)
  THEN index' = index + 1 /\ UNCHANGED step
  ELSE index' = 1 /\ step' = next

\* The listeners opened so far, left open.
LeaveListeners == UNCHANGED socket

\* closeListeners: the ones opened before the one that failed.
CloseListeners ==
  socket' = [s \in Roles |-> IF socket[s] = "open" THEN "closed" ELSE socket[s]]

Listen ==
  /\ step = "listen"
  /\ \/ /\ socket' = [socket EXCEPT ![Servers[index]] = "open"]
        /\ Advance("start")
        /\ UNCHANGED failed
     \/ /\ CloseListeners
        /\ index' = 1
        /\ Abort("closePool")
  /\ UNCHANGED <<signalled, resources, goroutine, outcome, errorsChannel, closing,
                 requests, deadline>>

\* One goroutine per server; none of them runs before it is scheduled.
StartServers ==
  /\ step = "start"
  /\ GoTo("select")
  /\ goroutine' = [s \in Roles |-> "spawned"]
  /\ UNCHANGED <<signalled, index, resources, socket, outcome, errorsChannel,
                 closing, requests, deadline>>

-----------------------------------------------------------------------------
(* The server goroutines.                                                  *)

\* Serve returns, and its listener is closed.
ServeReturns(s, result) ==
  /\ goroutine' = [goroutine EXCEPT ![s] = "reporting"]
  /\ outcome' = [outcome EXCEPT ![s] = result]
  /\ socket' = [socket EXCEPT ![s] = "closed"]

\* Serve begins to accept, unless Shutdown was called before it could.
Serve(s) ==
  /\ Running
  /\ goroutine[s] = "spawned"
  /\ IF closing[s]
     THEN ServeReturns(s, "closed")
     ELSE /\ goroutine' = [goroutine EXCEPT ![s] = "serving"]
          /\ UNCHANGED <<outcome, socket>>
  /\ UNCHANGED <<signalled, step, index, resources, errorsChannel, closing,
                 requests, deadline, failed>>

\* Shutdown has closed the listener under Serve: ErrServerClosed.
ServeCloses(s) ==
  /\ Running
  /\ goroutine[s] = "serving" /\ closing[s]
  /\ ServeReturns(s, "closed")
  /\ UNCHANGED <<signalled, step, index, resources, errorsChannel, closing,
                 requests, deadline, failed>>

\* The listener breaks by itself.
ServeFails(s) ==
  /\ Running
  /\ goroutine[s] = "serving" /\ ~closing[s]
  /\ ServeReturns(s, "failed")
  /\ UNCHANGED <<signalled, step, index, resources, errorsChannel, closing,
                 requests, deadline, failed>>

\* errorsChannel <- err: it waits while the buffer is full.
Report(s) ==
  /\ Running
  /\ goroutine[s] = "reporting"
  /\ Len(errorsChannel) < serverErrorBufferSize
  /\ errorsChannel' = Append(errorsChannel, outcome[s])
  /\ goroutine' = [goroutine EXCEPT ![s] = "ended"]
  /\ UNCHANGED <<signalled, step, index, resources, socket, outcome, closing,
                 requests, deadline, failed>>

-----------------------------------------------------------------------------
(* The handlers.                                                           *)

\* Connections in use, over both servers.
InUse == querying["public"] + querying["management"]

\* A handler starts, on a new connection or on one kept alive, which outlives
\* a listener that broke.  A connection whose first request is still to come
\* counts as one that is handled: Shutdown waits for both.  It may race with
\* Shutdown, until Shutdown has seen the server idle or given up.
Accept(s) ==
  /\ Running
  /\ goroutine[s] \notin {"none", "spawned"}
  /\ closing[s] => step = "stop" /\ s = Servers[index]
  /\ handling[s] < MaxRequests
  /\ handling' = [handling EXCEPT ![s] = @ + 1]
  /\ UNCHANGED <<signalled, step, index, resources, servers, querying, deadline, failed>>

\* A handler takes a connection for a query (or a readiness ping).
Acquire(s) ==
  /\ Running
  /\ pool = "open" /\ InUse < MaxConnections
  /\ querying[s] < handling[s]
  /\ querying' = [querying EXCEPT ![s] = @ + 1]
  /\ UNCHANGED <<signalled, step, index, resources, servers, handling, deadline, failed>>

\* A query ends, at the latest when its time limit does.
Release(s) ==
  /\ Running
  /\ querying[s] > 0
  /\ querying' = [querying EXCEPT ![s] = @ - 1]
  /\ UNCHANGED <<signalled, step, index, resources, servers, handling, deadline, failed>>

\* A handler returns.
Finish(s) ==
  /\ Running
  /\ handling[s] > querying[s]
  /\ handling' = [handling EXCEPT ![s] = @ - 1]
  /\ UNCHANGED <<signalled, step, index, resources, servers, querying, deadline, failed>>

-----------------------------------------------------------------------------
(* serve: the wait and the shutdown.                                       *)

Signal ==
  /\ Running
  /\ ~signalled
  /\ signalled' = TRUE
  /\ UNCHANGED <<step, index, resources, servers, requests, deadline, failed>>

\* The select takes any ready case: the signal, or a server's outcome.
Select ==
  /\ step = "select"
  /\ \/ signalled /\ GoTo("stop") /\ UNCHANGED errorsChannel
     \/ /\ errorsChannel # <<>>
        /\ step' = "stop"
        /\ failed' = (failed \/ Head(errorsChannel) = "failed")
        /\ errorsChannel' = Tail(errorsChannel)
  /\ deadline' = "armed"
  /\ UNCHANGED <<signalled, index, resources, socket, goroutine, outcome, closing, requests>>

\* A shutdown context without a time limit.
NoDeadline == FALSE /\ UNCHANGED vars

\* The time limit of the shutdown context passes.
Expire ==
  /\ deadline = "armed" /\ step = "stop"
  /\ deadline' = "expired"
  /\ UNCHANGED <<signalled, step, index, resources, servers, requests, failed>>

\* Server.Shutdown begins: the listener Serve uses is closed (one that Serve has
\* not taken up yet stays for Serve to close).
Shutdown ==
  LET s == Servers[index] IN
  /\ step = "stop" /\ ~closing[s]
  /\ closing' = [closing EXCEPT ![s] = TRUE]
  /\ socket' = IF goroutine[s] = "serving" THEN [socket EXCEPT ![s] = "closed"] ELSE socket
  /\ UNCHANGED <<signalled, step, index, resources, goroutine, outcome, errorsChannel,
                 requests, deadline, failed>>

\* Server.Shutdown returns nil: no request is in progress.
Drained ==
  LET s == Servers[index] IN
  /\ step = "stop" /\ closing[s]
  /\ handling[s] = 0
  /\ Advance("closePool")
  /\ UNCHANGED <<signalled, resources, servers, requests, deadline, failed>>

\* As GiveUp, without joining the error into the result.
GiveUpSilently ==
  LET s == Servers[index] IN
  /\ step = "stop" /\ closing[s]
  /\ handling[s] > 0 /\ deadline = "expired"
  /\ Advance("closePool")
  /\ UNCHANGED <<signalled, resources, servers, requests, deadline, failed>>

\* Server.Shutdown returns the context's error: requests are still in
\* progress at the time limit, and go on.
GiveUp ==
  LET s == Servers[index] IN
  /\ step = "stop" /\ closing[s]
  /\ handling[s] > 0 /\ deadline = "expired"
  /\ Advance("closePool")
  /\ failed' = TRUE
  /\ UNCHANGED <<signalled, resources, servers, requests, deadline>>

StopServer == Shutdown \/ Drained \/ GiveUp

-----------------------------------------------------------------------------
(* run's defers, last in first out.                                        *)

\* pool.Close refuses new connections and waits for those in use.
ClosePool ==
  /\ step = "closePool"
  /\ \/ /\ pool = "open"
        /\ pool' = "closing"
        /\ UNCHANGED step
     \/ /\ pool = "closing" /\ InUse = 0
        /\ pool' = "closed"
        /\ step' = "flush"
  /\ UNCHANGED <<signalled, index, telemetry, servers, requests, deadline, failed>>

\* shutdownTelemetry, with a time limit of its own; its error is only logged.
FlushTelemetry ==
  /\ step = "flush"
  /\ telemetry' = "flushed"
  /\ step' = "exit"
  /\ UNCHANGED <<signalled, index, pool, servers, requests, deadline, failed>>

\* The defers in the order they were registered.
ReleaseInOrder ==
  \/ /\ step \in {"closePool", "flush"} /\ telemetry = "running"
     /\ telemetry' = "flushed"
     /\ step' = IF pool = "none" THEN "exit" ELSE "closePool"
     /\ UNCHANGED <<signalled, index, pool, servers, requests, deadline, failed>>
  \/ /\ step = "closePool" /\ telemetry = "flushed" /\ InUse = 0
     /\ pool' = "closed"
     /\ step' = "exit"
     /\ UNCHANGED <<signalled, index, telemetry, servers, requests, deadline, failed>>

Deferred == ClosePool \/ FlushTelemetry

\* The process has exited: with 0, or with 1 if run returned an error.
Exited == step = "exit" /\ UNCHANGED vars

-----------------------------------------------------------------------------

Startup == SetupTelemetry \/ CreatePool \/ CheckDatabase \/ Listen \/ StartServers

Main == Startup \/ Select \/ StopServer \/ Deferred

Goroutine(s) == Serve(s) \/ ServeCloses(s) \/ Report(s)

Handlers(s) == Accept(s) \/ Acquire(s) \/ Release(s) \/ Finish(s)

Next ==
  \/ Main
  \/ \E s \in Roles : Goroutine(s) \/ ServeFails(s) \/ Handlers(s)
  \/ Signal
  \/ Expire
  \/ Exited

Spec == Init /\ [][Next]_vars

\* Goroutines are scheduled, time passes, and every query ends (it has a time
\* limit).  No handler has to return, no server has to fail.
FairSpec ==
  /\ Spec
  /\ WF_vars(Main)
  /\ WF_vars(Expire)
  /\ \A s \in Roles : WF_vars(Goroutine(s)) /\ WF_vars(Release(s))

-----------------------------------------------------------------------------
(* Properties.                                                             *)

\* Exit code 0 is a promise: the process was asked to stop, both servers had
\* stopped accepting, and no request was cut off (serve joins every error of
\* stopServer, and only a signal ends the wait without an error).
CleanExitMeansDrained ==
  step = "exit" /\ ~failed =>
    signalled /\ \A s \in Roles : closing[s] /\ handling[s] = 0

\* No server goroutine is ever stuck on its report, although nobody may be
\* left to receive it (serverErrorBufferSize).
ReportsNeverBlock ==
  \A s \in Roles : goroutine[s] = "reporting" => Len(errorsChannel) < serverErrorBufferSize

\* Telemetry outlives the pool and the pool outlives every query, even those
\* of handlers the shutdown gave up on: spans are flushed when no query can
\* end or begin any more (the order of run's defers, pool.Close).
TelemetryOutlivesQueries ==
  telemetry = "flushed" => pool \in {"none", "closed"} /\ InUse = 0

\* However far the startup came, and however the process ends, what was
\* acquired is released: the pool is closed, telemetry is flushed, and a
\* listener can be open only because its goroutine was never scheduled.
ExitReleasesAll ==
  step = "exit" =>
    /\ pool \in {"none", "closed"}
    /\ telemetry \in {"none", "flushed"}
    /\ \A s \in Roles : socket[s] = "open" => goroutine[s] = "spawned"

\* Health and readiness stay reachable while public requests drain: the
\* management listener is closed after the public server has stopped, unless
\* it broke by itself (the order of the servers slice).
ManagementOutlastsPublic ==
  step = "stop" /\ handling["public"] > 0 /\ deadline = "armed"
    /\ outcome["management"] # "failed"
  => socket["management"] = "open"

\* A signal or a broken server ends the process, even if a handler never
\* returns (the shutdown's time limit, the time limit of every query).
EventuallyExits ==
  signalled \/ (\E s \in Roles : outcome[s] = "failed") ~> step = "exit"

-----------------------------------------------------------------------------
(* The inductive invariant behind these properties.                        *)

\* The steps before serve waits, and the steps after it has stopped the servers.
BeforeSelect == {"telemetry", "pool", "ping", "schema", "listen", "start"}
Unwinding == {"closePool", "flush", "exit"}

\* What has been acquired, and what has been released, is known from the step.
ResourcesByStep ==
  /\ step \notin {"listen", "stop"} => index = 1
  /\ step = "telemetry" => telemetry = "none"
  /\ telemetry = "flushed" => step = "exit"
  /\ step = "exit" => telemetry # "running"
  /\ pool = "none" => InUse = 0 /\ step \in {"telemetry", "pool", "flush", "exit"}
  /\ step \in {"telemetry", "pool"} => pool = "none"
  /\ pool = "closing" => step = "closePool"
  /\ pool = "closed" => InUse = 0 /\ step \in {"flush", "exit"}
  /\ step \in {"flush", "exit"} => pool \in {"none", "closed"}

\* Each server's goroutine, its outcome and its listener agree.
ServersAgree ==
  \A s \in Roles :
    /\ step \in BeforeSelect => goroutine[s] = "none"
    /\ step \in {"select", "stop"} => goroutine[s] # "none"
    /\ goroutine[s] = "none" => socket[s] # "open" \/ step \in {"listen", "start"}
    /\ goroutine[s] \in {"none", "spawned", "serving"} => outcome[s] = "none"
    /\ goroutine[s] \in {"reporting", "ended"} =>
         /\ socket[s] = "closed"
         /\ outcome[s] = "failed" \/ (outcome[s] = "closed" /\ closing[s])
    /\ goroutine[s] \in {"spawned", "serving"} /\ ~closing[s] => socket[s] = "open"
    /\ closing[s] /\ socket[s] = "open" => goroutine[s] = "spawned"
    /\ step = "start" => socket[s] = "open"
    /\ step \in BeforeSelect \ {"listen", "start"} => socket[s] = "none"
    /\ goroutine[s] \in {"none", "spawned"} => handling[s] = 0

\* The listeners opened so far.
ListenersOpened == step = "listen" => \A i \in 1..(index - 1) : socket[Servers[i]] = "open"

\* Each report in the channel was left by a goroutine that has ended, and one of
\* a closed server only after the shutdown had begun.
Ended(s) == IF goroutine[s] = "ended" THEN 1 ELSE 0

ReportsLeft ==
  /\ Len(errorsChannel) <= Ended("public") + Ended("management")
  /\ step \in BeforeSelect \cup {"select"} =>
       /\ \A s \in Roles : ~closing[s]
       /\ \A i \in 1..Len(errorsChannel) : errorsChannel[i] = "failed"

\* A server the shutdown is done with is closed, and drained unless the process
\* will fail; the loop has not touched the servers after the one it is at.
Done(s) == closing[s] /\ (handling[s] = 0 \/ (failed /\ deadline = "expired"))

StoppedInOrder ==
  /\ step = "stop" =>
       /\ failed \/ signalled
       /\ \A i \in 1..(index - 1) : Done(Servers[i])
       /\ \A i \in (index + 1)..Len(Servers) : ~closing[Servers[i]]
  /\ step \in Unwinding =>
       \/ \A s \in Roles : Done(s) /\ (failed \/ signalled)
       \/ failed /\ \A s \in Roles : goroutine[s] = "none" /\ ~closing[s]

\* Types, resources, servers, reports and the progress of the shutdown agree at
\* every step of the main goroutine, however the other actors interleave with it.
LifecycleInv ==
  /\ TypeOK
  /\ ResourcesByStep
  /\ ServersAgree
  /\ ListenersOpened
  /\ ReportsLeft
  /\ StoppedInOrder

=============================================================================
