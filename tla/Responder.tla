------------------------------ MODULE Responder -----------------------------
(***************************************************************************)
(* How a public request is answered: the router's wrapper, which counts    *)
(* the request and recovers from a panic, the status recorder, and the     *)
(* responder, which encodes into a buffer of a small shared pool.  Several *)
(* requests run at once; the pool is a buffered channel.                   *)
(***************************************************************************)
EXTENDS Integers, Sequences, FiniteSets

CONSTANTS
  None,                       \* no buffer, no status
  Requests,                   \* the requests that may be in progress at once
  Buffers,                    \* enough buffers for the pool and every request
  responseBufferCount,        \* the capacity of the pool, 16 in the code
  maximumPooledResponseSize,  \* the largest capacity of a pooled buffer
  MaximumSize                 \* the size of the largest response

ASSUME ResponderAssumption ==
  /\ responseBufferCount \in Nat \ {0}
  /\ maximumPooledResponseSize \in Nat \ {0}
  /\ MaximumSize \in Nat \ {0}
  /\ IsFiniteSet(Buffers) /\ IsFiniteSet(Requests)
  /\ Cardinality(Buffers) >= responseBufferCount + Cardinality(Requests)
  /\ None \notin Buffers \cup Nat
  /\ None \notin [to : Requests, status : Nat, size : Nat]

Statuses == {200, 400, 404, 500, 504}

\* What becomes of the handler's work: a page or a document, a bad request,
\* or an error of the repository.
Outcomes == {"ok", "invalid", "missing", "timeout", "canceled", "failure"}

VARIABLES
  stage,      \* where each request is
  gone,       \* its client has left: the request's context is cancelled
  answer,     \* the status its handler decided on, None before
  held,       \* the buffer its writeJSON uses
  sent,       \* what reached the client: the status and the bodies
  status,     \* statusRecorder.status
  pool,       \* the channel of free buffers
  content,    \* what each buffer holds: nothing, or the answer to a request
  capacity,   \* the memory each buffer keeps
  recovering, \* its handler has panicked, and the deferred function answers
  inFlight    \* the gauge of requests in progress

vars == <<stage, gone, answer, held, sent, status, pool, content, capacity, recovering,
          inFlight>>

Content == [to : Requests, status : Statuses, size : 1..MaximumSize] \cup {None}

TypeOK ==
  /\ stage \in [Requests -> {"idle", "handling", "get", "encode", "head", "write",
                             "put", "panicked", "finish"}]
  /\ gone \in [Requests -> BOOLEAN]
  /\ answer \in [Requests -> Statuses \cup {None}]
  /\ held \in [Requests -> Buffers \cup {None}]
  /\ sent \in [Requests -> [status : Statuses \cup {None}, bodies : Seq(Content)]]
  /\ status \in [Requests -> Statuses]
  /\ pool \in Seq(Buffers) /\ Len(pool) <= responseBufferCount
  /\ content \in [Buffers -> Content]
  /\ capacity \in [Buffers -> 0..MaximumSize]
  /\ recovering \in [Requests -> BOOLEAN]
  /\ inFlight \in 0..Cardinality(Requests)

Init ==
  /\ stage = [r \in Requests |-> "idle"]
  /\ gone = [r \in Requests |-> FALSE]
  /\ answer = [r \in Requests |-> None]
  /\ held = [r \in Requests |-> None]
  /\ sent = [r \in Requests |-> [status |-> None, bodies |-> <<>>]]
  /\ status = [r \in Requests |-> 200]
  /\ pool = <<>>
  /\ content = [b \in Buffers |-> None]
  /\ capacity = [b \in Buffers |-> 0]
  /\ recovering = [r \in Requests |-> FALSE]
  /\ inFlight = 0

Held == {held[r] : r \in Requests} \ {None}

-----------------------------------------------------------------------------
(* The wrapper and the handler.                                            *)

\* wrap: a new request, counted in the gauge, with a fresh status recorder.
Start(r) ==
  /\ stage[r] = "idle"
  /\ stage' = [stage EXCEPT ![r] = "handling"]
  /\ gone' = [gone EXCEPT ![r] = FALSE]
  /\ answer' = [answer EXCEPT ![r] = None]
  /\ sent' = [sent EXCEPT ![r] = [status |-> None, bodies |-> <<>>]]
  /\ status' = [status EXCEPT ![r] = 200]
  /\ recovering' = [recovering EXCEPT ![r] = FALSE]
  /\ inFlight' = inFlight + 1
  /\ UNCHANGED <<held, pool, content, capacity>>

\* The client closes its connection.
Leave(r) ==
  /\ stage[r] # "idle" /\ ~gone[r]
  /\ gone' = [gone EXCEPT ![r] = TRUE]
  /\ UNCHANGED <<stage, answer, held, sent, status, pool, content, capacity, recovering, inFlight>>

\* A time limit taken for a cancellation.
TimeoutIsSilent(outcome) ==
  CASE outcome = "ok" -> 200
    [] outcome = "invalid" -> 400
    [] outcome = "missing" -> 404
    [] outcome \in {"timeout", "canceled"} -> None
    [] outcome = "failure" -> 500

\* The status of the answer; RepositoryError answers nothing when the
\* request's context was cancelled.
StatusOf(outcome) ==
  CASE outcome = "ok" -> 200
    [] outcome = "invalid" -> 400
    [] outcome = "missing" -> 404
    [] outcome = "timeout" -> 504
    [] outcome = "canceled" -> None
    [] outcome = "failure" -> 500

\* The handler knows what to answer.
Handle(r, outcome) ==
  /\ stage[r] = "handling"
  /\ outcome = "canceled" => gone[r]
  /\ answer' = [answer EXCEPT ![r] = StatusOf(outcome)]
  /\ stage' = [stage EXCEPT ![r] = IF StatusOf(outcome) = None THEN "finish" ELSE "get"]
  /\ UNCHANGED <<gone, held, sent, status, pool, content, capacity, recovering, inFlight>>

\* A buffer nobody refers to is garbage.
Discard(B) ==
  /\ content' = [b \in Buffers |-> IF b \in B THEN None ELSE content[b]]
  /\ capacity' = [b \in Buffers |-> IF b \in B THEN 0 ELSE capacity[b]]

\* The handler panics, before it answers or while the answer is written; the
\* buffer it holds then never returns to the pool.  The answer the deferred
\* function writes is assumed not to panic in its turn.
Panic(r) ==
  /\ stage[r] \in {"handling", "write"} /\ ~recovering[r]
  /\ stage' = [stage EXCEPT ![r] = "panicked"]
  /\ held' = [held EXCEPT ![r] = None]
  /\ Discard({held[r]})
  /\ UNCHANGED <<gone, answer, sent, status, pool, recovering, inFlight>>

\* A recovery that does not ask whether the header has been written.
RecoverAlways(r) ==
  /\ stage[r] = "panicked"
  /\ answer' = [answer EXCEPT ![r] = 500]
  /\ stage' = [stage EXCEPT ![r] = "get"]
  /\ recovering' = [recovering EXCEPT ![r] = TRUE]
  /\ UNCHANGED <<gone, held, sent, status, pool, content, capacity, inFlight>>

\* A recovery that leaves wrap without counting the request out.
RecoverUncounted(r) ==
  /\ stage[r] = "panicked"
  /\ stage' = [stage EXCEPT ![r] = "idle"]
  /\ recovering' = [recovering EXCEPT ![r] = TRUE]
  /\ UNCHANGED <<gone, answer, held, sent, status, pool, content, capacity, inFlight>>

\* The deferred function recovers: 500, unless the header has been written.
Recover(r) ==
  /\ stage[r] = "panicked"
  /\ IF sent[r].status = None
     THEN /\ answer' = [answer EXCEPT ![r] = 500]
          /\ stage' = [stage EXCEPT ![r] = "get"]
     ELSE /\ stage' = [stage EXCEPT ![r] = "finish"]
          /\ UNCHANGED answer
  /\ recovering' = [recovering EXCEPT ![r] = TRUE]
  /\ UNCHANGED <<gone, held, sent, status, pool, content, capacity, inFlight>>

\* The end of the deferred function: the request is counted out.
Finish(r) ==
  /\ stage[r] = "finish"
  /\ stage' = [stage EXCEPT ![r] = "idle"]
  /\ inFlight' = inFlight - 1
  /\ UNCHANGED <<gone, answer, held, sent, status, pool, content, capacity, recovering>>

-----------------------------------------------------------------------------
(* writeJSON.                                                              *)

\* A getBuffer that waits for a pooled buffer.
GetBufferBlocking(r) ==
  /\ stage[r] = "get"
  /\ pool # <<>>
  /\ held' = [held EXCEPT ![r] = Head(pool)]
  /\ pool' = Tail(pool)
  /\ content' = [content EXCEPT ![Head(pool)] = None]
  /\ stage' = [stage EXCEPT ![r] = "encode"]
  /\ UNCHANGED <<gone, answer, sent, status, capacity, recovering, inFlight>>

\* getBuffer: a pooled buffer if there is one, or a new one.
GetBuffer(r) ==
  /\ stage[r] = "get"
  /\ IF pool # <<>>
     THEN /\ held' = [held EXCEPT ![r] = Head(pool)]
          /\ pool' = Tail(pool)
          /\ content' = [content EXCEPT ![Head(pool)] = None]
     ELSE /\ held' = [held EXCEPT ![r] = CHOOSE b \in Buffers : b \notin Held]
          /\ UNCHANGED <<pool, content>>
  /\ stage' = [stage EXCEPT ![r] = "encode"]
  /\ UNCHANGED <<gone, answer, sent, status, capacity, recovering, inFlight>>

\* The answer is encoded, and the buffer grows to hold it, perhaps further.
Encode(r, size) ==
  /\ stage[r] = "encode"
  /\ content' = [content EXCEPT ![held[r]] = [to |-> r, status |-> answer[r], size |-> size]]
  /\ \E c \in 1..MaximumSize :
       /\ IF size <= capacity[held[r]] THEN c = capacity[held[r]] ELSE c >= size
       /\ capacity' = [capacity EXCEPT ![held[r]] = c]
  /\ stage' = [stage EXCEPT ![r] = "head"]
  /\ UNCHANGED <<gone, answer, held, sent, status, pool, recovering, inFlight>>

\* statusWriter.WriteHeader: only the first status counts.
WriteHeader(r) ==
  /\ stage[r] = "head"
  /\ IF sent[r].status = None
     THEN /\ sent' = [sent EXCEPT ![r].status = answer[r]]
          /\ status' = [status EXCEPT ![r] = answer[r]]
     ELSE UNCHANGED <<sent, status>>
  /\ stage' = [stage EXCEPT ![r] = "write"]
  /\ UNCHANGED <<gone, answer, held, pool, content, capacity, recovering, inFlight>>

\* writer.Write(buffer.Bytes()); nothing reaches a client that has left.
SendBody(r) ==
  sent' = IF gone[r] THEN sent ELSE [sent EXCEPT ![r].bodies = Append(@, content[held[r]])]

WriteBody(r) ==
  /\ stage[r] = "write"
  /\ SendBody(r)
  /\ stage' = [stage EXCEPT ![r] = "put"]
  /\ UNCHANGED <<gone, answer, held, status, pool, content, capacity, recovering, inFlight>>

\* The room of the pool for one more buffer, when nobody counts.
UnboundedRoom(b) == capacity[b] <= maximumPooledResponseSize

\* Keeping buffers by what they hold instead of what they occupy.
RoomForContent(b) ==
  content[b].size <= maximumPooledResponseSize /\ Len(pool) < responseBufferCount

\* putBuffer keeps a buffer of bounded capacity, if the pool has room.
Room(b) == capacity[b] <= maximumPooledResponseSize /\ Len(pool) < responseBufferCount

Return(b) == pool' = Append(pool, b)

PutBuffer(r) ==
  /\ stage[r] = "put"
  /\ IF Room(held[r])
     THEN /\ Return(held[r])
          /\ content' = [content EXCEPT ![held[r]] = None]
          /\ UNCHANGED capacity
     ELSE Discard({held[r]}) /\ UNCHANGED pool
  /\ held' = [held EXCEPT ![r] = None]
  /\ stage' = [stage EXCEPT ![r] = "finish"]
  /\ UNCHANGED <<gone, answer, sent, status, recovering, inFlight>>

\* The buffer returned to the pool before its bytes are written.
PutThenWrite(r) ==
  \/ /\ stage[r] = "write"
     /\ IF Room(held[r]) THEN Return(held[r]) ELSE UNCHANGED pool
     /\ stage' = [stage EXCEPT ![r] = "put"]
     /\ UNCHANGED <<gone, answer, held, sent, status, content, capacity, recovering, inFlight>>
  \/ /\ stage[r] = "put"
     /\ SendBody(r)
     /\ held' = [held EXCEPT ![r] = None]
     /\ stage' = [stage EXCEPT ![r] = "finish"]
     /\ UNCHANGED <<gone, answer, status, pool, content, capacity, recovering, inFlight>>

\* The end of writeJSON: the bytes are written, then the buffer returned.
WriteAndPut(r) == WriteBody(r) \/ PutBuffer(r)

-----------------------------------------------------------------------------

WriteJSON(r) ==
  \/ GetBuffer(r)
  \/ \E size \in 1..MaximumSize : Encode(r, size)
  \/ WriteHeader(r)
  \/ WriteAndPut(r)

Serve(r) == (\E outcome \in Outcomes : Handle(r, outcome)) \/ WriteJSON(r) \/ Recover(r) \/ Finish(r)

Next == \E r \in Requests : Start(r) \/ Leave(r) \/ Serve(r) \/ Panic(r)

Spec == Init /\ [][Next]_vars

\* A request in progress goes on: handlers are goroutines, and a query ends at
\* the latest with its time limit.
FairSpec == Spec /\ \A r \in Requests : WF_vars(Serve(r))

-----------------------------------------------------------------------------
(* Properties.                                                             *)

\* A buffer has one owner: no two requests encode into the same one, and none
\* in use is in the pool, or in it twice (getBuffer, putBuffer).
BuffersExclusive ==
  /\ \A r, q \in Requests : held[r] # None /\ held[r] = held[q] => r = q
  /\ \A r \in Requests, i \in 1..Len(pool) : held[r] # pool[i]
  /\ \A i, j \in 1..Len(pool) : pool[i] = pool[j] => i = j

\* What a client receives is one answer, whole and its own: at most one body,
\* the one encoded for this request under the status in its header, however
\* requests share buffers and wherever the handler panics (writeJSON, wrap).
AnswersOwn ==
  \A r \in Requests :
    /\ Len(sent[r].bodies) <= 1
    /\ \A i \in 1..Len(sent[r].bodies) :
         /\ sent[r].bodies[i] # None
         /\ sent[r].bodies[i].to = r
         /\ sent[r].bodies[i].status = sent[r].status

\* The pool retains a bounded amount of memory, although a pooled buffer may
\* later serve a response of any size (README: at most 4 MiB).
RetentionBounded ==
  /\ Len(pool) <= responseBufferCount
  /\ \A i \in 1..Len(pool) : capacity[pool[i]] <= maximumPooledResponseSize

\* The gauge counts exactly the requests in progress, those that panicked
\* included (RequestStarted, and RequestFinished in the deferred function).
GaugeCountsInProgress == inFlight = Cardinality({r \in Requests : stage[r] # "idle"})

\* A request that ends without a header had nobody left to answer: the empty
\* return of RepositoryError is for cancelled requests only, and a panic
\* before the header is still answered.
SilenceMeansGone ==
  \A r \in Requests : stage[r] = "finish" /\ sent[r].status = None => gone[r]

\* Whatever the pool holds and wherever a handler panics, a request ends.
EveryRequestEnds == \A r \in Requests : stage[r] # "idle" ~> stage[r] = "idle"

-----------------------------------------------------------------------------
(* The inductive invariant behind these properties.                        *)

\* A request holds a buffer from getBuffer to putBuffer.
HeldByStage ==
  \A r \in Requests : held[r] # None <=> stage[r] \in {"encode", "head", "write", "put"}

\* Between Encode and the write, a request's buffer holds its own answer.
EncodedOwn ==
  \A r \in Requests :
    /\ stage[r] \in {"get", "encode", "head", "write"} => answer[r] # None
    /\ stage[r] \in {"head", "write"} =>
         /\ content[held[r]] # None
         /\ content[held[r]].to = r
         /\ content[held[r]].status = answer[r]

\* What has been sent is known from the stage: nothing before the header, no
\* body before the write, and a header behind every end but a silent one.
SentByStage ==
  \A r \in Requests :
    /\ stage[r] \in {"handling", "get", "encode", "head"} => sent[r].status = None
    /\ stage[r] \in {"write", "put"} => sent[r].status = answer[r] /\ answer[r] # None
    /\ stage[r] \in {"handling", "get", "encode", "head", "write", "panicked"} =>
         sent[r].bodies = <<>>

\* The pool, the buffers in use and what has been sent agree at every step of
\* every request, whatever the others do with the buffers in between.
ResponderInv ==
  /\ TypeOK
  /\ HeldByStage
  /\ EncodedOwn
  /\ SentByStage
  /\ BuffersExclusive
  /\ AnswersOwn
  /\ RetentionBounded
  /\ GaugeCountsInProgress
  /\ SilenceMeansGone

=============================================================================
