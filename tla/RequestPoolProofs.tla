-------------------------- MODULE RequestPoolProofs --------------------------
(***************************************************************************)
(* The connection pool is used correctly for every number of requests,     *)
(* probes and connections and for every pair of time limits: PoolInv is    *)
(* inductive, no place of the pool is leaked, no request outlives its      *)
(* limit, and every answer has its witness.                                *)
(***************************************************************************)
EXTENDS RequestPool, FiniteSetTheorems, TLAPS

\* The requests that have a place of the pool.
Holding == {r \in Requests : stage[r] \in {"connect", "ping", "query"}}

\* TypeOK by the part of the state it is about.
RequestTypes ==
  /\ stage \in [Requests -> {"idle", "acquire", "connect", "ping", "query"}]
  /\ statement \in [Requests -> 1..2]
  /\ age \in [Requests -> 0..queryTimeout + readinessTimeout]
  /\ limit \in [Requests -> 0..queryTimeout + readinessTimeout]
  /\ connection \in [Requests -> Qualities \cup {None}]
  /\ tries \in [Requests -> 0..MaxConns]
  /\ answer \in [Requests -> {Nothing, 200, 404, 500, 503, 504}]
  /\ witness \in [Requests -> SUBSET {"up", "fault", "crowded", "slow"}]

PoolTypes ==
  /\ waiting \in Seq(Requests)
  /\ taken \in 0..MaxConns
  /\ spare \in [Qualities -> 0..MaxConns]
  /\ abandoned \in 0..MaxConns

\* The invariant by the part of the state it is about.
RequestsRight ==
  /\ RequestTypes
  /\ \A r \in Requests : connection[r] # None <=> stage[r] \in {"ping", "query"}
  /\ LimitsKept
  /\ WitnessedNow

PlacesRight ==
  /\ taken = abandoned + Cardinality(Holding)
  /\ taken + spare["sound"] + spare["broken"] <= MaxConns

LEMMA PoolInvParts ==
  PoolInv <=> /\ RequestsRight
              /\ PoolTypes /\ PlacesRight
              /\ QueueOfWaiters /\ SoundWhileReachable
              /\ reachable \in BOOLEAN /\ intact \in BOOLEAN
BY DEF PoolInv, TypeOK, ConnectionsAccounted, RequestsRight, RequestTypes, PoolTypes,
       PlacesRight, Holding

\* The same of the state after a step.
LEMMA PoolInvAfter ==
  /\ RequestsRight'
  /\ PoolTypes' /\ PlacesRight'
  /\ QueueOfWaiters' /\ SoundWhileReachable'
  /\ reachable' \in BOOLEAN /\ intact' \in BOOLEAN
  => PoolInv'
BY DEF PoolInv, TypeOK, ConnectionsAccounted, RequestsRight, RequestTypes, PoolTypes,
       PlacesRight, Holding

-----------------------------------------------------------------------------
(* Facts about the constants.                                              *)

\* A request begins with a limit that is not over at once, that of the Store
\* or a shorter one (Store.timeout, readiness).
LEMMA LimitFacts ==
  ASSUME NEW r \in Requests
  PROVE  /\ Limit(r) \in Nat /\ Limit(r) > 0 /\ Limit(r) <= queryTimeout
         /\ Limit(r) \in 0..queryTimeout + readinessTimeout
         /\ r \in Probes => Limit(r) <= readinessTimeout
         /\ r \notin Probes => Limit(r) = queryTimeout
BY RequestPoolAssumption DEF Limit

LEMMA HoldingFinite == IsFiniteSet(Holding) /\ Cardinality(Holding) \in Nat
<1>1. IsFiniteSet(Requests)
  BY RequestPoolAssumption, FS_Union DEF Requests
<1>2. Holding \in SUBSET Requests
  BY DEF Holding
<1>3. IsFiniteSet(Holding)
  BY <1>1, <1>2, FS_Subset
<1> QED BY <1>3, FS_CardinalityType

\* How one request's step changes the number of places that are held.
LEMMA HoldingStep ==
  ASSUME RequestTypes, NEW r \in Requests, NEW x,
         stage' = [stage EXCEPT ![r] = x]
  PROVE  /\ /\ x \in {"connect", "ping", "query"} /\ stage[r] \notin {"connect", "ping", "query"}
            => Cardinality(Holding') = Cardinality(Holding) + 1
         /\ /\ x \notin {"connect", "ping", "query"} /\ stage[r] \in {"connect", "ping", "query"}
            => Cardinality(Holding') = Cardinality(Holding) - 1
         /\ (x \in {"connect", "ping", "query"} <=> stage[r] \in {"connect", "ping", "query"})
            => Cardinality(Holding') = Cardinality(Holding)
<1>1. r \in Holding <=> stage[r] \in {"connect", "ping", "query"}
  BY DEF Holding
<1>2. ASSUME x \in {"connect", "ping", "query"} PROVE Holding' = Holding \cup {r}
  BY <1>2 DEF Holding, RequestTypes
<1>3. ASSUME x \notin {"connect", "ping", "query"} PROVE Holding' = Holding \ {r}
  BY <1>3 DEF Holding, RequestTypes
<1>4. /\ Cardinality(Holding \cup {r}) =
           IF r \in Holding THEN Cardinality(Holding) ELSE Cardinality(Holding) + 1
      /\ Cardinality(Holding \ {r}) =
           IF r \in Holding THEN Cardinality(Holding) - 1 ELSE Cardinality(Holding)
  BY HoldingFinite, FS_AddElement, FS_RemoveElement
<1> QED BY <1>1, <1>2, <1>3, <1>4

\* Whoever has a place of the pool is counted.
LEMMA HoldingCounted ==
  ASSUME PoolInv, NEW r \in Requests, stage[r] \in {"connect", "ping", "query"}
  PROVE  /\ Cardinality(Holding) >= 1
         /\ taken >= 1 /\ taken - 1 \in 0..MaxConns
         /\ abandoned + 1 <= taken
<1>1. Holding # {}
  BY DEF Holding
<1>2. Cardinality(Holding) # 0 /\ Cardinality(Holding) \in Nat
  BY <1>1, HoldingFinite, FS_EmptySet
<1>3. /\ taken = abandoned + Cardinality(Holding)
      /\ taken \in 0..MaxConns /\ abandoned \in 0..MaxConns
  BY PoolInvParts DEF PlacesRight, PoolTypes
<1> QED BY <1>2, <1>3, RequestPoolAssumption

-----------------------------------------------------------------------------
(* The queue.                                                              *)

\* A request enters the queue.
LEMMA EnterQueue ==
  ASSUME PoolInv, NEW r \in Requests, stage[r] # "acquire",
         stage' = [stage EXCEPT ![r] = "acquire"], waiting' = Append(waiting, r)
  PROVE  waiting' \in Seq(Requests) /\ QueueOfWaiters'
<1>1. /\ waiting \in Seq(Requests)
      /\ stage \in [Requests -> {"idle", "acquire", "connect", "ping", "query"}]
      /\ QueueOfWaiters
  BY DEF PoolInv, TypeOK
<1>2. /\ waiting' \in Seq(Requests)
      /\ DOMAIN waiting' = 1..Len(waiting) + 1
      /\ DOMAIN waiting = 1..Len(waiting)
      /\ Len(waiting) \in Nat
      /\ \A i \in 1..Len(waiting) : waiting'[i] = waiting[i] /\ waiting[i] \in Requests
      /\ waiting'[Len(waiting) + 1] = r
  BY <1>1
<1>3. \A i \in 1..Len(waiting) + 1 :
        i \in 1..Len(waiting) \/ i = Len(waiting) + 1
  BY <1>2
<1>4. \A i \in 1..Len(waiting) : stage[waiting[i]] = "acquire" /\ waiting[i] # r
  BY <1>1, <1>2 DEF QueueOfWaiters
<1>5. \A i \in DOMAIN waiting' : stage'[waiting'[i]] = "acquire"
  BY <1>1, <1>2, <1>3, <1>4
<1>6. \A i, j \in DOMAIN waiting' : i # j => waiting'[i] # waiting'[j]
  BY <1>1, <1>2, <1>3, <1>4 DEF QueueOfWaiters
<1>7. ASSUME NEW q \in Requests, stage'[q] = "acquire"
      PROVE  \E i \in DOMAIN waiting' : waiting'[i] = q
  <2>1. CASE q = r
    <3>1. Len(waiting) + 1 \in DOMAIN waiting'
      BY <1>2
    <3> QED BY <1>2, <2>1, <3>1
  <2>2. CASE q # r
    <3>1. stage[q] = "acquire"
      BY <1>1, <1>7, <2>2
    <3>2. PICK i \in DOMAIN waiting : waiting[i] = q
      BY <1>1, <3>1 DEF QueueOfWaiters
    <3>3. i \in DOMAIN waiting' /\ waiting'[i] = q
      BY <1>2, <3>2
    <3> QED BY <3>3
  <2> QED BY <2>1, <2>2
<1> QED BY <1>2, <1>5, <1>6, <1>7 DEF QueueOfWaiters

\* The queue without its member at one place.
LEMMA RemovedAt ==
  ASSUME PoolInv, NEW i \in DOMAIN waiting, NEW q, q = RemoveAt(waiting, i)
  PROVE  /\ q \in Seq(Requests)
         /\ DOMAIN q = 1..Len(waiting) - 1
         /\ \A j \in 1..Len(waiting) - 1 :
              q[j] = IF j < i THEN waiting[j] ELSE waiting[j + 1]
<1>1. waiting \in Seq(Requests) /\ Len(waiting) \in Nat /\ i \in 1..Len(waiting)
  BY DEF PoolInv, TypeOK
<1> DEFINE s == SubSeq(waiting, 1, i - 1)
           t == SubSeq(waiting, i + 1, Len(waiting))
<1>2. /\ s \in Seq(Requests) /\ Len(s) = i - 1
      /\ \A j \in 1..i - 1 : s[j] = waiting[j]
  BY <1>1
<1>3. /\ t \in Seq(Requests) /\ Len(t) = Len(waiting) - i
      /\ \A j \in 1..Len(waiting) - i : t[j] = waiting[j + i]
  BY <1>1
<1>4. q = s \o t
  BY DEF RemoveAt
<1> HIDE DEF s, t
<1>5. /\ q \in Seq(Requests) /\ Len(q) = Len(waiting) - 1
      /\ \A j \in 1..Len(s) : q[j] = s[j]
      /\ \A j \in 1..Len(t) : q[Len(s) + j] = t[j]
  <2>1. Len(s) + Len(t) = Len(waiting) - 1
    BY <1>1, <1>2, <1>3
  <2>2. s \in Seq(Requests) /\ t \in Seq(Requests)
    BY <1>2, <1>3
  <2>3. /\ q \in Seq(Requests) /\ Len(q) = Len(s) + Len(t)
        /\ \A j \in 1..Len(s) : q[j] = s[j]
        /\ \A j \in 1..Len(t) : q[Len(s) + j] = t[j]
    BY <1>4, <2>2
  <2> QED BY <2>1, <2>3
<1>6. ASSUME NEW j \in 1..Len(waiting) - 1
      PROVE  q[j] = IF j < i THEN waiting[j] ELSE waiting[j + 1]
  <2>1. j \in Int /\ 1 <= j /\ j <= Len(waiting) - 1 /\ i \in Int /\ i <= Len(waiting)
    BY <1>1, <1>6
  <2>2. CASE j < i
    <3>1. j \in 1..Len(s) /\ j \in 1..i - 1
      BY <1>1, <1>2, <2>1, <2>2
    <3> QED BY <1>2, <1>5, <2>2, <3>1
  <2>3. CASE ~(j < i)
    <3> DEFINE k == j - (i - 1)
    <3>1. k \in 1..Len(waiting) - i /\ (i - 1) + k = j /\ k + i = j + 1
      BY <1>1, <2>1, <2>3
    <3> HIDE DEF k
    <3>2. q[j] = t[k]
      <4>1. k \in 1..Len(t) /\ Len(s) + k = j
        BY <1>2, <1>3, <3>1
      <4> QED BY <1>5, <4>1
    <3>3. t[k] = waiting[j + 1]
      BY <1>3, <3>1
    <3> QED BY <2>3, <3>2, <3>3
  <2> QED BY <2>2, <2>3
<1> QED BY <1>1, <1>5, <1>6

\* A request leaves the queue, wherever it stands.
LEMMA QueueLeft ==
  ASSUME PoolInv, NEW r \in Requests, NEW x \in {"idle", "connect", "ping", "query"},
         stage' = [stage EXCEPT ![r] = x],
         NEW i \in DOMAIN waiting, waiting[i] = r, waiting' = RemoveAt(waiting, i)
  PROVE  waiting' \in Seq(Requests) /\ QueueOfWaiters'
<1>1. /\ waiting \in Seq(Requests) /\ Len(waiting) \in Nat
      /\ DOMAIN waiting = 1..Len(waiting)
      /\ \A k \in 1..Len(waiting) : waiting[k] \in Requests
      /\ stage \in [Requests -> {"idle", "acquire", "connect", "ping", "query"}]
      /\ QueueOfWaiters
  BY DEF PoolInv, TypeOK
<1>2. /\ waiting' \in Seq(Requests)
      /\ DOMAIN waiting' = 1..Len(waiting) - 1
      /\ \A j \in 1..Len(waiting) - 1 :
           waiting'[j] = IF j < i THEN waiting[j] ELSE waiting[j + 1]
  BY RemovedAt
<1> DEFINE old(j) == IF j < i THEN j ELSE j + 1
<1>3. \A j \in 1..Len(waiting) - 1 :
        /\ waiting'[j] = waiting[old(j)]
        /\ old(j) \in 1..Len(waiting) /\ old(j) # i
  BY <1>1, <1>2
<1>4. \A j, k \in 1..Len(waiting) - 1 : j # k => old(j) # old(k)
  BY <1>1
<1> HIDE DEF old
<1>5. \A j \in DOMAIN waiting' : stage'[waiting'[j]] = "acquire"
  BY <1>1, <1>2, <1>3 DEF QueueOfWaiters
<1>6. \A j, k \in DOMAIN waiting' : j # k => waiting'[j] # waiting'[k]
  BY <1>1, <1>2, <1>3, <1>4 DEF QueueOfWaiters
<1>7. ASSUME NEW q \in Requests, stage'[q] = "acquire"
      PROVE  \E j \in DOMAIN waiting' : waiting'[j] = q
  <2>1. q # r /\ stage[q] = "acquire"
    BY <1>1, <1>7
  <2>2. PICK k \in DOMAIN waiting : waiting[k] = q
    BY <1>1, <2>1 DEF QueueOfWaiters
  <2>3. k \in 1..Len(waiting) /\ k # i /\ i \in 1..Len(waiting)
    BY <1>1, <2>1, <2>2
  <2>4. CASE k < i
    <3>1. k \in 1..Len(waiting) - 1 /\ waiting'[k] = waiting[k]
      BY <1>1, <1>2, <2>3, <2>4
    <3> QED BY <1>2, <2>2, <3>1
  <2>5. CASE ~(k < i)
    <3>1. /\ k - 1 \in 1..Len(waiting) - 1 /\ ~(k - 1 < i) /\ (k - 1) + 1 = k
      BY <1>1, <2>3, <2>5
    <3>2. waiting'[k - 1] = waiting[k]
      BY <1>2, <3>1
    <3> QED BY <1>2, <2>2, <3>1, <3>2
  <2> QED BY <2>4, <2>5
<1> QED BY <1>2, <1>5, <1>6, <1>7 DEF QueueOfWaiters

\* The first of the queue takes its turn.
LEMMA HeadLeaves ==
  ASSUME PoolInv, NEW r \in Requests, NEW x \in {"idle", "connect", "ping", "query"},
         stage' = [stage EXCEPT ![r] = x],
         waiting # <<>>, r = Head(waiting), waiting' = Tail(waiting)
  PROVE  /\ waiting' \in Seq(Requests) /\ QueueOfWaiters'
         /\ stage[r] = "acquire"
<1>1. waiting \in Seq(Requests) /\ QueueOfWaiters
  BY DEF PoolInv, TypeOK
<1>2. 1 \in DOMAIN waiting /\ waiting[1] = r
  BY <1>1
<1>3. Tail(waiting) = RemoveAt(waiting, 1)
  <2> DEFINE q == RemoveAt(waiting, 1)
  <2>1. /\ q \in Seq(Requests)
        /\ DOMAIN q = 1..Len(waiting) - 1
        /\ \A j \in 1..Len(waiting) - 1 :
             q[j] = IF j < 1 THEN waiting[j] ELSE waiting[j + 1]
    BY <1>2, RemovedAt
  <2>2. /\ Tail(waiting) \in Seq(Requests)
        /\ DOMAIN Tail(waiting) = 1..Len(waiting) - 1
        /\ \A j \in 1..Len(waiting) - 1 : Tail(waiting)[j] = waiting[j + 1]
    BY <1>1, <1>2
  <2>3. \A j \in 1..Len(waiting) - 1 : ~(j < 1)
    BY <1>1
  <2> HIDE DEF q
  <2>4. q = Tail(waiting)
    BY <2>1, <2>2, <2>3
  <2> QED BY <2>4 DEF q
<1>4. stage[r] = "acquire"
  BY <1>1, <1>2 DEF QueueOfWaiters
<1>5. waiting' = RemoveAt(waiting, 1)
  BY <1>3
<1> QED BY <1>2, <1>4, <1>5, QueueLeft

\* A step of a request that neither waits nor begins to wait.
LEMMA QueueKept ==
  ASSUME PoolInv, NEW r \in Requests, stage[r] # "acquire",
         NEW x \in {"idle", "connect", "ping", "query"}, stage' = [stage EXCEPT ![r] = x], waiting' = waiting
  PROVE  waiting' \in Seq(Requests) /\ QueueOfWaiters'
<1>1. /\ waiting \in Seq(Requests)
      /\ \A i \in DOMAIN waiting : waiting[i] \in Requests
      /\ stage \in [Requests -> {"idle", "acquire", "connect", "ping", "query"}]
      /\ QueueOfWaiters
  BY DEF PoolInv, TypeOK
<1> QED BY <1>1 DEF QueueOfWaiters

\* A request that ends is in the queue no more, if it was there.
LEMMA QueueAfterEnd ==
  ASSUME PoolInv, NEW r \in Requests, stage' = [stage EXCEPT ![r] = "idle"], LeaveQueue(r)
  PROVE  waiting' \in Seq(Requests) /\ QueueOfWaiters'
<1>1. "idle" \in {"idle", "connect", "ping", "query"}
  OBVIOUS
<1>2. CASE stage[r] = "acquire"
  <2>1. PICK i \in DOMAIN waiting : waiting[i] = r /\ waiting' = RemoveAt(waiting, i)
    BY <1>2 DEF LeaveQueue
  <2> QED BY <1>1, <2>1, QueueLeft
<1>3. CASE stage[r] # "acquire"
  <2>1. waiting' = waiting
    BY <1>3 DEF LeaveQueue
  <2> QED BY <1>1, <1>3, <2>1, QueueKept
<1> QED BY <1>2, <1>3

-----------------------------------------------------------------------------
(* The end of a request, and the place it had.                             *)

\* An answered request forgets all it had, and the others keep it.
LEMMA Answered ==
  ASSUME PoolInv, NEW r \in Requests,
         NEW status \in {Nothing, 200, 404, 500, 503, 504},
         Answer(r, status), UNCHANGED database
  PROVE  /\ RequestsRight'
         /\ \A q \in Requests : connection'[q] = "sound" => reachable'
<1>1. RequestsRight /\ SoundWhileReachable
  BY PoolInvParts
<1>2. /\ None \notin Qualities /\ Nothing = 0 /\ reachable' = reachable /\ intact' = intact
      /\ 0 \in 0..queryTimeout + readinessTimeout /\ 0 \in 0..MaxConns
  BY RequestPoolAssumption DEF Qualities, database, Nothing
<1>3. RequestTypes'
  BY <1>1, <1>2 DEF RequestsRight, RequestTypes, Answer
<1>4. \A q \in Requests : connection'[q] # None <=> stage'[q] \in {"ping", "query"}
  BY <1>1 DEF RequestsRight, RequestTypes, Answer
<1>5. LimitsKept'
  BY <1>1 DEF RequestsRight, RequestTypes, Answer, LimitsKept, InProgress, Limit
<1>6. ASSUME NEW q \in Requests
      PROVE  /\ InProgress(q)' => Observed(q, reachable, intact)' \subseteq witness'[q]
             /\ connection'[q] = "broken" => "fault" \in witness'[q]
             /\ q \in Probes /\ age'[q] > 0 =>
                  witness'[q] \cap {"fault", "crowded", "slow"} # {}
  <2>1. CASE q = r
    BY <1>1, <1>2, <2>1
       DEF RequestsRight, RequestTypes, Answer, InProgress, Qualities
  <2>2. CASE q # r
    <3>1. /\ stage'[q] = stage[q] /\ connection'[q] = connection[q] /\ age'[q] = age[q]
          /\ witness'[q] = witness[q]
      BY <1>1, <2>2 DEF RequestsRight, RequestTypes, Answer
    <3> QED BY <1>1, <1>2, <3>1 DEF RequestsRight, WitnessedNow, InProgress, Observed
  <2> QED BY <2>1, <2>2
<1>7. \A q \in Requests : connection'[q] = "sound" => reachable'
  BY <1>1, <1>2 DEF RequestsRight, RequestTypes, Answer, SoundWhileReachable, Qualities
<1> QED BY <1>3, <1>4, <1>5, <1>6, <1>7 DEF RequestsRight, WitnessedNow

\* The place a request gives up, with its connection or without.
LEMMA PlaceLeft ==
  ASSUME PoolInv, NEW r \in Requests, stage[r] \in {"connect", "ping", "query"},
         NEW x \in {"idle", "acquire"}, stage' = [stage EXCEPT ![r] = x],
         Release(r) \/ Close,
         UNCHANGED <<abandoned, reachable>>
  PROVE  /\ taken' \in 0..MaxConns /\ spare' \in [Qualities -> 0..MaxConns]
         /\ abandoned' \in 0..MaxConns
         /\ PlacesRight'
         /\ spare'["sound"] > 0 => reachable'
<1>1. /\ RequestTypes /\ PoolTypes /\ PlacesRight /\ SoundWhileReachable
      /\ Cardinality(Holding) \in Nat
  BY PoolInvParts, HoldingFinite DEF RequestsRight
<1>2. /\ taken' = taken - 1 /\ taken - 1 \in 0..MaxConns
      /\ Cardinality(Holding') = Cardinality(Holding) - 1
  <2>1. x \notin {"connect", "ping", "query"}
    OBVIOUS
  <2> QED BY <1>1, <2>1, HoldingStep, HoldingCounted DEF Release, Close
<1>3. /\ "sound" \in Qualities /\ "broken" \in Qualities /\ "sound" # "broken"
      /\ spare["sound"] \in 0..MaxConns /\ spare["broken"] \in 0..MaxConns
      /\ taken \in 0..MaxConns /\ abandoned \in 0..MaxConns /\ MaxConns \in Nat
      /\ taken + spare["sound"] + spare["broken"] <= MaxConns
      /\ taken = abandoned + Cardinality(Holding)
  BY <1>1, RequestPoolAssumption DEF PoolTypes, Qualities, PlacesRight
<1>4. CASE spare' = spare
  <2>1. PlacesRight'
    <3>1. taken' = abandoned' + Cardinality(Holding')
      BY <1>1, <1>2, <1>3
    <3>2. taken' + spare'["sound"] + spare'["broken"] <= MaxConns
      BY <1>2, <1>3, <1>4
    <3> QED BY <3>1, <3>2 DEF PlacesRight
  <2>2. spare' \in [Qualities -> 0..MaxConns] /\ (spare'["sound"] > 0 => reachable')
    BY <1>1, <1>4 DEF PoolTypes, SoundWhileReachable
  <2> QED BY <1>2, <1>3, <2>1, <2>2
<1>5. CASE spare' = [spare EXCEPT !["sound"] = @ + 1] /\ connection[r] = "sound"
  <2>1. /\ spare'["sound"] = spare["sound"] + 1 /\ spare'["broken"] = spare["broken"]
    BY <1>1, <1>3, <1>5 DEF PoolTypes
  <2>2. spare["sound"] + 1 \in 0..MaxConns
    <3>1. taken >= 1
      BY HoldingCounted
    <3> QED BY <1>3, <3>1
  <2>3. spare' \in [Qualities -> 0..MaxConns]
    BY <1>1, <1>3, <1>5, <2>2 DEF PoolTypes
  <2>4. reachable
    BY <1>1, <1>5 DEF SoundWhileReachable
  <2>5. PlacesRight'
    <3>1. taken' = abandoned' + Cardinality(Holding')
      BY <1>1, <1>2, <1>3
    <3>2. taken' + spare'["sound"] + spare'["broken"] <= MaxConns
      BY <1>2, <1>3, <2>1
    <3> QED BY <3>1, <3>2 DEF PlacesRight
  <2> QED BY <1>2, <1>3, <2>3, <2>4, <2>5
<1> QED BY <1>4, <1>5 DEF Release, Close

\* A request that had a place ends: its invariant again.
LEMMA EndedWithPlace ==
  ASSUME PoolInv, NEW r \in Requests, stage[r] \in {"connect", "ping", "query"},
         NEW status \in {Nothing, 200, 404, 500, 503, 504},
         Answer(r, status),
         Release(r) \/ Close,
         UNCHANGED <<waiting, abandoned, database>>
  PROVE  PoolInv'
<1>1. /\ stage' = [stage EXCEPT ![r] = "idle"] /\ waiting' = waiting
      /\ UNCHANGED <<abandoned, reachable, intact>> /\ UNCHANGED database
  BY DEF Answer, database
<1>2. /\ RequestsRight'
      /\ \A q \in Requests : connection'[q] = "sound" => reachable'
  BY <1>1, Answered
<1>3. /\ taken' \in 0..MaxConns /\ spare' \in [Qualities -> 0..MaxConns]
      /\ abandoned' \in 0..MaxConns
      /\ PlacesRight'
      /\ spare'["sound"] > 0 => reachable'
  BY <1>1, PlaceLeft
<1>4. waiting' \in Seq(Requests) /\ QueueOfWaiters'
  <2>1. "idle" \in {"idle", "connect", "ping", "query"} /\ stage[r] # "acquire"
    OBVIOUS
  <2> QED BY <1>1, <2>1, QueueKept
<1>5. reachable' \in BOOLEAN /\ intact' \in BOOLEAN
  BY <1>1 DEF PoolInv, TypeOK
<1>6. PoolTypes' /\ SoundWhileReachable'
  BY <1>2, <1>3, <1>4 DEF PoolTypes, SoundWhileReachable
<1> QED BY <1>2, <1>3, <1>4, <1>5, <1>6, PoolInvAfter

-----------------------------------------------------------------------------
(* Each action preserves the invariant.                                    *)

LEMMA InitInvariant == Init => PoolInv
<1> SUFFICES ASSUME Init PROVE PoolInv
  OBVIOUS
<1>1. Holding = {}
  BY DEF Init, Holding
<1>2. Cardinality(Holding) = 0
  BY <1>1, FS_EmptySet
<1>3. /\ 0 \in 0..queryTimeout + readinessTimeout /\ 0 \in 0..MaxConns /\ 1 \in 1..2
      /\ None \notin Qualities
  BY RequestPoolAssumption DEF Qualities
<1>4. RequestsRight
  <2>1. RequestTypes
    BY <1>3 DEF Init, RequestTypes, Nothing
  <2>2. LimitsKept
    BY <1>3 DEF Init, LimitsKept, InProgress
  <2>3. WitnessedNow
    BY <1>3 DEF Init, WitnessedNow, InProgress, Qualities
  <2> QED BY <2>1, <2>2, <2>3 DEF Init, RequestsRight
<1>5. PoolTypes
  BY <1>3 DEF Init, PoolTypes
<1>6. PlacesRight
  BY <1>2, RequestPoolAssumption DEF Init, PlacesRight, Qualities
<1>7. QueueOfWaiters /\ SoundWhileReachable
  BY DEF Init, QueueOfWaiters, SoundWhileReachable
<1> QED BY <1>4, <1>5, <1>6, <1>7, PoolInvParts DEF Init

\* A request begins in the queue, and observes the database.
LEMMA StartInvariant ==
  ASSUME PoolInv, NEW r \in Requests, Start(r)
  PROVE  PoolInv'
<1>1. /\ RequestsRight /\ PoolTypes /\ PlacesRight /\ SoundWhileReachable
      /\ reachable \in BOOLEAN /\ intact \in BOOLEAN
  BY PoolInvParts
<1>2. /\ stage[r] = "idle" /\ connection[r] = None
      /\ stage' = [stage EXCEPT ![r] = "acquire"] /\ waiting' = Append(waiting, r)
      /\ UNCHANGED <<connection, taken, spare, abandoned, reachable, intact>>
  BY <1>1 DEF Start, InProgress, RequestsRight, RequestTypes
<1>3. waiting' \in Seq(Requests) /\ QueueOfWaiters'
  <2>1. stage[r] # "acquire"
    BY <1>2
  <2> QED BY <1>2, <2>1, EnterQueue
<1>4. PlacesRight'
  <2>1. "acquire" \notin {"connect", "ping", "query"} /\ stage[r] \notin {"connect", "ping", "query"}
    BY <1>2
  <2>2. RequestTypes
    BY <1>1 DEF RequestsRight
  <2>3. Cardinality(Holding') = Cardinality(Holding)
    BY <1>2, <2>1, <2>2, HoldingStep
  <2> QED BY <1>1, <1>2, <2>3 DEF PlacesRight
<1>5. /\ Limit(r) \in Nat /\ 0 <= Limit(r) /\ Limit(r) \in 0..queryTimeout + readinessTimeout
      /\ 0 \in 0..queryTimeout + readinessTimeout /\ 1 \in 1..2 /\ Nothing = 0
      /\ None # "broken"
  BY LimitFacts, RequestPoolAssumption DEF Nothing
<1>6. RequestTypes'
  <2>1. Observed(r, reachable, intact) \in SUBSET {"up", "fault", "crowded", "slow"}
    BY DEF Observed
  <2> QED BY <1>1, <1>5, <2>1 DEF RequestsRight, RequestTypes, Start
<1>7. \A q \in Requests : connection'[q] # None <=> stage'[q] \in {"ping", "query"}
  BY <1>1, <1>2 DEF RequestsRight, RequestTypes
<1>8. LimitsKept'
  <2>1. ASSUME NEW q \in Requests
        PROVE  age'[q] <= limit'[q] /\ limit'[q] = IF stage'[q] # "idle" THEN Limit(q) ELSE 0
    <3>1. CASE q = r
      BY <1>1, <1>2, <1>5, <3>1 DEF RequestsRight, RequestTypes, Start
    <3>2. CASE q # r
      BY <1>1, <3>2 DEF RequestsRight, RequestTypes, LimitsKept, InProgress, Start
    <3> QED BY <3>1, <3>2
  <2> QED BY <2>1 DEF LimitsKept, InProgress, Limit
<1>9. WitnessedNow'
  <2>1. ASSUME NEW q \in Requests
        PROVE  /\ stage'[q] # "idle" => Observed(q, reachable, intact) \subseteq witness'[q]
               /\ connection'[q] = "broken" => "fault" \in witness'[q]
               /\ q \in Probes /\ age'[q] > 0 =>
                    witness'[q] \cap {"fault", "crowded", "slow"} # {}
    <3>1. CASE q = r
      BY <1>1, <1>2, <1>5, <3>1 DEF RequestsRight, RequestTypes, Start
    <3>2. CASE q # r
      BY <1>1, <1>2, <3>2
         DEF RequestsRight, RequestTypes, WitnessedNow, InProgress, Start
    <3> QED BY <3>1, <3>2
  <2> QED BY <1>2, <2>1 DEF WitnessedNow, InProgress, Observed
<1>10. PoolTypes' /\ SoundWhileReachable'
  BY <1>1, <1>2, <1>3 DEF PoolTypes, SoundWhileReachable
<1> QED
  BY <1>1, <1>2, <1>3, <1>4, <1>6, <1>7, <1>8, <1>9, <1>10, PoolInvAfter DEF RequestsRight

\* A request in progress goes on to another stage, with or without a
\* connection; what a broken one means is witnessed.
LEMMA MovedOn ==
  ASSUME PoolInv, NEW r \in Requests, stage[r] # "idle",
         NEW x \in {"acquire", "connect", "ping", "query"}, stage' = [stage EXCEPT ![r] = x],
         NEW c \in Qualities \cup {None}, c # None <=> x \in {"ping", "query"},
         connection' = [connection EXCEPT ![r] = c],
         statement' \in [Requests -> 1..2], tries' \in [Requests -> 0..MaxConns],
         \/ witness' = witness /\ c # "broken"
         \/ witness' = [witness EXCEPT ![r] = @ \cup {"fault"}],
         c = "sound" => reachable,
         UNCHANGED <<age, limit, answer, database>>
  PROVE  /\ RequestsRight'
         /\ \A q \in Requests : connection'[q] = "sound" => reachable'
<1>1. /\ RequestsRight /\ SoundWhileReachable
      /\ UNCHANGED <<age, limit, answer, reachable, intact>>
  BY PoolInvParts DEF database
<1>2. RequestTypes'
  BY <1>1 DEF RequestsRight, RequestTypes
<1>3. \A q \in Requests : connection'[q] # None <=> stage'[q] \in {"ping", "query"}
  BY <1>1 DEF RequestsRight, RequestTypes
<1>4. LimitsKept'
  BY <1>1 DEF RequestsRight, RequestTypes, LimitsKept, InProgress, Limit
<1>5. \A q \in Requests : witness[q] \subseteq witness'[q]
  BY <1>1 DEF RequestsRight, RequestTypes
<1>6. WitnessedNow'
  <2>1. ASSUME NEW q \in Requests
        PROVE  /\ stage'[q] # "idle" => Observed(q, reachable, intact) \subseteq witness'[q]
               /\ connection'[q] = "broken" => "fault" \in witness'[q]
               /\ q \in Probes /\ age[q] > 0 =>
                    witness'[q] \cap {"fault", "crowded", "slow"} # {}
    <3>1. /\ stage[q] # "idle" => Observed(q, reachable, intact) \subseteq witness[q]
          /\ connection[q] = "broken" => "fault" \in witness[q]
          /\ q \in Probes /\ age[q] > 0 =>
               witness[q] \cap {"fault", "crowded", "slow"} # {}
          /\ witness[q] \subseteq witness'[q]
      BY <1>1, <1>5, <2>1 DEF RequestsRight, WitnessedNow, InProgress
    <3>2. connection'[q] = "broken" => "fault" \in witness'[q]
      <4>1. CASE q = r
        BY <1>1, <4>1 DEF RequestsRight, RequestTypes
      <4>2. CASE q # r
        BY <1>1, <3>1, <4>2 DEF RequestsRight, RequestTypes
      <4> QED BY <4>1, <4>2
    <3>3. stage'[q] # "idle" => stage[q] # "idle"
      BY <1>1 DEF RequestsRight, RequestTypes
    <3> QED BY <3>1, <3>2, <3>3
  <2> QED BY <1>1, <2>1 DEF WitnessedNow, InProgress, Observed
<1>7. \A q \in Requests : connection'[q] = "sound" => reachable'
  BY <1>1 DEF RequestsRight, RequestTypes, SoundWhileReachable
<1> QED BY <1>2, <1>3, <1>4, <1>6, <1>7 DEF RequestsRight

\* The first of the queue takes a place, with a spare connection or to open one.
LEMMA AcquireInvariant ==
  ASSUME PoolInv, NEW r \in Requests, Acquire(r)
  PROVE  PoolInv'
<1>1. /\ RequestsRight /\ PoolTypes /\ PlacesRight /\ SoundWhileReachable
      /\ reachable \in BOOLEAN /\ intact \in BOOLEAN
      /\ Cardinality(Holding) \in Nat
  BY PoolInvParts, HoldingFinite
<1>2. /\ waiting # <<>> /\ r = Head(waiting) /\ waiting' = Tail(waiting)
      /\ taken < MaxConns /\ taken' = taken + 1
      /\ UNCHANGED <<statement, age, limit, answer, abandoned, reachable, intact>>
      /\ UNCHANGED database
  BY DEF Acquire, database
<1>3. PICK x \in {"connect", "ping", "query"} : stage' = [stage EXCEPT ![r] = x]
  BY DEF Acquire
<1>4. waiting' \in Seq(Requests) /\ QueueOfWaiters' /\ stage[r] = "acquire"
  <2>1. x \in {"idle", "connect", "ping", "query"}
    OBVIOUS
  <2> QED BY <1>2, <1>3, <2>1, HeadLeaves
<1>5. connection[r] = None
  BY <1>1, <1>4 DEF RequestsRight
<1>6. Cardinality(Holding') = Cardinality(Holding) + 1
  <2>1. RequestTypes /\ stage[r] \notin {"connect", "ping", "query"}
    BY <1>1, <1>4 DEF RequestsRight
  <2> QED BY <1>3, <2>1, HoldingStep
<1>7. /\ "sound" \in Qualities /\ "broken" \in Qualities /\ "sound" # "broken"
      /\ spare \in [Qualities -> 0..MaxConns]
      /\ spare["sound"] \in 0..MaxConns /\ spare["broken"] \in 0..MaxConns
      /\ taken \in 0..MaxConns /\ abandoned \in 0..MaxConns /\ MaxConns \in Nat
      /\ taken + spare["sound"] + spare["broken"] <= MaxConns
      /\ taken = abandoned + Cardinality(Holding)
      /\ statement' \in [Requests -> 1..2]
      /\ None \notin Qualities /\ stage[r] # "idle"
  BY <1>1, <1>2, <1>4, RequestPoolAssumption
     DEF RequestsRight, RequestTypes, PoolTypes, Qualities, PlacesRight
<1>11. tries' \in [Requests -> 0..MaxConns]
  <2>1. PICK n : n \in {0, tries[r]} /\ tries' = [tries EXCEPT ![r] = n]
    BY <1>1 DEF Acquire, RequestsRight, RequestTypes
  <2> QED BY <1>1, <2>1, RequestPoolAssumption DEF RequestsRight, RequestTypes
<1>8. taken' = abandoned' + Cardinality(Holding') /\ taken' \in 0..MaxConns
  <2>1. Cardinality(Holding) \in Int /\ abandoned' = abandoned /\ taken' = taken + 1
    BY <1>1, <1>2
  <2>2. taken' = abandoned' + Cardinality(Holding')
    BY <1>6, <1>7, <2>1
  <2>3. taken' \in 0..MaxConns
    BY <1>2, <1>7
  <2> QED BY <2>2, <2>3
<1>9. CASE \E q \in Qualities, use \in {"ping", "query"} :
              /\ spare[q] > 0
              /\ spare' = [spare EXCEPT ![q] = @ - 1]
              /\ connection' = [connection EXCEPT ![r] = q]
              /\ stage' = [stage EXCEPT ![r] = use]
              /\ witness' = IF q = "broken"
                            THEN [witness EXCEPT ![r] = @ \cup {"fault"}] ELSE witness
  <2>1. PICK q \in Qualities, use \in {"ping", "query"} :
          /\ spare[q] > 0
          /\ spare' = [spare EXCEPT ![q] = @ - 1]
          /\ connection' = [connection EXCEPT ![r] = q]
          /\ stage' = [stage EXCEPT ![r] = use]
          /\ witness' = IF q = "broken"
                        THEN [witness EXCEPT ![r] = @ \cup {"fault"}] ELSE witness
    BY <1>9
  <2>2. q = "sound" => reachable
    BY <1>1, <2>1 DEF SoundWhileReachable
  <2>3. /\ use \in {"acquire", "connect", "ping", "query"}
        /\ q \in Qualities \cup {None} /\ q # None
        /\ \/ witness' = witness /\ q # "broken"
           \/ witness' = [witness EXCEPT ![r] = @ \cup {"fault"}]
    BY <1>7, <2>1
  <2>4. /\ RequestsRight'
        /\ \A p \in Requests : connection'[p] = "sound" => reachable'
    BY <1>2, <1>7, <1>11, <2>1, <2>2, <2>3, MovedOn
  <2>5. /\ q = "sound" => /\ spare'["sound"] = spare["sound"] - 1
                         /\ spare'["broken"] = spare["broken"]
        /\ q = "broken" => /\ spare'["sound"] = spare["sound"]
                          /\ spare'["broken"] = spare["broken"] - 1
    BY <1>7, <2>1
  <2>6. /\ q = "sound" \/ q = "broken"
        /\ spare[q] - 1 \in 0..MaxConns
    BY <1>7, <2>1 DEF Qualities
  <2>7. spare' \in [Qualities -> 0..MaxConns]
    BY <1>7, <2>1, <2>6
  <2>8. taken' + spare'["sound"] + spare'["broken"] <= MaxConns
    <3>1. spare'["sound"] + spare'["broken"] = spare["sound"] + spare["broken"] - 1
      <4>1. spare["sound"] \in Int /\ spare["broken"] \in Int
        BY <1>7
      <4> QED BY <2>5, <2>6, <4>1
    <3>2. /\ spare'["sound"] \in Int /\ spare'["broken"] \in Int
          /\ spare["sound"] \in Int /\ spare["broken"] \in Int
      <4>1. spare["sound"] \in Int /\ spare["broken"] \in Int
        BY <1>7
      <4> QED BY <2>5, <2>6, <4>1
    <3>3. /\ taken \in Int /\ MaxConns \in Int /\ taken' = taken + 1
          /\ taken + spare["sound"] + spare["broken"] <= MaxConns
      BY <1>2, <1>7
    <3> QED BY <3>1, <3>2, <3>3
  <2>9. SoundWhileReachable'
    <3>1. spare'["sound"] > 0 => spare["sound"] > 0
      BY <1>7, <2>5, <2>6
    <3> QED BY <1>1, <1>2, <2>4, <3>1 DEF SoundWhileReachable
  <2>10. PoolTypes' /\ PlacesRight'
    BY <1>2, <1>4, <1>7, <1>8, <2>7, <2>8 DEF PoolTypes, PlacesRight
  <2> QED BY <1>1, <1>2, <1>4, <2>4, <2>9, <2>10, PoolInvAfter
<1>10. CASE /\ \A q \in Qualities : spare[q] = 0
            /\ stage' = [stage EXCEPT ![r] = "connect"]
            /\ UNCHANGED <<spare, connection, witness>>
  <2>1. connection' = [connection EXCEPT ![r] = None]
    BY <1>1, <1>5, <1>10 DEF RequestsRight, RequestTypes
  <2>2. /\ "connect" \in {"acquire", "connect", "ping", "query"} /\ "connect" \notin {"ping", "query"}
        /\ None \in Qualities \cup {None} /\ None # "broken" /\ None # "sound"
    BY <1>7
  <2>3. /\ RequestsRight'
        /\ \A p \in Requests : connection'[p] = "sound" => reachable'
    BY <1>2, <1>7, <1>10, <1>11, <2>1, <2>2, MovedOn
  <2>4. taken' + spare'["sound"] + spare'["broken"] <= MaxConns
    BY <1>2, <1>7, <1>10
  <2>5. PoolTypes' /\ PlacesRight' /\ SoundWhileReachable'
    BY <1>1, <1>2, <1>4, <1>7, <1>8, <1>10, <2>3, <2>4
       DEF PoolTypes, PlacesRight, SoundWhileReachable
  <2> QED BY <1>1, <1>2, <1>4, <2>3, <2>5, PoolInvAfter
<1> QED BY <1>9, <1>10 DEF Acquire

\* A connect succeeds while PostgreSQL is reachable.
LEMMA ConnectInvariant ==
  ASSUME PoolInv, NEW r \in Requests, Connect(r)
  PROVE  PoolInv'
<1>1. /\ RequestsRight /\ PoolTypes /\ PlacesRight /\ SoundWhileReachable
      /\ reachable \in BOOLEAN /\ intact \in BOOLEAN
  BY PoolInvParts
<1>2. /\ stage[r] = "connect" /\ reachable
      /\ stage' = [stage EXCEPT ![r] = "query"]
      /\ connection' = [connection EXCEPT ![r] = "sound"]
      /\ witness' = witness /\ statement' = statement /\ tries' = tries
      /\ UNCHANGED <<age, limit, answer, database>>
      /\ UNCHANGED <<waiting, taken, spare, abandoned, reachable, intact>>
  BY DEF Connect, pool, database
<1>3. /\ RequestsRight'
      /\ \A q \in Requests : connection'[q] = "sound" => reachable'
  <2>1. /\ "query" \in {"acquire", "connect", "ping", "query"}
        /\ "sound" \in Qualities \cup {None} /\ "sound" # None /\ "sound" # "broken"
        /\ statement' \in [Requests -> 1..2] /\ tries' \in [Requests -> 0..MaxConns]
        /\ stage[r] # "idle"
    BY <1>1, <1>2, RequestPoolAssumption DEF RequestsRight, RequestTypes, Qualities
  <2> QED BY <1>2, <2>1, MovedOn
<1>4. waiting' \in Seq(Requests) /\ QueueOfWaiters'
  <2>1. "query" \in {"idle", "connect", "ping", "query"} /\ stage[r] # "acquire"
    BY <1>2
  <2> QED BY <1>2, <2>1, QueueKept
<1>5. PlacesRight'
  <2>1. "query" \in {"connect", "ping", "query"} /\ stage[r] \in {"connect", "ping", "query"}
    BY <1>2
  <2>2. RequestTypes
    BY <1>1 DEF RequestsRight
  <2>3. Cardinality(Holding') = Cardinality(Holding)
    BY <1>2, <2>1, <2>2, HoldingStep
  <2> QED BY <1>1, <1>2, <2>3 DEF PlacesRight
<1>6. PoolTypes' /\ SoundWhileReachable'
  BY <1>1, <1>2, <1>3, <1>4 DEF PoolTypes, SoundWhileReachable
<1> QED BY <1>1, <1>2, <1>3, <1>4, <1>5, <1>6, PoolInvAfter

\* A ping that is answered: the connection is kept.
LEMMA PongInvariant ==
  ASSUME PoolInv, NEW r \in Requests, Pong(r)
  PROVE  PoolInv'
<1>1. /\ RequestsRight /\ PoolTypes /\ PlacesRight /\ SoundWhileReachable
      /\ reachable \in BOOLEAN /\ intact \in BOOLEAN
  BY PoolInvParts
<1>2. /\ stage[r] = "ping" /\ connection[r] = "sound"
      /\ stage' = [stage EXCEPT ![r] = "query"]
      /\ tries' = [tries EXCEPT ![r] = 0]
      /\ connection' = connection /\ witness' = witness /\ statement' = statement
      /\ UNCHANGED <<age, limit, answer, database>>
      /\ UNCHANGED <<waiting, taken, spare, abandoned, reachable, intact>>
  BY DEF Pong, pool, database
<1>3. /\ RequestsRight'
      /\ \A q \in Requests : connection'[q] = "sound" => reachable'
  <2>1. /\ "query" \in {"acquire", "connect", "ping", "query"}
        /\ "sound" \in Qualities \cup {None} /\ "sound" # None /\ "sound" # "broken"
        /\ stage[r] # "idle" /\ reachable
    BY <1>1, <1>2, RequestPoolAssumption DEF SoundWhileReachable, Qualities
  <2>2. statement' \in [Requests -> 1..2] /\ tries' \in [Requests -> 0..MaxConns]
    BY <1>1, <1>2, RequestPoolAssumption DEF RequestsRight, RequestTypes
  <2>3. connection' = [connection EXCEPT ![r] = "sound"]
    BY <1>1, <1>2 DEF RequestsRight, RequestTypes
  <2> QED BY <1>2, <2>1, <2>2, <2>3, MovedOn
<1>4. waiting' \in Seq(Requests) /\ QueueOfWaiters'
  <2>1. "query" \in {"idle", "connect", "ping", "query"} /\ stage[r] # "acquire"
    BY <1>2
  <2> QED BY <1>2, <2>1, QueueKept
<1>5. PlacesRight'
  <2>1. "query" \in {"connect", "ping", "query"} /\ stage[r] \in {"connect", "ping", "query"}
    BY <1>2
  <2>2. RequestTypes
    BY <1>1 DEF RequestsRight
  <2>3. Cardinality(Holding') = Cardinality(Holding)
    BY <1>2, <2>1, <2>2, HoldingStep
  <2> QED BY <1>1, <1>2, <2>3 DEF PlacesRight
<1>6. PoolTypes' /\ SoundWhileReachable'
  BY <1>1, <1>2, <1>3, <1>4 DEF PoolTypes, SoundWhileReachable
<1> QED BY <1>1, <1>2, <1>3, <1>4, <1>5, <1>6, PoolInvAfter

\* A ping that fails: the place goes back before another is waited for.
LEMMA RetryInvariant ==
  ASSUME PoolInv, NEW r \in Requests, Retry(r)
  PROVE  PoolInv'
<1>1. /\ RequestsRight /\ reachable \in BOOLEAN /\ intact \in BOOLEAN
  BY PoolInvParts
<1>2. /\ stage[r] = "ping" /\ stage[r] \in {"connect", "ping", "query"} /\ Close
      /\ UNCHANGED <<abandoned, reachable, intact>> /\ UNCHANGED database
      /\ UNCHANGED <<abandoned, database>>
  BY DEF Retry, database
<1>3. CASE tries[r] = MaxConns /\ Answer(r, Failed(r)) /\ UNCHANGED waiting
  <2>1. Failed(r) \in {Nothing, 200, 404, 500, 503, 504}
    BY DEF Failed
  <2> QED BY <1>2, <1>3, <2>1, EndedWithPlace
<1>4. CASE /\ tries[r] < MaxConns
           /\ stage' = [stage EXCEPT ![r] = "acquire"]
           /\ connection' = [connection EXCEPT ![r] = None]
           /\ tries' = [tries EXCEPT ![r] = @ + 1]
           /\ waiting' = Append(waiting, r)
           /\ UNCHANGED <<statement, age, limit, answer, witness>>
  <2>1. /\ stage' = [stage EXCEPT ![r] = "acquire"] /\ waiting' = Append(waiting, r)
        /\ connection' = [connection EXCEPT ![r] = None] /\ witness' = witness
        /\ UNCHANGED <<age, limit, answer, database>>
    BY <1>2, <1>4
  <2>2. statement' \in [Requests -> 1..2] /\ tries' \in [Requests -> 0..MaxConns]
    <3>1. /\ statement \in [Requests -> 1..2] /\ tries \in [Requests -> 0..MaxConns]
          /\ tries[r] + 1 \in 0..MaxConns
      BY <1>1, <1>4, RequestPoolAssumption DEF RequestsRight, RequestTypes
    <3> QED BY <1>4, <3>1
  <2>3. /\ RequestsRight'
        /\ \A q \in Requests : connection'[q] = "sound" => reachable'
    <3>1. /\ "acquire" \in {"acquire", "connect", "ping", "query"}
          /\ "acquire" \notin {"ping", "query"}
          /\ None \in Qualities \cup {None} /\ None # "broken" /\ None # "sound"
          /\ stage[r] # "idle"
      BY <1>2, RequestPoolAssumption
    <3> QED BY <2>1, <2>2, <3>1, MovedOn
  <2>4. waiting' \in Seq(Requests) /\ QueueOfWaiters'
    <3>1. stage[r] # "acquire"
      BY <1>2
    <3> QED BY <2>1, <3>1, EnterQueue
  <2>5. /\ taken' \in 0..MaxConns /\ spare' \in [Qualities -> 0..MaxConns]
        /\ abandoned' \in 0..MaxConns
        /\ PlacesRight'
        /\ spare'["sound"] > 0 => reachable'
    <3>1. "acquire" \in {"idle", "acquire"}
      OBVIOUS
    <3> QED BY <1>2, <2>1, <3>1, PlaceLeft
  <2>6. PoolTypes' /\ SoundWhileReachable'
    BY <2>3, <2>4, <2>5 DEF PoolTypes, SoundWhileReachable
  <2> QED BY <1>1, <1>2, <2>3, <2>4, <2>5, <2>6, PoolInvAfter
<1> QED BY <1>3, <1>4 DEF Retry

\* A connect that is refused gives its place back.
LEMMA RefuseInvariant ==
  ASSUME PoolInv, NEW r \in Requests, Refuse(r)
  PROVE  PoolInv'
<1>1. stage[r] \in {"connect", "ping", "query"} /\ Failed(r) \in {Nothing, 200, 404, 500, 503, 504}
  BY DEF Refuse, Failed
<1> QED BY <1>1, EndedWithPlace DEF Refuse

\* A page without rows: the connection goes back before another is asked for.
LEMMA RequireReleaseInvariant ==
  ASSUME PoolInv, NEW r \in Requests, stage[r] = "query", RequireRelease(r),
         UNCHANGED <<abandoned, database>>
  PROVE  PoolInv'
<1>1. /\ RequestsRight /\ reachable \in BOOLEAN /\ intact \in BOOLEAN
  BY PoolInvParts
<1>2. /\ stage' = [stage EXCEPT ![r] = "acquire"]
      /\ connection' = [connection EXCEPT ![r] = None]
      /\ waiting' = Append(waiting, r) /\ witness' = witness
      /\ Release(r)
      /\ UNCHANGED <<age, limit, answer, database>>
      /\ UNCHANGED <<abandoned, reachable, intact>>
  BY DEF RequireRelease, database
<1>3. statement' \in [Requests -> 1..2] /\ tries' \in [Requests -> 0..MaxConns]
  BY <1>1 DEF RequireRelease, RequestsRight, RequestTypes
<1>4. /\ RequestsRight'
      /\ \A q \in Requests : connection'[q] = "sound" => reachable'
  <2>1. /\ "acquire" \in {"acquire", "connect", "ping", "query"} /\ "acquire" \notin {"ping", "query"}
        /\ None \in Qualities \cup {None} /\ None # "broken" /\ None # "sound"
        /\ stage[r] # "idle"
    BY RequestPoolAssumption
  <2> QED BY <1>2, <1>3, <2>1, MovedOn
<1>5. waiting' \in Seq(Requests) /\ QueueOfWaiters'
  <2>1. stage[r] # "acquire"
    OBVIOUS
  <2> QED BY <1>2, <2>1, EnterQueue
<1>6. /\ taken' \in 0..MaxConns /\ spare' \in [Qualities -> 0..MaxConns]
      /\ abandoned' \in 0..MaxConns
      /\ PlacesRight'
      /\ spare'["sound"] > 0 => reachable'
  <2>1. stage[r] \in {"connect", "ping", "query"} /\ "acquire" \in {"idle", "acquire"}
    OBVIOUS
  <2> QED BY <1>2, <2>1, PlaceLeft
<1>7. PoolTypes' /\ SoundWhileReachable'
  BY <1>4, <1>5, <1>6 DEF PoolTypes, SoundWhileReachable
<1> QED BY <1>1, <1>2, <1>4, <1>5, <1>6, <1>7, PoolInvAfter

\* A statement ends by itself: with rows or without, or with an error.
LEMMA FinishInvariant ==
  ASSUME PoolInv, NEW r \in Requests, Finish(r)
  PROVE  PoolInv'
<1>1. /\ stage[r] = "query" /\ stage[r] \in {"connect", "ping", "query"}
      /\ UNCHANGED <<abandoned, database>>
  BY DEF Finish, Statement, NotFound, Break
<1>2. CASE RequireRelease(r)
  BY <1>1, <1>2, RequireReleaseInvariant
<1>3. CASE ~RequireRelease(r)
  <2>1. PICK status \in {Nothing, 200, 404, 500, 503, 504} :
          Answer(r, status) /\ Release(r) /\ UNCHANGED waiting
    BY <1>3 DEF Finish, Statement, NotFound, Break, Failed
  <2> QED BY <1>1, <2>1, EndedWithPlace
<1> QED BY <1>2, <1>3

\* The context ends first: the request leaves the queue, its connect to
\* itself, or the connection its statement runs on closed.
LEMMA AbandonInvariant ==
  ASSUME PoolInv, NEW r \in Requests, InProgress(r),
         NEW status \in {Nothing, 200, 404, 500, 503, 504},
         Abandon(r, status), UNCHANGED database
  PROVE  PoolInv'
<1>1. /\ RequestsRight /\ PoolTypes /\ PlacesRight /\ SoundWhileReachable
      /\ reachable \in BOOLEAN /\ intact \in BOOLEAN
      /\ Cardinality(Holding) \in Nat
  BY PoolInvParts, HoldingFinite
<1>2. /\ Answer(r, status) /\ stage' = [stage EXCEPT ![r] = "idle"]
      /\ UNCHANGED <<reachable, intact>>
  BY DEF Abandon, Answer, database
<1>3. /\ RequestsRight'
      /\ \A q \in Requests : connection'[q] = "sound" => reachable'
  BY <1>2, Answered
<1>4. waiting' \in Seq(Requests) /\ QueueOfWaiters'
  <2>1. LeaveQueue(r)
    BY DEF Abandon
  <2> QED BY <1>2, <2>1, QueueAfterEnd
<1>5. stage[r] \in {"acquire", "connect", "ping", "query"} /\ RequestTypes
  BY <1>1 DEF RequestsRight, RequestTypes, InProgress
<1>6. CASE stage[r] \in {"ping", "query"}
  <2>1. Close /\ UNCHANGED <<waiting, abandoned, database>>
    BY <1>6 DEF Abandon, LeaveQueue
  <2>2. stage[r] \in {"connect", "ping", "query"}
    BY <1>6
  <2> QED BY <1>2, <2>1, <2>2, EndedWithPlace
<1>7. CASE stage[r] = "connect"
  <2>1. abandoned' = abandoned + 1 /\ UNCHANGED <<waiting, taken, spare>>
    BY <1>7 DEF Abandon, LeaveQueue
  <2>2. abandoned + 1 <= taken
    BY <1>7, HoldingCounted
  <2>3. Cardinality(Holding') = Cardinality(Holding) - 1
    <3>1. "idle" \notin {"connect", "ping", "query"} /\ stage[r] \in {"connect", "ping", "query"}
      BY <1>7
    <3> QED BY <1>2, <1>5, <3>1, HoldingStep
  <2>4. abandoned' \in 0..MaxConns
    BY <1>1, <2>1, <2>2, RequestPoolAssumption DEF PoolTypes
  <2>5. PlacesRight'
    <3>1. taken = abandoned + Cardinality(Holding) /\ abandoned \in Int
      BY <1>1 DEF PlacesRight, PoolTypes
    <3>2. taken' = abandoned' + Cardinality(Holding')
      BY <1>1, <2>1, <2>3, <3>1
    <3> QED BY <1>1, <2>1, <3>2 DEF PlacesRight
  <2>6. PoolTypes' /\ SoundWhileReachable'
    BY <1>1, <1>2, <1>3, <1>4, <2>1, <2>4 DEF PoolTypes, SoundWhileReachable
  <2> QED BY <1>1, <1>2, <1>3, <1>4, <2>5, <2>6, PoolInvAfter
<1>8. CASE stage[r] = "acquire"
  <2>1. UNCHANGED <<taken, spare, abandoned>> /\ LeaveQueue(r)
    BY <1>8 DEF Abandon
  <2>2. Cardinality(Holding') = Cardinality(Holding)
    <3>1. "idle" \notin {"connect", "ping", "query"} /\ stage[r] \notin {"connect", "ping", "query"}
      BY <1>8
    <3> QED BY <1>2, <1>5, <3>1, HoldingStep
  <2>3. PlacesRight' /\ PoolTypes' /\ SoundWhileReachable'
    BY <1>1, <1>2, <1>3, <1>4, <2>1, <2>2 DEF PlacesRight, PoolTypes, SoundWhileReachable
  <2> QED BY <1>1, <1>2, <1>3, <1>4, <2>3, PoolInvAfter
<1> QED BY <1>5, <1>6, <1>7, <1>8

\* A time limit, or a client that leaves.
LEMMA EndInvariant ==
  ASSUME PoolInv, NEW r \in Requests, Expire(r) \/ Leave(r)
  PROVE  PoolInv'
<1>1. InProgress(r) /\ UNCHANGED database
  BY DEF Expire, Leave
<1>2. PICK status \in {Nothing, 200, 404, 500, 503, 504} : Abandon(r, status)
  BY DEF Expire, Leave, TimedOut
<1> QED BY <1>1, <1>2, AbandonInvariant

-----------------------------------------------------------------------------
(* The pool's own steps, the database and time.                            *)

\* Steps that leave the requests alone.
LEMMA RequestsKept ==
  ASSUME PoolInv, UNCHANGED <<waiting, request, database, witness>>
  PROVE  /\ RequestsRight' /\ QueueOfWaiters' /\ waiting' \in Seq(Requests)
         /\ Cardinality(Holding') = Cardinality(Holding)
         /\ \A q \in Requests : connection'[q] = "sound" => reachable'
         /\ reachable' = reachable /\ reachable' \in BOOLEAN /\ intact' \in BOOLEAN
<1>1. /\ RequestsRight /\ QueueOfWaiters /\ SoundWhileReachable /\ PoolTypes
      /\ reachable \in BOOLEAN /\ intact \in BOOLEAN
  BY PoolInvParts
<1>2. UNCHANGED <<waiting, stage, statement, age, limit, connection, tries, answer, witness,
                  reachable, intact>>
  BY DEF request, database
<1>3. Holding' = Holding
  BY <1>2 DEF Holding
<1>4. RequestsRight'
  BY <1>1, <1>2
     DEF RequestsRight, RequestTypes, LimitsKept, WitnessedNow, InProgress, Limit, Observed
<1>5. QueueOfWaiters' /\ waiting' \in Seq(Requests)
  BY <1>1, <1>2 DEF QueueOfWaiters, PoolTypes
<1> QED BY <1>1, <1>2, <1>3, <1>4, <1>5 DEF SoundWhileReachable

\* A connect without its request ends, and leaves a spare connection if
\* PostgreSQL is there.
LEMMA EndAbandonedInvariant ==
  ASSUME PoolInv, EndAbandoned
  PROVE  PoolInv'
<1>1. /\ PoolTypes /\ PlacesRight /\ SoundWhileReachable
      /\ Cardinality(Holding) \in Nat
  BY PoolInvParts, HoldingFinite
<1>2. /\ abandoned > 0 /\ abandoned' = abandoned - 1 /\ taken' = taken - 1
      /\ spare' = IF reachable THEN [spare EXCEPT !["sound"] = @ + 1] ELSE spare
      /\ UNCHANGED <<waiting, request, database, witness>>
  BY DEF EndAbandoned
<1>3. /\ RequestsRight' /\ QueueOfWaiters' /\ waiting' \in Seq(Requests)
      /\ Cardinality(Holding') = Cardinality(Holding)
      /\ \A q \in Requests : connection'[q] = "sound" => reachable'
      /\ reachable' = reachable /\ reachable' \in BOOLEAN /\ intact' \in BOOLEAN
  BY <1>2, RequestsKept
<1>4. /\ "sound" \in Qualities /\ "broken" \in Qualities /\ "sound" # "broken"
      /\ spare \in [Qualities -> 0..MaxConns]
      /\ spare["sound"] \in 0..MaxConns /\ spare["broken"] \in 0..MaxConns
      /\ taken \in 0..MaxConns /\ abandoned \in 0..MaxConns /\ MaxConns \in Nat
      /\ taken + spare["sound"] + spare["broken"] <= MaxConns
      /\ taken = abandoned + Cardinality(Holding)
  BY <1>1, RequestPoolAssumption DEF PoolTypes, Qualities, PlacesRight
<1>5. /\ taken - 1 \in 0..MaxConns /\ abandoned - 1 \in 0..MaxConns
      /\ spare["sound"] + 1 \in 0..MaxConns
      /\ taken' = abandoned' + Cardinality(Holding')
  <2>1. /\ Cardinality(Holding) \in Nat /\ abandoned > 0
        /\ taken' = taken - 1 /\ abandoned' = abandoned - 1
    BY <1>1, <1>2
  <2>2. /\ taken \in Nat /\ abandoned \in Nat /\ MaxConns \in Nat
        /\ spare["sound"] \in Nat /\ spare["broken"] \in Nat
        /\ taken <= MaxConns /\ abandoned <= MaxConns
        /\ taken + spare["sound"] + spare["broken"] <= MaxConns
        /\ taken = abandoned + Cardinality(Holding)
    BY <1>4
  <2>3. taken' = abandoned' + Cardinality(Holding')
    BY <1>3, <2>1, <2>2
  <2> QED BY <2>1, <2>2, <2>3
<1>6. /\ spare' \in [Qualities -> 0..MaxConns]
      /\ spare'["sound"] <= spare["sound"] + 1 /\ spare'["broken"] = spare["broken"]
      /\ spare'["sound"] \in Int
      /\ spare'["sound"] > 0 => reachable'
  <2>1. CASE reachable
    BY <1>2, <1>3, <1>4, <1>5, <2>1
  <2>2. CASE ~reachable
    <3>1. spare' = spare
      BY <1>2, <2>2
    <3>2. ~(spare["sound"] > 0)
      BY <1>1, <2>2 DEF SoundWhileReachable
    <3> QED BY <1>4, <3>1, <3>2
  <2> QED BY <2>1, <2>2
<1>7. taken' + spare'["sound"] + spare'["broken"] <= MaxConns
  BY <1>2, <1>4, <1>6
<1>8. PoolTypes' /\ PlacesRight' /\ SoundWhileReachable'
  BY <1>2, <1>3, <1>5, <1>6, <1>7 DEF PoolTypes, PlacesRight, SoundWhileReachable
<1> QED BY <1>3, <1>8, PoolInvAfter

\* A spare connection is closed.
LEMMA EvictInvariant ==
  ASSUME PoolInv, Evict
  PROVE  PoolInv'
<1>1. PoolTypes /\ PlacesRight /\ SoundWhileReachable
  BY PoolInvParts
<1>2. PICK q \in Qualities : spare[q] > 0 /\ spare' = [spare EXCEPT ![q] = @ - 1]
  BY DEF Evict
<1>3. UNCHANGED <<taken, abandoned>> /\ UNCHANGED <<waiting, request, database, witness>>
  BY DEF Evict
<1>4. /\ RequestsRight' /\ QueueOfWaiters' /\ waiting' \in Seq(Requests)
      /\ Cardinality(Holding') = Cardinality(Holding)
      /\ \A p \in Requests : connection'[p] = "sound" => reachable'
      /\ reachable' = reachable /\ reachable' \in BOOLEAN /\ intact' \in BOOLEAN
  BY <1>3, RequestsKept
<1>5. /\ "sound" \in Qualities /\ "broken" \in Qualities /\ "sound" # "broken"
      /\ spare \in [Qualities -> 0..MaxConns]
      /\ spare["sound"] \in 0..MaxConns /\ spare["broken"] \in 0..MaxConns
      /\ spare[q] \in 0..MaxConns /\ spare[q] - 1 \in 0..MaxConns
      /\ taken \in 0..MaxConns /\ MaxConns \in Nat
      /\ taken + spare["sound"] + spare["broken"] <= MaxConns
  BY <1>1, <1>2, RequestPoolAssumption DEF PoolTypes, Qualities, PlacesRight
<1>6. /\ spare' \in [Qualities -> 0..MaxConns]
      /\ spare'["sound"] \in 0..MaxConns /\ spare'["broken"] \in 0..MaxConns
      /\ spare'["sound"] <= spare["sound"] /\ spare'["broken"] <= spare["broken"]
  BY <1>2, <1>5
<1>7. taken' + spare'["sound"] + spare'["broken"] <= MaxConns
  BY <1>3, <1>5, <1>6
<1>8. SoundWhileReachable'
  <2>1. spare'["sound"] > 0 => spare["sound"] > 0
    BY <1>5, <1>6
  <2> QED BY <1>1, <1>4, <2>1 DEF SoundWhileReachable
<1>9. PoolTypes' /\ PlacesRight'
  BY <1>1, <1>3, <1>4, <1>6, <1>7 DEF PoolTypes, PlacesRight
<1> QED BY <1>4, <1>8, <1>9, PoolInvAfter

\* What a change of the database adds to the witnesses.
LEMMA Recorded ==
  ASSUME PoolInv, NEW there \in BOOLEAN, NEW whole \in BOOLEAN, Record(there, whole)
  PROVE  /\ witness' \in [Requests -> SUBSET {"up", "fault", "crowded", "slow"}]
         /\ \A r \in Requests :
              stage[r] # "idle" => witness'[r] = witness[r] \cup Observed(r, there, whole)
<1>1. witness \in [Requests -> SUBSET {"up", "fault", "crowded", "slow"}]
  BY DEF PoolInv, TypeOK
<1>2. \A r \in Requests : Observed(r, there, whole) \in SUBSET {"up", "fault", "crowded", "slow"}
  BY DEF Observed
<1> QED BY <1>1, <1>2 DEF Record, InProgress

\* A change of the database keeps what the requests know, if the connections
\* it breaks are those of requests that witness the fault.
LEMMA DatabaseChanged ==
  ASSUME PoolInv, reachable' \in BOOLEAN, intact' \in BOOLEAN,
         Record(reachable', intact'),
         connection' \in [Requests -> Qualities \cup {None}],
         \A r \in Requests :
           connection'[r] = connection[r] \/ (/\ connection[r] = "sound"
                                              /\ connection'[r] = "broken" /\ ~reachable'),
         UNCHANGED <<stage, statement, age, limit, tries, answer>>
  PROVE  RequestsRight'
<1>1. /\ RequestsRight /\ None \notin Qualities
      /\ "sound" \in Qualities /\ "broken" \in Qualities
  BY PoolInvParts, RequestPoolAssumption DEF Qualities
<1>2. /\ witness' \in [Requests -> SUBSET {"up", "fault", "crowded", "slow"}]
      /\ \A r \in Requests :
           stage[r] # "idle" =>
             witness'[r] = witness[r] \cup Observed(r, reachable', intact')
  BY Recorded
<1>3. RequestTypes'
  BY <1>1, <1>2 DEF RequestsRight, RequestTypes
<1>4. \A r \in Requests : connection'[r] # None <=> stage'[r] \in {"ping", "query"}
  BY <1>1 DEF RequestsRight
<1>5. LimitsKept'
  BY <1>1 DEF RequestsRight, LimitsKept, InProgress, Limit
<1>6. ASSUME NEW r \in Requests
      PROVE  /\ stage[r] # "idle" => Observed(r, reachable', intact') \subseteq witness'[r]
             /\ connection'[r] = "broken" => "fault" \in witness'[r]
             /\ r \in Probes /\ age[r] > 0 =>
                  witness'[r] \cap {"fault", "crowded", "slow"} # {}
  <2>1. CASE stage[r] = "idle"
    <3>1. connection'[r] = None
      BY <1>1, <2>1 DEF RequestsRight
    <3>2. ~(age[r] > 0)
      BY <1>1, <2>1 DEF RequestsRight, RequestTypes, LimitsKept, InProgress
    <3> QED BY <1>1, <2>1, <3>1, <3>2
  <2>2. CASE stage[r] # "idle"
    <3>1. /\ witness[r] \subseteq witness'[r]
          /\ Observed(r, reachable', intact') \subseteq witness'[r]
      BY <1>2, <2>2
    <3>2. connection'[r] = "broken" => "fault" \in witness'[r]
      <4>1. CASE connection'[r] = connection[r]
        BY <1>1, <3>1, <4>1 DEF RequestsRight, WitnessedNow
      <4>2. CASE ~reachable'
        BY <3>1, <4>2 DEF Observed
      <4> QED BY <4>1, <4>2
    <3> QED BY <1>1, <3>1, <3>2 DEF RequestsRight, WitnessedNow
  <2> QED BY <2>1, <2>2
<1>7. WitnessedNow'
  BY <1>6 DEF WitnessedNow, InProgress, Observed
<1> QED BY <1>3, <1>4, <1>5, <1>7 DEF RequestsRight

\* An outage breaks every connection there is.
LEMMA OutageInvariant ==
  ASSUME PoolInv, Outage
  PROVE  PoolInv'
<1>1. /\ RequestsRight /\ PoolTypes /\ PlacesRight /\ QueueOfWaiters
      /\ intact \in BOOLEAN
  BY PoolInvParts
<1>2. /\ reachable' = FALSE /\ intact' = intact /\ Record(reachable', intact')
      /\ spare' = [q \in Qualities |->
                     IF q = "sound" THEN 0 ELSE spare["sound"] + spare["broken"]]
      /\ connection' = [r \in Requests |->
                          IF connection[r] = "sound" THEN "broken" ELSE connection[r]]
      /\ UNCHANGED <<stage, statement, age, limit, tries, answer>>
      /\ UNCHANGED <<stage, waiting, taken, abandoned>>
  BY DEF Outage
<1>3. RequestsRight'
  <2>1. connection' \in [Requests -> Qualities \cup {None}]
    BY <1>1, <1>2 DEF RequestsRight, RequestTypes, Qualities
  <2>2. \A r \in Requests :
          connection'[r] = connection[r] \/ (/\ connection[r] = "sound"
                                             /\ connection'[r] = "broken" /\ ~reachable')
    BY <1>2
  <2> QED BY <1>1, <1>2, <2>1, <2>2, DatabaseChanged
<1>4. /\ "sound" \in Qualities /\ "broken" \in Qualities /\ "sound" # "broken"
      /\ spare["sound"] \in 0..MaxConns /\ spare["broken"] \in 0..MaxConns
      /\ taken \in 0..MaxConns /\ MaxConns \in Nat
      /\ taken + spare["sound"] + spare["broken"] <= MaxConns
  BY <1>1, RequestPoolAssumption DEF PoolTypes, Qualities, PlacesRight
<1>5. /\ spare'["sound"] = 0 /\ spare'["broken"] = spare["sound"] + spare["broken"]
      /\ spare["sound"] + spare["broken"] \in 0..MaxConns /\ 0 \in 0..MaxConns
  BY <1>2, <1>4
<1>6. spare' \in [Qualities -> 0..MaxConns]
  BY <1>2, <1>5
<1>7. taken' + spare'["sound"] + spare'["broken"] <= MaxConns
  BY <1>2, <1>4, <1>5
<1>8. Holding' = Holding
  BY <1>2 DEF Holding
<1>9. SoundWhileReachable'
  <2>1. \A r \in Requests : connection'[r] # "sound"
    BY <1>2
  <2> QED BY <1>5, <2>1 DEF SoundWhileReachable
<1>10. PoolTypes' /\ PlacesRight' /\ QueueOfWaiters'
  BY <1>1, <1>2, <1>6, <1>7, <1>8 DEF PoolTypes, PlacesRight, QueueOfWaiters
<1>11. reachable' \in BOOLEAN /\ intact' \in BOOLEAN
  BY <1>1, <1>2
<1> QED BY <1>3, <1>9, <1>10, <1>11, PoolInvAfter

\* PostgreSQL is there again, or the schema changes: the pool stays as it is.
LEMMA ChangeInvariant ==
  ASSUME PoolInv, Restore \/ Migrate
  PROVE  PoolInv'
<1>1. /\ RequestsRight /\ PoolTypes /\ PlacesRight /\ QueueOfWaiters /\ SoundWhileReachable
      /\ reachable \in BOOLEAN /\ intact \in BOOLEAN
  BY PoolInvParts
<1>2. /\ reachable' \in BOOLEAN /\ intact' \in BOOLEAN /\ Record(reachable', intact')
      /\ reachable => reachable'
      /\ UNCHANGED <<request, pool>>
  BY <1>1 DEF Restore, Migrate
<1>3. /\ UNCHANGED <<stage, statement, age, limit, tries, answer>>
      /\ UNCHANGED <<connection, waiting, taken, spare, abandoned>>
  BY <1>2 DEF request, pool
<1>4. RequestsRight'
  <2>1. connection' \in [Requests -> Qualities \cup {None}]
    BY <1>1, <1>3 DEF RequestsRight, RequestTypes
  <2>2. \A r \in Requests :
          connection'[r] = connection[r] \/ (/\ connection[r] = "sound"
                                             /\ connection'[r] = "broken" /\ ~reachable')
    BY <1>3
  <2> QED BY <1>2, <1>3, <2>1, <2>2, DatabaseChanged
<1>5. Holding' = Holding
  BY <1>3 DEF Holding
<1>6. PoolTypes' /\ PlacesRight' /\ QueueOfWaiters' /\ SoundWhileReachable'
  BY <1>1, <1>2, <1>3, <1>5 DEF PoolTypes, PlacesRight, QueueOfWaiters, SoundWhileReachable
<1> QED BY <1>2, <1>4, <1>6, PoolInvAfter

\* A tick ages every request in progress, and a probe knows what it spent it on.
LEMMA TickInvariant ==
  ASSUME PoolInv, Tick
  PROVE  PoolInv'
<1>1. /\ RequestsRight /\ PoolTypes /\ PlacesRight /\ QueueOfWaiters /\ SoundWhileReachable
      /\ reachable \in BOOLEAN /\ intact \in BOOLEAN
  BY PoolInvParts
<1>2. /\ \A r \in Requests : stage[r] # "idle" => age[r] < limit[r]
      /\ age' = [r \in Requests |-> IF stage[r] # "idle" THEN age[r] + 1 ELSE age[r]]
      /\ witness' = [r \in Requests |-> witness[r] \cup Spent(r)]
      /\ UNCHANGED <<stage, statement, limit, connection, tries, answer>>
      /\ UNCHANGED <<waiting, taken, spare, abandoned, reachable, intact>>
  BY DEF Tick, InProgress, pool, database
<1>3. \A r \in Requests : Spent(r) \in SUBSET {"up", "fault", "crowded", "slow"}
  BY DEF Spent
<1>4. /\ witness' \in [Requests -> SUBSET {"up", "fault", "crowded", "slow"}]
      /\ \A r \in Requests : witness'[r] = witness[r] \cup Spent(r)
  BY <1>1, <1>2, <1>3 DEF RequestsRight, RequestTypes
<1>5. ASSUME NEW r \in Requests
      PROVE  /\ age'[r] \in 0..queryTimeout + readinessTimeout
             /\ age'[r] <= limit'[r]
  <2>1. /\ age[r] \in 0..queryTimeout + readinessTimeout
        /\ limit[r] \in 0..queryTimeout + readinessTimeout
        /\ age[r] <= limit[r]
    BY <1>1 DEF RequestsRight, RequestTypes, LimitsKept
  <2>2. /\ limit'[r] = limit[r]
        /\ age'[r] = IF stage[r] # "idle" THEN age[r] + 1 ELSE age[r]
        /\ stage[r] # "idle" => age[r] < limit[r]
    BY <1>2
  <2> QED BY <2>1, <2>2, RequestPoolAssumption
<1>6. RequestTypes'
  <2>1. age' \in [Requests -> 0..queryTimeout + readinessTimeout]
    BY <1>2, <1>5
  <2> QED BY <1>1, <1>2, <1>4, <2>1 DEF RequestsRight, RequestTypes
<1>7. LimitsKept'
  BY <1>1, <1>2, <1>5 DEF RequestsRight, LimitsKept, InProgress, Limit
<1>8. ASSUME NEW r \in Requests
      PROVE  /\ stage[r] # "idle" => Observed(r, reachable, intact) \subseteq witness'[r]
             /\ connection[r] = "broken" => "fault" \in witness'[r]
             /\ r \in Probes /\ age'[r] > 0 =>
                  witness'[r] \cap {"fault", "crowded", "slow"} # {}
  <2>1. /\ stage[r] # "idle" => Observed(r, reachable, intact) \subseteq witness[r]
        /\ connection[r] = "broken" => "fault" \in witness[r]
        /\ r \in Probes /\ age[r] > 0 =>
             witness[r] \cap {"fault", "crowded", "slow"} # {}
        /\ connection[r] # None <=> stage[r] \in {"ping", "query"}
        /\ connection[r] \in Qualities \cup {None}
        /\ stage[r] \in {"idle", "acquire", "connect", "ping", "query"}
    BY <1>1 DEF RequestsRight, RequestTypes, WitnessedNow, InProgress
  <2>2. ASSUME r \in Probes, stage[r] # "idle"
        PROVE  witness'[r] \cap {"fault", "crowded", "slow"} # {}
    <3>1. CASE stage[r] = "acquire"
      <4>1. Spent(r) = {"crowded"} \/ Spent(r) = {"slow"}
        BY <2>2, <3>1 DEF Spent
      <4> QED BY <1>4, <4>1
    <3>2. CASE ~reachable
      <4>1. "fault" \in witness[r]
        BY <2>1, <2>2, <3>2 DEF Observed
      <4> QED BY <1>4, <4>1
    <3>3. CASE stage[r] \in {"ping", "query"} /\ connection[r] = "broken"
      BY <1>4, <2>1, <3>3
    <3>4. CASE \/ stage[r] = "connect" /\ reachable
               \/ stage[r] \in {"ping", "query"} /\ connection[r] = "sound"
      <4>1. Spent(r) = {"slow"}
        BY <2>2, <3>4 DEF Spent
      <4> QED BY <1>4, <4>1
    <3> QED BY <2>1, <2>2, <3>1, <3>2, <3>3, <3>4 DEF Qualities
  <2>3. stage[r] = "idle" => age'[r] = age[r]
    BY <1>2
  <2> QED BY <1>4, <2>1, <2>2, <2>3
<1>9. WitnessedNow'
  BY <1>2, <1>8 DEF WitnessedNow, InProgress, Observed
<1>10. RequestsRight'
  BY <1>1, <1>2, <1>6, <1>7, <1>9 DEF RequestsRight
<1>11. Holding' = Holding
  BY <1>2 DEF Holding
<1>12. PoolTypes' /\ PlacesRight' /\ QueueOfWaiters' /\ SoundWhileReachable'
  BY <1>1, <1>2, <1>11 DEF PoolTypes, PlacesRight, QueueOfWaiters, SoundWhileReachable
<1> QED BY <1>1, <1>2, <1>10, <1>12, PoolInvAfter

-----------------------------------------------------------------------------
(* The theorems.                                                           *)

\* A stuttering step changes nothing.
LEMMA StutterInvariant ==
  ASSUME PoolInv, UNCHANGED vars
  PROVE  PoolInv'
<1>1. /\ UNCHANGED <<waiting, request, database, witness>>
      /\ UNCHANGED <<taken, spare, abandoned>>
  BY DEF vars, pool
<1>2. /\ PoolTypes /\ PlacesRight /\ SoundWhileReachable
  BY PoolInvParts
<1>3. /\ RequestsRight' /\ QueueOfWaiters' /\ waiting' \in Seq(Requests)
      /\ Cardinality(Holding') = Cardinality(Holding)
      /\ \A q \in Requests : connection'[q] = "sound" => reachable'
      /\ reachable' = reachable /\ reachable' \in BOOLEAN /\ intact' \in BOOLEAN
  BY <1>1, RequestsKept
<1>4. PoolTypes' /\ PlacesRight' /\ SoundWhileReachable'
  BY <1>1, <1>2, <1>3 DEF PoolTypes, PlacesRight, SoundWhileReachable
<1> QED BY <1>3, <1>4, PoolInvAfter

\* PoolInv is inductive: no request, connection, outage, migration or tick
\* breaks it.
THEOREM PoolInvariant == Spec => []PoolInv
<1>1. PoolInv /\ [Next]_vars => PoolInv'
  <2> SUFFICES ASSUME PoolInv, [Next]_vars PROVE PoolInv'
    OBVIOUS
  <2>1. ASSUME NEW r \in Requests, Start(r) \/ Leave(r) PROVE PoolInv'
    BY <2>1, StartInvariant, EndInvariant
  <2>2. ASSUME NEW r \in Requests, Serve(r) PROVE PoolInv'
    BY <2>2, AcquireInvariant, PongInvariant, RetryInvariant, ConnectInvariant, RefuseInvariant,
       FinishInvariant, EndInvariant
       DEF Serve
  <2>3. CASE EndAbandoned
    BY <2>3, EndAbandonedInvariant
  <2>4. CASE Evict
    BY <2>4, EvictInvariant
  <2>5. CASE Outage
    BY <2>5, OutageInvariant
  <2>6. CASE Restore \/ Migrate
    BY <2>6, ChangeInvariant
  <2>7. CASE Tick
    BY <2>7, TickInvariant
  <2>8. CASE UNCHANGED vars
    BY <2>8, StutterInvariant
  <2> QED BY <2>1, <2>2, <2>3, <2>4, <2>5, <2>6, <2>7, <2>8 DEF Next
<1> QED BY <1>1, InitInvariant, PTL DEF Spec

\* For every pool and every number of requests, each place has one owner, and
\* a request that waits for a place holds none (ReleaseTracks closes its rows
\* before requireRelease).
THEOREM NoPlaceLeaks == Spec => []ConnectionsAccounted
BY PoolInvariant, PTL DEF PoolInv

\* For every pair of limits, a request and a probe are over within theirs, two
\* statements and two waits included (Store.timeout, readiness).
THEOREM LimitsHold == Spec => []AnswersInTime
<1>1. PoolInv => AnswersInTime
  <2> SUFFICES ASSUME PoolInv
               PROVE  \A r \in Requests :
                        /\ age[r] <= queryTimeout
                        /\ r \in Probes => age[r] <= readinessTimeout
    BY DEF AnswersInTime, Requests
  <2>1. TAKE r \in Requests
  <2>2. /\ age[r] \in Int /\ age[r] <= limit[r]
        /\ limit[r] = Limit(r) \/ limit[r] = 0
    BY DEF PoolInv, TypeOK, LimitsKept
  <2> QED BY <2>2, LimitFacts, RequestPoolAssumption
<1> QED BY <1>1, PoolInvariant, PTL

\* Every answer tells the truth about the time of its request (RepositoryError,
\* readiness).
THEOREM AnswersHaveWitnesses == Spec => AnswersWitnessed
<1> DEFINE Witnessed(r) ==
      stage[r] # "idle" /\ stage'[r] = "idle" =>
        /\ answer'[r] \in {200, 404} => "up" \in witness[r]
        /\ answer'[r] = 500 => "fault" \in witness[r]
        /\ answer'[r] = 503 => witness[r] \cap {"fault", "crowded", "slow"} # {}
        /\ answer'[r] = 504 => age[r] = queryTimeout
<1>1. ASSUME PoolInv, NEW q \in Requests, NEW status \in {Nothing, 200, 404, 500, 503, 504},
             Answer(q, status),
             status \in {200, 404} => "up" \in witness[q],
             status = 500 => "fault" \in witness[q],
             status = 503 => witness[q] \cap {"fault", "crowded", "slow"} # {},
             status = 504 => age[q] = queryTimeout,
             NEW r \in Requests
      PROVE  Witnessed(r)
  <2>1. /\ stage \in [Requests -> {"idle", "acquire", "connect", "ping", "query"}]
        /\ answer \in [Requests -> {Nothing, 200, 404, 500, 503, 504}]
    BY <1>1 DEF PoolInv, TypeOK
  <2>2. CASE r = q
    <3>1. answer'[r] = status
      BY <1>1, <2>1, <2>2 DEF Answer
    <3> QED BY <1>1, <2>2, <3>1
  <2>3. CASE r # q
    <3>1. stage'[r] = stage[r]
      BY <1>1, <2>1, <2>3 DEF Answer
    <3> QED BY <3>1
  <2> QED BY <2>2, <2>3
<1>2. ASSUME PoolInv, NEW q \in Requests,
             \/ Start(q) \/ Acquire(q) \/ Pong(q) \/ Connect(q) \/ RequireRelease(q)
             \/ Retry(q) /\ tries[q] < MaxConns,
             NEW r \in Requests
      PROVE  Witnessed(r)
  <2>1. stage \in [Requests -> {"idle", "acquire", "connect", "ping", "query"}]
    BY <1>2 DEF PoolInv, TypeOK
  <2>2. PICK x \in {"acquire", "connect", "ping", "query"} : stage' = [stage EXCEPT ![q] = x]
    BY <1>2, RequestPoolAssumption DEF Start, Acquire, Pong, Connect, RequireRelease, Retry
  <2>3. stage'[r] = "idle" => stage[r] = "idle"
    BY <2>1, <2>2
  <2> QED BY <2>3
<1>3. ASSUME PoolInv, NEW q \in Requests, stage[q] # "idle"
      PROVE  /\ reachable => "up" \in witness[q]
             /\ ~reachable => "fault" \in witness[q]
             /\ ~intact /\ q \in Public => "fault" \in witness[q]
             /\ connection[q] = "sound" => "up" \in witness[q]
             /\ connection[q] = "broken" => "fault" \in witness[q]
  <2>1. Observed(q, reachable, intact) \subseteq witness[q]
    BY <1>3 DEF PoolInv, WitnessedNow, InProgress
  <2>2. /\ connection[q] = "sound" => reachable
        /\ connection[q] = "broken" => "fault" \in witness[q]
    BY <1>3 DEF PoolInv, SoundWhileReachable, WitnessedNow
  <2>3. q \in Public => q \notin Probes
    BY RequestPoolAssumption
  <2> QED BY <2>1, <2>2, <2>3 DEF Observed
<1>4. ASSUME PoolInv, NEW q \in Requests, Retry(q) \/ Refuse(q) \/ Finish(q),
             NEW r \in Requests
      PROVE  Witnessed(r)
  <2>1. CASE RequireRelease(q) \/ (Retry(q) /\ tries[q] < MaxConns)
    BY <1>2, <1>4, <2>1
  <2>2. CASE ~(RequireRelease(q) \/ (Retry(q) /\ tries[q] < MaxConns))
    <3>1. stage[q] # "idle"
      BY <1>4 DEF Retry, Refuse, Finish, Statement, NotFound, Break
    <3>2. PICK status \in {Nothing, 200, 404, 500, 503, 504} :
            /\ Answer(q, status)
            /\ \/ status \in {200, 404} /\ connection[q] = "sound"
               \/ status = Failed(q) /\ ~reachable
               \/ status = Failed(q) /\ connection[q] = "broken"
               \/ status = Failed(q) /\ q \in Public /\ ~intact
      <4>1. Failed(q) \in {500, 503}
        BY DEF Failed
      <4>2. CASE Retry(q)
        <5>1. Answer(q, Failed(q)) /\ connection[q] = "broken"
          BY <2>2, <4>2 DEF Retry
        <5> QED BY <4>1, <5>1
      <4>3. CASE Refuse(q) \/ Break(q)
        <5>1. Answer(q, Failed(q)) /\ (~reachable \/ connection[q] = "broken")
          BY <4>3 DEF Refuse, Break
        <5> QED BY <4>1, <5>1
      <4>4. CASE Statement(q)
        <5>1. CASE Answer(q, 200)
          BY <4>4, <5>1 DEF Statement, NotFound
        <5>2. CASE Answer(q, 404)
          BY <4>4, <5>2 DEF Statement, NotFound
        <5>3. CASE q \in Public /\ ~intact /\ Answer(q, Failed(q))
          BY <4>1, <5>3
        <5> QED BY <2>2, <4>4, <5>1, <5>2, <5>3 DEF Statement, NotFound
      <4> QED BY <1>4, <4>2, <4>3, <4>4 DEF Finish
    <3>3. /\ status \in {200, 404} => "up" \in witness[q]
          /\ status \in {500, 503} => "fault" \in witness[q]
          /\ status # 504
      <4>1. Failed(q) \in {500, 503}
        BY DEF Failed
      <4> QED BY <1>3, <1>4, <3>1, <3>2, <4>1
    <3> QED BY <1>1, <1>4, <3>2, <3>3
  <2> QED BY <2>1, <2>2
<1>5. ASSUME PoolInv, NEW q \in Requests, Expire(q) \/ Leave(q), NEW r \in Requests
      PROVE  Witnessed(r)
  <2>1. CASE Leave(q)
    <3>1. Answer(q, Nothing) /\ Nothing \notin {200, 404, 500, 503, 504}
      BY <2>1 DEF Leave, Abandon, Nothing
    <3> QED BY <1>1, <1>5, <3>1
  <2>2. CASE Expire(q)
    <3>1. /\ stage[q] # "idle" /\ age[q] = limit[q] /\ Answer(q, TimedOut(q))
      BY <2>2 DEF Expire, Abandon, InProgress
    <3>2. age[q] = Limit(q)
      BY <1>5, <3>1 DEF PoolInv, LimitsKept, InProgress
    <3>3. CASE q \in Probes
      <4>1. TimedOut(q) = 503
        BY <3>3 DEF TimedOut
      <4>2. age[q] > 0
        BY <3>2, LimitFacts
      <4>3. witness[q] \cap {"fault", "crowded", "slow"} # {}
        BY <1>5, <3>3, <4>2 DEF PoolInv, WitnessedNow
      <4> QED BY <1>1, <1>5, <3>1, <4>1, <4>3
    <3>4. CASE q \notin Probes
      <4>1. TimedOut(q) = 504
        BY <3>4 DEF TimedOut
      <4>2. age[q] = queryTimeout
        BY <3>2, <3>4, LimitFacts
      <4> QED BY <1>1, <1>5, <3>1, <4>1, <4>2
    <3> QED BY <3>3, <3>4
  <2> QED BY <1>5, <2>1, <2>2
<1>6. ASSUME UNCHANGED stage, NEW r \in Requests
      PROVE  Witnessed(r)
  BY <1>6
<1>7. PoolInv /\ [Next]_vars => [\A r \in Requests : Witnessed(r)]_vars
  <2> SUFFICES ASSUME PoolInv, Next, NEW r \in Requests
               PROVE  Witnessed(r)
    OBVIOUS
  <2> HIDE DEF Witnessed
  <2>1. ASSUME NEW q \in Requests, Start(q) \/ Serve(q) \/ Leave(q) PROVE Witnessed(r)
    BY <1>2, <1>4, <1>5, <2>1 DEF Serve
  <2>2. CASE EndAbandoned \/ Evict \/ Outage \/ Restore \/ Migrate \/ Tick
    <3>1. UNCHANGED stage
      BY <2>2 DEF EndAbandoned, Evict, Outage, Restore, Migrate, Tick, request
    <3> QED BY <1>6, <3>1
  <2> QED BY <2>1, <2>2 DEF Next
<1>8. (\A r \in Requests : Witnessed(r)) =>
        \A r \in Requests : InProgress(r) /\ ~InProgress(r)' =>
          /\ answer'[r] \in {200, 404} => "up" \in witness[r]
          /\ answer'[r] = 500 => "fault" \in witness[r]
          /\ answer'[r] = 503 => witness[r] \cap {"fault", "crowded", "slow"} # {}
          /\ answer'[r] = 504 => age[r] = queryTimeout
  BY DEF InProgress
<1> QED BY <1>7, <1>8, PoolInvariant, PTL DEF Spec, AnswersWitnessed

-----------------------------------------------------------------------------
(* Progress.                                                               *)

\* The steps that a statement can take, from its first wait for a place to its
\* rows: a wait and a ping for each of its tries, and at the end a statement.
Span == 2 * MaxConns + 3

\* How far a request has come with its statement, and in all.
StatementPosition(r) ==
  CASE stage[r] = "acquire" -> 2 * tries[r]
    [] stage[r] = "ping" -> 2 * tries[r] + 1
    [] stage[r] = "connect" -> 2 * MaxConns + 1
    [] stage[r] = "query" -> 2 * MaxConns + 2

Position(r) ==
  IF stage[r] = "idle"
  THEN 2 * Span
  ELSE (IF statement[r] = 1 THEN 0 ELSE Span) + StatementPosition(r)

RequestsAdvance ==
  \A r \in Requests :
    /\ Position(r) \in 0..2 * Span
    /\ stage[r] # "idle" => Position(r)' >= Position(r)
    /\ Serve(r) \/ Leave(r) => Position(r)' > Position(r)

LEMMA PositionTypes ==
  ASSUME PoolInv, NEW r \in Requests
  PROVE  /\ stage[r] \in {"idle", "acquire", "connect", "ping", "query"}
         /\ stage \in [Requests -> {"idle", "acquire", "connect", "ping", "query"}]
         /\ statement \in [Requests -> 1..2] /\ statement[r] \in {1, 2}
         /\ tries \in [Requests -> 0..MaxConns]
         /\ tries[r] \in Nat /\ tries[r] <= MaxConns
         /\ MaxConns \in Nat /\ Span \in Nat /\ Span = 2 * MaxConns + 3
BY RequestPoolAssumption DEF PoolInv, TypeOK, Span

LEMMA PositionInProgress ==
  ASSUME PoolInv, NEW r \in Requests, stage[r] # "idle"
  PROVE  /\ StatementPosition(r) \in 0..Span - 1
         /\ Position(r) \in 0..2 * Span - 1
<1>1. StatementPosition(r) \in 0..Span - 1
  <2>1. CASE stage[r] = "acquire"
    BY <2>1, PositionTypes DEF StatementPosition
  <2>2. CASE stage[r] = "ping"
    BY <2>2, PositionTypes DEF StatementPosition
  <2>3. CASE stage[r] = "connect"
    BY <2>3, PositionTypes DEF StatementPosition
  <2>4. CASE stage[r] = "query"
    BY <2>4, PositionTypes DEF StatementPosition
  <2> QED BY <2>1, <2>2, <2>3, <2>4, PositionTypes
<1> HIDE DEF StatementPosition, Span
<1> QED BY <1>1, PositionTypes DEF Position

\* However a request is answered, it is over.
LEMMA AnswerEnds ==
  ASSUME PoolInv, NEW r \in Requests, stage[r] # "idle", NEW status, Answer(r, status)
  PROVE  Position(r)' > Position(r) /\ Position(r)' >= Position(r)
<1>1. stage'[r] = "idle"
  BY PositionTypes DEF Answer
<1>2. Position(r)' = 2 * Span /\ Position(r) \in 0..2 * Span - 1
  BY <1>1, PositionInProgress DEF Position, Span
<1> QED BY <1>2, PositionTypes

\* A statement that gets further gets its request further.
LEMMA StatementAdvances ==
  ASSUME PoolInv, NEW r \in Requests, stage[r] # "idle", stage'[r] # "idle",
         statement'[r] = statement[r], NEW n \in Int, StatementPosition(r)' = n,
         n > StatementPosition(r)
  PROVE  Position(r)' > Position(r) /\ Position(r)' >= Position(r)
<1>1. /\ Position(r) = (IF statement[r] = 1 THEN 0 ELSE Span) + StatementPosition(r)
      /\ Position(r)' = (IF statement[r] = 1 THEN 0 ELSE Span) + n
  BY DEF Position, Span
<1>2. StatementPosition(r) \in Int /\ Span \in Int
  BY PositionInProgress, PositionTypes
<1> QED BY <1>1, <1>2

\* Each step of a request takes it further, a failed ping too: it uses up one of
\* the tries.
LEMMA OwnStepAdvances ==
  ASSUME PoolInv, NEW r \in Requests, Serve(r) \/ Leave(r)
  PROVE  Position(r)' > Position(r) /\ Position(r)' >= Position(r)
<1>1. CASE Acquire(r)
  <2>1. stage[r] = "acquire"
    <3>1. waiting \in Seq(Requests) /\ waiting # <<>> /\ r = waiting[1] /\ 1 \in DOMAIN waiting
      BY <1>1 DEF Acquire, PoolInv, TypeOK
    <3> QED BY <3>1 DEF PoolInv, QueueOfWaiters
  <2>2. /\ stage'[r] \in {"connect", "ping", "query"} /\ statement'[r] = statement[r]
        /\ stage'[r] = "ping" => tries'[r] = tries[r]
    BY <1>1, PositionTypes DEF Acquire
  <2>3. PICK n \in Int : StatementPosition(r)' = n /\ n > StatementPosition(r)
    <3>1. StatementPosition(r) = 2 * tries[r]
      BY <2>1 DEF StatementPosition
    <3>2. StatementPosition(r)' \in {2 * tries[r] + 1, 2 * MaxConns + 1, 2 * MaxConns + 2}
      BY <2>2 DEF StatementPosition
    <3> QED BY <3>1, <3>2, PositionTypes
  <2> QED BY <2>1, <2>2, <2>3, StatementAdvances
<1>2. CASE Pong(r) \/ Connect(r)
  <2>1. /\ stage[r] \in {"ping", "connect"} /\ stage'[r] = "query"
        /\ statement'[r] = statement[r]
    BY <1>2, PositionTypes DEF Pong, Connect
  <2>2. PICK n \in Int : StatementPosition(r)' = n /\ n > StatementPosition(r)
    <3>1. StatementPosition(r) \in {2 * tries[r] + 1, 2 * MaxConns + 1}
      BY <2>1 DEF StatementPosition
    <3>2. StatementPosition(r)' = 2 * MaxConns + 2
      BY <2>1 DEF StatementPosition
    <3> QED BY <3>1, <3>2, PositionTypes
  <2> QED BY <2>1, <2>2, StatementAdvances
<1>3. CASE Retry(r) /\ tries[r] < MaxConns
  <2>1. /\ stage[r] = "ping" /\ stage'[r] = "acquire" /\ tries'[r] = tries[r] + 1
        /\ statement'[r] = statement[r]
    BY <1>3, PositionTypes DEF Retry
  <2>2. PICK n \in Int : StatementPosition(r)' = n /\ n > StatementPosition(r)
    <3>1. StatementPosition(r) = 2 * tries[r] + 1 /\ StatementPosition(r)' = 2 * (tries[r] + 1)
      BY <2>1 DEF StatementPosition
    <3> QED BY <3>1, PositionTypes
  <2> QED BY <2>1, <2>2, StatementAdvances
<1>4. CASE stage[r] = "query" /\ statement[r] = 1 /\ RequireRelease(r)
  <2>1. stage'[r] = "acquire" /\ statement'[r] = 2 /\ tries'[r] = tries[r]
    BY <1>4, PositionTypes DEF RequireRelease
  <2>2. Position(r) = 2 * MaxConns + 2
    BY <1>4, PositionTypes DEF Position, StatementPosition
  <2>3. Position(r)' = Span + 2 * tries[r]
    BY <2>1 DEF Position, StatementPosition, Span
  <2> QED BY <2>2, <2>3, PositionTypes
<1>5. CASE \E status \in {Nothing, 200, 404, 500, 503, 504} : stage[r] # "idle" /\ Answer(r, status)
  BY <1>5, AnswerEnds
<1>6. CASE \/ Retry(r) /\ ~(tries[r] < MaxConns)
           \/ Refuse(r) \/ Expire(r) \/ Leave(r)
  <2>1. Failed(r) \in {500, 503} /\ TimedOut(r) \in {503, 504}
    BY DEF Failed, TimedOut
  <2> QED BY <1>5, <1>6, <2>1 DEF Retry, Refuse, Expire, Leave, Abandon, InProgress
<1>7. CASE Finish(r)
  <2>1. Failed(r) \in {500, 503}
    BY DEF Failed
  <2> QED BY <1>4, <1>5, <1>7, <2>1 DEF Finish, Statement, NotFound, Break
<1> QED BY <1>1, <1>2, <1>3, <1>6, <1>7 DEF Serve

\* A request is where it was when another one moves, or the pool or the
\* database does.
LEMMA OthersStay ==
  ASSUME PoolInv, NEW r \in Requests, NEW q \in Requests,
         \/ q # r /\ (Start(q) \/ Serve(q) \/ Leave(q))
         \/ EndAbandoned \/ Evict \/ Outage \/ Restore \/ Migrate \/ Tick
  PROVE  stage'[r] = stage[r] /\ statement'[r] = statement[r] /\ tries'[r] = tries[r]
<1>1. CASE EndAbandoned \/ Evict \/ Outage \/ Restore \/ Migrate \/ Tick
  BY <1>1 DEF EndAbandoned, Evict, Outage, Restore, Migrate, Tick, request
<1> DEFINE Kept == stage'[r] = stage[r] /\ statement'[r] = statement[r] /\ tries'[r] = tries[r]
<1>2. ASSUME q # r, NEW status, Answer(q, status) PROVE Kept
  BY <1>2, PositionTypes DEF Answer
<1>3. CASE q # r /\ (Start(q) \/ Acquire(q) \/ Pong(q) \/ Connect(q) \/ RequireRelease(q))
  BY <1>3, PositionTypes DEF Start, Acquire, Pong, Connect, RequireRelease
<1>4. CASE q # r /\ Retry(q)
  <2>1. CASE Answer(q, Failed(q))
    BY <1>2, <1>4, <2>1
  <2>2. CASE ~Answer(q, Failed(q))
    BY <1>4, <2>2, PositionTypes DEF Retry
  <2> QED BY <2>1, <2>2
<1>5. CASE q # r /\ (Refuse(q) \/ Expire(q) \/ Leave(q))
  BY <1>2, <1>5 DEF Refuse, Expire, Leave, Abandon
<1>6. CASE q # r /\ Finish(q)
  BY <1>2, <1>3, <1>6 DEF Finish, Statement, NotFound, Break
<1> QED BY <1>1, <1>3, <1>4, <1>5, <1>6 DEF Serve

\* A request is over after a bounded number of steps of its own, whatever other
\* requests, outages and idle connections do: a failed ping sends it back to the
\* queue, but at most MaxConns times for each of its two statements, and never
\* back to a statement that has had its answer (ReleaseTracks, requireRelease).
THEOREM RetriesAreBounded == Spec => [][RequestsAdvance]_vars
<1>1. ASSUME PoolInv, Next PROVE RequestsAdvance
  <2>1. ASSUME NEW r \in Requests, stage[r] # "idle"
        PROVE  Position(r)' >= Position(r)
    <3>1. Position(r) \in Int
      BY <1>1, <2>1, PositionInProgress, PositionTypes
    <3>2. CASE Serve(r) \/ Leave(r)
      BY <1>1, <3>2, OwnStepAdvances
    <3>3. CASE \E q \in Requests :
                 \/ q # r /\ (Start(q) \/ Serve(q) \/ Leave(q))
                 \/ EndAbandoned \/ Evict \/ Outage \/ Restore \/ Migrate \/ Tick
      <4>1. stage'[r] = stage[r] /\ statement'[r] = statement[r] /\ tries'[r] = tries[r]
        BY <1>1, <3>3, OthersStay
      <4>2. Position(r)' = Position(r)
        BY <4>1 DEF Position, StatementPosition, Span
      <4> QED BY <3>1, <4>2
    <3>4. ~Start(r)
      BY <2>1 DEF Start, InProgress
    <3> QED BY <1>1, <3>2, <3>3, <3>4 DEF Next
  <2>2. ASSUME NEW r \in Requests PROVE Position(r) \in 0..2 * Span
    <3>1. CASE stage[r] = "idle"
      BY <1>1, <3>1, PositionTypes DEF Position
    <3>2. CASE stage[r] # "idle"
      BY <1>1, <3>2, PositionInProgress, PositionTypes
    <3> QED BY <3>1, <3>2
  <2> QED BY <1>1, <2>1, <2>2, OwnStepAdvances DEF RequestsAdvance
<1>2. PoolInv /\ [Next]_vars => [RequestsAdvance]_vars
  BY <1>1
<1> QED BY <1>2, PoolInvariant, PTL DEF Spec

-----------------------------------------------------------------------------
(* What an outage leaves behind.                                           *)

BrokenInUse == {r \in Requests : connection[r] = "broken"}

\* The connections that PostgreSQL has dropped and nobody has noticed yet.
BrokenLeft == spare["broken"] + Cardinality(BrokenInUse)

OnlyOutagesBreak == BrokenLeft' <= BrokenLeft \/ (reachable /\ ~reachable')

LEMMA BrokenFinite ==
  ASSUME PoolInv
  PROVE  /\ IsFiniteSet(BrokenInUse) /\ Cardinality(BrokenInUse) \in Nat
         /\ spare["broken"] \in Nat
<1>1. IsFiniteSet(Requests)
  BY RequestPoolAssumption, FS_Union DEF Requests
<1>2. BrokenInUse \subseteq Requests
  BY DEF BrokenInUse
<1>3. spare["broken"] \in Nat
  BY RequestPoolAssumption DEF PoolInv, TypeOK, Qualities
<1>4. QED
  BY <1>1, <1>2, <1>3, FS_Subset, FS_CardinalityType

\* A step that breaks no connection, in use or spare, leaves no more of them.
LEMMA NoneBroken ==
  ASSUME PoolInv, BrokenInUse' \subseteq BrokenInUse,
         spare'["broken"] \in Nat, spare'["broken"] <= spare["broken"]
  PROVE  BrokenLeft' <= BrokenLeft
<1>1. Cardinality(BrokenInUse)' <= Cardinality(BrokenInUse) /\ Cardinality(BrokenInUse)' \in Nat
  BY BrokenFinite, FS_Subset, FS_CardinalityType
<1>2. QED
  BY <1>1, BrokenFinite DEF BrokenLeft

\* A request that takes a broken connection takes it from the spare ones.
LEMMA AcquireKeepsBroken ==
  ASSUME PoolInv, NEW r \in Requests, Acquire(r)
  PROVE  BrokenLeft' <= BrokenLeft
<1>1. /\ connection \in [Requests -> Qualities \cup {None}]
      /\ spare \in [Qualities -> 0..MaxConns] /\ MaxConns \in Nat
  BY RequestPoolAssumption DEF PoolInv, TypeOK
<1>2. ASSUME NEW q \in Qualities, spare[q] > 0, spare' = [spare EXCEPT ![q] = @ - 1],
             connection' = [connection EXCEPT ![r] = q]
      PROVE  BrokenLeft' <= BrokenLeft
  <2>1. CASE q = "sound"
    <3>1. BrokenInUse' \subseteq BrokenInUse
      BY <1>1, <1>2, <2>1 DEF BrokenInUse
    <3>2. spare'["broken"] = spare["broken"]
      BY <1>1, <1>2, <2>1 DEF Qualities
    <3>3. QED
      BY <3>1, <3>2, BrokenFinite, NoneBroken
  <2>2. CASE q = "broken"
    <3>1. BrokenInUse' \subseteq BrokenInUse \cup {r}
      BY <1>1, <1>2, <2>2 DEF BrokenInUse
    <3>2. spare'["broken"] = spare["broken"] - 1
      BY <1>1, <1>2, <2>2 DEF Qualities
    <3>3. /\ IsFiniteSet(BrokenInUse \cup {r})
          /\ Cardinality(BrokenInUse \cup {r}) <= Cardinality(BrokenInUse) + 1
          /\ Cardinality(BrokenInUse \cup {r}) \in Nat
      <4>1. IsFiniteSet(BrokenInUse) /\ Cardinality(BrokenInUse) \in Nat
        BY BrokenFinite
      <4>2. /\ IsFiniteSet(BrokenInUse \cup {r})
            /\ Cardinality(BrokenInUse \cup {r}) =
                 IF r \in BrokenInUse THEN Cardinality(BrokenInUse) ELSE Cardinality(BrokenInUse) + 1
        BY <4>1, FS_AddElement
      <4>3. QED
        BY <4>1, <4>2
    <3>4. Cardinality(BrokenInUse)' <= Cardinality(BrokenInUse) + 1 /\ Cardinality(BrokenInUse)' \in Nat
      <4>1. Cardinality(BrokenInUse') <= Cardinality(BrokenInUse \cup {r}) /\ Cardinality(BrokenInUse') \in Nat
        BY <3>1, <3>3, FS_Subset, FS_CardinalityType
      <4>2. QED
        BY <3>3, <4>1, BrokenFinite
    <3>5. QED
      BY <3>2, <3>4, BrokenFinite DEF BrokenLeft
  <2>3. QED
    BY <1>2, <2>1, <2>2 DEF Qualities
<1>3. CASE UNCHANGED <<spare, connection>>
  BY <1>3, BrokenFinite, NoneBroken DEF BrokenInUse
<1>4. QED
  BY <1>2, <1>3 DEF Acquire

\* The other steps of a request put no broken connection back.
LEMMA RequestsBreakNothing ==
  ASSUME PoolInv, NEW r \in Requests, Start(r) \/ Serve(r) \/ Leave(r), ~Acquire(r)
  PROVE  BrokenLeft' <= BrokenLeft
<1>1. /\ connection \in [Requests -> Qualities \cup {None}]
      /\ spare \in [Qualities -> 0..MaxConns] /\ None \notin Qualities
  BY RequestPoolAssumption DEF PoolInv, TypeOK, Qualities
<1>2. CASE Start(r)
  <2>1. UNCHANGED <<spare, connection>>
    BY <1>2 DEF Start
  <2>2. QED
    BY <2>1, BrokenFinite, NoneBroken DEF BrokenInUse
<1>3. ASSUME spare' = spare \/ spare' = [spare EXCEPT !["sound"] = @ + 1],
             NEW x \in {None, "sound"}, connection' = [connection EXCEPT ![r] = x]
      PROVE  BrokenLeft' <= BrokenLeft
  <2>1. BrokenInUse' \subseteq BrokenInUse
    BY <1>1, <1>3, RequestPoolAssumption DEF BrokenInUse
  <2>2. spare'["broken"] = spare["broken"]
    BY <1>1, <1>3 DEF Qualities
  <2>3. QED
    BY <2>1, <2>2, BrokenFinite, NoneBroken
<1>8. CASE Pong(r)
  BY <1>8, BrokenFinite, NoneBroken DEF Pong, pool, BrokenInUse
<1>9. CASE Retry(r)
  BY <1>3, <1>9 DEF Retry, Answer, Close
<1>4. CASE Connect(r)
  BY <1>3, <1>4 DEF Connect, pool
<1>5. CASE Refuse(r) \/ Expire(r) \/ Leave(r)
  BY <1>3, <1>5 DEF Refuse, Expire, Leave, Abandon, Answer, Close
<1>6. CASE Finish(r)
  BY <1>3, <1>6 DEF Finish, Statement, NotFound, Break, RequireRelease, Answer, Release
<1>7. QED
  BY <1>2, <1>4, <1>5, <1>6, <1>8, <1>9 DEF Serve

\* Nothing but an outage leaves broken connections behind, and each of them
\* fails one request at most: what ReadinessRecovers waits for only shrinks
\* while PostgreSQL is there (pgxpool's release, Store.Ping).
THEOREM OutagesWearOff == Spec => [][OnlyOutagesBreak]_vars
<1>1. ASSUME PoolInv, Next PROVE OnlyOutagesBreak
  <2>1. /\ connection \in [Requests -> Qualities \cup {None}]
        /\ spare \in [Qualities -> 0..MaxConns]
    BY <1>1 DEF PoolInv, TypeOK
  <2>2. ASSUME NEW r \in Requests, Start(r) \/ Serve(r) \/ Leave(r)
        PROVE  BrokenLeft' <= BrokenLeft
    BY <1>1, <2>2, AcquireKeepsBroken, RequestsBreakNothing
  <2>3. CASE EndAbandoned \/ Evict \/ Restore \/ Migrate \/ Tick
    <3>1. UNCHANGED connection
      BY <2>3 DEF EndAbandoned, Evict, Restore, Migrate, Tick, request
    <3>2. spare'["broken"] \in {spare["broken"], spare["broken"] - 1} /\ spare'["broken"] >= 0
      <4>1. CASE EndAbandoned
        BY <1>1, <2>1, <4>1, BrokenFinite DEF EndAbandoned, Qualities
      <4>2. CASE Evict
        BY <1>1, <2>1, <4>2, BrokenFinite DEF Evict, Qualities
      <4>3. CASE Restore \/ Migrate \/ Tick
        <5>1. spare' = spare
          BY <4>3 DEF Restore, Migrate, Tick, pool
        <5>2. spare["broken"] \in Nat
          BY <1>1, BrokenFinite
        <5>3. QED
          BY <5>1, <5>2
      <4>4. QED
        BY <2>3, <4>1, <4>2, <4>3
    <3>3. BrokenInUse' \subseteq BrokenInUse
      BY <3>1 DEF BrokenInUse
    <3>4. spare'["broken"] \in Nat /\ spare'["broken"] <= spare["broken"]
      BY <1>1, <3>2, BrokenFinite
    <3>5. QED
      BY <1>1, <3>3, <3>4, NoneBroken DEF OnlyOutagesBreak
  <2>4. CASE Outage
    BY <2>4 DEF Outage, OnlyOutagesBreak
  <2>5. QED
    BY <1>1, <2>2, <2>3, <2>4 DEF Next, OnlyOutagesBreak
<1>2. PoolInv /\ [Next]_vars => [OnlyOutagesBreak]_vars
  BY <1>1
<1>3. QED
  BY <1>2, PoolInvariant, PTL DEF Spec

=============================================================================
