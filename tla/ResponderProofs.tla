-------------------------- MODULE ResponderProofs ---------------------------
(***************************************************************************)
(* The responder is correct for every set of requests and every size of    *)
(* the pool: ResponderInv is inductive, and its conjuncts are the safety   *)
(* properties of the run.                                                  *)
(***************************************************************************)
EXTENDS Responder, FiniteSetTheorems, TLAPS

Stages == {"idle", "handling", "get", "encode", "head", "write", "put", "panicked", "finish"}

Active == {q \in Requests : stage[q] # "idle"}
USE DEF Active, Stages

\* Sets of requests are finite, and no larger than Requests.
LEMMA RequestSets ==
  ASSUME NEW S \in SUBSET Requests
  PROVE  IsFiniteSet(S) /\ Cardinality(S) \in 0..Cardinality(Requests)
BY ResponderAssumption, FS_Subset, FS_CardinalityType

\* A buffer that nobody holds exists: getBuffer never fails to make one.
LEMMA FreshBuffer ==
  ASSUME TypeOK
  PROVE  (CHOOSE b \in Buffers : b \notin Held) \in Buffers \ Held
<1> DEFINE T == {held[q] : q \in Requests}
<1>1. held \in Surjection(Requests, T)
  BY DEF TypeOK, Surjection
<1>2. IsFiniteSet(T) /\ Cardinality(T) <= Cardinality(Requests)
  BY <1>1, FS_Surjection, ResponderAssumption
<1>3. IsFiniteSet(Held) /\ Cardinality(Held) <= Cardinality(T)
  BY <1>2, FS_RemoveElement, FS_Subset DEF Held
<1>4. Cardinality(Held) < Cardinality(Buffers)
  BY <1>2, <1>3, FS_CardinalityType, ResponderAssumption
<1>5. ~(Buffers \subseteq Held)
  BY <1>3, <1>4, FS_Subset, FS_CardinalityType, ResponderAssumption
<1>6. QED
  BY <1>5

\* The wrapper, the handler and its client.
LEMMA WrapperInvariant ==
  ASSUME ResponderInv, NEW r \in Requests,
         \/ Start(r)
         \/ Leave(r)
         \/ \E outcome \in Outcomes : Handle(r, outcome)
         \/ Panic(r)
         \/ Recover(r)
         \/ Finish(r)
  PROVE  ResponderInv'
<1> USE ResponderAssumption DEF ResponderInv
<1>1. CASE Start(r)
  <2>1. GaugeCountsInProgress'
    <3>1. Active' = Active \cup {r} /\ r \notin Active /\ inFlight' = inFlight + 1
      BY <1>1 DEF Start, TypeOK
    <3>2. QED
      BY <3>1, RequestSets, FS_AddElement DEF GaugeCountsInProgress
  <2>2. TypeOK'
    <3>1. /\ stage' \in [Requests -> Stages] /\ gone' \in [Requests -> BOOLEAN]
          /\ answer' \in [Requests -> Statuses \cup {None}]
          /\ held' \in [Requests -> Buffers \cup {None}]
          /\ status' \in [Requests -> Statuses] /\ recovering' \in [Requests -> BOOLEAN]
      BY <1>1 DEF TypeOK, Statuses, Start
    <3>2. sent' \in [Requests -> [status : Statuses \cup {None}, bodies : Seq(Content)]]
      BY <1>1 DEF TypeOK, Statuses, Start
    <3>3. pool' \in Seq(Buffers) /\ Len(pool') <= responseBufferCount
      BY <1>1 DEF TypeOK, Start
    <3>4. content' \in [Buffers -> Content] /\ capacity' \in [Buffers -> 0..MaximumSize]
      BY <1>1 DEF TypeOK, Content, Start
    <3>5. inFlight' \in 0..Cardinality(Requests)
      BY <2>1, RequestSets DEF GaugeCountsInProgress
    <3>6. QED
      BY <3>1, <3>2, <3>3, <3>4, <3>5 DEF TypeOK
  <2>3. HeldByStage'
    BY <1>1 DEF HeldByStage, TypeOK, Start
  <2>4. EncodedOwn'
    BY <1>1 DEF EncodedOwn, HeldByStage, BuffersExclusive, TypeOK, Start
  <2>5. SentByStage'
    BY <1>1 DEF SentByStage, TypeOK, Start
  <2>6. BuffersExclusive'
    BY <1>1 DEF BuffersExclusive, TypeOK, Start
  <2>7. AnswersOwn'
    BY <1>1 DEF AnswersOwn, TypeOK, Start
  <2>8. RetentionBounded'
    BY <1>1 DEF RetentionBounded, BuffersExclusive, HeldByStage, TypeOK, Start
  <2>9. SilenceMeansGone'
    BY <1>1 DEF SilenceMeansGone, SentByStage, TypeOK, Start
  <2>10. QED
    BY <2>1, <2>2, <2>3, <2>4, <2>5, <2>6, <2>7, <2>8, <2>9
<1>2. CASE Leave(r)
  <2>1. GaugeCountsInProgress'
    <3>1. Active' = Active /\ inFlight' = inFlight
      BY <1>2 DEF TypeOK, Leave
    <3>2. QED
      BY <3>1 DEF GaugeCountsInProgress
  <2>2. TypeOK'
    <3>1. /\ stage' \in [Requests -> Stages] /\ gone' \in [Requests -> BOOLEAN]
          /\ answer' \in [Requests -> Statuses \cup {None}]
          /\ held' \in [Requests -> Buffers \cup {None}]
          /\ status' \in [Requests -> Statuses] /\ recovering' \in [Requests -> BOOLEAN]
      BY <1>2 DEF TypeOK, Statuses, Leave
    <3>2. sent' \in [Requests -> [status : Statuses \cup {None}, bodies : Seq(Content)]]
      BY <1>2 DEF TypeOK, Statuses, Leave
    <3>3. pool' \in Seq(Buffers) /\ Len(pool') <= responseBufferCount
      BY <1>2 DEF TypeOK, Leave
    <3>4. content' \in [Buffers -> Content] /\ capacity' \in [Buffers -> 0..MaximumSize]
      BY <1>2 DEF TypeOK, Content, Leave
    <3>5. inFlight' \in 0..Cardinality(Requests)
      BY <2>1, RequestSets DEF GaugeCountsInProgress
    <3>6. QED
      BY <3>1, <3>2, <3>3, <3>4, <3>5 DEF TypeOK
  <2>3. HeldByStage'
    BY <1>2 DEF HeldByStage, TypeOK, Leave
  <2>4. EncodedOwn'
    BY <1>2 DEF EncodedOwn, HeldByStage, BuffersExclusive, TypeOK, Leave
  <2>5. SentByStage'
    BY <1>2 DEF SentByStage, TypeOK, Leave
  <2>6. BuffersExclusive'
    BY <1>2 DEF BuffersExclusive, TypeOK, Leave
  <2>7. AnswersOwn'
    BY <1>2 DEF AnswersOwn, TypeOK, Leave
  <2>8. RetentionBounded'
    BY <1>2 DEF RetentionBounded, BuffersExclusive, HeldByStage, TypeOK, Leave
  <2>9. SilenceMeansGone'
    BY <1>2 DEF SilenceMeansGone, SentByStage, TypeOK, Leave
  <2>10. QED
    BY <2>1, <2>2, <2>3, <2>4, <2>5, <2>6, <2>7, <2>8, <2>9
<1>3. CASE \E outcome \in Outcomes : Handle(r, outcome)
  <2>1. GaugeCountsInProgress'
    <3>1. Active' = Active /\ inFlight' = inFlight
      BY <1>3 DEF TypeOK, Handle
    <3>2. QED
      BY <3>1 DEF GaugeCountsInProgress
  <2>2. TypeOK'
    <3>1. /\ stage' \in [Requests -> Stages] /\ gone' \in [Requests -> BOOLEAN]
          /\ answer' \in [Requests -> Statuses \cup {None}]
          /\ held' \in [Requests -> Buffers \cup {None}]
          /\ status' \in [Requests -> Statuses] /\ recovering' \in [Requests -> BOOLEAN]
      BY <1>3 DEF TypeOK, Statuses, Handle, StatusOf, Outcomes
    <3>2. sent' \in [Requests -> [status : Statuses \cup {None}, bodies : Seq(Content)]]
      BY <1>3 DEF TypeOK, Statuses, Handle, StatusOf, Outcomes
    <3>3. pool' \in Seq(Buffers) /\ Len(pool') <= responseBufferCount
      BY <1>3 DEF TypeOK, Handle, StatusOf, Outcomes
    <3>4. content' \in [Buffers -> Content] /\ capacity' \in [Buffers -> 0..MaximumSize]
      BY <1>3 DEF TypeOK, Content, Handle, StatusOf, Outcomes
    <3>5. inFlight' \in 0..Cardinality(Requests)
      BY <2>1, RequestSets DEF GaugeCountsInProgress
    <3>6. QED
      BY <3>1, <3>2, <3>3, <3>4, <3>5 DEF TypeOK
  <2>3. HeldByStage'
    BY <1>3 DEF HeldByStage, TypeOK, Handle
  <2>4. EncodedOwn'
    BY <1>3 DEF EncodedOwn, HeldByStage, BuffersExclusive, TypeOK, Handle, StatusOf,
           Outcomes
  <2>5. SentByStage'
    BY <1>3 DEF SentByStage, TypeOK, Handle, StatusOf, Outcomes
  <2>6. BuffersExclusive'
    BY <1>3 DEF BuffersExclusive, TypeOK, Handle
  <2>7. AnswersOwn'
    BY <1>3 DEF AnswersOwn, TypeOK, Handle
  <2>8. RetentionBounded'
    BY <1>3 DEF RetentionBounded, BuffersExclusive, HeldByStage, TypeOK, Handle
  <2>9. SilenceMeansGone'
    BY <1>3 DEF SilenceMeansGone, SentByStage, TypeOK, Handle, StatusOf, Outcomes
  <2>10. QED
    BY <2>1, <2>2, <2>3, <2>4, <2>5, <2>6, <2>7, <2>8, <2>9
<1>4. CASE Panic(r)
  <2>1. GaugeCountsInProgress'
    <3>1. Active' = Active /\ inFlight' = inFlight
      BY <1>4 DEF TypeOK, Panic, Discard
    <3>2. QED
      BY <3>1 DEF GaugeCountsInProgress
  <2>2. TypeOK'
    <3>1. /\ stage' \in [Requests -> Stages] /\ gone' \in [Requests -> BOOLEAN]
          /\ answer' \in [Requests -> Statuses \cup {None}]
          /\ held' \in [Requests -> Buffers \cup {None}]
          /\ status' \in [Requests -> Statuses] /\ recovering' \in [Requests -> BOOLEAN]
      BY <1>4 DEF TypeOK, Statuses, Panic, Discard
    <3>2. sent' \in [Requests -> [status : Statuses \cup {None}, bodies : Seq(Content)]]
      BY <1>4 DEF TypeOK, Statuses, Panic, Discard
    <3>3. pool' \in Seq(Buffers) /\ Len(pool') <= responseBufferCount
      BY <1>4 DEF TypeOK, Panic, Discard
    <3>4. content' \in [Buffers -> Content] /\ capacity' \in [Buffers -> 0..MaximumSize]
      BY <1>4 DEF TypeOK, Content, Panic, Discard
    <3>5. inFlight' \in 0..Cardinality(Requests)
      BY <2>1, RequestSets DEF GaugeCountsInProgress
    <3>6. QED
      BY <3>1, <3>2, <3>3, <3>4, <3>5 DEF TypeOK
  <2>3. HeldByStage'
    BY <1>4 DEF HeldByStage, TypeOK, Panic, Discard
  <2>4. EncodedOwn'
    BY <1>4 DEF EncodedOwn, HeldByStage, BuffersExclusive, TypeOK, Panic, Discard
  <2>5. SentByStage'
    BY <1>4 DEF SentByStage, TypeOK, Panic, Discard
  <2>6. BuffersExclusive'
    BY <1>4 DEF BuffersExclusive, TypeOK, Panic, Discard
  <2>7. AnswersOwn'
    BY <1>4 DEF AnswersOwn, TypeOK, Panic, Discard
  <2>8. RetentionBounded'
    BY <1>4 DEF RetentionBounded, BuffersExclusive, HeldByStage, TypeOK, Panic, Discard
  <2>9. SilenceMeansGone'
    BY <1>4 DEF SilenceMeansGone, SentByStage, TypeOK, Panic, Discard
  <2>10. QED
    BY <2>1, <2>2, <2>3, <2>4, <2>5, <2>6, <2>7, <2>8, <2>9
<1>5. CASE Recover(r)
  <2>1. GaugeCountsInProgress'
    <3>1. Active' = Active /\ inFlight' = inFlight
      BY <1>5 DEF TypeOK, Recover
    <3>2. QED
      BY <3>1 DEF GaugeCountsInProgress
  <2>2. TypeOK'
    <3>1. /\ stage' \in [Requests -> Stages] /\ gone' \in [Requests -> BOOLEAN]
          /\ answer' \in [Requests -> Statuses \cup {None}]
          /\ held' \in [Requests -> Buffers \cup {None}]
          /\ status' \in [Requests -> Statuses] /\ recovering' \in [Requests -> BOOLEAN]
      <4>1. /\ UNCHANGED <<gone, held, status>>
            /\ recovering' = [recovering EXCEPT ![r] = TRUE]
            /\ \E x \in {"get", "finish"} : stage' = [stage EXCEPT ![r] = x]
            /\ UNCHANGED answer \/ answer' = [answer EXCEPT ![r] = 500]
        BY <1>5 DEF Recover
      <4>2. 500 \in Statuses
        BY DEF Statuses
      <4>3. stage' \in [Requests -> Stages] /\ recovering' \in [Requests -> BOOLEAN]
        BY <4>1 DEF TypeOK
      <4>4. answer' \in [Requests -> Statuses \cup {None}]
        <5>1. answer \in [Requests -> Statuses \cup {None}]
          BY DEF TypeOK
        <5>2. [answer EXCEPT ![r] = 500] \in [Requests -> Statuses \cup {None}]
          BY <4>2, <5>1
        <5>3. QED
          BY <4>1, <5>1, <5>2
      <4>5. QED
        BY <4>1, <4>3, <4>4 DEF TypeOK
    <3>2. sent' \in [Requests -> [status : Statuses \cup {None}, bodies : Seq(Content)]]
      BY <1>5 DEF TypeOK, Statuses, Recover
    <3>3. pool' \in Seq(Buffers) /\ Len(pool') <= responseBufferCount
      BY <1>5 DEF TypeOK, Recover
    <3>4. content' \in [Buffers -> Content] /\ capacity' \in [Buffers -> 0..MaximumSize]
      BY <1>5 DEF TypeOK, Content, Recover
    <3>5. inFlight' \in 0..Cardinality(Requests)
      BY <2>1, RequestSets DEF GaugeCountsInProgress
    <3>6. QED
      BY <3>1, <3>2, <3>3, <3>4, <3>5 DEF TypeOK
  <2>3. HeldByStage'
    <3>1. held' = held /\ stage[r] = "panicked" /\ held[r] = None
      BY <1>5 DEF HeldByStage, Recover
    <3>2. PICK x \in {"get", "finish"} : stage' = [stage EXCEPT ![r] = x]
      BY <1>5 DEF Recover
    <3>3. stage'[r] \in {"get", "finish"} /\ \A q \in Requests : q # r => stage'[q] = stage[q]
      BY <3>2 DEF TypeOK
    <3>4. QED
      BY <3>1, <3>3 DEF HeldByStage
  <2>4. EncodedOwn'
    BY <1>5 DEF EncodedOwn, HeldByStage, BuffersExclusive, TypeOK, Recover
  <2>5. SentByStage'
    BY <1>5 DEF SentByStage, TypeOK, Recover
  <2>6. BuffersExclusive'
    BY <1>5 DEF BuffersExclusive, TypeOK, Recover
  <2>7. AnswersOwn'
    BY <1>5 DEF AnswersOwn, TypeOK, Recover
  <2>8. RetentionBounded'
    BY <1>5 DEF RetentionBounded, BuffersExclusive, HeldByStage, TypeOK, Recover
  <2>9. SilenceMeansGone'
    BY <1>5 DEF SilenceMeansGone, SentByStage, TypeOK, Recover
  <2>10. QED
    BY <2>1, <2>2, <2>3, <2>4, <2>5, <2>6, <2>7, <2>8, <2>9
<1>6. CASE Finish(r)
  <2>1. GaugeCountsInProgress'
    <3>1. Active' = Active \ {r} /\ r \in Active /\ inFlight' = inFlight - 1
      BY <1>6 DEF Finish, TypeOK
    <3>2. QED
      BY <3>1, RequestSets, FS_RemoveElement DEF GaugeCountsInProgress
  <2>2. TypeOK'
    <3>1. /\ stage' \in [Requests -> Stages] /\ gone' \in [Requests -> BOOLEAN]
          /\ answer' \in [Requests -> Statuses \cup {None}]
          /\ held' \in [Requests -> Buffers \cup {None}]
          /\ status' \in [Requests -> Statuses] /\ recovering' \in [Requests -> BOOLEAN]
      BY <1>6 DEF TypeOK, Statuses, Finish
    <3>2. sent' \in [Requests -> [status : Statuses \cup {None}, bodies : Seq(Content)]]
      BY <1>6 DEF TypeOK, Statuses, Finish
    <3>3. pool' \in Seq(Buffers) /\ Len(pool') <= responseBufferCount
      BY <1>6 DEF TypeOK, Finish
    <3>4. content' \in [Buffers -> Content] /\ capacity' \in [Buffers -> 0..MaximumSize]
      BY <1>6 DEF TypeOK, Content, Finish
    <3>5. inFlight' \in 0..Cardinality(Requests)
      BY <2>1, RequestSets DEF GaugeCountsInProgress
    <3>6. QED
      BY <3>1, <3>2, <3>3, <3>4, <3>5 DEF TypeOK
  <2>3. HeldByStage'
    BY <1>6 DEF HeldByStage, TypeOK, Finish
  <2>4. EncodedOwn'
    BY <1>6 DEF EncodedOwn, HeldByStage, BuffersExclusive, TypeOK, Finish
  <2>5. SentByStage'
    BY <1>6 DEF SentByStage, TypeOK, Finish
  <2>6. BuffersExclusive'
    BY <1>6 DEF BuffersExclusive, TypeOK, Finish
  <2>7. AnswersOwn'
    BY <1>6 DEF AnswersOwn, TypeOK, Finish
  <2>8. RetentionBounded'
    BY <1>6 DEF RetentionBounded, BuffersExclusive, HeldByStage, TypeOK, Finish
  <2>9. SilenceMeansGone'
    BY <1>6 DEF SilenceMeansGone, SentByStage, TypeOK, Finish
  <2>10. QED
    BY <2>1, <2>2, <2>3, <2>4, <2>5, <2>6, <2>7, <2>8, <2>9
<1>7. QED
  BY <1>1, <1>2, <1>3, <1>4, <1>5, <1>6

\* writeJSON, with the pool.
LEMMA WriteJSONInvariant ==
  ASSUME ResponderInv, NEW r \in Requests,
         \/ GetBuffer(r)
         \/ \E size \in 1..MaximumSize : Encode(r, size)
         \/ WriteHeader(r)
         \/ WriteBody(r)
         \/ PutBuffer(r)
  PROVE  ResponderInv'
<1> USE ResponderAssumption DEF ResponderInv
<1>1. CASE GetBuffer(r)
  <2>0. /\ stage[r] = "get" /\ stage' = [stage EXCEPT ![r] = "encode"]
        /\ UNCHANGED <<answer, sent, capacity>>
        /\ held[r] = None /\ held' \in [Requests -> Buffers \cup {None}]
        /\ \/ /\ held' = [held EXCEPT ![r] = pool[1]] /\ pool[1] \in Buffers
              /\ Len(pool) > 0 /\ Len(pool') = Len(pool) - 1 /\ pool' \in Seq(Buffers)
              /\ \A i \in 1..Len(pool') : pool'[i] = pool[i + 1] /\ i + 1 \in 1..Len(pool)
              /\ content' = [content EXCEPT ![pool[1]] = None]
           \/ /\ pool = <<>> /\ UNCHANGED <<pool, content>>
              /\ \E b \in Buffers \ Held : held' = [held EXCEPT ![r] = b]
    <3>1. /\ stage[r] = "get" /\ held[r] = None
          /\ stage' = [stage EXCEPT ![r] = "encode"] /\ UNCHANGED <<answer, sent, capacity>>
      BY <1>1 DEF GetBuffer, HeldByStage, TypeOK
    <3>2. CASE pool # <<>>
      <4>1. /\ Head(pool) = pool[1] /\ pool[1] \in Buffers
            /\ Len(pool) > 0 /\ Len(Tail(pool)) = Len(pool) - 1 /\ Tail(pool) \in Seq(Buffers)
            /\ \A i \in 1..Len(Tail(pool)) :
                 Tail(pool)[i] = pool[i + 1] /\ i + 1 \in 1..Len(pool)
        BY <3>2 DEF TypeOK
      <4>2. /\ held' = [held EXCEPT ![r] = pool[1]] /\ pool' = Tail(pool)
            /\ content' = [content EXCEPT ![pool[1]] = None]
        BY <1>1, <3>2, <4>1 DEF GetBuffer
      <4>3. held' \in [Requests -> Buffers \cup {None}]
        BY <4>1, <4>2 DEF TypeOK
      <4>4. QED
        BY <3>1, <4>1, <4>2, <4>3
    <3>3. CASE pool = <<>>
      <4>1. /\ UNCHANGED <<pool, content>>
            /\ \E b \in Buffers \ Held : held' = [held EXCEPT ![r] = b]
        BY <1>1, <3>3, FreshBuffer DEF GetBuffer
      <4>2. held' \in [Requests -> Buffers \cup {None}]
        BY <4>1 DEF TypeOK
      <4>3. QED
        BY <3>1, <3>3, <4>1, <4>2
    <3>4. QED
      BY <3>2, <3>3
  <2>1. GaugeCountsInProgress'
    <3>1. Active' = Active /\ inFlight' = inFlight
      BY <1>1 DEF TypeOK, GetBuffer
    <3>2. QED
      BY <3>1 DEF GaugeCountsInProgress
  <2>2. TypeOK'
    <3>1. /\ stage' \in [Requests -> Stages] /\ gone' \in [Requests -> BOOLEAN]
          /\ answer' \in [Requests -> Statuses \cup {None}]
          /\ held' \in [Requests -> Buffers \cup {None}]
          /\ status' \in [Requests -> Statuses] /\ recovering' \in [Requests -> BOOLEAN]
      BY <1>1, <2>0 DEF TypeOK, Statuses, GetBuffer
    <3>2. sent' \in [Requests -> [status : Statuses \cup {None}, bodies : Seq(Content)]]
      BY <1>1, <2>0 DEF TypeOK, Statuses, GetBuffer
    <3>3. pool' \in Seq(Buffers) /\ Len(pool') <= responseBufferCount
      BY <1>1, <2>0 DEF TypeOK, GetBuffer
    <3>4. content' \in [Buffers -> Content] /\ capacity' \in [Buffers -> 0..MaximumSize]
      BY <1>1, <2>0 DEF TypeOK, Content, GetBuffer
    <3>5. inFlight' \in 0..Cardinality(Requests)
      BY <2>1, RequestSets DEF GaugeCountsInProgress
    <3>6. QED
      BY <3>1, <3>2, <3>3, <3>4, <3>5 DEF TypeOK
  <2>3. HeldByStage'
    BY <1>1, <2>0 DEF HeldByStage, TypeOK, GetBuffer
  <2>4. EncodedOwn'
    <3>1. \A q \in Requests : q # r /\ stage[q] \in {"head", "write"} =>
            content'[held'[q]] = content[held[q]]
      <4>1. \A q \in Requests : stage[q] \in {"head", "write"} =>
              held[q] \in Buffers /\ \A i \in 1..Len(pool) : held[q] # pool[i]
        BY DEF HeldByStage, TypeOK, BuffersExclusive
      <4>2. QED
        BY <2>0, <4>1 DEF TypeOK
    <3>2. QED
      BY <2>0, <3>1 DEF EncodedOwn, TypeOK
  <2>5. SentByStage'
    BY <1>1, <2>0 DEF SentByStage, TypeOK, GetBuffer
  <2>6. BuffersExclusive'
    <3>1. CASE pool = <<>>
      <4>1. PICK b \in Buffers \ Held : held' = [held EXCEPT ![r] = b]
        BY <2>0, <3>1
      <4>2. \A q \in Requests : held[q] # b
        BY <4>1, ResponderAssumption DEF Held
      <4>3. pool' = <<>>
        BY <2>0, <3>1
      <4>4. QED
        BY <3>1, <4>1, <4>2, <4>3 DEF BuffersExclusive, TypeOK
    <3>2. CASE pool # <<>>
      <4>1. /\ held' = [held EXCEPT ![r] = pool[1]] /\ Len(pool) > 0 /\ Len(pool) \in Nat
            /\ Len(pool') = Len(pool) - 1
            /\ \A i \in 1..Len(pool') : pool'[i] = pool[i + 1] /\ i + 1 \in 1..Len(pool)
        BY <2>0, <3>2 DEF TypeOK
      <4>2. \A q, p \in Requests : held'[q] # None /\ held'[q] = held'[p] => q = p
        BY <4>1 DEF BuffersExclusive, TypeOK
      <4>3. ASSUME NEW q \in Requests, NEW i \in 1..Len(pool')
            PROVE  held'[q] # pool'[i]
        <5>1. pool'[i] = pool[i + 1] /\ i + 1 \in 1..Len(pool) /\ i + 1 # 1 /\ 1 \in 1..Len(pool)
          BY <4>1
        <5>2. pool[i + 1] # pool[1] /\ held[q] # pool[i + 1]
          BY <5>1 DEF BuffersExclusive
        <5>3. QED
          BY <4>1, <5>1, <5>2 DEF TypeOK
      <4>4. ASSUME NEW i \in 1..Len(pool'), NEW j \in 1..Len(pool'), pool'[i] = pool'[j]
            PROVE  i = j
        <5>1. /\ i + 1 \in 1..Len(pool) /\ j + 1 \in 1..Len(pool)
              /\ pool[i + 1] = pool[j + 1]
          BY <4>1, <4>4
        <5>2. i + 1 = j + 1
          BY <5>1 DEF BuffersExclusive
        <5>3. QED
          BY <4>1, <5>2
      <4>5. QED
        BY <4>2, <4>3, <4>4 DEF BuffersExclusive
    <3>3. QED
      BY <3>1, <3>2
  <2>7. AnswersOwn'
    BY <1>1, <2>0 DEF AnswersOwn, TypeOK, GetBuffer
  <2>8. RetentionBounded'
    <3>1. pool' \in Seq(Buffers) /\ Len(pool) \in Nat /\ Len(pool') \in Nat
      BY <2>0 DEF TypeOK
    <3>2. Len(pool') <= responseBufferCount
      BY <2>0, <3>1 DEF RetentionBounded
    <3>3. ASSUME NEW i \in 1..Len(pool')
          PROVE  capacity'[pool'[i]] <= maximumPooledResponseSize
      BY <2>0, <3>1 DEF RetentionBounded
    <3>4. QED
      BY <3>2, <3>3 DEF RetentionBounded
  <2>9. SilenceMeansGone'
    BY <1>1, <2>0 DEF SilenceMeansGone, SentByStage, TypeOK, GetBuffer
  <2>10. QED
    BY <2>1, <2>2, <2>3, <2>4, <2>5, <2>6, <2>7, <2>8, <2>9
<1>2. CASE \E size \in 1..MaximumSize : Encode(r, size)
  <2>0. /\ stage[r] = "encode" /\ held[r] \in Buffers /\ answer[r] \in Statuses
        /\ stage' = [stage EXCEPT ![r] = "head"] /\ UNCHANGED <<answer, held, pool>>
        /\ answer[r] # None
        /\ \E size \in 1..MaximumSize :
             content' = [content EXCEPT ![held[r]] = [to |-> r, status |-> answer[r], size |-> size]]
        /\ \E c \in 0..MaximumSize : capacity' = [capacity EXCEPT ![held[r]] = c]
    <3>1. /\ stage[r] = "encode" /\ held[r] \in Buffers
          /\ answer[r] \in Statuses /\ answer[r] # None
          /\ stage' = [stage EXCEPT ![r] = "head"] /\ UNCHANGED <<answer, held, pool>>
      BY <1>2 DEF Encode, HeldByStage, EncodedOwn, TypeOK
    <3>2. \E c \in 0..MaximumSize : capacity' = [capacity EXCEPT ![held[r]] = c]
      <4>1. PICK size \in 1..MaximumSize : Encode(r, size)
        BY <1>2
      <4>2. PICK c \in 1..MaximumSize : capacity' = [capacity EXCEPT ![held[r]] = c]
        BY <4>1 DEF Encode
      <4>3. c \in 0..MaximumSize
        OBVIOUS
      <4>4. QED
        BY <4>2, <4>3
    <3>3. QED
      BY <1>2, <3>1, <3>2 DEF Encode
  <2>1. GaugeCountsInProgress'
    <3>1. Active' = Active /\ inFlight' = inFlight
      BY <1>2 DEF TypeOK, Encode
    <3>2. QED
      BY <3>1 DEF GaugeCountsInProgress
  <2>2. TypeOK'
    <3>1. /\ stage' \in [Requests -> Stages] /\ gone' \in [Requests -> BOOLEAN]
          /\ answer' \in [Requests -> Statuses \cup {None}]
          /\ held' \in [Requests -> Buffers \cup {None}]
          /\ status' \in [Requests -> Statuses] /\ recovering' \in [Requests -> BOOLEAN]
      BY <1>2, <2>0 DEF TypeOK, Statuses, Encode
    <3>2. sent' \in [Requests -> [status : Statuses \cup {None}, bodies : Seq(Content)]]
      BY <1>2, <2>0 DEF TypeOK, Statuses, Encode
    <3>3. pool' \in Seq(Buffers) /\ Len(pool') <= responseBufferCount
      BY <1>2, <2>0 DEF TypeOK, Encode
    <3>4. content' \in [Buffers -> Content] /\ capacity' \in [Buffers -> 0..MaximumSize]
      BY <1>2, <2>0 DEF TypeOK, Content, Encode
    <3>5. inFlight' \in 0..Cardinality(Requests)
      BY <2>1, RequestSets DEF GaugeCountsInProgress
    <3>6. QED
      BY <3>1, <3>2, <3>3, <3>4, <3>5 DEF TypeOK
  <2>3. HeldByStage'
    BY <1>2, <2>0 DEF HeldByStage, TypeOK, Encode
  <2>4. EncodedOwn'
    <3>1. PICK size \in 1..MaximumSize :
            content' = [content EXCEPT ![held[r]] = [to |-> r, status |-> answer[r], size |-> size]]
      BY <2>0
    <3>2. /\ content'[held[r]].to = r /\ content'[held[r]].status = answer[r]
          /\ content'[held[r]] # None
      <4>1. [to |-> r, status |-> answer[r], size |-> size] \in [to : Requests, status : Nat, size : Nat]
        BY <2>0 DEF Statuses
      <4>2. QED
        BY <2>0, <3>1, <4>1, ResponderAssumption DEF TypeOK
    <3>3. \A q \in Requests : q # r /\ stage[q] \in {"head", "write"} =>
            content'[held[q]] = content[held[q]]
      BY <2>0, <3>1 DEF BuffersExclusive, HeldByStage, TypeOK
    <3>4. QED
      BY <2>0, <3>2, <3>3 DEF EncodedOwn, TypeOK
  <2>5. SentByStage'
    BY <1>2, <2>0 DEF SentByStage, TypeOK, Encode
  <2>6. BuffersExclusive'
    BY <1>2, <2>0 DEF BuffersExclusive, TypeOK, Encode
  <2>7. AnswersOwn'
    BY <1>2, <2>0 DEF AnswersOwn, TypeOK, Encode
  <2>8. RetentionBounded'
    BY <1>2, <2>0 DEF RetentionBounded, BuffersExclusive, HeldByStage, TypeOK, Encode
  <2>9. SilenceMeansGone'
    BY <1>2, <2>0 DEF SilenceMeansGone, SentByStage, TypeOK, Encode
  <2>10. QED
    BY <2>1, <2>2, <2>3, <2>4, <2>5, <2>6, <2>7, <2>8, <2>9
<1>3. CASE WriteHeader(r)
  <2>0. /\ stage[r] = "head" /\ answer[r] \in Statuses /\ answer[r] # None
        /\ sent' = [sent EXCEPT ![r] = [status |-> answer[r], bodies |-> <<>>]]
        /\ status' = [status EXCEPT ![r] = answer[r]]
    <3>1. /\ stage[r] = "head" /\ answer[r] \in Statuses /\ answer[r] # None
          /\ sent[r].status = None /\ sent[r].bodies = <<>>
          /\ sent[r] \in [status : Statuses \cup {None}, bodies : Seq(Content)]
      BY <1>3 DEF WriteHeader, EncodedOwn, SentByStage, TypeOK
    <3>2. /\ sent' = [sent EXCEPT ![r].status = answer[r]]
          /\ status' = [status EXCEPT ![r] = answer[r]]
      BY <1>3, <3>1 DEF WriteHeader
    <3>3. [sent[r] EXCEPT !.status = answer[r]] = [status |-> answer[r], bodies |-> <<>>]
      BY <3>1
    <3>4. QED
      BY <3>1, <3>2, <3>3
  <2>1. GaugeCountsInProgress'
    <3>1. Active' = Active /\ inFlight' = inFlight
      BY <1>3 DEF TypeOK, WriteHeader
    <3>2. QED
      BY <3>1 DEF GaugeCountsInProgress
  <2>2. TypeOK'
    <3>1. /\ stage' \in [Requests -> Stages] /\ gone' \in [Requests -> BOOLEAN]
          /\ answer' \in [Requests -> Statuses \cup {None}]
          /\ held' \in [Requests -> Buffers \cup {None}]
          /\ status' \in [Requests -> Statuses] /\ recovering' \in [Requests -> BOOLEAN]
      BY <1>3, <2>0 DEF TypeOK, Statuses, WriteHeader
    <3>2. sent' \in [Requests -> [status : Statuses \cup {None}, bodies : Seq(Content)]]
      BY <1>3, <2>0 DEF TypeOK, Statuses, WriteHeader
    <3>3. pool' \in Seq(Buffers) /\ Len(pool') <= responseBufferCount
      BY <1>3, <2>0 DEF TypeOK, WriteHeader
    <3>4. content' \in [Buffers -> Content] /\ capacity' \in [Buffers -> 0..MaximumSize]
      BY <1>3, <2>0 DEF TypeOK, Content, WriteHeader
    <3>5. inFlight' \in 0..Cardinality(Requests)
      BY <2>1, RequestSets DEF GaugeCountsInProgress
    <3>6. QED
      BY <3>1, <3>2, <3>3, <3>4, <3>5 DEF TypeOK
  <2>3. HeldByStage'
    BY <1>3, <2>0 DEF HeldByStage, TypeOK, WriteHeader
  <2>4. EncodedOwn'
    BY <1>3, <2>0 DEF EncodedOwn, HeldByStage, BuffersExclusive, TypeOK, WriteHeader
  <2>5. SentByStage'
    BY <1>3, <2>0 DEF SentByStage, TypeOK, WriteHeader
  <2>6. BuffersExclusive'
    BY <1>3, <2>0 DEF BuffersExclusive, TypeOK, WriteHeader
  <2>7. AnswersOwn'
    BY <1>3, <2>0 DEF AnswersOwn, TypeOK, WriteHeader
  <2>8. RetentionBounded'
    BY <1>3, <2>0 DEF RetentionBounded, BuffersExclusive, HeldByStage, TypeOK, WriteHeader
  <2>9. SilenceMeansGone'
    BY <1>3, <2>0 DEF SilenceMeansGone, SentByStage, TypeOK, WriteHeader
  <2>10. QED
    BY <2>1, <2>2, <2>3, <2>4, <2>5, <2>6, <2>7, <2>8, <2>9
<1>4. CASE WriteBody(r)
  <2>0. /\ stage[r] = "write" /\ sent[r].status = answer[r] /\ answer[r] # None
        /\ content[held[r]] \in Content \ {None} /\ answer[r] \in Statuses
        /\ content[held[r]].to = r /\ content[held[r]].status = answer[r]
        /\ \/ UNCHANGED sent
           \/ sent' = [sent EXCEPT ![r] = [status |-> answer[r],
                                           bodies |-> <<content[held[r]]>>]]
    <3>1. /\ stage[r] = "write" /\ sent[r].status = answer[r] /\ answer[r] # None
          /\ held[r] \in Buffers /\ answer[r] \in Statuses
          /\ content[held[r]].to = r /\ content[held[r]].status = answer[r]
          /\ content[held[r]] # None /\ content[held[r]] \in Content
          /\ sent[r].bodies = <<>>
          /\ sent[r] \in [status : Statuses \cup {None}, bodies : Seq(Content)]
      BY <1>4 DEF WriteBody, HeldByStage, EncodedOwn, SentByStage, TypeOK
    <3>2. \/ UNCHANGED sent
          \/ sent' = [sent EXCEPT ![r].bodies = Append(@, content[held[r]])]
      BY <1>4 DEF WriteBody, SendBody
    <3>3. Append(sent[r].bodies, content[held[r]]) = <<content[held[r]]>>
      BY <3>1
    <3>4. [sent[r] EXCEPT !.bodies = Append(@, content[held[r]])]
            = [status |-> answer[r], bodies |-> <<content[held[r]]>>]
      BY <3>1, <3>3
    <3>5. QED
      BY <3>1, <3>2, <3>4
  <2>1. GaugeCountsInProgress'
    <3>1. Active' = Active /\ inFlight' = inFlight
      BY <1>4 DEF TypeOK, WriteBody, SendBody
    <3>2. QED
      BY <3>1 DEF GaugeCountsInProgress
  <2>2. TypeOK'
    <3>1. /\ stage' \in [Requests -> Stages] /\ gone' \in [Requests -> BOOLEAN]
          /\ answer' \in [Requests -> Statuses \cup {None}]
          /\ held' \in [Requests -> Buffers \cup {None}]
          /\ status' \in [Requests -> Statuses] /\ recovering' \in [Requests -> BOOLEAN]
      BY <1>4, <2>0 DEF TypeOK, Statuses, WriteBody, SendBody
    <3>2. sent' \in [Requests -> [status : Statuses \cup {None}, bodies : Seq(Content)]]
      BY <1>4, <2>0 DEF TypeOK, Statuses, WriteBody, SendBody
    <3>3. pool' \in Seq(Buffers) /\ Len(pool') <= responseBufferCount
      BY <1>4, <2>0 DEF TypeOK, WriteBody, SendBody
    <3>4. content' \in [Buffers -> Content] /\ capacity' \in [Buffers -> 0..MaximumSize]
      BY <1>4, <2>0 DEF TypeOK, Content, WriteBody, SendBody
    <3>5. inFlight' \in 0..Cardinality(Requests)
      BY <2>1, RequestSets DEF GaugeCountsInProgress
    <3>6. QED
      BY <3>1, <3>2, <3>3, <3>4, <3>5 DEF TypeOK
  <2>3. HeldByStage'
    BY <1>4, <2>0 DEF HeldByStage, TypeOK, WriteBody, SendBody
  <2>4. EncodedOwn'
    BY <1>4, <2>0 DEF EncodedOwn, HeldByStage, BuffersExclusive, TypeOK, WriteBody,
           SendBody
  <2>5. SentByStage'
    BY <1>4, <2>0 DEF SentByStage, TypeOK, WriteBody, SendBody
  <2>6. BuffersExclusive'
    BY <1>4, <2>0 DEF BuffersExclusive, TypeOK, WriteBody, SendBody
  <2>7. AnswersOwn'
    BY <1>4, <2>0 DEF AnswersOwn, TypeOK, WriteBody, SendBody
  <2>8. RetentionBounded'
    BY <1>4, <2>0 DEF RetentionBounded, BuffersExclusive, HeldByStage, TypeOK,
           WriteBody, SendBody
  <2>9. SilenceMeansGone'
    BY <1>4, <2>0 DEF SilenceMeansGone, SentByStage, TypeOK, WriteBody, SendBody
  <2>10. QED
    BY <2>1, <2>2, <2>3, <2>4, <2>5, <2>6, <2>7, <2>8, <2>9
<1>5. CASE PutBuffer(r)
  <2>0. /\ held[r] \in Buffers /\ stage[r] = "put" /\ held' = [held EXCEPT ![r] = None]
        /\ \/ /\ pool' \in Seq(Buffers) /\ Len(pool') = Len(pool) + 1
              /\ \A i \in 1..Len(pool) : pool'[i] = pool[i]
              /\ pool'[Len(pool) + 1] = held[r]
              /\ Len(pool) < responseBufferCount
              /\ capacity[held[r]] <= maximumPooledResponseSize
              /\ content' = [content EXCEPT ![held[r]] = None] /\ UNCHANGED capacity
           \/ UNCHANGED pool /\ Discard({held[r]})
    <3>1. held[r] \in Buffers /\ stage[r] = "put" /\ held' = [held EXCEPT ![r] = None]
      BY <1>5 DEF PutBuffer, HeldByStage, TypeOK
    <3>2. \A b \in Buffers :
            /\ Append(pool, b) \in Seq(Buffers) /\ Len(Append(pool, b)) = Len(pool) + 1
            /\ \A i \in 1..Len(pool) : Append(pool, b)[i] = pool[i]
            /\ Append(pool, b)[Len(pool) + 1] = b
      BY DEF TypeOK
    <3>3. CASE Room(held[r])
      <4>1. /\ pool' = Append(pool, held[r])
            /\ content' = [content EXCEPT ![held[r]] = None] /\ UNCHANGED capacity
        BY <1>5, <3>3 DEF PutBuffer, Return
      <4>2. /\ Len(pool) < responseBufferCount
            /\ capacity[held[r]] <= maximumPooledResponseSize
        BY <3>3 DEF Room
      <4>3. /\ pool' \in Seq(Buffers) /\ Len(pool') = Len(pool) + 1
            /\ \A i \in 1..Len(pool) : pool'[i] = pool[i]
            /\ pool'[Len(pool) + 1] = held[r]
        BY <3>1, <3>2, <4>1
      <4>4. QED
        BY <3>1, <4>1, <4>2, <4>3
    <3>4. CASE ~Room(held[r])
      BY <1>5, <3>1, <3>4 DEF PutBuffer
    <3>5. QED
      BY <3>3, <3>4
  <2>1. GaugeCountsInProgress'
    <3>1. Active' = Active /\ inFlight' = inFlight
      BY <1>5 DEF TypeOK, PutBuffer, Room, Return, Discard
    <3>2. QED
      BY <3>1 DEF GaugeCountsInProgress
  <2>2. TypeOK'
    <3>1. /\ stage' \in [Requests -> Stages] /\ gone' \in [Requests -> BOOLEAN]
          /\ answer' \in [Requests -> Statuses \cup {None}]
          /\ held' \in [Requests -> Buffers \cup {None}]
          /\ status' \in [Requests -> Statuses] /\ recovering' \in [Requests -> BOOLEAN]
      BY <1>5, <2>0 DEF TypeOK, Statuses, PutBuffer, Room, Return, Discard
    <3>2. sent' \in [Requests -> [status : Statuses \cup {None}, bodies : Seq(Content)]]
      BY <1>5, <2>0 DEF TypeOK, Statuses, PutBuffer, Room, Return, Discard
    <3>3. pool' \in Seq(Buffers) /\ Len(pool') <= responseBufferCount
      BY <1>5, <2>0 DEF TypeOK, PutBuffer, Room, Return, Discard
    <3>4. content' \in [Buffers -> Content] /\ capacity' \in [Buffers -> 0..MaximumSize]
      <4>1. None \in Content /\ 0 \in 0..MaximumSize
        BY DEF Content
      <4>2. CASE UNCHANGED capacity
        BY <2>0, <4>1, <4>2 DEF TypeOK, Discard
      <4>3. CASE Discard({held[r]})
        BY <4>1, <4>3 DEF TypeOK, Discard
      <4>4. QED
        BY <2>0, <4>2, <4>3
    <3>5. inFlight' \in 0..Cardinality(Requests)
      BY <2>1, RequestSets DEF GaugeCountsInProgress
    <3>6. QED
      BY <3>1, <3>2, <3>3, <3>4, <3>5 DEF TypeOK
  <2>3. HeldByStage'
    BY <1>5, <2>0 DEF HeldByStage, TypeOK, PutBuffer, Room, Return, Discard
  <2>4. EncodedOwn'
    BY <1>5, <2>0 DEF EncodedOwn, HeldByStage, BuffersExclusive, TypeOK, PutBuffer,
           Room, Return, Discard
  <2>5. SentByStage'
    BY <1>5, <2>0 DEF SentByStage, TypeOK, PutBuffer, Room, Return, Discard
  <2>6. BuffersExclusive'
    <3>1. \A q, p \in Requests : held'[q] # None /\ held'[q] = held'[p] => q = p
      BY <2>0 DEF BuffersExclusive, TypeOK
    <3>2. CASE UNCHANGED pool
      BY <2>0, <3>1, <3>2 DEF BuffersExclusive, TypeOK
    <3>3. CASE ~UNCHANGED pool
      <4>1. /\ Len(pool) \in Nat /\ Len(pool') = Len(pool) + 1
            /\ \A i \in 1..Len(pool) : pool'[i] = pool[i]
            /\ pool'[Len(pool) + 1] = held[r]
        BY <2>0, <3>3 DEF TypeOK
      <4>2. \A i \in 1..Len(pool') : i \in 1..Len(pool) \/ i = Len(pool) + 1
        BY <4>1
      <4>3. \A i \in 1..Len(pool) : pool[i] # held[r]
        BY DEF BuffersExclusive
      <4>4. ASSUME NEW q \in Requests, NEW i \in 1..Len(pool')
            PROVE  held'[q] # pool'[i]
        <5>1. CASE q = r
          BY <2>0, <4>1, <4>2, <5>1, ResponderAssumption DEF TypeOK
        <5>2. CASE q # r
          <6>1. held'[q] = held[q] /\ (held[q] = held[r] => held[q] # None)
            BY <2>0, <5>2 DEF TypeOK
          <6>2. held[q] # held[r]
            BY <5>2, <6>1 DEF BuffersExclusive
          <6>3. CASE i \in 1..Len(pool)
            BY <4>1, <6>1, <6>3 DEF BuffersExclusive
          <6>4. CASE i = Len(pool) + 1
            BY <4>1, <6>1, <6>2, <6>4
          <6>5. QED
            BY <4>2, <6>3, <6>4
        <5>3. QED
          BY <5>1, <5>2
      <4>5. \A i, j \in 1..Len(pool') : pool'[i] = pool'[j] => i = j
        BY <4>1, <4>2, <4>3 DEF BuffersExclusive
      <4>6. QED
        BY <3>1, <4>4, <4>5 DEF BuffersExclusive
    <3>4. QED
      BY <3>2, <3>3
  <2>7. AnswersOwn'
    BY <1>5, <2>0 DEF AnswersOwn, TypeOK, PutBuffer, Room, Return, Discard
  <2>8. RetentionBounded'
    <3>1. CASE UNCHANGED pool /\ Discard({held[r]})
      <4>1. \A i \in 1..Len(pool) : pool[i] \in Buffers /\ pool[i] # held[r]
        BY DEF TypeOK, BuffersExclusive
      <4>2. QED
        BY <3>1, <4>1 DEF RetentionBounded, Discard
    <3>2. CASE ~(UNCHANGED pool /\ Discard({held[r]}))
      <4>1. /\ Len(pool) \in Nat /\ Len(pool') = Len(pool) + 1
            /\ \A i \in 1..Len(pool) : pool'[i] = pool[i]
            /\ pool'[Len(pool) + 1] = held[r] /\ UNCHANGED capacity
            /\ Len(pool) < responseBufferCount
            /\ capacity[held[r]] <= maximumPooledResponseSize
        BY <2>0, <3>2 DEF TypeOK
      <4>2. \A i \in 1..Len(pool') : capacity'[pool'[i]] <= maximumPooledResponseSize
        BY <4>1 DEF RetentionBounded
      <4>3. QED
        BY <4>1, <4>2, ResponderAssumption DEF RetentionBounded
    <3>3. QED
      BY <3>1, <3>2
  <2>9. SilenceMeansGone'
    BY <1>5, <2>0 DEF SilenceMeansGone, SentByStage, TypeOK, PutBuffer, Room, Return,
           Discard
  <2>10. QED
    BY <2>1, <2>2, <2>3, <2>4, <2>5, <2>6, <2>7, <2>8, <2>9
<1>6. QED
  BY <1>1, <1>2, <1>3, <1>4, <1>5

LEMMA InitInvariant == Init => ResponderInv
<1> SUFFICES ASSUME Init PROVE ResponderInv
  OBVIOUS
<1> USE ResponderAssumption
<1>1. GaugeCountsInProgress /\ Active = {}
  BY FS_EmptySet DEF Init, GaugeCountsInProgress
<1>2. inFlight \in 0..Cardinality(Requests)
  BY <1>1, RequestSets DEF GaugeCountsInProgress
<1>3. pool = <<>> /\ Len(pool) = 0 /\ pool \in Seq(Buffers)
  BY DEF Init
<1>4. /\ sent \in [Requests -> [status : Statuses \cup {None}, bodies : Seq(Content)]]
      /\ \A r \in Requests : sent[r].status = None /\ sent[r].bodies = <<>>
  BY DEF Init
<1>5. /\ content \in [Buffers -> Content] /\ capacity \in [Buffers -> 0..MaximumSize]
      /\ status \in [Requests -> Statuses]
  BY DEF Init, Content, Statuses
<1>6. TypeOK
  BY <1>2, <1>3, <1>4, <1>5 DEF Init, TypeOK
<1>7. HeldByStage /\ EncodedOwn /\ SentByStage /\ SilenceMeansGone
  BY <1>4 DEF Init, HeldByStage, EncodedOwn, SentByStage, SilenceMeansGone
<1>8. BuffersExclusive /\ RetentionBounded
  BY <1>3 DEF Init, BuffersExclusive, RetentionBounded
<1>9. AnswersOwn
  BY <1>4 DEF AnswersOwn
<1>10. QED
  BY <1>1, <1>6, <1>7, <1>8, <1>9 DEF ResponderInv

\* ResponderInv is inductive: whatever handlers, panics and departing clients
\* interleave, the pool, the buffers in use and what was sent agree (wrap,
\* writeJSON, getBuffer, putBuffer).
THEOREM ResponderInvariant == Spec => []ResponderInv
<1>1. ResponderInv /\ [Next]_vars => ResponderInv'
  <2> SUFFICES ASSUME ResponderInv, [Next]_vars PROVE ResponderInv'
    OBVIOUS
  <2>1. CASE Next
    <3>1. PICK r \in Requests : Start(r) \/ Leave(r) \/ Serve(r) \/ Panic(r)
      BY <2>1 DEF Next
    <3>2. CASE WriteJSON(r)
      BY <3>2, WriteJSONInvariant DEF WriteJSON, WriteAndPut
    <3>3. CASE ~WriteJSON(r)
      BY <3>1, <3>3, WrapperInvariant DEF Serve
    <3>4. QED
      BY <3>2, <3>3
  <2>2. CASE UNCHANGED vars
    BY <2>2 DEF vars, ResponderInv, TypeOK, HeldByStage, EncodedOwn, SentByStage,
                BuffersExclusive, AnswersOwn, RetentionBounded, GaugeCountsInProgress,
                SilenceMeansGone
  <2>3. QED
    BY <2>1, <2>2
<1>2. QED
  BY <1>1, InitInvariant, PTL DEF Spec

-----------------------------------------------------------------------------
(* What follows from it, for any number of requests and any pool.          *)

\* No two requests encode into the same buffer, and none in use is in the pool
\* (getBuffer, putBuffer).
THEOREM BuffersNeverShared == Spec => []BuffersExclusive
BY ResponderInvariant, PTL DEF ResponderInv

\* A client receives at most one body, the one encoded for it (writeJSON, wrap).
THEOREM ClientsReceiveTheirOwn == Spec => []AnswersOwn
BY ResponderInvariant, PTL DEF ResponderInv

\* The pool keeps at most responseBufferCount buffers of bounded capacity
\* (putBuffer).
THEOREM RetentionIsBounded == Spec => []RetentionBounded
BY ResponderInvariant, PTL DEF ResponderInv

\* The gauge is the number of requests in progress, after a panic too (the
\* deferred function of wrap).
THEOREM GaugeIsExact == Spec => []GaugeCountsInProgress
BY ResponderInvariant, PTL DEF ResponderInv

\* Whoever is sent nothing has left (RepositoryError, wrap).
THEOREM SilentOnlyTowardsTheGone == Spec => []SilenceMeansGone
BY ResponderInvariant, PTL DEF ResponderInv

-----------------------------------------------------------------------------
(* Progress: the part of EveryRequestEnds that no scheduling is needed for. *)

\* The answer a panic interrupted comes before the one to the panic.
Again(r) == IF recovering[r] THEN 5 ELSE 0

\* How far a request has come, from wrap's handler to the end of its deferred
\* function.
Position(r) ==
  CASE stage[r] = "handling" -> 0
    [] stage[r] = "get" -> 1 + Again(r)
    [] stage[r] = "encode" -> 2 + Again(r)
    [] stage[r] = "head" -> 3 + Again(r)
    [] stage[r] = "write" -> 4 + Again(r)
    [] stage[r] = "panicked" -> 5
    [] stage[r] = "put" -> 10
    [] stage[r] = "finish" -> 11
    [] stage[r] = "idle" -> 12

RequestsAdvance ==
  \A r \in Requests :
    /\ stage[r] # "idle" => Position(r)' >= Position(r)
    /\ Serve(r) \/ Panic(r) => Position(r)' > Position(r)

LEMMA PositionType ==
  ASSUME TypeOK, NEW r \in Requests
  PROVE  Position(r) \in 0..12
<1>1. Again(r) \in {0, 5}
  BY DEF Again
<1>2. CASE stage[r] \in {"handling", "panicked", "put", "finish", "idle"}
  BY <1>2 DEF Position
<1>3. CASE stage[r] \in {"get", "encode", "head", "write"}
  BY <1>1, <1>3 DEF Position
<1>4. QED
  BY <1>2, <1>3 DEF TypeOK

\* Each step of a request takes it further, a panic and its recovery too.
LEMMA OwnStepAdvances ==
  ASSUME TypeOK, NEW r \in Requests, Serve(r) \/ Panic(r)
  PROVE  Position(r)' > Position(r) /\ Position(r)' >= Position(r)
<1>1. r \in DOMAIN stage /\ r \in DOMAIN recovering /\ Again(r) \in {0, 5}
  BY DEF TypeOK, Again
<1>2. ASSUME NEW outcome \in Outcomes, Handle(r, outcome)
      PROVE  Position(r)' > Position(r) /\ Position(r)' >= Position(r)
  <2>1. stage[r] = "handling" /\ stage'[r] \in {"finish", "get"} /\ UNCHANGED recovering
    BY <1>1, <1>2 DEF Handle
  <2>2. Again(r)' = Again(r)
    BY <2>1 DEF Again
  <2>3. Position(r) = 0 /\ (Position(r)' = 11 \/ Position(r)' = 1 + Again(r))
    BY <2>1, <2>2 DEF Position
  <2>4. QED
    BY <1>1, <2>3
<1>3. CASE WriteJSON(r)
  <2>1. /\ UNCHANGED recovering
        /\ \/ stage[r] = "get" /\ stage'[r] = "encode"
           \/ stage[r] = "encode" /\ stage'[r] = "head"
           \/ stage[r] = "head" /\ stage'[r] = "write"
           \/ stage[r] = "write" /\ stage'[r] = "put"
           \/ stage[r] = "put" /\ stage'[r] = "finish"
    BY <1>1, <1>3 DEF WriteJSON, WriteAndPut, GetBuffer, Encode, WriteHeader, WriteBody, PutBuffer
  <2>2. Again(r)' = Again(r)
    BY <2>1 DEF Again
  <2>3. \/ Position(r) = 1 + Again(r) /\ Position(r)' = 2 + Again(r)
        \/ Position(r) = 2 + Again(r) /\ Position(r)' = 3 + Again(r)
        \/ Position(r) = 3 + Again(r) /\ Position(r)' = 4 + Again(r)
        \/ Position(r) = 4 + Again(r) /\ Position(r)' = 10
        \/ Position(r) = 10 /\ Position(r)' = 11
    BY <2>1, <2>2 DEF Position
  <2>4. QED
    BY <1>1, <2>3
<1>4. CASE Panic(r)
  <2>1. stage[r] \in {"handling", "write"} /\ ~recovering[r] /\ stage'[r] = "panicked"
    BY <1>1, <1>4 DEF Panic
  <2>2. Position(r) \in {0, 4} /\ Position(r)' = 5
    BY <2>1 DEF Position, Again
  <2>3. QED
    BY <2>2
<1>5. CASE Recover(r)
  <2>1. stage[r] = "panicked" /\ stage'[r] \in {"get", "finish"} /\ recovering'[r] = TRUE
    BY <1>1, <1>5 DEF Recover
  <2>2. Position(r) = 5 /\ Position(r)' \in {6, 11}
    BY <2>1 DEF Position, Again
  <2>3. QED
    BY <2>2
<1>6. CASE Finish(r)
  <2>1. stage[r] = "finish" /\ stage'[r] = "idle"
    BY <1>1, <1>6 DEF Finish
  <2>2. Position(r) = 11 /\ Position(r)' = 12
    BY <2>1 DEF Position
  <2>3. QED
    BY <2>2
<1>7. QED
  BY <1>2, <1>3, <1>4, <1>5, <1>6 DEF Serve

\* A request is where it was when its client leaves, and when another one moves.
LEMMA OthersStay ==
  ASSUME TypeOK, NEW r \in Requests, NEW q \in Requests,
         Leave(q) \/ (q # r /\ (Start(q) \/ Serve(q) \/ Panic(q)))
  PROVE  stage'[r] = stage[r] /\ recovering'[r] = recovering[r]
<1>1. /\ stage \in [Requests -> {"idle", "handling", "get", "encode", "head", "write",
                                 "put", "panicked", "finish"}]
      /\ recovering \in [Requests -> BOOLEAN]
  BY DEF TypeOK
<1>2. CASE Leave(q)
  BY <1>2 DEF Leave
<1>3. CASE q # r /\ (Start(q) \/ Panic(q) \/ Recover(q) \/ Finish(q))
  BY <1>1, <1>3 DEF Start, Panic, Recover, Finish
<1>4. CASE q # r /\ WriteJSON(q)
  BY <1>1, <1>4 DEF WriteJSON, WriteAndPut, GetBuffer, Encode, WriteHeader, WriteBody, PutBuffer
<1>5. CASE q # r /\ \E outcome \in Outcomes : Handle(q, outcome)
  BY <1>1, <1>5 DEF Handle
<1>6. QED
  BY <1>2, <1>3, <1>4, <1>5 DEF Serve

\* From its start a request is over after at most twelve steps of its own, a
\* panic and the answer to it included, and nothing others do throws it back:
\* the deferred function answers once, whatever has panicked (wrap, writeJSON).
THEOREM RequestsNeverGoBack == Spec => [][RequestsAdvance]_vars
<1>1. ASSUME ResponderInv, Next PROVE RequestsAdvance
  <2>1. TypeOK
    BY <1>1 DEF ResponderInv
  <2>2. PICK q \in Requests : Start(q) \/ Leave(q) \/ Serve(q) \/ Panic(q)
    BY <1>1 DEF Next
  <2>3. ASSUME NEW r \in Requests, stage[r] # "idle"
        PROVE  Position(r)' >= Position(r)
    <3>1. Position(r) \in 0..12
      BY <2>1, PositionType
    <3>2. CASE q = r /\ (Serve(q) \/ Panic(q))
      BY <2>1, <3>2, OwnStepAdvances
    <3>3. CASE Leave(q) \/ (q # r /\ (Start(q) \/ Serve(q) \/ Panic(q)))
      <4>1. stage'[r] = stage[r] /\ recovering'[r] = recovering[r]
        BY <2>1, <3>3, OthersStay
      <4>2. Position(r)' = Position(r)
        BY <4>1 DEF Position, Again
      <4>3. QED
        BY <3>1, <4>2
    <3>4. CASE q = r /\ Start(q)
      BY <2>3, <3>4 DEF Start
    <3>5. QED
      BY <2>2, <3>2, <3>3, <3>4
  <2>4. QED
    BY <2>1, <2>3, OwnStepAdvances DEF RequestsAdvance
<1>2. ResponderInv /\ [Next]_vars => [RequestsAdvance]_vars
  BY <1>1
<1>3. QED
  BY <1>2, ResponderInvariant, PTL DEF Spec

=============================================================================
