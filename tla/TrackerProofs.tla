---------------------------- MODULE TrackerProofs ---------------------------
(***************************************************************************)
(* No sample is lost or stored twice, an acknowledged flush has stored     *)
(* what it promised, and an answer has the newest samples: the safety      *)
(* properties of SystemTracker for any number of requests, samples and     *)
(* faults and every size of a batch.                                       *)
(***************************************************************************)
EXTENDS SystemTracker, SequenceTheorems, TLAPS

-----------------------------------------------------------------------------
(* The inductive invariant *)

(* SamplesAccounted, element by element.                                   *)
Accounted ==
  /\ Len(stored) + Len(buf) = taken
  /\ \A i \in 1..Len(stored) : stored[i] = i
  /\ \A i \in 1..Len(buf) : buf[i] = Len(stored) + i

Numbered ==
  /\ Accounted
  /\ tracker = "first" => buf = <<>>

(* A request that was not made is nowhere on its way.                      *)
Made == {r \in Request : req[r] # "idle"}

MadeInv ==
  /\ acks \subseteq Made /\ {r \in Request : acked[r]} \subseteq Made
  /\ control \in Seq(Made \cup {"Stop"}) /\ apiControl \in Seq(Made)
  /\ controlBridge \in Made \cup {"recv", "exited"}

(* As long as no insert failed, a flush that was acknowledged has stored   *)
(* what was taken before it, and a tracker that ended has stored all.      *)
FlushInv ==
  /\ \A r \in Request : asked[r] <= taken
  /\ faults = 0 =>
       /\ ~aborted
       /\ tracker = "exited" => buf = <<>>
       /\ \A r \in Request : acked[r] => Len(stored) >= asked[r]

IInv == TypeOK /\ Numbered /\ MadeInv /\ FlushInv /\ AckMeansStored /\ ReplyIsFresh

-----------------------------------------------------------------------------
(* The store *)

(* A flush stores the whole buffer and empties it, or changes neither; in  *)
(* the second case an insert has failed now or before, or there was        *)
(* nothing to store.                                                       *)
Flushed == stored' = stored \o buf /\ buf' = <<>> /\ UNCHANGED <<backend, aborted, faults>>

Kept ==
  /\ UNCHANGED <<backend, stored, buf>>
  /\ aborted' \in BOOLEAN /\ faults' \in 0..MaxFaults /\ faults' >= faults
  /\ faults' = 0 => aborted' = aborted /\ (aborted \/ buf = <<>>)

LEMMA InsertOutcome ==
  ASSUME TypeOK, InsertBatch
  PROVE  Flushed \/ Kept
  <1> USE DEF TypeOK, Flushed, Kept
  <1>1. CASE Commit
    BY <1>1 DEF Commit
  <1>2. CASE Fault /\ aborted' \in BOOLEAN
    <2>1. faults' \in 0..MaxFaults /\ faults' > 0 /\ faults' >= faults
      BY <1>2, TrackerAssumption DEF Fault
    <2> QED
      BY <1>2, <2>1 DEF Fault
  <1>3. CASE aborted /\ UNCHANGED store
    <2>1. UNCHANGED <<backend, stored, buf, faults>> /\ aborted' = aborted
      BY <1>3 DEF store
    <2> QED
      BY <1>3, <2>1, TrackerAssumption
  <1>4. CASE Fault /\ UNCHANGED aborted
    BY <1>2, <1>4
  <1> QED
    BY <1>1, <1>2, <1>3, <1>4 DEF InsertBatch, InsertDuckDb, InsertSqlite

LEMMA FlushOutcome ==
  ASSUME TypeOK, FlushBuffer
  PROVE  Flushed \/ Kept
  <1>1. CASE buf = <<>>
    <2>1. UNCHANGED <<backend, stored, aborted, buf, faults>>
      BY <1>1 DEF FlushBuffer, store
    <2> QED
      BY <1>1, <2>1, TrackerAssumption DEF Kept, TypeOK
  <1>2. CASE buf # <<>>
    BY <1>2, InsertOutcome DEF FlushBuffer
  <1> QED
    BY <1>1, <1>2

(* Either way the samples keep their places, and without a fault the       *)
(* buffer is empty afterwards.                                             *)
LEMMA FlushKeeps ==
  ASSUME TypeOK, Accounted, Flushed \/ Kept, UNCHANGED taken
  PROVE  /\ backend' \in Backends /\ aborted' \in BOOLEAN /\ faults' \in 0..MaxFaults
         /\ stored' \in Seq(1..MaxSamples) /\ buf' \in Seq(1..MaxSamples)
         /\ Accounted' /\ Len(stored') >= Len(stored) /\ (buf = <<>> => buf' = <<>>)
         /\ faults' >= faults
         /\ faults' = 0 => aborted' = aborted /\ (aborted \/ buf' = <<>>)
  <1>0. /\ stored \in Seq(1..MaxSamples) /\ buf \in Seq(1..MaxSamples)
        /\ Len(stored) \in Nat /\ Len(buf) \in Nat /\ taken \in Nat /\ faults \in Nat
    BY TrackerAssumption DEF TypeOK
  <1>1. CASE Flushed
    <2>1. /\ stored \o buf \in Seq(1..MaxSamples)
          /\ Len(stored \o buf) = Len(stored) + Len(buf)
          /\ \A i \in 1..(Len(stored) + Len(buf)) :
                (stored \o buf)[i] = IF i <= Len(stored) THEN stored[i] ELSE buf[i - Len(stored)]
      BY <1>0, ConcatProperties
    <2>2. \A i \in 1..(Len(stored) + Len(buf)) : (stored \o buf)[i] = i
      BY <1>0, <2>1 DEF Accounted
    <2>3. /\ stored' = stored \o buf /\ buf' = <<>> /\ UNCHANGED <<backend, aborted, faults>>
      BY <1>1 DEF Flushed
    <2>4. buf' \in Seq(1..MaxSamples) /\ Len(buf') = 0
      BY <2>3
    <2>5. Accounted'
      BY <1>0, <2>1, <2>2, <2>3, <2>4 DEF Accounted
    <2> QED
      BY <1>0, <2>1, <2>3, <2>4, <2>5 DEF TypeOK
  <1>2. CASE Kept
    <2>1. UNCHANGED <<stored, buf>>
      BY <1>2 DEF Kept
    <2>2. Accounted'
      BY <2>1 DEF Accounted
    <2> QED
      BY <1>0, <1>2, <2>1, <2>2 DEF Kept, TypeOK
  <1> QED
    BY <1>1, <1>2

-----------------------------------------------------------------------------
(* Types *)

(* Rows(r) after a flush: the newest of the samples stored.                *)
Answer(r, k) ==
  IF Limit[r] \in 1..k THEN [i \in 1..Limit[r] |-> k - Limit[r] + i] ELSE [i \in 1..k |-> i]

(* Rows(r), for whatever is stored. *)
RowsOf(s, r) ==
  IF Limit[r] > 0
  THEN SubSeq(s, Len(s) - (IF Limit[r] < Len(s) THEN Limit[r] ELSE Len(s)) + 1, Len(s))
  ELSE s

LEMMA RowsAreNewest ==
  ASSUME NEW s \in Seq(1..MaxSamples), \A i \in 1..Len(s) : s[i] = i, NEW r \in Request
  PROVE  RowsOf(s, r) = Answer(r, Len(s)) /\ RowsOf(s, r) \in Seq(1..MaxSamples)
  <1> DEFINE k == Len(s)
  <1>0. /\ k \in Nat /\ Limit[r] \in Nat
        /\ \A i \in 1..k : s[i] = i /\ i \in 1..MaxSamples
    BY TrackerAssumption, ElementOfSeq
  <1>1. s = [i \in 1..k |-> i]
    BY <1>0
  <1>2. CASE Limit[r] \in 1..k
    <2> DEFINE n == Limit[r]
    <2>1. RowsOf(s, r) = SubSeq(s, k - n + 1, k)
      <3> DEFINE low == IF Limit[r] < Len(s) THEN Limit[r] ELSE Len(s)
      <3>1. Limit[r] > 0 /\ low = n
        BY <1>0, <1>2
      <3>2. RowsOf(s, r) = IF Limit[r] > 0 THEN SubSeq(s, Len(s) - low + 1, Len(s)) ELSE s
        BY DEF RowsOf
      <3> HIDE DEF low
      <3> QED
        BY <3>1, <3>2
    <2> DEFINE m == k - n + 1
               u == SubSeq(s, m, k)
    <2>2. /\ n \in 1..k /\ m \in Int /\ k \in Int /\ m <= k
          /\ \A i \in m..k : s[i] \in 1..MaxSamples
          /\ k - m + 1 = n /\ \A i \in 1..n : m + i - 1 = k - n + i /\ k - n + i \in 1..k
      BY <1>0, <1>2
    <2> HIDE DEF m
    <2>3. /\ u \in Seq(1..MaxSamples) /\ Len(u) = k - m + 1
          /\ \A i \in 1..(k - m + 1) : u[i] = s[m + i - 1]
      BY <2>2, SubSeqProperties
    <2> HIDE DEF u
    <2>4. /\ u \in Seq(1..MaxSamples) /\ Len(u) = n
          /\ \A i \in 1..n : u[i] = k - n + i
      BY <1>0, <2>2, <2>3
    <2>5. u = [i \in 1..n |-> k - n + i]
      <3>1. u \in [1..n -> 1..MaxSamples]
        BY <2>4, LenProperties
      <3> QED
        BY <2>4, <3>1
    <2> QED
      BY <1>2, <2>1, <2>4, <2>5 DEF Answer, u, m
  <1>3. CASE Limit[r] \notin 1..k
    <2>1. RowsOf(s, r) = s
      <3>1. CASE Limit[r] = 0
        BY <1>0, <3>1 DEF RowsOf
      <3>2. CASE Limit[r] > k
        <4>1. RowsOf(s, r) = SubSeq(s, k - k + 1, k)
          BY <1>0, <3>2 DEF RowsOf
        <4>2. k - k + 1 = 1
          BY <1>0
        <4> QED
          BY <1>0, <4>1, <4>2, SubSeqFull
      <3> QED
        BY <1>0, <1>3, <3>1, <3>2
    <2> QED
      BY <1>0, <1>1, <1>3, <2>1 DEF Answer
  <1> QED
    BY <1>2, <1>3

-----------------------------------------------------------------------------
(* Samples *)

StoreOK ==
  /\ backend \in Backends /\ aborted \in BOOLEAN /\ faults \in 0..MaxFaults
  /\ stored \in Seq(1..MaxSamples) /\ buf \in Seq(1..MaxSamples) /\ taken \in 0..MaxSamples

(* What no step takes back. *)
Grows ==
  /\ Len(stored') >= Len(stored) /\ taken' >= taken /\ faults' >= faults
  /\ faults' = 0 => aborted' = aborted

(* A sample is appended to the buffer. *)
LEMMA SampleTaken ==
  ASSUME TypeOK, Accounted, taken < MaxSamples, taken' = taken + 1,
         buf' = Append(buf, taken + 1), UNCHANGED <<backend, stored, aborted, faults>>
  PROVE  StoreOK' /\ Accounted' /\ Grows
  <1>0. /\ stored \in Seq(1..MaxSamples) /\ buf \in Seq(1..MaxSamples) /\ taken \in 0..MaxSamples
        /\ Len(stored) \in Nat /\ Len(buf) \in Nat /\ faults \in Nat /\ MaxSamples \in Nat
    BY TrackerAssumption DEF TypeOK
  <1>1. taken + 1 \in 1..MaxSamples
    BY <1>0
  <1>2. /\ buf' \in Seq(1..MaxSamples) /\ Len(buf') = Len(buf) + 1
        /\ buf'[Len(buf) + 1] = taken + 1
        /\ \A i \in 1..Len(buf) : buf'[i] = buf[i]
    BY <1>0, <1>1, AppendProperties
  <1>3. Accounted'
    BY <1>0, <1>2 DEF Accounted
  <1> QED
    BY <1>0, <1>1, <1>2, <1>3 DEF StoreOK, Grows, TypeOK

LEMMA SampleStep ==
  ASSUME TypeOK, Numbered, [Next]_vars
  PROVE  StoreOK' /\ Numbered' /\ Grows
  <1>0. Accounted /\ StoreOK
    BY DEF Numbered, TypeOK, StoreOK
  <1>1. ASSUME Flushed \/ Kept, UNCHANGED taken, tracker' # "first"
        PROVE  StoreOK' /\ Numbered' /\ Grows
    <2>1. /\ backend' \in Backends /\ aborted' \in BOOLEAN /\ faults' \in 0..MaxFaults
          /\ stored' \in Seq(1..MaxSamples) /\ buf' \in Seq(1..MaxSamples)
          /\ Accounted' /\ Len(stored') >= Len(stored) /\ faults' >= faults
          /\ faults' = 0 => aborted' = aborted
      BY <1>0, <1>1, FlushKeeps
    <2> QED
      BY <1>1, <2>1 DEF StoreOK, Numbered, Grows, TypeOK
  <1>2. ASSUME UNCHANGED <<backend, stored, aborted, buf, faults, taken>>,
               tracker' = "first" => tracker = "first"
        PROVE  StoreOK' /\ Numbered' /\ Grows
    BY <1>0, <1>2, TrackerAssumption DEF StoreOK, Numbered, Accounted, Grows, TypeOK
  <1>3. CASE InsertFullBatch
    BY <1>1, <1>3, InsertOutcome DEF InsertFullBatch
  <1>4. CASE FlushAndAcknowledge
    <2>1. tracker' # "first" /\ UNCHANGED taken
      BY <1>4 DEF FlushAndAcknowledge
    <2>2. CASE FlushBuffer
      BY <1>1, <2>1, <2>2, FlushOutcome
    <2>3. CASE UNCHANGED store
      BY <1>2, <2>1, <2>3 DEF store
    <2> QED
      BY <1>4, <2>2, <2>3 DEF FlushAndAcknowledge
  <1>5. CASE AnswerQuery \/ FinalFlush
    <2>1. tracker' # "first" /\ UNCHANGED taken /\ FlushBuffer
      BY <1>5 DEF AnswerQuery, FinalFlush
    <2> QED
      BY <1>1, <2>1, FlushOutcome
  <1>6. ASSUME NEW ok \in BOOLEAN, FirstSample(ok) \/ Sample(ok)
        PROVE  StoreOK' /\ Numbered' /\ Grows
    <2>1. tracker' # "first" /\ UNCHANGED <<backend, stored, aborted, faults>>
      BY <1>6 DEF FirstSample, Sample
    <2>2. CASE UNCHANGED <<taken, buf>>
      BY <1>2, <2>1, <2>2
    <2>3. CASE taken < MaxSamples /\ taken' = taken + 1 /\ buf' = Append(buf, taken + 1)
      BY <1>0, <2>1, <2>3, SampleTaken DEF Numbered
    <2>4. CASE FirstSample(ok) /\ taken < MaxSamples /\ taken' = taken + 1 /\ buf' = <<taken + 1>>
      <3>1. buf = <<>>
        BY <2>4 DEF FirstSample, Numbered
      <3>2. Append(buf, taken + 1) = <<taken + 1>>
        BY <3>1
      <3> QED
        BY <2>3, <2>4, <3>2
    <2> QED
      BY <1>6, <2>2, <2>3, <2>4 DEF FirstSample, Sample
  <1>7. CASE OpenFails \/ DrainControl \/ EndIteration
    BY <1>2, <1>7 DEF OpenFails, DrainControl, EndIteration, store
  <1>8. CASE ForwardFlush \/ ReturnAck \/ ForwardQuery
    <2>1. UNCHANGED bridgeOnly
      BY <1>8 DEF ForwardFlush, ReturnAck, ForwardQuery
    <2> QED
      BY <1>2, <2>1 DEF bridgeOnly, store
  <1>9. ASSUME NEW r \in Request,
               RequestFlush(r) \/ RequestQuery(r) \/ GiveUp(r) \/ FlushByOwner(r) \/ OwnerFlushed(r)
        PROVE  StoreOK' /\ Numbered' /\ Grows
    <2>1. UNCHANGED requestOnly
      BY <1>9 DEF RequestFlush, RequestQuery, GiveUp, FlushByOwner, OwnerFlushed
    <2> QED
      BY <1>2, <2>1 DEF requestOnly, store
  <1>10. CASE Stop \/ Joined \/ UNCHANGED vars
    BY <1>2, <1>10 DEF Stop, Joined, vars, store
  <1> QED
    BY <1>3, <1>4, <1>5, <1>6, <1>7, <1>8, <1>9, <1>10 DEF Next, Tracker

-----------------------------------------------------------------------------
(* The threads' types *)

ThreadsOK ==
  /\ running \in BOOLEAN
  /\ tracker \in {"first", "drain", "sample", "batch", "flush", "queries", "final", "exited"}
  /\ acks \subseteq Request /\ control \in Seq(Request \cup {"Stop"})
  /\ queries \in Seq(Request) /\ apiControl \in Seq(Request) /\ apiQuery \in Seq(Request)
  /\ acked \in [Request -> BOOLEAN] /\ req \in [Request -> ReqState]
  /\ controlBridge \in Request \cup {"recv", "exited"} /\ queryBridge \in {"recv", "exited"}
  /\ asked \in [Request -> 0..MaxSamples]
  /\ reply \in [Request -> Seq(1..MaxSamples)]
  /\ stopper \in {"no", "tracker", "control", "query", "returned"}

(* What an answered query does to its request. *)
LEMMA AnswerOutcome ==
  ASSUME TypeOK, StoreOK', Accounted', AnswerQuery
  PROVE  \/ UNCHANGED <<req, reply>>
         \/ \E r \in Request :
              /\ Asking(r)
              /\ \/ req' = [req EXCEPT ![r] = "failed"] /\ UNCHANGED reply
                 \/ /\ \E st \in {"empty", "done"} : req' = [req EXCEPT ![r] = st]
                    /\ reply' = [reply EXCEPT ![r] = Answer(r, Len(stored'))]
                    /\ Answer(r, Len(stored')) \in Seq(1..MaxSamples)
  <1>1. PICK r \in {Head(queries)} :
           \/ ~Asking(r) /\ UNCHANGED <<req, reply>>
           \/ aborted' /\ Fail({r}) /\ UNCHANGED reply
           \/ /\ Asking(r)
              /\ reply' = [reply EXCEPT ![r] = Rows(r)']
              /\ req' = [req EXCEPT ![r] = IF Rows(r)' = <<>> /\ @ = "asking" THEN "empty" ELSE "done"]
    BY DEF AnswerQuery
  <1>2. r \in Request
    BY DEF AnswerQuery, TypeOK
  <1>3. Rows(r)' = RowsOf(stored', r)
    BY DEF Rows, ByLimit, ByRange, Newest, RowsOf
  <1>4. RowsOf(stored', r) = Answer(r, Len(stored')) /\ RowsOf(stored', r) \in Seq(1..MaxSamples)
    <2>1. stored' \in Seq(1..MaxSamples) /\ \A i \in 1..Len(stored') : stored'[i] = i
      BY DEF StoreOK, Accounted
    <2> QED
      BY <1>2, <2>1, RowsAreNewest
  <1>5. CASE Fail({r}) /\ UNCHANGED reply
    <2>1. CASE Asking(r)
      <3>1. req' = [req EXCEPT ![r] = "failed"]
        BY <1>2, <1>5, <2>1 DEF Fail, TypeOK
      <3> QED
        BY <1>2, <1>5, <2>1, <3>1
    <2>2. CASE ~Asking(r)
      <3>1. req' = req
        BY <1>2, <1>5, <2>2 DEF Fail, TypeOK
      <3> QED
        BY <1>5, <3>1
    <2> QED
      BY <2>1, <2>2
  <1>6. CASE /\ Asking(r)
             /\ reply' = [reply EXCEPT ![r] = Rows(r)']
             /\ req' = [req EXCEPT ![r] = IF Rows(r)' = <<>> /\ @ = "asking" THEN "empty" ELSE "done"]
    <2>1. \E st \in {"empty", "done"} : req' = [req EXCEPT ![r] = st]
      BY <1>6
    <2> QED
      BY <1>2, <1>3, <1>4, <1>6, <2>1
  <1> QED
    BY <1>1, <1>5, <1>6

LEMMA TrackerType ==
  ASSUME TypeOK, StoreOK', Accounted', Tracker
  PROVE  ThreadsOK'
  <1> USE DEF TypeOK, ThreadsOK, ReqState
  <1>1. CASE OpenFails
    BY <1>1 DEF OpenFails
  <1>2. ASSUME NEW ok \in BOOLEAN, FirstSample(ok) \/ Sample(ok) PROVE ThreadsOK'
    BY <1>2 DEF FirstSample, Sample, trackerOnly
  <1>3. CASE DrainControl
    BY <1>3 DEF DrainControl, ToSet
  <1>4. CASE InsertFullBatch
    BY <1>4 DEF InsertFullBatch, trackerOnly
  <1>5. CASE FlushAndAcknowledge
    BY <1>5 DEF FlushAndAcknowledge, channels
  <1>6. CASE AnswerQuery
    <2>1. req' \in [Request -> ReqState] /\ reply' \in [Request -> Seq(1..MaxSamples)]
      BY <1>6, AnswerOutcome
    <2>2. queries' \in Seq(Request)
      BY <1>6 DEF AnswerQuery
    <2> QED
      BY <1>6, <2>1, <2>2 DEF AnswerQuery
  <1>7. CASE EndIteration
    BY <1>7 DEF EndIteration, trackerOnly
  <1>8. CASE FinalFlush
    BY <1>8 DEF FinalFlush, Fail
  <1> QED
    BY <1>1, <1>2, <1>3, <1>4, <1>5, <1>6, <1>7, <1>8 DEF Tracker

(* Messages go into and come out of channels. *)
LEMMA ChannelType ==
  ASSUME NEW S, NEW s \in Seq(S)
  PROVE  /\ \A e \in S : Append(s, e) \in Seq(S)
         /\ s # <<>> => Head(s) \in S /\ Tail(s) \in Seq(S)
         /\ <<>> \in Seq(S)
  OBVIOUS

LEMMA OthersType ==
  ASSUME TypeOK, [Next]_vars, ~Tracker
  PROVE  ThreadsOK'
  <1> USE DEF TypeOK, ThreadsOK
  <1>1. CASE ForwardFlush
    <2>1. /\ Head(apiControl) \in Request /\ Tail(apiControl) \in Seq(Request)
          /\ Append(control, Head(apiControl)) \in Seq(Request \cup {"Stop"})
          /\ <<>> \in Seq(Request)
      BY <1>1, ChannelType DEF ForwardFlush
    <2>2. control' \in Seq(Request \cup {"Stop"}) /\ apiControl' \in Seq(Request)
          /\ controlBridge' \in Request \cup {"recv", "exited"}
      BY <1>1, <2>1 DEF ForwardFlush
    <2>3. req' \in [Request -> ReqState]
      BY <1>1 DEF ForwardFlush, ReqState
    <2> QED
      BY <1>1, <2>2, <2>3 DEF ForwardFlush, bridgeOnly
  <1>2. CASE ReturnAck
    <2>1. apiControl' \in Seq(Request) /\ controlBridge' \in {"recv", "exited"}
      BY <1>2, ChannelType DEF ReturnAck
    <2>2. req' \in [Request -> ReqState]
      BY <1>2 DEF ReturnAck, Acknowledge, ReqState
    <2> QED
      BY <1>2, <2>1, <2>2 DEF ReturnAck, bridgeOnly
  <1>3. CASE ForwardQuery
    <2>1. Head(apiQuery) \in Request /\ Tail(apiQuery) \in Seq(Request)
          /\ Append(queries, Head(apiQuery)) \in Seq(Request) /\ <<>> \in Seq(Request)
      BY <1>3, ChannelType DEF ForwardQuery
    <2>2. queries' \in Seq(Request) /\ apiQuery' \in Seq(Request) /\ queryBridge' \in {"recv", "exited"}
      BY <1>3, <2>1 DEF ForwardQuery
    <2>3. req' \in [Request -> ReqState]
      BY <1>3 DEF ForwardQuery, Fail, ReqState
    <2> QED
      BY <1>3, <2>2, <2>3 DEF ForwardQuery, bridgeOnly
  <1>4. ASSUME NEW r \in Request, RequestFlush(r) PROVE ThreadsOK'
    <2>1. apiControl' \in Seq(Request)
      <3>1. Append(apiControl, r) \in Seq(Request)
        BY ChannelType
      <3> QED
        BY <1>4, <3>1 DEF RequestFlush
    <2>2. req' \in [Request -> ReqState] /\ asked' \in [Request -> 0..MaxSamples]
      BY <1>4 DEF RequestFlush, ReqState
    <2> QED
      BY <1>4, <2>1, <2>2 DEF RequestFlush, requestOnly
  <1>5. ASSUME NEW r \in Request, RequestQuery(r) PROVE ThreadsOK'
    <2>1. apiQuery' \in Seq(Request)
      <3>1. Append(apiQuery, r) \in Seq(Request)
        BY ChannelType
      <3> QED
        BY <1>5, <3>1 DEF RequestQuery
    <2>2. req' \in [Request -> ReqState]
      BY <1>5 DEF RequestQuery, ReqState
    <2> QED
      BY <1>5, <2>1, <2>2 DEF RequestQuery, requestOnly
  <1>6. ASSUME NEW r \in Request, GiveUp(r) \/ OwnerFlushed(r) PROVE ThreadsOK'
    BY <1>6 DEF GiveUp, OwnerFlushed, requestOnly, channels, ReqState
  <1>7. ASSUME NEW r \in Request, FlushByOwner(r) PROVE ThreadsOK'
    <2>1. control' \in Seq(Request \cup {"Stop"})
      <3>1. Append(control, r) \in Seq(Request \cup {"Stop"})
        BY ChannelType
      <3> QED
        BY <1>7, <3>1 DEF FlushByOwner
    <2>2. req' \in [Request -> ReqState] /\ asked' \in [Request -> 0..MaxSamples]
      BY <1>7 DEF FlushByOwner, ReqState
    <2> QED
      BY <1>7, <2>1, <2>2 DEF FlushByOwner, requestOnly
  <1>8. CASE Stop
    BY <1>8 DEF Stop
  <1>9. CASE Joined
    BY <1>9 DEF Joined, channels
  <1>10. CASE UNCHANGED vars
    BY <1>10 DEF vars
  <1> QED
    BY <1>1, <1>2, <1>3, <1>4, <1>5, <1>6, <1>7, <1>8, <1>9, <1>10 DEF Next

LEMMA TypeStep == TypeOK /\ Numbered /\ [Next]_vars => TypeOK' /\ Numbered'
  <1> SUFFICES ASSUME TypeOK, Numbered, [Next]_vars PROVE TypeOK' /\ Numbered'
    OBVIOUS
  <1>1. StoreOK' /\ Numbered' /\ Accounted'
    BY SampleStep DEF Numbered
  <1>2. ThreadsOK'
    BY <1>1, TrackerType, OthersType
  <1> QED
    BY <1>1, <1>2 DEF TypeOK, StoreOK, ThreadsOK

LEMMA TypeInit == Init => TypeOK /\ Numbered
  <1> SUFFICES ASSUME Init PROVE TypeOK /\ Numbered
    OBVIOUS
  <1> USE DEF Init
  <1>1. <<>> \in Seq(1..MaxSamples) /\ <<>> \in Seq(Request) /\ <<>> \in Seq(Request \cup {"Stop"})
        /\ Len(<<>>) = 0
    BY EmptySeq
  <1>2. StoreOK
    <2>1. 0 \in 0..MaxFaults /\ 0 \in 0..MaxSamples
      BY TrackerAssumption
    <2> QED
      BY <1>1, <2>1 DEF StoreOK
  <1>3. ThreadsOK
    BY <1>1, TrackerAssumption DEF ThreadsOK, ReqState
  <1>4. Numbered
    BY <1>1 DEF Numbered, Accounted
  <1> QED
    BY <1>2, <1>3, <1>4 DEF TypeOK, StoreOK, ThreadsOK

(* Every message, acknowledgement and answer has its type, for any number  *)
(* of requests, samples and faults.                                        *)
THEOREM TypeCorrect == Spec => []TypeOK
  BY TypeInit, TypeStep, PTL DEF Spec

(* Every sample is stored or buffered, once and in order, however many     *)
(* inserts failed.                                                         *)
THEOREM NoSampleLost == Spec => []SamplesAccounted
  <1>1. TypeOK /\ Numbered => SamplesAccounted
    <2> SUFFICES ASSUME TypeOK, Accounted PROVE SamplesAccounted
      BY DEF Numbered
    <2> DEFINE all == stored \o buf
    <2>1. /\ stored \in Seq(1..MaxSamples) /\ buf \in Seq(1..MaxSamples)
          /\ Len(stored) \in Nat /\ Len(buf) \in Nat
      BY DEF TypeOK
    <2>2. /\ all \in Seq(1..MaxSamples) /\ Len(all) = Len(stored) + Len(buf)
          /\ \A i \in 1..(Len(stored) + Len(buf)) :
                all[i] = IF i <= Len(stored) THEN stored[i] ELSE buf[i - Len(stored)]
      BY <2>1, ConcatProperties
    <2> HIDE DEF all
    <2>3. all \in [1..taken -> 1..MaxSamples]
      BY <2>2, LenProperties DEF Accounted
    <2>4. \A i \in 1..taken : all[i] = i
      <3>1. ASSUME NEW i \in 1..(Len(stored) + Len(buf)) PROVE all[i] = i
        <4>1. CASE i <= Len(stored)
          BY <2>1, <2>2, <4>1 DEF Accounted
        <4>2. CASE i > Len(stored)
          <5>1. all[i] = buf[i - Len(stored)] /\ i - Len(stored) \in 1..Len(buf)
            BY <2>1, <2>2, <4>2
          <5>2. buf[i - Len(stored)] = Len(stored) + (i - Len(stored))
            BY <5>1 DEF Accounted
          <5> QED
            BY <2>1, <5>1, <5>2
        <4> QED
          BY <2>1, <4>1, <4>2
      <3> QED
        BY <3>1 DEF Accounted
    <2>5. all = [i \in 1..taken |-> i]
      BY <2>3, <2>4
    <2> QED
      BY <2>5 DEF all, SamplesAccounted
  <1> QED
    BY <1>1, TypeInit, TypeStep, PTL DEF Spec

-----------------------------------------------------------------------------
(* Requests *)

(* A request is made once. *)
LEMMA RequestsStay ==
  ASSUME TypeOK, StoreOK', Accounted', [Next]_vars
  PROVE  \A r \in Request : req[r] # "idle" => req'[r] # "idle" /\ asked'[r] = asked[r]
  <1> USE DEF TypeOK
  <1>1. CASE OpenFails \/ DrainControl \/ InsertFullBatch \/ FlushAndAcknowledge \/ EndIteration
             \/ FinalFlush \/ \E ok \in BOOLEAN : FirstSample(ok) \/ Sample(ok)
    BY <1>1 DEF OpenFails, DrainControl, InsertFullBatch, FlushAndAcknowledge, EndIteration,
                FinalFlush, Fail, FirstSample, Sample, trackerOnly
  <1>2. CASE AnswerQuery
    <2>1. UNCHANGED asked
      BY <1>2 DEF AnswerQuery
    <2> QED
      BY <1>2, <2>1, AnswerOutcome
  <1>3. CASE ForwardFlush \/ ReturnAck \/ ForwardQuery
    BY <1>3 DEF ForwardFlush, ReturnAck, Acknowledge, ForwardQuery, Fail, bridgeOnly
  <1>4. ASSUME NEW r \in Request,
               RequestFlush(r) \/ RequestQuery(r) \/ GiveUp(r) \/ FlushByOwner(r) \/ OwnerFlushed(r)
        PROVE  \A q \in Request : req[q] # "idle" => req'[q] # "idle" /\ asked'[q] = asked[q]
    BY <1>4 DEF RequestFlush, RequestQuery, GiveUp, FlushByOwner, OwnerFlushed
  <1>5. CASE Stop \/ Joined \/ UNCHANGED vars
    BY <1>5 DEF Stop, Joined, vars
  <1> QED
    BY <1>1, <1>2, <1>3, <1>4, <1>5 DEF Next, Tracker

LEMMA MadeStep ==
  ASSUME TypeOK, TypeOK', StoreOK', Accounted', MadeInv, [Next]_vars
  PROVE  MadeInv'
  <1>1. Made \subseteq Made'
    BY RequestsStay DEF Made
  <1>2. /\ acks \subseteq Made' /\ {r \in Request : acked[r]} \subseteq Made'
        /\ control \in Seq(Made' \cup {"Stop"}) /\ apiControl \in Seq(Made')
        /\ controlBridge \in Made' \cup {"recv", "exited"}
    <2>1. Made \cup {"Stop"} \subseteq Made' \cup {"Stop"}
      BY <1>1
    <2> QED
      BY <1>1, <2>1, SeqMonotonic DEF MadeInv
  <1>3. <<>> \in Seq(Made' \cup {"Stop"}) /\ <<>> \in Seq(Made')
    BY EmptySeq
  <1>4. CASE UNCHANGED <<acks, acked, control, apiControl, controlBridge>>
    BY <1>2, <1>4 DEF MadeInv
  <1>5. CASE OpenFails \/ FinalFlush
    BY <1>2, <1>3, <1>5 DEF OpenFails, FinalFlush, MadeInv
  <1>6. CASE DrainControl
    <2>1. ToSet(control) \ {"Stop"} \subseteq Made'
      BY <1>2 DEF ToSet
    <2> QED
      BY <1>2, <1>3, <1>6, <2>1 DEF DrainControl, MadeInv
  <1>7. CASE FlushAndAcknowledge
    BY <1>2, <1>7 DEF FlushAndAcknowledge, channels, MadeInv
  <1>8. CASE ForwardFlush
    <2>1. Head(apiControl) \in Made' /\ Tail(apiControl) \in Seq(Made')
      BY <1>2, <1>8, ChannelType DEF ForwardFlush
    <2>2. Append(control, Head(apiControl)) \in Seq(Made' \cup {"Stop"})
      BY <1>2, <2>1, ChannelType
    <2>3. UNCHANGED <<acks, acked>>
      BY <1>8 DEF ForwardFlush, bridgeOnly
    <2>4. control' \in Seq(Made' \cup {"Stop"}) /\ apiControl' \in Seq(Made')
          /\ controlBridge' \in Made' \cup {"recv", "exited"}
      BY <1>2, <1>3, <1>8, <2>1, <2>2 DEF ForwardFlush
    <2> QED
      BY <1>2, <2>3, <2>4 DEF MadeInv
  <1>9. CASE ReturnAck
    <2>1. /\ UNCHANGED <<acks, acked, control>>
          /\ controlBridge' \in {"recv", "exited"} /\ apiControl' \in {apiControl, <<>>}
      BY <1>9 DEF ReturnAck, bridgeOnly
    <2> QED
      BY <1>2, <1>3, <2>1 DEF MadeInv
  <1>10. ASSUME NEW r \in Request, RequestFlush(r) PROVE MadeInv'
    <2>1. UNCHANGED <<acks, acked, control, controlBridge>>
      BY <1>10 DEF RequestFlush, requestOnly
    <2>2. r \in Made'
      BY <1>10 DEF RequestFlush, Made, TypeOK
    <2>3. Append(apiControl, r) \in Seq(Made')
      BY <1>2, <2>2, ChannelType
    <2>4. apiControl' \in Seq(Made')
      BY <1>2, <1>10, <2>3 DEF RequestFlush
    <2> QED
      BY <1>2, <2>1, <2>4 DEF MadeInv
  <1>11. ASSUME NEW r \in Request, FlushByOwner(r) PROVE MadeInv'
    <2>1. UNCHANGED <<acks, acked, apiControl, controlBridge>>
      BY <1>11 DEF FlushByOwner, requestOnly
    <2>2. r \in Made'
      BY <1>11 DEF FlushByOwner, Made, TypeOK
    <2>3. Append(control, r) \in Seq(Made' \cup {"Stop"})
      BY <1>2, <2>2, ChannelType
    <2>4. control' \in Seq(Made' \cup {"Stop"})
      BY <1>2, <1>11, <2>3 DEF FlushByOwner
    <2> QED
      BY <1>2, <2>1, <2>4 DEF MadeInv
  <1>12. CASE Stop
    <2>1. Append(control, "Stop") \in Seq(Made' \cup {"Stop"})
      BY <1>2, ChannelType
    <2>2. control' \in Seq(Made' \cup {"Stop"})
      BY <1>2, <1>12, <2>1 DEF Stop
    <2> QED
      BY <1>2, <1>12, <2>2 DEF Stop, MadeInv
  <1>13. CASE InsertFullBatch \/ AnswerQuery \/ EndIteration \/ ForwardQuery \/ Joined
              \/ UNCHANGED vars
    BY <1>4, <1>13 DEF InsertFullBatch, AnswerQuery, EndIteration, ForwardQuery, Joined, vars,
                       trackerOnly, bridgeOnly, channels
  <1>14. ASSUME NEW ok \in BOOLEAN, FirstSample(ok) \/ Sample(ok) PROVE MadeInv'
    BY <1>4, <1>14 DEF FirstSample, Sample, trackerOnly
  <1>15. ASSUME NEW r \in Request, RequestQuery(r) \/ GiveUp(r) \/ OwnerFlushed(r) PROVE MadeInv'
    BY <1>4, <1>15 DEF RequestQuery, GiveUp, OwnerFlushed, requestOnly, channels
  <1> QED
    BY <1>5, <1>6, <1>7, <1>8, <1>9, <1>10, <1>11, <1>12, <1>13, <1>14, <1>15 DEF Next, Tracker

-----------------------------------------------------------------------------
(* Acknowledgements *)

Answered == {"flushed", "asking", "empty", "retrying", "done", "returned"}

(* A request is answered for only once it was acknowledged or the tracker  *)
(* had ended.                                                              *)
LEMMA AnsweredFrom ==
  ASSUME TypeOK, StoreOK', Accounted', [Next]_vars
  PROVE  \A r \in Request : req'[r] \in Answered =>
            \/ req[r] \in Answered
            \/ req[r] # "idle" /\ (acked[r] \/ tracker = "exited") /\ UNCHANGED stored
  <1> USE DEF TypeOK, Answered
  <1>1. CASE OpenFails \/ DrainControl \/ InsertFullBatch \/ FlushAndAcknowledge \/ EndIteration
             \/ FinalFlush \/ \E ok \in BOOLEAN : FirstSample(ok) \/ Sample(ok)
    BY <1>1 DEF OpenFails, DrainControl, InsertFullBatch, FlushAndAcknowledge, EndIteration,
                FinalFlush, Fail, FirstSample, Sample, trackerOnly
  <1>2. CASE AnswerQuery
    BY <1>2, AnswerOutcome DEF Asking
  <1>3. CASE ForwardFlush \/ ReturnAck \/ ForwardQuery
    BY <1>3 DEF ForwardFlush, ReturnAck, Acknowledge, ForwardQuery, Fail, bridgeOnly, store
  <1>4. ASSUME NEW r \in Request,
               RequestFlush(r) \/ RequestQuery(r) \/ GiveUp(r) \/ FlushByOwner(r) \/ OwnerFlushed(r)
        PROVE  \A q \in Request : req'[q] \in Answered =>
                  \/ req[q] \in Answered
                  \/ req[q] # "idle" /\ (acked[q] \/ tracker = "exited") /\ UNCHANGED stored
    BY <1>4 DEF RequestFlush, RequestQuery, GiveUp, FlushByOwner, OwnerFlushed, requestOnly, store
  <1>5. CASE Stop \/ Joined \/ UNCHANGED vars
    BY <1>5 DEF Stop, Joined, vars
  <1> QED
    BY <1>1, <1>2, <1>3, <1>4, <1>5 DEF Next, Tracker

(* Without a fault a tracker that ends has stored everything.              *)
LEMMA ExitStores ==
  ASSUME TypeOK, Numbered, FlushInv, [Next]_vars, faults' = 0, tracker' = "exited"
  PROVE  buf' = <<>>
  <1>1. faults = 0 /\ ~aborted
    BY SampleStep DEF Grows, TypeOK, FlushInv
  <1>2. CASE FinalFlush
    <2>1. FlushBuffer /\ UNCHANGED taken
      BY <1>2 DEF FinalFlush
    <2> QED
      BY <1>1, <2>1, FlushOutcome, FlushKeeps DEF Numbered
  <1>3. CASE OpenFails
    BY <1>3 DEF OpenFails, Numbered, store
  <1>4. CASE tracker = "exited" /\ UNCHANGED buf
    BY <1>1, <1>4 DEF FlushInv
  <1>5. CASE Tracker /\ ~FinalFlush /\ ~OpenFails
    BY <1>5 DEF Tracker, FirstSample, Sample, DrainControl, InsertFullBatch, FlushAndAcknowledge,
                AnswerQuery, EndIteration
  <1>6. CASE ForwardFlush \/ ReturnAck \/ ForwardQuery
    <2>1. UNCHANGED bridgeOnly
      BY <1>6 DEF ForwardFlush, ReturnAck, ForwardQuery
    <2> QED
      BY <1>4, <2>1 DEF bridgeOnly, store
  <1>7. ASSUME NEW r \in Request,
               RequestFlush(r) \/ RequestQuery(r) \/ GiveUp(r) \/ FlushByOwner(r) \/ OwnerFlushed(r)
        PROVE  buf' = <<>>
    <2>1. UNCHANGED requestOnly
      BY <1>7 DEF RequestFlush, RequestQuery, GiveUp, FlushByOwner, OwnerFlushed
    <2> QED
      BY <1>4, <2>1 DEF requestOnly, store
  <1>8. CASE Stop \/ Joined \/ UNCHANGED vars
    BY <1>4, <1>8 DEF Stop, Joined, vars, store
  <1> QED
    BY <1>2, <1>3, <1>5, <1>6, <1>7, <1>8 DEF Next

LEMMA FlushStep ==
  ASSUME TypeOK, TypeOK', Numbered, Numbered', StoreOK', MadeInv, FlushInv, AckMeansStored,
         Grows, [Next]_vars
  PROVE  FlushInv' /\ AckMeansStored'
  <1>0. /\ faults \in Nat /\ taken \in Nat /\ taken' \in Nat /\ Accounted /\ Accounted'
        /\ Len(stored) \in Nat /\ Len(stored') \in Nat /\ Len(buf) \in Nat
    <2>1. MaxSamples \in Nat /\ MaxFaults \in Nat
      BY TrackerAssumption
    <2>2. faults \in Nat /\ taken \in Nat /\ Len(stored) \in Nat /\ Len(buf) \in Nat
      <3>1. StoreOK
        BY DEF TypeOK, StoreOK
      <3> QED
        BY <2>1, <3>1 DEF StoreOK
    <2>3. taken' \in Nat /\ Len(stored') \in Nat
      BY <2>1 DEF StoreOK
    <2> QED
      BY <2>2, <2>3 DEF Numbered
  <1>1. \A r \in Request : asked[r] \in Nat /\ asked'[r] \in Nat
    BY TrackerAssumption DEF TypeOK
  <1>2. \A r \in Request : req[r] # "idle" => asked'[r] = asked[r]
    BY <1>0, RequestsStay
  <1>3. \A r \in Request : asked'[r] \in {asked[r], taken}
    <2>1. CASE UNCHANGED asked
      BY <2>1
    <2>2. ASSUME NEW r \in Request, RequestFlush(r) \/ FlushByOwner(r)
          PROVE  \A q \in Request : asked'[q] \in {asked[q], taken}
      BY <2>2 DEF RequestFlush, FlushByOwner, TypeOK
    <2>3. CASE Tracker
      <3>1. UNCHANGED asked
        BY <2>3 DEF Tracker, OpenFails, FirstSample, Sample, DrainControl, InsertFullBatch,
                    FlushAndAcknowledge, AnswerQuery, EndIteration, FinalFlush, trackerOnly
      <3> QED
        BY <2>1, <3>1
    <2> QED
      BY <2>1, <2>2, <2>3 DEF Next, ForwardFlush, ReturnAck, ForwardQuery, RequestQuery, GiveUp,
         OwnerFlushed, Stop, Joined, vars, bridgeOnly
  <1>4. \A r \in Request : asked'[r] <= taken'
    BY <1>0, <1>1, <1>3 DEF FlushInv, Grows
  <1>5. SUFFICES ASSUME faults' = 0
                 PROVE  /\ ~aborted'
                        /\ tracker' = "exited" => buf' = <<>>
                        /\ \A r \in Request : acked'[r] => Len(stored') >= asked'[r]
                        /\ \A r \in Request : req'[r] \in Answered => Len(stored') >= asked'[r]
    BY <1>4 DEF FlushInv, AckMeansStored, Answered
  <1>6. faults = 0 /\ ~aborted /\ ~aborted'
    BY <1>0, <1>5 DEF Grows, FlushInv
  <1>7. tracker' = "exited" => buf' = <<>>
    BY <1>5, ExitStores
  <1>8. \A r \in Request : acked[r] => Len(stored') >= asked'[r]
    BY <1>0, <1>1, <1>2, <1>6 DEF FlushInv, MadeInv, Made, Grows
  <1>9. \A r \in Request : acked'[r] => Len(stored') >= asked'[r]
    <2>1. CASE FlushAndAcknowledge
      <3>1. ASSUME NEW r \in Request, r \in acks PROVE Len(stored') >= asked'[r]
        <4>1. FlushBuffer /\ UNCHANGED taken
          BY <2>1, <3>1 DEF FlushAndAcknowledge
        <4>2. buf' = <<>>
          BY <1>0, <1>5, <1>6, <4>1, FlushOutcome, FlushKeeps
        <4>3. Len(stored') = taken'
          BY <1>0, <4>2 DEF Accounted
        <4> QED
          BY <1>4, <4>3
      <3>2. \A r \in Request : acked'[r] => acked[r] \/ r \in acks
        BY <2>1 DEF FlushAndAcknowledge
      <3> QED
        BY <1>8, <3>1, <3>2
    <2>2. CASE UNCHANGED acked
      BY <1>8, <2>2
    <2>3. CASE Tracker /\ ~FlushAndAcknowledge
      <3>1. UNCHANGED acked
        BY <2>3 DEF Tracker, OpenFails, FirstSample, Sample, DrainControl, InsertFullBatch,
                    AnswerQuery, EndIteration, FinalFlush, trackerOnly
      <3> QED
        BY <2>2, <3>1
    <2> QED
      BY <2>1, <2>2, <2>3 DEF Next, ForwardFlush, ReturnAck, ForwardQuery, RequestFlush,
         RequestQuery, GiveUp, FlushByOwner, OwnerFlushed, Stop, Joined, vars, requestOnly
  <1>10. ASSUME NEW r \in Request, req'[r] \in Answered PROVE Len(stored') >= asked'[r]
    <2>1. CASE req[r] \in Answered
      <3>1. Len(stored) >= asked[r] /\ req[r] # "idle"
        BY <1>6, <2>1 DEF AckMeansStored, Answered
      <3> QED
        BY <1>0, <1>1, <1>2, <3>1 DEF Grows
    <2>2. CASE acked[r]
      BY <1>8, <2>2
    <2>3. CASE req[r] # "idle" /\ tracker = "exited" /\ UNCHANGED stored
      <3>1. Len(stored) = taken
        BY <1>0, <1>6, <2>3 DEF FlushInv, Accounted
      <3> QED
        BY <1>0, <1>1, <1>2, <2>3, <3>1 DEF FlushInv
    <2> QED
      BY <1>0, <1>10, <2>1, <2>2, <2>3, AnsweredFrom
  <1> QED
    BY <1>6, <1>7, <1>9, <1>10

-----------------------------------------------------------------------------
(* Answers *)

LEMMA ReplyFrom ==
  ASSUME TypeOK, StoreOK', Accounted', [Next]_vars
  PROVE  \A r \in Request : req'[r] = "done" =>
            \/ req[r] = "done" /\ reply'[r] = reply[r] /\ asked'[r] = asked[r]
            \/ reply'[r] = Answer(r, Len(stored'))
  <1>0. \A r \in Request : req[r] = "done" => asked'[r] = asked[r]
    BY RequestsStay
  <1> USE DEF TypeOK
  <1>1. CASE OpenFails \/ DrainControl \/ InsertFullBatch \/ FlushAndAcknowledge \/ EndIteration
             \/ FinalFlush \/ \E ok \in BOOLEAN : FirstSample(ok) \/ Sample(ok)
    BY <1>0, <1>1 DEF OpenFails, DrainControl, InsertFullBatch, FlushAndAcknowledge, EndIteration,
                FinalFlush, Fail, FirstSample, Sample, trackerOnly
  <1>2. CASE AnswerQuery
    BY <1>0, <1>2, AnswerOutcome DEF Asking
  <1>3. CASE ForwardFlush \/ ReturnAck \/ ForwardQuery
    BY <1>0, <1>3 DEF ForwardFlush, ReturnAck, Acknowledge, ForwardQuery, Fail, bridgeOnly
  <1>4. ASSUME NEW r \in Request,
               RequestFlush(r) \/ RequestQuery(r) \/ GiveUp(r) \/ FlushByOwner(r) \/ OwnerFlushed(r)
        PROVE  \A q \in Request : req'[q] = "done" => req[q] = "done" /\ reply'[q] = reply[q]
    BY <1>4 DEF RequestFlush, RequestQuery, GiveUp, FlushByOwner, OwnerFlushed, requestOnly
  <1>5. CASE Stop \/ Joined \/ UNCHANGED vars
    BY <1>0, <1>5 DEF Stop, Joined, vars
  <1> QED
    BY <1>0, <1>1, <1>2, <1>3, <1>4, <1>5 DEF Next, Tracker

LEMMA ReplyStep ==
  ASSUME TypeOK, TypeOK', StoreOK', Accounted', Grows, AckMeansStored', ReplyIsFresh, [Next]_vars
  PROVE  ReplyIsFresh'
  <1>0. /\ Len(stored') \in Nat /\ taken \in Nat /\ taken' \in Nat /\ Len(stored') <= taken'
        /\ faults \in Nat /\ faults' \in Nat
    <2>1. MaxSamples \in Nat /\ MaxFaults \in Nat
      BY TrackerAssumption
    <2>2. faults \in Nat /\ taken \in Nat
      BY <2>1 DEF TypeOK
    <2>3. faults' \in Nat /\ taken' \in Nat /\ Len(stored') \in Nat /\ Len(buf') \in Nat
      BY <2>1 DEF StoreOK
    <2> QED
      BY <2>2, <2>3 DEF Accounted
  <1> SUFFICES ASSUME NEW r \in Request, req'[r] = "done"
               PROVE  \E k \in 0..taken' :
                        (k >= asked'[r] \/ faults' > 0) /\ reply'[r] = Answer(r, k)
    BY DEF ReplyIsFresh, Answer
  <1>1. CASE req[r] = "done" /\ reply'[r] = reply[r] /\ asked'[r] = asked[r]
    <2>1. PICK k \in 0..taken : (k >= asked[r] \/ faults > 0) /\ reply[r] = Answer(r, k)
      BY <1>1 DEF ReplyIsFresh, Answer
    <2>2. k \in 0..taken' /\ (faults > 0 => faults' > 0)
      BY <1>0 DEF Grows
    <2> QED
      BY <1>1, <2>1, <2>2
  <1>2. CASE reply'[r] = Answer(r, Len(stored'))
    <2>1. Len(stored') \in 0..taken'
      BY <1>0
    <2>2. Len(stored') >= asked'[r] \/ faults' > 0
      BY <1>0 DEF AckMeansStored
    <2> QED
      BY <1>2, <2>1, <2>2
  <1> QED
    BY <1>1, <1>2, ReplyFrom

-----------------------------------------------------------------------------
LEMMA InvInit == Init => IInv
  <1> SUFFICES ASSUME Init PROVE IInv
    OBVIOUS
  <1>1. TypeOK /\ Numbered
    BY TypeInit
  <1>2. MadeInv
    BY EmptySeq DEF Init, MadeInv, Made
  <1>3. FlushInv /\ AckMeansStored /\ ReplyIsFresh
    BY DEF Init, FlushInv, AckMeansStored, ReplyIsFresh
  <1> QED
    BY <1>1, <1>2, <1>3 DEF IInv

LEMMA InvStep == IInv /\ [Next]_vars => IInv'
  <1> SUFFICES ASSUME IInv, [Next]_vars PROVE IInv'
    OBVIOUS
  <1> USE DEF IInv
  <1>1. TypeOK' /\ Numbered' /\ StoreOK' /\ Accounted' /\ Grows
    BY TypeStep, SampleStep DEF Numbered
  <1>2. MadeInv'
    BY <1>1, MadeStep
  <1>3. FlushInv' /\ AckMeansStored'
    BY <1>1, FlushStep
  <1>4. ReplyIsFresh'
    BY <1>1, <1>3, ReplyStep
  <1> QED
    BY <1>1, <1>2, <1>3, <1>4

(* An acknowledged flush has stored the samples taken before it was asked  *)
(* for, unless an insert failed: whatever the bridges, timeouts and the    *)
(* end of the tracker did in between.                                      *)
THEOREM AcksMeanStored == Spec => []AckMeansStored
  <1>1. IInv => AckMeansStored
    BY DEF IInv
  <1> QED
    BY <1>1, InvInit, InvStep, PTL DEF Spec

(* An answered request has the newest rows, none missing that were taken   *)
(* before it was made.                                                     *)
THEOREM RepliesAreFresh == Spec => []ReplyIsFresh
  <1>1. IInv => ReplyIsFresh
    BY DEF IInv
  <1> QED
    BY <1>1, InvInit, InvStep, PTL DEF Spec
=============================================================================
