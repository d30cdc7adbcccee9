--------------------------- MODULE SystemTracker ----------------------------
(***************************************************************************)
(* The system tracker (src/daemon/tracker/system.rs), its metrics store    *)
(* (crates/storage/src/system_metrics.rs) and the gRPC handler that reads  *)
(* from it (get_system_metrics in src/daemon/server/grpc.rs).              *)
(*                                                                         *)
(* Four kinds of threads: the tracker samples, buffers and stores; two     *)
(* bridges carry control and query messages from the API's channels to the *)
(* tracker's; requests flush, wait for the acknowledgement and query; the  *)
(* owner flushes and, at the end, stops the tracker and joins the others.  *)
(*                                                                         *)
(* Abstractions: samples are numbered in the order they are taken and      *)
(* stand for their measurements; a time range holds every sample; the API  *)
(* channels (32 and 64 messages) never fill with the requests modelled.    *)
(***************************************************************************)
EXTENDS Naturals, Sequences, SequencesExt, FiniteSets

CONSTANTS
  Request,      \* gRPC requests, or calls of SystemTracker::flush by the owner
  Backends,     \* the metrics stores considered: "duckdb", "sqlite"
  BatchSize,    \* tracker_batch_size
  Limit,        \* Limit[r]: the limit a request asks for; 0 asks for a time range
  MaxSamples,   \* bound: samples
  MaxFaults     \* bound: failed inserts and failed measurements

ASSUME TrackerAssumption ==
  /\ Request \cap {"Stop", "recv", "exited"} = {} /\ Backends \subseteq {"duckdb", "sqlite"}
  /\ BatchSize \in Nat \ {0} /\ Limit \in [Request -> Nat]
  /\ MaxSamples \in Nat /\ MaxFaults \in Nat

VARIABLES
  backend,    \* the configured store
  stored,     \* rows of system_metrics, in time order
  aborted,    \* DuckDB: a failed batch left its transaction open
  buf,        \* metrics_buffer
  taken,      \* samples taken so far; batch_count counts them
  tracker,    \* the tracker's place in its loop
  running,    \* its variable running
  acks,       \* pending_flush_acks, answered all at once
  control,    \* control channel: "Stop" or a flusher
  queries,    \* query channel: requests
  acked,      \* flush acknowledgements given to the bridge or the owner
  apiControl, apiQuery,       \* the channels of the API
  controlBridge, queryBridge, \* "recv", "exited" or the flusher waited for
  req,        \* a request's or flush's progress
  asked,      \* samples taken when it was made
  reply,      \* what a query returned
  stopper,    \* progress of SystemTracker::stop
  faults

store == <<backend, stored, aborted, buf, faults>>
channels == <<control, queries, apiControl, apiQuery>>
vars == <<backend, stored, aborted, buf, taken, tracker, running, acks, control, queries, acked,
          apiControl, apiQuery, controlBridge, queryBridge, req, asked, reply, stopper, faults>>

ReqState == {"idle", "flushing", "owner", "flushed", "asking", "empty", "retrying", "done", "returned", "failed"}

-----------------------------------------------------------------------------
(* The metrics store *)

Commit == stored' = stored \o buf /\ buf' = <<>> /\ UNCHANGED <<backend, aborted, faults>>
Fault == faults < MaxFaults /\ faults' = faults + 1 /\ UNCHANGED <<backend, stored, buf>>

(* BEGIN, one INSERT per row, COMMIT.  A failure after BEGIN leaves the    *)
(* transaction open, and then every later BEGIN fails.                     *)
InsertDuckDb ==
  \/ ~aborted /\ Commit
  \/ ~aborted /\ Fault /\ aborted' \in BOOLEAN
  \/ aborted /\ UNCHANGED store

(* The transaction is rolled back when it is dropped. *)
InsertSqlite == Commit \/ (Fault /\ UNCHANGED aborted)

\* mutation: the buffer is kept after a batch was stored
InsertBatchKeeps ==
  \/ ~aborted /\ stored' = stored \o buf /\ UNCHANGED <<backend, aborted, buf, faults>>
  \/ aborted /\ UNCHANGED store

(* insert_metrics_batch and the clearing of the buffer if it succeeded. *)
InsertBatch ==
  \/ backend = "duckdb" /\ InsertDuckDb
  \/ backend = "sqlite" /\ InsertSqlite

FlushBuffer == IF buf = <<>> THEN UNCHANGED store ELSE InsertBatch

Newest(n) == SubSeq(stored, Len(stored) - n + 1, Len(stored))

\* mutation: a query by limit keeps the oldest rows
ByLimitOldest(n) == SubSeq(stored, 1, IF n < Len(stored) THEN n ELSE Len(stored))

(* The rows come newest first, up to the limit, and are reversed. *)
ByLimit(n) == Newest(IF n < Len(stored) THEN n ELSE Len(stored))

(* The rows in time order. *)
ByRange == stored

Rows(r) == IF Limit[r] > 0 THEN ByLimit(Limit[r]) ELSE ByRange

-----------------------------------------------------------------------------
(* The tracker thread *)

Asking(r) == req[r] \in {"asking", "retrying"}
Fail(rs) == req' = [r \in Request |-> IF r \in rs /\ Asking(r) THEN "failed" ELSE req[r]]

trackerOnly == <<control, queries, acked, apiControl, apiQuery, controlBridge, queryBridge,
                 req, asked, reply, stopper>>

(* The store cannot be opened: the thread ends at once. *)
OpenFails ==
  /\ tracker = "first" /\ tracker' = "exited"
  /\ control' = <<>> /\ queries' = <<>>
  /\ req' = [r \in Request |-> IF (r \in ToSet(queries) /\ Asking(r)) \/ req[r] = "owner"
                               THEN "failed" ELSE req[r]]
  /\ UNCHANGED <<store, taken, running, acks, acked, apiControl, apiQuery, controlBridge,
                 queryBridge, asked, reply, stopper>>

(* The sample before the loop; a measurement may fail. *)
FirstSample(ok) ==
  /\ tracker = "first" /\ tracker' = "drain"
  /\ IF ok THEN taken < MaxSamples /\ taken' = taken + 1 /\ buf' = <<taken + 1>>
     ELSE UNCHANGED <<taken, buf>>
  /\ UNCHANGED <<backend, stored, aborted, faults, running, acks, trackerOnly>>

\* mutation: Stop is queued for an acknowledgement like a flush
DrainControlStop ==
  /\ tracker = "drain" /\ tracker' = "sample"
  /\ running' = (running /\ ~Contains(control, "Stop"))
  /\ acks' = acks \cup ToSet(control)
  /\ control' = <<>>
  /\ UNCHANGED <<store, taken, queries, acked, apiControl, apiQuery, controlBridge,
                 queryBridge, req, asked, reply, stopper>>

(* All control messages are read. *)
DrainControl ==
  /\ tracker = "drain" /\ tracker' = "sample"
  /\ running' = (running /\ ~Contains(control, "Stop"))
  /\ acks' = acks \cup (ToSet(control) \ {"Stop"})
  /\ control' = <<>>
  /\ UNCHANGED <<store, taken, queries, acked, apiControl, apiQuery, controlBridge,
                 queryBridge, req, asked, reply, stopper>>

Sample(ok) ==
  /\ tracker = "sample"
  /\ IF ok
     THEN /\ taken < MaxSamples /\ taken' = taken + 1
          /\ buf' = Append(buf, taken + 1)
          /\ tracker' = IF (taken + 1) % BatchSize = 0 THEN "batch" ELSE "flush"
     ELSE tracker' = "flush" /\ UNCHANGED <<taken, buf>>
  /\ UNCHANGED <<backend, stored, aborted, faults, running, acks, trackerOnly>>

InsertFullBatch ==
  /\ tracker = "batch" /\ tracker' = "flush"
  /\ InsertBatch
  /\ UNCHANGED <<taken, running, acks, trackerOnly>>

\* mutation: the acknowledgements are sent before the flush
AcknowledgeFirst ==
  /\ tracker = "flush" /\ tracker' = "queries"
  /\ acked' = [f \in Request |-> acked[f] \/ f \in acks]
  /\ acks' = {}
  /\ UNCHANGED <<store, taken, running, channels, controlBridge, queryBridge,
                 req, asked, reply, stopper>>

(* A flush request: the buffer is stored, then all are acknowledged,       *)
(* whether the insert succeeded or not.                                    *)
FlushAndAcknowledge ==
  /\ tracker = "flush" /\ tracker' = "queries"
  /\ IF acks = {} THEN UNCHANGED store ELSE FlushBuffer
  /\ acked' = [f \in Request |-> acked[f] \/ f \in acks]
  /\ acks' = {}
  /\ UNCHANGED <<taken, running, channels, controlBridge, queryBridge, req, asked, reply, stopper>>

(* A query flushes, then reads.  The answer to a request that has given up *)
(* is dropped.  A read in a transaction left open may fail.                *)
AnswerQuery ==
  /\ tracker = "queries" /\ queries # <<>>
  /\ FlushBuffer
  /\ \E r \in {Head(queries)} :
     \/ ~Asking(r) /\ UNCHANGED <<req, reply>>
     \/ aborted' /\ Fail({r}) /\ UNCHANGED reply
     \/ /\ Asking(r)
        /\ reply' = [reply EXCEPT ![r] = Rows(r)']
        /\ req' = [req EXCEPT ![r] = IF Rows(r)' = <<>> /\ @ = "asking" THEN "empty" ELSE "done"]
  /\ queries' = Tail(queries)
  /\ UNCHANGED <<taken, tracker, running, acks, control, acked, apiControl, apiQuery,
                 controlBridge, queryBridge, asked, stopper>>

\* mutation: the loop goes on after Stop
EndIterationStays ==
  /\ tracker = "queries" /\ queries = <<>> /\ tracker' = "drain"
  /\ UNCHANGED <<store, taken, running, acks, trackerOnly>>

EndIteration ==
  /\ tracker = "queries" /\ queries = <<>>
  /\ tracker' = IF running THEN "drain" ELSE "final"
  /\ UNCHANGED <<store, taken, running, acks, trackerOnly>>

(* The last flush; then the thread ends and its receivers are dropped,     *)
(* with the messages still in them.                                        *)
FinalFlush ==
  /\ tracker = "final" /\ tracker' = "exited"
  /\ FlushBuffer
  /\ Fail(ToSet(queries))
  /\ control' = <<>> /\ queries' = <<>>
  /\ UNCHANGED <<taken, running, acks, acked, apiControl, apiQuery, controlBridge, queryBridge,
                 asked, reply, stopper>>

Tracker ==
  \/ OpenFails
  \/ \E ok \in BOOLEAN : FirstSample(ok) \/ Sample(ok)
  \/ DrainControl \/ InsertFullBatch \/ FlushAndAcknowledge
  \/ AnswerQuery \/ EndIteration \/ FinalFlush

-----------------------------------------------------------------------------
(* The bridges *)

Acknowledge(f) == req' = [req EXCEPT ![f] = IF @ = "flushing" THEN "flushed" ELSE @]

bridgeOnly == <<store, taken, tracker, running, acks, asked, reply, stopper>>

(* A flush is passed on; if the tracker is gone it is acknowledged anyway  *)
(* and the bridge ends, dropping what waits behind it.                     *)
ForwardFlush ==
  /\ controlBridge = "recv" /\ apiControl # <<>>
  /\ LET r == Head(apiControl) IN
     IF tracker # "exited"
     THEN /\ control' = Append(control, r) /\ controlBridge' = r
          /\ apiControl' = Tail(apiControl) /\ UNCHANGED req
     ELSE /\ controlBridge' = "exited" /\ apiControl' = <<>>
          /\ req' = [f \in Request |->
                       IF req[f] = "flushing" /\ f \in ToSet(apiControl)
                       THEN (IF f = r THEN "flushed" ELSE "failed") ELSE req[f]]
          /\ UNCHANGED control
  /\ UNCHANGED <<queries, apiQuery, acked, queryBridge, bridgeOnly>>

\* mutation: the bridge waits for the tracker's own acknowledgement
ReturnAckOnly ==
  /\ controlBridge \in Request /\ acked[controlBridge]
  /\ controlBridge' = "recv" /\ Acknowledge(controlBridge)
  /\ UNCHANGED <<apiControl, control, queries, apiQuery, acked, queryBridge, bridgeOnly>>

(* The tracker has acknowledged, or has ended and dropped the message. *)
ReturnAck ==
  /\ controlBridge \in Request
  /\ LET r == controlBridge IN
     \/ acked[r] /\ controlBridge' = "recv" /\ Acknowledge(r) /\ UNCHANGED apiControl
     \/ /\ ~acked[r] /\ tracker = "exited" /\ controlBridge' = "exited"
        /\ apiControl' = <<>>
        /\ req' = [f \in Request |->
                     IF req[f] # "flushing" THEN req[f]
                     ELSE IF f = r THEN "flushed"
                     ELSE IF f \in ToSet(apiControl) THEN "failed" ELSE "flushing"]
  /\ UNCHANGED <<control, queries, apiQuery, acked, queryBridge, bridgeOnly>>

(* "tracker offline" once the tracker is gone. *)
ForwardQuery ==
  /\ queryBridge = "recv" /\ apiQuery # <<>>
  /\ IF tracker # "exited"
     THEN /\ queries' = Append(queries, Head(apiQuery)) /\ apiQuery' = Tail(apiQuery)
          /\ UNCHANGED <<queryBridge, req>>
     ELSE /\ queryBridge' = "exited" /\ apiQuery' = <<>> /\ Fail(ToSet(apiQuery))
          /\ UNCHANGED queries
  /\ UNCHANGED <<control, apiControl, acked, controlBridge, bridgeOnly>>

-----------------------------------------------------------------------------
(* Requests, the owner's flush and stop *)

requestOnly == <<store, taken, tracker, running, acks, acked, controlBridge, queryBridge, reply, stopper>>

RequestFlush(r) ==
  /\ req[r] = "idle"
  /\ asked' = [asked EXCEPT ![r] = taken]
  /\ IF controlBridge # "exited"
     THEN req' = [req EXCEPT ![r] = "flushing"] /\ apiControl' = Append(apiControl, r)
     ELSE req' = [req EXCEPT ![r] = "failed"] /\ UNCHANGED apiControl
  /\ UNCHANGED <<control, queries, apiQuery, requestOnly>>

(* The query that follows the acknowledgement, or its one retry. *)
RequestQuery(r) ==
  /\ req[r] \in {"flushed", "empty"}
  /\ IF queryBridge # "exited"
     THEN /\ req' = [req EXCEPT ![r] = IF @ = "flushed" THEN "asking" ELSE "retrying"]
          /\ apiQuery' = Append(apiQuery, r)
     ELSE req' = [req EXCEPT ![r] = "failed"] /\ UNCHANGED apiQuery
  /\ UNCHANGED <<control, queries, apiControl, asked, requestOnly>>

(* 2000, 1500 or 1200 ms have passed without an answer. *)
GiveUp(r) ==
  /\ req[r] \in {"flushing", "owner", "asking", "retrying"}
  /\ req' = [req EXCEPT ![r] = "failed"]
  /\ UNCHANGED <<channels, asked, requestOnly>>

(* SystemTracker::flush goes to the tracker directly. *)
FlushByOwner(r) ==
  /\ req[r] = "idle" /\ stopper = "no" /\ \A f \in Request : req[f] # "owner"
  /\ asked' = [asked EXCEPT ![r] = taken]
  /\ IF tracker # "exited"
     THEN req' = [req EXCEPT ![r] = "owner"] /\ control' = Append(control, r)
     ELSE req' = [req EXCEPT ![r] = "failed"] /\ UNCHANGED control
  /\ UNCHANGED <<queries, apiControl, apiQuery, requestOnly>>

OwnerFlushed(r) ==
  /\ req[r] = "owner" /\ acked[r]
  /\ req' = [req EXCEPT ![r] = "returned"]
  /\ UNCHANGED <<channels, asked, requestOnly>>

(* stop sends Stop and joins the tracker, then the bridges. *)
Stop ==
  /\ stopper = "no" /\ \A f \in Request : req[f] # "owner"
  /\ stopper' = "tracker"
  /\ control' = IF tracker # "exited" THEN Append(control, "Stop") ELSE control
  /\ UNCHANGED <<store, taken, tracker, running, acks, queries, acked, apiControl, apiQuery,
                 controlBridge, queryBridge, req, asked, reply>>

Joined ==
  /\ \/ stopper = "tracker" /\ tracker = "exited" /\ stopper' = "control"
     \/ stopper = "control" /\ controlBridge = "exited" /\ stopper' = "query"
     \/ stopper = "query" /\ queryBridge = "exited" /\ stopper' = "returned"
  /\ UNCHANGED <<store, taken, tracker, running, acks, channels, acked, controlBridge,
                 queryBridge, req, asked, reply>>

-----------------------------------------------------------------------------
Init ==
  /\ backend \in Backends
  /\ stored = <<>> /\ aborted = FALSE /\ buf = <<>> /\ taken = 0 /\ faults = 0
  /\ tracker = "first" /\ running = TRUE /\ acks = {}
  /\ control = <<>> /\ queries = <<>> /\ apiControl = <<>> /\ apiQuery = <<>>
  /\ acked = [f \in Request |-> FALSE]
  /\ controlBridge = "recv" /\ queryBridge = "recv"
  /\ req = [f \in Request |-> "idle"] /\ asked = [f \in Request |-> 0]
  /\ reply = [r \in Request |-> <<>>]
  /\ stopper = "no"

Next ==
  \/ Tracker \/ ForwardFlush \/ ReturnAck \/ ForwardQuery
  \/ \E r \in Request : \/ RequestFlush(r) \/ RequestQuery(r) \/ GiveUp(r)
                        \/ FlushByOwner(r) \/ OwnerFlushed(r)
  \/ Stop \/ Joined

Spec == Init /\ [][Next]_vars

(* The threads are scheduled and a request that got its acknowledgement    *)
(* goes on; no timeout, request, flush or stop is ever forced.             *)
Fairness ==
  /\ WF_vars(Tracker) /\ WF_vars(ForwardFlush) /\ WF_vars(ReturnAck) /\ WF_vars(ForwardQuery)
  /\ \A r \in Request : WF_vars(RequestQuery(r)) /\ WF_vars(OwnerFlushed(r))
  /\ WF_vars(Joined)

FairSpec == Spec /\ Fairness

-----------------------------------------------------------------------------
(* Properties *)

TypeOK ==
  /\ backend \in Backends
  /\ stored \in Seq(1..MaxSamples) /\ buf \in Seq(1..MaxSamples)
  /\ taken \in 0..MaxSamples /\ faults \in 0..MaxFaults
  /\ aborted \in BOOLEAN /\ running \in BOOLEAN
  /\ tracker \in {"first", "drain", "sample", "batch", "flush", "queries", "final", "exited"}
  /\ acks \subseteq Request /\ control \in Seq(Request \cup {"Stop"})
  /\ queries \in Seq(Request) /\ apiControl \in Seq(Request) /\ apiQuery \in Seq(Request)
  /\ acked \in [Request -> BOOLEAN] /\ req \in [Request -> ReqState]
  /\ controlBridge \in Request \cup {"recv", "exited"} /\ queryBridge \in {"recv", "exited"}
  /\ asked \in [Request -> 0..MaxSamples]
  /\ reply \in [Request -> Seq(1..MaxSamples)]
  /\ stopper \in {"no", "tracker", "control", "query", "returned"}

(* Every sample is stored or still buffered, once and in order, also after *)
(* inserts that failed: a failed batch is kept whole and tried again.      *)
SamplesAccounted == stored \o buf = [i \in 1..taken |-> i]

(* An acknowledged flush covers the samples taken before it was asked for, *)
(* whichever way the acknowledgement came (from the tracker, or because    *)
(* the tracker ended), unless an insert failed: then it is acknowledged    *)
(* all the same.                                                           *)
AckMeansStored ==
  \A f \in Request :
    req[f] \in {"flushed", "asking", "empty", "retrying", "done", "returned"} /\ faults = 0
      => Len(stored) >= asked[f]

(* An answered request has the newest rows in time order, none of those    *)
(* taken before the request missing.                                       *)
ReplyIsFresh ==
  \A r \in Request : req[r] = "done" =>
    \E k \in 0..taken :
      /\ k >= asked[r] \/ faults > 0
      /\ reply[r] = IF Limit[r] \in 1..k THEN [i \in 1..Limit[r] |-> k - Limit[r] + i]
                    ELSE [i \in 1..k |-> i]

(* No request waits for ever, even if its own timeouts never fired: stop,  *)
(* the end of the tracker and the bridges leave nobody behind.             *)
RequestsAnswered ==
  \A r \in Request : req[r] # "idle" ~> req[r] \in {"done", "returned", "failed"}

(* A stop ends the tracker and stores what is buffered.  It then waits for *)
(* the bridges, and these wait for requests: the API keeps their senders   *)
(* for good, so stop returns only after further requests woke them.        *)
StopEnds ==
  stopper # "no" ~>
    \/ stopper = "returned"
    \/ stopper = "control" /\ controlBridge = "recv" /\ apiControl = <<>>
    \/ stopper = "query" /\ queryBridge = "recv" /\ apiQuery = <<>>
=============================================================================
