--------------------------- MODULE StorageWriter ----------------------------
(***************************************************************************)
(* A storage backend (crates/storage/src/duckdb.rs and sqlite3.rs): the    *)
(* thread that owns it sends commands to a background writer, which        *)
(* executes them in one long transaction and commits every CommitEvery     *)
(* commands.  Both sides maintain a backlog counter and publish it         *)
(* (lib.rs); the owner counts a command only after it has sent it.         *)
(*                                                                         *)
(* A command is its number: the channel is first in, first out, so the     *)
(* n-th command received is the n-th one sent.  A failing database is      *)
(* modelled by a bounded number of faults.                                 *)
(***************************************************************************)
EXTENDS Integers, Sequences

CONSTANTS
    Backends,     \* which of the two backends may be configured
    CommitEvery,  \* commands per transaction (100 in the code)
    Modulus,      \* of the backlog counter (2^64 in the code)
    MaxCommands,  \* bound: commands sent
    MaxFaults     \* bound: faults of the database

ASSUME StorageAssumption ==
    /\ Backends \subseteq {"duckdb", "sqlite"}
    /\ CommitEvery \in Nat \ {0}
    /\ Modulus \in Nat \ {0}
    /\ MaxCommands \in Nat
    /\ MaxFaults \in Nat

VARIABLES
    backend,    \* the configured backend
    pc,         \* where the owner and the writer are
    resume,     \* where the writer goes on after publish_metrics
    queue,      \* the channel to the writer
    sent,       \* how many commands were sent
    count,      \* the writer's count of commands received
    txn,        \* the writer's transaction
    durable,    \* the commands that were committed
    health,     \* the commands at which the writer reported an error
    ignored,    \* the commands whose failure the writer did not look at
    faults,     \* how often the database failed
    backlog,    \* STORAGE_BACKLOG
    lastFlush,  \* LAST_FLUSH_AT_EPOCH
    snapshot,   \* what each thread has read of the two for publishing
    published   \* the value of the metrics channel

vars == <<backend, pc, resume, queue, sent, count, txn, durable, health,
          ignored, faults, backlog, lastFlush, snapshot, published>>

dbVars == <<count, txn, durable, health, ignored, faults>>

metricsVars == <<backlog, lastFlush, snapshot, published>>

-----------------------------------------------------------------------------
(* Values *)

Threads == {"owner", "writer"}

\* RawEvent stands also for Record and Envelope, which are written alike
Command == {"RawEvent", "CompactEvents", "Transition"}

Message == Command \union {"Shutdown"}

\* "none": no transaction is open, each statement commits by itself
Transaction == [status : {"open", "aborted", "none"}, rows : SUBSET Nat]

Fresh == [status |-> "open", rows |-> {}]

NoTransaction == [status |-> "none", rows |-> {}]

\* the flush time is represented by the number of commands received by then
StorageMetrics == [backlog_count : 0 .. (Modulus - 1), last_flush_at : Nat]

\* What a database operation did: the transaction after it, what it made
\* durable, what it returned, and how many faults it took
Outcome(t, kept, result, fault) ==
    [txn |-> t, kept |-> kept, result |-> result, fault |-> fault]

-----------------------------------------------------------------------------
(* The databases.  A failing statement aborts a DuckDB transaction, and     *)
(* nothing but ROLLBACK works in it from then on.  SQLite keeps the         *)
(* transaction without the statement, or rolls all of it back.              *)

AutoCommitted(id) ==
    { Outcome(NoTransaction, {id}, "ok", 0),
      Outcome(NoTransaction, {}, "err", 1) }

Inserted(t, id) ==
    Outcome([t EXCEPT !.rows = @ \union {id}], {}, "ok", 0)

DuckDBStatement(t, id) ==
    CASE t.status = "open"    -> { Inserted(t, id),
                                   Outcome([status |-> "aborted", rows |-> {}],
                                           {}, "err", 1) }
      [] t.status = "aborted" -> { Outcome(t, {}, "err", 0) }
      [] t.status = "none"    -> AutoCommitted(id)

SQLiteStatement(t, id) ==
    CASE t.status = "open" -> { Inserted(t, id),
                                Outcome(t, {}, "err", 1),
                                Outcome(NoTransaction, {}, "err", 1) }
      [] OTHER             -> AutoCommitted(id)

\* COMMIT.  Of an aborted transaction DuckDB may make a ROLLBACK or an error.
DuckDBCommit(t) ==
    CASE t.status = "open"    -> { Outcome(NoTransaction, t.rows, "ok", 0),
                                   Outcome(NoTransaction, {}, "err", 1) }
      [] t.status = "aborted" -> { Outcome(NoTransaction, {}, "ok", 0),
                                   Outcome(NoTransaction, {}, "err", 0),
                                   Outcome(t, {}, "err", 0) }
      [] t.status = "none"    -> { Outcome(t, {}, "err", 0) }

SQLiteCommit(t) ==
    CASE t.status = "open" -> { Outcome(NoTransaction, t.rows, "ok", 0),
                                Outcome(NoTransaction, {}, "err", 1) }
      [] OTHER             -> { Outcome(t, {}, "err", 0) }

-----------------------------------------------------------------------------
(* lib.rs: the metrics *)

Goto(t, l) == pc' = [pc EXCEPT ![t] = l]

\* mutation: the counter is signed.
AddSigned(x, d) == x + d

\* mutation: the counter saturates at zero.
AddSaturating(x, d) == IF x + d < 0 THEN 0 ELSE (x + d) % Modulus

\* fetch_add and fetch_sub are atomic and wrap
Add(x, d) == (x + d) % Modulus

\* storage_metrics_snapshot reads the one, then the other, and publish_metrics
\* sends what it has read: three steps that interleave with the other thread
LoadFlush(t) ==
    /\ pc[t] = "loadFlush"
    /\ snapshot' = [snapshot EXCEPT ![t].last_flush_at = lastFlush]
    /\ Goto(t, "loadBacklog")
    /\ UNCHANGED <<backend, resume, queue, sent, dbVars, backlog, lastFlush,
                   published>>

LoadBacklog(t) ==
    /\ pc[t] = "loadBacklog"
    /\ snapshot' = [snapshot EXCEPT ![t].backlog_count = backlog]
    /\ Goto(t, "publish")
    /\ UNCHANGED <<backend, resume, queue, sent, dbVars, backlog, lastFlush,
                   published>>

Publish(t) ==
    /\ pc[t] = "publish"
    /\ published' = snapshot[t]
    /\ Goto(t, IF t = "owner" THEN "idle" ELSE resume)
    /\ UNCHANGED <<backend, resume, queue, sent, dbVars, backlog, lastFlush,
                   snapshot>>

-----------------------------------------------------------------------------
(* The owner *)

Alive == pc["writer"] \notin {"panicked", "done"}

\* add_events and the like, for one element.  If the writer is gone the send
\* fails, the call returns an error and nothing has changed.
Send(cmd) ==
    /\ pc["owner"] = "idle" /\ Alive
    /\ sent < MaxCommands
    /\ queue' = Append(queue, cmd)
    /\ sent' = sent + 1
    /\ Goto("owner", "count")
    /\ UNCHANGED <<backend, resume, dbVars, metricsVars>>

IncBacklog ==
    /\ pc["owner"] = "count"
    /\ backlog' = Add(backlog, 1)
    /\ Goto("owner", "loadFlush")
    /\ UNCHANGED <<backend, resume, queue, sent, dbVars, lastFlush, snapshot,
                   published>>

\* mutation: the writer is not joined.
CloseDetached ==
    /\ pc["owner"] = "idle"
    /\ queue' = IF Alive THEN Append(queue, "Shutdown") ELSE queue
    /\ Goto("owner", "closed")
    /\ UNCHANGED <<backend, resume, sent, dbVars, metricsVars>>

\* mutation: the writer is joined and not told to stop.
CloseSilent ==
    /\ pc["owner"] = "idle"
    /\ Goto("owner", "joining")
    /\ UNCHANGED <<backend, resume, queue, sent, dbVars, metricsVars>>

\* Drop: send Shutdown, whether or not anybody listens, and join the writer
Close ==
    /\ pc["owner"] = "idle"
    /\ queue' = IF Alive THEN Append(queue, "Shutdown") ELSE queue
    /\ Goto("owner", "joining")
    /\ UNCHANGED <<backend, resume, sent, dbVars, metricsVars>>

Join ==
    /\ pc["owner"] = "joining" /\ ~Alive
    /\ Goto("owner", "closed")
    /\ UNCHANGED <<backend, resume, queue, sent, dbVars, metricsVars>>

-----------------------------------------------------------------------------
(* The writer *)

\* The thread panics: the connection and the receiver are dropped with it
Panics ==
    /\ Goto("writer", "panicked")
    /\ queue' = <<>>
    /\ txn' = NoTransaction
    /\ UNCHANGED <<backend, resume, sent, count, durable, health, ignored,
                   metricsVars>>

BeginPanics ==
    /\ pc["writer"] \in {"opening", "begin"}
    /\ faults < MaxFaults
    /\ faults' = faults + 1
    /\ Panics

\* open the connection and the first transaction, or sqlite3.rs's next one
Begin ==
    /\ pc["writer"] \in {"opening", "begin"}
    /\ txn' = Fresh
    /\ Goto("writer", IF pc["writer"] = "opening" THEN "recv" ELSE "dec")
    /\ UNCHANGED <<backend, resume, queue, sent, count, durable, health,
                   ignored, faults, metricsVars>>

\* prepare is followed by expect; it may be refused in an aborted transaction
DuckDbInsert(t, id) ==
    DuckDBStatement(t, id) \union
    { Outcome(NoTransaction, {}, "panic", IF t.status = "aborted" THEN 0 ELSE 1) }

\* the results of these statements are not looked at
DuckDbCompact(t, id) ==
    { [o EXCEPT !.result = IF @ = "err" THEN "ignored" ELSE @] :
        o \in DuckDBStatement(t, id) }

DuckDbExecute(cmd, t, id) ==
    CASE cmd = "RawEvent"      -> DuckDbInsert(t, id)
      [] cmd = "CompactEvents" -> DuckDbCompact(t, id)
      [] cmd = "Transition"    -> DuckDBStatement(t, id)

SqliteExecute(cmd, t, id) == SQLiteStatement(t, id)

Execution(cmd, t, id) ==
    IF backend = "duckdb" THEN DuckDbExecute(cmd, t, id)
                          ELSE SqliteExecute(cmd, t, id)

\* ROLLBACK; BEGIN TRANSACTION: without a transaction ROLLBACK is an error and
\* BEGIN is not reached
DuckDbRollback(t) == IF t.status = "none" THEN t ELSE Fresh

AfterStatement(o) ==
    IF o.result = "err" /\ backend = "duckdb" THEN DuckDbRollback(o.txn) ELSE o.txn

\* push_health: the report is made while command id is the last one received
Reported(o, id) == IF o.result = "err" THEN health \union {id} ELSE health

\* mutation: one command too late.
CommitDueLate(n) == n % (CommitEvery + 1) = 0

CommitDue(n) == n % CommitEvery = 0

Execute ==
    /\ pc["writer"] = "recv" /\ queue # <<>> /\ Head(queue) # "Shutdown"
    /\ \E o \in Execution(Head(queue), txn, count + 1) :
          /\ o.result # "panic"
          /\ faults + o.fault <= MaxFaults
          /\ faults' = faults + o.fault
          /\ durable' = durable \union o.kept
          /\ txn' = AfterStatement(o)
          /\ health' = Reported(o, count + 1)
          /\ ignored' = IF o.result = "ignored" THEN ignored \union {count + 1}
                                               ELSE ignored
    /\ queue' = Tail(queue)
    /\ count' = count + 1
    /\ Goto("writer", IF CommitDue(count + 1) THEN "commit" ELSE "dec")
    /\ UNCHANGED <<backend, resume, sent, metricsVars>>

ExecutePanics ==
    /\ pc["writer"] = "recv" /\ queue # <<>> /\ Head(queue) # "Shutdown"
    /\ \E o \in Execution(Head(queue), txn, count + 1) :
          /\ o.result = "panic"
          /\ faults + o.fault <= MaxFaults
          /\ faults' = faults + o.fault
    /\ Panics

ReceiveShutdown ==
    /\ pc["writer"] = "recv" /\ queue # <<>> /\ Head(queue) = "Shutdown"
    /\ queue' = Tail(queue)
    /\ Goto("writer", "finish")
    /\ UNCHANGED <<backend, resume, sent, dbVars, metricsVars>>

Committed ==
    IF backend = "duckdb" THEN DuckDBCommit(txn) ELSE SQLiteCommit(txn)

\* duckdb.rs runs COMMIT and BEGIN as one batch that stops at the first error
AfterCommit(o) ==
    IF backend = "duckdb" /\ o.result = "ok" THEN Fresh ELSE o.txn

\* mutation: a failed commit is only logged.
CommitWithUnreported(o) ==
    /\ faults + o.fault <= MaxFaults
    /\ faults' = faults + o.fault
    /\ durable' = durable \union o.kept
    /\ Goto("writer", "flush")
    /\ UNCHANGED <<backend, queue, sent, count, health, ignored, metricsVars>>

CommitWith(o) ==
    /\ faults + o.fault <= MaxFaults
    /\ faults' = faults + o.fault
    /\ durable' = durable \union o.kept
    /\ health' = Reported(o, count)
    /\ Goto("writer", "flush")
    /\ UNCHANGED <<backend, queue, sent, count, ignored, metricsVars>>

CommitBatch ==
    /\ pc["writer"] = "commit"
    /\ \E o \in Committed : CommitWith(o) /\ txn' = AfterCommit(o)
    /\ resume' = IF backend = "duckdb" THEN "dec" ELSE "begin"

\* mutation: the flush after it is not published.
FinalCommitUnpublished ==
    /\ pc["writer"] = "finish"
    /\ \E o \in Committed :
          /\ faults + o.fault <= MaxFaults
          /\ faults' = faults + o.fault
          /\ durable' = durable \union o.kept
          /\ health' = Reported(o, count)
          /\ txn' = o.txn
    /\ Goto("writer", "done")
    /\ UNCHANGED <<backend, resume, queue, sent, count, ignored, metricsVars>>

FinalCommit ==
    /\ pc["writer"] = "finish"
    /\ \E o \in Committed : CommitWith(o) /\ txn' = o.txn
    /\ resume' = "done"

SetLastFlush ==
    /\ pc["writer"] = "flush"
    /\ lastFlush' = count
    /\ Goto("writer", "loadFlush")
    /\ UNCHANGED <<backend, resume, queue, sent, dbVars, backlog, snapshot,
                   published>>

DecBacklog ==
    /\ pc["writer"] = "dec"
    /\ backlog' = Add(backlog, -1)
    /\ resume' = "recv"
    /\ Goto("writer", "loadFlush")
    /\ UNCHANGED <<backend, queue, sent, dbVars, lastFlush, snapshot, published>>

-----------------------------------------------------------------------------
(* The specification *)

NoMetrics == [backlog_count |-> 0, last_flush_at |-> 0]

Init ==
    /\ backend \in Backends
    /\ pc = [t \in Threads |-> IF t = "owner" THEN "idle" ELSE "opening"]
    /\ resume = "recv"
    /\ queue = <<>>
    /\ sent = 0
    /\ count = 0
    /\ txn = NoTransaction
    /\ durable = {}
    /\ health = {}
    /\ ignored = {}
    /\ faults = 0
    /\ backlog = 0
    /\ lastFlush = 0
    /\ snapshot = [t \in Threads |-> NoMetrics]
    /\ published = NoMetrics

PublishMetrics(t) == LoadFlush(t) \/ LoadBacklog(t) \/ Publish(t)

OwnerStep == IncBacklog \/ Join \/ PublishMetrics("owner")

WriterStep ==
    \/ Begin
    \/ Execute
    \/ ReceiveShutdown
    \/ CommitBatch
    \/ FinalCommit
    \/ SetLastFlush
    \/ DecBacklog
    \/ PublishMetrics("writer")

Next ==
    \/ \E cmd \in Command : Send(cmd)
    \/ Close
    \/ OwnerStep
    \/ WriterStep
    \/ BeginPanics
    \/ ExecutePanics

Spec == Init /\ [][Next]_vars

\* Both threads are scheduled; the owner need not send or close anything, and
\* the database need not fail.
FairSpec == Spec /\ WF_vars(OwnerStep) /\ WF_vars(WriterStep)

-----------------------------------------------------------------------------
(* Properties *)

Owner == {"idle", "count", "loadFlush", "loadBacklog", "publish", "joining",
          "closed"}

Writer == {"opening", "recv", "commit", "flush", "begin", "dec", "loadFlush",
           "loadBacklog", "publish", "finish", "panicked", "done"}

TypeOK ==
    /\ backend \in Backends
    /\ pc \in [Threads -> Owner \union Writer]
    /\ pc["owner"] \in Owner
    /\ pc["writer"] \in Writer
    /\ resume \in {"recv", "begin", "dec", "done"}
    /\ queue \in Seq(Message)
    /\ sent \in 0 .. MaxCommands
    /\ count \in 0 .. sent
    /\ txn \in Transaction
    /\ txn.rows \subseteq 1 .. count
    /\ durable \subseteq 1 .. count
    /\ health \subseteq 0 .. count
    /\ ignored \subseteq 1 .. count
    /\ faults \in 0 .. MaxFaults
    /\ backlog \in 0 .. (Modulus - 1)
    /\ lastFlush \in 0 .. count
    /\ snapshot \in [Threads -> StorageMetrics]
    /\ published \in StorageMetrics

\* where the writer is, or where it goes on once the metrics are published
At == IF pc["writer"] \in {"flush", "loadFlush", "loadBacklog", "publish"}
        THEN resume ELSE pc["writer"]

\* the writer has received a command and not yet counted it down
Busy == At \in {"commit", "begin", "dec"}

\* Although the owner counts a command only after the writer may already have
\* counted it down, no count is ever lost: as long as the writer lives the
\* counter is the number of commands under way, and wraps below zero only
\* while the owner is about to count one.
BacklogAccounts ==
    Alive => backlog = ((sent - count) + (IF Busy THEN 1 ELSE 0)
                        - (IF pc["owner"] = "count" THEN 1 ELSE 0)) % Modulus

\* Each of the two threads may overwrite newer metrics with older ones, but
\* once the backend is closed the published metrics are the final ones, with
\* no backlog.
ClosedMetricsFinal ==
    pc["owner"] = "closed" /\ pc["writer"] = "done" =>
        published = [backlog_count |-> 0, last_flush_at |-> sent]

Batch(id) == (id - 1) \div CommitEvery

Lost == (1 .. count) \ (durable \union txn.rows)

\* A command is lost only together with a failure in its own batch, at it or
\* after it, and that failure was reported, unless it was a compact write of
\* duckdb.rs.
LossIsAccounted ==
    Alive \/ pc["writer"] = "done" =>
        \A i \in Lost : \E f \in health \union ignored : f >= i /\ Batch(f) = Batch(i)

\* If the process is killed at any point and the database never failed, what
\* was received and is lost is at most the last CommitEvery commands.
CrashLosesOneBatch ==
    faults = 0 => \A i \in (1 .. count) \ durable : i > count - CommitEvery

\* Why the backends implement DurableLog, as an inductive invariant.
Finishing == At \in {"finish", "done"}

\* Shutdown was sent and is still in the channel
StopPending == pc["owner"] = "joining" /\ ~Finishing

\* the channel holds the commands not yet received, and Shutdown behind them
ChannelInv ==
    Alive => /\ Len(queue) = (sent - count) + (IF StopPending THEN 1 ELSE 0)
             /\ \A k \in 1 .. Len(queue) :
                   queue[k] = "Shutdown" <=> StopPending /\ k = Len(queue)

\* the writer stops only when it has received everything
StopInv ==
    /\ Finishing => count = sent /\ pc["owner"] \in {"joining", "closed"}
    /\ pc["owner"] = "closed" => ~Alive

\* what is not yet committed is younger than what is
OrderInv == \A i \in durable, j \in txn.rows : i < j

\* a database that never failed has lost nothing
CleanInv ==
    faults = 0 =>
        /\ At # "panicked"
        /\ durable \union txn.rows = 1 .. count
        /\ IF At \in {"opening", "begin", "done"} THEN txn = NoTransaction
                                                  ELSE txn.status = "open"

LogInv == ChannelInv /\ StopInv /\ OrderInv /\ CleanInv

\* Both backends implement the promise of DurableLog.
Log == INSTANCE DurableLog WITH
           accepted <- sent,
           stored   <- durable,
           faulty   <- faults > 0,
           closed   <- pc["owner"] = "closed"

ImplementsLog == Log!Spec

\* Dropping the backend returns, whatever the database did.
CloseReturns == pc["owner"] = "joining" ~> pc["owner"] = "closed"

\* The comment in the error path of duckdb.rs: a failed statement aborts the
\* transaction, which is rolled back to clear the aborted state.
AbortedIsCleared == pc["writer"] = "recv" => txn.status # "aborted"

=============================================================================
