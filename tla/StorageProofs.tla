--------------------------- MODULE StorageProofs ----------------------------
(***************************************************************************)
(* The storage writer implements DurableLog, its losses are accounted for, *)
(* a crash loses no more than a batch and the metrics of a closed backend  *)
(* are final, for every size of a batch, every width of the backlog        *)
(* counter and any number of commands and faults.                          *)
(***************************************************************************)
EXTENDS StorageWriter, TLAPS

\* A wrapped counter stays below its modulus.
LEMMA AddType ==
    ASSUME NEW x \in Int, NEW d \in Int
    PROVE  Add(x, d) \in 0 .. (Modulus - 1)
  BY StorageAssumption DEF Add

\* What a statement or a commit can do, whatever the database: it keeps the
\* transaction, ends it or adds the command to it, and makes durable only what
\* was in it or, without a transaction, the command.
StatementShape(o, t, id) ==
    \/ o = Inserted(t, id) /\ t.status = "open"
    \/ /\ o.kept = {id} /\ o.txn = NoTransaction /\ o.result = "ok" /\ o.fault = 0
       /\ t.status # "open"
    \/ /\ o.kept = {} /\ o.txn \in {t, NoTransaction, [status |-> "aborted", rows |-> {}]}
       /\ o.fault \in {0, 1} /\ (o.fault = 0 => t.status # "open")
       /\ o.result \in {"err", "ignored", "panic"}

\* Executing a command has one of these outcomes, in either backend.
LEMMA ExecutionShape ==
    ASSUME TypeOK, NEW cmd \in Command, NEW id \in Nat,
           NEW o \in Execution(cmd, txn, id)
    PROVE  StatementShape(o, txn, id)
  <1>1. txn.status \in {"open", "aborted", "none"}
    BY DEF TypeOK, Transaction
  <1>2. ASSUME NEW p \in DuckDBStatement(txn, id)
        PROVE  /\ StatementShape(p, txn, id)
               /\ p.result \in {"ok", "err"}
               /\ p = Outcome(p.txn, p.kept, p.result, p.fault)
    BY <1>1, <1>2 DEF DuckDBStatement, AutoCommitted, Inserted, Outcome, StatementShape,
                      NoTransaction
  <1>3. CASE o \in SQLiteStatement(txn, id)
    BY <1>1, <1>3 DEF SQLiteStatement, AutoCommitted, Inserted, Outcome, StatementShape,
                      NoTransaction
  <1>4. CASE o \in DuckDbInsert(txn, id)
    BY <1>1, <1>2, <1>4 DEF DuckDbInsert, Outcome, StatementShape, NoTransaction
  <1>5. CASE o \in DuckDbCompact(txn, id)
    <2>1. PICK p \in DuckDBStatement(txn, id) :
             o = [p EXCEPT !.result = IF @ = "err" THEN "ignored" ELSE @]
      BY <1>5 DEF DuckDbCompact
    <2>2. CASE p.result = "ok"
      <3>1. o = p
        BY <1>2, <2>1, <2>2 DEF Outcome
      <3> QED
        BY <1>2, <3>1
    <2>3. CASE p.result = "err"
      <3>1. o = Outcome(p.txn, p.kept, "ignored", p.fault)
        BY <1>2, <2>1, <2>3 DEF Outcome
      <3> QED
        BY <1>2, <2>3, <3>1 DEF StatementShape, Inserted, Outcome
    <2> QED
      BY <1>2, <2>2, <2>3
  <1> QED
    BY <1>2, <1>3, <1>4, <1>5 DEF Execution, DuckDbExecute, SqliteExecute, Command

CommitShape(o, t) ==
    \/ /\ o.kept = t.rows /\ o.txn = NoTransaction /\ o.result = "ok"
       /\ o.fault = 0 /\ t.status = "open"
    \/ /\ o.kept = {} /\ o.txn \in {t, NoTransaction} /\ o.result \in {"ok", "err"}
       /\ o.fault \in {0, 1} /\ (o.fault = 0 => t.status # "open")

\* So has a commit.
LEMMA CommittedShape ==
    ASSUME TypeOK, NEW o \in Committed
    PROVE  CommitShape(o, txn)
  <1>1. txn.status \in {"open", "aborted", "none"}
    BY DEF TypeOK, Transaction
  <1> QED
    BY <1>1 DEF Committed, DuckDBCommit, SQLiteCommit, Outcome, CommitShape, NoTransaction

\* What is left of a transaction after a statement: nothing new but the command.
LEMMA AfterStatementShape ==
    ASSUME TypeOK, NEW id \in Nat, NEW o, StatementShape(o, txn, id)
    PROVE  /\ AfterStatement(o) \in Transaction
           /\ AfterStatement(o).rows \subseteq txn.rows \union {id}
           /\ o.kept \subseteq {id}
           /\ o.fault \in {0, 1}
           /\ o.kept # {} => AfterStatement(o).rows = {}
           /\ o.fault = 1 => o.kept = {}
           /\ o.fault = 0 /\ txn.status = "open" =>
                 /\ AfterStatement(o) = [status |-> "open", rows |-> txn.rows \union {id}]
                 /\ o.kept = {}
                 /\ o.result = "ok"
  <1>1. txn \in Transaction /\ Fresh \in Transaction /\ NoTransaction \in Transaction
        /\ [status |-> "aborted", rows |-> {}] \in Transaction
    BY DEF TypeOK, Transaction, Fresh, NoTransaction
  <1>2. AfterStatement(o) = o.txn \/ (AfterStatement(o) = Fresh /\ o.result = "err")
    BY DEF AfterStatement, DuckDbRollback
  <1>3. CASE o = Inserted(txn, id) /\ txn.status = "open"
    <2>1. /\ o.kept = {} /\ o.result = "ok" /\ o.fault = 0
          /\ o.txn = [txn EXCEPT !.rows = @ \union {id}]
      BY <1>3 DEF Inserted, Outcome
    <2>2. [txn EXCEPT !.rows = @ \union {id}] = [status |-> "open", rows |-> txn.rows \union {id}]
      BY <1>1, <1>3 DEF Transaction
    <2>3. [status |-> "open", rows |-> txn.rows \union {id}] \in Transaction
      BY <1>1 DEF Transaction
    <2> QED
      BY <1>2, <2>1, <2>2, <2>3
  <1>4. CASE /\ o.kept = {id} /\ o.txn = NoTransaction /\ o.result = "ok" /\ o.fault = 0
             /\ txn.status # "open"
    BY <1>1, <1>2, <1>4 DEF NoTransaction
  <1>5. CASE /\ o.kept = {}
             /\ o.txn \in {txn, NoTransaction, [status |-> "aborted", rows |-> {}]}
             /\ o.fault \in {0, 1} /\ (o.fault = 0 => txn.status # "open")
    BY <1>1, <1>2, <1>5 DEF NoTransaction, Fresh
  <1> QED
    BY <1>3, <1>4, <1>5 DEF StatementShape

\* The same for a commit, with and without a BEGIN after it.
LEMMA AfterCommitShape ==
    ASSUME TypeOK, NEW o, CommitShape(o, txn), NEW t \in {o.txn, AfterCommit(o)}
    PROVE  /\ t \in Transaction
           /\ o.kept \subseteq txn.rows
           /\ t.rows \subseteq txn.rows
           /\ o.fault \in {0, 1}
           /\ o.kept # {} => t.rows = {}
           /\ o.fault = 1 => o.kept = {}
           /\ o.fault = 0 /\ txn.status = "open" =>
                 /\ o.kept = txn.rows
                 /\ o.txn = NoTransaction
                 /\ AfterCommit(o) = IF backend = "duckdb" THEN Fresh ELSE NoTransaction
  BY DEF TypeOK, CommitShape, AfterCommit, Fresh, NoTransaction, Transaction

-----------------------------------------------------------------------------
(* The inductive invariant *)

IInv == TypeOK /\ LogInv

\* The invariant holds initially.
LEMMA InitInv == Init => IInv
  <1> SUFFICES ASSUME Init PROVE IInv
    OBVIOUS
  <1>1. TypeOK
    BY StorageAssumption DEF Init, TypeOK, Threads, Owner, Writer, Transaction, NoTransaction,
                             StorageMetrics, NoMetrics
  <1>2. ChannelInv /\ StopInv /\ OrderInv /\ CleanInv
    BY DEF Init, Threads, ChannelInv, StopInv, OrderInv, CleanInv, Finishing, StopPending, At,
           Alive, NoTransaction
  <1> QED
    BY <1>1, <1>2 DEF IInv, LogInv

\* Steps of publish_metrics change nothing the invariant speaks about.
LEMMA PublishInv ==
    ASSUME IInv, NEW t \in Threads, PublishMetrics(t)
    PROVE  IInv'
  <1> USE DEF IInv
  <1>1. TypeOK'
    BY DEF TypeOK, PublishMetrics, LoadFlush, LoadBacklog, Publish, Goto, dbVars, Threads,
           Owner, Writer, StorageMetrics
  <1>2. /\ At' = At /\ (Alive' => Alive)
        /\ pc'["owner"] \in {"joining", "closed"} <=> pc["owner"] \in {"joining", "closed"}
        /\ pc'["owner"] = "joining" <=> pc["owner"] = "joining"
        /\ pc'["owner"] = "closed" <=> pc["owner"] = "closed"
        /\ UNCHANGED <<queue, sent, count, txn, durable, faults>>
    BY DEF TypeOK, PublishMetrics, LoadFlush, LoadBacklog, Publish, Goto, dbVars, Threads, At,
           Alive, Owner
  <1>3. LogInv'
    BY <1>2 DEF LogInv, ChannelInv, StopInv, OrderInv, CleanInv, Finishing, StopPending
  <1> QED
    BY <1>1, <1>3

\* The owner's steps: Shutdown goes behind all commands, and the owner closes
\* only when the writer is gone.
LEMMA OwnerInv ==
    ASSUME IInv, (\E cmd \in Command : Send(cmd)) \/ IncBacklog \/ Close \/ Join
    PROVE  IInv'
  <1> USE DEF IInv
  <1>1. CASE \E cmd \in Command : Send(cmd)
    <2>1. PICK cmd \in Command : Send(cmd)
      BY <1>1
    <2>2. TypeOK'
      BY <2>1, StorageAssumption
         DEF TypeOK, Send, Goto, dbVars, metricsVars, Threads, Owner, Message
    <2>3. /\ At' = At /\ Alive /\ Alive' /\ ~StopPending /\ ~StopPending' /\ ~Finishing
          /\ Finishing' = Finishing
          /\ queue' = Append(queue, cmd) /\ sent' = sent + 1
          /\ UNCHANGED <<count, txn, durable, faults>>
      BY <2>1 DEF TypeOK, Send, Goto, dbVars, Threads, At, Alive, StopPending, Finishing, LogInv,
                  StopInv
    <2>4. ChannelInv'
      <3>1. /\ Len(queue') = Len(queue) + 1 /\ queue'[Len(queue) + 1] = cmd
            /\ \A k \in 1 .. Len(queue) : queue'[k] = queue[k]
        BY <2>3 DEF TypeOK, Command, Message
      <3>2. cmd # "Shutdown"
        BY DEF Command
      <3>3. Len(queue) = sent - count /\ \A k \in 1 .. Len(queue) : queue[k] # "Shutdown"
        BY <2>3 DEF TypeOK, LogInv, ChannelInv
      <3>4. \A k \in 1 .. Len(queue') : queue'[k] # "Shutdown"
        BY <3>1, <3>2, <3>3 DEF TypeOK
      <3> QED
        BY <2>3, <3>1, <3>3, <3>4 DEF TypeOK, ChannelInv
    <2>5. StopInv' /\ OrderInv' /\ CleanInv'
      BY <2>1, <2>3 DEF TypeOK, LogInv, StopInv, OrderInv, CleanInv, Send, Goto, Threads
    <2> QED
      BY <2>2, <2>4, <2>5 DEF LogInv
  <1>2. CASE IncBacklog
    <2>1. TypeOK'
      <3>1. backlog \in Int /\ 1 \in Int
        BY StorageAssumption DEF TypeOK
      <3>2. backlog' \in 0 .. (Modulus - 1)
        BY <1>2, <3>1, AddType DEF IncBacklog
      <3> QED
        BY <1>2, <3>2 DEF TypeOK, IncBacklog, Goto, dbVars, Threads, Owner
    <2>2. /\ At' = At /\ Alive' = Alive /\ StopPending' = StopPending
          /\ Finishing' = Finishing /\ ~Finishing
          /\ UNCHANGED <<queue, sent, count, txn, durable, faults>>
          /\ pc'["owner"] # "closed"
      BY <1>2 DEF TypeOK, IncBacklog, Goto, dbVars, Threads, At, Alive, StopPending, Finishing,
                  LogInv, StopInv
    <2>3. LogInv'
      BY <2>2 DEF LogInv, ChannelInv, StopInv, OrderInv, CleanInv
    <2> QED
      BY <2>1, <2>3
  <1>3. CASE Close
    <2>1. TypeOK'
      BY <1>3 DEF TypeOK, Close, Goto, dbVars, metricsVars, Threads, Owner, Message
    <2>2. /\ At' = At /\ Alive' = Alive /\ ~StopPending /\ ~Finishing
          /\ Finishing' = Finishing /\ StopPending'
          /\ queue' = IF Alive THEN Append(queue, "Shutdown") ELSE queue
          /\ UNCHANGED <<sent, count, txn, durable, faults>>
          /\ pc'["owner"] # "closed"
      BY <1>3 DEF TypeOK, Close, Goto, dbVars, Threads, At, Alive, StopPending, Finishing, LogInv,
                  StopInv
    <2>3. ChannelInv'
      <3>1. CASE Alive
        BY <2>2, <3>1 DEF TypeOK, LogInv, ChannelInv, Message
      <3>2. CASE ~Alive
        BY <2>2, <3>2 DEF ChannelInv
      <3> QED
        BY <3>1, <3>2
    <2>4. StopInv' /\ OrderInv' /\ CleanInv'
      BY <2>2 DEF LogInv, StopInv, OrderInv, CleanInv
    <2> QED
      BY <2>1, <2>3, <2>4 DEF LogInv
  <1>4. CASE Join
    <2>1. TypeOK'
      BY <1>4 DEF TypeOK, Join, Goto, dbVars, metricsVars, Threads, Owner
    <2>2. /\ At' = At /\ ~Alive' /\ Finishing' = Finishing
          /\ UNCHANGED <<queue, sent, count, txn, durable, faults>>
          /\ pc'["owner"] = "closed"
      BY <1>4 DEF TypeOK, Join, Goto, dbVars, Threads, At, Alive, Finishing
    <2>3. LogInv'
      BY <2>2 DEF LogInv, ChannelInv, StopInv, OrderInv, CleanInv
    <2> QED
      BY <2>1, <2>3
  <1> QED
    BY <1>1, <1>2, <1>3, <1>4

\* A panic can only follow a fault.
LEMMA PanicInv ==
    ASSUME IInv, BeginPanics \/ ExecutePanics
    PROVE  IInv'
  <1> USE DEF IInv
  <1>1. /\ Panics /\ faults' \in 0 .. MaxFaults /\ faults' > 0
        /\ pc["writer"] \in {"opening", "begin", "recv"}
    <2>1. CASE BeginPanics
      BY <2>1, StorageAssumption DEF BeginPanics, TypeOK
    <2>2. CASE ExecutePanics
      <3>1. Head(queue) \in Command
        BY <2>2 DEF ExecutePanics, TypeOK, Message
      <3>2. PICK o \in Execution(Head(queue), txn, count + 1) :
               o.result = "panic" /\ faults + o.fault <= MaxFaults /\ faults' = faults + o.fault
        BY <2>2 DEF ExecutePanics
      <3>3. count + 1 \in Nat
        BY DEF TypeOK
      <3>4. StatementShape(o, txn, count + 1)
        BY <3>1, <3>3, ExecutionShape
      <3>5. o.fault \in {0, 1} /\ (o.fault = 0 => txn.status # "open")
        BY <3>2, <3>4 DEF StatementShape, Inserted, Outcome
      <3>6. faults = 0 => txn.status = "open"
        BY <2>2 DEF ExecutePanics, LogInv, CleanInv, At
      <3> QED
        BY <2>2, <3>2, <3>5, <3>6, StorageAssumption DEF ExecutePanics, TypeOK
    <2> QED
      BY <2>1, <2>2
  <1>2. TypeOK'
    BY <1>1 DEF TypeOK, Panics, Goto, metricsVars, Threads, Writer, NoTransaction, Transaction
  <1>3. /\ ~Alive' /\ ~Finishing'
        /\ UNCHANGED <<sent, count, durable>> /\ txn' = NoTransaction
    BY <1>1 DEF TypeOK, Panics, Goto, Threads, Alive, Finishing, At
  <1>4. LogInv'
    BY <1>1, <1>3 DEF LogInv, ChannelInv, StopInv, OrderInv, CleanInv, NoTransaction, TypeOK
  <1> QED
    BY <1>2, <1>4

\* Receiving a command: it is the oldest one not yet received, so it comes
\* after all that is durable or in the transaction.
LEMMA HeadIsCommand ==
    ASSUME IInv, pc["writer"] = "recv", queue # <<>>, Head(queue) # "Shutdown"
    PROVE  /\ Head(queue) \in Command
           /\ count + 1 \in 1 .. sent
           /\ Len(Tail(queue)) = (sent - (count + 1)) + (IF StopPending THEN 1 ELSE 0)
           /\ \A k \in 1 .. Len(Tail(queue)) :
                 Tail(queue)[k] = "Shutdown" <=> StopPending /\ k = Len(Tail(queue))
  <1> USE DEF IInv
  <1>1. /\ Len(queue) = (sent - count) + (IF StopPending THEN 1 ELSE 0)
        /\ \A k \in 1 .. Len(queue) :
              queue[k] = "Shutdown" <=> StopPending /\ k = Len(queue)
    BY DEF LogInv, ChannelInv, Alive
  <1>2. queue \in Seq(Message) /\ Len(queue) \in Nat \ {0} /\ Head(queue) = queue[1]
    BY DEF TypeOK
  <1>3. Head(queue) \in Command
    BY <1>2 DEF Message
  <1>4. StopPending => Len(queue) # 1
    BY <1>1, <1>2
  <1>5. Len(Tail(queue)) = Len(queue) - 1 /\ \A k \in 1 .. Len(Tail(queue)) : Tail(queue)[k] = queue[k + 1]
    BY <1>2
  <1>6. sent \in Nat /\ count \in Nat
    BY StorageAssumption DEF TypeOK
  <1>7. count + 1 \in 1 .. sent
    BY <1>1, <1>2, <1>4, <1>6
  <1>8. Len(Tail(queue)) = (sent - (count + 1)) + (IF StopPending THEN 1 ELSE 0)
    BY <1>1, <1>2, <1>5, <1>6
  <1>9. \A k \in 1 .. Len(Tail(queue)) :
           Tail(queue)[k] = "Shutdown" <=> StopPending /\ k = Len(Tail(queue))
    BY <1>1, <1>2, <1>5
  <1> QED
    BY <1>3, <1>7, <1>8, <1>9

\* Executing a command keeps the invariant.
LEMMA ExecuteInv ==
    ASSUME IInv, Execute
    PROVE  IInv'
  <1> USE DEF IInv
  <1>1. /\ pc["writer"] = "recv" /\ queue # <<>> /\ Head(queue) # "Shutdown"
        /\ queue' = Tail(queue) /\ count' = count + 1
        /\ pc' = [pc EXCEPT !["writer"] = IF CommitDue(count + 1) THEN "commit" ELSE "dec"]
        /\ UNCHANGED <<backend, resume, sent, metricsVars>>
    BY DEF Execute, Goto
  <1>2. PICK o \in Execution(Head(queue), txn, count + 1) :
           /\ faults + o.fault <= MaxFaults
           /\ faults' = faults + o.fault
           /\ durable' = durable \union o.kept
           /\ txn' = AfterStatement(o)
           /\ health' = Reported(o, count + 1)
           /\ ignored' = IF o.result = "ignored" THEN ignored \union {count + 1} ELSE ignored
    BY DEF Execute
  <1>3. /\ Head(queue) \in Command
        /\ count + 1 \in 1 .. sent
        /\ Len(Tail(queue)) = (sent - (count + 1)) + (IF StopPending THEN 1 ELSE 0)
        /\ \A k \in 1 .. Len(Tail(queue)) :
              Tail(queue)[k] = "Shutdown" <=> StopPending /\ k = Len(Tail(queue))
    BY <1>1, HeadIsCommand
  <1>4. count + 1 \in Nat
    BY DEF TypeOK
  <1>5. StatementShape(o, txn, count + 1)
    BY <1>3, <1>4, ExecutionShape
  <1>6. /\ txn' \in Transaction
        /\ txn'.rows \subseteq txn.rows \union {count + 1}
        /\ o.kept \subseteq {count + 1}
        /\ o.fault \in {0, 1}
        /\ o.kept # {} => txn'.rows = {}
        /\ o.fault = 0 /\ txn.status = "open" =>
              /\ txn' = [status |-> "open", rows |-> txn.rows \union {count + 1}]
              /\ o.kept = {}
    BY <1>2, <1>4, <1>5, AfterStatementShape
  <1>7. TypeOK'
    <2>1. /\ pc' \in [Threads -> Owner \union Writer] /\ pc'["owner"] \in Owner
          /\ pc'["writer"] \in Writer
      BY <1>1 DEF TypeOK, Threads, Writer
    <2>2. queue' \in Seq(Message)
      BY <1>1 DEF TypeOK
    <2>3. sent' \in 0 .. MaxCommands /\ count' \in 0 .. sent' /\ lastFlush' \in 0 .. count'
      BY <1>1, <1>3 DEF TypeOK, metricsVars
    <2>4. txn'.rows \subseteq 1 .. count' /\ durable' \subseteq 1 .. count'
      <3>1. (1 .. count) \union {count + 1} \subseteq 1 .. count'
        BY <1>1 DEF TypeOK
      <3>2. txn.rows \subseteq 1 .. count /\ durable \subseteq 1 .. count
        BY DEF TypeOK
      <3> QED
        BY <1>2, <1>6, <3>1, <3>2
    <2>5. health' \subseteq 0 .. count' /\ ignored' \subseteq 1 .. count'
      <3>1. (0 .. count) \union {count + 1} \subseteq 0 .. count'
            /\ (1 .. count) \union {count + 1} \subseteq 1 .. count'
        BY <1>1 DEF TypeOK
      <3>2. health \subseteq 0 .. count /\ ignored \subseteq 1 .. count
        BY DEF TypeOK
      <3>3. health' \subseteq health \union {count + 1} /\ ignored' \subseteq ignored \union {count + 1}
        BY <1>2 DEF Reported
      <3> QED
        BY <3>1, <3>2, <3>3
    <2>6. faults' \in 0 .. MaxFaults
      BY <1>2, <1>6, StorageAssumption DEF TypeOK
    <2> QED
      BY <1>1, <1>6, <2>1, <2>2, <2>3, <2>4, <2>5, <2>6 DEF TypeOK, metricsVars
  <1>8. /\ At = "recv" /\ At' \in {"commit", "dec"} /\ ~Finishing /\ ~Finishing'
        /\ StopPending' = StopPending /\ Alive /\ pc'["owner"] = pc["owner"]
    BY <1>1 DEF TypeOK, Threads, At, Alive, Finishing, StopPending
  <1>9. ChannelInv'
    BY <1>1, <1>3, <1>8 DEF ChannelInv
  <1>10. StopInv'
    BY <1>8 DEF LogInv, StopInv
  <1>11. OrderInv'
    BY <1>2, <1>6 DEF LogInv, OrderInv, TypeOK
  <1>12. CleanInv'
    <2> SUFFICES ASSUME faults' = 0
                 PROVE  /\ durable' \union txn'.rows = 1 .. count'
                        /\ txn'.status = "open"
      BY <1>8 DEF CleanInv
    <2>1. faults = 0 /\ o.fault = 0
      BY <1>2, <1>6 DEF TypeOK
    <2>2. durable \union txn.rows = 1 .. count /\ txn.status = "open"
      BY <1>8, <2>1 DEF LogInv, CleanInv
    <2>3. (1 .. count) \union {count + 1} = 1 .. (count + 1)
      BY DEF TypeOK
    <2> QED
      BY <1>1, <1>2, <1>6, <2>1, <2>2, <2>3
  <1> QED
    BY <1>7, <1>9, <1>10, <1>11, <1>12 DEF LogInv

\* A commit makes durable what is in the transaction, or nothing.
LEMMA CommitInv ==
    ASSUME IInv, CommitBatch \/ FinalCommit
    PROVE  IInv'
  <1> USE DEF IInv
  <1>1. PICK o \in Committed :
           /\ CommitWith(o)
           /\ txn' \in {o.txn, AfterCommit(o)}
           /\ CommitBatch => txn' = AfterCommit(o)
           /\ FinalCommit => txn' = o.txn
    <2>1. CASE CommitBatch
      BY <2>1 DEF CommitBatch, FinalCommit
    <2>2. CASE FinalCommit
      BY <2>2 DEF CommitBatch, FinalCommit
    <2> QED
      BY <2>1, <2>2
  <1>2. CommitShape(o, txn)
    BY CommittedShape
  <1>3. /\ txn' \in Transaction
        /\ o.kept \subseteq txn.rows
        /\ txn'.rows \subseteq txn.rows
        /\ o.fault \in {0, 1}
        /\ o.kept # {} => txn'.rows = {}
        /\ o.fault = 0 /\ txn.status = "open" =>
              /\ o.kept = txn.rows
              /\ o.txn = NoTransaction
              /\ AfterCommit(o) = IF backend = "duckdb" THEN Fresh ELSE NoTransaction
    <2> DEFINE t == txn'
    <2>1. t \in {o.txn, AfterCommit(o)}
      BY <1>1
    <2> HIDE DEF t
    <2>2. /\ t \in Transaction
          /\ o.kept \subseteq txn.rows
          /\ t.rows \subseteq txn.rows
          /\ o.fault \in {0, 1}
          /\ o.kept # {} => t.rows = {}
          /\ o.fault = 0 /\ txn.status = "open" =>
                /\ o.kept = txn.rows
                /\ o.txn = NoTransaction
                /\ AfterCommit(o) = IF backend = "duckdb" THEN Fresh ELSE NoTransaction
      BY <1>2, <2>1, AfterCommitShape
    <2> QED
      BY <2>2 DEF t
  <1>4. /\ faults' = faults + o.fault /\ faults + o.fault <= MaxFaults
        /\ durable' = durable \union o.kept
        /\ health' = Reported(o, count)
        /\ pc' = [pc EXCEPT !["writer"] = "flush"]
        /\ UNCHANGED <<backend, queue, sent, count, ignored, metricsVars>>
    BY <1>1 DEF CommitWith, Goto
  <1>5. /\ resume' \in {"begin", "dec", "done"}
        /\ resume' = "done" <=> FinalCommit
        /\ CommitBatch => resume' = IF backend = "duckdb" THEN "dec" ELSE "begin"
        /\ CommitBatch => pc["writer"] = "commit"
        /\ FinalCommit => pc["writer"] = "finish"
    BY DEF CommitBatch, FinalCommit
  <1>6. TypeOK'
    <2>1. /\ pc' \in [Threads -> Owner \union Writer] /\ pc'["owner"] \in Owner
          /\ pc'["writer"] \in Writer
      BY <1>4 DEF TypeOK, Threads, Writer
    <2>2. txn'.rows \subseteq 1 .. count' /\ durable' \subseteq 1 .. count'
      BY <1>3, <1>4 DEF TypeOK
    <2>3. health' \subseteq 0 .. count'
      BY <1>4 DEF TypeOK, Reported
    <2>4. faults' \in 0 .. MaxFaults
      BY <1>3, <1>4, StorageAssumption DEF TypeOK
    <2> QED
      BY <1>3, <1>4, <1>5, <2>1, <2>2, <2>3, <2>4 DEF TypeOK, metricsVars
  <1>7. /\ At' = resume' /\ At = pc["writer"] /\ Finishing' = Finishing
        /\ StopPending' = StopPending /\ Alive /\ pc'["owner"] = pc["owner"]
    BY <1>4, <1>5 DEF TypeOK, Threads, At, Alive, Finishing, StopPending
  <1>8. ChannelInv' /\ StopInv'
    BY <1>4, <1>7 DEF LogInv, ChannelInv, StopInv
  <1>9. OrderInv'
    BY <1>3, <1>4 DEF LogInv, OrderInv
  <1>10. CleanInv'
    <2> SUFFICES ASSUME faults' = 0
                 PROVE  /\ durable' \union txn'.rows = 1 .. count'
                        /\ IF resume' \in {"begin", "done"} THEN txn' = NoTransaction
                                                           ELSE txn'.status = "open"
      BY <1>5, <1>7 DEF CleanInv
    <2>1. faults = 0 /\ o.fault = 0
      BY <1>3, <1>4 DEF TypeOK
    <2>2. durable \union txn.rows = 1 .. count /\ txn.status = "open"
      BY <1>5, <1>7, <2>1 DEF LogInv, CleanInv
    <2>3. o.kept = txn.rows /\ o.txn = NoTransaction
          /\ AfterCommit(o) = IF backend = "duckdb" THEN Fresh ELSE NoTransaction
      BY <1>3, <2>1, <2>2
    <2>4. txn' \in {Fresh, NoTransaction}
      BY <1>1, <2>3
    <2>5. txn'.rows = {}
      BY <2>4 DEF Fresh, NoTransaction
    <2>6. IF resume' \in {"begin", "done"} THEN txn' = NoTransaction
                                          ELSE txn'.status = "open"
      BY <1>1, <1>5, <2>3 DEF Fresh
    <2> QED
      BY <1>4, <2>2, <2>3, <2>5, <2>6
  <1> QED
    BY <1>6, <1>8, <1>9, <1>10 DEF LogInv

\* The writer's steps that do not touch the tables.
LEMMA LoopInv ==
    ASSUME IInv, Begin \/ ReceiveShutdown \/ SetLastFlush \/ DecBacklog
    PROVE  IInv'
  <1> USE DEF IInv
  <1>1. CASE Begin
    <2>1. TypeOK'
      BY <1>1 DEF TypeOK, Begin, Goto, metricsVars, Threads, Writer, Fresh, Transaction
    <2>2. /\ At \in {"opening", "begin"} /\ At' \in {"recv", "dec"} /\ ~Finishing /\ ~Finishing'
          /\ StopPending' = StopPending /\ Alive /\ pc'["owner"] = pc["owner"]
          /\ UNCHANGED <<queue, sent, count, durable, faults>> /\ txn' = Fresh
      BY <1>1 DEF TypeOK, Begin, Goto, Threads, At, Alive, Finishing, StopPending
    <2>3. ChannelInv' /\ StopInv' /\ OrderInv'
      BY <2>2 DEF LogInv, ChannelInv, StopInv, OrderInv, Fresh
    <2>4. CleanInv'
      BY <2>2 DEF LogInv, CleanInv, Fresh, NoTransaction
    <2> QED
      BY <2>1, <2>3, <2>4 DEF LogInv
  <1>2. CASE ReceiveShutdown
    <2>1. TypeOK'
      BY <1>2 DEF TypeOK, ReceiveShutdown, Goto, dbVars, metricsVars, Threads, Writer
    <2>2. /\ At = "recv" /\ At' = "finish" /\ ~Finishing /\ Finishing' /\ ~StopPending'
          /\ Alive /\ pc'["owner"] = pc["owner"] /\ queue' = Tail(queue)
          /\ queue # <<>> /\ Head(queue) = "Shutdown"
          /\ UNCHANGED <<sent, count, txn, durable, faults>>
      BY <1>2 DEF TypeOK, ReceiveShutdown, Goto, dbVars, Threads, At, Alive, Finishing,
                  StopPending
    <2>3. queue \in Seq(Message) /\ Len(queue) \in Nat \ {0} /\ queue[1] = "Shutdown"
      BY <2>2 DEF TypeOK
    <2>4. /\ Len(queue) = (sent - count) + (IF StopPending THEN 1 ELSE 0)
          /\ \A k \in 1 .. Len(queue) :
                queue[k] = "Shutdown" <=> StopPending /\ k = Len(queue)
      BY <2>2 DEF LogInv, ChannelInv
    <2>5. StopPending /\ Len(queue) = 1
      BY <2>3, <2>4
    <2>6. sent = count /\ sent \in Nat /\ pc["owner"] = "joining"
      <3>1. sent \in Nat /\ count \in Nat
        BY StorageAssumption DEF TypeOK
      <3>2. 1 = (sent - count) + 1
        BY <2>4, <2>5
      <3> QED
        BY <2>5, <3>1, <3>2 DEF StopPending
    <2>7. Len(queue') = 0
      BY <2>2, <2>3, <2>5
    <2>8. ChannelInv' /\ StopInv'
      <3>1. Len(queue') = (sent' - count') + (IF StopPending' THEN 1 ELSE 0)
        BY <2>2, <2>6, <2>7
      <3>2. 1 .. Len(queue') = {}
        BY <2>7
      <3> QED
        BY <2>2, <2>6, <3>1, <3>2 DEF ChannelInv, StopInv
    <2>9. OrderInv' /\ CleanInv'
      BY <2>2 DEF LogInv, OrderInv, CleanInv
    <2> QED
      BY <2>1, <2>8, <2>9 DEF LogInv
  <1>3. CASE SetLastFlush \/ DecBacklog
    <2>1. TypeOK'
      <3>1. backlog \in Int /\ -1 \in Int
        BY StorageAssumption DEF TypeOK
      <3>2. Add(backlog, -1) \in 0 .. (Modulus - 1)
        BY <3>1, AddType
      <3>3. CASE DecBacklog
        BY <3>2, <3>3 DEF TypeOK, DecBacklog, Goto, dbVars, Threads, Writer
      <3>4. CASE SetLastFlush
        BY <3>4 DEF TypeOK, SetLastFlush, Goto, dbVars, Threads, Writer
      <3> QED
        BY <1>3, <3>3, <3>4
    <2>2. /\ At' = At \/ (At = "dec" /\ At' = "recv")
          /\ Alive /\ pc'["owner"] = pc["owner"]
          /\ UNCHANGED <<queue, sent, count, txn, durable, faults>>
      BY <1>3 DEF TypeOK, SetLastFlush, DecBacklog, Goto, dbVars, Threads, At, Alive
    <2>3. Finishing' = Finishing /\ StopPending' = StopPending
      BY <2>2 DEF Finishing, StopPending
    <2>4. LogInv'
      BY <2>2, <2>3 DEF LogInv, ChannelInv, StopInv, OrderInv, CleanInv
    <2> QED
      BY <2>1, <2>4
  <1> QED
    BY <1>1, <1>2, <1>3

\* Every step keeps the invariant.
LEMMA StepInv == IInv /\ [Next]_vars => IInv'
  <1> SUFFICES ASSUME IInv, [Next]_vars PROVE IInv'
    OBVIOUS
  <1>1. CASE \/ (\E cmd \in Command : Send(cmd)) \/ Close \/ OwnerStep \/ WriterStep
             \/ BeginPanics \/ ExecutePanics
    BY <1>1, OwnerInv, PanicInv, ExecuteInv, CommitInv, LoopInv, PublishInv
       DEF OwnerStep, WriterStep, Threads
  <1>2. CASE UNCHANGED vars
    <2>1. UNCHANGED <<backend, pc, resume, queue, sent, count, txn, durable, health, ignored,
                      faults, backlog, lastFlush, snapshot, published>>
      BY <1>2 DEF vars
    <2>2. TypeOK'
      BY <2>1 DEF IInv, TypeOK
    <2>3. LogInv'
      BY <2>1 DEF IInv, LogInv, ChannelInv, StopInv, OrderInv, CleanInv, Finishing, StopPending,
                  At, Alive
    <2> QED
      BY <2>2, <2>3 DEF IInv
  <1> QED
    BY <1>1, <1>2 DEF Next

\* Every variable of the storage writer keeps its type; in particular nothing
\* is durable, reported or counted that was not received, and nothing is
\* received that was not sent.
THEOREM TypeCorrect == Spec => []TypeOK
  <1>1. IInv => TypeOK
    BY DEF IInv
  <1> QED
    BY InitInv, StepInv, <1>1, PTL DEF Spec

\* The channel holds what was not received with Shutdown behind it, the writer
\* stops only when it has received everything, the open transaction is younger
\* than what is durable, and a database that never failed has lost nothing.
THEOREM LogInvariant == Spec => []LogInv
  <1>1. IInv => LogInv
    BY DEF IInv
  <1> QED
    BY InitInv, StepInv, <1>1, PTL DEF Spec

-----------------------------------------------------------------------------
(* The refinement *)

\* Steps after which the owner, the tables and the faults are as before.
LEMMA Stutters ==
    ASSUME IInv,
           UNCHANGED <<sent, durable, faults>>,
           pc'["owner"] = "closed" <=> pc["owner"] = "closed"
    PROVE  [Log!Next]_(Log!logVars)
  BY DEF Log!logVars

\* The database fails, or did before.
LEMMA Faults ==
    ASSUME IInv, Alive,
           UNCHANGED <<sent, durable>>, faults' >= faults, faults' \in Nat,
           pc'["owner"] = pc["owner"]
    PROVE  [Log!Next]_(Log!logVars)
  <1>1. pc["owner"] # "closed" /\ faults \in Nat
    BY StorageAssumption DEF IInv, LogInv, StopInv, TypeOK
  <1>2. CASE (faults' > 0) = (faults > 0)
    BY <1>2 DEF Log!logVars
  <1>3. CASE (faults' > 0) # (faults > 0)
    <2>1. faults' > 0
      BY <1>1, <1>3
    <2> QED
      BY <1>1, <2>1 DEF Log!Next, Log!Fault
  <1> QED
    BY <1>2, <1>3

\* Commands younger than all that is durable become durable.
LEMMA Stores ==
    ASSUME IInv, Alive, NEW ids \in SUBSET (1 .. sent),
           \A i \in ids, j \in durable : j < i,
           durable' = durable \union ids,
           UNCHANGED <<sent, faults>>, pc'["owner"] = pc["owner"]
    PROVE  [Log!Next]_(Log!logVars)
  <1>1. pc["owner"] # "closed"
    BY DEF IInv, LogInv, StopInv
  <1> QED
    BY <1>1 DEF Log!Next, Log!Store

\* Executing a command stores it, is a fault, or leaves the log as it is.
LEMMA ExecuteRefines ==
    ASSUME IInv, Execute
    PROVE  [Log!Next]_(Log!logVars)
  <1>1. /\ pc["writer"] = "recv" /\ queue # <<>> /\ Head(queue) # "Shutdown"
        /\ sent' = sent
    BY DEF Execute
  <1>2. PICK o \in Execution(Head(queue), txn, count + 1) :
           faults' = faults + o.fault /\ durable' = durable \union o.kept
    BY DEF Execute
  <1>3. Head(queue) \in Command /\ count + 1 \in 1 .. sent /\ count + 1 \in Nat
    BY <1>1, HeadIsCommand DEF IInv, TypeOK
  <1>4. o.kept \subseteq {count + 1} /\ o.fault \in {0, 1} /\ (o.fault = 1 => o.kept = {})
    BY <1>3, ExecutionShape, AfterStatementShape DEF IInv
  <1>5. Alive /\ pc'["owner"] = pc["owner"]
    BY <1>1 DEF Alive, Execute, Goto, IInv, TypeOK, Threads
  <1>6. faults \in Nat
    BY StorageAssumption DEF IInv, TypeOK
  <1>7. CASE o.fault = 0
    <2>1. o.kept \in SUBSET (1 .. sent) /\ \A i \in o.kept, j \in durable : j < i
      BY <1>3, <1>4 DEF IInv, TypeOK
    <2>2. faults' = faults
      BY <1>2, <1>6, <1>7
    <2> QED
      BY <1>1, <1>2, <1>5, <2>1, <2>2, Stores
  <1>8. CASE o.fault = 1
    BY <1>1, <1>2, <1>4, <1>5, <1>6, <1>8, Faults
  <1> QED
    BY <1>4, <1>7, <1>8

\* A commit stores the rows of the transaction, or is a fault.
LEMMA CommitRefines ==
    ASSUME IInv, CommitBatch \/ FinalCommit
    PROVE  [Log!Next]_(Log!logVars)
  <1>1. PICK o \in Committed : CommitWith(o)
    BY DEF CommitBatch, FinalCommit
  <1>2. /\ faults' = faults + o.fault /\ durable' = durable \union o.kept /\ sent' = sent
        /\ pc'["owner"] = pc["owner"]
    BY <1>1 DEF CommitWith, Goto, IInv, TypeOK, Threads
  <1>3. CommitShape(o, txn)
    BY CommittedShape DEF IInv
  <1>4. o.kept \subseteq txn.rows /\ o.fault \in {0, 1} /\ (o.fault = 1 => o.kept = {})
    BY <1>3 DEF CommitShape
  <1>5. Alive
    BY DEF CommitBatch, FinalCommit, Alive
  <1>6. faults \in Nat
    BY StorageAssumption DEF IInv, TypeOK
  <1>7. CASE o.fault = 0
    <2>1. o.kept \in SUBSET (1 .. sent) /\ \A i \in o.kept, j \in durable : j < i
      <3>1. txn.rows \subseteq 1 .. sent
        BY StorageAssumption DEF IInv, TypeOK
      <3>2. \A i \in durable, j \in txn.rows : i < j
        BY DEF IInv, LogInv, OrderInv
      <3> QED
        BY <1>4, <3>1, <3>2
    <2>2. faults' = faults
      BY <1>2, <1>6, <1>7
    <2> QED
      BY <1>2, <1>5, <2>1, <2>2, Stores
  <1>8. CASE o.fault = 1
    BY <1>2, <1>4, <1>5, <1>6, <1>8, Faults
  <1> QED
    BY <1>4, <1>7, <1>8

\* The owner's join ends only when everything sent is durable or the database
\* failed.
LEMMA JoinRefines ==
    ASSUME IInv, Join
    PROVE  [Log!Next]_(Log!logVars)
  <1>1. /\ pc["owner"] = "joining" /\ ~Alive /\ pc'["owner"] = "closed"
        /\ UNCHANGED <<sent, durable, faults>>
    BY DEF Join, Goto, dbVars, IInv, TypeOK, Threads
  <1>2. faults > 0 \/ durable = 1 .. sent
    <2>1. CASE faults = 0
      <3>1. At = "done"
        BY <1>1, <2>1 DEF IInv, LogInv, CleanInv, Alive, At
      <3>2. txn = NoTransaction /\ durable \union txn.rows = 1 .. count
        BY <2>1, <3>1 DEF IInv, LogInv, CleanInv
      <3>3. count = sent
        BY <3>1 DEF IInv, LogInv, StopInv, Finishing
      <3> QED
        BY <3>2, <3>3 DEF NoTransaction
    <2> QED
      BY <2>1, StorageAssumption DEF IInv, TypeOK
  <1> QED
    BY <1>1, <1>2 DEF Log!Next, Log!Close

\* Every step is a step of the log or leaves it as it is.
LEMMA StepRefines == IInv /\ [Next]_vars => [Log!Next]_(Log!logVars)
  <1> SUFFICES ASSUME IInv, [Next]_vars PROVE [Log!Next]_(Log!logVars)
    OBVIOUS
  <1>1. CASE \E cmd \in Command : Send(cmd)
    <2>1. /\ pc["owner"] = "idle" /\ pc'["owner"] = "count" /\ sent' = sent + 1
          /\ UNCHANGED <<durable, faults>>
      BY <1>1 DEF Send, Goto, dbVars, IInv, TypeOK, Threads
    <2> QED
      BY <2>1 DEF Log!Next, Log!Accept
  <1>2. CASE Close \/ IncBacklog \/ PublishMetrics("owner")
    <2>1. /\ UNCHANGED <<sent, durable, faults>>
          /\ pc["owner"] # "closed" /\ pc'["owner"] # "closed"
      BY <1>2 DEF Close, IncBacklog, PublishMetrics, LoadFlush, LoadBacklog, Publish, Goto,
                  dbVars, IInv, TypeOK, Threads
    <2> QED
      BY <2>1, Stutters
  <1>3. CASE Begin \/ ReceiveShutdown \/ SetLastFlush \/ DecBacklog \/ PublishMetrics("writer")
    <2>1. UNCHANGED <<sent, durable, faults>> /\ pc'["owner"] = pc["owner"]
      BY <1>3 DEF Begin, ReceiveShutdown, SetLastFlush, DecBacklog, PublishMetrics, LoadFlush,
                  LoadBacklog, Publish, Goto, dbVars, IInv, TypeOK, Threads
    <2> QED
      BY <2>1, Stutters
  <1>4. CASE BeginPanics \/ ExecutePanics
    <2>1. UNCHANGED <<sent, durable>> /\ pc'["owner"] = pc["owner"] /\ Alive
      BY <1>4 DEF BeginPanics, ExecutePanics, Panics, Goto, Alive, IInv, TypeOK, Threads
    <2>2. faults' >= faults /\ faults' \in Nat
      <3>1. faults \in Nat /\ count + 1 \in Nat
        BY StorageAssumption DEF IInv, TypeOK
      <3>2. CASE BeginPanics
        BY <3>1, <3>2 DEF BeginPanics
      <3>3. CASE ExecutePanics
        <4>1. Head(queue) \in Command
          BY <3>3 DEF ExecutePanics, IInv, TypeOK, Message
        <4>2. PICK o \in Execution(Head(queue), txn, count + 1) : faults' = faults + o.fault
          BY <3>3 DEF ExecutePanics
        <4>3. o.fault \in {0, 1}
          BY <3>1, <4>1, ExecutionShape, AfterStatementShape DEF IInv
        <4> QED
          BY <3>1, <4>2, <4>3
      <3> QED
        BY <1>4, <3>2, <3>3
    <2> QED
      BY <2>1, <2>2, Faults
  <1>5. CASE UNCHANGED vars
    BY <1>5 DEF vars, Log!logVars
  <1>6. CASE Execute
    BY <1>6, ExecuteRefines
  <1>7. CASE CommitBatch \/ FinalCommit
    BY <1>7, CommitRefines
  <1>8. CASE Join
    BY <1>8, JoinRefines
  <1> QED
    BY <1>1, <1>2, <1>3, <1>4, <1>5, <1>6, <1>7, <1>8 DEF Next, OwnerStep, WriterStep

\* Both backends keep the promise of DurableLog: what is durable only grows, in
\* the order of sending, and dropping the backend returns only when everything
\* sent is durable, unless the database failed.
THEOREM Implementation == Spec => ImplementsLog
  <1>1. Init => Log!Init
    BY DEF Init, Log!Init, Threads
  <1> QED
    BY InitInv, StepInv, StepRefines, <1>1, PTL DEF Spec, ImplementsLog, Log!Spec

-----------------------------------------------------------------------------
(* The backlog counter *)

\* Integer division, as far as a wrapping counter needs it: first, a product
\* grows with its factor.
LEMMA MulMono ==
    ASSUME NEW m \in Nat \ {0}, NEW p \in Int, NEW q \in Int, p >= q + 1
    PROVE  m * p >= m * q + m
  <1>1. p - q - 1 \in Nat
    OBVIOUS
  <1>2. m * (p - q - 1) >= 0
    BY <1>1
  <1> QED
    BY <1>2

\* Quotient and remainder exist.
LEMMA DivMod ==
    ASSUME NEW m \in Nat \ {0}, NEW x \in Int
    PROVE  /\ x \div m \in Int
           /\ x % m \in 0 .. (m - 1)
           /\ x = m * (x \div m) + (x % m)
  OBVIOUS

\* The remainder is unique.
LEMMA ModUnique ==
    ASSUME NEW m \in Nat \ {0}, NEW q \in Int, NEW r \in 0 .. (m - 1), NEW x \in Int,
           x = m * q + r
    PROVE  x % m = r
  <1> DEFINE p == x \div m
             s == x % m
  <1>1. p \in Int /\ s \in 0 .. (m - 1) /\ m * q + r = m * p + s
    BY DivMod
  <1>2. m * q \in Int /\ m * p \in Int
    BY <1>1
  <1> HIDE DEF p, s
  <1>3. CASE p >= q + 1
    <2>1. m * p >= m * q + m
      BY <1>1, <1>3, MulMono
    <2> QED
      BY <1>1, <1>2, <2>1
  <1>4. CASE q >= p + 1
    <2>1. m * q >= m * p + m
      BY <1>1, <1>4, MulMono
    <2> QED
      BY <1>1, <1>2, <2>1
  <1>5. CASE p = q
    <2>1. s = r
      BY <1>1, <1>2, <1>5
    <2> QED
      BY <2>1 DEF s
  <1> QED
    BY <1>1, <1>3, <1>4, <1>5

\* Counting up or down by one commutes with wrapping.
LEMMA AddWraps ==
    ASSUME NEW m \in Nat \ {0}, NEW x \in Int, NEW d \in {1, -1}
    PROVE  ((x % m) + d) % m = (x + d) % m
  <1> DEFINE q == x \div m
             r == x % m
  <1>1. q \in Int /\ r \in 0 .. (m - 1) /\ x = m * q + r
    BY DivMod
  <1> HIDE DEF q, r
  <1>2. m * q \in Int /\ m * 0 = 0 /\ m * 1 = m /\ m * (-1) = -m
        /\ m * (q + 1) = m * q + m /\ m * (q - 1) = m * q - m
    BY <1>1
  <1>3. CASE r + d \in 0 .. (m - 1)
    <2>1. (r + d) % m = r + d
      <3>1. r + d = m * 0 + (r + d)
        BY <1>1, <1>2
      <3> QED
        BY <1>1, <1>3, <3>1, ModUnique
    <2>2. (x + d) % m = r + d
      <3>1. x + d = m * q + (r + d)
        BY <1>1, <1>2
      <3> QED
        BY <1>1, <1>3, <3>1, ModUnique
    <2> QED
      BY <2>1, <2>2 DEF r
  <1>4. CASE r + d = m
    <2>1. (r + d) % m = 0
      <3>1. r + d = m * 1 + 0
        BY <1>1, <1>2, <1>4
      <3> QED
        BY <1>1, <3>1, ModUnique
    <2>2. (x + d) % m = 0
      <3>1. x + d = m * (q + 1) + 0
        BY <1>1, <1>2, <1>4
      <3> QED
        BY <1>1, <3>1, ModUnique
    <2> QED
      BY <2>1, <2>2 DEF r
  <1>5. CASE r + d = -1
    <2>1. (r + d) % m = m - 1
      <3>1. r + d = m * (-1) + (m - 1)
        BY <1>1, <1>2, <1>5
      <3> QED
        BY <1>1, <3>1, ModUnique
    <2>2. (x + d) % m = m - 1
      <3> DEFINE k == q - 1
                 y == x + d
      <3>1. k \in Int /\ y \in Int /\ m - 1 \in 0 .. (m - 1)
        BY <1>1
      <3>2. y = m * k + (m - 1)
        BY <1>1, <1>2, <1>5
      <3> HIDE DEF k, y
      <3>3. y % m = m - 1
        BY <3>1, <3>2, ModUnique
      <3> QED
        BY <3>3 DEF y
    <2> QED
      BY <2>1, <2>2 DEF r
  <1> QED
    BY <1>1, <1>3, <1>4, <1>5

\* the value the counter would have without wrapping
Underway == (sent - count) + (IF Busy THEN 1 ELSE 0)
            - (IF pc["owner"] = "count" THEN 1 ELSE 0)

\* BacklogAccounts in terms of Underway.
LEMMA UnderwayType ==
    IInv => /\ Underway \in Int
            /\ BacklogAccounts = (Alive => backlog = Underway % Modulus)
  BY StorageAssumption DEF IInv, TypeOK, Underway, BacklogAccounts

\* A step that moves the counter and the commands under way by the same amount.
LEMMA Counts ==
    ASSUME IInv, IInv', BacklogAccounts, Alive' => Alive,
           NEW d \in {1, -1},
           backlog' = Add(backlog, d), Underway' = Underway + d
    PROVE  BacklogAccounts'
  <1>1. Underway \in Int /\ Modulus \in Nat \ {0}
    BY UnderwayType, StorageAssumption
  <1>2. CASE Alive'
    <2>1. backlog = Underway % Modulus
      BY <1>2, UnderwayType
    <2>2. backlog' = ((Underway % Modulus) + d) % Modulus
      BY <2>1 DEF Add
    <2>3. backlog' = (Underway + d) % Modulus
      BY <1>1, <2>2, AddWraps
    <2> QED
      BY <2>3 DEF BacklogAccounts, Underway
  <1>3. CASE ~Alive'
    BY <1>3 DEF BacklogAccounts
  <1> QED
    BY <1>2, <1>3

\* A step that moves neither.
LEMMA SameCount ==
    ASSUME BacklogAccounts, Alive' => Alive, backlog' = backlog,
           Alive' => Underway' = Underway
    PROVE  BacklogAccounts'
  BY DEF BacklogAccounts, Underway

\* Every step keeps the counter and the commands under way in agreement.
LEMMA BacklogStep == IInv /\ IInv' /\ BacklogAccounts /\ [Next]_vars => BacklogAccounts'
  <1> SUFFICES ASSUME IInv, IInv', BacklogAccounts, [Next]_vars
               PROVE  BacklogAccounts'
    OBVIOUS
  <1>0. sent \in Int /\ count \in Int /\ pc \in [Threads -> Owner \union Writer]
    BY StorageAssumption DEF IInv, TypeOK
  <1> USE DEF Threads
  <1>1. CASE \E cmd \in Command : Send(cmd)
    <2>1. /\ Alive /\ sent' = sent + 1 /\ UNCHANGED <<count, backlog>> /\ Busy' = Busy
          /\ pc["owner"] # "count" /\ pc'["owner"] = "count"
      BY <1>0, <1>1 DEF Send, Goto, Alive, At, Busy, dbVars, metricsVars
    <2>2. Underway' = Underway
      BY <1>0, <2>1 DEF Underway
    <2> QED
      BY <2>1, <2>2, SameCount
  <1>2. CASE IncBacklog
    <2>1. /\ Alive' = Alive /\ UNCHANGED <<sent, count>> /\ Busy' = Busy
          /\ pc["owner"] = "count" /\ pc'["owner"] # "count" /\ backlog' = Add(backlog, 1)
      BY <1>0, <1>2 DEF IncBacklog, Goto, Alive, At, Busy, dbVars
    <2>2. Underway' = Underway + 1
      BY <1>0, <2>1 DEF Underway
    <2> QED
      BY <2>1, <2>2, Counts
  <1>3. CASE DecBacklog
    <2>1. /\ Alive' = Alive /\ UNCHANGED <<sent, count>> /\ Busy /\ ~Busy'
          /\ pc'["owner"] = pc["owner"] /\ backlog' = Add(backlog, -1)
      BY <1>0, <1>3 DEF DecBacklog, Goto, Alive, At, Busy, dbVars
    <2>2. Underway' = Underway + (-1)
      BY <1>0, <2>1 DEF Underway
    <2> QED
      BY <2>1, <2>2, Counts
  <1>4. CASE Execute
    <2>1. /\ Alive /\ count' = count + 1 /\ UNCHANGED <<sent, backlog>> /\ ~Busy /\ Busy'
          /\ pc'["owner"] = pc["owner"]
      BY <1>0, <1>4 DEF Execute, Goto, Alive, At, Busy, metricsVars
    <2>2. Underway' = Underway
      BY <1>0, <2>1 DEF Underway
    <2> QED
      BY <2>1, <2>2, SameCount
  <1>5. CASE BeginPanics \/ ExecutePanics
    BY <1>0, <1>5 DEF BeginPanics, ExecutePanics, Panics, Goto, Alive, BacklogAccounts
  <1>6. CASE CommitBatch \/ FinalCommit
    <2>1. /\ Alive /\ UNCHANGED <<sent, count, backlog>> /\ Busy' = Busy
          /\ pc'["owner"] = pc["owner"]
      BY <1>0, <1>6 DEF CommitBatch, FinalCommit, CommitWith, Goto, Alive, At, Busy, metricsVars
    <2> QED
      BY <2>1, SameCount DEF Underway
  <1>7. CASE Close \/ Join \/ PublishMetrics("owner")
    <2>1. /\ Alive' = Alive /\ UNCHANGED <<sent, count, backlog>> /\ Busy' = Busy
          /\ pc["owner"] # "count" /\ pc'["owner"] # "count"
      BY <1>0, <1>7 DEF Close, Join, PublishMetrics, LoadFlush, LoadBacklog, Publish, Goto,
                        Alive, At, Busy, dbVars, metricsVars
    <2> QED
      BY <2>1, SameCount DEF Underway
  <1>8. CASE Begin \/ ReceiveShutdown \/ SetLastFlush \/ PublishMetrics("writer")
    <2>1. /\ Alive /\ UNCHANGED <<sent, count, backlog>> /\ pc'["owner"] = pc["owner"]
      BY <1>0, <1>8 DEF Begin, ReceiveShutdown, SetLastFlush, PublishMetrics, LoadFlush,
                        LoadBacklog, Publish, Goto, Alive, dbVars, metricsVars
    <2>2. Alive' => Busy' = Busy
      <3>1. resume \in {"recv", "begin", "dec", "done"}
        BY DEF IInv, TypeOK
      <3>2. CASE Begin
        BY <1>0, <3>1, <3>2 DEF Begin, Goto, At, Busy, Alive, IInv, LogInv, TypeOK
      <3>3. CASE ReceiveShutdown
        BY <1>0, <3>3 DEF ReceiveShutdown, Goto, At, Busy
      <3>4. CASE SetLastFlush
        BY <1>0, <3>4 DEF SetLastFlush, Goto, At, Busy
      <3>5. CASE PublishMetrics("writer")
        BY <1>0, <3>1, <3>5 DEF PublishMetrics, LoadFlush, LoadBacklog, Publish, Goto, At, Busy
      <3> QED
        BY <1>8, <3>2, <3>3, <3>4, <3>5
    <2> QED
      BY <2>1, <2>2, SameCount DEF Underway
  <1>9. CASE UNCHANGED vars
    BY <1>9 DEF vars, BacklogAccounts, Alive, Busy, At
  <1> QED
    BY <1>1, <1>2, <1>3, <1>4, <1>5, <1>6, <1>7, <1>8, <1>9 DEF Next, OwnerStep, WriterStep

\* The backlog counter never loses count, for every width of the counter: as
\* long as the writer lives it is, modulo its width, the number of commands
\* sent and counted but not yet counted down.
THEOREM BacklogCorrect == Spec => []BacklogAccounts
  <1>1. Init => BacklogAccounts
    BY StorageAssumption, ModUnique DEF Init, BacklogAccounts, Busy, At, Alive, Threads
  <1> QED
    BY InitInv, StepInv, BacklogStep, <1>1, PTL DEF Spec

-----------------------------------------------------------------------------
(* Batches: what a crash or a failure can cost *)

\* Without an open transaction nothing is uncommitted.  The rows of the
\* transaction are of the batch of the last command received, and that batch
\* is incomplete unless its commit is next.  A transaction begins with nothing.
BatchInv ==
    /\ txn.status # "open" => txn.rows = {}
    /\ \A i \in txn.rows : Batch(i) = Batch(count)
    /\ pc["writer"] # "commit" /\ txn.rows # {} => ~CommitDue(count)
    /\ At \in {"opening", "begin"} => txn.rows = {}

\* The quotient is unique.
LEMMA DivUnique ==
    ASSUME NEW m \in Nat \ {0}, NEW q \in Int, NEW r \in 0 .. (m - 1), NEW x \in Int,
           x = m * q + r
    PROVE  x \div m = q
  <1> DEFINE p == x \div m
             s == x % m
  <1>1. p \in Int /\ s \in 0 .. (m - 1) /\ m * q + r = m * p + s
    BY DivMod
  <1>2. m * q \in Int /\ m * p \in Int
    BY <1>1
  <1> HIDE DEF p, s
  <1>3. ~(p >= q + 1)
    <2> SUFFICES ASSUME p >= q + 1 PROVE FALSE
      OBVIOUS
    <2>1. m * p >= m * q + m
      BY <1>1, MulMono
    <2> QED
      BY <1>1, <1>2, <2>1
  <1>4. ~(q >= p + 1)
    <2> SUFFICES ASSUME q >= p + 1 PROVE FALSE
      OBVIOUS
    <2>1. m * q >= m * p + m
      BY <1>1, MulMono
    <2> QED
      BY <1>1, <1>2, <2>1
  <1>5. p = q
    BY <1>1, <1>3, <1>4
  <1> QED
    BY <1>5 DEF p

\* As long as no commit is due, the next command is of the same batch.
LEMMA BatchGoesOn ==
    ASSUME NEW c \in Nat, ~CommitDue(c)
    PROVE  Batch(c + 1) = Batch(c)
  <1> DEFINE m == CommitEvery
             q == c \div m
             r == c % m
             k == r - 1
             x == c - 1
  <1>1. m \in Nat \ {0}
    BY StorageAssumption
  <1>2. q \in Int /\ r \in 0 .. (m - 1) /\ c = m * q + r /\ r # 0
    BY <1>1, DivMod DEF CommitDue
  <1>3. m * q \in Int
    BY <1>1, <1>2
  <1> HIDE DEF q, r
  <1>4. k \in 0 .. (m - 1) /\ x \in Int /\ x = m * q + k
    BY <1>1, <1>2, <1>3
  <1> HIDE DEF m, k, x
  <1>5. x \div m = q
    BY <1>1, <1>2, <1>4, DivUnique
  <1>6. (c + 1) - 1 = c
    OBVIOUS
  <1> QED
    BY <1>5, <1>6 DEF Batch, m, q, x

\* A batch is no longer than CommitEvery.
LEMMA BatchSpan ==
    ASSUME NEW c \in Nat, NEW i \in 1 .. c, Batch(i) = Batch(c)
    PROVE  i > c - CommitEvery
  <1> DEFINE m == CommitEvery
             x == i - 1
             y == c - 1
             q == x \div m
             r == x % m
             p == y \div m
             s == y % m
  <1>1. m \in Nat \ {0} /\ x \in Int /\ y \in Int
    BY StorageAssumption
  <1>2. q \in Int /\ r \in 0 .. (m - 1) /\ x = m * q + r
    BY <1>1, DivMod
  <1>3. p \in Int /\ s \in 0 .. (m - 1) /\ y = m * p + s
    BY <1>1, DivMod
  <1>4. p = q
    BY DEF Batch
  <1>5. m * q \in Int
    BY <1>1, <1>2
  <1> HIDE DEF p, q, r, s
  <1> QED
    BY <1>1, <1>2, <1>3, <1>4, <1>5

\* What is uncommitted is of one batch with the next command.
LEMMA RowsWithNext ==
    ASSUME IInv, BatchInv, pc["writer"] = "recv"
    PROVE  \A i \in txn.rows : Batch(i) = Batch(count + 1)
  <1>1. count \in Nat
    BY DEF IInv, TypeOK
  <1> QED
    BY <1>1, BatchGoesOn DEF BatchInv

\* Executing a command: what it loses is of its own batch and noted.
LEMMA ExecuteBatch ==
    ASSUME IInv, BatchInv, LossIsAccounted, Execute
    PROVE  BatchInv' /\ LossIsAccounted'
  <1>1. /\ pc["writer"] = "recv" /\ queue # <<>> /\ Head(queue) # "Shutdown"
        /\ count' = count + 1
        /\ pc'["writer"] = IF CommitDue(count + 1) THEN "commit" ELSE "dec"
    BY DEF Execute, Goto, IInv, TypeOK, Threads
  <1>2. PICK o \in Execution(Head(queue), txn, count + 1) :
           /\ o.result # "panic"
           /\ durable' = durable \union o.kept
           /\ txn' = AfterStatement(o)
           /\ health' = Reported(o, count + 1)
           /\ ignored' = IF o.result = "ignored" THEN ignored \union {count + 1} ELSE ignored
    BY DEF Execute
  <1>3. count \in Nat /\ count + 1 \in Nat /\ txn.rows \subseteq 1 .. count
    BY DEF IInv, TypeOK
  <1>4. StatementShape(o, txn, count + 1)
    BY <1>1, <1>3, HeadIsCommand, ExecutionShape DEF IInv
  <1>5. /\ txn'.rows \subseteq txn.rows \union {count + 1}
        /\ txn' \in Transaction
    BY <1>2, <1>3, <1>4, AfterStatementShape DEF IInv
  <1>6. /\ txn'.status # "open" => txn'.rows = {}
        /\ \/ txn.rows \union {count + 1} \subseteq durable' \union txn'.rows
           \/ count + 1 \in health' \union ignored'
    <2>1. AfterStatement(o) = o.txn \/ AfterStatement(o) = Fresh
      BY DEF AfterStatement, DuckDbRollback
    <2>2. CASE o = Inserted(txn, count + 1) /\ txn.status = "open"
      <3>1. o.txn = [txn EXCEPT !.rows = @ \union {count + 1}] /\ o.result = "ok"
        BY <2>2 DEF Inserted, Outcome
      <3>2. txn' = [txn EXCEPT !.rows = @ \union {count + 1}]
        BY <1>2, <3>1 DEF AfterStatement
      <3>3. txn'.status = txn.status /\ txn'.rows = txn.rows \union {count + 1}
        BY <3>2 DEF IInv, TypeOK, Transaction
      <3> QED
        BY <2>2, <3>3
    <2>3. CASE o.kept = {count + 1} /\ o.txn = NoTransaction /\ txn.status # "open"
      BY <1>2, <2>1, <2>3 DEF BatchInv, NoTransaction, Fresh
    <2>4. CASE /\ o.txn \in {txn, NoTransaction, [status |-> "aborted", rows |-> {}]}
               /\ o.result \in {"err", "ignored", "panic"}
      <3>1. txn'.status # "open" => txn'.rows = {}
        BY <1>2, <2>1, <2>4 DEF BatchInv, NoTransaction, Fresh
      <3>2. count + 1 \in health' \union ignored'
        BY <1>2, <2>4 DEF Reported
      <3> QED
        BY <3>1, <3>2
    <2> QED
      BY <1>4, <2>2, <2>3, <2>4 DEF StatementShape
  <1>7. \A i \in txn.rows \union {count + 1} : Batch(i) = Batch(count + 1)
    BY <1>1, RowsWithNext
  <1>8. BatchInv'
    <2>1. pc'["writer"] # "commit" => ~CommitDue(count')
      BY <1>1
    <2>2. At' \notin {"opening", "begin"}
      BY <1>1 DEF At
    <2> QED
      BY <1>1, <1>5, <1>6, <1>7, <2>1, <2>2 DEF BatchInv
  <1>9. LossIsAccounted'
    <2>1. Alive
      BY <1>1 DEF Alive
    <2>2. durable \subseteq durable' /\ health \subseteq health' /\ ignored \subseteq ignored'
      BY <1>2 DEF Reported
    <2> SUFFICES ASSUME NEW i \in Lost'
                 PROVE  \E f \in health' \union ignored' : f >= i /\ Batch(f) = Batch(i)
      BY DEF LossIsAccounted
    <2>3. i \in 1 .. (count + 1) /\ i \notin durable' \union txn'.rows
      BY <1>1 DEF Lost
    <2>4. CASE i \in Lost
      BY <2>1, <2>2, <2>4 DEF LossIsAccounted
    <2>5. CASE i \notin Lost
      <3>1. i \in txn.rows \union {count + 1}
        BY <1>3, <2>2, <2>3, <2>5 DEF Lost
      <3>2. count + 1 \in health' \union ignored' /\ count + 1 >= i
        BY <1>3, <1>6, <2>3, <3>1
      <3> QED
        BY <1>7, <3>1, <3>2
    <2> QED
      BY <2>4, <2>5
  <1> QED
    BY <1>8, <1>9

\* A commit leaves nothing uncommitted, and reports what it loses.
LEMMA CommitBatches ==
    ASSUME IInv, BatchInv, LossIsAccounted, CommitBatch \/ FinalCommit
    PROVE  BatchInv' /\ LossIsAccounted'
  <1>1. PICK o \in Committed : CommitWith(o) /\ txn' \in {o.txn, AfterCommit(o)}
    BY DEF CommitBatch, FinalCommit
  <1>2. CommitShape(o, txn)
    BY CommittedShape DEF IInv
  <1>3. /\ durable' = durable \union o.kept /\ health' = Reported(o, count)
        /\ UNCHANGED <<count, ignored>> /\ pc'["writer"] = "flush"
    BY <1>1 DEF CommitWith, Goto, IInv, TypeOK, Threads
  <1>4. /\ txn'.rows = {}
        /\ txn.rows \subseteq durable' \/ count \in health'
    <2>1. txn' \in {o.txn, Fresh}
      BY <1>1 DEF AfterCommit
    <2>2. CASE o.kept = txn.rows /\ o.txn = NoTransaction
      BY <1>3, <2>1, <2>2 DEF NoTransaction, Fresh
    <2>3. CASE txn.status # "open" /\ o.txn \in {txn, NoTransaction}
      BY <2>1, <2>3 DEF BatchInv, NoTransaction, Fresh
    <2>4. CASE txn.status = "open" /\ o.kept = {} /\ o.fault = 1
      <3>1. o = Outcome(NoTransaction, {}, "err", 1)
        BY <2>4 DEF Committed, DuckDBCommit, SQLiteCommit, Outcome
      <3>2. o.txn = NoTransaction /\ o.result = "err"
        BY <3>1 DEF Outcome
      <3> QED
        BY <1>3, <2>1, <3>2 DEF NoTransaction, Fresh, Reported
    <2> QED
      BY <1>2, <2>2, <2>3, <2>4 DEF CommitShape
  <1>5. BatchInv'
    BY <1>4 DEF BatchInv
  <1>6. LossIsAccounted'
    <2>1. Alive
      BY DEF CommitBatch, FinalCommit, Alive
    <2>2. durable \subseteq durable' /\ health \subseteq health' /\ ignored' = ignored
      BY <1>3 DEF Reported
    <2> SUFFICES ASSUME NEW i \in Lost'
                 PROVE  \E f \in health' \union ignored' : f >= i /\ Batch(f) = Batch(i)
      BY DEF LossIsAccounted
    <2>3. i \in 1 .. count /\ i \notin durable'
      BY <1>3 DEF Lost
    <2>4. CASE i \in Lost
      BY <2>1, <2>2, <2>4 DEF LossIsAccounted
    <2>5. CASE i \notin Lost
      <3>1. i \in txn.rows
        BY <2>2, <2>3, <2>5 DEF Lost
      <3>2. count \in health' /\ count >= i
        BY <1>4, <2>3, <3>1 DEF IInv, TypeOK
      <3> QED
        BY <3>1, <3>2 DEF BatchInv
    <2> QED
      BY <2>4, <2>5
  <1> QED
    BY <1>5, <1>6

\* A step that touches neither the tables nor what is reported.
LEMMA SameBatch ==
    ASSUME BatchInv, LossIsAccounted,
           UNCHANGED <<count, durable, health, ignored>>, txn' = txn,
           pc["writer"] # "commit", At' \in {"opening", "begin"} => At \in {"opening", "begin"},
           Alive' \/ pc'["writer"] = "done" => Alive \/ pc["writer"] = "done"
    PROVE  BatchInv' /\ LossIsAccounted'
  <1>1. BatchInv'
    BY DEF BatchInv, CommitDue, Batch
  <1>2. LossIsAccounted'
    BY DEF LossIsAccounted, Lost, Batch
  <1> QED
    BY <1>1, <1>2

LEMMA BatchStep ==
    IInv /\ BatchInv /\ LossIsAccounted /\ [Next]_vars => BatchInv' /\ LossIsAccounted'
  <1> SUFFICES ASSUME IInv, BatchInv, LossIsAccounted, [Next]_vars
               PROVE  BatchInv' /\ LossIsAccounted'
    OBVIOUS
  <1>0. pc \in [Threads -> Owner \union Writer] /\ pc["writer"] \in Writer
        /\ resume \in {"recv", "begin", "dec", "done"}
    BY DEF IInv, TypeOK
  <1> USE DEF Threads
  <1>1. CASE \/ \E cmd \in Command : Send(cmd)
             \/ Close \/ IncBacklog \/ Join \/ PublishMetrics("owner")
    <2>1. /\ UNCHANGED <<count, txn, durable, health, ignored, resume>>
          /\ pc'["writer"] = pc["writer"]
      BY <1>0, <1>1 DEF Send, Close, IncBacklog, Join, PublishMetrics, LoadFlush, LoadBacklog,
                        Publish, Goto, dbVars
    <2>2. BatchInv'
      BY <2>1 DEF BatchInv, At, CommitDue, Batch
    <2>3. LossIsAccounted'
      BY <2>1 DEF LossIsAccounted, Lost, Alive, Batch
    <2> QED
      BY <2>2, <2>3
  <1>2. CASE ReceiveShutdown \/ SetLastFlush \/ DecBacklog
    <2>1. /\ UNCHANGED <<count, txn, durable, health, ignored>>
          /\ pc["writer"] # "commit" /\ Alive
          /\ At' \in {"opening", "begin"} => At \in {"opening", "begin"}
      BY <1>0, <1>2 DEF ReceiveShutdown, SetLastFlush, DecBacklog, Goto, dbVars, At, Alive
    <2> QED
      BY <2>1, SameBatch
  <1>3. CASE PublishMetrics("writer")
    <2>1. /\ UNCHANGED <<count, txn, durable, health, ignored>>
          /\ pc["writer"] # "commit" /\ Alive
          /\ At' = At
      BY <1>0, <1>3 DEF PublishMetrics, LoadFlush, LoadBacklog, Publish, Goto, dbVars, At, Alive
    <2> QED
      BY <2>1, SameBatch
  <1>4. CASE Begin
    <2>1. /\ UNCHANGED <<count, durable, health, ignored>> /\ txn' = Fresh
          /\ At \in {"opening", "begin"} /\ At' \notin {"opening", "begin"} /\ Alive
      BY <1>0, <1>4 DEF Begin, Goto, At, Alive
    <2>2. txn.rows = {} /\ txn'.rows = {}
      BY <2>1 DEF BatchInv, Fresh
    <2>3. BatchInv'
      BY <2>1, <2>2 DEF BatchInv
    <2>4. LossIsAccounted'
      BY <2>1, <2>2 DEF LossIsAccounted, Lost, Batch
    <2> QED
      BY <2>3, <2>4
  <1>5. CASE BeginPanics \/ ExecutePanics
    <2>1. txn' = NoTransaction /\ pc'["writer"] = "panicked"
      BY <1>0, <1>5 DEF BeginPanics, ExecutePanics, Panics, Goto
    <2>2. BatchInv'
      BY <2>1 DEF BatchInv, NoTransaction
    <2>3. LossIsAccounted'
      BY <2>1 DEF LossIsAccounted, Alive
    <2> QED
      BY <2>2, <2>3
  <1>6. CASE UNCHANGED vars
    <2>1. BatchInv'
      BY <1>6 DEF vars, BatchInv, At, CommitDue, Batch
    <2>2. LossIsAccounted'
      BY <1>6 DEF vars, LossIsAccounted, Lost, Alive, Batch
    <2> QED
      BY <2>1, <2>2
  <1> QED
    BY <1>1, <1>2, <1>3, <1>4, <1>5, <1>6, ExecuteBatch, CommitBatches
       DEF Next, OwnerStep, WriterStep

LEMMA BatchInit == Init => BatchInv /\ LossIsAccounted
  <1> SUFFICES ASSUME Init PROVE BatchInv /\ LossIsAccounted
    OBVIOUS
  <1>1. txn.rows = {} /\ count = 0
    BY DEF Init, NoTransaction
  <1>2. Lost = {}
    BY <1>1 DEF Lost
  <1> QED
    BY <1>1, <1>2 DEF BatchInv, LossIsAccounted

\* A command is lost only with a failure noted in its own batch, at it or
\* after it, for every batch size and any number of faults.
THEOREM LossesAccounted == Spec => []LossIsAccounted
  BY InitInv, StepInv, BatchInit, BatchStep, PTL DEF Spec

\* A process killed at any point loses at most the last CommitEvery commands
\* it received, if the database did not fail.
THEOREM CrashLosesAtMostABatch == Spec => []CrashLosesOneBatch
  <1>1. IInv /\ BatchInv => CrashLosesOneBatch
    <2> SUFFICES ASSUME IInv, BatchInv, faults = 0, NEW i \in (1 .. count) \ durable
                 PROVE  i > count - CommitEvery
      BY DEF CrashLosesOneBatch
    <2>1. i \in txn.rows /\ count \in Nat
      BY DEF IInv, TypeOK, LogInv, CleanInv
    <2> QED
      BY <2>1, BatchSpan DEF BatchInv
  <1> QED
    BY <1>1, InitInv, StepInv, BatchInit, BatchStep, PTL DEF Spec

-----------------------------------------------------------------------------
(* The last metrics *)

\* The metrics of the last flush on their way to the channel.
MetricsInv ==
    /\ resume = "done" => pc["writer"] \in {"flush", "loadFlush", "loadBacklog", "publish", "done"}
    /\ pc["writer"] = "done" => resume = "done"
    /\ resume = "done" /\ pc["writer"] # "flush" => lastFlush = sent
    /\ resume = "done" /\ pc["writer"] \in {"loadBacklog", "publish"}
         => snapshot["writer"].last_flush_at = sent
    /\ resume = "done" /\ pc["writer"] = "publish"
         => snapshot["writer"].backlog_count = 0
    /\ pc["writer"] = "done" => published = [backlog_count |-> 0, last_flush_at |-> sent]
\* When the writer stops everything has been counted down.
LEMMA StoppedBacklog ==
    ASSUME IInv, BacklogAccounts, pc["writer"] \in {"flush", "loadFlush", "loadBacklog", "publish"},
           resume = "done"
    PROVE  backlog = 0 /\ count = sent /\ pc["owner"] \in {"joining", "closed"}
  <1>1. At = "done" /\ Alive /\ Finishing /\ ~Busy
    BY DEF At, Alive, Finishing, Busy
  <1>2. count = sent /\ pc["owner"] \in {"joining", "closed"}
    BY <1>1 DEF IInv, LogInv, StopInv
  <1>3. Underway = 0
    BY <1>1, <1>2, StorageAssumption DEF Underway, IInv, TypeOK
  <1>4. 0 % Modulus = 0
    <2>1. 0 = Modulus * 0 + 0 /\ 0 \in 0 .. (Modulus - 1) /\ Modulus \in Nat \ {0}
      BY StorageAssumption
    <2> QED
      BY <2>1, ModUnique
  <1> QED
    BY <1>1, <1>2, <1>3, <1>4, UnderwayType

LEMMA MetricsStep ==
    IInv /\ BacklogAccounts /\ MetricsInv /\ [Next]_vars => MetricsInv'
  <1> SUFFICES ASSUME IInv, BacklogAccounts, MetricsInv, [Next]_vars
               PROVE  MetricsInv'
    OBVIOUS
  <1>0. pc \in [Threads -> Owner \union Writer] /\ pc["writer"] \in Writer
        /\ resume \in {"recv", "begin", "dec", "done"}
        /\ snapshot \in [Threads -> StorageMetrics]
    BY DEF IInv, TypeOK
  <1> USE DEF Threads
  <1>1. pc["writer"] = "done" \/ resume = "done" => pc["owner"] \in {"joining", "closed"}
    BY StoppedBacklog DEF MetricsInv, IInv, LogInv, StopInv, Finishing, At
  <1>2. CASE \/ \E cmd \in Command : Send(cmd)
             \/ Close \/ IncBacklog \/ PublishMetrics("owner")
    <2>1. pc["owner"] \notin {"joining", "closed"} /\ UNCHANGED resume /\ pc'["writer"] = pc["writer"]
      BY <1>0, <1>2 DEF Send, Close, IncBacklog, PublishMetrics, LoadFlush, LoadBacklog, Publish,
                        Goto
    <2> QED
      BY <1>1, <2>1 DEF MetricsInv
  <1>3. CASE Join
    BY <1>0, <1>3 DEF Join, Goto, metricsVars, MetricsInv
  <1>4. CASE Begin \/ Execute \/ ReceiveShutdown \/ DecBacklog \/ BeginPanics \/ ExecutePanics
    <2>1. resume # "done" /\ resume' # "done" /\ pc'["writer"] # "done"
      BY <1>0, <1>4 DEF Begin, Execute, ReceiveShutdown, DecBacklog, BeginPanics, ExecutePanics,
                        Panics, Goto, MetricsInv
    <2> QED
      BY <2>1 DEF MetricsInv
  <1>5. CASE CommitBatch \/ FinalCommit
    <2>1. pc'["writer"] = "flush"
      BY <1>0, <1>5 DEF CommitBatch, FinalCommit, CommitWith, Goto
    <2> QED
      BY <2>1 DEF MetricsInv
  <1>6. CASE SetLastFlush
    <2>1. /\ pc["writer"] = "flush" /\ pc'["writer"] = "loadFlush" /\ lastFlush' = count
          /\ UNCHANGED <<resume, sent>>
      BY <1>0, <1>6 DEF SetLastFlush, Goto
    <2> QED
      BY <2>1, StoppedBacklog DEF MetricsInv
  <1>7. CASE LoadFlush("writer")
    <2>1. /\ pc["writer"] = "loadFlush" /\ pc'["writer"] = "loadBacklog"
          /\ snapshot'["writer"].last_flush_at = lastFlush
          /\ UNCHANGED <<resume, sent, lastFlush>>
      BY <1>0, <1>7 DEF LoadFlush, Goto, StorageMetrics
    <2> QED
      BY <2>1 DEF MetricsInv
  <1>8. CASE LoadBacklog("writer")
    <2>1. /\ pc["writer"] = "loadBacklog" /\ pc'["writer"] = "publish"
          /\ snapshot'["writer"].last_flush_at = snapshot["writer"].last_flush_at
          /\ snapshot'["writer"].backlog_count = backlog
          /\ UNCHANGED <<resume, sent, lastFlush>>
      BY <1>0, <1>8 DEF LoadBacklog, Goto, StorageMetrics
    <2> QED
      BY <2>1, StoppedBacklog DEF MetricsInv
  <1>9. CASE Publish("writer")
    <2>1. /\ pc["writer"] = "publish" /\ pc'["writer"] = resume
          /\ published' = snapshot["writer"]
          /\ UNCHANGED <<resume, sent, lastFlush>>
      BY <1>0, <1>9 DEF Publish, Goto
    <2>2. resume = "done" => published' = [backlog_count |-> 0, last_flush_at |-> sent]
      BY <1>0, <2>1 DEF MetricsInv, StorageMetrics
    <2> QED
      BY <1>0, <2>1, <2>2 DEF MetricsInv
  <1>10. CASE UNCHANGED vars
    BY <1>10 DEF vars, MetricsInv
  <1> QED
    BY <1>2, <1>3, <1>4, <1>5, <1>6, <1>7, <1>8, <1>9, <1>10
       DEF Next, OwnerStep, WriterStep, PublishMetrics

\* However the two threads' publications overtake each other, a backend that
\* has been closed leaves the final metrics.
THEOREM ClosedMetricsAreFinal == Spec => []ClosedMetricsFinal
  <1>1. Init => BacklogAccounts /\ MetricsInv
    <2>1. Init => BacklogAccounts
      BY StorageAssumption, ModUnique DEF Init, BacklogAccounts, Busy, At, Alive, Threads
    <2> QED
      BY <2>1 DEF Init, MetricsInv, Threads
  <1>2. MetricsInv => ClosedMetricsFinal
    BY DEF MetricsInv, ClosedMetricsFinal
  <1> QED
    BY <1>1, <1>2, InitInv, StepInv, BacklogStep, MetricsStep, PTL DEF Spec

=============================================================================
