------------------------------ MODULE Pipeline ------------------------------
(***************************************************************************)
(* The daemon's pipeline (src/daemon/pipeline.rs and pipeline/*.rs): six   *)
(* threads connected by unbounded crossbeam channels,                      *)
(*                                                                         *)
(*    ingest -> envelope -> {hints, compression, snapshot, storage}        *)
(*    hints -> {storage, snapshot}   compression -> storage                *)
(*    snapshot -> storage                                                  *)
(*                                                                         *)
(* and the protocol by which it shuts down.  A handler first decides what  *)
(* it sends (out[t], in program order); every send is then a step of its   *)
(* own, so that the sends of all the threads interleave.  A thread takes   *)
(* its next message only when it has nothing left to send.                 *)
(*                                                                         *)
(* Time is abstract here: whenever the state engine compares timestamps,   *)
(* any outcome is possible.                                                *)
(***************************************************************************)
EXTENDS Activity, Functions

CONSTANTS
    PersistRaw,      \* persist_raw_events of the configuration
    MayPanic,        \* the stages whose thread may panic
    SourceMayClose,  \* whether every event sender may be dropped
    MaxEvents,       \* bound: events the hooks produce
    MaxIdleTicks,    \* bound: ticks sent while no event is pending
    MaxTimeouts      \* bound: state transitions caused by ticks

Stage == {"ingest", "envelope", "hints", "compression", "snapshot", "storage"}

Chan == {"events", "derive", "hints", "compression", "snapshot", "storage"}

ASSUME PipelineAssumption ==
    /\ PersistRaw \in BOOLEAN
    /\ SourceMayClose \in BOOLEAN
    /\ MayPanic \subseteq Stage
    /\ MaxEvents \in Nat
    /\ MaxIdleTicks \in Nat
    /\ MaxTimeouts \in Nat

\* the channel a stage receives from, and the stages that hold a sender of it
Inbox == [t \in Stage |->
            CASE t = "ingest"   -> "events"
              [] t = "envelope" -> "derive"
              [] OTHER          -> t]

Senders == [c \in Chan |->
              CASE c = "events"      -> {}
                [] c = "derive"      -> {"ingest"}
                [] c = "hints"       -> {"envelope"}
                [] c = "compression" -> {"envelope"}
                [] c = "snapshot"    -> {"envelope", "hints"}
                [] c = "storage"     -> {"envelope", "hints", "compression", "snapshot"}]

VARIABLES
    status,      \* [Stage -> "run", "last" (left its loop), "done" or "panicked"]
    queue,       \* [Chan -> the messages in the channel]
    out,         \* [Stage -> the sends its current handler still has to do]
    source,      \* the hooks and the signal handler
    pending,     \* ingest: raw events not yet flushed
    event_count, \* ingest: raw events received
    work,        \* envelope: the batch it is in the middle of
    derive,      \* envelope: adapter, lock deriver and state engine
    builder,     \* hints: its RecordBuilder
    rollup,      \* compression: raw events and compact batches seen
    snap,        \* snapshot: its counters and shutdown flags
    bus,         \* the snapshot last published on the SnapshotBus
    stored       \* storage: what it handed to the backend

vars == <<status, queue, out, source, pending, event_count, work, derive,
          builder, rollup, snap, bus, stored>>

-----------------------------------------------------------------------------
(* Messages (pipeline/types.rs, StorageCommand of crates/storage/src/lib.rs) *)

Shutdown == [kind |-> "Shutdown"]
Tick     == [kind |-> "Tick"]
Publish  == [kind |-> "Publish"]
HintsComplete == [kind |-> "HintsComplete"]

Batch(events)  == [kind |-> "Batch", events |-> events]
Process(events) == [kind |-> "Process", events |-> events]

NoTransition == [from |-> NoState, to |-> NoState]

Update(hints, signals, focus, tr) ==
    [kind |-> "Update", hints |-> hints, signals |-> signals,
     focus |-> focus, tr |-> tr]

RecordMsg(r)        == [kind |-> "Record", rec |-> r]
EnvelopeCmd(env)    == [kind |-> "Envelope", signal |-> IsSignal(env)]
TransitionCmd(tr)   == [kind |-> "Transition", tr |-> tr]
RawEventCmd(e)      == [kind |-> "RawEvent", event |-> e]
CompactEventsCmd(n) == [kind |-> "CompactEvents", raw |-> n]

To(c, m) == [to |-> c, msg |-> m]

Transition == [from : ActivityState, to : ActivityState]

OptTransition == Transition \cup {NoTransition}

Record == [id : Nat, state : ActivityState]

EventsMsg      == [kind : {"Event"}, event : RawEvent] \cup {Shutdown}
DeriveMsg      == [kind : {"Batch"}, events : Seq(RawEvent)] \cup {Tick, Shutdown}
CompressionMsg == [kind : {"Process"}, events : Seq(RawEvent)] \cup {Shutdown}
SnapshotMsg    == [kind : {"Update"}, hints : Nat, signals : Nat,
                   focus : OptWindow, tr : OptTransition]
                  \cup [kind : {"Record"}, rec : Record]
                  \cup {Publish, HintsComplete, Shutdown}
StorageMsg     == [kind : {"Envelope"}, signal : BOOLEAN]
                  \cup [kind : {"Record"}, rec : Record]
                  \cup [kind : {"Transition"}, tr : Transition]
                  \cup [kind : {"RawEvent"}, event : RawEvent]
                  \cup [kind : {"CompactEvents"}, raw : Nat]
                  \cup {Shutdown}

\* what a channel carries
Message(c) ==
    CASE c = "events"      -> EventsMsg
      [] c = "derive"      -> DeriveMsg
      [] c = "hints"       -> Hint
      [] c = "compression" -> CompressionMsg
      [] c = "snapshot"    -> SnapshotMsg
      [] c = "storage"     -> StorageMsg

AnyMessage == EventsMsg \cup DeriveMsg \cup Hint \cup CompressionMsg
                \cup SnapshotMsg \cup StorageMsg

Send == [to : {"derive"}, msg : DeriveMsg]
        \cup [to : {"hints"}, msg : Hint]
        \cup [to : {"compression"}, msg : CompressionMsg]
        \cup [to : {"snapshot"}, msg : SnapshotMsg]
        \cup [to : {"storage"}, msg : StorageMsg]

-----------------------------------------------------------------------------
(* Channels and threads *)

Status == {"run", "last", "done", "panicked"}

Gone(t) == status[t] \in {"done", "panicked"}

\* recv() returns Err: the channel is empty and every sender is dropped
Closed(c) ==
    /\ queue[c] = <<>>
    /\ IF c = "events" THEN ~source.open
                       ELSE \A t \in Senders[c] : Gone(t)

Running(t) == status[t] = "run" /\ out[t] = <<>>

Receives(t, kind) ==
    /\ Running(t)
    /\ queue[Inbox[t]] # <<>>
    /\ Head(queue[Inbox[t]]).kind = kind

Msg(t) == Head(queue[Inbox[t]])

ReceiverGone(c) == \E t \in Stage : Inbox[t] = c /\ Gone(t)

CanSend(sends) == sends # <<>> /\ ~ReceiverGone(Head(sends).to)

\* Thread t goes on in status st with these sends to do.  What a handler does
\* before its first send no other thread can see, so the two are one step; a
\* first send that is bound to fail is left to Deliver.
Continue(t, st, sends, q) ==
    /\ status' = [status EXCEPT ![t] = st]
    /\ \/ /\ CanSend(sends)
          /\ queue' = [q EXCEPT ![Head(sends).to] = Append(@, Head(sends).msg)]
          /\ out' = [out EXCEPT ![t] = Tail(sends)]
       \/ /\ ~CanSend(sends)
          /\ queue' = q
          /\ out' = [out EXCEPT ![t] = sends]

\* a step that consumes the head of the inbox, and one that takes no message
Handle(t, st, sends) ==
    Continue(t, st, sends, [queue EXCEPT ![Inbox[t]] = Tail(@)])

Proceed(t, st, sends) == Continue(t, st, sends, queue)

\* a failed send that makes its stage leave the loop (the others are logged)
Fatal(t, s) ==
    /\ s.msg.kind # "Shutdown"
    /\ \/ t = "ingest"
       \/ t = "envelope" /\ s.to \in {"compression", "snapshot"}

\* a later send() of a handler
Deliver(t) ==
    /\ ~Gone(t)
    /\ out[t] # <<>>
    /\ LET s == Head(out[t])
       IN \/ /\ ~ReceiverGone(s.to)
             /\ queue' = [queue EXCEPT ![s.to] = Append(@, s.msg)]
             /\ out' = [out EXCEPT ![t] = Tail(@)]
             /\ UNCHANGED status
          \/ /\ ReceiverGone(s.to)
             /\ Fatal(t, s)
             /\ out' = [out EXCEPT ![t] = <<>>]
             /\ status' = [status EXCEPT ![t] = "last"]
             /\ UNCHANGED queue
          \/ /\ ReceiverGone(s.to)
             /\ ~Fatal(t, s)
             /\ out' = [out EXCEPT ![t] = Tail(@)]
             /\ UNCHANGED <<queue, status>>
    /\ UNCHANGED <<source, pending, event_count, work, derive, builder,
                   rollup, snap, bus, stored>>

\* the thread ends: its senders and its receiver, with what is queued, drop
End(t, how) ==
    /\ status' = [status EXCEPT ![t] = how]
    /\ queue' = [queue EXCEPT ![Inbox[t]] = <<>>]
    /\ out' = [out EXCEPT ![t] = <<>>]
    /\ UNCHANGED <<source, pending, event_count, work, derive, builder, rollup,
                   snap, bus, stored>>

Exit(t) ==
    /\ status[t] = "last"
    /\ out[t] = <<>>
    /\ End(t, "done")

Panic(t) ==
    /\ t \in MayPanic
    /\ ~Gone(t)
    /\ End(t, "panicked")

-----------------------------------------------------------------------------
(* The hooks and the Ctrl-C handler (coordinator.rs) *)

SourceState == [open : BOOLEAN, shutdown : BOOLEAN, sent : Nat, ticks : Nat,
                timeouts : Nat]

SourceSend(m) ==
    queue' = IF ReceiverGone("events") THEN queue
             ELSE [queue EXCEPT !["events"] = Append(@, m)]

EventMsg(e) == [kind |-> "Event", event |-> e]

HookEvents == {InputEvent} \cup {FocusEvent(w) : w \in Windows}

HookEvent(e) ==
    /\ source.open
    /\ source.sent < MaxEvents
    /\ source' = [source EXCEPT !.sent = @ + 1]
    /\ SourceSend(EventMsg(e))
    /\ UNCHANGED <<status, out, pending, event_count, work, derive, builder,
                   rollup, snap, bus, stored>>

CtrlC ==
    /\ source.open
    /\ ~source.shutdown
    /\ source' = [source EXCEPT !.shutdown = TRUE]
    /\ SourceSend(Shutdown)
    /\ UNCHANGED <<status, out, pending, event_count, work, derive, builder,
                   rollup, snap, bus, stored>>

\* every clone of the event sender is dropped
SourceClose ==
    /\ SourceMayClose
    /\ source.open
    /\ source' = [source EXCEPT !.open = FALSE]
    /\ UNCHANGED <<status, queue, out, pending, event_count, work, derive,
                   builder, rollup, snap, bus, stored>>

-----------------------------------------------------------------------------
(* Ingest stage (ingest.rs) *)

IngestUnchanged == UNCHANGED <<work, derive, builder, rollup, snap, bus, stored>>

\* mutation: the flush forgets to send
FlushNothing == <<>>

FlushPending ==
    IF pending = <<>> THEN <<>> ELSE <<To("derive", Batch(pending))>>

\* an event is queued for the next flush; the tick is sent at once
IngestEvent ==
    /\ Receives("ingest", "Event")
    /\ pending' = Append(pending, Msg("ingest").event)
    /\ event_count' = event_count + 1
    /\ Handle("ingest", "run", <<To("derive", Tick)>>)
    /\ UNCHANGED source
    /\ IngestUnchanged

\* mutation: no break after the shutdown is forwarded
IngestShutdownStays ==
    /\ Receives("ingest", "Shutdown")
    /\ pending' = <<>>
    /\ Handle("ingest", "run", FlushPending \o <<To("derive", Shutdown)>>)
    /\ UNCHANGED <<source, event_count>>
    /\ IngestUnchanged

IngestShutdown ==
    /\ Receives("ingest", "Shutdown")
    /\ pending' = <<>>
    /\ Handle("ingest", "last", FlushPending \o <<To("derive", Shutdown)>>)
    /\ UNCHANGED <<source, event_count>>
    /\ IngestUnchanged

\* the 50 ms ticker with events pending
IngestFlush ==
    /\ Running("ingest")
    /\ pending # <<>>
    /\ pending' = <<>>
    /\ Proceed("ingest", "run", FlushPending \o <<To("derive", Tick)>>)
    /\ UNCHANGED <<source, event_count>>
    /\ IngestUnchanged

\* the ticker with nothing pending and no tick for 500 ms
IngestIdleTick ==
    /\ Running("ingest")
    /\ pending = <<>>
    /\ source.ticks < MaxIdleTicks
    /\ source' = [source EXCEPT !.ticks = @ + 1]
    /\ Proceed("ingest", "run", <<To("derive", Tick)>>)
    /\ UNCHANGED <<pending, event_count>>
    /\ IngestUnchanged

\* the event source is gone: stop, pending events and all
IngestDisconnected ==
    /\ Running("ingest")
    /\ Closed("events")
    /\ Proceed("ingest", "last", <<>>)
    /\ UNCHANGED <<source, pending, event_count>>
    /\ IngestUnchanged

-----------------------------------------------------------------------------
(* Envelope stage (envelope.rs): a batch is adapted, passed through the    *)
(* lock deriver and handled envelope by envelope; the snapshot update that *)
(* accumulates on the way is flushed at every state transition.            *)

EnvelopeUnchanged ==
    UNCHANGED <<pending, event_count, builder, rollup, snap, bus, stored>>

NoUpdate == [hints |-> 0, signals |-> 0, focus |-> NoWindow]

NoWork == [busy |-> FALSE, batch |-> <<>>, raw |-> <<>>, adapted |-> <<>>,
           envs |-> <<>>, upd |-> NoUpdate]

PendingUpdate == [hints : Nat, signals : Nat, focus : OptWindow]

Work == [busy : BOOLEAN, batch : Seq(RawEvent), raw : Seq(RawEvent),
         adapted : Seq(Envelope), envs : Seq(Envelope), upd : PendingUpdate]

DeriveState == [last_focus : OptWindow, locked : BOOLEAN, state : ActivityState]

\* DefaultStateEngine::on_signal and on_tick without the clock: the states
\* the engine can be in after the signal, its present one meaning None
AfterSignal(state, kind) ==
    CASE kind = "LockStart" -> {"Locked"}
      [] kind = "LockEnd"   -> IF state = "Locked" THEN UnlockedState ELSE {state}
      [] OTHER              -> IF state = "Locked" THEN {state} ELSE {"Active"}

AfterTick(state) ==
    IF state = "Locked" \/ source.timeouts >= MaxTimeouts
    THEN {state} ELSE UnlockedState

\* what a StateChanged hint makes the stage send
StateSends(upd, from, to) ==
    IF from = to THEN <<>>
    ELSE <<To("hints", StateHint(to)),
           To("snapshot", Update(upd.hints + 1, upd.signals, upd.focus,
                                 [from |-> from, to |-> to]))>>

\* apply_focus_update
WithFocus(upd, env) ==
    IF env.kind \in {"FocusSignal", "FocusChanged"}
    THEN [upd EXCEPT !.focus = env.win] ELSE upd

TakeBatch ==
    /\ Receives("envelope", "Batch")
    /\ ~work.busy
    /\ LET events == Msg("envelope").events
       IN work' = [NoWork EXCEPT !.busy = TRUE, !.batch = events, !.raw = events]
    /\ Handle("envelope", "run", <<>>)
    /\ UNCHANGED <<source, derive>>
    /\ EnvelopeUnchanged

\* adapt_batch and derive run over the whole batch before the first envelope
\* is handled; neither looks at what the later layers keep, so the model takes
\* each raw event through the adapter, the lock deriver and the handling in turn
AdaptEvent ==
    /\ Running("envelope")
    /\ work.raw # <<>> /\ work.adapted = <<>> /\ work.envs = <<>>
    /\ \E adapted \in Adapt(derive.last_focus, Head(work.raw)) :
          work' = [work EXCEPT !.raw = Tail(@), !.adapted = adapted]
    /\ derive' = [derive EXCEPT !.last_focus = AdapterFocus(@, Head(work.raw))]
    /\ UNCHANGED <<source, status, queue, out>>
    /\ EnvelopeUnchanged

DeriveLock ==
    /\ Running("envelope")
    /\ work.adapted # <<>> /\ work.envs = <<>>
    /\ work' = [work EXCEPT !.adapted = Tail(@),
                            !.envs = LockOutput(derive.locked, Head(work.adapted))]
    /\ derive' = [derive EXCEPT !.locked = LockFlag(@, Head(work.adapted))]
    /\ UNCHANGED <<source, status, queue, out>>
    /\ EnvelopeUnchanged

HandleHint ==
    /\ Running("envelope")
    /\ work.envs # <<>>
    /\ LET env == Head(work.envs)
           upd == [WithFocus(work.upd, env) EXCEPT !.hints = @ + 1]
       IN /\ ~IsSignal(env)
          /\ work' = [work EXCEPT !.envs = Tail(@), !.upd = upd]
          /\ Proceed("envelope", "run", <<To("hints", env)>>)
    /\ UNCHANGED <<source, derive>>
    /\ EnvelopeUnchanged

HandleSignal ==
    /\ Running("envelope")
    /\ work.envs # <<>>
    /\ LET env == Head(work.envs)
           upd == [WithFocus(work.upd, env) EXCEPT !.signals = @ + 1]
       IN /\ IsSignal(env)
          /\ \E to \in AfterSignal(derive.state, env.kind) :
                /\ derive' = [derive EXCEPT !.state = to]
                /\ work' = [work EXCEPT !.envs = Tail(@),
                               !.upd = IF to = derive.state THEN upd ELSE NoUpdate]
                /\ Proceed("envelope", "run",
                           <<To("storage", EnvelopeCmd(env))>>
                             \o StateSends(upd, derive.state, to))
    /\ UNCHANGED source
    /\ EnvelopeUnchanged

FinishBatch ==
    /\ Running("envelope")
    /\ work.busy
    /\ work.raw = <<>> /\ work.adapted = <<>> /\ work.envs = <<>>
    /\ Proceed("envelope", "run",
               <<To("compression", Process(work.batch))>>
                 \o (IF work.upd = NoUpdate THEN <<>>
                     ELSE <<To("snapshot", Update(work.upd.hints, work.upd.signals,
                                                  work.upd.focus, NoTransition))>>)
                 \o <<To("snapshot", Publish)>>)
    /\ work' = NoWork
    /\ UNCHANGED <<source, derive>>
    /\ EnvelopeUnchanged

TakeTick ==
    /\ Receives("envelope", "Tick")
    /\ ~work.busy
    /\ \E to \in AfterTick(derive.state) :
          /\ derive' = [derive EXCEPT !.state = to]
          /\ Handle("envelope", "run",
                    IF to = derive.state THEN <<>>
                    ELSE StateSends(NoUpdate, derive.state, to)
                           \o <<To("snapshot", Publish)>>)
          /\ source' = [source EXCEPT !.timeouts =
                          IF to = derive.state THEN @ ELSE @ + 1]
    /\ UNCHANGED work
    /\ EnvelopeUnchanged

TakeShutdown ==
    /\ Receives("envelope", "Shutdown")
    /\ ~work.busy
    /\ Handle("envelope", "last",
              <<To("snapshot", Shutdown), To("compression", Shutdown)>>)
    /\ UNCHANGED <<source, work, derive>>
    /\ EnvelopeUnchanged

EnvelopeClosed ==
    /\ Running("envelope")
    /\ ~work.busy
    /\ Closed("derive")
    /\ Proceed("envelope", "last", <<>>)
    /\ UNCHANGED <<source, work, derive>>
    /\ EnvelopeUnchanged

-----------------------------------------------------------------------------
(* Hints stage (hints.rs) *)

HintsUnchanged ==
    UNCHANGED <<source, pending, event_count, work, derive, rollup, snap, bus,
                stored>>

\* mutation: the record is stored, the snapshot stage is not told
RecordSendsStorageOnly(recs) ==
    IF recs = <<>> THEN <<>> ELSE <<To("storage", RecordMsg(recs[1]))>>

RecordSends(recs) ==
    IF recs = <<>> THEN <<>>
    ELSE <<To("storage", RecordMsg(recs[1])), To("snapshot", RecordMsg(recs[1]))>>

HintsRecv ==
    /\ Running("hints")
    /\ queue["hints"] # <<>>
    /\ LET hint == Head(queue["hints"])
       IN /\ builder' = OnHint(builder, hint)
          /\ Handle("hints", "run",
                    <<To("storage", EnvelopeCmd(hint))>>
                      \o RecordSends(Completed(builder, hint)))
    /\ HintsUnchanged

\* the channel is closed: finalize_all, then tell the snapshot stage
HintsClosed ==
    /\ Running("hints")
    /\ Closed("hints")
    /\ builder' = [builder EXCEPT !.open = FALSE]
    /\ Proceed("hints", "last",
               RecordSends(Finalized(builder)) \o <<To("snapshot", HintsComplete)>>)
    /\ HintsUnchanged

-----------------------------------------------------------------------------
(* Compression stage (compression.rs): a batch may compress to nothing *)

CompressionUnchanged ==
    UNCHANGED <<source, pending, event_count, work, derive, builder, snap, bus,
                stored>>

\* forward_raw_events; the set of input events it suppresses while locked is
\* empty, as the lock deriver has already dropped their envelopes (see
\* Suppressed and LockedInputSuppressed in Derivation)
RawSends(events) ==
    IF PersistRaw
    THEN [i \in 1..Len(events) |-> To("storage", RawEventCmd(events[i]))]
    ELSE <<>>

CompressBatch ==
    /\ Receives("compression", "Process")
    /\ LET events == Msg("compression").events
       IN \E compact \in BOOLEAN :
             /\ rollup' = [raw |-> rollup.raw + Len(events),
                           compact |-> rollup.compact + (IF compact THEN 1 ELSE 0)]
             /\ Handle("compression", "run",
                       RawSends(events)
                         \o (IF compact
                             THEN <<To("storage", CompactEventsCmd(Len(events)))>>
                             ELSE <<>>))
    /\ CompressionUnchanged

CompressionShutdown ==
    /\ Receives("compression", "Shutdown")
    /\ Handle("compression", "last", <<>>)
    /\ UNCHANGED rollup
    /\ CompressionUnchanged

CompressionClosed ==
    /\ Running("compression")
    /\ Closed("compression")
    /\ Proceed("compression", "last", <<>>)
    /\ UNCHANGED rollup
    /\ CompressionUnchanged

-----------------------------------------------------------------------------
(* Snapshot stage (snapshot_stage.rs) *)

SnapshotUnchanged ==
    UNCHANGED <<source, pending, event_count, work, derive, builder, rollup,
                stored>>

SnapState == [state : ActivityState, focus : OptWindow, hints : Nat,
              signals : Nat, records : Nat, shutdown_requested : BOOLEAN,
              hints_complete : BOOLEAN]

BusState == [seq : Nat, state : ActivityState, focus : OptWindow, hints : Nat,
             signals : Nat, records : Nat, transitions : Nat]

\* publish_snapshot: what clients of the bus see next
PublishSnapshot(s) ==
    bus' = [seq |-> bus.seq + 1, state |-> s.state, focus |-> s.focus,
            hints |-> s.hints, signals |-> s.signals, records |-> s.records,
            transitions |-> bus.transitions]

SnapUpdate ==
    /\ Receives("snapshot", "Update")
    /\ LET u == Msg("snapshot")
       IN /\ snap' = [snap EXCEPT
                         !.hints = @ + u.hints,
                         !.signals = @ + u.signals,
                         !.focus = IF u.focus = NoWindow THEN @ ELSE u.focus,
                         !.state = IF u.tr = NoTransition THEN @ ELSE u.tr.to]
          /\ bus' = IF u.tr = NoTransition THEN bus
                    ELSE [bus EXCEPT !.transitions = @ + 1]
          /\ Handle("snapshot", "run",
                    IF u.tr = NoTransition THEN <<>>
                    ELSE <<To("storage", TransitionCmd(u.tr))>>)
    /\ SnapshotUnchanged

SnapRecord ==
    /\ Receives("snapshot", "Record")
    /\ snap' = [snap EXCEPT !.records = @ + 1]
    /\ Handle("snapshot", "run", <<>>)
    /\ UNCHANGED bus
    /\ SnapshotUnchanged

SnapPublish ==
    /\ Receives("snapshot", "Publish")
    /\ PublishSnapshot(snap)
    /\ Handle("snapshot", "run", <<>>)
    /\ UNCHANGED snap
    /\ SnapshotUnchanged

\* mutation: finalize as soon as the shutdown is requested
MayFinalizeEarly(s) == s.shutdown_requested

\* the early return of maybe_finalize
MayFinalize(s) == s.shutdown_requested /\ s.hints_complete

\* HintsComplete and Shutdown: the second of the two publishes a last
\* snapshot, shuts the storage stage down and leaves the loop
Finalize(s) ==
    /\ snap' = s
    /\ \/ /\ MayFinalize(s)
          /\ PublishSnapshot(s)
          /\ Handle("snapshot", "last", <<To("storage", Shutdown)>>)
       \/ /\ ~MayFinalize(s)
          /\ Handle("snapshot", "run", <<>>)
          /\ UNCHANGED bus
    /\ SnapshotUnchanged

SnapHintsComplete ==
    /\ Receives("snapshot", "HintsComplete")
    /\ Finalize([snap EXCEPT !.hints_complete = TRUE])

SnapShutdown ==
    /\ Receives("snapshot", "Shutdown")
    /\ Finalize([snap EXCEPT !.shutdown_requested = TRUE])

SnapClosed ==
    /\ Running("snapshot")
    /\ Closed("snapshot")
    /\ PublishSnapshot(snap)
    /\ Proceed("snapshot", "last", <<To("storage", Shutdown)>>)
    /\ UNCHANGED snap
    /\ SnapshotUnchanged

-----------------------------------------------------------------------------
(* Storage stage (storage.rs): every command but Shutdown goes to the backend *)

StorageUnchanged ==
    UNCHANGED <<source, pending, event_count, work, derive, builder, rollup,
                snap, bus>>

\* add_*: the backend's totals, and whether the records it got are numbered
\* without a gap and the transitions form a chain
Add(db, cmd) ==
    CASE cmd.kind = "Envelope" ->
            IF cmd.signal THEN [db EXCEPT !.signals = @ + 1]
                                 ELSE [db EXCEPT !.hints = @ + 1]
      [] cmd.kind = "Record" ->
            [db EXCEPT !.records = @ + 1,
                       !.chained = @ /\ cmd.rec.id = db.records]
      [] cmd.kind = "Transition" ->
            [db EXCEPT !.transitions = @ + 1, !.state = cmd.tr.to,
                       !.chained = @ /\ cmd.tr.from = db.state]
      [] cmd.kind = "RawEvent"      -> [db EXCEPT !.raw = @ + 1]
      [] cmd.kind = "CompactEvents" -> [db EXCEPT !.compact = @ + 1]

StoreState == [signals : Nat, hints : Nat, records : Nat, transitions : Nat,
               raw : Nat, compact : Nat, state : ActivityState, chained : BOOLEAN]

EmptyStore == [signals |-> 0, hints |-> 0, records |-> 0, transitions |-> 0,
               raw |-> 0, compact |-> 0, state |-> "Inactive", chained |-> TRUE]

StoreCommand ==
    /\ Running("storage")
    /\ queue["storage"] # <<>>
    /\ Head(queue["storage"]).kind # "Shutdown"
    /\ stored' = Add(stored, Head(queue["storage"]))
    /\ Handle("storage", "run", <<>>)
    /\ StorageUnchanged

StoreShutdown ==
    /\ Receives("storage", "Shutdown")
    /\ Handle("storage", "last", <<>>)
    /\ UNCHANGED stored
    /\ StorageUnchanged

StoreClosed ==
    /\ Running("storage")
    /\ Closed("storage")
    /\ Proceed("storage", "last", <<>>)
    /\ UNCHANGED stored
    /\ StorageUnchanged

-----------------------------------------------------------------------------
Init ==
    /\ status = [t \in Stage |-> "run"]
    /\ queue = [c \in Chan |-> <<>>]
    /\ out = [t \in Stage |-> <<>>]
    /\ source = [open |-> TRUE, shutdown |-> FALSE, sent |-> 0, ticks |-> 0,
                 timeouts |-> 0]
    /\ pending = <<>>
    /\ event_count = 0
    /\ work = NoWork
    /\ derive = [last_focus |-> NoWindow, locked |-> FALSE, state |-> "Inactive"]
    /\ builder = NewRecordBuilder(0)
    /\ rollup = [raw |-> 0, compact |-> 0]
    /\ snap = [state |-> "Inactive", focus |-> NoWindow, hints |-> 0,
               signals |-> 0, records |-> 0,
               shutdown_requested |-> FALSE, hints_complete |-> FALSE]
    /\ bus = [seq |-> 1, state |-> "Inactive", focus |-> NoWindow, hints |-> 0,
              signals |-> 0, records |-> 0, transitions |-> 0]
    /\ stored = EmptyStore

Source == (\E e \in HookEvents : HookEvent(e)) \/ CtrlC \/ SourceClose

Ingest == IngestEvent \/ IngestShutdown \/ IngestFlush \/ IngestIdleTick
            \/ IngestDisconnected

EnvelopeStep == TakeBatch \/ AdaptEvent \/ DeriveLock \/ HandleHint
                  \/ HandleSignal \/ FinishBatch \/ TakeTick \/ TakeShutdown
                  \/ EnvelopeClosed

Hints == HintsRecv \/ HintsClosed

Compression == CompressBatch \/ CompressionShutdown \/ CompressionClosed

SnapshotStep == SnapUpdate \/ SnapRecord \/ SnapPublish \/ SnapHintsComplete
                  \/ SnapShutdown \/ SnapClosed

Storage == StoreCommand \/ StoreShutdown \/ StoreClosed

Next ==
    \/ Source
    \/ Ingest
    \/ EnvelopeStep
    \/ Hints
    \/ Compression
    \/ SnapshotStep
    \/ Storage
    \/ \E t \in Stage : Deliver(t) \/ Exit(t) \/ Panic(t)

Spec == Init /\ [][Next]_vars

\* The operating system schedules every thread; the hooks, the user and a
\* panic owe nothing.  The ticker and the channel of the ingest stage's
\* select! are two ready operations chosen at random, hence both fair.
Fairness ==
    /\ WF_vars(IngestEvent \/ IngestShutdown \/ IngestDisconnected)
    /\ WF_vars(IngestFlush)
    /\ WF_vars(EnvelopeStep)
    /\ WF_vars(Hints)
    /\ WF_vars(Compression)
    /\ WF_vars(SnapshotStep)
    /\ WF_vars(Storage)
    /\ \A t \in Stage : WF_vars(Deliver(t)) /\ WF_vars(Exit(t))

FairSpec == Spec /\ Fairness

-----------------------------------------------------------------------------
(* Properties *)

\* The type invariant: what every thread, channel and handler can hold.
ChannelsOK ==
    /\ status \in [Stage -> Status]
    /\ queue \in [Chan -> Seq(AnyMessage)]
    /\ \A c \in Chan : queue[c] \in Seq(Message(c))
    /\ out \in [Stage -> Seq(Send)]

StagesOK ==
    /\ source \in SourceState
    /\ pending \in Seq(RawEvent)
    /\ event_count \in Nat
    /\ work \in Work
    /\ derive \in DeriveState
    /\ builder \in RecordBuilder
    /\ rollup \in [raw : Nat, compact : Nat]
    /\ snap \in SnapState
    /\ bus \in BusState
    /\ stored \in StoreState

TypeOK == ChannelsOK /\ StagesOK

\* Nothing but compressed or raw events is behind the storage stage's
\* Shutdown, in the channel or still to be sent: every envelope, record and
\* transition reaches the backend before storage.rs leaves its loop.
LateForStorage(t) ==
    \/ status[t] = "run"
    \/ \E i \in 1..Len(out[t]) : out[t][i].to = "storage"

OnlyEventsBehindShutdown(q) ==
    \A i, j \in 1..Len(q) :
       i < j /\ q[i].kind = "Shutdown" => q[j].kind \in {"RawEvent", "CompactEvents"}

OnlyCompressionIsLate ==
    /\ OnlyEventsBehindShutdown(queue["storage"])
    /\ status["storage"] \in {"last", "done"} =>
          \A t \in {"envelope", "hints", "snapshot"} : ~LateForStorage(t)

\* Why it holds, as an inductive invariant.  Its parts, in the order in which
\* the shutdown passes through the stages:
GoneIsSilent == \A t \in Stage : Gone(t) => out[t] = <<>>

\* who may send what to whom
MayEmit(t, s) ==
    \/ t = "ingest" /\ s.to = "derive"
    \/ t = "envelope" /\ s.to \in {"hints", "compression"}
    \/ t = "envelope" /\ s.to = "snapshot" /\ s.msg.kind \in {"Update", "Publish", "Shutdown"}
    \/ t = "envelope" /\ s.to = "storage" /\ s.msg.kind = "Envelope" /\ s.msg.signal
    \/ t = "hints" /\ s.to = "snapshot" /\ s.msg.kind \in {"Record", "HintsComplete"}
    \/ t = "hints" /\ s.to = "storage" /\ s.msg.kind = "Envelope" /\ ~s.msg.signal
    \/ t = "hints" /\ s.to = "storage" /\ s.msg.kind = "Record"
    \/ t = "compression" /\ s.to = "storage"
         /\ s.msg.kind \in {"RawEvent", "CompactEvents"}
    \/ t = "snapshot" /\ s.to = "storage"
         /\ s.msg.kind \in {"Transition", "Shutdown"}

SendsAreTheirs == \A t \in Stage : \A s \in Range(out[t]) : MayEmit(t, s)

\* a hints stage that left its loop outlived the envelope stage, and
\* HintsComplete is the last thing it says
HintsCompleteIsLast ==
    /\ status["hints"] \in {"last", "done"} => Gone("envelope")
    /\ \A i \in 1..Len(out["hints"]) :
          out["hints"][i].msg.kind = "HintsComplete" =>
             i = Len(out["hints"]) /\ status["hints"] # "run"

\* nobody is left to send an envelope or a record to storage
EnvelopesDrained ==
    Gone("envelope") /\ status["hints"] # "run" /\ out["hints"] = <<>>

HintsCompleteMeansDrained ==
    /\ snap.hints_complete => EnvelopesDrained
    /\ \A m \in Range(queue["snapshot"]) :
          m.kind = "HintsComplete" => EnvelopesDrained

\* the snapshot stage shuts storage down last of all, once
ShutdownIsLast ==
    /\ status["snapshot"] \in {"last", "done"} => EnvelopesDrained
    /\ \A s \in Range(out["snapshot"]) :
          s.msg.kind = "Shutdown" => status["snapshot"] = "last"
    /\ status["snapshot"] = "last" => Len(out["snapshot"]) <= 1

StorageShutdownMeansDrained ==
    (\/ \E m \in Range(queue["storage"]) : m.kind = "Shutdown"
     \/ status["storage"] \in {"last", "done"})
    => EnvelopesDrained /\ status["snapshot"] # "run" /\ out["snapshot"] = <<>>

DrainInv ==
    /\ GoneIsSilent
    /\ SendsAreTheirs
    /\ HintsCompleteIsLast
    /\ HintsCompleteMeansDrained
    /\ ShutdownIsLast
    /\ StorageShutdownMeansDrained
    /\ OnlyEventsBehindShutdown(queue["storage"])

NoPanic == \A t \in Stage : status[t] # "panicked"

Stopped == \A t \in Stage : status[t] = "done"

\* The counters of the last snapshot, which travel by the snapshot channel,
\* agree with what the backend received by the storage channel: a shutdown
\* without panics loses and duplicates no envelope, record or transition. When
\* it was requested, what ingest had pending was flushed before: every event
\* that ingest counted was seen by the compression stage.
ShutdownIsLossless ==
    status["storage"] = "done" /\ NoPanic =>
        /\ stored.signals = snap.signals
        /\ stored.hints = snap.hints
        /\ stored.records = snap.records
        /\ stored.records = builder.next
        /\ stored.transitions = bus.transitions
        /\ Stopped /\ source.open => pending = <<>> /\ rollup.raw = event_count

\* Records reach the backend numbered without a gap, and the transitions it
\* receives form one chain, whatever order the stages run in.
StoredInOrder == stored.chained

\* At rest the four copies of the activity state (engine, record builder,
\* snapshot stage, backend) and of the focus agree, and so does the snapshot
\* that clients last saw.
ViewsAgree ==
    Stopped =>
        /\ \A s \in {builder.state, snap.state, bus.state, stored.state} :
              s = derive.state
        /\ \A f \in {builder.focus, snap.focus, bus.focus} : f = derive.last_focus
        /\ bus.hints = snap.hints /\ bus.signals = snap.signals
        /\ bus.records = snap.records

\* Everything the compression stage produced was handed to the backend.
CompactEventsPersisted == Stopped => stored.compact = rollup.compact

\* Once shutdown is requested or the event source is gone, every thread exits,
\* even if some of them panic: PipelineHandles::join returns.
Terminates ==
    source.shutdown \/ ~source.open ~> \A t \in Stage : Gone(t)

=============================================================================
