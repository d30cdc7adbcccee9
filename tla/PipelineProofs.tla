--------------------------- MODULE PipelineProofs ---------------------------
(***************************************************************************)
(* Proofs about the pipeline for every set of windows, every bound and     *)
(* every set of panicking stages: the types, and the shutdown protocol     *)
(* (only compressed and raw events can be behind the storage stage's       *)
(* Shutdown).  The inductive invariant of the protocol is DrainInv; it     *)
(* says that each stage speaks only while the ones before it in the        *)
(* shutdown order are still entitled to.                                   *)
(*                                                                         *)
(* The second half is about what reaches the backend, and in which order,  *)
(* for every schedule of the threads.                                      *)
(***************************************************************************)
EXTENDS Pipeline, ActivityProofs, SequenceTheorems

\* The stages and channels by name, and the inbox of every stage.
LEMMA Names ==
    /\ Stage = {"ingest", "envelope", "hints", "compression", "snapshot", "storage"}
    /\ Chan = {"events", "derive", "hints", "compression", "snapshot", "storage"}
    /\ {"run", "last", "done", "panicked"} = Status
    /\ \A t \in Stage : Inbox[t] \in Chan
BY DEF Stage, Chan, Status, Inbox

\* The same as single membership and inequality facts, which the provers need
\* wherever a stage is named by a literal.
LEMMA StageNames ==
    /\ "derive" \in Chan /\ "hints" \in Chan /\ "compression" \in Chan
    /\ "snapshot" \in Chan /\ "storage" \in Chan
    /\ "ingest" \in Stage /\ "envelope" \in Stage /\ "hints" \in Stage
    /\ "compression" \in Stage /\ "snapshot" \in Stage /\ "storage" \in Stage
    /\ "run" \in Status /\ "last" \in Status
BY DEF Chan, Stage, Status

-----------------------------------------------------------------------------
(* Messages and sends *)

\* What a handler puts in its list of sends is well typed when its message
\* belongs to the channel.
LEMMA ToSend ==
    ASSUME NEW c \in Chan, c # "events", NEW m \in Message(c)
    PROVE  To(c, m) \in Send
BY DEF To, Send, Message, Chan

\* A send goes to a channel of its own message type.
LEMMA SendTo ==
    ASSUME NEW s \in Send
    PROVE  s.to \in Chan /\ s.msg \in Message(s.to)
BY DEF Send, Message, Chan

\* Every channel's messages are among all messages.
LEMMA MessageAny ==
    ASSUME NEW c \in Chan, NEW m \in Message(c)
    PROVE  m \in AnyMessage
BY DEF Message, AnyMessage, Chan

\* Appending a message to the channel it belongs to keeps the channels typed.
LEMMA AppendType ==
    ASSUME NEW q \in [Chan -> Seq(AnyMessage)],
           \A c \in Chan : q[c] \in Seq(Message(c)),
           NEW s \in Send,
           NEW r, r = [q EXCEPT ![s.to] = Append(@, s.msg)]
    PROVE  /\ r \in [Chan -> Seq(AnyMessage)]
           /\ \A c \in Chan : r[c] \in Seq(Message(c))
<1>1. s.to \in Chan /\ s.msg \in Message(s.to)
  BY SendTo
<1>2. s.msg \in AnyMessage
  BY <1>1, MessageAny
<1>3. r \in [Chan -> Seq(AnyMessage)]
  BY <1>1, <1>2
<1>4. ASSUME NEW c \in Chan PROVE r[c] \in Seq(Message(c))
  BY <1>1
<1> QED BY <1>3, <1>4

\* The channels stay well typed when a thread goes on with well-typed sends.
LEMMA ContinueType ==
    ASSUME status \in [Stage -> Status], out \in [Stage -> Seq(Send)],
           NEW t \in Stage, NEW st \in Status, NEW sends \in Seq(Send),
           NEW q \in [Chan -> Seq(AnyMessage)],
           \A c \in Chan : q[c] \in Seq(Message(c)),
           Continue(t, st, sends, q)
    PROVE  ChannelsOK'
<1>1. CASE ~CanSend(sends)
  BY <1>1 DEF Continue, ChannelsOK
<1>2. CASE CanSend(sends)
  <2>1. Head(sends) \in Send /\ Tail(sends) \in Seq(Send)
    BY <1>2 DEF CanSend
  <2>2. queue' = [q EXCEPT ![Head(sends).to] = Append(@, Head(sends).msg)]
    BY <1>2 DEF Continue
  <2>3. /\ queue' \in [Chan -> Seq(AnyMessage)]
        /\ \A c \in Chan : queue'[c] \in Seq(Message(c))
    BY <2>1, <2>2, AppendType
  <2>4. status' \in [Stage -> Status] /\ out' \in [Stage -> Seq(Send)]
    BY <1>2, <2>1 DEF Continue
  <2> QED BY <2>3, <2>4 DEF ChannelsOK
<1> QED BY <1>1, <1>2

\* A step that takes no message keeps threads and channels typed.
LEMMA ProceedType ==
    ASSUME ChannelsOK, NEW t \in Stage, NEW st \in Status,
           NEW sends \in Seq(Send), Proceed(t, st, sends)
    PROVE  ChannelsOK'
BY ContinueType DEF Proceed, ChannelsOK

\* So does a step that consumes the head of its inbox.
LEMMA HandleType ==
    ASSUME ChannelsOK, NEW t \in Stage, NEW st \in Status,
           NEW sends \in Seq(Send), queue[Inbox[t]] # <<>>,
           Handle(t, st, sends)
    PROVE  ChannelsOK'
<1> DEFINE i == Inbox[t]
           q == [queue EXCEPT ![i] = Tail(@)]
<1>1. i \in Chan
  BY Names
<1>2. queue[i] \in Seq(Message(i)) /\ queue[i] \in Seq(AnyMessage)
  BY <1>1 DEF ChannelsOK
<1>3. q \in [Chan -> Seq(AnyMessage)]
  BY <1>1, <1>2 DEF ChannelsOK
<1>4. \A c \in Chan : q[c] \in Seq(Message(c))
  BY <1>1, <1>2 DEF ChannelsOK
<1>5. Continue(t, st, sends, q)
  BY DEF Handle
<1> HIDE DEF q
<1> QED BY <1>3, <1>4, <1>5, ContinueType DEF ChannelsOK

-----------------------------------------------------------------------------
(* Type correctness, stage by stage *)

\* A message at the head of a channel is one the channel carries.
LEMMA HeadType ==
    ASSUME ChannelsOK, NEW t \in Stage, queue[Inbox[t]] # <<>>
    PROVE  Msg(t) \in Message(Inbox[t])
<1>1. Inbox[t] \in Chan
  BY Names
<1>2. queue[Inbox[t]] \in Seq(Message(Inbox[t]))
  BY <1>1 DEF ChannelsOK
<1> QED BY <1>2 DEF Msg

\* The messages with no content travel on these channels.
LEMMA PlainMessages ==
    /\ Shutdown \in Message("events") /\ Shutdown \in Message("derive")
    /\ Shutdown \in Message("compression") /\ Shutdown \in Message("snapshot")
    /\ Shutdown \in Message("storage")
    /\ Tick \in Message("derive")
    /\ Publish \in Message("snapshot") /\ HintsComplete \in Message("snapshot")
BY DEF Message, EventsMsg, DeriveMsg, CompressionMsg, SnapshotMsg, StorageMsg,
       Shutdown, Tick, Publish, HintsComplete

\* So does a later send of a handler, whether it succeeds or fails.
LEMMA DeliverType ==
    ASSUME TypeOK, NEW t \in Stage, Deliver(t)
    PROVE  TypeOK'
<1>1. out[t] \in Seq(Send) /\ out[t] # <<>>
  BY DEF Deliver, TypeOK, ChannelsOK, Status
<1>2. Head(out[t]) \in Send /\ Tail(out[t]) \in Seq(Send)
  BY <1>1
<1>3. status' \in [Stage -> Status]
  BY DEF Deliver, TypeOK, ChannelsOK, Status
<1>4. out' \in [Stage -> Seq(Send)]
  <2>1. CASE out' = [out EXCEPT ![t] = Tail(@)]
    BY <1>2, <2>1 DEF TypeOK, ChannelsOK
  <2>2. CASE out' = [out EXCEPT ![t] = <<>>]
    BY <2>2 DEF TypeOK, ChannelsOK
  <2> QED BY <2>1, <2>2 DEF Deliver
<1>5. /\ queue' \in [Chan -> Seq(AnyMessage)]
      /\ \A c \in Chan : queue'[c] \in Seq(Message(c))
  <2>1. CASE queue' = queue
    BY <2>1 DEF TypeOK, ChannelsOK
  <2>2. CASE queue' = [queue EXCEPT ![Head(out[t]).to] =
                                      Append(@, Head(out[t]).msg)]
    BY <1>2, <2>2, AppendType DEF TypeOK, ChannelsOK
  <2> QED BY <2>1, <2>2 DEF Deliver
<1>6. StagesOK'
  BY DEF Deliver, TypeOK, StagesOK
<1> QED BY <1>3, <1>4, <1>5, <1>6 DEF TypeOK, ChannelsOK

\* So does a thread that ends.
LEMMA EndType ==
    ASSUME TypeOK, NEW t \in Stage, NEW how \in Status, End(t, how)
    PROVE  TypeOK'
<1>1. ChannelsOK'
  BY Names DEF End, TypeOK, ChannelsOK
<1>2. StagesOK'
  BY DEF End, TypeOK, StagesOK
<1> QED BY <1>1, <1>2 DEF TypeOK

\* What the hooks and the Ctrl-C handler send is typed.
LEMMA SourceSendType ==
    ASSUME ChannelsOK, NEW m \in EventsMsg, SourceSend(m),
           UNCHANGED <<status, out>>
    PROVE  ChannelsOK'
<1>1. CASE queue' = queue
  BY <1>1 DEF ChannelsOK
<1>2. CASE queue' = [queue EXCEPT !["events"] = Append(@, m)]
  <2>1. "events" \in Chan /\ m \in Message("events") /\ m \in AnyMessage
    BY Names DEF Message, AnyMessage
  <2>2. queue' \in [Chan -> Seq(AnyMessage)]
    BY <1>2, <2>1 DEF ChannelsOK
  <2>3. ASSUME NEW c \in Chan PROVE queue'[c] \in Seq(Message(c))
    BY <1>2, <2>1 DEF ChannelsOK
  <2> QED BY <2>2, <2>3 DEF ChannelsOK
<1> QED BY <1>1, <1>2 DEF SourceSend

\* The event source preserves the type invariant.
LEMMA SourceType ==
    ASSUME TypeOK, Source
    PROVE  TypeOK'
<1>1. ChannelsOK /\ source \in SourceState
  BY DEF TypeOK, StagesOK
<1>2. ASSUME NEW e \in HookEvents, HookEvent(e) PROVE TypeOK'
  <2>1. EventMsg(e) \in EventsMsg
    BY DEF HookEvents, EventMsg, EventsMsg, RawEvent, InputEvent, FocusEvent, OptWindow
  <2>2. /\ SourceSend(EventMsg(e)) /\ UNCHANGED <<status, out>>
        /\ source' = [source EXCEPT !.sent = @ + 1]
    BY <1>2 DEF HookEvent
  <2>3. ChannelsOK'
    BY <1>1, <2>1, <2>2, SourceSendType
  <2>4. source' \in SourceState
    BY <1>1, <2>2 DEF SourceState
  <2>5. StagesOK'
    BY <1>2, <2>4 DEF HookEvent, TypeOK, StagesOK
  <2> QED BY <2>3, <2>5 DEF TypeOK
<1>3. ASSUME CtrlC PROVE TypeOK'
  <2>1. /\ SourceSend(Shutdown) /\ UNCHANGED <<status, out>>
        /\ source' = [source EXCEPT !.shutdown = TRUE]
    BY <1>3 DEF CtrlC
  <2>2. Shutdown \in EventsMsg
    BY DEF EventsMsg
  <2>3. ChannelsOK'
    BY <1>1, <2>1, <2>2, SourceSendType
  <2>4. source' \in SourceState
    BY <1>1, <2>1 DEF SourceState
  <2>5. StagesOK'
    BY <1>3, <2>4 DEF CtrlC, TypeOK, StagesOK
  <2> QED BY <2>3, <2>5 DEF TypeOK
<1>4. ASSUME SourceClose PROVE TypeOK'
  <2>1. UNCHANGED <<status, queue, out>> /\ source' = [source EXCEPT !.open = FALSE]
    BY <1>4 DEF SourceClose
  <2>2. ChannelsOK'
    BY <1>1, <2>1 DEF ChannelsOK
  <2>3. source' \in SourceState
    BY <1>1, <2>1 DEF SourceState
  <2>4. StagesOK'
    BY <1>4, <2>3 DEF SourceClose, TypeOK, StagesOK
  <2> QED BY <2>2, <2>4 DEF TypeOK
<1> QED BY <1>2, <1>3, <1>4 DEF Source

\* A flush sends a batch, if anything.
LEMMA FlushPendingType ==
    ASSUME TypeOK
    PROVE  FlushPending \in Seq(Send)
<1>1. Batch(pending) \in Message("derive")
  BY DEF TypeOK, StagesOK, Batch, Message, DeriveMsg
<1>2. To("derive", Batch(pending)) \in Send
  BY <1>1, ToSend, StageNames
<1> QED BY <1>2 DEF FlushPending

\* The ingest stage preserves the type invariant.
LEMMA IngestType ==
    ASSUME TypeOK, Ingest
    PROVE  TypeOK'
<1>1. /\ <<>> \in Seq(Send)
      /\ <<To("derive", Tick)>> \in Seq(Send)
      /\ <<To("derive", Shutdown)>> \in Seq(Send)
  BY ToSend, PlainMessages, StageNames
<1>2. /\ FlushPending \o <<To("derive", Tick)>> \in Seq(Send)
      /\ FlushPending \o <<To("derive", Shutdown)>> \in Seq(Send)
  BY <1>1, FlushPendingType
<1>3. ChannelsOK /\ source \in SourceState
  BY DEF TypeOK, StagesOK
<1>4. CASE IngestEvent
  <2>1. /\ queue[Inbox["ingest"]] # <<>>
        /\ Msg("ingest").kind = "Event"
        /\ Handle("ingest", "run", <<To("derive", Tick)>>)
    BY <1>4 DEF IngestEvent, Receives, Msg
  <2>2. ChannelsOK'
    BY <1>1, <1>3, <2>1, HandleType, StageNames
  <2>3. Msg("ingest") \in EventsMsg
    BY <1>3, <2>1, HeadType, StageNames DEF Inbox, Message
  <2>4. Msg("ingest").event \in RawEvent
    BY <2>1, <2>3 DEF EventsMsg, Shutdown
  <2>5. StagesOK'
    BY <1>4, <2>4 DEF IngestEvent, IngestUnchanged, TypeOK, StagesOK
  <2> QED BY <2>2, <2>5 DEF TypeOK
<1>5. CASE IngestShutdown
  <2>1. /\ queue[Inbox["ingest"]] # <<>>
        /\ Handle("ingest", "last", FlushPending \o <<To("derive", Shutdown)>>)
    BY <1>5 DEF IngestShutdown, Receives
  <2>2. ChannelsOK'
    BY <1>2, <1>3, <2>1, HandleType, StageNames
  <2>3. StagesOK'
    BY <1>5 DEF IngestShutdown, IngestUnchanged, TypeOK, StagesOK
  <2> QED BY <2>2, <2>3 DEF TypeOK
<1>6. CASE IngestFlush
  <2>1. Proceed("ingest", "run", FlushPending \o <<To("derive", Tick)>>)
    BY <1>6 DEF IngestFlush
  <2>2. ChannelsOK'
    BY <1>2, <1>3, <2>1, ProceedType, StageNames
  <2>3. StagesOK'
    BY <1>6 DEF IngestFlush, IngestUnchanged, TypeOK, StagesOK
  <2> QED BY <2>2, <2>3 DEF TypeOK
<1>7. CASE IngestIdleTick
  <2>1. /\ Proceed("ingest", "run", <<To("derive", Tick)>>)
        /\ source' = [source EXCEPT !.ticks = @ + 1]
    BY <1>7 DEF IngestIdleTick
  <2>2. ChannelsOK'
    BY <1>1, <1>3, <2>1, ProceedType, StageNames
  <2>3. source' \in SourceState
    BY <1>3, <2>1 DEF SourceState
  <2>4. StagesOK'
    BY <1>7, <2>3 DEF IngestIdleTick, IngestUnchanged, TypeOK, StagesOK
  <2> QED BY <2>2, <2>4 DEF TypeOK
<1>8. CASE IngestDisconnected
  <2>1. Proceed("ingest", "last", <<>>)
    BY <1>8 DEF IngestDisconnected
  <2>2. ChannelsOK'
    BY <1>1, <1>3, <2>1, ProceedType, StageNames
  <2>3. StagesOK'
    BY <1>8 DEF IngestDisconnected, IngestUnchanged, TypeOK, StagesOK
  <2> QED BY <2>2, <2>3 DEF TypeOK
<1> QED BY <1>4, <1>5, <1>6, <1>7, <1>8 DEF Ingest

\* A focus envelope leaves the pending update a pending update.
LEMMA WithFocusType ==
    ASSUME NEW upd \in PendingUpdate, NEW env \in Envelope
    PROVE  WithFocus(upd, env) \in PendingUpdate
BY DEF WithFocus, PendingUpdate, Envelope

\* A snapshot update is a message of the snapshot channel.
LEMMA UpdateType ==
    ASSUME NEW h \in Nat, NEW g \in Nat, NEW f \in OptWindow, NEW tr \in OptTransition
    PROVE  To("snapshot", Update(h, g, f, tr)) \in Send
<1>1. Update(h, g, f, tr) \in SnapshotMsg
  BY DEF Update, SnapshotMsg
<1> QED BY <1>1, ToSend, StageNames DEF Message

\* A state change sends a hint and an update of their types.
LEMMA StateSendsType ==
    ASSUME NEW upd \in PendingUpdate, NEW from \in ActivityState,
           NEW to \in ActivityState
    PROVE  StateSends(upd, from, to) \in Seq(Send)
<1>1. To("hints", StateHint(to)) \in Send
  <2>1. StateHint(to) \in Hint
    BY EnvType DEF Hint, IsSignal, SignalKind, StateHint
  <2> QED BY <2>1, ToSend, StageNames DEF Message
<1>2. [from |-> from, to |-> to] \in OptTransition
  BY DEF Transition, OptTransition
<1>3. upd.hints + 1 \in Nat /\ upd.signals \in Nat /\ upd.focus \in OptWindow
  BY DEF PendingUpdate
<1>4. To("snapshot", Update(upd.hints + 1, upd.signals, upd.focus,
                            [from |-> from, to |-> to])) \in Send
  BY <1>2, <1>3, UpdateType
<1> QED BY <1>1, <1>4 DEF StateSends

\* The idle envelope stage and the empty update have their types.
LEMMA NoWorkType == NoWork \in Work /\ NoUpdate \in PendingUpdate
BY DEF NoWork, Work, NoUpdate, PendingUpdate, OptWindow

\* Taking up and finishing a batch preserve the type invariant.
LEMMA BatchType ==
    ASSUME TypeOK, TakeBatch \/ FinishBatch
    PROVE  TypeOK'
<1>1. ChannelsOK /\ work \in Work /\ <<>> \in Seq(Send)
  BY DEF TypeOK, StagesOK
<1>2. CASE TakeBatch
  <2>1. /\ queue[Inbox["envelope"]] # <<>>
        /\ Msg("envelope").kind = "Batch"
        /\ Handle("envelope", "run", <<>>)
    BY <1>2 DEF TakeBatch, Receives, Msg
  <2>2. ChannelsOK'
    BY <1>1, <2>1, HandleType, StageNames
  <2>3. Msg("envelope") \in DeriveMsg
    BY <1>1, <2>1, HeadType, StageNames DEF Inbox, Message
  <2>4. Msg("envelope").events \in Seq(RawEvent)
    BY <2>1, <2>3 DEF DeriveMsg, Shutdown, Tick
  <2>5. work' \in Work
    BY <1>2, <2>4, NoWorkType DEF TakeBatch, Work
  <2>6. StagesOK'
    BY <1>2, <2>5 DEF TakeBatch, EnvelopeUnchanged, TypeOK, StagesOK
  <2> QED BY <2>2, <2>6 DEF TypeOK
<1>3. CASE FinishBatch
  <2> DEFINE job == To("compression", Process(work.batch))
             rest == To("snapshot", Update(work.upd.hints, work.upd.signals,
                                           work.upd.focus, NoTransition))
             upd == IF work.upd = NoUpdate THEN <<>> ELSE <<rest>>
  <2>1. Process(work.batch) \in Message("compression")
    BY <1>1 DEF Work, Process, Message, CompressionMsg
  <2>2. job \in Send /\ To("snapshot", Publish) \in Send
    BY <2>1, ToSend, PlainMessages, StageNames
  <2>3. /\ work.upd.hints \in Nat /\ work.upd.signals \in Nat
        /\ work.upd.focus \in OptWindow /\ NoTransition \in OptTransition
    BY <1>1 DEF Work, PendingUpdate, OptTransition
  <2>4. rest \in Send
    BY <2>3, UpdateType
  <2>5. Proceed("envelope", "run", <<job>> \o upd \o <<To("snapshot", Publish)>>)
    BY <1>3 DEF FinishBatch
  <2> HIDE DEF job, rest
  <2>6. <<job>> \o upd \o <<To("snapshot", Publish)>> \in Seq(Send)
    BY <2>2, <2>4
  <2>7. ChannelsOK'
    BY <1>1, <2>5, <2>6, ProceedType, StageNames
  <2>8. StagesOK'
    BY <1>3, NoWorkType DEF FinishBatch, EnvelopeUnchanged, TypeOK, StagesOK
  <2> QED BY <2>7, <2>8 DEF TypeOK
<1> QED BY <1>2, <1>3

\* Adapting an event and deriving the lock preserve the type invariant.
LEMMA DerivationType ==
    ASSUME TypeOK, AdaptEvent \/ DeriveLock
    PROVE  TypeOK'
<1>1. ChannelsOK /\ work \in Work /\ derive \in DeriveState
  BY DEF TypeOK, StagesOK
<1>2. UNCHANGED <<status, queue, out>> => ChannelsOK'
  BY <1>1 DEF ChannelsOK
<1>3. CASE AdaptEvent
  <2>1. /\ UNCHANGED <<status, queue, out>> /\ work.raw # <<>>
        /\ derive' = [derive EXCEPT !.last_focus =
                                      AdapterFocus(@, Head(work.raw))]
    BY <1>3 DEF AdaptEvent
  <2>2. PICK adapted \in Adapt(derive.last_focus, Head(work.raw)) :
           work' = [work EXCEPT !.raw = Tail(@), !.adapted = adapted]
    BY <1>3 DEF AdaptEvent
  <2>3. Head(work.raw) \in RawEvent /\ Tail(work.raw) \in Seq(RawEvent)
    BY <1>1, <2>1 DEF Work
  <2>4. /\ Head(work.raw).kind \in {"input", "focus"}
        /\ Head(work.raw).win \in OptWindow
    BY <2>3 DEF RawEvent, OptWindow
  <2>5. adapted \in Seq(Envelope)
    BY <2>4, AdaptType
  <2>6. work' \in Work
    BY <1>1, <2>2, <2>3, <2>5 DEF Work
  <2>7. AdapterFocus(derive.last_focus, Head(work.raw)) \in OptWindow
    BY <1>1, <2>4 DEF AdapterFocus, DeriveState
  <2>8. derive' \in DeriveState
    BY <1>1, <2>1, <2>7 DEF DeriveState
  <2>9. StagesOK'
    BY <1>3, <2>6, <2>8
       DEF AdaptEvent, EnvelopeUnchanged, TypeOK, StagesOK
  <2> QED BY <1>2, <2>1, <2>9 DEF TypeOK
<1>4. CASE DeriveLock
  <2>1. /\ UNCHANGED <<status, queue, out>> /\ work.adapted # <<>>
        /\ derive' = [derive EXCEPT !.locked = LockFlag(@, Head(work.adapted))]
        /\ work' = [work EXCEPT !.adapted = Tail(@),
                      !.envs = LockOutput(derive.locked, Head(work.adapted))]
    BY <1>4 DEF DeriveLock
  <2>2. Head(work.adapted) \in Envelope /\ Tail(work.adapted) \in Seq(Envelope)
    BY <1>1, <2>1 DEF Work
  <2>3. derive.locked \in BOOLEAN
    BY <1>1 DEF DeriveState
  <2>4. /\ LockOutput(derive.locked, Head(work.adapted)) \in Seq(Envelope)
        /\ LockFlag(derive.locked, Head(work.adapted)) \in BOOLEAN
    BY <2>2, <2>3, LockOutputType
  <2>5. work' \in Work
    BY <1>1, <2>1, <2>2, <2>4 DEF Work
  <2>6. derive' \in DeriveState
    BY <1>1, <2>1, <2>4 DEF DeriveState
  <2>7. StagesOK'
    BY <1>4, <2>5, <2>6
       DEF DeriveLock, EnvelopeUnchanged, TypeOK, StagesOK
  <2> QED BY <1>2, <2>1, <2>7 DEF TypeOK
<1> QED BY <1>3, <1>4

\* Handling a hint or a signal preserves the type invariant.
LEMMA HandleEnvelopeType ==
    ASSUME TypeOK, HandleHint \/ HandleSignal
    PROVE  TypeOK'
<1> DEFINE env == Head(work.envs)
<1>1. ChannelsOK /\ work \in Work /\ derive \in DeriveState
  BY DEF TypeOK, StagesOK
<1>2. work.envs # <<>>
  BY DEF HandleHint, HandleSignal
<1>3. env \in Envelope /\ Tail(work.envs) \in Seq(Envelope)
  BY <1>1, <1>2 DEF Work
<1>4. WithFocus(work.upd, env) \in PendingUpdate
  BY <1>1, <1>3, WithFocusType DEF Work
<1> HIDE DEF env
<1>5. CASE HandleHint
  <2> DEFINE upd == [WithFocus(work.upd, env) EXCEPT !.hints = @ + 1]
  <2>1. /\ work' = [work EXCEPT !.envs = Tail(@), !.upd = upd]
        /\ Proceed("envelope", "run", <<To("hints", env)>>)
    BY <1>5 DEF HandleHint, env
  <2>2. <<To("hints", env)>> \in Seq(Send)
    <3>1. env \in Hint
      BY <1>3, <1>5 DEF HandleHint, env, Hint
    <3> QED BY <3>1, ToSend, StageNames DEF Message
  <2>3. ChannelsOK'
    BY <1>1, <2>1, <2>2, ProceedType, StageNames
  <2>4. upd \in PendingUpdate
    BY <1>4 DEF PendingUpdate
  <2> HIDE DEF upd
  <2>5. work' \in Work
    BY <1>1, <1>3, <2>1, <2>4 DEF Work
  <2>6. StagesOK'
    BY <1>5, <2>5 DEF HandleHint, EnvelopeUnchanged, TypeOK, StagesOK
  <2> QED BY <2>3, <2>6 DEF TypeOK
<1>6. CASE HandleSignal
  <2> DEFINE upd == [WithFocus(work.upd, env) EXCEPT !.signals = @ + 1]
  <2>1. PICK to \in AfterSignal(derive.state, env.kind) :
          /\ derive' = [derive EXCEPT !.state = to]
          /\ work' = [work EXCEPT !.envs = Tail(@),
                         !.upd = IF to = derive.state THEN upd ELSE NoUpdate]
          /\ Proceed("envelope", "run", <<To("storage", EnvelopeCmd(env))>>
                                          \o StateSends(upd, derive.state, to))
    BY <1>6 DEF HandleSignal, env
  <2>2. upd \in PendingUpdate
    BY <1>4 DEF PendingUpdate
  <2>3. derive.state \in ActivityState /\ to \in ActivityState
    BY <1>1 DEF DeriveState, AfterSignal, UnlockedState, ActivityState
  <2> HIDE DEF upd
  <2>4. EnvelopeCmd(env) \in Message("storage")
    BY DEF EnvelopeCmd, IsSignal, Message, StorageMsg
  <2>5. To("storage", EnvelopeCmd(env)) \in Send
    BY <2>4, ToSend, StageNames
  <2>6. StateSends(upd, derive.state, to) \in Seq(Send)
    BY <2>2, <2>3, StateSendsType
  <2>7. <<To("storage", EnvelopeCmd(env))>> \o StateSends(upd, derive.state, to)
           \in Seq(Send)
    BY <2>5, <2>6
  <2>8. ChannelsOK'
    BY <1>1, <2>1, <2>7, ProceedType, StageNames
  <2>9. work' \in Work
    BY <1>1, <1>3, <2>1, <2>2, NoWorkType DEF Work
  <2>10. derive' \in DeriveState
    BY <1>1, <2>1, <2>3 DEF DeriveState
  <2>11. StagesOK'
    BY <1>6, <2>9, <2>10
       DEF HandleSignal, EnvelopeUnchanged, TypeOK, StagesOK
  <2> QED BY <2>8, <2>11 DEF TypeOK
<1> QED BY <1>5, <1>6

\* Ticks and the end of the envelope stage preserve the type invariant.
LEMMA EnvelopeEndType ==
    ASSUME TypeOK, TakeTick \/ TakeShutdown \/ EnvelopeClosed
    PROVE  TypeOK'
<1>1. /\ ChannelsOK /\ work \in Work /\ derive \in DeriveState
      /\ source \in SourceState /\ <<>> \in Seq(Send)
  BY DEF TypeOK, StagesOK
<1>2. CASE TakeTick
  <2>1. PICK to \in AfterTick(derive.state) :
          /\ derive' = [derive EXCEPT !.state = to]
          /\ Handle("envelope", "run",
                    IF to = derive.state THEN <<>>
                    ELSE StateSends(NoUpdate, derive.state, to)
                           \o <<To("snapshot", Publish)>>)
          /\ source' = [source EXCEPT !.timeouts =
                          IF to = derive.state THEN @ ELSE @ + 1]
    BY <1>2 DEF TakeTick
  <2>2. derive.state \in ActivityState /\ to \in ActivityState
    BY <1>1 DEF DeriveState, AfterTick, UnlockedState, ActivityState
  <2>3. StateSends(NoUpdate, derive.state, to) \in Seq(Send)
    BY <2>2, StateSendsType, NoWorkType
  <2>4. To("snapshot", Publish) \in Send
    BY ToSend, PlainMessages, StageNames
  <2>5. (IF to = derive.state THEN <<>>
         ELSE StateSends(NoUpdate, derive.state, to)
                \o <<To("snapshot", Publish)>>) \in Seq(Send)
    BY <2>3, <2>4
  <2>6. queue[Inbox["envelope"]] # <<>>
    BY <1>2 DEF TakeTick, Receives
  <2>7. ChannelsOK'
    BY <1>1, <2>1, <2>5, <2>6, HandleType, StageNames
  <2>8. source' \in SourceState
    BY <1>1, <2>1 DEF SourceState
  <2>9. derive' \in DeriveState
    BY <1>1, <2>1, <2>2 DEF DeriveState
  <2>10. StagesOK'
    BY <1>2, <2>8, <2>9
       DEF TakeTick, EnvelopeUnchanged, TypeOK, StagesOK
  <2> QED BY <2>7, <2>10 DEF TypeOK
<1>3. CASE TakeShutdown
  <2>1. /\ queue[Inbox["envelope"]] # <<>>
        /\ Handle("envelope", "last",
                  <<To("snapshot", Shutdown), To("compression", Shutdown)>>)
    BY <1>3 DEF TakeShutdown, Receives
  <2>2. <<To("snapshot", Shutdown), To("compression", Shutdown)>> \in Seq(Send)
    BY ToSend, PlainMessages, StageNames
  <2>3. ChannelsOK'
    BY <1>1, <2>1, <2>2, HandleType, StageNames
  <2>4. StagesOK'
    BY <1>3 DEF TakeShutdown, EnvelopeUnchanged, TypeOK, StagesOK
  <2> QED BY <2>3, <2>4 DEF TypeOK
<1>4. CASE EnvelopeClosed
  <2>1. Proceed("envelope", "last", <<>>)
    BY <1>4 DEF EnvelopeClosed
  <2>2. ChannelsOK'
    BY <1>1, <2>1, ProceedType, StageNames
  <2>3. StagesOK'
    BY <1>4 DEF EnvelopeClosed, EnvelopeUnchanged, TypeOK, StagesOK
  <2> QED BY <2>2, <2>3 DEF TypeOK
<1> QED BY <1>2, <1>3, <1>4

\* The record that ends has a natural number for its id because an open record
\* was given one; the builder keeps that true.
LEMMA FinalizedType ==
    ASSUME NEW b \in RecordBuilder
    PROVE  /\ Finalized(b) = <<>> \/ Finalized(b)[1] \in Record
           /\ [b EXCEPT !.open = FALSE] \in RecordBuilder
<1>1. b.open => [id |-> b.next - 1, state |-> b.state] \in Record
  BY DEF Record, RecordBuilder
<1> QED BY <1>1 DEF Finalized, RecordBuilder

\* A record builder stays one, and completes records of their type.
LEMMA OnHintType ==
    ASSUME NEW b \in RecordBuilder, NEW hint \in Envelope
    PROVE  OnHint(b, hint) \in RecordBuilder
<1>1. CASE Ignores(b, hint)
  BY <1>1 DEF OnHint
<1>2. CASE ~Ignores(b, hint)
  <2>1. hint.win \in OptWindow
    BY DEF Envelope, OptWindow
  <2>2. hint.kind = "StateChanged" => hint.to \in ActivityState
    BY DEF Envelope, SignalKind
  <2> QED BY <1>2, <2>1, <2>2 DEF OnHint, RecordBuilder
<1> QED BY <1>1, <1>2

\* A completed record is sent to two channels that carry records.
LEMMA RecordSendsType ==
    ASSUME NEW recs, recs = <<>> \/ recs[1] \in Record
    PROVE  RecordSends(recs) \in Seq(Send)
<1>1. CASE recs = <<>>
  BY <1>1 DEF RecordSends
<1>2. CASE recs # <<>>
  <2>1. RecordMsg(recs[1]) \in StorageMsg /\ RecordMsg(recs[1]) \in SnapshotMsg
    BY <1>2 DEF RecordMsg, StorageMsg, SnapshotMsg
  <2>2. /\ To("storage", RecordMsg(recs[1])) \in Send
        /\ To("snapshot", RecordMsg(recs[1])) \in Send
    BY <2>1, ToSend, StageNames DEF Message
  <2> QED BY <1>2, <2>2 DEF RecordSends
<1> QED BY <1>1, <1>2

\* The hints stage preserves the type invariant.
LEMMA HintsType ==
    ASSUME TypeOK, Hints
    PROVE  TypeOK'
<1>1. ChannelsOK /\ builder \in RecordBuilder
  BY DEF TypeOK, StagesOK
<1>2. CASE HintsRecv
  <2> DEFINE hint == Head(queue["hints"])
  <2>1. /\ queue["hints"] # <<>>
        /\ builder' = OnHint(builder, hint)
        /\ Handle("hints", "run", <<To("storage", EnvelopeCmd(hint))>>
                                    \o RecordSends(Completed(builder, hint)))
    BY <1>2 DEF HintsRecv
  <2>2. hint \in Envelope
    <3>1. queue["hints"] \in Seq(Hint)
      BY <1>1, Names DEF ChannelsOK, Message
    <3> QED BY <2>1, <3>1 DEF Hint
  <2> HIDE DEF hint
  <2>3. Completed(builder, hint) = <<>> \/ Completed(builder, hint)[1] \in Record
    BY <1>1, FinalizedType DEF Completed
  <2>4. RecordSends(Completed(builder, hint)) \in Seq(Send)
    BY <2>3, RecordSendsType
  <2>5. EnvelopeCmd(hint) \in StorageMsg
    BY DEF EnvelopeCmd, IsSignal, StorageMsg
  <2>6. To("storage", EnvelopeCmd(hint)) \in Send
    BY <2>5, ToSend, StageNames DEF Message
  <2>7. <<To("storage", EnvelopeCmd(hint))>>
           \o RecordSends(Completed(builder, hint)) \in Seq(Send)
    BY <2>4, <2>6
  <2>8. queue[Inbox["hints"]] # <<>>
    BY <2>1 DEF Inbox, Stage
  <2>9. ChannelsOK'
    BY <1>1, <2>1, <2>7, <2>8, HandleType, StageNames
  <2>10. builder' \in RecordBuilder
    BY <1>1, <2>1, <2>2, OnHintType
  <2>11. StagesOK'
    BY <1>2, <2>10 DEF HintsRecv, HintsUnchanged, TypeOK, StagesOK
  <2> QED BY <2>9, <2>11 DEF TypeOK
<1>3. CASE HintsClosed
  <2>1. /\ builder' = [builder EXCEPT !.open = FALSE]
        /\ Proceed("hints", "last", RecordSends(Finalized(builder))
                                      \o <<To("snapshot", HintsComplete)>>)
    BY <1>3 DEF HintsClosed
  <2>2. RecordSends(Finalized(builder)) \in Seq(Send)
    BY <1>1, FinalizedType, RecordSendsType
  <2>3. To("snapshot", HintsComplete) \in Send
    BY ToSend, PlainMessages, StageNames
  <2>4. RecordSends(Finalized(builder)) \o <<To("snapshot", HintsComplete)>>
           \in Seq(Send)
    BY <2>2, <2>3
  <2>5. ChannelsOK'
    BY <1>1, <2>1, <2>4, ProceedType, StageNames
  <2>6. builder' \in RecordBuilder
    BY <1>1, <2>1, FinalizedType
  <2>7. StagesOK'
    BY <1>3, <2>6 DEF HintsClosed, HintsUnchanged, TypeOK, StagesOK
  <2> QED BY <2>5, <2>7 DEF TypeOK
<1> QED BY <1>2, <1>3 DEF Hints

\* Raw events are commands of the storage channel.
LEMMA RawSendsType ==
    ASSUME NEW events \in Seq(RawEvent)
    PROVE  RawSends(events) \in Seq(Send)
<1>1. CASE ~PersistRaw
  BY <1>1 DEF RawSends
<1>2. CASE PersistRaw
  <2>1. ASSUME NEW i \in 1..Len(events)
        PROVE  To("storage", RawEventCmd(events[i])) \in Send
    <3>1. RawEventCmd(events[i]) \in StorageMsg
      BY DEF RawEventCmd, StorageMsg
    <3> QED BY <3>1, ToSend, StageNames DEF Message
  <2> QED BY <1>2, <2>1 DEF RawSends
<1> QED BY <1>1, <1>2

\* The compression stage preserves the type invariant.
LEMMA CompressionType ==
    ASSUME TypeOK, Compression
    PROVE  TypeOK'
<1>1. /\ ChannelsOK /\ rollup \in [raw : Nat, compact : Nat]
      /\ <<>> \in Seq(Send)
  BY DEF TypeOK, StagesOK
<1>2. CASE CompressBatch
  <2> DEFINE events == Msg("compression").events
             cmd == To("storage", CompactEventsCmd(Len(events)))
  <2>1. PICK compact \in BOOLEAN :
           /\ rollup' = [raw |-> rollup.raw + Len(events),
                         compact |-> rollup.compact + (IF compact THEN 1 ELSE 0)]
           /\ Handle("compression", "run",
                     RawSends(events) \o (IF compact THEN <<cmd>> ELSE <<>>))
    BY <1>2 DEF CompressBatch
  <2>2. queue[Inbox["compression"]] # <<>> /\ Msg("compression").kind = "Process"
    BY <1>2 DEF CompressBatch, Receives, Msg
  <2>3. Msg("compression") \in CompressionMsg
    BY <1>1, <2>2, HeadType, StageNames DEF Inbox, Message
  <2>4. events \in Seq(RawEvent)
    BY <2>2, <2>3 DEF CompressionMsg, Shutdown
  <2>5. RawSends(events) \in Seq(Send)
    BY <2>4, RawSendsType
  <2>6. Len(events) \in Nat
    BY <2>4
  <2>7. CompactEventsCmd(Len(events)) \in StorageMsg
    BY <2>6 DEF CompactEventsCmd, StorageMsg
  <2>8. cmd \in Send
    BY <2>7, ToSend, StageNames DEF Message
  <2> HIDE DEF events, cmd
  <2>9. RawSends(events) \o (IF compact THEN <<cmd>> ELSE <<>>) \in Seq(Send)
    BY <2>5, <2>8
  <2>10. ChannelsOK'
    BY <1>1, <2>1, <2>2, <2>9, HandleType, StageNames
  <2>11. rollup' \in [raw : Nat, compact : Nat]
    BY <1>1, <2>1, <2>6
  <2>12. StagesOK'
    BY <1>2, <2>11 DEF CompressBatch, CompressionUnchanged, TypeOK, StagesOK
  <2> QED BY <2>10, <2>12 DEF TypeOK
<1>3. CASE CompressionShutdown
  <2>1. queue[Inbox["compression"]] # <<>> /\ Handle("compression", "last", <<>>)
    BY <1>3 DEF CompressionShutdown, Receives
  <2>2. ChannelsOK'
    BY <1>1, <2>1, HandleType, StageNames
  <2>3. StagesOK'
    BY <1>3 DEF CompressionShutdown, CompressionUnchanged, TypeOK, StagesOK
  <2> QED BY <2>2, <2>3 DEF TypeOK
<1>4. CASE CompressionClosed
  <2>1. Proceed("compression", "last", <<>>)
    BY <1>4 DEF CompressionClosed
  <2>2. ChannelsOK'
    BY <1>1, <2>1, ProceedType, StageNames
  <2>3. StagesOK'
    BY <1>4 DEF CompressionClosed, CompressionUnchanged, TypeOK, StagesOK
  <2> QED BY <2>2, <2>3 DEF TypeOK
<1> QED BY <1>2, <1>3, <1>4 DEF Compression

\* A published snapshot has the type of the bus.
LEMMA PublishSnapshotType ==
    ASSUME bus \in BusState, NEW s \in SnapState, PublishSnapshot(s)
    PROVE  bus' \in BusState
BY DEF PublishSnapshot, BusState, SnapState

\* maybe_finalize preserves the type invariant on both its paths.
LEMMA FinalizeType ==
    ASSUME TypeOK, NEW s \in SnapState, queue[Inbox["snapshot"]] # <<>>, Finalize(s)
    PROVE  TypeOK'
<1>1. ChannelsOK /\ bus \in BusState /\ <<>> \in Seq(Send)
  BY DEF TypeOK, StagesOK
<1>2. <<To("storage", Shutdown)>> \in Seq(Send)
  BY ToSend, PlainMessages, StageNames
<1>3. CASE MayFinalize(s)
  <2>1. PublishSnapshot(s) /\ Handle("snapshot", "last", <<To("storage", Shutdown)>>)
    BY <1>3 DEF Finalize
  <2>2. ChannelsOK'
    BY <1>1, <1>2, <2>1, HandleType, StageNames
  <2>3. bus' \in BusState
    BY <1>1, <2>1, PublishSnapshotType
  <2>4. StagesOK'
    BY <2>3 DEF Finalize, SnapshotUnchanged, TypeOK, StagesOK
  <2> QED BY <2>2, <2>4 DEF TypeOK
<1>4. CASE ~MayFinalize(s)
  <2>1. Handle("snapshot", "run", <<>>) /\ bus' = bus
    BY <1>4 DEF Finalize
  <2>2. ChannelsOK'
    BY <1>1, <2>1, HandleType, StageNames
  <2>3. StagesOK'
    BY <1>1, <2>1
       DEF Finalize, SnapshotUnchanged, TypeOK, StagesOK
  <2> QED BY <2>2, <2>3 DEF TypeOK
<1> QED BY <1>3, <1>4

\* The snapshot stage preserves the type invariant.
LEMMA SnapshotType ==
    ASSUME TypeOK, SnapshotStep
    PROVE  TypeOK'
<1>1. ChannelsOK /\ snap \in SnapState /\ bus \in BusState /\ <<>> \in Seq(Send)
  BY DEF TypeOK, StagesOK
<1>2. CASE SnapUpdate
  <2> DEFINE u == Msg("snapshot")
             sends == IF u.tr = NoTransition THEN <<>>
                      ELSE <<To("storage", TransitionCmd(u.tr))>>
  <2>1. /\ queue[Inbox["snapshot"]] # <<>>
        /\ u.kind = "Update"
        /\ Handle("snapshot", "run", sends)
    BY <1>2 DEF SnapUpdate, Receives, Msg
  <2>2. /\ snap' = [snap EXCEPT
                         !.hints = @ + u.hints,
                         !.signals = @ + u.signals,
                         !.focus = IF u.focus = NoWindow THEN @ ELSE u.focus,
                         !.state = IF u.tr = NoTransition THEN @ ELSE u.tr.to]
        /\ bus' = IF u.tr = NoTransition THEN bus
                  ELSE [bus EXCEPT !.transitions = @ + 1]
    BY <1>2 DEF SnapUpdate
  <2>3. u \in SnapshotMsg
    BY <1>1, <2>1, HeadType, StageNames DEF Inbox, Message
  <2>4. /\ u.hints \in Nat /\ u.signals \in Nat /\ u.focus \in OptWindow
        /\ u.tr \in OptTransition
    BY <2>1, <2>3 DEF SnapshotMsg, Shutdown, HintsComplete, Publish
  <2> HIDE DEF u
  <2>5. u.tr # NoTransition => u.tr \in Transition /\ u.tr.to \in ActivityState
    BY <2>4 DEF Transition, OptTransition
  <2>6. u.tr # NoTransition => TransitionCmd(u.tr) \in StorageMsg
    BY <2>5 DEF TransitionCmd, StorageMsg
  <2>7. u.tr # NoTransition => To("storage", TransitionCmd(u.tr)) \in Send
    BY <2>6, ToSend, StageNames DEF Message
  <2>8. sends \in Seq(Send)
    BY <2>7
  <2> HIDE DEF sends
  <2>9. ChannelsOK'
    BY <1>1, <2>1, <2>8, HandleType, StageNames
  <2>10. snap' \in SnapState
    <3> DEFINE focus == IF u.focus = NoWindow THEN snap.focus ELSE u.focus
               state == IF u.tr = NoTransition THEN snap.state ELSE u.tr.to
    <3>1. focus \in OptWindow /\ state \in ActivityState
      BY <1>1, <2>4, <2>5 DEF SnapState
    <3>2. snap.hints + u.hints \in Nat /\ snap.signals + u.signals \in Nat
      BY <1>1, <2>4 DEF SnapState
    <3>3. snap' = [snap EXCEPT !.hints = snap.hints + u.hints,
                               !.signals = snap.signals + u.signals,
                               !.focus = focus, !.state = state]
      BY <1>1, <2>2 DEF SnapState
    <3> HIDE DEF focus, state
    <3> QED BY <1>1, <3>1, <3>2, <3>3 DEF SnapState
  <2>11. bus' \in BusState
    BY <1>1, <2>2 DEF BusState
  <2>12. StagesOK'
    BY <1>2, <2>10, <2>11 DEF SnapUpdate, SnapshotUnchanged, TypeOK, StagesOK
  <2> QED BY <2>9, <2>12 DEF TypeOK
<1>3. CASE SnapRecord
  <2>1. /\ queue[Inbox["snapshot"]] # <<>> /\ Handle("snapshot", "run", <<>>)
        /\ snap' = [snap EXCEPT !.records = @ + 1]
    BY <1>3 DEF SnapRecord, Receives
  <2>2. ChannelsOK'
    BY <1>1, <2>1, HandleType, StageNames
  <2>3. snap' \in SnapState
    BY <1>1, <2>1 DEF SnapState
  <2>4. StagesOK'
    BY <1>3, <2>3 DEF SnapRecord, SnapshotUnchanged, TypeOK, StagesOK
  <2> QED BY <2>2, <2>4 DEF TypeOK
<1>4. CASE SnapPublish
  <2>1. /\ queue[Inbox["snapshot"]] # <<>> /\ Handle("snapshot", "run", <<>>)
        /\ PublishSnapshot(snap)
    BY <1>4 DEF SnapPublish, Receives
  <2>2. ChannelsOK'
    BY <1>1, <2>1, HandleType, StageNames
  <2>3. bus' \in BusState
    BY <1>1, <2>1, PublishSnapshotType
  <2>4. StagesOK'
    BY <1>4, <2>3 DEF SnapPublish, SnapshotUnchanged, TypeOK, StagesOK
  <2> QED BY <2>2, <2>4 DEF TypeOK
<1>5. CASE SnapHintsComplete
  <2>1. queue[Inbox["snapshot"]] # <<>>
    BY <1>5 DEF SnapHintsComplete, Receives
  <2>2. [snap EXCEPT !.hints_complete = TRUE] \in SnapState
    BY <1>1 DEF SnapState
  <2>3. Finalize([snap EXCEPT !.hints_complete = TRUE])
    BY <1>5 DEF SnapHintsComplete
  <2> QED BY <2>1, <2>2, <2>3, FinalizeType
<1>6. CASE SnapShutdown
  <2>1. queue[Inbox["snapshot"]] # <<>>
    BY <1>6 DEF SnapShutdown, Receives
  <2>2. [snap EXCEPT !.shutdown_requested = TRUE] \in SnapState
    BY <1>1 DEF SnapState
  <2>3. Finalize([snap EXCEPT !.shutdown_requested = TRUE])
    BY <1>6 DEF SnapShutdown
  <2> QED BY <2>1, <2>2, <2>3, FinalizeType
<1>7. CASE SnapClosed
  <2>1. /\ Proceed("snapshot", "last", <<To("storage", Shutdown)>>)
        /\ PublishSnapshot(snap)
    BY <1>7 DEF SnapClosed
  <2>2. <<To("storage", Shutdown)>> \in Seq(Send)
    BY ToSend, PlainMessages, StageNames
  <2>3. ChannelsOK'
    BY <1>1, <2>1, <2>2, ProceedType, StageNames
  <2>4. bus' \in BusState
    BY <1>1, <2>1, PublishSnapshotType
  <2>5. StagesOK'
    BY <1>7, <2>4 DEF SnapClosed, SnapshotUnchanged, TypeOK, StagesOK
  <2> QED BY <2>3, <2>5 DEF TypeOK
<1> QED BY <1>2, <1>3, <1>4, <1>5, <1>6, <1>7 DEF SnapshotStep

\* A transition that reaches the storage stage is a real one.
LEMMA AddType ==
    ASSUME NEW db \in StoreState, NEW cmd \in StorageMsg, cmd.kind # "Shutdown"
    PROVE  Add(db, cmd) \in StoreState
<1>1. CASE cmd.kind = "Envelope"
  BY <1>1 DEF Add, StoreState
<1>2. CASE cmd.kind = "Record"
  <2> DEFINE ch == db.chained /\ cmd.rec.id = db.records
  <2>1. ch \in BOOLEAN
    OBVIOUS
  <2>2. Add(db, cmd) = [db EXCEPT !.records = @ + 1, !.chained = ch]
    BY <1>2 DEF Add, StoreState
  <2>3. db.records + 1 \in Nat
    BY DEF StoreState
  <2> HIDE DEF ch
  <2> QED BY <2>1, <2>2, <2>3, Zenon DEF StoreState
<1>3. CASE cmd.kind = "Transition"
  <2> DEFINE ch == db.chained /\ cmd.tr.from = db.state
  <2>1. cmd.tr \in Transition
    BY <1>3 DEF StorageMsg, Shutdown
  <2>2. cmd.tr.to \in ActivityState
    BY <2>1 DEF Transition
  <2>3. ch \in BOOLEAN
    OBVIOUS
  <2>4. Add(db, cmd) = [db EXCEPT !.transitions = @ + 1, !.state = cmd.tr.to,
                                  !.chained = ch]
    BY <1>3 DEF Add, StoreState
  <2>5. db.transitions + 1 \in Nat
    BY DEF StoreState
  <2> HIDE DEF ch
  <2> QED BY <2>2, <2>3, <2>4, <2>5, Zenon DEF StoreState
<1>4. CASE cmd.kind = "RawEvent"
  BY <1>4 DEF Add, StoreState
<1>5. CASE cmd.kind = "CompactEvents"
  BY <1>5 DEF Add, StoreState
<1> QED BY <1>1, <1>2, <1>3, <1>4, <1>5 DEF StorageMsg, Shutdown

\* The storage stage preserves the type invariant.
LEMMA StorageType ==
    ASSUME TypeOK, Storage
    PROVE  TypeOK'
<1>1. ChannelsOK /\ stored \in StoreState /\ <<>> \in Seq(Send)
  BY DEF TypeOK, StagesOK
<1>2. CASE StoreCommand
  <2> DEFINE cmd == Head(queue["storage"])
  <2>1. /\ queue["storage"] # <<>> /\ cmd.kind # "Shutdown"
        /\ stored' = Add(stored, cmd) /\ Handle("storage", "run", <<>>)
    BY <1>2 DEF StoreCommand
  <2>2. queue[Inbox["storage"]] # <<>>
    BY <2>1 DEF Inbox, Stage
  <2>3. cmd \in StorageMsg
    BY <1>1, <2>1, Names DEF ChannelsOK, Message
  <2> HIDE DEF cmd
  <2>4. ChannelsOK'
    BY <1>1, <2>1, <2>2, HandleType, StageNames
  <2>5. stored' \in StoreState
    BY <1>1, <2>1, <2>3, AddType
  <2>6. StagesOK'
    BY <1>2, <2>5 DEF StoreCommand, StorageUnchanged, TypeOK, StagesOK
  <2> QED BY <2>4, <2>6 DEF TypeOK
<1>3. CASE StoreShutdown
  <2>1. queue[Inbox["storage"]] # <<>> /\ Handle("storage", "last", <<>>)
    BY <1>3 DEF StoreShutdown, Receives
  <2>2. ChannelsOK'
    BY <1>1, <2>1, HandleType, StageNames
  <2>3. StagesOK'
    BY <1>3 DEF StoreShutdown, StorageUnchanged, TypeOK, StagesOK
  <2> QED BY <2>2, <2>3 DEF TypeOK
<1>4. CASE StoreClosed
  <2>1. Proceed("storage", "last", <<>>)
    BY <1>4 DEF StoreClosed
  <2>2. ChannelsOK'
    BY <1>1, <2>1, ProceedType, StageNames
  <2>3. StagesOK'
    BY <1>4 DEF StoreClosed, StorageUnchanged, TypeOK, StagesOK
  <2> QED BY <2>2, <2>3 DEF TypeOK
<1> QED BY <1>2, <1>3, <1>4 DEF Storage

\* The initial state is typed.
LEMMA InitType ==
    ASSUME Init
    PROVE  TypeOK
<1>1. ChannelsOK
  BY DEF Init, ChannelsOK, Status
<1>2. /\ source \in SourceState /\ derive \in DeriveState
      /\ builder \in RecordBuilder /\ snap \in SnapState
      /\ bus \in BusState /\ stored \in StoreState
  BY DEF Init, SourceState, DeriveState, RecordBuilder, NewRecordBuilder,
         SnapState, BusState, StoreState, EmptyStore, OptWindow, ActivityState
<1> QED BY <1>1, <1>2, NoWorkType DEF Init, TypeOK, StagesOK

\* Every channel of the pipeline carries only messages of its type and every
\* stage keeps its state well formed, whatever the events and the schedule.
THEOREM TypeCorrect == Spec => []TypeOK
<1>1. Init => TypeOK
  BY InitType
<1>2. TypeOK /\ [Next]_vars => TypeOK'
  <2> SUFFICES ASSUME TypeOK, [Next]_vars PROVE TypeOK'
    OBVIOUS
  <2>1. CASE UNCHANGED vars
    BY <2>1 DEF vars, TypeOK, ChannelsOK, StagesOK
  <2>2. ASSUME NEW t \in Stage, Exit(t) PROVE TypeOK'
    BY <2>2, EndType DEF Exit, Status
  <2>3. ASSUME NEW t \in Stage, Panic(t) PROVE TypeOK'
    BY <2>3, EndType DEF Panic, Status
  <2>4. CASE EnvelopeStep
    BY <2>4, BatchType, DerivationType, HandleEnvelopeType, EnvelopeEndType
       DEF EnvelopeStep
  <2> QED
    BY <2>1, <2>2, <2>3, <2>4, SourceType, IngestType, HintsType,
       CompressionType, SnapshotType, StorageType, DeliverType DEF Next
<1> QED BY <1>1, <1>2, PTL DEF Spec


-----------------------------------------------------------------------------
(* Sequences *)

\* The empty sequence has an empty range.
LEMMA RangeEmpty == Range(<<>>) = {}
BY DEF Range

\* The sequence of length 0 is the empty one.
LEMMA LenZero ==
    ASSUME NEW S, NEW s \in Seq(S), Len(s) = 0 PROVE s = <<>>
OBVIOUS

\* A sequence of at most one element has an empty tail.
LEMMA TailOfOne ==
    ASSUME NEW S, NEW s \in Seq(S), s # <<>>, Len(s) <= 1 PROVE Tail(s) = <<>>
<1>1. Len(s) \in Nat /\ Len(s) # 0
  BY LenZero
<1>2. Len(s) = 1
  BY <1>1
<1>3. Len(Tail(s)) = 0 /\ Tail(s) \in Seq(S)
  BY <1>2
<1> QED BY <1>3, LenZero

\* The last index of a sequence is one more than that of its tail.
LEMMA LastOfTail ==
    ASSUME NEW S, NEW s \in Seq(S), s # <<>>, NEW i \in Nat, i + 1 = Len(s)
    PROVE  i = Len(Tail(s))
OBVIOUS

\* The head and the tail of a sequence are drawn from it.
LEMMA RangeTail ==
    ASSUME NEW S, NEW s \in Seq(S), s # <<>>
    PROVE  Range(Tail(s)) \subseteq Range(s) /\ Head(s) \in Range(s)
<1>1. \A i \in 1..Len(Tail(s)) : Tail(s)[i] = s[i+1] /\ i+1 \in 1..Len(s)
  OBVIOUS
<1>2. Range(Tail(s)) \subseteq Range(s)
  BY <1>1 DEF Range
<1>3. Head(s) = s[1] /\ 1 \in 1..Len(s)
  OBVIOUS
<1> QED BY <1>2, <1>3 DEF Range

\* Appending adds one element to the range.
LEMMA RangeAppend ==
    ASSUME NEW S, NEW s \in Seq(S), NEW x
    PROVE  Range(Append(s, x)) = Range(s) \cup {x}
<1>1. DOMAIN Append(s, x) = 1..Len(s)+1 /\ DOMAIN s = 1..Len(s)
  OBVIOUS
<1>2. \A i \in 1..Len(s) : Append(s, x)[i] = s[i]
  OBVIOUS
<1>3. Append(s, x)[Len(s)+1] = x /\ Len(s) \in Nat
  OBVIOUS
<1> QED BY <1>1, <1>2, <1>3 DEF Range

\* One more message keeps the storage channel in order when it is an event of
\* the compression stage, or when there is no Shutdown yet.
LEMMA OrderAppend ==
    ASSUME NEW S, NEW q \in Seq(S), NEW m, OnlyEventsBehindShutdown(q),
           \/ m.kind \in {"RawEvent", "CompactEvents"}
           \/ \A n \in Range(q) : n.kind # "Shutdown"
    PROVE  OnlyEventsBehindShutdown(Append(q, m))
<1>1. Len(Append(q, m)) = Len(q) + 1 /\ Len(q) \in Nat
  OBVIOUS
<1>2. \A i \in 1..Len(q) : Append(q, m)[i] = q[i]
  OBVIOUS
<1>3. Append(q, m)[Len(q) + 1] = m
  OBVIOUS
<1>4. \A i \in 1..Len(q) : q[i] \in Range(q)
  BY DEF Range
<1> QED BY <1>1, <1>2, <1>3, <1>4 DEF OnlyEventsBehindShutdown

\* Consuming the head keeps the storage channel in order.
LEMMA OrderTail ==
    ASSUME NEW S, NEW q \in Seq(S), q # <<>>, OnlyEventsBehindShutdown(q)
    PROVE  OnlyEventsBehindShutdown(Tail(q))
<1>1. \A i \in 1..Len(Tail(q)) : Tail(q)[i] = q[i+1] /\ i+1 \in 1..Len(q)
  OBVIOUS
<1>2. \A i, j \in 1..Len(Tail(q)) : i < j => i + 1 < j + 1
  OBVIOUS
<1> QED BY <1>1, <1>2 DEF OnlyEventsBehindShutdown

-----------------------------------------------------------------------------
(* What a step of one thread changes *)

\* A thread that goes on delivers at most its first send.
LEMMA ContinueEffect ==
    ASSUME status \in [Stage -> Status], out \in [Stage -> Seq(Send)],
           NEW t \in Stage, NEW st \in Status, NEW sends \in Seq(Send),
           NEW q \in [Chan -> Seq(AnyMessage)],
           Continue(t, st, sends, q)
    PROVE  /\ status'[t] = st
           /\ \A u \in Stage : u # t => status'[u] = status[u] /\ out'[u] = out[u]
           /\ \/ queue' = q /\ out'[t] = sends
              \/ /\ sends # <<>> /\ out'[t] = Tail(sends)
                 /\ \A c \in Chan : c # Head(sends).to => queue'[c] = q[c]
                 /\ queue'[Head(sends).to] =
                       Append(q[Head(sends).to], Head(sends).msg)
<1>1. status'[t] = st /\ \A u \in Stage : u # t => status'[u] = status[u]
  BY DEF Continue
<1>2. CASE ~CanSend(sends)
  BY <1>1, <1>2 DEF Continue
<1>3. CASE CanSend(sends)
  <2>1. sends # <<>> /\ Head(sends) \in Send
    BY <1>3 DEF CanSend
  <2>2. Head(sends).to \in Chan
    BY <2>1, SendTo
  <2>3. /\ out' = [out EXCEPT ![t] = Tail(sends)]
        /\ queue' = [q EXCEPT ![Head(sends).to] = Append(@, Head(sends).msg)]
    BY <1>3 DEF Continue
  <2> QED BY <1>1, <2>1, <2>2, <2>3
<1> QED BY <1>2, <1>3

\* What a step leaves in the outboxes and channels is what was there or what it
\* was asked to send.
LEMMA ContinueRanges ==
    ASSUME status \in [Stage -> Status], out \in [Stage -> Seq(Send)],
           NEW t \in Stage, NEW st \in Status, NEW sends \in Seq(Send),
           NEW q \in [Chan -> Seq(AnyMessage)],
           Continue(t, st, sends, q)
    PROVE  /\ status'[t] = st
           /\ \A u \in Stage : u # t => status'[u] = status[u] /\ out'[u] = out[u]
           /\ Range(out'[t]) \subseteq Range(sends)
           /\ \A c \in Chan : \/ queue'[c] = q[c]
                              \/ \E s \in Range(sends) :
                                    s.to = c /\ queue'[c] = Append(q[c], s.msg)
<1>1. CASE queue' = q /\ out'[t] = sends
  BY <1>1, ContinueEffect
<1>2. CASE /\ sends # <<>> /\ out'[t] = Tail(sends)
           /\ \A c \in Chan : c # Head(sends).to => queue'[c] = q[c]
           /\ queue'[Head(sends).to] =
                 Append(q[Head(sends).to], Head(sends).msg)
  <2>1. Range(Tail(sends)) \subseteq Range(sends) /\ Head(sends) \in Range(sends)
    BY <1>2, RangeTail
  <2> QED BY <1>2, <2>1, ContinueEffect
<1> QED BY <1>1, <1>2, ContinueEffect

\* The two ways a handler goes on, in terms of its sends.
LEMMA ProceedRanges ==
    ASSUME ChannelsOK, NEW t \in Stage, NEW st \in Status,
           NEW sends \in Seq(Send), Proceed(t, st, sends)
    PROVE  /\ status'[t] = st
           /\ \A u \in Stage : u # t => status'[u] = status[u] /\ out'[u] = out[u]
           /\ Range(out'[t]) \subseteq Range(sends)
           /\ \A c \in Chan : \/ queue'[c] = queue[c]
                              \/ \E s \in Range(sends) :
                                    s.to = c /\ queue'[c] = Append(queue[c], s.msg)
BY ContinueRanges DEF Proceed, ChannelsOK

\* The same of a step that consumes the head of its inbox.
LEMMA HandleRanges ==
    ASSUME ChannelsOK, NEW t \in Stage, NEW st \in Status,
           NEW sends \in Seq(Send), queue[Inbox[t]] # <<>>, Handle(t, st, sends),
           \A s \in Range(sends) : s.to # Inbox[t]
    PROVE  /\ status'[t] = st
           /\ \A u \in Stage : u # t => status'[u] = status[u] /\ out'[u] = out[u]
           /\ Range(out'[t]) \subseteq Range(sends)
           /\ queue'[Inbox[t]] = Tail(queue[Inbox[t]])
           /\ \A c \in Chan : c # Inbox[t] =>
                 \/ queue'[c] = queue[c]
                 \/ \E s \in Range(sends) :
                       s.to = c /\ queue'[c] = Append(queue[c], s.msg)
<1> DEFINE i == Inbox[t]
           q == [queue EXCEPT ![i] = Tail(@)]
<1>0. status \in [Stage -> Status] /\ out \in [Stage -> Seq(Send)]
  BY DEF ChannelsOK
<1>1. i \in Chan
  BY Names
<1>2. queue[i] \in Seq(AnyMessage) /\ queue[i] # <<>>
  BY <1>1 DEF ChannelsOK
<1>3. q \in [Chan -> Seq(AnyMessage)]
  BY <1>1, <1>2 DEF ChannelsOK
<1>4. q[i] = Tail(queue[i]) /\ \A c \in Chan : c # i => q[c] = queue[c]
  BY <1>1 DEF ChannelsOK
<1>5. /\ status'[t] = st
      /\ \A u \in Stage : u # t => status'[u] = status[u]
  BY <1>0 DEF Handle, Continue
<1>6. CASE ~CanSend(sends)
  <2>1. queue' = q /\ out' = [out EXCEPT ![t] = sends]
    BY <1>6 DEF Handle, Continue
  <2> QED BY <1>0, <1>1, <1>4, <1>5, <2>1
<1>7. CASE CanSend(sends)
  <2>1. /\ out' = [out EXCEPT ![t] = Tail(sends)]
        /\ queue' = [q EXCEPT ![Head(sends).to] = Append(@, Head(sends).msg)]
    BY <1>7 DEF Handle, Continue
  <2>2. sends # <<>> /\ Head(sends) \in Send
    BY <1>7 DEF CanSend
  <2>3. Head(sends).to \in Chan
    BY <2>2, SendTo
  <2>4. Range(Tail(sends)) \subseteq Range(sends) /\ Head(sends) \in Range(sends)
    BY <2>2, RangeTail
  <2>5. Head(sends).to # i
    BY <2>4
  <2>6. \A u \in Stage : u # t => out'[u] = out[u]
    BY <1>0, <2>1
  <2>7. Range(out'[t]) \subseteq Range(sends)
    BY <1>0, <2>1, <2>4
  <2> HIDE DEF q
  <2>8. /\ queue'[i] = q[i]
        /\ queue'[Head(sends).to] = Append(q[Head(sends).to], Head(sends).msg)
        /\ \A c \in Chan : c # Head(sends).to => queue'[c] = q[c]
    BY <1>1, <1>3, <2>1, <2>3, <2>5
  <2>9. ASSUME NEW c \in Chan, c # i
        PROVE  \/ queue'[c] = queue[c]
               \/ \E s \in Range(sends) :
                     s.to = c /\ queue'[c] = Append(queue[c], s.msg)
    <3>1. q[c] = queue[c]
      BY <1>4, <2>9
    <3>2. CASE c # Head(sends).to
      BY <2>8, <3>1, <3>2
    <3>3. CASE c = Head(sends).to
      <4>1. queue'[c] = Append(queue[c], Head(sends).msg)
        BY <2>8, <3>1, <3>3
      <4> QED BY <2>4, <3>3, <4>1
    <3> QED BY <3>2, <3>3
  <2> QED BY <1>4, <1>5, <2>6, <2>7, <2>8, <2>9
<1> QED BY <1>6, <1>7

-----------------------------------------------------------------------------
(* Parts of the argument *)

\* As long as the envelopes are not drained, no later stage has begun to shut
\* down.
LEMMA NotDraining ==
    ASSUME DrainInv, ~EnvelopesDrained
    PROVE  /\ ~snap.hints_complete
           /\ \A m \in Range(queue["snapshot"]) : m.kind # "HintsComplete"
           /\ status["snapshot"] \notin {"last", "done"}
           /\ status["storage"] \notin {"last", "done"}
           /\ \A m \in Range(queue["storage"]) : m.kind # "Shutdown"
BY DEF DrainInv, HintsCompleteMeansDrained, ShutdownIsLast,
       StorageShutdownMeansDrained

\* A running snapshot stage has not shut storage down.
LEMMA StorageOpen ==
    ASSUME DrainInv, status["snapshot"] = "run" \/ out["snapshot"] # <<>>
    PROVE  /\ status["storage"] \notin {"last", "done"}
           /\ \A m \in Range(queue["storage"]) : m.kind # "Shutdown"
BY DEF DrainInv, StorageShutdownMeansDrained

\* A step of a stage that is not gone keeps the first two parts when it leaves
\* the others alone and its sends are its own.
LEMMA OwnSends ==
    ASSUME DrainInv, NEW t \in Stage,
           \A u \in Stage : u # t => status'[u] = status[u] /\ out'[u] = out[u],
           \A s \in Range(out'[t]) : MayEmit(t, s),
           status'[t] \notin {"done", "panicked"} \/ out'[t] = <<>>
    PROVE  GoneIsSilent' /\ SendsAreTheirs'
BY DEF DrainInv, GoneIsSilent, SendsAreTheirs, Gone

\* Steps that the invariant does not look at: the hooks' and the ingest stage's.
LEMMA Elsewhere ==
    ASSUME DrainInv, GoneIsSilent', SendsAreTheirs', snap' = snap,
           \A t \in {"envelope", "hints", "snapshot", "storage"} :
              status'[t] = status[t] /\ out'[t] = out[t],
           queue'["snapshot"] = queue["snapshot"],
           queue'["storage"] = queue["storage"]
    PROVE  DrainInv'
<1>1. HintsCompleteIsLast'
  BY DEF DrainInv, HintsCompleteIsLast, Gone
<1>2. EnvelopesDrained' <=> EnvelopesDrained
  BY DEF EnvelopesDrained, Gone
<1>3. HintsCompleteMeansDrained'
  BY <1>2 DEF DrainInv, HintsCompleteMeansDrained
<1>4. ShutdownIsLast'
  BY <1>2 DEF DrainInv, ShutdownIsLast
<1>5. StorageShutdownMeansDrained'
  BY <1>2 DEF DrainInv, StorageShutdownMeansDrained
<1>6. OnlyEventsBehindShutdown(queue["storage"])'
  BY DEF DrainInv
<1> QED BY <1>1, <1>3, <1>4, <1>5, <1>6 DEF DrainInv

\* An event of the compression stage changes nothing of the protocol either.
LEMMA CompressionSends ==
    ASSUME ChannelsOK, DrainInv, GoneIsSilent', SendsAreTheirs', snap' = snap,
           \A t \in {"envelope", "hints", "snapshot", "storage"} :
              status'[t] = status[t] /\ out'[t] = out[t],
           queue'["snapshot"] = queue["snapshot"],
           NEW m, queue'["storage"] = Append(queue["storage"], m),
           m.kind \in {"RawEvent", "CompactEvents"}
    PROVE  DrainInv'
<1>1. HintsCompleteIsLast'
  BY DEF DrainInv, HintsCompleteIsLast, Gone
<1>2. EnvelopesDrained' <=> EnvelopesDrained
  BY DEF EnvelopesDrained, Gone
<1>3. HintsCompleteMeansDrained'
  BY <1>2 DEF DrainInv, HintsCompleteMeansDrained
<1>4. ShutdownIsLast'
  BY <1>2 DEF DrainInv, ShutdownIsLast
<1>5. queue["storage"] \in Seq(AnyMessage)
  BY StageNames DEF ChannelsOK
<1>6. Range(queue'["storage"]) = Range(queue["storage"]) \cup {m}
  BY <1>5, RangeAppend
<1>7. StorageShutdownMeansDrained'
  BY <1>2, <1>6 DEF DrainInv, StorageShutdownMeansDrained
<1>8. OnlyEventsBehindShutdown(queue["storage"])'
  BY <1>5, OrderAppend DEF DrainInv
<1> QED BY <1>1, <1>3, <1>4, <1>7, <1>8 DEF DrainInv

\* What the envelope and the hints stage do before the envelopes are drained.
LEMMA Upstream ==
    ASSUME ChannelsOK, DrainInv, ~EnvelopesDrained, snap' = snap,
           GoneIsSilent', SendsAreTheirs', HintsCompleteIsLast',
           \A t \in {"snapshot", "storage"} :
              status'[t] = status[t] /\ out'[t] = out[t],
           \/ queue'["storage"] = queue["storage"]
           \/ \E m : /\ queue'["storage"] = Append(queue["storage"], m)
                     /\ m.kind # "Shutdown",
           \/ queue'["snapshot"] = queue["snapshot"]
           \/ \E m : /\ queue'["snapshot"] = Append(queue["snapshot"], m)
                     /\ m.kind = "HintsComplete" => EnvelopesDrained'
    PROVE  DrainInv'
<1>1. queue["storage"] \in Seq(AnyMessage) /\ queue["snapshot"] \in Seq(AnyMessage)
  BY StageNames DEF ChannelsOK
<1>2. /\ \A m \in Range(queue'["storage"]) : m.kind # "Shutdown"
      /\ OnlyEventsBehindShutdown(queue'["storage"])
  <2>1. CASE queue'["storage"] = queue["storage"]
    BY <2>1, NotDraining DEF DrainInv
  <2>2. CASE \E m : /\ queue'["storage"] = Append(queue["storage"], m)
                    /\ m.kind # "Shutdown"
    <3>1. PICK m : /\ queue'["storage"] = Append(queue["storage"], m)
                   /\ m.kind # "Shutdown"
      BY <2>2
    <3>2. Range(queue'["storage"]) = Range(queue["storage"]) \cup {m}
      BY <1>1, <3>1, RangeAppend
    <3>3. OnlyEventsBehindShutdown(Append(queue["storage"], m))
      BY <1>1, NotDraining, OrderAppend DEF DrainInv
    <3> QED BY <3>1, <3>2, <3>3, NotDraining
  <2> QED BY <2>1, <2>2
<1>3. \A m \in Range(queue'["snapshot"]) :
         m.kind = "HintsComplete" => EnvelopesDrained'
  <2>1. CASE queue'["snapshot"] = queue["snapshot"]
    BY <2>1, NotDraining
  <2>2. CASE \E m : /\ queue'["snapshot"] = Append(queue["snapshot"], m)
                    /\ m.kind = "HintsComplete" => EnvelopesDrained'
    <3>1. PICK m : /\ queue'["snapshot"] = Append(queue["snapshot"], m)
                   /\ m.kind = "HintsComplete" => EnvelopesDrained'
      BY <2>2
    <3>2. Range(queue'["snapshot"]) = Range(queue["snapshot"]) \cup {m}
      BY <1>1, <3>1, RangeAppend
    <3> QED BY <3>1, <3>2, NotDraining
  <2> QED BY <2>1, <2>2
<1>4. HintsCompleteMeansDrained'
  BY <1>3, NotDraining DEF HintsCompleteMeansDrained
<1>5. ShutdownIsLast'
  BY NotDraining DEF DrainInv, ShutdownIsLast
<1>6. StorageShutdownMeansDrained'
  BY <1>2, NotDraining DEF StorageShutdownMeansDrained
<1> QED BY <1>2, <1>4, <1>5, <1>6 DEF DrainInv

\* What the snapshot stage does before it has shut storage down.
LEMMA Downstream ==
    ASSUME ChannelsOK, DrainInv, GoneIsSilent', SendsAreTheirs', ShutdownIsLast',
           status["snapshot"] = "run" \/ out["snapshot"] # <<>>,
           \A t \in {"envelope", "hints", "storage"} :
              status'[t] = status[t] /\ out'[t] = out[t],
           Range(queue'["snapshot"]) \subseteq Range(queue["snapshot"]),
           snap'.hints_complete => EnvelopesDrained,
           \/ queue'["storage"] = queue["storage"]
           \/ \E m : /\ queue'["storage"] = Append(queue["storage"], m)
                     /\ m.kind = "Shutdown" =>
                          /\ EnvelopesDrained
                          /\ status'["snapshot"] # "run"
                          /\ out'["snapshot"] = <<>>
    PROVE  DrainInv'
<1>1. queue["storage"] \in Seq(AnyMessage)
  BY StageNames DEF ChannelsOK
<1>2. EnvelopesDrained' <=> EnvelopesDrained
  BY DEF EnvelopesDrained, Gone
<1>3. HintsCompleteIsLast'
  BY DEF DrainInv, HintsCompleteIsLast, Gone
<1>4. HintsCompleteMeansDrained'
  BY <1>2 DEF DrainInv, HintsCompleteMeansDrained
<1>5. StorageShutdownMeansDrained' /\ OnlyEventsBehindShutdown(queue'["storage"])
  <2>1. CASE queue'["storage"] = queue["storage"]
    BY <1>2, <2>1, StorageOpen DEF DrainInv, StorageShutdownMeansDrained
  <2>2. CASE queue'["storage"] # queue["storage"]
    <3>1. PICK m : /\ queue'["storage"] = Append(queue["storage"], m)
                   /\ m.kind = "Shutdown" =>
                        /\ EnvelopesDrained
                        /\ status'["snapshot"] # "run"
                        /\ out'["snapshot"] = <<>>
      BY <2>2
    <3>2. Range(queue'["storage"]) = Range(queue["storage"]) \cup {m}
      BY <1>1, <3>1, RangeAppend
    <3>3. OnlyEventsBehindShutdown(Append(queue["storage"], m))
      BY <1>1, StorageOpen, OrderAppend DEF DrainInv
    <3>4. StorageShutdownMeansDrained'
      BY <1>2, <3>1, <3>2, StorageOpen DEF StorageShutdownMeansDrained
    <3> QED BY <3>1, <3>3, <3>4
  <2> QED BY <2>1, <2>2
<1> QED BY <1>3, <1>4, <1>5 DEF DrainInv

\* The event source touches no part of the invariant.
LEMMA SourceDrain ==
    ASSUME TypeOK, DrainInv, Source
    PROVE  DrainInv'
<1>1. UNCHANGED <<status, out, snap>>
  BY DEF Source, HookEvent, CtrlC, SourceClose
<1>2. \A c \in Chan : c # "events" => queue'[c] = queue[c]
  <2>1. queue \in [Chan -> Seq(AnyMessage)]
    BY DEF TypeOK, ChannelsOK
  <2>2. ASSUME NEW m, SourceSend(m)
        PROVE  \A c \in Chan : c # "events" => queue'[c] = queue[c]
    BY <2>1, <2>2 DEF SourceSend
  <2> QED BY <2>2 DEF Source, HookEvent, CtrlC, SourceClose
<1>3. GoneIsSilent' /\ SendsAreTheirs'
  BY <1>1 DEF DrainInv, GoneIsSilent, SendsAreTheirs, Gone
<1> QED BY <1>1, <1>2, <1>3, Elsewhere, StageNames

\* Neither does the ingest stage, which only sends to the derive channel.
LEMMA IngestDrain ==
    ASSUME TypeOK, DrainInv, Ingest
    PROVE  DrainInv'
<1>1. ChannelsOK /\ snap' = snap
  BY DEF TypeOK, Ingest, IngestEvent, IngestShutdown, IngestFlush, IngestIdleTick,
         IngestDisconnected, IngestUnchanged
<1>2. PICK st \in {"run", "last"}, sends \in Seq(Send) :
        /\ \A s \in Range(sends) : s.to = "derive"
        /\ \/ queue[Inbox["ingest"]] # <<>> /\ Handle("ingest", st, sends)
           \/ Proceed("ingest", st, sends)
  <2> DEFINE tick == <<To("derive", Tick)>>
             bye == <<To("derive", Shutdown)>>
  <2>1. tick \in Seq(Send) /\ bye \in Seq(Send) /\ FlushPending \in Seq(Send)
    BY ToSend, PlainMessages, StageNames, FlushPendingType
  <2>2. \A s \in Range(tick) \cup Range(bye) \cup Range(FlushPending) : s.to = "derive"
    BY DEF Range, To, FlushPending
  <2>3. /\ Range(FlushPending \o tick) = Range(FlushPending) \cup Range(tick)
        /\ Range(FlushPending \o bye) = Range(FlushPending) \cup Range(bye)
    BY <2>1, RangeConcatenation
  <2>4. FlushPending \o tick \in Seq(Send) /\ FlushPending \o bye \in Seq(Send)
    BY <2>1
  <2>5. <<>> \in Seq(Send) /\ \A s \in Range(<<>>) : s.to = "derive"
    BY RangeEmpty
  <2>6. CASE IngestEvent
    BY <2>1, <2>2, <2>6 DEF IngestEvent, Receives
  <2>7. CASE IngestShutdown
    BY <2>2, <2>3, <2>4, <2>7 DEF IngestShutdown, Receives
  <2>8. CASE IngestFlush
    BY <2>2, <2>3, <2>4, <2>8 DEF IngestFlush
  <2>9. CASE IngestIdleTick
    BY <2>1, <2>2, <2>9 DEF IngestIdleTick
  <2>10. CASE IngestDisconnected
    BY <2>5, <2>10 DEF IngestDisconnected
  <2> QED BY <2>6, <2>7, <2>8, <2>9, <2>10 DEF Ingest
<1>3. Inbox["ingest"] = "events" /\ st \in Status
  BY DEF Inbox, Stage, Status
<1>4. /\ status'["ingest"] = st
      /\ \A u \in Stage : u # "ingest" => status'[u] = status[u] /\ out'[u] = out[u]
      /\ Range(out'["ingest"]) \subseteq Range(sends)
      /\ \A c \in Chan : c \notin {"events", "derive"} => queue'[c] = queue[c]
  <2>1. CASE queue[Inbox["ingest"]] # <<>> /\ Handle("ingest", st, sends)
    BY <1>1, <1>2, <1>3, <2>1, HandleRanges, StageNames
  <2>2. CASE Proceed("ingest", st, sends)
    BY <1>1, <1>2, <1>3, <2>2, ProceedRanges, StageNames
  <2> QED BY <1>2, <2>1, <2>2
<1>5. GoneIsSilent' /\ SendsAreTheirs'
  BY <1>2, <1>4, OwnSends, StageNames DEF MayEmit
<1> QED BY <1>1, <1>4, <1>5, Elsewhere, StageNames

\* Every step of the envelope stage happens in its loop and sends only what is
\* the stage's to send.
LEMMA EnvelopeSends ==
    ASSUME TypeOK, EnvelopeStep
    PROVE  /\ status["envelope"] = "run" /\ snap' = snap
           /\ \/ UNCHANGED <<status, queue, out>>
              \/ \E st \in {"run", "last"}, sends \in Seq(Send) :
                   /\ \A s \in Range(sends) : MayEmit("envelope", s)
                   /\ \/ queue[Inbox["envelope"]] # <<>>
                         /\ Handle("envelope", st, sends)
                      \/ Proceed("envelope", st, sends)
<1>1. status["envelope"] = "run" /\ snap' = snap
  BY DEF EnvelopeStep, TakeBatch, AdaptEvent, DeriveLock, HandleHint, HandleSignal,
         FinishBatch, TakeTick, TakeShutdown, EnvelopeClosed, EnvelopeUnchanged,
         Receives, Running
<1>2. work \in Work /\ derive \in DeriveState
  BY DEF TypeOK, StagesOK
<1>3. <<>> \in Seq(Send) /\ \A s \in Range(<<>>) : MayEmit("envelope", s)
  BY RangeEmpty
<1>4. ASSUME NEW upd \in PendingUpdate, NEW to \in ActivityState
      PROVE  /\ StateSends(upd, derive.state, to) \in Seq(Send)
             /\ \A s \in Range(StateSends(upd, derive.state, to)) :
                   MayEmit("envelope", s)
  <2>1. derive.state \in ActivityState
    BY <1>2 DEF DeriveState
  <2>2. StateSends(upd, derive.state, to) \in Seq(Send)
    BY <2>1, StateSendsType
  <2> QED BY <2>2, RangeEmpty DEF StateSends, Range, MayEmit, To, Update
<1>5. /\ To("snapshot", Publish) \in Send /\ MayEmit("envelope", To("snapshot", Publish))
      /\ <<To("snapshot", Publish)>> \in Seq(Send)
      /\ \A s \in Range(<<To("snapshot", Publish)>>) : MayEmit("envelope", s)
  BY ToSend, PlainMessages, StageNames DEF Range, MayEmit, To, Publish
<1>6. CASE TakeBatch
  BY <1>1, <1>3, <1>6 DEF TakeBatch, Receives
<1>7. CASE AdaptEvent \/ DeriveLock
  BY <1>1, <1>7 DEF AdaptEvent, DeriveLock
<1>8. CASE HandleHint
  <2> DEFINE env == Head(work.envs)
  <2>1. work.envs # <<>> /\ Proceed("envelope", "run", <<To("hints", env)>>)
    BY <1>8 DEF HandleHint
  <2>2. env \in Hint
    BY <1>2, <1>8, <2>1 DEF Work, HandleHint, Hint
  <2> HIDE DEF env
  <2>3. <<To("hints", env)>> \in Seq(Send)
    BY <2>2, ToSend, StageNames DEF Message
  <2>4. \A s \in Range(<<To("hints", env)>>) : MayEmit("envelope", s)
    BY DEF Range, MayEmit, To
  <2> QED BY <1>1, <2>1, <2>3, <2>4
<1>9. CASE HandleSignal
  <2> DEFINE env == Head(work.envs)
             upd == [WithFocus(work.upd, env) EXCEPT !.signals = @ + 1]
             cmd == <<To("storage", EnvelopeCmd(env))>>
  <2>1. work.envs # <<>>
    BY <1>9 DEF HandleSignal
  <2>2. PICK to \in AfterSignal(derive.state, env.kind) :
          Proceed("envelope", "run", cmd \o StateSends(upd, derive.state, to))
    BY <1>9 DEF HandleSignal
  <2>3. env \in Envelope
    BY <1>2, <2>1 DEF Work
  <2>4. WithFocus(work.upd, env) \in PendingUpdate
    BY <1>2, <2>3, WithFocusType DEF Work
  <2>5. upd \in PendingUpdate
    BY <2>4 DEF PendingUpdate
  <2>6. to \in ActivityState
    BY <1>2 DEF DeriveState, AfterSignal, UnlockedState, ActivityState
  <2>7. EnvelopeCmd(env) \in Message("storage")
    BY DEF EnvelopeCmd, IsSignal, Message, StorageMsg
  <2>8. cmd \in Seq(Send)
    BY <2>7, ToSend, StageNames
  <2>9. \A s \in Range(cmd) : MayEmit("envelope", s)
    <3>1. IsSignal(env)
      BY <1>9 DEF HandleSignal
    <3> QED BY <3>1 DEF Range, MayEmit, To, EnvelopeCmd
  <2> HIDE DEF upd, cmd
  <2>10. /\ StateSends(upd, derive.state, to) \in Seq(Send)
         /\ \A s \in Range(StateSends(upd, derive.state, to)) :
               MayEmit("envelope", s)
    BY <1>4, <2>5, <2>6
  <2>11. Range(cmd \o StateSends(upd, derive.state, to))
           = Range(cmd) \cup Range(StateSends(upd, derive.state, to))
    BY <2>8, <2>10, RangeConcatenation
  <2>12. cmd \o StateSends(upd, derive.state, to) \in Seq(Send)
    BY <2>8, <2>10
  <2> QED BY <1>1, <2>2, <2>9, <2>10, <2>11, <2>12
<1>10. CASE FinishBatch
  <2> DEFINE job == <<To("compression", Process(work.batch))>>
             rest == To("snapshot", Update(work.upd.hints, work.upd.signals,
                                           work.upd.focus, NoTransition))
             upd == IF work.upd = NoUpdate THEN <<>> ELSE <<rest>>
             pub == <<To("snapshot", Publish)>>
  <2>1. Proceed("envelope", "run", job \o upd \o pub)
    BY <1>10 DEF FinishBatch
  <2>2. Process(work.batch) \in Message("compression")
    BY <1>2 DEF Work, Process, Message, CompressionMsg
  <2>3. job \in Seq(Send)
    BY <2>2, ToSend, StageNames
  <2>4. /\ work.upd.hints \in Nat /\ work.upd.signals \in Nat
        /\ work.upd.focus \in OptWindow /\ NoTransition \in OptTransition
    BY <1>2 DEF Work, PendingUpdate, OptTransition
  <2>5. rest \in Send
    BY <2>4, UpdateType
  <2>6. MayEmit("envelope", rest)
    BY DEF MayEmit, To, Update
  <2>7. \A s \in Range(job) : MayEmit("envelope", s)
    BY DEF Range, MayEmit, To
  <2> HIDE DEF rest
  <2>8. upd \in Seq(Send) /\ \A s \in Range(upd) : MayEmit("envelope", s)
    BY <2>5, <2>6, RangeEmpty DEF Range
  <2> HIDE DEF job, upd, pub
  <2>9. pub \in Seq(Send) /\ \A s \in Range(pub) : MayEmit("envelope", s)
    BY <1>5 DEF pub
  <2>10. job \o upd \in Seq(Send) /\ Range(job \o upd) = Range(job) \cup Range(upd)
    BY <2>3, <2>8, RangeConcatenation
  <2>11. /\ job \o upd \o pub \in Seq(Send)
         /\ Range(job \o upd \o pub) = Range(job \o upd) \cup Range(pub)
    <3> DEFINE front == job \o upd
    <3>1. front \in Seq(Send)
      BY <2>10
    <3> HIDE DEF front
    <3>2. front \o pub \in Seq(Send)
      BY <2>9, <3>1
    <3>3. Range(front \o pub) = Range(front) \cup Range(pub)
      BY <2>9, <3>1, RangeConcatenation
    <3> QED BY <3>2, <3>3 DEF front
  <2>12. \A s \in Range(job \o upd \o pub) : MayEmit("envelope", s)
    BY <2>7, <2>8, <2>9, <2>10, <2>11
  <2> QED BY <1>1, <2>1, <2>11, <2>12
<1>11. CASE TakeTick
  <2>1. PICK to \in AfterTick(derive.state) :
          Handle("envelope", "run",
                 IF to = derive.state THEN <<>>
                 ELSE StateSends(NoUpdate, derive.state, to)
                        \o <<To("snapshot", Publish)>>)
    BY <1>11 DEF TakeTick
  <2>2. to \in ActivityState
    BY <1>2 DEF DeriveState, AfterTick, UnlockedState, ActivityState
  <2>3. /\ StateSends(NoUpdate, derive.state, to) \in Seq(Send)
        /\ \A s \in Range(StateSends(NoUpdate, derive.state, to)) :
              MayEmit("envelope", s)
    BY <1>4, <2>2, NoWorkType
  <2> DEFINE sts == StateSends(NoUpdate, derive.state, to)
             pub == <<To("snapshot", Publish)>>
             both == sts \o pub
  <2>4. both \in Seq(Send)
    BY <1>5, <2>3
  <2>5. \A s \in Range(both) : MayEmit("envelope", s)
    <3> HIDE DEF sts, pub
    <3>1. sts \in Seq(Send) /\ pub \in Seq(Send)
      BY <1>5, <2>3 DEF sts, pub
    <3>2. Range(both) = Range(sts) \cup Range(pub)
      BY <3>1, RangeConcatenation
    <3> QED BY <1>5, <2>3, <3>2 DEF sts, pub
  <2>6. queue[Inbox["envelope"]] # <<>>
    BY <1>11 DEF TakeTick, Receives
  <2> HIDE DEF both
  <2>7. CASE to = derive.state
    BY <1>1, <1>3, <2>1, <2>6, <2>7
  <2>8. CASE to # derive.state
    <3>1. Handle("envelope", "run", both)
      BY <2>1, <2>8 DEF both
    <3> QED BY <1>1, <2>4, <2>5, <2>6, <3>1
  <2> QED BY <2>7, <2>8
<1>12. CASE TakeShutdown
  <2> DEFINE bye == <<To("snapshot", Shutdown), To("compression", Shutdown)>>
  <2>1. queue[Inbox["envelope"]] # <<>> /\ Handle("envelope", "last", bye)
    BY <1>12 DEF TakeShutdown, Receives
  <2>2. bye \in Seq(Send)
    BY ToSend, PlainMessages, StageNames
  <2>3. \A s \in Range(bye) : MayEmit("envelope", s)
    BY DEF Range, MayEmit, To, Shutdown
  <2> HIDE DEF bye
  <2> QED BY <1>1, <2>1, <2>2, <2>3
<1>13. CASE EnvelopeClosed
  BY <1>1, <1>3, <1>13 DEF EnvelopeClosed
<1> QED
  BY <1>6, <1>7, <1>8, <1>9, <1>10, <1>11, <1>12, <1>13 DEF EnvelopeStep

\* The envelope stage preserves the invariant: while it runs nobody has shut down.
LEMMA EnvelopeDrain ==
    ASSUME TypeOK, DrainInv, EnvelopeStep
    PROVE  DrainInv'
<1>1. ChannelsOK /\ status["envelope"] = "run" /\ snap' = snap
  BY EnvelopeSends DEF TypeOK
<1>2. ~EnvelopesDrained /\ status["hints"] \notin {"last", "done"}
  BY <1>1 DEF EnvelopesDrained, Gone, DrainInv, HintsCompleteIsLast
<1>3. CASE UNCHANGED <<status, queue, out>>
  <2>1. GoneIsSilent' /\ SendsAreTheirs'
    BY <1>3 DEF DrainInv, GoneIsSilent, SendsAreTheirs, Gone
  <2> QED BY <1>1, <1>3, <2>1, Elsewhere
<1>4. ASSUME NEW st \in {"run", "last"}, NEW sends \in Seq(Send),
             \A s \in Range(sends) : MayEmit("envelope", s),
             \/ queue[Inbox["envelope"]] # <<>> /\ Handle("envelope", st, sends)
             \/ Proceed("envelope", st, sends)
      PROVE  DrainInv'
  <2>1. Inbox["envelope"] = "derive" /\ st \in Status
    BY DEF Inbox, Stage, Status
  <2>2. \A s \in Range(sends) : s.to # "derive"
    BY <1>4 DEF MayEmit
  <2>3. /\ status'["envelope"] = st
        /\ \A u \in Stage : u # "envelope" => status'[u] = status[u] /\ out'[u] = out[u]
        /\ Range(out'["envelope"]) \subseteq Range(sends)
        /\ \A c \in Chan : c # "derive" =>
              \/ queue'[c] = queue[c]
              \/ \E s \in Range(sends) :
                    s.to = c /\ queue'[c] = Append(queue[c], s.msg)
    <3>1. CASE queue[Inbox["envelope"]] # <<>> /\ Handle("envelope", st, sends)
      BY <1>1, <2>1, <2>2, <3>1, HandleRanges, StageNames
    <3>2. CASE Proceed("envelope", st, sends)
      BY <1>1, <2>1, <3>2, ProceedRanges, StageNames
    <3> QED BY <1>4, <3>1, <3>2
  <2>4. GoneIsSilent' /\ SendsAreTheirs'
    BY <1>4, <2>3, OwnSends, StageNames
  <2>5. HintsCompleteIsLast'
    BY <1>2, <2>3, StageNames DEF DrainInv, HintsCompleteIsLast
  <2>6. \/ queue'["storage"] = queue["storage"]
        \/ \E m : /\ queue'["storage"] = Append(queue["storage"], m)
                  /\ m.kind # "Shutdown"
    BY <1>4, <2>3, StageNames DEF MayEmit
  <2>7. \/ queue'["snapshot"] = queue["snapshot"]
        \/ \E m : /\ queue'["snapshot"] = Append(queue["snapshot"], m)
                  /\ m.kind = "HintsComplete" => EnvelopesDrained'
    BY <1>4, <2>3, StageNames DEF MayEmit
  <2>8. \A t \in {"snapshot", "storage"} : status'[t] = status[t] /\ out'[t] = out[t]
    BY <2>3, StageNames
  <2> QED BY <1>1, <1>2, <2>4, <2>5, <2>6, <2>7, <2>8, Upstream
<1> QED BY <1>3, <1>4, EnvelopeSends

\* A record goes to storage and to the snapshot stage, and is neither a
\* Shutdown nor a HintsComplete.
LEMMA RecordSendsEmit ==
    ASSUME NEW recs, recs = <<>> \/ recs[1] \in Record
    PROVE  \A i \in 1..Len(RecordSends(recs)) :
              /\ MayEmit("hints", RecordSends(recs)[i])
              /\ RecordSends(recs)[i].msg.kind = "Record"
BY DEF RecordSends, MayEmit, To, RecordMsg

\* The hints stage preserves the invariant: it ends, with HintsComplete, only
\* once the envelope stage is gone.
LEMMA HintsDrain ==
    ASSUME TypeOK, DrainInv, Hints
    PROVE  DrainInv'
<1>1. /\ ChannelsOK /\ builder \in RecordBuilder
      /\ status["hints"] = "run" /\ snap' = snap
  BY DEF TypeOK, StagesOK, Hints, HintsRecv, HintsClosed, HintsUnchanged, Running
<1>2. ~EnvelopesDrained
  BY <1>1 DEF EnvelopesDrained
<1>3. CASE HintsRecv
  <2> DEFINE hint == Head(queue["hints"])
             cmd == <<To("storage", EnvelopeCmd(hint))>>
             recs == RecordSends(Completed(builder, hint))
             sends == cmd \o recs
  <2>1. queue["hints"] # <<>> /\ Handle("hints", "run", sends)
    BY <1>3 DEF HintsRecv
  <2>2. Completed(builder, hint) = <<>> \/ Completed(builder, hint)[1] \in Record
    BY <1>1, FinalizedType DEF Completed
  <2>3. recs \in Seq(Send)
    BY <2>2, RecordSendsType
  <2>4. EnvelopeCmd(hint) \in StorageMsg
    BY DEF EnvelopeCmd, IsSignal, StorageMsg
  <2>5. cmd \in Seq(Send)
    BY <2>4, ToSend, StageNames DEF Message
  <2>6. \A s \in Range(recs) : MayEmit("hints", s) /\ s.msg.kind # "HintsComplete"
    BY <2>2, <2>3, RecordSendsEmit DEF Range
  <2>7. \A s \in Range(cmd) : MayEmit("hints", s) /\ s.msg.kind # "HintsComplete"
    <3>1. queue["hints"] \in Seq(Hint)
      BY <1>1, StageNames DEF ChannelsOK, Message
    <3>2. ~IsSignal(hint)
      BY <2>1, <3>1 DEF Hint
    <3> QED BY <3>2 DEF Range, MayEmit, To, EnvelopeCmd
  <2> HIDE DEF cmd, recs
  <2>8. sends \in Seq(Send) /\ Range(sends) = Range(cmd) \cup Range(recs)
    BY <2>3, <2>5, RangeConcatenation
  <2>9. \A s \in Range(sends) : MayEmit("hints", s) /\ s.msg.kind # "HintsComplete"
    BY <2>6, <2>7, <2>8
  <2> HIDE DEF sends
  <2>10. Inbox["hints"] = "hints" /\ \A s \in Range(sends) : s.to # "hints"
    BY <2>9 DEF Inbox, Stage, MayEmit
  <2>11. /\ status'["hints"] = "run"
         /\ \A u \in Stage : u # "hints" => status'[u] = status[u] /\ out'[u] = out[u]
         /\ Range(out'["hints"]) \subseteq Range(sends)
         /\ \A c \in Chan : c # "hints" =>
               \/ queue'[c] = queue[c]
               \/ \E s \in Range(sends) :
                     s.to = c /\ queue'[c] = Append(queue[c], s.msg)
    BY <1>1, <2>1, <2>8, <2>10, HandleRanges, StageNames
  <2>12. GoneIsSilent' /\ SendsAreTheirs'
    BY <2>9, <2>11, OwnSends, StageNames
  <2>13. HintsCompleteIsLast'
    <3>1. out'["hints"] \in Seq(Send)
      BY HintsType, StageNames DEF TypeOK, ChannelsOK
    <3>2. \A i \in 1..Len(out'["hints"]) : out'["hints"][i] \in Range(out'["hints"])
      BY <3>1 DEF Range
    <3>3. \A i \in 1..Len(out'["hints"]) :
             out'["hints"][i].msg.kind # "HintsComplete"
      BY <2>9, <2>11, <3>2
    <3> QED BY <2>11, <3>3 DEF HintsCompleteIsLast
  <2>14. \/ queue'["storage"] = queue["storage"]
         \/ \E m : /\ queue'["storage"] = Append(queue["storage"], m)
                   /\ m.kind # "Shutdown"
    BY <2>9, <2>11, StageNames DEF MayEmit
  <2>15. \/ queue'["snapshot"] = queue["snapshot"]
         \/ \E m : /\ queue'["snapshot"] = Append(queue["snapshot"], m)
                   /\ m.kind = "HintsComplete" => EnvelopesDrained'
    BY <2>9, <2>11, StageNames
  <2>16. \A t \in {"snapshot", "storage"} : status'[t] = status[t] /\ out'[t] = out[t]
    BY <2>11, StageNames
  <2> QED BY <1>1, <1>2, <2>12, <2>13, <2>14, <2>15, <2>16, Upstream
<1>4. CASE HintsClosed
  <2> DEFINE recs == RecordSends(Finalized(builder))
             sends == recs \o <<To("snapshot", HintsComplete)>>
  <2>1. Proceed("hints", "last", sends)
    BY <1>4 DEF HintsClosed
  <2>2. Gone("envelope")
    BY <1>4, Names DEF HintsClosed, Closed, Senders
  <2>3. Finalized(builder) = <<>> \/ Finalized(builder)[1] \in Record
    BY <1>1, FinalizedType
  <2>4. recs \in Seq(Send) /\ To("snapshot", HintsComplete) \in Send
    BY <2>3, RecordSendsType, ToSend, PlainMessages, StageNames
  <2>5. \A i \in 1..Len(recs) : MayEmit("hints", recs[i]) /\ recs[i].msg.kind = "Record"
    BY <2>3, RecordSendsEmit
  <2> HIDE DEF recs
  <2>6. /\ sends \in Seq(Send) /\ Len(sends) = Len(recs) + 1 /\ Len(recs) \in Nat
        /\ sends[Len(sends)] = To("snapshot", HintsComplete)
        /\ \A i \in 1..Len(recs) : sends[i] = recs[i]
    BY <2>4
  <2>7. MayEmit("hints", To("snapshot", HintsComplete))
    BY DEF MayEmit, To, HintsComplete
  <2>8. \A i \in 1..Len(sends) : MayEmit("hints", sends[i])
    BY <2>5, <2>6, <2>7
  <2>9. \A i \in 1..Len(sends) : sends[i].msg.kind = "HintsComplete" => i = Len(sends)
    BY <2>5, <2>6
  <2>10. \A i \in 1..Len(sends) : sends[i].to = "storage" => sends[i].msg.kind # "Shutdown"
    BY <2>8 DEF MayEmit
  <2> HIDE DEF sends
  <2>11. /\ status'["hints"] = "last"
         /\ \A u \in Stage : u # "hints" => status'[u] = status[u] /\ out'[u] = out[u]
         /\ \/ queue' = queue /\ out'["hints"] = sends
            \/ /\ sends # <<>> /\ out'["hints"] = Tail(sends)
               /\ \A c \in Chan : c # Head(sends).to => queue'[c] = queue[c]
               /\ queue'[Head(sends).to] =
                     Append(queue[Head(sends).to], Head(sends).msg)
    BY <1>1, <2>1, <2>6, ContinueEffect, StageNames DEF Proceed, ChannelsOK
  <2>12. Gone("envelope")' /\ \A t \in {"snapshot", "storage"} :
                                 status'[t] = status[t] /\ out'[t] = out[t]
    BY <2>2, <2>11, StageNames DEF Gone
  <2>13. CASE queue' = queue /\ out'["hints"] = sends
    <3>1. \A s \in Range(out'["hints"]) : MayEmit("hints", s)
      BY <2>6, <2>8, <2>13 DEF Range
    <3>2. GoneIsSilent' /\ SendsAreTheirs'
      BY <2>11, <3>1, OwnSends, StageNames
    <3>3. HintsCompleteIsLast'
      BY <2>9, <2>11, <2>12, <2>13 DEF HintsCompleteIsLast
    <3> QED BY <1>1, <1>2, <2>12, <2>13, <3>2, <3>3, Upstream
  <2>14. CASE /\ sends # <<>> /\ out'["hints"] = Tail(sends)
              /\ \A c \in Chan : c # Head(sends).to => queue'[c] = queue[c]
              /\ queue'[Head(sends).to] =
                    Append(queue[Head(sends).to], Head(sends).msg)
    <3>1. \A i \in 1..Len(Tail(sends)) : Tail(sends)[i] = sends[i+1] /\ i+1 \in 1..Len(sends)
      BY <2>6, <2>14
    <3>2. Len(Tail(sends)) = Len(sends) - 1 /\ Tail(sends) \in Seq(Send)
      BY <2>6, <2>14
    <3>3. Head(sends) = sends[1] /\ 1 \in 1..Len(sends)
      BY <2>6, <2>14
    <3>4. \A s \in Range(out'["hints"]) : MayEmit("hints", s)
      BY <2>8, <2>14, <3>1, <3>2 DEF Range
    <3>5. GoneIsSilent' /\ SendsAreTheirs'
      BY <2>11, <3>4, OwnSends, StageNames
    <3>6. \A i \in 1..Len(Tail(sends)) :
             Tail(sends)[i].msg.kind = "HintsComplete" => i = Len(Tail(sends))
      BY <2>6, <2>9, <3>1, <3>2
    <3>7. HintsCompleteIsLast'
      BY <2>11, <2>12, <2>14, <3>6 DEF HintsCompleteIsLast
    <3>8. Head(sends).msg.kind = "HintsComplete" => EnvelopesDrained'
      <4>1. Head(sends).msg.kind = "HintsComplete" => Tail(sends) = <<>>
        BY <2>6, <2>9, <3>2, <3>3
      <4> QED BY <2>11, <2>12, <2>14, <4>1 DEF EnvelopesDrained
    <3>9. \/ queue'["storage"] = queue["storage"]
          \/ \E m : /\ queue'["storage"] = Append(queue["storage"], m)
                    /\ m.kind # "Shutdown"
      BY <2>10, <2>14, <3>3, StageNames
    <3>10. \/ queue'["snapshot"] = queue["snapshot"]
           \/ \E m : /\ queue'["snapshot"] = Append(queue["snapshot"], m)
                     /\ m.kind = "HintsComplete" => EnvelopesDrained'
      BY <2>14, <3>8, StageNames
    <3> QED BY <1>1, <1>2, <2>12, <3>5, <3>7, <3>9, <3>10, Upstream
  <2> QED BY <2>11, <2>13, <2>14
<1> QED BY <1>3, <1>4 DEF Hints

\* The compression stage preserves the invariant: it sends events only.
LEMMA CompressionDrain ==
    ASSUME TypeOK, DrainInv, Compression
    PROVE  DrainInv'
<1>1. ChannelsOK /\ snap' = snap
  BY DEF TypeOK, Compression, CompressBatch, CompressionShutdown,
         CompressionClosed, CompressionUnchanged
<1>2. PICK st \in {"run", "last"}, sends \in Seq(Send) :
        /\ \A s \in Range(sends) : MayEmit("compression", s)
        /\ \/ queue[Inbox["compression"]] # <<>> /\ Handle("compression", st, sends)
           \/ Proceed("compression", st, sends)
  <2>1. <<>> \in Seq(Send) /\ \A s \in Range(<<>>) : MayEmit("compression", s)
    BY RangeEmpty
  <2>2. CASE CompressBatch
    <3> DEFINE events == Msg("compression").events
               cmd == To("storage", CompactEventsCmd(Len(events)))
    <3>1. queue[Inbox["compression"]] # <<>> /\ Msg("compression").kind = "Process"
      BY <2>2 DEF CompressBatch, Receives, Msg
    <3>2. Msg("compression") \in CompressionMsg
      BY <1>1, <3>1, HeadType, StageNames DEF Inbox, Message
    <3>3. events \in Seq(RawEvent)
      BY <3>1, <3>2 DEF CompressionMsg, Shutdown
    <3>4. RawSends(events) \in Seq(Send) /\ Len(events) \in Nat
      BY <3>3, RawSendsType
    <3>5. CompactEventsCmd(Len(events)) \in StorageMsg
      BY <3>4 DEF CompactEventsCmd, StorageMsg
    <3>6. <<cmd>> \in Seq(Send) /\ \A s \in Range(<<cmd>>) : MayEmit("compression", s)
      BY <3>5, ToSend, StageNames
         DEF Message, Range, MayEmit, To, CompactEventsCmd
    <3>7. \A s \in Range(RawSends(events)) : MayEmit("compression", s)
      <4>1. CASE ~PersistRaw
        BY <4>1, RangeEmpty DEF RawSends
      <4>2. CASE PersistRaw
        <5>1. \A i \in 1..Len(events) :
                 MayEmit("compression", To("storage", RawEventCmd(events[i])))
          BY DEF MayEmit, To, RawEventCmd
        <5>2. RawSends(events) =
                [i \in 1..Len(events) |-> To("storage", RawEventCmd(events[i]))]
          BY <4>2 DEF RawSends
        <5> QED BY <5>1, <5>2 DEF Range
      <4> QED BY <4>1, <4>2
    <3>8. PICK compact \in BOOLEAN :
             Handle("compression", "run",
                    RawSends(events) \o (IF compact THEN <<cmd>> ELSE <<>>))
      BY <2>2 DEF CompressBatch
    <3> DEFINE last == IF compact THEN <<cmd>> ELSE <<>>
    <3>9. last \in Seq(Send) /\ \A s \in Range(last) : MayEmit("compression", s)
      BY <2>1, <3>6
    <3>10. Handle("compression", "run", RawSends(events) \o last)
      BY <3>8
    <3> HIDE DEF events, last
    <3>11. RawSends(events) \o last \in Seq(Send)
      BY <3>4, <3>9
    <3>12. Range(RawSends(events) \o last) = Range(RawSends(events)) \cup Range(last)
      BY <3>4, <3>9, RangeConcatenation
    <3>13. \A s \in Range(RawSends(events) \o last) : MayEmit("compression", s)
      BY <3>7, <3>9, <3>12
    <3> QED BY <3>1, <3>10, <3>11, <3>13
  <2>3. CASE CompressionShutdown
    BY <2>1, <2>3 DEF CompressionShutdown, Receives
  <2>4. CASE CompressionClosed
    BY <2>1, <2>4 DEF CompressionClosed
  <2> QED BY <2>2, <2>3, <2>4 DEF Compression
<1>3. /\ Inbox["compression"] = "compression" /\ st \in Status
      /\ \A s \in Range(sends) : /\ s.to = "storage"
                                 /\ s.msg.kind \in {"RawEvent", "CompactEvents"}
  BY <1>2 DEF Inbox, Stage, Status, MayEmit
<1>4. /\ status'["compression"] = st
      /\ \A u \in Stage : u # "compression" => status'[u] = status[u] /\ out'[u] = out[u]
      /\ Range(out'["compression"]) \subseteq Range(sends)
      /\ \A c \in Chan : c # "compression" =>
            \/ queue'[c] = queue[c]
            \/ \E s \in Range(sends) :
                  s.to = c /\ queue'[c] = Append(queue[c], s.msg)
  <2>1. CASE queue[Inbox["compression"]] # <<>> /\ Handle("compression", st, sends)
    BY <1>1, <1>2, <1>3, <2>1, HandleRanges, StageNames
  <2>2. CASE Proceed("compression", st, sends)
    BY <1>1, <1>2, <1>3, <2>2, ProceedRanges, StageNames
  <2> QED BY <1>2, <2>1, <2>2
<1>5. GoneIsSilent' /\ SendsAreTheirs'
  BY <1>2, <1>4, OwnSends, StageNames
<1>6. /\ queue'["snapshot"] = queue["snapshot"]
      /\ \A t \in {"envelope", "hints", "snapshot", "storage"} :
            status'[t] = status[t] /\ out'[t] = out[t]
  BY <1>3, <1>4, StageNames
<1>7. CASE queue'["storage"] = queue["storage"]
  BY <1>1, <1>5, <1>6, <1>7, Elsewhere
<1>8. CASE queue'["storage"] # queue["storage"]
  <2>1. PICK s \in Range(sends) : queue'["storage"] = Append(queue["storage"], s.msg)
    BY <1>4, <1>8, StageNames
  <2> QED BY <1>1, <1>3, <1>5, <1>6, <2>1, CompressionSends
<1> QED BY <1>7, <1>8

\* The storage stage only takes messages; it leaves its loop on a Shutdown or
\* when every other stage that could send it something is gone.
LEMMA StorageDrain ==
    ASSUME TypeOK, DrainInv, Storage
    PROVE  DrainInv'
<1>1. /\ ChannelsOK /\ snap' = snap /\ queue["storage"] \in Seq(AnyMessage)
      /\ status["storage"] = "run"
  BY StageNames
     DEF TypeOK, ChannelsOK, Storage, StoreCommand, StoreShutdown, StoreClosed,
         StorageUnchanged, Receives, Running
<1>2. Inbox["storage"] = "storage" /\ "run" \in Status /\ "last" \in Status
  BY DEF Inbox, Stage, Status
<1>3. PICK st \in {"run", "last"} :
        /\ \/ queue["storage"] # <<>> /\ Handle("storage", st, <<>>)
           \/ Proceed("storage", st, <<>>)
        /\ st = "last" => \/ /\ queue["storage"] # <<>>
                             /\ Head(queue["storage"]).kind = "Shutdown"
                          \/ \A t \in {"envelope", "hints", "snapshot"} : Gone(t)
  <2>1. CASE StoreCommand
    BY <2>1 DEF StoreCommand
  <2>2. CASE StoreShutdown
    BY <1>2, <2>2 DEF StoreShutdown, Receives
  <2>3. CASE StoreClosed
    BY <2>3, StageNames DEF StoreClosed, Closed, Senders
  <2> QED BY <2>1, <2>2, <2>3 DEF Storage
<1>4. <<>> \in Seq(Send) /\ Range(<<>>) = {}
  BY RangeEmpty
<1>5. /\ status'["storage"] = st
      /\ \A u \in Stage : u # "storage" => status'[u] = status[u] /\ out'[u] = out[u]
      /\ Range(out'["storage"]) = {}
      /\ \A c \in Chan : c # "storage" => queue'[c] = queue[c]
      /\ \/ queue'["storage"] = queue["storage"]
         \/ queue["storage"] # <<>> /\ queue'["storage"] = Tail(queue["storage"])
  <2>1. CASE queue["storage"] # <<>> /\ Handle("storage", st, <<>>)
    <3>1. /\ queue[Inbox["storage"]] # <<>> /\ st \in Status
          /\ \A s \in Range(<<>>) : s.to # Inbox["storage"]
      BY <1>2, <1>4, <2>1
    <3>2. /\ status'["storage"] = st
          /\ \A u \in Stage : u # "storage" => status'[u] = status[u] /\ out'[u] = out[u]
          /\ Range(out'["storage"]) \subseteq Range(<<>>)
          /\ queue'[Inbox["storage"]] = Tail(queue[Inbox["storage"]])
          /\ \A c \in Chan : c # Inbox["storage"] =>
                \/ queue'[c] = queue[c]
                \/ \E s \in Range(<<>>) :
                      s.to = c /\ queue'[c] = Append(queue[c], s.msg)
      BY <1>1, <1>4, <2>1, <3>1, HandleRanges, StageNames
    <3> QED BY <1>2, <1>4, <2>1, <3>2
  <2>2. CASE Proceed("storage", st, <<>>)
    <3>1. "storage" \in Stage /\ "storage" \in Chan /\ st \in Status
      BY <1>2, StageNames
    <3>2. /\ status'["storage"] = st
          /\ \A u \in Stage : u # "storage" => status'[u] = status[u] /\ out'[u] = out[u]
          /\ Range(out'["storage"]) \subseteq Range(<<>>)
          /\ \A c \in Chan : \/ queue'[c] = queue[c]
                             \/ \E s \in Range(<<>>) :
                                   s.to = c /\ queue'[c] = Append(queue[c], s.msg)
      BY <1>1, <1>4, <2>2, <3>1, ProceedRanges
    <3> QED BY <1>4, <3>1, <3>2
  <2> QED BY <1>3, <2>1, <2>2
<1>6. GoneIsSilent' /\ SendsAreTheirs'
  BY <1>5, OwnSends, StageNames
<1>7. \A t \in {"envelope", "hints", "snapshot"} :
         status'[t] = status[t] /\ out'[t] = out[t]
  BY <1>5, StageNames
<1>8. EnvelopesDrained' <=> EnvelopesDrained
  BY <1>7 DEF EnvelopesDrained, Gone
<1>9. HintsCompleteIsLast'
  BY <1>7 DEF DrainInv, HintsCompleteIsLast, Gone
<1>10. HintsCompleteMeansDrained'
  BY <1>1, <1>5, <1>8, StageNames DEF DrainInv, HintsCompleteMeansDrained
<1>11. ShutdownIsLast'
  BY <1>7, <1>8 DEF DrainInv, ShutdownIsLast
<1>12. /\ Range(queue'["storage"]) \subseteq Range(queue["storage"])
       /\ OnlyEventsBehindShutdown(queue'["storage"])
  <2>1. CASE queue'["storage"] = queue["storage"]
    BY <2>1 DEF DrainInv
  <2>2. CASE queue["storage"] # <<>> /\ queue'["storage"] = Tail(queue["storage"])
    BY <1>1, <2>2, RangeTail, OrderTail DEF DrainInv
  <2> QED BY <1>5, <2>1, <2>2
<1>13. st = "last" =>
          EnvelopesDrained /\ status["snapshot"] # "run" /\ out["snapshot"] = <<>>
  <2>1. CASE queue["storage"] # <<>> /\ Head(queue["storage"]).kind = "Shutdown"
    BY <1>1, <2>1, RangeTail DEF DrainInv, StorageShutdownMeansDrained
  <2>2. CASE \A t \in {"envelope", "hints", "snapshot"} : Gone(t)
    BY <2>2, StageNames DEF DrainInv, GoneIsSilent, EnvelopesDrained, Gone
  <2> QED BY <1>3, <2>1, <2>2
<1>14. StorageShutdownMeansDrained'
  BY <1>3, <1>5, <1>7, <1>8, <1>12, <1>13 DEF DrainInv, StorageShutdownMeansDrained
<1> QED BY <1>6, <1>9, <1>10, <1>11, <1>12, <1>14 DEF DrainInv

\* HintsComplete or Shutdown at the snapshot stage: when it finalizes, both
\* have come, so the envelopes are drained.
LEMMA SnapshotDrain ==
    ASSUME TypeOK, DrainInv, SnapshotStep
    PROVE  DrainInv'
<1>1. /\ ChannelsOK /\ snap \in SnapState /\ queue["snapshot"] \in Seq(AnyMessage)
      /\ status["snapshot"] = "run"
  BY StageNames
     DEF TypeOK, ChannelsOK, StagesOK, SnapshotStep, SnapUpdate, SnapRecord,
         SnapPublish, SnapHintsComplete, SnapShutdown, SnapClosed, Receives, Running
<1>2. Inbox["snapshot"] = "snapshot"
  BY DEF Inbox, Stage
<1> DEFINE bye == <<To("storage", Shutdown)>>
<1>3. /\ <<>> \in Seq(Send) /\ \A s \in Range(<<>>) : MayEmit("snapshot", s)
      /\ bye \in Seq(Send) /\ \A s \in Range(bye) : MayEmit("snapshot", s)
  BY RangeEmpty, ToSend, PlainMessages, StageNames DEF Range, MayEmit, To, Shutdown
\* a step that stays in the loop
<1>4. ASSUME NEW sends \in Seq(Send), \A s \in Range(sends) : MayEmit("snapshot", s),
             \A s \in Range(sends) : s.msg.kind # "Shutdown",
             snap'.hints_complete => EnvelopesDrained,
             queue["snapshot"] # <<>>, Handle("snapshot", "run", sends)
      PROVE  DrainInv'
  <2>1. \A s \in Range(sends) : s.to = "storage"
    BY <1>4 DEF MayEmit
  <2>2. /\ queue[Inbox["snapshot"]] # <<>>
        /\ \A s \in Range(sends) : s.to # Inbox["snapshot"]
    BY <1>2, <1>4, <2>1
  <2>3. /\ status'["snapshot"] = "run"
        /\ \A u \in Stage : u # "snapshot" => status'[u] = status[u] /\ out'[u] = out[u]
        /\ Range(out'["snapshot"]) \subseteq Range(sends)
        /\ queue'[Inbox["snapshot"]] = Tail(queue[Inbox["snapshot"]])
        /\ \A c \in Chan : c # Inbox["snapshot"] =>
              \/ queue'[c] = queue[c]
              \/ \E s \in Range(sends) :
                    s.to = c /\ queue'[c] = Append(queue[c], s.msg)
    BY <1>1, <1>4, <2>2, HandleRanges, StageNames
  <2>4. GoneIsSilent' /\ SendsAreTheirs'
    BY <1>4, <2>3, OwnSends, StageNames
  <2>5. ShutdownIsLast'
    BY <1>4, <2>3 DEF ShutdownIsLast
  <2>6. Range(queue'["snapshot"]) \subseteq Range(queue["snapshot"])
    BY <1>1, <1>2, <1>4, <2>3, RangeTail
  <2>7. \A t \in {"envelope", "hints", "storage"} :
           status'[t] = status[t] /\ out'[t] = out[t]
    BY <2>3, StageNames
  <2>8. \/ queue'["storage"] = queue["storage"]
        \/ \E m : /\ queue'["storage"] = Append(queue["storage"], m)
                  /\ m.kind = "Shutdown" =>
                       /\ EnvelopesDrained
                       /\ status'["snapshot"] # "run"
                       /\ out'["snapshot"] = <<>>
    BY <1>2, <1>4, <2>3, StageNames
  <2> QED BY <1>1, <1>4, <2>4, <2>5, <2>6, <2>7, <2>8, Downstream
\* a step that leaves the loop
<1>5. ASSUME EnvelopesDrained,
             \/ queue["snapshot"] # <<>> /\ Handle("snapshot", "last", bye)
             \/ Proceed("snapshot", "last", bye)
      PROVE  DrainInv'
  <2>1. /\ status'["snapshot"] = "last"
        /\ \A u \in Stage : u # "snapshot" => status'[u] = status[u] /\ out'[u] = out[u]
        /\ Range(queue'["snapshot"]) \subseteq Range(queue["snapshot"])
        /\ \/ out'["snapshot"] = bye /\ queue'["storage"] = queue["storage"]
           \/ /\ out'["snapshot"] = <<>>
              /\ queue'["storage"] = Append(queue["storage"], Shutdown)
    <3>1. bye # <<>> /\ Head(bye) = To("storage", Shutdown) /\ Tail(bye) = <<>>
      OBVIOUS
    <3>2. To("storage", Shutdown).to = "storage"
          /\ To("storage", Shutdown).msg = Shutdown
      BY DEF To
    <3> HIDE DEF bye
    <3>3. status \in [Stage -> Status] /\ out \in [Stage -> Seq(Send)]
          /\ queue \in [Chan -> Seq(AnyMessage)]
      BY <1>1 DEF ChannelsOK
    <3>4. /\ status'["snapshot"] = "last"
          /\ \A u \in Stage : u # "snapshot" => status'[u] = status[u] /\ out'[u] = out[u]
      <4>1. CASE Handle("snapshot", "last", bye)
        BY <3>3, <4>1, StageNames DEF Handle, Continue
      <4>2. CASE Proceed("snapshot", "last", bye)
        BY <3>3, <4>2, StageNames DEF Proceed, Continue
      <4> QED BY <1>5, <4>1, <4>2
    <3>5. CASE queue["snapshot"] # <<>> /\ Handle("snapshot", "last", bye)
      <4>1. CASE CanSend(bye)
        <5>1. /\ out'["snapshot"] = <<>>
              /\ queue' = [[queue EXCEPT !["snapshot"] = Tail(@)]
                              EXCEPT !["storage"] = Append(@, Shutdown)]
          BY <1>2, <3>1, <3>2, <3>3, <3>5, <4>1, StageNames DEF Handle, Continue
        <5>2. /\ queue'["snapshot"] = Tail(queue["snapshot"])
              /\ queue'["storage"] = Append(queue["storage"], Shutdown)
          BY <3>3, <5>1, StageNames
        <5> QED BY <1>1, <3>4, <3>5, <5>1, <5>2, RangeTail
      <4>2. CASE ~CanSend(bye)
        <5>1. /\ out'["snapshot"] = bye
              /\ queue' = [queue EXCEPT !["snapshot"] = Tail(@)]
          BY <1>2, <3>3, <3>5, <4>2, StageNames DEF Handle, Continue
        <5>2. /\ queue'["snapshot"] = Tail(queue["snapshot"])
              /\ queue'["storage"] = queue["storage"]
          BY <3>3, <5>1, StageNames
        <5> QED BY <1>1, <3>4, <3>5, <5>1, <5>2, RangeTail
      <4> QED BY <4>1, <4>2
    <3>6. CASE Proceed("snapshot", "last", bye)
      <4>1. CASE CanSend(bye)
        <5>1. /\ out'["snapshot"] = <<>>
              /\ queue' = [queue EXCEPT !["storage"] = Append(@, Shutdown)]
          BY <3>1, <3>2, <3>3, <3>6, <4>1, StageNames DEF Proceed, Continue
        <5>2. /\ queue'["snapshot"] = queue["snapshot"]
              /\ queue'["storage"] = Append(queue["storage"], Shutdown)
          BY <3>3, <5>1, StageNames
        <5> QED BY <3>4, <5>1, <5>2
      <4>2. CASE ~CanSend(bye)
        <5>1. out'["snapshot"] = bye /\ queue' = queue
          BY <3>3, <3>6, <4>2, StageNames DEF Proceed, Continue
        <5> QED BY <3>4, <5>1
      <4> QED BY <4>1, <4>2
    <3> QED BY <1>5, <3>5, <3>6
  <2>2. \A s \in Range(out'["snapshot"]) : MayEmit("snapshot", s)
    BY <1>3, <2>1
  <2>3. GoneIsSilent' /\ SendsAreTheirs'
    BY <2>1, <2>2, OwnSends, StageNames
  <2>4. \A t \in {"envelope", "hints", "storage"} :
           status'[t] = status[t] /\ out'[t] = out[t]
    BY <2>1, StageNames
  <2>5. EnvelopesDrained'
    BY <1>5, <2>4 DEF EnvelopesDrained, Gone
  <2>6. Len(out'["snapshot"]) <= 1
    <3>1. Len(bye) = 1 /\ Len(<<>>) = 0
      OBVIOUS
    <3>2. CASE out'["snapshot"] = bye
      <4>1. Len(out'["snapshot"]) = Len(bye)
        BY <3>2
      <4> QED BY <3>1, <4>1
    <3>3. CASE out'["snapshot"] = <<>>
      <4>1. Len(out'["snapshot"]) = Len(<<>>)
        BY <3>3
      <4> QED BY <3>1, <4>1
    <3> QED BY <2>1, <3>2, <3>3
  <2>7. ShutdownIsLast'
    BY <2>1, <2>5, <2>6 DEF ShutdownIsLast
  <2>8. \/ queue'["storage"] = queue["storage"]
        \/ \E m : /\ queue'["storage"] = Append(queue["storage"], m)
                  /\ m.kind = "Shutdown" =>
                       /\ EnvelopesDrained
                       /\ status'["snapshot"] # "run"
                       /\ out'["snapshot"] = <<>>
    BY <1>5, <2>1
  <2> QED BY <1>1, <1>5, <2>1, <2>3, <2>4, <2>7, <2>8, Downstream
<1> HIDE DEF bye
<1>6. snap.hints_complete => EnvelopesDrained
  BY DEF DrainInv, HintsCompleteMeansDrained
<1>7. CASE SnapUpdate
  <2> DEFINE u == Msg("snapshot")
             sends == IF u.tr = NoTransition THEN <<>>
                      ELSE <<To("storage", TransitionCmd(u.tr))>>
  <2>1. /\ queue[Inbox["snapshot"]] # <<>> /\ u.kind = "Update"
        /\ Handle("snapshot", "run", sends)
    BY <1>7 DEF SnapUpdate, Receives, Msg
  <2>2. u \in SnapshotMsg
    BY <1>1, <2>1, HeadType, StageNames DEF Inbox, Message
  <2>3. u.tr \in OptTransition
    BY <2>1, <2>2 DEF SnapshotMsg, Shutdown, HintsComplete, Publish
  <2>4. snap'.hints_complete = snap.hints_complete
    BY <1>1, <1>7 DEF SnapUpdate, SnapState
  <2> HIDE DEF u
  <2>5. u.tr # NoTransition => TransitionCmd(u.tr) \in StorageMsg
    BY <2>3 DEF TransitionCmd, StorageMsg, OptTransition
  <2>6. u.tr # NoTransition => To("storage", TransitionCmd(u.tr)) \in Send
    BY <2>5, ToSend, StageNames DEF Message
  <2>7. sends \in Seq(Send)
    BY <2>6
  <2>8. \A s \in Range(sends) : MayEmit("snapshot", s) /\ s.msg.kind # "Shutdown"
    BY RangeEmpty DEF Range, MayEmit, To, TransitionCmd
  <2> HIDE DEF sends
  <2> QED BY <1>2, <1>4, <1>6, <2>1, <2>4, <2>7, <2>8
<1>8. CASE SnapRecord \/ SnapPublish
  <2>1. /\ queue["snapshot"] # <<>> /\ Handle("snapshot", "run", <<>>)
        /\ snap'.hints_complete = snap.hints_complete
    BY <1>1, <1>2, <1>8 DEF SnapRecord, SnapPublish, Receives, SnapState
  <2> QED BY <1>3, <1>4, <1>6, <2>1, RangeEmpty
<1>9. ASSUME NEW s \in SnapState, Finalize(s), queue["snapshot"] # <<>>,
             s.hints_complete => EnvelopesDrained
      PROVE  DrainInv'
  <2>1. snap' = s
    BY <1>9 DEF Finalize
  <2>2. CASE MayFinalize(s)
    <3>1. EnvelopesDrained /\ Handle("snapshot", "last", bye)
      BY <1>9, <2>2 DEF Finalize, MayFinalize, bye
    <3> QED BY <1>5, <1>9, <3>1
  <2>3. CASE ~MayFinalize(s)
    <3>1. Handle("snapshot", "run", <<>>)
      BY <1>9, <2>3 DEF Finalize
    <3> QED BY <1>3, <1>4, <1>9, <2>1, <3>1, RangeEmpty
  <2> QED BY <2>2, <2>3
<1>10. CASE SnapHintsComplete
  <2>1. /\ queue["snapshot"] # <<>> /\ Head(queue["snapshot"]).kind = "HintsComplete"
        /\ Finalize([snap EXCEPT !.hints_complete = TRUE])
    BY <1>2, <1>10 DEF SnapHintsComplete, Receives
  <2>2. EnvelopesDrained
    BY <1>1, <2>1, RangeTail DEF DrainInv, HintsCompleteMeansDrained
  <2>3. [snap EXCEPT !.hints_complete = TRUE] \in SnapState
    BY <1>1 DEF SnapState
  <2> QED BY <1>9, <2>1, <2>2, <2>3
<1>11. CASE SnapShutdown
  <2>1. /\ queue["snapshot"] # <<>>
        /\ Finalize([snap EXCEPT !.shutdown_requested = TRUE])
    BY <1>2, <1>11 DEF SnapShutdown, Receives
  <2>2. /\ [snap EXCEPT !.shutdown_requested = TRUE] \in SnapState
        /\ [snap EXCEPT !.shutdown_requested = TRUE].hints_complete
             = snap.hints_complete
    BY <1>1 DEF SnapState
  <2> QED BY <1>6, <1>9, <2>1, <2>2
<1>12. CASE SnapClosed
  <2>1. Gone("envelope") /\ Gone("hints") /\ Proceed("snapshot", "last", bye)
        /\ snap' = snap
    BY <1>12, Names DEF SnapClosed, Closed, Senders, bye
  <2>2. EnvelopesDrained
    BY <2>1, StageNames DEF EnvelopesDrained, DrainInv, GoneIsSilent, Gone
  <2> QED BY <1>5, <2>1, <2>2
<1> QED BY <1>7, <1>8, <1>10, <1>11, <1>12 DEF SnapshotStep

\* A later send of a handler.
LEMMA DeliverDrain ==
    ASSUME TypeOK, DrainInv, NEW t \in Stage, Deliver(t)
    PROVE  DrainInv'
<1> DEFINE s == Head(out[t])
<1>1. /\ ChannelsOK /\ snap' = snap /\ ~Gone(t) /\ out[t] # <<>>
      /\ status \in [Stage -> Status] /\ out \in [Stage -> Seq(Send)]
      /\ queue \in [Chan -> Seq(AnyMessage)]
  BY DEF TypeOK, ChannelsOK, Deliver
<1>2. /\ s \in Send /\ s \in Range(out[t]) /\ s = out[t][1]
      /\ Range(Tail(out[t])) \subseteq Range(out[t])
  BY <1>1, RangeTail
<1>3. s.to \in Chan /\ MayEmit(t, s)
  BY <1>2, SendTo DEF DrainInv, SendsAreTheirs
<1>4. /\ \A u \in Stage : u # t => status'[u] = status[u] /\ out'[u] = out[u]
      /\ out'[t] = Tail(out[t]) \/ out'[t] = <<>>
      /\ status'[t] = status[t] \/ (t \in {"ingest", "envelope"} /\ status'[t] = "last")
      /\ \/ queue' = queue
         \/ /\ \A c \in Chan : c # s.to => queue'[c] = queue[c]
            /\ queue'[s.to] = Append(queue[s.to], s.msg)
  <2>1. CASE /\ queue' = [queue EXCEPT ![s.to] = Append(@, s.msg)]
             /\ out' = [out EXCEPT ![t] = Tail(@)] /\ UNCHANGED status
    <3> HIDE DEF s
    <3> QED BY <1>1, <1>3, <2>1
  <2>2. CASE /\ Fatal(t, s) /\ out' = [out EXCEPT ![t] = <<>>]
             /\ status' = [status EXCEPT ![t] = "last"] /\ UNCHANGED queue
    BY <1>1, <2>2 DEF Fatal
  <2>3. CASE out' = [out EXCEPT ![t] = Tail(@)] /\ UNCHANGED <<queue, status>>
    BY <1>1, <2>3
  <2> QED BY <2>1, <2>2, <2>3 DEF Deliver
<1>5. /\ \A r \in Range(out'[t]) : r \in Range(out[t])
      /\ \A r \in Range(out'[t]) : MayEmit(t, r)
  BY <1>2, <1>4, RangeEmpty DEF DrainInv, SendsAreTheirs
<1>6. status'[t] \notin {"done", "panicked"}
  BY <1>1, <1>4 DEF Gone
<1>7. GoneIsSilent' /\ SendsAreTheirs'
  BY <1>4, <1>5, <1>6, OwnSends
<1> HIDE DEF s
<1>8. CASE t \in {"ingest", "storage"}
  <2>1. /\ t = "ingest" /\ s.to = "derive"
    BY <1>3, <1>8 DEF MayEmit
  <2>2. /\ queue'["snapshot"] = queue["snapshot"]
        /\ queue'["storage"] = queue["storage"]
        /\ \A u \in {"envelope", "hints", "snapshot", "storage"} :
              status'[u] = status[u] /\ out'[u] = out[u]
    BY <1>4, <2>1, StageNames
  <2> QED BY <1>1, <1>7, <2>2, Elsewhere
<1>9. CASE t = "compression"
  <2>1. s.to = "storage" /\ s.msg.kind \in {"RawEvent", "CompactEvents"}
    BY <1>3, <1>9 DEF MayEmit
  <2>2. /\ queue'["snapshot"] = queue["snapshot"]
        /\ \/ queue'["storage"] = queue["storage"]
           \/ queue'["storage"] = Append(queue["storage"], s.msg)
        /\ \A u \in {"envelope", "hints", "snapshot", "storage"} :
              status'[u] = status[u] /\ out'[u] = out[u]
    BY <1>4, <1>9, <2>1, StageNames
  <2>3. CASE queue'["storage"] = queue["storage"]
    BY <1>1, <1>7, <2>2, <2>3, Elsewhere
  <2>4. CASE queue'["storage"] = Append(queue["storage"], s.msg)
    BY <1>1, <1>7, <2>1, <2>2, <2>4, CompressionSends
  <2> QED BY <2>2, <2>3, <2>4
<1>10. CASE t = "envelope"
  <2>1. ~EnvelopesDrained /\ status["hints"] \notin {"last", "done"}
    BY <1>1, <1>10 DEF EnvelopesDrained, DrainInv, HintsCompleteIsLast
  <2>2. \A u \in {"hints", "snapshot", "storage"} :
           status'[u] = status[u] /\ out'[u] = out[u]
    BY <1>4, <1>10, StageNames
  <2>3. HintsCompleteIsLast'
    BY <2>1, <2>2 DEF DrainInv, HintsCompleteIsLast
  <2>4. \/ queue'["storage"] = queue["storage"]
        \/ \E m : /\ queue'["storage"] = Append(queue["storage"], m)
                  /\ m.kind # "Shutdown"
    BY <1>3, <1>4, <1>10, StageNames DEF MayEmit
  <2>5. \/ queue'["snapshot"] = queue["snapshot"]
        \/ \E m : /\ queue'["snapshot"] = Append(queue["snapshot"], m)
                  /\ m.kind = "HintsComplete" => EnvelopesDrained'
    BY <1>3, <1>4, <1>10, StageNames DEF MayEmit
  <2> QED BY <1>1, <1>7, <2>1, <2>2, <2>3, <2>4, <2>5, Upstream
<1>11. CASE t = "hints"
  <2> DEFINE o == out["hints"]
  <2>1. /\ ~EnvelopesDrained /\ o \in Seq(Send) /\ o # <<>>
        /\ status'["hints"] = status["hints"] /\ s = o[1]
        /\ status["hints"] \in {"run", "last"}
    BY <1>1, <1>2, <1>4, <1>11 DEF EnvelopesDrained, Gone, Status
  <2>2. /\ \A u \in {"envelope", "snapshot", "storage"} :
              status'[u] = status[u] /\ out'[u] = out[u]
        /\ Gone("envelope")' <=> Gone("envelope")
    BY <1>4, <1>11, StageNames DEF Gone
  <2>3. /\ \A i \in 1..Len(o) : o[i].msg.kind = "HintsComplete" =>
                                  i = Len(o) /\ status["hints"] # "run"
        /\ status["hints"] \in {"last", "done"} => Gone("envelope")
    BY DEF DrainInv, HintsCompleteIsLast
  <2> HIDE DEF o
  <2>4. /\ \A i \in 1..Len(Tail(o)) : Tail(o)[i] = o[i+1] /\ i+1 \in 1..Len(o)
        /\ Len(Tail(o)) = Len(o) - 1 /\ 1 \in 1..Len(o) /\ Tail(o) \in Seq(Send)
    BY <2>1
  <2>5. \A i \in 1..Len(Tail(o)) : Tail(o)[i].msg.kind = "HintsComplete" =>
                                     i = Len(Tail(o)) /\ status["hints"] # "run"
    <3> SUFFICES ASSUME NEW i \in 1..Len(Tail(o)),
                        Tail(o)[i].msg.kind = "HintsComplete"
                 PROVE  i = Len(Tail(o)) /\ status["hints"] # "run"
      OBVIOUS
    <3>1. Tail(o)[i] = o[i+1] /\ i+1 \in 1..Len(o)
      BY <2>4
    <3>2. o[i+1].msg.kind = "HintsComplete"
      BY <3>1
    <3>3. i+1 = Len(o) /\ status["hints"] # "run"
      BY <2>3, <3>1, <3>2
    <3>4. i \in Nat
      BY <2>1
    <3> QED BY <2>1, <3>3, <3>4, LastOfTail
  <2>6. out'["hints"] = Tail(o) \/ out'["hints"] = <<>>
    BY <1>4, <1>11 DEF o
  <2>7. HintsCompleteIsLast'
    <3>1. CASE out'["hints"] = Tail(o)
      BY <2>1, <2>2, <2>3, <2>5, <3>1 DEF HintsCompleteIsLast
    <3>2. CASE out'["hints"] = <<>>
      BY <2>1, <2>2, <2>3, <3>2 DEF HintsCompleteIsLast
    <3> QED BY <2>6, <3>1, <3>2
  <2>8. s.msg.kind = "HintsComplete" => EnvelopesDrained'
    <3>1. s.msg.kind = "HintsComplete" => Tail(o) = <<>> /\ status["hints"] = "last"
      <4> SUFFICES ASSUME s.msg.kind = "HintsComplete"
                   PROVE  Tail(o) = <<>> /\ status["hints"] = "last"
        OBVIOUS
      <4>1. o[1].msg.kind = "HintsComplete" /\ 1 \in 1..Len(o)
        BY <2>1, <2>4
      <4>2. 1 = Len(o) /\ status["hints"] # "run"
        BY <2>3, <4>1
      <4>3. Len(o) <= 1
        <5>1. 1 <= 1
          OBVIOUS
        <5> QED BY <4>2, <5>1
      <4>4. Tail(o) = <<>>
        BY <2>1, <4>3, TailOfOne
      <4> QED BY <2>1, <4>2, <4>4
    <3> QED BY <2>1, <2>2, <2>3, <2>6, <3>1 DEF EnvelopesDrained
  <2>9. \/ queue'["storage"] = queue["storage"]
        \/ \E m : /\ queue'["storage"] = Append(queue["storage"], m)
                  /\ m.kind # "Shutdown"
    BY <1>3, <1>4, <1>11, StageNames DEF MayEmit
  <2>10. \/ queue'["snapshot"] = queue["snapshot"]
         \/ \E m : /\ queue'["snapshot"] = Append(queue["snapshot"], m)
                   /\ m.kind = "HintsComplete" => EnvelopesDrained'
    BY <1>4, <2>8, StageNames
  <2> QED BY <1>1, <1>7, <2>1, <2>2, <2>7, <2>9, <2>10, Upstream
<1>12. CASE t = "snapshot"
  <2>1. /\ s.to = "storage" /\ out["snapshot"] # <<>> /\ out["snapshot"] \in Seq(Send)
        /\ status'["snapshot"] = status["snapshot"]
        /\ out'["snapshot"] = Tail(out["snapshot"]) \/ out'["snapshot"] = <<>>
        /\ status["snapshot"] \in {"run", "last"}
    BY <1>1, <1>3, <1>4, <1>12 DEF MayEmit, Gone, Status
  <2>2. \A u \in {"envelope", "hints", "storage"} :
           status'[u] = status[u] /\ out'[u] = out[u]
    BY <1>4, <1>12, StageNames
  <2>3. EnvelopesDrained' <=> EnvelopesDrained
    BY <2>2 DEF EnvelopesDrained, Gone
  <2>4. Len(Tail(out["snapshot"])) = Len(out["snapshot"]) - 1
        /\ Tail(out["snapshot"]) \in Seq(Send) /\ Len(out["snapshot"]) \in Nat
    BY <2>1
  <2>5. status["snapshot"] = "last" => out'["snapshot"] = <<>>
    <3> SUFFICES ASSUME status["snapshot"] = "last" PROVE out'["snapshot"] = <<>>
      OBVIOUS
    <3>1. Len(out["snapshot"]) <= 1
      BY DEF DrainInv, ShutdownIsLast
    <3>2. Tail(out["snapshot"]) = <<>>
      BY <2>1, <3>1, TailOfOne
    <3> QED BY <2>1, <3>2
  <2>6. ShutdownIsLast'
    BY <1>5, <1>12, <2>1, <2>3, <2>5 DEF DrainInv, ShutdownIsLast
  <2>7. s.msg.kind = "Shutdown" => status["snapshot"] = "last" /\ EnvelopesDrained
    BY <1>2, <1>12 DEF DrainInv, ShutdownIsLast
  <2>8. \/ queue'["storage"] = queue["storage"]
        \/ \E m : /\ queue'["storage"] = Append(queue["storage"], m)
                  /\ m.kind = "Shutdown" =>
                       /\ EnvelopesDrained
                       /\ status'["snapshot"] # "run"
                       /\ out'["snapshot"] = <<>>
    BY <1>4, <2>1, <2>5, <2>7, StageNames
  <2>9. queue'["snapshot"] = queue["snapshot"]
    BY <1>4, <2>1, StageNames
  <2>10. snap'.hints_complete => EnvelopesDrained
    BY <1>1 DEF DrainInv, HintsCompleteMeansDrained
  <2> QED BY <1>1, <1>7, <2>1, <2>2, <2>6, <2>8, <2>9, <2>10, Downstream
<1> QED BY <1>8, <1>9, <1>10, <1>11, <1>12, Names

\* A thread that ends, by itself or by a panic, goes silent.
LEMMA EndDrain ==
    ASSUME TypeOK, DrainInv, NEW t \in Stage, NEW how \in {"done", "panicked"},
           how = "done" => status[t] = "last", End(t, how)
    PROVE  DrainInv'
<1>1. /\ status \in [Stage -> Status] /\ out \in [Stage -> Seq(Send)]
      /\ queue \in [Chan -> Seq(AnyMessage)] /\ Inbox[t] \in Chan
  BY Names DEF TypeOK, ChannelsOK
<1>2. /\ status' = [status EXCEPT ![t] = how] /\ out' = [out EXCEPT ![t] = <<>>]
      /\ queue' = [queue EXCEPT ![Inbox[t]] = <<>>] /\ snap' = snap
  BY DEF End
<1>3. /\ status'[t] = how /\ out'[t] = <<>>
      /\ \A u \in Stage : u # t => status'[u] = status[u] /\ out'[u] = out[u]
      /\ \A c \in Chan : queue'[c] = queue[c] \/ queue'[c] = <<>>
  BY <1>1, <1>2
<1>4. GoneIsSilent' /\ SendsAreTheirs'
  BY <1>3, OwnSends, RangeEmpty
<1>5. EnvelopesDrained => EnvelopesDrained'
  BY <1>3, StageNames DEF EnvelopesDrained, Gone
<1>6. Gone("envelope") => Gone("envelope")'
  BY <1>3, StageNames DEF Gone
<1>7. HintsCompleteIsLast'
  <2>1. status'["hints"] \in {"last", "done"} => status["hints"] \in {"last", "done"}
    BY <1>3, StageNames
  <2>2. CASE t = "hints"
    <3>1. Len(out'["hints"]) = 0
      BY <1>3, <2>2
    <3> QED BY <1>6, <2>1, <3>1 DEF DrainInv, HintsCompleteIsLast
  <2>3. CASE t # "hints"
    BY <1>3, <1>6, <2>3, StageNames DEF DrainInv, HintsCompleteIsLast
  <2> QED BY <2>2, <2>3
<1>8. HintsCompleteMeansDrained'
  BY <1>2, <1>3, <1>5, RangeEmpty, StageNames DEF DrainInv, HintsCompleteMeansDrained
<1>9. ShutdownIsLast'
  <2>1. status'["snapshot"] \in {"last", "done"} =>
           status["snapshot"] \in {"last", "done"}
    BY <1>3, StageNames
  <2>2. CASE t = "snapshot"
    <3>1. Range(out'["snapshot"]) = {} /\ status'["snapshot"] # "last"
      BY <1>3, <2>2, RangeEmpty
    <3> QED BY <1>5, <2>1, <3>1 DEF DrainInv, ShutdownIsLast
  <2>3. CASE t # "snapshot"
    BY <1>3, <1>5, <2>3, StageNames DEF DrainInv, ShutdownIsLast
  <2> QED BY <2>2, <2>3
<1>10. StorageShutdownMeansDrained'
  <2>1. status'["storage"] \in {"last", "done"} => status["storage"] \in {"last", "done"}
    BY <1>3, StageNames
  <2>2. \A m \in Range(queue'["storage"]) : m \in Range(queue["storage"])
    BY <1>3, RangeEmpty, StageNames
  <2>3. status["snapshot"] # "run" => status'["snapshot"] # "run"
    BY <1>3, StageNames
  <2>4. out["snapshot"] = <<>> => out'["snapshot"] = <<>>
    BY <1>3, StageNames
  <2> QED
    BY <1>5, <2>1, <2>2, <2>3, <2>4 DEF DrainInv, StorageShutdownMeansDrained
<1>11. OnlyEventsBehindShutdown(queue'["storage"])
  <2>1. CASE queue'["storage"] = queue["storage"]
    BY <2>1 DEF DrainInv
  <2>2. CASE queue'["storage"] = <<>>
    BY <2>2 DEF OnlyEventsBehindShutdown
  <2> QED BY <1>3, <2>1, <2>2, StageNames
<1> QED BY <1>4, <1>7, <1>8, <1>9, <1>10, <1>11 DEF DrainInv

-----------------------------------------------------------------------------
\* The invariant holds before anything has been sent.
LEMMA InitDrain ==
    ASSUME Init
    PROVE  DrainInv
<1>1. /\ \A t \in Stage : status[t] = "run" /\ out[t] = <<>>
      /\ \A c \in Chan : queue[c] = <<>>
      /\ ~snap.hints_complete
  BY DEF Init
<1>2. Len(out["hints"]) = 0 /\ Len(queue["storage"]) = 0
  BY <1>1, StageNames
<1> QED
  BY <1>1, <1>2, StageNames, RangeEmpty
     DEF DrainInv, GoneIsSilent, Gone, SendsAreTheirs, HintsCompleteIsLast,
         HintsCompleteMeansDrained, ShutdownIsLast, StorageShutdownMeansDrained,
         OnlyEventsBehindShutdown

\* The invariant of the shutdown protocol holds in every behaviour.
THEOREM DrainInvariant == Spec => []DrainInv
<1>1. Init => DrainInv
  BY InitDrain
<1>2. TypeOK /\ DrainInv /\ [Next]_vars => DrainInv'
  <2> SUFFICES ASSUME TypeOK, DrainInv, [Next]_vars PROVE DrainInv'
    OBVIOUS
  <2>1. CASE UNCHANGED vars
    <3>1. UNCHANGED <<status, queue, out, snap>>
      BY <2>1 DEF vars
    <3>2. GoneIsSilent' /\ SendsAreTheirs'
      BY <3>1 DEF DrainInv, GoneIsSilent, SendsAreTheirs, Gone
    <3> QED BY <3>1, <3>2, Elsewhere
  <2>2. ASSUME NEW t \in Stage, Exit(t) PROVE DrainInv'
    BY <2>2, EndDrain DEF Exit
  <2>3. ASSUME NEW t \in Stage, Panic(t) PROVE DrainInv'
    BY <2>3, EndDrain DEF Panic
  <2> QED
    BY <2>1, <2>2, <2>3, SourceDrain, IngestDrain, EnvelopeDrain, HintsDrain,
       CompressionDrain, SnapshotDrain, StorageDrain, DeliverDrain DEF Next
<1> QED BY <1>1, <1>2, TypeCorrect, PTL DEF Spec

\* Whatever the schedule, the panics and the events, nothing but compressed or
\* raw events is behind the storage stage's Shutdown: storage.rs drops no
\* envelope, record or transition by leaving its loop.
THEOREM OnlyCompressionLate == Spec => []OnlyCompressionIsLate
<1>1. DrainInv => OnlyCompressionIsLate
  <2> SUFFICES ASSUME DrainInv PROVE OnlyCompressionIsLate
    OBVIOUS
  <2>1. status["storage"] \in {"last", "done"} =>
           \A t \in {"envelope", "hints", "snapshot"} :
              status[t] # "run" /\ out[t] = <<>>
    BY StageNames
       DEF DrainInv, StorageShutdownMeansDrained, EnvelopesDrained, GoneIsSilent, Gone
  <2>2. Len(<<>>) = 0
    OBVIOUS
  <2> QED BY <2>1, <2>2 DEF DrainInv, OnlyCompressionIsLate, LateForStorage
<1> QED BY <1>1, DrainInvariant, PTL

-----------------------------------------------------------------------------
(* Flows.  A value that one stage keeps and another one copies from its    *)
(* messages (the number of records, the activity state, a counter) is a    *)
(* flow: the messages on their way take the reader's copy, step by step,   *)
(* to the writer's value.  An invariant per flow says so, whatever other   *)
(* stages put into the same channel.                                       *)


(* A send counts as its message if it goes to channel c, and changes       *)
(* nothing otherwise.                                                      *)
Sent(V, R, c) ==
  {x \in V \X Send \X V : IF x[2].to = c THEN <<x[1], x[2].msg, x[3]>> \in R ELSE x[3] = x[1]}

(* First what is in the channel, then what the writer has still to send.   *)
Flow(V, R, c, q, o, a, b) ==
  \E m \in V : Path(V, R, q, a, m) /\ Path(V, Sent(V, R, c), o, m, b)

Neutral(V, R, m) == \A v \in V : <<v, m, v>> \in R

-----------------------------------------------------------------------------
(* Paths.                                                                  *)

(* Messages that change nothing.                                           *)
LEMMA PathNeutral ==
  ASSUME NEW V, NEW R, NEW S, NEW q \in Seq(S), NEW a \in V,
         \A i \in 1..Len(q) : Neutral(V, R, q[i])
  PROVE  Path(V, R, q, a, a)
<1> DEFINE f == [i \in 0..Len(q) |-> a]
<1>1. Len(q) \in Nat
  OBVIOUS
<1>2. f \in [0..Len(q) -> V] /\ f[0] = a /\ f[Len(q)] = a
  BY <1>1
<1>3. ASSUME NEW i \in 1..Len(q) PROVE <<f[i - 1], q[i], f[i]>> \in R
  <2>1. f[i - 1] = a /\ f[i] = a
    BY <1>1
  <2> QED
    BY <2>1 DEF Neutral
<1> HIDE DEF f
<1> QED
  BY <1>2, <1>3 DEF Path

(* Nothing changes along messages that cannot change anything.             *)
LEMMA PathStays ==
  ASSUME NEW V, NEW R, NEW S, NEW q \in Seq(S), NEW a, NEW b, Path(V, R, q, a, b),
         \A i \in 1..Len(q) : \A u, v \in V : <<u, q[i], v>> \in R => v = u
  PROVE  a = b
<1> PICK f \in [0..Len(q) -> V] :
      f[0] = a /\ f[Len(q)] = b /\ \A i \in 1..Len(q) : <<f[i - 1], q[i], f[i]>> \in R
  BY DEF Path
<1> DEFINE T == {i \in Nat : i \in 0..Len(q) => f[i] = a}
<1>1. 0 \in T /\ Len(q) \in Nat
  OBVIOUS
<1>2. ASSUME NEW n \in Nat, n \in T PROVE n + 1 \in T
  <2> SUFFICES ASSUME n + 1 \in 0..Len(q) PROVE f[n + 1] = a
    OBVIOUS
  <2>1. n + 1 \in 1..Len(q) /\ n \in 0..Len(q) /\ (n + 1) - 1 = n
    BY <1>1
  <2>2. f[n] = a /\ f[n] \in V /\ f[n + 1] \in V
    BY <1>2, <2>1
  <2>3. <<f[n], q[n + 1], f[n + 1]>> \in R
    BY <2>1
  <2> QED
    BY <2>1, <2>2, <2>3
<1> HIDE DEF T
<1>3. Nat \subseteq T
  BY <1>1, <1>2, Induction
<1> QED
  BY <1>1, <1>3 DEF T

-----------------------------------------------------------------------------
(* Flows: a channel and the outbox of its writer.                          *)

LEMMA FlowEnds ==
  ASSUME NEW V, NEW R, NEW c, NEW S, NEW q \in Seq(S), NEW o \in Seq(Send), NEW a, NEW b,
         Flow(V, R, c, q, o, a, b)
  PROVE  a \in V /\ b \in V
BY PathEnds DEF Flow

LEMMA FlowEmpty ==
  ASSUME NEW V, NEW R, NEW c, NEW a, NEW b
  PROVE  Flow(V, R, c, <<>>, <<>>, a, b) <=> a \in V /\ a = b
BY PathEmpty DEF Flow

(* With nothing left to send, the channel alone takes a to b.              *)
LEMMA FlowSilent ==
  ASSUME NEW V, NEW R, NEW c, NEW q, NEW a, NEW b, NEW o, o = <<>>
  PROVE  Flow(V, R, c, q, o, a, b) <=> b \in V /\ Path(V, R, q, a, b)
BY PathEmpty DEF Flow

(* The writer decides what it sends.                                       *)
LEMMA FlowEmits ==
  ASSUME NEW V, NEW R, NEW c, NEW S, NEW q \in Seq(S), NEW sends \in Seq(Send),
         NEW a, NEW b, NEW d,
         Flow(V, R, c, q, <<>>, a, b), Path(V, Sent(V, R, c), sends, b, d)
  PROVE  Flow(V, R, c, q, sends, a, d)
BY FlowSilent DEF Flow

(* The first send is made.                                                 *)
LEMMA FlowSends ==
  ASSUME NEW V, NEW R, NEW c, NEW S, NEW q \in Seq(S), NEW o \in Seq(Send), o # <<>>,
         NEW a, NEW b, Flow(V, R, c, q, o, a, b)
  PROVE  /\ Head(o).to = c => Flow(V, R, c, Append(q, Head(o).msg), Tail(o), a, b)
         /\ Head(o).to # c => Flow(V, R, c, q, Tail(o), a, b)
<1> PICK m \in V : Path(V, R, q, a, m) /\ Path(V, Sent(V, R, c), o, m, b)
  BY DEF Flow
<1>1. PICK d \in V : <<m, Head(o), d>> \in Sent(V, R, c)
                    /\ Path(V, Sent(V, R, c), Tail(o), d, b)
  BY PathTail
<1>2. CASE Head(o).to = c
  <2>1. <<m, Head(o).msg, d>> \in R
    BY <1>1, <1>2 DEF Sent
  <2>2. Path(V, R, Append(q, Head(o).msg), a, d)
    BY <2>1, PathAppend
  <2> QED
    BY <1>1, <1>2, <2>2 DEF Flow
<1>3. CASE Head(o).to # c
  <2>1. d = m
    BY <1>1, <1>3 DEF Sent
  <2> QED
    BY <1>1, <1>3, <2>1 DEF Flow
<1> QED
  BY <1>2, <1>3

(* The reader takes a message.                                             *)
LEMMA FlowReads ==
  ASSUME NEW V, NEW R, NEW c, NEW S, NEW q \in Seq(S), q # <<>>, NEW o,
         NEW a, NEW b, Flow(V, R, c, q, o, a, b)
  PROVE  \E d \in V : <<a, Head(q), d>> \in R /\ Flow(V, R, c, Tail(q), o, d, b)
<1> PICK m \in V : Path(V, R, q, a, m) /\ Path(V, Sent(V, R, c), o, m, b)
  BY DEF Flow
<1>1. PICK d \in V : <<a, Head(q), d>> \in R /\ Path(V, R, Tail(q), d, m)
  BY PathTail
<1> QED
  BY <1>1 DEF Flow

(* Another writer of the channel sends something of no concern.            *)
LEMMA FlowPasses ==
  ASSUME NEW V, NEW R, NEW c, NEW S, NEW q \in Seq(S), NEW o,
         NEW a, NEW b, Flow(V, R, c, q, o, a, b), NEW m, Neutral(V, R, m)
  PROVE  Flow(V, R, c, Append(q, m), o, a, b)
<1> PICK d \in V : Path(V, R, q, a, d) /\ Path(V, Sent(V, R, c), o, d, b)
  BY DEF Flow
<1>1. <<d, m, d>> \in R
  BY DEF Neutral
<1>2. Path(V, R, Append(q, m), a, d)
  BY <1>1, PathAppend
<1> QED
  BY <1>2 DEF Flow

-----------------------------------------------------------------------------
(* What a step of one thread does to a flow.                               *)

(* A handler goes on in status st with these sends, with or without having *)
(* taken a message.                                                        *)
Takes(t, st, sends) == queue[Inbox[t]] # <<>> /\ Handle(t, st, sends)
Acts(t, st, sends) == Takes(t, st, sends) \/ Proceed(t, st, sends)

(* The flow of channel c from its writer, in the current state.            *)
Flows(V, R, c, writer, a, b) == Flow(V, R, c, queue[c], out[writer], a, b)

LEMMA ContinueExact ==
  ASSUME status \in [Stage -> Status], out \in [Stage -> Seq(Send)],
         NEW t \in Stage, NEW st \in Status, NEW sends \in Seq(Send),
         NEW q \in [Chan -> Seq(AnyMessage)], Continue(t, st, sends, q), NEW c \in Chan
  PROVE  \/ queue'[c] = q[c] /\ out'[t] = sends
         \/ /\ sends # <<>> /\ out'[t] = Tail(sends)
            /\ Head(sends).to = c => queue'[c] = Append(q[c], Head(sends).msg)
            /\ Head(sends).to # c => queue'[c] = q[c]
BY ContinueEffect

LEMMA ActsExact ==
  ASSUME ChannelsOK, NEW t \in Stage, NEW st \in Status, NEW sends \in Seq(Send),
         Acts(t, st, sends), NEW c \in Chan, c # Inbox[t]
  PROVE  \/ queue'[c] = queue[c] /\ out'[t] = sends
         \/ /\ sends # <<>> /\ out'[t] = Tail(sends)
            /\ Head(sends).to = c => queue'[c] = Append(queue[c], Head(sends).msg)
            /\ Head(sends).to # c => queue'[c] = queue[c]
<1>1. /\ status \in [Stage -> Status] /\ out \in [Stage -> Seq(Send)]
      /\ queue \in [Chan -> Seq(AnyMessage)]
  BY DEF ChannelsOK
<1>2. CASE Proceed(t, st, sends)
  BY <1>1, <1>2, ContinueExact DEF Proceed
<1>3. CASE Takes(t, st, sends)
  <2> DEFINE i == Inbox[t]
             q == [queue EXCEPT ![i] = Tail(@)]
  <2>1. i \in Chan /\ queue[i] # <<>> /\ Continue(t, st, sends, q)
    BY <1>3, Names DEF Takes, Handle
  <2>2. queue[i] \in Seq(AnyMessage)
    BY <1>1, <2>1
  <2>3. q \in [Chan -> Seq(AnyMessage)] /\ q[c] = queue[c]
    BY <1>1, <2>1, <2>2
  <2>4. PICK p \in [Chan -> Seq(AnyMessage)] : p[c] = queue[c] /\ Continue(t, st, sends, p)
    BY <2>1, <2>3
  <2> HIDE DEF q
  <2>5. \/ queue'[c] = p[c] /\ out'[t] = sends
        \/ /\ sends # <<>> /\ out'[t] = Tail(sends)
           /\ Head(sends).to = c => queue'[c] = Append(p[c], Head(sends).msg)
           /\ Head(sends).to # c => queue'[c] = p[c]
    BY <1>1, <2>4, ContinueExact
  <2> QED
    BY <2>4, <2>5
<1> QED
  BY <1>2, <1>3 DEF Acts

LEMMA ActsElsewhere ==
  ASSUME ChannelsOK, NEW t \in Stage, NEW st \in Status, NEW sends \in Seq(Send),
         Acts(t, st, sends)
  PROVE  /\ status'[t] = st
         /\ \A u \in Stage : u # t => status'[u] = status[u] /\ out'[u] = out[u]
<1>1. status \in [Stage -> Status] /\ out \in [Stage -> Seq(Send)]
  BY DEF ChannelsOK
<1> QED
  BY <1>1 DEF Acts, Takes, Handle, Proceed, Continue

(* The writer acts: its sends take the value to a new one.                 *)
LEMMA WriterActs ==
  ASSUME ChannelsOK, NEW V, NEW R, NEW c \in Chan, NEW t \in Stage, c # Inbox[t],
         NEW st \in Status, NEW sends \in Seq(Send), Acts(t, st, sends),
         out[t] = <<>>, NEW a, NEW b, NEW d,
         Flows(V, R, c, t, a, b), Path(V, Sent(V, R, c), sends, b, d)
  PROVE  Flow(V, R, c, queue'[c], out'[t], a, d)
<1>1. queue[c] \in Seq(AnyMessage)
  BY DEF ChannelsOK
<1>2. Flow(V, R, c, queue[c], sends, a, d)
  BY <1>1, FlowEmits DEF Flows
<1>3. CASE queue'[c] = queue[c] /\ out'[t] = sends
  BY <1>2, <1>3
<1>4. CASE /\ sends # <<>> /\ out'[t] = Tail(sends)
           /\ Head(sends).to = c => queue'[c] = Append(queue[c], Head(sends).msg)
           /\ Head(sends).to # c => queue'[c] = queue[c]
  <2>1. /\ Head(sends).to = c => Flow(V, R, c, Append(queue[c], Head(sends).msg), Tail(sends), a, d)
        /\ Head(sends).to # c => Flow(V, R, c, queue[c], Tail(sends), a, d)
    BY <1>1, <1>2, <1>4, FlowSends
  <2> QED
    BY <1>4, <2>1
<1> QED
  BY <1>3, <1>4, ActsExact

(* Another stage acts, and says nothing of concern.                        *)
LEMMA OtherActs ==
  ASSUME ChannelsOK, NEW V, NEW R, NEW c \in Chan, NEW w \in Stage,
         NEW t \in Stage, t # w, c # Inbox[t],
         NEW st \in Status, NEW sends \in Seq(Send), Acts(t, st, sends),
         \A s \in Range(sends) : s.to = c => Neutral(V, R, s.msg),
         NEW a, NEW b, Flows(V, R, c, w, a, b)
  PROVE  Flow(V, R, c, queue'[c], out'[w], a, b)
<1>1. queue[c] \in Seq(AnyMessage)
  BY DEF ChannelsOK
<1>2. out'[w] = out[w]
  BY ActsElsewhere
<1>3. sends # <<>> => Head(sends) \in Range(sends)
  BY RangeTail
<1>4. CASE queue'[c] = queue[c]
  BY <1>2, <1>4 DEF Flows
<1>5. CASE /\ sends # <<>> /\ Head(sends).to = c
           /\ queue'[c] = Append(queue[c], Head(sends).msg)
  <2>1. Neutral(V, R, Head(sends).msg)
    BY <1>3, <1>5
  <2>2. Flow(V, R, c, Append(queue[c], Head(sends).msg), out[w], a, b)
    BY <1>1, <2>1, FlowPasses DEF Flows
  <2> QED
    BY <1>2, <1>5, <2>2
<1> QED
  BY <1>4, <1>5, ActsExact

(* The reader acts: it takes a message, which gives its new value, or not. *)
LEMMA ReaderActs ==
  ASSUME ChannelsOK, NEW V, NEW R, NEW w \in Stage, NEW t \in Stage, t # w,
         NEW st \in Status, NEW sends \in Seq(Send),
         \A s \in Range(sends) : s.to # Inbox[t],
         NEW a, NEW b, Flows(V, R, Inbox[t], w, a, b)
  PROVE  /\ Proceed(t, st, sends) =>
               Flow(V, R, Inbox[t], queue'[Inbox[t]], out'[w], a, b)
         /\ Takes(t, st, sends) =>
               \E d \in V : /\ <<a, Msg(t), d>> \in R
                            /\ Flow(V, R, Inbox[t], queue'[Inbox[t]], out'[w], d, b)
<1> DEFINE c == Inbox[t]
<1>1. c \in Chan
  BY Names
<1>2. queue[c] \in Seq(AnyMessage)
  BY <1>1 DEF ChannelsOK
<1>3. ASSUME Proceed(t, st, sends) PROVE Flow(V, R, c, queue'[c], out'[w], a, b)
  <2>1. out'[w] = out[w]
    BY <1>3, ActsElsewhere DEF Acts
  <2>2. queue'[c] = queue[c]
    BY <1>1, <1>3, ProceedRanges
  <2> QED
    BY <2>1, <2>2 DEF Flows
<1>4. ASSUME Takes(t, st, sends)
      PROVE  \E d \in V : <<a, Msg(t), d>> \in R /\ Flow(V, R, c, queue'[c], out'[w], d, b)
  <2>1. out'[w] = out[w]
    BY <1>4, ActsElsewhere DEF Acts
  <2>2. queue[c] # <<>> /\ queue'[c] = Tail(queue[c])
    BY <1>4, HandleRanges DEF Takes
  <2> HIDE DEF c
  <2>3. Msg(t) = Head(queue[c])
    BY DEF Msg, c
  <2> QED
    BY <1>2, <2>1, <2>2, <2>3, FlowReads DEF Flows, c
<1> QED
  BY <1>3, <1>4

(* A later send of a handler, the writer's or another stage's: the values  *)
(* stay, unless the writer's send fails for good and it drops the rest.    *)
LEMMA FlowDelivers ==
  ASSUME ChannelsOK, NEW V, NEW R, NEW c \in Chan, NEW w \in Stage, NEW t \in Stage,
         Deliver(t), ~ReceiverGone(c),
         t # w => \A s \in Range(out[t]) : s.to = c => Neutral(V, R, s.msg),
         NEW a, NEW b, Flows(V, R, c, w, a, b)
  PROVE  \/ Flow(V, R, c, queue'[c], out'[w], a, b)
         \/ /\ t = w /\ status'[t] = "last" /\ Fatal(t, Head(out[t]))
            /\ ReceiverGone(Head(out[t]).to)
            /\ \E m \in V : Flow(V, R, c, queue'[c], out'[w], a, m)
<1> DEFINE s == Head(out[t])
<1>1. /\ out \in [Stage -> Seq(Send)] /\ status \in [Stage -> Status]
      /\ queue \in [Chan -> Seq(AnyMessage)] /\ queue[c] \in Seq(AnyMessage)
      /\ out[t] \in Seq(Send)
  BY DEF ChannelsOK
<1>2. out[t] # <<>> /\ s \in Send /\ s \in Range(out[t])
  BY <1>1, RangeTail DEF Deliver
<1>3. s.to \in Chan
  BY <1>2, SendTo
<1>4. CASE ReceiverGone(s.to) /\ Fatal(t, s) /\ status' = [status EXCEPT ![t] = "last"]
             /\ out' = [out EXCEPT ![t] = <<>>] /\ queue' = queue
  <2>1. CASE t # w
    BY <1>1, <1>4, <2>1 DEF Flows
  <2>2. CASE t = w
    <3>1. PICK m \in V : Path(V, R, queue[c], a, m)
      BY DEF Flows, Flow
    <3>2. out'[w] = <<>> /\ status'[t] = "last"
      BY <1>1, <1>4, <2>2
    <3>3. Flow(V, R, c, queue'[c], out'[w], a, m)
      BY <1>4, <3>1, <3>2, FlowSilent
    <3> QED
      BY <1>4, <2>2, <3>2, <3>3
  <2> QED
    BY <2>1, <2>2
<1>5. CASE /\ out' = [out EXCEPT ![t] = Tail(out[t])]
           /\ s.to = c => queue'[c] = Append(queue[c], s.msg)
           /\ s.to # c => queue'[c] = queue[c]
  <2>1. CASE t # w
    <3>1. out'[w] = out[w]
      BY <1>1, <1>5, <2>1
    <3>2. s.to = c => Flow(V, R, c, Append(queue[c], s.msg), out[w], a, b)
      BY <1>1, <1>2, <2>1, FlowPasses DEF Flows
    <3> QED
      BY <1>5, <3>1, <3>2 DEF Flows
  <2>2. CASE t = w
    <3>1. out'[w] = Tail(out[w])
      BY <1>1, <1>5, <2>2
    <3>2. /\ s.to = c => Flow(V, R, c, Append(queue[c], s.msg), Tail(out[w]), a, b)
          /\ s.to # c => Flow(V, R, c, queue[c], Tail(out[w]), a, b)
      BY <1>1, <1>2, <2>2, FlowSends DEF Flows
    <3> QED
      BY <1>5, <3>1, <3>2
  <2> QED
    BY <2>1, <2>2
<1>6. CASE ~ReceiverGone(s.to) /\ queue' = [queue EXCEPT ![s.to] = Append(@, s.msg)]
           /\ out' = [out EXCEPT ![t] = Tail(@)]
  BY <1>1, <1>3, <1>5, <1>6
<1>7. CASE ReceiverGone(s.to) /\ out' = [out EXCEPT ![t] = Tail(@)] /\ queue' = queue
  BY <1>1, <1>5, <1>7
<1> QED
  BY <1>4, <1>6, <1>7 DEF Deliver

-----------------------------------------------------------------------------
(* The invariant: one link per channel and writer.                         *)

Left(t) == status[t] \in {"last", "done"}

(* w is done with channel c                                                *)
Finished(c, w) == status[w] # "run" /\ \A s \in Range(out[w]) : s.to # c

(* The writer's value is what its messages amount to: as long as it runs,  *)
(* and to the end if nothing panics.                                       *)
Tracked(w) == status[w] = "run" \/ NoPanic

(* What r has taken from channel c amounts to a; with the messages that    *)
(* are on their way from w it amounts to a value of W, and when r leaves   *)
(* its loop a is one of them.                                              *)
Link(V, R, c, w, r, a, W) ==
  /\ status[r] = "run" =>
        \E b \in V : Flow(V, R, c, queue[c], out[w], a, b) /\ (Tracked(w) => b \in W)
  /\ Left(r) /\ NoPanic => Finished(c, w) /\ a \in W

Phase == {"open", "closed"}

PhaseOf(closed) == IF closed THEN "closed" ELSE "open"

(* derive: raw events, from ingest to envelope.  rr is the number of raw   *)
(* events the envelope stage has taken.                                    *)
Raw == [raw : Nat, phase : Phase]

RawStep ==
  {x \in Raw \X DeriveMsg \X Raw :
     /\ x[1].phase = "open"
     /\ x[3].raw = x[1].raw + (IF x[2].kind = "Batch" THEN Len(x[2].events) ELSE 0)
     /\ x[3].phase = PhaseOf(x[2].kind = "Shutdown")}

RawTaken(rr) == [raw |-> rr, phase |-> PhaseOf(status["envelope"] # "run")]

RawSent == {v \in Raw : /\ v.raw + Len(pending) = event_count
                        /\ status["ingest"] = "run" => v.phase = "open"}

RawLink(rr) == Link(Raw, RawStep, "derive", "ingest", "envelope", RawTaken(rr), RawSent)

(* compression: the same events, from envelope to compression              *)
CompressStep ==
  {x \in Raw \X CompressionMsg \X Raw :
     /\ x[1].phase = "open"
     /\ x[3].raw = x[1].raw + (IF x[2].kind = "Process" THEN Len(x[2].events) ELSE 0)
     /\ x[3].phase = PhaseOf(x[2].kind = "Shutdown")}

CompressTaken == [raw |-> rollup.raw, phase |-> PhaseOf(status["compression"] # "run")]

CompressSent(rr) == {v \in Raw : /\ v.raw + Len(work.batch) = rr
                                 /\ status["envelope"] = "run" => v.phase = "open"}

CompressLink(rr) ==
  Link(Raw, CompressStep, "compression", "envelope", "compression", CompressTaken,
       CompressSent(rr))

(* hints: state, focus and the number of hints, from envelope to hints.    *)
(* hin is the number of hints sent, hh of hints the hints stage has taken. *)
View == [state : ActivityState, focus : OptWindow, hints : Nat]

HintStep ==
  {x \in View \X Hint \X View :
     /\ x[3].state = IF x[2].kind = "StateChanged" THEN x[2].to ELSE x[1].state
     /\ x[3].focus = IF x[2].kind = "FocusChanged" THEN x[2].win ELSE x[1].focus
     /\ x[3].hints = x[1].hints + 1}

HintTaken(hh) == [state |-> builder.state, focus |-> builder.focus, hints |-> hh]

(* f is the focus last reported, unless the report is still in the batch   *)
Reported(f) ==
  \/ \E e \in Range(work.adapted) \cup Range(work.envs) : e.kind = "FocusChanged"
  \/ f = derive.last_focus

HintSent(hin) == {v \in View : /\ v.state = derive.state
                               /\ Reported(v.focus)
                               /\ v.hints = hin}

HintLink(hh, hin) ==
  Link(View, HintStep, "hints", "envelope", "hints", HintTaken(hh), HintSent(hin))

(* snapshot: the view that is published, from envelope to snapshot.  sig   *)
(* is the number of signals.                                               *)
Seen == [state : ActivityState, focus : OptWindow, hints : Nat, signals : Nat,
         phase : Phase]

Seeing(u, m, v) ==
  /\ u.phase = "open"
  /\ m.tr # NoTransition => m.tr.from = u.state
  /\ v.state = IF m.tr = NoTransition THEN u.state ELSE m.tr.to
  /\ v.focus = IF m.focus = NoWindow THEN u.focus ELSE m.focus
  /\ v.hints = u.hints + m.hints
  /\ v.signals = u.signals + m.signals
  /\ v.phase = "open"

SeenStep ==
  {x \in Seen \X SnapshotMsg \X Seen :
     \/ x[2].kind = "Update" /\ Seeing(x[1], x[2], x[3])
     \/ x[2].kind = "Publish" /\ x[1].phase = "open" /\ x[3] = x[1]
     \/ x[2].kind = "Shutdown" /\ x[1].phase = "open" /\ x[3] = [x[1] EXCEPT !.phase = "closed"]
     \/ x[2].kind \in {"Record", "HintsComplete"} /\ x[3] = x[1]}

SeenTaken == [state |-> snap.state, focus |-> snap.focus, hints |-> snap.hints,
              signals |-> snap.signals, phase |-> PhaseOf(snap.shutdown_requested)]

SeenSent(sig, hin) ==
  {v \in Seen : /\ v.state = derive.state
                /\ Reported(IF work.upd.focus = NoWindow THEN v.focus ELSE work.upd.focus)
                /\ v.hints + work.upd.hints = hin
                /\ v.signals + work.upd.signals = sig
                /\ status["envelope"] = "run" => v.phase = "open"}

SeenLink(sig, hin) ==
  Link(Seen, SeenStep, "snapshot", "envelope", "snapshot", SeenTaken, SeenSent(sig, hin))

(* snapshot: the number of records, from hints to snapshot                 *)
Tally == [records : Nat, phase : Phase]

TallyStep ==
  {x \in Tally \X SnapshotMsg \X Tally :
     \/ /\ x[2].kind = "Record" /\ x[1].phase = "open"
        /\ x[3] = [records |-> x[1].records + 1, phase |-> "open"]
     \/ /\ x[2].kind = "HintsComplete" /\ x[1].phase = "open"
        /\ x[3] = [records |-> x[1].records, phase |-> "closed"]
     \/ x[2].kind \in {"Update", "Publish", "Shutdown"} /\ x[3] = x[1]}

TallyTaken == [records |-> snap.records, phase |-> PhaseOf(snap.hints_complete)]

(* the records that have ended                                             *)
Ended(b) == IF b.open THEN b.next - 1 ELSE b.next

TallySent == {v \in Tally : /\ v.records = Ended(builder)
                            /\ status["hints"] = "run" => v.phase = "open"}

TallyLink ==
  Link(Tally, TallyStep, "snapshot", "hints", "snapshot", TallyTaken, TallySent)

(* storage: records and hints, from hints to storage                       *)
Kept == [records : Nat, hints : Nat]

KeptStep ==
  {x \in Kept \X StorageMsg \X Kept :
     \/ /\ x[2].kind = "Record" /\ x[2].rec.id = x[1].records
        /\ x[3] = [records |-> x[1].records + 1, hints |-> x[1].hints]
     \/ /\ x[2].kind = "Envelope" /\ ~x[2].signal
        /\ x[3] = [records |-> x[1].records, hints |-> x[1].hints + 1]
     \/ x[2].kind = "Envelope" /\ x[2].signal /\ x[3] = x[1]
     \/ x[2].kind \notin {"Record", "Envelope"} /\ x[3] = x[1]}

KeptTaken == [records |-> stored.records, hints |-> stored.hints]

KeptSent(hh) == {[records |-> Ended(builder), hints |-> hh]}

KeptLink(hh) ==
  Link(Kept, KeptStep, "storage", "hints", "storage", KeptTaken, KeptSent(hh))

(* storage: signals, from envelope to storage                              *)
SignalStep ==
  {x \in Nat \X StorageMsg \X Nat :
     \/ x[2].kind = "Envelope" /\ x[2].signal /\ x[3] = x[1] + 1
     \/ x[2].kind = "Envelope" /\ ~x[2].signal /\ x[3] = x[1]
     \/ x[2].kind # "Envelope" /\ x[3] = x[1]}

SignalLink(sig) ==
  Link(Nat, SignalStep, "storage", "envelope", "storage", stored.signals, {sig})

(* storage: transitions, from snapshot to storage                          *)
Course == [state : ActivityState, transitions : Nat]

CourseStep ==
  {x \in Course \X StorageMsg \X Course :
     \/ /\ x[2].kind = "Transition" /\ x[2].tr.from = x[1].state
        /\ x[3] = [state |-> x[2].tr.to, transitions |-> x[1].transitions + 1]
     \/ x[2].kind # "Transition" /\ x[3] = x[1]}

CourseTaken == [state |-> stored.state, transitions |-> stored.transitions]

CourseSent == {[state |-> snap.state, transitions |-> bus.transitions]}

CourseLink ==
  Link(Course, CourseStep, "storage", "snapshot", "storage", CourseTaken, CourseSent)

(* The batch in work, and what the stages leave behind.                    *)
BatchInWork ==
  /\ \A e \in Range(work.adapted) \cup Range(work.envs) :
        /\ e.kind # "StateChanged"
        /\ e.kind \in {"FocusSignal", "FocusChanged"} =>
              e.win = derive.last_focus /\ e.win \in Windows
  /\ ~work.busy => work = NoWork
  /\ NoPanic /\ Left("envelope") => ~work.busy

IngestBehind == NoPanic /\ Left("ingest") /\ source.open => pending = <<>>

HintsBehind == Left("hints") => ~builder.open

SnapshotBehind ==
  Left("snapshot") => /\ bus.state = snap.state /\ bus.focus = snap.focus
                      /\ bus.hints = snap.hints /\ bus.signals = snap.signals
                      /\ bus.records = snap.records

LeftBehind == IngestBehind /\ HintsBehind /\ SnapshotBehind

Links(rr, hh, hin, sig) ==
  /\ RawLink(rr) /\ CompressLink(rr) /\ HintLink(hh, hin) /\ SeenLink(sig, hin)
  /\ TallyLink /\ KeptLink(hh) /\ SignalLink(sig) /\ CourseLink

FlowInv ==
  /\ BatchInWork
  /\ LeftBehind
  /\ stored.chained
  /\ \E rr, hh, hin, sig \in Nat : Links(rr, hh, hin, sig)

-----------------------------------------------------------------------------
(* What a step does to any link.                                           *)

(* The link after the step, as a formula about the primed variables.       *)
LinkNext(V, R, c, w, r, a, W) ==
  /\ status'[r] = "run" =>
        \E b \in V : Flow(V, R, c, queue'[c], out'[w], a, b) /\ (Tracked(w)' => b \in W)
  /\ Left(r)' /\ NoPanic' => Finished(c, w)' /\ a \in W

(* Channel c leads from w to r, and nothing that other stages send to it   *)
(* concerns the link.                                                      *)
Shape(V, R, c, w, r) ==
  /\ w \in Stage /\ r \in Stage /\ w # r /\ c \in Chan /\ c = Inbox[r]
  /\ \A t \in Stage, s \in Send :
        t # w /\ MayEmit(t, s) /\ s.to = c => Neutral(V, R, s.msg)

(* A stage in its loop acts.                                               *)
StageActs(t, st, sends) ==
  /\ t \in Stage /\ st \in {"run", "last"} /\ sends \in Seq(Send)
  /\ status[t] = "run" /\ out[t] = <<>>
  /\ \A s \in Range(sends) : MayEmit(t, s)
  /\ Acts(t, st, sends)

LEMMA InboxOnce ==
  ASSUME NEW t \in Stage, NEW u \in Stage, t # u
  PROVE  Inbox[t] # Inbox[u]
BY DEF Inbox, Stage

LEMMA RangeInSet ==
  ASSUME NEW S, NEW o \in Seq(S)
  PROVE  \A s \in Range(o) : s \in S
BY DEF Range

LEMMA OthersAreNeutral ==
  ASSUME NEW V, NEW R, NEW c, NEW w, NEW r, Shape(V, R, c, w, r),
         NEW t \in Stage, t # w, NEW o \in Seq(Send), \A s \in Range(o) : MayEmit(t, s)
  PROVE  \A s \in Range(o) : s.to = c => Neutral(V, R, s.msg)
BY RangeInSet DEF Shape

(* A stage that acts changes nobody else's status, and panics nobody.      *)
LEMMA ActsStatus ==
  ASSUME ChannelsOK, NEW t, NEW st, NEW sends, StageActs(t, st, sends)
  PROVE  /\ status'[t] = st /\ status[t] = "run"
         /\ \A u \in Stage : u # t => status'[u] = status[u] /\ out'[u] = out[u]
         /\ NoPanic' <=> NoPanic
<1>1. st \in Status
  BY DEF StageActs, Status
<1>2. /\ status'[t] = st
      /\ \A u \in Stage : u # t => status'[u] = status[u] /\ out'[u] = out[u]
  BY <1>1, ActsElsewhere DEF StageActs
<1> QED
  BY <1>2 DEF StageActs, NoPanic

(* More values of the writer do no harm.                                   *)
LEMMA LinkWeaken ==
  ASSUME NEW V, NEW R, NEW c, NEW w, NEW r, NEW a, NEW W, NEW W2, W \subseteq W2,
         LinkNext(V, R, c, w, r, a, W)
  PROVE  LinkNext(V, R, c, w, r, a, W2)
BY DEF LinkNext

LEMMA LinkBystander ==
  ASSUME ChannelsOK, NEW V, NEW R, NEW c, NEW w, NEW r, Shape(V, R, c, w, r),
         NEW t, NEW st, NEW sends, StageActs(t, st, sends), t # w, t # r,
         NEW a, NEW W, Link(V, R, c, w, r, a, W)
  PROVE  LinkNext(V, R, c, w, r, a, W)
<1>1. /\ w \in Stage /\ r \in Stage /\ w # r /\ c \in Chan /\ c = Inbox[r]
      /\ t \in Stage /\ st \in Status /\ sends \in Seq(Send) /\ Acts(t, st, sends)
  BY DEF Shape, StageActs, Status
<1>2. /\ status'[w] = status[w] /\ status'[r] = status[r] /\ out'[w] = out[w]
      /\ NoPanic' <=> NoPanic
  BY <1>1, ActsStatus
<1>3. c # Inbox[t]
  BY <1>1, InboxOnce
<1>4. \A s \in Range(sends) : s.to = c => Neutral(V, R, s.msg)
  BY <1>1, OthersAreNeutral DEF StageActs
<1>5. ASSUME status[r] = "run"
      PROVE  \E b \in V : Flow(V, R, c, queue'[c], out'[w], a, b) /\ (Tracked(w)' => b \in W)
  <2>1. PICK b \in V : Flow(V, R, c, queue[c], out[w], a, b) /\ (Tracked(w) => b \in W)
    BY <1>5 DEF Link
  <2>2. Flow(V, R, c, queue'[c], out'[w], a, b)
    BY <1>1, <1>3, <1>4, <2>1, OtherActs DEF Flows
  <2> QED
    BY <1>2, <2>1, <2>2 DEF Tracked
<1>6. Left(r)' /\ NoPanic' => Finished(c, w)' /\ a \in W
  BY <1>2 DEF Link, Left, Finished
<1> QED
  BY <1>2, <1>5, <1>6 DEF LinkNext

LEMMA LinkWrites ==
  ASSUME ChannelsOK, NEW V, NEW R, NEW c, NEW w, NEW r, Shape(V, R, c, w, r),
         NEW st, NEW sends, StageActs(w, st, sends),
         NEW a, NEW W, NEW W2, Link(V, R, c, w, r, a, W),
         \A b \in V : b \in W => \E d \in V : d \in W2 /\ Path(V, Sent(V, R, c), sends, b, d)
  PROVE  LinkNext(V, R, c, w, r, a, W2)
<1>1. /\ w \in Stage /\ r \in Stage /\ w # r /\ c \in Chan /\ c = Inbox[r]
      /\ st \in Status /\ sends \in Seq(Send) /\ Acts(w, st, sends)
      /\ status[w] = "run" /\ out[w] = <<>>
  BY DEF Shape, StageActs, Status
<1>2. status'[r] = status[r] /\ (NoPanic' <=> NoPanic)
  BY <1>1, ActsStatus
<1>3. c # Inbox[w]
  BY <1>1, InboxOnce
<1>4. ASSUME status[r] = "run"
      PROVE  \E b \in V : Flow(V, R, c, queue'[c], out'[w], a, b) /\ b \in W2
  <2>1. PICK b \in V : Flow(V, R, c, queue[c], out[w], a, b) /\ b \in W
    BY <1>1, <1>4 DEF Link, Tracked
  <2>2. PICK d \in V : d \in W2 /\ Path(V, Sent(V, R, c), sends, b, d)
    BY <2>1
  <2>3. Flow(V, R, c, queue'[c], out'[w], a, d)
    BY <1>1, <1>3, <2>1, <2>2, WriterActs DEF Flows
  <2> QED
    BY <2>2, <2>3
<1>5. ~(Left(r)' /\ NoPanic')
  BY <1>1, <1>2 DEF Link, Left, Finished
<1> QED
  BY <1>2, <1>4, <1>5 DEF LinkNext

LEMMA LinkReads ==
  ASSUME ChannelsOK, NEW V, NEW R, NEW c, NEW w, NEW r, Shape(V, R, c, w, r),
         NEW sends, StageActs(r, "run", sends), \A s \in Range(sends) : s.to # c,
         NEW a, NEW a2, NEW W, Link(V, R, c, w, r, a, W),
         \/ Takes(r, "run", sends) /\ \A d \in V : <<a, Msg(r), d>> \in R => d = a2
         \/ Proceed(r, "run", sends) /\ a2 = a
  PROVE  LinkNext(V, R, c, w, r, a2, W)
<1>1. /\ w \in Stage /\ r \in Stage /\ w # r /\ c \in Chan /\ c = Inbox[r]
      /\ "run" \in Status /\ sends \in Seq(Send) /\ status[r] = "run"
  BY DEF Shape, StageActs, Status
<1>2. /\ status'[w] = status[w] /\ status'[r] = "run" /\ (NoPanic' <=> NoPanic)
  BY <1>1, ActsStatus
<1>3. PICK b \in V : Flow(V, R, c, queue[c], out[w], a, b) /\ (Tracked(w) => b \in W)
  BY <1>1 DEF Link
<1>4. /\ Proceed(r, "run", sends) => Flow(V, R, c, queue'[c], out'[w], a, b)
      /\ Takes(r, "run", sends) =>
           \E d \in V : <<a, Msg(r), d>> \in R /\ Flow(V, R, c, queue'[c], out'[w], d, b)
  BY <1>1, <1>3, ReaderActs DEF Flows
<1>5. Flow(V, R, c, queue'[c], out'[w], a2, b)
  BY <1>4
<1>6. Tracked(w)' => b \in W
  BY <1>2, <1>3 DEF Tracked
<1>7. ~Left(r)'
  BY <1>2 DEF Left
<1> QED
  BY <1>5, <1>6, <1>7 DEF LinkNext

LEMMA LinkLeaves ==
  ASSUME ChannelsOK, NEW V, NEW R, NEW c, NEW w, NEW r, Shape(V, R, c, w, r),
         NEW sends, StageActs(r, "last", sends), NEW a, NEW W,
         NoPanic => Finished(c, w) /\ a \in W
  PROVE  LinkNext(V, R, c, w, r, a, W)
<1>1. w \in Stage /\ r \in Stage /\ w # r
  BY DEF Shape
<1>2. /\ status'[w] = status[w] /\ out'[w] = out[w]
      /\ status'[r] = "last" /\ (NoPanic' <=> NoPanic)
  BY <1>1, ActsStatus
<1> QED
  BY <1>2 DEF LinkNext, Finished

(* A send that makes its stage give up.                                    *)
Fails(t) == out[t] # <<>> /\ ReceiverGone(Head(out[t]).to) /\ Fatal(t, Head(out[t]))

LEMMA LinkDelivers ==
  ASSUME ChannelsOK, SendsAreTheirs, NEW V, NEW R, NEW c, NEW w, NEW r, Shape(V, R, c, w, r),
         NEW t \in Stage, Deliver(t), NoPanic => ~Fails(t),
         NEW a, NEW a2, NEW W, Link(V, R, c, w, r, a, W), status'[r] = status[r] => a2 = a
  PROVE  LinkNext(V, R, c, w, r, a2, W)
<1>1. /\ w \in Stage /\ r \in Stage /\ w # r /\ c \in Chan /\ c = Inbox[r]
      /\ status \in [Stage -> Status] /\ out \in [Stage -> Seq(Send)]
  BY DEF Shape, ChannelsOK
<1>2. /\ \A u \in Stage : status'[u] = status[u] \/ status'[u] = "last"
      /\ \A u \in Stage : u # t => status'[u] = status[u]
      /\ status[t] \notin {"done", "panicked"}
  BY <1>1 DEF Deliver, Gone
<1>3. NoPanic' => NoPanic /\ status' = status
  <2>1. NoPanic' => NoPanic
    BY <1>2 DEF NoPanic
  <2>2. ~Fails(t) => status' = status
    BY DEF Deliver, Fails
  <2> QED
    BY <2>1, <2>2
<1>4. CASE status'[r] # status[r]
  <2>1. status'[r] = "last" /\ ~NoPanic'
    BY <1>1, <1>2, <1>3, <1>4
  <2> QED
    BY <2>1 DEF LinkNext
<1>5. CASE status'[r] = status[r]
  <2>1. a2 = a
    BY <1>5
  <2>2. ASSUME status[r] = "run"
        PROVE  \E b \in V : Flow(V, R, c, queue'[c], out'[w], a, b) /\ (Tracked(w)' => b \in W)
    <3>1. PICK b \in V : Flow(V, R, c, queue[c], out[w], a, b) /\ (Tracked(w) => b \in W)
      BY <2>2 DEF Link
    <3>2. ~ReceiverGone(c)
      BY <1>1, <2>2, InboxOnce DEF ReceiverGone, Gone
    <3>3. out[t] \in Seq(Send) /\ \A s \in Range(out[t]) : MayEmit(t, s)
      BY <1>1 DEF SendsAreTheirs
    <3>4. t # w => \A s \in Range(out[t]) : s.to = c => Neutral(V, R, s.msg)
      BY <3>3, OthersAreNeutral
    <3>5. CASE Flow(V, R, c, queue'[c], out'[w], a, b)
      <4>1. Tracked(w)' => Tracked(w)
        BY <1>1, <1>2, <1>3 DEF Tracked
      <4> QED
        BY <3>1, <3>5, <4>1
    <3>6. CASE /\ t = w /\ status'[t] = "last" /\ Fatal(t, Head(out[t]))
               /\ ReceiverGone(Head(out[t]).to)
               /\ \E m \in V : Flow(V, R, c, queue'[c], out'[w], a, m)
      <4>1. Fails(t)
        BY <3>6 DEF Deliver, Fails
      <4>2. ~Tracked(w)'
        BY <1>3, <3>6, <4>1 DEF Tracked
      <4> QED
        BY <3>6, <4>2
    <3>7. \/ Flow(V, R, c, queue'[c], out'[w], a, b)
          \/ /\ t = w /\ status'[t] = "last" /\ Fatal(t, Head(out[t]))
             /\ ReceiverGone(Head(out[t]).to)
             /\ \E m \in V : Flow(V, R, c, queue'[c], out'[w], a, m)
      <4>1. Flows(V, R, c, w, a, b)
        BY <3>1 DEF Flows
      <4> QED
        BY <1>1, <3>2, <3>4, <4>1, FlowDelivers
    <3> QED
      BY <3>5, <3>6, <3>7
  <2>3. ASSUME Left(r)', NoPanic' PROVE Finished(c, w)' /\ a \in W
    <3>1. Left(r) /\ NoPanic /\ status' = status
      BY <1>3, <1>5, <2>3 DEF Left
    <3>2. Finished(c, w) /\ a \in W
      BY <3>1 DEF Link
    <3>3. \/ out'[w] = out[w]
          \/ out'[w] = <<>>
          \/ out[w] # <<>> /\ out'[w] = Tail(out[w])
      <4>1. /\ out[t] # <<>>
            /\ out' = [out EXCEPT ![t] = Tail(@)] \/ out' = [out EXCEPT ![t] = <<>>]
        BY DEF Deliver
      <4>2. CASE t # w
        <5>1. out'[w] = out[w]
          BY <1>1, <4>1, <4>2
        <5> QED
          BY <5>1
      <4>3. CASE t = w
        <5>1. out'[w] = Tail(out[w]) \/ out'[w] = <<>>
          BY <1>1, <4>1, <4>3
        <5> QED
          BY <4>1, <4>3, <5>1
      <4> QED
        BY <4>2, <4>3
    <3>4. out[w] \in Seq(Send)
      BY <1>1
    <3>5. \A s \in Range(out'[w]) : s \in Range(out[w])
      BY <3>3, <3>4, RangeTail, RangeEmpty
    <3> QED
      BY <3>1, <3>2, <3>5 DEF Finished
  <2> QED
    BY <1>5, <2>1, <2>2, <2>3 DEF LinkNext
<1> QED
  BY <1>4, <1>5

LEMMA LinkEnds ==
  ASSUME ChannelsOK, NEW V, NEW R, NEW c, NEW w, NEW r, Shape(V, R, c, w, r),
         NEW t \in Stage, NEW how \in {"done", "panicked"}, End(t, how), ~Gone(t),
         how = "done" => status[t] = "last" /\ out[t] = <<>>,
         NEW a, NEW W, Link(V, R, c, w, r, a, W)
  PROVE  LinkNext(V, R, c, w, r, a, W)
<1>1. /\ w \in Stage /\ r \in Stage /\ w # r /\ c \in Chan /\ c = Inbox[r]
      /\ status \in [Stage -> Status] /\ out \in [Stage -> Seq(Send)]
      /\ queue \in [Chan -> Seq(AnyMessage)] /\ Inbox[t] \in Chan
  BY Names DEF Shape, ChannelsOK
<1>2. /\ status'[t] = how /\ out'[t] = <<>>
      /\ \A u \in Stage : u # t => status'[u] = status[u] /\ out'[u] = out[u]
      /\ \A d \in Chan : d # Inbox[t] => queue'[d] = queue[d]
  BY <1>1 DEF End
<1>3. NoPanic' => NoPanic /\ how = "done"
  BY <1>2 DEF NoPanic, Gone
<1>4. ASSUME status'[r] = "run"
      PROVE  \E b \in V : Flow(V, R, c, queue'[c], out'[w], a, b) /\ (Tracked(w)' => b \in W)
  <2>1. t # r /\ status[r] = "run" /\ queue'[c] = queue[c]
    BY <1>1, <1>2, <1>4, InboxOnce
  <2>2. PICK b \in V : Flow(V, R, c, queue[c], out[w], a, b) /\ (Tracked(w) => b \in W)
    BY <2>1 DEF Link
  <2>3. CASE out'[w] = out[w]
    <3>1. Tracked(w)' => Tracked(w)
      BY <1>1, <1>2, <1>3 DEF Tracked
    <3> QED
      BY <2>1, <2>2, <2>3, <3>1
  <2>4. CASE out'[w] # out[w]
    <3>1. t = w /\ how = "panicked" /\ out'[w] = <<>>
      BY <1>1, <1>2, <2>4
    <3>2. ~Tracked(w)'
      BY <1>2, <1>3, <3>1 DEF Tracked
    <3>3. PICK m \in V : Path(V, R, queue[c], a, m)
      BY <2>2 DEF Flow
    <3>4. Flow(V, R, c, queue'[c], out'[w], a, m)
      BY <2>1, <3>1, <3>3, FlowSilent
    <3> QED
      BY <3>2, <3>4
  <2> QED
    BY <2>3, <2>4
<1>5. ASSUME Left(r)', NoPanic' PROVE Finished(c, w)' /\ a \in W
  <2>1. Left(r) /\ NoPanic /\ how = "done"
    BY <1>1, <1>2, <1>3, <1>5 DEF Left
  <2>2. Finished(c, w) /\ a \in W
    BY <2>1 DEF Link
  <2>3. out'[w] = out[w] /\ status'[w] # "run"
    BY <1>1, <1>2, <2>1, <2>2 DEF Finished
  <2> QED
    BY <2>2, <2>3 DEF Finished
<1> QED
  BY <1>4, <1>5 DEF LinkNext

LEMMA LinkElsewhere ==
  ASSUME NEW V, NEW R, NEW c, NEW w, NEW r, NEW a, NEW W, Link(V, R, c, w, r, a, W),
         UNCHANGED <<status, out>>, queue'[c] = queue[c]
  PROVE  LinkNext(V, R, c, w, r, a, W)
BY DEF Link, LinkNext, Left, NoPanic, Tracked, Finished

-----------------------------------------------------------------------------
(* What the stages send, action by action.                                 *)

Emits(t, sends) == sends \in Seq(Send) /\ \A s \in Range(sends) : MayEmit(t, s)

LEMMA EmitsNothing ==
  ASSUME NEW t
  PROVE  Emits(t, <<>>)
BY RangeEmpty DEF Emits

LEMMA EmitsOne ==
  ASSUME NEW t, NEW s \in Send, MayEmit(t, s)
  PROVE  Emits(t, <<s>>)
BY DEF Emits, Range

LEMMA EmitsMore ==
  ASSUME NEW t, NEW p, NEW q, Emits(t, p), Emits(t, q)
  PROVE  Emits(t, p \o q)
<1>1. p \in Seq(Send) /\ q \in Seq(Send)
  BY DEF Emits
<1>2. Range(p \o q) = Range(p) \cup Range(q)
  BY <1>1, RangeConcatenation
<1>3. p \o q \in Seq(Send)
  BY <1>1
<1> QED
  BY <1>2, <1>3 DEF Emits

LEMMA EmitsActs ==
  ASSUME NEW t \in Stage, NEW st \in {"run", "last"}, NEW sends, Emits(t, sends), Running(t)
  PROVE  /\ Proceed(t, st, sends) => StageActs(t, st, sends)
         /\ Takes(t, st, sends) => StageActs(t, st, sends)
         /\ queue[Inbox[t]] # <<>> /\ Handle(t, st, sends) =>
               StageActs(t, st, sends) /\ Takes(t, st, sends)
BY DEF Emits, Running, StageActs, Acts, Takes

LEMMA IngestActs ==
  ASSUME TypeOK, Ingest
  PROVE  \/ IngestEvent /\ StageActs("ingest", "run", <<To("derive", Tick)>>)
         \/ /\ IngestShutdown
            /\ StageActs("ingest", "last", FlushPending \o <<To("derive", Shutdown)>>)
         \/ /\ IngestFlush
            /\ StageActs("ingest", "run", FlushPending \o <<To("derive", Tick)>>)
         \/ IngestIdleTick /\ StageActs("ingest", "run", <<To("derive", Tick)>>)
         \/ IngestDisconnected /\ StageActs("ingest", "last", <<>>)
<1>1. /\ Emits("ingest", <<To("derive", Tick)>>)
      /\ Emits("ingest", <<To("derive", Shutdown)>>)
  <2>1. /\ To("derive", Tick) \in Send /\ To("derive", Shutdown) \in Send
        /\ To("derive", Tick).to = "derive" /\ To("derive", Shutdown).to = "derive"
    BY ToSend, PlainMessages, StageNames DEF To
  <2> QED
    BY <2>1, EmitsOne DEF MayEmit
<1>2. Emits("ingest", FlushPending)
  <2>1. FlushPending \in Seq(Send)
    BY FlushPendingType
  <2>2. \A s \in Range(FlushPending) : s.to = "derive"
    BY DEF Range, To, FlushPending
  <2> QED
    BY <2>1, <2>2 DEF Emits, MayEmit
<1>3. /\ Emits("ingest", FlushPending \o <<To("derive", Tick)>>)
      /\ Emits("ingest", FlushPending \o <<To("derive", Shutdown)>>)
      /\ Emits("ingest", <<>>)
  BY <1>1, <1>2, EmitsMore, EmitsNothing
<1>4. CASE IngestEvent
  BY <1>1, <1>4, EmitsActs, StageNames DEF IngestEvent, Receives
<1>5. CASE IngestShutdown
  BY <1>3, <1>5, EmitsActs, StageNames DEF IngestShutdown, Receives
<1>6. CASE IngestFlush
  BY <1>3, <1>6, EmitsActs, StageNames DEF IngestFlush
<1>7. CASE IngestIdleTick
  BY <1>1, <1>7, EmitsActs, StageNames DEF IngestIdleTick
<1>8. CASE IngestDisconnected
  BY <1>3, <1>8, EmitsActs, StageNames DEF IngestDisconnected
<1> QED
  BY <1>4, <1>5, <1>6, <1>7, <1>8 DEF Ingest

(* The sends of the envelope stage's actions.                              *)
UpdateOf(upd) == To("snapshot", Update(upd.hints, upd.signals, upd.focus, NoTransition))

SignalUpd == [WithFocus(work.upd, Head(work.envs)) EXCEPT !.signals = @ + 1]

HintUpd == [WithFocus(work.upd, Head(work.envs)) EXCEPT !.hints = @ + 1]

SignalSends(to) ==
  <<To("storage", EnvelopeCmd(Head(work.envs)))>> \o StateSends(SignalUpd, derive.state, to)

BatchSends ==
  <<To("compression", Process(work.batch))>>
    \o (IF work.upd = NoUpdate THEN <<>> ELSE <<UpdateOf(work.upd)>>)
    \o <<To("snapshot", Publish)>>

TickSends(to) ==
  IF to = derive.state THEN <<>>
  ELSE StateSends(NoUpdate, derive.state, to) \o <<To("snapshot", Publish)>>

ByeSends == <<To("snapshot", Shutdown), To("compression", Shutdown)>>

LEMMA PublishEmits == Emits("envelope", <<To("snapshot", Publish)>>)
<1>1. To("snapshot", Publish) \in Send
  BY ToSend, PlainMessages, StageNames
<1>2. MayEmit("envelope", To("snapshot", Publish))
  BY DEF MayEmit, To, Publish
<1> QED
  BY <1>1, <1>2, EmitsOne

LEMMA StateSendsEmits ==
  ASSUME NEW upd \in PendingUpdate, NEW from \in ActivityState, NEW to \in ActivityState
  PROVE  Emits("envelope", StateSends(upd, from, to))
<1>1. StateSends(upd, from, to) \in Seq(Send)
  BY StateSendsType
<1>2. \A s \in Range(StateSends(upd, from, to)) : MayEmit("envelope", s)
  BY RangeEmpty DEF StateSends, Range, MayEmit, To, Update
<1> QED
  BY <1>1, <1>2 DEF Emits

LEMMA TakeBatchActs ==
  ASSUME TypeOK, TakeBatch
  PROVE  StageActs("envelope", "run", <<>>) /\ Takes("envelope", "run", <<>>)
BY EmitsNothing, EmitsActs, StageNames DEF TakeBatch, Receives

LEMMA HandleHintActs ==
  ASSUME TypeOK, HandleHint
  PROVE  /\ work.envs # <<>> /\ Head(work.envs) \in Hint
         /\ work' = [work EXCEPT !.envs = Tail(@), !.upd = HintUpd]
         /\ Proceed("envelope", "run", <<To("hints", Head(work.envs))>>)
         /\ StageActs("envelope", "run", <<To("hints", Head(work.envs))>>)
<1> DEFINE env == Head(work.envs)
<1>1. /\ work.envs # <<>> /\ ~IsSignal(env) /\ Running("envelope")
      /\ work' = [work EXCEPT !.envs = Tail(@), !.upd = HintUpd]
      /\ Proceed("envelope", "run", <<To("hints", env)>>)
  BY DEF HandleHint, HintUpd
<1>2. env \in Hint
  <2>1. work.envs \in Seq(Envelope)
    BY DEF TypeOK, StagesOK, Work
  <2> QED
    BY <1>1, <2>1 DEF Hint
<1> HIDE DEF env
<1>3. To("hints", env) \in Send
  BY <1>2, ToSend, StageNames DEF Message
<1>4. MayEmit("envelope", To("hints", env))
  BY DEF MayEmit, To
<1>5. Emits("envelope", <<To("hints", env)>>)
  BY <1>3, <1>4, EmitsOne
<1>6. StageActs("envelope", "run", <<To("hints", env)>>)
  BY <1>1, <1>5, EmitsActs, StageNames
<1> QED
  BY <1>1, <1>2, <1>6 DEF env

LEMMA SignalUpdType ==
  ASSUME TypeOK, work.envs # <<>>
  PROVE  /\ Head(work.envs) \in Envelope /\ WithFocus(work.upd, Head(work.envs)) \in PendingUpdate
         /\ SignalUpd \in PendingUpdate /\ HintUpd \in PendingUpdate
<1>1. work.envs \in Seq(Envelope) /\ work.upd \in PendingUpdate
  BY DEF TypeOK, StagesOK, Work
<1>2. Head(work.envs) \in Envelope
  BY <1>1
<1>3. WithFocus(work.upd, Head(work.envs)) \in PendingUpdate
  BY <1>1, <1>2, WithFocusType
<1> QED
  BY <1>2, <1>3 DEF SignalUpd, HintUpd, PendingUpdate

LEMMA HandleSignalActs ==
  ASSUME TypeOK, HandleSignal
  PROVE  \E to \in ActivityState :
           /\ work.envs # <<>> /\ IsSignal(Head(work.envs))
           /\ derive' = [derive EXCEPT !.state = to]
           /\ work' = [work EXCEPT !.envs = Tail(@),
                          !.upd = IF to = derive.state THEN SignalUpd ELSE NoUpdate]
           /\ Proceed("envelope", "run", SignalSends(to))
           /\ StageActs("envelope", "run", SignalSends(to))
<1> DEFINE env == Head(work.envs)
           cmd == <<To("storage", EnvelopeCmd(env))>>
<1>1. work.envs # <<>> /\ IsSignal(env) /\ Running("envelope")
  BY DEF HandleSignal
<1>2. PICK to \in AfterSignal(derive.state, env.kind) :
        /\ derive' = [derive EXCEPT !.state = to]
        /\ work' = [work EXCEPT !.envs = Tail(@),
                       !.upd = IF to = derive.state THEN SignalUpd ELSE NoUpdate]
        /\ Proceed("envelope", "run", SignalSends(to))
  BY DEF HandleSignal, SignalUpd, SignalSends
<1>3. derive.state \in ActivityState
  BY DEF TypeOK, StagesOK, DeriveState
<1>4. to \in ActivityState
  BY <1>3 DEF AfterSignal, UnlockedState, ActivityState
<1>5. EnvelopeCmd(env) \in Message("storage")
  BY DEF EnvelopeCmd, IsSignal, Message, StorageMsg
<1>6. To("storage", EnvelopeCmd(env)) \in Send
  BY <1>5, ToSend, StageNames
<1>7. MayEmit("envelope", To("storage", EnvelopeCmd(env)))
  BY <1>1 DEF MayEmit, To, EnvelopeCmd
<1>8. Emits("envelope", cmd)
  BY <1>6, <1>7, EmitsOne
<1>9. Emits("envelope", StateSends(SignalUpd, derive.state, to))
  BY <1>1, <1>3, <1>4, SignalUpdType, StateSendsEmits
<1>10. Emits("envelope", SignalSends(to))
  BY <1>8, <1>9, EmitsMore DEF SignalSends
<1> HIDE DEF env, cmd
<1>11. StageActs("envelope", "run", SignalSends(to))
  BY <1>1, <1>2, <1>10, EmitsActs, StageNames
<1> QED
  BY <1>1, <1>2, <1>4, <1>11 DEF env

LEMMA FinishBatchActs ==
  ASSUME TypeOK, FinishBatch
  PROVE  Proceed("envelope", "run", BatchSends) /\ StageActs("envelope", "run", BatchSends)
<1> DEFINE job == <<To("compression", Process(work.batch))>>
           upd == IF work.upd = NoUpdate THEN <<>> ELSE <<UpdateOf(work.upd)>>
<1>1. Running("envelope") /\ Proceed("envelope", "run", BatchSends)
  BY DEF FinishBatch, BatchSends, UpdateOf
<1>2. work.batch \in Seq(RawEvent) /\ work.upd \in PendingUpdate
  BY DEF TypeOK, StagesOK, Work
<1>3. Emits("envelope", job)
  <2>1. Process(work.batch) \in Message("compression")
    BY <1>2 DEF Process, Message, CompressionMsg
  <2>2. To("compression", Process(work.batch)) \in Send
    BY <2>1, ToSend, StageNames
  <2>3. MayEmit("envelope", To("compression", Process(work.batch)))
    BY DEF MayEmit, To
  <2> QED
    BY <2>2, <2>3, EmitsOne
<1>4. Emits("envelope", <<UpdateOf(work.upd)>>)
  <2>1. /\ work.upd.hints \in Nat /\ work.upd.signals \in Nat
        /\ work.upd.focus \in OptWindow /\ NoTransition \in OptTransition
    BY <1>2 DEF PendingUpdate, OptTransition
  <2>2. UpdateOf(work.upd) \in Send
    BY <2>1, UpdateType DEF UpdateOf
  <2>3. MayEmit("envelope", UpdateOf(work.upd))
    BY DEF MayEmit, To, Update, UpdateOf
  <2> QED
    BY <2>2, <2>3, EmitsOne
<1>5. Emits("envelope", upd)
  BY <1>4, EmitsNothing
<1> HIDE DEF job, upd
<1>6. Emits("envelope", job \o upd)
  BY <1>3, <1>5, EmitsMore
<1>7. Emits("envelope", BatchSends)
  BY <1>6, PublishEmits, EmitsMore DEF BatchSends, job, upd
<1> QED
  BY <1>1, <1>7, EmitsActs, StageNames

LEMMA TakeTickActs ==
  ASSUME TypeOK, TakeTick
  PROVE  \E to \in ActivityState :
           /\ derive' = [derive EXCEPT !.state = to]
           /\ Takes("envelope", "run", TickSends(to))
           /\ StageActs("envelope", "run", TickSends(to))
<1>1. PICK to \in AfterTick(derive.state) :
        derive' = [derive EXCEPT !.state = to] /\ Handle("envelope", "run", TickSends(to))
  BY DEF TakeTick, TickSends
<1>2. derive.state \in ActivityState
  BY DEF TypeOK, StagesOK, DeriveState
<1>3. to \in ActivityState
  BY <1>2 DEF AfterTick, UnlockedState, ActivityState
<1>4. Emits("envelope", StateSends(NoUpdate, derive.state, to))
  BY <1>2, <1>3, NoWorkType, StateSendsEmits
<1>5. Emits("envelope", StateSends(NoUpdate, derive.state, to) \o <<To("snapshot", Publish)>>)
  BY <1>4, PublishEmits, EmitsMore
<1>6. Emits("envelope", TickSends(to))
  BY <1>5, EmitsNothing DEF TickSends
<1>7. queue[Inbox["envelope"]] # <<>> /\ Running("envelope")
  BY DEF TakeTick, Receives
<1> QED
  BY <1>1, <1>3, <1>6, <1>7, EmitsActs, StageNames

LEMMA TakeShutdownActs ==
  ASSUME TypeOK, TakeShutdown
  PROVE  Takes("envelope", "last", ByeSends) /\ StageActs("envelope", "last", ByeSends)
<1>1. ByeSends \in Seq(Send)
  BY ToSend, PlainMessages, StageNames DEF ByeSends
<1>2. \A s \in Range(ByeSends) : MayEmit("envelope", s)
  BY DEF Range, MayEmit, To, Shutdown, ByeSends
<1>3. Emits("envelope", ByeSends)
  BY <1>1, <1>2 DEF Emits
<1>4. /\ Running("envelope") /\ queue[Inbox["envelope"]] # <<>>
      /\ Handle("envelope", "last", ByeSends)
  BY DEF TakeShutdown, Receives, ByeSends
<1> QED
  BY <1>3, <1>4, EmitsActs, StageNames

LEMMA EnvelopeClosedActs ==
  ASSUME TypeOK, EnvelopeClosed
  PROVE  Proceed("envelope", "last", <<>>) /\ StageActs("envelope", "last", <<>>)
BY EmitsNothing, EmitsActs, StageNames DEF EnvelopeClosed

(* The stage acts, or works on its batch.                                  *)
LEMMA EnvelopeActs ==
  ASSUME TypeOK, EnvelopeStep
  PROVE  \/ (AdaptEvent \/ DeriveLock) /\ UNCHANGED <<status, queue, out>>
         \/ \E st, sends : StageActs("envelope", st, sends)
<1>1. CASE AdaptEvent \/ DeriveLock
  BY <1>1 DEF AdaptEvent, DeriveLock
<1> QED
  BY <1>1, TakeBatchActs, HandleHintActs, HandleSignalActs, FinishBatchActs, TakeTickActs,
     TakeShutdownActs, EnvelopeClosedActs DEF EnvelopeStep

(* The hints stage.                                                        *)
TheHint == Head(queue["hints"])

HintSends ==
  <<To("storage", EnvelopeCmd(TheHint))>> \o RecordSends(Completed(builder, TheHint))

LastSends == RecordSends(Finalized(builder)) \o <<To("snapshot", HintsComplete)>>

LEMMA RecordSendsEmits ==
  ASSUME NEW recs, recs = <<>> \/ recs[1] \in Record
  PROVE  Emits("hints", RecordSends(recs))
<1>1. RecordSends(recs) \in Seq(Send)
  BY RecordSendsType
<1>2. \A s \in Range(RecordSends(recs)) : MayEmit("hints", s)
  BY <1>1, RecordSendsEmit DEF Range
<1> QED
  BY <1>1, <1>2 DEF Emits

LEMMA HintsRecvActs ==
  ASSUME TypeOK, HintsRecv
  PROVE  /\ queue["hints"] # <<>> /\ TheHint \in Hint /\ Msg("hints") = TheHint
         /\ builder \in RecordBuilder /\ builder' = OnHint(builder, TheHint)
         /\ Takes("hints", "run", HintSends) /\ StageActs("hints", "run", HintSends)
<1>1. /\ queue["hints"] # <<>> /\ Running("hints")
      /\ builder' = OnHint(builder, TheHint) /\ Handle("hints", "run", HintSends)
  BY DEF HintsRecv, TheHint, HintSends
<1>2. builder \in RecordBuilder
  BY DEF TypeOK, StagesOK
<1>3. TheHint \in Hint
  <2>1. queue["hints"] \in Seq(Hint)
    BY StageNames DEF TypeOK, ChannelsOK, Message
  <2> QED
    BY <1>1, <2>1 DEF TheHint
<1>4. Completed(builder, TheHint) = <<>> \/ Completed(builder, TheHint)[1] \in Record
  BY <1>2, FinalizedType DEF Completed
<1>5. Emits("hints", RecordSends(Completed(builder, TheHint)))
  BY <1>4, RecordSendsEmits
<1>6. EnvelopeCmd(TheHint) \in Message("storage")
  BY DEF EnvelopeCmd, IsSignal, Message, StorageMsg
<1>7. To("storage", EnvelopeCmd(TheHint)) \in Send
  BY <1>6, ToSend, StageNames
<1>8. MayEmit("hints", To("storage", EnvelopeCmd(TheHint)))
  BY <1>3 DEF MayEmit, To, EnvelopeCmd, Hint
<1>9. Emits("hints", <<To("storage", EnvelopeCmd(TheHint))>>)
  BY <1>7, <1>8, EmitsOne
<1>10. Emits("hints", HintSends)
  BY <1>5, <1>9, EmitsMore DEF HintSends
<1>11. Inbox["hints"] = "hints" /\ Msg("hints") = TheHint
  BY DEF Inbox, Stage, Msg, TheHint
<1> QED
  BY <1>1, <1>2, <1>3, <1>10, <1>11, EmitsActs, StageNames

LEMMA HintsClosedActs ==
  ASSUME TypeOK, HintsClosed
  PROVE  /\ builder \in RecordBuilder /\ builder' = [builder EXCEPT !.open = FALSE]
         /\ Proceed("hints", "last", LastSends) /\ StageActs("hints", "last", LastSends)
<1>1. /\ Running("hints") /\ builder' = [builder EXCEPT !.open = FALSE]
      /\ Proceed("hints", "last", LastSends)
  BY DEF HintsClosed, LastSends
<1>2. builder \in RecordBuilder
  BY DEF TypeOK, StagesOK
<1>3. Emits("hints", RecordSends(Finalized(builder)))
  BY <1>2, FinalizedType, RecordSendsEmits
<1>4. To("snapshot", HintsComplete) \in Send /\ MayEmit("hints", To("snapshot", HintsComplete))
  BY ToSend, PlainMessages, StageNames DEF MayEmit, To, HintsComplete
<1>5. Emits("hints", LastSends)
  BY <1>3, <1>4, EmitsOne, EmitsMore DEF LastSends
<1> QED
  BY <1>1, <1>2, <1>5, EmitsActs, StageNames

(* The compression stage.                                                  *)
CompressSends(compact) ==
  RawSends(Msg("compression").events)
    \o (IF compact THEN <<To("storage", CompactEventsCmd(Len(Msg("compression").events)))>>
        ELSE <<>>)

LEMMA CompressBatchActs ==
  ASSUME TypeOK, CompressBatch
  PROVE  \E compact \in BOOLEAN :
           /\ Msg("compression") \in CompressionMsg /\ Msg("compression").kind = "Process"
           /\ rollup'.raw = rollup.raw + Len(Msg("compression").events)
           /\ Takes("compression", "run", CompressSends(compact))
           /\ StageActs("compression", "run", CompressSends(compact))
<1> DEFINE events == Msg("compression").events
           cmd == To("storage", CompactEventsCmd(Len(events)))
<1>1. /\ Running("compression") /\ queue[Inbox["compression"]] # <<>>
      /\ Msg("compression").kind = "Process"
  BY DEF CompressBatch, Receives, Msg
<1>2. Msg("compression") \in CompressionMsg
  BY <1>1, HeadType, StageNames DEF Inbox, Message, TypeOK
<1>3. events \in Seq(RawEvent)
  BY <1>1, <1>2 DEF CompressionMsg, Shutdown
<1>4. RawSends(events) \in Seq(Send) /\ Len(events) \in Nat
  BY <1>3, RawSendsType
<1>5. CompactEventsCmd(Len(events)) \in StorageMsg
  BY <1>4 DEF CompactEventsCmd, StorageMsg
<1>6. cmd \in Send /\ MayEmit("compression", cmd)
  BY <1>5, ToSend, StageNames DEF Message, MayEmit, To, CompactEventsCmd
<1>7. \A s \in Range(RawSends(events)) : MayEmit("compression", s)
  <2>1. CASE ~PersistRaw
    BY <2>1, RangeEmpty DEF RawSends
  <2>2. CASE PersistRaw
    <3>1. \A i \in 1..Len(events) :
             MayEmit("compression", To("storage", RawEventCmd(events[i])))
      BY DEF MayEmit, To, RawEventCmd
    <3>2. RawSends(events) =
            [i \in 1..Len(events) |-> To("storage", RawEventCmd(events[i]))]
      BY <2>2 DEF RawSends
    <3> QED
      BY <3>1, <3>2 DEF Range
  <2> QED
    BY <2>1, <2>2
<1>8. PICK compact \in BOOLEAN :
        /\ rollup' = [raw |-> rollup.raw + Len(events),
                      compact |-> rollup.compact + (IF compact THEN 1 ELSE 0)]
        /\ Handle("compression", "run", CompressSends(compact))
  BY DEF CompressBatch, CompressSends
<1>9. rollup'.raw = rollup.raw + Len(events)
  BY <1>8
<1> HIDE DEF events, cmd
<1>10. Emits("compression", RawSends(events))
  BY <1>4, <1>7 DEF Emits
<1>11. Emits("compression", IF compact THEN <<cmd>> ELSE <<>>)
  BY <1>6, EmitsOne, EmitsNothing
<1>12. Emits("compression", CompressSends(compact))
  BY <1>10, <1>11, EmitsMore DEF CompressSends, events, cmd
<1>13. /\ Takes("compression", "run", CompressSends(compact))
       /\ StageActs("compression", "run", CompressSends(compact))
  BY <1>1, <1>8, <1>12, EmitsActs, StageNames
<1> QED
  BY <1>1, <1>2, <1>9, <1>13 DEF events

LEMMA CompressionLeaves ==
  ASSUME TypeOK, CompressionShutdown \/ CompressionClosed
  PROVE  StageActs("compression", "last", <<>>)
BY EmitsNothing, EmitsActs, StageNames DEF CompressionShutdown, CompressionClosed, Receives

LEMMA CompressionActs ==
  ASSUME TypeOK, Compression
  PROVE  \E st, sends : StageActs("compression", st, sends)
BY CompressBatchActs, CompressionLeaves DEF Compression

(* The snapshot stage.                                                     *)
UpdateSends(tr) == IF tr = NoTransition THEN <<>> ELSE <<To("storage", TransitionCmd(tr))>>

LEMMA SnapMessage ==
  ASSUME TypeOK, queue[Inbox["snapshot"]] # <<>>
  PROVE  Msg("snapshot") \in SnapshotMsg
BY HeadType, StageNames DEF Inbox, Message, TypeOK

LEMMA StorageByeEmits == Emits("snapshot", <<To("storage", Shutdown)>>)
<1>1. To("storage", Shutdown) \in Send /\ MayEmit("snapshot", To("storage", Shutdown))
  BY ToSend, PlainMessages, StageNames DEF MayEmit, To, Shutdown
<1> QED
  BY <1>1, EmitsOne

LEMMA SnapUpdateActs ==
  ASSUME TypeOK, SnapUpdate
  PROVE  /\ Msg("snapshot") \in SnapshotMsg /\ Msg("snapshot").kind = "Update"
         /\ Takes("snapshot", "run", UpdateSends(Msg("snapshot").tr))
         /\ StageActs("snapshot", "run", UpdateSends(Msg("snapshot").tr))
<1> DEFINE u == Msg("snapshot")
<1>1. /\ Running("snapshot") /\ queue[Inbox["snapshot"]] # <<>> /\ u.kind = "Update"
      /\ Handle("snapshot", "run", UpdateSends(u.tr))
  BY DEF SnapUpdate, Receives, Msg, UpdateSends
<1>2. u \in SnapshotMsg
  BY <1>1, SnapMessage
<1> HIDE DEF u
<1>3. u.tr \in OptTransition
  BY <1>1, <1>2 DEF SnapshotMsg, Publish, HintsComplete, Shutdown
<1>4. Emits("snapshot", UpdateSends(u.tr))
  <2>1. CASE u.tr = NoTransition
    BY <2>1, EmitsNothing DEF UpdateSends
  <2>2. CASE u.tr # NoTransition
    <3>1. TransitionCmd(u.tr) \in Message("storage")
      BY <1>3, <2>2 DEF OptTransition, TransitionCmd, Message, StorageMsg
    <3>2. To("storage", TransitionCmd(u.tr)) \in Send
      BY <3>1, ToSend, StageNames
    <3>3. MayEmit("snapshot", To("storage", TransitionCmd(u.tr)))
      BY DEF MayEmit, To, TransitionCmd
    <3>4. Emits("snapshot", <<To("storage", TransitionCmd(u.tr))>>)
      BY <3>2, <3>3, EmitsOne
    <3> QED
      BY <2>2, <3>4 DEF UpdateSends
  <2> QED
    BY <2>1, <2>2
<1>5. /\ Takes("snapshot", "run", UpdateSends(u.tr))
      /\ StageActs("snapshot", "run", UpdateSends(u.tr))
  BY <1>1, <1>4, EmitsActs, StageNames
<1> QED
  BY <1>1, <1>2, <1>5 DEF u

LEMMA SnapPlainActs ==
  ASSUME TypeOK, SnapRecord \/ SnapPublish
  PROVE  /\ Msg("snapshot") \in SnapshotMsg
         /\ SnapRecord => Msg("snapshot").kind = "Record"
         /\ SnapPublish => Msg("snapshot").kind = "Publish"
         /\ Takes("snapshot", "run", <<>>) /\ StageActs("snapshot", "run", <<>>)
BY SnapMessage, EmitsNothing, EmitsActs, StageNames DEF SnapRecord, SnapPublish, Receives, Msg

(* HintsComplete and Shutdown: s is the stage's new state.                 *)
LEMMA FinalizeActs ==
  ASSUME TypeOK, SnapHintsComplete \/ SnapShutdown
  PROVE  \E s :
           /\ \/ /\ s = [snap EXCEPT !.hints_complete = TRUE]
                 /\ Msg("snapshot").kind = "HintsComplete"
              \/ /\ s = [snap EXCEPT !.shutdown_requested = TRUE]
                 /\ Msg("snapshot").kind = "Shutdown"
           /\ snap' = s
           /\ Msg("snapshot") \in SnapshotMsg
           /\ \/ /\ MayFinalize(s) /\ PublishSnapshot(s)
                 /\ Takes("snapshot", "last", <<To("storage", Shutdown)>>)
                 /\ StageActs("snapshot", "last", <<To("storage", Shutdown)>>)
              \/ /\ ~MayFinalize(s) /\ bus' = bus
                 /\ Takes("snapshot", "run", <<>>) /\ StageActs("snapshot", "run", <<>>)
<1>1. Running("snapshot") /\ queue[Inbox["snapshot"]] # <<>>
  BY DEF SnapHintsComplete, SnapShutdown, Receives
<1>2. PICK s :
        /\ \/ s = [snap EXCEPT !.hints_complete = TRUE] /\ Msg("snapshot").kind = "HintsComplete"
           \/ s = [snap EXCEPT !.shutdown_requested = TRUE] /\ Msg("snapshot").kind = "Shutdown"
        /\ Finalize(s)
  BY DEF SnapHintsComplete, SnapShutdown, Receives, Msg
<1>3. Msg("snapshot") \in SnapshotMsg
  BY <1>1, SnapMessage
<1>4. \/ /\ MayFinalize(s) /\ PublishSnapshot(s)
         /\ Takes("snapshot", "last", <<To("storage", Shutdown)>>)
         /\ StageActs("snapshot", "last", <<To("storage", Shutdown)>>)
      \/ /\ ~MayFinalize(s) /\ bus' = bus
         /\ Takes("snapshot", "run", <<>>) /\ StageActs("snapshot", "run", <<>>)
  <2>1. CASE MayFinalize(s)
    <3>1. PublishSnapshot(s) /\ Handle("snapshot", "last", <<To("storage", Shutdown)>>)
      BY <1>2, <2>1 DEF Finalize
    <3> QED
      BY <1>1, <2>1, <3>1, StorageByeEmits, EmitsActs, StageNames
  <2>2. CASE ~MayFinalize(s)
    <3>1. bus' = bus /\ Handle("snapshot", "run", <<>>)
      BY <1>2, <2>2 DEF Finalize
    <3> QED
      BY <1>1, <2>2, <3>1, EmitsNothing, EmitsActs, StageNames
  <2> QED
    BY <2>1, <2>2
<1>5. snap' = s
  BY <1>2 DEF Finalize
<1> QED
  BY <1>2, <1>3, <1>4, <1>5

LEMMA SnapClosedActs ==
  ASSUME TypeOK, SnapClosed
  PROVE  /\ Proceed("snapshot", "last", <<To("storage", Shutdown)>>)
         /\ StageActs("snapshot", "last", <<To("storage", Shutdown)>>)
BY StorageByeEmits, EmitsActs, StageNames DEF SnapClosed

LEMMA SnapshotActs ==
  ASSUME TypeOK, SnapshotStep
  PROVE  \E st, sends : StageActs("snapshot", st, sends)
BY SnapUpdateActs, SnapPlainActs, FinalizeActs, SnapClosedActs DEF SnapshotStep

(* The storage stage.                                                      *)
LEMMA StoreActs ==
  ASSUME TypeOK, Storage
  PROVE  \/ /\ StoreCommand /\ Msg("storage") \in StorageMsg /\ Msg("storage").kind # "Shutdown"
            /\ stored' = Add(stored, Msg("storage"))
            /\ Takes("storage", "run", <<>>) /\ StageActs("storage", "run", <<>>)
         \/ /\ StoreShutdown /\ Msg("storage").kind = "Shutdown"
            /\ stored' = stored
            /\ Takes("storage", "last", <<>>) /\ StageActs("storage", "last", <<>>)
         \/ /\ StoreClosed /\ stored' = stored
            /\ Proceed("storage", "last", <<>>) /\ StageActs("storage", "last", <<>>)
<1>1. Inbox["storage"] = "storage"
  BY DEF Inbox, Stage
<1>2. CASE StoreCommand
  <2>1. /\ Running("storage") /\ queue["storage"] # <<>>
        /\ Msg("storage").kind # "Shutdown"
        /\ stored' = Add(stored, Msg("storage")) /\ Handle("storage", "run", <<>>)
    BY <1>1, <1>2 DEF StoreCommand, Msg
  <2>2. Msg("storage") \in StorageMsg
    BY <1>1, <2>1, HeadType, StageNames DEF Message, TypeOK
  <2> QED
    BY <1>1, <1>2, <2>1, <2>2, EmitsNothing, EmitsActs, StageNames
<1>3. CASE StoreShutdown
  BY <1>3, EmitsNothing, EmitsActs, StageNames DEF StoreShutdown, Receives, Msg
<1>4. CASE StoreClosed
  BY <1>4, EmitsNothing, EmitsActs, StageNames DEF StoreClosed
<1> QED
  BY <1>2, <1>3, <1>4 DEF Storage

-----------------------------------------------------------------------------
(* The eight links have the shape of a link.                               *)

LEMMA Inboxes ==
  /\ Inbox["ingest"] = "events" /\ Inbox["envelope"] = "derive" /\ Inbox["hints"] = "hints"
  /\ Inbox["compression"] = "compression" /\ Inbox["snapshot"] = "snapshot"
  /\ Inbox["storage"] = "storage"
BY DEF Inbox, Stage

LEMMA SentMessage ==
  ASSUME NEW s \in Send
  PROVE  /\ s.to = "derive" => s.msg \in DeriveMsg
         /\ s.to = "hints" => s.msg \in Hint
         /\ s.to = "compression" => s.msg \in CompressionMsg
         /\ s.to = "snapshot" => s.msg \in SnapshotMsg
         /\ s.to = "storage" => s.msg \in StorageMsg
BY DEF Send

LEMMA RawShape == Shape(Raw, RawStep, "derive", "ingest", "envelope")
BY Inboxes, StageNames DEF Shape, MayEmit

LEMMA CompressShape == Shape(Raw, CompressStep, "compression", "envelope", "compression")
BY Inboxes, StageNames DEF Shape, MayEmit

LEMMA HintShape == Shape(View, HintStep, "hints", "envelope", "hints")
BY Inboxes, StageNames DEF Shape, MayEmit

LEMMA SeenShape == Shape(Seen, SeenStep, "snapshot", "envelope", "snapshot")
<1>1. ASSUME NEW t \in Stage, NEW s \in Send, t # "envelope", MayEmit(t, s), s.to = "snapshot"
      PROVE  Neutral(Seen, SeenStep, s.msg)
  <2>1. s.msg \in SnapshotMsg /\ s.msg.kind \in {"Record", "HintsComplete"}
    BY <1>1, SentMessage DEF MayEmit
  <2> QED
    BY <2>1 DEF Neutral, SeenStep
<1> QED
  BY <1>1, Inboxes, StageNames DEF Shape

LEMMA TallyShape == Shape(Tally, TallyStep, "snapshot", "hints", "snapshot")
<1>1. ASSUME NEW t \in Stage, NEW s \in Send, t # "hints", MayEmit(t, s), s.to = "snapshot"
      PROVE  Neutral(Tally, TallyStep, s.msg)
  <2>1. s.msg \in SnapshotMsg /\ s.msg.kind \in {"Update", "Publish", "Shutdown"}
    BY <1>1, SentMessage DEF MayEmit
  <2> QED
    BY <2>1 DEF Neutral, TallyStep
<1> QED
  BY <1>1, Inboxes, StageNames DEF Shape

LEMMA KeptShape == Shape(Kept, KeptStep, "storage", "hints", "storage")
<1>1. ASSUME NEW t \in Stage, NEW s \in Send, t # "hints", MayEmit(t, s), s.to = "storage"
      PROVE  Neutral(Kept, KeptStep, s.msg)
  <2>1. /\ s.msg \in StorageMsg
        /\ \/ s.msg.kind = "Envelope" /\ s.msg.signal
           \/ s.msg.kind \notin {"Record", "Envelope"}
    BY <1>1, SentMessage DEF MayEmit
  <2> QED
    BY <2>1 DEF Neutral, KeptStep
<1> QED
  BY <1>1, Inboxes, StageNames DEF Shape

LEMMA SignalShape == Shape(Nat, SignalStep, "storage", "envelope", "storage")
<1>1. ASSUME NEW t \in Stage, NEW s \in Send, t # "envelope", MayEmit(t, s), s.to = "storage"
      PROVE  Neutral(Nat, SignalStep, s.msg)
  <2>1. /\ s.msg \in StorageMsg
        /\ \/ s.msg.kind = "Envelope" /\ ~s.msg.signal
           \/ s.msg.kind # "Envelope"
    BY <1>1, SentMessage DEF MayEmit
  <2> QED
    BY <2>1 DEF Neutral, SignalStep
<1> QED
  BY <1>1, Inboxes, StageNames DEF Shape

LEMMA CourseShape == Shape(Course, CourseStep, "storage", "snapshot", "storage")
<1>1. ASSUME NEW t \in Stage, NEW s \in Send, t # "snapshot", MayEmit(t, s), s.to = "storage"
      PROVE  Neutral(Course, CourseStep, s.msg)
  <2>1. s.msg \in StorageMsg /\ s.msg.kind # "Transition"
    BY <1>1, SentMessage DEF MayEmit
  <2> QED
    BY <2>1 DEF Neutral, CourseStep
<1> QED
  BY <1>1, Inboxes, StageNames DEF Shape

-----------------------------------------------------------------------------
(* Steps of no concern to a link from w to r: of other stages, deliveries, *)
(* ends of threads, and steps that leave the threads alone.                *)

Ends(t, how) ==
  /\ End(t, how) /\ ~Gone(t) /\ how \in {"done", "panicked"}
  /\ how = "done" => status[t] = "last" /\ out[t] = <<>>

Aside == UNCHANGED <<status, out>> /\ \A c \in Chan : c # "events" => queue'[c] = queue[c]

Quiet(w, r) ==
  \/ \E t, st, sends : StageActs(t, st, sends) /\ t # w /\ t # r
  \/ \E t \in Stage : Deliver(t) /\ (NoPanic => ~Fails(t))
  \/ \E t \in Stage : \E how : Ends(t, how)
  \/ Aside

LEMMA QuietStatus ==
  ASSUME ChannelsOK, NEW w, NEW r, Quiet(w, r)
  PROVE  \A u \in Stage : status'[u] = "run" => status[u] = "run"
<1>1. ASSUME NEW t, NEW st, NEW sends, StageActs(t, st, sends)
      PROVE  \A u \in Stage : status'[u] = "run" => status[u] = "run"
  BY <1>1, ActsStatus
<1>2. status \in [Stage -> Status]
  BY DEF ChannelsOK
<1>3. ASSUME NEW t \in Stage, Deliver(t)
      PROVE  \A u \in Stage : status'[u] = "run" => status[u] = "run"
  BY <1>2, <1>3 DEF Deliver
<1>4. ASSUME NEW t \in Stage, NEW how, Ends(t, how)
      PROVE  \A u \in Stage : status'[u] = "run" => status[u] = "run"
  BY <1>2, <1>4 DEF Ends, End
<1>5. Aside => \A u \in Stage : status'[u] = "run" => status[u] = "run"
  BY DEF Aside
<1> QED
  BY <1>1, <1>3, <1>4, <1>5 DEF Quiet

LEMMA LinkQuiet ==
  ASSUME ChannelsOK, SendsAreTheirs, NEW V, NEW R, NEW c, NEW w, NEW r, Shape(V, R, c, w, r),
         c # "events", Quiet(w, r), NEW a, NEW a2, NEW W, NEW W2, Link(V, R, c, w, r, a, W),
         (status[r] = "run" <=> status'[r] = "run") => a2 = a, W \subseteq W2
  PROVE  LinkNext(V, R, c, w, r, a2, W2)
<1>1. w \in Stage /\ r \in Stage /\ w # r /\ c \in Chan
  BY DEF Shape
<1>2. ASSUME NEW t, NEW st, NEW sends, StageActs(t, st, sends), t # w, t # r
      PROVE  LinkNext(V, R, c, w, r, a2, W)
  <2>1. status'[r] = status[r]
    BY <1>1, <1>2, ActsStatus
  <2>2. LinkNext(V, R, c, w, r, a, W)
    BY <1>2, LinkBystander
  <2> QED
    BY <2>1, <2>2
<1>3. ASSUME NEW t \in Stage, Deliver(t), NoPanic => ~Fails(t)
      PROVE  LinkNext(V, R, c, w, r, a2, W)
  BY <1>3, LinkDelivers
<1>4. ASSUME NEW t \in Stage, NEW how, Ends(t, how)
      PROVE  LinkNext(V, R, c, w, r, a2, W)
  <2>1. LinkNext(V, R, c, w, r, a, W)
    BY <1>4, LinkEnds DEF Ends
  <2>2. status \in [Stage -> Status] /\ status' = [status EXCEPT ![t] = how]
        /\ how \in {"done", "panicked"} /\ (how = "done" => status[t] = "last")
    BY <1>4 DEF Ends, End, ChannelsOK
  <2>3. CASE status[r] = "run" <=> status'[r] = "run"
    BY <2>1, <2>3
  <2>4. CASE ~(status[r] = "run" <=> status'[r] = "run")
    <3>1. status'[r] = "panicked"
      BY <1>1, <2>2, <2>4
    <3> QED
      BY <3>1 DEF LinkNext, Left
  <2> QED
    BY <2>3, <2>4
<1>5. ASSUME Aside PROVE LinkNext(V, R, c, w, r, a2, W)
  <2>1. a2 = a /\ UNCHANGED <<status, out>> /\ queue'[c] = queue[c]
    BY <1>1, <1>5 DEF Aside
  <2> QED
    BY <2>1, LinkElsewhere
<1> QED
  BY <1>2, <1>3, <1>4, <1>5, LinkWeaken DEF Quiet

LEMMA RawQuiet ==
  ASSUME ChannelsOK, SendsAreTheirs, NEW rr \in Nat, RawLink(rr), Quiet("ingest", "envelope"),
         UNCHANGED <<pending, event_count>>
  PROVE  RawLink(rr)'
<1>1. (status["envelope"] = "run" <=> status'["envelope"] = "run") => RawTaken(rr)' = RawTaken(rr)
  BY DEF RawTaken, PhaseOf
<1>2. RawSent \subseteq RawSent'
  BY QuietStatus, StageNames DEF RawSent
<1>3. PICK a2, W2 : a2 = RawTaken(rr)' /\ W2 = RawSent'
  OBVIOUS
<1>4. LinkNext(Raw, RawStep, "derive", "ingest", "envelope", a2, W2)
  BY <1>1, <1>2, <1>3, RawShape, LinkQuiet DEF RawLink
<1> QED
  BY <1>3, <1>4 DEF RawLink, Link, LinkNext

LEMMA CompressQuiet ==
  ASSUME ChannelsOK, SendsAreTheirs, NEW rr \in Nat, CompressLink(rr), Quiet("envelope", "compression"),
         UNCHANGED <<rollup, work>>
  PROVE  CompressLink(rr)'
<1>1. (status["compression"] = "run" <=> status'["compression"] = "run") => (CompressTaken)' = CompressTaken
  BY DEF CompressTaken, PhaseOf
<1>2. CompressSent(rr) \subseteq (CompressSent(rr))'
  BY QuietStatus, StageNames DEF CompressSent
<1>3. PICK a2, W2 : a2 = (CompressTaken)' /\ W2 = (CompressSent(rr))'
  OBVIOUS
<1>4. LinkNext(Raw, CompressStep, "compression", "envelope", "compression", a2, W2)
  BY <1>1, <1>2, <1>3, CompressShape, LinkQuiet DEF CompressLink
<1> QED
  BY <1>3, <1>4 DEF CompressLink, Link, LinkNext

LEMMA HintQuiet ==
  ASSUME ChannelsOK, SendsAreTheirs, NEW hh \in Nat, NEW hin \in Nat, HintLink(hh, hin), Quiet("envelope", "hints"),
         UNCHANGED <<builder, work, derive>>
  PROVE  HintLink(hh, hin)'
<1>1. (HintTaken(hh))' = HintTaken(hh)
  BY DEF HintTaken
<1>2. HintSent(hin) \subseteq (HintSent(hin))'
  BY DEF HintSent, Reported
<1>3. PICK a2, W2 : a2 = (HintTaken(hh))' /\ W2 = (HintSent(hin))'
  OBVIOUS
<1>4. LinkNext(View, HintStep, "hints", "envelope", "hints", a2, W2)
  BY <1>1, <1>2, <1>3, HintShape, LinkQuiet DEF HintLink
<1> QED
  BY <1>3, <1>4 DEF HintLink, Link, LinkNext

LEMMA SeenQuiet ==
  ASSUME ChannelsOK, SendsAreTheirs, NEW sig \in Nat, NEW hin \in Nat, SeenLink(sig, hin), Quiet("envelope", "snapshot"),
         UNCHANGED <<snap, work, derive>>
  PROVE  SeenLink(sig, hin)'
<1>1. (SeenTaken)' = SeenTaken
  BY DEF SeenTaken, PhaseOf
<1>2. SeenSent(sig, hin) \subseteq (SeenSent(sig, hin))'
  BY QuietStatus, StageNames DEF SeenSent, Reported
<1>3. PICK a2, W2 : a2 = (SeenTaken)' /\ W2 = (SeenSent(sig, hin))'
  OBVIOUS
<1>4. LinkNext(Seen, SeenStep, "snapshot", "envelope", "snapshot", a2, W2)
  BY <1>1, <1>2, <1>3, SeenShape, LinkQuiet DEF SeenLink
<1> QED
  BY <1>3, <1>4 DEF SeenLink, Link, LinkNext

LEMMA TallyQuiet ==
  ASSUME ChannelsOK, SendsAreTheirs, TallyLink, Quiet("hints", "snapshot"),
         UNCHANGED <<snap, builder>>
  PROVE  TallyLink'
<1>1. (TallyTaken)' = TallyTaken
  BY DEF TallyTaken, PhaseOf
<1>2. TallySent \subseteq (TallySent)'
  BY QuietStatus, StageNames DEF TallySent, Ended
<1>3. PICK a2, W2 : a2 = (TallyTaken)' /\ W2 = (TallySent)'
  OBVIOUS
<1>4. LinkNext(Tally, TallyStep, "snapshot", "hints", "snapshot", a2, W2)
  BY <1>1, <1>2, <1>3, TallyShape, LinkQuiet DEF TallyLink
<1> QED
  BY <1>3, <1>4 DEF TallyLink, Link, LinkNext

LEMMA KeptQuiet ==
  ASSUME ChannelsOK, SendsAreTheirs, NEW hh \in Nat, KeptLink(hh), Quiet("hints", "storage"),
         UNCHANGED <<stored, builder>>
  PROVE  KeptLink(hh)'
<1>1. (KeptTaken)' = KeptTaken
  BY DEF KeptTaken
<1>2. KeptSent(hh) \subseteq (KeptSent(hh))'
  BY DEF KeptSent, Ended
<1>3. PICK a2, W2 : a2 = (KeptTaken)' /\ W2 = (KeptSent(hh))'
  OBVIOUS
<1>4. LinkNext(Kept, KeptStep, "storage", "hints", "storage", a2, W2)
  BY <1>1, <1>2, <1>3, KeptShape, LinkQuiet DEF KeptLink
<1> QED
  BY <1>3, <1>4 DEF KeptLink, Link, LinkNext

LEMMA SignalQuiet ==
  ASSUME ChannelsOK, SendsAreTheirs, NEW sig \in Nat, SignalLink(sig), Quiet("envelope", "storage"),
         UNCHANGED stored
  PROVE  SignalLink(sig)'
<1>1. (stored.signals)' = stored.signals
  OBVIOUS
<1>2. {sig} \subseteq ({sig})'
  OBVIOUS
<1>3. PICK a2, W2 : a2 = (stored.signals)' /\ W2 = ({sig})'
  OBVIOUS
<1>4. LinkNext(Nat, SignalStep, "storage", "envelope", "storage", a2, W2)
  BY <1>1, <1>2, <1>3, SignalShape, LinkQuiet DEF SignalLink
<1> QED
  BY <1>3, <1>4 DEF SignalLink, Link, LinkNext

LEMMA CourseQuiet ==
  ASSUME ChannelsOK, SendsAreTheirs, CourseLink, Quiet("snapshot", "storage"),
         UNCHANGED <<stored, snap, bus>>
  PROVE  CourseLink'
<1>1. (CourseTaken)' = CourseTaken
  BY DEF CourseTaken
<1>2. CourseSent \subseteq (CourseSent)'
  BY DEF CourseSent
<1>3. PICK a2, W2 : a2 = (CourseTaken)' /\ W2 = (CourseSent)'
  OBVIOUS
<1>4. LinkNext(Course, CourseStep, "storage", "snapshot", "storage", a2, W2)
  BY <1>1, <1>2, <1>3, CourseShape, LinkQuiet DEF CourseLink
<1> QED
  BY <1>3, <1>4 DEF CourseLink, Link, LinkNext

-----------------------------------------------------------------------------
(* Paths of sends, and what can be said when a reader leaves its loop.     *)

LEMMA SentHere ==
  ASSUME NEW V, NEW R, NEW c, NEW u \in V, NEW v \in V, NEW s \in Send, s.to = c,
         <<u, s.msg, v>> \in R
  PROVE  Path(V, Sent(V, R, c), <<s>>, u, v)
<1>1. <<u, s, v>> \in Sent(V, R, c)
  BY DEF Sent
<1> QED
  BY <1>1, PathOne

LEMMA SentThere ==
  ASSUME NEW V, NEW R, NEW c, NEW u \in V, NEW sends \in Seq(Send),
         \A i \in 1..Len(sends) : sends[i].to # c
  PROVE  Path(V, Sent(V, R, c), sends, u, u)
<1>1. ASSUME NEW i \in 1..Len(sends)
      PROVE  Neutral(V, Sent(V, R, c), sends[i])
  <2>1. sends[i] \in Send /\ sends[i].to # c
    OBVIOUS
  <2>2. ASSUME NEW v \in V PROVE <<v, sends[i], v>> \in Sent(V, R, c)
    BY <2>1 DEF Sent
  <2> QED
    BY <2>2 DEF Neutral
<1> QED
  BY <1>1, PathNeutral

LEMMA SentThereOne ==
  ASSUME NEW V, NEW R, NEW c, NEW u \in V, NEW s \in Send, s.to # c
  PROVE  Path(V, Sent(V, R, c), <<s>>, u, u)
<1>1. <<u, s, u>> \in Sent(V, R, c)
  BY DEF Sent
<1> QED
  BY <1>1, PathOne

(* From a value that no message changes, a path leads nowhere.             *)
LEMMA PathStuck ==
  ASSUME NEW V, NEW R, NEW S, NEW q \in Seq(S), NEW a, NEW b, Path(V, R, q, a, b),
         \A i \in 1..Len(q) : \A v \in V : <<a, q[i], v>> \in R => v = a
  PROVE  a = b /\ \A i \in 1..Len(q) : <<a, q[i], a>> \in R
<1> PICK f \in [0..Len(q) -> V] :
      f[0] = a /\ f[Len(q)] = b /\ \A i \in 1..Len(q) : <<f[i - 1], q[i], f[i]>> \in R
  BY DEF Path
<1> DEFINE T == {i \in Nat : i \in 0..Len(q) => f[i] = a}
<1>1. 0 \in T /\ Len(q) \in Nat
  OBVIOUS
<1>2. ASSUME NEW n \in Nat, n \in T PROVE n + 1 \in T
  <2> SUFFICES ASSUME n + 1 \in 0..Len(q) PROVE f[n + 1] = a
    OBVIOUS
  <2>1. n + 1 \in 1..Len(q) /\ n \in 0..Len(q) /\ (n + 1) - 1 = n
    BY <1>1
  <2>2. f[n] = a /\ f[n + 1] \in V
    BY <1>2, <2>1
  <2>3. <<f[n], q[n + 1], f[n + 1]>> \in R
    BY <2>1
  <2> QED
    BY <2>1, <2>2, <2>3
<1> HIDE DEF T
<1>3. Nat \subseteq T
  BY <1>1, <1>2, Induction
<1>4. \A i \in 0..Len(q) : f[i] = a
  BY <1>1, <1>3 DEF T
<1>5. ASSUME NEW i \in 1..Len(q) PROVE <<a, q[i], a>> \in R
  <2>1. i - 1 \in 0..Len(q) /\ i \in 0..Len(q)
    BY <1>1
  <2> QED
    BY <1>4, <2>1
<1> QED
  BY <1>1, <1>4, <1>5

Stuck(V, R, a) == \A m : \A v \in V : <<a, m, v>> \in R => v = a

LEMMA FlowStuck ==
  ASSUME NEW V, NEW R, NEW c, NEW S, NEW q \in Seq(S), NEW o \in Seq(Send), NEW a, NEW b,
         Flow(V, R, c, q, o, a, b), Stuck(V, R, a)
  PROVE  b = a /\ \A s \in Range(o) : s.to = c => <<a, s.msg, a>> \in R
<1> PICK m \in V : Path(V, R, q, a, m) /\ Path(V, Sent(V, R, c), o, m, b)
  BY DEF Flow
<1>1. m = a
  BY PathStuck DEF Stuck
<1>2. \A i \in 1..Len(o) : \A v \in V : <<a, o[i], v>> \in Sent(V, R, c) => v = a
  BY DEF Sent, Stuck
<1>3. b = a /\ \A i \in 1..Len(o) : <<a, o[i], a>> \in Sent(V, R, c)
  BY <1>1, <1>2, PathStuck
<1>4. ASSUME NEW s \in Range(o), s.to = c PROVE <<a, s.msg, a>> \in R
  <2>1. PICK i \in 1..Len(o) : s = o[i]
    BY DEF Range
  <2>2. <<a, s, a>> \in Sent(V, R, c)
    BY <1>3, <2>1
  <2> QED
    BY <1>4, <2>2 DEF Sent
<1> QED
  BY <1>3, <1>4

(* The next message of a link, when nothing has panicked.                  *)
LEMMA LinkTaken ==
  ASSUME ChannelsOK, NEW V, NEW R, NEW c, NEW w, NEW r, Shape(V, R, c, w, r),
         NEW a, NEW W, Link(V, R, c, w, r, a, W), status[r] = "run", queue[c] # <<>>, NoPanic
  PROVE  \E b \in V, d \in V : /\ b \in W /\ <<a, Head(queue[c]), d>> \in R
                               /\ Flow(V, R, c, Tail(queue[c]), out[w], d, b)
<1>1. queue[c] \in Seq(AnyMessage)
  BY DEF ChannelsOK, Shape
<1>2. PICK b \in V : Flow(V, R, c, queue[c], out[w], a, b) /\ b \in W
  BY DEF Link, Tracked
<1>3. \E d \in V : <<a, Head(queue[c]), d>> \in R /\ Flow(V, R, c, Tail(queue[c]), out[w], d, b)
  BY <1>1, <1>2, FlowReads
<1> QED
  BY <1>2, <1>3

LEMMA LinkDry ==
  ASSUME ChannelsOK, NEW V, NEW R, NEW c, NEW w, NEW r, NEW a, NEW W,
         Link(V, R, c, w, r, a, W), status[r] = "run", queue[c] = <<>>, out[w] = <<>>, NoPanic
  PROVE  a \in V /\ a \in W
<1>1. PICK b \in V : Flow(V, R, c, queue[c], out[w], a, b) /\ b \in W
  BY DEF Link, Tracked
<1> QED
  BY <1>1, FlowEmpty

-----------------------------------------------------------------------------
(* derive: what ingest flushes is what the envelope stage takes.           *)

LEMMA RawWrites ==
  ASSUME TypeOK, NEW rr \in Nat, RawLink(rr), NEW st, NEW sends, StageActs("ingest", st, sends),
         \A b \in Raw : b \in RawSent =>
            \E d \in Raw : d \in RawSent' /\ Path(Raw, Sent(Raw, RawStep, "derive"), sends, b, d)
  PROVE  RawLink(rr)'
<1>1. ChannelsOK
  BY DEF TypeOK
<1>2. status'["envelope"] = status["envelope"]
  BY <1>1, ActsStatus, StageNames
<1>3. RawTaken(rr)' = RawTaken(rr)
  BY <1>2 DEF RawTaken, PhaseOf
<1>4. PICK a2, W2 : a2 = RawTaken(rr)' /\ W2 = RawSent'
  OBVIOUS
<1>5. LinkNext(Raw, RawStep, "derive", "ingest", "envelope", a2, W2)
  BY <1>1, <1>3, <1>4, RawShape, LinkWrites DEF RawLink
<1> QED
  BY <1>4, <1>5 DEF RawLink, Link, LinkNext

LEMMA RawPaths ==
  ASSUME TypeOK, NEW b \in Raw, b.phase = "open"
  PROVE  LET P(sends, d) == Path(Raw, Sent(Raw, RawStep, "derive"), sends, b, d)
         IN /\ P(<<>>, b)
            /\ P(<<To("derive", Tick)>>, b)
            /\ P(<<To("derive", Shutdown)>>, [raw |-> b.raw, phase |-> "closed"])
            /\ P(FlushPending, [raw |-> b.raw + Len(pending), phase |-> "open"])
<1>1. Path(Raw, Sent(Raw, RawStep, "derive"), <<>>, b, b)
  BY PathEmpty
<1>2. /\ Tick \in DeriveMsg /\ Shutdown \in DeriveMsg
      /\ To("derive", Tick) \in Send /\ To("derive", Shutdown) \in Send
      /\ To("derive", Tick).to = "derive" /\ To("derive", Tick).msg = Tick
      /\ To("derive", Shutdown).to = "derive" /\ To("derive", Shutdown).msg = Shutdown
  BY DEF DeriveMsg, Send, To
<1>3. <<b, Tick, b>> \in RawStep
  BY <1>2 DEF RawStep, Raw, PhaseOf, Tick
<1>4. /\ [raw |-> b.raw, phase |-> "closed"] \in Raw
      /\ <<b, Shutdown, [raw |-> b.raw, phase |-> "closed"]>> \in RawStep
  BY <1>2 DEF RawStep, Raw, PhaseOf, Shutdown, Phase
<1>5. Path(Raw, Sent(Raw, RawStep, "derive"), <<To("derive", Tick)>>, b, b)
  BY <1>2, <1>3, SentHere
<1>6. Path(Raw, Sent(Raw, RawStep, "derive"), <<To("derive", Shutdown)>>, b,
           [raw |-> b.raw, phase |-> "closed"])
  BY <1>2, <1>4, SentHere
<1>7. pending \in Seq(RawEvent)
  BY DEF TypeOK, StagesOK
<1>8. CASE pending = <<>>
  <2>1. FlushPending = <<>> /\ [raw |-> b.raw + Len(pending), phase |-> "open"] = b
    BY <1>8 DEF FlushPending, Raw
  <2> QED
    BY <1>1, <1>5, <1>6, <2>1
<1>9. CASE pending # <<>>
  <2> DEFINE m == Batch(pending)
             d == [raw |-> b.raw + Len(pending), phase |-> "open"]
  <2>1. FlushPending = <<To("derive", m)>> /\ Len(pending) \in Nat
    BY <1>7, <1>9 DEF FlushPending
  <2>2. m \in DeriveMsg /\ m.kind = "Batch" /\ m.events = pending
    BY <1>7 DEF Batch, DeriveMsg
  <2>3. d \in Raw /\ d.raw = b.raw + Len(pending) /\ d.phase = "open"
    BY <2>1 DEF Raw, Phase
  <2> HIDE DEF m, d
  <2>4. <<b, m, d>> \in RawStep
    BY <2>2, <2>3 DEF RawStep, PhaseOf
  <2>5. To("derive", m) \in Send /\ To("derive", m).to = "derive" /\ To("derive", m).msg = m
    BY <2>2 DEF Send, To
  <2>6. Path(Raw, Sent(Raw, RawStep, "derive"), <<To("derive", m)>>, b, d)
    BY <2>3, <2>4, <2>5, SentHere
  <2> QED
    BY <1>1, <1>5, <1>6, <2>1, <2>6 DEF d
<1> QED
  BY <1>8, <1>9

LEMMA RawIngest ==
  ASSUME TypeOK, NEW rr \in Nat, RawLink(rr), Ingest
  PROVE  RawLink(rr)'
<1> DEFINE P(sends, b, d) == Path(Raw, Sent(Raw, RawStep, "derive"), sends, b, d)
<1>1. /\ ChannelsOK /\ pending \in Seq(RawEvent) /\ event_count \in Nat /\ Len(pending) \in Nat
  BY DEF TypeOK, StagesOK
<1>2. FlushPending \in Seq(Send) /\ <<To("derive", Tick)>> \in Seq(Send)
      /\ <<To("derive", Shutdown)>> \in Seq(Send)
  BY <1>1, FlushPendingType DEF Send, To, DeriveMsg
<1>3. ASSUME NEW st, NEW sends, StageActs("ingest", st, sends)
      PROVE  status["ingest"] = "run" /\ status'["ingest"] = st
  BY <1>1, <1>3, ActsStatus
<1>4. CASE IngestEvent /\ StageActs("ingest", "run", <<To("derive", Tick)>>)
  <2>1. Len(pending') = Len(pending) + 1 /\ event_count' = event_count + 1
    BY <1>1, <1>4 DEF IngestEvent
  <2>2. ASSUME NEW b \in Raw, b \in RawSent
        PROVE  b \in RawSent' /\ P(<<To("derive", Tick)>>, b, b)
    <3>1. b.phase = "open" /\ b.raw + Len(pending) = event_count
      BY <1>3, <1>4, <2>2 DEF RawSent
    <3>2. b \in RawSent'
      BY <1>1, <2>1, <3>1 DEF RawSent, Raw
    <3> QED
      BY <3>1, <3>2, RawPaths
  <2> QED
    BY <1>4, <2>2, RawWrites
<1>5. CASE IngestShutdown /\ StageActs("ingest", "last", FlushPending \o <<To("derive", Shutdown)>>)
  <2>1. pending' = <<>> /\ Len(pending') = 0 /\ event_count' = event_count
        /\ status'["ingest"] = "last"
    BY <1>3, <1>5 DEF IngestShutdown
  <2>2. ASSUME NEW b \in Raw, b \in RawSent
        PROVE  \E d \in Raw : d \in RawSent' /\ P(FlushPending \o <<To("derive", Shutdown)>>, b, d)
    <3> DEFINE e == [raw |-> b.raw + Len(pending), phase |-> "open"]
               d == [raw |-> e.raw, phase |-> "closed"]
    <3>1. b.phase = "open" /\ b.raw + Len(pending) = event_count
      BY <1>3, <1>5, <2>2 DEF RawSent
    <3>2. e \in Raw /\ e.phase = "open" /\ e.raw = event_count
      BY <1>1, <3>1 DEF Raw, Phase
    <3>3. P(FlushPending, b, e)
      BY <3>1, RawPaths
    <3> HIDE DEF e
    <3>4. P(<<To("derive", Shutdown)>>, e, d)
      BY <3>2, RawPaths
    <3>5. P(FlushPending \o <<To("derive", Shutdown)>>, b, d)
      BY <1>2, <3>3, <3>4, PathConcat
    <3>6. d \in Raw /\ d \in RawSent'
      BY <1>1, <2>1, <3>2 DEF RawSent, Raw, Phase
    <3> QED
      BY <3>5, <3>6
  <2> QED
    BY <1>5, <2>2, RawWrites
<1>6. CASE IngestFlush /\ StageActs("ingest", "run", FlushPending \o <<To("derive", Tick)>>)
  <2>1. pending' = <<>> /\ Len(pending') = 0 /\ event_count' = event_count
    BY <1>6 DEF IngestFlush
  <2>2. ASSUME NEW b \in Raw, b \in RawSent
        PROVE  \E d \in Raw : d \in RawSent' /\ P(FlushPending \o <<To("derive", Tick)>>, b, d)
    <3> DEFINE e == [raw |-> b.raw + Len(pending), phase |-> "open"]
    <3>1. b.phase = "open" /\ b.raw + Len(pending) = event_count
      BY <1>3, <1>6, <2>2 DEF RawSent
    <3>2. e \in Raw /\ e.phase = "open" /\ e.raw = event_count
      BY <1>1, <3>1 DEF Raw, Phase
    <3>3. P(FlushPending, b, e)
      BY <3>1, RawPaths
    <3> HIDE DEF e
    <3>4. P(<<To("derive", Tick)>>, e, e)
      BY <3>2, RawPaths
    <3>5. P(FlushPending \o <<To("derive", Tick)>>, b, e)
      BY <1>2, <3>3, <3>4, PathConcat
    <3>6. e \in RawSent'
      BY <1>1, <2>1, <3>2 DEF RawSent
    <3> QED
      BY <3>2, <3>5, <3>6
  <2> QED
    BY <1>6, <2>2, RawWrites
<1>7. CASE IngestIdleTick /\ StageActs("ingest", "run", <<To("derive", Tick)>>)
  <2>1. UNCHANGED <<pending, event_count>>
    BY <1>7 DEF IngestIdleTick
  <2>2. ASSUME NEW b \in Raw, b \in RawSent
        PROVE  b \in RawSent' /\ P(<<To("derive", Tick)>>, b, b)
    <3>1. b.phase = "open" /\ b \in RawSent'
      BY <1>3, <1>7, <2>1, <2>2 DEF RawSent
    <3> QED
      BY <3>1, RawPaths
  <2> QED
    BY <1>7, <2>2, RawWrites
<1>8. CASE IngestDisconnected /\ StageActs("ingest", "last", <<>>)
  <2>1. UNCHANGED <<pending, event_count>>
    BY <1>8 DEF IngestDisconnected
  <2>2. ASSUME NEW b \in Raw, b \in RawSent
        PROVE  b \in RawSent' /\ P(<<>>, b, b)
    <3>1. b.phase = "open" /\ b \in RawSent'
      BY <1>3, <1>8, <2>1, <2>2 DEF RawSent
    <3> QED
      BY <3>1, RawPaths
  <2> QED
    BY <1>8, <2>2, RawWrites
<1> QED
  BY <1>4, <1>5, <1>6, <1>7, <1>8, IngestActs

LEMMA RawReads ==
  ASSUME TypeOK, NEW rr \in Nat, NEW r2 \in Nat, RawLink(rr),
         NEW sends, StageActs("envelope", "run", sends), UNCHANGED <<pending, event_count>>,
         \/ /\ Takes("envelope", "run", sends)
            /\ \A d \in Raw : <<[raw |-> rr, phase |-> "open"], Msg("envelope"), d>> \in RawStep
                                => d = [raw |-> r2, phase |-> "open"]
         \/ Proceed("envelope", "run", sends) /\ r2 = rr
  PROVE  RawLink(r2)'
<1>1. ChannelsOK
  BY DEF TypeOK
<1>2. /\ status'["ingest"] = status["ingest"] /\ status["envelope"] = "run"
      /\ status'["envelope"] = "run"
  BY <1>1, ActsStatus, StageNames
<1>3. /\ RawTaken(rr) = [raw |-> rr, phase |-> "open"]
      /\ RawTaken(r2)' = [raw |-> r2, phase |-> "open"] /\ RawSent' = RawSent
  BY <1>2 DEF RawTaken, PhaseOf, RawSent
<1>4. PICK a, a2, W : a = RawTaken(rr) /\ a2 = RawTaken(r2)' /\ W = RawSent
  OBVIOUS
<1>5. \A s \in Range(sends) : s.to # "derive"
  BY DEF StageActs, MayEmit
<1>6. Link(Raw, RawStep, "derive", "ingest", "envelope", a, W)
  BY <1>4 DEF RawLink
<1>7. LinkNext(Raw, RawStep, "derive", "ingest", "envelope", a2, W)
  BY <1>1, <1>3, <1>4, <1>5, <1>6, RawShape, LinkReads
<1> QED
  BY <1>3, <1>4, <1>7 DEF RawLink, Link, LinkNext

LEMMA RawLeaves ==
  ASSUME TypeOK, NEW rr \in Nat,
         NEW sends, StageActs("envelope", "last", sends), UNCHANGED <<pending, event_count>>,
         NoPanic => Finished("derive", "ingest") /\ [raw |-> rr, phase |-> "closed"] \in RawSent
  PROVE  RawLink(rr)'
<1>1. ChannelsOK
  BY DEF TypeOK
<1>2. status'["ingest"] = status["ingest"] /\ status'["envelope"] = "last"
  BY <1>1, ActsStatus, StageNames
<1>3. RawTaken(rr)' = [raw |-> rr, phase |-> "closed"] /\ RawSent' = RawSent
  BY <1>2 DEF RawTaken, PhaseOf, RawSent
<1>4. PICK a2, W : a2 = RawTaken(rr)' /\ W = RawSent
  OBVIOUS
<1>5. LinkNext(Raw, RawStep, "derive", "ingest", "envelope", a2, W)
  BY <1>1, <1>3, <1>4, RawShape, LinkLeaves
<1> QED
  BY <1>3, <1>4, <1>5 DEF RawLink, Link, LinkNext

LEMMA DeriveMessage ==
  ASSUME TypeOK, queue["derive"] # <<>>
  PROVE  Msg("envelope") \in DeriveMsg /\ Msg("envelope") = Head(queue["derive"])
BY HeadType, StageNames, Inboxes DEF Message, TypeOK, Msg

LEMMA RawTakeBatch ==
  ASSUME TypeOK, NEW rr \in Nat, RawLink(rr), TakeBatch
  PROVE  \E r2 \in Nat : r2 = rr + Len(Msg("envelope").events) /\ RawLink(r2)'
<1> DEFINE m == Msg("envelope")
<1>1. queue["derive"] # <<>> /\ m.kind = "Batch" /\ UNCHANGED <<pending, event_count>>
  BY Inboxes DEF TakeBatch, Receives, Msg, EnvelopeUnchanged
<1>2. m \in DeriveMsg
  BY <1>1, DeriveMessage
<1> HIDE DEF m
<1>3. m.events \in Seq(RawEvent) /\ Len(m.events) \in Nat
  BY <1>1, <1>2 DEF DeriveMsg, Tick, Shutdown
<1>4. PICK r2 \in Nat : r2 = rr + Len(m.events)
  BY <1>3
<1>5. ASSUME NEW d \in Raw, <<[raw |-> rr, phase |-> "open"], m, d>> \in RawStep
      PROVE  d = [raw |-> r2, phase |-> "open"]
  <2>1. d.raw = r2 /\ d.phase = "open"
    BY <1>1, <1>4, <1>5 DEF RawStep, PhaseOf
  <2> QED
    BY <2>1 DEF Raw
<1>6. RawLink(r2)'
  <2>1. \A d \in Raw : <<[raw |-> rr, phase |-> "open"], Msg("envelope"), d>> \in RawStep
                         => d = [raw |-> r2, phase |-> "open"]
    BY <1>5 DEF m
  <2> QED
    BY <1>1, <2>1, TakeBatchActs, RawReads
<1> QED
  BY <1>4, <1>6 DEF m

LEMMA RawEnvelope ==
  ASSUME TypeOK, DrainInv, NEW rr \in Nat, RawLink(rr), EnvelopeStep, ~TakeBatch
  PROVE  RawLink(rr)'
<1>1. /\ ChannelsOK /\ SendsAreTheirs /\ UNCHANGED <<pending, event_count>>
  BY DEF TypeOK, DrainInv, EnvelopeStep, TakeBatch, AdaptEvent, DeriveLock, HandleHint, HandleSignal,
         FinishBatch, TakeTick, TakeShutdown, EnvelopeClosed, EnvelopeUnchanged
<1>2. CASE AdaptEvent \/ DeriveLock
  <2>1. Quiet("ingest", "envelope")
    BY <1>2 DEF AdaptEvent, DeriveLock, Quiet, Aside
  <2> QED
    BY <1>1, <2>1, RawQuiet
<1>3. CASE HandleHint
  BY <1>1, <1>3, HandleHintActs, RawReads
<1>4. CASE HandleSignal
  BY <1>1, <1>4, HandleSignalActs, RawReads
<1>5. CASE FinishBatch
  BY <1>1, <1>5, FinishBatchActs, RawReads
<1>6. CASE TakeTick
  <2>1. queue["derive"] # <<>> /\ Msg("envelope").kind = "Tick"
    BY <1>6, Inboxes DEF TakeTick, Receives, Msg
  <2>2. ASSUME NEW d \in Raw, <<[raw |-> rr, phase |-> "open"], Msg("envelope"), d>> \in RawStep
        PROVE  d = [raw |-> rr, phase |-> "open"]
    <3>1. d.raw = rr /\ d.phase = "open"
      BY <2>1, <2>2 DEF RawStep, PhaseOf
    <3> QED
      BY <3>1 DEF Raw
  <2> QED
    BY <1>1, <1>6, <2>2, TakeTickActs, RawReads
<1>7. CASE TakeShutdown
  <2>1. /\ queue["derive"] # <<>> /\ Msg("envelope").kind = "Shutdown" /\ status["envelope"] = "run"
        /\ Msg("envelope") = Head(queue["derive"])
    BY <1>7, Inboxes DEF TakeShutdown, Receives, Msg, Running
  <2>2. ASSUME NoPanic
        PROVE  Finished("derive", "ingest") /\ [raw |-> rr, phase |-> "closed"] \in RawSent
    <3>1. PICK a, W : a = RawTaken(rr) /\ W = RawSent
      OBVIOUS
    <3>2. PICK b \in Raw, d \in Raw :
            /\ b \in W /\ <<a, Head(queue["derive"]), d>> \in RawStep
            /\ Flow(Raw, RawStep, "derive", Tail(queue["derive"]), out["ingest"], d, b)
      BY <1>1, <2>1, <2>2, <3>1, RawShape, LinkTaken DEF RawLink
    <3>3. a = [raw |-> rr, phase |-> "open"]
      BY <2>1, <3>1 DEF RawTaken, PhaseOf
    <3>4. d.raw = rr /\ d.phase = "closed"
      BY <2>1, <3>2, <3>3 DEF RawStep, PhaseOf
    <3>5. \A m : \A v \in Raw : <<d, m, v>> \notin RawStep
      BY <3>4 DEF RawStep
    <3>6. Tail(queue["derive"]) \in Seq(AnyMessage) /\ out["ingest"] \in Seq(Send)
      BY <1>1, <2>1, StageNames DEF ChannelsOK
    <3>7. b = d /\ \A s \in Range(out["ingest"]) : s.to # "derive"
      <4>1. Stuck(Raw, RawStep, d)
        BY <3>5 DEF Stuck
      <4>2. /\ b = d
            /\ \A s \in Range(out["ingest"]) : s.to = "derive" => <<d, s.msg, d>> \in RawStep
        <5>1. PICK q, o : q = Tail(queue["derive"]) /\ o = out["ingest"]
          OBVIOUS
        <5>2. /\ q \in Seq(AnyMessage) /\ o \in Seq(Send)
              /\ Flow(Raw, RawStep, "derive", q, o, d, b)
          BY <3>2, <3>6, <5>1
        <5>3. b = d /\ \A s \in Range(o) : s.to = "derive" => <<d, s.msg, d>> \in RawStep
          BY <4>1, <5>2, FlowStuck
        <5> QED
          BY <5>1, <5>3
      <4> QED
        BY <3>5, <4>2
    <3>8. d = [raw |-> rr, phase |-> "closed"]
      BY <3>4 DEF Raw
    <3>9. status["ingest"] # "run"
      BY <3>1, <3>2, <3>4, <3>7 DEF RawSent
    <3> QED
      BY <3>1, <3>2, <3>7, <3>8, <3>9 DEF Finished
  <2> QED
    BY <1>1, <1>7, <2>2, TakeShutdownActs, RawLeaves
<1>8. CASE EnvelopeClosed
  <2>1. /\ queue["derive"] = <<>> /\ Gone("ingest") /\ status["envelope"] = "run"
    BY <1>8 DEF EnvelopeClosed, Closed, Senders, Running, Chan
  <2>2. out["ingest"] = <<>>
    BY <2>1, StageNames DEF DrainInv, GoneIsSilent
  <2>3. ASSUME NoPanic
        PROVE  Finished("derive", "ingest") /\ [raw |-> rr, phase |-> "closed"] \in RawSent
    <3>1. PICK a, W : a = RawTaken(rr) /\ W = RawSent
      OBVIOUS
    <3>2. a \in W
      BY <1>1, <2>1, <2>2, <2>3, <3>1, LinkDry DEF RawLink
    <3>3. a = [raw |-> rr, phase |-> "open"]
      BY <2>1, <3>1 DEF RawTaken, PhaseOf
    <3>4. status["ingest"] # "run"
      BY <2>1 DEF Gone
    <3>5. [raw |-> rr, phase |-> "closed"] \in RawSent
      BY <3>1, <3>2, <3>3, <3>4 DEF RawSent, Raw, Phase
    <3> QED
      BY <2>2, <3>4, <3>5, RangeEmpty DEF Finished
  <2> QED
    BY <1>1, <1>8, <2>3, EnvelopeClosedActs, RawLeaves
<1> QED
  BY <1>2, <1>3, <1>4, <1>5, <1>6, <1>7, <1>8 DEF EnvelopeStep

-----------------------------------------------------------------------------
(* compression: the batches, from envelope to compression.                 *)

LEMMA SentElsewhere ==
  ASSUME NEW V, NEW R, NEW c, NEW u \in V, NEW sends \in Seq(Send),
         \A s \in Range(sends) : s.to # c
  PROVE  Path(V, Sent(V, R, c), sends, u, u)
BY SentThere DEF Range

(* Where the envelope stage's sends go.                                    *)
LEMMA StateSendsTo ==
  ASSUME NEW upd, NEW from, NEW to
  PROVE  \A s \in Range(StateSends(upd, from, to)) : s.to \in {"hints", "snapshot"}
BY RangeEmpty DEF StateSends, Range, To

LEMMA SignalSendsTo ==
  ASSUME TypeOK, work.envs # <<>>, NEW to \in ActivityState
  PROVE  \A s \in Range(SignalSends(to)) : s.to \in {"storage", "hints", "snapshot"}
<1> DEFINE p == <<To("storage", EnvelopeCmd(Head(work.envs)))>>
           q == StateSends(SignalUpd, derive.state, to)
<1>1. derive.state \in ActivityState
  BY DEF TypeOK, StagesOK, DeriveState
<1>2. q \in Seq(Send)
  BY <1>1, SignalUpdType, StateSendsType
<1>3. EnvelopeCmd(Head(work.envs)) \in Message("storage")
  BY DEF EnvelopeCmd, IsSignal, Message, StorageMsg
<1>4. p \in Seq(Send)
  BY <1>3, ToSend, StageNames
<1>5. Range(p \o q) = Range(p) \cup Range(q)
  BY <1>2, <1>4, RangeConcatenation
<1>6. \A s \in Range(p) : s.to = "storage"
  BY DEF Range, To
<1>7. \A s \in Range(q) : s.to \in {"hints", "snapshot"}
  BY StateSendsTo
<1> QED
  BY <1>5, <1>6, <1>7 DEF SignalSends

LEMMA TickSendsTo ==
  ASSUME TypeOK, NEW to \in ActivityState
  PROVE  \A s \in Range(TickSends(to)) : s.to \in {"hints", "snapshot"}
<1> DEFINE p == StateSends(NoUpdate, derive.state, to)
           q == <<To("snapshot", Publish)>>
<1>1. derive.state \in ActivityState
  BY DEF TypeOK, StagesOK, DeriveState
<1>2. p \in Seq(Send) /\ q \in Seq(Send)
  BY <1>1, NoWorkType, StateSendsType, PublishEmits DEF Emits
<1>3. Range(p \o q) = Range(p) \cup Range(q)
  BY <1>2, RangeConcatenation
<1>4. \A s \in Range(p) : s.to \in {"hints", "snapshot"}
  BY StateSendsTo
<1>5. \A s \in Range(q) : s.to = "snapshot"
  BY DEF Range, To
<1>6. \A s \in Range(p \o q) : s.to \in {"hints", "snapshot"}
  BY <1>3, <1>4, <1>5
<1>7. TickSends(to) = <<>> \/ TickSends(to) = p \o q
  BY DEF TickSends
<1> QED
  BY <1>6, <1>7, RangeEmpty

LEMMA CompressWrites ==
  ASSUME TypeOK, NEW rr \in Nat, NEW r2 \in Nat, CompressLink(rr), UNCHANGED rollup,
         NEW st, NEW sends, StageActs("envelope", st, sends),
         \A b \in Raw : b \in CompressSent(rr) =>
            \E d \in Raw : /\ d \in CompressSent(r2)'
                           /\ Path(Raw, Sent(Raw, CompressStep, "compression"), sends, b, d)
  PROVE  CompressLink(r2)'
<1>1. ChannelsOK
  BY DEF TypeOK
<1>2. status'["compression"] = status["compression"]
  BY <1>1, ActsStatus, StageNames
<1>3. CompressTaken' = CompressTaken
  BY <1>2 DEF CompressTaken, PhaseOf
<1>4. PICK a2, W2 : a2 = CompressTaken' /\ W2 = CompressSent(r2)'
  OBVIOUS
<1>5. LinkNext(Raw, CompressStep, "compression", "envelope", "compression", a2, W2)
  BY <1>1, <1>3, <1>4, CompressShape, LinkWrites DEF CompressLink
<1> QED
  BY <1>4, <1>5 DEF CompressLink, Link, LinkNext

(* A step of the envelope stage that tells compression nothing.            *)
LEMMA CompressUntold ==
  ASSUME TypeOK, NEW rr \in Nat, NEW r2 \in Nat, CompressLink(rr), UNCHANGED rollup,
         NEW st, NEW sends, StageActs("envelope", st, sends),
         \A s \in Range(sends) : s.to # "compression",
         \A b \in Raw : b.raw + Len(work.batch) = rr => b.raw + Len(work'.batch) = r2
  PROVE  CompressLink(r2)'
<1>1. ChannelsOK /\ sends \in Seq(Send)
  BY DEF TypeOK, StageActs
<1>2. status["envelope"] = "run"
  BY <1>1, ActsStatus, StageNames
<1>3. ASSUME NEW b \in Raw, b \in CompressSent(rr)
      PROVE  /\ b \in CompressSent(r2)'
             /\ Path(Raw, Sent(Raw, CompressStep, "compression"), sends, b, b)
  <2>1. b \in CompressSent(r2)'
    BY <1>2, <1>3 DEF CompressSent
  <2> QED
    BY <1>1, <2>1, SentElsewhere
<1> QED
  BY <1>3, CompressWrites

LEMMA CompressTakeBatch ==
  ASSUME TypeOK, BatchInWork, NEW rr \in Nat, CompressLink(rr), TakeBatch,
         NEW n \in Nat, n = rr + Len(Msg("envelope").events)
  PROVE  CompressLink(n)'
<1> DEFINE events == Msg("envelope").events
<1>1. /\ queue["derive"] # <<>> /\ Msg("envelope").kind = "Batch" /\ UNCHANGED rollup
      /\ work'.batch = events /\ work = NoWork
  BY Inboxes DEF TakeBatch, Receives, Msg, EnvelopeUnchanged, BatchInWork, NoWork
<1>2. Msg("envelope") \in DeriveMsg
  BY <1>1, DeriveMessage
<1>3. events \in Seq(RawEvent) /\ Len(events) \in Nat
  BY <1>1, <1>2 DEF DeriveMsg, Tick, Shutdown
<1> HIDE DEF events
<1>4. n = rr + Len(events)
  BY DEF events
<1>5. work.batch = <<>> /\ Len(work.batch) = 0
  BY <1>1 DEF NoWork
<1>6. \A b \in Raw : b.raw + Len(work.batch) = rr => b.raw + Len(work'.batch) = n
  BY <1>1, <1>3, <1>4, <1>5 DEF Raw
<1> QED
  BY <1>1, <1>6, TakeBatchActs, CompressUntold, RangeEmpty

LEMMA CompressFinish ==
  ASSUME TypeOK, NEW rr \in Nat, CompressLink(rr), FinishBatch
  PROVE  CompressLink(rr)'
<1> DEFINE m == Process(work.batch)
           p == IF work.upd = NoUpdate THEN <<>> ELSE <<UpdateOf(work.upd)>>
           q == <<To("snapshot", Publish)>>
<1>1. /\ StageActs("envelope", "run", BatchSends) /\ UNCHANGED rollup /\ work' = NoWork
      /\ BatchSends = <<To("compression", m)>> \o p \o q /\ BatchSends \in Seq(Send)
  BY FinishBatchActs DEF FinishBatch, EnvelopeUnchanged, BatchSends, StageActs
<1>2. work.batch \in Seq(RawEvent) /\ Len(work.batch) \in Nat /\ work.upd \in PendingUpdate
  BY DEF TypeOK, StagesOK, Work
<1>3. Len(work'.batch) = 0
  BY <1>1 DEF NoWork
<1>4. m \in CompressionMsg /\ m.kind = "Process" /\ m.events = work.batch
  BY <1>2 DEF Process, CompressionMsg
<1>5. /\ To("compression", m) \in Send /\ To("compression", m).to = "compression"
      /\ To("compression", m).msg = m
  BY <1>4 DEF Send, To
<1>6. UpdateOf(work.upd) \in Send
  <2>1. NoTransition \in OptTransition
    BY DEF OptTransition
  <2> QED
    BY <1>2, <2>1, UpdateType DEF UpdateOf, PendingUpdate
<1>7. /\ p \in Seq(Send) /\ \A s \in Range(p) : s.to = "snapshot"
  <2>1. CASE work.upd = NoUpdate
    BY <2>1, RangeEmpty
  <2>2. CASE work.upd # NoUpdate
    BY <1>6, <2>2 DEF UpdateOf, To, Range
  <2> QED
    BY <2>1, <2>2
<1>8. q \in Seq(Send) /\ \A s \in Range(q) : s.to = "snapshot"
  BY PublishEmits DEF Emits, Range, To
<1> HIDE DEF m, p, q
<1>9. ASSUME NEW b \in Raw, b \in CompressSent(rr)
      PROVE  \E d \in Raw : /\ d \in CompressSent(rr)'
                            /\ Path(Raw, Sent(Raw, CompressStep, "compression"), BatchSends, b, d)
  <2> DEFINE d == [raw |-> b.raw + Len(work.batch), phase |-> "open"]
  <2>1. status["envelope"] = "run"
    BY <1>1 DEF StageActs
  <2>2. b.phase = "open" /\ b.raw + Len(work.batch) = rr /\ b.raw \in Nat
    BY <1>9, <2>1 DEF CompressSent, Raw
  <2>3. d \in Raw /\ d.raw = b.raw + Len(work.batch) /\ d.phase = "open"
    BY <1>2, <2>2 DEF Raw, Phase
  <2>4. d \in CompressSent(rr)'
    BY <1>3, <2>2, <2>3 DEF CompressSent, Raw
  <2> HIDE DEF d
  <2>5. <<b, m, d>> \in CompressStep
    BY <1>4, <2>2, <2>3 DEF CompressStep, PhaseOf
  <2>6. Path(Raw, Sent(Raw, CompressStep, "compression"), <<To("compression", m)>>, b, d)
    BY <1>5, <2>3, <2>5, SentHere
  <2>7. /\ Path(Raw, Sent(Raw, CompressStep, "compression"), p, d, d)
        /\ Path(Raw, Sent(Raw, CompressStep, "compression"), q, d, d)
    BY <1>7, <1>8, <2>3, SentElsewhere
  <2>8. <<To("compression", m)>> \in Seq(Send) /\ <<To("compression", m)>> \o p \in Seq(Send)
    BY <1>5, <1>7
  <2>9. Path(Raw, Sent(Raw, CompressStep, "compression"), <<To("compression", m)>> \o p, b, d)
    BY <1>7, <2>6, <2>7, <2>8, PathConcat
  <2>10. Path(Raw, Sent(Raw, CompressStep, "compression"), (<<To("compression", m)>> \o p) \o q, b, d)
    BY <1>8, <2>7, <2>8, <2>9, PathConcat
  <2> QED
    BY <1>1, <2>3, <2>4, <2>10
<1> QED
  BY <1>1, <1>9, CompressWrites

LEMMA CompressBye ==
  ASSUME TypeOK, NEW rr \in Nat, CompressLink(rr), TakeShutdown
  PROVE  CompressLink(rr)'
<1> DEFINE s1 == To("snapshot", Shutdown)
           s2 == To("compression", Shutdown)
<1>1. /\ StageActs("envelope", "last", ByeSends) /\ UNCHANGED <<rollup, work>>
      /\ ByeSends = <<s1>> \o <<s2>>
  BY TakeShutdownActs DEF TakeShutdown, EnvelopeUnchanged, ByeSends
<1>2. /\ s1 \in Send /\ s2 \in Send /\ s1.to = "snapshot" /\ s2.to = "compression"
      /\ s2.msg = Shutdown /\ Shutdown \in CompressionMsg
  BY DEF Send, To, CompressionMsg, SnapshotMsg
<1> HIDE DEF s1, s2
<1>3. status["envelope"] = "run" /\ status'["envelope"] = "last"
  BY <1>1, ActsStatus, StageNames DEF TypeOK
<1>4. ASSUME NEW b \in Raw, b \in CompressSent(rr)
      PROVE  \E d \in Raw : /\ d \in CompressSent(rr)'
                            /\ Path(Raw, Sent(Raw, CompressStep, "compression"), ByeSends, b, d)
  <2> DEFINE d == [raw |-> b.raw, phase |-> "closed"]
  <2>1. b.phase = "open" /\ b.raw + Len(work.batch) = rr
    BY <1>3, <1>4 DEF CompressSent
  <2>2. d \in Raw /\ d.raw = b.raw /\ d.phase = "closed"
    BY DEF Raw, Phase
  <2>3. d \in CompressSent(rr)'
    BY <1>1, <1>3, <2>1, <2>2 DEF CompressSent
  <2> HIDE DEF d
  <2>4. <<b, Shutdown, d>> \in CompressStep
    BY <1>2, <2>1, <2>2 DEF CompressStep, PhaseOf, Shutdown, Raw
  <2>5. Path(Raw, Sent(Raw, CompressStep, "compression"), <<s2>>, b, d)
    BY <1>2, <2>2, <2>4, SentHere
  <2>6. Path(Raw, Sent(Raw, CompressStep, "compression"), <<s1>>, b, b)
    BY <1>2, SentThereOne
  <2>7. <<s1>> \in Seq(Send) /\ <<s2>> \in Seq(Send)
    BY <1>2
  <2>8. Path(Raw, Sent(Raw, CompressStep, "compression"), <<s1>> \o <<s2>>, b, d)
    BY <2>5, <2>6, <2>7, PathConcat
  <2> QED
    BY <1>1, <2>2, <2>3, <2>8
<1> QED
  BY <1>1, <1>4, CompressWrites

LEMMA CompressEnvelope ==
  ASSUME TypeOK, DrainInv, NEW rr \in Nat, CompressLink(rr), EnvelopeStep, ~TakeBatch
  PROVE  CompressLink(rr)'
<1>1. /\ ChannelsOK /\ SendsAreTheirs /\ UNCHANGED rollup /\ work \in Work
  BY DEF TypeOK, StagesOK, DrainInv, EnvelopeStep, TakeBatch, AdaptEvent, DeriveLock, HandleHint,
         HandleSignal, FinishBatch, TakeTick, TakeShutdown, EnvelopeClosed, EnvelopeUnchanged
<1>2. CASE AdaptEvent \/ DeriveLock
  <2>1. UNCHANGED <<status, queue, out>> /\ work'.batch = work.batch
    BY <1>1, <1>2 DEF AdaptEvent, DeriveLock, Work
  <2>2. CompressTaken' = CompressTaken /\ CompressSent(rr)' = CompressSent(rr)
    BY <1>1, <2>1 DEF CompressTaken, CompressSent
  <2>3. PICK a2, W2 : a2 = CompressTaken' /\ W2 = CompressSent(rr)'
    OBVIOUS
  <2>4. LinkNext(Raw, CompressStep, "compression", "envelope", "compression", a2, W2)
    BY <2>1, <2>2, <2>3, LinkElsewhere DEF CompressLink
  <2> QED
    BY <2>3, <2>4 DEF CompressLink, Link, LinkNext
<1>3. CASE HandleHint
  <2>1. work'.batch = work.batch
    BY <1>1, <1>3, HandleHintActs DEF Work
  <2>2. \A s \in Range(<<To("hints", Head(work.envs))>>) : s.to # "compression"
    BY DEF Range, To
  <2> QED
    BY <1>1, <1>3, <2>1, <2>2, HandleHintActs, CompressUntold
<1>4. CASE HandleSignal
  <2>1. PICK to \in ActivityState :
           /\ work.envs # <<>> /\ StageActs("envelope", "run", SignalSends(to))
           /\ work' = [work EXCEPT !.envs = Tail(@),
                          !.upd = IF to = derive.state THEN SignalUpd ELSE NoUpdate]
    BY <1>4, HandleSignalActs
  <2>2. work'.batch = work.batch
    BY <1>1, <2>1 DEF Work
  <2> QED
    BY <1>1, <2>1, <2>2, SignalSendsTo, CompressUntold
<1>5. CASE FinishBatch
  BY <1>5, CompressFinish
<1>6. CASE TakeTick
  <2>1. PICK to \in ActivityState : StageActs("envelope", "run", TickSends(to))
    BY <1>6, TakeTickActs
  <2>2. work' = work
    BY <1>6 DEF TakeTick
  <2> QED
    BY <1>1, <2>1, <2>2, TickSendsTo, CompressUntold
<1>7. CASE TakeShutdown
  BY <1>7, CompressBye
<1>8. CASE EnvelopeClosed
  <2>1. work' = work
    BY <1>8 DEF EnvelopeClosed
  <2> QED
    BY <1>1, <1>8, <2>1, EnvelopeClosedActs, CompressUntold, RangeEmpty
<1> QED
  BY <1>2, <1>3, <1>4, <1>5, <1>6, <1>7, <1>8 DEF EnvelopeStep

LEMMA CompressReads ==
  ASSUME TypeOK, NEW rr \in Nat, CompressLink(rr), CompressBatch
  PROVE  CompressLink(rr)'
<1> DEFINE m == Msg("compression")
<1>1. PICK compact \in BOOLEAN :
        /\ m \in CompressionMsg /\ m.kind = "Process"
        /\ rollup'.raw = rollup.raw + Len(m.events)
        /\ Takes("compression", "run", CompressSends(compact))
        /\ StageActs("compression", "run", CompressSends(compact))
  BY CompressBatchActs
<1>2. PICK sends : sends = CompressSends(compact)
  OBVIOUS
<1>3. /\ Takes("compression", "run", sends) /\ StageActs("compression", "run", sends)
      /\ \A s \in Range(sends) : s.to # "compression"
  BY <1>1, <1>2 DEF StageActs, MayEmit
<1>4. /\ ChannelsOK /\ work' = work
  BY DEF TypeOK, CompressBatch, CompressionUnchanged
<1>5. /\ status["compression"] = "run" /\ status'["compression"] = "run"
      /\ status'["envelope"] = status["envelope"]
  BY <1>3, <1>4, ActsStatus, StageNames
<1>6. PICK a, a2, W : a = CompressTaken /\ a2 = CompressTaken' /\ W = CompressSent(rr)
  OBVIOUS
<1>7. /\ a = [raw |-> rollup.raw, phase |-> "open"]
      /\ a2 = [raw |-> rollup'.raw, phase |-> "open"] /\ CompressSent(rr)' = W
  BY <1>4, <1>5, <1>6 DEF CompressTaken, CompressSent, PhaseOf
<1> HIDE DEF m
<1>8. ASSUME NEW d \in Raw, <<a, m, d>> \in CompressStep PROVE d = a2
  <2>1. d.raw = rollup'.raw /\ d.phase = "open"
    BY <1>1, <1>7, <1>8 DEF CompressStep, PhaseOf
  <2> QED
    BY <1>7, <2>1 DEF Raw
<1>9. Link(Raw, CompressStep, "compression", "envelope", "compression", a, W)
  BY <1>6 DEF CompressLink
<1>10. LinkNext(Raw, CompressStep, "compression", "envelope", "compression", a2, W)
  BY <1>3, <1>4, <1>8, <1>9, CompressShape, LinkReads DEF m
<1> QED
  BY <1>6, <1>7, <1>10 DEF CompressLink, Link, LinkNext

LEMMA CompressLeaves ==
  ASSUME TypeOK, DrainInv, NEW rr \in Nat, CompressLink(rr),
         CompressionShutdown \/ CompressionClosed
  PROVE  CompressLink(rr)'
<1>1. /\ ChannelsOK /\ UNCHANGED <<work, rollup>> /\ StageActs("compression", "last", <<>>)
      /\ rollup.raw \in Nat
  BY CompressionLeaves DEF TypeOK, StagesOK, CompressionShutdown, CompressionClosed, CompressionUnchanged
<1>2. /\ status["compression"] = "run" /\ status'["compression"] = "last"
      /\ status'["envelope"] = status["envelope"]
  BY <1>1, ActsStatus, StageNames
<1>3. PICK a, a2, W : a = CompressTaken /\ a2 = CompressTaken' /\ W = CompressSent(rr)
  OBVIOUS
<1>4. /\ a = [raw |-> rollup.raw, phase |-> "open"]
      /\ a2 = [raw |-> rollup.raw, phase |-> "closed"] /\ CompressSent(rr)' = W
  BY <1>1, <1>2, <1>3 DEF CompressTaken, CompressSent, PhaseOf
<1>5. Link(Raw, CompressStep, "compression", "envelope", "compression", a, W)
  BY <1>3 DEF CompressLink
<1>6. ASSUME NoPanic, CompressionShutdown PROVE Finished("compression", "envelope") /\ a2 \in W
  <2>1. queue["compression"] # <<>> /\ Head(queue["compression"]).kind = "Shutdown"
    BY <1>6, Inboxes DEF CompressionShutdown, Receives
  <2>2. PICK b \in Raw, d \in Raw :
          /\ b \in W /\ <<a, Head(queue["compression"]), d>> \in CompressStep
          /\ Flow(Raw, CompressStep, "compression", Tail(queue["compression"]), out["envelope"], d, b)
    BY <1>1, <1>2, <1>5, <1>6, <2>1, CompressShape, LinkTaken
  <2>3. d.raw = rollup.raw /\ d.phase = "closed"
    BY <1>4, <2>1, <2>2, <1>1 DEF CompressStep, PhaseOf
  <2>4. d = a2
    BY <1>4, <2>3 DEF Raw
  <2>5. Tail(queue["compression"]) \in Seq(AnyMessage) /\ out["envelope"] \in Seq(Send)
    BY <1>1, <2>1, StageNames DEF ChannelsOK
  <2>6. (\A m : \A v \in Raw : <<d, m, v>> \notin CompressStep) /\ Stuck(Raw, CompressStep, d)
    BY <2>3 DEF CompressStep, Stuck
  <2>7. b = d /\ \A s \in Range(out["envelope"]) :
                   s.to = "compression" => <<d, s.msg, d>> \in CompressStep
    BY <2>2, <2>5, <2>6, FlowStuck
  <2>8. \A s \in Range(out["envelope"]) : s.to # "compression"
    BY <2>6, <2>7
  <2>9. status["envelope"] # "run"
    BY <1>3, <2>2, <2>3, <2>7 DEF CompressSent
  <2> QED
    BY <2>2, <2>4, <2>7, <2>8, <2>9 DEF Finished
<1>7. ASSUME NoPanic, CompressionClosed PROVE Finished("compression", "envelope") /\ a2 \in W
  <2>1. queue["compression"] = <<>> /\ Gone("envelope")
    BY <1>7 DEF CompressionClosed, Closed, Senders, Chan
  <2>2. out["envelope"] = <<>> /\ status["envelope"] # "run"
    BY <2>1, StageNames DEF DrainInv, GoneIsSilent, Gone
  <2>3. a \in W
    BY <1>1, <1>2, <1>5, <1>7, <2>1, <2>2, LinkDry
  <2>4. a2 \in W
    BY <1>1, <1>3, <1>4, <2>2, <2>3 DEF CompressSent, Raw, Phase
  <2> QED
    BY <2>2, <2>4, RangeEmpty DEF Finished
<1>8. LinkNext(Raw, CompressStep, "compression", "envelope", "compression", a2, W)
  BY <1>1, <1>6, <1>7, CompressShape, LinkLeaves
<1> QED
  BY <1>3, <1>4, <1>8 DEF CompressLink, Link, LinkNext

-----------------------------------------------------------------------------
(* The focus in a batch.                                                   *)

LEMMA RangeSplit ==
  ASSUME NEW S, NEW o \in Seq(S), o # <<>>
  PROVE  Range(o) = {Head(o)} \cup Range(Tail(o))
<1>1. /\ Len(o) \in Nat \ {0} /\ Head(o) = o[1] /\ Len(Tail(o)) = Len(o) - 1
      /\ \A i \in 1..(Len(o) - 1) : Tail(o)[i] = o[i + 1]
  BY HeadTailProperties
<1>2. ASSUME NEW s \in Range(o) PROVE s \in {Head(o)} \cup Range(Tail(o))
  <2>1. PICK i \in 1..Len(o) : s = o[i]
    BY DEF Range
  <2>2. CASE i = 1
    BY <1>1, <2>1, <2>2
  <2>3. CASE i # 1
    <3>1. i - 1 \in 1..(Len(o) - 1) /\ (i - 1) + 1 = i
      BY <1>1, <2>3
    <3>2. s = Tail(o)[i - 1] /\ i - 1 \in 1..Len(Tail(o))
      BY <1>1, <2>1, <3>1
    <3>3. Tail(o) \in Seq(S)
      OBVIOUS
    <3>4. i - 1 \in DOMAIN Tail(o)
      BY <3>2, <3>3
    <3> QED
      BY <3>2, <3>4 DEF Range
  <2> QED
    BY <2>2, <2>3
<1>3. ASSUME NEW s \in {Head(o)} \cup Range(Tail(o)) PROVE s \in Range(o)
  BY <1>3, RangeTail
<1> QED
  BY <1>2, <1>3

LEMMA RangeOne ==
  ASSUME NEW x
  PROVE  Range(<<x>>) = {x}
BY DEF Range

(* What the adapter yields for a raw event.                                *)
LEMMA AdaptFocus ==
  ASSUME NEW f \in OptWindow, NEW e \in RawEvent, NEW adapted \in Adapt(f, e)
  PROVE  /\ \A x \in Range(adapted) :
              /\ x.kind # "StateChanged"
              /\ x.kind \in {"FocusSignal", "FocusChanged"} =>
                    x.win = AdapterFocus(f, e) /\ x.win \in Windows
         /\ \/ AdapterFocus(f, e) = f
            \/ \E x \in Range(adapted) : x.kind = "FocusChanged"
<1>1. CASE e.kind = "input"
  <2>1. adapted = <<Env("Input", NoWindow)>> /\ AdapterFocus(f, e) = f
    BY <1>1 DEF Adapt, AdapterFocus
  <2>2. Range(adapted) = {Env("Input", NoWindow)}
    BY <2>1, RangeOne
  <2> QED
    BY <2>1, <2>2 DEF Env
<1>2. CASE e.kind = "focus" /\ e.win # f
  <2>1. adapted = FocusEnvelopes(e.win) /\ AdapterFocus(f, e) = e.win /\ e.win \in Windows
    BY <1>2 DEF Adapt, AdapterFocus, RawEvent
  <2>2. adapted = <<Env("FocusSignal", e.win), Env("FocusChanged", e.win)>>
        \/ adapted = <<Env("FocusSignal", e.win), Env("FocusChanged", e.win), Env("ActivityPulse", NoWindow)>>
    BY <2>1 DEF FocusEnvelopes
  <2>3. /\ \A x \in Range(adapted) :
             x \in {Env("FocusSignal", e.win), Env("FocusChanged", e.win), Env("ActivityPulse", NoWindow)}
        /\ Env("FocusChanged", e.win) \in Range(adapted)
    <3>1. CASE adapted = <<Env("FocusSignal", e.win), Env("FocusChanged", e.win)>>
      BY <3>1 DEF Range
    <3>2. CASE adapted = <<Env("FocusSignal", e.win), Env("FocusChanged", e.win), Env("ActivityPulse", NoWindow)>>
      BY <3>2 DEF Range
    <3> QED
      BY <2>2, <3>1, <3>2
  <2> QED
    BY <2>1, <2>3 DEF Env
<1>3. CASE e.kind = "focus" /\ e.win = f
  <2>1. (adapted = <<>> \/ adapted = <<Env("TitleChanged", e.win)>>) /\ AdapterFocus(f, e) = f
    BY <1>3 DEF Adapt, AdapterFocus
  <2>2. \A x \in Range(adapted) : x = Env("TitleChanged", e.win)
    BY <2>1, RangeOne, RangeEmpty
  <2> QED
    BY <2>1, <2>2 DEF Env
<1> QED
  BY <1>1, <1>2, <1>3 DEF RawEvent

(* What the lock deriver makes of an envelope: it, a lock or unlock        *)
(* signal, or nothing; a FocusChanged passes.                              *)
LEMMA LockFocus ==
  ASSUME NEW locked \in BOOLEAN, NEW e \in Envelope
  PROVE  /\ \A x \in Range(LockOutput(locked, e)) :
              x = e \/ x.kind \in {"LockStart", "LockEnd"}
         /\ e.kind = "FocusChanged" => e \in Range(LockOutput(locked, e))
<1> DEFINE o == LockOutput(locked, e)
<1>1. /\ \/ o = <<>> \/ o = <<Env("LockStart", NoWindow)>> \/ o = <<e>>
         \/ o = <<Env("LockEnd", NoWindow), e>>
      /\ e.kind = "FocusChanged" => o = <<e>>
  <2>1. CASE e.kind = "FocusSignal"
    BY <2>1 DEF LockOutput
  <2>2. CASE e.kind \in {"LockStart", "LockEnd", "FocusChanged"}
    BY <2>2 DEF LockOutput
  <2>3. CASE e.kind \notin {"FocusSignal", "LockStart", "LockEnd", "FocusChanged"}
    BY <2>3 DEF LockOutput
  <2> QED
    BY <2>1, <2>2, <2>3
<1> HIDE DEF o
<1>2. \A x \in Range(o) : x = e \/ x = Env("LockStart", NoWindow) \/ x = Env("LockEnd", NoWindow)
  <2>1. CASE o = <<>>
    BY <2>1, RangeEmpty
  <2>2. CASE o = <<Env("LockStart", NoWindow)>>
    BY <2>2, RangeOne
  <2>3. CASE o = <<e>>
    BY <2>3, RangeOne
  <2>4. CASE o = <<Env("LockEnd", NoWindow), e>>
    BY <2>4 DEF Range
  <2> QED
    BY <1>1, <2>1, <2>2, <2>3, <2>4
<1>3. Env("LockStart", NoWindow).kind = "LockStart" /\ Env("LockEnd", NoWindow).kind = "LockEnd"
  BY DEF Env
<1>4. e.kind = "FocusChanged" => e \in Range(o)
  BY <1>1, RangeOne
<1> QED
  BY <1>2, <1>3, <1>4 DEF o

(* The focus that a batch still has to report, step by step.               *)
LEMMA AdaptReports ==
  ASSUME TypeOK, AdaptEvent, NEW f, Reported(f)
  PROVE  Reported(f)'
<1>1. /\ work.raw # <<>> /\ work.adapted = <<>> /\ work.envs = <<>> /\ work \in Work
      /\ derive \in DeriveState
  BY DEF TypeOK, StagesOK, AdaptEvent
<1>2. Head(work.raw) \in RawEvent /\ derive.last_focus \in OptWindow
  BY <1>1 DEF Work, DeriveState
<1>3. PICK adapted \in Adapt(derive.last_focus, Head(work.raw)) :
        work' = [work EXCEPT !.raw = Tail(@), !.adapted = adapted]
  BY DEF AdaptEvent
<1>4. /\ work'.adapted = adapted
      /\ derive'.last_focus = AdapterFocus(derive.last_focus, Head(work.raw))
  BY <1>1, <1>3 DEF AdaptEvent, Work, DeriveState
<1>5. f = derive.last_focus
  BY <1>1, RangeEmpty DEF Reported
<1>6. \/ derive'.last_focus = derive.last_focus
      \/ \E x \in Range(work'.adapted) : x.kind = "FocusChanged"
  BY <1>2, <1>4, AdaptFocus
<1> QED
  BY <1>5, <1>6 DEF Reported

LEMMA LockReports ==
  ASSUME TypeOK, DeriveLock, NEW f, Reported(f)
  PROVE  Reported(f)'
<1>1. /\ work.adapted # <<>> /\ work.envs = <<>> /\ work \in Work /\ derive \in DeriveState
  BY DEF TypeOK, StagesOK, DeriveLock
<1>2. /\ work.adapted \in Seq(Envelope) /\ Head(work.adapted) \in Envelope
      /\ derive.locked \in BOOLEAN
  BY <1>1 DEF Work, DeriveState
<1>3. /\ work'.adapted = Tail(work.adapted)
      /\ work'.envs = LockOutput(derive.locked, Head(work.adapted))
      /\ derive'.last_focus = derive.last_focus
  BY <1>1 DEF DeriveLock, Work, DeriveState
<1>4. CASE f = derive.last_focus
  BY <1>3, <1>4 DEF Reported
<1>5. CASE \E e \in Range(work.adapted) \cup Range(work.envs) : e.kind = "FocusChanged"
  <2>1. PICK e \in Range(work.adapted) : e.kind = "FocusChanged"
    BY <1>1, <1>5, RangeEmpty
  <2>2. e \in Range(work'.adapted) \cup Range(work'.envs)
    BY <1>1, <1>2, <1>3, <2>1, RangeSplit, LockFocus
  <2> QED
    BY <2>1, <2>2 DEF Reported
<1> QED
  BY <1>4, <1>5 DEF Reported

(* An envelope is handled that is no FocusChanged.                         *)
LEMMA HandleReports ==
  ASSUME TypeOK, work.envs # <<>>, Head(work.envs).kind # "FocusChanged",
         work'.adapted = work.adapted, work'.envs = Tail(work.envs),
         derive'.last_focus = derive.last_focus, NEW f, Reported(f)
  PROVE  Reported(f)'
<1>1. work.envs \in Seq(Envelope)
  BY DEF TypeOK, StagesOK, Work
<1>2. Range(work.envs) = {Head(work.envs)} \cup Range(Tail(work.envs))
  BY <1>1, RangeSplit
<1> QED
  BY <1>2 DEF Reported

-----------------------------------------------------------------------------
(* hints: state and focus, from envelope to hints.                         *)

LEMMA HintWrites ==
  ASSUME TypeOK, NEW hh \in Nat, NEW hin \in Nat, NEW hin2 \in Nat, HintLink(hh, hin),
         UNCHANGED builder, NEW st, NEW sends, StageActs("envelope", st, sends),
         \A b \in View : b \in HintSent(hin) =>
            \E d \in View : /\ d \in HintSent(hin2)'
                            /\ Path(View, Sent(View, HintStep, "hints"), sends, b, d)
  PROVE  HintLink(hh, hin2)'
<1>1. ChannelsOK
  BY DEF TypeOK
<1>2. HintTaken(hh)' = HintTaken(hh)
  BY DEF HintTaken
<1>3. PICK a2, W2 : a2 = HintTaken(hh)' /\ W2 = HintSent(hin2)'
  OBVIOUS
<1>4. LinkNext(View, HintStep, "hints", "envelope", "hints", a2, W2)
  BY <1>1, <1>2, <1>3, HintShape, LinkWrites DEF HintLink
<1> QED
  BY <1>3, <1>4 DEF HintLink, Link, LinkNext

(* A step of the envelope stage that tells the hints stage nothing.        *)
LEMMA HintUntold ==
  ASSUME TypeOK, NEW hh \in Nat, NEW hin \in Nat, HintLink(hh, hin),
         UNCHANGED builder, NEW st, NEW sends, StageActs("envelope", st, sends),
         \A s \in Range(sends) : s.to # "hints",
         derive'.state = derive.state, \A f : Reported(f) => Reported(f)'
  PROVE  HintLink(hh, hin)'
<1>1. sends \in Seq(Send)
  BY DEF StageActs
<1>2. ASSUME NEW b \in View, b \in HintSent(hin)
      PROVE  /\ b \in HintSent(hin)'
             /\ Path(View, Sent(View, HintStep, "hints"), sends, b, b)
  <2>1. b \in HintSent(hin)'
    BY <1>2 DEF HintSent
  <2> QED
    BY <1>1, <2>1, SentElsewhere
<1> QED
  BY <1>2, HintWrites

LEMMA HintHandleHint ==
  ASSUME TypeOK, BatchInWork, NEW hh \in Nat, NEW hin \in Nat, HintLink(hh, hin), HandleHint,
         NEW hin2 \in Nat, hin2 = hin + 1
  PROVE  HintLink(hh, hin2)'
<1> DEFINE env == Head(work.envs)
           s == To("hints", env)
<1>1. /\ work.envs # <<>> /\ env \in Hint /\ StageActs("envelope", "run", <<s>>)
      /\ work' = [work EXCEPT !.envs = Tail(@), !.upd = HintUpd]
      /\ derive' = derive /\ builder' = builder
  BY HandleHintActs DEF HandleHint, EnvelopeUnchanged
<1>2. /\ work \in Work /\ work.envs \in Seq(Envelope) /\ derive.state \in ActivityState
      /\ derive.last_focus \in OptWindow
  BY DEF TypeOK, StagesOK, Work, DeriveState
<1>3. work'.envs = Tail(work.envs) /\ work'.adapted = work.adapted
  BY <1>1, <1>2 DEF Work
<1>4. s \in Send /\ s.to = "hints" /\ s.msg = env
  BY <1>1 DEF Send, To
<1>5. env \in Range(work.envs)
  BY <1>1, <1>2, RangeTail
<1>6. /\ env.kind # "StateChanged"
      /\ env.kind = "FocusChanged" => env.win = derive.last_focus
  BY <1>5 DEF BatchInWork
<1>7. ASSUME NEW f, Reported(f), env.kind # "FocusChanged" PROVE Reported(f)'
  BY <1>1, <1>3, <1>7, HandleReports
<1> HIDE DEF env, s
<1>8. ASSUME NEW b \in View, b \in HintSent(hin)
      PROVE  \E d \in View : /\ d \in HintSent(hin2)'
                             /\ Path(View, Sent(View, HintStep, "hints"), <<s>>, b, d)
  <2> PICK f \in OptWindow : f = IF env.kind = "FocusChanged" THEN derive.last_focus ELSE b.focus
    BY <1>2 DEF View
  <2> DEFINE d == [state |-> b.state, focus |-> f, hints |-> b.hints + 1]
  <2>1. b.state = derive.state /\ Reported(b.focus) /\ b.hints = hin
    BY <1>8 DEF HintSent
  <2>2. /\ d \in View /\ d.state = b.state /\ d.hints = b.hints + 1
        /\ d.focus = IF env.kind = "FocusChanged" THEN derive.last_focus ELSE b.focus
    BY <1>2 DEF View
  <2> HIDE DEF d
  <2>3. Reported(d.focus)'
    <3>1. CASE env.kind = "FocusChanged"
      BY <1>1, <2>2, <3>1 DEF Reported
    <3>2. CASE env.kind # "FocusChanged"
      BY <1>7, <2>1, <2>2, <3>2
    <3> QED
      BY <3>1, <3>2
  <2>4. d \in HintSent(hin2)'
    BY <1>1, <2>1, <2>2, <2>3 DEF HintSent
  <2>5. <<b, env, d>> \in HintStep
    BY <1>1, <1>6, <2>2 DEF HintStep
  <2>6. Path(View, Sent(View, HintStep, "hints"), <<s>>, b, d)
    BY <1>4, <2>2, <2>5, SentHere
  <2> QED
    BY <2>2, <2>4, <2>6
<1> QED
  BY <1>1, <1>8, HintWrites DEF s

LEMMA PairConcat ==
  ASSUME NEW x, NEW y
  PROVE  <<x, y>> = <<x>> \o <<y>>
<1> DEFINE s == <<x>> \o <<y>>
<1>1. <<x, y>> \in Seq({x, y}) /\ <<x>> \in Seq({x, y}) /\ <<y>> \in Seq({x, y})
  OBVIOUS
<1>2. s \in Seq({x, y}) /\ Len(s) = 2 /\ s[1] = x /\ s[2] = y
  BY <1>1
<1>3. Len(<<x, y>>) = 2 /\ <<x, y>>[1] = x /\ <<x, y>>[2] = y
  OBVIOUS
<1> HIDE DEF s
<1>4. \A i \in 1..2 : <<x, y>>[i] = s[i]
  BY <1>2, <1>3
<1>5. <<x, y>> = s
  BY <1>1, <1>2, <1>3, <1>4, SeqEqual
<1> QED
  BY <1>5 DEF s

(* A state change: a hint and an update.                                   *)
LEMMA HintStatePath ==
  ASSUME NEW upd \in PendingUpdate, NEW from \in ActivityState, NEW to \in ActivityState,
         NEW b \in View, NEW d \in View, b.state = from, d.state = to, d.focus = b.focus,
         d.hints = b.hints + (IF from = to THEN 0 ELSE 1)
  PROVE  Path(View, Sent(View, HintStep, "hints"), StateSends(upd, from, to), b, d)
<1>1. StateSends(upd, from, to) \in Seq(Send)
  BY StateSendsType
<1>2. CASE from = to
  <2>1. b = d
    BY <1>2 DEF View
  <2>2. StateSends(upd, from, to) = <<>>
    BY <1>2 DEF StateSends
  <2> QED
    BY <2>1, <2>2, PathEmpty
<1>3. CASE from # to
  <2> DEFINE s1 == To("hints", StateHint(to))
             s2 == To("snapshot", Update(upd.hints + 1, upd.signals, upd.focus,
                                         [from |-> from, to |-> to]))
  <2>1. StateSends(upd, from, to) = <<s1, s2>>
    BY <1>3 DEF StateSends
  <2>2. s1 \in Send /\ s2 \in Send
    <3> HIDE DEF s1, s2
    <3>1. <<s1, s2>> \in Seq(Send)
      BY <1>1, <2>1
    <3>2. Len(<<s1, s2>>) = 2 /\ <<s1, s2>>[1] = s1 /\ <<s1, s2>>[2] = s2
      OBVIOUS
    <3> QED
      BY <3>1, <3>2
  <2>3. s1.to = "hints" /\ s1.msg = StateHint(to) /\ s2.to # "hints"
    BY DEF To
  <2>4. StateHint(to) \in Hint /\ StateHint(to).kind = "StateChanged" /\ StateHint(to).to = to
    BY DEF StateHint, Hint, Envelope, IsSignal, SignalKind
  <2> HIDE DEF s1, s2
  <2>5. <<b, StateHint(to), d>> \in HintStep
    BY <1>3, <2>4 DEF HintStep
  <2>6. Path(View, Sent(View, HintStep, "hints"), <<s1>>, b, d)
    BY <2>2, <2>3, <2>5, SentHere
  <2>7. Path(View, Sent(View, HintStep, "hints"), <<s2>>, d, d)
    BY <2>2, <2>3, SentThereOne
  <2>8. <<s1>> \in Seq(Send) /\ <<s2>> \in Seq(Send)
    BY <2>2
  <2>9. <<s1, s2>> = <<s1>> \o <<s2>>
    BY PairConcat
  <2> QED
    BY <2>1, <2>6, <2>7, <2>8, <2>9, PathConcat
<1> QED
  BY <1>2, <1>3

LEMMA HintHandleSignal ==
  ASSUME TypeOK, NEW hh \in Nat, NEW hin \in Nat, HintLink(hh, hin), HandleSignal,
         NEW hin2 \in Nat, hin2 = hin + (IF derive.state = derive'.state THEN 0 ELSE 1)
  PROVE  HintLink(hh, hin2)'
<1>1. PICK to \in ActivityState :
           /\ work.envs # <<>> /\ IsSignal(Head(work.envs))
           /\ derive' = [derive EXCEPT !.state = to]
           /\ work' = [work EXCEPT !.envs = Tail(@),
                          !.upd = IF to = derive.state THEN SignalUpd ELSE NoUpdate]
           /\ StageActs("envelope", "run", SignalSends(to))
  BY HandleSignalActs
<1>2. /\ builder' = builder /\ work \in Work /\ derive \in DeriveState
      /\ derive.state \in ActivityState /\ derive.last_focus \in OptWindow
  BY DEF TypeOK, StagesOK, DeriveState, HandleSignal, EnvelopeUnchanged
<1>3. /\ work'.envs = Tail(work.envs) /\ work'.adapted = work.adapted
      /\ derive'.state = to /\ derive'.last_focus = derive.last_focus
  BY <1>1, <1>2 DEF Work, DeriveState
<1>4. Head(work.envs).kind # "FocusChanged"
  BY <1>1 DEF IsSignal, SignalKind
<1>5. \A f : Reported(f) => Reported(f)'
  BY <1>1, <1>3, <1>4, HandleReports
<1> DEFINE p == <<To("storage", EnvelopeCmd(Head(work.envs)))>>
           q == StateSends(SignalUpd, derive.state, to)
<1>6. SignalUpd \in PendingUpdate /\ q \in Seq(Send)
  BY <1>1, <1>2, SignalUpdType, StateSendsType
<1>7. EnvelopeCmd(Head(work.envs)) \in Message("storage")
  BY DEF EnvelopeCmd, IsSignal, Message, StorageMsg
<1>8. p \in Seq(Send) /\ \A s \in Range(p) : s.to # "hints"
  BY <1>7, ToSend, StageNames, RangeOne DEF To
<1>9. ASSUME NEW b \in View, b \in HintSent(hin)
      PROVE  \E d \in View : /\ d \in HintSent(hin2)'
                             /\ Path(View, Sent(View, HintStep, "hints"), SignalSends(to), b, d)
  <2> DEFINE d == [state |-> to, focus |-> b.focus, hints |-> hin2]
  <2>1. b.state = derive.state /\ Reported(b.focus) /\ b.hints = hin
    BY <1>9 DEF HintSent
  <2>2. d \in View /\ d.state = to /\ d.focus = b.focus /\ d.hints = hin2
    BY DEF View
  <2> HIDE DEF d
  <2>3. d \in HintSent(hin2)'
    BY <1>3, <1>5, <2>1, <2>2 DEF HintSent
  <2>4. d.hints = b.hints + (IF derive.state = to THEN 0 ELSE 1)
    BY <1>3, <2>1, <2>2
  <2> HIDE DEF p
  <2>5. Path(View, Sent(View, HintStep, "hints"), p, b, b)
    BY <1>8, SentElsewhere
  <2>6. Path(View, Sent(View, HintStep, "hints"), q, b, d)
    BY <1>2, <1>6, <2>1, <2>2, <2>4, HintStatePath
  <2> HIDE DEF q
  <2>7. Path(View, Sent(View, HintStep, "hints"), p \o q, b, d)
    BY <1>6, <1>8, <2>5, <2>6, PathConcat
  <2> QED
    BY <2>2, <2>3, <2>7 DEF SignalSends, p, q
<1> QED
  BY <1>1, <1>2, <1>9, HintWrites

LEMMA HintTakeTick ==
  ASSUME TypeOK, NEW hh \in Nat, NEW hin \in Nat, HintLink(hh, hin), TakeTick,
         NEW hin2 \in Nat, hin2 = hin + (IF derive.state = derive'.state THEN 0 ELSE 1)
  PROVE  HintLink(hh, hin2)'
<1>1. PICK to \in ActivityState :
           /\ derive' = [derive EXCEPT !.state = to]
           /\ StageActs("envelope", "run", TickSends(to))
  BY TakeTickActs
<1>2. /\ builder' = builder /\ work' = work /\ derive \in DeriveState
      /\ derive.state \in ActivityState /\ derive.last_focus \in OptWindow
  BY DEF TypeOK, StagesOK, DeriveState, TakeTick, EnvelopeUnchanged
<1>3. derive'.state = to /\ derive'.last_focus = derive.last_focus
  BY <1>1, <1>2 DEF DeriveState
<1>4. \A f : Reported(f) => Reported(f)'
  BY <1>2, <1>3 DEF Reported
<1> DEFINE p == StateSends(NoUpdate, derive.state, to)
           q == <<To("snapshot", Publish)>>
<1>5. NoUpdate \in PendingUpdate /\ p \in Seq(Send)
  BY <1>2, NoWorkType, StateSendsType
<1>6. q \in Seq(Send) /\ \A s \in Range(q) : s.to # "hints"
  BY PublishEmits, RangeOne DEF Emits, To
<1>7. ASSUME NEW b \in View, b \in HintSent(hin)
      PROVE  \E d \in View : /\ d \in HintSent(hin2)'
                             /\ Path(View, Sent(View, HintStep, "hints"), TickSends(to), b, d)
  <2> DEFINE d == [state |-> to, focus |-> b.focus, hints |-> hin2]
  <2>1. b.state = derive.state /\ Reported(b.focus) /\ b.hints = hin
    BY <1>7 DEF HintSent
  <2>2. d \in View /\ d.state = to /\ d.focus = b.focus /\ d.hints = hin2
    BY DEF View
  <2> HIDE DEF d
  <2>3. d \in HintSent(hin2)'
    BY <1>3, <1>4, <2>1, <2>2 DEF HintSent
  <2>4. d.hints = b.hints + (IF derive.state = to THEN 0 ELSE 1)
    BY <1>3, <2>1, <2>2
  <2>5. CASE to = derive.state
    <3>1. TickSends(to) = <<>> /\ b = d
      BY <2>1, <2>2, <2>4, <2>5 DEF TickSends, View
    <3>2. Path(View, Sent(View, HintStep, "hints"), TickSends(to), b, d)
      BY <3>1, PathEmpty
    <3> QED
      BY <2>2, <2>3, <3>2
  <2>6. CASE to # derive.state
    <3>1. Path(View, Sent(View, HintStep, "hints"), p, b, d)
      BY <1>2, <1>5, <2>1, <2>2, <2>4, HintStatePath
    <3> HIDE DEF p, q
    <3>2. Path(View, Sent(View, HintStep, "hints"), q, d, d)
      BY <1>6, <2>2, SentElsewhere
    <3>3. Path(View, Sent(View, HintStep, "hints"), p \o q, b, d)
      BY <1>5, <1>6, <3>1, <3>2, PathConcat
    <3>4. TickSends(to) = p \o q
      BY <2>6 DEF TickSends, p, q
    <3> QED
      BY <2>2, <2>3, <3>3, <3>4
  <2> QED
    BY <2>5, <2>6
<1> QED
  BY <1>1, <1>2, <1>7, HintWrites

(* The remaining steps of the envelope stage.                              *)
EnvelopeOther ==
  TakeBatch \/ AdaptEvent \/ DeriveLock \/ FinishBatch \/ TakeShutdown \/ EnvelopeClosed

(* They leave the state as it is, and report the focus.                    *)
LEMMA OtherReports ==
  ASSUME TypeOK, BatchInWork, EnvelopeOther
  PROVE  derive'.state = derive.state /\ \A f : Reported(f) => Reported(f)'
<1>1. work \in Work /\ derive \in DeriveState
  BY DEF TypeOK, StagesOK
<1>2. CASE TakeBatch
  <2>1. work = NoWork /\ derive' = derive
    BY <1>2 DEF TakeBatch, BatchInWork
  <2>2. work.adapted = <<>> /\ work.envs = <<>>
    BY <2>1 DEF NoWork
  <2> QED
    BY <2>1, <2>2, RangeEmpty DEF Reported
<1>3. CASE AdaptEvent
  BY <1>1, <1>3, AdaptReports DEF AdaptEvent, DeriveState
<1>4. CASE DeriveLock
  BY <1>1, <1>4, LockReports DEF DeriveLock, DeriveState
<1>5. CASE FinishBatch
  <2>1. work.adapted = <<>> /\ work.envs = <<>> /\ derive' = derive
    BY <1>5 DEF FinishBatch
  <2> QED
    BY <2>1, RangeEmpty DEF Reported
<1>6. CASE TakeShutdown \/ EnvelopeClosed
  <2>1. work' = work /\ derive' = derive
    BY <1>6 DEF TakeShutdown, EnvelopeClosed
  <2> QED
    BY <2>1 DEF Reported
<1> QED
  BY <1>2, <1>3, <1>4, <1>5, <1>6 DEF EnvelopeOther

LEMMA BatchSendsTo ==
  ASSUME TypeOK, FinishBatch
  PROVE  \A s \in Range(BatchSends) : s.to \in {"compression", "snapshot"}
<1> DEFINE j == <<To("compression", Process(work.batch))>>
           p == IF work.upd = NoUpdate THEN <<>> ELSE <<UpdateOf(work.upd)>>
           q == <<To("snapshot", Publish)>>
<1>1. /\ BatchSends = j \o p \o q /\ work.upd \in PendingUpdate /\ work.batch \in Seq(RawEvent)
  BY DEF BatchSends, TypeOK, StagesOK, Work
<1>2. j \in Seq(Send) /\ \A s \in Range(j) : s.to = "compression"
  BY <1>1, RangeOne DEF Send, To, Process, CompressionMsg
<1>3. UpdateOf(work.upd) \in Send
  <2>1. NoTransition \in OptTransition
    BY DEF OptTransition
  <2> QED
    BY <1>1, <2>1, UpdateType DEF UpdateOf, PendingUpdate
<1>4. p \in Seq(Send) /\ \A s \in Range(p) : s.to = "snapshot"
  BY <1>3, RangeEmpty, RangeOne DEF UpdateOf, To
<1>5. q \in Seq(Send) /\ \A s \in Range(q) : s.to = "snapshot"
  BY PublishEmits, RangeOne DEF Emits, To
<1> HIDE DEF j, p, q
<1>6. j \o p \in Seq(Send) /\ Range(j \o p) = Range(j) \cup Range(p)
  BY <1>2, <1>4, RangeConcatenation
<1>7. Range((j \o p) \o q) = Range(j \o p) \cup Range(q)
  <2>1. PICK r \in Seq(Send) : r = j \o p
    BY <1>6
  <2>2. Range(r \o q) = Range(r) \cup Range(q)
    BY <1>5, RangeConcatenation
  <2> QED
    BY <2>1, <2>2
<1> QED
  BY <1>1, <1>2, <1>4, <1>5, <1>6, <1>7

LEMMA OtherActsTo ==
  ASSUME TypeOK, EnvelopeOther, ~AdaptEvent, ~DeriveLock
  PROVE  \E st, sends : /\ StageActs("envelope", st, sends)
                        /\ \A s \in Range(sends) : s.to \in {"compression", "snapshot"}
<1>1. \A s \in Range(ByeSends) : s.to \in {"compression", "snapshot"}
  BY DEF ByeSends, Range, To
<1>2. \A s \in Range(<<>>) : s.to \in {"compression", "snapshot"}
  BY RangeEmpty
<1>3. CASE TakeBatch
  BY <1>2, <1>3, TakeBatchActs
<1>4. CASE FinishBatch
  BY <1>4, BatchSendsTo, FinishBatchActs
<1>5. CASE TakeShutdown
  BY <1>1, <1>5, TakeShutdownActs
<1>6. CASE EnvelopeClosed
  BY <1>2, <1>6, EnvelopeClosedActs
<1> QED
  BY <1>3, <1>4, <1>5, <1>6 DEF EnvelopeOther

LEMMA HintOther ==
  ASSUME TypeOK, BatchInWork, NEW hh \in Nat, NEW hin \in Nat, HintLink(hh, hin), EnvelopeOther
  PROVE  HintLink(hh, hin)'
<1>1. builder' = builder
  BY DEF EnvelopeOther, TakeBatch, AdaptEvent, DeriveLock, FinishBatch, TakeShutdown, EnvelopeClosed,
         EnvelopeUnchanged
<1>2. derive'.state = derive.state /\ \A f : Reported(f) => Reported(f)'
  BY OtherReports
<1>3. CASE AdaptEvent \/ DeriveLock
  <2>1. UNCHANGED <<status, queue, out>>
    BY <1>3 DEF AdaptEvent, DeriveLock
  <2>2. HintTaken(hh)' = HintTaken(hh) /\ HintSent(hin) \subseteq HintSent(hin)'
    BY <1>1, <1>2 DEF HintTaken, HintSent
  <2>3. PICK a2, W, W2 : a2 = HintTaken(hh)' /\ W = HintSent(hin) /\ W2 = HintSent(hin)'
    OBVIOUS
  <2>4. Link(View, HintStep, "hints", "envelope", "hints", a2, W)
    BY <2>2, <2>3 DEF HintLink
  <2>5. LinkNext(View, HintStep, "hints", "envelope", "hints", a2, W)
    BY <2>1, <2>4, LinkElsewhere
  <2>6. LinkNext(View, HintStep, "hints", "envelope", "hints", a2, W2)
    BY <2>2, <2>3, <2>5, LinkWeaken
  <2> QED
    BY <2>3, <2>6 DEF HintLink, Link, LinkNext
<1>4. CASE ~AdaptEvent /\ ~DeriveLock
  <2>1. PICK st, sends : /\ StageActs("envelope", st, sends)
                         /\ \A s \in Range(sends) : s.to \in {"compression", "snapshot"}
    BY <1>4, OtherActsTo
  <2> QED
    BY <1>1, <1>2, <2>1, HintUntold
<1> QED
  BY <1>3, <1>4

LEMMA HintReads ==
  ASSUME TypeOK, NEW hh \in Nat, NEW hin \in Nat, HintLink(hh, hin), HintsRecv,
         NEW h2 \in Nat, h2 = hh + 1
  PROVE  HintLink(h2, hin)'
<1>1. /\ queue["hints"] # <<>> /\ TheHint \in Hint /\ Msg("hints") = TheHint
      /\ builder \in RecordBuilder /\ builder' = OnHint(builder, TheHint)
      /\ Takes("hints", "run", HintSends) /\ StageActs("hints", "run", HintSends)
  BY HintsRecvActs
<1>2. ChannelsOK /\ UNCHANGED <<work, derive>>
  BY DEF TypeOK, HintsRecv, HintsUnchanged
<1>3. /\ builder'.state = IF TheHint.kind = "StateChanged" THEN TheHint.to ELSE builder.state
      /\ builder'.focus = IF TheHint.kind = "FocusChanged" THEN TheHint.win ELSE builder.focus
  BY <1>1 DEF OnHint, Ignores, RecordBuilder
<1>4. PICK a, a2, W, sends : /\ a = HintTaken(hh) /\ a2 = HintTaken(h2)' /\ W = HintSent(hin)
                             /\ sends = HintSends
  OBVIOUS
<1>5. HintSent(hin)' = W
  BY <1>2, <1>4 DEF HintSent, Reported
<1>6. ASSUME NEW d \in View, <<a, Msg("hints"), d>> \in HintStep PROVE d = a2
  <2>1. /\ d.state = builder'.state /\ d.focus = builder'.focus /\ d.hints = hh + 1
    BY <1>1, <1>3, <1>4, <1>6 DEF HintStep, HintTaken
  <2>2. d = [state |-> d.state, focus |-> d.focus, hints |-> d.hints]
    BY DEF View
  <2>3. a2 = [state |-> builder'.state, focus |-> builder'.focus, hints |-> h2]
    BY <1>4 DEF HintTaken
  <2> QED
    BY <2>1, <2>2, <2>3
<1>7. \A s \in Range(sends) : s.to # "hints"
  BY <1>1, <1>4 DEF StageActs, MayEmit
<1>8. Link(View, HintStep, "hints", "envelope", "hints", a, W)
  BY <1>4 DEF HintLink
<1>9. LinkNext(View, HintStep, "hints", "envelope", "hints", a2, W)
  BY <1>1, <1>2, <1>4, <1>6, <1>7, <1>8, HintShape, LinkReads
<1> QED
  BY <1>4, <1>5, <1>9 DEF HintLink, Link, LinkNext

LEMMA HintLeaves ==
  ASSUME TypeOK, DrainInv, NEW hh \in Nat, NEW hin \in Nat, HintLink(hh, hin), HintsClosed
  PROVE  HintLink(hh, hin)'
<1>1. /\ builder \in RecordBuilder /\ builder' = [builder EXCEPT !.open = FALSE]
      /\ StageActs("hints", "last", LastSends)
  BY HintsClosedActs
<1>2. ChannelsOK /\ UNCHANGED <<work, derive>> /\ status["hints"] = "run"
  BY DEF TypeOK, HintsClosed, HintsUnchanged, Running
<1>3. queue["hints"] = <<>> /\ Gone("envelope")
  BY DEF HintsClosed, Closed, Senders, Chan
<1>4. out["envelope"] = <<>> /\ status["envelope"] # "run"
  BY <1>3, StageNames DEF DrainInv, GoneIsSilent, Gone
<1>5. PICK a, W, sends : a = HintTaken(hh) /\ W = HintSent(hin) /\ sends = LastSends
  OBVIOUS
<1>6. HintTaken(hh)' = a /\ HintSent(hin)' = W
  BY <1>1, <1>2, <1>5 DEF HintTaken, HintSent, Reported, RecordBuilder
<1>7. Link(View, HintStep, "hints", "envelope", "hints", a, W)
  BY <1>5 DEF HintLink
<1>8. NoPanic => Finished("hints", "envelope") /\ a \in W
  BY <1>2, <1>3, <1>4, <1>7, LinkDry, RangeEmpty DEF Finished
<1>9. LinkNext(View, HintStep, "hints", "envelope", "hints", a, W)
  BY <1>1, <1>2, <1>5, <1>8, HintShape, LinkLeaves
<1> QED
  BY <1>5, <1>6, <1>9 DEF HintLink, Link, LinkNext

-----------------------------------------------------------------------------
(* snapshot: what is published, from envelope to snapshot.                 *)

LEMMA SeenWrites ==
  ASSUME TypeOK, NEW sig \in Nat, NEW hin \in Nat, NEW sig2 \in Nat, NEW hin2 \in Nat,
         SeenLink(sig, hin), UNCHANGED snap, NEW st, NEW sends, StageActs("envelope", st, sends),
         \A b \in Seen : b \in SeenSent(sig, hin) =>
            \E d \in Seen : /\ d \in SeenSent(sig2, hin2)'
                            /\ Path(Seen, Sent(Seen, SeenStep, "snapshot"), sends, b, d)
  PROVE  SeenLink(sig2, hin2)'
<1>1. ChannelsOK
  BY DEF TypeOK
<1>2. SeenTaken' = SeenTaken
  BY DEF SeenTaken
<1>3. PICK a2, W2 : a2 = SeenTaken' /\ W2 = SeenSent(sig2, hin2)'
  OBVIOUS
<1>4. LinkNext(Seen, SeenStep, "snapshot", "envelope", "snapshot", a2, W2)
  BY <1>1, <1>2, <1>3, SeenShape, LinkWrites DEF SeenLink
<1> QED
  BY <1>3, <1>4 DEF SeenLink, Link, LinkNext

(* The focus that an update leaves.                                        *)
Newer(f, new) == IF new = NoWindow THEN f ELSE new

LEMMA NewerType ==
  ASSUME NEW f \in OptWindow, NEW new \in OptWindow
  PROVE  Newer(f, new) \in OptWindow
BY DEF Newer

LEMMA SeenUpdatePath ==
  ASSUME NEW upd \in PendingUpdate, NEW b \in Seen, NEW d \in Seen, b.phase = "open",
         d.state = b.state, d.focus = Newer(b.focus, upd.focus),
         d.hints = b.hints + upd.hints, d.signals = b.signals + upd.signals, d.phase = "open"
  PROVE  Path(Seen, Sent(Seen, SeenStep, "snapshot"), <<UpdateOf(upd)>>, b, d)
<1> DEFINE m == Update(upd.hints, upd.signals, upd.focus, NoTransition)
<1>1. NoTransition \in OptTransition
  BY DEF OptTransition
<1>2. m \in SnapshotMsg
  BY <1>1 DEF Update, SnapshotMsg, PendingUpdate
<1>3. /\ m.kind = "Update" /\ m.hints = upd.hints /\ m.signals = upd.signals
      /\ m.focus = upd.focus /\ m.tr = NoTransition
  BY DEF Update
<1>4. UpdateOf(upd).to = "snapshot" /\ UpdateOf(upd).msg = m
  BY DEF UpdateOf, To
<1>5. UpdateOf(upd) \in Send
  BY <1>1, UpdateType DEF UpdateOf, PendingUpdate
<1> HIDE DEF m
<1>6. Seeing(b, m, d)
  BY <1>3 DEF Seeing, Newer
<1>7. <<b, m, d>> \in SeenStep
  BY <1>2, <1>3, <1>6 DEF SeenStep
<1> QED
  BY <1>4, <1>5, <1>7, SentHere

LEMMA SeenStatePath ==
  ASSUME NEW upd \in PendingUpdate, NEW from \in ActivityState, NEW to \in ActivityState,
         from # to, NEW b \in Seen, NEW d \in Seen, b.phase = "open", b.state = from,
         d.state = to, d.focus = Newer(b.focus, upd.focus),
         d.hints = b.hints + upd.hints + 1, d.signals = b.signals + upd.signals, d.phase = "open"
  PROVE  Path(Seen, Sent(Seen, SeenStep, "snapshot"), StateSends(upd, from, to), b, d)
<1> DEFINE tr == [from |-> from, to |-> to]
           m == Update(upd.hints + 1, upd.signals, upd.focus, tr)
           s1 == To("hints", StateHint(to))
           s2 == To("snapshot", m)
<1>1. StateSends(upd, from, to) = <<s1, s2>>
  BY DEF StateSends
<1>2. tr \in Transition /\ tr \in OptTransition /\ tr # NoTransition /\ tr.from = from /\ tr.to = to
  BY DEF Transition, OptTransition, NoTransition, NoState, ActivityState
<1> HIDE DEF tr
<1>3. m \in SnapshotMsg
  BY <1>2 DEF Update, SnapshotMsg, PendingUpdate
<1>4. /\ m.kind = "Update" /\ m.hints = upd.hints + 1 /\ m.signals = upd.signals
      /\ m.focus = upd.focus /\ m.tr = tr
  BY DEF Update
<1> HIDE DEF m
<1>5. StateHint(to) \in Hint
  BY DEF StateHint, Hint, Envelope, IsSignal, SignalKind
<1>6. /\ s1 \in Send /\ s2 \in Send /\ s1.to # "snapshot" /\ s2.to = "snapshot" /\ s2.msg = m
  BY <1>3, <1>5 DEF Send, To
<1> HIDE DEF s1, s2
<1>7. Seeing(b, m, d)
  BY <1>2, <1>4 DEF Seeing, Newer, Seen, PendingUpdate
<1>8. <<b, m, d>> \in SeenStep
  BY <1>3, <1>4, <1>7 DEF SeenStep
<1>9. Path(Seen, Sent(Seen, SeenStep, "snapshot"), <<s1>>, b, b)
  BY <1>6, SentThereOne
<1>10. Path(Seen, Sent(Seen, SeenStep, "snapshot"), <<s2>>, b, d)
  BY <1>6, <1>8, SentHere
<1>11. <<s1>> \in Seq(Send) /\ <<s2>> \in Seq(Send)
  BY <1>6
<1>12. <<s1, s2>> = <<s1>> \o <<s2>>
  BY PairConcat
<1> QED
  BY <1>1, <1>9, <1>10, <1>11, <1>12, PathConcat

LEMMA SeenPlainPaths ==
  ASSUME NEW b \in Seen, b.phase = "open"
  PROVE  /\ Path(Seen, Sent(Seen, SeenStep, "snapshot"), <<To("snapshot", Publish)>>, b, b)
         /\ \A d \in Seen :
              d = [b EXCEPT !.phase = "closed"] =>
                 Path(Seen, Sent(Seen, SeenStep, "snapshot"), <<To("snapshot", Shutdown)>>, b, d)
<1>1. /\ Publish \in SnapshotMsg /\ Shutdown \in SnapshotMsg
      /\ Publish.kind = "Publish" /\ Shutdown.kind = "Shutdown"
  BY DEF SnapshotMsg, Publish, Shutdown
<1>2. /\ To("snapshot", Publish) \in Send /\ To("snapshot", Shutdown) \in Send
      /\ To("snapshot", Publish).to = "snapshot" /\ To("snapshot", Publish).msg = Publish
      /\ To("snapshot", Shutdown).to = "snapshot" /\ To("snapshot", Shutdown).msg = Shutdown
  BY <1>1 DEF Send, To
<1>3. <<b, Publish, b>> \in SeenStep
  BY <1>1 DEF SeenStep
<1>4. ASSUME NEW d \in Seen, d = [b EXCEPT !.phase = "closed"]
      PROVE  <<b, Shutdown, d>> \in SeenStep
  BY <1>1, <1>4 DEF SeenStep
<1> QED
  BY <1>2, <1>3, <1>4, SentHere

(* A step that tells the snapshot stage nothing.                           *)
LEMMA SeenUntold ==
  ASSUME TypeOK, NEW sig \in Nat, NEW hin \in Nat, NEW sig2 \in Nat, NEW hin2 \in Nat,
         SeenLink(sig, hin), UNCHANGED snap, NEW st, NEW sends, StageActs("envelope", st, sends),
         \A s \in Range(sends) : s.to # "snapshot", derive'.state = derive.state,
         \A f : Reported(Newer(f, work.upd.focus)) => Reported(Newer(f, work.upd.focus))',
         \A h \in Nat : h + work.upd.hints = hin => h + work'.upd.hints = hin2,
         \A n \in Nat : n + work.upd.signals = sig => n + work'.upd.signals = sig2
  PROVE  SeenLink(sig2, hin2)'
<1>1. sends \in Seq(Send) /\ status["envelope"] = "run"
  BY DEF StageActs
<1>2. ASSUME NEW b \in Seen, b \in SeenSent(sig, hin)
      PROVE  /\ b \in SeenSent(sig2, hin2)'
             /\ Path(Seen, Sent(Seen, SeenStep, "snapshot"), sends, b, b)
  <2>1. /\ b.state = derive.state /\ Reported(Newer(b.focus, work.upd.focus))
        /\ b.hints + work.upd.hints = hin /\ b.signals + work.upd.signals = sig
        /\ b.phase = "open" /\ b.hints \in Nat /\ b.signals \in Nat
    BY <1>1, <1>2 DEF SeenSent, Newer, Seen
  <2>2. Reported(Newer(b.focus, work.upd.focus))'
    BY <2>1
  <2>3. b \in SeenSent(sig2, hin2)'
    BY <2>1, <2>2 DEF SeenSent, Newer
  <2> QED
    BY <1>1, <2>3, SentElsewhere
<1> QED
  BY <1>2, SeenWrites

LEMMA SeenHandleHint ==
  ASSUME TypeOK, BatchInWork, NEW sig \in Nat, NEW hin \in Nat, SeenLink(sig, hin), HandleHint,
         NEW hin2 \in Nat, hin2 = hin + 1
  PROVE  SeenLink(sig, hin2)'
<1> DEFINE env == Head(work.envs)
<1>1. /\ work.envs # <<>> /\ env \in Hint /\ StageActs("envelope", "run", <<To("hints", env)>>)
      /\ work' = [work EXCEPT !.envs = Tail(@), !.upd = HintUpd]
      /\ derive' = derive /\ snap' = snap
  BY HandleHintActs DEF HandleHint, EnvelopeUnchanged
<1>2. /\ work \in Work /\ work.envs \in Seq(Envelope) /\ work.upd \in PendingUpdate
  BY DEF TypeOK, StagesOK, Work
<1>3. /\ work'.envs = Tail(work.envs) /\ work'.adapted = work.adapted /\ work'.upd = HintUpd
  BY <1>1, <1>2 DEF Work
<1>4. env \in Range(work.envs)
  BY <1>1, <1>2, RangeTail
<1>5. env.kind = "FocusChanged" => env.win = derive.last_focus /\ env.win \in Windows
  BY <1>4 DEF BatchInWork
<1>6. env.kind # "FocusSignal"
  BY <1>1 DEF Hint, IsSignal, SignalKind
<1>7. /\ HintUpd.hints = work.upd.hints + 1 /\ HintUpd.signals = work.upd.signals
      /\ HintUpd.focus = IF env.kind = "FocusChanged" THEN env.win ELSE work.upd.focus
  BY <1>2, <1>6 DEF HintUpd, WithFocus, PendingUpdate
<1>8. ASSUME NEW f, Reported(f), env.kind # "FocusChanged" PROVE Reported(f)'
  BY <1>1, <1>3, <1>8, HandleReports
<1>9. \A s \in Range(<<To("hints", env)>>) : s.to # "snapshot"
  BY RangeOne DEF To
<1> HIDE DEF env
<1>10. ASSUME NEW f, Reported(Newer(f, work.upd.focus)) PROVE Reported(Newer(f, work.upd.focus))'
  <2>1. CASE env.kind = "FocusChanged"
    <3>1. NoWindow \notin Windows
      BY WindowsAssumption
    <3>2. work'.upd.focus = derive.last_focus /\ work'.upd.focus # NoWindow
      BY <1>3, <1>5, <1>7, <2>1, <3>1
    <3>3. Newer(f, work'.upd.focus) = derive'.last_focus
      BY <1>1, <3>2 DEF Newer
    <3> QED
      BY <3>3 DEF Reported
  <2>2. CASE env.kind # "FocusChanged"
    <3>1. PICK g : g = Newer(f, work.upd.focus)
      OBVIOUS
    <3>2. Newer(f, work'.upd.focus) = g
      BY <1>3, <1>7, <2>2, <3>1
    <3>3. Reported(g)'
      BY <1>8, <1>10, <2>2, <3>1
    <3> QED
      BY <3>2, <3>3 DEF Reported
  <2> QED
    BY <2>1, <2>2
<1>11. work.upd.hints \in Nat /\ work.upd.signals \in Nat
  BY <1>2 DEF PendingUpdate
<1>12. \A h \in Nat : h + work.upd.hints = hin => h + work'.upd.hints = hin2
  BY <1>3, <1>7, <1>11
<1>13. work'.upd.signals = work.upd.signals
  BY <1>3, <1>7
<1> QED
  BY <1>1, <1>9, <1>10, <1>12, <1>13, SeenUntold DEF env

LEMMA SeenHandleSignal ==
  ASSUME TypeOK, BatchInWork, NEW sig \in Nat, NEW hin \in Nat, SeenLink(sig, hin), HandleSignal,
         NEW sig2 \in Nat, sig2 = sig + 1,
         NEW hin2 \in Nat, hin2 = hin + (IF derive.state = derive'.state THEN 0 ELSE 1)
  PROVE  SeenLink(sig2, hin2)'
<1> DEFINE env == Head(work.envs)
<1>1. PICK to \in ActivityState :
           /\ work.envs # <<>> /\ IsSignal(env)
           /\ derive' = [derive EXCEPT !.state = to]
           /\ work' = [work EXCEPT !.envs = Tail(@),
                          !.upd = IF to = derive.state THEN SignalUpd ELSE NoUpdate]
           /\ StageActs("envelope", "run", SignalSends(to))
  BY HandleSignalActs
<1>2. /\ snap' = snap /\ work \in Work /\ derive \in DeriveState /\ work.envs \in Seq(Envelope)
      /\ work.upd \in PendingUpdate /\ derive.state \in ActivityState
  BY DEF TypeOK, StagesOK, DeriveState, Work, HandleSignal, EnvelopeUnchanged
<1>3. /\ work'.envs = Tail(work.envs) /\ work'.adapted = work.adapted
      /\ work'.upd = IF to = derive.state THEN SignalUpd ELSE NoUpdate
      /\ derive'.state = to /\ derive'.last_focus = derive.last_focus
  BY <1>1, <1>2 DEF Work, DeriveState
<1>4. env.kind # "FocusChanged" /\ env \in Range(work.envs)
  BY <1>1, <1>2, RangeTail DEF IsSignal, SignalKind
<1>5. env.kind = "FocusSignal" => env.win = derive.last_focus /\ env.win \in Windows
  BY <1>4 DEF BatchInWork
<1>6. /\ SignalUpd.hints = work.upd.hints /\ SignalUpd.signals = work.upd.signals + 1
      /\ SignalUpd.focus = IF env.kind = "FocusSignal" THEN env.win ELSE work.upd.focus
      /\ SignalUpd \in PendingUpdate
  BY <1>1, <1>2, <1>4, SignalUpdType DEF SignalUpd, WithFocus, PendingUpdate
<1>7. ASSUME NEW f, Reported(f) PROVE Reported(f)'
  BY <1>1, <1>3, <1>4, <1>7, HandleReports
<1> HIDE DEF env
<1>8. ASSUME NEW f, Reported(Newer(f, work.upd.focus)), NEW g, g = Newer(f, SignalUpd.focus)
      PROVE  Reported(g)'
  <2>1. CASE env.kind = "FocusSignal"
    <3>1. NoWindow \notin Windows
      BY WindowsAssumption
    <3>2. g = derive'.last_focus
      BY <1>3, <1>5, <1>6, <1>8, <2>1, <3>1 DEF Newer
    <3> QED
      BY <3>2 DEF Reported
  <2>2. CASE env.kind # "FocusSignal"
    BY <1>6, <1>7, <1>8, <2>2
  <2> QED
    BY <2>1, <2>2
<1>9. work.upd.hints \in Nat /\ work.upd.signals \in Nat /\ SignalUpd.focus \in OptWindow
  BY <1>2, <1>6 DEF PendingUpdate
<1>10. CASE to = derive.state
  <2>1. work'.upd = SignalUpd /\ hin2 = hin /\ derive'.state = derive.state
    BY <1>3, <1>10
  <2>2. \A f : Reported(Newer(f, work.upd.focus)) => Reported(Newer(f, work.upd.focus))'
    <3> SUFFICES ASSUME NEW f, Reported(Newer(f, work.upd.focus))
                 PROVE  Reported(Newer(f, work.upd.focus))'
      OBVIOUS
    <3>1. PICK g : g = Newer(f, SignalUpd.focus)
      OBVIOUS
    <3>2. Reported(g)'
      BY <1>8, <3>1
    <3>3. Newer(f, work'.upd.focus) = g
      BY <2>1, <3>1
    <3> QED
      BY <3>2, <3>3 DEF Reported
  <2>3. /\ \A h \in Nat : h + work.upd.hints = hin => h + work'.upd.hints = hin2
        /\ \A n \in Nat : n + work.upd.signals = sig => n + work'.upd.signals = sig2
    BY <1>6, <1>9, <2>1
  <2>4. \A s \in Range(SignalSends(to)) : s.to # "snapshot"
    <3>1. StateSends(SignalUpd, derive.state, to) = <<>>
      BY <1>10 DEF StateSends
    <3>2. SignalSends(to) = <<To("storage", EnvelopeCmd(env))>> \o <<>>
      BY <3>1 DEF SignalSends, env
    <3>3. <<To("storage", EnvelopeCmd(env))>> \o <<>> = <<To("storage", EnvelopeCmd(env))>>
      OBVIOUS
    <3> QED
      BY <3>2, <3>3, RangeOne DEF To
  <2> QED
    BY <1>1, <1>2, <2>1, <2>2, <2>3, <2>4, SeenUntold
<1>11. CASE to # derive.state
  <2> DEFINE p == <<To("storage", EnvelopeCmd(env))>>
             q == StateSends(SignalUpd, derive.state, to)
  <2>1. /\ work'.upd = NoUpdate /\ hin2 = hin + 1
    BY <1>3, <1>11
  <2>2. EnvelopeCmd(env) \in Message("storage")
    BY DEF EnvelopeCmd, IsSignal, Message, StorageMsg
  <2>3. p \in Seq(Send) /\ \A s \in Range(p) : s.to # "snapshot"
    BY <2>2, ToSend, StageNames, RangeOne DEF To
  <2>4. q \in Seq(Send)
    BY <1>2, <1>6, StateSendsType
  <2>5. ASSUME NEW b \in Seen, b \in SeenSent(sig, hin)
        PROVE  \E d \in Seen : /\ d \in SeenSent(sig2, hin2)'
                               /\ Path(Seen, Sent(Seen, SeenStep, "snapshot"), SignalSends(to), b, d)
    <3>1. status["envelope"] = "run"
      BY <1>1 DEF StageActs
    <3>2. /\ b.state = derive.state /\ Reported(Newer(b.focus, work.upd.focus))
          /\ b.hints + work.upd.hints = hin /\ b.signals + work.upd.signals = sig
          /\ b.phase = "open" /\ b.hints \in Nat /\ b.signals \in Nat /\ b.focus \in OptWindow
      BY <2>5, <3>1 DEF SeenSent, Newer, Seen
    <3>3. PICK g \in OptWindow : g = Newer(b.focus, SignalUpd.focus)
      BY <1>9, <3>2, NewerType
    <3>4. Reported(g)'
      BY <1>8, <3>2, <3>3
    <3> DEFINE d == [state |-> to, focus |-> g, hints |-> hin2, signals |-> sig2, phase |-> "open"]
    <3>5. /\ d \in Seen /\ d.state = to /\ d.focus = g /\ d.hints = hin2 /\ d.signals = sig2
          /\ d.phase = "open"
      BY DEF Seen, Phase
    <3> HIDE DEF d
    <3>6. d \in SeenSent(sig2, hin2)'
      BY <1>3, <2>1, <3>4, <3>5 DEF SeenSent, NoUpdate
    <3>7. /\ d.hints = b.hints + SignalUpd.hints + 1
          /\ d.signals = b.signals + SignalUpd.signals
      BY <1>6, <1>9, <2>1, <3>2, <3>5
    <3>8. Path(Seen, Sent(Seen, SeenStep, "snapshot"), q, b, d)
      BY <1>2, <1>6, <1>11, <3>2, <3>3, <3>5, <3>7, SeenStatePath
    <3> HIDE DEF p, q
    <3>9. Path(Seen, Sent(Seen, SeenStep, "snapshot"), p, b, b)
      BY <2>3, SentElsewhere
    <3>10. Path(Seen, Sent(Seen, SeenStep, "snapshot"), p \o q, b, d)
      BY <2>3, <2>4, <3>8, <3>9, PathConcat
    <3> QED
      BY <3>5, <3>6, <3>10 DEF SignalSends, p, q, env
  <2> QED
    BY <1>1, <1>2, <2>5, SeenWrites
<1> QED
  BY <1>10, <1>11

LEMMA SeenTakeTick ==
  ASSUME TypeOK, BatchInWork, NEW sig \in Nat, NEW hin \in Nat, SeenLink(sig, hin), TakeTick,
         NEW hin2 \in Nat, hin2 = hin + (IF derive.state = derive'.state THEN 0 ELSE 1)
  PROVE  SeenLink(sig, hin2)'
<1>1. PICK to \in ActivityState :
           /\ derive' = [derive EXCEPT !.state = to]
           /\ StageActs("envelope", "run", TickSends(to))
  BY TakeTickActs
<1>2. /\ snap' = snap /\ work' = work /\ derive \in DeriveState /\ derive.state \in ActivityState
      /\ work = NoWork
  BY DEF TypeOK, StagesOK, DeriveState, TakeTick, EnvelopeUnchanged, BatchInWork
<1>3. derive'.state = to /\ derive'.last_focus = derive.last_focus
  BY <1>1, <1>2 DEF DeriveState
<1>4. /\ work.upd.focus = NoWindow /\ work.upd.hints = 0 /\ work.upd.signals = 0
  BY <1>2 DEF NoWork, NoUpdate
<1>5. \A f : Reported(f) => Reported(f)'
  BY <1>2, <1>3 DEF Reported
<1>6. CASE to = derive.state
  <2>1. \A s \in Range(TickSends(to)) : s.to # "snapshot"
    BY <1>6, RangeEmpty DEF TickSends
  <2>2. hin2 = hin /\ derive'.state = derive.state
    BY <1>3, <1>6
  <2>3. \A f : Reported(Newer(f, work.upd.focus)) => Reported(Newer(f, work.upd.focus))'
    BY <1>2, <1>5 DEF Reported
  <2> QED
    BY <1>1, <1>2, <2>1, <2>2, <2>3, SeenUntold
<1>7. CASE to # derive.state
  <2> DEFINE p == StateSends(NoUpdate, derive.state, to)
             q == <<To("snapshot", Publish)>>
  <2>1. NoUpdate \in PendingUpdate /\ p \in Seq(Send)
    BY <1>2, NoWorkType, StateSendsType
  <2>2. q \in Seq(Send) /\ TickSends(to) = p \o q
    BY <1>7, PublishEmits DEF Emits, TickSends
  <2>3. ASSUME NEW b \in Seen, b \in SeenSent(sig, hin)
        PROVE  \E d \in Seen : /\ d \in SeenSent(sig, hin2)'
                               /\ Path(Seen, Sent(Seen, SeenStep, "snapshot"), TickSends(to), b, d)
    <3>1. status["envelope"] = "run"
      BY <1>1 DEF StageActs
    <3>2. /\ b.state = derive.state /\ Reported(b.focus)
          /\ b.hints = hin /\ b.signals = sig
          /\ b.phase = "open" /\ b.hints \in Nat /\ b.signals \in Nat /\ b.focus \in OptWindow
      BY <1>4, <2>3, <3>1 DEF SeenSent, Seen
    <3> DEFINE d == [state |-> to, focus |-> b.focus, hints |-> hin2, signals |-> sig,
                     phase |-> "open"]
    <3>3. /\ d \in Seen /\ d.state = to /\ d.focus = b.focus /\ d.hints = hin2 /\ d.signals = sig
          /\ d.phase = "open"
      BY <3>2 DEF Seen, Phase
    <3> HIDE DEF d
    <3>4. d \in SeenSent(sig, hin2)'
      BY <1>2, <1>3, <1>4, <1>5, <3>2, <3>3 DEF SeenSent
    <3>5. /\ d.hints = b.hints + NoUpdate.hints + 1
          /\ d.signals = b.signals + NoUpdate.signals /\ d.focus = Newer(b.focus, NoUpdate.focus)
      BY <1>3, <1>7, <3>2, <3>3 DEF NoUpdate, Newer
    <3>6. Path(Seen, Sent(Seen, SeenStep, "snapshot"), p, b, d)
      BY <1>2, <1>7, <2>1, <3>2, <3>3, <3>5, SeenStatePath
    <3>7. Path(Seen, Sent(Seen, SeenStep, "snapshot"), q, d, d)
      BY <3>3, SeenPlainPaths
    <3> HIDE DEF p, q
    <3>8. Path(Seen, Sent(Seen, SeenStep, "snapshot"), p \o q, b, d)
      BY <2>1, <2>2, <3>6, <3>7, PathConcat
    <3> QED
      BY <2>2, <3>3, <3>4, <3>8
  <2> QED
    BY <1>1, <1>2, <2>3, SeenWrites
<1> QED
  BY <1>6, <1>7

LEMMA SeenFinish ==
  ASSUME TypeOK, NEW sig \in Nat, NEW hin \in Nat, SeenLink(sig, hin), FinishBatch
  PROVE  SeenLink(sig, hin)'
<1> DEFINE j == <<To("compression", Process(work.batch))>>
           p == IF work.upd = NoUpdate THEN <<>> ELSE <<UpdateOf(work.upd)>>
           q == <<To("snapshot", Publish)>>
<1>1. /\ StageActs("envelope", "run", BatchSends) /\ work' = NoWork /\ UNCHANGED <<derive, snap>>
      /\ BatchSends = (j \o p) \o q /\ work.adapted = <<>> /\ work.envs = <<>>
  BY FinishBatchActs DEF FinishBatch, EnvelopeUnchanged, BatchSends
<1>2. /\ work.upd \in PendingUpdate /\ work.batch \in Seq(RawEvent)
      /\ work.upd.hints \in Nat /\ work.upd.signals \in Nat /\ work.upd.focus \in OptWindow
  BY DEF TypeOK, StagesOK, Work, PendingUpdate
<1>3. j \in Seq(Send) /\ \A s \in Range(j) : s.to # "snapshot"
  BY <1>2, RangeOne DEF Send, To, Process, CompressionMsg
<1>4. UpdateOf(work.upd) \in Send
  <2>1. NoTransition \in OptTransition
    BY DEF OptTransition
  <2> QED
    BY <1>2, <2>1, UpdateType DEF UpdateOf
<1>5. p \in Seq(Send) /\ q \in Seq(Send)
  BY <1>4, PublishEmits DEF Emits
<1>6. /\ work'.upd.focus = NoWindow /\ work'.upd.hints = 0 /\ work'.upd.signals = 0
      /\ work'.adapted = <<>> /\ work'.envs = <<>>
  BY <1>1 DEF NoWork, NoUpdate
<1>7. ASSUME NEW b \in Seen, b \in SeenSent(sig, hin)
      PROVE  \E d \in Seen : /\ d \in SeenSent(sig, hin)'
                             /\ Path(Seen, Sent(Seen, SeenStep, "snapshot"), BatchSends, b, d)
  <2>1. status["envelope"] = "run"
    BY <1>1 DEF StageActs
  <2>2. /\ b.state = derive.state /\ Reported(Newer(b.focus, work.upd.focus))
        /\ b.hints + work.upd.hints = hin /\ b.signals + work.upd.signals = sig
        /\ b.phase = "open" /\ b.hints \in Nat /\ b.signals \in Nat /\ b.focus \in OptWindow
        /\ b.state \in ActivityState
    BY <1>7, <2>1 DEF SeenSent, Newer, Seen
  <2>3. PICK g \in OptWindow : g = Newer(b.focus, work.upd.focus)
    BY <1>2, <2>2, NewerType
  <2>4. Reported(g)'
    BY <1>1, <1>6, <2>2, <2>3, RangeEmpty DEF Reported
  <2> DEFINE d == [state |-> b.state, focus |-> g, hints |-> hin, signals |-> sig, phase |-> "open"]
  <2>5. /\ d \in Seen /\ d.state = b.state /\ d.focus = g /\ d.hints = hin /\ d.signals = sig
        /\ d.phase = "open"
    BY <2>2 DEF Seen, Phase
  <2>6. work.upd = NoUpdate => b = d
    <3>1. work.upd = NoUpdate => g = b.focus /\ b.hints = hin /\ b.signals = sig
      BY <2>2, <2>3 DEF NoUpdate, Newer
    <3> QED
      BY <2>2, <3>1 DEF Seen
  <2> HIDE DEF d
  <2>7. d \in SeenSent(sig, hin)'
    BY <1>1, <1>6, <2>2, <2>4, <2>5 DEF SeenSent
  <2>8. Path(Seen, Sent(Seen, SeenStep, "snapshot"), p, b, d)
    <3>1. CASE work.upd = NoUpdate
      BY <2>5, <2>6, <3>1, PathEmpty
    <3>2. CASE work.upd # NoUpdate
      <4>1. Path(Seen, Sent(Seen, SeenStep, "snapshot"), <<UpdateOf(work.upd)>>, b, d)
        BY <1>2, <2>2, <2>3, <2>5, SeenUpdatePath
      <4> QED
        BY <3>2, <4>1
    <3> QED
      BY <3>1, <3>2
  <2>9. Path(Seen, Sent(Seen, SeenStep, "snapshot"), q, d, d)
    BY <2>5, SeenPlainPaths
  <2> HIDE DEF j, p, q
  <2>10. Path(Seen, Sent(Seen, SeenStep, "snapshot"), j, b, b)
    BY <1>3, SentElsewhere
  <2>11. Path(Seen, Sent(Seen, SeenStep, "snapshot"), j \o p, b, d)
    BY <1>3, <1>5, <2>8, <2>10, PathConcat
  <2>12. PICK r \in Seq(Send) : r = j \o p
    BY <1>3, <1>5, ConcatProperties
  <2>13. Path(Seen, Sent(Seen, SeenStep, "snapshot"), r \o q, b, d)
    BY <1>5, <2>9, <2>11, <2>12, PathConcat
  <2> QED
    BY <1>1, <2>5, <2>7, <2>12, <2>13
<1> QED
  BY <1>1, <1>7, SeenWrites

LEMMA SeenBye ==
  ASSUME TypeOK, NEW sig \in Nat, NEW hin \in Nat, SeenLink(sig, hin), TakeShutdown
  PROVE  SeenLink(sig, hin)'
<1> DEFINE s1 == To("snapshot", Shutdown)
           s2 == To("compression", Shutdown)
<1>1. /\ StageActs("envelope", "last", ByeSends) /\ UNCHANGED <<work, derive, snap>>
      /\ ByeSends = <<s1, s2>>
  BY TakeShutdownActs DEF TakeShutdown, EnvelopeUnchanged, ByeSends
<1>2. status["envelope"] = "run" /\ status'["envelope"] = "last"
  BY <1>1, ActsStatus, StageNames DEF TypeOK
<1>3. s1 \in Send /\ s2 \in Send /\ s2.to # "snapshot"
  BY DEF Send, To, CompressionMsg, SnapshotMsg
<1>4. ASSUME NEW b \in Seen, b \in SeenSent(sig, hin)
      PROVE  \E d \in Seen : /\ d \in SeenSent(sig, hin)'
                             /\ Path(Seen, Sent(Seen, SeenStep, "snapshot"), ByeSends, b, d)
  <2> DEFINE d == [b EXCEPT !.phase = "closed"]
  <2>1. b.phase = "open"
    BY <1>2, <1>4 DEF SeenSent
  <2>2. /\ d \in Seen /\ d.state = b.state /\ d.focus = b.focus /\ d.hints = b.hints
        /\ d.signals = b.signals
    BY DEF Seen, Phase
  <2>3. Path(Seen, Sent(Seen, SeenStep, "snapshot"), <<s1>>, b, d)
    BY <2>1, <2>2, SeenPlainPaths
  <2> HIDE DEF d, s1, s2
  <2>4. d \in SeenSent(sig, hin)'
    BY <1>1, <1>2, <1>4, <2>2 DEF SeenSent, Reported
  <2>5. Path(Seen, Sent(Seen, SeenStep, "snapshot"), <<s2>>, d, d)
    BY <1>3, <2>2, SentThereOne
  <2>6. <<s1>> \in Seq(Send) /\ <<s2>> \in Seq(Send)
    BY <1>3
  <2>7. <<s1, s2>> = <<s1>> \o <<s2>>
    BY PairConcat
  <2>8. Path(Seen, Sent(Seen, SeenStep, "snapshot"), ByeSends, b, d)
    BY <1>1, <2>3, <2>5, <2>6, <2>7, PathConcat
  <2> QED
    BY <2>2, <2>4, <2>8
<1> QED
  BY <1>1, <1>4, SeenWrites

LEMMA SeenOther ==
  ASSUME TypeOK, BatchInWork, NEW sig \in Nat, NEW hin \in Nat, SeenLink(sig, hin), EnvelopeOther
  PROVE  SeenLink(sig, hin)'
<1>1. snap' = snap /\ work \in Work
  BY DEF TypeOK, StagesOK, EnvelopeOther, TakeBatch, AdaptEvent, DeriveLock, FinishBatch, TakeShutdown,
         EnvelopeClosed, EnvelopeUnchanged
<1>2. derive'.state = derive.state /\ \A f : Reported(f) => Reported(f)'
  BY OtherReports
<1>3. ASSUME work'.upd = work.upd, NEW f, Reported(Newer(f, work.upd.focus))
      PROVE  Reported(Newer(f, work.upd.focus))'
  <2>1. PICK g : g = Newer(f, work.upd.focus)
    OBVIOUS
  <2>2. Reported(g)'
    BY <1>2, <1>3, <2>1
  <2> QED
    BY <1>3, <2>1, <2>2 DEF Reported
<1>4. CASE AdaptEvent \/ DeriveLock
  <2>1. UNCHANGED <<status, queue, out>> /\ work'.upd = work.upd
    BY <1>1, <1>4 DEF AdaptEvent, DeriveLock, Work
  <2>2. SeenTaken' = SeenTaken
    BY <1>1 DEF SeenTaken
  <2>3. SeenSent(sig, hin) \subseteq SeenSent(sig, hin)'
    <3>1. ASSUME NEW b \in Seen, b \in SeenSent(sig, hin) PROVE b \in SeenSent(sig, hin)'
      <4>1. Reported(Newer(b.focus, work.upd.focus))
        BY <3>1 DEF SeenSent, Newer
      <4>2. Reported(Newer(b.focus, work.upd.focus))'
        BY <1>3, <2>1, <4>1
      <4> QED
        BY <1>2, <2>1, <3>1, <4>2 DEF SeenSent, Newer
    <3> QED
      BY <3>1 DEF SeenSent
  <2>4. PICK a2, W, W2 : a2 = SeenTaken' /\ W = SeenSent(sig, hin) /\ W2 = SeenSent(sig, hin)'
    OBVIOUS
  <2>5. Link(Seen, SeenStep, "snapshot", "envelope", "snapshot", a2, W)
    BY <2>2, <2>4 DEF SeenLink
  <2>6. LinkNext(Seen, SeenStep, "snapshot", "envelope", "snapshot", a2, W)
    BY <2>1, <2>5, LinkElsewhere
  <2>7. LinkNext(Seen, SeenStep, "snapshot", "envelope", "snapshot", a2, W2)
    BY <2>3, <2>4, <2>6, LinkWeaken
  <2> QED
    BY <2>4, <2>7 DEF SeenLink, Link, LinkNext
<1>5. CASE TakeBatch \/ EnvelopeClosed
  <2>1. work'.upd = work.upd
    BY <1>1, <1>5 DEF TakeBatch, EnvelopeClosed, BatchInWork, NoWork
  <2>2. \E st : StageActs("envelope", st, <<>>)
    BY <1>5, TakeBatchActs, EnvelopeClosedActs
  <2>3. \A f : Reported(Newer(f, work.upd.focus)) => Reported(Newer(f, work.upd.focus))'
    BY <1>3, <2>1
  <2> QED
    BY <1>1, <1>2, <2>1, <2>2, <2>3, SeenUntold, RangeEmpty
<1> QED
  BY <1>4, <1>5, SeenFinish, SeenBye DEF EnvelopeOther

LEMMA SeenReads ==
  ASSUME TypeOK, NEW sig \in Nat, NEW hin \in Nat, SeenLink(sig, hin), UNCHANGED <<work, derive>>,
         NEW sends, StageActs("snapshot", "run", sends), Takes("snapshot", "run", sends),
         \A d \in Seen : <<SeenTaken, Msg("snapshot"), d>> \in SeenStep => d = SeenTaken'
  PROVE  SeenLink(sig, hin)'
<1>1. ChannelsOK
  BY DEF TypeOK
<1>2. status'["envelope"] = status["envelope"]
  BY <1>1, ActsStatus, StageNames
<1>3. PICK a, a2, W : a = SeenTaken /\ a2 = SeenTaken' /\ W = SeenSent(sig, hin)
  OBVIOUS
<1>4. SeenSent(sig, hin)' = W
  BY <1>2, <1>3 DEF SeenSent, Reported
<1>5. \A s \in Range(sends) : s.to # "snapshot"
  BY DEF StageActs, MayEmit
<1>6. Link(Seen, SeenStep, "snapshot", "envelope", "snapshot", a, W)
  BY <1>3 DEF SeenLink
<1>7. LinkNext(Seen, SeenStep, "snapshot", "envelope", "snapshot", a2, W)
  BY <1>1, <1>3, <1>5, <1>6, SeenShape, LinkReads
<1> QED
  BY <1>3, <1>4, <1>7 DEF SeenLink, Link, LinkNext

LEMMA SeenLeaves ==
  ASSUME TypeOK, NEW sig \in Nat, NEW hin \in Nat, UNCHANGED <<work, derive>>,
         NEW sends, StageActs("snapshot", "last", sends),
         NoPanic => Finished("snapshot", "envelope") /\ SeenTaken' \in SeenSent(sig, hin)
  PROVE  SeenLink(sig, hin)'
<1>1. ChannelsOK
  BY DEF TypeOK
<1>2. status'["envelope"] = status["envelope"]
  BY <1>1, ActsStatus, StageNames
<1>3. PICK a2, W : a2 = SeenTaken' /\ W = SeenSent(sig, hin)
  OBVIOUS
<1>4. SeenSent(sig, hin)' = W
  BY <1>2, <1>3 DEF SeenSent, Reported
<1>5. LinkNext(Seen, SeenStep, "snapshot", "envelope", "snapshot", a2, W)
  BY <1>1, <1>3, SeenShape, LinkLeaves
<1> QED
  BY <1>3, <1>4, <1>5 DEF SeenLink, Link, LinkNext

(* The snapshot stage's own copy of the view.                              *)
LEMMA SeenUpdated ==
  ASSUME TypeOK, SnapUpdate, NEW d \in Seen, <<SeenTaken, Msg("snapshot"), d>> \in SeenStep
  PROVE  d = SeenTaken'
<1> DEFINE u == Msg("snapshot")
<1>1. u.kind = "Update" /\ snap \in SnapState
  BY SnapUpdateActs DEF TypeOK, StagesOK
<1>2. snap' = [snap EXCEPT
                 !.hints = @ + u.hints,
                 !.signals = @ + u.signals,
                 !.focus = IF u.focus = NoWindow THEN @ ELSE u.focus,
                 !.state = IF u.tr = NoTransition THEN @ ELSE u.tr.to]
  BY DEF SnapUpdate
<1> HIDE DEF u
<1>3. /\ snap'.hints = snap.hints + u.hints /\ snap'.signals = snap.signals + u.signals
      /\ snap'.focus = IF u.focus = NoWindow THEN snap.focus ELSE u.focus
      /\ snap'.state = IF u.tr = NoTransition THEN snap.state ELSE u.tr.to
      /\ snap'.shutdown_requested = snap.shutdown_requested
  BY <1>1, <1>2 DEF SnapState
<1>4. PICK a : a = SeenTaken
  OBVIOUS
<1>5. /\ a.state = snap.state /\ a.focus = snap.focus /\ a.hints = snap.hints
      /\ a.signals = snap.signals /\ a.phase = PhaseOf(snap.shutdown_requested)
  BY <1>4 DEF SeenTaken
<1>6. <<a, u, d>> \in SeenStep
  BY <1>4 DEF u
<1>7. Seeing(a, u, d)
  BY <1>1, <1>6 DEF SeenStep
<1>8. /\ d.state = snap'.state /\ d.focus = snap'.focus /\ d.hints = snap'.hints
      /\ d.signals = snap'.signals /\ d.phase = PhaseOf(snap'.shutdown_requested)
  BY <1>3, <1>5, <1>7 DEF Seeing
<1>9. d = [state |-> d.state, focus |-> d.focus, hints |-> d.hints, signals |-> d.signals,
           phase |-> d.phase]
  BY DEF Seen
<1> QED
  BY <1>8, <1>9 DEF SeenTaken

LEMMA SeenClosed ==
  ASSUME NEW a \in Seen, a.phase = "closed"
  PROVE  Stuck(Seen, SeenStep, a)
BY DEF Stuck, SeenStep, Seeing

(* The reader leaves behind a Shutdown.                                    *)
LEMMA SeenStuck ==
  ASSUME TypeOK, DrainInv, NEW sig \in Nat, NEW hin \in Nat, SeenLink(sig, hin), NoPanic,
         status["snapshot"] = "run", queue["snapshot"] # <<>>, NEW a2, a2.phase = "closed",
         \A d \in Seen : <<SeenTaken, Msg("snapshot"), d>> \in SeenStep => d = a2
  PROVE  Finished("snapshot", "envelope") /\ a2 \in SeenSent(sig, hin)
<1>1. ChannelsOK /\ Msg("snapshot") = Head(queue["snapshot"])
  BY Inboxes DEF TypeOK, Msg
<1>2. PICK a, W : a = SeenTaken /\ W = SeenSent(sig, hin)
  OBVIOUS
<1>3. PICK b \in Seen, d \in Seen :
        /\ b \in W /\ <<a, Head(queue["snapshot"]), d>> \in SeenStep
        /\ Flow(Seen, SeenStep, "snapshot", Tail(queue["snapshot"]), out["envelope"], d, b)
  BY <1>1, <1>2, SeenShape, LinkTaken DEF SeenLink
<1>4. d = a2
  BY <1>1, <1>2, <1>3
<1>5. Stuck(Seen, SeenStep, d)
  BY <1>4, SeenClosed
<1>6. Tail(queue["snapshot"]) \in Seq(AnyMessage) /\ out["envelope"] \in Seq(Send)
  BY <1>1, StageNames DEF ChannelsOK
<1>7. b = d /\ \A s \in Range(out["envelope"]) :
                 s.to = "snapshot" => <<d, s.msg, d>> \in SeenStep
  <2>1. PICK q \in Seq(AnyMessage), o \in Seq(Send) :
          q = Tail(queue["snapshot"]) /\ o = out["envelope"]
    BY <1>6
  <2>2. Flow(Seen, SeenStep, "snapshot", q, o, d, b)
    BY <1>3, <2>1
  <2>3. b = d /\ \A s \in Range(o) : s.to = "snapshot" => <<d, s.msg, d>> \in SeenStep
    BY <1>5, <2>2, FlowStuck
  <2> QED
    BY <2>1, <2>3
<1>8. ASSUME NEW s \in Range(out["envelope"]), s.to = "snapshot" PROVE FALSE
  <2>1. MayEmit("envelope", s)
    BY <1>8, StageNames DEF DrainInv, SendsAreTheirs
  <2>2. s.msg.kind \in {"Update", "Publish", "Shutdown"}
    BY <1>8, <2>1 DEF MayEmit
  <2>3. <<d, s.msg, d>> \in SeenStep
    BY <1>7, <1>8
  <2> QED
    BY <1>4, <2>2, <2>3 DEF SeenStep, Seeing
<1>9. status["envelope"] # "run"
  BY <1>2, <1>3, <1>4, <1>7 DEF SeenSent
<1> QED
  BY <1>2, <1>3, <1>4, <1>7, <1>8, <1>9 DEF Finished

LEMMA SeenSnapshot ==
  ASSUME TypeOK, DrainInv, NEW sig \in Nat, NEW hin \in Nat, SeenLink(sig, hin), SnapshotStep
  PROVE  SeenLink(sig, hin)'
<1>1. UNCHANGED <<work, derive>> /\ ChannelsOK /\ snap \in SnapState
  BY DEF TypeOK, StagesOK, SnapshotStep, SnapUpdate, SnapRecord, SnapPublish, SnapHintsComplete,
         SnapShutdown, Finalize, SnapClosed, SnapshotUnchanged
<1>2. CASE SnapUpdate
  <2>1. PICK sends : sends = UpdateSends(Msg("snapshot").tr)
    OBVIOUS
  <2>2. StageActs("snapshot", "run", sends) /\ Takes("snapshot", "run", sends)
    BY <1>2, <2>1, SnapUpdateActs
  <2>3. \A d \in Seen : <<SeenTaken, Msg("snapshot"), d>> \in SeenStep => d = SeenTaken'
    BY <1>2, SeenUpdated
  <2> QED
    BY <1>1, <2>2, <2>3, SeenReads
<1>3. CASE SnapRecord \/ SnapPublish
  <2>1. SeenTaken' = SeenTaken
    BY <1>1, <1>3 DEF SnapRecord, SnapPublish, SeenTaken, SnapState
  <2>2. Msg("snapshot").kind \in {"Record", "Publish"}
    BY <1>3, SnapPlainActs
  <2>3. \A d \in Seen : <<SeenTaken, Msg("snapshot"), d>> \in SeenStep => d = SeenTaken
    BY <2>2 DEF SeenStep
  <2> QED
    BY <1>1, <1>3, <2>1, <2>3, SnapPlainActs, SeenReads
<1>4. CASE SnapHintsComplete \/ SnapShutdown
  <2>1. PICK s :
           /\ \/ /\ s = [snap EXCEPT !.hints_complete = TRUE]
                 /\ Msg("snapshot").kind = "HintsComplete"
              \/ /\ s = [snap EXCEPT !.shutdown_requested = TRUE]
                 /\ Msg("snapshot").kind = "Shutdown"
           /\ snap' = s
           /\ Msg("snapshot") \in SnapshotMsg
           /\ \/ /\ MayFinalize(s) /\ PublishSnapshot(s)
                 /\ Takes("snapshot", "last", <<To("storage", Shutdown)>>)
                 /\ StageActs("snapshot", "last", <<To("storage", Shutdown)>>)
              \/ /\ ~MayFinalize(s) /\ bus' = bus
                 /\ Takes("snapshot", "run", <<>>) /\ StageActs("snapshot", "run", <<>>)
    BY <1>4, FinalizeActs
  <2>2. ASSUME NEW d \in Seen, <<SeenTaken, Msg("snapshot"), d>> \in SeenStep
        PROVE  d = SeenTaken'
    <3>1. CASE s = [snap EXCEPT !.hints_complete = TRUE] /\ Msg("snapshot").kind = "HintsComplete"
      <4>1. d = SeenTaken
        BY <2>2, <3>1 DEF SeenStep
      <4>2. SeenTaken' = SeenTaken
        BY <1>1, <2>1, <3>1 DEF SeenTaken, SnapState
      <4> QED
        BY <4>1, <4>2
    <3>2. CASE s = [snap EXCEPT !.shutdown_requested = TRUE] /\ Msg("snapshot").kind = "Shutdown"
      <4>1. d = [SeenTaken EXCEPT !.phase = "closed"]
        BY <2>2, <3>2 DEF SeenStep
      <4>2. /\ snap'.state = snap.state /\ snap'.focus = snap.focus /\ snap'.hints = snap.hints
            /\ snap'.signals = snap.signals
        BY <1>1, <2>1, <3>2 DEF SnapState
      <4>3. snap'.shutdown_requested
        BY <1>1, <2>1, <3>2, Zenon DEF SnapState
      <4>4. PhaseOf(snap'.shutdown_requested) = "closed"
        BY <4>3 DEF PhaseOf
      <4> QED
        BY <4>1, <4>2, <4>4 DEF SeenTaken
    <3> QED
      BY <2>1, <3>1, <3>2
  <2>3. CASE /\ ~MayFinalize(s) /\ Takes("snapshot", "run", <<>>) /\ StageActs("snapshot", "run", <<>>)
    BY <1>1, <2>2, <2>3, SeenReads
  <2>4. CASE /\ MayFinalize(s) /\ Takes("snapshot", "last", <<To("storage", Shutdown)>>)
             /\ StageActs("snapshot", "last", <<To("storage", Shutdown)>>)
    <3>1. PICK a2 : a2 = SeenTaken'
      OBVIOUS
    <3>2. snap'.shutdown_requested
      BY <2>1, <2>4 DEF MayFinalize
    <3>3. a2.phase = PhaseOf(snap'.shutdown_requested)
      BY <3>1 DEF SeenTaken
    <3>4. a2.phase = "closed"
      BY <3>2, <3>3 DEF PhaseOf
    <3>5. status["snapshot"] = "run" /\ queue["snapshot"] # <<>>
      BY <2>4, Inboxes DEF StageActs, Takes
    <3>6. \A d \in Seen : <<SeenTaken, Msg("snapshot"), d>> \in SeenStep => d = a2
      BY <2>2, <3>1
    <3>7. NoPanic => Finished("snapshot", "envelope") /\ a2 \in SeenSent(sig, hin)
      BY <3>4, <3>5, <3>6, SeenStuck
    <3> QED
      BY <1>1, <2>4, <3>1, <3>7, SeenLeaves
  <2> QED
    BY <2>1, <2>3, <2>4
<1>5. CASE SnapClosed
  <2>1. /\ queue["snapshot"] = <<>> /\ Gone("envelope") /\ snap' = snap /\ status["snapshot"] = "run"
    BY <1>5 DEF SnapClosed, Closed, Senders, Chan, Running
  <2>2. out["envelope"] = <<>> /\ status["envelope"] # "run"
    BY <2>1, StageNames DEF DrainInv, GoneIsSilent, Gone
  <2>3. PICK a, W : a = SeenTaken /\ W = SeenSent(sig, hin)
    OBVIOUS
  <2>4. NoPanic => a \in W
    BY <1>1, <2>1, <2>2, <2>3, LinkDry DEF SeenLink
  <2>5. SeenTaken' = SeenTaken
    BY <2>1 DEF SeenTaken
  <2>6. NoPanic => Finished("snapshot", "envelope") /\ SeenTaken' \in SeenSent(sig, hin)
    BY <2>2, <2>3, <2>4, <2>5, RangeEmpty DEF Finished
  <2> QED
    BY <1>1, <1>5, <2>6, SnapClosedActs, SeenLeaves
<1> QED
  BY <1>2, <1>3, <1>4, <1>5 DEF SnapshotStep

-----------------------------------------------------------------------------
(* Records, from hints to snapshot and to storage.                         *)

(* recs is the record, if any, that takes the number of ended ones from n  *)
(* to n2.                                                                  *)
EndsRecord(recs, n, n2) ==
  \/ recs = <<>> /\ n2 = n
  \/ \E r \in Record : recs = <<r>> /\ r.id = n /\ n2 = n + 1

LEMMA EndedType ==
  ASSUME NEW b \in RecordBuilder
  PROVE  Ended(b) \in Nat
<1>1. b.next \in Nat /\ (b.open => b.next > 0)
  BY DEF RecordBuilder
<1> QED
  BY <1>1 DEF Ended

LEMMA FinalizedEnds ==
  ASSUME NEW b \in RecordBuilder, NEW n, n = b.next
  PROVE  EndsRecord(Finalized(b), Ended(b), n)
<1>1. b.next \in Nat /\ (b.open => b.next > 0) /\ b.state \in ActivityState
  BY DEF RecordBuilder
<1>2. CASE b.open
  <2> DEFINE r == [id |-> b.next - 1, state |-> b.state]
  <2>1. r \in Record /\ r.id = Ended(b) /\ n = Ended(b) + 1
    BY <1>1, <1>2 DEF Record, Ended
  <2>2. Finalized(b) = <<r>>
    BY <1>2 DEF Finalized
  <2> QED
    BY <2>1, <2>2 DEF EndsRecord
<1>3. CASE ~b.open
  BY <1>3 DEF EndsRecord, Finalized, Ended
<1> QED
  BY <1>2, <1>3

LEMMA CompletedEnds ==
  ASSUME NEW b \in RecordBuilder, NEW hint
  PROVE  EndsRecord(Completed(b, hint), Ended(b), Ended(OnHint(b, hint)))
<1>1. CASE Ignores(b, hint)
  BY <1>1 DEF EndsRecord, Completed, OnHint
<1>2. CASE ~Ignores(b, hint)
  <2> DEFINE c == OnHint(b, hint)
  <2>1. c.next = b.next + 1 /\ c.open = TRUE
    BY <1>2 DEF OnHint
  <2>2. c.open
    BY <2>1
  <2> HIDE DEF c
  <2>3. b.next \in Nat
    BY DEF RecordBuilder
  <2>4. Ended(c) = b.next
    BY <2>1, <2>2, <2>3 DEF Ended
  <2>5. Completed(b, hint) = Finalized(b)
    BY <1>2 DEF Completed
  <2> QED
    BY <2>4, <2>5, FinalizedEnds DEF c
<1> QED
  BY <1>1, <1>2

(* The sends of a record.                                                  *)
LEMMA RecordSendsOf ==
  ASSUME NEW r \in Record
  PROVE  LET s1 == To("storage", RecordMsg(r))
             s2 == To("snapshot", RecordMsg(r))
         IN /\ RecordSends(<<r>>) = <<s1>> \o <<s2>>
            /\ s1 \in Send /\ s2 \in Send /\ s1.to = "storage" /\ s2.to = "snapshot"
            /\ s1.msg = RecordMsg(r) /\ s2.msg = RecordMsg(r)
            /\ RecordMsg(r) \in StorageMsg /\ RecordMsg(r) \in SnapshotMsg
            /\ RecordMsg(r).kind = "Record" /\ RecordMsg(r).rec = r
<1> DEFINE s1 == To("storage", RecordMsg(r))
           s2 == To("snapshot", RecordMsg(r))
<1>1. /\ RecordMsg(r) \in StorageMsg /\ RecordMsg(r) \in SnapshotMsg
      /\ RecordMsg(r).kind = "Record" /\ RecordMsg(r).rec = r
  BY DEF RecordMsg, StorageMsg, SnapshotMsg
<1>2. /\ s1 \in Send /\ s2 \in Send /\ s1.to = "storage" /\ s2.to = "snapshot"
      /\ s1.msg = RecordMsg(r) /\ s2.msg = RecordMsg(r)
  BY <1>1 DEF Send, To
<1>3. <<r>> # <<>> /\ <<r>>[1] = r
  OBVIOUS
<1>4. RecordSends(<<r>>) = <<s1, s2>>
  BY <1>3 DEF RecordSends
<1>5. <<s1, s2>> = <<s1>> \o <<s2>>
  BY PairConcat
<1> QED
  BY <1>1, <1>2, <1>4, <1>5

LEMMA RecordPaths ==
  ASSUME NEW recs, NEW n \in Nat, NEW n2 \in Nat, EndsRecord(recs, n, n2)
  PROVE  /\ RecordSends(recs) \in Seq(Send)
         /\ \A b, d \in Tally : b = [records |-> n, phase |-> "open"]
                                /\ d = [records |-> n2, phase |-> "open"] =>
               Path(Tally, Sent(Tally, TallyStep, "snapshot"), RecordSends(recs), b, d)
         /\ \A b, d \in Kept : b.records = n /\ d.records = n2 /\ d.hints = b.hints =>
               Path(Kept, Sent(Kept, KeptStep, "storage"), RecordSends(recs), b, d)
<1>1. CASE recs = <<>> /\ n2 = n
  <2>1. RecordSends(recs) = <<>>
    BY <1>1 DEF RecordSends
  <2>2. \A b, d \in Kept : b.records = n /\ d.records = n2 /\ d.hints = b.hints => b = d
    BY <1>1 DEF Kept
  <2>3. PICK none : none = <<>>
    OBVIOUS
  <2>4. RecordSends(recs) = none /\ none \in Seq(Send)
    BY <2>1, <2>3
  <2>5. ASSUME NEW b \in Tally, NEW d \in Tally, b = [records |-> n, phase |-> "open"],
               d = [records |-> n2, phase |-> "open"]
        PROVE  Path(Tally, Sent(Tally, TallyStep, "snapshot"), RecordSends(recs), b, d)
    <3>1. b = d
      BY <1>1, <2>5
    <3> QED
      BY <2>1, <3>1, PathEmpty
  <2>6. ASSUME NEW b \in Kept, NEW d \in Kept, b.records = n, d.records = n2, d.hints = b.hints
        PROVE  Path(Kept, Sent(Kept, KeptStep, "storage"), RecordSends(recs), b, d)
    <3>1. b = d
      BY <2>2, <2>6
    <3> QED
      BY <2>1, <3>1, PathEmpty
  <2> QED
    BY <2>4, <2>5, <2>6
<1>2. CASE \E r \in Record : recs = <<r>> /\ r.id = n /\ n2 = n + 1
  <2>1. PICK r \in Record : recs = <<r>> /\ r.id = n /\ n2 = n + 1
    BY <1>2
  <2> DEFINE s1 == To("storage", RecordMsg(r))
             s2 == To("snapshot", RecordMsg(r))
             m == RecordMsg(r)
  <2>2. /\ RecordSends(recs) = <<s1>> \o <<s2>>
        /\ s1 \in Send /\ s2 \in Send /\ s1.to = "storage" /\ s2.to = "snapshot"
        /\ s1.msg = m /\ s2.msg = m /\ m \in StorageMsg /\ m \in SnapshotMsg
        /\ m.kind = "Record" /\ m.rec = r
    BY <2>1, RecordSendsOf
  <2> HIDE DEF s1, s2, m
  <2>3. <<s1>> \in Seq(Send) /\ <<s2>> \in Seq(Send) /\ <<s1>> \o <<s2>> \in Seq(Send)
    BY <2>2
  <2>4. ASSUME NEW b \in Tally, NEW d \in Tally, b = [records |-> n, phase |-> "open"],
               d = [records |-> n2, phase |-> "open"]
        PROVE  Path(Tally, Sent(Tally, TallyStep, "snapshot"), RecordSends(recs), b, d)
    <3>1. <<b, m, d>> \in TallyStep
      BY <2>1, <2>2, <2>4 DEF TallyStep
    <3>2. Path(Tally, Sent(Tally, TallyStep, "snapshot"), <<s1>>, b, b)
      BY <2>2, SentThereOne
    <3>3. Path(Tally, Sent(Tally, TallyStep, "snapshot"), <<s2>>, b, d)
      BY <2>2, <3>1, SentHere
    <3> QED
      BY <2>2, <2>3, <3>2, <3>3, PathConcat
  <2>5. ASSUME NEW b \in Kept, NEW d \in Kept, b.records = n, d.records = n2, d.hints = b.hints
        PROVE  Path(Kept, Sent(Kept, KeptStep, "storage"), RecordSends(recs), b, d)
    <3>1. d = [records |-> b.records + 1, hints |-> b.hints]
      BY <2>1, <2>5 DEF Kept
    <3>2. <<b, m, d>> \in KeptStep
      BY <2>1, <2>2, <2>5, <3>1 DEF KeptStep
    <3>3. Path(Kept, Sent(Kept, KeptStep, "storage"), <<s1>>, b, d)
      BY <2>2, <3>2, SentHere
    <3>4. Path(Kept, Sent(Kept, KeptStep, "storage"), <<s2>>, d, d)
      BY <2>2, SentThereOne
    <3> QED
      BY <2>2, <2>3, <3>3, <3>4, PathConcat
  <2> QED
    BY <2>2, <2>3, <2>4, <2>5
<1> QED
  BY <1>1, <1>2 DEF EndsRecord

LEMMA TallyWrites ==
  ASSUME TypeOK, TallyLink, UNCHANGED snap, NEW st, NEW sends, StageActs("hints", st, sends),
         \A b \in Tally : b \in TallySent =>
            \E d \in Tally : /\ d \in TallySent'
                             /\ Path(Tally, Sent(Tally, TallyStep, "snapshot"), sends, b, d)
  PROVE  TallyLink'
<1>1. ChannelsOK
  BY DEF TypeOK
<1>2. TallyTaken' = TallyTaken
  BY DEF TallyTaken
<1>3. PICK a2, W2 : a2 = TallyTaken' /\ W2 = TallySent'
  OBVIOUS
<1>4. LinkNext(Tally, TallyStep, "snapshot", "hints", "snapshot", a2, W2)
  BY <1>1, <1>2, <1>3, TallyShape, LinkWrites DEF TallyLink
<1> QED
  BY <1>3, <1>4 DEF TallyLink, Link, LinkNext

LEMMA KeptWrites ==
  ASSUME TypeOK, NEW hh \in Nat, NEW h2 \in Nat, KeptLink(hh), UNCHANGED stored,
         NEW st, NEW sends, StageActs("hints", st, sends),
         \A b \in Kept : b \in KeptSent(hh) =>
            \E d \in Kept : /\ d \in KeptSent(h2)'
                            /\ Path(Kept, Sent(Kept, KeptStep, "storage"), sends, b, d)
  PROVE  KeptLink(h2)'
<1>1. ChannelsOK
  BY DEF TypeOK
<1>2. KeptTaken' = KeptTaken
  BY DEF KeptTaken
<1>3. PICK a2, W2 : a2 = KeptTaken' /\ W2 = KeptSent(h2)'
  OBVIOUS
<1>4. LinkNext(Kept, KeptStep, "storage", "hints", "storage", a2, W2)
  BY <1>1, <1>2, <1>3, KeptShape, LinkWrites DEF KeptLink
<1> QED
  BY <1>3, <1>4 DEF KeptLink, Link, LinkNext

(* The hints stage stores a hint and, with it, the record it ends.         *)
LEMMA HintSendsSplit ==
  ASSUME TypeOK, HintsRecv
  PROVE  \E s, recs, n, n2 :
           /\ s \in Send /\ n \in Nat /\ n2 \in Nat
           /\ HintSends = <<s>> \o RecordSends(recs) /\ EndsRecord(recs, n, n2)
           /\ s.to = "storage" /\ s.msg \in StorageMsg /\ s.msg.kind = "Envelope" /\ ~s.msg.signal
           /\ n = Ended(builder) /\ n2 = Ended(builder')
<1>1. /\ TheHint \in Hint /\ builder \in RecordBuilder /\ builder' = OnHint(builder, TheHint)
  BY HintsRecvActs
<1>2. PICK s : s = To("storage", EnvelopeCmd(TheHint))
  OBVIOUS
<1>3. /\ EnvelopeCmd(TheHint) \in StorageMsg /\ EnvelopeCmd(TheHint).kind = "Envelope"
      /\ EnvelopeCmd(TheHint).signal = IsSignal(TheHint)
  BY DEF EnvelopeCmd, IsSignal, StorageMsg
<1>4. s \in Send /\ s.to = "storage" /\ s.msg = EnvelopeCmd(TheHint)
  BY <1>2, <1>3 DEF To, Send
<1>5. ~IsSignal(TheHint)
  BY <1>1 DEF Hint
<1>6. ~s.msg.signal
  BY <1>3, <1>4, <1>5
<1>7. PICK recs, n, n2 : /\ recs = Completed(builder, TheHint) /\ n = Ended(builder)
                         /\ n2 = Ended(OnHint(builder, TheHint))
  OBVIOUS
<1>8. EndsRecord(recs, n, n2)
  BY <1>1, <1>7, CompletedEnds
<1>9. n \in Nat
  BY <1>1, <1>7, EndedType
<1>10. n2 \in Nat
  BY <1>8, <1>9 DEF EndsRecord
<1>11. n2 = Ended(builder')
  BY <1>1, <1>7
<1>12. HintSends = <<s>> \o RecordSends(recs)
  BY <1>2, <1>7 DEF HintSends
<1> WITNESS s, recs, n, n2
<1> QED
  BY <1>3, <1>4, <1>6, <1>7, <1>8, <1>9, <1>10, <1>11, <1>12

LEMMA LastSendsSplit ==
  ASSUME TypeOK, HintsClosed
  PROVE  \E s, recs, n, n2 :
           /\ s \in Send /\ n \in Nat /\ n2 \in Nat
           /\ LastSends = RecordSends(recs) \o <<s>> /\ EndsRecord(recs, n, n2)
           /\ s.to = "snapshot" /\ s.msg \in SnapshotMsg /\ s.msg.kind = "HintsComplete"
           /\ n = Ended(builder) /\ n2 = Ended(builder')
<1>1. builder \in RecordBuilder /\ builder' = [builder EXCEPT !.open = FALSE]
  BY HintsClosedActs
<1>2. PICK s : s = To("snapshot", HintsComplete)
  OBVIOUS
<1>3. /\ s \in Send /\ s.to = "snapshot" /\ s.msg \in SnapshotMsg /\ s.msg.kind = "HintsComplete"
  BY <1>2 DEF To, Send, HintsComplete, SnapshotMsg
<1>4. PICK recs, n, n2 : recs = Finalized(builder) /\ n = Ended(builder) /\ n2 = builder.next
  OBVIOUS
<1>5. EndsRecord(recs, n, n2)
  BY <1>1, <1>4, FinalizedEnds
<1>6. n \in Nat
  BY <1>1, <1>4, EndedType
<1>7. n2 \in Nat
  BY <1>5, <1>6 DEF EndsRecord
<1>8. n2 = Ended(builder')
  <2>1. builder'.next = builder.next /\ builder'.open = FALSE
    BY <1>1 DEF RecordBuilder
  <2> QED
    BY <1>4, <2>1 DEF Ended
<1>9. LastSends = RecordSends(recs) \o <<s>>
  BY <1>2, <1>4 DEF LastSends
<1> WITNESS s, recs, n, n2
<1> QED
  BY <1>3, <1>4, <1>5, <1>6, <1>7, <1>8, <1>9

LEMMA TallyHints ==
  ASSUME TypeOK, TallyLink, Hints
  PROVE  TallyLink'
<1>1. ChannelsOK /\ UNCHANGED <<snap, stored>> /\ status["hints"] = "run"
  BY DEF TypeOK, Hints, HintsRecv, HintsClosed, HintsUnchanged, Running
<1>2. ASSUME NEW b \in Tally, b \in TallySent, NEW n, n = Ended(builder)
      PROVE  b = [records |-> n, phase |-> "open"]
  BY <1>1, <1>2 DEF TallySent, Tally
<1>3. CASE HintsRecv
  <2>1. PICK s, recs, n, n2 :
           /\ s \in Send /\ n \in Nat /\ n2 \in Nat
           /\ HintSends = <<s>> \o RecordSends(recs) /\ EndsRecord(recs, n, n2)
           /\ s.to = "storage" /\ s.msg \in StorageMsg /\ s.msg.kind = "Envelope" /\ ~s.msg.signal
           /\ n = Ended(builder) /\ n2 = Ended(builder')
    BY <1>3, HintSendsSplit
  <2>2. PICK sends : sends = HintSends
    OBVIOUS
  <2>3. StageActs("hints", "run", sends)
    BY <1>3, <2>2, HintsRecvActs
  <2>4. PICK d : d = [records |-> n2, phase |-> "open"]
    OBVIOUS
  <2>5. d \in Tally /\ d \in TallySent'
    BY <2>1, <2>4 DEF Tally, Phase, TallySent
  <2>6. ASSUME NEW b \in Tally, b \in TallySent
        PROVE  Path(Tally, Sent(Tally, TallyStep, "snapshot"), sends, b, d)
    <3>1. b = [records |-> n, phase |-> "open"]
      BY <1>2, <2>1, <2>6
    <3>2. /\ RecordSends(recs) \in Seq(Send)
          /\ Path(Tally, Sent(Tally, TallyStep, "snapshot"), RecordSends(recs), b, d)
      BY <2>1, <2>4, <2>5, <3>1, RecordPaths
    <3>3. <<s>> \in Seq(Send)
      BY <2>1
    <3>4. Path(Tally, Sent(Tally, TallyStep, "snapshot"), <<s>>, b, b)
      BY <2>1, SentThereOne
    <3> QED
      BY <2>1, <2>2, <3>2, <3>3, <3>4, PathConcat
  <2> QED
    BY <1>1, <2>3, <2>5, <2>6, TallyWrites
<1>4. CASE HintsClosed
  <2>1. PICK s, recs, n, n2 :
           /\ s \in Send /\ n \in Nat /\ n2 \in Nat
           /\ LastSends = RecordSends(recs) \o <<s>> /\ EndsRecord(recs, n, n2)
           /\ s.to = "snapshot" /\ s.msg \in SnapshotMsg /\ s.msg.kind = "HintsComplete"
           /\ n = Ended(builder) /\ n2 = Ended(builder')
    BY <1>4, LastSendsSplit
  <2>2. PICK sends : sends = LastSends
    OBVIOUS
  <2>3. StageActs("hints", "last", sends)
    BY <1>4, <2>2, HintsClosedActs
  <2>4. status'["hints"] = "last"
    BY <1>1, <2>3, ActsStatus
  <2>5. PICK c, d : c = [records |-> n2, phase |-> "open"] /\ d = [records |-> n2, phase |-> "closed"]
    OBVIOUS
  <2>6. c \in Tally /\ d \in Tally /\ d \in TallySent'
    BY <2>1, <2>4, <2>5 DEF Tally, Phase, TallySent
  <2>7. ASSUME NEW b \in Tally, b \in TallySent
        PROVE  Path(Tally, Sent(Tally, TallyStep, "snapshot"), sends, b, d)
    <3>1. b = [records |-> n, phase |-> "open"]
      BY <1>2, <2>1, <2>7
    <3>2. /\ RecordSends(recs) \in Seq(Send)
          /\ Path(Tally, Sent(Tally, TallyStep, "snapshot"), RecordSends(recs), b, c)
      BY <2>1, <2>5, <2>6, <3>1, RecordPaths
    <3>3. <<s>> \in Seq(Send)
      BY <2>1
    <3>4. <<c, s.msg, d>> \in TallyStep
      BY <2>1, <2>5, <2>6 DEF TallyStep
    <3>5. Path(Tally, Sent(Tally, TallyStep, "snapshot"), <<s>>, c, d)
      BY <2>1, <2>6, <3>4, SentHere
    <3> QED
      BY <2>1, <2>2, <3>2, <3>3, <3>5, PathConcat
  <2> QED
    BY <1>1, <2>3, <2>6, <2>7, TallyWrites
<1> QED
  BY <1>3, <1>4 DEF Hints

LEMMA KeptHintsRecv ==
  ASSUME TypeOK, NEW hh \in Nat, KeptLink(hh), HintsRecv, NEW h2 \in Nat, h2 = hh + 1
  PROVE  KeptLink(h2)'
<1>1. UNCHANGED stored
  BY DEF HintsRecv, HintsUnchanged
<1>2. PICK s, recs, n, n2 :
         /\ s \in Send /\ n \in Nat /\ n2 \in Nat
         /\ HintSends = <<s>> \o RecordSends(recs) /\ EndsRecord(recs, n, n2)
         /\ s.to = "storage" /\ s.msg \in StorageMsg /\ s.msg.kind = "Envelope" /\ ~s.msg.signal
         /\ n = Ended(builder) /\ n2 = Ended(builder')
  BY HintSendsSplit
<1>3. PICK sends : sends = HintSends
  OBVIOUS
<1>4. StageActs("hints", "run", sends)
  BY <1>3, HintsRecvActs
<1>5. PICK c, d : c = [records |-> n, hints |-> h2] /\ d = [records |-> n2, hints |-> h2]
  OBVIOUS
<1>6. c \in Kept /\ d \in Kept /\ d \in KeptSent(h2)'
  BY <1>2, <1>5 DEF Kept, KeptSent
<1>7. ASSUME NEW b \in Kept, b \in KeptSent(hh)
      PROVE  Path(Kept, Sent(Kept, KeptStep, "storage"), sends, b, d)
  <2>1. b = [records |-> n, hints |-> hh]
    BY <1>2, <1>7 DEF KeptSent
  <2>2. <<b, s.msg, c>> \in KeptStep
    BY <1>2, <1>5, <1>6, <2>1 DEF KeptStep
  <2>3. Path(Kept, Sent(Kept, KeptStep, "storage"), <<s>>, b, c)
    BY <1>2, <1>6, <2>2, SentHere
  <2>4. /\ RecordSends(recs) \in Seq(Send)
        /\ Path(Kept, Sent(Kept, KeptStep, "storage"), RecordSends(recs), c, d)
    BY <1>2, <1>5, <1>6, RecordPaths
  <2>5. <<s>> \in Seq(Send)
    BY <1>2
  <2> QED
    BY <1>2, <1>3, <2>3, <2>4, <2>5, PathConcat
<1> QED
  BY <1>1, <1>4, <1>6, <1>7, KeptWrites

LEMMA KeptHintsClosed ==
  ASSUME TypeOK, NEW hh \in Nat, KeptLink(hh), HintsClosed
  PROVE  KeptLink(hh)'
<1>1. UNCHANGED stored
  BY DEF HintsClosed, HintsUnchanged
<1>2. PICK s, recs, n, n2 :
         /\ s \in Send /\ n \in Nat /\ n2 \in Nat
         /\ LastSends = RecordSends(recs) \o <<s>> /\ EndsRecord(recs, n, n2)
         /\ s.to = "snapshot" /\ s.msg \in SnapshotMsg /\ s.msg.kind = "HintsComplete"
         /\ n = Ended(builder) /\ n2 = Ended(builder')
  BY LastSendsSplit
<1>3. PICK sends : sends = LastSends
  OBVIOUS
<1>4. StageActs("hints", "last", sends)
  BY <1>3, HintsClosedActs
<1>5. PICK d : d = [records |-> n2, hints |-> hh]
  OBVIOUS
<1>6. d \in Kept /\ d \in KeptSent(hh)'
  BY <1>2, <1>5 DEF Kept, KeptSent
<1>7. ASSUME NEW b \in Kept, b \in KeptSent(hh)
      PROVE  Path(Kept, Sent(Kept, KeptStep, "storage"), sends, b, d)
  <2>1. b = [records |-> n, hints |-> hh]
    BY <1>2, <1>7 DEF KeptSent
  <2>2. /\ RecordSends(recs) \in Seq(Send)
        /\ Path(Kept, Sent(Kept, KeptStep, "storage"), RecordSends(recs), b, d)
    BY <1>2, <1>5, <1>6, <2>1, RecordPaths
  <2>3. <<s>> \in Seq(Send)
    BY <1>2
  <2>4. Path(Kept, Sent(Kept, KeptStep, "storage"), <<s>>, d, d)
    BY <1>2, <1>6, SentThereOne
  <2> QED
    BY <1>2, <1>3, <2>2, <2>3, <2>4, PathConcat
<1> QED
  BY <1>1, <1>4, <1>6, <1>7, KeptWrites

LEMMA TallyReads ==
  ASSUME TypeOK, TallyLink, UNCHANGED builder,
         NEW sends, StageActs("snapshot", "run", sends), Takes("snapshot", "run", sends),
         \A d \in Tally : <<TallyTaken, Msg("snapshot"), d>> \in TallyStep => d = TallyTaken'
  PROVE  TallyLink'
<1>1. ChannelsOK
  BY DEF TypeOK
<1>2. status'["hints"] = status["hints"]
  BY <1>1, ActsStatus, StageNames
<1>3. PICK a, a2, W : a = TallyTaken /\ a2 = TallyTaken' /\ W = TallySent
  OBVIOUS
<1>4. TallySent' = W
  BY <1>2, <1>3 DEF TallySent
<1>5. \A s \in Range(sends) : s.to # "snapshot"
  BY DEF StageActs, MayEmit
<1>6. Link(Tally, TallyStep, "snapshot", "hints", "snapshot", a, W)
  BY <1>3 DEF TallyLink
<1>7. LinkNext(Tally, TallyStep, "snapshot", "hints", "snapshot", a2, W)
  BY <1>1, <1>3, <1>5, <1>6, TallyShape, LinkReads
<1> QED
  BY <1>3, <1>4, <1>7 DEF TallyLink, Link, LinkNext

LEMMA TallyLeaves ==
  ASSUME TypeOK, UNCHANGED builder, NEW sends, StageActs("snapshot", "last", sends),
         NoPanic => Finished("snapshot", "hints") /\ TallyTaken' \in TallySent
  PROVE  TallyLink'
<1>1. ChannelsOK
  BY DEF TypeOK
<1>2. status'["hints"] = status["hints"]
  BY <1>1, ActsStatus, StageNames
<1>3. PICK a2, W : a2 = TallyTaken' /\ W = TallySent
  OBVIOUS
<1>4. TallySent' = W
  BY <1>2, <1>3 DEF TallySent
<1>5. LinkNext(Tally, TallyStep, "snapshot", "hints", "snapshot", a2, W)
  BY <1>1, <1>3, TallyShape, LinkLeaves
<1> QED
  BY <1>3, <1>4, <1>5 DEF TallyLink, Link, LinkNext

LEMMA TallyClosed ==
  ASSUME NEW a \in Tally, a.phase = "closed"
  PROVE  Stuck(Tally, TallyStep, a)
BY DEF Stuck, TallyStep

(* The reader leaves behind a HintsComplete.                               *)
LEMMA TallyStuck ==
  ASSUME TypeOK, DrainInv, TallyLink, NoPanic,
         status["snapshot"] = "run", queue["snapshot"] # <<>>, NEW a2, a2.phase = "closed",
         \A d \in Tally : <<TallyTaken, Msg("snapshot"), d>> \in TallyStep => d = a2
  PROVE  Finished("snapshot", "hints") /\ a2 \in TallySent
<1>1. ChannelsOK /\ Msg("snapshot") = Head(queue["snapshot"])
  BY Inboxes DEF TypeOK, Msg
<1>2. PICK a, W : a = TallyTaken /\ W = TallySent
  OBVIOUS
<1>3. PICK b \in Tally, d \in Tally :
        /\ b \in W /\ <<a, Head(queue["snapshot"]), d>> \in TallyStep
        /\ Flow(Tally, TallyStep, "snapshot", Tail(queue["snapshot"]), out["hints"], d, b)
  BY <1>1, <1>2, TallyShape, LinkTaken DEF TallyLink
<1>4. d = a2
  BY <1>1, <1>2, <1>3
<1>5. Stuck(Tally, TallyStep, d)
  BY <1>4, TallyClosed
<1>6. Tail(queue["snapshot"]) \in Seq(AnyMessage) /\ out["hints"] \in Seq(Send)
  BY <1>1, StageNames DEF ChannelsOK
<1>7. b = d /\ \A s \in Range(out["hints"]) :
                 s.to = "snapshot" => <<d, s.msg, d>> \in TallyStep
  <2>1. PICK q \in Seq(AnyMessage), o \in Seq(Send) :
          q = Tail(queue["snapshot"]) /\ o = out["hints"]
    BY <1>6
  <2>2. Flow(Tally, TallyStep, "snapshot", q, o, d, b)
    BY <1>3, <2>1
  <2>3. b = d /\ \A s \in Range(o) : s.to = "snapshot" => <<d, s.msg, d>> \in TallyStep
    BY <1>5, <2>2, FlowStuck
  <2> QED
    BY <2>1, <2>3
<1>8. ASSUME NEW s \in Range(out["hints"]), s.to = "snapshot" PROVE FALSE
  <2>1. MayEmit("hints", s)
    BY <1>8, StageNames DEF DrainInv, SendsAreTheirs
  <2>2. s.msg.kind \in {"Record", "HintsComplete"}
    BY <1>8, <2>1 DEF MayEmit
  <2>3. <<d, s.msg, d>> \in TallyStep
    BY <1>7, <1>8
  <2> QED
    BY <1>4, <2>2, <2>3 DEF TallyStep
<1>9. status["hints"] # "run"
  BY <1>2, <1>3, <1>4, <1>7 DEF TallySent
<1> QED
  BY <1>2, <1>3, <1>4, <1>7, <1>8, <1>9 DEF Finished

LEMMA TallySnapshot ==
  ASSUME TypeOK, DrainInv, TallyLink, SnapshotStep
  PROVE  TallyLink'
<1>1. UNCHANGED builder /\ ChannelsOK /\ snap \in SnapState
  BY DEF TypeOK, StagesOK, SnapshotStep, SnapUpdate, SnapRecord, SnapPublish, SnapHintsComplete,
         SnapShutdown, Finalize, SnapClosed, SnapshotUnchanged
<1>2. CASE SnapUpdate
  <2>1. PICK sends : sends = UpdateSends(Msg("snapshot").tr)
    OBVIOUS
  <2>2. /\ StageActs("snapshot", "run", sends) /\ Takes("snapshot", "run", sends)
        /\ Msg("snapshot").kind = "Update"
    BY <1>2, <2>1, SnapUpdateActs
  <2>3. TallyTaken' = TallyTaken
    BY <1>1, <1>2 DEF SnapUpdate, TallyTaken, SnapState
  <2>4. \A d \in Tally : <<TallyTaken, Msg("snapshot"), d>> \in TallyStep => d = TallyTaken
    BY <2>2 DEF TallyStep
  <2> QED
    BY <1>1, <2>2, <2>3, <2>4, TallyReads
<1>3. CASE SnapRecord
  <2>1. Msg("snapshot").kind = "Record"
    BY <1>3, SnapPlainActs
  <2>2. snap'.records = snap.records + 1 /\ snap'.hints_complete = snap.hints_complete
    BY <1>1, <1>3 DEF SnapRecord, SnapState
  <2>3. ASSUME NEW d \in Tally, <<TallyTaken, Msg("snapshot"), d>> \in TallyStep
        PROVE  d = TallyTaken'
    <3>1. TallyTaken.phase = "open" /\ d = [records |-> TallyTaken.records + 1, phase |-> "open"]
      BY <2>1, <2>3 DEF TallyStep
    <3> QED
      BY <2>2, <3>1 DEF TallyTaken
  <2> QED
    BY <1>1, <1>3, <2>3, SnapPlainActs, TallyReads
<1>4. CASE SnapPublish
  <2>1. TallyTaken' = TallyTaken
    BY <1>4 DEF SnapPublish, TallyTaken
  <2>2. Msg("snapshot").kind = "Publish"
    BY <1>4, SnapPlainActs
  <2>3. \A d \in Tally : <<TallyTaken, Msg("snapshot"), d>> \in TallyStep => d = TallyTaken
    BY <2>2 DEF TallyStep
  <2> QED
    BY <1>1, <1>4, <2>1, <2>3, SnapPlainActs, TallyReads
<1>5. CASE SnapHintsComplete \/ SnapShutdown
  <2>1. PICK s :
           /\ \/ /\ s = [snap EXCEPT !.hints_complete = TRUE]
                 /\ Msg("snapshot").kind = "HintsComplete"
              \/ /\ s = [snap EXCEPT !.shutdown_requested = TRUE]
                 /\ Msg("snapshot").kind = "Shutdown"
           /\ snap' = s
           /\ Msg("snapshot") \in SnapshotMsg
           /\ \/ /\ MayFinalize(s) /\ PublishSnapshot(s)
                 /\ Takes("snapshot", "last", <<To("storage", Shutdown)>>)
                 /\ StageActs("snapshot", "last", <<To("storage", Shutdown)>>)
              \/ /\ ~MayFinalize(s) /\ bus' = bus
                 /\ Takes("snapshot", "run", <<>>) /\ StageActs("snapshot", "run", <<>>)
    BY <1>5, FinalizeActs
  <2>2. ASSUME NEW d \in Tally, <<TallyTaken, Msg("snapshot"), d>> \in TallyStep
        PROVE  d = TallyTaken'
    <3>1. CASE s = [snap EXCEPT !.hints_complete = TRUE] /\ Msg("snapshot").kind = "HintsComplete"
      <4>1. d = [records |-> TallyTaken.records, phase |-> "closed"]
        BY <2>2, <3>1 DEF TallyStep
      <4>2. snap'.records = snap.records
        BY <1>1, <2>1, <3>1 DEF SnapState
      <4>3. snap'.hints_complete
        BY <1>1, <2>1, <3>1, Zenon DEF SnapState
      <4>4. PhaseOf(snap'.hints_complete) = "closed"
        BY <4>3 DEF PhaseOf
      <4> QED
        BY <4>1, <4>2, <4>4 DEF TallyTaken
    <3>2. CASE s = [snap EXCEPT !.shutdown_requested = TRUE] /\ Msg("snapshot").kind = "Shutdown"
      <4>1. d = TallyTaken
        BY <2>2, <3>2 DEF TallyStep
      <4>2. TallyTaken' = TallyTaken
        BY <1>1, <2>1, <3>2 DEF TallyTaken, SnapState
      <4> QED
        BY <4>1, <4>2
    <3> QED
      BY <2>1, <3>1, <3>2
  <2>3. CASE /\ ~MayFinalize(s) /\ Takes("snapshot", "run", <<>>) /\ StageActs("snapshot", "run", <<>>)
    BY <1>1, <2>2, <2>3, TallyReads
  <2>4. CASE /\ MayFinalize(s) /\ Takes("snapshot", "last", <<To("storage", Shutdown)>>)
             /\ StageActs("snapshot", "last", <<To("storage", Shutdown)>>)
    <3>1. PICK a2 : a2 = TallyTaken'
      OBVIOUS
    <3>2. snap'.hints_complete
      BY <2>1, <2>4 DEF MayFinalize
    <3>3. a2.phase = PhaseOf(snap'.hints_complete)
      BY <3>1 DEF TallyTaken
    <3>4. a2.phase = "closed"
      BY <3>2, <3>3 DEF PhaseOf
    <3>5. status["snapshot"] = "run" /\ queue["snapshot"] # <<>>
      BY <2>4, Inboxes DEF StageActs, Takes
    <3>6. \A d \in Tally : <<TallyTaken, Msg("snapshot"), d>> \in TallyStep => d = a2
      BY <2>2, <3>1
    <3>7. NoPanic => Finished("snapshot", "hints") /\ a2 \in TallySent
      BY <3>4, <3>5, <3>6, TallyStuck
    <3> QED
      BY <1>1, <2>4, <3>1, <3>7, TallyLeaves
  <2> QED
    BY <2>1, <2>3, <2>4
<1>6. CASE SnapClosed
  <2>1. /\ queue["snapshot"] = <<>> /\ Gone("hints") /\ snap' = snap /\ status["snapshot"] = "run"
    BY <1>6 DEF SnapClosed, Closed, Senders, Chan, Running
  <2>2. out["hints"] = <<>> /\ status["hints"] # "run"
    BY <2>1, StageNames DEF DrainInv, GoneIsSilent, Gone
  <2>3. PICK a, W : a = TallyTaken /\ W = TallySent
    OBVIOUS
  <2>4. NoPanic => a \in W
    BY <1>1, <2>1, <2>2, <2>3, LinkDry DEF TallyLink
  <2>5. TallyTaken' = TallyTaken
    BY <2>1 DEF TallyTaken
  <2>6. NoPanic => Finished("snapshot", "hints") /\ TallyTaken' \in TallySent
    BY <2>2, <2>3, <2>4, <2>5, RangeEmpty DEF Finished
  <2> QED
    BY <1>1, <1>6, <2>6, SnapClosedActs, TallyLeaves
<1> QED
  BY <1>2, <1>3, <1>4, <1>5, <1>6 DEF SnapshotStep

-----------------------------------------------------------------------------
(* storage: what the backend receives.                                     *)

Behind == {"Shutdown", "RawEvent", "CompactEvents"}

Indifferent(V, R) == \A u, v \in V : \A m : m.kind \in Behind /\ <<u, m, v>> \in R => v = u

LEMMA LinkHead ==
  ASSUME ChannelsOK, NEW V, NEW R, NEW c, NEW w, NEW r, Shape(V, R, c, w, r),
         NEW a, NEW W, Link(V, R, c, w, r, a, W), status[r] = "run", queue[c] # <<>>
  PROVE  \E d \in V : <<a, Head(queue[c]), d>> \in R
<1>1. queue[c] \in Seq(AnyMessage)
  BY DEF ChannelsOK, Shape
<1>2. PICK b \in V : Flow(V, R, c, queue[c], out[w], a, b)
  BY DEF Link
<1> QED
  BY <1>1, <1>2, FlowReads

(* When storage leaves its loop, nobody is left to write to it but the     *)
(* compression stage.                                                      *)
LEMMA StorageLeaves ==
  ASSUME TypeOK, DrainInv, NEW V, NEW R, NEW w \in {"envelope", "hints", "snapshot"}, NEW a, NEW W,
         Link(V, R, "storage", w, "storage", a, W), Indifferent(V, R),
         StoreShutdown \/ StoreClosed, NoPanic
  PROVE  Finished("storage", w) /\ a \in W
<1>1. ChannelsOK /\ w \in Stage /\ status["storage"] = "run"
  BY DEF TypeOK, Stage, StoreShutdown, StoreClosed, Receives, Running
<1>2. out["envelope"] = <<>> \/ ~Gone("envelope")
  BY StageNames DEF DrainInv, GoneIsSilent
<1>3. CASE StoreShutdown
  <2>1. queue["storage"] # <<>> /\ Head(queue["storage"]).kind = "Shutdown"
    BY <1>3, Inboxes DEF StoreShutdown, Receives
  <2>2. queue["storage"] \in Seq(AnyMessage)
    BY <1>1, StageNames DEF ChannelsOK
  <2>3. PICK q \in Seq(AnyMessage) : q = queue["storage"]
    BY <2>2
  <2>4. q # <<>> /\ q[1].kind = "Shutdown" /\ 1 \in 1..Len(q) /\ Len(q) \in Nat
    BY <2>1, <2>3
  <2>5. \E m \in Range(queue["storage"]) : m.kind = "Shutdown"
    BY <2>3, <2>4 DEF Range
  <2>6. EnvelopesDrained /\ status["snapshot"] # "run" /\ out["snapshot"] = <<>>
    BY <2>5 DEF DrainInv, StorageShutdownMeansDrained
  <2>7. status[w] # "run" /\ out[w] = <<>>
    BY <1>2, <2>6 DEF EnvelopesDrained, Gone
  <2>8. PICK b \in V : Flow(V, R, "storage", queue["storage"], out[w], a, b) /\ b \in W
    BY <1>1 DEF Link, Tracked
  <2>9. Path(V, R, q, a, b)
    BY <2>3, <2>7, <2>8, FlowSilent
  <2>10. ASSUME NEW i \in 1..Len(q) PROVE q[i].kind \in Behind
    <3>1. CASE i = 1
      BY <2>4, <3>1 DEF Behind
    <3>2. CASE i # 1
      <4>1. 1 < i
        BY <2>4, <3>2
      <4> QED
        BY <2>3, <2>4, <4>1 DEF DrainInv, OnlyEventsBehindShutdown, Behind
    <3> QED
      BY <3>1, <3>2
  <2>11. \A i \in 1..Len(q) : \A u, v \in V : <<u, q[i], v>> \in R => v = u
    BY <2>10 DEF Indifferent
  <2>12. a = b
    BY <2>9, <2>11, PathStays
  <2> QED
    BY <2>7, <2>8, <2>12, RangeEmpty DEF Finished
<1>4. CASE StoreClosed
  <2>1. queue["storage"] = <<>> /\ Gone(w)
    BY <1>4 DEF StoreClosed, Closed, Senders, Chan
  <2>2. out[w] = <<>> /\ status[w] # "run"
    BY <1>1, <2>1 DEF DrainInv, GoneIsSilent, Gone
  <2>3. a \in W
    BY <1>1, <2>1, <2>2, LinkDry
  <2> QED
    BY <2>2, <2>3, RangeEmpty DEF Finished
<1> QED
  BY <1>3, <1>4

(* What a step of storage does to a link.                                  *)
LEMMA StorageReads ==
  ASSUME TypeOK, DrainInv, NEW V, NEW R, NEW w \in {"envelope", "hints", "snapshot"},
         NEW a, NEW a2, NEW W, Shape(V, R, "storage", w, "storage"),
         Link(V, R, "storage", w, "storage", a, W), Indifferent(V, R), Storage,
         StoreCommand => \A d \in V : <<a, Msg("storage"), d>> \in R => d = a2,
         ~StoreCommand => a2 = a
  PROVE  LinkNext(V, R, "storage", w, "storage", a2, W)
<1>1. ChannelsOK
  BY DEF TypeOK
<1>2. PICK none : none = <<>>
  OBVIOUS
<1>3. CASE StoreCommand
  <2>1. Takes("storage", "run", none) /\ StageActs("storage", "run", none)
    <3>1. queue["storage"] # <<>> /\ Head(queue["storage"]).kind # "Shutdown"
      BY <1>3 DEF StoreCommand
    <3>2. ~StoreShutdown
      BY <3>1, Inboxes DEF StoreShutdown, Receives
    <3>3. ~StoreClosed
      BY <3>1 DEF StoreClosed, Closed
    <3> QED
      BY <1>2, <3>2, <3>3, StoreActs
  <2>2. \A s \in Range(none) : s.to # "storage"
    BY <1>2, RangeEmpty
  <2> QED
    BY <1>1, <1>3, <2>1, <2>2, LinkReads
<1>4. CASE ~StoreCommand
  <2>1. StageActs("storage", "last", none) /\ (StoreShutdown \/ StoreClosed)
    BY <1>2, <1>4, StoreActs
  <2>2. NoPanic => Finished("storage", w) /\ a \in W
    BY <2>1, StorageLeaves
  <2> QED
    BY <1>1, <1>4, <2>1, <2>2, LinkLeaves
<1> QED
  BY <1>3, <1>4

LEMMA AddFields ==
  ASSUME NEW db \in StoreState, NEW m \in StorageMsg, m.kind # "Shutdown", NEW db2, db2 = Add(db, m)
  PROVE  /\ db2.records = IF m.kind = "Record" THEN db.records + 1 ELSE db.records
         /\ db2.hints = IF m.kind = "Envelope" /\ ~m.signal THEN db.hints + 1 ELSE db.hints
         /\ db2.signals = IF m.kind = "Envelope" /\ m.signal THEN db.signals + 1 ELSE db.signals
         /\ db2.transitions = IF m.kind = "Transition" THEN db.transitions + 1 ELSE db.transitions
         /\ db2.state = IF m.kind = "Transition" THEN m.tr.to ELSE db.state
<1>1. m.kind \in {"Envelope", "Record", "Transition", "RawEvent", "CompactEvents"}
  BY DEF StorageMsg, Shutdown
<1>2. CASE m.kind = "Envelope"
  <2>1. CASE m.signal
    BY <1>2, <2>1 DEF Add, StoreState
  <2>2. CASE ~m.signal
    BY <1>2, <2>2 DEF Add, StoreState
  <2> QED
    BY <2>1, <2>2
<1>3. CASE m.kind = "Record"
  BY <1>3 DEF Add, StoreState
<1>4. CASE m.kind = "Transition"
  BY <1>4 DEF Add, StoreState
<1>5. CASE m.kind = "RawEvent"
  BY <1>5 DEF Add, StoreState
<1>6. CASE m.kind = "CompactEvents"
  BY <1>6 DEF Add, StoreState
<1> QED
  BY <1>1, <1>2, <1>3, <1>4, <1>5, <1>6

LEMMA AddChained ==
  ASSUME NEW db \in StoreState, NEW m \in StorageMsg, m.kind # "Shutdown", db.chained,
         m.kind = "Record" => m.rec.id = db.records,
         m.kind = "Transition" => m.tr.from = db.state
  PROVE  Add(db, m).chained
<1>1. m.kind \in {"Envelope", "Record", "Transition", "RawEvent", "CompactEvents"}
  BY DEF StorageMsg, Shutdown
<1>2. db.chained = TRUE
  BY DEF StoreState
<1>3. CASE m.kind = "Envelope"
  <2>1. CASE m.signal
    BY <1>2, <1>3, <2>1 DEF Add, StoreState
  <2>2. CASE ~m.signal
    BY <1>2, <1>3, <2>2 DEF Add, StoreState
  <2> QED
    BY <2>1, <2>2
<1>4. CASE m.kind = "Record"
  <2>1. Add(db, m) = [db EXCEPT !.records = @ + 1, !.chained = (@ /\ m.rec.id = db.records)]
    BY <1>4 DEF Add
  <2>2. (db.chained /\ m.rec.id = db.records) = TRUE
    BY <1>4, <1>2
  <2>3. Add(db, m).chained = TRUE
    BY <2>1, <2>2 DEF StoreState
  <2> QED
    BY <2>3
<1>5. CASE m.kind = "Transition"
  <2>1. Add(db, m) = [db EXCEPT !.transitions = @ + 1, !.state = m.tr.to,
                                !.chained = (@ /\ m.tr.from = db.state)]
    BY <1>5 DEF Add
  <2>2. (db.chained /\ m.tr.from = db.state) = TRUE
    BY <1>5, <1>2
  <2>3. Add(db, m).chained = TRUE
    BY <2>1, <2>2 DEF StoreState
  <2> QED
    BY <2>3
<1>6. CASE m.kind = "RawEvent"
  BY <1>2, <1>6 DEF Add, StoreState
<1>7. CASE m.kind = "CompactEvents"
  BY <1>2, <1>7 DEF Add, StoreState
<1> QED
  BY <1>1, <1>3, <1>4, <1>5, <1>6, <1>7

LEMMA KeptIndifferent == Indifferent(Kept, KeptStep)
BY DEF Indifferent, Behind, KeptStep

LEMMA SignalIndifferent == Indifferent(Nat, SignalStep)
BY DEF Indifferent, Behind, SignalStep

LEMMA CourseIndifferent == Indifferent(Course, CourseStep)
BY DEF Indifferent, Behind, CourseStep

LEMMA StorageStep ==
  ASSUME TypeOK, Storage
  PROVE  /\ StoreCommand => /\ Msg("storage") \in StorageMsg /\ Msg("storage").kind # "Shutdown"
                            /\ stored' = Add(stored, Msg("storage"))
                            /\ queue["storage"] # <<>> /\ Msg("storage") = Head(queue["storage"])
         /\ ~StoreCommand => stored' = stored
         /\ status["storage"] = "run"
         /\ UNCHANGED <<pending, event_count, work, derive, builder, rollup, snap, bus, source>>
<1>1. /\ status["storage"] = "run"
      /\ UNCHANGED <<pending, event_count, work, derive, builder, rollup, snap, bus, source>>
  BY DEF Storage, StoreCommand, StoreShutdown, StoreClosed, StorageUnchanged, Receives, Running
<1>2. ASSUME StoreCommand
      PROVE  /\ Msg("storage") \in StorageMsg /\ Msg("storage").kind # "Shutdown"
             /\ stored' = Add(stored, Msg("storage"))
             /\ queue["storage"] # <<>> /\ Msg("storage") = Head(queue["storage"])
  <2>1. /\ queue["storage"] # <<>> /\ Msg("storage") = Head(queue["storage"])
        /\ Msg("storage").kind # "Shutdown" /\ stored' = Add(stored, Msg("storage"))
    BY <1>2, Inboxes DEF StoreCommand, Msg
  <2>2. Msg("storage") \in StorageMsg
    BY <2>1, Inboxes, HeadType, StageNames DEF Message, TypeOK
  <2> QED
    BY <2>1, <2>2
<1>3. ~StoreCommand => stored' = stored
  BY DEF Storage, StoreShutdown, StoreClosed
<1> QED
  BY <1>1, <1>2, <1>3

LEMMA KeptStorage ==
  ASSUME TypeOK, DrainInv, NEW hh \in Nat, KeptLink(hh), Storage
  PROVE  KeptLink(hh)'
<1>1. PICK a, a2, W, m : a = KeptTaken /\ a2 = KeptTaken' /\ W = KeptSent(hh) /\ m = Msg("storage")
  OBVIOUS
<1>2. KeptSent(hh)' = W
  BY <1>1, StorageStep DEF KeptSent
<1>3. ASSUME StoreCommand, NEW d \in Kept, <<a, m, d>> \in KeptStep
      PROVE  d = a2
  <2>1. stored \in StoreState /\ m \in StorageMsg /\ m.kind # "Shutdown" /\ stored' = Add(stored, m)
    BY <1>1, <1>3, StorageStep DEF TypeOK, StagesOK
  <2>2. /\ stored'.records = IF m.kind = "Record" THEN stored.records + 1 ELSE stored.records
        /\ stored'.hints = IF m.kind = "Envelope" /\ ~m.signal THEN stored.hints + 1 ELSE stored.hints
    BY <2>1, AddFields
  <2>3. a.records = stored.records /\ a.hints = stored.hints
        /\ a2 = [records |-> stored'.records, hints |-> stored'.hints]
        /\ a = [records |-> stored.records, hints |-> stored.hints]
    BY <1>1 DEF KeptTaken
  <2> QED
    BY <1>3, <2>2, <2>3 DEF KeptStep
<1>4. ~StoreCommand => a2 = a
  BY <1>1, StorageStep DEF KeptTaken
<1>5. Link(Kept, KeptStep, "storage", "hints", "storage", a, W)
  BY <1>1 DEF KeptLink
<1>6. StoreCommand => \A d \in Kept : <<a, Msg("storage"), d>> \in KeptStep => d = a2
  BY <1>1, <1>3
<1>7. LinkNext(Kept, KeptStep, "storage", "hints", "storage", a2, W)
  BY <1>4, <1>5, <1>6, KeptShape, KeptIndifferent, StorageReads
<1> QED
  BY <1>1, <1>2, <1>7 DEF KeptLink, Link, LinkNext

LEMMA SignalStorage ==
  ASSUME TypeOK, DrainInv, NEW sig \in Nat, SignalLink(sig), Storage
  PROVE  SignalLink(sig)'
<1>1. PICK a, a2, W, m : a = stored.signals /\ a2 = stored'.signals /\ W = {sig} /\ m = Msg("storage")
  OBVIOUS
<1>2. ASSUME StoreCommand, NEW d \in Nat, <<a, m, d>> \in SignalStep
      PROVE  d = a2
  <2>1. stored \in StoreState /\ m \in StorageMsg /\ m.kind # "Shutdown" /\ stored' = Add(stored, m)
    BY <1>1, <1>2, StorageStep DEF TypeOK, StagesOK
  <2>2. stored'.signals = IF m.kind = "Envelope" /\ m.signal THEN stored.signals + 1 ELSE stored.signals
    BY <2>1, AddFields
  <2> QED
    BY <1>1, <1>2, <2>2 DEF SignalStep
<1>3. ~StoreCommand => a2 = a
  BY <1>1, StorageStep
<1>4. Link(Nat, SignalStep, "storage", "envelope", "storage", a, W)
  BY <1>1 DEF SignalLink
<1>5. StoreCommand => \A d \in Nat : <<a, Msg("storage"), d>> \in SignalStep => d = a2
  BY <1>1, <1>2
<1>6. LinkNext(Nat, SignalStep, "storage", "envelope", "storage", a2, W)
  BY <1>3, <1>4, <1>5, SignalShape, SignalIndifferent, StorageReads
<1> QED
  BY <1>1, <1>6 DEF SignalLink, Link, LinkNext

LEMMA CourseStorage ==
  ASSUME TypeOK, DrainInv, CourseLink, Storage
  PROVE  CourseLink'
<1>1. PICK a, a2, W, m : a = CourseTaken /\ a2 = CourseTaken' /\ W = CourseSent /\ m = Msg("storage")
  OBVIOUS
<1>2. CourseSent' = W
  BY <1>1, StorageStep DEF CourseSent
<1>3. ASSUME StoreCommand, NEW d \in Course, <<a, m, d>> \in CourseStep
      PROVE  d = a2
  <2>1. stored \in StoreState /\ m \in StorageMsg /\ m.kind # "Shutdown" /\ stored' = Add(stored, m)
    BY <1>1, <1>3, StorageStep DEF TypeOK, StagesOK
  <2>2. /\ stored'.transitions = IF m.kind = "Transition" THEN stored.transitions + 1 ELSE stored.transitions
        /\ stored'.state = IF m.kind = "Transition" THEN m.tr.to ELSE stored.state
    BY <2>1, AddFields
  <2>3. a.state = stored.state /\ a.transitions = stored.transitions
        /\ a2 = [state |-> stored'.state, transitions |-> stored'.transitions]
        /\ a = [state |-> stored.state, transitions |-> stored.transitions]
    BY <1>1 DEF CourseTaken
  <2> QED
    BY <1>3, <2>2, <2>3 DEF CourseStep
<1>4. ~StoreCommand => a2 = a
  BY <1>1, StorageStep DEF CourseTaken
<1>5. Link(Course, CourseStep, "storage", "snapshot", "storage", a, W)
  BY <1>1 DEF CourseLink
<1>6. StoreCommand => \A d \in Course : <<a, Msg("storage"), d>> \in CourseStep => d = a2
  BY <1>1, <1>3
<1>7. LinkNext(Course, CourseStep, "storage", "snapshot", "storage", a2, W)
  BY <1>4, <1>5, <1>6, CourseShape, CourseIndifferent, StorageReads
<1> QED
  BY <1>1, <1>2, <1>7 DEF CourseLink, Link, LinkNext

(* Records arrive numbered in order, and transitions in a chain.           *)
LEMMA ChainedStorage ==
  ASSUME TypeOK, NEW hh \in Nat, KeptLink(hh), CourseLink, stored.chained, Storage
  PROVE  stored'.chained
<1>1. CASE StoreCommand
  <2>1. PICK m : m = Msg("storage")
    OBVIOUS
  <2>2. /\ stored \in StoreState /\ m \in StorageMsg /\ m.kind # "Shutdown" /\ stored' = Add(stored, m)
        /\ status["storage"] = "run" /\ queue["storage"] # <<>> /\ m = Head(queue["storage"])
    BY <1>1, <2>1, StorageStep DEF TypeOK, StagesOK
  <2>3. ChannelsOK
    BY DEF TypeOK
  <2>4. PICK d \in Kept : <<KeptTaken, m, d>> \in KeptStep
    <3>1. PICK a, W : a = KeptTaken /\ W = KeptSent(hh)
      OBVIOUS
    <3> QED
      BY <2>2, <2>3, <3>1, KeptShape, LinkHead DEF KeptLink
  <2>5. PICK e \in Course : <<CourseTaken, m, e>> \in CourseStep
    <3>1. PICK a, W : a = CourseTaken /\ W = CourseSent
      OBVIOUS
    <3> QED
      BY <2>2, <2>3, <3>1, CourseShape, LinkHead DEF CourseLink
  <2>6. m.kind = "Record" => m.rec.id = stored.records
    BY <2>4 DEF KeptStep, KeptTaken
  <2>7. m.kind = "Transition" => m.tr.from = stored.state
    BY <2>5 DEF CourseStep, CourseTaken
  <2> QED
    BY <2>2, <2>6, <2>7, AddChained
<1>2. CASE ~StoreCommand
  BY <1>2, StorageStep
<1> QED
  BY <1>1, <1>2

LEMMA SignalWrites ==
  ASSUME TypeOK, NEW sig \in Nat, NEW sig2 \in Nat, SignalLink(sig), UNCHANGED stored,
         NEW st, NEW sends, StageActs("envelope", st, sends),
         Path(Nat, Sent(Nat, SignalStep, "storage"), sends, sig, sig2)
  PROVE  SignalLink(sig2)'
<1>1. ChannelsOK
  BY DEF TypeOK
<1>2. PICK a, W, W2 : a = stored.signals /\ W = {sig} /\ W2 = {sig2}
  OBVIOUS
<1>3. Link(Nat, SignalStep, "storage", "envelope", "storage", a, W)
  BY <1>2 DEF SignalLink
<1>4. \A b \in Nat : b \in W => \E d \in Nat : d \in W2 /\ Path(Nat, Sent(Nat, SignalStep, "storage"), sends, b, d)
  BY <1>2
<1>5. LinkNext(Nat, SignalStep, "storage", "envelope", "storage", a, W2)
  BY <1>1, <1>3, <1>4, SignalShape, LinkWrites
<1>6. a = stored'.signals
  BY <1>2
<1> QED
  BY <1>2, <1>5, <1>6 DEF SignalLink, Link, LinkNext

LEMMA SignalUntold ==
  ASSUME TypeOK, NEW sig \in Nat, SignalLink(sig), UNCHANGED stored,
         NEW st, NEW sends, StageActs("envelope", st, sends), \A s \in Range(sends) : s.to # "storage"
  PROVE  SignalLink(sig)'
<1>1. sends \in Seq(Send)
  BY DEF StageActs
<1>2. Path(Nat, Sent(Nat, SignalStep, "storage"), sends, sig, sig)
  BY <1>1, SentElsewhere
<1> QED
  BY <1>2, SignalWrites

LEMMA SignalHandleSignal ==
  ASSUME TypeOK, NEW sig \in Nat, SignalLink(sig), HandleSignal, NEW sig2 \in Nat, sig2 = sig + 1
  PROVE  SignalLink(sig2)'
<1>1. PICK to \in ActivityState :
           /\ work.envs # <<>> /\ IsSignal(Head(work.envs))
           /\ StageActs("envelope", "run", SignalSends(to))
  BY HandleSignalActs
<1>2. stored' = stored /\ derive.state \in ActivityState
  BY DEF TypeOK, StagesOK, DeriveState, HandleSignal, EnvelopeUnchanged
<1>3. PICK s, q : /\ s = To("storage", EnvelopeCmd(Head(work.envs)))
                  /\ q = StateSends(SignalUpd, derive.state, to)
  OBVIOUS
<1>4. q \in Seq(Send) /\ \A x \in Range(q) : x.to # "storage"
  BY <1>1, <1>2, <1>3, SignalUpdType, StateSendsType, StateSendsTo
<1>5. /\ EnvelopeCmd(Head(work.envs)) \in StorageMsg /\ EnvelopeCmd(Head(work.envs)).kind = "Envelope"
      /\ EnvelopeCmd(Head(work.envs)).signal = IsSignal(Head(work.envs))
  BY DEF EnvelopeCmd, IsSignal, StorageMsg
<1>6. /\ s \in Send /\ s.to = "storage" /\ s.msg = EnvelopeCmd(Head(work.envs)) /\ s.msg \in StorageMsg
      /\ s.msg.kind = "Envelope"
  BY <1>3, <1>5 DEF To, Send
<1>7. s.msg.signal
  BY <1>1, <1>5, <1>6
<1>8. <<sig, s.msg, sig2>> \in SignalStep
  BY <1>6, <1>7 DEF SignalStep
<1>9. Path(Nat, Sent(Nat, SignalStep, "storage"), <<s>>, sig, sig2)
  BY <1>6, <1>8, SentHere
<1>10. Path(Nat, Sent(Nat, SignalStep, "storage"), q, sig2, sig2)
  BY <1>4, SentElsewhere
<1>11. <<s>> \in Seq(Send)
  BY <1>6
<1>12. Path(Nat, Sent(Nat, SignalStep, "storage"), <<s>> \o q, sig, sig2)
  BY <1>4, <1>9, <1>10, <1>11, PathConcat
<1>13. PICK sends : sends = SignalSends(to)
  OBVIOUS
<1>14. sends = <<s>> \o q
  BY <1>3, <1>13 DEF SignalSends
<1> QED
  BY <1>1, <1>2, <1>12, <1>13, <1>14, SignalWrites

LEMMA SignalEnvelope ==
  ASSUME TypeOK, NEW sig \in Nat, SignalLink(sig), EnvelopeStep, ~HandleSignal
  PROVE  SignalLink(sig)'
<1>1. stored' = stored
  BY DEF EnvelopeStep, TakeBatch, AdaptEvent, DeriveLock, HandleHint, FinishBatch, TakeTick,
         TakeShutdown, EnvelopeClosed, EnvelopeUnchanged
<1>2. CASE AdaptEvent \/ DeriveLock
  <2>1. UNCHANGED <<status, queue, out>>
    BY <1>2 DEF AdaptEvent, DeriveLock
  <2>2. PICK a, W : a = stored.signals /\ W = {sig}
    OBVIOUS
  <2>3. LinkNext(Nat, SignalStep, "storage", "envelope", "storage", a, W)
    BY <2>1, <2>2, LinkElsewhere DEF SignalLink
  <2> QED
    BY <1>1, <2>2, <2>3 DEF SignalLink, Link, LinkNext
<1>3. CASE EnvelopeOther /\ ~AdaptEvent /\ ~DeriveLock
  <2>1. PICK st, sends : /\ StageActs("envelope", st, sends)
                         /\ \A s \in Range(sends) : s.to \in {"compression", "snapshot"}
    BY <1>3, OtherActsTo
  <2> QED
    BY <1>1, <2>1, SignalUntold
<1>4. CASE HandleHint
  <2>1. PICK sends : sends = <<To("hints", Head(work.envs))>>
    OBVIOUS
  <2>2. StageActs("envelope", "run", sends)
    BY <1>4, <2>1, HandleHintActs
  <2>3. \A s \in Range(sends) : s.to # "storage"
    BY <2>1, RangeOne DEF To
  <2> QED
    BY <1>1, <2>2, <2>3, SignalUntold
<1>5. CASE TakeTick
  <2>1. PICK to \in ActivityState : StageActs("envelope", "run", TickSends(to))
    BY <1>5, TakeTickActs
  <2>2. \A s \in Range(TickSends(to)) : s.to # "storage"
    BY TickSendsTo
  <2>3. PICK sends : sends = TickSends(to)
    OBVIOUS
  <2> QED
    BY <1>1, <2>1, <2>2, <2>3, SignalUntold
<1> QED
  BY <1>2, <1>3, <1>4, <1>5 DEF EnvelopeStep, EnvelopeOther

-----------------------------------------------------------------------------
(* storage: the transitions, from snapshot to storage.                     *)

LEMMA CourseWrites ==
  ASSUME TypeOK, CourseLink, UNCHANGED stored, NEW st, NEW sends, StageActs("snapshot", st, sends),
         \A b \in Course : b \in CourseSent =>
            \E d \in Course : /\ d \in CourseSent'
                              /\ Path(Course, Sent(Course, CourseStep, "storage"), sends, b, d)
  PROVE  CourseLink'
<1>1. ChannelsOK
  BY DEF TypeOK
<1>2. CourseTaken' = CourseTaken
  BY DEF CourseTaken
<1>3. PICK a2, W2 : a2 = CourseTaken' /\ W2 = CourseSent'
  OBVIOUS
<1>4. LinkNext(Course, CourseStep, "storage", "snapshot", "storage", a2, W2)
  BY <1>1, <1>2, <1>3, CourseShape, LinkWrites DEF CourseLink
<1> QED
  BY <1>3, <1>4 DEF CourseLink, Link, LinkNext

(* A step that changes neither the state nor the number of transitions.    *)
LEMMA CourseUntold ==
  ASSUME TypeOK, CourseLink, UNCHANGED stored, NEW st, NEW sends, StageActs("snapshot", st, sends),
         sends = <<>> \/ sends = <<To("storage", Shutdown)>>,
         snap'.state = snap.state, bus'.transitions = bus.transitions
  PROVE  CourseLink'
<1>1. ASSUME NEW b \in Course, b \in CourseSent
      PROVE  Path(Course, Sent(Course, CourseStep, "storage"), sends, b, b)
  <2>1. CASE sends = <<>>
    BY <2>1, PathEmpty
  <2>2. CASE sends = <<To("storage", Shutdown)>>
    <3>1. PICK s : s = To("storage", Shutdown)
      OBVIOUS
    <3>2. s \in Send /\ s.to = "storage" /\ s.msg = Shutdown /\ Shutdown \in StorageMsg
      BY <3>1 DEF To, Send, StorageMsg
    <3>3. <<b, s.msg, b>> \in CourseStep
      BY <3>2 DEF CourseStep, Shutdown
    <3> QED
      BY <2>2, <3>1, <3>2, <3>3, SentHere
  <2> QED
    BY <2>1, <2>2
<1>2. CourseSent' = CourseSent
  BY DEF CourseSent
<1> QED
  BY <1>1, <1>2, CourseWrites

LEMMA CourseUpdate ==
  ASSUME TypeOK, CourseLink, NEW sig \in Nat, NEW hin \in Nat, SeenLink(sig, hin), SnapUpdate
  PROVE  CourseLink'
<1>1. PICK u, sends : u = Msg("snapshot") /\ sends = UpdateSends(u.tr)
  OBVIOUS
<1>2. /\ u \in SnapshotMsg /\ u.kind = "Update" /\ StageActs("snapshot", "run", sends)
  BY <1>1, SnapUpdateActs
<1>3. /\ u.tr \in OptTransition /\ snap \in SnapState /\ bus \in BusState /\ ChannelsOK
  BY <1>2 DEF SnapshotMsg, Publish, HintsComplete, Shutdown, TypeOK, StagesOK
<1>4. /\ snap'.state = IF u.tr = NoTransition THEN snap.state ELSE u.tr.to
      /\ bus'.transitions = IF u.tr = NoTransition THEN bus.transitions ELSE bus.transitions + 1
      /\ stored' = stored
  BY <1>1, <1>3 DEF SnapUpdate, SnapshotUnchanged, SnapState, BusState
<1>5. CASE u.tr = NoTransition
  <2>1. sends = <<>>
    BY <1>1, <1>5 DEF UpdateSends
  <2> QED
    BY <1>2, <1>4, <1>5, <2>1, CourseUntold
<1>6. CASE u.tr # NoTransition
  <2>1. u.tr \in Transition
    BY <1>3, <1>6 DEF OptTransition
  <2>2. u.tr.from = snap.state
    <3>1. status["snapshot"] = "run" /\ queue["snapshot"] # <<>> /\ u = Head(queue["snapshot"])
      BY <1>1, Inboxes DEF SnapUpdate, Receives, Running, Msg
    <3>2. PICK a, W : a = SeenTaken /\ W = SeenSent(sig, hin)
      OBVIOUS
    <3>3. PICK d \in Seen : <<a, u, d>> \in SeenStep
      BY <1>3, <3>1, <3>2, SeenShape, LinkHead DEF SeenLink
    <3>4. Seeing(a, u, d)
      BY <1>2, <3>3 DEF SeenStep
    <3>5. a.state = snap.state
      BY <3>2 DEF SeenTaken
    <3> QED
      BY <1>6, <3>4, <3>5 DEF Seeing
  <2>3. PICK s : s = To("storage", TransitionCmd(u.tr))
    OBVIOUS
  <2>4. /\ s \in Send /\ s.to = "storage" /\ s.msg \in StorageMsg
        /\ s.msg.kind = "Transition" /\ s.msg.tr = u.tr
    BY <2>1, <2>3 DEF To, TransitionCmd, Send, StorageMsg
  <2>5. sends = <<s>>
    BY <1>1, <1>6, <2>3 DEF UpdateSends
  <2>6. PICK b, d : /\ b = [state |-> snap.state, transitions |-> bus.transitions]
                    /\ d = [state |-> u.tr.to, transitions |-> bus.transitions + 1]
    OBVIOUS
  <2>7. b \in Course /\ d \in Course
    BY <1>3, <2>1, <2>6 DEF Course, SnapState, BusState, Transition
  <2>8. CourseSent = {b} /\ CourseSent' = {d}
    BY <1>4, <1>6, <2>6 DEF CourseSent
  <2>9. <<b, s.msg, d>> \in CourseStep
    BY <2>2, <2>4, <2>6, <2>7 DEF CourseStep
  <2>10. Path(Course, Sent(Course, CourseStep, "storage"), sends, b, d)
    BY <2>4, <2>5, <2>7, <2>9, SentHere
  <2> QED
    BY <1>2, <1>4, <2>7, <2>8, <2>10, CourseWrites
<1> QED
  BY <1>5, <1>6

LEMMA CourseSnapshot ==
  ASSUME TypeOK, CourseLink, NEW sig \in Nat, NEW hin \in Nat, SeenLink(sig, hin), SnapshotStep
  PROVE  CourseLink'
<1>1. stored' = stored /\ snap \in SnapState /\ bus \in BusState
  BY DEF TypeOK, StagesOK, SnapshotStep, SnapUpdate, SnapRecord, SnapPublish, SnapHintsComplete,
         SnapShutdown, Finalize, SnapClosed, SnapshotUnchanged
<1>2. CASE SnapUpdate
  BY <1>2, CourseUpdate
<1>3. CASE SnapRecord \/ SnapPublish
  <2>1. snap'.state = snap.state /\ bus'.transitions = bus.transitions
    BY <1>1, <1>3 DEF SnapRecord, SnapPublish, PublishSnapshot, SnapState
  <2> QED
    BY <1>1, <1>3, <2>1, SnapPlainActs, CourseUntold
<1>4. CASE SnapHintsComplete \/ SnapShutdown
  <2>1. PICK s :
           /\ \/ /\ s = [snap EXCEPT !.hints_complete = TRUE]
                 /\ Msg("snapshot").kind = "HintsComplete"
              \/ /\ s = [snap EXCEPT !.shutdown_requested = TRUE]
                 /\ Msg("snapshot").kind = "Shutdown"
           /\ snap' = s
           /\ Msg("snapshot") \in SnapshotMsg
           /\ \/ /\ MayFinalize(s) /\ PublishSnapshot(s)
                 /\ Takes("snapshot", "last", <<To("storage", Shutdown)>>)
                 /\ StageActs("snapshot", "last", <<To("storage", Shutdown)>>)
              \/ /\ ~MayFinalize(s) /\ bus' = bus
                 /\ Takes("snapshot", "run", <<>>) /\ StageActs("snapshot", "run", <<>>)
    BY <1>4, FinalizeActs
  <2>2. snap'.state = snap.state
    BY <1>1, <2>1 DEF SnapState
  <2>3. bus'.transitions = bus.transitions
    BY <2>1 DEF PublishSnapshot
  <2>4. PICK st, sends : /\ StageActs("snapshot", st, sends)
                         /\ sends = <<>> \/ sends = <<To("storage", Shutdown)>>
    BY <2>1
  <2> QED
    BY <1>1, <2>2, <2>3, <2>4, CourseUntold
<1>5. CASE SnapClosed
  <2>1. snap' = snap /\ bus'.transitions = bus.transitions
    BY <1>5 DEF SnapClosed, PublishSnapshot
  <2>2. PICK sends : sends = <<To("storage", Shutdown)>>
    OBVIOUS
  <2> QED
    BY <1>1, <1>5, <2>1, <2>2, SnapClosedActs, CourseUntold
<1> QED
  BY <1>2, <1>3, <1>4, <1>5 DEF SnapshotStep

-----------------------------------------------------------------------------
(* The invariant, step by step.                                            *)

LEMMA ActsQuiet ==
  ASSUME NEW t, NEW st, NEW sends, StageActs(t, st, sends), NEW w, NEW r, t # w, t # r
  PROVE  Quiet(w, r)
BY DEF Quiet

(* What a step leaves alone.                                               *)
LEMMA BatchStays ==
  ASSUME BatchInWork, UNCHANGED <<work, derive>>,
         NoPanic' /\ Left("envelope")' => NoPanic /\ Left("envelope")
  PROVE  BatchInWork'
BY DEF BatchInWork

LEMMA IngestStays ==
  ASSUME IngestBehind, UNCHANGED pending, source'.open => source.open,
         NoPanic' /\ Left("ingest")' => NoPanic /\ Left("ingest")
  PROVE  IngestBehind'
BY DEF IngestBehind

LEMMA HintsStays ==
  ASSUME HintsBehind, UNCHANGED builder, Left("hints")' => Left("hints")
  PROVE  HintsBehind'
BY DEF HintsBehind

LEMMA SnapshotStays ==
  ASSUME SnapshotBehind, UNCHANGED <<snap, bus>>, Left("snapshot")' => Left("snapshot")
  PROVE  SnapshotBehind'
BY DEF SnapshotBehind

(* A stage acts: the others stay in their loops, or out of them.           *)
LEMMA ActsLeft ==
  ASSUME ChannelsOK, NEW t, NEW st, NEW sends, StageActs(t, st, sends), NEW u \in Stage, u # t
  PROVE  (Left(u)' <=> Left(u)) /\ (NoPanic' <=> NoPanic)
BY ActsStatus DEF Left

LEMMA FlowIngest ==
  ASSUME TypeOK, DrainInv, FlowInv, Ingest
  PROVE  FlowInv'
<1>1. PICK rr \in Nat, hh \in Nat, hin \in Nat, sig \in Nat : Links(rr, hh, hin, sig)
  BY DEF FlowInv
<1>2. PICK st, sends : StageActs("ingest", st, sends)
  BY IngestActs
<1>3. /\ ChannelsOK /\ SendsAreTheirs
      /\ UNCHANGED <<work, derive, builder, rollup, snap, bus, stored>>
  BY DEF TypeOK, DrainInv, Ingest, IngestEvent, IngestShutdown, IngestFlush, IngestIdleTick,
         IngestDisconnected, IngestUnchanged
<1>4. Links(rr, hh, hin, sig)'
  <2>1. RawLink(rr)'
    BY <1>1, RawIngest DEF Links
  <2>2. /\ Quiet("envelope", "compression") /\ Quiet("envelope", "hints")
        /\ Quiet("envelope", "snapshot") /\ Quiet("hints", "snapshot")
        /\ Quiet("hints", "storage") /\ Quiet("envelope", "storage")
        /\ Quiet("snapshot", "storage")
    BY <1>2, ActsQuiet
  <2>3. CompressLink(rr)' /\ HintLink(hh, hin)' /\ SeenLink(sig, hin)'
    BY <1>1, <1>3, <2>2, CompressQuiet, HintQuiet, SeenQuiet DEF Links
  <2>4. TallyLink' /\ KeptLink(hh)' /\ SignalLink(sig)' /\ CourseLink'
    BY <1>1, <1>3, <2>2, TallyQuiet, KeptQuiet, SignalQuiet, CourseQuiet DEF Links
  <2> QED
    BY <2>1, <2>3, <2>4 DEF Links
<1>5. /\ \A u \in {"envelope", "hints", "snapshot"} : Left(u)' <=> Left(u)
      /\ NoPanic' <=> NoPanic
  BY <1>2, <1>3, ActsLeft, StageNames
<1>6. BatchInWork' /\ HintsBehind' /\ SnapshotBehind'
  BY <1>3, <1>5, BatchStays, HintsStays, SnapshotStays DEF FlowInv, LeftBehind
<1>7. IngestBehind'
  <2>1. CASE IngestShutdown
    BY <2>1 DEF IngestShutdown, IngestBehind
  <2>2. CASE IngestDisconnected
    BY <2>2 DEF IngestDisconnected, IngestBehind, Closed
  <2>3. CASE ~IngestShutdown /\ ~IngestDisconnected
    <3>1. PICK o : StageActs("ingest", "run", o)
      BY <2>3, IngestActs
    <3>2. ~Left("ingest")'
      BY <1>3, <3>1, ActsStatus, StageNames DEF Left
    <3> QED
      BY <3>2 DEF IngestBehind
  <2> QED
    BY <2>1, <2>2, <2>3
<1>8. stored'.chained
  BY <1>3 DEF FlowInv
<1> QED
  BY <1>4, <1>6, <1>7, <1>8 DEF FlowInv, LeftBehind

LEMMA FlowHints ==
  ASSUME TypeOK, DrainInv, FlowInv, Hints
  PROVE  FlowInv'
<1>1. PICK rr \in Nat, hh \in Nat, hin \in Nat, sig \in Nat : Links(rr, hh, hin, sig)
  BY DEF FlowInv
<1>2. PICK st, sends : StageActs("hints", st, sends)
  BY HintsRecvActs, HintsClosedActs DEF Hints
<1>3. /\ ChannelsOK /\ SendsAreTheirs
      /\ UNCHANGED <<source, pending, event_count, work, derive, rollup, snap, bus, stored>>
  BY DEF TypeOK, DrainInv, Hints, HintsRecv, HintsClosed, HintsUnchanged
<1>4. PICK h2 \in Nat : h2 = hh + 1
  OBVIOUS
<1>5. /\ Quiet("ingest", "envelope") /\ Quiet("envelope", "compression")
      /\ Quiet("envelope", "snapshot") /\ Quiet("envelope", "storage")
      /\ Quiet("snapshot", "storage")
  BY <1>2, ActsQuiet
<1>6. /\ RawLink(rr)' /\ CompressLink(rr)' /\ SeenLink(sig, hin)' /\ SignalLink(sig)' /\ CourseLink'
  BY <1>1, <1>3, <1>5, RawQuiet, CompressQuiet, SeenQuiet, SignalQuiet, CourseQuiet DEF Links
<1>7. TallyLink'
  BY <1>1, TallyHints DEF Links
<1>8. \E h \in Nat : HintLink(h, hin)' /\ KeptLink(h)'
  <2>1. CASE HintsRecv
    BY <1>1, <1>4, <2>1, HintReads, KeptHintsRecv DEF Links
  <2>2. CASE HintsClosed
    BY <1>1, <2>2, HintLeaves, KeptHintsClosed DEF Links
  <2> QED
    BY <2>1, <2>2 DEF Hints
<1>9. PICK h \in Nat : Links(rr, h, hin, sig)'
  BY <1>6, <1>7, <1>8 DEF Links
<1>10. /\ \A u \in {"ingest", "envelope", "snapshot"} : Left(u)' <=> Left(u)
       /\ NoPanic' <=> NoPanic
  BY <1>2, <1>3, ActsLeft, StageNames
<1>11. BatchInWork' /\ IngestBehind' /\ SnapshotBehind'
  BY <1>3, <1>10, BatchStays, IngestStays, SnapshotStays DEF FlowInv, LeftBehind
<1>12. HintsBehind'
  <2>1. CASE HintsRecv
    <3>1. status'["hints"] = "run"
      BY <1>3, <2>1, HintsRecvActs, ActsStatus
    <3> QED
      BY <3>1 DEF HintsBehind, Left
  <2>2. CASE HintsClosed
    <3>1. builder'.open = FALSE
      BY <2>2, HintsClosedActs DEF RecordBuilder
    <3> QED
      BY <3>1 DEF HintsBehind
  <2> QED
    BY <2>1, <2>2 DEF Hints
<1>13. stored'.chained
  BY <1>3 DEF FlowInv
<1> QED
  BY <1>9, <1>11, <1>12, <1>13 DEF FlowInv, LeftBehind

LEMMA FlowCompression ==
  ASSUME TypeOK, DrainInv, FlowInv, Compression
  PROVE  FlowInv'
<1>1. PICK rr \in Nat, hh \in Nat, hin \in Nat, sig \in Nat : Links(rr, hh, hin, sig)
  BY DEF FlowInv
<1>2. PICK st, sends : StageActs("compression", st, sends)
  BY CompressionActs
<1>3. /\ ChannelsOK /\ SendsAreTheirs
      /\ UNCHANGED <<source, pending, event_count, work, derive, builder, snap, bus, stored>>
  BY DEF TypeOK, DrainInv, Compression, CompressBatch, CompressionShutdown, CompressionClosed,
         CompressionUnchanged
<1>4. /\ Quiet("ingest", "envelope") /\ Quiet("envelope", "hints")
      /\ Quiet("envelope", "snapshot") /\ Quiet("hints", "snapshot")
      /\ Quiet("hints", "storage") /\ Quiet("envelope", "storage")
      /\ Quiet("snapshot", "storage")
  BY <1>2, ActsQuiet
<1>5. RawLink(rr)' /\ HintLink(hh, hin)' /\ SeenLink(sig, hin)'
  BY <1>1, <1>3, <1>4, RawQuiet, HintQuiet, SeenQuiet DEF Links
<1>6. TallyLink' /\ KeptLink(hh)' /\ SignalLink(sig)' /\ CourseLink'
  BY <1>1, <1>3, <1>4, TallyQuiet, KeptQuiet, SignalQuiet, CourseQuiet DEF Links
<1>7. CompressLink(rr)'
  BY <1>1, CompressReads, CompressLeaves DEF Links, Compression
<1>8. Links(rr, hh, hin, sig)'
  BY <1>5, <1>6, <1>7 DEF Links
<1>9. /\ \A u \in {"ingest", "envelope", "hints", "snapshot"} : Left(u)' <=> Left(u)
      /\ NoPanic' <=> NoPanic
  BY <1>2, <1>3, ActsLeft, StageNames
<1>10. BatchInWork' /\ LeftBehind'
  BY <1>3, <1>9, BatchStays, IngestStays, HintsStays, SnapshotStays DEF FlowInv, LeftBehind
<1>11. stored'.chained
  BY <1>3 DEF FlowInv
<1> QED
  BY <1>8, <1>10, <1>11 DEF FlowInv

LEMMA FlowStorage ==
  ASSUME TypeOK, DrainInv, FlowInv, Storage
  PROVE  FlowInv'
<1>1. PICK rr \in Nat, hh \in Nat, hin \in Nat, sig \in Nat : Links(rr, hh, hin, sig)
  BY DEF FlowInv
<1>2. PICK st, sends : StageActs("storage", st, sends)
  BY StoreActs
<1>3. /\ ChannelsOK /\ SendsAreTheirs
      /\ UNCHANGED <<pending, event_count, work, derive, builder, rollup, snap, bus, source>>
  BY StorageStep DEF TypeOK, DrainInv
<1>4. /\ Quiet("ingest", "envelope") /\ Quiet("envelope", "hints") /\ Quiet("envelope", "compression")
      /\ Quiet("envelope", "snapshot") /\ Quiet("hints", "snapshot")
  BY <1>2, ActsQuiet
<1>5. RawLink(rr)' /\ HintLink(hh, hin)' /\ SeenLink(sig, hin)' /\ CompressLink(rr)' /\ TallyLink'
  BY <1>1, <1>3, <1>4, RawQuiet, HintQuiet, SeenQuiet, CompressQuiet, TallyQuiet DEF Links
<1>6. KeptLink(hh)' /\ SignalLink(sig)' /\ CourseLink'
  BY <1>1, KeptStorage, SignalStorage, CourseStorage DEF Links
<1>7. Links(rr, hh, hin, sig)'
  BY <1>5, <1>6 DEF Links
<1>8. /\ \A u \in {"ingest", "envelope", "hints", "snapshot"} : Left(u)' <=> Left(u)
      /\ NoPanic' <=> NoPanic
  BY <1>2, <1>3, ActsLeft, StageNames
<1>9. BatchInWork' /\ LeftBehind'
  BY <1>3, <1>8, BatchStays, IngestStays, HintsStays, SnapshotStays DEF FlowInv, LeftBehind
<1>10. stored'.chained
  BY <1>1, ChainedStorage DEF FlowInv, Links
<1> QED
  BY <1>7, <1>9, <1>10 DEF FlowInv

LEMMA FlowSnapshot ==
  ASSUME TypeOK, DrainInv, FlowInv, SnapshotStep
  PROVE  FlowInv'
<1>1. PICK rr \in Nat, hh \in Nat, hin \in Nat, sig \in Nat : Links(rr, hh, hin, sig)
  BY DEF FlowInv
<1>2. PICK st, sends : StageActs("snapshot", st, sends)
  BY SnapshotActs
<1>3. /\ ChannelsOK /\ SendsAreTheirs /\ snap \in SnapState
      /\ UNCHANGED <<source, pending, event_count, work, derive, builder, rollup, stored>>
  BY DEF TypeOK, StagesOK, DrainInv, SnapshotStep, SnapUpdate, SnapRecord, SnapPublish, SnapHintsComplete,
         SnapShutdown, Finalize, SnapClosed, SnapshotUnchanged
<1>4. /\ Quiet("ingest", "envelope") /\ Quiet("envelope", "hints") /\ Quiet("envelope", "compression")
      /\ Quiet("hints", "storage") /\ Quiet("envelope", "storage")
  BY <1>2, ActsQuiet
<1>5. RawLink(rr)' /\ HintLink(hh, hin)' /\ CompressLink(rr)' /\ KeptLink(hh)' /\ SignalLink(sig)'
  BY <1>1, <1>3, <1>4, RawQuiet, HintQuiet, CompressQuiet, KeptQuiet, SignalQuiet DEF Links
<1>6. SeenLink(sig, hin)' /\ TallyLink' /\ CourseLink'
  BY <1>1, SeenSnapshot, TallySnapshot, CourseSnapshot DEF Links
<1>7. Links(rr, hh, hin, sig)'
  BY <1>5, <1>6 DEF Links
<1>8. /\ \A u \in {"ingest", "envelope", "hints"} : Left(u)' <=> Left(u)
      /\ NoPanic' <=> NoPanic
  BY <1>2, <1>3, ActsLeft, StageNames
<1>9. BatchInWork' /\ IngestBehind' /\ HintsBehind'
  BY <1>3, <1>8, BatchStays, IngestStays, HintsStays DEF FlowInv, LeftBehind
<1>10. SnapshotBehind'
  <2>1. ASSUME NEW o, StageActs("snapshot", "run", o) PROVE SnapshotBehind'
    <3>1. ~Left("snapshot")'
      BY <1>3, <2>1, ActsStatus, StageNames DEF Left
    <3> QED
      BY <3>1 DEF SnapshotBehind
  <2>2. CASE SnapUpdate \/ SnapRecord \/ SnapPublish
    BY <2>1, <2>2, SnapUpdateActs, SnapPlainActs
  <2>3. CASE SnapHintsComplete \/ SnapShutdown
    <3>1. \/ PublishSnapshot(snap')
          \/ StageActs("snapshot", "run", <<>>)
      BY <2>3, FinalizeActs
    <3>2. CASE PublishSnapshot(snap')
      BY <3>2 DEF PublishSnapshot, SnapshotBehind
    <3> QED
      BY <2>1, <3>1, <3>2
  <2>4. CASE SnapClosed
    BY <2>4 DEF SnapClosed, PublishSnapshot, SnapshotBehind
  <2> QED
    BY <2>2, <2>3, <2>4 DEF SnapshotStep
<1>11. stored'.chained
  BY <1>3 DEF FlowInv
<1> QED
  BY <1>7, <1>9, <1>10, <1>11 DEF FlowInv, LeftBehind

(* The batch in work goes from event to envelope to its end.               *)
LEMMA BatchEnvelope ==
  ASSUME TypeOK, BatchInWork, EnvelopeStep
  PROVE  BatchInWork'
<1>1. work \in Work /\ derive \in DeriveState /\ ChannelsOK
  BY DEF TypeOK, StagesOK
<1>2. work.raw # <<>> \/ work.adapted # <<>> \/ work.envs # <<>> => work.busy
  BY DEF BatchInWork, NoWork
<1>3. ASSUME NEW o, StageActs("envelope", "run", o)
      PROVE  ~Left("envelope")'
  BY <1>1, <1>3, ActsStatus, StageNames DEF Left
<1>4. CASE TakeBatch
  <2>1. work'.adapted = <<>> /\ work'.envs = <<>> /\ work'.busy = TRUE
    BY <1>4 DEF TakeBatch, NoWork
  <2>2. ~Left("envelope")'
    BY <1>3, <1>4, TakeBatchActs
  <2> QED
    BY <2>1, <2>2, RangeEmpty DEF BatchInWork
<1>5. CASE AdaptEvent
  <2>1. /\ work.raw # <<>> /\ work.adapted = <<>> /\ work.envs = <<>> /\ work.busy
        /\ status["envelope"] = "run" /\ status' = status
    BY <1>2, <1>5 DEF AdaptEvent, Running
  <2>2. Head(work.raw) \in RawEvent /\ derive.last_focus \in OptWindow
    BY <1>1, <2>1 DEF Work, DeriveState
  <2>3. PICK adapted \in Adapt(derive.last_focus, Head(work.raw)) :
          work' = [work EXCEPT !.raw = Tail(@), !.adapted = adapted]
    BY <1>5 DEF AdaptEvent
  <2>4. /\ work'.adapted = adapted /\ work'.envs = <<>> /\ work'.busy = work.busy
        /\ derive'.last_focus = AdapterFocus(derive.last_focus, Head(work.raw))
    BY <1>1, <1>5, <2>1, <2>3 DEF AdaptEvent, Work, DeriveState
  <2>5. \A x \in Range(work'.adapted) :
          /\ x.kind # "StateChanged"
          /\ x.kind \in {"FocusSignal", "FocusChanged"} =>
                x.win = derive'.last_focus /\ x.win \in Windows
    BY <2>2, <2>3, <2>4, AdaptFocus
  <2>6. ~Left("envelope")'
    BY <2>1 DEF Left
  <2> QED
    BY <2>1, <2>4, <2>5, <2>6, RangeEmpty DEF BatchInWork
<1>6. CASE DeriveLock
  <2>1. /\ work.adapted # <<>> /\ work.envs = <<>> /\ work.busy
        /\ status["envelope"] = "run" /\ status' = status
    BY <1>2, <1>6 DEF DeriveLock, Running
  <2>2. /\ work.adapted \in Seq(Envelope) /\ Head(work.adapted) \in Envelope
        /\ derive.locked \in BOOLEAN
    BY <1>1, <2>1 DEF Work, DeriveState
  <2>3. /\ work'.adapted = Tail(work.adapted) /\ work'.busy = work.busy
        /\ work'.envs = LockOutput(derive.locked, Head(work.adapted))
        /\ derive'.last_focus = derive.last_focus
    BY <1>1, <1>6 DEF DeriveLock, Work, DeriveState
  <2>4. Range(work.adapted) = {Head(work.adapted)} \cup Range(Tail(work.adapted))
    BY <2>1, <2>2, RangeSplit
  <2>5. \A x \in Range(work'.envs) : x = Head(work.adapted) \/ x.kind \in {"LockStart", "LockEnd"}
    BY <2>2, <2>3, LockFocus
  <2>6. ASSUME NEW e \in Range(work'.adapted) \cup Range(work'.envs)
        PROVE  /\ e.kind # "StateChanged"
               /\ e.kind \in {"FocusSignal", "FocusChanged"} =>
                    e.win = derive'.last_focus /\ e.win \in Windows
    <3>1. e \in Range(work.adapted) \/ e.kind \in {"LockStart", "LockEnd"}
      BY <2>3, <2>4, <2>5
    <3> QED
      BY <2>3, <3>1 DEF BatchInWork
  <2>7. ~Left("envelope")'
    BY <2>1 DEF Left
  <2> QED
    BY <2>1, <2>3, <2>6, <2>7 DEF BatchInWork
<1>7. CASE HandleHint \/ HandleSignal
  <2>1. /\ work.envs # <<>> /\ work.envs \in Seq(Envelope) /\ work.busy
    BY <1>1, <1>2, <1>7 DEF HandleHint, HandleSignal, Work
  <2>2. /\ work'.envs = Tail(work.envs) /\ work'.adapted = work.adapted /\ work'.busy = work.busy
        /\ derive'.last_focus = derive.last_focus
    <3>1. CASE HandleHint
      BY <1>1, <3>1 DEF HandleHint, Work
    <3>2. CASE HandleSignal
      BY <1>1, <3>2, HandleSignalActs DEF Work, DeriveState
    <3> QED
      BY <1>7, <3>1, <3>2
  <2>3. Range(work.envs) = {Head(work.envs)} \cup Range(Tail(work.envs))
    BY <2>1, RangeSplit
  <2>4. ~Left("envelope")'
    BY <1>3, <1>7, HandleHintActs, HandleSignalActs
  <2> QED
    BY <2>1, <2>2, <2>3, <2>4 DEF BatchInWork
<1>8. CASE FinishBatch
  <2>1. work' = NoWork
    BY <1>8 DEF FinishBatch
  <2>2. work'.adapted = <<>> /\ work'.envs = <<>> /\ work'.busy = FALSE
    BY <2>1 DEF NoWork
  <2> QED
    BY <2>1, <2>2, RangeEmpty DEF BatchInWork
<1>9. CASE TakeTick
  <2>1. work' = work /\ ~work.busy /\ work = NoWork
    BY <1>9 DEF TakeTick, BatchInWork
  <2>2. work'.adapted = <<>> /\ work'.envs = <<>>
    BY <2>1 DEF NoWork
  <2> QED
    BY <2>1, <2>2, RangeEmpty DEF BatchInWork
<1>10. CASE TakeShutdown \/ EnvelopeClosed
  <2>1. work' = work /\ derive' = derive /\ ~work.busy
    BY <1>10 DEF TakeShutdown, EnvelopeClosed
  <2> QED
    BY <2>1 DEF BatchInWork
<1> QED
  BY <1>4, <1>5, <1>6, <1>7, <1>8, <1>9, <1>10 DEF EnvelopeStep

LEMMA LinksEnvelope ==
  ASSUME TypeOK, DrainInv, BatchInWork, NEW rr \in Nat, NEW hh \in Nat, NEW hin \in Nat, NEW sig \in Nat,
         Links(rr, hh, hin, sig), EnvelopeStep
  PROVE  \E r2, n2, s2 \in Nat :
           /\ RawLink(r2)' /\ CompressLink(r2)' /\ HintLink(hh, n2)' /\ SeenLink(s2, n2)'
           /\ SignalLink(s2)'
<1>1. PICK hin1 \in Nat, sig1 \in Nat : hin1 = hin + 1 /\ sig1 = sig + 1
  OBVIOUS
<1>2. PICK hinS \in Nat : hinS = hin + (IF derive.state = derive'.state THEN 0 ELSE 1)
  <2>1. CASE derive.state = derive'.state
    BY <2>1
  <2>2. CASE derive.state # derive'.state
    BY <2>2
  <2> QED
    BY <2>1, <2>2
<1>3. CASE TakeBatch
  <2>1. PICK r2 \in Nat : r2 = rr + Len(Msg("envelope").events) /\ RawLink(r2)'
    BY <1>3, RawTakeBatch DEF Links
  <2>2. CompressLink(r2)'
    BY <1>3, <2>1, CompressTakeBatch DEF Links
  <2>3. HintLink(hh, hin)' /\ SeenLink(sig, hin)'
    BY <1>3, HintOther, SeenOther DEF Links, EnvelopeOther
  <2>4. ~HandleSignal
    BY <1>3 DEF TakeBatch, HandleSignal, BatchInWork, NoWork
  <2>5. SignalLink(sig)'
    BY <2>4, SignalEnvelope DEF Links
  <2> QED
    BY <2>1, <2>2, <2>3, <2>5
<1>4. CASE ~TakeBatch
  <2>1. RawLink(rr)' /\ CompressLink(rr)'
    BY <1>4, RawEnvelope, CompressEnvelope DEF Links
  <2>2. CASE HandleSignal
    <3>1. HintLink(hh, hinS)' /\ SeenLink(sig1, hinS)' /\ SignalLink(sig1)'
      BY <1>1, <1>2, <2>2, HintHandleSignal, SeenHandleSignal, SignalHandleSignal DEF Links
    <3> QED
      BY <2>1, <3>1
  <2>3. CASE ~HandleSignal
    <3>1. SignalLink(sig)'
      BY <2>3, SignalEnvelope DEF Links
    <3>2. CASE HandleHint
      <4>1. HintLink(hh, hin1)' /\ SeenLink(sig, hin1)'
        BY <1>1, <3>2, HintHandleHint, SeenHandleHint DEF Links
      <4> QED
        BY <2>1, <3>1, <4>1
    <3>3. CASE TakeTick
      <4>1. HintLink(hh, hinS)' /\ SeenLink(sig, hinS)'
        BY <1>2, <3>3, HintTakeTick, SeenTakeTick DEF Links
      <4> QED
        BY <2>1, <3>1, <4>1
    <3>4. CASE EnvelopeOther
      <4>1. HintLink(hh, hin)' /\ SeenLink(sig, hin)'
        BY <3>4, HintOther, SeenOther DEF Links
      <4> QED
        BY <2>1, <3>1, <4>1
    <3> QED
      BY <2>3, <3>2, <3>3, <3>4 DEF EnvelopeStep, EnvelopeOther
  <2> QED
    BY <2>2, <2>3
<1> QED
  BY <1>3, <1>4

LEMMA FlowEnvelope ==
  ASSUME TypeOK, DrainInv, FlowInv, EnvelopeStep
  PROVE  FlowInv'
<1>1. PICK rr \in Nat, hh \in Nat, hin \in Nat, sig \in Nat : Links(rr, hh, hin, sig)
  BY DEF FlowInv
<1>2. /\ ChannelsOK /\ SendsAreTheirs /\ source'.open = source.open
      /\ UNCHANGED <<pending, event_count, builder, rollup, snap, bus, stored>>
  BY DEF TypeOK, StagesOK, SourceState, DrainInv, EnvelopeStep, TakeBatch, AdaptEvent, DeriveLock,
         HandleHint, HandleSignal, FinishBatch, TakeTick, TakeShutdown, EnvelopeClosed, EnvelopeUnchanged
<1>3. /\ Quiet("hints", "snapshot") /\ Quiet("hints", "storage") /\ Quiet("snapshot", "storage")
      /\ \A u \in {"ingest", "hints", "snapshot"} : Left(u)' <=> Left(u)
      /\ NoPanic' <=> NoPanic
  <2>1. CASE UNCHANGED <<status, queue, out>>
    BY <2>1 DEF Quiet, Aside, Left, NoPanic
  <2>2. ASSUME NEW st, NEW sends, StageActs("envelope", st, sends)
        PROVE  /\ Quiet("hints", "snapshot") /\ Quiet("hints", "storage") /\ Quiet("snapshot", "storage")
               /\ \A u \in {"ingest", "hints", "snapshot"} : Left(u)' <=> Left(u)
               /\ NoPanic' <=> NoPanic
    BY <1>2, <2>2, ActsQuiet, ActsLeft, StageNames
  <2> QED
    BY <2>1, <2>2, EnvelopeActs
<1>4. TallyLink' /\ KeptLink(hh)' /\ CourseLink'
  BY <1>1, <1>2, <1>3, TallyQuiet, KeptQuiet, CourseQuiet DEF Links
<1>5. BatchInWork
  BY DEF FlowInv
<1>6. PICK r2 \in Nat, n2 \in Nat, s2 \in Nat :
           /\ RawLink(r2)' /\ CompressLink(r2)' /\ HintLink(hh, n2)' /\ SeenLink(s2, n2)'
           /\ SignalLink(s2)'
  BY <1>1, <1>5, LinksEnvelope
<1>7. Links(r2, hh, n2, s2)'
  BY <1>4, <1>6 DEF Links
<1>8. BatchInWork'
  BY <1>5, BatchEnvelope
<1>9. LeftBehind'
  BY <1>2, <1>3, IngestStays, HintsStays, SnapshotStays DEF FlowInv, LeftBehind
<1>10. stored'.chained
  BY <1>2 DEF FlowInv
<1> QED
  BY <1>7, <1>8, <1>9, <1>10 DEF FlowInv

(* Deliveries and ends of threads.  Without a panic no send fails that     *)
(* would make its stage give up: its receiver has not left before the      *)
(* sender was done with the channel.                                       *)
LEMMA NoFatal ==
  ASSUME TypeOK, DrainInv, NEW rr \in Nat, NEW hh \in Nat, NEW hin \in Nat, NEW sig \in Nat,
         Links(rr, hh, hin, sig), NoPanic, NEW t \in Stage
  PROVE  ~Fails(t)
<1> SUFFICES ASSUME Fails(t) PROVE FALSE
  OBVIOUS
<1>1. PICK s : s = Head(out[t])
  OBVIOUS
<1>2. out[t] # <<>> /\ ReceiverGone(s.to) /\ Fatal(t, s) /\ out[t] \in Seq(Send)
  BY <1>1 DEF Fails, TypeOK, ChannelsOK
<1>3. s \in Range(out[t])
  BY <1>1, <1>2, RangeSplit
<1>4. PICK u \in Stage : Inbox[u] = s.to /\ Gone(u)
  BY <1>2 DEF ReceiverGone
<1>5. Left(u)
  BY <1>4 DEF Gone, NoPanic, Left
<1>6. MayEmit(t, s)
  BY <1>3 DEF DrainInv, SendsAreTheirs
<1>7. CASE t = "ingest"
  <2>1. s.to = "derive"
    BY <1>6, <1>7 DEF MayEmit
  <2>2. u = "envelope"
    BY <1>4, <2>1, InboxOnce, Inboxes, StageNames
  <2>3. Finished("derive", "ingest")
    BY <1>5, <2>2 DEF Links, RawLink, Link
  <2> QED
    BY <1>3, <1>7, <2>1, <2>3 DEF Finished
<1>8. CASE t = "envelope" /\ s.to = "compression"
  <2>1. u = "compression"
    BY <1>4, <1>8, InboxOnce, Inboxes, StageNames
  <2>2. Finished("compression", "envelope")
    BY <1>5, <2>1 DEF Links, CompressLink, Link
  <2> QED
    BY <1>3, <1>8, <2>2 DEF Finished
<1>9. CASE t = "envelope" /\ s.to = "snapshot"
  <2>1. u = "snapshot"
    BY <1>4, <1>9, InboxOnce, Inboxes, StageNames
  <2>2. Finished("snapshot", "envelope")
    BY <1>5, <2>1 DEF Links, SeenLink, Link
  <2> QED
    BY <1>3, <1>9, <2>2 DEF Finished
<1> QED
  BY <1>2, <1>7, <1>8, <1>9 DEF Fatal

LEMMA ThreadsLeft ==
  ASSUME TypeOK, NEW t \in Stage, Deliver(t) \/ Exit(t) \/ Panic(t), NoPanic => ~Fails(t)
  PROVE  /\ NoPanic' => NoPanic
         /\ \A u \in Stage : NoPanic' /\ Left(u)' => Left(u)
         /\ \A u \in {"hints", "snapshot"} : Left(u)' => Left(u)
<1>1. status \in [Stage -> Status]
  BY DEF TypeOK, ChannelsOK
<1>2. CASE Deliver(t)
  <2>1. CASE status' = status
    BY <2>1 DEF NoPanic, Left
  <2>2. CASE status' # status
    <3>1. /\ ~Gone(t) /\ out[t] # <<>> /\ ReceiverGone(Head(out[t]).to) /\ Fatal(t, Head(out[t]))
          /\ status' = [status EXCEPT ![t] = "last"]
      BY <1>2, <2>2 DEF Deliver
    <3>2. Fails(t)
      BY <3>1 DEF Fails
    <3>3. PICK v \in Stage : status[v] = "panicked"
      BY <3>2 DEF NoPanic
    <3>4. v # t
      BY <3>1, <3>3 DEF Gone
    <3>5. status'[v] = "panicked"
      BY <1>1, <3>1, <3>3, <3>4
    <3>6. ~NoPanic'
      BY <3>5 DEF NoPanic
    <3>7. t \in {"ingest", "envelope"}
      BY <3>1 DEF Fatal
    <3>8. \A u \in {"hints", "snapshot"} : status'[u] = status[u]
      BY <1>1, <3>1, <3>7, StageNames
    <3> QED
      BY <3>6, <3>8 DEF Left
  <2> QED
    BY <2>1, <2>2
<1>3. CASE Exit(t)
  <2>1. status[t] = "last" /\ status' = [status EXCEPT ![t] = "done"]
    BY <1>3 DEF Exit, End
  <2>2. status'[t] = "done" /\ \A u \in Stage : u # t => status'[u] = status[u]
    BY <1>1, <2>1
  <2>3. NoPanic' => NoPanic
    BY <2>1, <2>2 DEF NoPanic
  <2>4. \A u \in Stage : Left(u)' => Left(u)
    BY <2>1, <2>2 DEF Left
  <2> QED
    BY <2>3, <2>4, StageNames
<1>4. CASE Panic(t)
  <2>1. status' = [status EXCEPT ![t] = "panicked"]
    BY <1>4 DEF Panic, End
  <2>2. status'[t] = "panicked" /\ \A u \in Stage : u # t => status'[u] = status[u]
    BY <1>1, <2>1
  <2>3. ~NoPanic'
    BY <2>2 DEF NoPanic
  <2>4. \A u \in Stage : Left(u)' => Left(u)
    BY <2>2 DEF Left
  <2> QED
    BY <2>3, <2>4, StageNames
<1> QED
  BY <1>2, <1>3, <1>4

(* A step that only the threads' queues see.                               *)
LEMMA FlowStays ==
  ASSUME TypeOK, DrainInv, FlowInv, NEW rr \in Nat, NEW hh \in Nat, NEW hin \in Nat, NEW sig \in Nat,
         Links(rr, hh, hin, sig), \A w, r \in Stage : Quiet(w, r),
         UNCHANGED <<pending, event_count, work, derive, builder, rollup, snap, bus, stored>>,
         source'.open => source.open, NoPanic' => NoPanic,
         \A u \in Stage : NoPanic' /\ Left(u)' => Left(u),
         \A u \in {"hints", "snapshot"} : Left(u)' => Left(u)
  PROVE  FlowInv'
<1>1. ChannelsOK /\ SendsAreTheirs
  BY DEF TypeOK, DrainInv
<1>2. /\ Quiet("ingest", "envelope") /\ Quiet("envelope", "compression") /\ Quiet("envelope", "hints")
      /\ Quiet("envelope", "snapshot") /\ Quiet("hints", "snapshot")
      /\ Quiet("hints", "storage") /\ Quiet("envelope", "storage")
      /\ Quiet("snapshot", "storage")
  BY StageNames
<1>3. RawLink(rr)' /\ CompressLink(rr)' /\ HintLink(hh, hin)' /\ SeenLink(sig, hin)'
  BY <1>1, <1>2, RawQuiet, CompressQuiet, HintQuiet, SeenQuiet DEF Links
<1>4. TallyLink' /\ KeptLink(hh)' /\ SignalLink(sig)' /\ CourseLink'
  BY <1>1, <1>2, TallyQuiet, KeptQuiet, SignalQuiet, CourseQuiet DEF Links
<1>5. Links(rr, hh, hin, sig)'
  BY <1>3, <1>4 DEF Links
<1>6. BatchInWork' /\ LeftBehind'
  BY BatchStays, IngestStays, HintsStays, SnapshotStays, StageNames DEF FlowInv, LeftBehind
<1>7. stored'.chained
  BY DEF FlowInv
<1> QED
  BY <1>5, <1>6, <1>7 DEF FlowInv

LEMMA FlowThreads ==
  ASSUME TypeOK, DrainInv, FlowInv, NEW t \in Stage, Deliver(t) \/ Exit(t) \/ Panic(t)
  PROVE  FlowInv'
<1>1. PICK rr \in Nat, hh \in Nat, hin \in Nat, sig \in Nat : Links(rr, hh, hin, sig)
  BY DEF FlowInv
<1>2. NoPanic => ~Fails(t)
  BY <1>1, NoFatal
<1>3. ASSUME NEW w \in Stage, NEW r \in Stage PROVE Quiet(w, r)
  <2>1. CASE Deliver(t)
    BY <1>2, <2>1 DEF Quiet
  <2>2. CASE Exit(t)
    <3>1. Ends(t, "done")
      BY <2>2 DEF Exit, Ends, Gone
    <3> QED
      BY <3>1 DEF Quiet
  <2>3. CASE Panic(t)
    <3>1. Ends(t, "panicked")
      BY <2>3 DEF Panic, Ends
    <3> QED
      BY <3>1 DEF Quiet
  <2> QED
    BY <2>1, <2>2, <2>3
<1>4. UNCHANGED <<source, pending, event_count, work, derive, builder, rollup, snap, bus, stored>>
  BY DEF Deliver, Exit, Panic, End
<1>5. /\ NoPanic' => NoPanic
      /\ \A u \in Stage : NoPanic' /\ Left(u)' => Left(u)
      /\ \A u \in {"hints", "snapshot"} : Left(u)' => Left(u)
  BY <1>2, ThreadsLeft
<1> QED
  BY <1>1, <1>3, <1>4, <1>5, FlowStays

LEMMA FlowSource ==
  ASSUME TypeOK, DrainInv, FlowInv, Source \/ UNCHANGED vars
  PROVE  FlowInv'
<1>1. PICK rr \in Nat, hh \in Nat, hin \in Nat, sig \in Nat : Links(rr, hh, hin, sig)
  BY DEF FlowInv
<1>2. /\ UNCHANGED <<status, out, pending, event_count, work, derive, builder, rollup, snap, bus, stored>>
      /\ source'.open => source.open
  BY DEF TypeOK, StagesOK, SourceState, Source, HookEvent, CtrlC, SourceClose, vars
<1>3. \A c \in Chan : c # "events" => queue'[c] = queue[c]
  BY DEF TypeOK, ChannelsOK, Source, HookEvent, CtrlC, SourceClose, SourceSend, vars
<1>4. \A w, r \in Stage : Quiet(w, r)
  BY <1>2, <1>3 DEF Quiet, Aside
<1>5. /\ NoPanic' => NoPanic
      /\ \A u \in Stage : Left(u)' => Left(u)
  BY <1>2 DEF NoPanic, Left
<1> QED
  BY <1>1, <1>2, <1>4, <1>5, FlowStays, StageNames

LEMMA FlowNext ==
  ASSUME TypeOK, DrainInv, FlowInv, [Next]_vars
  PROVE  FlowInv'
BY FlowSource, FlowIngest, FlowEnvelope, FlowHints, FlowCompression, FlowSnapshot, FlowStorage,
   FlowThreads DEF Next

LEMMA InitLink ==
  ASSUME Init, NEW V, NEW R, NEW c \in Chan, NEW w \in Stage, NEW r \in Stage, NEW a \in V, NEW W, a \in W
  PROVE  Link(V, R, c, w, r, a, W)
<1>1. queue[c] = <<>> /\ out[w] = <<>> /\ status[r] = "run"
  BY DEF Init
<1>2. Flow(V, R, c, queue[c], out[w], a, a)
  BY <1>1, FlowEmpty
<1> QED
  BY <1>1, <1>2 DEF Link, Left

LEMMA InitFlow ==
  ASSUME Init
  PROVE  FlowInv
<1>1. /\ \A t \in Stage : status[t] = "run"
      /\ work = NoWork /\ pending = <<>> /\ event_count = 0 /\ rollup.raw = 0
      /\ derive.state = "Inactive" /\ derive.last_focus = NoWindow
      /\ builder.state = "Inactive" /\ builder.focus = NoWindow /\ builder.next = 0
      /\ builder.open = FALSE
      /\ snap.state = "Inactive" /\ snap.focus = NoWindow /\ snap.hints = 0 /\ snap.signals = 0
      /\ snap.records = 0 /\ snap.shutdown_requested = FALSE /\ snap.hints_complete = FALSE
      /\ bus.transitions = 0 /\ stored = EmptyStore
  BY DEF Init, NewRecordBuilder
<1>2. /\ work.adapted = <<>> /\ work.envs = <<>> /\ work.batch = <<>> /\ work.busy = FALSE
      /\ work.upd.hints = 0 /\ work.upd.signals = 0 /\ work.upd.focus = NoWindow
  BY <1>1 DEF NoWork, NoUpdate
<1>3. /\ stored.records = 0 /\ stored.hints = 0 /\ stored.signals = 0 /\ stored.transitions = 0
      /\ stored.state = "Inactive"
  BY <1>1 DEF EmptyStore
<1>4. stored.chained = TRUE
  BY <1>1 DEF EmptyStore
<1>5. "Inactive" \in ActivityState /\ NoWindow \in OptWindow
  BY DEF ActivityState, UnlockedState, OptWindow
<1>6. Len(pending) = 0 /\ Len(work.batch) = 0
  BY <1>1, <1>2
<1>7. Reported(NoWindow)
  BY <1>1 DEF Reported
<1>8. PhaseOf(FALSE) = "open" /\ Ended(builder) = 0
  BY <1>1 DEF PhaseOf, Ended
<1>9. RawLink(0)
  <2>1. PICK a, W : a = RawTaken(0) /\ W = RawSent
    OBVIOUS
  <2>2. a = [raw |-> 0, phase |-> "open"]
    BY <1>1, <2>1, StageNames DEF RawTaken, PhaseOf
  <2>3. a \in Raw /\ a \in W
    BY <1>1, <1>6, <2>1, <2>2 DEF Raw, Phase, RawSent
  <2> QED
    BY <2>1, <2>3, InitLink, StageNames DEF RawLink
<1>10. CompressLink(0)
  <2>1. PICK a, W : a = CompressTaken /\ W = CompressSent(0)
    OBVIOUS
  <2>2. a = [raw |-> 0, phase |-> "open"]
    BY <1>1, <2>1, StageNames DEF CompressTaken, PhaseOf
  <2>3. a \in Raw /\ a \in W
    BY <1>6, <2>1, <2>2 DEF Raw, Phase, CompressSent
  <2> QED
    BY <2>1, <2>3, InitLink, StageNames DEF CompressLink
<1>11. HintLink(0, 0)
  <2>1. PICK a, W : a = HintTaken(0) /\ W = HintSent(0)
    OBVIOUS
  <2>2. a = [state |-> "Inactive", focus |-> NoWindow, hints |-> 0]
    BY <1>1, <2>1 DEF HintTaken
  <2>3. a \in View /\ a \in W
    BY <1>1, <1>5, <1>7, <2>1, <2>2 DEF View, HintSent
  <2> QED
    BY <2>1, <2>3, InitLink, StageNames DEF HintLink
<1>12. SeenLink(0, 0)
  <2>1. PICK a, W : a = SeenTaken /\ W = SeenSent(0, 0)
    OBVIOUS
  <2>2. a = [state |-> "Inactive", focus |-> NoWindow, hints |-> 0, signals |-> 0, phase |-> "open"]
    BY <1>1, <1>8, <2>1 DEF SeenTaken
  <2>3. a \in Seen
    BY <1>5, <2>2 DEF Seen, Phase
  <2>4. a \in W
    BY <1>1, <1>2, <1>7, <2>1, <2>2, <2>3 DEF SeenSent
  <2> QED
    BY <2>1, <2>3, <2>4, InitLink, StageNames DEF SeenLink
<1>13. TallyLink
  <2>1. PICK a, W : a = TallyTaken /\ W = TallySent
    OBVIOUS
  <2>2. a = [records |-> 0, phase |-> "open"]
    BY <1>1, <1>8, <2>1 DEF TallyTaken
  <2>3. a \in Tally /\ a \in W
    BY <1>8, <2>1, <2>2 DEF Tally, Phase, TallySent
  <2> QED
    BY <2>1, <2>3, InitLink, StageNames DEF TallyLink
<1>14. KeptLink(0)
  <2>1. PICK a, W : a = KeptTaken /\ W = KeptSent(0)
    OBVIOUS
  <2>2. a = [records |-> 0, hints |-> 0]
    BY <1>3, <2>1 DEF KeptTaken
  <2>3. a \in Kept /\ a \in W
    BY <1>8, <2>1, <2>2 DEF Kept, KeptSent
  <2> QED
    BY <2>1, <2>3, InitLink, StageNames DEF KeptLink
<1>15. SignalLink(0)
  <2>1. PICK a, W : a = stored.signals /\ W = {0}
    OBVIOUS
  <2>2. a \in Nat /\ a \in W
    BY <1>3, <2>1
  <2> QED
    BY <2>1, <2>2, InitLink, StageNames DEF SignalLink
<1>16. CourseLink
  <2>1. PICK a, W : a = CourseTaken /\ W = CourseSent
    OBVIOUS
  <2>2. a = [state |-> "Inactive", transitions |-> 0]
    BY <1>3, <2>1 DEF CourseTaken
  <2>3. a \in Course /\ a \in W
    BY <1>1, <1>5, <2>1, <2>2 DEF Course, CourseSent
  <2> QED
    BY <2>1, <2>3, InitLink, StageNames DEF CourseLink
<1>17. Links(0, 0, 0, 0)
  BY <1>9, <1>10, <1>11, <1>12, <1>13, <1>14, <1>15, <1>16 DEF Links
<1>18. BatchInWork
  BY <1>1, <1>2, RangeEmpty, StageNames DEF BatchInWork, Left
<1>19. LeftBehind
  BY <1>1, StageNames DEF LeftBehind, IngestBehind, HintsBehind, SnapshotBehind, Left
<1>20. stored.chained
  BY <1>4
<1> QED
  BY <1>17, <1>18, <1>19, <1>20 DEF FlowInv

(* The invariant of the flows holds in every reachable state: the messages *)
(* between any two stages of the pipeline lead from the reader's copy to   *)
(* the writer's value.                                                     *)
THEOREM FlowInvariant == Spec => []FlowInv
<1>1. Init => FlowInv
  BY InitFlow
<1>2. TypeOK /\ DrainInv /\ FlowInv /\ [Next]_vars => FlowInv'
  BY FlowNext
<1> QED
  BY <1>1, <1>2, TypeCorrect, DrainInvariant, PTL DEF Spec

(* The records that the storage stage hands to the backend are numbered    *)
(* without a gap and its transitions form one chain, under every schedule, *)
(* also when stages panic.                                                 *)
THEOREM RecordsAndTransitionsInOrder == Spec => []StoredInOrder
<1>1. FlowInv => StoredInOrder
  BY DEF FlowInv, StoredInOrder
<1> QED
  BY <1>1, FlowInvariant, PTL

-----------------------------------------------------------------------------
(* What the links say once the readers have left.                          *)

LEMMA AllLeft ==
  ASSUME TypeOK, DrainInv, Left("storage"), NoPanic
  PROVE  Left("envelope") /\ Left("hints") /\ Left("snapshot")
<1>1. EnvelopesDrained /\ status["snapshot"] # "run"
  BY DEF DrainInv, StorageShutdownMeansDrained, Left
<1>2. \A t \in Stage : status[t] \in {"run", "last", "done"}
  BY DEF TypeOK, ChannelsOK, Status, NoPanic
<1> QED
  BY <1>1, <1>2, StageNames DEF EnvelopesDrained, Gone, Left

LEMMA NothingInWork ==
  ASSUME BatchInWork, Left("envelope"), NoPanic
  PROVE  /\ work.batch = <<>> /\ work.upd.hints = 0 /\ work.upd.signals = 0
         /\ work.upd.focus = NoWindow
         /\ \A f : Reported(f) => f = derive.last_focus
<1>1. work = NoWork
  BY DEF BatchInWork
<1>2. /\ work.batch = <<>> /\ work.adapted = <<>> /\ work.envs = <<>>
      /\ work.upd.hints = 0 /\ work.upd.signals = 0 /\ work.upd.focus = NoWindow
  BY <1>1 DEF NoWork, NoUpdate
<1> QED
  BY <1>2, RangeEmpty DEF Reported

LEMMA Settled ==
  ASSUME TypeOK, DrainInv, FlowInv, Left("storage"), NoPanic
  PROVE  /\ stored.signals = snap.signals /\ stored.hints = snap.hints
         /\ stored.records = snap.records /\ stored.records = builder.next
         /\ stored.transitions = bus.transitions /\ stored.state = snap.state
         /\ snap.state = derive.state /\ snap.focus = derive.last_focus
         /\ builder.state = derive.state /\ builder.focus = derive.last_focus
<1>1. PICK rr \in Nat, hh \in Nat, hin \in Nat, sig \in Nat : Links(rr, hh, hin, sig)
  BY DEF FlowInv
<1>2. Left("envelope") /\ Left("hints") /\ Left("snapshot")
  BY AllLeft
<1>3. /\ work.upd.hints = 0 /\ work.upd.signals = 0 /\ work.upd.focus = NoWindow
      /\ \A f : Reported(f) => f = derive.last_focus
  BY <1>2, NothingInWork DEF FlowInv
<1>4. HintTaken(hh) \in HintSent(hin)
  BY <1>1, <1>2 DEF Links, HintLink, Link
<1>5. builder.state = derive.state /\ Reported(builder.focus) /\ hh = hin
  BY <1>4 DEF HintTaken, HintSent
<1>6. SeenTaken \in SeenSent(sig, hin)
  BY <1>1, <1>2 DEF Links, SeenLink, Link
<1>7. /\ snap.state = derive.state
      /\ Reported(IF work.upd.focus = NoWindow THEN snap.focus ELSE work.upd.focus)
      /\ snap.hints + work.upd.hints = hin /\ snap.signals + work.upd.signals = sig
  BY <1>6 DEF SeenTaken, SeenSent
<1>8. snap.hints \in Nat /\ snap.signals \in Nat
  BY DEF TypeOK, StagesOK, SnapState
<1>9. snap.hints = hin /\ snap.signals = sig /\ Reported(snap.focus)
  BY <1>3, <1>7, <1>8
<1>10. TallyTaken \in TallySent /\ KeptTaken \in KeptSent(hh)
  BY <1>1, <1>2 DEF Links, TallyLink, KeptLink, Link
<1>11. /\ snap.records = Ended(builder) /\ stored.records = Ended(builder) /\ stored.hints = hh
  BY <1>10 DEF TallyTaken, TallySent, KeptTaken, KeptSent
<1>12. Ended(builder) = builder.next
  BY <1>2 DEF FlowInv, LeftBehind, HintsBehind, Ended
<1>13. stored.signals = sig
  BY <1>1 DEF Links, SignalLink, Link
<1>14. CourseTaken \in CourseSent
  BY <1>1 DEF Links, CourseLink, Link
<1>15. stored.state = snap.state /\ stored.transitions = bus.transitions
  BY <1>14 DEF CourseTaken, CourseSent
<1> QED
  BY <1>3, <1>5, <1>7, <1>9, <1>11, <1>12, <1>13, <1>15

LEMMA EventsCounted ==
  ASSUME TypeOK, FlowInv, Stopped, source.open
  PROVE  pending = <<>> /\ rollup.raw = event_count
<1>1. PICK rr \in Nat, hh \in Nat, hin \in Nat, sig \in Nat : Links(rr, hh, hin, sig)
  BY DEF FlowInv
<1>2. NoPanic /\ \A t \in Stage : Left(t)
  BY DEF Stopped, NoPanic, Left
<1>3. pending = <<>>
  BY <1>2, StageNames DEF FlowInv, LeftBehind, IngestBehind
<1>4. work.batch = <<>>
  BY <1>2, NothingInWork, StageNames DEF FlowInv
<1>5. RawTaken(rr) \in RawSent /\ CompressTaken \in CompressSent(rr)
  BY <1>1, <1>2, StageNames DEF Links, RawLink, CompressLink, Link
<1>6. rr + Len(pending) = event_count /\ rollup.raw + Len(work.batch) = rr
  BY <1>5 DEF RawTaken, RawSent, CompressTaken, CompressSent
<1>7. Len(pending) = 0 /\ Len(work.batch) = 0 /\ rollup.raw \in Nat
  BY <1>3, <1>4 DEF TypeOK, StagesOK
<1> QED
  BY <1>3, <1>6, <1>7

(* A shutdown without panics loses and duplicates no envelope, record or   *)
(* transition: the snapshot stage's counters and the backend's totals      *)
(* agree when storage is done, and if the shutdown was requested every     *)
(* event that ingest counted reached the compression stage.                *)
THEOREM NothingIsLost == Spec => []ShutdownIsLossless
<1>1. TypeOK /\ DrainInv /\ FlowInv => ShutdownIsLossless
  <2> SUFFICES ASSUME TypeOK, DrainInv, FlowInv, status["storage"] = "done", NoPanic
               PROVE  /\ stored.signals = snap.signals /\ stored.hints = snap.hints
                      /\ stored.records = snap.records /\ stored.records = builder.next
                      /\ stored.transitions = bus.transitions
                      /\ Stopped /\ source.open => pending = <<>> /\ rollup.raw = event_count
    BY DEF ShutdownIsLossless
  <2>1. Left("storage")
    BY DEF Left
  <2> QED
    BY <2>1, Settled, EventsCounted
<1> QED
  BY <1>1, TypeCorrect, DrainInvariant, FlowInvariant, PTL

(* When all the threads have exited, the state engine, the record builder, *)
(* the snapshot stage, the backend and the snapshot that clients last saw  *)
(* agree on the activity state, on the focus and on the counters.          *)
THEOREM CopiesAgree == Spec => []ViewsAgree
<1>1. TypeOK /\ DrainInv /\ FlowInv => ViewsAgree
  <2> SUFFICES ASSUME TypeOK, DrainInv, FlowInv, Stopped
               PROVE  /\ \A s \in {builder.state, snap.state, bus.state, stored.state} : s = derive.state
                      /\ \A f \in {builder.focus, snap.focus, bus.focus} : f = derive.last_focus
                      /\ bus.hints = snap.hints /\ bus.signals = snap.signals
                      /\ bus.records = snap.records
    BY DEF ViewsAgree
  <2>1. NoPanic /\ Left("storage") /\ Left("snapshot")
    BY StageNames DEF Stopped, NoPanic, Left
  <2>2. /\ stored.state = snap.state /\ snap.state = derive.state /\ snap.focus = derive.last_focus
        /\ builder.state = derive.state /\ builder.focus = derive.last_focus
    BY <2>1, Settled
  <2>3. /\ bus.state = snap.state /\ bus.focus = snap.focus /\ bus.hints = snap.hints
        /\ bus.signals = snap.signals /\ bus.records = snap.records
    BY <2>1 DEF FlowInv, LeftBehind, SnapshotBehind
  <2> QED
    BY <2>2, <2>3
<1> QED
  BY <1>1, TypeCorrect, DrainInvariant, FlowInvariant, PTL
=============================================================================
