-------------------------- MODULE DerivationProofs --------------------------
(***************************************************************************)
(* Theorems about Derivation, for every set of windows, every threshold    *)
(* and every number of events: its values have their types; the adapter,   *)
(* the lock deriver and the state engine agree on the lock screen after    *)
(* every batch; ticks only make the state idler; and when nothing is under *)
(* way, the state is the one the user's events call for.                   *)
(***************************************************************************)
EXTENDS Derivation, ActivityProofs, SequenceTheorems

-----------------------------------------------------------------------------
(* Facts about the operators *)

\* The sequence operations the stages use keep the type of a queue.
LEMMA QueueType ==
    ASSUME NEW S, NEW s \in Seq(S)
    PROVE  /\ \A e \in S : Append(s, e) \in Seq(S)
           /\ s # <<>> => Head(s) \in S /\ Tail(s) \in Seq(S)
BY HeadTailProperties, AppendProperties

\* What holds of all envelopes of a queue holds of the first and of the rest.
LEMMA NoKindTail ==
    ASSUME NEW s \in Seq(Envelope), s # <<>>
    PROVE  /\ NoLockKind(s) => /\ Head(s).kind \notin {"LockStart", "LockEnd"}
                               /\ NoLockKind(Tail(s))
           /\ NoFocusKind(s) => Head(s).kind # "FocusSignal" /\ NoFocusKind(Tail(s))
<1>1. /\ Head(s) = s[1] /\ 1 \in 1..Len(s)
      /\ \A i \in 1..Len(Tail(s)) : i + 1 \in 1..Len(s) /\ Tail(s)[i] = s[i + 1]
  BY HeadTailProperties
<1>2. NoLockKind(s) => /\ Head(s).kind \notin {"LockStart", "LockEnd"}
                       /\ NoLockKind(Tail(s))
  BY <1>1 DEF NoLockKind
<1>3. NoFocusKind(s) => Head(s).kind # "FocusSignal" /\ NoFocusKind(Tail(s))
  BY <1>1 DEF NoFocusKind
<1> QED BY <1>2, <1>3

\* The computed state is Locked exactly when the engine is locked.
LEMMA ComputedFacts ==
    ASSUME NEW eng \in Engine, NEW now \in Time
    PROVE  /\ Computed(eng, now) \in Engine
           /\ Computed(eng, now).locked <=> eng.locked
           /\ Computed(eng, now).current = "Locked" <=> eng.locked
<1>1. Compute(eng, now) \in ActivityState /\ (Compute(eng, now) = "Locked" <=> eng.locked)
  BY DerivationAssumption DEF Compute, Engine, ActivityState, Time
<1> QED BY <1>1 DEF Computed, Engine

\* A signal keeps the engine's flag and its state in step; a lock signal sets
\* the flag, and no other signal touches it.
LEMMA OnSignalFacts ==
    ASSUME NEW eng \in Engine, NEW kind, NEW now \in Time,
           eng.current = "Locked" <=> eng.locked
    PROVE  /\ OnSignal(eng, kind, now) \in Engine
           /\ OnSignal(eng, kind, now).current = "Locked" <=> OnSignal(eng, kind, now).locked
           /\ kind = "LockStart" => OnSignal(eng, kind, now).locked
           /\ kind = "LockEnd" => ~OnSignal(eng, kind, now).locked
           /\ kind \notin {"LockStart", "LockEnd"} =>
                 (OnSignal(eng, kind, now).locked <=> eng.locked)
<1> DEFINE res == OnSignal(eng, kind, now)
<1>1. CASE kind = "LockStart" /\ ~eng.locked
  <2>1. res = [eng EXCEPT !.locked = TRUE, !.current = "Locked"]
    BY <1>1 DEF OnSignal
  <2> HIDE DEF res
  <2>2. res \in Engine /\ res.locked /\ res.current = "Locked"
    BY <2>1 DEF Engine, ActivityState
  <2> QED BY <1>1, <2>2 DEF res
<1>2. CASE kind = "LockEnd" /\ eng.locked
  <2> DEFINE unlocked == [eng EXCEPT !.locked = FALSE]
  <2>1. res = Computed(unlocked, now)
    BY <1>2 DEF OnSignal
  <2>2. unlocked \in Engine /\ ~unlocked.locked
    BY DEF Engine
  <2> HIDE DEF res, unlocked
  <2>3. res \in Engine /\ ~res.locked /\ res.current # "Locked"
    BY <2>1, <2>2, ComputedFacts
  <2> QED BY <1>2, <2>3 DEF res
<1>3. CASE kind \notin {"LockStart", "LockEnd"} /\ ~eng.locked
  <2> DEFINE signalled == [eng EXCEPT !.last_signal_time = now]
  <2>1. res = Computed(signalled, now)
    BY <1>3 DEF OnSignal
  <2>2. signalled \in Engine /\ ~signalled.locked
    BY <1>3 DEF Engine
  <2> HIDE DEF res, signalled
  <2>3. res \in Engine /\ ~res.locked /\ res.current # "Locked"
    BY <2>1, <2>2, ComputedFacts
  <2> QED BY <1>3, <2>3 DEF res
<1>4. CASE \/ kind = "LockStart" /\ eng.locked
           \/ kind = "LockEnd" /\ ~eng.locked
           \/ kind \notin {"LockStart", "LockEnd"} /\ eng.locked
  <2>1. res = eng
    BY <1>4 DEF OnSignal
  <2> HIDE DEF res
  <2>2. /\ res \in Engine
        /\ res.current = "Locked" <=> res.locked
        /\ kind = "LockStart" => res.locked
        /\ kind = "LockEnd" => ~res.locked
        /\ kind \notin {"LockStart", "LockEnd"} => (res.locked <=> eng.locked)
    BY <1>4, <2>1
  <2> QED BY <2>2 DEF res
<1> QED BY <1>1, <1>2, <1>3, <1>4

\* A tick leaves the flag alone.
LEMMA OnTickFacts ==
    ASSUME NEW eng \in Engine, NEW now \in Time,
           eng.current = "Locked" <=> eng.locked
    PROVE  /\ OnTick(eng, now) \in Engine
           /\ OnTick(eng, now).current = "Locked" <=> OnTick(eng, now).locked
           /\ OnTick(eng, now).locked <=> eng.locked
<1>1. CASE eng.locked
  BY <1>1 DEF OnTick
<1>2. CASE ~eng.locked
  <2>1. OnTick(eng, now) = Computed(eng, now)
    BY <1>2 DEF OnTick
  <2> QED BY <1>2, <2>1, ComputedFacts
<1> QED BY <1>1, <1>2

-----------------------------------------------------------------------------
(* Types *)

\* The messages between the stages, and an event with its stamp.
LEMMA MessageType ==
    /\ \A t \in Time : TickMsg(t) \in Command
    /\ \A evs \in Seq(TimedEvent) : BatchMsg(evs) \in Command
    /\ NoEvent \in TimedEvent
    /\ NoWork \in Work
<1>1. NoEvent \in TimedEvent
  BY DEF NoEvent, TimedEvent, OptWindow, Time
<1>2. NoWork \in Work
  BY <1>1 DEF NoWork, Work
<1>3. \A t \in Time : TickMsg(t) \in Command
  BY DEF TickMsg, Command
<1>4. \A evs \in Seq(TimedEvent) : BatchMsg(evs) \in Command
  BY DEF BatchMsg, Command, Time
<1> QED BY <1>1, <1>2, <1>3, <1>4

\* The record of the last transition, after a step of the engine.
LEMMA TransitType ==
    ASSUME engine \in Engine, last \in Transition, NEW eng \in Engine, NEW now \in Time,
           NEW by \in SignalKind \cup {"IdleTimeout"}, Transit(eng, now, by)
    PROVE  last' \in Transition
<1>1. CASE eng.current = engine.current
  BY <1>1 DEF Transit
<1>2. CASE eng.current # engine.current
  <2>1. last' = [from |-> engine.current, to |-> eng.current, at |-> now,
                 by |-> by, n |-> last.n + 1]
    BY <1>2 DEF Transit
  <2>2. last.n + 1 \in Nat
    BY DEF Transition
  <2> QED BY <2>1, <2>2 DEF Transition, Engine
<1> QED BY <1>1, <1>2

\* The variables the ingest stage owns, and those of the envelope stage.
IngestType ==
    /\ clock \in Time
    /\ ticked \in Time \cup {-1}
    /\ history \in Seq(TimedEvent)
    /\ \A i \in 1..Len(history) : history[i].id = i
    /\ pending \in Seq(TimedEvent)

DeriveType ==
    /\ work \in Work
    /\ focus \in OptWindow
    /\ locked \in BOOLEAN
    /\ engine \in Engine
    /\ last \in Transition
    /\ stored \subseteq TimedEvent

\* The ingest stage's steps and the clock's.
LEMMA IngestTypeStep ==
    ASSUME TypeOK, Advance \/ (\E e \in HookEvents : IngestEvent(e))
                     \/ IngestFlush \/ IngestIdleTick
    PROVE  TypeOK'
<1>1. ASSUME Advance
      PROVE  TypeOK'
  <2>1. clock' \in Time
    BY <1>1 DEF Advance, TypeOK, Time
  <2> QED BY <1>1, <2>1 DEF Advance, TypeOK
<1>2. ASSUME NEW e \in HookEvents, IngestEvent(e)
      PROVE  TypeOK'
  <2>1. e.kind \in {"input", "focus"} /\ e.win \in OptWindow
    BY DEF HookEvents, InputEvent, FocusEvent, OptWindow
  <2>2. Len(history) + 1 \in Nat
    BY DEF TypeOK
  <2>3. Stamp(e) \in TimedEvent /\ Stamp(e).id = Len(history) + 1
    BY <2>1, <2>2 DEF TypeOK, Stamp, TimedEvent
  <2>4. /\ history' = Append(history, Stamp(e))
        /\ pending' = Append(pending, Stamp(e))
        /\ channel' = Append(channel, TickMsg(clock))
        /\ clock' = clock /\ ticked' = clock
    BY <1>2 DEF IngestEvent
  <2>5. history' \in Seq(TimedEvent) /\ pending' \in Seq(TimedEvent)
    BY <2>3, <2>4, QueueType DEF TypeOK
  <2>6. channel' \in Seq(Command)
    BY <2>4, MessageType, QueueType DEF TypeOK
  <2>7. \A i \in 1..Len(history') : history'[i].id = i
    <3> HIDE DEF Stamp
    <3>1. /\ Len(history') = Len(history) + 1
          /\ \A i \in 1..Len(history) : history'[i] = history[i]
          /\ history'[Len(history) + 1] = Stamp(e)
      BY <2>3, <2>4, AppendProperties DEF TypeOK
    <3> SUFFICES ASSUME NEW i \in 1..Len(history')
                 PROVE  history'[i].id = i
      OBVIOUS
    <3>2. i \in 1..Len(history) \/ i = Len(history) + 1
      BY <3>1 DEF TypeOK
    <3>3. CASE i \in 1..Len(history)
      BY <3>1, <3>3 DEF TypeOK
    <3>4. CASE i = Len(history) + 1
      BY <3>1, <3>4, <2>3
    <3> QED BY <3>2, <3>3, <3>4
  <2>8. IngestType'
    BY <2>4, <2>5, <2>7 DEF IngestType, TypeOK
  <2>9. DeriveType'
    BY <1>2 DEF IngestEvent, DeriveUnchanged, DeriveType, TypeOK
  <2> QED BY <2>6, <2>8, <2>9 DEF TypeOK, IngestType, DeriveType
<1>3. ASSUME IngestFlush
      PROVE  TypeOK'
  <2>1. BatchMsg(pending) \in Command /\ TickMsg(clock) \in Command
    BY MessageType DEF TypeOK
  <2>2. channel' \in Seq(Command)
    BY <1>3, <2>1 DEF IngestFlush, TypeOK
  <2>3. IngestType'
    BY <1>3 DEF IngestFlush, IngestType, TypeOK
  <2>4. DeriveType'
    BY <1>3 DEF IngestFlush, DeriveUnchanged, DeriveType, TypeOK
  <2> QED BY <2>2, <2>3, <2>4 DEF TypeOK, IngestType, DeriveType
<1>4. ASSUME IngestIdleTick
      PROVE  TypeOK'
  <2>1. channel' \in Seq(Command)
    BY <1>4, MessageType, QueueType DEF IngestIdleTick, TypeOK
  <2>2. IngestType'
    BY <1>4 DEF IngestIdleTick, IngestType, TypeOK
  <2>3. DeriveType'
    BY <1>4 DEF IngestIdleTick, DeriveUnchanged, DeriveType, TypeOK
  <2> QED BY <2>1, <2>2, <2>3 DEF TypeOK, IngestType, DeriveType
<1> QED BY <1>1, <1>2, <1>3, <1>4

\* The envelope stage's steps, which leave the ingest stage's variables alone.
LEMMA EnvelopeTypeStep ==
    ASSUME TypeOK, engine.current = "Locked" <=> engine.locked, EnvelopeStep
    PROVE  TypeOK'
<1>0. /\ work \in Work /\ engine \in Engine /\ last \in Transition
      /\ focus \in OptWindow /\ locked \in BOOLEAN /\ channel \in Seq(Command)
      /\ stored \subseteq TimedEvent
      /\ work.batch \in Seq(TimedEvent) /\ work.raw \in Seq(TimedEvent)
      /\ work.event \in TimedEvent /\ work.event.at \in Time /\ work.event.id \in Nat
      /\ work.adapted \in Seq(Envelope) /\ work.envs \in Seq(Envelope)
      /\ work.signals \in Seq([kind : SignalKind, id : Nat])
  BY DEF TypeOK, Work, TimedEvent
<1>i. ASSUME UNCHANGED ingestVars
      PROVE  IngestType'
  BY <1>i DEF ingestVars, IngestType, TypeOK
<1> DEFINE cmd == Head(channel)
<1>c. ASSUME channel # <<>>
      PROVE  /\ Tail(channel) \in Seq(Command)
             /\ cmd.at \in Time /\ cmd.events \in Seq(TimedEvent)
  <2>1. cmd \in Command /\ Tail(channel) \in Seq(Command)
    BY <1>c, <1>0, QueueType
  <2> QED BY <2>1 DEF Command
<1> SUFFICES ASSUME UNCHANGED ingestVars => IngestType'
             PROVE  TypeOK'
  BY <1>i
<1>1. CASE TakeTick
  <2>1. /\ channel # <<>> /\ channel' = Tail(channel)
        /\ engine' = OnTick(engine, cmd.at)
        /\ Transit(OnTick(engine, cmd.at), cmd.at, "IdleTimeout")
        /\ UNCHANGED <<work, focus, locked, stored>> /\ UNCHANGED ingestVars
    BY <1>1 DEF TakeTick, Receives
  <2>2. engine' \in Engine
    BY <2>1, <1>c, <1>0, OnTickFacts
  <2>3. last' \in Transition
    BY <2>1, <2>2, <1>c, <1>0, TransitType
  <2> QED BY <1>0, <1>c, <2>1, <2>2, <2>3 DEF TypeOK, IngestType
<1>2. CASE TakeBatch
  <2>1. /\ channel # <<>> /\ channel' = Tail(channel)
        /\ work' = [NoWork EXCEPT !.busy = TRUE, !.batch = cmd.events, !.raw = cmd.events]
        /\ UNCHANGED <<focus, locked, engine, last, stored>> /\ UNCHANGED ingestVars
    BY <1>2 DEF TakeBatch, Receives
  <2>2. work' \in Work
    <3> HIDE DEF cmd
    <3> QED BY <2>1, <1>c, MessageType DEF Work
  <2> QED BY <1>0, <1>c, <2>1, <2>2 DEF TypeOK, IngestType
<1>3. CASE AdaptEvent
  <2> DEFINE e == Head(work.raw)
  <2>1. /\ work.raw # <<>>
        /\ focus' = AdapterFocus(focus, e)
        /\ UNCHANGED <<channel, locked, engine, last, stored>> /\ UNCHANGED ingestVars
    BY <1>3 DEF AdaptEvent
  <2>2. PICK adapted \in Adapt(focus, e) :
            work' = [work EXCEPT !.raw = Tail(@), !.event = e, !.adapted = adapted]
    BY <1>3 DEF AdaptEvent
  <2>3. e \in TimedEvent /\ Tail(work.raw) \in Seq(TimedEvent)
    BY <2>1, <1>0, QueueType
  <2>4. e.kind \in {"input", "focus"} /\ e.win \in OptWindow
    BY <2>3 DEF TimedEvent
  <2> HIDE DEF e
  <2>5. adapted \in Seq(Envelope)
    BY <2>4, AdaptType
  <2>6. work' \in Work
    BY <2>2, <2>3, <2>5, <1>0 DEF Work
  <2>7. focus' \in OptWindow
    BY <2>1, <2>4, <1>0 DEF AdapterFocus
  <2> QED BY <1>0, <2>1, <2>6, <2>7 DEF TypeOK, IngestType
<1>4. CASE DeriveLock
  <2> DEFINE env == Head(work.adapted)
  <2>1. /\ work.adapted # <<>>
        /\ work' = [work EXCEPT !.adapted = Tail(@), !.envs = LockOutput(locked, env)]
        /\ locked' = LockFlag(locked, env)
        /\ UNCHANGED <<channel, focus, engine, last, stored>> /\ UNCHANGED ingestVars
    BY <1>4 DEF DeriveLock
  <2>2. env \in Envelope /\ Tail(work.adapted) \in Seq(Envelope)
    BY <2>1, <1>0, QueueType
  <2> HIDE DEF env
  <2>3. LockOutput(locked, env) \in Seq(Envelope) /\ LockFlag(locked, env) \in BOOLEAN
    BY <2>2, <1>0, LockOutputType
  <2>4. work' \in Work
    BY <2>1, <2>2, <2>3, <1>0 DEF Work
  <2> QED BY <1>0, <2>1, <2>3, <2>4 DEF TypeOK, IngestType
<1>5. CASE HandleEnvelope
  <2> DEFINE env == Head(work.envs)
             eng == OnSignal(engine, env.kind, work.event.at)
  <2>1. /\ work.envs # <<>>
        /\ UNCHANGED <<channel, focus, locked, stored>> /\ UNCHANGED ingestVars
    BY <1>5 DEF HandleEnvelope
  <2>2. env \in Envelope /\ Tail(work.envs) \in Seq(Envelope)
    BY <2>1, <1>0, QueueType
  <2>3. eng \in Engine
    BY <1>0, OnSignalFacts
  <2>4. CASE /\ IsSignal(env)
             /\ engine' = eng
             /\ Transit(eng, work.event.at, env.kind)
             /\ work' = [work EXCEPT !.envs = Tail(@),
                            !.signals = Append(@, [kind |-> env.kind, id |-> work.event.id])]
    <3>1. env.kind \in SignalKind
      BY <2>4 DEF IsSignal
    <3> HIDE DEF env, eng
    <3>2. last' \in Transition
      BY <2>3, <2>4, <3>1, <1>0, TransitType
    <3>3. Append(work.signals, [kind |-> env.kind, id |-> work.event.id])
             \in Seq([kind : SignalKind, id : Nat])
      BY <3>1, <1>0
    <3>4. work' \in Work
      <4> DEFINE signals == Append(work.signals, [kind |-> env.kind, id |-> work.event.id])
      <4>1. work' = [work EXCEPT !.envs = Tail(work.envs), !.signals = signals]
        BY <2>4
      <4>2. signals \in Seq([kind : SignalKind, id : Nat])
        BY <3>3
      <4> HIDE DEF signals
      <4> QED BY <4>1, <4>2, <2>2, <1>0 DEF Work
    <3> QED BY <1>0, <2>1, <2>3, <2>4, <3>2, <3>4 DEF TypeOK, IngestType
  <2>5. CASE ~IsSignal(env) /\ work' = [work EXCEPT !.envs = Tail(@)]
               /\ UNCHANGED <<engine, last>>
    <3>1. work' \in Work
      BY <2>2, <2>5, <1>0 DEF Work
    <3> QED BY <1>0, <2>1, <2>5, <3>1 DEF TypeOK, IngestType
  <2> QED BY <1>5, <2>4, <2>5 DEF HandleEnvelope
<1>6. CASE FinishBatch
  <2>1. /\ stored' = stored \cup Persistable(work.batch, work.signals)
        /\ work' = NoWork
        /\ UNCHANGED <<channel, focus, locked, engine, last>> /\ UNCHANGED ingestVars
    BY <1>6 DEF FinishBatch
  <2>2. Persistable(work.batch, work.signals) \subseteq TimedEvent
    <3>1. Range(work.batch) \subseteq TimedEvent
      BY <1>0 DEF Range
    <3> QED BY <3>1 DEF Persistable
  <2> QED BY <1>0, <2>1, <2>2, MessageType DEF TypeOK, IngestType
<1> QED BY <1>1, <1>2, <1>3, <1>4, <1>5, <1>6 DEF EnvelopeStep

-----------------------------------------------------------------------------
(* The lock screen *)

\* Initially nothing is locked and nothing is under way.
LEMMA InitInv == Init => TypeOK /\ LockInv
<1> SUFFICES ASSUME Init
             PROVE  TypeOK /\ LockInv
  OBVIOUS
<1>1. TypeOK
  <2>1. engine \in Engine /\ last \in Transition
    BY DEF Init, Engine, Transition, ActivityState, Time
  <2>2. /\ clock \in Time /\ ticked \in Time \cup {-1} /\ focus \in OptWindow
        /\ locked \in BOOLEAN
    BY DEF Init, Time, OptWindow
  <2>3. /\ history \in Seq(TimedEvent) /\ pending \in Seq(TimedEvent)
        /\ channel \in Seq(Command) /\ stored \subseteq TimedEvent
        /\ \A i \in 1..Len(history) : history[i].id = i
    BY DEF Init
  <2>4. work \in Work
    BY MessageType DEF Init
  <2> QED BY <2>1, <2>2, <2>3, <2>4 DEF TypeOK
<1>2. /\ work.raw = <<>> /\ work.adapted = <<>> /\ work.envs = <<>>
      /\ ~locked /\ ~engine.locked /\ engine.current = "Inactive" /\ focus = NoWindow
  BY DEF Init, NoWork
<1>3. NoLockKind(<<>>) /\ NoFocusKind(<<>>)
  BY DEF NoLockKind, NoFocusKind
<1>4. NoWindow \notin LoginWindows
  BY WindowsAssumption
<1>5. LockInv
  BY <1>2, <1>3, <1>4 DEF LockInv, EngineLags, DeriverLags
<1> QED BY <1>1, <1>5

\* With no envelope under way, the engine has caught up with the deriver; with
\* no adapted envelope left, the deriver has caught up with the adapter.
LEMMA CaughtUp ==
    ASSUME LockInv
    PROVE  /\ work.envs = <<>> => (engine.locked <=> locked)
           /\ work.adapted = <<>> => (locked <=> focus \in LoginWindows)
BY DEF LockInv, EngineLags, DeriverLags

\* LockInv speaks only of the envelope stage's own variables.
LEMMA LockInvFrame ==
    ASSUME LockInv, UNCHANGED <<work, focus, locked, engine>>
    PROVE  LockInv'
BY DEF LockInv, EngineLags, DeriverLags

\* Every step preserves the inductive invariant.
LEMMA LockInvStep ==
    ASSUME TypeOK, LockInv, Next
    PROVE  LockInv'
<1>0. /\ work \in Work /\ engine \in Engine /\ focus \in OptWindow /\ locked \in BOOLEAN
      /\ channel \in Seq(Command) /\ work.raw \in Seq(TimedEvent)
      /\ work.event.at \in Time
      /\ work.adapted \in Seq(Envelope) /\ work.envs \in Seq(Envelope)
  BY DEF TypeOK, Work, TimedEvent
<1>e. NoLockKind(<<>>) /\ NoFocusKind(<<>>)
  BY DEF NoLockKind, NoFocusKind
<1>k. engine.current = "Locked" <=> engine.locked
  BY DEF LockInv
<1>1. CASE Advance \/ (\E e \in HookEvents : IngestEvent(e)) \/ IngestFlush \/ IngestIdleTick
  <2>1. UNCHANGED <<work, focus, locked, engine>>
    BY <1>1 DEF Advance, IngestEvent, IngestFlush, IngestIdleTick, DeriveUnchanged
  <2> QED BY <2>1, LockInvFrame
<1>2. CASE TakeTick
  <2>1. /\ channel # <<>> /\ ~work.busy
        /\ engine' = OnTick(engine, Head(channel).at)
        /\ UNCHANGED <<work, focus, locked>>
    BY <1>2 DEF TakeTick, Receives
  <2>2. Head(channel).at \in Time
    <3>1. Head(channel) \in Command
      BY <2>1, <1>0, QueueType
    <3> QED BY <3>1 DEF Command
  <2>3. /\ engine'.current = "Locked" <=> engine'.locked
        /\ engine'.locked <=> engine.locked
    BY <2>1, <2>2, <1>0, <1>k, OnTickFacts
  <2> QED BY <2>1, <2>3 DEF LockInv, EngineLags, DeriverLags
<1>3. CASE TakeBatch
  <2>1. ~work.busy /\ UNCHANGED <<focus, locked, engine>>
    BY <1>3 DEF TakeBatch, Receives
  <2>2. work'.adapted = <<>> /\ work'.envs = <<>> /\ work'.busy
    BY <1>3 DEF TakeBatch, NoWork
  <2>3. work.adapted = <<>> /\ work.envs = <<>>
    BY <2>1 DEF LockInv
  <2> QED BY <2>1, <2>2, <2>3, <1>e, <1>k, CaughtUp DEF LockInv, EngineLags, DeriverLags
<1>4. CASE AdaptEvent
  <2> DEFINE e == Head(work.raw)
  <2>1. /\ work.raw # <<>> /\ work.adapted = <<>> /\ work.envs = <<>>
        /\ focus' = AdapterFocus(focus, e)
        /\ UNCHANGED <<locked, engine>>
    BY <1>4 DEF AdaptEvent
  <2>2. PICK adapted \in Adapt(focus, e) :
            work' = [work EXCEPT !.raw = Tail(@), !.event = e, !.adapted = adapted]
    BY <1>4 DEF AdaptEvent
  <2>3. e.kind \in {"input", "focus"}
    <3>1. e \in TimedEvent
      BY <2>1, <1>0, QueueType
    <3> QED BY <3>1 DEF TimedEvent
  <2> HIDE DEF e
  <2>4. work'.adapted = adapted /\ work'.envs = <<>> /\ work'.busy = work.busy
    BY <2>1, <2>2, <1>0 DEF Work
  <2>5. work.busy
    BY <2>1 DEF LockInv
  <2>6. /\ NoLockKind(adapted)
        /\ \/ NoFocusKind(adapted) /\ focus' = focus
           \/ /\ adapted # <<>> /\ NoFocusKind(Tail(adapted))
              /\ Head(adapted).kind = "FocusSignal" /\ Head(adapted).win = focus'
    BY <2>1, <2>3, AdaptKinds
  <2>7. EngineLags'
    BY <2>1, <2>4, <1>e, CaughtUp DEF EngineLags
  <2>8. DeriverLags'
    BY <2>1, <2>4, <2>6, CaughtUp DEF DeriverLags
  <2> QED BY <2>1, <2>4, <2>5, <2>6, <2>7, <2>8, <1>k DEF LockInv
<1>5. CASE DeriveLock
  <2> DEFINE env == Head(work.adapted)
             o == LockOutput(locked, env)
             flag == LockFlag(locked, env)
  <2>1. /\ work.adapted # <<>> /\ work.envs = <<>>
        /\ work' = [work EXCEPT !.adapted = Tail(@), !.envs = o]
        /\ locked' = flag
        /\ UNCHANGED <<focus, engine>>
    BY <1>5 DEF DeriveLock
  <2>2. env \in Envelope
    BY <2>1, <1>0, QueueType
  <2>3. env.kind \notin {"LockStart", "LockEnd"} /\ NoLockKind(Tail(work.adapted))
    BY <2>1, <1>0, NoKindTail DEF LockInv
  <2>4. /\ env.kind # "FocusSignal" => (flag <=> locked)
        /\ env.kind = "FocusSignal" => (flag <=> env.win \in LoginWindows)
        /\ \/ NoLockKind(o) /\ (flag <=> locked)
           \/ /\ o # <<>> /\ NoLockKind(Tail(o))
              /\ Head(o).kind = IF flag THEN "LockStart" ELSE "LockEnd"
              /\ flag <=> ~locked
    BY <2>2, <2>3, <1>0, LockKinds
  <2>5. flag \in BOOLEAN
    BY <2>2, <1>0, LockOutputType
  <2> HIDE DEF o, flag
  <2>6. work'.adapted = Tail(work.adapted) /\ work'.envs = o /\ work'.busy = work.busy
    BY <2>1, <1>0 DEF Work
  <2>7. work.busy
    BY <2>1 DEF LockInv
  <2>8. engine.locked <=> locked
    BY <2>1, CaughtUp
  <2>9. EngineLags'
    BY <2>1, <2>4, <2>6, <2>8 DEF EngineLags
  <2>10. DeriverLags'
    <3>1. CASE NoFocusKind(work.adapted) /\ (locked <=> focus \in LoginWindows)
      <4>1. env.kind # "FocusSignal" /\ NoFocusKind(Tail(work.adapted))
        BY <3>1, <2>1, <1>0, NoKindTail
      <4> HIDE DEF env
      <4> QED BY <3>1, <4>1, <2>1, <2>4, <2>6 DEF DeriverLags
    <3>2. CASE /\ NoFocusKind(Tail(work.adapted))
               /\ env.kind = "FocusSignal" /\ env.win = focus
      <4> HIDE DEF env
      <4> QED BY <3>2, <2>1, <2>4, <2>6 DEF DeriverLags
    <3> QED BY <3>1, <3>2 DEF LockInv, DeriverLags
  <2> QED BY <2>1, <2>3, <2>6, <2>7, <2>9, <2>10, <1>k DEF LockInv
<1>6. CASE HandleEnvelope
  <2> DEFINE env == Head(work.envs)
             eng == OnSignal(engine, env.kind, work.event.at)
  <2>1. work.envs # <<>> /\ UNCHANGED <<focus, locked>>
    BY <1>6 DEF HandleEnvelope
  <2>2. /\ eng \in Engine
        /\ eng.current = "Locked" <=> eng.locked
        /\ env.kind = "LockStart" => eng.locked
        /\ env.kind = "LockEnd" => ~eng.locked
        /\ env.kind \notin {"LockStart", "LockEnd"} => (eng.locked <=> engine.locked)
    BY <1>0, <1>k, OnSignalFacts
  <2>3. \/ engine' = eng
        \/ ~IsSignal(env) /\ engine' = engine
    BY <1>6 DEF HandleEnvelope
  <2>4. ~IsSignal(env) => env.kind \notin {"LockStart", "LockEnd"}
    BY DEF IsSignal, SignalKind
  <2>5. /\ work'.envs = Tail(work.envs) /\ work'.adapted = work.adapted
        /\ work'.busy = work.busy
    BY <1>6, <1>0 DEF HandleEnvelope, Work
  <2>6. work.busy
    BY <2>1 DEF LockInv
  <2>7. NoLockKind(work.envs) =>
            env.kind \notin {"LockStart", "LockEnd"} /\ NoLockKind(Tail(work.envs))
    BY <2>1, <1>0, NoKindTail
  <2> DEFINE announced == env.kind = IF locked THEN "LockStart" ELSE "LockEnd"
  <2>8. \/ /\ NoLockKind(work.envs) /\ (engine.locked <=> locked)
        \/ /\ NoLockKind(Tail(work.envs)) /\ announced
           /\ engine.locked <=> ~locked
    BY DEF LockInv, EngineLags
  <2> HIDE DEF eng
  <2>9. engine'.current = "Locked" <=> engine'.locked
    BY <2>2, <2>3, <1>k
  <2>10. engine'.locked <=> locked
    <3> HIDE DEF env
    <3>1. CASE env.kind \notin {"LockStart", "LockEnd"}
      <4>1. engine.locked <=> locked
        BY <2>8, <3>1
      <4> QED BY <4>1, <2>2, <2>3, <3>1
    <3>2. CASE env.kind = "LockStart"
      BY <2>2, <2>3, <2>4, <2>7, <2>8, <3>2
    <3>3. CASE env.kind = "LockEnd"
      BY <2>2, <2>3, <2>4, <2>7, <2>8, <3>3
    <3> QED BY <3>1, <3>2, <3>3
  <2>11. NoLockKind(Tail(work.envs))
    BY <2>7, <2>8
  <2>12. EngineLags'
    BY <2>1, <2>5, <2>10, <2>11 DEF EngineLags
  <2>13. DeriverLags'
    BY <2>1, <2>5 DEF LockInv, DeriverLags
  <2> QED BY <2>5, <2>6, <2>9, <2>12, <2>13 DEF LockInv
<1>7. CASE FinishBatch
  <2>1. /\ work.adapted = <<>> /\ work.envs = <<>> /\ work' = NoWork
        /\ UNCHANGED <<focus, locked, engine>>
    BY <1>7 DEF FinishBatch
  <2>2. work'.raw = <<>> /\ work'.adapted = <<>> /\ work'.envs = <<>>
    BY <2>1 DEF NoWork
  <2> QED BY <2>1, <2>2, <1>e, <1>k, CaughtUp DEF LockInv, EngineLags, DeriverLags
<1> QED BY <1>1, <1>2, <1>3, <1>4, <1>5, <1>6, <1>7 DEF Next, EnvelopeStep

\* Both together, for a step that may also stutter.
LEMMA InvStep == TypeOK /\ LockInv /\ [Next]_vars => TypeOK' /\ LockInv'
<1> SUFFICES ASSUME TypeOK, LockInv, [Next]_vars
             PROVE  TypeOK' /\ LockInv'
  OBVIOUS
<1>1. CASE Next
  <2>1. LockInv'
    BY <1>1, LockInvStep
  <2>2. engine.current = "Locked" <=> engine.locked
    BY DEF LockInv
  <2>3. TypeOK'
    BY <1>1, <2>2, IngestTypeStep, EnvelopeTypeStep DEF Next
  <2> QED BY <2>1, <2>3
<1>2. CASE UNCHANGED vars
  <2>1. UNCHANGED <<work, focus, locked, engine>>
    BY <1>2 DEF vars
  <2>2. LockInv'
    BY <2>1, LockInvFrame
  <2>3. TypeOK'
    BY <1>2 DEF vars, TypeOK
  <2> QED BY <2>2, <2>3
<1> QED BY <1>1, <1>2

\* Every value that the stages keep or exchange has its type, and the events
\* are numbered in the order of their arrival.
THEOREM TypeCorrect == Spec => []TypeOK
<1>1. Spec => [](TypeOK /\ LockInv)
  BY InitInv, InvStep, PTL DEF Spec
<1> QED BY <1>1, PTL

\* The inductive invariant: how far the engine may lag behind the deriver, and
\* the deriver behind the adapter, in the middle of a batch.
THEOREM LockInvariant == Spec => []LockInv
<1>1. Spec => [](TypeOK /\ LockInv)
  BY InitInv, InvStep, PTL DEF Spec
<1> QED BY <1>1, PTL

\* After every batch the adapter's window, LockDeriver.locked,
\* DefaultStateEngine.locked and the engine's state agree on the lock screen,
\* whatever the windows, the events, their batches and the thresholds.
THEOREM LockAgreement == Spec => []LocksAgree
<1>1. LockInv => LocksAgree
  <2> SUFFICES ASSUME LockInv, ~work.busy
               PROVE  /\ locked <=> focus \in LoginWindows
                      /\ engine.locked <=> locked
                      /\ engine.current = "Locked" <=> engine.locked
    BY DEF LocksAgree
  <2>1. /\ work.adapted = <<>> /\ work.envs = <<>>
        /\ engine.current = "Locked" <=> engine.locked
    BY DEF LockInv
  <2> QED BY <2>1, CaughtUp
<1> QED BY <1>1, LockInvariant, PTL

-----------------------------------------------------------------------------
(* The reference definitions, for any sequence of events *)

FrontBefore(s, i) ==
    LET reports == {j \in 1..(i - 1) : s[j].kind = "focus"}
    IN IF reports = {} THEN NoWindow
       ELSE s[CHOOSE j \in reports : \A k \in reports : k <= j].win

Front(s) == FrontBefore(s, Len(s) + 1)

\* e is activity if w had the focus before it
Moves(e, w) ==
    \/ e.kind = "input" /\ w \notin LoginWindows
    \/ e.kind = "focus" /\ e.win # w /\ e.win \notin LoginWindows

Activities(s) == {i \in DOMAIN s : Moves(s[i], FrontBefore(s, i))}

LastMove(s) ==
    IF Activities(s) = {} THEN 0
    ELSE s[CHOOSE i \in Activities(s) : \A j \in Activities(s) : j <= i].at

\* For the history they are the definitions of Derivation.
LEMMA Reference ==
    ASSUME TypeOK
    PROVE  /\ LastActivity = LastMove(history)
           /\ OnLockScreen(Len(history) + 1) <=> Front(history) \in LoginWindows
<1>1. \A i : WindowBefore(i) = FrontBefore(history, i)
  BY DEF WindowBefore, FrontBefore
<1>2. \A i : IsActivity(i) <=> Moves(history[i], FrontBefore(history, i))
  BY <1>1 DEF IsActivity, OnLockScreen, Moves
<1>3. {i \in DOMAIN history : IsActivity(i)} = Activities(history)
  BY <1>2 DEF Activities
<1>4. LastActivity = LastMove(history)
  <2> DEFINE acts == {i \in DOMAIN history : IsActivity(i)}
  <2>1. LastActivity = IF acts = {} THEN 0
                       ELSE history[CHOOSE i \in acts : \A j \in acts : j <= i].at
    BY DEF LastActivity
  <2>2. acts = Activities(history)
    BY <1>3
  <2> HIDE DEF acts
  <2> QED BY <2>1, <2>2 DEF LastMove
<1> QED BY <1>1, <1>4 DEF OnLockScreen, Front

\* One more event: the window in front before the earlier ones is the same,
\* and behind it is its own, if it is a report.
LEMMA FrontAppend ==
    ASSUME NEW s \in Seq(TimedEvent), NEW e \in TimedEvent
    PROVE  /\ \A i \in 1..(Len(s) + 1) : FrontBefore(Append(s, e), i) = FrontBefore(s, i)
           /\ Front(Append(s, e)) = IF e.kind = "focus" THEN e.win ELSE Front(s)
<1> DEFINE n == Len(s)
           r == Append(s, e)
           At(q, i) == {j \in 1..(i - 1) : q[j].kind = "focus"}
<1>1. n \in Nat /\ Len(r) = n + 1 /\ r[n + 1] = e /\ \A j \in 1..n : r[j] = s[j]
  BY AppendProperties
<1> HIDE DEF n, r
<1>2. ASSUME NEW i \in 1..(n + 1), NEW k, At(r, k) = At(s, i)
      PROVE  FrontBefore(r, k) = FrontBefore(s, i)
  <2> DEFINE P == At(s, i)
  <2>1. CASE P = {}
    BY <2>1, <1>2 DEF FrontBefore
  <2>2. CASE P # {}
    <3>1. P \subseteq 1..n
      BY <1>1
    <3> HIDE DEF P
    <3>2. PICK m \in P : \A j \in P : j <= m
      BY <1>1, <2>2, <3>1, HasGreatest
    <3>3. (CHOOSE j \in P : \A h \in P : h <= j) = m
      <4>1. P \subseteq Int
        BY <3>1
      <4> QED BY <3>2, <4>1, Greatest
    <3>4. FrontBefore(s, i) = s[m].win /\ FrontBefore(r, k) = r[m].win
      BY <1>2, <2>2, <3>3 DEF FrontBefore, P
    <3> QED BY <1>1, <3>1, <3>2, <3>4
  <2> QED BY <2>1, <2>2
<1>3. ASSUME NEW i \in 1..(n + 1)
      PROVE  FrontBefore(r, i) = FrontBefore(s, i)
  <2>1. At(r, i) = At(s, i)
    BY <1>1
  <2> QED BY <1>2, <2>1
<1>4. CASE e.kind # "focus"
  <2>1. At(r, n + 2) = At(s, n + 1)
    BY <1>1, <1>4
  <2>2. FrontBefore(r, n + 2) = FrontBefore(s, n + 1)
    BY <1>1, <1>2, <2>1
  <2> QED BY <1>1, <1>3, <1>4, <2>2 DEF Front, n, r
<1>5. CASE e.kind = "focus"
  <2> DEFINE P == At(r, n + 2)
  <2>1. P \subseteq Int /\ n + 1 \in P /\ \A j \in P : j <= n + 1
    BY <1>1, <1>5
  <2> HIDE DEF P
  <2>2. (CHOOSE j \in P : \A h \in P : h <= j) = n + 1
    BY <2>1, Greatest
  <2>3. FrontBefore(r, n + 2) = e.win
    BY <1>1, <2>1, <2>2 DEF FrontBefore, P
  <2> QED BY <1>1, <1>3, <1>5, <2>3 DEF Front, n, r
<1> QED BY <1>4, <1>5

\* One more event: it is the last activity, or the one before remains it.
LEMMA LastMoveAppend ==
    ASSUME NEW s \in Seq(TimedEvent), NEW e \in TimedEvent
    PROVE  LastMove(Append(s, e)) = IF Moves(e, Front(s)) THEN e.at ELSE LastMove(s)
<1> DEFINE n == Len(s)
           r == Append(s, e)
           P == Activities(s)
           Q == Activities(r)
<1>1. /\ n \in Nat /\ Len(r) = n + 1 /\ r[n + 1] = e /\ \A j \in 1..n : r[j] = s[j]
      /\ DOMAIN r = 1..(n + 1) /\ DOMAIN s = 1..n
  BY AppendProperties
<1>2. \A i \in 1..(n + 1) : FrontBefore(r, i) = FrontBefore(s, i)
  BY FrontAppend
<1>3. /\ P \subseteq 1..n /\ Q \subseteq 1..(n + 1)
      /\ \A i \in 1..n : i \in P <=> i \in Q
      /\ n + 1 \in Q <=> Moves(e, Front(s))
  <2> HIDE DEF r, n
  <2>1. P = {i \in 1..n : Moves(s[i], FrontBefore(s, i))}
    BY <1>1 DEF Activities
  <2>2. Q = {i \in 1..(n + 1) : Moves(r[i], FrontBefore(r, i))}
    BY <1>1 DEF Activities
  <2>3. Front(s) = FrontBefore(s, n + 1)
    BY DEF Front, n
  <2> HIDE DEF P, Q
  <2>4. \A i \in 1..n : i \in P <=> i \in Q
    BY <1>1, <1>2, <2>1, <2>2
  <2>5. n + 1 \in Q <=> Moves(e, Front(s))
    BY <1>1, <1>2, <2>2, <2>3
  <2> QED BY <2>1, <2>2, <2>4, <2>5
<1>4. /\ LastMove(s) = IF P = {} THEN 0 ELSE s[CHOOSE i \in P : \A j \in P : j <= i].at
      /\ LastMove(r) = IF Q = {} THEN 0 ELSE r[CHOOSE i \in Q : \A j \in Q : j <= i].at
  BY DEF LastMove
<1> HIDE DEF n, r, P, Q
<1>5. CASE Moves(e, Front(s))
  <2>1. Q \subseteq Int /\ n + 1 \in Q /\ \A j \in Q : j <= n + 1
    BY <1>1, <1>3, <1>5
  <2>2. (CHOOSE i \in Q : \A j \in Q : j <= i) = n + 1
    BY <2>1, Greatest
  <2>3. LastMove(r) = e.at
    BY <1>1, <1>4, <2>1, <2>2
  <2> QED BY <1>5, <2>3 DEF r
<1>6. CASE ~Moves(e, Front(s))
  <2>1. P = Q
    <3>1. \A i \in Q : i \in 1..n
      BY <1>1, <1>3, <1>6
    <3> QED BY <1>3, <3>1
  <2>2. CASE P = {}
    BY <1>4, <1>6, <2>1, <2>2 DEF r
  <2>3. CASE P # {}
    <3>1. PICK m \in P : \A j \in P : j <= m
      BY <1>1, <1>3, <2>3, HasGreatest
    <3>2. P \subseteq Int /\ m \in 1..n
      BY <1>3
    <3>3. (CHOOSE i \in P : \A j \in P : j <= i) = m
      BY <3>1, <3>2, Greatest
    <3>4. LastMove(s) = LastMove(r)
      BY <1>1, <1>4, <2>1, <2>3, <3>2, <3>3
    <3> QED BY <1>6, <3>4 DEF r
  <2> QED BY <2>2, <2>3
<1> QED BY <1>5, <1>6

-----------------------------------------------------------------------------
(* The state follows the user: the inductive invariant *)

\* What the envelope stage has been told: the events, the time of the last
\* tick, which is not before any of them, and whether nothing came after it.
Told == {v \in [evs : Seq(TimedEvent), now : Time \cup {-1}, fresh : BOOLEAN] :
            \A i \in 1..Len(v.evs) : v.evs[i].at <= v.now}

Telling ==
    {x \in Told \X Command \X Told :
        \/ /\ x[2].kind = "Tick" /\ x[1].now <= x[2].at
           /\ x[3] = [evs |-> x[1].evs, now |-> x[2].at, fresh |-> TRUE]
        \/ /\ x[2].kind = "Batch"
           /\ x[3] = [evs |-> x[1].evs \o x[2].events, now |-> x[1].now, fresh |-> FALSE]}

\* done: the events that went through the adapter
Taken(done, now, fresh) == [evs |-> done \o work.raw, now |-> now, fresh |-> fresh]

\* Ticks overtake events, but each event is announced by a tick of its time:
\* what is on its way leads from what was taken to the whole history.
Announced(done, now, fresh) ==
    \E sent \in Told :
        /\ Path(Told, Telling, channel, Taken(done, now, fresh), sent)
        /\ sent.evs \o pending = history
        /\ sent.now = ticked
        /\ ticked >= 0 => sent.fresh

ClockInv == ticked <= clock /\ \A i \in 1..Len(pending) : pending[i].at <= ticked

ActivityKind == {"Input", "FocusSignal", "ActivityPulse"}

\* an activity signal for the engine
Signals(envs) == \E i \in 1..Len(envs) : envs[i].kind \in ActivityKind

\* one that the lock deriver will let through, and nothing of the kind
Upcoming(adapted) ==
    /\ adapted # <<>>
    /\ \/ Head(adapted).kind = "Input" /\ ~locked
       \/ Head(adapted).kind = "FocusSignal" /\ Head(adapted).win \notin LoginWindows

Harmless(adapted) ==
    \A i \in 1..Len(adapted) :
        /\ adapted[i].kind = "Input" => locked /\ Len(adapted) = 1
        /\ adapted[i].kind = "FocusSignal" => adapted[i].win \in LoginWindows
        /\ adapted[i].kind # "ActivityPulse"

\* The engine's last signal is the user's last activity, or its signal is on
\* its way through the layers; no other event has such a signal.
LastSignal(done) ==
    /\ engine.last_signal_time = LastMove(done) \/ Signals(work.envs) \/ Upcoming(work.adapted)
    /\ \/ LastMove(done) = work.event.at
       \/ ~Signals(work.envs) /\ Harmless(work.adapted)
    /\ Signals(work.envs) => ~locked

\* The state is the one of the last tick, or of some earlier time.
Timely(now, fresh) ==
    /\ fresh => ~work.busy /\ engine.current = Compute(engine, now)
    /\ last.n > 0 => \E t \in Time : t <= now /\ engine.current = Compute(engine, t)

InWork(done) ==
    work.adapted # <<>> \/ work.envs # <<>> => done # <<>> /\ work.event = done[Len(done)]

Follows(done, now, fresh) ==
    /\ Announced(done, now, fresh)
    /\ focus = Front(done)
    /\ LastSignal(done)
    /\ Timely(now, fresh)
    /\ InWork(done)

FollowInv ==
    /\ ClockInv
    /\ TicksDemote
    /\ \E done \in Seq(TimedEvent), now \in Time \cup {-1}, fresh \in BOOLEAN :
          Follows(done, now, fresh)

\* What was taken is consistent: no event is later than the last tick.
LEMMA TakenTold ==
    ASSUME TypeOK, NEW done, NEW now, NEW fresh, Announced(done, now, fresh)
    PROVE  Taken(done, now, fresh) \in Told
BY PathEnds DEF Announced, TypeOK

\* A tick or a batch, appended to what was sent.
LEMMA TellTick ==
    ASSUME NEW v \in Told, NEW t \in Time, v.now <= t
    PROVE  LET u == [evs |-> v.evs, now |-> t, fresh |-> TRUE]
           IN u \in Told /\ <<v, TickMsg(t), u>> \in Telling
<1> DEFINE u == [evs |-> v.evs, now |-> t, fresh |-> TRUE]
<1>1. u \in Told
  <2>1. \A i \in 1..Len(v.evs) : v.evs[i].at <= v.now /\ v.evs[i].at \in Time
    <3>1. v.evs \in Seq(TimedEvent)
      BY DEF Told
    <3>2. \A i \in 1..Len(v.evs) : v.evs[i] \in TimedEvent
      BY <3>1
    <3> QED BY <3>2 DEF Told, TimedEvent
  <2>2. v.now \in Int /\ t \in Int
    BY DEF Told, Time
  <2>3. \A i \in 1..Len(u.evs) : u.evs[i].at <= u.now
    BY <2>1, <2>2 DEF Time
  <2> QED BY <2>3 DEF Told
<1>2. TickMsg(t) \in Command /\ TickMsg(t).kind = "Tick" /\ TickMsg(t).at = t
  BY MessageType DEF TickMsg
<1> QED BY <1>1, <1>2 DEF Telling

LEMMA TellBatch ==
    ASSUME NEW v \in Told, NEW evs \in Seq(TimedEvent),
           \A i \in 1..Len(evs) : evs[i].at <= v.now
    PROVE  LET u == [evs |-> v.evs \o evs, now |-> v.now, fresh |-> FALSE]
           IN u \in Told /\ <<v, BatchMsg(evs), u>> \in Telling
<1> DEFINE u == [evs |-> v.evs \o evs, now |-> v.now, fresh |-> FALSE]
<1>0. v.evs \in Seq(TimedEvent) /\ v.now \in Time \cup {-1}
      /\ \A i \in 1..Len(v.evs) : v.evs[i].at <= v.now
  BY DEF Told
<1>1. u \in Told
  <2>1. /\ Len(v.evs) \in Nat /\ Len(evs) \in Nat
        /\ u.evs \in Seq(TimedEvent) /\ Len(u.evs) = Len(v.evs) + Len(evs)
        /\ \A i \in 1..Len(v.evs) : u.evs[i] = v.evs[i]
        /\ \A i \in (Len(v.evs) + 1)..(Len(v.evs) + Len(evs)) : u.evs[i] = evs[i - Len(v.evs)]
    BY <1>0
  <2>2. ASSUME NEW i \in 1..Len(u.evs)
        PROVE  u.evs[i].at <= v.now
    <3>1. CASE i \in 1..Len(v.evs)
      BY <3>1, <1>0, <2>1
    <3>2. CASE i \in (Len(v.evs) + 1)..(Len(v.evs) + Len(evs))
      <4>1. i - Len(v.evs) \in 1..Len(evs)
        BY <2>1, <3>2
      <4> QED BY <2>1, <3>2, <4>1
    <3> QED BY <2>1, <3>1, <3>2
  <2> QED BY <1>0, <2>1, <2>2 DEF Told
<1>2. BatchMsg(evs) \in Command /\ BatchMsg(evs).kind = "Batch" /\ BatchMsg(evs).events = evs
  BY MessageType DEF BatchMsg
<1> QED BY <1>1, <1>2 DEF Telling

\* The engine's steps, and what they do to the time of the last signal.
LEMMA SignalTimes ==
    ASSUME NEW eng \in Engine, NEW kind, NEW now \in Time
    PROVE  LET res == OnSignal(eng, kind, now)
           IN /\ res = eng \/ res.current = Compute(res, now)
              /\ kind \in ActivityKind /\ ~eng.locked => res.last_signal_time = now
              /\ kind \notin ActivityKind /\ kind \in SignalKind =>
                    res.last_signal_time = eng.last_signal_time
<1> DEFINE res == OnSignal(eng, kind, now)
<1>1. CASE kind = "LockStart" /\ ~eng.locked
  <2>1. res = [eng EXCEPT !.locked = TRUE, !.current = "Locked"]
    BY <1>1 DEF OnSignal
  <2> HIDE DEF res
  <2>2. res.locked /\ res.current = "Locked" /\ res.last_signal_time = eng.last_signal_time
    BY <2>1 DEF Engine
  <2>3. Compute(res, now) = "Locked"
    BY <2>2 DEF Compute
  <2> QED BY <1>1, <2>2, <2>3 DEF res, ActivityKind
<1>2. CASE kind = "LockEnd" /\ eng.locked
  <2> DEFINE x == [eng EXCEPT !.locked = FALSE]
  <2>1. res = Computed(x, now)
    BY <1>2 DEF OnSignal
  <2>2. x \in Engine /\ x.last_signal_time = eng.last_signal_time
    BY DEF Engine
  <2> HIDE DEF res, x
  <2>3. res.current = Compute(x, now) /\ res.last_signal_time = x.last_signal_time
        /\ res.locked = x.locked
    BY <2>1, <2>2 DEF Computed, Engine
  <2>4. Compute(res, now) = Compute(x, now)
    BY <2>3 DEF Compute
  <2> QED BY <1>2, <2>2, <2>3, <2>4 DEF res, ActivityKind
<1>3. CASE kind \notin {"LockStart", "LockEnd"} /\ ~eng.locked
  <2> DEFINE x == [eng EXCEPT !.last_signal_time = now]
  <2>1. res = Computed(x, now)
    BY <1>3 DEF OnSignal
  <2>2. x \in Engine /\ x.last_signal_time = now
    BY DEF Engine
  <2> HIDE DEF res, x
  <2>3. res.current = Compute(x, now) /\ res.last_signal_time = x.last_signal_time
        /\ res.locked = x.locked
    BY <2>1, <2>2 DEF Computed, Engine
  <2>4. Compute(res, now) = Compute(x, now)
    BY <2>3 DEF Compute
  <2> QED BY <1>3, <2>2, <2>3, <2>4 DEF res, ActivityKind, SignalKind
<1>4. CASE \/ kind = "LockStart" /\ eng.locked
           \/ kind = "LockEnd" /\ ~eng.locked
           \/ kind \notin {"LockStart", "LockEnd"} /\ eng.locked
  <2>1. res = eng
    BY <1>4 DEF OnSignal
  <2> HIDE DEF res
  <2> QED BY <1>4, <2>1 DEF res, ActivityKind
<1> QED BY <1>1, <1>2, <1>3, <1>4

LEMMA TickTimes ==
    ASSUME NEW eng \in Engine, NEW now \in Time, eng.current = "Locked" <=> eng.locked
    PROVE  LET res == OnTick(eng, now)
           IN /\ res.current = Compute(eng, now) /\ Compute(res, now) = Compute(eng, now)
              /\ res.last_signal_time = eng.last_signal_time
<1> DEFINE res == OnTick(eng, now)
<1>1. CASE eng.locked
  <2>1. res = eng
    BY <1>1 DEF OnTick
  <2>2. Compute(eng, now) = "Locked"
    BY <1>1 DEF Compute
  <2> QED BY <1>1, <2>1, <2>2
<1>2. CASE ~eng.locked
  <2>1. res = Computed(eng, now)
    BY <1>2 DEF OnTick
  <2> HIDE DEF res
  <2>2. res.current = Compute(eng, now) /\ res.last_signal_time = eng.last_signal_time
        /\ res.locked = eng.locked
    BY <2>1 DEF Computed, Engine
  <2>3. Compute(res, now) = Compute(eng, now)
    BY <2>2 DEF Compute
  <2> QED BY <2>2, <2>3 DEF res
<1> QED BY <1>1, <1>2

\* Time alone only makes the state idler.
LEMMA TimeDemotes ==
    ASSUME NEW eng \in Engine, NEW t \in Time, NEW u \in Time, t <= u,
           Compute(eng, t) # Compute(eng, u)
    PROVE  Rank[Compute(eng, u)] < Rank[Compute(eng, t)]
<1>1. eng.last_signal_time \in Nat /\ eng.locked \in BOOLEAN /\ t \in Nat /\ u \in Nat
      /\ ActiveGrace \in Nat /\ IdleThreshold \in Nat
  BY DerivationAssumption DEF Engine, Time
<1>2. Rank["Inactive"] = 1 /\ Rank["Passive"] = 2 /\ Rank["Active"] = 3
  BY DEF Rank, ActivityState
<1>3. CASE eng.locked
  BY <1>3 DEF Compute
<1>4. CASE ~eng.locked
  <2> DEFINE a == t - eng.last_signal_time
             b == u - eng.last_signal_time
  <2>1. a \in Int /\ b \in Int /\ a <= b
    BY <1>1
  <2>2. \/ a <= ActiveGrace /\ Compute(eng, t) = "Active"
        \/ a > ActiveGrace /\ a <= IdleThreshold /\ Compute(eng, t) = "Passive"
        \/ a > ActiveGrace /\ a > IdleThreshold /\ Compute(eng, t) = "Inactive"
    BY <1>1, <1>4 DEF Compute
  <2>3. \/ b <= ActiveGrace /\ Compute(eng, u) = "Active"
        \/ b > ActiveGrace /\ b <= IdleThreshold /\ Compute(eng, u) = "Passive"
        \/ b > ActiveGrace /\ b > IdleThreshold /\ Compute(eng, u) = "Inactive"
    BY <1>1, <1>4 DEF Compute
  <2> HIDE DEF a, b
  <2> QED BY <1>1, <1>2, <2>1, <2>2, <2>3
<1> QED BY <1>3, <1>4

-----------------------------------------------------------------------------
(* The state follows the user: the steps *)

LEMMA FollowInit == Init => FollowInv
<1> SUFFICES ASSUME Init PROVE FollowInv
  OBVIOUS
<1> DEFINE none == [evs |-> <<>>, now |-> -1, fresh |-> FALSE]
<1>1. none \in Told
  BY DEF Told
<1>2. Taken(<<>>, -1, FALSE) = none
  BY DEF Init, NoWork, Taken
<1>3. Path(Told, Telling, channel, Taken(<<>>, -1, FALSE), none)
  <2>1. channel = <<>>
    BY DEF Init
  <2> HIDE DEF none
  <2>2. Path(Told, Telling, <<>>, none, none)
    BY <1>1, PathEmpty
  <2> QED BY <1>2, <2>1, <2>2
<1>4. Announced(<<>>, -1, FALSE)
  <2>1. none.evs \o pending = history /\ none.now = ticked /\ ~(ticked >= 0)
    BY DEF Init
  <2> HIDE DEF none
  <2> QED BY <1>1, <1>3, <2>1 DEF Announced
<1>5. Front(<<>>) = NoWindow
  BY DEF Front, FrontBefore
<1>6. LastMove(<<>>) = 0
  BY DEF LastMove, Activities
<1>7. work.adapted = <<>> /\ work.envs = <<>>
  BY DEF Init, NoWork
<1>8. LastSignal(<<>>)
  BY <1>6, <1>7 DEF Init, LastSignal, Signals, Harmless
<1>9. Timely(-1, FALSE) /\ InWork(<<>>)
  BY <1>7 DEF Init, Timely, InWork
<1>10. Follows(<<>>, -1, FALSE)
  BY <1>4, <1>5, <1>8, <1>9 DEF Init, Follows
<1>11. ClockInv /\ TicksDemote
  BY DEF Init, ClockInv, TicksDemote
<1>12. <<>> \in Seq(TimedEvent) /\ -1 \in Time \cup {-1} /\ FALSE \in BOOLEAN
  OBVIOUS
<1> QED BY <1>10, <1>11, <1>12 DEF FollowInv

\* Moving an event from the end of one sequence or the head of another.
LEMMA ConcatAppend ==
    ASSUME NEW S, NEW s \in Seq(S), NEW t \in Seq(S), NEW e \in S
    PROVE  s \o Append(t, e) = Append(s \o t, e)
<1>1. <<e>> \in Seq(S) /\ s \o t \in Seq(S)
  OBVIOUS
<1>2. Append(t, e) = t \o <<e>> /\ Append(s \o t, e) = (s \o t) \o <<e>>
  BY <1>1, AppendIsConcat
<1> QED BY <1>1, <1>2, ConcatAssociative

LEMMA ConcatShift ==
    ASSUME NEW S, NEW s \in Seq(S), NEW t \in Seq(S), t # <<>>
    PROVE  Append(s, Head(t)) \o Tail(t) = s \o t
<1>1. Head(t) \in S /\ Tail(t) \in Seq(S)
  BY HeadTailProperties
<1>2. <<Head(t)>> \in Seq(S) /\ Append(s, Head(t)) = s \o <<Head(t)>>
  BY <1>1, AppendIsConcat
<1>3. <<Head(t)>> \o Tail(t) = t
  <2> DEFINE u == <<Head(t)>> \o Tail(t)
  <2>1. u \in Seq(S) /\ Len(u) = Len(t) /\ \A i \in 1..Len(u) : u[i] = t[i]
    BY <1>1, <1>2, HeadTailProperties
  <2> HIDE DEF u
  <2>2. u = t
    BY <2>1, SeqEqual
  <2> QED BY <2>2 DEF u
<1> QED BY <1>1, <1>2, <1>3, ConcatAssociative

\* What the envelope stage keeps is unchanged while the ingest stage works.
LEMMA FollowFrame ==
    ASSUME NEW done, NEW now, NEW fresh, Follows(done, now, fresh),
           UNCHANGED <<work, focus, locked, engine, last>>, Announced(done, now, fresh)'
    PROVE  Follows(done, now, fresh)'
<1>1. LastSignal(done)'
  BY DEF Follows, LastSignal, Signals, Upcoming, Harmless
<1>2. Timely(now, fresh)'
  BY DEF Follows, Timely
<1>3. InWork(done)'
  BY DEF Follows, InWork
<1> QED BY <1>1, <1>2, <1>3 DEF Follows

\* The clock and the ingest stage.
LEMMA FollowIngest ==
    ASSUME TypeOK, TypeOK', FollowInv,
           Advance \/ (\E e \in HookEvents : IngestEvent(e)) \/ IngestFlush \/ IngestIdleTick
    PROVE  FollowInv'
<1>1. PICK done \in Seq(TimedEvent), now \in Time \cup {-1}, fresh \in BOOLEAN :
          Follows(done, now, fresh)
  BY DEF FollowInv
<1>2. PICK sent \in Told :
          /\ Path(Told, Telling, channel, Taken(done, now, fresh), sent)
          /\ sent.evs \o pending = history
          /\ sent.now = ticked
          /\ ticked >= 0 => sent.fresh
  BY <1>1 DEF Follows, Announced
<1>3. UNCHANGED <<work, focus, locked, engine, last>>
  BY DEF Advance, IngestEvent, IngestFlush, IngestIdleTick, DeriveUnchanged
<1>4. Taken(done, now, fresh)' = Taken(done, now, fresh)
  BY <1>3 DEF Taken
<1>5. TicksDemote'
  BY <1>3 DEF FollowInv, TicksDemote
<1>6. SUFFICES ClockInv' /\ Announced(done, now, fresh)'
  BY <1>1, <1>3, <1>5, FollowFrame DEF FollowInv
<1>t. /\ channel \in Seq(Command) /\ pending \in Seq(TimedEvent)
      /\ clock \in Time /\ ticked \in Time \cup {-1} /\ ticked <= clock
      /\ \A i \in 1..Len(pending) : pending[i].at <= ticked
  BY DEF TypeOK, FollowInv, ClockInv
<1>v. sent.evs \in Seq(TimedEvent) /\ sent.now \in Time \cup {-1}
  BY DEF Told
<1>p. \A i \in 1..Len(pending) : pending[i].at \in Time
  <2>1. \A i \in 1..Len(pending) : pending[i] \in TimedEvent
    BY <1>t
  <2> QED BY <2>1 DEF TimedEvent
<1> DEFINE tick == [evs |-> sent.evs, now |-> clock, fresh |-> TRUE]
<1>7. tick \in Told /\ <<sent, TickMsg(clock), tick>> \in Telling
  BY <1>2, <1>t, TellTick
<1>8. Path(Told, Telling, Append(channel, TickMsg(clock)), Taken(done, now, fresh), tick)
  <2> HIDE DEF tick
  <2> QED BY <1>2, <1>7, <1>t, PathAppend
<1>9. CASE Advance
  <2>1. clock' = clock + 1 /\ UNCHANGED <<channel, pending, history, ticked>>
    BY <1>9 DEF Advance
  <2>2. ClockInv'
    BY <2>1, <1>t DEF ClockInv, Time
  <2> QED BY <1>2, <1>4, <2>1, <2>2 DEF Announced
<1>10. ASSUME NEW e \in HookEvents, IngestEvent(e)
       PROVE  ClockInv' /\ Announced(done, now, fresh)'
  <2>1. /\ history' = Append(history, Stamp(e)) /\ pending' = Append(pending, Stamp(e))
        /\ channel' = Append(channel, TickMsg(clock)) /\ ticked' = clock /\ clock' = clock
    BY <1>10 DEF IngestEvent
  <2>2. Stamp(e).at = clock /\ Stamp(e) \in TimedEvent
    <3>1. e.kind \in {"input", "focus"} /\ e.win \in OptWindow
      BY DEF HookEvents, InputEvent, FocusEvent, OptWindow
    <3>2. Len(history) + 1 \in Nat
      BY DEF TypeOK
    <3> QED BY <3>1, <3>2, <1>t DEF Stamp, TimedEvent
  <2> HIDE DEF Stamp
  <2>3. ClockInv'
    <3>1. ASSUME NEW i \in 1..Len(pending')
          PROVE  pending'[i].at <= clock
      <4>1. /\ Len(pending') = Len(pending) + 1 /\ Len(pending) \in Nat
            /\ pending'[Len(pending) + 1] = Stamp(e)
            /\ \A j \in 1..Len(pending) : pending'[j] = pending[j]
        BY <2>1, <1>t
      <4>2. CASE i \in 1..Len(pending)
        BY <4>1, <4>2, <1>t, <1>p DEF Time
      <4>3. CASE i = Len(pending) + 1
        BY <4>1, <4>3, <2>2, <1>t DEF Time
      <4> QED BY <4>1, <4>2, <4>3
    <3> QED BY <2>1, <3>1, <1>t DEF ClockInv, Time
  <2>4. tick.evs \o pending' = history'
    <3>1. sent.evs \o Append(pending, Stamp(e)) = Append(sent.evs \o pending, Stamp(e))
      <4> DEFINE x == Stamp(e)
                 a == sent.evs
      <4>1. x \in TimedEvent /\ a \in Seq(TimedEvent)
        BY <1>v, <2>2
      <4> HIDE DEF x, a
      <4>2. a \o Append(pending, x) = Append(a \o pending, x)
        BY <1>t, <4>1, ConcatAppend
      <4> QED BY <4>2 DEF x, a
    <3> QED BY <1>2, <2>1, <3>1
  <2>5. tick.now = ticked' /\ tick.fresh
    BY <2>1
  <2> HIDE DEF tick
  <2> QED BY <1>4, <1>7, <1>8, <2>1, <2>3, <2>4, <2>5 DEF Announced
<1>11. CASE IngestFlush
  <2>1. /\ channel' = channel \o <<BatchMsg(pending), TickMsg(clock)>>
        /\ pending' = <<>> /\ ticked' = clock /\ UNCHANGED <<clock, history>>
    BY <1>11 DEF IngestFlush
  <2> DEFINE batch == [evs |-> sent.evs \o pending, now |-> sent.now, fresh |-> FALSE]
             flushed == [evs |-> batch.evs, now |-> clock, fresh |-> TRUE]
  <2>2. batch \in Told /\ <<sent, BatchMsg(pending), batch>> \in Telling
    BY <1>2, <1>t, TellBatch
  <2>3. flushed \in Told /\ <<batch, TickMsg(clock), flushed>> \in Telling
    <3>1. batch.now <= clock
      BY <1>2, <1>t
    <3> HIDE DEF batch
    <3> QED BY <2>2, <3>1, <1>t, TellTick
  <2>4. flushed.evs = history /\ flushed.now = clock /\ flushed.fresh
    BY <1>2
  <2>5. BatchMsg(pending) \in Command /\ TickMsg(clock) \in Command
    BY <1>t, MessageType
  <2> HIDE DEF batch, flushed
  <2>6. Path(Told, Telling, Append(channel, BatchMsg(pending)), Taken(done, now, fresh), batch)
    BY <1>2, <1>t, <2>2, PathAppend
  <2>7. Append(channel, BatchMsg(pending)) \in Seq(Command)
    BY <2>5, <1>t
  <2>8. Path(Told, Telling, Append(Append(channel, BatchMsg(pending)), TickMsg(clock)),
             Taken(done, now, fresh), flushed)
    BY <2>3, <2>6, <2>7, PathAppend
  <2>9. channel' = Append(Append(channel, BatchMsg(pending)), TickMsg(clock))
    <3> HIDE DEF BatchMsg, TickMsg
    <3> QED BY <2>1, <2>5, <1>t
  <2>10. ClockInv'
    BY <2>1, <1>t DEF ClockInv, Time
  <2>11. flushed.evs \o pending' = history'
    <3>1. history \o <<>> = history
      BY DEF TypeOK
    <3> QED BY <2>1, <2>4, <3>1
  <2> QED BY <1>4, <2>1, <2>3, <2>4, <2>8, <2>9, <2>10, <2>11 DEF Announced
<1>12. CASE IngestIdleTick
  <2>1. /\ channel' = Append(channel, TickMsg(clock)) /\ ticked' = clock
        /\ UNCHANGED <<clock, history, pending>> /\ pending = <<>>
    BY <1>12 DEF IngestIdleTick
  <2>2. ClockInv'
    BY <2>1, <1>t DEF ClockInv, Time
  <2>3. tick.evs \o pending' = history' /\ tick.now = ticked' /\ tick.fresh
    BY <1>2, <2>1
  <2> HIDE DEF tick
  <2> QED BY <1>4, <1>7, <1>8, <2>1, <2>2, <2>3 DEF Announced
<1> QED BY <1>9, <1>10, <1>11, <1>12

\* The envelope stage.
LEMMA FollowTick ==
    ASSUME TypeOK, LockInv, FollowInv, TakeTick
    PROVE  FollowInv'
<1>1. PICK done \in Seq(TimedEvent), now \in Time \cup {-1}, fresh \in BOOLEAN :
          Follows(done, now, fresh)
  BY DEF FollowInv
<1>2. PICK sent \in Told :
          /\ Path(Told, Telling, channel, Taken(done, now, fresh), sent)
          /\ sent.evs \o pending = history
          /\ sent.now = ticked
          /\ ticked >= 0 => sent.fresh
  BY <1>1 DEF Follows, Announced
<1> DEFINE cmd == Head(channel)
<1>3. /\ channel # <<>> /\ channel' = Tail(channel) /\ ~work.busy /\ cmd.kind = "Tick"
      /\ engine' = OnTick(engine, cmd.at)
      /\ Transit(OnTick(engine, cmd.at), cmd.at, "IdleTimeout")
      /\ UNCHANGED <<work, focus, locked>> /\ UNCHANGED ingestVars
  BY DEF TakeTick, Receives
<1>4. /\ channel \in Seq(Command) /\ engine \in Engine /\ last \in Transition
      /\ work.raw = <<>> /\ (engine.current = "Locked" <=> engine.locked)
  BY <1>3 DEF TypeOK, LockInv
<1>5. PICK c \in Told : /\ <<Taken(done, now, fresh), cmd, c>> \in Telling
                        /\ Path(Told, Telling, Tail(channel), c, sent)
  BY <1>2, <1>3, <1>4, PathTail
<1>6. PICK at \in Time : at = cmd.at
  <2>1. cmd \in Command
    BY <1>3, <1>4, QueueType
  <2> QED BY <2>1 DEF Command
<1>7. /\ now <= at
      /\ c = [evs |-> done \o work.raw, now |-> at, fresh |-> TRUE]
  <2> HIDE DEF cmd
  <2> QED BY <1>3, <1>5, <1>6 DEF Telling, Taken
<1>8. c = Taken(done, at, TRUE)'
  BY <1>3, <1>7 DEF Taken
<1>9. Announced(done, at, TRUE)'
  <2>1. UNCHANGED <<pending, history, ticked>>
    BY <1>3 DEF ingestVars
  <2> QED BY <1>2, <1>3, <1>5, <1>8, <2>1 DEF Announced
<1> HIDE DEF cmd
<1> DEFINE res == OnTick(engine, at)
<1>r. engine' = res /\ Transit(res, at, "IdleTimeout")
  BY <1>3, <1>6
<1>10. /\ res.current = Compute(engine, at)
       /\ Compute(res, at) = Compute(engine, at)
       /\ res.last_signal_time = engine.last_signal_time
  BY <1>4, <1>6, TickTimes
<1> HIDE DEF res
<1>11. LastSignal(done)'
  BY <1>1, <1>3, <1>r, <1>10 DEF Follows, LastSignal, Signals, Upcoming, Harmless
<1>12. Timely(at, TRUE)'
  <2>1. engine'.current = Compute(engine', at) /\ ~work'.busy
    BY <1>3, <1>r, <1>10
  <2>2. at <= at
    BY <1>6 DEF Time
  <2> QED BY <1>6, <2>1, <2>2 DEF Timely
<1>13. InWork(done)'
  BY <1>1, <1>3 DEF Follows, InWork
<1>14. Follows(done, at, TRUE)'
  BY <1>1, <1>3, <1>9, <1>11, <1>12, <1>13 DEF Follows
<1>15. ClockInv'
  BY <1>3 DEF FollowInv, ClockInv, ingestVars
<1>16. TicksDemote'
  <2>1. CASE res.current = engine.current
    BY <1>r, <2>1 DEF Transit, FollowInv, TicksDemote
  <2>2. CASE res.current # engine.current
    <3>1. last' = [from |-> engine.current, to |-> res.current, at |-> at,
                   by |-> "IdleTimeout", n |-> last.n + 1]
      BY <1>r, <2>2 DEF Transit
    <3> SUFFICES ASSUME last'.n > 1
                 PROVE  Rank[res.current] < Rank[engine.current]
      BY <3>1 DEF TicksDemote
    <3>2. last.n > 0
      BY <1>4, <3>1 DEF Transition
    <3>3. PICK t \in Time : t <= now /\ engine.current = Compute(engine, t)
      BY <1>1, <3>2 DEF Follows, Timely
    <3>4. t <= at
      BY <1>6, <1>7, <3>3 DEF Time
    <3> QED BY <1>4, <1>6, <1>10, <2>2, <3>3, <3>4, TimeDemotes
  <2> QED BY <2>1, <2>2
<1> QED BY <1>14, <1>15, <1>16 DEF FollowInv

LEMMA FollowBatch ==
    ASSUME TypeOK, LockInv, FollowInv, TakeBatch
    PROVE  FollowInv'
<1>1. PICK done \in Seq(TimedEvent), now \in Time \cup {-1}, fresh \in BOOLEAN :
          Follows(done, now, fresh)
  BY DEF FollowInv
<1>2. PICK sent \in Told :
          /\ Path(Told, Telling, channel, Taken(done, now, fresh), sent)
          /\ sent.evs \o pending = history
          /\ sent.now = ticked
          /\ ticked >= 0 => sent.fresh
  BY <1>1 DEF Follows, Announced
<1> DEFINE cmd == Head(channel)
<1>3. /\ channel # <<>> /\ channel' = Tail(channel) /\ ~work.busy /\ cmd.kind = "Batch"
      /\ work' = [NoWork EXCEPT !.busy = TRUE, !.batch = cmd.events, !.raw = cmd.events]
      /\ UNCHANGED <<focus, locked, engine, last>> /\ UNCHANGED ingestVars
  BY DEF TakeBatch, Receives
<1>4. /\ channel \in Seq(Command)
      /\ work.raw = <<>> /\ work.adapted = <<>> /\ work.envs = <<>>
  BY <1>3 DEF TypeOK, LockInv
<1>5. PICK c \in Told : /\ <<Taken(done, now, fresh), cmd, c>> \in Telling
                        /\ Path(Told, Telling, Tail(channel), c, sent)
  BY <1>2, <1>3, <1>4, PathTail
<1>6. work'.raw = cmd.events /\ work'.adapted = <<>> /\ work'.envs = <<>>
  BY <1>3 DEF NoWork
<1>7. c = [evs |-> done \o cmd.events, now |-> now, fresh |-> FALSE]
  <2>1. done \o <<>> = done
    OBVIOUS
  <2> HIDE DEF cmd
  <2> QED BY <1>3, <1>4, <1>5, <2>1 DEF Telling, Taken
<1>8. c = Taken(done, now, FALSE)'
  BY <1>6, <1>7 DEF Taken
<1>9. Announced(done, now, FALSE)'
  <2>1. UNCHANGED <<pending, history, ticked>>
    BY <1>3 DEF ingestVars
  <2> QED BY <1>2, <1>3, <1>5, <1>8, <2>1 DEF Announced
<1> HIDE DEF cmd
<1>10. LastSignal(done)'
  <2>1. engine.last_signal_time = LastMove(done)
    BY <1>1, <1>4 DEF Follows, LastSignal, Signals, Upcoming
  <2> QED BY <1>3, <1>6, <2>1 DEF LastSignal, Signals, Harmless
<1>11. Timely(now, FALSE)' /\ InWork(done)'
  BY <1>1, <1>3, <1>6 DEF Follows, Timely, InWork
<1>12. Follows(done, now, FALSE)'
  BY <1>1, <1>3, <1>9, <1>10, <1>11 DEF Follows
<1>13. ClockInv' /\ TicksDemote'
  BY <1>3 DEF FollowInv, ClockInv, TicksDemote, ingestVars
<1> QED BY <1>12, <1>13 DEF FollowInv

LEMMA FollowFinish ==
    ASSUME TypeOK, FollowInv, FinishBatch
    PROVE  FollowInv'
<1>1. PICK done \in Seq(TimedEvent), now \in Time \cup {-1}, fresh \in BOOLEAN :
          Follows(done, now, fresh)
  BY DEF FollowInv
<1>2. /\ work.busy /\ work.raw = <<>> /\ work.adapted = <<>> /\ work.envs = <<>>
      /\ work' = NoWork
      /\ UNCHANGED <<channel, focus, locked, engine, last>> /\ UNCHANGED ingestVars
  BY DEF FinishBatch
<1>3. work'.raw = <<>> /\ work'.adapted = <<>> /\ work'.envs = <<>>
  BY <1>2 DEF NoWork
<1>4. ~fresh
  BY <1>1, <1>2 DEF Follows, Timely
<1>5. Announced(done, now, fresh)'
  <2>1. Taken(done, now, fresh)' = Taken(done, now, fresh)
    BY <1>2, <1>3 DEF Taken
  <2>2. UNCHANGED <<pending, history, ticked>>
    BY <1>2 DEF ingestVars
  <2> QED BY <1>1, <1>2, <2>1, <2>2 DEF Follows, Announced
<1>6. LastSignal(done)'
  <2>1. engine.last_signal_time = LastMove(done)
    BY <1>1, <1>2 DEF Follows, LastSignal, Signals, Upcoming
  <2> QED BY <1>2, <1>3, <2>1 DEF LastSignal, Signals, Harmless
<1>7. Timely(now, fresh)' /\ InWork(done)'
  BY <1>1, <1>2, <1>3, <1>4 DEF Follows, Timely, InWork
<1>8. Follows(done, now, fresh)'
  BY <1>1, <1>2, <1>5, <1>6, <1>7 DEF Follows
<1>9. ClockInv' /\ TicksDemote'
  BY <1>2 DEF FollowInv, ClockInv, TicksDemote, ingestVars
<1> QED BY <1>8, <1>9 DEF FollowInv

\* The adapter announces activity by its first envelope, and nothing else
\* becomes a signal of activity.
LEMMA AdaptMoves ==
    ASSUME NEW e, e.kind \in {"input", "focus"}, NEW a \in Adapt(focus, e),
           locked <=> focus \in LoginWindows
    PROVE  IF Moves(e, focus) THEN Upcoming(a) ELSE Harmless(a)
<1>1. CASE e.kind = "input"
  <2>1. a = <<Env("Input", NoWindow)>>
    BY <1>1 DEF Adapt
  <2>2. Len(a) = 1 /\ a # <<>> /\ Head(a).kind = "Input" /\ a[1].kind = "Input"
    BY <2>1 DEF Env
  <2> QED BY <1>1, <2>2 DEF Moves, Upcoming, Harmless
<1>2. CASE e.kind = "focus" /\ e.win # focus
  <2>1. a = FocusEnvelopes(e.win)
    BY <1>2 DEF Adapt
  <2>2. a # <<>> /\ Head(a).kind = "FocusSignal" /\ Head(a).win = e.win
    BY <2>1 DEF FocusEnvelopes, Env
  <2>3. CASE e.win \in LoginWindows
    <3>1. a = <<Env("FocusSignal", e.win), Env("FocusChanged", e.win)>>
      BY <2>1, <2>3 DEF FocusEnvelopes
    <3>2. /\ Len(a) = 2 /\ a[1].kind = "FocusSignal" /\ a[1].win = e.win
          /\ a[2].kind = "FocusChanged"
      BY <3>1 DEF Env
    <3> QED BY <1>2, <2>3, <3>2 DEF Moves, Harmless
  <2>4. CASE e.win \notin LoginWindows
    BY <1>2, <2>2, <2>4 DEF Moves, Upcoming
  <2> QED BY <2>3, <2>4
<1>3. CASE e.kind = "focus" /\ e.win = focus
  <2>1. a = <<>> \/ a = <<Env("TitleChanged", e.win)>>
    BY <1>3 DEF Adapt
  <2>2. \A i \in 1..Len(a) : a[i].kind = "TitleChanged"
    BY <2>1 DEF Env
  <2> QED BY <1>3, <2>2 DEF Moves, Harmless
<1> QED BY <1>1, <1>2, <1>3

\* The lock deriver lets activity through unless the screen is locked.
LEMMA LockPasses ==
    ASSUME NEW a \in Seq(Envelope), a # <<>>, locked \in BOOLEAN
    PROVE  LET o == LockOutput(locked, Head(a))
           IN /\ Upcoming(a) => Signals(o)
              /\ Signals(o) => ~LockFlag(locked, Head(a))
              /\ Harmless(a) =>
                    /\ ~Signals(o)
                    /\ \A i \in 1..Len(Tail(a)) :
                          /\ Tail(a)[i].kind \notin {"Input", "ActivityPulse"}
                          /\ Tail(a)[i].kind = "FocusSignal" => Tail(a)[i].win \in LoginWindows
<1> DEFINE env == Head(a)
           o == LockOutput(locked, env)
<1>0. /\ env = a[1] /\ Len(a) \in Nat /\ Len(a) >= 1 /\ Len(Tail(a)) = Len(a) - 1
      /\ \A i \in 1..Len(Tail(a)) : Tail(a)[i] = a[i + 1]
  BY HeadTailProperties
<1>1. Harmless(a) =>
        /\ env.kind = "Input" => locked
        /\ env.kind = "FocusSignal" => env.win \in LoginWindows
        /\ env.kind # "ActivityPulse"
        /\ \A i \in 1..Len(Tail(a)) :
              /\ Tail(a)[i].kind \notin {"Input", "ActivityPulse"}
              /\ Tail(a)[i].kind = "FocusSignal" => Tail(a)[i].win \in LoginWindows
  <2> SUFFICES ASSUME Harmless(a)
               PROVE  /\ env.kind = "Input" => locked
                      /\ env.kind = "FocusSignal" => env.win \in LoginWindows
                      /\ env.kind # "ActivityPulse"
                      /\ \A i \in 1..Len(Tail(a)) :
                            /\ Tail(a)[i].kind \notin {"Input", "ActivityPulse"}
                            /\ Tail(a)[i].kind = "FocusSignal" => Tail(a)[i].win \in LoginWindows
    OBVIOUS
  <2> HIDE DEF env
  <2>1. /\ env.kind = "Input" => locked
        /\ env.kind = "FocusSignal" => env.win \in LoginWindows
        /\ env.kind # "ActivityPulse"
    BY <1>0 DEF Harmless
  <2>2. ASSUME NEW i \in 1..Len(Tail(a))
        PROVE  /\ Tail(a)[i].kind \notin {"Input", "ActivityPulse"}
               /\ Tail(a)[i].kind = "FocusSignal" => Tail(a)[i].win \in LoginWindows
    <3>1. i + 1 \in 1..Len(a) /\ Len(a) # 1 /\ Tail(a)[i] = a[i + 1]
      BY <1>0
    <3> QED BY <3>1 DEF Harmless
  <2> QED BY <2>1, <2>2
<1> SUFFICES /\ Upcoming(a) => Signals(o)
             /\ Signals(o) => ~LockFlag(locked, env)
             /\ (/\ env.kind = "Input" => locked
                 /\ env.kind = "FocusSignal" => env.win \in LoginWindows
                 /\ env.kind # "ActivityPulse") => ~Signals(o)
  BY <1>1
<1>u. Upcoming(a) => \/ env.kind = "Input" /\ ~locked
                     \/ env.kind = "FocusSignal" /\ env.win \notin LoginWindows
  BY DEF Upcoming
<1> HIDE DEF env
<1>2. ASSUME o = <<>>
      PROVE  ~Signals(o)
  BY <1>2 DEF Signals
<1>3. ASSUME NEW x, o = <<x>>
      PROVE  Signals(o) <=> x.kind \in ActivityKind
  BY <1>3 DEF Signals
<1>4. CASE env.kind = "FocusSignal" /\ env.win \in LoginWindows
  <2>1. o = <<>> \/ o = <<Env("LockStart", NoWindow)>>
    BY <1>4 DEF LockOutput
  <2>2. ~Signals(o)
    BY <2>1, <1>2, <1>3 DEF Env, ActivityKind
  <2> QED BY <1>4, <1>u, <2>2
<1>5. CASE env.kind = "FocusSignal" /\ env.win \notin LoginWindows
  <2>1. o = <<Env("LockEnd", NoWindow), env>> \/ o = <<env>>
    BY <1>5 DEF LockOutput
  <2>2. Signals(o)
    BY <1>5, <2>1 DEF Signals, ActivityKind
  <2>3. ~LockFlag(locked, env)
    BY <1>5 DEF LockFlag
  <2> QED BY <1>5, <2>2, <2>3
<1>6. CASE env.kind \in {"LockStart", "LockEnd", "FocusChanged"}
  <2>1. o = <<env>>
    BY <1>6 DEF LockOutput
  <2>2. ~Signals(o)
    BY <1>6, <2>1, <1>3 DEF ActivityKind
  <2> QED BY <1>6, <1>u, <2>2
<1>7. CASE env.kind \notin {"LockStart", "LockEnd", "FocusChanged", "FocusSignal"}
  <2>1. o = IF locked THEN <<>> ELSE <<env>>
    BY <1>7 DEF LockOutput
  <2>2. LockFlag(locked, env) = locked
    BY <1>7 DEF LockFlag
  <2>3. CASE locked
    BY <1>2, <1>7, <1>u, <2>1, <2>3
  <2>4. CASE ~locked
    <3>1. Signals(o) <=> env.kind \in ActivityKind
      BY <1>3, <2>1, <2>4
    <3> QED BY <1>7, <1>u, <2>2, <2>4, <3>1 DEF ActivityKind
  <2> QED BY <2>3, <2>4
<1> QED BY <1>4, <1>5, <1>6, <1>7

LEMMA FollowAdapt ==
    ASSUME TypeOK, LockInv, FollowInv, AdaptEvent
    PROVE  FollowInv'
<1>1. PICK done \in Seq(TimedEvent), now \in Time \cup {-1}, fresh \in BOOLEAN :
          Follows(done, now, fresh)
  BY DEF FollowInv
<1>0. /\ work \in Work /\ work.raw \in Seq(TimedEvent) /\ focus \in OptWindow
  BY DEF TypeOK, Work
<1>2. /\ work.raw # <<>> /\ work.adapted = <<>> /\ work.envs = <<>>
      /\ UNCHANGED <<channel, locked, engine, last>> /\ UNCHANGED ingestVars
  BY DEF AdaptEvent
<1>3. PICK e \in TimedEvent : e = Head(work.raw)
  BY <1>0, <1>2, QueueType
<1>4. PICK a \in Adapt(focus, e) :
          work' = [work EXCEPT !.raw = Tail(@), !.event = e, !.adapted = a]
  BY <1>3 DEF AdaptEvent
<1>5. /\ work'.raw = Tail(work.raw) /\ work'.event = e /\ work'.adapted = a
      /\ work'.envs = <<>> /\ work'.busy = work.busy
  BY <1>0, <1>2, <1>4 DEF Work
<1>6. focus' = AdapterFocus(focus, e)
  BY <1>3 DEF AdaptEvent
<1>7. locked <=> focus \in LoginWindows
  BY <1>2, CaughtUp
<1>8. e.kind \in {"input", "focus"} /\ e.at \in Time
  BY DEF TimedEvent
<1>9. PICK more \in Seq(TimedEvent) : more = Append(done, e)
  <2>1. Append(done, e) \in Seq(TimedEvent)
    BY QueueType
  <2> QED BY <2>1
<1>10. /\ Front(more) = IF e.kind = "focus" THEN e.win ELSE Front(done)
       /\ LastMove(more) = IF Moves(e, Front(done)) THEN e.at ELSE LastMove(done)
  BY <1>9, FrontAppend, LastMoveAppend
<1>11. focus = Front(done) /\ focus' = Front(more)
  BY <1>1, <1>6, <1>10 DEF Follows, AdapterFocus
<1>12. engine.last_signal_time = LastMove(done)
  BY <1>1, <1>2 DEF Follows, LastSignal, Signals, Upcoming
<1>13. IF Moves(e, focus) THEN Upcoming(a) ELSE Harmless(a)
  BY <1>7, <1>8, AdaptMoves
<1>14. LastSignal(more)'
  <2>1. ~Signals(<<>>)
    BY DEF Signals
  <2>2. Upcoming(a) <=> Upcoming(a)'
    BY <1>2 DEF Upcoming
  <2>3. Harmless(a) <=> Harmless(a)'
    BY <1>2 DEF Harmless
  <2>4. CASE Moves(e, focus)
    <3>1. LastMove(more) = e.at /\ Upcoming(a)'
      BY <1>10, <1>11, <1>13, <2>2, <2>4
    <3> QED BY <1>5, <2>1, <3>1 DEF LastSignal, Upcoming
  <2>5. CASE ~Moves(e, focus)
    <3>1. LastMove(more) = LastMove(done) /\ Harmless(a)'
      BY <1>10, <1>11, <1>13, <2>3, <2>5
    <3> QED BY <1>2, <1>5, <1>12, <2>1, <3>1 DEF LastSignal, Harmless
  <2> QED BY <2>4, <2>5
<1>15. Announced(more, now, fresh)'
  <2>1. more \o Tail(work.raw) = done \o work.raw
    BY <1>0, <1>2, <1>3, <1>9, ConcatShift
  <2>2. Taken(more, now, fresh)' = Taken(done, now, fresh)
    BY <1>5, <2>1 DEF Taken
  <2>3. UNCHANGED <<pending, history, ticked>>
    BY <1>2 DEF ingestVars
  <2> QED BY <1>1, <1>2, <2>2, <2>3 DEF Follows, Announced
<1>16. Timely(now, fresh)'
  BY <1>1, <1>2, <1>5 DEF Follows, Timely
<1>17. InWork(more)'
  <2>1. Len(more) = Len(done) + 1 /\ more[Len(done) + 1] = e /\ more # <<>>
    BY <1>9
  <2> QED BY <1>5, <2>1 DEF InWork
<1>18. Follows(more, now, fresh)'
  BY <1>11, <1>14, <1>15, <1>16, <1>17 DEF Follows
<1>19. ClockInv' /\ TicksDemote'
  BY <1>2 DEF FollowInv, ClockInv, TicksDemote, ingestVars
<1> QED BY <1>18, <1>19 DEF FollowInv

LEMMA FollowLock ==
    ASSUME TypeOK, FollowInv, DeriveLock
    PROVE  FollowInv'
<1>1. PICK done \in Seq(TimedEvent), now \in Time \cup {-1}, fresh \in BOOLEAN :
          Follows(done, now, fresh)
  BY DEF FollowInv
<1>0. work \in Work /\ work.adapted \in Seq(Envelope) /\ locked \in BOOLEAN
  BY DEF TypeOK, Work
<1> DEFINE o == LockOutput(locked, Head(work.adapted))
<1>2. /\ work.adapted # <<>> /\ work.envs = <<>>
      /\ work' = [work EXCEPT !.adapted = Tail(@), !.envs = o]
      /\ locked' = LockFlag(locked, Head(work.adapted))
      /\ UNCHANGED <<channel, focus, engine, last>> /\ UNCHANGED ingestVars
  BY DEF DeriveLock
<1>3. /\ Upcoming(work.adapted) => Signals(o)
      /\ Signals(o) => ~locked'
      /\ Harmless(work.adapted) =>
            /\ ~Signals(o)
            /\ \A i \in 1..Len(Tail(work.adapted)) :
                  /\ Tail(work.adapted)[i].kind \notin {"Input", "ActivityPulse"}
                  /\ Tail(work.adapted)[i].kind = "FocusSignal"
                        => Tail(work.adapted)[i].win \in LoginWindows
  BY <1>0, <1>2, LockPasses
<1> HIDE DEF o
<1>4. /\ work'.adapted = Tail(work.adapted) /\ work'.envs = o /\ work'.busy = work.busy
      /\ work'.raw = work.raw /\ work'.event = work.event
  BY <1>0, <1>2 DEF Work
<1>5. LastSignal(done)'
  <2>1. Signals(work'.envs) <=> Signals(o)
    BY <1>4
  <2>2. ~Signals(work.envs)
    BY <1>2 DEF Signals
  <2>3. /\ engine.last_signal_time = LastMove(done) \/ Upcoming(work.adapted)
        /\ LastMove(done) = work.event.at \/ Harmless(work.adapted)
    BY <1>1, <2>2 DEF Follows, LastSignal
  <2>4. engine'.last_signal_time = LastMove(done) \/ Signals(work'.envs)
    BY <1>2, <1>3, <2>1, <2>3
  <2>5. Harmless(work.adapted) => ~Signals(work'.envs) /\ Harmless(work.adapted)'
    BY <1>3, <1>4, <2>1 DEF Harmless
  <2> QED BY <1>3, <1>4, <2>1, <2>3, <2>4, <2>5 DEF LastSignal, Signals
<1>6. Announced(done, now, fresh)'
  <2>1. Taken(done, now, fresh)' = Taken(done, now, fresh)
    BY <1>4 DEF Taken
  <2>2. UNCHANGED <<pending, history, ticked>>
    BY <1>2 DEF ingestVars
  <2> QED BY <1>1, <1>2, <2>1, <2>2 DEF Follows, Announced
<1>7. Timely(now, fresh)' /\ InWork(done)'
  BY <1>1, <1>2, <1>4 DEF Follows, Timely, InWork
<1>8. Follows(done, now, fresh)'
  BY <1>1, <1>2, <1>5, <1>6, <1>7 DEF Follows
<1>9. ClockInv' /\ TicksDemote'
  BY <1>2 DEF FollowInv, ClockInv, TicksDemote, ingestVars
<1> QED BY <1>8, <1>9 DEF FollowInv

LEMMA FollowHandle ==
    ASSUME TypeOK, LockInv, FollowInv, HandleEnvelope
    PROVE  FollowInv'
<1>1. PICK done \in Seq(TimedEvent), now \in Time \cup {-1}, fresh \in BOOLEAN :
          Follows(done, now, fresh)
  BY DEF FollowInv
<1>0. /\ work \in Work /\ work.envs \in Seq(Envelope) /\ work.event \in TimedEvent
      /\ engine \in Engine /\ last \in Transition /\ work.raw \in Seq(TimedEvent)
  BY DEF TypeOK, Work
<1> DEFINE env == Head(work.envs)
           rest == Tail(work.envs)
           at == work.event.at
           res == OnSignal(engine, env.kind, at)
<1>2. /\ work.envs # <<>>
      /\ UNCHANGED <<channel, focus, locked>> /\ UNCHANGED ingestVars
  BY DEF HandleEnvelope
<1>3. /\ work'.adapted = work.adapted /\ work'.envs = rest /\ work'.busy = work.busy
      /\ work'.raw = work.raw /\ work'.event = work.event
  BY <1>0 DEF HandleEnvelope, Work
<1>4. \/ IsSignal(env) /\ engine' = res /\ Transit(res, at, env.kind)
      \/ ~IsSignal(env) /\ UNCHANGED <<engine, last>>
  BY DEF HandleEnvelope
<1>5. Signals(work.envs) <=> env.kind \in ActivityKind \/ Signals(rest)
  <2>1. /\ env = work.envs[1] /\ Len(work.envs) \in Nat /\ Len(work.envs) >= 1
        /\ Len(rest) = Len(work.envs) - 1 /\ \A i \in 1..Len(rest) : rest[i] = work.envs[i + 1]
    BY <1>0, <1>2, HeadTailProperties
  <2> HIDE DEF env, rest
  <2>2. env.kind \in ActivityKind => Signals(work.envs)
    BY <2>1 DEF Signals
  <2>3. Signals(rest) => Signals(work.envs)
    <3> SUFFICES ASSUME NEW i \in 1..Len(rest), rest[i].kind \in ActivityKind
                 PROVE  Signals(work.envs)
      BY DEF Signals
    <3>1. i + 1 \in 1..Len(work.envs) /\ work.envs[i + 1] = rest[i]
      BY <2>1
    <3> QED BY <3>1 DEF Signals
  <2>4. ASSUME NEW i \in 1..Len(work.envs), work.envs[i].kind \in ActivityKind
        PROVE  env.kind \in ActivityKind \/ Signals(rest)
    <3>1. CASE i = 1
      BY <2>1, <2>4, <3>1
    <3>2. CASE i # 1
      <4>1. i - 1 \in 1..Len(rest) /\ rest[i - 1] = work.envs[i]
        <5>1. i - 1 \in 1..Len(rest) /\ (i - 1) + 1 = i
          BY <2>1, <3>2
        <5> QED BY <2>1, <5>1
      <4> QED BY <2>4, <4>1 DEF Signals
    <3> QED BY <3>1, <3>2
  <2> QED BY <2>2, <2>3, <2>4 DEF Signals
<1>6. ~Signals(work.envs) \/ (LastMove(done) = at /\ ~locked)
  BY <1>1 DEF Follows, LastSignal
<1>7. env.kind \in ActivityKind => IsSignal(env) /\ ~engine.locked
  <2> SUFFICES ASSUME env.kind \in ActivityKind
               PROVE  IsSignal(env) /\ ~engine.locked
    OBVIOUS
  <2>1. env.kind \notin {"LockStart", "LockEnd"} /\ IsSignal(env)
    BY DEF ActivityKind, IsSignal, SignalKind
  <2>2. ~locked
    BY <1>5, <1>6
  <2> QED BY <2>1, <2>2 DEF LockInv, EngineLags
<1>8. at \in Time
  BY <1>0 DEF TimedEvent
<1>9. /\ res = engine \/ res.current = Compute(res, at)
      /\ env.kind \in ActivityKind /\ ~engine.locked => res.last_signal_time = at
      /\ env.kind \notin ActivityKind /\ env.kind \in SignalKind =>
            res.last_signal_time = engine.last_signal_time
  BY <1>0, <1>8, SignalTimes
<1> HIDE DEF env, rest, res
<1>10. LastSignal(done)'
  <2>1. /\ env.kind \in ActivityKind => engine'.last_signal_time = LastMove(done)
        /\ env.kind \notin ActivityKind => engine'.last_signal_time = engine.last_signal_time
    BY <1>4, <1>5, <1>6, <1>7, <1>9 DEF IsSignal
  <2>2. /\ engine'.last_signal_time = LastMove(done)
           \/ Signals(rest) \/ Upcoming(work.adapted)
        /\ LastMove(done) = at \/ (~Signals(rest) /\ Harmless(work.adapted))
        /\ Signals(rest) => ~locked
    BY <1>1, <1>5, <2>1 DEF Follows, LastSignal
  <2> QED BY <1>2, <1>3, <2>2 DEF LastSignal, Signals, Upcoming, Harmless
<1>11. at <= now
  <2>1. done # <<>> /\ work.event = done[Len(done)]
    BY <1>1, <1>2 DEF Follows, InWork
  <2>2. Taken(done, now, fresh) \in Told
    BY <1>1, TakenTold DEF Follows
  <2>3. \A i \in 1..Len(done \o work.raw) : (done \o work.raw)[i].at <= now
    BY <2>2 DEF Told, Taken
  <2>4. Len(done) \in 1..Len(done \o work.raw) /\ (done \o work.raw)[Len(done)] = done[Len(done)]
    BY <1>0, <2>1
  <2> QED BY <2>1, <2>3, <2>4
<1>12. ~fresh
  <2>1. work.busy
    BY <1>2 DEF LockInv
  <2> QED BY <1>1, <2>1 DEF Follows, Timely
<1>13. Timely(now, fresh)'
  <2>1. CASE UNCHANGED <<engine, last>>
    BY <1>1, <1>12, <2>1 DEF Follows, Timely
  <2>2. CASE engine' = res /\ Transit(res, at, env.kind)
    <3>1. CASE res = engine
      <4>1. UNCHANGED <<engine, last>>
        BY <2>2, <3>1 DEF Transit
      <4> QED BY <2>1, <4>1
    <3>2. CASE res.current = Compute(res, at)
      <4>1. \E t \in Time : t <= now /\ engine'.current = Compute(engine', t)
        BY <1>8, <1>11, <2>2, <3>2
      <4> QED BY <1>12, <4>1 DEF Timely
    <3> QED BY <1>9, <3>1, <3>2
  <2> QED BY <1>4, <2>1, <2>2
<1>14. InWork(done)'
  BY <1>1, <1>2, <1>3 DEF Follows, InWork
<1>15. Announced(done, now, fresh)'
  <2>1. Taken(done, now, fresh)' = Taken(done, now, fresh)
    BY <1>3 DEF Taken
  <2>2. UNCHANGED <<pending, history, ticked>>
    BY <1>2 DEF ingestVars
  <2> QED BY <1>1, <1>2, <2>1, <2>2 DEF Follows, Announced
<1>16. Follows(done, now, fresh)'
  BY <1>1, <1>2, <1>10, <1>13, <1>14, <1>15 DEF Follows
<1>17. ClockInv'
  BY <1>2 DEF FollowInv, ClockInv, ingestVars
<1>18. TicksDemote'
  <2>1. CASE last' = last
    BY <2>1 DEF FollowInv, TicksDemote
  <2>2. CASE IsSignal(env) /\ last'.by = env.kind
    BY <2>2 DEF TicksDemote, IsSignal, SignalKind
  <2> QED BY <1>4, <2>1, <2>2 DEF Transit
<1> QED BY <1>16, <1>17, <1>18 DEF FollowInv

LEMMA FollowStep == TypeOK /\ LockInv /\ FollowInv /\ TypeOK' /\ [Next]_vars => FollowInv'
<1> SUFFICES ASSUME TypeOK, LockInv, FollowInv, TypeOK', [Next]_vars
             PROVE  FollowInv'
  OBVIOUS
<1>1. CASE UNCHANGED vars
  <2>1. PICK done \in Seq(TimedEvent), now \in Time \cup {-1}, fresh \in BOOLEAN :
            Follows(done, now, fresh)
    BY DEF FollowInv
  <2>2. Announced(done, now, fresh)'
    <3>1. Taken(done, now, fresh)' = Taken(done, now, fresh)
      BY <1>1 DEF Taken, vars
    <3> QED BY <1>1, <2>1, <3>1 DEF vars, Follows, Announced
  <2>3. Follows(done, now, fresh)'
    BY <1>1, <2>1, <2>2, FollowFrame DEF vars
  <2> QED BY <1>1, <2>3 DEF vars, FollowInv, ClockInv, TicksDemote
<1>2. CASE Next
  BY <1>2, FollowIngest, FollowTick, FollowBatch, FollowAdapt, FollowLock, FollowHandle,
     FollowFinish DEF Next, EnvelopeStep
<1> QED BY <1>1, <1>2

\* The inductive invariant: what is under way, how it leads to the history, and
\* what the engine has made of the events it was told.
THEOREM FollowInvariant == Spec => []FollowInv
<1>1. Spec => [](TypeOK /\ LockInv)
  BY InitInv, InvStep, PTL DEF Spec
<1> QED BY <1>1, FollowInit, FollowStep, PTL DEF Spec

\* After the first transition a tick only makes the state idler, for all
\* thresholds and however late the batches are: OnTick of DefaultStateEngine.
THEOREM TicksOnlyDemote == Spec => []TicksDemote
<1>1. FollowInv => TicksDemote
  BY DEF FollowInv
<1> QED BY <1>1, FollowInvariant, PTL

\* When nothing is under way, the engine's state is the one that the history of
\* raw events calls for at the last tick, for every history, every split into
\* batches and all thresholds.
THEOREM StateIsTheUsers == Spec => []StateFollowsUser
<1>1. TypeOK /\ LockInv /\ FollowInv => StateFollowsUser
  <2> SUFFICES ASSUME TypeOK, LockInv, FollowInv, Quiet
               PROVE  engine.current = StateOfUser(ticked)
    BY DEF StateFollowsUser
  <2>1. PICK done \in Seq(TimedEvent), now \in Time \cup {-1}, fresh \in BOOLEAN :
            Follows(done, now, fresh)
    BY DEF FollowInv
  <2>2. PICK sent \in Told :
            /\ Path(Told, Telling, channel, Taken(done, now, fresh), sent)
            /\ sent.evs \o pending = history
            /\ sent.now = ticked
            /\ ticked >= 0 => sent.fresh
    BY <2>1 DEF Follows, Announced
  <2>3. /\ pending = <<>> /\ channel = <<>> /\ ticked >= 0
        /\ work.raw = <<>> /\ work.adapted = <<>> /\ work.envs = <<>>
    BY DEF Quiet, LockInv
  <2>4. Taken(done, now, fresh) = sent
    BY <2>2, <2>3, PathEmpty
  <2>5. sent.evs = history
    BY <2>2, <2>3 DEF Told
  <2>6. done = history /\ now = ticked /\ fresh
    BY <2>2, <2>3, <2>4, <2>5 DEF Taken
  <2>7. engine.current = Compute(engine, ticked)
    BY <2>1, <2>6 DEF Follows, Timely
  <2>8. engine.last_signal_time = LastActivity
    BY <2>1, <2>3, <2>6, Reference DEF Follows, LastSignal, Signals, Upcoming
  <2>9. engine.locked <=> OnLockScreen(Len(history) + 1)
    BY <2>1, <2>3, <2>6, Reference, CaughtUp DEF Follows
  <2> QED BY <2>7, <2>8, <2>9 DEF Compute, StateOfUser
<1>2. Spec => [](TypeOK /\ LockInv)
  BY InitInv, InvStep, PTL DEF Spec
<1> QED BY <1>1, <1>2, FollowInvariant, PTL

=============================================================================
