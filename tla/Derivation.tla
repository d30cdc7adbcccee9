----------------------------- MODULE Derivation -----------------------------
(***************************************************************************)
(* What the daemon makes of the user's input over time: the ingest stage   *)
(* (src/daemon/pipeline/ingest.rs) stamps raw events and emits ticks, the  *)
(* envelope stage (envelope.rs) adapts them, derives the lock screen and   *)
(* drives DefaultStateEngine (crates/core/src/events/model.rs), and the    *)
(* compression stage decides which raw events may be persisted             *)
(* (forward_raw_events in compression.rs).                                 *)
(*                                                                         *)
(* Pipeline has the six threads and their shutdown with an abstract clock; *)
(* this module has the clock, and of the threads only the two that matter  *)
(* for the state: a tick is sent at once when an event arrives while the   *)
(* event itself waits for the next flush, so ticks overtake events.        *)
(*                                                                         *)
(* Time is in seconds, the unit in which the engine compares timestamps.   *)
(***************************************************************************)
EXTENDS Activity, Integers, Functions

CONSTANTS
    ActiveGrace,     \* active_grace_secs
    IdleThreshold,   \* idle_threshold_secs
    MaxEvents,       \* bound: events the hooks produce
    LastEvent,       \* bound: no event after this time
    MaxClock         \* bound: the clock stops here

ASSUME DerivationAssumption ==
    /\ ActiveGrace \in Nat
    /\ IdleThreshold \in Nat
    /\ MaxEvents \in Nat
    /\ LastEvent \in Nat
    /\ MaxClock \in Nat

VARIABLES
    clock,    \* the wall clock
    history,  \* the raw events in the order in which ingest stamped them
    pending,  \* ingest: those not yet flushed
    ticked,   \* ingest: the time of the last tick, -1 before the first
    channel,  \* ingest -> envelope
    work,     \* envelope: the batch it is in the middle of
    focus,    \* EventAdapter.last_focus
    locked,   \* LockDeriver.locked
    engine,   \* DefaultStateEngine
    last,     \* the last transition, and how many there were
    stored    \* compression: the raw events it forwarded to storage

vars == <<clock, history, pending, ticked, channel, work, focus, locked,
          engine, last, stored>>

ingestVars == <<clock, history, pending, ticked>>

-----------------------------------------------------------------------------
(* Values *)

Time == Nat

\* a raw event with its id, here its place in the history
TimedEvent == [id : Nat, kind : {"input", "focus"}, win : OptWindow, at : Time]

NoEvent == [id |-> 0, kind |-> "input", win |-> NoWindow, at |-> 0]

TickMsg(t)    == [kind |-> "Tick", at |-> t, events |-> <<>>]
BatchMsg(evs) == [kind |-> "Batch", at |-> 0, events |-> evs]

Command == [kind : {"Tick", "Batch"}, at : Time, events : Seq(TimedEvent)]

\* event: the raw event whose envelopes are being handled; signals: the signal
\* envelopes of this batch so far, with the id of their event
Work == [busy : BOOLEAN, batch : Seq(TimedEvent), raw : Seq(TimedEvent),
         event : TimedEvent, adapted : Seq(Envelope), envs : Seq(Envelope),
         signals : Seq([kind : SignalKind, id : Nat])]

NoWork == [busy |-> FALSE, batch |-> <<>>, raw |-> <<>>, event |-> NoEvent,
           adapted |-> <<>>, envs |-> <<>>, signals |-> <<>>]

Transition == [from : ActivityState, to : ActivityState, at : Time,
               by : SignalKind \cup {"Start", "IdleTimeout"}, n : Nat]

Engine == [current : ActivityState, last_signal_time : Time, locked : BOOLEAN]

-----------------------------------------------------------------------------
(* DefaultStateEngine *)

Compute(eng, now) ==
    LET dt == now - eng.last_signal_time
    IN CASE eng.locked                            -> "Locked"
         [] ~eng.locked /\ dt <= ActiveGrace      -> "Active"
         [] ~eng.locked /\ dt > ActiveGrace /\ dt <= IdleThreshold -> "Passive"
         [] OTHER                                 -> "Inactive"

Computed(eng, now) == [eng EXCEPT !.current = Compute(eng, now)]

\* mutations: the time is only taken when the state changes; a signal leaves
\* the state to the next tick
OnSignalKeepsTime(eng, kind, now) ==
    CASE kind = "LockStart" /\ ~eng.locked ->
            [eng EXCEPT !.locked = TRUE, !.current = "Locked"]
      [] kind = "LockEnd" /\ eng.locked ->
            Computed([eng EXCEPT !.locked = FALSE], now)
      [] kind \notin {"LockStart", "LockEnd"} /\ ~eng.locked ->
            IF eng.current = "Active" THEN eng
            ELSE Computed([eng EXCEPT !.last_signal_time = now], now)
      [] OTHER -> eng

OnSignalLazy(eng, kind, now) ==
    CASE kind = "LockStart" /\ ~eng.locked ->
            [eng EXCEPT !.locked = TRUE, !.current = "Locked"]
      [] kind = "LockEnd" /\ eng.locked ->
            Computed([eng EXCEPT !.locked = FALSE], now)
      [] kind \notin {"LockStart", "LockEnd"} /\ ~eng.locked ->
            [eng EXCEPT !.last_signal_time = now]
      [] OTHER -> eng

OnSignal(eng, kind, now) ==
    CASE kind = "LockStart" /\ ~eng.locked ->
            [eng EXCEPT !.locked = TRUE, !.current = "Locked"]
      [] kind = "LockEnd" /\ eng.locked ->
            Computed([eng EXCEPT !.locked = FALSE], now)
      [] kind \notin {"LockStart", "LockEnd"} /\ ~eng.locked ->
            Computed([eng EXCEPT !.last_signal_time = now], now)
      [] OTHER -> eng

\* mutation: a tick counts as activity
OnTickRefreshes(eng, now) ==
    IF eng.locked THEN eng
    ELSE Computed([eng EXCEPT !.last_signal_time = now], now)

OnTick(eng, now) == IF eng.locked THEN eng ELSE Computed(eng, now)

\* the transition that a StateChanged hint reports, with its reason
Transit(eng, now, by) ==
    last' = IF eng.current = engine.current THEN last
            ELSE [from |-> engine.current, to |-> eng.current, at |-> now,
                  by |-> by, n |-> last.n + 1]

-----------------------------------------------------------------------------
(* The clock and the ingest stage *)

Advance ==
    /\ clock < MaxClock
    /\ clock' = clock + 1
    /\ UNCHANGED <<history, pending, ticked, channel, work, focus, locked,
                   engine, last, stored>>

DeriveUnchanged == UNCHANGED <<work, focus, locked, engine, last, stored>>

HookEvents == {InputEvent} \cup {FocusEvent(w) : w \in Windows}

\* mutation: the id of the event before
StampStale(e) == [id |-> Len(history), kind |-> e.kind, win |-> e.win, at |-> clock]

\* next_event_id and convert_kronid_to_raw
Stamp(e) == [id |-> Len(history) + 1, kind |-> e.kind, win |-> e.win, at |-> clock]

IngestEvent(e) ==
    /\ Len(history) < MaxEvents
    /\ clock <= LastEvent
    /\ history' = Append(history, Stamp(e))
    /\ pending' = Append(pending, Stamp(e))
    /\ channel' = Append(channel, TickMsg(clock))
    /\ ticked' = clock
    /\ UNCHANGED clock
    /\ DeriveUnchanged

\* the 50 ms ticker with events pending
IngestFlush ==
    /\ pending # <<>>
    /\ channel' = channel \o <<BatchMsg(pending), TickMsg(clock)>>
    /\ pending' = <<>>
    /\ ticked' = clock
    /\ UNCHANGED <<clock, history>>
    /\ DeriveUnchanged

\* the ticker with nothing pending, 500 ms after the last tick: a second tick
\* with the same time would change nothing
IngestIdleTick ==
    /\ pending = <<>>
    /\ ticked < clock
    /\ channel' = Append(channel, TickMsg(clock))
    /\ ticked' = clock
    /\ UNCHANGED <<clock, history, pending>>
    /\ DeriveUnchanged

-----------------------------------------------------------------------------
(* The envelope stage *)

Receives(kind) ==
    /\ ~work.busy
    /\ channel # <<>>
    /\ Head(channel).kind = kind

TakeTick ==
    /\ Receives("Tick")
    /\ LET now == Head(channel).at
       IN engine' = OnTick(engine, now) /\ Transit(OnTick(engine, now), now, "IdleTimeout")
    /\ channel' = Tail(channel)
    /\ UNCHANGED <<work, focus, locked, stored>>
    /\ UNCHANGED ingestVars

TakeBatch ==
    /\ Receives("Batch")
    /\ LET events == Head(channel).events
       IN work' = [NoWork EXCEPT !.busy = TRUE, !.batch = events, !.raw = events]
    /\ channel' = Tail(channel)
    /\ UNCHANGED <<focus, locked, engine, last, stored>>
    /\ UNCHANGED ingestVars

\* The envelopes of an event carry its id and its timestamp.  The adapter and
\* the lock deriver run over the whole batch before the first envelope is
\* handled, but neither looks at what the later layers keep, so the model takes
\* one raw event after the other through all three.
AdaptEvent ==
    /\ work.raw # <<>> /\ work.adapted = <<>> /\ work.envs = <<>>
    /\ LET e == Head(work.raw)
       IN /\ \E adapted \in Adapt(focus, e) :
                work' = [work EXCEPT !.raw = Tail(@), !.event = e,
                                     !.adapted = adapted]
          /\ focus' = AdapterFocus(focus, e)
    /\ UNCHANGED <<channel, locked, engine, last, stored>>
    /\ UNCHANGED ingestVars

DeriveLock ==
    /\ work.adapted # <<>> /\ work.envs = <<>>
    /\ work' = [work EXCEPT !.adapted = Tail(@),
                            !.envs = LockOutput(locked, Head(work.adapted))]
    /\ locked' = LockFlag(locked, Head(work.adapted))
    /\ UNCHANGED <<channel, focus, engine, last, stored>>
    /\ UNCHANGED ingestVars

HandleEnvelope ==
    /\ work.envs # <<>>
    /\ LET env == Head(work.envs)
           now == work.event.at
           eng == OnSignal(engine, env.kind, now)
       IN \/ /\ IsSignal(env)
             /\ engine' = eng
             /\ Transit(eng, now, env.kind)
             /\ work' = [work EXCEPT !.envs = Tail(@),
                            !.signals = Append(@, [kind |-> env.kind, id |-> work.event.id])]
          \/ /\ ~IsSignal(env)
             /\ work' = [work EXCEPT !.envs = Tail(@)]
             /\ UNCHANGED <<engine, last>>
    /\ UNCHANGED <<channel, focus, locked, stored>>
    /\ UNCHANGED ingestVars

-----------------------------------------------------------------------------
(* forward_raw_events: the events of a batch that are persisted when       *)
(* persist_raw_events is set                                               *)

\* input signals between a LockStart of the same batch and the next LockEnd
Suppressed(signals) ==
    {signals[i].id : i \in {n \in DOMAIN signals :
        /\ signals[n].kind = "Input"
        /\ \E k \in 1..(n - 1) :
              /\ signals[k].kind = "LockStart"
              /\ \A l \in k..(n - 1) : signals[l].kind # "LockEnd"}}

Persistable(batch, signals) ==
    {e \in Range(batch) : e.kind = "input" => e.id \notin Suppressed(signals)}

FinishBatch ==
    /\ work.busy
    /\ work.raw = <<>> /\ work.adapted = <<>> /\ work.envs = <<>>
    /\ stored' = stored \cup Persistable(work.batch, work.signals)
    /\ work' = NoWork
    /\ UNCHANGED <<channel, focus, locked, engine, last>>
    /\ UNCHANGED ingestVars

-----------------------------------------------------------------------------
Init ==
    /\ clock = 0
    /\ history = <<>>
    /\ pending = <<>>
    /\ ticked = -1
    /\ channel = <<>>
    /\ work = NoWork
    /\ focus = NoWindow
    /\ locked = FALSE
    /\ engine = [current |-> "Inactive", last_signal_time |-> 0, locked |-> FALSE]
    /\ last = [from |-> "Inactive", to |-> "Inactive", at |-> 0, by |-> "Start", n |-> 0]
    /\ stored = {}

EnvelopeStep == TakeTick \/ TakeBatch \/ AdaptEvent \/ DeriveLock
                  \/ HandleEnvelope \/ FinishBatch

Next ==
    \/ Advance
    \/ \E e \in HookEvents : IngestEvent(e)
    \/ IngestFlush
    \/ IngestIdleTick
    \/ EnvelopeStep

Spec == Init /\ [][Next]_vars

\* Time passes, the ticker fires and the envelope stage is scheduled.
FairSpec ==
    /\ Spec
    /\ WF_vars(Advance)
    /\ WF_vars(IngestFlush)
    /\ WF_vars(IngestIdleTick)
    /\ WF_vars(EnvelopeStep)

-----------------------------------------------------------------------------
(* Reference: what the history of raw events says about the user *)

\* the window that had the focus before event i
WindowBefore(i) ==
    LET reports == {j \in 1..(i - 1) : history[j].kind = "focus"}
    IN IF reports = {} THEN NoWindow
       ELSE history[CHOOSE j \in reports : \A k \in reports : k <= j].win

OnLockScreen(i) == WindowBefore(i) \in LoginWindows

\* input outside the lock screen, or the focus moving to an ordinary window
IsActivity(i) ==
    \/ history[i].kind = "input" /\ ~OnLockScreen(i)
    \/ /\ history[i].kind = "focus"
       /\ history[i].win # WindowBefore(i)
       /\ history[i].win \notin LoginWindows

LastActivity ==
    LET acts == {i \in DOMAIN history : IsActivity(i)}
    IN IF acts = {} THEN 0
       ELSE history[CHOOSE i \in acts : \A j \in acts : j <= i].at

StateOfUser(now) ==
    LET idle == now - LastActivity
    IN CASE OnLockScreen(Len(history) + 1) -> "Locked"
         [] ~OnLockScreen(Len(history) + 1) /\ idle <= ActiveGrace -> "Active"
         [] ~OnLockScreen(Len(history) + 1) /\ idle > ActiveGrace
              /\ idle <= IdleThreshold -> "Passive"
         [] OTHER -> "Inactive"

-----------------------------------------------------------------------------
(* Properties *)

\* The type invariant; events are numbered in the order of the history.
TypeOK ==
    /\ clock \in Time
    /\ ticked \in Time \cup {-1}
    /\ history \in Seq(TimedEvent)
    /\ \A i \in 1..Len(history) : history[i].id = i
    /\ pending \in Seq(TimedEvent)
    /\ channel \in Seq(Command)
    /\ work \in Work
    /\ focus \in OptWindow
    /\ locked \in BOOLEAN
    /\ engine \in Engine
    /\ last \in Transition
    /\ stored \subseteq TimedEvent

Quiet == pending = <<>> /\ channel = <<>> /\ ~work.busy /\ ticked >= 0

\* Whenever nothing is under way, the engine's state is the one the user's
\* input calls for at the last tick, although ticks overtook events, the
\* adapter dropped repeated reports and the lock deriver dropped signals.
StateFollowsUser == Quiet => engine.current = StateOfUser(ticked)

\* The three layers agree on the lock screen whenever a batch is done: the
\* adapter's window, the deriver's flag, the engine's flag and its state.
LocksAgree ==
    ~work.busy => /\ locked <=> focus \in LoginWindows
                  /\ engine.locked <=> locked
                  /\ engine.current = "Locked" <=> engine.locked

\* Why they agree, as an inductive invariant: mid-batch the engine's flag lags
\* the deriver's by the lock signal among the envelopes still to be handled,
\* and the deriver's flag lags the adapter's window by its focus signal.
EngineLags ==
    \/ /\ NoLockKind(work.envs)
       /\ engine.locked <=> locked
    \/ /\ work.envs # <<>> /\ NoLockKind(Tail(work.envs))
       /\ Head(work.envs).kind = IF locked THEN "LockStart" ELSE "LockEnd"
       /\ engine.locked <=> ~locked

DeriverLags ==
    \/ /\ NoFocusKind(work.adapted)
       /\ locked <=> focus \in LoginWindows
    \/ /\ work.adapted # <<>> /\ NoFocusKind(Tail(work.adapted))
       /\ Head(work.adapted).kind = "FocusSignal"
       /\ Head(work.adapted).win = focus

LockInv ==
    /\ EngineLags
    /\ DeriverLags
    /\ NoLockKind(work.adapted)
    /\ engine.current = "Locked" <=> engine.locked
    /\ ~work.busy => work.raw = <<>> /\ work.adapted = <<>> /\ work.envs = <<>>

Rank == [s \in ActivityState |->
            CASE s = "Locked" -> 0 [] s = "Inactive" -> 1
              [] s = "Passive" -> 2 [] s = "Active" -> 3]

\* After the very first transition, time alone never makes the user more
\* active: a tick only leads from Active towards Inactive.
TicksDemote ==
    last.by = "IdleTimeout" /\ last.n > 1 => Rank[last.to] < Rank[last.from]

\* When the user stops, the state ends up Inactive or stays Locked.
GoesIdle == <>[](engine.current \in {"Inactive", "Locked"})

\* Input on the lock screen is not persisted as a raw event.
LockedInputSuppressed ==
    \A e \in stored : e.kind = "input" => ~OnLockScreen(e.id)

=============================================================================
