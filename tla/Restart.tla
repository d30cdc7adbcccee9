------------------------------ MODULE Restart -------------------------------
(***************************************************************************)
(* What a daemon remembers: the snapshot stage's view of a run, and how a  *)
(* daemon that is started again with the same run id gets it back from the *)
(* store (spawn_pipeline and hydrate_* in src/daemon/pipeline.rs, the      *)
(* fetch_* of the storage backends, the record builder, the snapshot stage *)
(* and the snapshot bus).                                                  *)
(*                                                                         *)
(* The store outlives the daemon; everything else dies with it.  A record  *)
(* or a transition is durable once its batch is committed, and batches are *)
(* committed in order (module StorageWriter), so a crash leaves a prefix   *)
(* of what was sent.  A clean stop drains every queue (module Pipeline).   *)
(*                                                                         *)
(* Abstractions: the state engine changes state at any time (its rules are *)
(* in Derivation); the focus shown in the snapshot, counts and health are  *)
(* left out; a title change closes a record as a focus change does.  The   *)
(* clock does not step back.                                               *)
(***************************************************************************)
EXTENDS Aggregation, SequencesExt

CONSTANTS
  State,           \* activity states
  Inactive,        \* the state a daemon starts in
  Run,             \* run ids
  Focus,           \* windows that can get the focus
  None,            \* no record, no transition
  Retention,       \* retention_minutes
  HydrateLimit,    \* transitions read at startup (32)
  BusCap,          \* transitions the bus keeps (64)
  RecentLimit,     \* transitions in a snapshot (5)
  MaxTime,         \* bound: the clock
  MaxChanges,      \* bound: the changes of all daemons, where
  StateCost,       \*   a state change takes this much of it and
  FocusCost,       \*   a focus change this much
  MaxStarts,       \* bound: daemons started, one after the other
  MaxFailures      \* bound: failed writes and failed queries

ASSUME RestartAssumption ==
  /\ Inactive \in State /\ NoFocus \notin Focus
  /\ {Retention, MaxTime, MaxChanges, StateCost, FocusCost, MaxStarts, MaxFailures} \subseteq Nat
  /\ {HydrateLimit, BusCap, RecentLimit} \subseteq Nat \ {0}

(* A process has one name.                                                 *)
ASSUME FocusAssumption == \A f, g \in Focus : f.pid = g.pid => f.app = g.app

VARIABLES
  now,         \* Utc::now(), in seconds
  store,       \* durable rows: records and transitions, in the order written
  daemon,      \* the process: phase, run id, state of the engine
  builder,     \* RecordBuilder
  inbox,       \* snapshot_tx -> receiver of the snapshot stage
  pending,     \* storage_tx and the writer's batch: sent, not committed
  stage,       \* locals of the snapshot stage
  bus,         \* the snapshot bus: transition buffer, latest snapshot
  past,        \* history: what this daemon read at startup, the transitions it
               \* made, and the runs whose records a daemon could not read
  fuel         \* bounds: changes, starts and failures left

vars == <<now, store, daemon, builder, inbox, pending, stage, bus, past, fuel>>

-----------------------------------------------------------------------------
(* Rows and messages.                                                      *)

Record == [id : Nat, run : Run, start : 0..MaxTime, end : 0..MaxTime, focus : Focus \cup {NoFocus}]
Transition == [from : State, to : State, at : 0..MaxTime, run : Run]

ASSUME NoneAssumption == None \notin Transition

IsRecord(row) == "id" \in DOMAIN row

(* The places of a run's records and transitions among rows.               *)
RecordsOf(rows, r) == {i \in DOMAIN rows : IsRecord(rows[i]) /\ rows[i].run = r}
TransitionsOf(rows, r) == {i \in DOMAIN rows : ~IsRecord(rows[i]) /\ rows[i].run = r}

Msg(k, body) == [kind |-> k, body |-> body]
Publish == Msg("publish", None)

NoDaemon == [phase |-> "down", run |-> None, state |-> Inactive]
NewBuilder(n) == [focus |-> NoFocus, current |-> None, next |-> n]
NoStage == [begun |-> FALSE, records |-> <<>>, transitions |-> <<>>,
            state |-> Inactive, last |-> None, shutdown |-> FALSE, complete |-> FALSE]
EmptySnapshot == [at |-> 0, state |-> Inactive, last |-> None, recent |-> <<>>,
                  records |-> <<>>, apps |-> {}]
NoBus == [transitions |-> <<>>, snapshot |-> EmptySnapshot]

NoPast(runs) == [rows |-> 0, read |-> TRUE, transitions |-> <<>>, made |-> <<>>, lost |-> runs]

-----------------------------------------------------------------------------
(* Startup.                                                                *)

(* ORDER BY: the stored rows at the places is; those with equal keys come  *)
(* in any order.                                                           *)
Orders(is, key) ==
  {[k \in 1..Cardinality(is) |-> store[p[k]]] :
     p \in {q \in [1..Cardinality(is) -> is] :
              \A j, k \in 1..Cardinality(is) :
                 j < k => q[j] # q[k] /\ store[q[j]][key] <= store[q[k]][key]}}

\* mutation: the records of every run
FetchRecordsAnyRun(r) ==
  Orders({i \in DOMAIN store : IsRecord(store[i]) /\ store[i].end >= now - Retention}, "start")

(* fetch_records_since: the records of the run that ended in the retention *)
(* window, by start time.                                                  *)
FetchRecords(r) ==
  Orders({i \in RecordsOf(store, r) : store[i].end >= now - Retention}, "start")

Truncate(s, n) == SubSeq(s, 1, Min({Len(s), n}))

(* fetch_recent_transitions: newest first, at most HydrateLimit.           *)
FetchTransitions(r) ==
  {Truncate(Reverse(s), HydrateLimit) :
     s \in Orders({i \in TransitionsOf(store, r) : store[i].at >= now - Retention}, "at")}

\* mutation: as many ids as there are records are taken
NextRecordIdCounts(recs) == Len(recs)

NextRecordId(recs) == IF recs = <<>> THEN 0 ELSE Max({x.id : x \in Range(recs)}) + 1

(* A daemon is started, with a run id of its own or the one of an earlier  *)
(* daemon.  A query that fails counts as one without rows.                 *)
Start(r) ==
  /\ daemon.phase = "down"
  /\ fuel.starts > 0
  /\ \E failed \in IF fuel.failures > 0 /\ store # <<>>
                      THEN {"", "records", "transitions"} ELSE {""} :
     \E recs \in IF failed = "records" THEN {<<>>} ELSE FetchRecords(r) :
     \E trans \in IF failed = "transitions" THEN {<<>>} ELSE FetchTransitions(r) :
        /\ stage' = [NoStage EXCEPT !.records = recs, !.transitions = trans]
        /\ builder' = NewBuilder(NextRecordId(recs))
        /\ past' = [NoPast(past.lost \cup {store[i].run : i \in IF recs = <<>>
                                                          THEN RecordsOf(store, r) ELSE {}})
                      EXCEPT !.rows = Len(store), !.read = (failed # "records"),
                             !.transitions = trans]
        /\ fuel' = [fuel EXCEPT !.starts = @ - 1,
                                !.failures = IF failed = "" THEN @ ELSE @ - 1]
  /\ daemon' = [NoDaemon EXCEPT !.phase = "up", !.run = r]
  /\ UNCHANGED <<now, store, inbox, pending, bus>>

-----------------------------------------------------------------------------
(* The snapshot bus and publishing.                                        *)

\* mutation: the buffer grows past its limit
PushPastLimit(buf, t) == Append(IF Len(buf) > BusCap THEN Tail(buf) ELSE buf, t)

(* push_transition.                                                        *)
Push(buf, t) == Append(IF Len(buf) >= BusCap THEN Tail(buf) ELSE buf, t)

(* push_transition for each of the transitions ts in turn.                 *)
PushAll(ts) ==
  LET buf[i \in 0..Len(ts)] == IF i = 0 THEN <<>> ELSE Push(buf[i - 1], ts[i])
  IN  buf[Len(ts)]

recent_transitions(buf, n) == Truncate(Reverse(buf), n)

(* Records leave the list at its front, up to the first that is recent     *)
(* enough.                                                                 *)
Trim(recs, since) ==
  LET kept == {i \in DOMAIN recs : recs[i].end >= since}
  IN  IF kept = {} THEN <<>> ELSE SubSeq(recs, Min(kept), Len(recs))

(* publish_snapshot for the locals s and the transition buffer buf.        *)
publish_snapshot(s, buf) ==
  LET recs == Trim(s.records, now - Retention)
  IN  /\ stage' = [s EXCEPT !.records = recs]
      /\ bus' = [transitions |-> buf,
                 snapshot |-> [at |-> now, state |-> s.state, last |-> s.last,
                               recent |-> recent_transitions(buf, RecentLimit),
                               records |-> recs,
                               apps |-> build_app_tree(
                                          aggregate_activities_since(recs, now - Retention))]]

(* The replay of the hydrated transitions: each in turn becomes the state, *)
(* so the last of them, the oldest, stays.                                 *)
Replay(s) ==
  LET ts == s.transitions
  IN  [s EXCEPT !.begun = TRUE, !.transitions = <<>>,
                !.state = IF ts = <<>> THEN @ ELSE Last(ts).to,
                !.last = IF ts = <<>> THEN @ ELSE Last(ts)]

(* The thread of the snapshot stage begins.                                *)
StageBegins ==
  /\ daemon.phase # "down" /\ ~stage.begun
  /\ publish_snapshot(Replay(stage), PushAll(stage.transitions))
  /\ UNCHANGED <<now, store, daemon, builder, inbox, pending, past, fuel>>

-----------------------------------------------------------------------------
(* The envelope stage and the hints stage, in one step (module Pipeline    *)
(* has them apart).  Their messages to the snapshot stage may interleave.  *)

Interleaved(s, m) == {InsertAt(s, i, m) : i \in 1..(Len(s) + 1)}

(* finalize_current: the open record, if there is one, ends.               *)
Finalized ==
  {[id |-> c.id, run |-> daemon.run, start |-> c.start, end |-> now, focus |-> c.focus] :
     c \in {builder.current} \ {None}}

(* start_new_current: the next record, with the state and the focus of b.  *)
Reopened(b) ==
  [b EXCEPT !.current = [id |-> b.next, start |-> now, focus |-> b.focus], !.next = @ + 1]

(* Bound: one change is on its way at a time (module Pipeline has queues). *)
Quiet == inbox = <<>>

(* A hint finishes the open record, which goes to storage and, among the   *)
(* messages msgs of the envelope stage, to the snapshot stage.             *)
Hint(b, msgs, cost) ==
  /\ daemon.phase = "up" /\ Quiet
  /\ fuel.changes >= cost
  /\ builder' = Reopened(b)
  /\ pending' = pending \o SetToSeq(Finalized)
  /\ \/ Finalized = {} /\ inbox' = msgs
     \/ \E x \in Finalized : inbox' \in Interleaved(msgs, Msg("record", x))
  /\ fuel' = [fuel EXCEPT !.changes = @ - cost]
  /\ UNCHANGED <<now, store, stage, bus>>

(* The engine and the builder both start Inactive and see the same         *)
(* changes, so transition_to never meets the state it is in.               *)
StateChanges(s) ==
  /\ s # daemon.state
  /\ \E t \in {[from |-> daemon.state, to |-> s, at |-> now, run |-> daemon.run]} :
        /\ Hint(builder, <<Msg("transition", t), Publish>>, StateCost)
        /\ past' = [past EXCEPT !.made = Append(@, t)]
  /\ daemon' = [daemon EXCEPT !.state = s]

(* apply_focus_change, and apply_title_change of the focused window.       *)
FocusChanges(f) ==
  /\ Hint([builder EXCEPT !.focus = f], <<Publish>>, FocusCost)
  /\ UNCHANGED <<daemon, past>>

(* DeriveCommand::Shutdown: the envelope stage tells the snapshot stage,   *)
(* and the hints stage, its channel closed, ends the open record.          *)
Stop ==
  /\ daemon.phase = "up" /\ Quiet
  /\ daemon' = [daemon EXCEPT !.phase = "closing"]
  /\ builder' = [builder EXCEPT !.current = None]
  /\ pending' = pending \o SetToSeq(Finalized)
  /\ \E last \in {m \o <<Msg("complete", None)>> :
                    m \in {SetToSeq({Msg("record", x) : x \in Finalized})}} :
     \E all \in Interleaved(last, Msg("shutdown", None)) : inbox' = all
  /\ UNCHANGED <<now, store, stage, bus, past, fuel>>

-----------------------------------------------------------------------------
(* The snapshot stage.                                                     *)

Received(k) == stage.begun /\ inbox # <<>> /\ Head(inbox).kind = k /\ inbox' = Tail(inbox)

\* mutation: the last transition is not kept
ApplyUpdateKeepsLast ==
  /\ Received("transition")
  /\ \E t \in {Head(inbox).body} :
        /\ stage' = [stage EXCEPT !.state = t.to]
        /\ bus' = [bus EXCEPT !.transitions = Push(@, t)]
        /\ pending' = Append(pending, t)
  /\ UNCHANGED <<now, store, daemon, builder, past, fuel>>

(* apply_update, for an update with a transition.                          *)
ApplyUpdate ==
  /\ Received("transition")
  /\ \E t \in {Head(inbox).body} :
        /\ stage' = [stage EXCEPT !.state = t.to, !.last = t]
        /\ bus' = [bus EXCEPT !.transitions = Push(@, t)]
        /\ pending' = Append(pending, t)
  /\ UNCHANGED <<now, store, daemon, builder, past, fuel>>

(* update_records.                                                         *)
UpdateRecords ==
  /\ Received("record")
  /\ stage' = [stage EXCEPT !.records = Append(@, Head(inbox).body)]
  /\ UNCHANGED <<now, store, daemon, builder, pending, bus, past, fuel>>

PublishNow ==
  /\ Received("publish")
  /\ publish_snapshot(stage, bus.transitions)
  /\ UNCHANGED <<now, store, daemon, builder, pending, past, fuel>>

(* maybe_finalize: the second of the two messages publishes for the last   *)
(* time, tells storage and ends the stage.                                 *)
Finish(k, s) ==
  /\ Received(k)
  /\ IF s.shutdown /\ s.complete
       THEN /\ publish_snapshot(s, bus.transitions)
            /\ daemon' = [daemon EXCEPT !.phase = "drained"]
       ELSE stage' = s /\ UNCHANGED <<daemon, bus>>
  /\ UNCHANGED <<now, store, builder, pending, past, fuel>>

HandleShutdown == Finish("shutdown", [stage EXCEPT !.shutdown = TRUE])
HandleComplete == Finish("complete", [stage EXCEPT !.complete = TRUE])

-----------------------------------------------------------------------------
(* Storage, seen from here: a batch becomes durable as a whole, in the     *)
(* order sent, except for a row whose write fails.                         *)

Commit ==
  /\ pending # <<>>
  /\ \/ store' = store \o pending /\ UNCHANGED fuel
     \/ /\ fuel.failures > 0
        /\ \E i \in DOMAIN pending : store' = store \o RemoveAt(pending, i)
        /\ fuel' = [fuel EXCEPT !.failures = @ - 1]
  /\ pending' = <<>>
  /\ UNCHANGED <<now, daemon, builder, inbox, stage, bus, past>>

Down ==
  /\ daemon' = NoDaemon /\ builder' = NewBuilder(0) /\ stage' = NoStage /\ bus' = NoBus
  /\ inbox' = <<>> /\ pending' = <<>>
  /\ past' = NoPast(past.lost)
  /\ UNCHANGED <<now, store, fuel>>

Exit == daemon.phase = "drained" /\ pending = <<>> /\ Down

Crash == daemon.phase # "down" /\ Down

(* Time runs from the first start.  Threads begin, empty their queues and  *)
(* end within a second; a batch may wait.                                  *)
Tick ==
  /\ now < MaxTime
  /\ fuel.starts < MaxStarts
  /\ Quiet
  /\ daemon.phase = "down" \/ (daemon.phase = "up" /\ stage.begun)
  /\ now' = now + 1
  /\ UNCHANGED <<store, daemon, builder, inbox, pending, stage, bus, past, fuel>>

-----------------------------------------------------------------------------
Init ==
  /\ now = 0
  /\ store = <<>>
  /\ daemon = NoDaemon
  /\ builder = NewBuilder(0)
  /\ inbox = <<>> /\ pending = <<>>
  /\ stage = NoStage
  /\ bus = NoBus
  /\ past = NoPast({})
  /\ fuel = [changes |-> MaxChanges, starts |-> MaxStarts, failures |-> MaxFailures]

Next ==
  \/ \E r \in Run : Start(r)
  \/ StageBegins
  \/ \E s \in State : StateChanges(s)
  \/ \E f \in Focus : FocusChanges(f)
  \/ Stop
  \/ ApplyUpdate \/ UpdateRecords \/ PublishNow \/ HandleShutdown \/ HandleComplete
  \/ Commit \/ Exit \/ Crash
  \/ Tick

Spec == Init /\ [][Next]_vars

-----------------------------------------------------------------------------
Sent == store \o pending

(* Every variable has its type; the bus and the lists of a snapshot keep   *)
(* their limits, also while hydrated transitions are replayed.             *)
TypeOK ==
  /\ now \in 0..MaxTime
  /\ \A i \in DOMAIN Sent : Sent[i] \in Record \cup Transition
  /\ daemon.phase \in {"down", "up", "closing", "drained"}
  /\ daemon.run \in Run \cup {None} /\ daemon.state \in State
  /\ builder.next \in Nat /\ builder.focus \in Focus \cup {NoFocus}
  /\ stage.state \in State /\ stage.last \in Transition \cup {None}
  /\ Len(stage.transitions) <= HydrateLimit
  /\ Len(bus.transitions) <= BusCap
  /\ Len(bus.snapshot.recent) <= RecentLimit
  /\ past.lost \subseteq Run

(* Within a run no two records have the same id (next_record_id in         *)
(* src/daemon/pipeline.rs), through any number of crashes, failed writes   *)
(* and restarts, unless the run was begun again while none of its stored   *)
(* records could be read: all older than the retention window, or the      *)
(* query failed.  Then the ids start from 0 again.                         *)
RecordIdsUnique ==
  \A i, j \in DOMAIN Sent :
     /\ i < j /\ IsRecord(Sent[i]) /\ IsRecord(Sent[j])
     /\ Sent[i].run = Sent[j].run /\ Sent[i].id = Sent[j].id
     => Sent[i].run \in past.lost

(* What this daemon has sent to storage.                                   *)
Own == SubSeq(Sent, past.rows + 1, Len(Sent))

Undelivered == {m.body : m \in {x \in Range(inbox) : x.kind = "record"}}

(* The records a snapshot must show when it is published.                  *)
Expected(since) ==
  LET rows == IF past.read THEN Sent ELSE Own
  IN  {x \in {rows[i] : i \in RecordsOf(rows, daemon.run)} \ Undelivered : x.end >= since}

ShowsRetention ==
  LET s == bus.snapshot
      since == s.at - Retention
      recs == s.records
  IN  /\ Expected(since) \subseteq Range(recs)
      /\ \A i \in DOMAIN recs :
            /\ recs[i].run = daemon.run
            /\ recs[i].end < since => recs[i].start = recs[i].end
      /\ \A i, j \in DOMAIN recs : i < j =>
            /\ recs[i].start <= recs[j].start
            /\ recs[i].id = recs[j].id => daemon.run \in past.lost

(* A published snapshot holds the records of its run within the retention  *)
(* window (publish_snapshot; README.md promises the full list): those of   *)
(* earlier daemons of the run and those of this one that the stage has     *)
(* received, none missing, none of another run, none twice, oldest first.  *)
(* Only a record of length zero may stay past its time: trimming stops at  *)
(* the first record it keeps, and a query does not order equal start       *)
(* times.  After a failed query the earlier daemons' records are missing.  *)
PublishesRetention ==
  [][daemon'.phase # "down" /\ bus'.snapshot # bus.snapshot /\ stage'.begun
       => ShowsRetention']_vars

(* The transitions this daemon made that the snapshot stage has received.  *)
Delivered == LET waiting == {i \in DOMAIN inbox : inbox[i].kind = "transition"}
             IN  SubSeq(past.made, 1, Len(past.made) - Cardinality(waiting))

Known == Range(past.transitions) \cup Range(Delivered)

ShowsNewest ==
  LET s == bus.snapshot
  IN  /\ Known = {} => s.last = None /\ s.state = Inactive
      /\ s.last # None => s.state = s.last.to /\ s.last \in Range(s.recent)
      /\ (Known # {} /\ (Len(past.transitions) <= 1 \/ Delivered # <<>>))
           => s.last # None /\ \A t \in Known : t.at <= s.last.at
      /\ \A i, j \in DOMAIN s.recent :
            i < j /\ s.recent[i].at < s.recent[j].at
              => {s.recent[i], s.recent[j]} \subseteq Range(past.transitions)

(* A published snapshot shows the newest transition the daemon knows of as *)
(* its state and as last_transition, and lists the recent ones newest      *)
(* first (apply_update, push_transition, the replay at startup), except    *)
(* for what a restart brings back: two or more hydrated transitions are    *)
(* replayed newest first, so that until the first transition of its own    *)
(* the daemon shows the oldest of them, and lists them oldest first.       *)
PublishesNewest ==
  [][daemon'.phase # "down" /\ bus'.snapshot # bus.snapshot /\ stage'.begun
       => ShowsNewest']_vars

-----------------------------------------------------------------------------
(* The seconds of the retention window that a record the predicate P       *)
(* accepts covers.                                                         *)
Seconds(s, P(_)) ==
  Cardinality({t \in (s.at - Retention)..(s.at - 1) :
     \E x \in Range(s.records) : x.focus # NoFocus /\ P(x.focus) /\ x.start <= t /\ t < x.end})

(* The applications of a snapshot account for the time (aggregate_activi-  *)
(* ties_since, build_app_tree): an entry's total is the number of seconds  *)
(* of the retention window in which one of its processes had the focus,    *)
(* so that no second counts twice, also across a restart; no process is in *)
(* two entries; a process is left out only when it and those of its name   *)
(* are few and short.  Within an application every window is shown once,   *)
(* alone or in a group, with its own time, unless MaxWindows newer ones    *)
(* are shown.                                                              *)
AppsAccountForTime ==
  LET s == bus.snapshot
      foci == {x.focus : x \in Range(s.records)} \ {NoFocus}
      used(p) == Seconds(s, LAMBDA f : f.pid = p)
      time(p, w) == Seconds(s, LAMBDA f : f.pid = p /\ HasWindow(f) /\ f.win = w)
      brief(n) == {p \in {f.pid : f \in {g \in foci : g.app = n}} : used(p) \in 1..AppShortMax}
      wins(p) == {w \in {f.win : f \in foci} : time(p, w) > 0}
      last(p, w) == Max({x.end : x \in {y \in Range(s.records) :
                            /\ y.start < y.end /\ y.focus # NoFocus
                            /\ HasWindow(y.focus) /\ y.focus.pid = p /\ y.focus.win = w}})
  IN  /\ \A e \in s.apps : e.total = SumFunction([p \in e.procs |-> used(p)])
      /\ \A d, e \in s.apps : d # e => d.procs \cap e.procs = {}
      /\ \A f \in foci : used(f.pid) > 0 =>
            \/ \E e \in s.apps : f.pid \in e.procs
            \/ used(f.pid) <= AppShortMax /\ Cardinality(brief(f.app)) < AppShortMin
      /\ \A e \in s.apps : e.total > AppShortMax /\ Cardinality(e.procs) = 1 =>
            LET shown == UNION {v.members : v \in e.windows}
                alone == {v \in e.windows : ~v.group}
            IN  /\ shown \subseteq wins(e.pid)
                /\ \A u, v \in e.windows : u # v => u.members \cap v.members = {}
                /\ \A v \in e.windows :
                      v.dur = SumFunction([w \in v.members |-> time(e.pid, w)])
                /\ \A w \in wins(e.pid) \ shown :
                      /\ MaxWindows > 0 /\ Cardinality(alone) = MaxWindows
                      /\ \A v \in alone : \A u \in v.members : last(e.pid, u) > last(e.pid, w)
=============================================================================
