---------------------------- MODULE Aggregation -----------------------------
(***************************************************************************)
(* What a snapshot says about applications and windows: the aggregation of *)
(* the records of the retention window (aggregate_activities_since in      *)
(* crates/core/src/records.rs) and the application tree built from it      *)
(* (build_app_tree in src/daemon/pipeline/snapshot_stage.rs).              *)
(*                                                                         *)
(* Pure operators.  A time is a number of seconds.  A record is            *)
(* [id, run, start, end, focus] and always closed: an open record is never *)
(* sent.  A focus is [app, pid, win, title]; the pid stands for the pair   *)
(* of pid and process start time.  Left out: a record's activity state,    *)
(* first_seen, the texts of the group titles, and the order of the lists,  *)
(* which follows last_seen.                                                *)
(***************************************************************************)
EXTENDS Integers, Sequences, FiniteSets, FiniteSetsExt

CONSTANTS
  NoFocus,       \* a record made before any window had the focus
  NoTitle,       \* the empty title
  TitleKey,      \* normalize_title, as a function on titles
  ShortThresh,   \* ephemeral_max_duration_secs
  EphMin,        \* ephemeral_min_distinct_ids
  TemporalGap,   \* the 60 minutes of the temporal groups
  MaxWindows,    \* max_windows_per_app; 0 keeps all
  AppShortMax,   \* ephemeral_app_max_duration_secs
  AppShortMin    \* ephemeral_app_min_distinct_procs

ASSUME AggregationAssumption ==
  /\ {ShortThresh, EphMin, TemporalGap, MaxWindows, AppShortMax, AppShortMin} \subseteq Nat
  /\ NoTitle \notin DOMAIN TitleKey

-----------------------------------------------------------------------------
(* The part of a record that lies in the window that begins at since.      *)

\* mutation: a record counts from its start, however old
ClipStartUnclipped(r, since) == r.start

ClipStart(r, since) == Max({r.start, since})

Duration(r, since) == r.end - ClipStart(r, since)

(* The records that count: the others are skipped, whole.                  *)
Counted(recs, since) ==
  {i \in DOMAIN recs : /\ recs[i].focus # NoFocus
                       /\ recs[i].end > since
                       /\ Duration(recs[i], since) > 0}

Total(recs, since, is) == SumFunction([i \in is |-> Duration(recs[i], since)])

(* A window takes the title of its latest record.                          *)
WindowActivity(recs, since, is) ==
  [title |-> recs[Max(is)].focus.title,
   dur   |-> Total(recs, since, is),
   last  |-> Max({recs[i].end : i \in is})]

HasWindow(f) == f.title # NoTitle /\ f.win > 0

-----------------------------------------------------------------------------
(* Groups of the windows ws of one application; a group is the set of its  *)
(* members' ids.                                                           *)

Alike(ws, S, w) == {v \in S : TitleKey[ws[v].title] = TitleKey[ws[w].title]}

EphemeralGroups(ws) ==
  LET short == {w \in DOMAIN ws : ws[w].dur < ShortThresh}
  IN  {g \in {Alike(ws, short, w) : w \in short} : Cardinality(g) >= EphMin}

(* The windows of S that a chain of last_seen times, none further than     *)
(* TemporalGap from the next, connects to w: the cluster the loop over the *)
(* sorted windows puts w in.                                               *)
Cluster(ws, S, w) ==
  LET Chained(lo, hi) ==
        \A y \in S : lo < ws[y].last /\ ws[y].last <= hi =>
           \E z \in S : ws[z].last < ws[y].last /\ ws[y].last - ws[z].last <= TemporalGap
  IN  {v \in S : Chained(ws[v].last, ws[w].last) /\ Chained(ws[w].last, ws[v].last)}

TemporalGroups(ws, lane) ==
  {g \in {Cluster(ws, Alike(ws, lane, w), w) : w \in lane} : Cardinality(g) >= 2}

(* Windows end at different times (records of positive length follow one   *)
(* another), so the most recent ones are well defined.                     *)
LruTrim(ws, rest) ==
  IF MaxWindows > 0 /\ Cardinality(rest) > MaxWindows
    THEN {w \in rest : Cardinality({v \in rest : ws[v].last > ws[w].last}) < MaxWindows}
    ELSE rest

(* The windows that belong to no ephemeral group.                          *)
Lane(ws) == DOMAIN ws \ UNION EphemeralGroups(ws)

-----------------------------------------------------------------------------
(* One AggregatedActivity per process.                                     *)
Aggregated(recs, since, pid) ==
  LET mine == {i \in Counted(recs, since) : recs[i].focus.pid = pid}
      of(w) == {i \in mine : HasWindow(recs[i].focus) /\ recs[i].focus.win = w}
      ids == {recs[i].focus.win : i \in {j \in mine : HasWindow(recs[j].focus)}}
      ws == [w \in ids |-> WindowActivity(recs, since, of(w))]
      temporal == TemporalGroups(ws, Lane(ws))
  IN  [app |-> recs[Min(mine)].focus.app,
       pid |-> pid,
       total |-> Total(recs, since, mine),
       last |-> Max({recs[i].end : i \in mine}),
       activity |-> ws,
       windows |-> LruTrim(ws, Lane(ws) \ UNION temporal),
       groups |-> EphemeralGroups(ws) \cup temporal]

aggregate_activities_since(recs, since) ==
  {Aggregated(recs, since, pid) :
     pid \in {recs[i].focus.pid : i \in Counted(recs, since)}}

-----------------------------------------------------------------------------
(* The tree: an entry for each window and each group; processes that ran   *)
(* only shortly are shown together, or not at all when they are few.       *)

WindowEntry(agg, w) == [members |-> {w}, group |-> FALSE, dur |-> agg.activity[w].dur]

GroupEntry(agg, g) ==
  [members |-> g, group |-> TRUE, dur |-> SumFunction([w \in g |-> agg.activity[w].dur])]

AppEntry(agg) ==
  [app |-> agg.app, pid |-> agg.pid, procs |-> {agg.pid}, total |-> agg.total,
   windows |-> {WindowEntry(agg, w) : w \in agg.windows}
                 \cup {GroupEntry(agg, g) : g \in agg.groups}]

(* Processes with one name shown as one; the one that ran longest, and of  *)
(* those the latest, lends its pid.                                        *)
AppGroupEntry(v) ==
  LET sum == SumFunction([a \in v |-> a.total])
      rep == CHOOSE a \in v : \A b \in v :
                a.total > b.total \/ (a.total = b.total /\ a.last >= b.last)
  IN  [app |-> rep.app, pid |-> rep.pid, procs |-> {a.pid : a \in v}, total |-> sum,
       windows |-> {[members |-> {}, group |-> TRUE, dur |-> sum]}]

build_app_tree(aggs) ==
  LET short == {a \in aggs : a.total <= AppShortMax}
      named(n) == {a \in short : a.app = n}
  IN  {AppEntry(a) : a \in aggs \ short}
        \cup {AppGroupEntry(named(n)) :
                n \in {m \in {a.app : a \in short} : Cardinality(named(m)) >= AppShortMin}}
=============================================================================
