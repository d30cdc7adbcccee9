------------------------------- MODULE Focus --------------------------------
(***************************************************************************)
(* The focus worker (src/daemon/tracker/focus.rs): one thread that turns   *)
(* the notifications of the window hook and the answers of its own polling *)
(* into consolidated focus changes, handed to the pipeline by a callback.  *)
(*                                                                         *)
(* The hook is late: the system notes each change, the hook thread passes  *)
(* it on when it runs and embeds a description of the window that is       *)
(* active by then.  A poll describes the window that is active now.  So    *)
(* what the worker hears need not arrive in the order it happened, and the *)
(* worker's caches decide which title it believes.                         *)
(*                                                                         *)
(* Abstractions: an application has one process, so the pid is the         *)
(* application; window_instance_start and the log are left out; a timer is *)
(* open or over, never a time.  The caches keep titles only (the window id *)
(* next to a title is never read) and forget entries at any time: weak     *)
(* ones after two seconds, the others when the cache is full.  What the    *)
(* LRU order would forget is one of the choices.                           *)
(***************************************************************************)
EXTENDS Naturals, Sequences, SequencesExt, FiniteSets

CONSTANTS
  App,            \* applications, the login window's included
  Login,          \* LOGINWINDOW_APP
  NoApp,          \* the empty application name
  Title,          \* titles other than the two below
  LoginTitle,     \* "Login"
  Empty,          \* the empty title
  Unknown,        \* UNKNOWN_WINDOW_TITLE, "-"
  NoTitle,        \* None, where a title is optional
  Window,         \* windows that can be active: [app, title, wid]
  LoginWid,       \* LOGINWINDOW_WINDOW_ID
  AllowZeroWid,   \* focus_allow_zero_window_id
  CoalesceOn,     \* focus_window_coalesce_ms > 0
  StartMayFail,   \* may sysinfo miss the process of a window just polled?
  CacheCap,       \* title_cache_capacity
  MaxSwitches,    \* bound: changes of the active window
  MaxErrors       \* bound: failed polls

AnyTitle == Title \cup {LoginTitle, Empty, Unknown}
Wid == {v.wid : v \in Window} \cup {0, LoginWid}

ASSUME FocusAssumption ==
  /\ Login \in App /\ NoApp \notin App
  /\ Empty # Unknown /\ LoginTitle \notin {Empty, Unknown}
  /\ Title \cap {Empty, Unknown, LoginTitle, NoTitle} = {}
  /\ NoTitle \notin {LoginTitle, Empty, Unknown}
  /\ \A v \in Window : v.app \in App /\ v.title \in AnyTitle \ {Unknown} /\ v.wid \in Nat
  /\ LoginWid \in Nat \ {0}
  /\ AllowZeroWid \in BOOLEAN /\ CoalesceOn \in BOOLEAN /\ StartMayFail \in BOOLEAN
  /\ CacheCap \in Nat \ {0}
  /\ MaxSwitches \in Nat /\ MaxErrors \in Nat

VARIABLES
  active,     \* the window in front
  notes,      \* changes the system has noted and the hook has not passed on
  inbox,      \* the worker's channel
  w,          \* the worker's local variables
  suspended,  \* poll_ms = POLL_SUSPEND_MS, stored by the snapshot stage
  worker,     \* "run", "asked" (should_stop is set), "exited"
  switches, errors

vars == <<active, notes, inbox, w, suspended, worker, switches, errors>>

NoFocus == [app |-> NoApp, title |-> Empty, wid |-> 0]

IsCache(c, K) == DOMAIN c \subseteq K /\ c \in [DOMAIN c -> AnyTitle]

(* The local variables of run_focus_worker. *)
IsWorker(x) ==
  /\ DOMAIN x = {"app", "title", "wid", "started", "pending", "coalesce", "emitAt", "reconcile",
                 "await", "pollLock", "prev", "strong", "weak", "lastTitles", "out"}
  /\ x.app \in App \cup {NoApp} /\ x.title \in AnyTitle /\ x.wid \in Wid
  /\ x.started \in BOOLEAN                      \* process_start_time > 0
  /\ x.pending \in AnyTitle \cup {NoTitle}      \* pending_window_title
  /\ x.coalesce \in {"none", "open", "over"}    \* coalesce_until
  /\ x.emitAt \in {"none", "later", "due"}      \* scheduled_emit_at
  /\ x.reconcile \in BOOLEAN /\ x.await \in BOOLEAN /\ x.pollLock \in BOOLEAN
  /\ x.prev \in App \cup {NoApp}                \* last_app_before_change
  /\ IsCache(x.strong, App)                     \* last_app_window
  /\ IsCache(x.weak, App)                       \* weak_app_window
  /\ IsCache(x.lastTitles, Wid)                 \* last_titles
  /\ x.out \in [app : App \cup {NoApp}, title : AnyTitle, wid : Wid]  \* the last callback

Message == [kind : {"AppChange"}, app : App]
           \cup [kind : {"WindowChange"}, title : AnyTitle]
           \cup [kind : {"AppChangeInfo", "WindowChangeInfo"}, win : Window]
           \cup [kind : {"Stop"}]

-----------------------------------------------------------------------------
(* The caches and the rules for titles *)

Put(cache, k, v) == [x \in DOMAIN cache \cup {k} |-> IF x = k THEN v ELSE cache[x]]

Only(cache, S) == [x \in DOMAIN cache \cap S |-> cache[x]]

(* evict_if_needed: the oldest entry goes; which one that is stays open. *)
Evicted(cache) ==
  IF Cardinality(DOMAIN cache) <= CacheCap THEN {cache}
  ELSE {Only(cache, DOMAIN cache \ {k}) : k \in DOMAIN cache}

Known(t) == t \notin {Empty, Unknown}
Matches(cache, app, t) == app \in DOMAIN cache /\ cache[app] = t
MatchesOther(cache, app, t) == \E k \in DOMAIN cache \ {app} : cache[k] = t

\* mutation: only the weak cache of the other applications is consulted
ValidatedByWeak(x, t) ==
  IF Known(t) /\ ~Matches(x.strong, x.app, t) /\ MatchesOther(x.weak, x.app, t) THEN Unknown ELSE t

(* A title that another application is known by becomes the placeholder. *)
Validated(x, t) ==
  IF /\ Known(t) /\ ~Matches(x.strong, x.app, t)
     /\ MatchesOther(x.strong, x.app, t) \/ MatchesOther(x.weak, x.app, t)
  THEN Unknown ELSE t

RecordWeak(x, t) ==
  IF x.app # NoApp /\ Known(t) THEN [x EXCEPT !.weak = Put(@, x.app, t)] ELSE x

Adopt(x, t) == LET r == RecordWeak(x, t) IN [r EXCEPT !.title = Validated(r, t)]

IsLoginTitle(x, t) == x.app = Login /\ t = LoginTitle
MatchesPrev(x, t) == x.prev # NoApp /\ (Matches(x.strong, x.prev, t) \/ Matches(x.weak, x.prev, t))
OfOther(x, t) ==
  ~Matches(x.strong, x.app, t) /\ (MatchesOther(x.strong, x.app, t) \/ MatchesOther(x.weak, x.app, t))

(* ReconcileDecision: the title that is accepted or held ... *)
Reconciled(x, t) ==
  IF ~IsLoginTitle(x, t) /\ (MatchesPrev(x, t) \/ OfOther(x, t)) THEN Unknown ELSE t

(* ... and whether it is held, no cache having an opinion on it. *)
Held(x, t) ==
  ~IsLoginTitle(x, t) /\ ~MatchesPrev(x, t) /\ ~OfOther(x, t)
  /\ ~Matches(x.strong, x.app, t) /\ ~Matches(x.weak, x.app, t)

OrLoginWid(app, wid) == IF app = Login /\ wid = 0 THEN LoginWid ELSE wid
FixWid(x) == [x EXCEPT !.wid = OrLoginWid(x.app, @)]

CanEmit(x) == x.app # NoApp /\ x.title # Empty /\ x.started /\ (AllowZeroWid \/ x.wid > 0)
Complete(x) == x.app # NoApp /\ x.title # Empty /\ x.started /\ x.wid > 0

RecordStrong(x) ==
  IF Known(x.title) THEN [x EXCEPT !.strong = Put(@, x.app, x.title)] ELSE x

Emit(x) == RecordStrong([x EXCEPT !.out = [app |-> x.app, title |-> x.title, wid |-> x.wid]])

Schedule(x, when) == [x EXCEPT !.emitAt = when]
ScheduleIfComplete(x, when) == IF Complete(x) THEN Schedule(x, when) ELSE x

-----------------------------------------------------------------------------
(* One iteration of the worker's loop: what a message or a poll answer does *)

(* app_change_flush: the application that is being left is reported first. *)
Flush(x) ==
  LET t == IF x.pending # NoTitle THEN Reconciled(x, x.pending) ELSE x.title
      y == FixWid([x EXCEPT !.title = t])
  IN IF CanEmit(y) THEN Emit(y) ELSE y

\* mutation: while one application change is reconciled the next is ignored
OnAppChangeBusy(x, app) ==
  IF x.app = app \/ x.reconcile THEN x
  ELSE [x EXCEPT !.prev = x.app, !.app = app, !.title = Empty, !.wid = OrLoginWid(app, 0),
                 !.started = TRUE, !.pending = NoTitle, !.pollLock = @ /\ app = Login,
                 !.coalesce = IF CoalesceOn THEN "open" ELSE "none",
                 !.reconcile = TRUE, !.await = TRUE, !.emitAt = "later"]

OnAppChange(x, app) ==
  IF x.app = app THEN x
  ELSE LET left == [x EXCEPT !.prev = x.app]
           y == IF x.coalesce # "none" /\ (x.pending # NoTitle \/ x.title # Empty)
                THEN Flush(left) ELSE left
       IN [y EXCEPT !.app = app, !.title = Empty, !.wid = OrLoginWid(app, 0),
                    !.started = TRUE, !.pending = NoTitle,
                    !.pollLock = @ /\ app = Login,
                    !.coalesce = IF CoalesceOn THEN "open" ELSE "none",
                    !.reconcile = TRUE, !.await = TRUE, !.emitAt = "later"]

HoldTitle(x, t) == [RecordWeak(x, t) EXCEPT !.pending = t]

(* Handlers that end in `continue`: the end of the loop body is skipped. *)
KeepsWaiting(x, t) ==
  /\ t # Empty /\ t # x.title /\ x.reconcile
  /\ x.coalesce = "open" \/ (Held(x, t) /\ x.coalesce = "over")

AcceptTitle(x, t) == LET v == Reconciled(x, t) IN [RecordWeak(x, v) EXCEPT !.title = v]

OnWindowChange(x, t) ==
  IF t = Empty \/ t = x.title THEN x
  ELSE LET y == IF x.reconcile
                THEN [(IF Held(x, t) THEN Adopt(x, t) ELSE AcceptTitle(x, t)) EXCEPT !.reconcile = FALSE]
                ELSE Adopt(x, t)
           z == FixWid(y)
       IN IF Complete(z) THEN [Schedule(z, "later") EXCEPT !.reconcile = FALSE] ELSE z

(* While an application change is being reconciled, other applications'    *)
(* descriptions are ignored.                                               *)
Ignores(x, win) == x.reconcile /\ x.app # win.app /\ x.app # NoApp

Identify(x, app) ==
  [x EXCEPT !.app = app, !.started = TRUE, !.pollLock = @ /\ app = Login]

Settled(x) ==
  [x EXCEPT !.await = FALSE, !.reconcile = FALSE, !.pending = NoTitle, !.coalesce = "none"]

Describe(x, win) == [Settled(Adopt(x, win.title)) EXCEPT !.wid = OrLoginWid(x.app, win.wid)]

OnAppChangeInfo(x, win) == ScheduleIfComplete(Describe(Identify(x, win.app), win), "due")

OnWindowChangeInfo(x, win) ==
  ScheduleIfComplete(Describe(IF x.app # win.app THEN Identify(x, win.app) ELSE x, win), "due")

(* The poll recovers from a lock-like error ... *)
Recovered(x, win) ==
  IF ~x.pollLock THEN x
  ELSE LET y == [x EXCEPT !.pollLock = FALSE, !.app = win.app, !.started = TRUE]
       IN Schedule([Settled(Adopt(y, win.title)) EXCEPT !.wid = win.wid], "due")

\* mutation: the poll completes the change and does not schedule its report
PollReconciledSilent(x, win) ==
  IF ~(x.await /\ x.app = win.app) THEN x
  ELSE [Describe([x EXCEPT !.started = TRUE], win) EXCEPT !.emitAt = "none"]

(* ... completes an application change the hook only named ... *)
PollReconciled(x, win) ==
  IF ~(x.await /\ x.app = win.app) THEN x
  ELSE Schedule(Describe([x EXCEPT !.started = TRUE], win), "due")

(* ... and notices that a window it knows has a new title.  Only here does *)
(* a failed lookup of the process leave process_start_time at zero.        *)
TitleChanged(x, win, started) ==
  IF ~(win.wid \in DOMAIN x.lastTitles /\ x.lastTitles[win.wid] # win.title) THEN x
  ELSE LET y == IF x.app = win.app THEN x ELSE [x EXCEPT !.app = win.app, !.started = started]
       IN ScheduleIfComplete([Adopt(y, win.title) EXCEPT !.wid = win.wid], "due")

RememberTitle(x, win) == [x EXCEPT !.lastTitles = Put(@, win.wid, win.title)]

LoginFocus == [app |-> Login, title |-> LoginTitle, wid |-> LoginWid]

OnLockLikeError(x) ==
  IF x.pollLock THEN x
  ELSE [x EXCEPT !.pollLock = TRUE, !.out = IF x.app = Login THEN LoginFocus ELSE @]

\* mutation: the pending title is taken whether there is one or not
CloseWindowAlways(x) ==
  IF x.coalesce # "over" THEN x
  ELSE LET y == [x EXCEPT !.title = x.pending, !.pending = NoTitle, !.await = TRUE,
                          !.coalesce = "none", !.reconcile = FALSE]
       IN IF CanEmit(y) THEN Schedule(y, "due") ELSE y

(* The end of the loop body: the coalescing window closes, then a due     *)
(* emission is made.                                                      *)
CloseWindow(x) ==
  IF x.coalesce # "over" THEN x
  ELSE LET y == IF x.pending = NoTitle THEN x
                ELSE [FixWid(IF Held(x, x.pending) THEN Adopt(x, x.pending)
                             ELSE AcceptTitle(x, x.pending))
                       EXCEPT !.await = TRUE, !.pending = NoTitle]
           z == [y EXCEPT !.coalesce = "none", !.reconcile = FALSE]
       IN IF CanEmit(z) THEN Schedule(z, "due") ELSE z

EmitDue(x) ==
  IF x.emitAt = "due" /\ CanEmit(x) THEN Schedule(Emit(x), "none") ELSE x

(* Time passes before an iteration: timers run out, weak titles expire. *)
Elapse(x, over, due, kept) ==
  [x EXCEPT !.coalesce = IF over /\ @ = "open" THEN "over" ELSE @,
            !.emitAt = IF due /\ @ = "later" THEN "due" ELSE @,
            !.weak = Only(@, kept)]

-----------------------------------------------------------------------------
(* The environment: the user, the hook thread, the pipeline, the owner *)

Init ==
  /\ active \in Window
  /\ notes = <<>> /\ inbox = <<>> /\ suspended = FALSE /\ worker = "run"
  /\ switches = 0 /\ errors = 0
  /\ w = [app |-> NoApp, title |-> Empty, wid |-> 0, started |-> FALSE,
          pending |-> NoTitle, coalesce |-> "none", emitAt |-> "none",
          reconcile |-> FALSE, await |-> FALSE, pollLock |-> FALSE, prev |-> NoApp,
          strong |-> <<>>, weak |-> <<>>, lastTitles |-> <<>>, out |-> NoFocus]

(* The user brings another window to the front; the system notes it. *)
Switch(win) ==
  /\ switches < MaxSwitches /\ win # active
  /\ active' = win /\ switches' = switches + 1
  /\ notes' = Append(notes, [win |-> win, app |-> win.app # active.app])
  /\ UNCHANGED <<inbox, w, suspended, worker, errors>>

(* The hook passes a note on (handle_app_change, handle_window_change)    *)
(* and, when it can get it, a description of the window active by now.    *)
Notify(described) ==
  /\ notes # <<>>
  /\ LET n == Head(notes)
         change == IF n.app THEN [kind |-> "AppChange", app |-> n.win.app]
                   ELSE [kind |-> "WindowChange", title |-> n.win.title]
         info == [kind |-> IF n.app THEN "AppChangeInfo" ELSE "WindowChangeInfo", win |-> active]
     IN inbox' = inbox \o (IF described THEN <<change, info>> ELSE <<change>>)
  /\ notes' = Tail(notes)
  /\ UNCHANGED <<active, w, suspended, worker, switches, errors>>

(* The snapshot stage stores the poll interval of the state it publishes. *)
StorePollInterval ==
  /\ suspended' = (w.out.app = Login)
  /\ suspended' # suspended
  /\ UNCHANGED <<active, notes, inbox, w, worker, switches, errors>>

(* FocusEventWrapper is dropped: Stop is sent and the flag is set. *)
DropWrapper ==
  /\ worker = "run" /\ worker' = "asked"
  /\ inbox' = Append(inbox, [kind |-> "Stop"])
  /\ UNCHANGED <<active, notes, w, suspended, switches, errors>>

-----------------------------------------------------------------------------
(* The worker *)

Exit ==
  /\ worker' = "exited" /\ w' = w

(* The handler has left the local variables as x; a cache that is over its *)
(* capacity forgets an entry.                                              *)
Stored(x) ==
  \E s \in Evicted(x.strong), v \in Evicted(x.weak), l \in Evicted(x.lastTitles) :
     w' = [x EXCEPT !.strong = s, !.weak = v, !.lastTitles = l]

(* `continue` starts the next iteration, otherwise the end of the loop     *)
(* body follows.                                                           *)
Continue(x) == Stored(x)
EndOfLoop(x) == \E y \in {CloseWindow(x)} : \E z \in {EmitDue(y)} : Stored(z)

Handle(x, msg) ==
  \/ msg.kind = "AppChange" /\ \E y \in {OnAppChange(x, msg.app)} : EndOfLoop(y)
  \/ /\ msg.kind = "WindowChange"
     /\ IF KeepsWaiting(x, msg.title) THEN Continue(HoldTitle(x, msg.title))
        ELSE \E y \in {OnWindowChange(x, msg.title)} : EndOfLoop(y)
  \/ /\ msg.kind = "AppChangeInfo"
     /\ IF Ignores(x, msg.win) THEN Continue(x)
        ELSE \E y \in {OnAppChangeInfo(x, msg.win)} : EndOfLoop(y)
  \/ /\ msg.kind = "WindowChangeInfo"
     /\ IF Ignores(x, msg.win) THEN Continue(x)
        ELSE \E y \in {OnWindowChangeInfo(x, msg.win)} : EndOfLoop(y)

Receive ==
  /\ worker \in {"run", "asked"} /\ inbox # <<>>
  /\ inbox' = Tail(inbox)
  /\ IF Head(inbox).kind = "Stop" THEN Exit
     ELSE /\ \E over, due \in BOOLEAN, kept \in SUBSET DOMAIN w.weak :
               \E x \in {Elapse(w, over, due, kept)} : Handle(x, Head(inbox))
          /\ worker' = worker
  /\ UNCHANGED <<active, notes, suspended, switches, errors>>

(* recv_timeout runs out.  It is no shorter than any timer of the worker   *)
(* or the life of a weak title, so these have run out too.  While polling  *)
(* is suspended the timeout only starts the next iteration: nothing due is *)
(* emitted.                                                                *)
Idle == worker \in {"run", "asked"} /\ inbox = <<>> /\ ~suspended
TimedOut == Elapse(w, TRUE, TRUE, {})

PollAnswer ==
  /\ Idle
  /\ \E forgets \in SUBSET {active.wid}, started \in (IF StartMayFail THEN BOOLEAN ELSE {TRUE}) :
       \E x \in {[TimedOut EXCEPT !.lastTitles = Only(@, DOMAIN @ \ forgets)]} :
         IF Ignores(x, active) THEN Continue(x)
         ELSE \E y \in {PollReconciled(Recovered(x, active), active)} :
              \E z \in {RememberTitle(TitleChanged(y, active, started), active)} : EndOfLoop(z)
  /\ UNCHANGED <<active, notes, inbox, suspended, worker, switches, errors>>

(* "No qualifying window found" is what a poll answers on the login screen *)
(* and, now and then, elsewhere; other errors are only logged.             *)
PollFails(lockLike) ==
  /\ Idle
  /\ \/ active.app = Login /\ lockLike /\ errors' = errors
     \/ active.app # Login /\ errors < MaxErrors /\ errors' = errors + 1
  /\ \E x \in {IF lockLike THEN OnLockLikeError(TimedOut) ELSE TimedOut} : EndOfLoop(x)
  /\ UNCHANGED <<active, notes, inbox, suspended, worker, switches>>

SeesStopFlag ==
  /\ worker = "asked" /\ Exit
  /\ UNCHANGED <<active, notes, inbox, suspended, switches, errors>>

Next ==
  \/ \E win \in Window : Switch(win)
  \/ \E described \in BOOLEAN : Notify(described)
  \/ StorePollInterval \/ DropWrapper
  \/ Receive \/ PollAnswer \/ SeesStopFlag
  \/ \E lockLike \in BOOLEAN : PollFails(lockLike)

Spec == Init /\ [][Next]_vars

(* The hook, the pipeline and the worker's thread are scheduled; a poll    *)
(* answers in the end, on the login screen with the lock-like error.       *)
Fairness ==
  /\ WF_vars(\E described \in BOOLEAN : Notify(described))
  /\ WF_vars(StorePollInterval)
  /\ WF_vars(Receive)
  /\ WF_vars(SeesStopFlag)
  /\ WF_vars(active.app # Login /\ PollAnswer)
  /\ WF_vars(active.app = Login /\ PollFails(TRUE))

FairSpec == Spec /\ Fairness

-----------------------------------------------------------------------------
(* Properties *)

TypeOK ==
  /\ active \in Window /\ IsWorker(w)
  /\ inbox \in Seq(Message)
  /\ notes \in Seq([win : Window, app : BOOLEAN])
  /\ suspended \in BOOLEAN /\ worker \in {"run", "asked", "exited"}
  /\ switches \in 0..MaxSwitches /\ errors \in 0..MaxErrors

(* However late the notifications are, the worker never learns one title   *)
(* for two applications: the cache it judges titles by (last_app_window)   *)
(* stays free of titles it took over from the application left before.     *)
(* The login window's own title is accepted unchecked.                     *)
TitlesHaveOneOwner ==
  \A a, b \in DOMAIN w.strong : a # b /\ w.strong[a] = w.strong[b] => w.strong[a] = LoginTitle

(* Once every notification has been passed on and read, the worker is at   *)
(* the application in front, whatever polls, stale descriptions and        *)
(* ignored updates came between.                                           *)
FollowsFocus ==
  notes = <<>> /\ inbox = <<>> /\ worker = "run" => w.app \in {NoApp, active.app}

(* An application change that was only named, never described, while       *)
(* polling is suspended: its emission stays scheduled.                     *)
LeftScheduled == suspended /\ w.emitAt # "none"

(* A lock-like error came before the hook named the login window: the     *)
(* lock is not synthesised a second time, and no title ever arrives.      *)
LockMissed == w.app = Login /\ w.pollLock /\ w.title = Empty

(* A poll noticed a new title in a process it could not look up, or in a   *)
(* window without an id: it changes the state and reports nothing, as that *)
(* path asks for is_complete where others ask for can_emit, and the        *)
(* application change that follows is taken for a duplicate.               *)
NotReported == w.title # Empty /\ (~w.started \/ w.wid = 0)

(* When the user stays in a window, its application is reported in the     *)
(* end, once the hook or a poll has named one, except in the three cases   *)
(* above.                                                                  *)
FocusSettles ==
  <>[](\/ worker # "run" \/ w.app = NoApp
       \/ w.out.app = active.app \/ LeftScheduled \/ LockMissed \/ NotReported)
=============================================================================
