------------------------------ MODULE Activity ------------------------------
(***************************************************************************)
(* What the derivation code of kronical computes from one raw event, as    *)
(* operators on values: the event adapter (crates/core/src/events/         *)
(* adapter.rs), the lock deriver (derive_signal.rs) and the record builder *)
(* (crates/core/src/records.rs).  The modules that give these components   *)
(* their threads and queues extend this one.                               *)
(*                                                                         *)
(* A window stands for the whole WindowFocusInfo of the focused window     *)
(* (process, application, window id) but its title, which either changed   *)
(* since the window was last reported or not.  Keyboard and mouse input    *)
(* are one kind, and so are a change of application and one of window,     *)
(* because every consumer of these envelopes treats the two alike.         *)
(***************************************************************************)
EXTENDS Naturals, Sequences

CONSTANTS Windows,       \* the focusable windows
          LoginWindows,  \* those whose application is "loginwindow"
          NoWindow       \* stands for None where a window is optional

ASSUME WindowsAssumption ==
    /\ LoginWindows \subseteq Windows
    /\ NoWindow \notin Windows

OptWindow == Windows \cup {NoWindow}

-----------------------------------------------------------------------------
(* Activity states and event envelopes *)

ActivityState == {"Active", "Passive", "Inactive", "Locked"}

UnlockedState == ActivityState \ {"Locked"}

NoState == "none"

SignalKind == {"Input", "FocusSignal", "ActivityPulse", "LockStart", "LockEnd"}

\* EventEnvelope: to is the payload of a StateChanged hint, win of a focus one
Envelope == [kind : SignalKind \cup {"FocusChanged", "TitleChanged"},
             win : OptWindow, to : {NoState}]
            \cup [kind : {"StateChanged"}, win : {NoWindow}, to : ActivityState]

IsSignal(env) == env.kind \in SignalKind

Hint == {env \in Envelope : ~IsSignal(env)}

Env(kind, win) == [kind |-> kind, win |-> win, to |-> NoState]

StateHint(to) == [kind |-> "StateChanged", win |-> NoWindow, to |-> to]

\* RawEvent: keyboard or mouse input, or a focus report with its window
RawEvent == [kind : {"input"}, win : {NoWindow}] \cup [kind : {"focus"}, win : Windows]

InputEvent == [kind |-> "input", win |-> NoWindow]

FocusEvent(w) == [kind |-> "focus", win |-> w]

-----------------------------------------------------------------------------
(* EventAdapter::adapt_batch, one raw event at a time: the sequences of    *)
(* envelopes it may yield.  For a window that already had the focus there  *)
(* are two, as its title may have changed or not.                          *)

FocusEnvelopes(w) ==
    IF w \in LoginWindows
    THEN <<Env("FocusSignal", w), Env("FocusChanged", w)>>
    ELSE <<Env("FocusSignal", w), Env("FocusChanged", w),
           Env("ActivityPulse", NoWindow)>>

Adapt(last_focus, e) ==
    CASE e.kind = "input" -> {<<Env("Input", NoWindow)>>}
      [] e.kind = "focus" /\ e.win # last_focus -> {FocusEnvelopes(e.win)}
      [] OTHER -> {<<>>, <<Env("TitleChanged", e.win)>>}

AdapterFocus(last_focus, e) == IF e.kind = "focus" THEN e.win ELSE last_focus

-----------------------------------------------------------------------------
(* LockDeriver::derive, one envelope at a time: what it emits and its flag *)

\* mutation: focus hints are held back while locked
LockOutputHoldsFocus(locked, env) ==
    CASE env.kind = "FocusSignal" /\ env.win \in LoginWindows ->
            IF locked THEN <<>> ELSE <<Env("LockStart", NoWindow)>>
      [] env.kind = "FocusSignal" /\ env.win \notin LoginWindows ->
            IF locked THEN <<Env("LockEnd", NoWindow), env>> ELSE <<env>>
      [] env.kind \in {"LockStart", "LockEnd"} -> <<env>>
      [] OTHER -> IF locked THEN <<>> ELSE <<env>>

LockOutput(locked, env) ==
    CASE env.kind = "FocusSignal" /\ env.win \in LoginWindows ->
            IF locked THEN <<>> ELSE <<Env("LockStart", NoWindow)>>
      [] env.kind = "FocusSignal" /\ env.win \notin LoginWindows ->
            IF locked THEN <<Env("LockEnd", NoWindow), env>> ELSE <<env>>
      [] env.kind \in {"LockStart", "LockEnd", "FocusChanged"} -> <<env>>
      [] OTHER -> IF locked THEN <<>> ELSE <<env>>

\* mutation: the flag is never reset by an ordinary window
LockFlagSticky(locked, env) ==
    CASE env.kind = "FocusSignal" -> locked \/ env.win \in LoginWindows
      [] env.kind = "LockStart"   -> TRUE
      [] env.kind = "LockEnd"     -> FALSE
      [] OTHER                    -> locked

LockFlag(locked, env) ==
    CASE env.kind = "FocusSignal" -> env.win \in LoginWindows
      [] env.kind = "LockStart"   -> TRUE
      [] env.kind = "LockEnd"     -> FALSE
      [] OTHER                    -> locked

\* the envelopes in s announce no lock or unlock, and no focus
NoLockKind(s) == \A i \in 1..Len(s) : s[i].kind \notin {"LockStart", "LockEnd"}

NoFocusKind(s) == \A i \in 1..Len(s) : s[i].kind # "FocusSignal"

-----------------------------------------------------------------------------
(* RecordBuilder: the open record is the newest id handed out *)

RecordBuilder == {b \in [state : ActivityState, focus : OptWindow,
                        open : BOOLEAN, next : Nat] : b.open => b.next > 0}

NewRecordBuilder(next_record_id) ==
    [state |-> "Inactive", focus |-> NoWindow, open |-> FALSE,
     next |-> next_record_id]

\* an on_hint that changes nothing: a title of another window, a state hint
\* for the state the builder is already in
Ignores(b, hint) ==
    \/ hint.kind = "TitleChanged" /\ b.focus # hint.win
    \/ hint.kind = "StateChanged" /\ b.state = hint.to

\* mutation: the id of the record before
FinalizedOffByOne(b) ==
    IF b.open THEN <<[id |-> b.next - 2, state |-> b.state]>> ELSE <<>>

\* finalize_current: the record that ends; its state is the builder's, which
\* only changes by ending the record
Finalized(b) ==
    IF b.open THEN <<[id |-> b.next - 1, state |-> b.state]>> ELSE <<>>

Completed(b, hint) == IF Ignores(b, hint) THEN <<>> ELSE Finalized(b)

\* mutation: a new record under the id of the one it follows
OnHintReusesId(b, hint) ==
    IF Ignores(b, hint) THEN b
    ELSE [state |-> IF hint.kind = "StateChanged" THEN hint.to ELSE b.state,
          focus |-> IF hint.kind = "FocusChanged" THEN hint.win ELSE b.focus,
          open  |-> TRUE,
          next  |-> IF b.open THEN b.next ELSE b.next + 1]

\* on_hint: take over the focus or the state, then start_new_current
OnHint(b, hint) ==
    IF Ignores(b, hint) THEN b
    ELSE [state |-> IF hint.kind = "StateChanged" THEN hint.to ELSE b.state,
          focus |-> IF hint.kind = "FocusChanged" THEN hint.win ELSE b.focus,
          open  |-> TRUE,
          next  |-> b.next + 1]

=============================================================================
