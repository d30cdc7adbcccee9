---------------------------- MODULE FocusProofs -----------------------------
(***************************************************************************)
(* Proofs about the focus worker (module Focus): the worker's variables    *)
(* keep their types, no title is learned for two applications, and the     *)
(* worker follows the application in front, for any set of windows and     *)
(* applications and any number of changes, polls and forgotten entries.    *)
(***************************************************************************)
EXTENDS Focus, SequenceTheorems, TLAPS

(* The worker's title is not one that another application is known by,     *)
(* so that an emission, which learns it, cannot give it a second owner.    *)
Owners(x) ==
  \A a, b \in DOMAIN x.strong : a # b /\ x.strong[a] = x.strong[b] => x.strong[a] = LoginTitle

Free(x, t) ==
  Known(t) /\ t # LoginTitle => \A k \in DOMAIN x.strong : x.strong[k] = t => k = x.app

Sound(x) == IsWorker(x) /\ Owners(x)
Good(x) == Sound(x) /\ Free(x, x.title)

(* The same application and the same learned titles.                       *)
Same(y, x) == y.app = x.app /\ y.strong = x.strong

-----------------------------------------------------------------------------
(* The caches.                                                             *)

(* Put adds one entry and keeps the others.                                *)
LEMMA PutFacts ==
  ASSUME NEW K, NEW c, IsCache(c, K), NEW k \in K, NEW v \in AnyTitle
  PROVE  /\ IsCache(Put(c, k, v), K)
         /\ DOMAIN Put(c, k, v) = DOMAIN c \cup {k}
         /\ Put(c, k, v)[k] = v
         /\ \A j \in DOMAIN c : j # k => Put(c, k, v)[j] = c[j]
BY DEF IsCache, Put

(* Only forgets entries and changes none.                                  *)
LEMMA OnlyFacts ==
  ASSUME NEW K, NEW c, IsCache(c, K), NEW S
  PROVE  /\ IsCache(Only(c, S), K)
         /\ DOMAIN Only(c, S) \subseteq DOMAIN c
         /\ \A j \in DOMAIN Only(c, S) : Only(c, S)[j] = c[j]
BY DEF IsCache, Only

(* So does evict_if_needed.                                                *)
LEMMA EvictedFacts ==
  ASSUME NEW K, NEW c, IsCache(c, K), NEW d \in Evicted(c)
  PROVE  /\ IsCache(d, K)
         /\ DOMAIN d \subseteq DOMAIN c
         /\ \A j \in DOMAIN d : d[j] = c[j]
<1>1. CASE d = c
  BY <1>1
<1>2. CASE \E k \in DOMAIN c : d = Only(c, DOMAIN c \ {k})
  BY <1>2, OnlyFacts
<1> QED
  BY <1>1, <1>2 DEF Evicted

(* An iteration ends with Good variables: forgetting keeps them so.        *)
LEMMA StoredFacts ==
  ASSUME NEW x, Good(x), Stored(x)
  PROVE  Good(w') /\ w'.app = x.app
<1> PICK s \in Evicted(x.strong), v \in Evicted(x.weak), l \in Evicted(x.lastTitles) :
      w' = [x EXCEPT !.strong = s, !.weak = v, !.lastTitles = l]
  BY DEF Stored
<1>1. IsCache(x.strong, App) /\ IsCache(x.weak, App) /\ IsCache(x.lastTitles, Wid)
  BY DEF Good, Sound, IsWorker
<1>2. /\ IsCache(s, App) /\ DOMAIN s \subseteq DOMAIN x.strong
      /\ \A j \in DOMAIN s : s[j] = x.strong[j]
      /\ IsCache(v, App) /\ IsCache(l, Wid)
  BY <1>1, EvictedFacts
<1>3. IsWorker(w') /\ w'.strong = s /\ w'.app = x.app /\ w'.title = x.title
  BY <1>2 DEF Good, Sound, IsWorker
<1>4. Owners(w') /\ Free(w', w'.title)
  BY <1>2, <1>3 DEF Good, Sound, Owners, Free
<1> QED
  BY <1>3, <1>4 DEF Good, Sound

-----------------------------------------------------------------------------
(* The rules for titles: what is accepted is free.                         *)

LEMMA ElapseFacts ==
  ASSUME NEW x, Good(x), NEW over, NEW due, NEW kept
  PROVE  Good(Elapse(x, over, due, kept)) /\ Same(Elapse(x, over, due, kept), x)
<1> DEFINE y == Elapse(x, over, due, kept)
<1>1. IsCache(Only(x.weak, kept), App)
  BY OnlyFacts DEF Good, Sound, IsWorker
<1>2. IsWorker(y) /\ Same(y, x) /\ y.title = x.title
  BY <1>1 DEF Good, Sound, IsWorker, Elapse, Same
<1> QED
  BY <1>2 DEF Good, Sound, Owners, Free, Same

LEMMA RecordWeakFacts ==
  ASSUME NEW x, Sound(x), NEW t \in AnyTitle
  PROVE  /\ Sound(RecordWeak(x, t)) /\ Same(RecordWeak(x, t), x)
         /\ RecordWeak(x, t).title = x.title
<1>1. CASE x.app # NoApp /\ Known(t)
  <2>1. x.app \in App /\ IsCache(x.weak, App)
    BY <1>1 DEF Sound, IsWorker
  <2>2. IsCache(Put(x.weak, x.app, t), App)
    BY <2>1, PutFacts
  <2>3. RecordWeak(x, t) = [x EXCEPT !.weak = Put(x.weak, x.app, t)]
    BY <1>1 DEF RecordWeak
  <2>4. IsWorker(RecordWeak(x, t)) /\ Same(RecordWeak(x, t), x) /\ RecordWeak(x, t).title = x.title
    BY <2>2, <2>3 DEF Sound, IsWorker, Same
  <2> QED
    BY <2>4 DEF Sound, Owners, Same
<1>2. CASE ~(x.app # NoApp /\ Known(t))
  BY <1>2 DEF RecordWeak, Same
<1> QED
  BY <1>1, <1>2

(* The placeholder is free, and so is a title only its own application is  *)
(* known by.                                                               *)
LEMMA ValidatedFacts ==
  ASSUME NEW x, Sound(x), NEW t \in AnyTitle
  PROVE  Validated(x, t) \in AnyTitle /\ Free(x, Validated(x, t))
BY DEF Sound, Owners, Validated, Free, Known, Matches, MatchesOther, AnyTitle, IsWorker, IsCache

LEMMA ReconciledFacts ==
  ASSUME NEW x, Sound(x), NEW t \in AnyTitle
  PROVE  Reconciled(x, t) \in AnyTitle /\ Free(x, Reconciled(x, t))
BY DEF Sound, Owners, Reconciled, Free, Known, Matches, MatchesOther, OfOther, MatchesPrev,
       IsLoginTitle, AnyTitle, IsWorker, IsCache

LEMMA TitleSet ==
  ASSUME NEW x, Sound(x), NEW t \in AnyTitle, Free(x, t)
  PROVE  /\ Good([x EXCEPT !.title = t]) /\ Same([x EXCEPT !.title = t], x)
         /\ [x EXCEPT !.title = t].title = t
<1> DEFINE y == [x EXCEPT !.title = t]
<1>1. IsWorker(y) /\ Same(y, x) /\ y.title = t
  BY DEF Sound, IsWorker, Same
<1> QED
  BY <1>1 DEF Good, Sound, Owners, Free, Same

LEMMA AdoptFacts ==
  ASSUME NEW x, Sound(x), NEW t \in AnyTitle
  PROVE  Good(Adopt(x, t)) /\ Same(Adopt(x, t), x)
<1> DEFINE r == RecordWeak(x, t)
<1>1. Sound(r) /\ Same(r, x)
  BY RecordWeakFacts
<1>2. Validated(r, t) \in AnyTitle /\ Free(r, Validated(r, t))
  BY <1>1, ValidatedFacts
<1>3. Adopt(x, t) = [r EXCEPT !.title = Validated(r, t)]
  BY DEF Adopt
<1> HIDE DEF r
<1>4. Good(Adopt(x, t)) /\ Same(Adopt(x, t), r)
  BY <1>1, <1>2, <1>3, TitleSet
<1> QED
  BY <1>1, <1>4 DEF Same

LEMMA AcceptTitleFacts ==
  ASSUME NEW x, Sound(x), NEW t \in AnyTitle
  PROVE  Good(AcceptTitle(x, t)) /\ Same(AcceptTitle(x, t), x)
<1> DEFINE v == Reconciled(x, t)
           r == RecordWeak(x, v)
<1>1. v \in AnyTitle /\ Free(x, v)
  BY ReconciledFacts
<1>2. AcceptTitle(x, t) = [r EXCEPT !.title = v]
  BY DEF AcceptTitle
<1> HIDE DEF v
<1>3. Sound(r) /\ Same(r, x)
  BY <1>1, RecordWeakFacts
<1>4. Free(r, v)
  BY <1>1, <1>3 DEF Free, Same
<1> HIDE DEF r
<1>5. Good(AcceptTitle(x, t)) /\ Same(AcceptTitle(x, t), r)
  BY <1>1, <1>2, <1>3, <1>4, TitleSet
<1> QED
  BY <1>3, <1>5 DEF Same

-----------------------------------------------------------------------------
(* The parts of a handler.                                                 *)

(* Whatever leaves the application, the title and the learned titles as    *)
(* they are keeps the variables Good.                                      *)
LEMMA GoodKept ==
  ASSUME NEW x, Good(x), NEW y, IsWorker(y), Same(y, x), y.title = x.title
  PROVE  Good(y)
BY DEF Good, Sound, Owners, Free, Same

LEMMA SoundKept ==
  ASSUME NEW x, Sound(x), NEW y, IsWorker(y), y.strong = x.strong
  PROVE  Sound(y)
BY DEF Sound, Owners

LEMMA FixWidFacts ==
  ASSUME NEW x, Good(x)
  PROVE  Good(FixWid(x)) /\ Same(FixWid(x), x)
<1>1. IsWorker(FixWid(x)) /\ Same(FixWid(x), x) /\ FixWid(x).title = x.title
  BY DEF Good, Sound, IsWorker, FixWid, OrLoginWid, Wid, Same
<1> QED
  BY <1>1, GoodKept

LEMMA ScheduleFacts ==
  ASSUME NEW x, Good(x), NEW when \in {"none", "later", "due"}
  PROVE  /\ Good(Schedule(x, when)) /\ Same(Schedule(x, when), x)
         /\ Good(ScheduleIfComplete(x, when)) /\ Same(ScheduleIfComplete(x, when), x)
<1>1. /\ IsWorker(Schedule(x, when)) /\ Same(Schedule(x, when), x)
      /\ Schedule(x, when).title = x.title
  BY DEF Good, Sound, IsWorker, Schedule, Same
<1>2. Good(Schedule(x, when))
  BY <1>1, GoodKept
<1> QED
  BY <1>1, <1>2 DEF ScheduleIfComplete, Same

LEMMA SettledFacts ==
  ASSUME NEW x, Good(x)
  PROVE  Good(Settled(x)) /\ Same(Settled(x), x)
<1>1. IsWorker(Settled(x)) /\ Same(Settled(x), x) /\ Settled(x).title = x.title
  BY DEF Good, Sound, IsWorker, Settled, Same
<1> QED
  BY <1>1, GoodKept

LEMMA WidSet ==
  ASSUME NEW x, Good(x), NEW n \in Wid
  PROVE  Good([x EXCEPT !.wid = n]) /\ Same([x EXCEPT !.wid = n], x)
<1> DEFINE y == [x EXCEPT !.wid = n]
<1>1. IsWorker(y) /\ Same(y, x) /\ y.title = x.title
  BY DEF Good, Sound, IsWorker, Same
<1> QED
  BY <1>1, GoodKept

(* The callback reports the focus, and the title becomes its application's *)
(* own: it is free, so it has one owner still.                             *)
LEMMA EmitFacts ==
  ASSUME NEW x, Good(x), CanEmit(x)
  PROVE  Good(Emit(x)) /\ Emit(x).app = x.app /\ Emit(x).title = x.title
<1> DEFINE r == [x EXCEPT !.out = [app |-> x.app, title |-> x.title, wid |-> x.wid]]
<1>1. IsWorker(r) /\ Same(r, x) /\ r.title = x.title
  BY DEF Good, Sound, IsWorker, Same
<1>2. Good(r)
  BY <1>1, GoodKept
<1>3. Emit(x) = RecordStrong(r)
  BY DEF Emit
<1> HIDE DEF r
<1>4. CASE ~Known(r.title)
  BY <1>1, <1>2, <1>3, <1>4 DEF RecordStrong, Same
<1>5. CASE Known(r.title)
  <2> DEFINE e == [r EXCEPT !.strong = Put(r.strong, r.app, r.title)]
  <2>1. r.app \in App /\ r.title \in AnyTitle /\ IsCache(r.strong, App)
    BY <1>1, <1>2 DEF CanEmit, Good, Sound, IsWorker, Same
  <2>2. /\ IsCache(Put(r.strong, r.app, r.title), App)
        /\ DOMAIN Put(r.strong, r.app, r.title) = DOMAIN r.strong \cup {r.app}
        /\ Put(r.strong, r.app, r.title)[r.app] = r.title
        /\ \A j \in DOMAIN r.strong : j # r.app
              => Put(r.strong, r.app, r.title)[j] = r.strong[j]
    BY <2>1 DEF IsCache, Put
  <2>3. /\ IsWorker(e) /\ e.app = r.app /\ e.title = r.title
        /\ e.strong = Put(r.strong, r.app, r.title)
    BY <1>2, <2>2 DEF Good, Sound, IsWorker
  <2>4. Emit(x) = e
    BY <1>3, <1>5 DEF RecordStrong
  <2> HIDE DEF e
  <2>5. Owners(e)
    BY <1>2, <1>5, <2>2, <2>3 DEF Good, Sound, Owners, Free
  <2>6. Free(e, e.title)
    BY <1>2, <2>2, <2>3 DEF Good, Free
  <2> QED
    BY <1>1, <2>3, <2>4, <2>5, <2>6 DEF Good, Sound, Same
<1> QED
  BY <1>4, <1>5

(* An emission that is due.                                                *)
LEMMA EmitDueFacts ==
  ASSUME NEW x, Good(x)
  PROVE  Good(EmitDue(x)) /\ EmitDue(x).app = x.app
<1>1. CASE x.emitAt = "due" /\ CanEmit(x)
  <2>1. Good(Emit(x)) /\ Emit(x).app = x.app
    BY <1>1, EmitFacts
  <2>2. EmitDue(x) = Schedule(Emit(x), "none")
    BY <1>1 DEF EmitDue
  <2> QED
    BY <2>1, <2>2, ScheduleFacts DEF Same
<1>2. CASE ~(x.emitAt = "due" /\ CanEmit(x))
  BY <1>2 DEF EmitDue
<1> QED
  BY <1>1, <1>2

(* The window of an application change closes.                             *)
LEMMA CloseWindowFacts ==
  ASSUME NEW x, Good(x)
  PROVE  Good(CloseWindow(x)) /\ CloseWindow(x).app = x.app
<1> DEFINE a == IF Held(x, x.pending) THEN Adopt(x, x.pending) ELSE AcceptTitle(x, x.pending)
           y == IF x.pending = NoTitle THEN x
                ELSE [FixWid(a) EXCEPT !.await = TRUE, !.pending = NoTitle]
           z == [y EXCEPT !.coalesce = "none", !.reconcile = FALSE]
<1>1. CASE x.coalesce # "over"
  BY <1>1 DEF CloseWindow
<1>2. CASE x.coalesce = "over"
  <2>1. Good(y) /\ y.app = x.app
    <3>1. CASE x.pending = NoTitle
      BY <3>1
    <3>2. CASE x.pending # NoTitle
      <4>1. x.pending \in AnyTitle
        BY <3>2 DEF Good, Sound, IsWorker
      <4>2. Good(a) /\ a.app = x.app
        BY <4>1, AdoptFacts, AcceptTitleFacts DEF Good, Same
      <4> HIDE DEF a
      <4> DEFINE f == FixWid(a)
      <4>3. Good(f) /\ f.app = x.app
        BY <4>2, FixWidFacts DEF Same
      <4> HIDE DEF f
      <4> DEFINE g == [f EXCEPT !.await = TRUE, !.pending = NoTitle]
      <4>4. IsWorker(g) /\ Same(g, f) /\ g.title = f.title
        BY <4>3 DEF Good, Sound, IsWorker, Same
      <4>5. Good(g) /\ g.app = x.app
        BY <4>3, <4>4, GoodKept DEF Same
      <4>6. y = g
        BY <3>2 DEF f
      <4> QED
        BY <4>5, <4>6
    <3> QED
      BY <3>1, <3>2
  <2>2. CloseWindow(x) = IF CanEmit(z) THEN Schedule(z, "due") ELSE z
    BY <1>2 DEF CloseWindow
  <2> HIDE DEF y
  <2>3. IsWorker(z) /\ Same(z, y) /\ z.title = y.title
    BY <2>1 DEF Good, Sound, IsWorker, Same
  <2>4. Good(z) /\ z.app = x.app
    BY <2>1, <2>3, GoodKept DEF Same
  <2> HIDE DEF z
  <2> QED
    BY <2>2, <2>4, ScheduleFacts DEF Same
<1> QED
  BY <1>1, <1>2

(* The end of the loop body: what the handler leaves Good stays so, and    *)
(* the application is the one the handler chose.                           *)
LEMMA EndOfLoopFacts ==
  ASSUME NEW x, Good(x), EndOfLoop(x)
  PROVE  Good(w') /\ w'.app = x.app
<1>1. Good(CloseWindow(x)) /\ CloseWindow(x).app = x.app
  BY CloseWindowFacts
<1>2. Good(EmitDue(CloseWindow(x))) /\ EmitDue(CloseWindow(x)).app = x.app
  BY <1>1, EmitDueFacts
<1>3. Stored(EmitDue(CloseWindow(x)))
  BY DEF EndOfLoop
<1> QED
  BY <1>2, <1>3, StoredFacts

-----------------------------------------------------------------------------
(* The handlers.                                                           *)

(* What is assumed of a window, as the handlers use it.                    *)
LEMMA WindowFacts ==
  ASSUME NEW win \in Window
  PROVE  win.app \in App /\ win.title \in AnyTitle /\ win.wid \in Wid
BY FocusAssumption DEF Wid, AnyTitle

LEMMA HoldTitleFacts ==
  ASSUME NEW x, Good(x), NEW t \in AnyTitle
  PROVE  Good(HoldTitle(x, t)) /\ HoldTitle(x, t).app = x.app
<1> DEFINE r == RecordWeak(x, t)
<1>1. Sound(r) /\ Same(r, x) /\ r.title = x.title
  BY RecordWeakFacts DEF Good
<1>2. HoldTitle(x, t) = [r EXCEPT !.pending = t]
  BY DEF HoldTitle
<1> HIDE DEF r
<1>3. /\ IsWorker(HoldTitle(x, t)) /\ Same(HoldTitle(x, t), x)
      /\ HoldTitle(x, t).title = x.title
  BY <1>1, <1>2 DEF Sound, IsWorker, Same
<1> QED
  BY <1>3, GoodKept DEF Same

LEMMA FlushFacts ==
  ASSUME NEW x, Good(x)
  PROVE  Good(Flush(x)) /\ Flush(x).app = x.app
<1> DEFINE t == IF x.pending # NoTitle THEN Reconciled(x, x.pending) ELSE x.title
           y == FixWid([x EXCEPT !.title = t])
<1>1. t \in AnyTitle /\ Free(x, t)
  <2>1. CASE x.pending # NoTitle
    <3>1. x.pending \in AnyTitle
      BY <2>1 DEF Good, Sound, IsWorker
    <3> QED
      BY <2>1, <3>1, ReconciledFacts DEF Good
  <2>2. CASE x.pending = NoTitle
    BY <2>2 DEF Good, Sound, IsWorker
  <2> QED
    BY <2>1, <2>2
<1>2. Flush(x) = IF CanEmit(y) THEN Emit(y) ELSE y
  BY DEF Flush
<1> HIDE DEF t
<1> DEFINE s == [x EXCEPT !.title = t]
<1>3. Good(s) /\ s.app = x.app
  BY <1>1, TitleSet DEF Good, Same
<1> HIDE DEF s
<1>4. Good(y) /\ y.app = x.app
  BY <1>3, FixWidFacts DEF Same, s
<1> HIDE DEF y
<1> QED
  BY <1>2, <1>4, EmitFacts

(* AppChange: the application left is reported, the new one has no title   *)
(* yet.                                                                    *)
LEMMA OnAppChangeFacts ==
  ASSUME NEW x, Good(x), NEW app \in App
  PROVE  Good(OnAppChange(x, app)) /\ OnAppChange(x, app).app = app
<1> DEFINE left == [x EXCEPT !.prev = x.app]
           y == IF x.coalesce # "none" /\ (x.pending # NoTitle \/ x.title # Empty)
                THEN Flush(left) ELSE left
           z == [y EXCEPT !.app = app, !.title = Empty, !.wid = OrLoginWid(app, 0),
                    !.started = TRUE, !.pending = NoTitle,
                    !.pollLock = @ /\ app = Login,
                    !.coalesce = IF CoalesceOn THEN "open" ELSE "none",
                    !.reconcile = TRUE, !.await = TRUE, !.emitAt = "later"]
<1>1. CASE x.app = app
  BY <1>1 DEF OnAppChange
<1>2. CASE x.app # app
  <2>1. IsWorker(left) /\ Same(left, x) /\ left.title = x.title
    BY DEF Good, Sound, IsWorker, Same
  <2>2. Good(left)
    BY <2>1, GoodKept
  <2>3. OnAppChange(x, app) = z
    BY <1>2 DEF OnAppChange
  <2> HIDE DEF left
  <2>4. Good(y)
    BY <2>2, FlushFacts
  <2> HIDE DEF y
  <2>5. Empty \in AnyTitle /\ OrLoginWid(app, 0) \in Wid
    BY DEF AnyTitle, OrLoginWid, Wid
  <2>6. IsWorker(z) /\ z.strong = y.strong /\ z.app = app /\ z.title = Empty
    BY <2>4, <2>5 DEF Good, Sound, IsWorker
  <2>7. Sound(z)
    BY <2>4, <2>6, SoundKept DEF Good
  <2>8. Free(z, z.title)
    BY <2>6 DEF Free, Known
  <2> QED
    BY <2>3, <2>6, <2>7, <2>8 DEF Good
<1> QED
  BY <1>1, <1>2

LEMMA OnWindowChangeFacts ==
  ASSUME NEW x, Good(x), NEW t \in AnyTitle
  PROVE  Good(OnWindowChange(x, t)) /\ OnWindowChange(x, t).app = x.app
<1> DEFINE a == IF Held(x, t) THEN Adopt(x, t) ELSE AcceptTitle(x, t)
           y == IF x.reconcile THEN [a EXCEPT !.reconcile = FALSE] ELSE Adopt(x, t)
           z == FixWid(y)
           u == [Schedule(z, "later") EXCEPT !.reconcile = FALSE]
<1>1. CASE t = Empty \/ t = x.title
  BY <1>1 DEF OnWindowChange
<1>2. CASE ~(t = Empty \/ t = x.title)
  <2>1. Good(a) /\ a.app = x.app
    BY AdoptFacts, AcceptTitleFacts DEF Good, Same
  <2>2. Good(Adopt(x, t)) /\ Adopt(x, t).app = x.app
    BY AdoptFacts DEF Good, Same
  <2>3. OnWindowChange(x, t) = IF Complete(z) THEN u ELSE z
    BY <1>2 DEF OnWindowChange
  <2> HIDE DEF a
  <2> DEFINE b == [a EXCEPT !.reconcile = FALSE]
  <2>4. IsWorker(b) /\ Same(b, a) /\ b.title = a.title
    BY <2>1 DEF Good, Sound, IsWorker, Same
  <2>5. Good(b) /\ b.app = x.app
    BY <2>1, <2>4, GoodKept DEF Same
  <2>6. Good(y) /\ y.app = x.app
    BY <2>2, <2>5
  <2> HIDE DEF y
  <2>7. Good(z) /\ z.app = x.app
    BY <2>6, FixWidFacts DEF Same
  <2> HIDE DEF z
  <2> DEFINE s == Schedule(z, "later")
  <2>8. Good(s) /\ s.app = x.app
    BY <2>7, ScheduleFacts DEF Same
  <2>9. u = [s EXCEPT !.reconcile = FALSE]
    OBVIOUS
  <2> HIDE DEF s, u
  <2>10. IsWorker(u) /\ Same(u, s) /\ u.title = s.title
    BY <2>8, <2>9 DEF Good, Sound, IsWorker, Same
  <2>11. Good(u) /\ u.app = x.app
    BY <2>8, <2>10, GoodKept DEF Same
  <2> QED
    BY <2>3, <2>7, <2>11
<1> QED
  BY <1>1, <1>2

LEMMA IdentifyFacts ==
  ASSUME NEW x, Sound(x), NEW app \in App
  PROVE  Sound(Identify(x, app)) /\ Identify(x, app).app = app
<1>1. /\ IsWorker(Identify(x, app)) /\ Identify(x, app).strong = x.strong
      /\ Identify(x, app).app = app
  BY DEF Sound, IsWorker, Identify
<1> QED
  BY <1>1, SoundKept

LEMMA DescribeFacts ==
  ASSUME NEW x, Sound(x), NEW win \in Window
  PROVE  Good(Describe(x, win)) /\ Describe(x, win).app = x.app
<1> DEFINE a == Adopt(x, win.title)
           s == Settled(a)
           n == OrLoginWid(x.app, win.wid)
<1>1. Good(a) /\ Same(a, x)
  BY WindowFacts, AdoptFacts
<1>2. n \in Wid
  BY WindowFacts DEF OrLoginWid, Wid
<1>3. Describe(x, win) = [s EXCEPT !.wid = n]
  BY DEF Describe
<1> HIDE DEF a, n
<1>4. Good(s) /\ s.app = x.app
  BY <1>1, SettledFacts DEF Same
<1> HIDE DEF s
<1> QED
  BY <1>2, <1>3, <1>4, WidSet DEF Same

LEMMA OnAppChangeInfoFacts ==
  ASSUME NEW x, Good(x), NEW win \in Window
  PROVE  Good(OnAppChangeInfo(x, win)) /\ OnAppChangeInfo(x, win).app = win.app
<1> DEFINE i == Identify(x, win.app)
           d == Describe(i, win)
<1>1. Sound(i) /\ i.app = win.app
  BY WindowFacts, IdentifyFacts DEF Good
<1> HIDE DEF i
<1>2. Good(d) /\ d.app = win.app
  BY <1>1, DescribeFacts
<1>3. OnAppChangeInfo(x, win) = ScheduleIfComplete(d, "due")
  BY DEF OnAppChangeInfo, i
<1> HIDE DEF d
<1> QED
  BY <1>2, <1>3, ScheduleFacts DEF Same

LEMMA OnWindowChangeInfoFacts ==
  ASSUME NEW x, Good(x), NEW win \in Window
  PROVE  Good(OnWindowChangeInfo(x, win)) /\ OnWindowChangeInfo(x, win).app = win.app
<1> DEFINE i == IF x.app # win.app THEN Identify(x, win.app) ELSE x
           d == Describe(i, win)
<1>1. Sound(i) /\ i.app = win.app
  BY WindowFacts, IdentifyFacts DEF Good
<1>2. OnWindowChangeInfo(x, win) = ScheduleIfComplete(d, "due")
  BY DEF OnWindowChangeInfo
<1> HIDE DEF i
<1>3. Good(d) /\ d.app = win.app
  BY <1>1, DescribeFacts
<1> HIDE DEF d
<1> QED
  BY <1>2, <1>3, ScheduleFacts DEF Same

(* The poll either leaves the application or moves to that of the window   *)
(* it describes.                                                           *)
LEMMA RecoveredFacts ==
  ASSUME NEW x, Good(x), NEW win \in Window
  PROVE  Good(Recovered(x, win)) /\ Recovered(x, win).app \in {x.app, win.app}
<1> DEFINE y == [x EXCEPT !.pollLock = FALSE, !.app = win.app, !.started = TRUE]
           a == Adopt(y, win.title)
           s == Settled(a)
           n == [s EXCEPT !.wid = win.wid]
<1>1. CASE ~x.pollLock
  BY <1>1 DEF Recovered
<1>2. CASE x.pollLock
  <2>1. Recovered(x, win) = Schedule(n, "due")
    BY <1>2 DEF Recovered
  <2>2. IsWorker(y) /\ y.strong = x.strong /\ y.app = win.app
    BY WindowFacts DEF Good, Sound, IsWorker
  <2>3. Sound(y)
    BY <2>2, SoundKept DEF Good
  <2> HIDE DEF y
  <2>4. Good(a) /\ a.app = win.app
    BY <2>2, <2>3, WindowFacts, AdoptFacts DEF Same
  <2> HIDE DEF a
  <2>5. Good(s) /\ s.app = win.app
    BY <2>4, SettledFacts DEF Same
  <2> HIDE DEF s
  <2>6. Good(n) /\ n.app = win.app
    BY <2>5, WindowFacts, WidSet DEF Same
  <2> HIDE DEF n
  <2> QED
    BY <2>1, <2>6, ScheduleFacts DEF Same
<1> QED
  BY <1>1, <1>2

LEMMA PollReconciledFacts ==
  ASSUME NEW x, Good(x), NEW win \in Window
  PROVE  Good(PollReconciled(x, win)) /\ PollReconciled(x, win).app = x.app
<1> DEFINE y == [x EXCEPT !.started = TRUE]
           d == Describe(y, win)
<1>1. CASE ~(x.await /\ x.app = win.app)
  BY <1>1 DEF PollReconciled
<1>2. CASE x.await /\ x.app = win.app
  <2>1. PollReconciled(x, win) = Schedule(d, "due")
    BY <1>2 DEF PollReconciled
  <2>2. IsWorker(y) /\ y.strong = x.strong /\ y.app = x.app
    BY DEF Good, Sound, IsWorker
  <2>3. Sound(y)
    BY <2>2, SoundKept DEF Good
  <2> HIDE DEF y
  <2>4. Good(d) /\ d.app = x.app
    BY <2>2, <2>3, DescribeFacts
  <2> HIDE DEF d
  <2> QED
    BY <2>1, <2>4, ScheduleFacts DEF Same
<1> QED
  BY <1>1, <1>2

LEMMA TitleChangedFacts ==
  ASSUME NEW x, Good(x), NEW win \in Window, NEW started \in BOOLEAN
  PROVE  /\ Good(TitleChanged(x, win, started))
         /\ TitleChanged(x, win, started).app \in {x.app, win.app}
<1> DEFINE y == IF x.app = win.app THEN x ELSE [x EXCEPT !.app = win.app, !.started = started]
           a == Adopt(y, win.title)
           n == [a EXCEPT !.wid = win.wid]
<1>1. CASE ~(win.wid \in DOMAIN x.lastTitles /\ x.lastTitles[win.wid] # win.title)
  BY <1>1 DEF TitleChanged
<1>2. CASE win.wid \in DOMAIN x.lastTitles /\ x.lastTitles[win.wid] # win.title
  <2>1. TitleChanged(x, win, started) = ScheduleIfComplete(n, "due")
    BY <1>2 DEF TitleChanged
  <2>2. IsWorker(y) /\ y.strong = x.strong /\ y.app = win.app
    <3>1. CASE x.app = win.app
      BY <3>1 DEF Good, Sound
    <3>2. CASE x.app # win.app
      BY <3>2, WindowFacts DEF Good, Sound, IsWorker
    <3> QED
      BY <3>1, <3>2
  <2>3. Sound(y)
    BY <2>2, SoundKept DEF Good
  <2> HIDE DEF y
  <2>4. Good(a) /\ a.app = win.app
    BY <2>2, <2>3, WindowFacts, AdoptFacts DEF Same
  <2> HIDE DEF a
  <2>5. Good(n) /\ n.app = win.app
    BY <2>4, WindowFacts, WidSet DEF Same
  <2> HIDE DEF n
  <2> QED
    BY <2>1, <2>5, ScheduleFacts DEF Same
<1> QED
  BY <1>1, <1>2

LEMMA RememberTitleFacts ==
  ASSUME NEW x, Good(x), NEW win \in Window
  PROVE  Good(RememberTitle(x, win)) /\ RememberTitle(x, win).app = x.app
<1>1. IsCache(x.lastTitles, Wid)
  BY DEF Good, Sound, IsWorker
<1>2. IsCache(Put(x.lastTitles, win.wid, win.title), Wid)
  BY <1>1, WindowFacts, PutFacts
<1>3. /\ IsWorker(RememberTitle(x, win)) /\ Same(RememberTitle(x, win), x)
      /\ RememberTitle(x, win).title = x.title
  BY <1>2 DEF Good, Sound, IsWorker, RememberTitle, Same
<1> QED
  BY <1>3, GoodKept DEF Same

LEMMA ForgetTitleFacts ==
  ASSUME NEW x, Good(x), NEW S
  PROVE  /\ Good([x EXCEPT !.lastTitles = Only(x.lastTitles, S)])
         /\ [x EXCEPT !.lastTitles = Only(x.lastTitles, S)].app = x.app
<1> DEFINE y == [x EXCEPT !.lastTitles = Only(x.lastTitles, S)]
<1>1. IsCache(Only(x.lastTitles, S), Wid)
  BY OnlyFacts DEF Good, Sound, IsWorker
<1>2. IsWorker(y) /\ Same(y, x) /\ y.title = x.title
  BY <1>1 DEF Good, Sound, IsWorker, Same
<1> QED
  BY <1>2, GoodKept DEF Same

LEMMA OnLockLikeErrorFacts ==
  ASSUME NEW x, Good(x)
  PROVE  Good(OnLockLikeError(x)) /\ OnLockLikeError(x).app = x.app
<1>1. CASE x.pollLock
  BY <1>1 DEF OnLockLikeError
<1>2. CASE ~x.pollLock
  <2> DEFINE o == IF x.app = Login THEN LoginFocus ELSE x.out
  <2>1. o \in [app : App \cup {NoApp}, title : AnyTitle, wid : Wid]
    BY FocusAssumption DEF LoginFocus, Good, Sound, IsWorker, AnyTitle, Wid
  <2>2. OnLockLikeError(x) = [x EXCEPT !.pollLock = TRUE, !.out = o]
    BY <1>2 DEF OnLockLikeError
  <2> HIDE DEF o
  <2>3. /\ IsWorker(OnLockLikeError(x)) /\ Same(OnLockLikeError(x), x)
        /\ OnLockLikeError(x).title = x.title
    BY <2>1, <2>2 DEF Good, Sound, IsWorker, Same
  <2> QED
    BY <2>3, GoodKept DEF Same
<1> QED
  BY <1>1, <1>2

-----------------------------------------------------------------------------
(* One iteration of the loop.                                              *)

(* A message leaves the worker at its application or takes it to the one   *)
(* the message names; AppChange always does.                               *)
NamedBy(msg, app) ==
  \/ msg.kind = "AppChange" /\ msg.app = app
  \/ msg.kind \in {"AppChangeInfo", "WindowChangeInfo"} /\ msg.win.app = app

LEMMA HandleFacts ==
  ASSUME NEW x, Good(x), NEW msg \in Message, Handle(x, msg)
  PROVE  /\ Good(w')
         /\ w'.app = x.app \/ NamedBy(msg, w'.app)
         /\ msg.kind = "AppChange" => w'.app = msg.app
<1>1. CASE msg.kind = "AppChange" /\ EndOfLoop(OnAppChange(x, msg.app))
  <2>1. msg.app \in App
    BY <1>1 DEF Message
  <2> QED
    BY <1>1, <2>1, OnAppChangeFacts, EndOfLoopFacts DEF NamedBy
<1>2. CASE msg.kind = "WindowChange"
           /\ IF KeepsWaiting(x, msg.title) THEN Continue(HoldTitle(x, msg.title))
              ELSE EndOfLoop(OnWindowChange(x, msg.title))
  <2>1. msg.title \in AnyTitle
    BY <1>2 DEF Message
  <2>2. CASE KeepsWaiting(x, msg.title)
    BY <1>2, <2>1, <2>2, HoldTitleFacts, StoredFacts DEF Continue
  <2>3. CASE ~KeepsWaiting(x, msg.title)
    BY <1>2, <2>1, <2>3, OnWindowChangeFacts, EndOfLoopFacts
  <2> QED
    BY <1>2, <2>2, <2>3
<1>3. CASE msg.kind = "AppChangeInfo"
           /\ IF Ignores(x, msg.win) THEN Continue(x) ELSE EndOfLoop(OnAppChangeInfo(x, msg.win))
  <2>1. msg.win \in Window
    BY <1>3 DEF Message
  <2>2. CASE Ignores(x, msg.win)
    BY <1>3, <2>2, StoredFacts DEF Continue
  <2>3. CASE ~Ignores(x, msg.win)
    BY <1>3, <2>1, <2>3, OnAppChangeInfoFacts, EndOfLoopFacts DEF NamedBy
  <2> QED
    BY <1>3, <2>2, <2>3
<1>4. CASE msg.kind = "WindowChangeInfo"
           /\ IF Ignores(x, msg.win) THEN Continue(x) ELSE EndOfLoop(OnWindowChangeInfo(x, msg.win))
  <2>1. msg.win \in Window
    BY <1>4 DEF Message
  <2>2. CASE Ignores(x, msg.win)
    BY <1>4, <2>2, StoredFacts DEF Continue
  <2>3. CASE ~Ignores(x, msg.win)
    BY <1>4, <2>1, <2>3, OnWindowChangeInfoFacts, EndOfLoopFacts DEF NamedBy
  <2> QED
    BY <1>4, <2>2, <2>3
<1> QED
  BY <1>1, <1>2, <1>3, <1>4 DEF Handle

-----------------------------------------------------------------------------
(* The inductive invariant.                                                *)

(* A change to the application in front waits in the notes after the n-th, *)
(* or in the worker's channel after the n-th message.                      *)
ChangeTo(note, app) == note.app /\ note.win.app = app
Noted(n) == \E j \in (n + 1)..Len(notes) : ChangeTo(notes[j], active.app)
Queued(n) == \E j \in (n + 1)..Len(inbox) :
                inbox[j].kind = "AppChange" /\ inbox[j].app = active.app

(* Whatever takes the worker to another application than the one in front  *)
(* is followed by a change to that one.  FollowsFocus alone is not         *)
(* inductive: a stale description may still be on its way.                 *)
Followed ==
  /\ w.app \notin {NoApp, active.app} => Queued(0) \/ Noted(0)
  /\ \A i \in 1..Len(inbox) : \A a \in App \ {active.app} :
        NamedBy(inbox[i], a) => Queued(i) \/ Noted(0)
  /\ \A i \in 1..Len(notes) : notes[i].app /\ notes[i].win.app # active.app => Noted(i)

IInv == TypeOK /\ Good(w) /\ Followed

-----------------------------------------------------------------------------
(* What the worker's steps do to its variables.                            *)

LEMMA ReceiveWorker ==
  ASSUME TypeOK, Good(w), Receive
  PROVE  /\ Good(w')
         /\ w'.app = w.app \/ NamedBy(Head(inbox), w'.app)
         /\ Head(inbox).kind = "AppChange" => w'.app = Head(inbox).app
<1>1. Head(inbox) \in Message
  BY DEF TypeOK, Receive
<1>2. CASE Head(inbox).kind = "Stop"
  BY <1>2 DEF Receive, Exit
<1>3. CASE Head(inbox).kind # "Stop"
  <2> PICK over \in BOOLEAN, due \in BOOLEAN, kept \in SUBSET DOMAIN w.weak :
        Handle(Elapse(w, over, due, kept), Head(inbox))
    BY <1>3 DEF Receive
  <2> DEFINE x == Elapse(w, over, due, kept)
  <2>1. Good(x) /\ x.app = w.app
    BY ElapseFacts DEF Same
  <2> HIDE DEF x
  <2>2. Handle(x, Head(inbox))
    BY DEF x
  <2> QED
    BY <1>1, <2>1, <2>2, HandleFacts
<1> QED
  BY <1>2, <1>3

LEMMA TimedOutFacts ==
  ASSUME Good(w)
  PROVE  Good(TimedOut) /\ TimedOut.app = w.app
<1>1. Good(Elapse(w, TRUE, TRUE, {})) /\ Same(Elapse(w, TRUE, TRUE, {}), w)
  BY ElapseFacts, Zenon
<1> QED
  BY <1>1 DEF TimedOut, Same

LEMMA PollAnswerWorker ==
  ASSUME TypeOK, Good(w), PollAnswer
  PROVE  Good(w') /\ w'.app \in {w.app, active.app}
<1> active \in Window
  BY DEF TypeOK
<1> PICK forgets \in SUBSET {active.wid}, started \in BOOLEAN :
      \E x \in {[TimedOut EXCEPT !.lastTitles = Only(@, DOMAIN @ \ forgets)]} :
         IF Ignores(x, active) THEN Continue(x)
         ELSE \E y \in {PollReconciled(Recovered(x, active), active)} :
              \E z \in {RememberTitle(TitleChanged(y, active, started), active)} : EndOfLoop(z)
  BY DEF PollAnswer
<1> DEFINE o == TimedOut
           S == DOMAIN o.lastTitles \ forgets
           x == [o EXCEPT !.lastTitles = Only(o.lastTitles, S)]
           r == Recovered(x, active)
           y == PollReconciled(r, active)
           t == TitleChanged(y, active, started)
           z == RememberTitle(t, active)
<1>1. IF Ignores(x, active) THEN Continue(x) ELSE EndOfLoop(z)
  OBVIOUS
<1>2. Good(o) /\ o.app = w.app
  BY TimedOutFacts
<1> HIDE DEF o, S
<1>3. Good(x) /\ x.app = w.app
  BY <1>2, ForgetTitleFacts
<1> HIDE DEF x
<1>4. Good(r) /\ r.app \in {w.app, active.app}
  BY <1>3, RecoveredFacts
<1> HIDE DEF r
<1>5. Good(y) /\ y.app \in {w.app, active.app}
  BY <1>4, PollReconciledFacts
<1> HIDE DEF y
<1>6. Good(t) /\ t.app \in {w.app, active.app}
  BY <1>5, TitleChangedFacts
<1> HIDE DEF t
<1>7. Good(z) /\ z.app \in {w.app, active.app}
  BY <1>6, RememberTitleFacts
<1> HIDE DEF z
<1> QED
  BY <1>1, <1>3, <1>7, StoredFacts, EndOfLoopFacts DEF Continue

LEMMA PollFailsWorker ==
  ASSUME TypeOK, Good(w), NEW lockLike \in BOOLEAN, PollFails(lockLike)
  PROVE  Good(w') /\ w'.app = w.app
<1> DEFINE x == IF lockLike THEN OnLockLikeError(TimedOut) ELSE TimedOut
<1>1. EndOfLoop(x)
  BY DEF PollFails
<1>2. Good(x) /\ x.app = w.app
  BY TimedOutFacts, OnLockLikeErrorFacts
<1> HIDE DEF x
<1> QED
  BY <1>1, <1>2, EndOfLoopFacts

-----------------------------------------------------------------------------
(* Types, and the worker's titles.                                         *)

LEMMA GoodInit == Init => TypeOK /\ Good(w)
<1> SUFFICES ASSUME Init PROVE TypeOK /\ Good(w)
  OBVIOUS
<1>1. IsCache(<<>>, App) /\ IsCache(<<>>, Wid) /\ DOMAIN <<>> = {}
  BY DEF IsCache
<1>2. /\ w.app = NoApp /\ w.title = Empty /\ w.strong = <<>>
      /\ IsWorker(w)
  BY <1>1 DEF Init, IsWorker, NoFocus, AnyTitle, Wid
<1>3. Good(w)
  BY <1>1, <1>2 DEF Good, Sound, Owners, Free, Known
<1>4. switches \in 0..MaxSwitches /\ errors \in 0..MaxErrors
  BY FocusAssumption DEF Init
<1>5. notes \in Seq([win : Window, app : BOOLEAN]) /\ inbox \in Seq(Message)
  <2>1. \A S : <<>> \in Seq(S)
    OBVIOUS
  <2> QED
    BY <2>1, Zenon DEF Init
<1>6. active \in Window /\ suspended \in BOOLEAN /\ worker \in {"run", "asked", "exited"}
  BY Zenon DEF Init
<1>7. TypeOK
  BY <1>2, <1>4, <1>5, <1>6, Zenon DEF TypeOK
<1> QED
  BY <1>3, <1>7

LEMMA GoodStep == TypeOK /\ Good(w) /\ [Next]_vars => TypeOK' /\ Good(w')
<1> SUFFICES ASSUME TypeOK, Good(w), [Next]_vars PROVE TypeOK' /\ Good(w')
  OBVIOUS
<1>0. ASSUME Good(w') PROVE IsWorker(w)'
  BY <1>0 DEF Good, Sound, IsWorker, IsCache
<1>1. ASSUME NEW win \in Window, Switch(win) PROVE TypeOK' /\ Good(w')
  <2>1. Append(notes, [win |-> win, app |-> win.app # active.app])
          \in Seq([win : Window, app : BOOLEAN])
    BY DEF TypeOK
  <2>2. switches' \in 0..MaxSwitches
    BY <1>1, FocusAssumption DEF TypeOK, Switch
  <2> QED
    BY <1>0, <1>1, <2>1, <2>2 DEF TypeOK, Switch
<1>2. ASSUME NEW described \in BOOLEAN, Notify(described) PROVE TypeOK' /\ Good(w')
  <2> DEFINE n == Head(notes)
             change == IF n.app THEN [kind |-> "AppChange", app |-> n.win.app]
                       ELSE [kind |-> "WindowChange", title |-> n.win.title]
             info == [kind |-> IF n.app THEN "AppChangeInfo" ELSE "WindowChangeInfo",
                      win |-> active]
  <2>0. notes \in Seq([win : Window, app : BOOLEAN]) /\ notes # <<>>
    BY <1>2 DEF TypeOK, Notify
  <2>1. n \in [win : Window, app : BOOLEAN] /\ Tail(notes) \in Seq([win : Window, app : BOOLEAN])
    BY <2>0, HeadTailProperties, Zenon
  <2>2. change \in Message
    BY <2>1, WindowFacts DEF Message
  <2>3. info \in Message
    BY <2>1 DEF TypeOK, Message
  <2>4. /\ inbox' = inbox \o (IF described THEN <<change, info>> ELSE <<change>>)
        /\ notes' = Tail(notes)
    BY <1>2 DEF Notify
  <2> HIDE DEF n, change, info
  <2>5. <<change, info>> \in Seq(Message) /\ <<change>> \in Seq(Message)
    BY <2>2, <2>3
  <2>6. inbox' \in Seq(Message)
    BY <2>4, <2>5, ConcatProperties DEF TypeOK
  <2> QED
    BY <1>0, <1>2, <2>1, <2>4, <2>6 DEF TypeOK, Notify
<1>3. ASSUME StorePollInterval PROVE TypeOK' /\ Good(w')
  BY <1>0, <1>3 DEF TypeOK, StorePollInterval
<1>4. ASSUME DropWrapper PROVE TypeOK' /\ Good(w')
  <2>1. [kind |-> "Stop"] \in Message
    BY DEF Message
  <2>2. Append(inbox, [kind |-> "Stop"]) \in Seq(Message)
    BY <2>1 DEF TypeOK
  <2> QED
    BY <1>0, <1>4, <2>2 DEF TypeOK, DropWrapper
<1>5. ASSUME Receive PROVE TypeOK' /\ Good(w')
  <2>1. Good(w')
    BY <1>5, ReceiveWorker
  <2>2. inbox' \in Seq(Message) /\ worker' \in {"run", "asked", "exited"}
    BY <1>5 DEF TypeOK, Receive, Exit
  <2> QED
    BY <1>0, <1>5, <2>1, <2>2 DEF TypeOK, Receive
<1>6. ASSUME PollAnswer PROVE TypeOK' /\ Good(w')
  BY <1>0, <1>6, PollAnswerWorker DEF TypeOK, PollAnswer
<1>7. ASSUME SeesStopFlag PROVE TypeOK' /\ Good(w')
  BY <1>0, <1>7 DEF TypeOK, SeesStopFlag, Exit
<1>8. ASSUME NEW lockLike \in BOOLEAN, PollFails(lockLike) PROVE TypeOK' /\ Good(w')
  <2>1. errors' \in 0..MaxErrors
    BY <1>8, FocusAssumption DEF TypeOK, PollFails
  <2> QED
    BY <1>0, <1>8, <2>1, PollFailsWorker DEF TypeOK, PollFails
<1>9. ASSUME UNCHANGED vars PROVE TypeOK' /\ Good(w')
  BY <1>0, <1>9 DEF TypeOK, vars
<1> QED
  BY <1>1, <1>2, <1>3, <1>4, <1>5, <1>6, <1>7, <1>8, <1>9 DEF Next

-----------------------------------------------------------------------------
(* The worker follows the application in front.                            *)

(* What a step leaves of the notes and of the channel, element by element. *)
LEMMA TailElements ==
  ASSUME NEW S, NEW s \in Seq(S), s # <<>>
  PROVE  /\ Len(s) \in Nat \ {0} /\ Head(s) = s[1]
         /\ Len(Tail(s)) = Len(s) - 1
         /\ \A i \in 1..(Len(s) - 1) : Tail(s)[i] = s[i + 1]
BY HeadTailProperties

LEMMA AppendElements ==
  ASSUME NEW S, NEW s \in Seq(S), NEW e
  PROVE  /\ Len(s) \in Nat /\ Len(Append(s, e)) = Len(s) + 1
         /\ \A i \in 1..Len(s) : Append(s, e)[i] = s[i]
         /\ Append(s, e)[Len(s) + 1] = e
OBVIOUS

(* A switch: the note of it comes last.                                    *)
LEMMA FollowedSwitch ==
  ASSUME TypeOK, Followed, NEW win \in Window, Switch(win)
  PROVE  Followed'
<1> DEFINE n == [win |-> win, app |-> win.app # active.app]
<1>1. /\ active' = win /\ inbox' = inbox /\ w' = w /\ notes' = Append(notes, n)
  BY DEF Switch
<1>2. n.win = win /\ (n.app <=> win.app # active.app)
  OBVIOUS
<1>3. Len(inbox) \in Nat
  BY DEF TypeOK
<1>4. /\ Len(notes) \in Nat /\ Len(notes') = Len(notes) + 1
      /\ \A i \in 1..Len(notes) : notes'[i] = notes[i]
      /\ notes'[Len(notes) + 1] = n
  BY <1>1, AppendElements DEF TypeOK
<1> HIDE DEF n
<1>5. CASE win.app # active.app
  <2>1. \A i \in 0..Len(notes) : Noted(i)'
    BY <1>1, <1>2, <1>4, <1>5 DEF Noted, ChangeTo
  <2>2. Noted(0)'
    BY <1>4, <2>1
  <2>3. \A i \in 1..Len(notes') : notes'[i].win.app # active'.app => i \in 0..Len(notes)
    BY <1>1, <1>2, <1>4
  <2> QED
    BY <2>1, <2>2, <2>3 DEF Followed
<1>6. CASE win.app = active.app
  <2>1. \A i \in Nat : (Noted(i) => Noted(i)') /\ (Queued(i) => Queued(i)')
    BY <1>1, <1>3, <1>4, <1>6 DEF Noted, Queued
  <2>2. w'.app \notin {NoApp, active'.app} => Queued(0)' \/ Noted(0)'
    BY <1>1, <1>6, <2>1 DEF Followed
  <2>3. \A i \in 1..Len(inbox') : \A a \in App \ {active'.app} :
           NamedBy(inbox'[i], a) => Queued(i)' \/ Noted(0)'
    BY <1>1, <1>3, <1>6, <2>1 DEF Followed
  <2>4. \A i \in 1..Len(notes') : notes'[i].app /\ notes'[i].win.app # active'.app => Noted(i)'
    BY <1>1, <1>2, <1>4, <1>6, <2>1 DEF Followed
  <2> QED
    BY <2>2, <2>3, <2>4 DEF Followed, NamedBy
<1> QED
  BY <1>5, <1>6

(* The worker reads a message.                                             *)
LEMMA FollowedReceive ==
  ASSUME TypeOK, Good(w), Followed, Receive
  PROVE  Followed'
<1>1. /\ w'.app = w.app \/ NamedBy(inbox[1], w'.app)
      /\ inbox[1].kind = "AppChange" => w'.app = inbox[1].app
      /\ w'.app \in App \cup {NoApp}
  BY ReceiveWorker, TailElements DEF TypeOK, Receive, Good, Sound, IsWorker
<1>2. /\ Len(inbox) \in Nat \ {0} /\ Len(inbox') = Len(inbox) - 1
      /\ \A i \in 1..Len(inbox') : inbox'[i] = inbox[i + 1]
  BY TailElements DEF TypeOK, Receive
<1>2a. \A j \in 2..Len(inbox) : j - 1 \in 1..Len(inbox') /\ inbox'[j - 1] = inbox[j]
  BY <1>2
<1>3. active' = active /\ notes' = notes
  BY DEF Receive
<1>4. \A i \in Nat : Queued(i + 1) => Queued(i)'
  <2> SUFFICES ASSUME NEW i \in Nat, Queued(i + 1)
               PROVE  Queued(i)'
    OBVIOUS
  <2>1. PICK j \in ((i + 1) + 1)..Len(inbox) :
                inbox[j].kind = "AppChange" /\ inbox[j].app = active.app
    BY DEF Queued
  <2>2. j \in 2..Len(inbox) /\ j - 1 \in (i + 1)..Len(inbox')
    BY <1>2, <2>1
  <2>3. inbox'[j - 1] = inbox[j]
    BY <1>2a, <2>2
  <2> QED
    BY <1>3, <2>1, <2>2, <2>3 DEF Queued
<1>5. \A i \in Nat : Noted(i) => Noted(i)'
  BY <1>3 DEF Noted
<1>6. Queued(0) => Queued(0)' \/ w'.app = active.app
  BY <1>1, <1>2, <1>2a, <1>3 DEF Queued
<1>7. w'.app \notin {NoApp, active'.app} => Queued(0)' \/ Noted(0)'
  <2>1. CASE w'.app = w.app
    BY <1>3, <1>5, <1>6, <2>1 DEF Followed
  <2>2. CASE NamedBy(inbox[1], w'.app)
    <3>1. w'.app \notin {NoApp, active.app} => Queued(1) \/ Noted(0)
      BY <1>1, <1>2, <2>2 DEF Followed
    <3> QED
      BY <1>3, <1>4, <1>5, <3>1
  <2> QED
    BY <1>1, <2>1, <2>2
<1>8. \A i \in 1..Len(inbox') : \A a \in App \ {active'.app} :
         NamedBy(inbox'[i], a) => Queued(i)' \/ Noted(0)'
  BY <1>2, <1>3, <1>4, <1>5 DEF Followed
<1>9. \A i \in 1..Len(notes') : notes'[i].app /\ notes'[i].win.app # active'.app => Noted(i)'
  <2>1. Len(notes) \in Nat
    BY DEF TypeOK
  <2> QED
    BY <1>3, <1>5, <2>1 DEF Followed
<1> QED
  BY <1>7, <1>8, <1>9 DEF Followed, NamedBy

(* The hook passes a note on: the change it names goes to the end of the   *)
(* channel, and a description is of the window in front.                   *)
LEMMA FollowedNotify ==
  ASSUME TypeOK, Followed, NEW described \in BOOLEAN, Notify(described)
  PROVE  Followed'
<1> DEFINE n == Head(notes)
           change == IF n.app THEN [kind |-> "AppChange", app |-> n.win.app]
                     ELSE [kind |-> "WindowChange", title |-> n.win.title]
           info == [kind |-> IF n.app THEN "AppChangeInfo" ELSE "WindowChangeInfo",
                    win |-> active]
           new == IF described THEN <<change, info>> ELSE <<change>>
           L == Len(inbox)
<1>1. inbox' = inbox \o new /\ notes' = Tail(notes) /\ active' = active /\ w' = w
  BY DEF Notify
<1>2. /\ n.app => change.kind = "AppChange" /\ change.app = n.win.app
      /\ ~n.app => change.kind = "WindowChange"
  OBVIOUS
<1>3. info.kind # "AppChange" /\ info.win.app = active.app
  OBVIOUS
<1>4. n = notes[1] /\ Len(notes) \in Nat \ {0} /\ Len(notes') = Len(notes) - 1
      /\ \A i \in 1..Len(notes') : notes'[i] = notes[i + 1]
  BY <1>1, TailElements DEF TypeOK, Notify
<1>4a. \A j \in 2..Len(notes) : j - 1 \in 1..Len(notes') /\ notes'[j - 1] = notes[j]
  BY <1>4
<1> HIDE DEF n, change, info
<1>5. /\ L \in Nat /\ Len(inbox') \in {L + 1, L + 2}
      /\ \A i \in 1..L : inbox'[i] = inbox[i]
      /\ inbox'[L + 1] = change
      /\ L + 2 \in 1..Len(inbox') => inbox'[L + 2] = info
  <2>1. inbox \in Seq(Message)
    BY DEF TypeOK
  <2>2. CASE described
    <3>1. new = <<change, info>> /\ Len(new) = 2 /\ new[1] = change /\ new[2] = info
      BY <2>2
    <3> QED
      BY <1>1, <2>1, <3>1
  <2>3. CASE ~described
    <3>1. new = <<change>> /\ Len(new) = 1 /\ new[1] = change
      BY <2>3
    <3> QED
      BY <1>1, <2>1, <3>1
  <2> QED
    BY <2>2, <2>3
<1> HIDE DEF new, L
<1>6. \A i \in Nat : Queued(i) => Queued(i)'
  BY <1>1, <1>5 DEF Queued, L
<1>6a. \A i \in Nat : (\E j \in (i + 1)..Len(notes') : ChangeTo(notes'[j], active.app)) => Noted(i)'
  BY <1>1 DEF Noted, ChangeTo
<1>7. ASSUME NEW i \in Nat, Noted(i + 1) PROVE Noted(i)'
  <2>1. PICK j \in (i + 2)..Len(notes) : ChangeTo(notes[j], active.app)
    BY <1>7 DEF Noted
  <2>2. j - 1 \in (i + 1)..Len(notes') /\ ChangeTo(notes'[j - 1], active.app)
    BY <1>4, <1>4a, <2>1
  <2> QED
    BY <1>6a, <2>2
<1>8. Noted(0) => Noted(0)' \/ \A i \in 0..L : Queued(i)'
  <2>1. CASE n.app /\ n.win.app = active.app
    BY <1>1, <1>2, <1>5, <2>1 DEF Queued
  <2>2. CASE ~(n.app /\ n.win.app = active.app)
    <3>1. ~ChangeTo(notes[1], active.app)
      BY <1>4, <2>2 DEF ChangeTo
    <3>2. Noted(0) => Noted(1)
      BY <1>4, <3>1 DEF Noted
    <3> QED
      BY <1>7, <3>2
  <2> QED
    BY <2>1, <2>2
<1>9. w'.app \notin {NoApp, active'.app} => Queued(0)' \/ Noted(0)'
  BY <1>1, <1>5, <1>6, <1>8 DEF Followed
<1>10. ASSUME NEW i \in 1..Len(inbox'), NEW a \in App \ {active'.app}, NamedBy(inbox'[i], a)
       PROVE  Queued(i)' \/ Noted(0)'
  <2>1. CASE i \in 1..L
    <3>1. Queued(i) \/ Noted(0)
      BY <1>1, <1>5, <1>10, <2>1 DEF Followed, L
    <3> QED
      BY <1>5, <1>6, <1>8, <2>1, <3>1
  <2>2. CASE i = L + 1
    <3>1. n.app /\ n.win.app = a
      BY <1>2, <1>5, <1>10, <2>2 DEF NamedBy
    <3>2. Noted(1)
      BY <1>1, <1>4, <3>1 DEF Followed
    <3> QED
      BY <1>7, <3>2
  <2>3. CASE i = L + 2
    BY <1>1, <1>3, <1>5, <1>10, <2>3 DEF NamedBy
  <2> QED
    BY <1>5, <2>1, <2>2, <2>3
<1>11. \A i \in 1..Len(notes') : notes'[i].app /\ notes'[i].win.app # active'.app => Noted(i)'
  BY <1>1, <1>4, <1>7 DEF Followed
<1> QED
  BY <1>9, <1>10, <1>11 DEF Followed, NamedBy

LEMMA FollowedStep == TypeOK /\ Good(w) /\ Followed /\ [Next]_vars => Followed'
<1> SUFFICES ASSUME TypeOK, Good(w), Followed, [Next]_vars PROVE Followed'
  OBVIOUS
<1>1. ASSUME active' = active, inbox' = inbox, notes' = notes, w'.app \in {w.app, active.app}
      PROVE  Followed'
  BY <1>1 DEF Followed, NamedBy, Queued, Noted
<1>2. ASSUME DropWrapper PROVE Followed'
  <2>1. active' = active /\ notes' = notes /\ w' = w /\ inbox' = Append(inbox, [kind |-> "Stop"])
    BY <1>2 DEF DropWrapper
  <2>2. /\ Len(inbox) \in Nat /\ Len(inbox') = Len(inbox) + 1
        /\ \A i \in 1..Len(inbox) : inbox'[i] = inbox[i]
        /\ inbox'[Len(inbox) + 1] = [kind |-> "Stop"]
    BY <2>1, AppendElements DEF TypeOK
  <2>3. inbox'[Len(inbox) + 1].kind = "Stop"
    BY <2>2
  <2>4. \A i \in Nat : (Queued(i) => Queued(i)') /\ (Noted(i) => Noted(i)')
    BY <2>1, <2>2 DEF Queued, Noted
  <2>5. \A i \in 1..Len(inbox') : \A a \in App \ {active'.app} :
           NamedBy(inbox'[i], a) => i \in 1..Len(inbox) /\ NamedBy(inbox[i], a)
    BY <2>2, <2>3 DEF NamedBy
  <2>6. \A i \in 1..Len(inbox') : \A a \in App \ {active'.app} :
           NamedBy(inbox'[i], a) => Queued(i)' \/ Noted(0)'
    BY <2>1, <2>2, <2>4, <2>5 DEF Followed
  <2>7. \A i \in 1..Len(notes') : notes'[i].app /\ notes'[i].win.app # active'.app => Noted(i)'
    <3>1. Len(notes) \in Nat
      BY DEF TypeOK
    <3> QED
      BY <2>1, <2>4, <3>1 DEF Followed
  <2>8. w'.app \notin {NoApp, active'.app} => Queued(0)' \/ Noted(0)'
    BY <2>1, <2>4 DEF Followed
  <2> QED
    BY <2>6, <2>7, <2>8 DEF Followed, NamedBy
<1>3. CASE PollAnswer
  BY <1>1, <1>3, PollAnswerWorker DEF PollAnswer
<1>4. ASSUME NEW lockLike \in BOOLEAN, PollFails(lockLike) PROVE Followed'
  BY <1>1, <1>4, PollFailsWorker DEF PollFails
<1>5. CASE StorePollInterval \/ SeesStopFlag \/ UNCHANGED vars
  BY <1>1, <1>5 DEF StorePollInterval, SeesStopFlag, Exit, vars
<1> QED
  BY <1>2, <1>3, <1>4, <1>5, FollowedSwitch, FollowedNotify, FollowedReceive DEF Next

-----------------------------------------------------------------------------
LEMMA Invariance == Spec => []IInv
<1>1. Init => IInv
  BY GoodInit DEF IInv, Init, Followed, Queued, Noted
<1>2. IInv /\ [Next]_vars => IInv'
  <2> SUFFICES ASSUME IInv, [Next]_vars PROVE IInv'
    OBVIOUS
  <2>1. TypeOK' /\ Good(w') /\ Followed'
    BY GoodStep, FollowedStep DEF IInv
  <2>2. Good(w)'
    BY <2>1 DEF Good, Sound, Owners, Free, Known, IsWorker, IsCache
  <2> QED
    BY <2>1, <2>2 DEF IInv
<1> QED
  BY <1>1, <1>2, PTL DEF Spec

(* The variables of the worker, its channel and the hook's notes keep      *)
(* their types through every handler, poll and eviction                    *)
(* (run_focus_worker).                                                     *)
THEOREM TypeCorrect == Spec => []TypeOK
<1>1. IInv => TypeOK
  BY DEF IInv
<1> QED
  BY <1>1, Invariance, PTL

(* last_app_window never holds one title for two applications, the login   *)
(* window's own title apart: whichever handler takes a title over, it was  *)
(* checked against the titles of the others, and none of them learns it    *)
(* before it is emitted.                                                   *)
THEOREM TitlesAreOwnedOnce == Spec => []TitlesHaveOneOwner
<1>1. IInv => TitlesHaveOneOwner
  BY DEF IInv, Good, Sound, Owners, TitlesHaveOneOwner
<1> QED
  BY <1>1, Invariance, PTL

(* Once the notifications are passed on and read, the worker is at the     *)
(* application in front, however many changes, polls and stale             *)
(* descriptions came between.                                              *)
THEOREM WorkerFollowsFocus == Spec => []FollowsFocus
<1>1. IInv => FollowsFocus
  BY DEF IInv, Followed, Queued, Noted, FollowsFocus
<1> QED
  BY <1>1, Invariance, PTL
=============================================================================
