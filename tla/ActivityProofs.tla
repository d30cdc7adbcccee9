--------------------------- MODULE ActivityProofs ---------------------------
(***************************************************************************)
(* What the adapter and the lock deriver yield, for every set of windows:  *)
(* the types of their results, and how they keep track of the lock screen. *)
(* At the end, what the proofs about both models of the stages use: facts  *)
(* about numbers, and paths along the messages of a channel.               *)
(***************************************************************************)
EXTENDS Activity, SequenceTheorems, WellFoundedInduction, TLAPS

\* What the adapter, the lock deriver and the stage's own helpers produce.
LEMMA EnvType ==
    /\ \A k \in SignalKind \cup {"FocusChanged", "TitleChanged"}, w \in OptWindow :
          Env(k, w) \in Envelope
    /\ \A to \in ActivityState : StateHint(to) \in Envelope
    /\ NoWindow \in OptWindow
BY DEF Env, StateHint, Envelope, OptWindow

\* adapt_batch yields envelopes and remembers a window.
LEMMA AdaptType ==
    ASSUME NEW last_focus, NEW e, e.kind \in {"input", "focus"}, e.win \in OptWindow,
           NEW a \in Adapt(last_focus, e)
    PROVE  a \in Seq(Envelope)
<1>1. /\ Env("Input", NoWindow) \in Envelope
      /\ Env("TitleChanged", e.win) \in Envelope
      /\ Env("FocusSignal", e.win) \in Envelope
      /\ Env("FocusChanged", e.win) \in Envelope
      /\ Env("ActivityPulse", NoWindow) \in Envelope
  BY EnvType DEF SignalKind
<1>2. FocusEnvelopes(e.win) \in Seq(Envelope)
  BY <1>1 DEF FocusEnvelopes
<1>3. CASE e.kind = "input"
  <2>1. a = <<Env("Input", NoWindow)>>
    BY <1>3 DEF Adapt
  <2> QED BY <1>1, <2>1
<1>4. CASE e.kind = "focus" /\ e.win # last_focus
  <2>1. a = FocusEnvelopes(e.win)
    BY <1>4 DEF Adapt
  <2> QED BY <1>2, <2>1
<1>5. CASE e.kind = "focus" /\ e.win = last_focus
  <2>1. a = <<>> \/ a = <<Env("TitleChanged", e.win)>>
    BY <1>5 DEF Adapt
  <2>2. CASE a = <<>>
    BY <2>2
  <2>3. CASE a = <<Env("TitleChanged", e.win)>>
    BY <1>1, <2>3
  <2> QED BY <2>1, <2>2, <2>3
<1> QED BY <1>3, <1>4, <1>5

\* The lock deriver yields envelopes and keeps a flag.
LEMMA LockOutputType ==
    ASSUME NEW locked \in BOOLEAN, NEW env \in Envelope
    PROVE  /\ LockOutput(locked, env) \in Seq(Envelope)
           /\ LockFlag(locked, env) \in BOOLEAN
<1>1. Env("LockStart", NoWindow) \in Envelope /\ Env("LockEnd", NoWindow) \in Envelope
  BY EnvType DEF SignalKind
<1>2. LockOutput(locked, env) \in Seq(Envelope)
  BY <1>1 DEF LockOutput
<1>3. LockFlag(locked, env) \in BOOLEAN
  <2>1. CASE env.kind = "FocusSignal"
    BY <2>1 DEF LockFlag
  <2>2. CASE env.kind # "FocusSignal"
    BY <2>2 DEF LockFlag
  <2> QED BY <2>1, <2>2
<1> QED BY <1>2, <1>3

-----------------------------------------------------------------------------
(* The lock screen *)

\* The adapter announces no lock, and a new focus first of all.
LEMMA AdaptKinds ==
    ASSUME NEW f, NEW e, e.kind \in {"input", "focus"}, NEW a \in Adapt(f, e)
    PROVE  /\ NoLockKind(a)
           /\ \/ NoFocusKind(a) /\ AdapterFocus(f, e) = f
              \/ /\ a # <<>> /\ NoFocusKind(Tail(a))
                 /\ Head(a).kind = "FocusSignal" /\ Head(a).win = AdapterFocus(f, e)
<1>1. CASE e.kind = "input"
  <2>1. a = <<Env("Input", NoWindow)>>
    BY <1>1 DEF Adapt
  <2> QED BY <1>1, <2>1 DEF NoLockKind, NoFocusKind, AdapterFocus, Env
<1>2. CASE e.kind = "focus" /\ e.win # f
  <2>1. a = FocusEnvelopes(e.win) /\ AdapterFocus(f, e) = e.win
    BY <1>2 DEF Adapt, AdapterFocus
  <2>2. CASE e.win \in LoginWindows
    <3>1. a = <<Env("FocusSignal", e.win), Env("FocusChanged", e.win)>>
      BY <2>1, <2>2 DEF FocusEnvelopes
    <3> QED BY <2>1, <3>1 DEF NoLockKind, NoFocusKind, Env
  <2>3. CASE e.win \notin LoginWindows
    <3>1. a = <<Env("FocusSignal", e.win), Env("FocusChanged", e.win),
                Env("ActivityPulse", NoWindow)>>
      BY <2>1, <2>3 DEF FocusEnvelopes
    <3> QED BY <2>1, <3>1 DEF NoLockKind, NoFocusKind, Env
  <2> QED BY <2>2, <2>3
<1>3. CASE e.kind = "focus" /\ e.win = f
  <2>1. a = <<>> \/ a = <<Env("TitleChanged", e.win)>>
    BY <1>3 DEF Adapt
  <2>2. AdapterFocus(f, e) = f
    BY <1>3 DEF AdapterFocus
  <2>3. CASE a = <<>>
    BY <2>2, <2>3 DEF NoLockKind, NoFocusKind
  <2>4. CASE a = <<Env("TitleChanged", e.win)>>
    BY <2>2, <2>4 DEF NoLockKind, NoFocusKind, Env
  <2> QED BY <2>1, <2>3, <2>4
<1> QED BY <1>1, <1>2, <1>3

\* The shapes of what the lock deriver emits, as far as locks are concerned.
LEMMA NoLockShapes ==
    ASSUME NEW env
    PROVE  /\ NoLockKind(<<>>)
           /\ env.kind \notin {"LockStart", "LockEnd"} => NoLockKind(<<env>>)
           /\ \A e : <<e>> # <<>> /\ Tail(<<e>>) = <<>> /\ Head(<<e>>) = e
           /\ \A e : <<e, env>> # <<>> /\ Tail(<<e, env>>) = <<env>>
                       /\ Head(<<e, env>>) = e
<1>1. NoLockKind(<<>>)
  BY DEF NoLockKind
<1>2. env.kind \notin {"LockStart", "LockEnd"} => NoLockKind(<<env>>)
  BY DEF NoLockKind
<1>3. \A e : <<e>> # <<>> /\ Tail(<<e>>) = <<>> /\ Head(<<e>>) = e
  OBVIOUS
<1>4. \A e : <<e, env>> # <<>> /\ Tail(<<e, env>>) = <<env>> /\ Head(<<e, env>>) = e
  OBVIOUS
<1> QED BY <1>1, <1>2, <1>3, <1>4

\* The deriver's flag follows the focus signals, and every change of it is
\* announced by the first envelope that the deriver emits.
LEMMA LockKinds ==
    ASSUME NEW locked \in BOOLEAN, NEW env \in Envelope,
           env.kind \notin {"LockStart", "LockEnd"}
    PROVE  /\ env.kind # "FocusSignal" => (LockFlag(locked, env) <=> locked)
           /\ env.kind = "FocusSignal" =>
                 (LockFlag(locked, env) <=> env.win \in LoginWindows)
           /\ \/ NoLockKind(LockOutput(locked, env)) /\ (LockFlag(locked, env) <=> locked)
              \/ /\ LockOutput(locked, env) # <<>>
                 /\ NoLockKind(Tail(LockOutput(locked, env)))
                 /\ Head(LockOutput(locked, env)).kind
                       = IF LockFlag(locked, env) THEN "LockStart" ELSE "LockEnd"
                 /\ LockFlag(locked, env) <=> ~locked
<1> DEFINE o == LockOutput(locked, env)
           flag == LockFlag(locked, env)
<1>s. /\ NoLockKind(<<>>) /\ NoLockKind(<<env>>)
      /\ Env("LockStart", NoWindow).kind = "LockStart"
      /\ Env("LockEnd", NoWindow).kind = "LockEnd"
  BY NoLockShapes DEF Env
<1>1. CASE env.kind # "FocusSignal"
  <2>1. flag <=> locked
    BY <1>1 DEF LockFlag
  <2>2. o = <<>> \/ o = <<env>>
    BY <1>1 DEF LockOutput
  <2>3. NoLockKind(o)
    <3> HIDE DEF o
    <3> QED BY <2>2, <1>s
  <2> HIDE DEF o, flag
  <2>4. /\ env.kind # "FocusSignal" => (flag <=> locked)
        /\ env.kind = "FocusSignal" => (flag <=> env.win \in LoginWindows)
        /\ NoLockKind(o) /\ (flag <=> locked)
    BY <1>1, <2>1, <2>3
  <2> QED BY <2>4 DEF o, flag
<1>2. CASE env.kind = "FocusSignal" /\ env.win \in LoginWindows
  <2>1. flag
    BY <1>2 DEF LockFlag
  <2>2. CASE locked
    <3>1. o = <<>>
      BY <1>2, <2>2 DEF LockOutput
    <3>2. NoLockKind(o)
      BY <3>1, <1>s
    <3> HIDE DEF o, flag
    <3>3. (flag <=> env.win \in LoginWindows) /\ (flag <=> locked)
      BY <1>2, <2>1, <2>2
    <3> QED BY <1>2, <3>2, <3>3 DEF o, flag
  <2>3. CASE ~locked
    <3>1. o = <<Env("LockStart", NoWindow)>>
      BY <1>2, <2>3 DEF LockOutput
    <3>2. o # <<>> /\ Tail(o) = <<>> /\ Head(o) = Env("LockStart", NoWindow)
      BY <3>1, NoLockShapes
    <3>3. o # <<>> /\ NoLockKind(Tail(o)) /\ Head(o).kind = "LockStart"
      BY <3>2, <1>s
    <3> HIDE DEF o, flag
    <3>4. /\ flag <=> env.win \in LoginWindows
          /\ flag <=> ~locked
          /\ Head(o).kind = IF flag THEN "LockStart" ELSE "LockEnd"
      BY <1>2, <2>1, <2>3, <3>3
    <3> QED BY <1>2, <3>3, <3>4 DEF o, flag
  <2> QED BY <2>2, <2>3
<1>3. CASE env.kind = "FocusSignal" /\ env.win \notin LoginWindows
  <2>1. ~flag
    BY <1>3 DEF LockFlag
  <2>2. CASE locked
    <3>1. o = <<Env("LockEnd", NoWindow), env>>
      BY <1>3, <2>2 DEF LockOutput
    <3>2. o # <<>> /\ Tail(o) = <<env>> /\ Head(o) = Env("LockEnd", NoWindow)
      BY <3>1, NoLockShapes
    <3>3. o # <<>> /\ NoLockKind(Tail(o)) /\ Head(o).kind = "LockEnd"
      BY <3>2, <1>s
    <3> HIDE DEF o, flag
    <3>4. /\ flag <=> env.win \in LoginWindows
          /\ flag <=> ~locked
          /\ Head(o).kind = IF flag THEN "LockStart" ELSE "LockEnd"
      BY <1>3, <2>1, <2>2, <3>3
    <3> QED BY <1>3, <3>3, <3>4 DEF o, flag
  <2>3. CASE ~locked
    <3>1. o = <<env>>
      BY <1>3, <2>3 DEF LockOutput
    <3>2. NoLockKind(o)
      BY <3>1, <1>s
    <3> HIDE DEF o, flag
    <3>3. (flag <=> env.win \in LoginWindows) /\ (flag <=> locked)
      BY <1>3, <2>1, <2>3
    <3> QED BY <1>3, <3>2, <3>3 DEF o, flag
  <2> QED BY <2>2, <2>3
<1> QED BY <1>1, <1>2, <1>3

-----------------------------------------------------------------------------
(* Numbers.                                                                *)

(* Induction on a set of numbers, from the least element that is not in    *)
(* it.                                                                     *)
LEMMA Induction ==
  ASSUME NEW T, 0 \in T, \A n \in Nat : n \in T => n + 1 \in T
  PROVE  Nat \subseteq T
<1> DEFINE Below == {p \in Nat \X Nat : p[1] < p[2]}
<1>1. IsWellFoundedOn(Below, Nat)
  BY NatLessThanWellFounded DEF OpToRel
<1> SUFFICES ASSUME Nat \ T # {} PROVE FALSE
  OBVIOUS
<1>2. PICK x \in Nat \ T : \A y \in Nat \ T : <<y, x>> \notin Below
  <2> HIDE DEF Below
  <2> QED
    BY <1>1, WFMin
<1>3. x # 0 /\ x - 1 \in Nat /\ (x - 1) + 1 = x
  OBVIOUS
<1>4. <<x - 1, x>> \in Below
  BY <1>3
<1>5. x - 1 \in T
  BY <1>2, <1>3, <1>4
<1> QED
  BY <1>3, <1>5

(* A bounded set of numbers has a greatest element.                        *)
LEMMA HasGreatest ==
  ASSUME NEW n \in Nat, NEW P, P \subseteq 1..n, P # {}
  PROVE  \E m \in P : \A k \in P : k <= m
<1> DEFINE Below == {p \in Nat \X Nat : p[1] < p[2]}
           D == {n - j : j \in P}
<1>1. IsWellFoundedOn(Below, Nat)
  BY NatLessThanWellFounded DEF OpToRel
<1>2. D \subseteq Nat /\ D # {}
  <2>1. \A j \in P : j \in Int /\ n - j \in Nat
    OBVIOUS
  <2> QED
    BY <2>1
<1>3. PICK x \in D : \A y \in D : <<y, x>> \notin Below
  <2> HIDE DEF Below, D
  <2> QED
    BY <1>1, <1>2, WFMin
<1>4. PICK m \in P : x = n - m
  BY <1>3
<1>5. ASSUME NEW k \in P PROVE k <= m
  <2>1. n - k \in D /\ n - k \in Nat /\ x \in Nat
    BY <1>2
  <2>2. ~(n - k < x)
    BY <1>3, <2>1
  <2> QED
    BY <1>4, <2>2
<1> QED
  BY <1>5

(* The number a maximum is chosen to be.                                   *)
LEMMA Greatest ==
  ASSUME NEW P, P \subseteq Int, NEW m \in P, \A k \in P : k <= m
  PROVE  (CHOOSE j \in P : \A k \in P : k <= j) = m
<1> DEFINE c == CHOOSE j \in P : \A k \in P : k <= j
<1>1. c \in P /\ \A k \in P : k <= c
  OBVIOUS
<1>2. c \in Int /\ m \in Int /\ c <= m /\ m <= c
  BY <1>1
<1> HIDE DEF c
<1>3. c = m
  BY <1>2
<1> QED
  BY <1>3 DEF c

-----------------------------------------------------------------------------
(* Paths: what the messages of a channel lead to.                          *)

(* The messages of q, in turn, take a to b; R has the triples <<before,    *)
(* message, after>>.                                                       *)
Path(V, R, q, a, b) ==
  \E f \in [0..Len(q) -> V] :
     /\ f[0] = a /\ f[Len(q)] = b
     /\ \A i \in 1..Len(q) : <<f[i - 1], q[i], f[i]>> \in R

LEMMA PathEnds ==
  ASSUME NEW V, NEW R, NEW S, NEW q \in Seq(S), NEW a, NEW b, Path(V, R, q, a, b)
  PROVE  a \in V /\ b \in V
<1>1. Len(q) \in Nat
  OBVIOUS
<1> QED
  BY <1>1 DEF Path

LEMMA PathEmpty ==
  ASSUME NEW V, NEW R, NEW a, NEW b
  PROVE  Path(V, R, <<>>, a, b) <=> a \in V /\ a = b
<1>1. Len(<<>>) = 0
  OBVIOUS
<1>2. Path(V, R, <<>>, a, b) => a \in V /\ a = b
  BY <1>1 DEF Path
<1>3. ASSUME a \in V, a = b PROVE Path(V, R, <<>>, a, b)
  <2> DEFINE f == [i \in 0..0 |-> a]
  <2>1. f \in [0..Len(<<>>) -> V] /\ f[0] = a /\ f[Len(<<>>)] = b
    BY <1>1, <1>3
  <2>2. \A i \in 1..Len(<<>>) : FALSE
    BY <1>1
  <2> QED
    BY <2>1, <2>2 DEF Path
<1> QED
  BY <1>2, <1>3

LEMMA PathAppend ==
  ASSUME NEW V, NEW R, NEW S, NEW q \in Seq(S), NEW a, NEW b, NEW c \in V, NEW m,
         Path(V, R, q, a, b), <<b, m, c>> \in R
  PROVE  Path(V, R, Append(q, m), a, c)
<1> DEFINE n == Len(q)
           r == Append(q, m)
<1> PICK f \in [0..n -> V] :
      f[0] = a /\ f[n] = b /\ \A i \in 1..n : <<f[i - 1], q[i], f[i]>> \in R
  BY DEF Path
<1> DEFINE g == [i \in 0..(n + 1) |-> IF i <= n THEN f[i] ELSE c]
<1>1. n \in Nat /\ Len(r) = n + 1 /\ r[n + 1] = m /\ \A i \in 1..n : r[i] = q[i]
  OBVIOUS
<1> HIDE DEF n, r
<1>2. g \in [0..Len(r) -> V] /\ g[0] = a /\ g[Len(r)] = c
  BY <1>1
<1>3. ASSUME NEW i \in 1..Len(r) PROVE <<g[i - 1], r[i], g[i]>> \in R
  <2>1. CASE i \in 1..n
    <3>1. g[i - 1] = f[i - 1] /\ g[i] = f[i] /\ r[i] = q[i]
      BY <1>1, <2>1
    <3> QED
      BY <2>1, <3>1
  <2>2. CASE i = n + 1
    <3>1. g[i - 1] = b /\ g[i] = c /\ r[i] = m
      BY <1>1, <2>2
    <3> QED
      BY <3>1
  <2> QED
    BY <1>1, <2>1, <2>2
<1> HIDE DEF g
<1>4. Path(V, R, r, a, c)
  BY <1>2, <1>3 DEF Path
<1> QED
  BY <1>4 DEF r

LEMMA PathTail ==
  ASSUME NEW V, NEW R, NEW S, NEW q \in Seq(S), q # <<>>, NEW a, NEW b, Path(V, R, q, a, b)
  PROVE  \E c \in V : <<a, Head(q), c>> \in R /\ Path(V, R, Tail(q), c, b)
<1> DEFINE n == Len(q)
           r == Tail(q)
<1> PICK f \in [0..n -> V] :
      f[0] = a /\ f[n] = b /\ \A i \in 1..n : <<f[i - 1], q[i], f[i]>> \in R
  BY DEF Path
<1> DEFINE g == [i \in 0..(n - 1) |-> f[i + 1]]
<1>1. n \in Nat \ {0} /\ Len(r) = n - 1 /\ Head(q) = q[1]
      /\ \A i \in 1..(n - 1) : r[i] = q[i + 1]
  BY HeadTailProperties
<1> HIDE DEF n, r
<1>2. g \in [0..Len(r) -> V] /\ g[0] = f[1] /\ g[Len(r)] = b
  BY <1>1
<1>3. ASSUME NEW i \in 1..Len(r) PROVE <<g[i - 1], r[i], g[i]>> \in R
  <2>1. g[i - 1] = f[i] /\ g[i] = f[i + 1] /\ r[i] = q[i + 1]
    BY <1>1
  <2>2. i + 1 \in 1..n /\ (i + 1) - 1 = i
    BY <1>1
  <2>3. <<f[i], q[i + 1], f[i + 1]>> \in R
    BY <2>2
  <2> QED
    BY <2>1, <2>3
<1> HIDE DEF g
<1>4. Path(V, R, r, f[1], b)
  BY <1>2, <1>3 DEF Path
<1>5. f[1] \in V /\ <<a, Head(q), f[1]>> \in R
  BY <1>1
<1> QED
  BY <1>4, <1>5 DEF r

LEMMA PathConcat ==
  ASSUME NEW V, NEW R, NEW S, NEW q \in Seq(S), NEW p \in Seq(S), NEW a, NEW b, NEW c,
         Path(V, R, q, a, b), Path(V, R, p, b, c)
  PROVE  Path(V, R, q \o p, a, c)
<1> DEFINE n == Len(q)
           k == Len(p)
           r == q \o p
<1> PICK f \in [0..n -> V] :
      f[0] = a /\ f[n] = b /\ \A i \in 1..n : <<f[i - 1], q[i], f[i]>> \in R
  BY DEF Path
<1> PICK h \in [0..k -> V] :
      h[0] = b /\ h[k] = c /\ \A i \in 1..k : <<h[i - 1], p[i], h[i]>> \in R
  BY DEF Path
<1> DEFINE g == [i \in 0..(n + k) |-> IF i <= n THEN f[i] ELSE h[i - n]]
<1>1. /\ n \in Nat /\ k \in Nat /\ Len(r) = n + k
      /\ \A i \in 1..n : r[i] = q[i]
      /\ \A i \in (n + 1)..(n + k) : r[i] = p[i - n]
  OBVIOUS
<1> HIDE DEF n, k, r
<1>2. g \in [0..Len(r) -> V] /\ g[0] = a /\ g[Len(r)] = c
  BY <1>1
<1>3. ASSUME NEW i \in 1..Len(r) PROVE <<g[i - 1], r[i], g[i]>> \in R
  <2>1. CASE i \in 1..n
    <3>1. g[i - 1] = f[i - 1] /\ g[i] = f[i] /\ r[i] = q[i]
      BY <1>1, <2>1
    <3> QED
      BY <2>1, <3>1
  <2>2. CASE i \in (n + 1)..(n + k)
    <3>1. i - n \in 1..k
      BY <1>1, <2>2
    <3>2. g[i] = h[i - n] /\ r[i] = p[i - n]
      BY <1>1, <2>2
    <3>3. CASE i = n + 1
      <4>1. i - 1 = n /\ i - n = 1 /\ n \in 0..(n + k)
        BY <1>1, <3>3
      <4>2. g[n] = b
        BY <1>1, <4>1
      <4>3. 1 \in 1..k /\ 1 - 1 = 0
        BY <3>1, <4>1
      <4>4. <<b, p[1], h[1]>> \in R
        BY <4>3
      <4> QED
        BY <3>2, <4>1, <4>2, <4>4
    <3>4. CASE i # n + 1
      <4>1. i - 1 \in (n + 1)..(n + k) /\ (i - 1) - n = (i - n) - 1
        BY <1>1, <2>2, <3>4
      <4>2. g[i - 1] = h[(i - n) - 1]
        BY <1>1, <4>1
      <4> QED
        BY <3>1, <3>2, <4>2
    <3> QED
      BY <3>3, <3>4
  <2> QED
    BY <1>1, <2>1, <2>2
<1> HIDE DEF g
<1>4. Path(V, R, r, a, c)
  BY <1>2, <1>3 DEF Path
<1> QED
  BY <1>4 DEF r

LEMMA PathOne ==
  ASSUME NEW V, NEW R, NEW a \in V, NEW b \in V, NEW m, <<a, m, b>> \in R
  PROVE  Path(V, R, <<m>>, a, b)
<1>1. Path(V, R, <<>>, a, a)
  BY PathEmpty
<1>2. Append(<<>>, m) = <<m>> /\ <<>> \in Seq({m})
  OBVIOUS
<1> QED
  BY <1>1, <1>2, PathAppend

=============================================================================
