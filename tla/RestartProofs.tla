--------------------------- MODULE RestartProofs ----------------------------
(***************************************************************************)
(* What a daemon remembers, for every number of starts, crashes, failed    *)
(* writes and changes, every set of runs, windows and states, and every    *)
(* value of the limits (module Restart).                                   *)
(*                                                                         *)
(* The store is a history: the records in it follow one another in time,   *)
(* and those of a run have growing ids, as long as no daemon began the run *)
(* again without reading any of them.  Whatever a crash, a commit or a     *)
(* failed write leaves is part of that history (Embeds).  HistoryInv says  *)
(* so, and what it means for the open record and for the next id; StageInv *)
(* says the same of the list the snapshot stage keeps, NewestInv of its    *)
(* transitions.  The records of a snapshot do not overlap; the last part   *)
(* counts the seconds they cover.                                          *)
(***************************************************************************)
EXTENDS Restart, SequenceTheorems, FiniteSetTheorems, TLAPS

-----------------------------------------------------------------------------
(* Types.                                                                  *)

Row == Record \cup Transition

Current == [id : Nat, start : 0..MaxTime, focus : Focus \cup {NoFocus}]

Message ==
  [kind : {"transition"}, body : Transition]
    \cup [kind : {"record"}, body : Record]
    \cup [kind : {"publish", "shutdown", "complete"}, body : {None}]

Phase == {"down", "up", "closing", "drained"}

StageType ==
  [begun : BOOLEAN, records : Seq(Record), transitions : Seq(Transition), state : State,
   last : Transition \cup {None}, shutdown : BOOLEAN, complete : BOOLEAN]

PastType ==
  [rows : Nat, read : BOOLEAN, transitions : Seq(Transition), made : Seq(Transition),
   lost : SUBSET Run]

BusType(b) ==
  /\ b = [transitions |-> b.transitions, snapshot |-> b.snapshot]
  /\ b.transitions \in Seq(Transition) /\ Len(b.transitions) <= BusCap
  /\ b.snapshot.recent \in Seq(Transition) /\ Len(b.snapshot.recent) <= RecentLimit

(* The type invariant, for the parts of the variables that TypeOK leaves   *)
(* out too; a daemon that is down keeps nothing.                           *)
TypeInv ==
  /\ now \in 0..MaxTime
  /\ store \in Seq(Row) /\ pending \in Seq(Row)
  /\ daemon \in [phase : Phase, run : Run \cup {None}, state : State]
  /\ builder \in [focus : Focus \cup {NoFocus}, current : Current \cup {None}, next : Nat]
  /\ inbox \in Seq(Message)
  /\ stage \in StageType /\ Len(stage.transitions) <= HydrateLimit
  /\ BusType(bus)
  /\ past \in PastType

PhaseInv ==
  /\ daemon.phase = "down" =>
        /\ pending = <<>> /\ inbox = <<>> /\ builder.current = None
        /\ stage = NoStage /\ bus = NoBus
  /\ daemon.phase # "down" => daemon.run \in Run
  /\ daemon.phase # "up" => builder.current = None
  /\ \A i \in DOMAIN inbox : inbox[i].kind \in {"shutdown", "complete"} => daemon.phase # "up"

-----------------------------------------------------------------------------
(* History.                                                                *)

(* Record x was closed before y was opened, and before y got its id.       *)
Before(x, y, lost) ==
  /\ x.end <= y.start
  /\ x.run = y.run /\ x.run \notin lost => x.id < y.id

Closed(x, t) == x.start <= x.end /\ x.end <= t

(* The rows s, known at time t.                                            *)
Chronicle(s, lost, t) ==
  /\ \A i \in DOMAIN s : IF IsRecord(s[i]) THEN Closed(s[i], t) ELSE s[i].at <= t
  /\ \A i, j \in DOMAIN s :
        i < j /\ IsRecord(s[i]) /\ IsRecord(s[j]) => Before(s[i], s[j], lost)

(* Every record of s is before y.                                          *)
Until(s, y, lost) == \A i \in DOMAIN s : IsRecord(s[i]) => Before(s[i], y, lost)

(* No record of run r in s has an id from n on.                            *)
Below(s, r, n) == \A i \in RecordsOf(s, r) : s[i].id < n

HistoryInv ==
  /\ Chronicle(Sent, past.lost, now)
  /\ \A i \in DOMAIN inbox : inbox[i].kind = "transition" => inbox[i].body.at <= now
  /\ \A y \in Finalized : Closed(y, now) /\ y.id < builder.next /\ Until(Sent, y, past.lost)
  /\ daemon.phase # "down" /\ daemon.run \notin past.lost => Below(Sent, daemon.run, builder.next)

-----------------------------------------------------------------------------
(* The list of records of the snapshot stage.                              *)

Apart(x, y) == x.end <= y.start \/ y.end <= x.start

(* The records recs, by start time, of run r.                              *)
Listed(recs, r, lost, t) ==
  /\ \A i \in DOMAIN recs : recs[i].run = r /\ Closed(recs[i], t)
  /\ \A i, j \in DOMAIN recs : i < j =>
        /\ recs[i].start <= recs[j].start
        /\ Apart(recs[i], recs[j])
        /\ recs[i].id = recs[j].id => r \in lost

(* The places of the messages of kind k in the inbox.                      *)
At(k) == {i \in DOMAIN inbox : inbox[i].kind = k}

(* No record that must be shown is missing.                                *)
Complete == past.rows <= Len(store) /\ Expected(now - Retention) \subseteq Range(stage.records)

(* The list comes first, then the record on its way, then the open one.    *)
InOrder ==
  /\ \A i \in At("record") :
        /\ inbox[i].body.run = daemon.run /\ Closed(inbox[i].body, now)
        /\ \A k \in DOMAIN stage.records : Before(stage.records[k], inbox[i].body, past.lost)
        /\ \A y \in Finalized : Before(inbox[i].body, y, past.lost)
        /\ daemon.run \notin past.lost => inbox[i].body.id < builder.next
  /\ \A y \in Finalized : \A k \in DOMAIN stage.records :
        Before(stage.records[k], y, past.lost)
  /\ daemon.run \notin past.lost =>
        \A k \in DOMAIN stage.records : stage.records[k].id < builder.next

StageInv ==
  /\ \A i, j \in At("record") : i = j
  /\ daemon.phase # "down" =>
        Listed(stage.records, daemon.run, past.lost, now) /\ Complete /\ InOrder

-----------------------------------------------------------------------------
(* Transitions.                                                            *)

(* The last n of all, or all of them.                                      *)
LastOf(s, all, n) ==
  /\ Len(s) = IF Len(all) <= n THEN Len(all) ELSE n
  /\ \A k \in 1..Len(s) : s[k] = all[Len(all) - Len(s) + k]

(* What the stage has seen: what was read at startup, then what it got.    *)
Seen == past.transitions \o Delivered

(* The daemon's own transitions came one after the other, after those it   *)
(* read.                                                                   *)
InTime ==
  /\ \A i \in DOMAIN past.made :
        /\ past.made[i].at <= now
        /\ \A k \in DOMAIN past.transitions : past.transitions[k].at <= past.made[i].at
        /\ \A j \in DOMAIN past.made : i < j => past.made[i].at <= past.made[j].at
  /\ \A k \in DOMAIN past.transitions : past.transitions[k].at <= now

(* What the stage and the bus hold.                                        *)
Held ==
  /\ ~stage.begun =>
        /\ stage.transitions = past.transitions /\ Delivered = <<>>
        /\ stage.state = Inactive /\ stage.last = None /\ bus = NoBus
  /\ stage.begun =>
        /\ LastOf(bus.transitions, Seen, BusCap)
        /\ Seen = <<>> => stage.last = None /\ stage.state = Inactive
        /\ Seen # <<>> => stage.last = Last(Seen) /\ stage.state = Last(Seen).to

NewestInv ==
  /\ \A i, j \in At("transition") : i = j
  /\ daemon.phase # "down" =>
        /\ \A i \in At("transition") : past.made # <<>> /\ inbox[i].body = Last(past.made)
        /\ InTime /\ Held

-----------------------------------------------------------------------------
(* Numbers.                                                                *)

(* A set of numbers that is not empty has a least element.                 *)
LEMMA Least ==
  ASSUME NEW P, P \subseteq Nat, P # {}
  PROVE  \E m \in P : \A k \in P : m <= k
<1> DEFINE Less == {p \in Nat \X Nat : p[1] < p[2]}
<1>1. IsWellFoundedOn(Less, Nat)
  BY NatLessThanWellFounded DEF OpToRel
<1>2. PICK x \in P : \A y \in P : <<y, x>> \notin Less
  <2> HIDE DEF Less
  <2> QED
    BY <1>1, WFMin
<1>3. ASSUME NEW y \in P PROVE x <= y
  <2>1. <<y, x>> \in Nat \X Nat /\ <<y, x>> \notin Less
    BY <1>2
  <2>2. ~(y < x)
    BY <2>1
  <2> QED
    BY <2>2
<1> QED
  BY <1>3

LEMMA Induction ==
  ASSUME NEW T, 0 \in T, \A n \in Nat : n \in T => n + 1 \in T
  PROVE  Nat \subseteq T
<1> SUFFICES ASSUME Nat \ T # {} PROVE FALSE
  OBVIOUS
<1>1. PICK m \in Nat \ T : \A k \in Nat \ T : m <= k
  BY Least
<1>2. m # 0 /\ m - 1 \in Nat /\ (m - 1) + 1 = m
  OBVIOUS
<1> QED
  BY <1>1, <1>2

(* The minimum of a set of numbers.                                        *)
LEMMA MinIs ==
  ASSUME NEW P, P \subseteq Nat, P # {}
  PROVE  Min(P) \in P /\ \A k \in P : Min(P) <= k
BY Least DEF Min

(* The numbers of a finite list have a maximum.                            *)
LEMMA MaxIs ==
  ASSUME NEW n \in Nat \ {0}, NEW f \in [1..n -> Nat]
  PROVE  LET P == {f[i] : i \in 1..n} IN Max(P) \in P /\ \A k \in P : k <= Max(P)
<1> DEFINE T == {m \in Nat : m \in 1..n => \E i \in 1..m : \A k \in 1..m : f[k] <= f[i]}
<1>1. 0 \in T
  OBVIOUS
<1>2. ASSUME NEW m \in Nat, m \in T PROVE m + 1 \in T
  <2> SUFFICES ASSUME m + 1 \in 1..n
               PROVE  \E i \in 1..(m + 1) : \A k \in 1..(m + 1) : f[k] <= f[i]
    OBVIOUS
  <2>1. CASE m = 0
    <3>1. 1..(m + 1) = {1} /\ f[1] <= f[1]
      BY <2>1
    <3> QED
      BY <3>1
  <2>2. CASE m # 0
    <3>1. PICK i \in 1..m : \A k \in 1..m : f[k] <= f[i]
      BY <1>2, <2>2
    <3>2. 1..(m + 1) = 1..m \cup {m + 1} /\ f[i] \in Nat /\ f[m + 1] \in Nat
      OBVIOUS
    <3>3. CASE f[m + 1] <= f[i]
      BY <3>1, <3>2, <3>3
    <3>4. CASE f[i] < f[m + 1]
      <4>1. \A k \in 1..(m + 1) : f[k] <= f[m + 1]
        BY <3>1, <3>2, <3>4
      <4> QED
        BY <4>1
    <3> QED
      BY <3>2, <3>3, <3>4
  <2> QED
    BY <2>1, <2>2
<1>3. n \in T
  <2> HIDE DEF T
  <2> QED
    BY <1>1, <1>2, Induction
<1>4. PICK i \in 1..n : \A k \in 1..n : f[k] <= f[i]
  BY <1>3
<1> QED
  BY <1>4 DEF Max

-----------------------------------------------------------------------------
(* Sequences.                                                              *)

LEMMA SetToSeqSmall ==
  /\ SetToSeq({}) = <<>>
  /\ \A x : SetToSeq({x}) = <<x>>
<1>1. SetToSeq({}) = <<>>
  <2>1. Cardinality({}) = 0
    BY FS_EmptySet
  <2>2. \A f \in [1..0 -> {}] : f = <<>>
    OBVIOUS
  <2>3. <<>> \in [1..0 -> {}] /\ IsInjective(<<>>)
    BY DEF IsInjective
  <2> QED
    BY <2>1, <2>2, <2>3 DEF SetToSeq
<1>2. ASSUME NEW x PROVE SetToSeq({x}) = <<x>>
  <2>1. Cardinality({x}) = 1
    BY FS_Singleton
  <2>2. \A f \in [1..1 -> {x}] : f = <<x>>
    OBVIOUS
  <2>3. <<x>> \in [1..1 -> {x}] /\ IsInjective(<<x>>)
    BY DEF IsInjective
  <2> QED
    BY <2>1, <2>2, <2>3 DEF SetToSeq
<1> QED
  BY <1>1, <1>2

LEMMA PairIs ==
  ASSUME NEW S, NEW a \in S, NEW b \in S
  PROVE  <<a>> \o <<b>> = <<a, b>>
<1> DEFINE s == <<a>> \o <<b>>
           t == <<a, b>>
<1>1. <<a>> \in Seq(S) /\ s = Append(<<a>>, b)
  OBVIOUS
<1>2. s \in Seq(S) /\ Len(s) = 2 /\ s[1] = a /\ s[2] = b
  BY <1>1
<1>3. t \in Seq(S) /\ Len(t) = 2 /\ t[1] = a /\ t[2] = b
  OBVIOUS
<1> HIDE DEF s, t
<1>4. \A i \in 1..Len(s) : s[i] = t[i]
  BY <1>2, <1>3
<1>5. s = t
  BY <1>2, <1>3, <1>4, SeqEqual
<1> QED
  BY <1>5 DEF s, t

(* t is s with m at place i.                                               *)
Inserted(t, s, i, m) ==
  /\ Len(t) = Len(s) + 1
  /\ \A k \in 1..(Len(s) + 1) :
        t[k] = IF k < i THEN s[k] ELSE IF k = i THEN m ELSE s[k - 1]

(* An element more, at place i.                                            *)
LEMMA InsertAtIs ==
  ASSUME NEW S, NEW s \in Seq(S), NEW m \in S, NEW i \in 1..(Len(s) + 1)
  PROVE  InsertAt(s, i, m) \in Seq(S) /\ Inserted(InsertAt(s, i, m), s, i, m)
<1> DEFINE a == SubSeq(s, 1, i - 1)
           b == SubSeq(s, i, Len(s))
<1>1. a \in Seq(S) /\ Len(a) = i - 1 /\ \A k \in 1..(i - 1) : a[k] = s[k]
  OBVIOUS
<1>2. b \in Seq(S) /\ Len(b) = Len(s) - i + 1 /\ \A k \in 1..(Len(s) - i + 1) : b[k] = s[i + k - 1]
  OBVIOUS
<1>3. InsertAt(s, i, m) = (a \o <<m>>) \o b
  BY DEF InsertAt
<1> HIDE DEF a, b
<1>4. /\ a \o <<m>> \in Seq(S) /\ Len(a \o <<m>>) = i
      /\ \A k \in 1..i : (a \o <<m>>)[k] = IF k < i THEN s[k] ELSE m
  BY <1>1
<1> DEFINE c == a \o <<m>>
<1>0. Len(s) \in Nat /\ i \in Int /\ c \in Seq(S) /\ Len(c) = i
  BY <1>4
<1> HIDE DEF c
<1>5. c \o b \in Seq(S) /\ Len(c \o b) = Len(s) + 1
  BY <1>0, <1>2
<1>6. ASSUME NEW k \in 1..(Len(s) + 1)
      PROVE  (c \o b)[k] = IF k < i THEN s[k] ELSE IF k = i THEN m ELSE s[k - 1]
  <2>1. CASE k <= i
    <3>1. (c \o b)[k] = c[k] /\ k \in 1..i
      BY <1>0, <1>2, <2>1
    <3> QED
      BY <1>0, <1>4, <2>1, <3>1 DEF c
  <2>2. CASE k > i
    <3>1. (c \o b)[k] = b[k - i] /\ k - i \in 1..(Len(s) - i + 1)
      BY <1>0, <1>2, <2>2
    <3> QED
      BY <1>0, <1>2, <2>2, <3>1
  <2>3. k <= i \/ k > i
    BY <1>0
  <2> QED
    BY <2>1, <2>2, <2>3
<1> QED
  BY <1>3, <1>5, <1>6 DEF c, Inserted

(* An element less, the one at place i.                                    *)
LEMMA RemoveAtIs ==
  ASSUME NEW S, NEW s \in Seq(S), NEW i \in 1..Len(s)
  PROVE  /\ RemoveAt(s, i) \in Seq(S) /\ Len(RemoveAt(s, i)) = Len(s) - 1
         /\ \A k \in 1..(Len(s) - 1) : RemoveAt(s, i)[k] = IF k < i THEN s[k] ELSE s[k + 1]
<1> DEFINE a == SubSeq(s, 1, i - 1)
           b == SubSeq(s, i + 1, Len(s))
<1>1. a \in Seq(S) /\ Len(a) = i - 1 /\ \A k \in 1..(i - 1) : a[k] = s[k]
  OBVIOUS
<1>2. b \in Seq(S) /\ Len(b) = Len(s) - i /\ \A k \in 1..(Len(s) - i) : b[k] = s[i + k]
  OBVIOUS
<1>3. RemoveAt(s, i) = a \o b
  BY DEF RemoveAt
<1> HIDE DEF a, b
<1>0. Len(s) \in Nat /\ i \in Int
  OBVIOUS
<1>4. a \o b \in Seq(S) /\ Len(a \o b) = Len(s) - 1
  <2>1. a \o b \in Seq(S) /\ Len(a \o b) = Len(a) + Len(b)
    <3>1. a \in Seq(S) /\ b \in Seq(S)
      BY <1>1, <1>2
    <3> QED
      BY <3>1
  <2> QED
    BY <1>0, <1>1, <1>2, <2>1
<1>5. ASSUME NEW k \in 1..(Len(s) - 1)
      PROVE  (a \o b)[k] = IF k < i THEN s[k] ELSE s[k + 1]
  <2>1. CASE k < i
    BY <1>0, <1>1, <1>2, <2>1
  <2>2. CASE k >= i
    <3>1. (a \o b)[k] = b[k - (i - 1)] /\ k - (i - 1) \in 1..(Len(s) - i)
      BY <1>0, <1>1, <1>2, <2>2
    <3> QED
      BY <1>0, <1>2, <2>2, <3>1
  <2>3. k < i \/ k >= i
    BY <1>0
  <2> QED
    BY <2>1, <2>2, <2>3
<1> QED
  BY <1>3, <1>4, <1>5

LEMMA ReverseIs ==
  ASSUME NEW S, NEW s \in Seq(S)
  PROVE  /\ Reverse(s) \in Seq(S) /\ Len(Reverse(s)) = Len(s)
         /\ \A k \in 1..Len(s) : Reverse(s)[k] = s[Len(s) - k + 1]
<1>1. Reverse(s) \in [1..Len(s) -> S]
  BY DEF Reverse
<1> QED
  BY <1>1 DEF Reverse

LEMMA TruncateIs ==
  ASSUME NEW S, NEW s \in Seq(S), NEW n \in Nat
  PROVE  /\ Truncate(s, n) \in Seq(S)
         /\ Len(Truncate(s, n)) = IF Len(s) <= n THEN Len(s) ELSE n
         /\ \A k \in 1..Len(Truncate(s, n)) : Truncate(s, n)[k] = s[k]
<1> DEFINE m == Min({Len(s), n})
<1>1. m \in {Len(s), n} /\ m <= Len(s) /\ m <= n
  <2>1. {Len(s), n} \subseteq Nat /\ {Len(s), n} # {}
    OBVIOUS
  <2> HIDE DEF m
  <2>2. m \in {Len(s), n} /\ \A k \in {Len(s), n} : m <= k
    BY <2>1, MinIs DEF m
  <2> QED
    BY <2>2
<1> HIDE DEF m
<1>2. Truncate(s, n) = SubSeq(s, 1, m)
  BY DEF Truncate, m
<1> QED
  BY <1>1, <1>2

-----------------------------------------------------------------------------
(* The transition buffer.                                                  *)

LEMMA Limits ==
  /\ HydrateLimit \in Nat \ {0} /\ BusCap \in Nat \ {0} /\ RecentLimit \in Nat \ {0}
  /\ Retention \in Nat /\ MaxTime \in Nat
BY RestartAssumption

(* push_transition keeps the last BusCap of what was pushed.               *)
LEMMA PushKeepsLast ==
  ASSUME NEW S, NEW buf \in Seq(S), NEW all \in Seq(S), NEW t \in S, LastOf(buf, all, BusCap)
  PROVE  Push(buf, t) \in Seq(S) /\ LastOf(Push(buf, t), Append(all, t), BusCap)
<1> DEFINE kept == IF Len(buf) >= BusCap THEN Tail(buf) ELSE buf
           off == IF Len(buf) >= BusCap THEN 1 ELSE 0
<1>0. BusCap \in Nat /\ BusCap >= 1 /\ Len(buf) \in Nat /\ Len(all) \in Nat
  BY Limits
<1>1. Len(buf) = (IF Len(all) <= BusCap THEN Len(all) ELSE BusCap)
  BY DEF LastOf
<1>2. /\ kept \in Seq(S) /\ Len(kept) = Len(buf) - off
      /\ \A k \in 1..Len(kept) : kept[k] = buf[k + off]
  <2>1. CASE Len(buf) >= BusCap
    <3>1. buf # <<>>
      BY <1>0, <2>1
    <3> QED
      BY <1>0, <2>1, <3>1
  <2>2. CASE ~(Len(buf) >= BusCap)
    BY <1>0, <2>2
  <2> QED
    BY <2>1, <2>2
<1>3. off \in {0, 1} /\ (off = 1 <=> Len(buf) >= BusCap)
  OBVIOUS
<1>4. Push(buf, t) = Append(kept, t)
  BY DEF Push
<1> HIDE DEF kept, off
<1>5. /\ Push(buf, t) \in Seq(S) /\ Len(Push(buf, t)) = Len(kept) + 1
      /\ \A k \in 1..Len(kept) : Push(buf, t)[k] = kept[k]
      /\ Push(buf, t)[Len(kept) + 1] = t
  BY <1>2, <1>4
<1>6. /\ Append(all, t) \in Seq(S) /\ Len(Append(all, t)) = Len(all) + 1
      /\ \A k \in 1..Len(all) : Append(all, t)[k] = all[k]
      /\ Append(all, t)[Len(all) + 1] = t
  OBVIOUS
<1>7. Len(Push(buf, t)) = IF Len(all) + 1 <= BusCap THEN Len(all) + 1 ELSE BusCap
  BY <1>0, <1>1, <1>2, <1>3, <1>5
<1>8. ASSUME NEW k \in 1..Len(Push(buf, t))
      PROVE  Push(buf, t)[k] = Append(all, t)[Len(all) + 1 - Len(Push(buf, t)) + k]
  <2>0. k \in Nat /\ Len(kept) \in Nat
    BY <1>2
  <2>1. CASE k = Len(kept) + 1
    BY <1>0, <1>5, <1>6, <2>0, <2>1
  <2>2. CASE k <= Len(kept)
    <3>1. Push(buf, t)[k] = buf[k + off] /\ k + off \in 1..Len(buf)
      BY <1>0, <1>2, <1>3, <1>5, <2>0, <2>2
    <3>2. buf[k + off] = all[Len(all) - Len(buf) + (k + off)]
      BY <3>1 DEF LastOf
    <3>3. /\ Len(all) - Len(buf) + (k + off) = Len(all) + 1 - Len(Push(buf, t)) + k
          /\ Len(all) - Len(buf) + (k + off) \in 1..Len(all)
      BY <1>0, <1>1, <1>2, <1>3, <1>5, <2>0, <2>2, <3>1
    <3> QED
      BY <1>6, <3>1, <3>2, <3>3
  <2>3. k = Len(kept) + 1 \/ k <= Len(kept)
    BY <1>5, <2>0
  <2> QED
    BY <2>1, <2>2, <2>3
<1>9. Len(Push(buf, t)) = IF Len(Append(all, t)) <= BusCap THEN Len(Append(all, t)) ELSE BusCap
  BY <1>6, <1>7
<1>10. ASSUME NEW k \in 1..Len(Push(buf, t))
       PROVE  Push(buf, t)[k] = Append(all, t)[Len(Append(all, t)) - Len(Push(buf, t)) + k]
  <2>1. Len(Append(all, t)) - Len(Push(buf, t)) + k = Len(all) + 1 - Len(Push(buf, t)) + k
    BY ONLY <1>6
  <2> QED
    BY <1>8, <2>1
<1> QED
  BY ONLY <1>5, <1>9, <1>10 DEF LastOf

(* The last BusCap of the first i of ts.                                   *)
Window(ts, i) == SubSeq(ts, IF i <= BusCap THEN 1 ELSE i - BusCap + 1, i)

LEMMA WindowIs ==
  ASSUME NEW S, NEW ts \in Seq(S), NEW i \in 0..Len(ts)
  PROVE  Window(ts, i) \in Seq(S) /\ LastOf(Window(ts, i), SubSeq(ts, 1, i), BusCap)
<1> DEFINE lo == IF i <= BusCap THEN 1 ELSE i - BusCap + 1
<1>0. BusCap \in Nat /\ BusCap >= 1 /\ Len(ts) \in Nat /\ i \in Nat
  BY Limits
<1>1. lo \in 1..(i + 1) /\ i - lo + 1 = (IF i <= BusCap THEN i ELSE BusCap)
  BY <1>0
<1> HIDE DEF lo
<1>2. /\ SubSeq(ts, lo, i) \in Seq(S) /\ Len(SubSeq(ts, lo, i)) = i - lo + 1
      /\ \A k \in 1..(i - lo + 1) : SubSeq(ts, lo, i)[k] = ts[lo + k - 1]
  BY <1>0, <1>1
<1>3. /\ SubSeq(ts, 1, i) \in Seq(S) /\ Len(SubSeq(ts, 1, i)) = i
      /\ \A k \in 1..i : SubSeq(ts, 1, i)[k] = ts[k]
  BY <1>0
<1>4. ASSUME NEW k \in 1..(i - lo + 1)
      PROVE  SubSeq(ts, lo, i)[k] = SubSeq(ts, 1, i)[i - (i - lo + 1) + k]
  <2>1. i - (i - lo + 1) + k = lo + k - 1 /\ lo + k - 1 \in 1..i
    BY <1>0, <1>1
  <2> QED
    BY <1>2, <1>3, <2>1
<1>5. Window(ts, i) = SubSeq(ts, lo, i)
  BY DEF Window, lo
<1> QED
  BY <1>1, <1>2, <1>3, <1>4, <1>5 DEF LastOf

(* Two sequences that hold the last elements of the same one are equal.    *)
LEMMA LastOfUnique ==
  ASSUME NEW S, NEW a \in Seq(S), NEW b \in Seq(S), NEW all \in Seq(S), NEW n,
         LastOf(a, all, n), LastOf(b, all, n)
  PROVE  a = b
<1>1. Len(a) = Len(b) /\ \A k \in 1..Len(a) : a[k] = b[k]
  BY DEF LastOf
<1> QED
  BY <1>1

(* Pushing ts one by one leaves its last BusCap.                           *)
LEMMA PushAllIs ==
  ASSUME NEW S, NEW ts \in Seq(S)
  PROVE  PushAll(ts) \in Seq(S) /\ LastOf(PushAll(ts), ts, BusCap)
<1> DEFINE D == 0..Len(ts)
           G(g) == [i \in D |-> IF i = 0 THEN <<>> ELSE Push(g[i - 1], ts[i])]
           w == [i \in D |-> Window(ts, i)]
           b == CHOOSE g : g = G(g)
<1>0. Len(ts) \in Nat
  OBVIOUS
<1>1. ASSUME NEW i \in D, i # 0 PROVE Window(ts, i) = Push(Window(ts, i - 1), ts[i])
  <2>0. i - 1 \in 0..Len(ts) /\ i \in 1..Len(ts) /\ ts[i] \in S
    BY <1>1
  <2>1. Window(ts, i - 1) \in Seq(S) /\ LastOf(Window(ts, i - 1), SubSeq(ts, 1, i - 1), BusCap)
    BY <2>0, WindowIs
  <2>2. SubSeq(ts, 1, i - 1) \in Seq(S) /\ Append(SubSeq(ts, 1, i - 1), ts[i]) = SubSeq(ts, 1, i)
    BY <2>0
  <2>3. /\ Push(Window(ts, i - 1), ts[i]) \in Seq(S)
        /\ LastOf(Push(Window(ts, i - 1), ts[i]), SubSeq(ts, 1, i), BusCap)
    BY <2>0, <2>1, <2>2, PushKeepsLast
  <2>4. Window(ts, i) \in Seq(S) /\ LastOf(Window(ts, i), SubSeq(ts, 1, i), BusCap)
    BY WindowIs
  <2>5. SubSeq(ts, 1, i) \in Seq(S)
    BY <2>0
  <2> DEFINE x == Window(ts, i)
             y == Push(Window(ts, i - 1), ts[i])
             all == SubSeq(ts, 1, i)
  <2>6. /\ x \in Seq(S) /\ y \in Seq(S) /\ all \in Seq(S)
        /\ LastOf(x, all, BusCap) /\ LastOf(y, all, BusCap)
    BY <2>3, <2>4, <2>5
  <2> HIDE DEF x, y, all
  <2>7. x = y
    BY <2>6, LastOfUnique
  <2> QED
    BY <2>7 DEF x, y
<1>2. Window(ts, 0) = <<>>
  <2>1. Window(ts, 0) = SubSeq(ts, 1, 0)
    BY Limits DEF Window
  <2> QED
    BY <2>1
<1>3. w = G(w)
  <2>1. ASSUME NEW i \in D PROVE w[i] = IF i = 0 THEN <<>> ELSE Push(w[i - 1], ts[i])
    <3>1. i # 0 => i - 1 \in D
      OBVIOUS
    <3> QED
      BY <1>1, <1>2, <3>1
  <2> QED
    BY <2>1
<1>4. b = G(b)
  <2> HIDE DEF w
  <2> QED
    BY <1>3
<1>5. PushAll(ts) = b[Len(ts)]
  BY DEF PushAll
<1> HIDE DEF b
<1>6. b[0] = <<>> /\ \A i \in D : i # 0 => b[i] = Push(b[i - 1], ts[i])
  <2>1. ASSUME NEW i \in D PROVE b[i] = IF i = 0 THEN <<>> ELSE Push(b[i - 1], ts[i])
    <3>1. b[i] = G(b)[i]
      BY <1>4
    <3> QED
      BY <3>1
  <2>2. 0 \in D
    BY <1>0
  <2> QED
    BY <2>1, <2>2
<1> DEFINE T == {i \in Nat : i \in D => b[i] = Window(ts, i)}
<1>7. 0 \in T
  BY <1>2, <1>6
<1>8. ASSUME NEW i \in Nat, i \in T PROVE i + 1 \in T
  <2> SUFFICES ASSUME i + 1 \in D PROVE b[i + 1] = Window(ts, i + 1)
    OBVIOUS
  <2>1. i \in D /\ i + 1 # 0 /\ (i + 1) - 1 = i
    OBVIOUS
  <2>2. b[i + 1] = Push(b[i], ts[i + 1])
    BY <1>6, <2>1
  <2> QED
    BY <1>1, <1>8, <2>1, <2>2
<1>9. Len(ts) \in T
  <2> HIDE DEF T
  <2> QED
    BY <1>0, <1>7, <1>8, Induction
<1>10. PushAll(ts) = Window(ts, Len(ts)) /\ SubSeq(ts, 1, Len(ts)) = ts
  BY <1>0, <1>5, <1>9
<1>11. Len(ts) \in 0..Len(ts)
  BY <1>0
<1> QED
  BY <1>10, <1>11, WindowIs

-----------------------------------------------------------------------------
(* Rows, messages and queries.                                             *)

LEMMA RowKinds ==
  /\ \A x \in Record : IsRecord(x)
  /\ \A x \in Transition : ~IsRecord(x)
  /\ \A x \in Row : IF IsRecord(x) THEN x \in Record ELSE x \in Transition
BY DEF Row, Record, Transition, IsRecord

LEMMA RowFields ==
  /\ \A x \in Record : x.id \in Nat /\ x.run \in Run /\ x.start \in Nat /\ x.end \in Nat
  /\ \A x \in Transition : x.to \in State /\ x.at \in Nat
BY Limits DEF Record, Transition

LEMMA MessageKinds ==
  ASSUME NEW m \in Message
  PROVE  /\ m.kind = "transition" => m.body \in Transition
         /\ m.kind = "record" => m.body \in Record
BY DEF Message

LEMMA MessageTypes ==
  /\ \A t \in Transition : Msg("transition", t) \in Message
  /\ \A x \in Record : Msg("record", x) \in Message
  /\ Publish \in Message
  /\ Msg("shutdown", None) \in Message /\ Msg("complete", None) \in Message
BY DEF Message, Msg, Publish

(* The open record, closed now.                                            *)
LEMMA FinalizedIs ==
  ASSUME TypeInv, PhaseInv
  PROVE  /\ builder.current = None => Finalized = {}
         /\ builder.current # None =>
               /\ builder.current \in Current /\ daemon.run \in Run
               /\ \E x \in Record :
                     /\ Finalized = {x}
                     /\ x = [id |-> builder.current.id, run |-> daemon.run,
                             start |-> builder.current.start, end |-> now,
                             focus |-> builder.current.focus]
<1>1. CASE builder.current = None
  BY <1>1 DEF Finalized
<1>2. CASE builder.current # None
  <2>1. builder.current \in Current /\ daemon.run \in Run /\ now \in 0..MaxTime
    <3>1. daemon.phase = "up"
      BY <1>2 DEF PhaseInv
    <3> QED
      BY <1>2, <3>1 DEF TypeInv, PhaseInv
  <2> DEFINE x == [id |-> builder.current.id, run |-> daemon.run,
                   start |-> builder.current.start, end |-> now,
                   focus |-> builder.current.focus]
  <2>2. x \in Record
    BY <2>1 DEF Record, Current
  <2>3. {builder.current} \ {None} = {builder.current}
    BY <1>2
  <2>4. Finalized = {x}
    BY <2>3 DEF Finalized
  <2> QED
    BY <1>2, <2>1, <2>2, <2>4
<1> QED
  BY <1>1, <1>2

LEMMA FinalizedType ==
  ASSUME TypeInv, PhaseInv
  PROVE  /\ Finalized \subseteq Record
         /\ \/ Finalized = {} /\ SetToSeq(Finalized) = <<>>
            \/ \E x \in Record : Finalized = {x} /\ SetToSeq(Finalized) = <<x>>
BY FinalizedIs, SetToSeqSmall

(* ORDER BY leaves no row out and repeats none.                            *)
LEMMA OrdersAre ==
  ASSUME store \in Seq(Row), NEW is, is \subseteq DOMAIN store, NEW key, NEW s \in Orders(is, key)
  PROVE  \E p \in [1..Cardinality(is) -> is] :
            /\ Cardinality(is) \in Nat
            /\ s = [k \in 1..Cardinality(is) |-> store[p[k]]]
            /\ \A j, k \in 1..Cardinality(is) :
                  j < k => p[j] # p[k] /\ store[p[j]][key] <= store[p[k]][key]
            /\ \A i \in is : \E k \in 1..Cardinality(is) : p[k] = i
<1> DEFINE n == Cardinality(is)
<1>1. IsFiniteSet(is) /\ n \in Nat
  <2>1. DOMAIN store = 1..Len(store) /\ Len(store) \in Nat
    OBVIOUS
  <2>2. IsFiniteSet(1..Len(store))
    BY <2>1, FS_Interval
  <2>3. IsFiniteSet(is)
    BY <2>1, <2>2, FS_Subset
  <2> QED
    BY <2>3, FS_CardinalityType
<1> HIDE DEF n
<1>2. PICK p \in [1..n -> is] :
        /\ s = [k \in 1..n |-> store[p[k]]]
        /\ \A j, k \in 1..n : j < k => p[j] # p[k] /\ store[p[j]][key] <= store[p[k]][key]
  BY DEF Orders, n
<1>3. p \in Injection(1..n, is)
  <2>1. ASSUME NEW j \in 1..n, NEW k \in 1..n, p[j] = p[k] PROVE j = k
    <3>1. ~(j < k) /\ ~(k < j)
      BY <1>2, <2>1
    <3> QED
      BY <1>1, <3>1
  <2> QED
    BY <2>1 DEF Injection, IsInjective
<1>4. Cardinality(1..n) = n
  BY <1>1, FS_Interval
<1>5. p \in Surjection(1..n, is)
  BY <1>1, <1>3, <1>4, FS_Injection DEF n
<1>6. \A i \in is : \E k \in 1..n : p[k] = i
  BY <1>5 DEF Surjection
<1> QED
  BY <1>1, <1>2, <1>6 DEF n

(* Trimming takes records away at the front that are too old, until one is *)
(* not.                                                                    *)
LEMMA TrimIs ==
  ASSUME NEW recs \in Seq(Record), NEW since \in Int
  PROVE  /\ Trim(recs, since) \in Seq(Record)
         /\ \E d \in 0..Len(recs) :
               /\ Len(Trim(recs, since)) = Len(recs) - d
               /\ \A k \in 1..Len(Trim(recs, since)) : Trim(recs, since)[k] = recs[k + d]
               /\ \A k \in 1..d : recs[k].end < since
         /\ Trim(recs, since) # <<>> => Trim(recs, since)[1].end >= since
<1> DEFINE kept == {i \in DOMAIN recs : recs[i].end >= since}
<1>0. /\ Len(recs) \in Nat /\ DOMAIN recs = 1..Len(recs)
      /\ \A i \in 1..Len(recs) : recs[i] \in Record /\ recs[i].end \in Nat
  BY RowFields
<1>1. CASE kept = {}
  <2>1. Trim(recs, since) = <<>>
    BY <1>1 DEF Trim
  <2>2. \A k \in 1..Len(recs) : recs[k].end < since
    BY <1>0, <1>1
  <2>3. Len(recs) \in 0..Len(recs) /\ Len(Trim(recs, since)) = Len(recs) - Len(recs)
    BY <1>0, <2>1
  <2>4. \A k \in 1..Len(Trim(recs, since)) : Trim(recs, since)[k] = recs[k + Len(recs)]
    BY <2>1
  <2> QED
    BY <2>1, <2>2, <2>3, <2>4
<1>2. CASE kept # {}
  <2> DEFINE m == Min(kept)
  <2>1. m \in kept /\ \A k \in kept : m <= k
    <3>1. kept \subseteq Nat
      BY <1>0
    <3> HIDE DEF kept
    <3> QED
      BY <1>2, <3>1, MinIs
  <2>2. Trim(recs, since) = SubSeq(recs, m, Len(recs))
    BY <1>2 DEF Trim
  <2>3. m \in 1..Len(recs) /\ recs[m].end >= since
    BY <1>0, <2>1
  <2>4. \A k \in 1..(m - 1) : recs[k].end < since
    <3> SUFFICES ASSUME NEW k \in 1..(m - 1) PROVE recs[k].end < since
      OBVIOUS
    <3>1. k \in 1..Len(recs) /\ ~(m <= k)
      BY <1>0, <2>3
    <3>2. k \notin kept
      BY <2>1, <3>1
    <3> QED
      BY <1>0, <3>1, <3>2
  <2> HIDE DEF m, kept
  <2>5. /\ SubSeq(recs, m, Len(recs)) \in Seq(Record)
        /\ Len(SubSeq(recs, m, Len(recs))) = Len(recs) - (m - 1)
        /\ \A k \in 1..(Len(recs) - (m - 1)) :
              SubSeq(recs, m, Len(recs))[k] = recs[k + (m - 1)]
    BY <1>0, <2>3
  <2>6. m - 1 \in 0..Len(recs) /\ 1 \in 1..(Len(recs) - (m - 1)) /\ 1 + (m - 1) = m
    BY <1>0, <2>3
  <2> QED
    BY <2>2, <2>3, <2>4, <2>5, <2>6
<1> QED
  BY <1>1, <1>2

LEMMA FetchTypes ==
  ASSUME TypeInv, NEW r \in Run
  PROVE  /\ \A recs \in FetchRecords(r) : recs \in Seq(Record)
         /\ \A trans \in FetchTransitions(r) :
               trans \in Seq(Transition) /\ Len(trans) <= HydrateLimit
<1>0. store \in Seq(Row) /\ \A i \in DOMAIN store : store[i] \in Row
  BY DEF TypeInv
<1>1. ASSUME NEW recs \in FetchRecords(r) PROVE recs \in Seq(Record)
  <2> DEFINE is == {i \in RecordsOf(store, r) : store[i].end >= now - Retention}
  <2>1. is \subseteq DOMAIN store /\ \A i \in is : store[i] \in Record
    BY <1>0, RowKinds DEF RecordsOf
  <2>2. recs \in Orders(is, "start")
    BY DEF FetchRecords
  <2> HIDE DEF is
  <2>3. PICK p \in [1..Cardinality(is) -> is] :
          Cardinality(is) \in Nat /\ recs = [k \in 1..Cardinality(is) |-> store[p[k]]]
    BY <1>0, <2>1, <2>2, OrdersAre
  <2>4. recs \in [1..Cardinality(is) -> Record]
    BY <2>1, <2>3
  <2> QED
    BY <2>3, <2>4
<1>2. ASSUME NEW trans \in FetchTransitions(r)
      PROVE  trans \in Seq(Transition) /\ Len(trans) <= HydrateLimit
  <2> DEFINE is == {i \in TransitionsOf(store, r) : store[i].at >= now - Retention}
  <2>1. is \subseteq DOMAIN store /\ \A i \in is : store[i] \in Transition
    BY <1>0, RowKinds DEF TransitionsOf
  <2>2. PICK s \in Orders(is, "at") : trans = Truncate(Reverse(s), HydrateLimit)
    BY DEF FetchTransitions
  <2> HIDE DEF is
  <2>3. PICK p \in [1..Cardinality(is) -> is] :
          Cardinality(is) \in Nat /\ s = [k \in 1..Cardinality(is) |-> store[p[k]]]
    BY <1>0, <2>1, <2>2, OrdersAre
  <2>4. s \in [1..Cardinality(is) -> Transition]
    BY <2>1, <2>3
  <2>5. Reverse(s) \in Seq(Transition)
    BY <2>3, <2>4, ReverseIs
  <2>6. HydrateLimit \in Nat /\ Len(Reverse(s)) \in Nat
    BY <2>5, Limits
  <2> QED
    BY <2>2, <2>5, <2>6, TruncateIs
<1> QED
  BY <1>1, <1>2

(* The next id is greater than those of all the records it is taken from.  *)
LEMMA NextRecordIdIs ==
  ASSUME NEW recs \in Seq(Record)
  PROVE  NextRecordId(recs) \in Nat /\ \A k \in DOMAIN recs : recs[k].id < NextRecordId(recs)
<1>1. CASE recs = <<>>
  BY <1>1 DEF NextRecordId
<1>2. CASE recs # <<>>
  <2> DEFINE n == Len(recs)
             f == [i \in 1..n |-> recs[i].id]
             P == {f[i] : i \in 1..n}
  <2>1. n \in Nat \ {0} /\ f \in [1..n -> Nat]
    BY <1>2, RowFields
  <2>2. {x.id : x \in Range(recs)} = P
    <3>1. DOMAIN recs = 1..n
      OBVIOUS
    <3> QED
      BY <3>1 DEF Range
  <2>3. Max(P) \in P /\ \A k \in P : k <= Max(P)
    <3> HIDE DEF n, f
    <3> QED
      BY <2>1, MaxIs
  <2>4. NextRecordId(recs) = Max(P) + 1
    BY <1>2, <2>2 DEF NextRecordId
  <2>5. DOMAIN recs = 1..n /\ \A k \in 1..n : recs[k].id = f[k]
    OBVIOUS
  <2> HIDE DEF f, n
  <2>6. Max(P) \in Nat /\ \A k \in 1..n : f[k] \in P /\ f[k] \in Nat
    BY <2>1, <2>3
  <2> HIDE DEF P
  <2> QED
    BY <2>3, <2>4, <2>5, <2>6
<1> QED
  BY <1>1, <1>2

-----------------------------------------------------------------------------
(* Every step keeps the types.                                             *)

LEMMA NoneTypes ==
  /\ NoDaemon \in [phase : Phase, run : Run \cup {None}, state : State]
  /\ \A n \in Nat :
        NewBuilder(n) \in [focus : Focus \cup {NoFocus}, current : Current \cup {None}, next : Nat]
  /\ NoStage \in StageType /\ NoStage.transitions = <<>>
  /\ BusType(NoBus)
  /\ \A L \in SUBSET Run : NoPast(L) \in PastType
<1>1. Inactive \in State
  BY RestartAssumption
<1>2. /\ NoDaemon \in [phase : Phase, run : Run \cup {None}, state : State]
      /\ NoStage \in StageType /\ NoStage.transitions = <<>>
  BY <1>1 DEF NoDaemon, Phase, NoStage, StageType
<1>3. \A n \in Nat :
        NewBuilder(n) \in [focus : Focus \cup {NoFocus}, current : Current \cup {None}, next : Nat]
  BY DEF NewBuilder
<1>4. BusType(NoBus)
  <2>1. /\ NoBus = [transitions |-> NoBus.transitions, snapshot |-> NoBus.snapshot]
        /\ NoBus.transitions = <<>> /\ NoBus.snapshot.recent = <<>>
    BY DEF NoBus, EmptySnapshot
  <2>2. <<>> \in Seq(Transition) /\ Len(<<>>) <= BusCap /\ Len(<<>>) <= RecentLimit
    BY Limits
  <2> QED
    BY <2>1, <2>2 DEF BusType
<1>5. \A L \in SUBSET Run : NoPast(L) \in PastType
  BY DEF NoPast, PastType
<1> QED
  BY <1>2, <1>3, <1>4, <1>5

(* What publish_snapshot does.                                             *)
LEMMA PublishIs ==
  ASSUME now \in 0..MaxTime, NEW s \in StageType, NEW buf \in Seq(Transition), Len(buf) <= BusCap,
         publish_snapshot(s, buf)
  PROVE  /\ stage' \in StageType /\ stage' = [s EXCEPT !.records = stage'.records]
         /\ stage'.records = Trim(s.records, now - Retention)
         /\ BusType(bus') /\ bus'.transitions = buf
         /\ bus'.snapshot.at = now /\ bus'.snapshot.records = stage'.records
         /\ bus'.snapshot.state = s.state /\ bus'.snapshot.last = s.last
         /\ bus'.snapshot.recent = recent_transitions(buf, RecentLimit)
         /\ bus'.snapshot.apps =
               build_app_tree(aggregate_activities_since(stage'.records, now - Retention))
<1> DEFINE recs == Trim(s.records, now - Retention)
           recent == recent_transitions(buf, RecentLimit)
           apps == build_app_tree(aggregate_activities_since(recs, now - Retention))
<1>1. now \in Nat /\ Retention \in Nat /\ RecentLimit \in Nat
  BY Limits
<1>2. s.records \in Seq(Record)
  BY DEF StageType
<1>3. recs \in Seq(Record)
  BY <1>1, <1>2, TrimIs
<1>4. recent \in Seq(Transition) /\ Len(recent) <= RecentLimit
  <2>1. Reverse(buf) \in Seq(Transition)
    BY ReverseIs
  <2> QED
    BY <1>1, <2>1, TruncateIs DEF recent_transitions
<1> HIDE DEF recs, recent, apps
<1>5. /\ stage' = [s EXCEPT !.records = recs]
      /\ bus' = [transitions |-> buf,
                 snapshot |-> [at |-> now, state |-> s.state, last |-> s.last,
                               recent |-> recent, records |-> recs, apps |-> apps]]
  BY DEF publish_snapshot, recs, recent, apps
<1>6. stage' \in StageType /\ stage'.records = recs
  BY <1>3, <1>5 DEF StageType
<1>7. /\ bus' = [transitions |-> bus'.transitions, snapshot |-> bus'.snapshot]
      /\ bus'.transitions = buf
      /\ bus'.snapshot.at = now /\ bus'.snapshot.records = recs
      /\ bus'.snapshot.state = s.state /\ bus'.snapshot.last = s.last
      /\ bus'.snapshot.recent = recent /\ bus'.snapshot.apps = apps
  BY <1>5
<1> QED
  BY <1>4, <1>5, <1>6, <1>7 DEF BusType, recs, recent, apps

TInv == TypeInv /\ PhaseInv

LEMMA TypesInit ==
  ASSUME Init
  PROVE  TInv
<1>1. TypeInv
  <2>1. now \in 0..MaxTime /\ store \in Seq(Row) /\ pending \in Seq(Row) /\ inbox \in Seq(Message)
    BY Limits DEF Init
  <2>2. {} \in SUBSET Run /\ 0 \in Nat
    OBVIOUS
  <2>3. past \in PastType /\ Len(NoStage.transitions) <= HydrateLimit
    BY <2>2, NoneTypes, Limits DEF Init
  <2> QED
    BY <2>1, <2>2, <2>3, NoneTypes DEF Init, TypeInv
<1>2. PhaseInv
  BY DEF Init, PhaseInv, NoDaemon, NewBuilder
<1> QED
  BY <1>1, <1>2 DEF TInv

(* What a start does with the records and the transitions it reads.        *)
Reads(r, recs, trans, failed) ==
  /\ stage' = [NoStage EXCEPT !.records = recs, !.transitions = trans]
  /\ builder' = NewBuilder(NextRecordId(recs))
  /\ past' = [NoPast(past.lost \cup {store[i].run : i \in IF recs = <<>>
                                                    THEN RecordsOf(store, r) ELSE {}})
                EXCEPT !.rows = Len(store), !.read = (failed # "records"),
                       !.transitions = trans]

LEMMA StartReads ==
  ASSUME NEW r, Start(r)
  PROVE  \E recs, trans, failed :
           /\ recs \in IF failed = "records" THEN {<<>>} ELSE FetchRecords(r)
           /\ trans \in IF failed = "transitions" THEN {<<>>} ELSE FetchTransitions(r)
           /\ Reads(r, recs, trans, failed)
<1>1. PICK failed \in IF fuel.failures > 0 /\ store # <<>>
                          THEN {"", "records", "transitions"} ELSE {""} :
        \E recs \in IF failed = "records" THEN {<<>>} ELSE FetchRecords(r) :
        \E trans \in IF failed = "transitions" THEN {<<>>} ELSE FetchTransitions(r) :
          Reads(r, recs, trans, failed)
  <2>1. Start(r)
    OBVIOUS
  <2> QED
    BY ONLY <2>1, Zenon DEF Start, Reads
<1>2. PICK recs \in IF failed = "records" THEN {<<>>} ELSE FetchRecords(r) :
        \E trans \in IF failed = "transitions" THEN {<<>>} ELSE FetchTransitions(r) :
          Reads(r, recs, trans, failed)
  BY ONLY <1>1, Zenon
<1>3. PICK trans \in IF failed = "transitions" THEN {<<>>} ELSE FetchTransitions(r) :
        Reads(r, recs, trans, failed)
  BY ONLY <1>2, Zenon
<1> QED
  BY ONLY <1>2, <1>3, Zenon

LEMMA TypesStart ==
  ASSUME TInv, NEW r \in Run, Start(r)
  PROVE  TInv'
<1> USE DEF TInv
<1>r. PICK recs, trans, failed :
        /\ recs \in IF failed = "records" THEN {<<>>} ELSE FetchRecords(r)
        /\ trans \in IF failed = "transitions" THEN {<<>>} ELSE FetchTransitions(r)
        /\ Reads(r, recs, trans, failed)
  BY StartReads, Zenon
<1>1. /\ recs \in IF failed = "records" THEN {<<>>} ELSE FetchRecords(r)
      /\ trans \in IF failed = "transitions" THEN {<<>>} ELSE FetchTransitions(r)
      /\ stage' = [NoStage EXCEPT !.records = recs, !.transitions = trans]
      /\ builder' = NewBuilder(NextRecordId(recs))
      /\ past' = [NoPast(past.lost \cup {store[i].run : i \in IF recs = <<>>
                                                        THEN RecordsOf(store, r) ELSE {}})
                    EXCEPT !.rows = Len(store), !.read = (failed # "records"),
                           !.transitions = trans]
  BY <1>r DEF Reads
<1>2. recs \in Seq(Record) /\ trans \in Seq(Transition) /\ Len(trans) <= HydrateLimit
  <2>1. <<>> \in Seq(Record) /\ <<>> \in Seq(Transition) /\ Len(<<>>) <= HydrateLimit
    BY Limits
  <2> QED
    BY <1>1, <2>1, FetchTypes
<1>3. stage' \in StageType /\ stage'.transitions = trans
  BY <1>1, <1>2, NoneTypes DEF StageType
<1>4. NextRecordId(recs) \in Nat
  BY <1>2, NextRecordIdIs
<1>5. past' \in PastType
  <2> DEFINE L == past.lost \cup {store[i].run : i \in IF recs = <<>>
                                                   THEN RecordsOf(store, r) ELSE {}}
  <2>1. L \in SUBSET Run
    <3>1. past.lost \subseteq Run
      BY DEF TypeInv, PastType
    <3>2. \A i \in RecordsOf(store, r) : store[i].run = r
      BY DEF RecordsOf
    <3> QED
      BY <3>1, <3>2
  <2> HIDE DEF L
  <2>2. NoPast(L) \in PastType /\ Len(store) \in Nat /\ (failed # "records") \in BOOLEAN
    <3>1. NoPast(L) \in PastType
      BY <2>1, NoneTypes
    <3>2. Len(store) \in Nat
      BY DEF TypeInv
    <3> QED
      BY <3>1, <3>2
  <2>3. past' = [NoPast(L) EXCEPT !.rows = Len(store), !.read = (failed # "records"),
                                  !.transitions = trans]
    BY <1>1 DEF L
  <2> QED
    BY <1>2, <2>2, <2>3 DEF PastType
<1>6. daemon' \in [phase : Phase, run : Run \cup {None}, state : State]
        /\ daemon'.phase = "up" /\ daemon'.run = r
  BY NoneTypes DEF Start, Phase
<1>7. builder' \in [focus : Focus \cup {NoFocus}, current : Current \cup {None}, next : Nat]
  BY <1>1, <1>4, NoneTypes
<1>8. UNCHANGED <<now, store, inbox, pending, bus>>
  BY DEF Start
<1>9. TypeInv'
  BY <1>2, <1>3, <1>5, <1>6, <1>7, <1>8 DEF TypeInv
<1>10. PhaseInv'
  <2>1. inbox' = <<>>
    BY <1>8 DEF PhaseInv, Start
  <2> QED
    BY <1>6, <2>1 DEF PhaseInv
<1> QED
  BY <1>9, <1>10

(* The stage's own steps leave the rest of the daemon alone.               *)
LEMMA TypesStageBegins ==
  ASSUME TInv, StageBegins
  PROVE  TInv'
<1> USE DEF TInv
<1>1. stage \in StageType /\ now \in 0..MaxTime /\ Len(stage.transitions) <= HydrateLimit
  BY DEF TypeInv
<1> DEFINE ts == stage.transitions
           s == Replay(stage)
           buf == PushAll(ts)
<1>2. ts \in Seq(Transition)
  BY <1>1 DEF StageType
<1>3. ts # <<>> => Last(ts) \in Transition /\ Last(ts).to \in State
  BY <1>2, RowFields DEF Last
<1>4. s \in StageType /\ s.transitions = <<>>
  <2> DEFINE st == IF ts = <<>> THEN stage.state ELSE Last(ts).to
             la == IF ts = <<>> THEN stage.last ELSE Last(ts)
  <2>1. st \in State /\ la \in Transition \cup {None}
    BY <1>1, <1>3 DEF StageType
  <2>2. s = [stage EXCEPT !.begun = TRUE, !.transitions = <<>>, !.state = st, !.last = la]
    BY DEF Replay
  <2>3. <<>> \in Seq(Transition)
    OBVIOUS
  <2> HIDE DEF st, la, s
  <2> QED
    BY <1>1, <2>1, <2>2, <2>3 DEF StageType
<1>5. buf \in Seq(Transition) /\ Len(buf) <= BusCap
  <2>1. buf \in Seq(Transition) /\ LastOf(buf, ts, BusCap)
    BY <1>2, PushAllIs
  <2>2. Len(ts) \in Nat
    BY <1>2
  <2> HIDE DEF buf, ts
  <2> QED
    BY <2>1, <2>2, Limits DEF LastOf
<1>6. publish_snapshot(s, buf)
  BY DEF StageBegins
<1> HIDE DEF s, buf, ts
<1>7. stage' \in StageType /\ stage' = [s EXCEPT !.records = stage'.records] /\ BusType(bus')
  BY <1>1, <1>4, <1>5, <1>6, PublishIs
<1>8. Len(stage'.transitions) <= HydrateLimit
  <2>1. stage'.transitions = <<>>
    BY <1>4, <1>7 DEF StageType
  <2> QED
    BY <2>1, Limits
<1>9. UNCHANGED <<now, store, daemon, builder, inbox, pending, past>> /\ daemon.phase # "down"
  BY DEF StageBegins
<1>10. TypeInv'
  BY <1>7, <1>8, <1>9 DEF TypeInv
<1>11. PhaseInv'
  BY <1>9 DEF PhaseInv
<1> QED
  BY <1>10, <1>11

(* A daemon that reads a message is not down.                              *)
LEMMA ReceivedIs ==
  ASSUME TInv, NEW k, Received(k)
  PROVE  /\ inbox \in Seq(Message) /\ inbox # <<>> /\ Head(inbox) \in Message
         /\ Head(inbox).kind = k
         /\ inbox' = Tail(inbox) /\ inbox' \in Seq(Message)
         /\ DOMAIN inbox' = 1..(Len(inbox) - 1) /\ Len(inbox') = Len(inbox) - 1
         /\ Head(inbox) = inbox[1] /\ DOMAIN inbox = 1..Len(inbox) /\ Len(inbox) \in Nat \ {0}
         /\ \A i \in DOMAIN inbox' : i + 1 \in 2..Len(inbox) /\ inbox'[i] = inbox[i + 1]
         /\ \A i \in DOMAIN inbox' : i + 1 \in DOMAIN inbox
         /\ stage.begun /\ daemon.phase # "down" /\ daemon.run \in Run
<1>1. inbox \in Seq(Message) /\ inbox # <<>> /\ inbox' = Tail(inbox) /\ Head(inbox).kind = k
        /\ stage.begun
  BY DEF TInv, TypeInv, Received
<1>2. daemon.phase # "down" /\ daemon.run \in Run
  BY <1>1 DEF TInv, PhaseInv
<1>3. /\ inbox' \in Seq(Message) /\ Head(inbox) \in Message /\ Head(inbox) = inbox[1]
      /\ DOMAIN inbox = 1..Len(inbox) /\ Len(inbox) \in Nat \ {0}
      /\ Len(inbox') = Len(inbox) - 1 /\ DOMAIN inbox' = 1..(Len(inbox) - 1)
      /\ \A i \in 1..(Len(inbox) - 1) : inbox'[i] = inbox[i + 1]
  BY <1>1
<1> QED
  BY <1>1, <1>2, <1>3

LEMMA TypesApplyUpdate ==
  ASSUME TInv, ApplyUpdate
  PROVE  TInv'
<1>1. Received("transition")
  BY DEF ApplyUpdate
<1> DEFINE t == Head(inbox).body
<1>2. t \in Transition /\ t.to \in State
  BY <1>1, ReceivedIs, MessageKinds, RowFields
<1>3. /\ stage' = [stage EXCEPT !.state = t.to, !.last = t]
      /\ bus' = [bus EXCEPT !.transitions = Push(@, t)]
      /\ pending' = Append(pending, t)
      /\ UNCHANGED <<now, store, daemon, builder, past, fuel>>
  BY DEF ApplyUpdate
<1> HIDE DEF t
<1>4. stage' \in StageType /\ stage'.transitions = stage.transitions
  BY <1>2, <1>3 DEF TInv, TypeInv, StageType
<1>5. BusType(bus')
  <2>0. BusType(bus)
    BY DEF TInv, TypeInv
  <2>1. /\ bus.transitions \in Seq(Transition) /\ Len(bus.transitions) <= BusCap
        /\ bus = [transitions |-> bus.transitions, snapshot |-> bus.snapshot]
    BY <2>0 DEF BusType
  <2>2. LastOf(bus.transitions, bus.transitions, BusCap)
    BY <2>1 DEF LastOf
  <2>3. /\ Push(bus.transitions, t) \in Seq(Transition)
        /\ LastOf(Push(bus.transitions, t), Append(bus.transitions, t), BusCap)
    BY <1>2, <2>1, <2>2, PushKeepsLast
  <2>4. Len(Append(bus.transitions, t)) \in Nat
    BY <1>2, <2>1
  <2>5. Len(Push(bus.transitions, t)) <= BusCap
    BY <2>3, <2>4, Limits DEF LastOf
  <2>6. bus' = [transitions |-> Push(bus.transitions, t), snapshot |-> bus.snapshot]
    BY <1>3, <2>1
  <2>7. bus'.transitions = Push(bus.transitions, t) /\ bus'.snapshot = bus.snapshot
    BY <2>6
  <2> QED
    BY <2>0, <2>3, <2>5, <2>6, <2>7 DEF BusType
<1>6. pending' \in Seq(Row)
  BY <1>2, <1>3 DEF TInv, TypeInv, Row
<1>7. TypeInv'
  BY <1>1, <1>3, <1>4, <1>5, <1>6, ReceivedIs DEF TInv, TypeInv
<1>8. PhaseInv'
  BY <1>1, <1>3, ReceivedIs DEF TInv, PhaseInv
<1> QED
  BY <1>7, <1>8 DEF TInv

LEMMA TypesUpdateRecords ==
  ASSUME TInv, UpdateRecords
  PROVE  TInv'
<1>1. Received("record")
  BY DEF UpdateRecords
<1> DEFINE x == Head(inbox).body
<1>2. x \in Record
  BY <1>1, ReceivedIs, MessageKinds
<1>3. /\ stage' = [stage EXCEPT !.records = Append(@, x)]
      /\ UNCHANGED <<now, store, daemon, builder, pending, bus, past>>
  BY DEF UpdateRecords
<1> HIDE DEF x
<1>4. stage' \in StageType /\ stage'.transitions = stage.transitions
  <2>1. stage \in StageType /\ Append(stage.records, x) \in Seq(Record)
    BY <1>2 DEF TInv, TypeInv, StageType
  <2> QED
    BY <1>3, <2>1 DEF StageType
<1>5. TypeInv'
  BY <1>1, <1>3, <1>4, ReceivedIs DEF TInv, TypeInv
<1>6. PhaseInv'
  BY <1>1, <1>3, ReceivedIs DEF TInv, PhaseInv
<1> QED
  BY <1>5, <1>6 DEF TInv

(* publish_snapshot with the stage's own buffer.                           *)
LEMMA TypesPublish ==
  ASSUME TInv, NEW s \in StageType, s.transitions = stage.transitions,
         publish_snapshot(s, bus.transitions)
  PROVE  stage' \in StageType /\ Len(stage'.transitions) <= HydrateLimit /\ BusType(bus')
<1>1. /\ now \in 0..MaxTime /\ Len(s.transitions) <= HydrateLimit
      /\ bus.transitions \in Seq(Transition) /\ Len(bus.transitions) <= BusCap
  BY DEF TInv, TypeInv, BusType
<1>2. stage' \in StageType /\ stage' = [s EXCEPT !.records = stage'.records] /\ BusType(bus')
  BY <1>1, PublishIs
<1>3. stage'.transitions = s.transitions
  BY <1>2 DEF StageType
<1> QED
  BY <1>1, <1>2, <1>3

LEMMA TypesPublishNow ==
  ASSUME TInv, PublishNow
  PROVE  TInv'
<1>1. /\ Received("publish") /\ publish_snapshot(stage, bus.transitions)
      /\ UNCHANGED <<now, store, daemon, builder, pending, past>>
  BY DEF PublishNow
<1>2. stage \in StageType
  BY DEF TInv, TypeInv
<1>3. stage' \in StageType /\ Len(stage'.transitions) <= HydrateLimit /\ BusType(bus')
  BY <1>1, <1>2, TypesPublish
<1>4. TypeInv'
  BY <1>1, <1>3, ReceivedIs DEF TInv, TypeInv
<1>5. PhaseInv'
  BY <1>1, ReceivedIs DEF TInv, PhaseInv
<1> QED
  BY <1>4, <1>5 DEF TInv

LEMMA TypesFinish ==
  ASSUME TInv, NEW k \in {"shutdown", "complete"}, NEW s \in StageType, s.transitions = stage.transitions, Finish(k, s)
  PROVE  TInv'
<1>1. Received(k) /\ UNCHANGED <<now, store, builder, pending, past>>
  BY DEF Finish
<1>2. Len(s.transitions) <= HydrateLimit
  BY DEF TInv, TypeInv
<1>3. /\ stage' \in StageType /\ Len(stage'.transitions) <= HydrateLimit /\ BusType(bus')
      /\ daemon' \in [phase : Phase, run : Run \cup {None}, state : State]
      /\ daemon'.run = daemon.run /\ daemon'.phase # "down"
      /\ daemon'.phase = "drained" \/ daemon' = daemon
  <2>1. CASE s.shutdown /\ s.complete
    <3>1. publish_snapshot(s, bus.transitions) /\ daemon' = [daemon EXCEPT !.phase = "drained"]
      BY <2>1 DEF Finish
    <3>2. stage' \in StageType /\ Len(stage'.transitions) <= HydrateLimit /\ BusType(bus')
      BY <3>1, TypesPublish
    <3> QED
      BY <3>1, <3>2 DEF TInv, TypeInv, Phase
  <2>2. CASE ~(s.shutdown /\ s.complete)
    <3>1. stage' = s /\ UNCHANGED <<daemon, bus>>
      BY <2>2 DEF Finish
    <3> QED
      BY <1>1, <1>2, <3>1, ReceivedIs DEF TInv, TypeInv
  <2> QED
    BY <2>1, <2>2
<1>4. TypeInv'
  BY <1>1, <1>3, ReceivedIs DEF TInv, TypeInv
<1>5. PhaseInv'
  <2>1. daemon.phase # "up"
    BY <1>1, ReceivedIs DEF TInv, PhaseInv
  <2>2. builder.current = None /\ daemon.run \in Run /\ daemon'.phase # "up"
    BY <1>1, <1>3, <2>1, ReceivedIs DEF TInv, PhaseInv
  <2> QED
    BY <1>1, <1>3, <2>2 DEF PhaseInv
<1> QED
  BY <1>4, <1>5 DEF TInv

LEMMA TypesShutdown ==
  ASSUME TInv, HandleShutdown \/ HandleComplete
  PROVE  TInv'
<1>1. stage \in StageType
  BY DEF TInv, TypeInv
<1>2. CASE HandleShutdown
  <2> DEFINE s == [stage EXCEPT !.shutdown = TRUE]
  <2>1. s \in StageType /\ s.transitions = stage.transitions
    BY <1>1 DEF StageType
  <2>2. Finish("shutdown", s)
    BY <1>2 DEF HandleShutdown
  <2> HIDE DEF s
  <2> QED
    BY <2>1, <2>2, TypesFinish
<1>3. CASE HandleComplete
  <2> DEFINE s == [stage EXCEPT !.complete = TRUE]
  <2>1. s \in StageType /\ s.transitions = stage.transitions
    BY <1>1 DEF StageType
  <2>2. Finish("complete", s)
    BY <1>3 DEF HandleComplete
  <2> HIDE DEF s
  <2> QED
    BY <2>1, <2>2, TypesFinish
<1> QED
  BY <1>2, <1>3

(* The inbox after a hint: the record, if there is one, at some place      *)
(* among the messages msgs.                                                *)
LEMMA HintInbox ==
  ASSUME TInv, NEW b, NEW msgs \in Seq(Message), NEW c, Hint(b, msgs, c)
  PROVE  /\ inbox' \in Seq(Message)
         /\ \/ /\ Finalized = {} /\ inbox' = msgs /\ pending' = pending
            \/ \E x \in Record, i \in 1..(Len(msgs) + 1) :
                  /\ Finalized = {x}
                  /\ pending' = Append(pending, x)
                  /\ Inserted(inbox', msgs, i, Msg("record", x))
<1>0. TypeInv /\ PhaseInv /\ pending \in Seq(Row)
  BY DEF TInv, TypeInv
<1>1. CASE Finalized = {} /\ SetToSeq(Finalized) = <<>>
  <2>1. inbox' = msgs /\ pending' = pending \o <<>>
    BY <1>1 DEF Hint
  <2> QED
    BY <1>0, <1>1, <2>1
<1>2. CASE \E x \in Record : Finalized = {x} /\ SetToSeq(Finalized) = <<x>>
  <2>1. PICK x \in Record : Finalized = {x} /\ SetToSeq(Finalized) = <<x>>
    BY <1>2
  <2>2. inbox' \in Interleaved(msgs, Msg("record", x)) /\ pending' = pending \o <<x>>
    BY <2>1 DEF Hint
  <2>3. PICK i \in 1..(Len(msgs) + 1) : inbox' = InsertAt(msgs, i, Msg("record", x))
    BY <2>2 DEF Interleaved
  <2>4. Msg("record", x) \in Message
    BY MessageTypes
  <2>5. pending' = Append(pending, x)
    BY <1>0, <2>2
  <2>6. inbox' \in Seq(Message) /\ Inserted(inbox', msgs, i, Msg("record", x))
    BY <2>3, <2>4, InsertAtIs
  <2> QED
    BY <2>1, <2>5, <2>6
<1> QED
  BY <1>0, <1>1, <1>2, FinalizedType

BuilderType == [focus : Focus \cup {NoFocus}, current : Current \cup {None}, next : Nat]

LEMMA TypesHint ==
  ASSUME TInv, NEW b \in BuilderType, NEW msgs \in Seq(Message), NEW c, Hint(b, msgs, c),
         \A k \in 1..Len(msgs) : msgs[k].kind \notin {"shutdown", "complete"},
         daemon' \in [phase : Phase, run : Run \cup {None}, state : State],
         daemon'.phase = daemon.phase, daemon'.run = daemon.run, past' \in PastType
  PROVE  TInv'
<1>1. inbox' \in Seq(Message) /\ pending' \in Seq(Row)
  <2>1. pending \in Seq(Row)
    BY DEF TInv, TypeInv
  <2>2. \A x \in Record : Append(pending, x) \in Seq(Row)
    BY <2>1 DEF Row
  <2> QED
    BY <2>1, <2>2, HintInbox
<1>2. builder' \in BuilderType
  <2>1. now \in 0..MaxTime /\ b.next \in Nat /\ b.focus \in Focus \cup {NoFocus}
    BY DEF TInv, TypeInv, BuilderType
  <2>2. [id |-> b.next, start |-> now, focus |-> b.focus] \in Current
    BY <2>1 DEF Current
  <2>3. builder' = Reopened(b)
    BY DEF Hint
  <2> DEFINE c0 == [id |-> b.next, start |-> now, focus |-> b.focus]
  <2>4. builder' = [b EXCEPT !.current = c0, !.next = @ + 1] /\ c0 \in Current
    BY <2>2, <2>3 DEF Reopened
  <2>5. b.next + 1 \in Nat
    BY <2>1
  <2> HIDE DEF c0
  <2> QED
    BY <2>4, <2>5 DEF BuilderType
<1>3. UNCHANGED <<now, store, stage, bus>> /\ daemon.phase = "up"
  BY DEF Hint
<1>4. TypeInv'
  BY <1>1, <1>2, <1>3 DEF TInv, TypeInv, BuilderType
<1>5. \A k \in DOMAIN inbox' : inbox'[k].kind \notin {"shutdown", "complete"}
  <2>1. CASE inbox' = msgs
    BY <2>1
  <2>2. CASE \E x \in Record, i \in 1..(Len(msgs) + 1) :
               Inserted(inbox', msgs, i, Msg("record", x))
    <3>1. PICK x \in Record, i \in 1..(Len(msgs) + 1) :
               Inserted(inbox', msgs, i, Msg("record", x))
      BY <2>2
    <3>2. Msg("record", x).kind = "record"
      BY DEF Msg
    <3>3. DOMAIN inbox' = 1..(Len(msgs) + 1) /\ Len(msgs) \in Nat
      BY <1>1, <3>1 DEF Inserted
    <3>4. ASSUME NEW k \in 1..(Len(msgs) + 1)
          PROVE  inbox'[k].kind \notin {"shutdown", "complete"}
      <4>1. k < i => k \in 1..Len(msgs)
        BY <3>3
      <4>2. ~(k < i) /\ k # i => k - 1 \in 1..Len(msgs)
        BY <3>3
      <4> QED
        BY <3>1, <3>2, <4>1, <4>2 DEF Inserted
    <3> QED
      BY <3>3, <3>4
  <2> QED
    BY <2>1, <2>2, HintInbox
<1>6. PhaseInv'
  BY <1>3, <1>5 DEF TInv, PhaseInv
<1> QED
  BY <1>4, <1>6 DEF TInv

(* The messages of a state change.                                         *)
LEMMA StateChangeIs ==
  ASSUME TInv, NEW s \in State, StateChanges(s)
  PROVE  \E t \in Transition :
            /\ t.at = now /\ t.to = s
            /\ Hint(builder, <<Msg("transition", t), Publish>>, StateCost)
            /\ <<Msg("transition", t), Publish>> \in Seq(Message)
            /\ past' = [past EXCEPT !.made = Append(@, t)] /\ past' \in PastType
            /\ daemon' = [daemon EXCEPT !.state = s]
            /\ daemon' \in [phase : Phase, run : Run \cup {None}, state : State]
<1> DEFINE t == [from |-> daemon.state, to |-> s, at |-> now, run |-> daemon.run]
<1>1. /\ Hint(builder, <<Msg("transition", t), Publish>>, StateCost)
      /\ past' = [past EXCEPT !.made = Append(@, t)]
      /\ daemon' = [daemon EXCEPT !.state = s]
  BY DEF StateChanges
<1>2. daemon.phase = "up" /\ daemon.run \in Run
  BY <1>1 DEF Hint, TInv, PhaseInv
<1>3. t \in Transition /\ t.at = now /\ t.to = s
  BY <1>2 DEF TInv, TypeInv, Transition
<1> HIDE DEF t
<1>4. <<Msg("transition", t), Publish>> \in Seq(Message)
  BY <1>3, MessageTypes
<1>5. past' \in PastType
  <2>1. past \in PastType /\ Append(past.made, t) \in Seq(Transition)
    BY <1>3 DEF TInv, TypeInv, PastType
  <2> QED
    BY <1>1, <2>1 DEF PastType
<1>6. daemon' \in [phase : Phase, run : Run \cup {None}, state : State]
  BY <1>1 DEF TInv, TypeInv
<1> QED
  BY <1>1, <1>3, <1>4, <1>5, <1>6

LEMMA TypesChanges ==
  ASSUME TInv, (\E s \in State : StateChanges(s)) \/ (\E f \in Focus : FocusChanges(f))
  PROVE  TInv'
<1>0. builder \in BuilderType
  BY DEF TInv, TypeInv, BuilderType
<1>1. ASSUME NEW s \in State, StateChanges(s) PROVE TInv'
  <2>1. PICK t \in Transition :
            /\ Hint(builder, <<Msg("transition", t), Publish>>, StateCost)
            /\ <<Msg("transition", t), Publish>> \in Seq(Message)
            /\ \A k \in 1..2 :
                  <<Msg("transition", t), Publish>>[k].kind \notin {"shutdown", "complete"}
            /\ past' \in PastType
            /\ daemon' = [daemon EXCEPT !.state = s]
            /\ daemon' \in [phase : Phase, run : Run \cup {None}, state : State]
    <3>1. \A t : \A k \in 1..2 :
              <<Msg("transition", t), Publish>>[k].kind \notin {"shutdown", "complete"}
      BY DEF Msg, Publish
    <3> QED
      BY <1>1, <3>1, StateChangeIs
  <2>2. daemon'.phase = daemon.phase /\ daemon'.run = daemon.run
    BY <2>1 DEF TInv, TypeInv
  <2> QED
    BY <1>0, <2>1, <2>2, TypesHint
<1>2. ASSUME NEW f \in Focus, FocusChanges(f) PROVE TInv'
  <2> DEFINE b == [builder EXCEPT !.focus = f]
  <2>1. Hint(b, <<Publish>>, FocusCost) /\ UNCHANGED <<daemon, past>>
    BY <1>2 DEF FocusChanges
  <2>2. b \in BuilderType
    BY <1>0 DEF BuilderType
  <2>3. /\ <<Publish>> \in Seq(Message)
        /\ \A k \in 1..1 : <<Publish>>[k].kind \notin {"shutdown", "complete"}
    BY MessageTypes DEF Msg, Publish
  <2>4. daemon' \in [phase : Phase, run : Run \cup {None}, state : State] /\ past' \in PastType
    BY <2>1 DEF TInv, TypeInv
  <2> HIDE DEF b
  <2> QED
    BY <2>1, <2>2, <2>3, <2>4, TypesHint
<1> QED
  BY <1>1, <1>2

(* The inbox after a stop: the record, if there is one, and the end of the *)
(* hints, with the shutdown at some place among them.                      *)
LEMMA StopInbox ==
  ASSUME TInv, Stop
  PROVE  /\ inbox' \in Seq(Message)
         /\ \E last \in Seq(Message) :
               /\ \E i \in 1..(Len(last) + 1) :
                     Inserted(inbox', last, i, Msg("shutdown", None))
               /\ \/ Finalized = {} /\ pending' = pending /\ last = <<Msg("complete", None)>>
                  \/ \E x \in Record :
                        /\ Finalized = {x} /\ pending' = Append(pending, x)
                        /\ last = <<Msg("record", x), Msg("complete", None)>>
<1> DEFINE msgs == SetToSeq({Msg("record", x) : x \in Finalized})
           last == msgs \o <<Msg("complete", None)>>
<1>0. TypeInv /\ PhaseInv /\ pending \in Seq(Row)
  BY DEF TInv, TypeInv
<1>1. PICK i \in 1..(Len(last) + 1) : inbox' = InsertAt(last, i, Msg("shutdown", None))
  BY DEF Stop, Interleaved
<1>2. pending' = pending \o SetToSeq(Finalized)
  BY DEF Stop
<1>3. /\ last \in Seq(Message)
      /\ \/ Finalized = {} /\ pending' = pending /\ last = <<Msg("complete", None)>>
         \/ \E x \in Record :
               /\ Finalized = {x} /\ pending' = Append(pending, x)
               /\ last = <<Msg("record", x), Msg("complete", None)>>
  <2>1. CASE Finalized = {} /\ SetToSeq(Finalized) = <<>>
    <3>1. {Msg("record", x) : x \in Finalized} = {}
      BY <2>1
    <3>2. msgs = <<>>
      BY <3>1, SetToSeqSmall
    <3>3. last = <<Msg("complete", None)>>
      <4> HIDE DEF msgs
      <4> QED
        BY <3>2
    <3>4. last \in Seq(Message)
      <4>1. Msg("complete", None) \in Message
        BY MessageTypes
      <4> HIDE DEF msgs, last
      <4> QED
        BY <3>3, <4>1
    <3>5. pending' = pending \o <<>>
      BY <1>2, <2>1
    <3>6. pending' = pending
      BY <1>0, <3>5
    <3> QED
      BY <2>1, <3>3, <3>4, <3>6
  <2>2. CASE \E x \in Record : Finalized = {x} /\ SetToSeq(Finalized) = <<x>>
    <3>1. PICK x \in Record : Finalized = {x} /\ SetToSeq(Finalized) = <<x>>
      BY <2>2
    <3>2. {Msg("record", y) : y \in Finalized} = {Msg("record", x)}
      BY <3>1
    <3>3. msgs = <<Msg("record", x)>>
      BY <3>2, SetToSeqSmall
    <3>4. last = <<Msg("record", x), Msg("complete", None)>>
      <4>1. Msg("record", x) \in Message /\ Msg("complete", None) \in Message
        BY MessageTypes
      <4>2. last = <<Msg("record", x)>> \o <<Msg("complete", None)>>
        BY <3>3
      <4> HIDE DEF msgs, last
      <4> QED
        BY <4>1, <4>2, PairIs
    <3>5. pending' = Append(pending, x)
      <4>1. pending' = pending \o <<x>>
        BY <1>2, <3>1
      <4> QED
        BY <1>0, <4>1
    <3>6. last \in Seq(Message)
      <4>1. Msg("record", x) \in Message /\ Msg("complete", None) \in Message
        BY MessageTypes
      <4> HIDE DEF msgs, last
      <4> QED
        BY <3>4, <4>1
    <3> QED
      BY <3>1, <3>4, <3>5, <3>6
  <2> QED
    BY <1>0, <2>1, <2>2, FinalizedType
<1> HIDE DEF last
<1>4. Msg("shutdown", None) \in Message
  BY MessageTypes
<1>5. inbox' \in Seq(Message) /\ Inserted(inbox', last, i, Msg("shutdown", None))
  BY <1>1, <1>3, <1>4, InsertAtIs
<1> QED
  BY <1>3, <1>5

LEMMA TypesStop ==
  ASSUME TInv, Stop
  PROVE  TInv'
<1>1. /\ daemon' = [daemon EXCEPT !.phase = "closing"] /\ daemon.phase = "up"
      /\ builder' = [builder EXCEPT !.current = None]
      /\ UNCHANGED <<now, store, stage, bus, past>>
  BY DEF Stop
<1>2. daemon' \in [phase : Phase, run : Run \cup {None}, state : State]
        /\ daemon'.phase = "closing" /\ daemon'.run = daemon.run /\ daemon.run \in Run
  BY <1>1 DEF TInv, TypeInv, PhaseInv, Phase
<1>3. builder' \in BuilderType /\ builder'.current = None
  BY <1>1 DEF TInv, TypeInv, BuilderType
<1>4. inbox' \in Seq(Message) /\ pending' \in Seq(Row)
  <2>1. pending \in Seq(Row) /\ \A x \in Record : Append(pending, x) \in Seq(Row)
    BY DEF TInv, TypeInv, Row
  <2> QED
    BY <2>1, StopInbox
<1>5. TypeInv'
  BY <1>1, <1>2, <1>3, <1>4 DEF TInv, TypeInv, BuilderType
<1>6. PhaseInv'
  BY <1>2, <1>3 DEF PhaseInv
<1> QED
  BY <1>5, <1>6 DEF TInv

LEMMA TypesCommit ==
  ASSUME TInv, Commit
  PROVE  TInv'
<1>1. pending' = <<>> /\ UNCHANGED <<now, daemon, builder, inbox, stage, bus, past>>
  BY DEF Commit
<1>2. store \in Seq(Row) /\ pending \in Seq(Row)
  BY DEF TInv, TypeInv
<1>3. store' \in Seq(Row)
  <2>1. ASSUME NEW i \in DOMAIN pending PROVE RemoveAt(pending, i) \in Seq(Row)
    <3>1. i \in 1..Len(pending)
      BY <1>2
    <3> QED
      BY <1>2, <3>1, RemoveAtIs
  <2>2. CASE store' = store \o pending
    BY <1>2, <2>2
  <2>3. CASE \E i \in DOMAIN pending : store' = store \o RemoveAt(pending, i)
    <3>1. PICK i \in DOMAIN pending : store' = store \o RemoveAt(pending, i)
      BY <2>3
    <3>2. RemoveAt(pending, i) \in Seq(Row)
      BY <2>1
    <3> QED
      BY <1>2, <3>1, <3>2
  <2> QED
    BY <2>2, <2>3 DEF Commit
<1>4. TypeInv'
  BY <1>1, <1>3 DEF TInv, TypeInv
<1>5. PhaseInv'
  BY <1>1 DEF TInv, PhaseInv
<1> QED
  BY <1>4, <1>5 DEF TInv

LEMMA TypesDown ==
  ASSUME TInv, Down
  PROVE  TInv'
<1>1. /\ daemon' = NoDaemon /\ builder' = NewBuilder(0) /\ stage' = NoStage /\ bus' = NoBus
      /\ inbox' = <<>> /\ pending' = <<>> /\ past' = NoPast(past.lost)
      /\ UNCHANGED <<now, store>>
  BY DEF Down
<1>2. past.lost \in SUBSET Run /\ 0 \in Nat /\ Len(NoStage.transitions) <= HydrateLimit
  BY NoneTypes, Limits DEF TInv, TypeInv, PastType
<1>3. TypeInv'
  <2>1. past' \in PastType
    BY <1>1, <1>2, NoneTypes
  <2>2. inbox' \in Seq(Message) /\ pending' \in Seq(Row)
    BY <1>1
  <2> QED
    BY <1>1, <1>2, <2>1, <2>2, NoneTypes DEF TInv, TypeInv
<1>4. PhaseInv'
  BY <1>1 DEF PhaseInv, NoDaemon, NewBuilder
<1> QED
  BY <1>3, <1>4 DEF TInv

LEMMA TypesTick ==
  ASSUME TInv, Tick \/ UNCHANGED vars
  PROVE  TInv'
<1>1. UNCHANGED <<store, daemon, builder, inbox, pending, stage, bus, past>>
  BY DEF Tick, vars
<1>2. now' \in 0..MaxTime
  BY Limits DEF TInv, TypeInv, Tick, vars
<1> QED
  BY <1>1, <1>2 DEF TInv, TypeInv, PhaseInv

LEMMA TypesNext ==
  ASSUME TInv, [Next]_vars
  PROVE  TInv'
<1>1. CASE \E r \in Run : Start(r)
  BY <1>1, TypesStart
<1>2. CASE StageBegins
  BY <1>2, TypesStageBegins
<1>3. CASE (\E s \in State : StateChanges(s)) \/ (\E f \in Focus : FocusChanges(f))
  BY <1>3, TypesChanges
<1>4. CASE Stop
  BY <1>4, TypesStop
<1>5. CASE ApplyUpdate
  BY <1>5, TypesApplyUpdate
<1>6. CASE UpdateRecords
  BY <1>6, TypesUpdateRecords
<1>7. CASE PublishNow
  BY <1>7, TypesPublishNow
<1>8. CASE HandleShutdown \/ HandleComplete
  BY <1>8, TypesShutdown
<1>9. CASE Commit
  BY <1>9, TypesCommit
<1>10. CASE Exit \/ Crash
  BY <1>10, TypesDown DEF Exit, Crash
<1>11. CASE Tick \/ UNCHANGED vars
  BY <1>11, TypesTick
<1> QED
  BY <1>1, <1>2, <1>3, <1>4, <1>5, <1>6, <1>7, <1>8, <1>9, <1>10, <1>11 DEF Next

LEMMA TypesInvariant == Spec => []TInv
<1>1. Init => TInv
  BY TypesInit
<1>2. TInv /\ [Next]_vars => TInv'
  BY TypesNext
<1> QED
  BY <1>1, <1>2, PTL DEF Spec

(* Every variable has its type: the transitions read at startup, those the *)
(* bus keeps and those a snapshot shows never exceed their limits, also    *)
(* while hydrated transitions are replayed (fetch_recent_transitions,      *)
(* push_transition, recent_transitions).                                   *)
THEOREM TypeCorrect == Spec => []TypeOK
<1>1. TInv => TypeOK
  <2> SUFFICES ASSUME TInv PROVE TypeOK
    OBVIOUS
  <2>1. \A i \in DOMAIN Sent : Sent[i] \in Record \cup Transition
    <3>1. store \in Seq(Row) /\ pending \in Seq(Row)
      BY DEF TInv, TypeInv
    <3>2. Sent \in Seq(Row)
      BY <3>1 DEF Sent
    <3> QED
      BY <3>2 DEF Row
  <2>2. /\ daemon.phase \in Phase /\ daemon.run \in Run \cup {None} /\ daemon.state \in State
        /\ builder.next \in Nat /\ builder.focus \in Focus \cup {NoFocus}
    BY DEF TInv, TypeInv
  <2>3. stage.state \in State /\ stage.last \in Transition \cup {None} /\ past.lost \subseteq Run
    BY DEF TInv, TypeInv, StageType, PastType
  <2> QED
    BY <2>1, <2>2, <2>3 DEF TInv, TypeInv, TypeOK, BusType, Phase
<1> QED
  BY <1>1, TypesInvariant, PTL

-----------------------------------------------------------------------------
(* The history grows at its end, and loses rows at any place.              *)

(* t is what is left of s when some rows are taken away.                   *)
Embeds(t, s) ==
  \E e \in [DOMAIN t -> DOMAIN s] :
     \A i \in DOMAIN t : t[i] = s[e[i]] /\ \A j \in DOMAIN t : i < j => e[i] < e[j]

LEMMA EmbedsKeeps ==
  ASSUME NEW s \in Seq(Row), NEW t \in Seq(Row), Embeds(t, s), NEW lost, NEW n
  PROVE  /\ Chronicle(s, lost, n) => Chronicle(t, lost, n)
         /\ \A y : Until(s, y, lost) => Until(t, y, lost)
         /\ \A r, m : Below(s, r, m) => Below(t, r, m)
<1>1. PICK e \in [DOMAIN t -> DOMAIN s] :
        \A i \in DOMAIN t : t[i] = s[e[i]] /\ \A j \in DOMAIN t : i < j => e[i] < e[j]
  BY DEF Embeds
<1>2. Chronicle(s, lost, n) => Chronicle(t, lost, n)
  BY <1>1 DEF Chronicle
<1>3. \A y : Until(s, y, lost) => Until(t, y, lost)
  BY <1>1 DEF Until
<1>4. \A r, m : Below(s, r, m) => Below(t, r, m)
  BY <1>1 DEF Below, RecordsOf
<1> QED
  BY <1>2, <1>3, <1>4

(* A row more at the end.                                                  *)
LEMMA AppendKeeps ==
  ASSUME NEW s \in Seq(Row), NEW x \in Row, NEW lost, NEW n
  PROVE  /\ Chronicle(s, lost, n) /\
              (IF IsRecord(x) THEN Closed(x, n) /\ Until(s, x, lost) ELSE x.at <= n)
              => Chronicle(Append(s, x), lost, n)
         /\ \A y : Until(s, y, lost) /\ (IsRecord(x) => Before(x, y, lost))
              => Until(Append(s, x), y, lost)
         /\ \A r, m : Below(s, r, m) /\ (IsRecord(x) /\ x.run = r => x.id < m)
              => Below(Append(s, x), r, m)
<1> DEFINE t == Append(s, x)
<1>1. /\ Len(s) \in Nat /\ DOMAIN s = 1..Len(s) /\ DOMAIN t = 1..(Len(s) + 1)
      /\ \A i \in 1..Len(s) : t[i] = s[i]
      /\ t[Len(s) + 1] = x
  OBVIOUS
<1>2. \A i \in DOMAIN t : (i \in DOMAIN s /\ t[i] = s[i]) \/ (i = Len(s) + 1 /\ t[i] = x)
  <2> HIDE DEF t
  <2>1. \A i \in 1..(Len(s) + 1) : i \in 1..Len(s) \/ i = Len(s) + 1
    BY <1>1
  <2> QED
    BY <1>1, <2>1
<1>3. \A i, j \in DOMAIN t : i < j => i \in DOMAIN s /\ t[i] = s[i]
  BY <1>1
<1> HIDE DEF t
<1>4. ASSUME Chronicle(s, lost, n),
             IF IsRecord(x) THEN Closed(x, n) /\ Until(s, x, lost) ELSE x.at <= n
      PROVE  Chronicle(t, lost, n)
  <2>1. ASSUME NEW i \in DOMAIN t
        PROVE  IF IsRecord(t[i]) THEN Closed(t[i], n) ELSE t[i].at <= n
    BY <1>2, <1>4 DEF Chronicle
  <2>2. ASSUME NEW i \in DOMAIN t, NEW j \in DOMAIN t, i < j, IsRecord(t[i]), IsRecord(t[j])
        PROVE  Before(t[i], t[j], lost)
    <3>1. i \in DOMAIN s /\ t[i] = s[i]
      BY <1>3, <2>2
    <3>2. CASE j \in DOMAIN s /\ t[j] = s[j]
      BY <1>4, <2>2, <3>1, <3>2 DEF Chronicle
    <3>3. CASE t[j] = x
      BY <1>4, <2>2, <3>1, <3>3 DEF Until
    <3> QED
      BY <1>2, <3>2, <3>3
  <2> QED
    BY <2>1, <2>2 DEF Chronicle
<1>5. \A y : Until(s, y, lost) /\ (IsRecord(x) => Before(x, y, lost)) => Until(t, y, lost)
  BY <1>2 DEF Until
<1>6. \A r, m : Below(s, r, m) /\ (IsRecord(x) /\ x.run = r => x.id < m) => Below(t, r, m)
  BY <1>2 DEF Below, RecordsOf
<1> QED
  BY <1>4, <1>5, <1>6 DEF t

(* Time passes, and more runs begin again.                                 *)
LEMMA LaterKeeps ==
  ASSUME NEW s \in Seq(Row), NEW lost, NEW more, lost \subseteq more,
         NEW n \in Nat, NEW m \in Nat, n <= m
  PROVE  Chronicle(s, lost, n) => Chronicle(s, more, m)
<1>1. \A x, y : Before(x, y, lost) => Before(x, y, more)
  BY DEF Before
<1>2. ASSUME Chronicle(s, lost, n), NEW i \in DOMAIN s
      PROVE  IF IsRecord(s[i]) THEN Closed(s[i], m) ELSE s[i].at <= m
  <2>1. s[i] \in Row
    OBVIOUS
  <2>2. IF IsRecord(s[i]) THEN Closed(s[i], n) ELSE s[i].at <= n
    BY <1>2 DEF Chronicle
  <2>3. IF IsRecord(s[i]) THEN s[i].end \in Nat ELSE s[i].at \in Nat
    BY <2>1, RowKinds, RowFields
  <2>4. CASE IsRecord(s[i])
    <3>1. s[i].end <= n /\ s[i].end \in Nat /\ s[i].start <= s[i].end
      BY <2>2, <2>3, <2>4 DEF Closed
    <3>2. s[i].end <= m
      BY <3>1
    <3> QED
      BY <2>4, <3>1, <3>2 DEF Closed
  <2>5. CASE ~IsRecord(s[i])
    <3>1. s[i].at <= n /\ s[i].at \in Nat
      BY <2>2, <2>3, <2>5
    <3>2. s[i].at <= m
      BY <3>1
    <3> QED
      BY <2>5, <3>2
  <2> QED
    BY <2>4, <2>5
<1> QED
  BY <1>1, <1>2 DEF Chronicle

(* What was sent: the stored rows, then those that wait.                   *)
LEMMA SentIs ==
  ASSUME TypeInv
  PROVE  /\ Sent \in Seq(Row) /\ Len(Sent) = Len(store) + Len(pending)
         /\ Len(store) \in Nat /\ Len(pending) \in Nat /\ DOMAIN Sent = 1..Len(Sent)
         /\ \A i \in 1..Len(store) : Sent[i] = store[i]
         /\ \A i \in 1..Len(pending) : Sent[Len(store) + i] = pending[i]
         /\ pending = <<>> => Sent = store
         /\ \A i \in DOMAIN Sent : IF IsRecord(Sent[i]) THEN Sent[i] \in Record
                                                        ELSE Sent[i] \in Transition
<1>1. store \in Seq(Row) /\ pending \in Seq(Row)
  BY DEF TypeInv
<1>2. Sent = store \o pending
  BY DEF Sent
<1>3. /\ Sent \in Seq(Row) /\ Len(Sent) = Len(store) + Len(pending)
      /\ Len(store) \in Nat /\ Len(pending) \in Nat
  BY <1>1, <1>2
<1>4. \A i \in 1..Len(store) : Sent[i] = store[i]
  BY <1>1, <1>2, <1>3
<1>5. \A i \in 1..Len(pending) : Sent[Len(store) + i] = pending[i]
  BY <1>1, <1>2, <1>3
<1>6. pending = <<>> => Sent = store
  BY <1>1, <1>2
<1>7. DOMAIN Sent = 1..Len(Sent) /\ \A i \in DOMAIN Sent : Sent[i] \in Row
  BY <1>3
<1> QED
  BY <1>3, <1>4, <1>5, <1>6, <1>7, RowKinds

LEMMA SentAppend ==
  ASSUME TypeInv, NEW x \in Row, pending' = Append(pending, x), UNCHANGED store
  PROVE  Sent' = Append(Sent, x)
<1>1. store \in Seq(Row) /\ pending \in Seq(Row)
  BY DEF TypeInv
<1>2. Sent' = store \o Append(pending, x) /\ Sent = store \o pending
  BY DEF Sent
<1> QED
  BY <1>1, <1>2

-----------------------------------------------------------------------------
(* Every step keeps the history.                                           *)

HInv == TInv /\ HistoryInv

LEMMA EmbedsSelf ==
  ASSUME NEW s \in Seq(Row)
  PROVE  Embeds(s, s)
<1> DEFINE e == [i \in DOMAIN s |-> i]
<1>1. e \in [DOMAIN s -> DOMAIN s] /\ \A i \in DOMAIN s : e[i] = i
  OBVIOUS
<1> HIDE DEF e
<1> QED
  BY <1>1 DEF Embeds

(* The transitions on their way were made before now.                      *)
LEMMA TransitionsInTime ==
  ASSUME HInv, inbox' = inbox \/ inbox' = <<>> \/ \E k : Received(k)
  PROVE  \A i \in DOMAIN inbox' : inbox'[i].kind = "transition" => inbox'[i].body.at <= now
<1>1. CASE inbox' = inbox
  BY <1>1 DEF HInv, HistoryInv
<1>2. CASE inbox' = <<>>
  BY <1>2
<1>3. CASE \E k : Received(k)
  <2>1. \A i \in DOMAIN inbox' : i + 1 \in DOMAIN inbox /\ inbox'[i] = inbox[i + 1]
    BY <1>3, ReceivedIs DEF HInv
  <2> QED
    BY <2>1 DEF HInv, HistoryInv
<1> QED
  BY <1>1, <1>2, <1>3

(* Steps that send nothing.                                                *)
LEMMA HistoryKept ==
  ASSUME HInv, TInv', Embeds(Sent', Sent), past'.lost = past.lost, now' = now,
         Finalized' \subseteq Finalized,
         Finalized' # {} \/ daemon'.phase # "down" => builder'.next = builder.next,
         daemon'.phase # "down" => daemon.phase # "down" /\ daemon'.run = daemon.run,
         inbox' = inbox \/ inbox' = <<>> \/ \E k : Received(k)
  PROVE  HistoryInv'
<1>1. Sent \in Seq(Row)
  BY SentIs DEF HInv, TInv
<1>2. Sent' \in Seq(Row)
  <2>1. store' \in Seq(Row) /\ pending' \in Seq(Row)
    BY DEF TInv, TypeInv
  <2> QED
    BY <2>1 DEF Sent
<1>3. /\ Chronicle(Sent, past.lost, now) => Chronicle(Sent', past.lost, now)
      /\ \A y : Until(Sent, y, past.lost) => Until(Sent', y, past.lost)
      /\ \A r, m : Below(Sent, r, m) => Below(Sent', r, m)
  BY <1>1, <1>2, EmbedsKeeps
<1>4. \A i \in DOMAIN inbox' : inbox'[i].kind = "transition" => inbox'[i].body.at <= now
  BY TransitionsInTime
<1> QED
  BY <1>3, <1>4 DEF HInv, HistoryInv

LEMMA HistoryInit ==
  ASSUME Init
  PROVE  HistoryInv
<1>1. Sent = <<>> /\ inbox = <<>> /\ Finalized = {} /\ daemon.phase = "down"
  BY DEF Init, Sent, Finalized, NewBuilder, NoDaemon
<1> QED
  BY <1>1 DEF HistoryInv, Chronicle

(* Only what the open record is made of counts.                            *)
LEMMA FinalizedSame ==
  ASSUME daemon'.run = daemon.run, builder'.current = builder.current, now' = now
  PROVE  Finalized' = Finalized
BY DEF Finalized

LEMMA HistoryStage ==
  ASSUME HInv, TInv',
         StageBegins \/ UpdateRecords \/ PublishNow \/ HandleShutdown \/ HandleComplete
  PROVE  HistoryInv'
<1>1. /\ UNCHANGED <<now, store, builder, pending, past>>
      /\ inbox' = inbox \/ \E k : Received(k)
  BY DEF StageBegins, UpdateRecords, PublishNow, HandleShutdown, HandleComplete, Finish
<1>2. daemon' = daemon \/ daemon' = [daemon EXCEPT !.phase = "drained"]
  BY DEF StageBegins, UpdateRecords, PublishNow, HandleShutdown, HandleComplete, Finish
<1>3. daemon'.run = daemon.run /\ (daemon'.phase # "down" => daemon.phase # "down")
  <2>1. daemon'.run = daemon.run
    BY <1>2 DEF HInv, TInv, TypeInv
  <2>2. daemon.phase # "down" \/ inbox' = inbox
    BY <1>1, ReceivedIs DEF HInv
  <2>3. CASE daemon' = daemon
    BY <2>1, <2>3
  <2>4. CASE daemon' = [daemon EXCEPT !.phase = "drained"] /\ daemon' # daemon
    <3>1. \E k : Received(k)
      BY <2>4 DEF StageBegins, UpdateRecords, PublishNow, HandleShutdown, HandleComplete, Finish
    <3> QED
      BY <2>1, <3>1, ReceivedIs DEF HInv
  <2> QED
    BY <1>2, <2>3, <2>4
<1>4. Finalized' = Finalized
  BY <1>1, <1>3, FinalizedSame
<1>5. Sent' = Sent /\ Sent \in Seq(Row)
  BY <1>1, SentIs DEF Sent, HInv, TInv
<1>6. Embeds(Sent', Sent)
  BY <1>5, EmbedsSelf
<1> QED
  BY <1>1, <1>3, <1>4, <1>6, HistoryKept

(* A batch is committed, whole or but for one row.                         *)
LEMMA CommitIs ==
  ASSUME TInv, Commit
  PROVE  /\ pending' = <<>> /\ Embeds(Sent', Sent)
         /\ \/ Sent' = Sent
            \/ /\ Len(Sent') = Len(Sent) - 1
               /\ \E n \in (Len(store) + 1)..Len(Sent) :
                     \A k \in 1..(Len(Sent) - 1) :
                        Sent'[k] = IF k < n THEN Sent[k] ELSE Sent[k + 1]
<1>0. /\ pending' = <<>> /\ store \in Seq(Row) /\ pending \in Seq(Row)
      /\ Sent \in Seq(Row) /\ Len(Sent) = Len(store) + Len(pending)
      /\ Len(store) \in Nat /\ Len(pending) \in Nat /\ DOMAIN Sent = 1..Len(Sent)
      /\ \A i \in 1..Len(store) : Sent[i] = store[i]
      /\ \A i \in 1..Len(pending) : Sent[Len(store) + i] = pending[i]
      /\ DOMAIN pending = 1..Len(pending)
  BY SentIs DEF TInv, TypeInv, Commit
<1>1. CASE store' = store \o pending
  <2>1. Sent' = (store \o pending) \o <<>>
    BY <1>0, <1>1 DEF Sent
  <2>2. Sent' = Sent
    BY <1>0, <2>1 DEF Sent
  <2> QED
    BY <1>0, <2>2, EmbedsSelf
<1>2. CASE \E i \in DOMAIN pending : store' = store \o RemoveAt(pending, i)
  <2>1. PICK i \in DOMAIN pending : store' = store \o RemoveAt(pending, i)
    BY <1>2, Zenon
  <2> DEFINE q == RemoveAt(pending, i)
             n == Len(store) + i
             e == [k \in 1..(Len(Sent) - 1) |-> IF k < n THEN k ELSE k + 1]
  <2>2. /\ i \in 1..Len(pending)
        /\ q \in Seq(Row) /\ Len(q) = Len(pending) - 1
        /\ \A k \in 1..(Len(pending) - 1) : q[k] = IF k < i THEN pending[k] ELSE pending[k + 1]
    <3>1. pending \in Seq(Row) /\ i \in 1..Len(pending)
      BY <1>0, <2>1
    <3> QED
      BY ONLY <3>1, RemoveAtIs
  <2> HIDE DEF q
  <2>3. Sent' = (store \o q) \o <<>>
    BY <1>0, <2>1 DEF Sent, q
  <2>4. Sent' = store \o q
    BY <1>0, <2>2, <2>3
  <2>5. /\ n \in (Len(store) + 1)..Len(Sent) /\ n \in Nat /\ i \in Nat /\ i >= 1
        /\ Len(Sent') = Len(Sent) - 1 /\ DOMAIN Sent' = 1..(Len(Sent) - 1)
    <3>1. n \in (Len(store) + 1)..Len(Sent) /\ n \in Nat /\ i \in Nat /\ i >= 1
      BY <1>0, <2>2
    <3>2. Sent' \in Seq(Row) /\ Len(Sent') = Len(store) + Len(q)
      <4>1. store \in Seq(Row) /\ q \in Seq(Row)
        BY <1>0, <2>2
      <4>2. store \o q \in Seq(Row) /\ Len(store \o q) = Len(store) + Len(q)
        BY <4>1
      <4> QED
        BY <2>4, <4>2
    <3>3. DOMAIN Sent' = 1..Len(Sent') /\ Len(Sent') = Len(Sent) - 1
      BY <1>0, <2>2, <3>2
    <3> QED
      BY <3>1, <3>3
  <2>6. ASSUME NEW k \in 1..(Len(Sent) - 1)
        PROVE  Sent'[k] = IF k < n THEN Sent[k] ELSE Sent[k + 1]
    <3>1. CASE k <= Len(store)
      <4>1. Sent'[k] = store[k] /\ Sent[k] = store[k] /\ k < n
        BY <1>0, <2>2, <2>4, <2>5, <3>1
      <4> QED
        BY <4>1
    <3>2. CASE k > Len(store)
      <4> DEFINE j == k - Len(store)
      <4>1. j \in 1..(Len(pending) - 1) /\ k = Len(store) + j
        BY <1>0, <3>2
      <4>2. Sent'[k] = q[j]
        BY <1>0, <2>2, <2>4, <3>2, <4>1
      <4>3. (k < n) = (j < i) /\ k + 1 = Len(store) + (j + 1)
              /\ j \in 1..Len(pending) /\ j + 1 \in 1..Len(pending)
        BY <1>0, <2>5, <4>1
      <4> HIDE DEF j, n
      <4>4. Sent[k] = pending[j] /\ Sent[k + 1] = pending[j + 1]
        BY <1>0, <4>1, <4>3
      <4> QED
        BY <2>2, <4>1, <4>2, <4>3, <4>4
    <3>3. k <= Len(store) \/ k > Len(store)
      BY <1>0
    <3> QED
      BY <3>1, <3>2, <3>3
  <2>7. Embeds(Sent', Sent)
    <3>1. e \in [DOMAIN Sent' -> DOMAIN Sent]
      BY <1>0, <2>5
    <3>2. \A k \in DOMAIN Sent' : e[k] = (IF k < n THEN k ELSE k + 1) /\ Sent'[k] = Sent[e[k]]
      BY <2>5, <2>6
    <3>3. \A j, k \in DOMAIN Sent' : j < k => e[j] < e[k]
      BY <2>5
    <3> HIDE DEF e, n
    <3> QED
      BY <3>1, <3>2, <3>3 DEF Embeds
  <2> HIDE DEF n, e
  <2> QED
    BY <1>0, <2>5, <2>6, <2>7
<1> QED
  BY <1>1, <1>2 DEF Commit

(* A daemon that goes down leaves what was stored.                         *)
LEMMA DownIs ==
  ASSUME TInv, Down
  PROVE  /\ Sent' = store /\ Embeds(Sent', Sent) /\ Finalized' = {}
         /\ past'.lost = past.lost /\ daemon'.phase = "down"
<1>1. /\ store' = store /\ pending' = <<>> /\ builder' = NewBuilder(0)
      /\ past' = NoPast(past.lost) /\ daemon' = NoDaemon
  BY DEF Down
<1>2. /\ Finalized' = {} /\ past'.lost = past.lost /\ daemon'.phase = "down"
  BY <1>1 DEF Finalized, NewBuilder, NoPast, NoDaemon
<1>3. store \in Seq(Row)
  BY DEF TInv, TypeInv
<1>4. Sent' = store
  BY <1>1, <1>3 DEF Sent
<1>5. /\ DOMAIN store \subseteq DOMAIN Sent
      /\ \A i \in DOMAIN store : i \in Nat /\ Sent[i] = store[i]
  <2>1. /\ DOMAIN store = 1..Len(store) /\ DOMAIN Sent = 1..Len(Sent)
        /\ Len(Sent) = Len(store) + Len(pending)
        /\ Len(store) \in Nat /\ Len(pending) \in Nat
        /\ \A i \in 1..Len(store) : Sent[i] = store[i]
    BY <1>3, SentIs DEF TInv
  <2>2. 1..Len(store) \subseteq 1..Len(Sent)
    BY <2>1
  <2> QED
    BY <2>1, <2>2
<1> DEFINE e == [i \in DOMAIN store |-> i]
<1>6. e \in [DOMAIN store -> DOMAIN Sent] /\ \A i \in DOMAIN store : e[i] = i
  BY <1>5
<1> HIDE DEF e
<1>7. Embeds(Sent', Sent)
  BY <1>4, <1>5, <1>6 DEF Embeds
<1> QED
  BY <1>2, <1>4, <1>7

LEMMA HistoryStorage ==
  ASSUME HInv, TInv', Commit \/ Down
  PROVE  HistoryInv'
<1>1. CASE Commit
  <2>1. UNCHANGED <<now, daemon, builder, inbox, past>>
    BY <1>1 DEF Commit
  <2>2. Finalized' = Finalized
    BY <2>1, FinalizedSame
  <2> QED
    BY <1>1, <2>1, <2>2, CommitIs, HistoryKept DEF HInv
<1>2. CASE Down
  <2>1. now' = now /\ inbox' = <<>>
    BY <1>2 DEF Down
  <2> QED
    BY <1>2, <2>1, DownIs, HistoryKept DEF HInv
<1> QED
  BY <1>1, <1>2

(* A transition goes to storage.                                           *)
LEMMA HistoryApplyUpdate ==
  ASSUME HInv, TInv', ApplyUpdate
  PROVE  HistoryInv'
<1> DEFINE t == Head(inbox).body
<1>1. Received("transition")
  BY DEF ApplyUpdate
<1>2. t \in Transition /\ t \in Row /\ ~IsRecord(t) /\ t.at <= now
  <2>1. t \in Transition
    BY <1>1, ReceivedIs, MessageKinds DEF HInv
  <2>2. 1 \in DOMAIN inbox /\ inbox[1].kind = "transition" /\ t = inbox[1].body
    BY <1>1, ReceivedIs DEF HInv
  <2> HIDE DEF t
  <2> QED
    BY <2>1, <2>2, RowKinds DEF Row, HInv, HistoryInv
<1>3. pending' = Append(pending, t) /\ UNCHANGED <<now, store, daemon, builder, past>>
  BY DEF ApplyUpdate
<1> HIDE DEF t
<1>4. Sent' = Append(Sent, t) /\ Sent \in Seq(Row)
  BY <1>2, <1>3, SentAppend, SentIs DEF HInv, TInv
<1>5. Finalized' = Finalized
  BY <1>3, FinalizedSame
<1>6. \A i \in DOMAIN inbox' : inbox'[i].kind = "transition" => inbox'[i].body.at <= now
  BY <1>1, TransitionsInTime
<1>7. /\ Chronicle(Sent, past.lost, now) => Chronicle(Sent', past.lost, now)
      /\ \A y : Until(Sent, y, past.lost) => Until(Sent', y, past.lost)
      /\ \A r, m : Below(Sent, r, m) => Below(Sent', r, m)
  BY <1>2, <1>4, AppendKeeps
<1> QED
  BY <1>3, <1>5, <1>6, <1>7 DEF HInv, HistoryInv

(* The open record is closed and sent, if there is one.                    *)
LEMMA HistoryFinalized ==
  ASSUME HInv, UNCHANGED store,
         \/ Finalized = {} /\ pending' = pending
         \/ \E x \in Record : Finalized = {x} /\ pending' = Append(pending, x)
  PROVE  /\ Chronicle(Sent', past.lost, now)
         /\ daemon.phase # "down" /\ daemon.run \notin past.lost
              => Below(Sent', daemon.run, builder.next)
<1>1. CASE Finalized = {} /\ pending' = pending
  <2>1. Sent' = Sent
    BY <1>1 DEF Sent
  <2> QED
    BY <2>1 DEF HInv, HistoryInv
<1>2. CASE \E x \in Record : Finalized = {x} /\ pending' = Append(pending, x)
  <2>1. PICK x \in Record : Finalized = {x} /\ pending' = Append(pending, x)
    BY <1>2
  <2>2. x \in Row /\ IsRecord(x) /\ Sent \in Seq(Row)
    BY RowKinds, SentIs DEF Row, HInv, TInv
  <2>3. Sent' = Append(Sent, x)
    BY <2>1, <2>2, SentAppend DEF HInv, TInv
  <2>4. Closed(x, now) /\ Until(Sent, x, past.lost) /\ x.id < builder.next
    BY <2>1 DEF HInv, HistoryInv
  <2> QED
    BY <2>2, <2>3, <2>4, AppendKeeps DEF HInv, HistoryInv
<1> QED
  BY <1>1, <1>2

(* What comes after all that was sent, and now.                            *)
LEMMA AfterAll ==
  ASSUME NEW s \in Seq(Row), NEW lost, NEW n, Chronicle(s, lost, n), NEW y \in Record,
         y.start = n, y.run \notin lost => Below(s, y.run, y.id)
  PROVE  Until(s, y, lost)
<1>1. ASSUME NEW i \in DOMAIN s, IsRecord(s[i]) PROVE Before(s[i], y, lost)
  <2>1. s[i].end <= n
    BY <1>1 DEF Chronicle, Closed
  <2>2. ASSUME s[i].run = y.run, s[i].run \notin lost PROVE s[i].id < y.id
    <3>1. i \in RecordsOf(s, y.run)
      BY <1>1, <2>2 DEF RecordsOf
    <3> QED
      BY <2>2, <3>1 DEF Below
  <2> QED
    BY <2>1, <2>2 DEF Before
<1> QED
  BY <1>1 DEF Until

(* A hint: the open record is sent, the next one begins.                   *)
LEMMA HistoryHint ==
  ASSUME HInv, TInv', NEW b \in BuilderType, b.next = builder.next,
         NEW msgs \in Seq(Message), NEW c, Hint(b, msgs, c),
         \A k \in 1..Len(msgs) : msgs[k].kind = "transition" => msgs[k].body.at <= now,
         daemon'.phase = daemon.phase, daemon'.run = daemon.run, past'.lost = past.lost
  PROVE  HistoryInv'
<1>1. /\ UNCHANGED <<now, store>> /\ daemon.phase = "up" /\ daemon.run \in Run
      /\ builder' = Reopened(b) /\ builder.next \in Nat /\ now \in 0..MaxTime
  BY DEF Hint, HInv, TInv, TypeInv, PhaseInv
<1>2. \/ Finalized = {} /\ inbox' = msgs /\ pending' = pending
      \/ \E x \in Record, i \in 1..(Len(msgs) + 1) :
            /\ Finalized = {x}
            /\ pending' = Append(pending, x)
            /\ Inserted(inbox', msgs, i, Msg("record", x))
  BY HintInbox DEF HInv
<1>3. /\ Chronicle(Sent', past.lost, now)
      /\ daemon.run \notin past.lost => Below(Sent', daemon.run, builder.next)
  BY <1>1, <1>2, HistoryFinalized
<1>4. /\ builder'.current = [id |-> builder.next, start |-> now, focus |-> b.focus]
      /\ builder'.next = builder.next + 1
  <2> DEFINE c0 == [id |-> builder.next, start |-> now, focus |-> b.focus]
  <2>1. builder' = [b EXCEPT !.current = c0, !.next = builder.next + 1]
    BY <1>1 DEF Reopened
  <2> HIDE DEF c0
  <2>2. builder'.current = c0 /\ builder'.next = builder.next + 1
    BY <2>1 DEF BuilderType
  <2> QED
    BY <2>2 DEF c0
<1>5. Sent' \in Seq(Row) /\ \A i \in DOMAIN Sent' : IsRecord(Sent'[i]) => Sent'[i] \in Record
  <2>1. store' \in Seq(Row) /\ pending' \in Seq(Row)
    BY DEF TInv, TypeInv
  <2>2. Sent' \in Seq(Row)
    BY <2>1 DEF Sent
  <2> QED
    BY <2>2, RowKinds
<1>6. ASSUME NEW y \in Finalized'
      PROVE  /\ y.start = now /\ y.end = now /\ y.id = builder.next /\ y.run = daemon.run
             /\ y \in Record
  <2>1. y = [id |-> builder.next, run |-> daemon.run, start |-> now, end |-> now,
             focus |-> b.focus]
    BY <1>1, <1>4 DEF Finalized
  <2>2. b.focus \in Focus \cup {NoFocus}
    BY DEF BuilderType
  <2> QED
    BY <1>1, <2>1, <2>2 DEF Record
<1>7. \A y \in Finalized' : /\ Closed(y, now') /\ y.id < builder'.next
                            /\ Until(Sent', y, past'.lost)
  <2>1. now <= now /\ builder.next < builder.next + 1
    BY <1>1
  <2>2. ASSUME NEW y \in Finalized' PROVE Until(Sent', y, past.lost)
    BY <1>3, <1>5, <1>6, AfterAll
  <2> QED
    BY <1>1, <1>4, <1>6, <2>1, <2>2 DEF Closed
<1>8. daemon'.run \notin past'.lost => Below(Sent', daemon'.run, builder'.next)
  <2> SUFFICES ASSUME daemon.run \notin past.lost, NEW i \in RecordsOf(Sent', daemon.run)
               PROVE  Sent'[i].id < builder.next + 1
    BY <1>4 DEF Below
  <2>1. Sent'[i].id < builder.next
    BY <1>3 DEF Below
  <2>2. Sent'[i].id \in Nat
    BY <1>5, RowFields DEF RecordsOf
  <2> QED
    BY <1>1, <2>1, <2>2
<1>9. \A k \in DOMAIN inbox' : inbox'[k].kind = "transition" => inbox'[k].body.at <= now
  <2>1. CASE inbox' = msgs
    BY <2>1
  <2>2. CASE \E x \in Record, i \in 1..(Len(msgs) + 1) :
               Inserted(inbox', msgs, i, Msg("record", x))
    <3>1. PICK x \in Record, i \in 1..(Len(msgs) + 1) :
               Inserted(inbox', msgs, i, Msg("record", x))
      BY <2>2
    <3>2. Msg("record", x).kind = "record"
      BY DEF Msg
    <3>3. DOMAIN inbox' = 1..(Len(msgs) + 1) /\ Len(msgs) \in Nat
      BY <3>1 DEF Inserted, TInv, TypeInv
    <3>4. ASSUME NEW k \in 1..(Len(msgs) + 1), inbox'[k].kind = "transition"
          PROVE  inbox'[k].body.at <= now
      <4>1. k < i => k \in 1..Len(msgs)
        BY <3>3
      <4>2. ~(k < i) /\ k # i => k - 1 \in 1..Len(msgs)
        BY <3>3
      <4> QED
        BY <3>1, <3>2, <3>4, <4>1, <4>2 DEF Inserted
    <3> QED
      BY <3>3, <3>4
  <2> QED
    BY <1>2, <2>1, <2>2
<1> QED
  BY <1>1, <1>3, <1>7, <1>8, <1>9 DEF HistoryInv

LEMMA HistoryChanges ==
  ASSUME HInv, TInv', (\E s \in State : StateChanges(s)) \/ (\E f \in Focus : FocusChanges(f))
  PROVE  HistoryInv'
<1>0. builder \in BuilderType /\ now \in Nat
  BY Limits DEF HInv, TInv, TypeInv, BuilderType
<1>1. ASSUME NEW s \in State, StateChanges(s) PROVE HistoryInv'
  <2>1. PICK t \in Transition :
            /\ t.at = now
            /\ Hint(builder, <<Msg("transition", t), Publish>>, StateCost)
            /\ <<Msg("transition", t), Publish>> \in Seq(Message)
            /\ past' = [past EXCEPT !.made = Append(@, t)]
            /\ daemon' = [daemon EXCEPT !.state = s]
    BY <1>1, StateChangeIs DEF HInv
  <2>2. daemon'.phase = daemon.phase /\ daemon'.run = daemon.run /\ past'.lost = past.lost
    BY <2>1 DEF HInv, TInv, TypeInv, PastType
  <2>3. \A k \in 1..2 : <<Msg("transition", t), Publish>>[k].kind = "transition"
                           => <<Msg("transition", t), Publish>>[k].body.at <= now
    BY <1>0, <2>1 DEF Msg, Publish
  <2>4. Len(<<Msg("transition", t), Publish>>) = 2
    OBVIOUS
  <2> QED
    BY <1>0, <2>1, <2>2, <2>3, <2>4, HistoryHint
<1>2. ASSUME NEW f \in Focus, FocusChanges(f) PROVE HistoryInv'
  <2> DEFINE b == [builder EXCEPT !.focus = f]
  <2>1. Hint(b, <<Publish>>, FocusCost) /\ UNCHANGED <<daemon, past>>
    BY <1>2 DEF FocusChanges
  <2>2. b \in BuilderType /\ b.next = builder.next
    BY <1>0 DEF BuilderType
  <2>3. /\ <<Publish>> \in Seq(Message) /\ Len(<<Publish>>) = 1
        /\ \A k \in 1..1 : <<Publish>>[k].kind # "transition"
    BY MessageTypes DEF Msg, Publish
  <2> HIDE DEF b
  <2> QED
    BY <2>1, <2>2, <2>3, HistoryHint
<1> QED
  BY <1>1, <1>2

LEMMA HistoryStop ==
  ASSUME HInv, TInv', Stop
  PROVE  HistoryInv'
<1>1. /\ daemon' = [daemon EXCEPT !.phase = "closing"] /\ daemon.phase = "up"
      /\ builder' = [builder EXCEPT !.current = None]
      /\ UNCHANGED <<now, store, past>>
  BY DEF Stop
<1>2. daemon'.run = daemon.run /\ builder'.next = builder.next /\ builder'.current = None
  BY <1>1 DEF HInv, TInv, TypeInv
<1>0. PICK last \in Seq(Message) :
        /\ \E i \in 1..(Len(last) + 1) : Inserted(inbox', last, i, Msg("shutdown", None))
        /\ \/ Finalized = {} /\ pending' = pending /\ last = <<Msg("complete", None)>>
           \/ \E x \in Record :
                 /\ Finalized = {x} /\ pending' = Append(pending, x)
                 /\ last = <<Msg("record", x), Msg("complete", None)>>
  BY StopInbox DEF HInv
<1>3. PICK i \in 1..(Len(last) + 1) : Inserted(inbox', last, i, Msg("shutdown", None))
  BY <1>0
<1>4. /\ Chronicle(Sent', past.lost, now)
      /\ daemon.run \notin past.lost => Below(Sent', daemon.run, builder.next)
  BY <1>1, <1>0, HistoryFinalized
<1>5. Finalized' = {}
  BY <1>2 DEF Finalized
<1>6. \A k \in 1..Len(last) : last[k].kind # "transition"
  BY <1>0 DEF Msg
<1>7. \A k \in DOMAIN inbox' : inbox'[k].kind # "transition"
  <2>1. Msg("shutdown", None).kind = "shutdown"
    BY DEF Msg
  <2>2. DOMAIN inbox' = 1..(Len(last) + 1) /\ Len(last) \in Nat
    BY <1>3 DEF Inserted, TInv, TypeInv
  <2>3. ASSUME NEW k \in 1..(Len(last) + 1) PROVE inbox'[k].kind # "transition"
    <3>1. k < i => k \in 1..Len(last)
      BY <2>2
    <3>2. ~(k < i) /\ k # i => k - 1 \in 1..Len(last)
      BY <2>2
    <3> QED
      BY <1>3, <1>6, <2>1, <3>1, <3>2 DEF Inserted
  <2> QED
    BY <2>2, <2>3
<1> QED
  BY <1>1, <1>2, <1>4, <1>5, <1>7 DEF HistoryInv

LEMMA HistoryTick ==
  ASSUME HInv, Tick \/ UNCHANGED vars
  PROVE  HistoryInv'
<1>1. UNCHANGED <<store, daemon, builder, inbox, pending, stage, bus, past>>
  BY DEF Tick, vars
<1>2. now \in Nat /\ now' \in Nat /\ now <= now'
  BY Limits DEF HInv, TInv, TypeInv, Tick, vars
<1>3. Sent' = Sent /\ Sent \in Seq(Row)
  BY <1>1, SentIs DEF Sent, HInv, TInv
<1>4. Chronicle(Sent', past'.lost, now')
  BY <1>1, <1>2, <1>3, LaterKeeps DEF HInv, HistoryInv
<1>5. \A i \in DOMAIN inbox' : inbox'[i].kind = "transition" => inbox'[i].body.at <= now'
  <2> SUFFICES ASSUME NEW i \in DOMAIN inbox, inbox[i].kind = "transition"
               PROVE  inbox[i].body.at <= now'
    BY <1>1
  <2>1. inbox[i].body.at <= now
    BY DEF HInv, HistoryInv
  <2>2. inbox[i] \in Message
    BY DEF HInv, TInv, TypeInv
  <2>3. inbox[i].body.at \in Nat
    BY <2>2, MessageKinds, RowFields
  <2> QED
    BY <1>2, <2>1, <2>3
<1>6. ASSUME NEW y \in Finalized'
      PROVE  Closed(y, now') /\ y.id < builder.next /\ Until(Sent, y, past.lost)
  <2>1. builder.current # None
    BY <1>1, <1>6 DEF Finalized
  <2>2. PICK x \in Record :
           /\ Finalized = {x}
           /\ x = [id |-> builder.current.id, run |-> daemon.run,
                   start |-> builder.current.start, end |-> now,
                   focus |-> builder.current.focus]
    BY <2>1, FinalizedIs DEF HInv, TInv
  <2>3. y = [id |-> builder.current.id, run |-> daemon.run,
             start |-> builder.current.start, end |-> now',
             focus |-> builder.current.focus]
    BY <1>1, <2>1 DEF Finalized
  <2>4. y.id = x.id /\ y.run = x.run /\ y.start = x.start /\ y.end = now' /\ x.start \in Nat
    BY <2>2, <2>3, RowFields
  <2>5. Closed(x, now) /\ x.id < builder.next /\ Until(Sent, x, past.lost) /\ x.end = now
    BY <2>2 DEF HInv, HistoryInv
  <2>6. x.start <= now'
    BY <1>2, <2>4, <2>5 DEF Closed
  <2>7. now' <= now'
    BY <1>2
  <2> QED
    BY <2>4, <2>5, <2>6, <2>7 DEF Closed, Until, Before
<1> QED
  BY <1>1, <1>3, <1>4, <1>5, <1>6 DEF HInv, HistoryInv

(* fetch_records_since: the recent records of the run, by start time.      *)
LEMMA FetchRecordsAre ==
  ASSUME TypeInv, NEW r \in Run, NEW recs \in FetchRecords(r)
  PROVE  /\ recs \in Seq(Record)
         /\ \E p \in [DOMAIN recs -> RecordsOf(store, r)] :
               /\ \A k \in DOMAIN recs : recs[k] = store[p[k]] /\ recs[k].end >= now - Retention
               /\ \A j, k \in DOMAIN recs :
                     j < k => p[j] # p[k] /\ recs[j].start <= recs[k].start
               /\ \A i \in RecordsOf(store, r) :
                     store[i].end >= now - Retention => \E k \in DOMAIN recs : p[k] = i
<1> DEFINE is == {i \in RecordsOf(store, r) : store[i].end >= now - Retention}
<1>1. store \in Seq(Row) /\ is \subseteq DOMAIN store
  BY DEF TypeInv, RecordsOf
<1>2. recs \in Orders(is, "start") /\ recs \in Seq(Record)
  BY FetchTypes DEF FetchRecords
<1>3. \A i \in is : i \in RecordsOf(store, r) /\ store[i].end >= now - Retention
  OBVIOUS
<1>4. \A i \in RecordsOf(store, r) : store[i].end >= now - Retention => i \in is
  OBVIOUS
<1> HIDE DEF is
<1>5. PICK p \in [1..Cardinality(is) -> is] :
        /\ Cardinality(is) \in Nat
        /\ recs = [k \in 1..Cardinality(is) |-> store[p[k]]]
        /\ \A j, k \in 1..Cardinality(is) :
              j < k => p[j] # p[k] /\ store[p[j]]["start"] <= store[p[k]]["start"]
        /\ \A i \in is : \E k \in 1..Cardinality(is) : p[k] = i
  <2>1. \E p \in [1..Cardinality(is) -> is] :
           /\ Cardinality(is) \in Nat
           /\ recs = [k \in 1..Cardinality(is) |-> store[p[k]]]
           /\ \A j, k \in 1..Cardinality(is) :
                 j < k => p[j] # p[k] /\ store[p[j]]["start"] <= store[p[k]]["start"]
           /\ \A i \in is : \E k \in 1..Cardinality(is) : p[k] = i
    BY <1>1, <1>2, OrdersAre
  <2> QED
    BY ONLY <2>1, Zenon
<1>6. DOMAIN recs = 1..Cardinality(is) /\ \A k \in DOMAIN recs : recs[k] = store[p[k]] /\ p[k] \in is
  BY <1>5
<1>7. p \in [DOMAIN recs -> RecordsOf(store, r)]
  BY <1>3, <1>5, <1>6
<1>8. \A j, k \in DOMAIN recs : j < k => p[j] # p[k] /\ recs[j].start <= recs[k].start
  BY <1>5, <1>6
<1> QED
  BY <1>2, <1>3, <1>4, <1>5, <1>6, <1>7, <1>8

(* The ids of a run begin after those of all its stored records: the last  *)
(* of them is among those that are read, if any is.                        *)
LEMMA NextIdIsNew ==
  ASSUME TypeInv, NEW r \in Run, NEW lost, NEW n, Chronicle(store, lost, n), r \notin lost,
         NEW recs \in FetchRecords(r), recs # <<>>
  PROVE  Below(store, r, NextRecordId(recs))
<1>1. recs \in Seq(Record)
  BY FetchRecordsAre
<1>2. PICK p \in [DOMAIN recs -> RecordsOf(store, r)] :
        /\ \A k \in DOMAIN recs : recs[k] = store[p[k]] /\ recs[k].end >= now - Retention
        /\ \A i \in RecordsOf(store, r) :
              store[i].end >= now - Retention => \E k \in DOMAIN recs : p[k] = i
  BY FetchRecordsAre
<1>3. NextRecordId(recs) \in Nat /\ \A k \in DOMAIN recs : recs[k].id < NextRecordId(recs)
  BY <1>1, NextRecordIdIs
<1>4. /\ now \in Nat /\ now - Retention \in Int
      /\ \A i \in RecordsOf(store, r) : /\ i \in DOMAIN store /\ i \in Nat /\ IsRecord(store[i])
                                        /\ store[i] \in Record /\ store[i].run = r
      /\ \A x \in Record : x.id \in Nat /\ x.start \in Nat /\ x.end \in Nat
  <2>1. store \in Seq(Row) /\ now \in 0..MaxTime
    BY DEF TypeInv
  <2>2. now \in Nat /\ now - Retention \in Int
    BY <2>1, Limits
  <2>3. \A i \in DOMAIN store : i \in Nat /\ store[i] \in Row
    BY <2>1
  <2> QED
    BY <2>2, <2>3, RowKinds, RowFields DEF RecordsOf
<1>5. ASSUME NEW i \in RecordsOf(store, r) PROVE store[i].id < NextRecordId(recs)
  <2>1. CASE store[i].end >= now - Retention
    BY <1>2, <1>3, <2>1
  <2>2. CASE store[i].end < now - Retention
    <3> DEFINE q == p[1]
    <3>1. 1 \in DOMAIN recs
      BY <1>1
    <3>2. q \in RecordsOf(store, r) /\ recs[1] = store[q] /\ store[q].end >= now - Retention
            /\ store[q].id < NextRecordId(recs)
      BY <1>2, <1>3, <3>1
    <3> HIDE DEF q
    <3>3. store[i].end < store[q].end /\ i # q
      BY <1>4, <2>2, <3>2
    <3>4. CASE q < i
      <4>1. store[q].end <= store[i].start /\ store[i].start <= store[i].end
        BY <1>4, <3>2, <3>4 DEF Chronicle, Before, Closed
      <4>2. FALSE
        BY <1>4, <3>2, <3>3, <4>1
      <4> QED
        BY <4>2
    <3>5. CASE i < q
      <4>1. store[i].id < store[q].id
        BY <1>4, <3>2, <3>5 DEF Chronicle, Before
      <4> QED
        BY <1>3, <1>4, <3>2, <4>1
    <3> QED
      BY <1>4, <3>2, <3>3, <3>4, <3>5
  <2> QED
    BY <1>4, <2>1, <2>2
<1> QED
  BY <1>5 DEF Below

(* What a start reads and sets.                                            *)
LEMMA StartIs ==
  ASSUME TInv, NEW r \in Run, Start(r)
  PROVE  /\ daemon.phase = "down" /\ pending = <<>> /\ inbox = <<>> /\ bus = NoBus
         /\ Sent = store /\ Finalized' = {}
         /\ UNCHANGED <<now, store, inbox, pending, bus>> /\ Sent' = store
         /\ daemon'.phase = "up" /\ daemon'.run = r
         /\ \E recs \in Seq(Record), trans \in Seq(Transition) :
               /\ stage' = [NoStage EXCEPT !.records = recs, !.transitions = trans]
               /\ builder'.next = NextRecordId(recs)
               /\ past.lost \subseteq past'.lost
               /\ r \notin past'.lost /\ recs = <<>> => RecordsOf(store, r) = {}
               /\ past'.rows = Len(store) /\ past'.transitions = trans /\ past'.made = <<>>
               /\ recs = <<>> \/ recs \in FetchRecords(r)
               /\ past'.read => recs \in FetchRecords(r)
               /\ trans = <<>> \/ trans \in FetchTransitions(r)
<1>1. /\ daemon.phase = "down" /\ daemon' = [NoDaemon EXCEPT !.phase = "up", !.run = r]
      /\ UNCHANGED <<now, store, inbox, pending, bus>>
  BY DEF Start
<1>2. pending = <<>> /\ inbox = <<>> /\ bus = NoBus
  BY <1>1 DEF TInv, PhaseInv
<1>3. Sent = store /\ Sent' = store
  BY <1>1, <1>2, SentIs DEF TInv, Sent
<1>4. daemon'.phase = "up" /\ daemon'.run = r
  BY <1>1 DEF NoDaemon
<1>r. PICK recs, trans, failed :
        /\ recs \in IF failed = "records" THEN {<<>>} ELSE FetchRecords(r)
        /\ trans \in IF failed = "transitions" THEN {<<>>} ELSE FetchTransitions(r)
        /\ Reads(r, recs, trans, failed)
  BY StartReads, Zenon
<1>5. /\ recs \in IF failed = "records" THEN {<<>>} ELSE FetchRecords(r)
      /\ trans \in IF failed = "transitions" THEN {<<>>} ELSE FetchTransitions(r)
      /\ stage' = [NoStage EXCEPT !.records = recs, !.transitions = trans]
      /\ builder' = NewBuilder(NextRecordId(recs))
      /\ past' = [NoPast(past.lost \cup {store[i].run : i \in IF recs = <<>>
                                                        THEN RecordsOf(store, r) ELSE {}})
                    EXCEPT !.rows = Len(store), !.read = (failed # "records"),
                           !.transitions = trans]
  BY <1>r DEF Reads
<1>6. recs \in Seq(Record) /\ trans \in Seq(Transition)
  <2>1. <<>> \in Seq(Record) /\ <<>> \in Seq(Transition)
    OBVIOUS
  <2> QED
    BY <1>5, <2>1, FetchTypes DEF TInv
<1>7. builder'.next = NextRecordId(recs) /\ Finalized' = {}
  BY <1>5 DEF NewBuilder, Finalized
<1> DEFINE L == past.lost \cup {store[i].run : i \in IF recs = <<>> THEN RecordsOf(store, r) ELSE {}}
<1>8. /\ past'.lost = L /\ past'.rows = Len(store) /\ past'.transitions = trans
      /\ past'.made = <<>> /\ past'.read = (failed # "records")
  <2> HIDE DEF L
  <2>1. past' = [NoPast(L) EXCEPT !.rows = Len(store), !.read = (failed # "records"),
                                  !.transitions = trans]
    BY <1>5 DEF L
  <2> QED
    BY <2>1 DEF NoPast
<1>9. r \notin L /\ recs = <<>> => RecordsOf(store, r) = {}
  BY DEF RecordsOf
<1>10. past.lost \subseteq L
  OBVIOUS
<1> HIDE DEF L
<1>11. recs = <<>> \/ recs \in FetchRecords(r)
  BY <1>5
<1>12. past'.read => recs \in FetchRecords(r)
  BY <1>5, <1>8
<1>13. trans = <<>> \/ trans \in FetchTransitions(r)
  BY <1>5
<1> QED
  BY <1>1, <1>2, <1>3, <1>4, <1>5, <1>6, <1>7, <1>8, <1>9, <1>10, <1>11, <1>12, <1>13

LEMMA HistoryStart ==
  ASSUME HInv, TInv', NEW r \in Run, Start(r)
  PROVE  HistoryInv'
<1>1. /\ Sent = store /\ Sent' = store /\ Finalized' = {} /\ now' = now /\ inbox' = <<>>
      /\ daemon'.run = r
  BY StartIs DEF HInv
<1>2. PICK recs \in Seq(Record) :
        /\ builder'.next = NextRecordId(recs)
        /\ past.lost \subseteq past'.lost
        /\ r \notin past'.lost /\ recs = <<>> => RecordsOf(store, r) = {}
        /\ recs = <<>> \/ recs \in FetchRecords(r)
  BY StartIs DEF HInv
<1>3. now \in Nat /\ now <= now /\ store \in Seq(Row)
  BY Limits DEF HInv, TInv, TypeInv
<1>4. Chronicle(store, past'.lost, now)
  BY <1>1, <1>2, <1>3, LaterKeeps DEF HInv, HistoryInv
<1>5. ASSUME r \notin past'.lost PROVE Below(store, r, builder'.next)
  <2>1. CASE recs = <<>>
    BY <1>2, <1>5, <2>1 DEF Below
  <2>2. CASE recs # <<>>
    BY <1>2, <1>4, <1>5, <2>2, NextIdIsNew DEF HInv, TInv
  <2> QED
    BY <2>1, <2>2
<1> QED
  BY <1>1, <1>4, <1>5 DEF HistoryInv

LEMMA HistoryNext ==
  ASSUME HInv, [Next]_vars
  PROVE  HInv'
<1>0. TInv'
  BY TypesNext DEF HInv
<1>1. CASE \E r \in Run : Start(r)
  BY <1>0, <1>1, HistoryStart DEF HInv
<1>2. CASE StageBegins \/ UpdateRecords \/ PublishNow \/ HandleShutdown \/ HandleComplete
  BY <1>0, <1>2, HistoryStage DEF HInv
<1>3. CASE (\E s \in State : StateChanges(s)) \/ (\E f \in Focus : FocusChanges(f))
  BY <1>0, <1>3, HistoryChanges DEF HInv
<1>4. CASE Stop
  BY <1>0, <1>4, HistoryStop DEF HInv
<1>5. CASE ApplyUpdate
  BY <1>0, <1>5, HistoryApplyUpdate DEF HInv
<1>6. CASE Commit
  BY <1>0, <1>6, HistoryStorage DEF HInv
<1>7. CASE Exit \/ Crash
  BY <1>0, <1>7, HistoryStorage DEF HInv, Exit, Crash
<1>8. CASE Tick \/ UNCHANGED vars
  BY <1>0, <1>8, HistoryTick DEF HInv
<1> QED
  BY <1>1, <1>2, <1>3, <1>4, <1>5, <1>6, <1>7, <1>8 DEF Next

LEMMA HistoryInvariant == Spec => []HInv
<1>1. Init => HInv
  BY TypesInit, HistoryInit DEF HInv
<1>2. HInv /\ [Next]_vars => HInv'
  BY HistoryNext
<1> QED
  BY <1>1, <1>2, PTL DEF Spec

(* A restarted daemon never gives a record the id of an earlier record of  *)
(* its run, whatever was stored, lost in a crash or dropped by a failed    *)
(* write, unless the run was begun again while none of its stored records  *)
(* could be read (next_record_id in hydrate_records): the last stored      *)
(* record of a run ends last and has the greatest id, so it is among those *)
(* read if any is.                                                         *)
THEOREM IdsUnique == Spec => []RecordIdsUnique
<1>1. HInv => RecordIdsUnique
  <2> SUFFICES ASSUME HInv, NEW i \in DOMAIN Sent, NEW j \in DOMAIN Sent, i < j,
                      IsRecord(Sent[i]), IsRecord(Sent[j]),
                      Sent[i].run = Sent[j].run, Sent[i].id = Sent[j].id,
                      Sent[i].run \notin past.lost
               PROVE  FALSE
    BY DEF RecordIdsUnique
  <2>1. Sent[i].id < Sent[j].id
    BY DEF HInv, HistoryInv, Chronicle, Before
  <2>2. Sent[i].id \in Nat
    BY SentIs, RowFields DEF HInv, TInv
  <2> QED
    BY <2>1, <2>2
<1> QED
  BY <1>1, HistoryInvariant, PTL

-----------------------------------------------------------------------------
(* The list of the snapshot stage.                                         *)

LEMMA ListedAppend ==
  ASSUME NEW recs \in Seq(Record), NEW x \in Record, NEW r, NEW lost, NEW t,
         Listed(recs, r, lost, t), x.run = r, Closed(x, t),
         \A k \in DOMAIN recs : Before(recs[k], x, lost)
  PROVE  Listed(Append(recs, x), r, lost, t)
<1> DEFINE all == Append(recs, x)
<1>1. /\ Len(recs) \in Nat /\ DOMAIN recs = 1..Len(recs) /\ DOMAIN all = 1..(Len(recs) + 1)
      /\ \A i \in 1..Len(recs) : all[i] = recs[i]
      /\ all[Len(recs) + 1] = x
  OBVIOUS
<1> HIDE DEF all
<1>2. \A i \in DOMAIN all : (i \in DOMAIN recs /\ all[i] = recs[i]) \/ all[i] = x
  <2>1. \A i \in 1..(Len(recs) + 1) : i \in 1..Len(recs) \/ i = Len(recs) + 1
    BY <1>1
  <2> QED
    BY <1>1, <2>1
<1>3. \A i, j \in DOMAIN all : i < j => i \in DOMAIN recs /\ all[i] = recs[i]
  BY <1>1
<1>4. ASSUME NEW i \in DOMAIN all PROVE all[i].run = r /\ Closed(all[i], t)
  BY <1>2 DEF Listed
<1>5. ASSUME NEW i \in DOMAIN all, NEW j \in DOMAIN all, i < j
      PROVE  /\ all[i].start <= all[j].start
             /\ Apart(all[i], all[j])
             /\ all[i].id = all[j].id => r \in lost
  <2>1. i \in DOMAIN recs /\ all[i] = recs[i]
    BY <1>3, <1>5
  <2>2. CASE j \in DOMAIN recs /\ all[j] = recs[j]
    BY <1>5, <2>1, <2>2 DEF Listed
  <2>3. CASE all[j] = x
    <3>1. Before(recs[i], x, lost) /\ Closed(recs[i], t) /\ recs[i].run = r
      BY <2>1 DEF Listed
    <3>2. /\ recs[i].start \in Nat /\ recs[i].end \in Nat /\ recs[i].id \in Nat
          /\ x.start \in Nat /\ x.id \in Nat
      BY <2>1, RowFields
    <3>3. recs[i].start <= x.start
      BY <3>1, <3>2 DEF Before, Closed
    <3>4. recs[i].end <= x.start
      BY <3>1 DEF Before
    <3>5. recs[i].id = x.id => r \in lost
      BY <3>1, <3>2 DEF Before
    <3> QED
      BY <2>1, <2>3, <3>3, <3>4, <3>5 DEF Apart
  <2> QED
    BY <1>2, <2>2, <2>3
<1>6. Listed(all, r, lost, t)
  BY <1>4, <1>5 DEF Listed
<1> QED
  BY <1>6 DEF all

(* The end of a list, and a list later.                                    *)
LEMMA ListedTrim ==
  ASSUME NEW recs \in Seq(Record), NEW since \in Int, NEW r, NEW lost, NEW t,
         Listed(recs, r, lost, t)
  PROVE  /\ Listed(Trim(recs, since), r, lost, t)
         /\ \A k \in DOMAIN Trim(recs, since) : \E i \in DOMAIN recs : Trim(recs, since)[k] = recs[i]
         /\ \A i \in DOMAIN recs : recs[i].end >= since => recs[i] \in Range(Trim(recs, since))
<1> DEFINE kept == Trim(recs, since)
<1>1. kept \in Seq(Record)
  BY TrimIs
<1>2. PICK d \in 0..Len(recs) :
        /\ Len(kept) = Len(recs) - d
        /\ \A k \in 1..Len(kept) : kept[k] = recs[k + d]
        /\ \A k \in 1..d : recs[k].end < since
  BY TrimIs
<1> HIDE DEF kept
<1>3. /\ DOMAIN recs = 1..Len(recs) /\ Len(recs) \in Nat /\ d \in Nat
      /\ DOMAIN kept = 1..(Len(recs) - d)
  BY <1>1, <1>2
<1>4. \A k \in DOMAIN kept : k + d \in DOMAIN recs /\ kept[k] = recs[k + d]
  BY <1>2, <1>3
<1>5. \A j, k \in DOMAIN kept : j < k => j + d < k + d
  BY <1>3
<1>6. Listed(kept, r, lost, t)
  BY <1>4, <1>5 DEF Listed
<1>7. ASSUME NEW i \in DOMAIN recs, recs[i].end >= since PROVE recs[i] \in Range(kept)
  <2>1. recs[i].end \in Nat
    BY RowFields
  <2>2. i > d
    BY <1>2, <1>3, <1>7, <2>1
  <2>3. i - d \in DOMAIN kept /\ (i - d) + d = i
    BY <1>3, <2>2
  <2>4. kept[i - d] = recs[i]
    BY <1>4, <2>3
  <2> QED
    BY <2>3, <2>4 DEF Range
<1> QED
  BY <1>4, <1>6, <1>7 DEF kept

LEMMA ListedLater ==
  ASSUME NEW recs \in Seq(Record), NEW r, NEW lost, NEW t \in Nat, NEW u \in Nat, t <= u,
         Listed(recs, r, lost, t)
  PROVE  Listed(recs, r, lost, u)
<1>1. ASSUME NEW i \in DOMAIN recs PROVE Closed(recs[i], u)
  <2>1. Closed(recs[i], t) /\ recs[i].end \in Nat
    BY RowFields DEF Listed
  <2> QED
    BY <2>1 DEF Closed
<1> QED
  BY <1>1 DEF Listed

-----------------------------------------------------------------------------
(* The messages on their way.                                              *)

LEMMA AtReceived ==
  ASSUME TInv, NEW k, Received(k), NEW m, \A i, j \in At(m) : i = j
  PROVE  /\ \A i, j \in At(m)' : i = j
         /\ \A i \in At(m)' : i + 1 \in At(m) /\ inbox'[i] = inbox[i + 1]
         /\ k = m => At(m)' = {}
         /\ k # m => \A i \in At(m) : \E j \in At(m)' : inbox'[j] = inbox[i]
<1>1. /\ DOMAIN inbox' = 1..(Len(inbox) - 1) /\ DOMAIN inbox = 1..Len(inbox)
      /\ Len(inbox) \in Nat \ {0} /\ inbox[1].kind = k
      /\ \A i \in DOMAIN inbox' : i + 1 \in DOMAIN inbox /\ inbox'[i] = inbox[i + 1]
  BY ReceivedIs
<1>2. \A i \in At(m)' : i + 1 \in At(m) /\ inbox'[i] = inbox[i + 1]
  BY <1>1 DEF At
<1>3. \A i, j \in At(m)' : i = j
  <2> SUFFICES ASSUME NEW i \in At(m)', NEW j \in At(m)' PROVE i = j
    OBVIOUS
  <2>1. i + 1 = j + 1 /\ i \in Int /\ j \in Int
    BY <1>1, <1>2 DEF At
  <2> QED
    BY <2>1
<1>4. k = m => At(m)' = {}
  <2> SUFFICES ASSUME k = m, NEW i \in At(m)' PROVE FALSE
    OBVIOUS
  <2>1. 1 \in At(m) /\ i + 1 \in At(m) /\ i \in 1..(Len(inbox) - 1)
    BY <1>1, <1>2 DEF At
  <2>2. i + 1 = 1
    BY <2>1
  <2> QED
    BY <1>1, <2>1, <2>2
<1>5. k # m => \A i \in At(m) : \E j \in At(m)' : inbox'[j] = inbox[i]
  <2> SUFFICES ASSUME k # m, NEW i \in At(m) PROVE \E j \in At(m)' : inbox'[j] = inbox[i]
    OBVIOUS
  <2>1. i \in 1..Len(inbox) /\ inbox[i].kind = m /\ i # 1
    BY <1>1 DEF At
  <2>2. i - 1 \in DOMAIN inbox' /\ (i - 1) + 1 = i
    BY <1>1, <2>1
  <2>3. inbox'[i - 1] = inbox[i]
    BY <1>1, <2>2
  <2>4. i - 1 \in At(m)'
    BY <2>1, <2>2, <2>3 DEF At
  <2> QED
    BY <2>3, <2>4
<1> QED
  BY <1>2, <1>3, <1>4, <1>5

(* The kinds of the messages when one is added.                            *)
LEMMA InsertedKinds ==
  ASSUME NEW t \in Seq(Message), NEW s \in Seq(Message), NEW i \in 1..(Len(s) + 1), NEW m,
         Inserted(t, s, i, m)
  PROVE  /\ DOMAIN t = 1..(Len(s) + 1) /\ i \in DOMAIN t /\ t[i] = m
         /\ \A n \in DOMAIN t : n # i =>
               \/ n < i /\ n \in 1..Len(s) /\ t[n] = s[n]
               \/ n > i /\ n - 1 \in 1..Len(s) /\ t[n] = s[n - 1]
<1>1. Len(s) \in Nat /\ i \in Nat /\ i >= 1 /\ DOMAIN t = 1..Len(t) /\ Len(t) = Len(s) + 1
  BY DEF Inserted
<1>2. t[i] = m
  BY <1>1 DEF Inserted
<1>3. ASSUME NEW n \in 1..(Len(s) + 1), n # i
      PROVE  \/ n < i /\ n \in 1..Len(s) /\ t[n] = s[n]
             \/ n > i /\ n - 1 \in 1..Len(s) /\ t[n] = s[n - 1]
  <2>1. CASE n < i
    BY <1>1, <2>1 DEF Inserted
  <2>2. CASE n > i
    <3>1. ~(n < i) /\ n - 1 \in 1..Len(s)
      BY <1>1, <2>2
    <3> QED
      BY <1>3, <2>2, <3>1 DEF Inserted
  <2> QED
    BY <1>1, <1>3, <2>1, <2>2
<1> QED
  BY <1>1, <1>2, <1>3

(* The open record is sent to storage and to the snapshot stage.           *)
RecordSent ==
  \/ Finalized = {} /\ pending' = pending /\ At("record")' = {}
  \/ \E x \in Record : /\ Finalized = {x} /\ pending' = Append(pending, x)
                       /\ \E n \in DOMAIN inbox' : At("record")' = {n} /\ inbox'[n].body = x

LEMMA HintSends ==
  ASSUME TInv, NEW b, NEW msgs \in Seq(Message), NEW c, Hint(b, msgs, c),
         \A k \in 1..Len(msgs) : msgs[k].kind # "record"
  PROVE  RecordSent
<1>1. inbox' \in Seq(Message)
  BY HintInbox
<1>2. CASE Finalized = {} /\ inbox' = msgs /\ pending' = pending
  <2>1. At("record")' = {}
    BY <1>2 DEF At
  <2> QED
    BY <1>2, <2>1 DEF RecordSent
<1>3. CASE \E x \in Record, i \in 1..(Len(msgs) + 1) :
             /\ Finalized = {x}
             /\ pending' = Append(pending, x)
             /\ Inserted(inbox', msgs, i, Msg("record", x))
  <2>1. PICK x \in Record, i \in 1..(Len(msgs) + 1) :
             /\ Finalized = {x}
             /\ pending' = Append(pending, x)
             /\ Inserted(inbox', msgs, i, Msg("record", x))
    BY <1>3
  <2>2. /\ i \in DOMAIN inbox' /\ inbox'[i] = Msg("record", x)
        /\ \A n \in DOMAIN inbox' : n # i => inbox'[n].kind # "record"
    BY <1>1, <2>1, InsertedKinds
  <2>3. inbox'[i].kind = "record" /\ inbox'[i].body = x
    BY <2>2 DEF Msg
  <2>4. At("record")' = {i}
    BY <2>2, <2>3 DEF At
  <2> QED
    BY <2>1, <2>2, <2>3, <2>4 DEF RecordSent
<1> QED
  BY <1>2, <1>3, HintInbox

LEMMA StopSends ==
  ASSUME TInv, Stop
  PROVE  RecordSent
<1>1. inbox' \in Seq(Message)
  BY StopInbox
<1>2. PICK last \in Seq(Message) :
        /\ \E i \in 1..(Len(last) + 1) : Inserted(inbox', last, i, Msg("shutdown", None))
        /\ \/ Finalized = {} /\ pending' = pending /\ last = <<Msg("complete", None)>>
           \/ \E x \in Record :
                 /\ Finalized = {x} /\ pending' = Append(pending, x)
                 /\ last = <<Msg("record", x), Msg("complete", None)>>
  BY StopInbox
<1>3. PICK i \in 1..(Len(last) + 1) : Inserted(inbox', last, i, Msg("shutdown", None))
  BY <1>2
<1>4. /\ DOMAIN inbox' = 1..(Len(last) + 1) /\ i \in DOMAIN inbox'
      /\ inbox'[i] = Msg("shutdown", None)
      /\ \A n \in DOMAIN inbox' : n # i =>
            \/ n < i /\ n \in 1..Len(last) /\ inbox'[n] = last[n]
            \/ n > i /\ n - 1 \in 1..Len(last) /\ inbox'[n] = last[n - 1]
  BY <1>1, <1>3, InsertedKinds
<1>5. Msg("shutdown", None).kind = "shutdown" /\ Msg("complete", None).kind = "complete"
  BY DEF Msg
<1>6. CASE Finalized = {} /\ pending' = pending /\ last = <<Msg("complete", None)>>
  <2>1. \A k \in 1..Len(last) : last[k].kind # "record"
    BY <1>5, <1>6
  <2>2. At("record")' = {}
    BY <1>4, <1>5, <2>1 DEF At
  <2> QED
    BY <1>6, <2>2 DEF RecordSent
<1>7. CASE \E x \in Record :
             /\ Finalized = {x} /\ pending' = Append(pending, x)
             /\ last = <<Msg("record", x), Msg("complete", None)>>
  <2>1. PICK x \in Record :
             /\ Finalized = {x} /\ pending' = Append(pending, x)
             /\ last = <<Msg("record", x), Msg("complete", None)>>
    BY <1>7
  <2>2. Msg("record", x).kind = "record" /\ Msg("record", x).body = x
    BY DEF Msg
  <2>3. /\ Len(last) = 2 /\ last[1] = Msg("record", x)
        /\ last[2].kind # "record" /\ i \in 1..3
    BY <1>5, <2>1
  <2> DEFINE n == IF i = 1 THEN 2 ELSE 1
  <2>4. n \in 1..3 /\ n # i /\ (n < i => n = 1) /\ (n > i => n - 1 = 1)
    BY <2>3
  <2>5. n \in DOMAIN inbox' /\ inbox'[n] = Msg("record", x)
    <3> HIDE DEF n
    <3> QED
      BY <1>4, <2>3, <2>4
  <2>6. ASSUME NEW k \in DOMAIN inbox', k # n PROVE inbox'[k].kind # "record"
    <3>1. CASE k = i
      BY <1>4, <1>5, <3>1
    <3>2. CASE k # i
      <4>1. k \in 1..3 /\ (k < i => k = 2) /\ (k > i => k - 1 = 2)
        BY <1>4, <2>3, <2>6, <3>2
      <4> QED
        BY <1>4, <2>3, <3>2, <4>1
    <3> QED
      BY <3>1, <3>2
  <2> HIDE DEF n
  <2>7. At("record")' = {n}
    BY <2>2, <2>5, <2>6 DEF At
  <2> QED
    BY <2>1, <2>2, <2>5, <2>7 DEF RecordSent
<1> QED
  BY <1>2, <1>6, <1>7

-----------------------------------------------------------------------------
(* What a snapshot must show.                                              *)

(* The records of run r among the rows s from place n + 1 on.              *)
LEMMA RowsFrom ==
  ASSUME NEW s \in Seq(Row), NEW n \in Nat, n <= Len(s), NEW r
  PROVE  LET own == SubSeq(s, n + 1, Len(s))
         IN  {own[i] : i \in RecordsOf(own, r)} = {s[i] : i \in {j \in RecordsOf(s, r) : j > n}}
<1> DEFINE own == SubSeq(s, n + 1, Len(s))
<1>1. Len(s) \in Nat /\ DOMAIN s = 1..Len(s)
  OBVIOUS
<1>2. DOMAIN own = 1..(Len(s) - n) /\ \A i \in 1..(Len(s) - n) : own[i] = s[n + i]
  BY <1>1
<1> HIDE DEF own
<1>3. \A i \in DOMAIN own : n + i \in DOMAIN s /\ n + i > n /\ own[i] = s[n + i]
  BY <1>1, <1>2
<1>4. ASSUME NEW j \in DOMAIN s, j > n PROVE j - n \in DOMAIN own /\ own[j - n] = s[j]
  <2>1. j - n \in 1..(Len(s) - n) /\ n + (j - n) = j
    BY <1>1, <1>4
  <2> QED
    BY <1>2, <2>1
<1>5. \A i \in RecordsOf(own, r) : n + i \in RecordsOf(s, r) /\ n + i > n /\ own[i] = s[n + i]
  BY <1>3 DEF RecordsOf
<1>6. \A j \in RecordsOf(s, r) : j > n => j - n \in RecordsOf(own, r) /\ own[j - n] = s[j]
  BY <1>4 DEF RecordsOf
<1>7. {own[i] : i \in RecordsOf(own, r)} \subseteq {s[i] : i \in {j \in RecordsOf(s, r) : j > n}}
  BY <1>5
<1>8. {s[i] : i \in {j \in RecordsOf(s, r) : j > n}} \subseteq {own[i] : i \in RecordsOf(own, r)}
  BY <1>6
<1> QED
  BY <1>7, <1>8 DEF own

(* The records a snapshot must show, by their places.                      *)
ExpectedAt(s, n, all, r, wait, since) ==
  {x \in {s[i] : i \in {j \in RecordsOf(s, r) : all \/ j > n}} : x \notin wait /\ x.end >= since}

ShownOf(rows, r, wait, since) ==
  {x \in {rows[i] : i \in RecordsOf(rows, r)} \ wait : x.end >= since}

LEMMA ExpectedIs ==
  ASSUME NEW s \in Seq(Row), NEW n \in Nat, n <= Len(s), NEW all \in BOOLEAN, NEW r, NEW wait,
         NEW since
  PROVE  ShownOf(IF all THEN s ELSE SubSeq(s, n + 1, Len(s)), r, wait, since)
           = ExpectedAt(s, n, all, r, wait, since)
<1>1. CASE all
  BY <1>1 DEF ExpectedAt, ShownOf
<1>2. CASE ~all
  <2> DEFINE own == SubSeq(s, n + 1, Len(s))
             P == {s[i] : i \in {j \in RecordsOf(s, r) : j > n}}
  <2>1. {own[i] : i \in RecordsOf(own, r)} = P
    BY RowsFrom
  <2>2. ExpectedAt(s, n, all, r, wait, since) = {x \in P : x \notin wait /\ x.end >= since}
    BY <1>2 DEF ExpectedAt
  <2> HIDE DEF P, own
  <2>3. ShownOf(own, r, wait, since) = {x \in P : x \notin wait /\ x.end >= since}
    BY <2>1 DEF ShownOf
  <2> QED
    BY <1>2, <2>2, <2>3 DEF own
<1> QED
  BY <1>1, <1>2

Waiting == {inbox[i].body : i \in At("record")}

(* A step after which the stage must show no more than before, but for the *)
(* records more.                                                           *)
LEMMA ExpectedGrows ==
  ASSUME TInv, TInv', past.rows <= Len(store), Len(store) <= Len(store'),
         past'.rows = past.rows, past'.read = past.read, daemon'.run = daemon.run,
         NEW more,
         \A i \in DOMAIN Sent' : IsRecord(Sent'[i]) =>
            \/ Sent'[i] \in more
            \/ \E j \in DOMAIN Sent : Sent'[i] = Sent[j] /\ (i > past.rows => j > past.rows),
         \A i \in At("record") :
            \/ inbox[i].body \in more
            \/ \E j \in At("record")' : inbox'[j].body = inbox[i].body,
         NEW since, NEW x \in Expected(since)'
  PROVE  past.rows <= Len(store') /\ (x \in Expected(since) \/ (x \in more /\ x \notin Waiting'))
<1>1. /\ Sent \in Seq(Row) /\ Sent' \in Seq(Row)
      /\ past.rows \in Nat /\ past.read \in BOOLEAN
      /\ past.rows <= Len(Sent) /\ past.rows <= Len(Sent') /\ past.rows <= Len(store')
  <2>1. /\ store \in Seq(Row) /\ pending \in Seq(Row) /\ past.rows \in Nat /\ past.read \in BOOLEAN
        /\ store' \in Seq(Row) /\ pending' \in Seq(Row)
    BY DEF TInv, TypeInv, PastType
  <2>2. /\ Sent \in Seq(Row) /\ Len(Sent) = Len(store) + Len(pending)
        /\ Len(store) \in Nat /\ Len(pending) \in Nat
    BY SentIs DEF TInv
  <2>3. Sent' = store' \o pending'
    BY DEF Sent
  <2>4. /\ Sent' \in Seq(Row) /\ Len(Sent') = Len(store') + Len(pending')
        /\ Len(store') \in Nat /\ Len(pending') \in Nat
    BY <2>1, <2>3
  <2> QED
    BY <2>1, <2>2, <2>4
<1>2. Undelivered = Waiting /\ Undelivered' = Waiting'
  BY DEF Undelivered, Waiting, At, Range
<1>3. Expected(since) = ExpectedAt(Sent, past.rows, past.read, daemon.run, Waiting, since)
  <2>1. Expected(since) = ShownOf(IF past.read THEN Sent ELSE SubSeq(Sent, past.rows + 1, Len(Sent)),
                                  daemon.run, Waiting, since)
    BY <1>2 DEF Expected, Own, ShownOf
  <2> QED
    BY <1>1, <2>1, ExpectedIs
<1>4. Expected(since)' = ExpectedAt(Sent', past.rows, past.read, daemon.run, Waiting', since)
  <2>1. Expected(since)' = ShownOf(IF past.read THEN Sent' ELSE SubSeq(Sent', past.rows + 1, Len(Sent')),
                                   daemon.run, Waiting', since)
    BY <1>2 DEF Expected, Own, ShownOf
  <2> QED
    BY <1>1, <2>1, ExpectedIs
<1>5. PICK i \in RecordsOf(Sent', daemon.run) :
        x = Sent'[i] /\ (past.read \/ i > past.rows) /\ x \notin Waiting' /\ x.end >= since
  BY <1>4 DEF ExpectedAt
<1>6. i \in DOMAIN Sent' /\ IsRecord(Sent'[i]) /\ Sent'[i].run = daemon.run
  BY DEF RecordsOf
<1>7. CASE x \in more
  BY <1>1, <1>5, <1>7
<1>8. CASE x \notin more
  <2>1. PICK j \in DOMAIN Sent : Sent'[i] = Sent[j] /\ (i > past.rows => j > past.rows)
    BY <1>5, <1>6, <1>8
  <2>2. j \in RecordsOf(Sent, daemon.run) /\ x = Sent[j] /\ (past.read \/ j > past.rows)
    BY <1>5, <1>6, <2>1 DEF RecordsOf
  <2>3. x \notin Waiting
    BY <1>5, <1>8 DEF Waiting
  <2> QED
    BY <1>1, <1>3, <1>5, <2>2, <2>3 DEF ExpectedAt
<1> QED
  BY <1>7, <1>8

(* Every record the stage must show is in its list, also when one more is  *)
(* on its way or arrived.                                                  *)
LEMMA CompleteKept ==
  ASSUME TInv, TInv', Complete, Len(store) <= Len(store'), now <= now',
         past'.rows = past.rows, past'.read = past.read, daemon'.run = daemon.run,
         NEW more,
         \A i \in DOMAIN Sent' : IsRecord(Sent'[i]) =>
            \/ Sent'[i] \in more
            \/ \E j \in DOMAIN Sent : Sent'[i] = Sent[j] /\ (i > past.rows => j > past.rows),
         \A i \in At("record") :
            \/ inbox[i].body \in more
            \/ \E j \in At("record")' : inbox'[j].body = inbox[i].body,
         more \ Waiting' \subseteq Range(stage'.records),
         \A k \in DOMAIN stage.records :
            stage.records[k].end >= now' - Retention => stage.records[k] \in Range(stage'.records)
  PROVE  Complete'
<1>0. past.rows <= Len(store) /\ now \in Nat /\ now' \in Nat /\ Retention \in Nat
  BY Limits DEF Complete, TInv, TypeInv
<1>1. past'.rows <= Len(store')
  BY <1>0 DEF TInv, TypeInv, PastType
<1>2. ASSUME NEW since, since = now' - Retention, NEW x \in Expected(since)'
      PROVE  x \in Range(stage'.records)
  <2>2. x \in Expected(since) \/ (x \in more /\ x \notin Waiting')
    BY <1>0, ExpectedGrows
  <2>3. ASSUME x \in Expected(since) PROVE x \in Range(stage'.records)
    <3>1. x.end >= now' - Retention /\ x \in Record
      <4>1. x.end >= now' - Retention
        BY <1>2, <2>3 DEF Expected
      <4>2. \E rows \in Seq(Row) : \E i \in RecordsOf(rows, daemon.run) : x = rows[i]
        <5>1. Sent \in Seq(Row) /\ SubSeq(Sent, past.rows + 1, Len(Sent)) \in Seq(Row)
          <6>1. Sent \in Seq(Row) /\ past.rows \in Nat
            BY SentIs DEF TInv, TypeInv, PastType
          <6> QED
            BY <6>1
        <5> QED
          BY <2>3, <5>1 DEF Expected, Own
      <4> QED
        BY <4>1, <4>2, RowKinds DEF RecordsOf
    <3>2. x \in Expected(now - Retention)
      <4>1. x.end >= now - Retention
        BY <1>0, <3>1, RowFields
      <4> QED
        BY <2>3, <4>1 DEF Expected
    <3>3. x \in Range(stage.records)
      BY <3>2 DEF Complete
    <3>4. PICK k \in DOMAIN stage.records : x = stage.records[k]
      BY <3>3 DEF Range
    <3> QED
      BY <3>1, <3>4
  <2> QED
    BY <2>2, <2>3
<1> QED
  BY <1>1, <1>2 DEF Complete, Expected

-----------------------------------------------------------------------------
(* Every step keeps the list.                                              *)

SInv == HInv /\ StageInv

LEMMA StageInit ==
  ASSUME Init
  PROVE  StageInv
BY DEF Init, StageInv, At, NoDaemon

(* A step that publishes, or changes nothing in the list.                  *)
LEMMA StagePublished ==
  ASSUME SInv, TInv', daemon.phase # "down", daemon'.phase # "down", daemon'.run = daemon.run,
         UNCHANGED <<now, store, builder, pending, past>>,
         \/ inbox' = inbox
         \/ \E k : k # "record" /\ Received(k),
         \/ stage'.records = stage.records
         \/ stage'.records = Trim(stage.records, now - Retention)
  PROVE  StageInv'
<1>0. /\ TInv /\ now \in Nat /\ Retention \in Nat /\ now - Retention \in Int
      /\ stage.records \in Seq(Record) /\ Len(store) \in Nat
      /\ \A i, j \in At("record") : i = j
      /\ Listed(stage.records, daemon.run, past.lost, now) /\ Complete /\ InOrder
  BY Limits DEF SInv, HInv, TInv, TypeInv, StageType, StageInv
<1>1. /\ Listed(stage'.records, daemon.run, past.lost, now)
      /\ \A k \in DOMAIN stage'.records : \E i \in DOMAIN stage.records :
            stage'.records[k] = stage.records[i]
      /\ \A i \in DOMAIN stage.records : stage.records[i].end >= now - Retention
            => stage.records[i] \in Range(stage'.records)
  <2>1. CASE stage'.records = stage.records
    BY <1>0, <2>1 DEF Range
  <2>2. CASE stage'.records = Trim(stage.records, now - Retention)
    <3> DEFINE recs == stage.records
               since == now - Retention
    <3>1. recs \in Seq(Record) /\ since \in Int /\ Listed(recs, daemon.run, past.lost, now)
      BY <1>0
    <3> HIDE DEF recs, since
    <3>2. /\ Listed(Trim(recs, since), daemon.run, past.lost, now)
          /\ \A k \in DOMAIN Trim(recs, since) : \E i \in DOMAIN recs :
                Trim(recs, since)[k] = recs[i]
          /\ \A i \in DOMAIN recs : recs[i].end >= since => recs[i] \in Range(Trim(recs, since))
      BY <3>1, ListedTrim
    <3>3. stage'.records = Trim(recs, since)
      BY <2>2 DEF recs, since
    <3> QED
      BY <3>2, <3>3 DEF recs, since
  <2> QED
    BY <2>1, <2>2
<1>2. /\ \A i, j \in At("record")' : i = j
      /\ \A i \in At("record")' : \E j \in At("record") : inbox'[i] = inbox[j]
      /\ \A i \in At("record") : \E j \in At("record")' : inbox'[j] = inbox[i]
  <2>1. CASE inbox' = inbox
    BY <1>0, <2>1 DEF At
  <2>2. CASE \E k : k # "record" /\ Received(k)
    <3>1. PICK k : k # "record" /\ Received(k)
      BY <2>2
    <3>2. /\ \A i, j \in At("record")' : i = j
          /\ \A i \in At("record")' : i + 1 \in At("record") /\ inbox'[i] = inbox[i + 1]
          /\ \A i \in At("record") : \E j \in At("record")' : inbox'[j] = inbox[i]
      BY <1>0, <3>1, AtReceived
    <3> QED
      BY <3>2
  <2> QED
    BY <2>1, <2>2
<1>3. Finalized' = Finalized /\ Sent' = Sent
  BY FinalizedSame DEF Sent
<1>4. Complete'
  <2> DEFINE more == {}
  <2>1. \A i \in DOMAIN Sent' : IsRecord(Sent'[i]) =>
            \/ Sent'[i] \in more
            \/ \E j \in DOMAIN Sent : Sent'[i] = Sent[j] /\ (i > past.rows => j > past.rows)
    BY <1>3
  <2>2. \A i \in At("record") :
            \/ inbox[i].body \in more
            \/ \E j \in At("record")' : inbox'[j].body = inbox[i].body
    BY <1>2
  <2>3. more \ Waiting' \subseteq Range(stage'.records)
    OBVIOUS
  <2>4. /\ Len(store) <= Len(store') /\ now <= now'
        /\ past'.rows = past.rows /\ past'.read = past.read
    BY <1>0
  <2>5. \A k \in DOMAIN stage.records :
            stage.records[k].end >= now' - Retention => stage.records[k] \in Range(stage'.records)
    BY <1>1
  <2> HIDE DEF more
  <2> QED
    BY <1>0, <2>1, <2>2, <2>3, <2>4, <2>5, CompleteKept
<1>5. InOrder'
  BY <1>0, <1>1, <1>2, <1>3 DEF InOrder
<1> QED
  BY <1>1, <1>2, <1>4, <1>5 DEF StageInv

LEMMA StageUpdateRecords ==
  ASSUME SInv, TInv', UpdateRecords
  PROVE  StageInv'
<1> DEFINE x == Head(inbox).body
<1>0. /\ TInv /\ now \in Nat /\ Retention \in Nat
      /\ stage.records \in Seq(Record) /\ stage \in StageType /\ Len(store) \in Nat
      /\ \A i, j \in At("record") : i = j
      /\ Received("record")
  BY Limits DEF SInv, HInv, TInv, TypeInv, StageType, StageInv, UpdateRecords
<1>1. daemon.phase # "down" /\ x \in Record /\ 1 \in At("record") /\ x = inbox[1].body
  BY <1>0, ReceivedIs, MessageKinds DEF At
<1>2. /\ stage' = [stage EXCEPT !.records = Append(@, x)]
      /\ UNCHANGED <<now, store, daemon, builder, pending, bus, past>>
  BY DEF UpdateRecords
<1> HIDE DEF x
<1>3. stage'.records = Append(stage.records, x)
  BY <1>0, <1>2 DEF StageType
<1>4. Listed(stage.records, daemon.run, past.lost, now) /\ Complete /\ InOrder
  BY <1>1 DEF SInv, StageInv
<1>5. /\ x.run = daemon.run /\ Closed(x, now)
      /\ \A k \in DOMAIN stage.records : Before(stage.records[k], x, past.lost)
      /\ \A y \in Finalized : Before(x, y, past.lost)
      /\ daemon.run \notin past.lost => x.id < builder.next
  BY <1>1, <1>4 DEF InOrder
<1>6. Listed(stage'.records, daemon.run, past.lost, now)
  BY <1>0, <1>1, <1>3, <1>4, <1>5, ListedAppend
<1>7. At("record")' = {}
  BY <1>0, AtReceived
<1>8. Finalized' = Finalized /\ Sent' = Sent
  BY <1>2, FinalizedSame DEF Sent
<1>9. /\ \A k \in DOMAIN stage'.records :
            (k \in DOMAIN stage.records /\ stage'.records[k] = stage.records[k])
              \/ stage'.records[k] = x
      /\ \A k \in DOMAIN stage.records : stage.records[k] \in Range(stage'.records)
      /\ x \in Range(stage'.records)
  <2>1. /\ Len(stage.records) \in Nat /\ DOMAIN stage.records = 1..Len(stage.records)
        /\ DOMAIN stage'.records = 1..(Len(stage.records) + 1)
        /\ \A k \in 1..Len(stage.records) : stage'.records[k] = stage.records[k]
        /\ stage'.records[Len(stage.records) + 1] = x
    BY <1>0, <1>3
  <2>2. /\ \A k \in 1..(Len(stage.records) + 1) : k \in 1..Len(stage.records) \/ k = Len(stage.records) + 1
        /\ \A k \in 1..Len(stage.records) : k \in 1..(Len(stage.records) + 1)
        /\ Len(stage.records) + 1 \in 1..(Len(stage.records) + 1)
    BY <2>1
  <2> QED
    BY <2>1, <2>2 DEF Range
<1>10. Complete'
  <2> DEFINE more == {x}
  <2>1. \A i \in DOMAIN Sent' : IsRecord(Sent'[i]) =>
            \/ Sent'[i] \in more
            \/ \E j \in DOMAIN Sent : Sent'[i] = Sent[j] /\ (i > past.rows => j > past.rows)
    BY <1>8
  <2>2. \A i \in At("record") : inbox[i].body \in more
    BY <1>0, <1>1
  <2>3. more \ Waiting' \subseteq Range(stage'.records)
    BY <1>9
  <2>4. /\ Len(store) <= Len(store') /\ now <= now' /\ daemon'.run = daemon.run
        /\ past'.rows = past.rows /\ past'.read = past.read
    BY <1>0, <1>2
  <2>5. \A k \in DOMAIN stage.records :
            stage.records[k].end >= now' - Retention => stage.records[k] \in Range(stage'.records)
    BY <1>9
  <2> HIDE DEF more
  <2> QED
    BY <1>0, <1>4, <2>1, <2>2, <2>3, <2>4, <2>5, CompleteKept
<1>11. InOrder'
  BY <1>2, <1>4, <1>5, <1>7, <1>8, <1>9 DEF InOrder
<1> QED
  BY <1>2, <1>6, <1>7, <1>10, <1>11 DEF StageInv

(* The open record is sent; the next one, if there is one, begins now.     *)
LEMMA StageSent ==
  ASSUME SInv, TInv', HInv', RecordSent, inbox = <<>>, daemon.phase # "down",
         daemon'.run = daemon.run, UNCHANGED <<now, store, stage>>,
         past'.rows = past.rows, past'.read = past.read, past'.lost = past.lost,
         builder'.next \in {builder.next, builder.next + 1},
         \A y \in Finalized' : y.start = now /\ y.id = builder.next /\ y.run = daemon.run
  PROVE  StageInv'
<1>0. /\ TInv /\ HInv /\ now \in Nat /\ Retention \in Nat
      /\ stage.records \in Seq(Record) /\ Len(store) \in Nat
      /\ Listed(stage.records, daemon.run, past.lost, now) /\ Complete /\ InOrder
      /\ builder.next \in Nat /\ At("record") = {}
  BY Limits DEF SInv, HInv, TInv, TypeInv, StageType, StageInv, At
<1>1. CASE Finalized = {} /\ pending' = pending /\ At("record")' = {}
  <2>1. Sent' = Sent
    BY <1>1 DEF Sent
  <2>2. Complete'
    <3> DEFINE more == {}
    <3>1. \A i \in DOMAIN Sent' : IsRecord(Sent'[i]) =>
              \/ Sent'[i] \in more
              \/ \E j \in DOMAIN Sent : Sent'[i] = Sent[j] /\ (i > past.rows => j > past.rows)
      BY <2>1
    <3>2. /\ more \ Waiting' \subseteq Range(stage'.records)
          /\ Len(store) <= Len(store') /\ now <= now'
          /\ \A k \in DOMAIN stage.records :
              stage.records[k].end >= now' - Retention => stage.records[k] \in Range(stage'.records)
      BY <1>0 DEF Range
    <3>3. \A i \in At("record") :
            \/ inbox[i].body \in more
            \/ \E j \in At("record")' : inbox'[j].body = inbox[i].body
      BY <1>0
    <3> HIDE DEF more
    <3> QED
      BY <1>0, <3>1, <3>2, <3>3, CompleteKept
  <2>3. \A y \in Finalized' : \A k \in DOMAIN stage.records :
            Before(stage.records[k], y, past.lost)
    <3> SUFFICES ASSUME NEW y \in Finalized', NEW k \in DOMAIN stage.records
                 PROVE  Before(stage.records[k], y, past.lost)
      OBVIOUS
    <3>1. stage.records[k].end <= now
      BY <1>0 DEF Listed, Closed
    <3>2. daemon.run \notin past.lost => stage.records[k].id < builder.next
      BY <1>0 DEF InOrder
    <3> QED
      BY <3>1, <3>2 DEF Before
  <2>4. InOrder'
    <3>1. ASSUME NEW k \in DOMAIN stage.records, daemon.run \notin past.lost
          PROVE  stage.records[k].id < builder'.next
      <4>1. stage.records[k].id < builder.next /\ stage.records[k].id \in Nat
        BY <1>0, <3>1, RowFields DEF InOrder
      <4> QED
        BY <1>0, <4>1
    <3> QED
      BY <1>1, <2>3, <3>1 DEF InOrder
  <2> QED
    BY <1>0, <1>1, <2>2, <2>4 DEF StageInv
<1>2. CASE \E x \in Record :
              /\ Finalized = {x} /\ pending' = Append(pending, x)
              /\ \E n \in DOMAIN inbox' : At("record")' = {n} /\ inbox'[n].body = x
  <2>1. PICK x \in Record, n \in DOMAIN inbox' :
              /\ Finalized = {x} /\ pending' = Append(pending, x)
              /\ At("record")' = {n} /\ inbox'[n].body = x
    BY <1>2
  <2>2. Sent' = Append(Sent, x) /\ Sent \in Seq(Row)
    <3>1. x \in Row
      BY DEF Row
    <3> QED
      BY <1>0, <2>1, <3>1, SentAppend, SentIs DEF TInv
  <2>3. /\ Closed(x, now) /\ x.id < builder.next /\ x.run = daemon.run
        /\ \A k \in DOMAIN stage.records : Before(stage.records[k], x, past.lost)
    BY <1>0, <2>1 DEF HInv, HistoryInv, InOrder, Finalized
  <2>4. Complete'
    <3> DEFINE more == {x}
    <3>1. \A i \in DOMAIN Sent' : IsRecord(Sent'[i]) =>
              \/ Sent'[i] \in more
              \/ \E j \in DOMAIN Sent : Sent'[i] = Sent[j] /\ (i > past.rows => j > past.rows)
      <4>1. \A i \in DOMAIN Sent' : (i \in DOMAIN Sent /\ Sent'[i] = Sent[i]) \/ Sent'[i] = x
        <5>1. /\ Len(Sent) \in Nat /\ DOMAIN Sent = 1..Len(Sent)
              /\ DOMAIN Sent' = 1..(Len(Sent) + 1)
              /\ \A k \in 1..Len(Sent) : Sent'[k] = Sent[k]
              /\ Sent'[Len(Sent) + 1] = x
          BY <2>2
        <5>2. \A k \in 1..(Len(Sent) + 1) : k \in 1..Len(Sent) \/ k = Len(Sent) + 1
          BY <5>1
        <5> QED
          BY <5>1, <5>2
      <4> QED
        BY <4>1
    <3>2. more \ Waiting' \subseteq Range(stage'.records)
      <4>1. x \in Waiting'
        BY <2>1 DEF Waiting
      <4> QED
        BY <4>1
    <3>3. \A i \in At("record") :
            \/ inbox[i].body \in more
            \/ \E j \in At("record")' : inbox'[j].body = inbox[i].body
      BY <1>0
    <3>4. /\ Len(store) <= Len(store') /\ now <= now'
          /\ \A k \in DOMAIN stage.records :
              stage.records[k].end >= now' - Retention => stage.records[k] \in Range(stage'.records)
      BY <1>0 DEF Range
    <3> HIDE DEF more
    <3> QED
      BY <1>0, <3>1, <3>2, <3>3, <3>4, CompleteKept
  <2>5. \A y \in Finalized' : \A k \in DOMAIN stage.records :
            Before(stage.records[k], y, past.lost)
    <3> SUFFICES ASSUME NEW y \in Finalized', NEW k \in DOMAIN stage.records
                 PROVE  Before(stage.records[k], y, past.lost)
      OBVIOUS
    <3>1. stage.records[k].end <= now
      BY <1>0 DEF Listed, Closed
    <3>2. daemon.run \notin past.lost => stage.records[k].id < builder.next
      BY <1>0 DEF InOrder
    <3> QED
      BY <3>1, <3>2 DEF Before
  <2>6. \A y \in Finalized' : Before(x, y, past.lost)
    BY <2>3 DEF Before, Closed
  <2>7. ASSUME NEW k \in DOMAIN stage.records, daemon.run \notin past.lost
        PROVE  stage.records[k].id < builder'.next
    <3>1. stage.records[k].id < builder.next /\ stage.records[k].id \in Nat
      BY <1>0, <2>7, RowFields DEF InOrder
    <3> QED
      BY <1>0, <3>1
  <2>8. x.id < builder'.next
    <3>1. x.id \in Nat
      BY RowFields
    <3> QED
      BY <1>0, <2>3, <3>1
  <2>9. InOrder'
    BY <2>1, <2>3, <2>5, <2>6, <2>7, <2>8 DEF InOrder
  <2> QED
    BY <1>0, <2>1, <2>4, <2>9 DEF StageInv
<1> QED
  BY <1>1, <1>2 DEF RecordSent

LEMMA StageApplyUpdate ==
  ASSUME SInv, TInv', ApplyUpdate
  PROVE  StageInv'
<1> DEFINE t == Head(inbox).body
<1>0. /\ TInv /\ now \in Nat /\ Retention \in Nat
      /\ stage.records \in Seq(Record) /\ stage \in StageType /\ Len(store) \in Nat
      /\ \A i, j \in At("record") : i = j
      /\ Received("transition")
  BY Limits DEF SInv, HInv, TInv, TypeInv, StageType, StageInv, ApplyUpdate
<1>1. daemon.phase # "down" /\ t \in Transition /\ t \in Row /\ ~IsRecord(t)
  BY <1>0, ReceivedIs, MessageKinds, RowKinds DEF Row
<1>2. /\ stage' = [stage EXCEPT !.state = t.to, !.last = t]
      /\ pending' = Append(pending, t)
      /\ UNCHANGED <<now, store, daemon, builder, past>>
  BY DEF ApplyUpdate
<1> HIDE DEF t
<1>3. stage'.records = stage.records
  BY <1>0, <1>2 DEF StageType
<1>4. Listed(stage.records, daemon.run, past.lost, now) /\ Complete /\ InOrder
  BY <1>1 DEF SInv, StageInv
<1>5. /\ \A i, j \in At("record")' : i = j
      /\ \A i \in At("record")' : i + 1 \in At("record") /\ inbox'[i] = inbox[i + 1]
      /\ \A i \in At("record") : \E j \in At("record")' : inbox'[j] = inbox[i]
  BY <1>0, AtReceived
<1>6. Finalized' = Finalized
  BY <1>2, FinalizedSame
<1>7. Sent' = Append(Sent, t) /\ Sent \in Seq(Row)
  BY <1>0, <1>1, <1>2, SentAppend, SentIs DEF TInv
<1>8. Complete'
  <2> DEFINE more == {}
  <2>1. \A i \in DOMAIN Sent' : IsRecord(Sent'[i]) =>
            \/ Sent'[i] \in more
            \/ \E j \in DOMAIN Sent : Sent'[i] = Sent[j] /\ (i > past.rows => j > past.rows)
    <3>1. \A i \in DOMAIN Sent' : (i \in DOMAIN Sent /\ Sent'[i] = Sent[i]) \/ Sent'[i] = t
      <4>1. /\ Len(Sent) \in Nat /\ DOMAIN Sent = 1..Len(Sent)
            /\ DOMAIN Sent' = 1..(Len(Sent) + 1)
            /\ \A k \in 1..Len(Sent) : Sent'[k] = Sent[k]
            /\ Sent'[Len(Sent) + 1] = t
        BY <1>7
      <4>2. \A k \in 1..(Len(Sent) + 1) : k \in 1..Len(Sent) \/ k = Len(Sent) + 1
        BY <4>1
      <4> QED
        BY <4>1, <4>2
    <3> QED
      BY <1>1, <3>1
  <2>2. \A i \in At("record") :
            \/ inbox[i].body \in more
            \/ \E j \in At("record")' : inbox'[j].body = inbox[i].body
    BY <1>5
  <2>3. /\ more \ Waiting' \subseteq Range(stage'.records)
        /\ Len(store) <= Len(store') /\ now <= now' /\ daemon'.run = daemon.run
        /\ past'.rows = past.rows /\ past'.read = past.read
        /\ \A k \in DOMAIN stage.records :
            stage.records[k].end >= now' - Retention => stage.records[k] \in Range(stage'.records)
    BY <1>0, <1>2, <1>3 DEF Range
  <2> HIDE DEF more
  <2> QED
    BY <1>0, <1>4, <2>1, <2>2, <2>3, CompleteKept
<1>9. InOrder'
  BY <1>2, <1>3, <1>4, <1>5, <1>6 DEF InOrder
<1> QED
  BY <1>2, <1>3, <1>4, <1>5, <1>8, <1>9 DEF StageInv

LEMMA StageChanges ==
  ASSUME SInv, TInv', HInv', (\E s \in State : StateChanges(s)) \/ (\E f \in Focus : FocusChanges(f))
  PROVE  StageInv'
<1>0. /\ TInv /\ builder \in BuilderType /\ now \in Nat
      /\ past \in PastType /\ builder.next \in Nat
  BY Limits DEF SInv, HInv, TInv, TypeInv, BuilderType
<1>1. ASSUME NEW b \in BuilderType, b.next = builder.next, NEW msgs \in Seq(Message), NEW c,
             Hint(b, msgs, c), \A k \in 1..Len(msgs) : msgs[k].kind # "record",
             daemon'.run = daemon.run,
             past'.rows = past.rows, past'.read = past.read, past'.lost = past.lost
      PROVE  StageInv'
  <2>1. RecordSent
    BY <1>0, <1>1, HintSends
  <2>2. /\ inbox = <<>> /\ daemon.phase # "down" /\ UNCHANGED <<now, store, stage>>
        /\ builder' = Reopened(b)
    BY <1>1 DEF Hint, Quiet
  <2>3. /\ builder'.current = [id |-> builder.next, start |-> now, focus |-> b.focus]
        /\ builder'.next = builder.next + 1
    <3> DEFINE c0 == [id |-> builder.next, start |-> now, focus |-> b.focus]
    <3>1. builder' = [b EXCEPT !.current = c0, !.next = builder.next + 1]
      BY <1>1, <2>2 DEF Reopened
    <3> HIDE DEF c0
    <3>2. builder'.current = c0 /\ builder'.next = builder.next + 1
      BY <3>1 DEF BuilderType
    <3> QED
      BY <3>2 DEF c0
  <2>4. \A y \in Finalized' : y.start = now /\ y.id = builder.next /\ y.run = daemon.run
    BY <1>1, <2>3 DEF Finalized
  <2> QED
    BY <1>1, <2>1, <2>2, <2>3, <2>4, StageSent
<1>2. ASSUME NEW s \in State, StateChanges(s) PROVE StageInv'
  <2>1. PICK t \in Transition :
            /\ Hint(builder, <<Msg("transition", t), Publish>>, StateCost)
            /\ <<Msg("transition", t), Publish>> \in Seq(Message)
            /\ past' = [past EXCEPT !.made = Append(@, t)]
            /\ daemon' = [daemon EXCEPT !.state = s]
    BY <1>0, <1>2, StateChangeIs
  <2>2. /\ daemon'.run = daemon.run
        /\ past'.rows = past.rows /\ past'.read = past.read /\ past'.lost = past.lost
    BY <1>0, <2>1 DEF TInv, TypeInv, PastType
  <2>3. \A k \in 1..2 : <<Msg("transition", t), Publish>>[k].kind # "record"
    BY DEF Msg, Publish
  <2>4. Len(<<Msg("transition", t), Publish>>) = 2
    OBVIOUS
  <2> QED
    BY <1>0, <1>1, <2>1, <2>2, <2>3, <2>4
<1>3. ASSUME NEW f \in Focus, FocusChanges(f) PROVE StageInv'
  <2> DEFINE b == [builder EXCEPT !.focus = f]
  <2>1. Hint(b, <<Publish>>, FocusCost) /\ UNCHANGED <<daemon, past>>
    BY <1>3 DEF FocusChanges
  <2>2. b \in BuilderType /\ b.next = builder.next
    BY <1>0 DEF BuilderType
  <2>3. /\ <<Publish>> \in Seq(Message) /\ Len(<<Publish>>) = 1
        /\ \A k \in 1..1 : <<Publish>>[k].kind # "record"
    BY MessageTypes DEF Msg, Publish
  <2> HIDE DEF b
  <2> QED
    BY <1>1, <2>1, <2>2, <2>3
<1> QED
  BY <1>2, <1>3

LEMMA StageStop ==
  ASSUME SInv, TInv', HInv', Stop
  PROVE  StageInv'
<1>0. TInv /\ builder.next \in Nat
  BY DEF SInv, HInv, TInv, TypeInv
<1>1. /\ daemon' = [daemon EXCEPT !.phase = "closing"] /\ daemon.phase = "up" /\ inbox = <<>>
      /\ builder' = [builder EXCEPT !.current = None]
      /\ UNCHANGED <<now, store, stage, past>>
  BY DEF Stop, Quiet
<1>2. daemon'.run = daemon.run /\ builder'.next = builder.next /\ builder'.current = None
  BY <1>0, <1>1 DEF TInv, TypeInv
<1>3. Finalized' = {}
  BY <1>2 DEF Finalized
<1>4. RecordSent
  BY <1>0, StopSends
<1> QED
  BY <1>1, <1>2, <1>3, <1>4, StageSent

(* Nothing that was stored before the daemon started is taken away.        *)
LEMMA StageCommit ==
  ASSUME SInv, TInv', Commit
  PROVE  StageInv'
<1>1. UNCHANGED <<now, daemon, builder, inbox, stage, past>>
  BY DEF Commit
<1>2. SUFFICES ASSUME daemon.phase # "down" PROVE StageInv'
  BY <1>1 DEF SInv, StageInv, At
<1>0. /\ TInv /\ now \in Nat /\ Retention \in Nat /\ past.rows \in Nat
      /\ stage.records \in Seq(Record)
      /\ Listed(stage.records, daemon.run, past.lost, now) /\ Complete /\ InOrder
      /\ past.rows <= Len(store)
      /\ \A i, j \in At("record") : i = j
  <2>1. /\ TInv /\ now \in Nat /\ Retention \in Nat /\ past.rows \in Nat
        /\ stage.records \in Seq(Record)
    BY Limits DEF SInv, HInv, TInv, TypeInv, StageType, PastType
  <2>2. /\ Listed(stage.records, daemon.run, past.lost, now) /\ Complete /\ InOrder
        /\ \A i, j \in At("record") : i = j
    BY <1>2 DEF SInv, StageInv
  <2>3. past.rows <= Len(store)
    BY <2>2 DEF Complete
  <2> QED
    BY <2>1, <2>2, <2>3
<1>3. /\ Sent \in Seq(Row) /\ Len(Sent) = Len(store) + Len(pending)
      /\ Len(store) \in Nat /\ Len(pending) \in Nat /\ DOMAIN Sent = 1..Len(Sent)
  BY <1>0, SentIs DEF TInv
<1>4. /\ pending' = <<>>
      /\ \/ Sent' = Sent
         \/ /\ Len(Sent') = Len(Sent) - 1
            /\ \E n \in (Len(store) + 1)..Len(Sent) :
                  \A k \in 1..(Len(Sent) - 1) :
                     Sent'[k] = IF k < n THEN Sent[k] ELSE Sent[k + 1]
  BY <1>0, CommitIs
<1>5. store' \in Seq(Row) /\ Sent' = store'
  <2>1. store' \in Seq(Row) /\ Sent' = store' \o pending'
    BY DEF Sent, TInv, TypeInv
  <2> QED
    BY <1>4, <2>1
<1>6. Len(store) <= Len(store')
  <2>1. CASE Sent' = Sent
    BY <1>3, <1>5, <2>1
  <2>2. CASE /\ Len(Sent') = Len(Sent) - 1
             /\ \E n \in (Len(store) + 1)..Len(Sent) :
                  \A k \in 1..(Len(Sent) - 1) :
                     Sent'[k] = IF k < n THEN Sent[k] ELSE Sent[k + 1]
    BY <1>3, <1>5, <2>2
  <2> QED
    BY <1>4, <2>1, <2>2
<1>7. \A i \in DOMAIN Sent' :
         \E j \in DOMAIN Sent : Sent'[i] = Sent[j] /\ (i > past.rows => j > past.rows)
  <2>1. CASE Sent' = Sent
    BY <2>1
  <2>2. CASE /\ Len(Sent') = Len(Sent) - 1
             /\ \E n \in (Len(store) + 1)..Len(Sent) :
                  \A k \in 1..(Len(Sent) - 1) :
                     Sent'[k] = IF k < n THEN Sent[k] ELSE Sent[k + 1]
    <3>1. PICK n \in (Len(store) + 1)..Len(Sent) :
                  \A k \in 1..(Len(Sent) - 1) :
                     Sent'[k] = IF k < n THEN Sent[k] ELSE Sent[k + 1]
      BY <2>2
    <3>2. DOMAIN Sent' = 1..(Len(Sent) - 1)
      BY <1>5, <2>2
    <3> SUFFICES ASSUME NEW i \in 1..(Len(Sent) - 1)
                 PROVE  \E j \in DOMAIN Sent : Sent'[i] = Sent[j] /\ (i > past.rows => j > past.rows)
      BY <3>2
    <3>3. CASE i < n
      <4>1. i \in DOMAIN Sent
        BY <1>3
      <4> QED
        BY <3>1, <3>3, <4>1
    <3>4. CASE ~(i < n)
      <4>1. i + 1 \in DOMAIN Sent /\ (i > past.rows => i + 1 > past.rows)
        BY <1>0, <1>3
      <4> QED
        BY <3>1, <3>4, <4>1
    <3> QED
      BY <3>3, <3>4
  <2> QED
    BY <1>4, <2>1, <2>2
<1>8. Finalized' = Finalized
  BY <1>1, FinalizedSame
<1>9. Complete'
  <2> DEFINE more == {}
  <2>1. \A i \in DOMAIN Sent' : IsRecord(Sent'[i]) =>
            \/ Sent'[i] \in more
            \/ \E j \in DOMAIN Sent : Sent'[i] = Sent[j] /\ (i > past.rows => j > past.rows)
    BY <1>7
  <2>2. \A i \in At("record") :
            \/ inbox[i].body \in more
            \/ \E j \in At("record")' : inbox'[j].body = inbox[i].body
    BY <1>1 DEF At
  <2>3. /\ more \ Waiting' \subseteq Range(stage'.records)
        /\ now <= now' /\ daemon'.run = daemon.run
        /\ past'.rows = past.rows /\ past'.read = past.read
        /\ \A k \in DOMAIN stage.records :
            stage.records[k].end >= now' - Retention => stage.records[k] \in Range(stage'.records)
    BY <1>0, <1>1 DEF Range
  <2> HIDE DEF more
  <2> QED
    BY <1>0, <1>6, <2>1, <2>2, <2>3, CompleteKept
<1>10. InOrder' /\ \A i, j \in At("record")' : i = j
  BY <1>0, <1>1, <1>8 DEF InOrder, At
<1> QED
  BY <1>0, <1>1, <1>9, <1>10 DEF StageInv

LEMMA StageTick ==
  ASSUME SInv, TInv', Tick \/ UNCHANGED vars
  PROVE  StageInv'
<1>1. UNCHANGED <<store, daemon, builder, inbox, pending, stage, bus, past>>
  BY DEF Tick, vars
<1>2. /\ now \in Nat /\ now' \in Nat /\ now <= now' /\ TInv /\ Retention \in Nat
      /\ stage.records \in Seq(Record) /\ Len(store) \in Nat
      /\ \A i, j \in At("record") : i = j
  BY Limits DEF SInv, HInv, TInv, TypeInv, StageType, StageInv, Tick, vars
<1>3. \A i, j \in At("record")' : i = j
  BY <1>1, <1>2 DEF At
<1>4. ASSUME daemon.phase # "down" PROVE Listed(stage'.records, daemon.run, past.lost, now') /\ Complete' /\ InOrder'
  <2>1. Listed(stage.records, daemon.run, past.lost, now) /\ Complete /\ InOrder
    BY <1>4 DEF SInv, StageInv
  <2>2. Listed(stage.records, daemon.run, past.lost, now')
    BY <1>2, <2>1, ListedLater
  <2>3. Sent' = Sent
    BY <1>1 DEF Sent
  <2>4. Complete'
    <3> DEFINE more == {}
    <3>1. \A i \in DOMAIN Sent' : IsRecord(Sent'[i]) =>
              \/ Sent'[i] \in more
              \/ \E j \in DOMAIN Sent : Sent'[i] = Sent[j] /\ (i > past.rows => j > past.rows)
      BY <2>3
    <3>2. \A i \in At("record") :
            \/ inbox[i].body \in more
            \/ \E j \in At("record")' : inbox'[j].body = inbox[i].body
      BY <1>1 DEF At
    <3>3. /\ more \ Waiting' \subseteq Range(stage'.records)
          /\ Len(store) <= Len(store') /\ daemon'.run = daemon.run
          /\ past'.rows = past.rows /\ past'.read = past.read
          /\ \A k \in DOMAIN stage.records :
              stage.records[k].end >= now' - Retention => stage.records[k] \in Range(stage'.records)
      BY <1>1, <1>2 DEF Range
    <3> HIDE DEF more
    <3> QED
      BY <1>2, <2>1, <3>1, <3>2, <3>3, CompleteKept
  <2>5. \A y \in Finalized' : \E x \in Finalized :
           x.id = y.id /\ x.run = y.run /\ x.start = y.start
    <3> SUFFICES ASSUME NEW y \in Finalized'
                 PROVE  \E x \in Finalized : x.id = y.id /\ x.run = y.run /\ x.start = y.start
      OBVIOUS
    <3>1. PICK c \in {builder.current} \ {None} :
             y = [id |-> c.id, run |-> daemon.run, start |-> c.start, end |-> now', focus |-> c.focus]
      BY <1>1 DEF Finalized
    <3> DEFINE x == [id |-> c.id, run |-> daemon.run, start |-> c.start, end |-> now, focus |-> c.focus]
    <3>2. x \in Finalized
      BY DEF Finalized
    <3>3. x.id = y.id /\ x.run = y.run /\ x.start = y.start
      BY <3>1
    <3> QED
      BY <3>2, <3>3
  <2>6. \A i \in At("record") : inbox[i].body \in Record
    BY <1>2, MessageKinds DEF At, TInv, TypeInv
  <2>7. \A i \in At("record") : Closed(inbox[i].body, now')
    <3> SUFFICES ASSUME NEW i \in At("record") PROVE Closed(inbox[i].body, now')
      OBVIOUS
    <3>1. Closed(inbox[i].body, now) /\ inbox[i].body.end \in Nat
      BY <2>1, <2>6, RowFields DEF InOrder
    <3> QED
      BY <1>2, <3>1 DEF Closed
  <2>8. InOrder'
    <3>1. ASSUME NEW z, NEW y \in Finalized', \A x \in Finalized : Before(z, x, past.lost)
          PROVE  Before(z, y, past.lost)
      BY <2>5, <3>1 DEF Before
    <3>2. At("record")' = At("record") /\ \A i \in At("record") : inbox'[i] = inbox[i]
      BY <1>1 DEF At
    <3> QED
      BY <1>1, <2>1, <2>7, <3>1, <3>2 DEF InOrder
  <2> QED
    BY <1>1, <2>2, <2>4, <2>8
<1> QED
  BY <1>1, <1>3, <1>4 DEF StageInv

LEMMA StageDown ==
  ASSUME SInv, Down
  PROVE  StageInv'
<1>1. inbox' = <<>> /\ daemon'.phase = "down"
  BY DEF Down, NoDaemon
<1> QED
  BY <1>1 DEF StageInv, At

LEMMA StageStart ==
  ASSUME SInv, TInv', HInv', NEW r \in Run, Start(r)
  PROVE  StageInv'
<1>0. TInv /\ TypeInv /\ Retention \in Nat /\ now \in Nat /\ store \in Seq(Row) /\ Len(store) \in Nat
  BY Limits DEF SInv, HInv, TInv, TypeInv
<1>1. /\ Sent = store /\ Sent' = store /\ Finalized' = {} /\ inbox' = <<>>
      /\ UNCHANGED <<now, store>> /\ daemon'.run = r
  BY <1>0, StartIs
<1>2. PICK recs \in Seq(Record), trans \in Seq(Transition) :
        /\ stage' = [NoStage EXCEPT !.records = recs, !.transitions = trans]
        /\ builder'.next = NextRecordId(recs)
        /\ past'.rows = Len(store)
        /\ recs = <<>> \/ recs \in FetchRecords(r)
        /\ past'.read => recs \in FetchRecords(r)
  BY <1>0, StartIs
<1>3. stage'.records = recs
  BY <1>2 DEF NoStage
<1>4. At("record")' = {}
  BY <1>1 DEF At
<1>5. Chronicle(store, past'.lost, now)
  BY <1>1 DEF HInv, HistoryInv
<1>6. Listed(recs, r, past'.lost, now)
  <2>1. CASE recs = <<>>
    BY <2>1 DEF Listed
  <2>2. CASE recs \in FetchRecords(r)
    <3>1. PICK p \in [DOMAIN recs -> RecordsOf(store, r)] :
            /\ \A k \in DOMAIN recs : recs[k] = store[p[k]]
            /\ \A j, k \in DOMAIN recs : j < k => p[j] # p[k] /\ recs[j].start <= recs[k].start
      <4>1. \E p \in [DOMAIN recs -> RecordsOf(store, r)] :
               /\ \A k \in DOMAIN recs : recs[k] = store[p[k]] /\ recs[k].end >= now - Retention
               /\ \A j, k \in DOMAIN recs :
                     j < k => p[j] # p[k] /\ recs[j].start <= recs[k].start
               /\ \A i \in RecordsOf(store, r) :
                     store[i].end >= now - Retention => \E k \in DOMAIN recs : p[k] = i
        BY <1>0, <2>2, FetchRecordsAre
      <4> QED
        BY <4>1
    <3>2. ASSUME NEW k \in DOMAIN recs
          PROVE  /\ p[k] \in DOMAIN store /\ p[k] \in Nat /\ IsRecord(store[p[k]])
                 /\ recs[k].run = r /\ Closed(recs[k], now) /\ recs[k].id \in Nat
      <4>1. p[k] \in RecordsOf(store, r) /\ recs[k] = store[p[k]]
        BY <3>1
      <4>2. p[k] \in DOMAIN store /\ IsRecord(store[p[k]]) /\ recs[k].run = r
        BY <4>1 DEF RecordsOf
      <4>3. p[k] \in Nat
        BY <1>0, <4>2
      <4>4. Closed(recs[k], now)
        BY <1>5, <4>1, <4>2 DEF Chronicle
      <4>5. recs[k] \in Record
        OBVIOUS
      <4> QED
        BY <4>2, <4>3, <4>4, <4>5, RowFields
    <3>3. ASSUME NEW j \in DOMAIN recs, NEW k \in DOMAIN recs, p[j] < p[k]
          PROVE  /\ recs[j].end <= recs[k].start
                 /\ recs[j].id = recs[k].id => r \in past'.lost
      <4>1. Before(store[p[j]], store[p[k]], past'.lost)
        BY <1>5, <3>2, <3>3 DEF Chronicle
      <4>2. Before(recs[j], recs[k], past'.lost) /\ recs[j].run = r /\ recs[k].run = r
        BY <3>1, <3>2, <4>1
      <4> QED
        BY <3>2, <4>2 DEF Before
    <3>4. ASSUME NEW j \in DOMAIN recs, NEW k \in DOMAIN recs, j < k
          PROVE  /\ recs[j].start <= recs[k].start
                 /\ Apart(recs[j], recs[k])
                 /\ recs[j].id = recs[k].id => r \in past'.lost
      <4>1. p[j] # p[k] /\ recs[j].start <= recs[k].start /\ p[j] \in Nat /\ p[k] \in Nat
        BY <3>1, <3>2, <3>4
      <4>2. p[j] < p[k] \/ p[k] < p[j]
        BY <4>1
      <4> QED
        BY <3>3, <4>1, <4>2 DEF Apart
    <3> QED
      BY <3>2, <3>4 DEF Listed
  <2> QED
    BY <1>2, <2>1, <2>2
<1>7. \A k \in DOMAIN recs : recs[k].id < NextRecordId(recs)
  BY NextRecordIdIs
<1>8. InOrder'
  BY <1>1, <1>2, <1>3, <1>4, <1>7 DEF InOrder
<1>9. Complete'
  <2>1. past'.rows <= Len(store')
    BY <1>0, <1>1, <1>2
  <2>2. ASSUME NEW since, since = now - Retention, NEW x \in Expected(since)'
        PROVE  x \in Range(recs)
    <3>1. CASE past'.read
      <4>1. PICK i \in RecordsOf(store, r) : x = store[i] /\ x.end >= now - Retention
        BY <1>1, <2>2, <3>1 DEF Expected
      <4>2. recs \in FetchRecords(r)
        BY <1>2, <3>1
      <4>3. PICK p \in [DOMAIN recs -> RecordsOf(store, r)] :
              /\ \A k \in DOMAIN recs : recs[k] = store[p[k]]
              /\ \A j \in RecordsOf(store, r) :
                    store[j].end >= now - Retention => \E k \in DOMAIN recs : p[k] = j
        BY <1>0, <4>2, FetchRecordsAre
      <4>4. PICK k \in DOMAIN recs : p[k] = i
        BY <4>1, <4>3
      <4> QED
        BY <4>1, <4>3, <4>4 DEF Range
    <3>2. CASE ~past'.read
      <4>1. Own' = SubSeq(store, Len(store) + 1, Len(store))
        BY <1>1, <1>2 DEF Own
      <4>2. Own' = <<>>
        BY <1>0, <4>1
      <4>3. \E i \in RecordsOf(Own', r) : TRUE
        BY <1>1, <2>2, <3>2 DEF Expected
      <4> QED
        BY <4>2, <4>3 DEF RecordsOf
    <3> QED
      BY <3>1, <3>2
  <2> QED
    BY <1>1, <1>3, <2>1, <2>2 DEF Complete, Expected
<1> QED
  BY <1>1, <1>3, <1>4, <1>6, <1>8, <1>9 DEF StageInv

(* The steps of the stage that publish, or read without keeping a record.  *)
LEMMA PublishedBy ==
  ASSUME TInv, StageBegins \/ PublishNow \/ HandleShutdown \/ HandleComplete
  PROVE  /\ daemon.phase # "down" /\ daemon'.phase # "down" /\ daemon'.run = daemon.run
         /\ UNCHANGED <<now, store, builder, pending, past>>
         /\ inbox' = inbox \/ \E k : k # "record" /\ Received(k)
         /\ \/ bus' = bus /\ stage'.records = stage.records
            \/ /\ stage'.records = Trim(stage.records, now - Retention)
               /\ bus'.snapshot.at = now /\ bus'.snapshot.records = stage'.records
<1>0. /\ now \in 0..MaxTime /\ stage \in StageType
      /\ bus.transitions \in Seq(Transition) /\ Len(bus.transitions) <= BusCap
      /\ daemon = [daemon EXCEPT !.phase = daemon.phase]
  BY DEF TInv, TypeInv, BusType
<1>1. CASE StageBegins
  <2> DEFINE s == Replay(stage)
             recs == Trim(s.records, now - Retention)
  <2>1. stage'.records = recs /\ bus'.snapshot.at = now /\ bus'.snapshot.records = recs
    <3>1. s.records = stage.records /\ s \in [begun : BOOLEAN, records : Seq(Record),
             transitions : {<<>>}, state : {s.state}, last : {s.last},
             shutdown : BOOLEAN, complete : BOOLEAN]
      BY <1>0 DEF Replay, StageType
    <3> DEFINE apps == build_app_tree(aggregate_activities_since(recs, now - Retention))
    <3>2. /\ stage' = [s EXCEPT !.records = recs]
          /\ bus'.snapshot = [at |-> now, state |-> s.state, last |-> s.last,
                   recent |-> recent_transitions(PushAll(stage.transitions), RecentLimit),
                   records |-> recs, apps |-> apps]
      BY <1>1 DEF StageBegins, publish_snapshot
    <3> HIDE DEF s, recs, apps
    <3> QED
      BY <3>1, <3>2
  <2>2. s.records = stage.records
    BY <1>0 DEF Replay, StageType
  <2>3. /\ daemon.phase # "down" /\ daemon' = daemon
        /\ UNCHANGED <<now, store, builder, inbox, pending, past>>
    BY <1>1 DEF StageBegins
  <2> HIDE DEF s
  <2> QED
    BY <2>1, <2>2, <2>3
<1>2. ASSUME NEW s \in StageType, s.records = stage.records, publish_snapshot(s, bus.transitions)
      PROVE  /\ stage'.records = Trim(stage.records, now - Retention)
             /\ bus'.snapshot.at = now /\ bus'.snapshot.records = stage'.records
  BY <1>0, <1>2, PublishIs
<1>3. CASE PublishNow
  <2>1. /\ Received("publish") /\ publish_snapshot(stage, bus.transitions)
        /\ UNCHANGED <<now, store, daemon, builder, pending, past>>
    BY <1>3 DEF PublishNow
  <2>2. daemon.phase # "down"
    BY <2>1, ReceivedIs
  <2> QED
    BY <1>0, <1>2, <2>1, <2>2
<1>4. ASSUME NEW k \in {"shutdown", "complete"}, NEW s \in StageType,
             s.records = stage.records, Finish(k, s)
      PROVE  /\ daemon.phase # "down" /\ daemon'.phase # "down" /\ daemon'.run = daemon.run
             /\ UNCHANGED <<now, store, builder, pending, past>>
             /\ Received(k)
             /\ \/ bus' = bus /\ stage'.records = stage.records
                \/ /\ stage'.records = Trim(stage.records, now - Retention)
                   /\ bus'.snapshot.at = now /\ bus'.snapshot.records = stage'.records
  <2>1. Received(k) /\ UNCHANGED <<now, store, builder, pending, past>>
    BY <1>4 DEF Finish
  <2>2. daemon.phase # "down"
    BY <2>1, ReceivedIs
  <2>3. CASE s.shutdown /\ s.complete
    <3>1. publish_snapshot(s, bus.transitions) /\ daemon' = [daemon EXCEPT !.phase = "drained"]
      BY <1>4, <2>3 DEF Finish
    <3>2. daemon'.phase # "down" /\ daemon'.run = daemon.run
      BY <3>1 DEF TInv, TypeInv
    <3> QED
      BY <1>2, <1>4, <2>1, <2>2, <3>1, <3>2
  <2>4. CASE ~(s.shutdown /\ s.complete)
    <3>1. stage' = s /\ UNCHANGED <<daemon, bus>>
      BY <1>4, <2>4 DEF Finish
    <3> QED
      BY <1>4, <2>1, <2>2, <3>1
  <2> QED
    BY <2>3, <2>4
<1>5. CASE HandleShutdown
  <2> DEFINE s == [stage EXCEPT !.shutdown = TRUE]
  <2>1. s \in StageType /\ s.records = stage.records /\ Finish("shutdown", s)
    BY <1>0, <1>5 DEF StageType, HandleShutdown
  <2> HIDE DEF s
  <2> QED
    BY <1>4, <2>1
<1>6. CASE HandleComplete
  <2> DEFINE s == [stage EXCEPT !.complete = TRUE]
  <2>1. s \in StageType /\ s.records = stage.records /\ Finish("complete", s)
    BY <1>0, <1>6 DEF StageType, HandleComplete
  <2> HIDE DEF s
  <2> QED
    BY <1>4, <2>1
<1> QED
  BY <1>1, <1>3, <1>5, <1>6

LEMMA StageNext ==
  ASSUME SInv, [Next]_vars
  PROVE  SInv'
<1>0. TInv /\ HInv' /\ TInv'
  BY HistoryNext DEF SInv, HInv
<1>1. CASE \E r \in Run : Start(r)
  BY <1>0, <1>1, StageStart DEF SInv
<1>2. CASE StageBegins \/ PublishNow \/ HandleShutdown \/ HandleComplete
  <2>1. StageInv'
    BY <1>0, <1>2, PublishedBy, StagePublished
  <2> QED
    BY <1>0, <2>1 DEF SInv
<1>3. CASE (\E s \in State : StateChanges(s)) \/ (\E f \in Focus : FocusChanges(f))
  BY <1>0, <1>3, StageChanges DEF SInv
<1>4. CASE Stop
  BY <1>0, <1>4, StageStop DEF SInv
<1>5. CASE ApplyUpdate
  BY <1>0, <1>5, StageApplyUpdate DEF SInv
<1>6. CASE UpdateRecords
  BY <1>0, <1>6, StageUpdateRecords DEF SInv
<1>7. CASE Commit
  BY <1>0, <1>7, StageCommit DEF SInv
<1>8. CASE Exit \/ Crash
  BY <1>0, <1>8, StageDown DEF SInv, Exit, Crash
<1>9. CASE Tick \/ UNCHANGED vars
  BY <1>0, <1>9, StageTick DEF SInv
<1> QED
  BY <1>1, <1>2, <1>3, <1>4, <1>5, <1>6, <1>7, <1>8, <1>9 DEF Next

LEMMA StageInvariant == Spec => []SInv
<1>1. Init => SInv
  BY TypesInit, HistoryInit, StageInit DEF SInv, HInv
<1>2. SInv /\ [Next]_vars => SInv'
  BY StageNext
<1> QED
  BY <1>1, <1>2, PTL DEF Spec

(* The other steps publish nothing.                                        *)
LEMMA SnapshotKept ==
  ASSUME TInv, [Next]_vars, daemon'.phase # "down", bus'.snapshot # bus.snapshot
  PROVE  StageBegins \/ PublishNow \/ HandleShutdown \/ HandleComplete
<1>1. CASE ApplyUpdate
  <2>1. bus = [transitions |-> bus.transitions, snapshot |-> bus.snapshot]
    BY DEF TInv, TypeInv, BusType
  <2>2. bus' = [bus EXCEPT !.transitions = Push(@, Head(inbox).body)]
    BY <1>1 DEF ApplyUpdate
  <2>3. bus'.snapshot = bus.snapshot
    BY <2>1, <2>2
  <2> QED
    BY <2>3
<1>2. CASE Exit \/ Crash
  BY <1>2 DEF Exit, Crash, Down, NoDaemon
<1>3. CASE \E r \in Run : Start(r)
  BY <1>3 DEF Start
<1>4. CASE (\E s \in State : StateChanges(s)) \/ (\E f \in Focus : FocusChanges(f))
  BY <1>4 DEF StateChanges, FocusChanges, Hint
<1>5. CASE Stop \/ UpdateRecords \/ Commit \/ Tick \/ UNCHANGED vars
  BY <1>5 DEF Stop, UpdateRecords, Commit, Tick, vars
<1> QED
  BY <1>1, <1>2, <1>3, <1>4, <1>5 DEF Next

(* Every snapshot the stage publishes holds the records of its run within  *)
(* the retention window, also those of the daemons before it: none is      *)
(* missing, none is of another run or there twice, the oldest come first,  *)
(* and one that ended before the window began has no length                *)
(* (publish_snapshot, update_records, hydrate_records).                    *)
THEOREM RetentionPublished == Spec => PublishesRetention
<1>1. SInv /\ SInv' /\ [Next]_vars
        => [daemon'.phase # "down" /\ bus'.snapshot # bus.snapshot /\ stage'.begun
              => ShowsRetention']_vars
  <2> SUFFICES ASSUME SInv, SInv', [Next]_vars, daemon'.phase # "down",
                      bus'.snapshot # bus.snapshot
               PROVE  ShowsRetention'
    OBVIOUS
  <2>0. TInv
    BY DEF SInv, HInv
  <2>1. StageBegins \/ PublishNow \/ HandleShutdown \/ HandleComplete
    BY <2>0, SnapshotKept
  <2>2. /\ UNCHANGED <<now, store, builder, pending, past>>
        /\ stage'.records = Trim(stage.records, now - Retention)
        /\ bus'.snapshot.at = now /\ bus'.snapshot.records = stage'.records
    BY <2>0, <2>1, PublishedBy
  <2> DEFINE recs == stage'.records
             since == now - Retention
             r == daemon'.run
  <2>3. Listed(recs, r, past'.lost, now') /\ Complete'
    BY DEF SInv, StageInv
  <2>4. stage.records \in Seq(Record) /\ now \in Nat /\ since \in Int
    BY <2>0, Limits DEF TInv, TypeInv, StageType
  <2>5. recs \in Seq(Record) /\ (recs # <<>> => recs[1].end >= since)
    BY <2>2, <2>4, TrimIs
  <2>6. bus'.snapshot.at - Retention = since /\ bus'.snapshot.records = recs /\ now' = now
    BY <2>2
  <2>7. Expected(bus.snapshot.at - Retention)' \subseteq Range(recs)
    BY <2>2, <2>3 DEF Complete, Expected
  <2>8. ASSUME NEW i \in DOMAIN recs, recs[i].end < since
        PROVE  recs[i].start = recs[i].end
    <3> HIDE DEF recs, since, r
    <3>1. recs # <<>> /\ 1 \in DOMAIN recs /\ i \in Nat /\ i >= 1
      BY <2>5
    <3>2. recs[1] \in Record /\ recs[i] \in Record
      BY <2>5, <3>1
    <3>3. /\ recs[1].end \in Nat /\ recs[i].end \in Nat /\ recs[1].start \in Nat /\ recs[i].start \in Nat
      BY <3>2, RowFields
    <3>4. recs[1].end >= since /\ i # 1
      BY <2>4, <2>5, <2>8, <3>1, <3>3
    <3>5. recs[1].start <= recs[i].start /\ Apart(recs[1], recs[i])
      BY <2>3, <3>1, <3>4 DEF Listed
    <3>6. recs[i].start <= recs[i].end /\ recs[1].start <= recs[1].end
      BY <2>3, <3>1 DEF Listed, Closed
    <3>7. CASE recs[1].end <= recs[i].start
      BY <2>4, <2>8, <3>3, <3>4, <3>6, <3>7
    <3>8. CASE recs[i].end <= recs[1].start
      BY <3>3, <3>5, <3>6, <3>8
    <3> QED
      BY <3>5, <3>7, <3>8 DEF Apart
  <2> HIDE DEF recs, since, r
  <2>9. /\ \A i \in DOMAIN recs : recs[i].run = r /\ (recs[i].end < since => recs[i].start = recs[i].end)
        /\ \A i, j \in DOMAIN recs : i < j =>
            /\ recs[i].start <= recs[j].start
            /\ recs[i].id = recs[j].id => r \in past'.lost
    BY <2>3, <2>8 DEF Listed
  <2> QED
    BY <2>6, <2>7, <2>9 DEF ShowsRetention, r
<1> QED
  BY <1>1, StageInvariant, PTL DEF Spec, PublishesRetention

-----------------------------------------------------------------------------
(* Every step keeps the transitions.                                       *)

NInv == HInv /\ NewestInv

(* What was made, but for the transition on its way.                       *)
LEMMA ButLast ==
  ASSUME NEW S, NEW made \in Seq(S), NEW W
  PROVE  /\ W = {} => SubSeq(made, 1, Len(made) - Cardinality(W)) = made
         /\ \A n : W = {n} /\ made # <<>> =>
               /\ SubSeq(made, 1, Len(made) - Cardinality(W)) \in Seq(S)
               /\ Append(SubSeq(made, 1, Len(made) - Cardinality(W)), Last(made)) = made
<1>1. Len(made) \in Nat
  OBVIOUS
<1>2. ASSUME W = {} PROVE SubSeq(made, 1, Len(made) - Cardinality(W)) = made
  <2>1. Cardinality(W) = 0
    BY <1>2, FS_EmptySet
  <2>2. Len(made) - Cardinality(W) = Len(made)
    BY <1>1, <2>1
  <2> QED
    BY <2>2
<1>3. ASSUME NEW n, W = {n}, made # <<>>
      PROVE  /\ SubSeq(made, 1, Len(made) - Cardinality(W)) \in Seq(S)
             /\ Append(SubSeq(made, 1, Len(made) - Cardinality(W)), Last(made)) = made
  <2>1. Cardinality(W) = 1
    BY <1>3, FS_Singleton
  <2>2. Len(made) >= 1
    BY <1>1, <1>3
  <2> DEFINE f == SubSeq(made, 1, Len(made) - 1)
             a == Append(f, Last(made))
  <2>3. /\ f \in Seq(S) /\ Len(f) = Len(made) - 1
        /\ \A k \in 1..(Len(made) - 1) : f[k] = made[k]
    <3>1. ASSUME NEW j \in 0..Len(made)
          PROVE  /\ SubSeq(made, 1, j) \in Seq(S) /\ Len(SubSeq(made, 1, j)) = j
                 /\ \A k \in 1..j : SubSeq(made, 1, j)[k] = made[k]
      BY <1>1
    <3>2. Len(made) - 1 \in 0..Len(made)
      BY <1>1, <2>2
    <3> QED
      BY <3>1, <3>2
  <2>4. Last(made) = made[Len(made)] /\ Last(made) \in S
    BY <1>1, <2>2 DEF Last
  <2> HIDE DEF f
  <2>5. /\ a \in Seq(S) /\ Len(a) = Len(made) /\ \A k \in 1..(Len(made) - 1) : a[k] = f[k]
        /\ a[Len(made)] = Last(made)
    BY <1>1, <2>2, <2>3, <2>4
  <2> HIDE DEF a
  <2>6. \A k \in 1..Len(a) : a[k] = made[k]
    <3> SUFFICES ASSUME NEW k \in 1..Len(made) PROVE a[k] = made[k]
      BY <2>5
    <3>1. CASE k = Len(made)
      BY <2>4, <2>5, <3>1
    <3>2. CASE k # Len(made)
      <4>1. k \in 1..(Len(made) - 1)
        BY <1>1, <3>2
      <4> QED
        BY <2>3, <2>5, <4>1
    <3> QED
      BY <3>1, <3>2
  <2>7. a = made
    BY <2>5, <2>6, SeqEqual
  <2> QED
    BY <2>1, <2>3, <2>7 DEF a, f
<1> QED
  BY <1>2, <1>3

(* The transitions of the inbox after a step.                              *)
LEMMA HintTransitions ==
  ASSUME TInv, NEW b, NEW msgs \in Seq(Message), NEW c, Hint(b, msgs, c)
  PROVE  /\ (\A k \in 1..Len(msgs) : msgs[k].kind # "transition") => At("transition")' = {}
         /\ \A t \in Transition : msgs = <<Msg("transition", t), Publish>> =>
               \E n \in DOMAIN inbox' : At("transition")' = {n} /\ inbox'[n].body = t
<1>1. inbox' \in Seq(Message)
  BY HintInbox
<1>2. CASE inbox' = msgs
  <2>1. ASSUME \A k \in 1..Len(msgs) : msgs[k].kind # "transition" PROVE At("transition")' = {}
    BY <1>2, <2>1 DEF At
  <2>2. ASSUME NEW t \in Transition, msgs = <<Msg("transition", t), Publish>>
        PROVE  \E n \in DOMAIN inbox' : At("transition")' = {n} /\ inbox'[n].body = t
    <3>1. /\ DOMAIN inbox' = 1..2 /\ inbox'[1].kind = "transition" /\ inbox'[1].body = t
          /\ inbox'[2].kind # "transition"
      BY <1>2, <2>2 DEF Msg, Publish
    <3>2. 1..2 = {1, 2}
      OBVIOUS
    <3>3. At("transition")' = {1}
      BY <3>1, <3>2 DEF At
    <3> QED
      BY <3>1, <3>2, <3>3
  <2> QED
    BY <2>1, <2>2
<1>3. CASE \E x \in Record, i \in 1..(Len(msgs) + 1) : Inserted(inbox', msgs, i, Msg("record", x))
  <2>1. PICK x \in Record, i \in 1..(Len(msgs) + 1) : Inserted(inbox', msgs, i, Msg("record", x))
    BY <1>3
  <2>2. Msg("record", x).kind = "record"
    BY DEF Msg
  <2>3. /\ DOMAIN inbox' = 1..(Len(msgs) + 1) /\ i \in DOMAIN inbox' /\ inbox'[i] = Msg("record", x)
        /\ \A n \in DOMAIN inbox' : n # i =>
              \/ n < i /\ n \in 1..Len(msgs) /\ inbox'[n] = msgs[n]
              \/ n > i /\ n - 1 \in 1..Len(msgs) /\ inbox'[n] = msgs[n - 1]
    BY <1>1, <2>1, InsertedKinds
  <2>4. ASSUME \A k \in 1..Len(msgs) : msgs[k].kind # "transition" PROVE At("transition")' = {}
    BY <2>2, <2>3, <2>4 DEF At
  <2>5. ASSUME NEW t \in Transition, msgs = <<Msg("transition", t), Publish>>
        PROVE  \E n \in DOMAIN inbox' : At("transition")' = {n} /\ inbox'[n].body = t
    <3>1. /\ Len(msgs) = 2 /\ msgs[1].kind = "transition" /\ msgs[1].body = t
          /\ msgs[2].kind # "transition" /\ i \in 1..3 /\ DOMAIN inbox' = 1..3
      BY <2>3, <2>5 DEF Msg, Publish
    <3> DEFINE n == IF i = 1 THEN 2 ELSE 1
    <3>2. n \in 1..3 /\ n # i /\ (n < i => n = 1) /\ (n > i => n - 1 = 1)
      BY <3>1
    <3>3. n \in DOMAIN inbox' /\ inbox'[n] = msgs[1]
      <4> HIDE DEF n
      <4> QED
        BY <2>3, <3>1, <3>2
    <3>4. ASSUME NEW k \in DOMAIN inbox', k # n PROVE inbox'[k].kind # "transition"
      <4>1. CASE k = i
        BY <2>2, <2>3, <4>1
      <4>2. CASE k # i
        <5>1. k \in 1..3 /\ (k < i => k = 2) /\ (k > i => k - 1 = 2)
          BY <3>1, <3>4, <4>2
        <5> QED
          BY <2>3, <3>1, <4>2, <5>1
      <4> QED
        BY <4>1, <4>2
    <3> HIDE DEF n
    <3>5. At("transition")' = {n}
      BY <3>1, <3>3, <3>4 DEF At
    <3> QED
      BY <3>1, <3>3, <3>5
  <2> QED
    BY <2>4, <2>5
<1> QED
  BY <1>2, <1>3, HintInbox

LEMMA StopTransitions ==
  ASSUME TInv, Stop
  PROVE  At("transition")' = {}
<1>1. inbox' \in Seq(Message)
  BY StopInbox
<1>2. PICK last \in Seq(Message) :
        /\ \E i \in 1..(Len(last) + 1) : Inserted(inbox', last, i, Msg("shutdown", None))
        /\ \/ last = <<Msg("complete", None)>>
           \/ \E x \in Record : last = <<Msg("record", x), Msg("complete", None)>>
  BY StopInbox
<1>3. PICK i \in 1..(Len(last) + 1) : Inserted(inbox', last, i, Msg("shutdown", None))
  BY <1>2
<1>4. \A k \in 1..Len(last) : last[k].kind # "transition"
  <2>1. Msg("complete", None).kind = "complete" /\ \A x : Msg("record", x).kind = "record"
    BY DEF Msg
  <2>2. CASE last = <<Msg("complete", None)>>
    BY <2>1, <2>2
  <2>3. CASE \E x \in Record : last = <<Msg("record", x), Msg("complete", None)>>
    BY <2>1, <2>3
  <2> QED
    BY <1>2, <2>2, <2>3
<1>5. Msg("shutdown", None).kind = "shutdown"
  BY DEF Msg
<1>6. \A n \in DOMAIN inbox' : \/ inbox'[n] = Msg("shutdown", None)
                               \/ \E k \in 1..Len(last) : inbox'[n] = last[k]
  BY <1>1, <1>3, InsertedKinds
<1> QED
  BY <1>4, <1>5, <1>6 DEF At

(* What the stage has seen does not change unless a transition arrives.    *)
LEMMA DeliveredKept ==
  ASSUME TInv, NEW W, NEW V, \A i, j \in W : i = j, \A i, j \in V : i = j, W = {} <=> V = {}
  PROVE  SubSeq(past.made, 1, Len(past.made) - Cardinality(W))
           = SubSeq(past.made, 1, Len(past.made) - Cardinality(V))
<1>1. CASE W = {}
  BY <1>1
<1>2. CASE W # {}
  <2>1. PICK m, n : W = {m} /\ V = {n}
    <3>1. PICK m : m \in W
      BY <1>2
    <3>2. PICK n : n \in V
      BY <1>2
    <3>3. W = {m}
      BY <3>1
    <3>4. V = {n}
      BY <3>2
    <3> QED
      BY <3>3, <3>4
  <2>2. Cardinality(W) = 1 /\ Cardinality(V) = 1
    BY <2>1, FS_Singleton
  <2> QED
    BY <2>2
<1> QED
  BY <1>1, <1>2

(* A step that delivers no transition.                                     *)
LEMMA NewestKept ==
  ASSUME TInv, NewestInv, daemon.phase # "down", past' = past, now' = now,
         \/ inbox' = inbox
         \/ \E k : k # "transition" /\ Received(k)
         \/ At("transition") = {} /\ At("transition")' = {},
         stage'.begun = stage.begun, stage'.transitions = stage.transitions,
         stage'.state = stage.state, stage'.last = stage.last,
         bus'.transitions = bus.transitions, stage.begun \/ bus' = bus
  PROVE  NewestInv'
<1>0. /\ \A i, j \in At("transition") : i = j
      /\ \A i \in At("transition") : past.made # <<>> /\ inbox[i].body = Last(past.made)
      /\ InTime /\ Held
  BY DEF NewestInv
<1>1. /\ \A i, j \in At("transition")' : i = j
      /\ \A i \in At("transition")' : \E j \in At("transition") : inbox'[i] = inbox[j]
      /\ At("transition") = {} <=> At("transition")' = {}
  <2>1. CASE inbox' = inbox
    BY <1>0, <2>1 DEF At
  <2>2. CASE \E k : k # "transition" /\ Received(k)
    <3>1. PICK k : k # "transition" /\ Received(k)
      BY <2>2
    <3>2. /\ \A i, j \in At("transition")' : i = j
          /\ \A i \in At("transition")' : i + 1 \in At("transition") /\ inbox'[i] = inbox[i + 1]
          /\ \A i \in At("transition") : \E j \in At("transition")' : inbox'[j] = inbox[i]
      BY <1>0, <3>1, AtReceived
    <3> QED
      BY <3>2
  <2>3. CASE At("transition") = {} /\ At("transition")' = {}
    BY <2>3
  <2> QED
    BY <2>1, <2>2, <2>3
<1>2. Delivered' = Delivered
  <2> DEFINE W == At("transition")
             V == At("transition")'
  <2>1. /\ Delivered = SubSeq(past.made, 1, Len(past.made) - Cardinality(W))
        /\ Delivered' = SubSeq(past.made, 1, Len(past.made) - Cardinality(V))
    BY DEF Delivered, At
  <2>2. /\ \A i, j \in W : i = j
        /\ \A i, j \in V : i = j
        /\ W = {} <=> V = {}
    BY <1>0, <1>1
  <2> HIDE DEF W, V
  <2> QED
    BY <2>1, <2>2, DeliveredKept
<1>3. Seen' = Seen
  BY <1>2 DEF Seen
<1>4. InTime'
  BY <1>0 DEF InTime
<1>5. Held'
  BY <1>0, <1>2, <1>3 DEF Held
<1> QED
  BY <1>0, <1>1, <1>4, <1>5 DEF NewestInv

(* A transition is made: it comes after all the others.                    *)
LEMMA NewestStateChanges ==
  ASSUME NInv, NEW s \in State, StateChanges(s)
  PROVE  NewestInv'
<1>0. /\ TInv /\ HInv /\ past \in PastType /\ past.made \in Seq(Transition) /\ now \in Nat
      /\ stage.begun \in BOOLEAN
  BY Limits DEF NInv, HInv, TInv, TypeInv, PastType, StageType
<1>1. PICK t \in Transition :
          /\ t.at = now
          /\ Hint(builder, <<Msg("transition", t), Publish>>, StateCost)
          /\ <<Msg("transition", t), Publish>> \in Seq(Message)
          /\ past' = [past EXCEPT !.made = Append(@, t)]
  BY <1>0, StateChangeIs
<1>2. inbox = <<>> /\ daemon.phase # "down" /\ UNCHANGED <<now, stage, bus>>
  BY <1>1 DEF Hint, Quiet
<1>3. InTime /\ Held /\ At("transition") = {}
  BY <1>2 DEF NInv, NewestInv, At
<1> DEFINE msgs == <<Msg("transition", t), Publish>>
<1>4. PICK n \in DOMAIN inbox' : At("transition")' = {n} /\ inbox'[n].body = t
  <2>1. msgs \in Seq(Message) /\ Hint(builder, msgs, StateCost)
          /\ msgs = <<Msg("transition", t), Publish>>
    BY <1>1
  <2> HIDE DEF msgs
  <2> QED
    BY <1>0, <2>1, HintTransitions
<1>5. /\ past'.made = Append(past.made, t) /\ past'.transitions = past.transitions
      /\ past'.made \in Seq(Transition) /\ past'.made # <<>>
  <2>1. past'.made = Append(past.made, t) /\ past'.transitions = past.transitions
    BY <1>0, <1>1 DEF PastType
  <2>2. Append(past.made, t) \in Seq(Transition) /\ Append(past.made, t) # <<>>
    BY <1>0
  <2> QED
    BY <2>1, <2>2
<1>6. /\ Len(past.made) \in Nat /\ DOMAIN past.made = 1..Len(past.made)
      /\ DOMAIN past'.made = 1..(Len(past.made) + 1) /\ Len(past'.made) = Len(past.made) + 1
      /\ \A k \in 1..Len(past.made) : past'.made[k] = past.made[k]
      /\ past'.made[Len(past.made) + 1] = t /\ Last(past'.made) = t
  BY <1>0, <1>5 DEF Last
<1>7. Delivered' = past.made
  <2> DEFINE W == At("transition")'
  <2>1. Delivered' = SubSeq(past'.made, 1, Len(past'.made) - Cardinality(W))
    BY DEF Delivered, At
  <2>2. Cardinality(W) = 1
    BY <1>4, FS_Singleton
  <2> HIDE DEF W
  <2>3. Delivered' = SubSeq(Append(past.made, t), 1, Len(past.made))
    BY <1>5, <1>6, <2>1, <2>2
  <2> QED
    BY <1>0, <2>3
<1>8. Delivered = past.made
  <2>1. Delivered = SubSeq(past.made, 1, Len(past.made) - Cardinality(At("transition")))
    BY DEF Delivered, At
  <2> QED
    BY <1>0, <1>3, <2>1, ButLast
<1>9. Seen' = Seen
  BY <1>5, <1>7, <1>8 DEF Seen
<1>10. InTime'
  <2>1. \A k \in 1..(Len(past.made) + 1) : k \in 1..Len(past.made) \/ k = Len(past.made) + 1
    BY <1>6
  <2>2. \A i \in DOMAIN past.made : i \in DOMAIN past'.made /\ past'.made[i] = past.made[i]
    BY <1>6
  <2>3. \A i \in DOMAIN past'.made : past'.made[i].at <= now
    <3>1. t.at <= now
      BY <1>0, <1>1
    <3> QED
      BY <1>3, <1>6, <2>1, <3>1 DEF InTime
  <2>4. \A i \in DOMAIN past'.made : \A k \in DOMAIN past.transitions :
           past.transitions[k].at <= past'.made[i].at
    BY <1>1, <1>3, <1>6, <2>1 DEF InTime
  <2>5. ASSUME NEW i \in DOMAIN past'.made, NEW j \in DOMAIN past'.made, i < j
        PROVE  past'.made[i].at <= past'.made[j].at
    <3>1. i \in DOMAIN past.made /\ past'.made[i] = past.made[i]
      BY <1>6, <2>5
    <3>2. CASE j \in 1..Len(past.made)
      BY <1>3, <1>6, <2>5, <3>1, <3>2 DEF InTime
    <3>3. CASE j = Len(past.made) + 1
      BY <1>1, <1>3, <1>6, <3>1, <3>3 DEF InTime
    <3> QED
      BY <1>6, <2>1, <3>2, <3>3
  <2> QED
    BY <1>2, <1>3, <1>5, <2>3, <2>4, <2>5 DEF InTime
<1>11. Held'
  BY <1>2, <1>3, <1>5, <1>7, <1>8, <1>9 DEF Held
<1> QED
  BY <1>4, <1>5, <1>6, <1>10, <1>11 DEF NewestInv

(* A transition arrives: it is what the stage shows, and the newest of the *)
(* buffer.                                                                 *)
LEMMA NewestApplyUpdate ==
  ASSUME NInv, ApplyUpdate
  PROVE  NewestInv'
<1> DEFINE t == Head(inbox).body
<1>0. /\ TInv /\ past \in PastType /\ past.made \in Seq(Transition)
      /\ past.transitions \in Seq(Transition)
      /\ stage \in StageType /\ Received("transition") /\ BusType(bus)
      /\ \A i, j \in At("transition") : i = j
  BY DEF NInv, HInv, TInv, TypeInv, PastType, ApplyUpdate, NewestInv
<1>1. daemon.phase # "down" /\ stage.begun /\ t \in Transition /\ 1 \in At("transition")
        /\ t = inbox[1].body
  BY <1>0, ReceivedIs, MessageKinds DEF At
<1>2. /\ stage' = [stage EXCEPT !.state = t.to, !.last = t]
      /\ bus' = [bus EXCEPT !.transitions = Push(@, t)]
      /\ UNCHANGED <<now, store, daemon, builder, past>>
  BY DEF ApplyUpdate
<1> HIDE DEF t
<1>3. InTime /\ Held /\ past.made # <<>> /\ t = Last(past.made)
  BY <1>1 DEF NInv, NewestInv
<1>4. At("transition") = {1} /\ At("transition")' = {}
  BY <1>0, <1>1, AtReceived
<1>5. Delivered \in Seq(Transition) /\ Append(Delivered, t) = past.made
  <2>1. Delivered = SubSeq(past.made, 1, Len(past.made) - Cardinality(At("transition")))
    BY DEF Delivered, At
  <2> QED
    BY <1>0, <1>3, <1>4, <2>1, ButLast
<1>6. Delivered' = past.made
  <2>1. Delivered' = SubSeq(past.made, 1, Len(past.made) - Cardinality(At("transition")'))
    BY <1>2 DEF Delivered, At
  <2> QED
    BY <1>0, <1>4, <2>1, ButLast
<1>7. Seen' = Append(Seen, t) /\ Seen \in Seq(Transition)
  <2>1. Seen = past.transitions \o Delivered /\ Seen' = past.transitions \o past.made
    BY <1>2, <1>6 DEF Seen
  <2>2. past.transitions \o Append(Delivered, t) = Append(past.transitions \o Delivered, t)
    <3>1. \A a, b \in Seq(Transition) : \A x \in Transition : a \o Append(b, x) = Append(a \o b, x)
      OBVIOUS
    <3> QED
      BY <1>0, <1>1, <1>5, <3>1
  <2>3. past.transitions \o Delivered \in Seq(Transition)
    BY <1>0, <1>5
  <2> QED
    BY <1>5, <2>1, <2>2, <2>3
<1>8. bus'.transitions = Push(bus.transitions, t) /\ bus.transitions \in Seq(Transition)
  <2>1. /\ bus.transitions \in Seq(Transition)
        /\ bus = [transitions |-> bus.transitions, snapshot |-> bus.snapshot]
    BY <1>0 DEF BusType
  <2>2. bus' = [transitions |-> Push(bus.transitions, t), snapshot |-> bus.snapshot]
    BY <1>2, <2>1
  <2> QED
    BY <2>1, <2>2
<1>9. LastOf(bus'.transitions, Seen', BusCap)
  <2>1. LastOf(bus.transitions, Seen, BusCap)
    BY <1>1, <1>3 DEF Held
  <2> QED
    BY <1>1, <1>7, <1>8, <2>1, PushKeepsLast
<1>10. Seen' # <<>> /\ Last(Seen') = t
  BY <1>1, <1>7 DEF Last
<1>11. stage'.begun /\ stage'.last = t /\ stage'.state = t.to
  BY <1>0, <1>1, <1>2 DEF StageType
<1>12. Held'
  BY <1>9, <1>10, <1>11 DEF Held
<1>13. InTime'
  BY <1>2, <1>3 DEF InTime
<1> QED
  BY <1>2, <1>4, <1>12, <1>13 DEF NewestInv

(* The stage begins: the transitions read at startup are replayed.         *)
LEMMA NewestStageBegins ==
  ASSUME NInv, StageBegins
  PROVE  NewestInv'
<1>0. /\ TInv /\ stage \in StageType /\ past.transitions \in Seq(Transition)
      /\ daemon.phase # "down" /\ ~stage.begun
      /\ UNCHANGED <<now, daemon, inbox, past>>
      /\ \A i, j \in At("transition") : i = j
  BY DEF NInv, HInv, TInv, TypeInv, PastType, StageBegins, NewestInv
<1>1. /\ \A i \in At("transition") : past.made # <<>> /\ inbox[i].body = Last(past.made)
      /\ InTime /\ Held
  BY <1>0 DEF NInv, NewestInv
<1> DEFINE ts == stage.transitions
           buf == PushAll(ts)
<1>2. /\ ts = past.transitions /\ Delivered = <<>>
      /\ stage.state = Inactive /\ stage.last = None
  BY <1>0, <1>1 DEF Held
<1>3. buf \in Seq(Transition) /\ LastOf(buf, past.transitions, BusCap)
  BY <1>0, <1>2, PushAllIs
<1>4. Delivered' = <<>> /\ At("transition")' = At("transition")
  BY <1>0, <1>2 DEF Delivered, At
<1>5. Seen' = past.transitions
  BY <1>0, <1>4 DEF Seen
<1> DEFINE st == IF ts = <<>> THEN stage.state ELSE Last(ts).to
           la == IF ts = <<>> THEN stage.last ELSE Last(ts)
           s == Replay(stage)
           recs == Trim(s.records, now - Retention)
<1>6. s = [stage EXCEPT !.begun = TRUE, !.transitions = <<>>, !.state = st, !.last = la]
  BY DEF Replay
<1>7. s.state = st /\ s.last = la /\ s.begun
        /\ \A x : [s EXCEPT !.records = x].state = st /\ [s EXCEPT !.records = x].last = la
                    /\ [s EXCEPT !.records = x].begun
  <2> HIDE DEF st, la, s
  <2> QED
    BY <1>0, <1>6 DEF StageType
<1>8. stage' = [s EXCEPT !.records = recs] /\ bus'.transitions = buf
  BY DEF StageBegins, publish_snapshot
<1>9. stage'.begun /\ stage'.state = st /\ stage'.last = la
  <2> HIDE DEF s, recs, st, la
  <2> QED
    BY <1>7, <1>8
<1>10. LastOf(bus'.transitions, Seen', BusCap)
  BY <1>3, <1>5, <1>8
<1>11. Held'
  BY <1>2, <1>5, <1>9, <1>10 DEF Held
<1>12. InTime'
  BY <1>0, <1>1 DEF InTime
<1> QED
  BY <1>0, <1>1, <1>4, <1>11, <1>12 DEF NewestInv

LEMMA NewestStart ==
  ASSUME NInv, NEW r \in Run, Start(r)
  PROVE  NewestInv'
<1>0. TInv /\ TypeInv /\ now \in Nat /\ store \in Seq(Row)
  BY Limits DEF NInv, HInv, TInv, TypeInv
<1>1. /\ Sent = store /\ inbox' = <<>> /\ bus = NoBus
      /\ UNCHANGED <<now, bus>>
  BY <1>0, StartIs
<1>2. PICK recs \in Seq(Record), trans \in Seq(Transition) :
        /\ stage' = [NoStage EXCEPT !.records = recs, !.transitions = trans]
        /\ past'.transitions = trans /\ past'.made = <<>>
        /\ trans = <<>> \/ trans \in FetchTransitions(r)
  BY <1>0, StartIs
<1>3. At("transition")' = {}
  BY <1>1 DEF At
<1>4. ~stage'.begun /\ stage'.transitions = trans /\ stage'.state = Inactive /\ stage'.last = None
  BY <1>2 DEF NoStage
<1>5. Delivered' = <<>>
  <2>1. Delivered' = SubSeq(<<>>, 1, 0 - Cardinality(At("transition")'))
    BY <1>2 DEF Delivered, At
  <2>2. Cardinality(At("transition")') = 0
    BY <1>3, FS_EmptySet
  <2> QED
    BY <2>1, <2>2
<1>6. \A k \in DOMAIN trans : trans[k].at <= now
  <2>1. CASE trans = <<>>
    BY <2>1
  <2>2. CASE trans \in FetchTransitions(r)
    <3> DEFINE is == {i \in TransitionsOf(store, r) : store[i].at >= now - Retention}
    <3>1. is \subseteq DOMAIN store /\ \A i \in is : store[i] \in Transition /\ ~IsRecord(store[i])
      <4>1. \A i \in DOMAIN store : store[i] \in Row
        BY <1>0
      <4> QED
        BY <4>1, RowKinds DEF TransitionsOf
    <3>2. PICK s \in Orders(is, "at") : trans = Truncate(Reverse(s), HydrateLimit)
      BY <2>2 DEF FetchTransitions
    <3> HIDE DEF is
    <3>3. PICK p \in [1..Cardinality(is) -> is] :
            Cardinality(is) \in Nat /\ s = [k \in 1..Cardinality(is) |-> store[p[k]]]
      <4>1. store \in Seq(Row) /\ is \subseteq DOMAIN store
        BY <1>0, <3>1
      <4>2. \E p \in [1..Cardinality(is) -> is] :
               /\ Cardinality(is) \in Nat
               /\ s = [k \in 1..Cardinality(is) |-> store[p[k]]]
               /\ \A j, k \in 1..Cardinality(is) :
                     j < k => p[j] # p[k] /\ store[p[j]]["at"] <= store[p[k]]["at"]
               /\ \A i \in is : \E k \in 1..Cardinality(is) : p[k] = i
        BY <3>2, <4>1, OrdersAre
      <4> QED
        BY <4>2
    <3>4. s \in [1..Cardinality(is) -> Transition]
      BY <3>1, <3>3
    <3>5. /\ s \in Seq(Transition) /\ DOMAIN s = 1..Len(s) /\ Len(s) \in Nat
          /\ Len(s) = Cardinality(is)
      <4>1. \A n \in Nat : \A f \in [1..n -> Transition] :
               f \in Seq(Transition) /\ DOMAIN f = 1..Len(f) /\ Len(f) = n
        OBVIOUS
      <4>2. Cardinality(is) \in Nat
        BY <3>3
      <4> QED
        BY <3>4, <4>1, <4>2
    <3>6. /\ Reverse(s) \in Seq(Transition) /\ Len(Reverse(s)) = Len(s)
          /\ \A k \in 1..Len(s) : Reverse(s)[k] = s[Len(s) - k + 1]
      BY <3>5, ReverseIs
    <3>7. /\ Len(trans) = (IF Len(s) <= HydrateLimit THEN Len(s) ELSE HydrateLimit)
          /\ \A k \in 1..Len(trans) : trans[k] = Reverse(s)[k]
      <4>1. HydrateLimit \in Nat
        BY Limits
      <4> QED
        BY <3>2, <3>6, <4>1, TruncateIs
    <3>8. \A k \in 1..Len(s) : s[k].at <= now
      <4>1. \A i \in is : store[i].at <= now
        BY <1>1, <3>1 DEF NInv, HInv, HistoryInv, Chronicle
      <4> QED
        BY <3>3, <3>5, <4>1
    <3>9. \A k \in 1..Len(trans) : k \in 1..Len(s) /\ Len(s) - k + 1 \in 1..Len(s)
      BY <3>5, <3>7, Limits
    <3>10. DOMAIN trans = 1..Len(trans)
      OBVIOUS
    <3> QED
      BY <3>6, <3>7, <3>8, <3>9, <3>10
  <2> QED
    BY <1>2, <2>1, <2>2
<1>7. InTime'
  BY <1>1, <1>2, <1>6 DEF InTime
<1>8. Held'
  BY <1>1, <1>2, <1>4, <1>5 DEF Held
<1> QED
  BY <1>3, <1>7, <1>8 DEF NewestInv

LEMMA NewestTick ==
  ASSUME NInv, Tick \/ UNCHANGED vars
  PROVE  NewestInv'
<1>1. UNCHANGED <<daemon, inbox, stage, bus, past>>
  BY DEF Tick, vars
<1>2. /\ now \in Nat /\ now' \in Nat /\ now <= now'
      /\ past.made \in Seq(Transition) /\ past.transitions \in Seq(Transition)
  BY Limits DEF NInv, HInv, TInv, TypeInv, PastType, Tick, vars
<1>3. At("transition")' = At("transition") /\ Delivered' = Delivered /\ Seen' = Seen
  BY <1>1 DEF At, Delivered, Seen
<1>4. Held => Held'
  BY <1>1, <1>3 DEF Held
<1>5. InTime => InTime'
  <2>1. \A x \in Transition : x.at <= now => x.at <= now'
    BY <1>2, RowFields
  <2>2. /\ \A i \in DOMAIN past.made : past.made[i] \in Transition
        /\ \A i \in DOMAIN past.transitions : past.transitions[i] \in Transition
    BY <1>2
  <2> QED
    BY <1>1, <2>1, <2>2 DEF InTime
<1> QED
  BY <1>1, <1>3, <1>4, <1>5 DEF NInv, NewestInv

(* What a step that publishes shows.                                       *)
LEMMA PublishedState ==
  ASSUME TInv, StageBegins \/ PublishNow \/ HandleShutdown \/ HandleComplete
  PROVE  /\ \/ bus' = bus
            \/ /\ bus'.snapshot.state = stage'.state /\ bus'.snapshot.last = stage'.last
               /\ bus'.snapshot.recent = recent_transitions(bus'.transitions, RecentLimit)
         /\ ~StageBegins =>
               /\ stage.begun /\ stage'.begun
               /\ stage'.transitions = stage.transitions
               /\ stage'.state = stage.state /\ stage'.last = stage.last
               /\ bus'.transitions = bus.transitions
               /\ \E k \in {"publish", "shutdown", "complete"} : Received(k)
<1>0. /\ now \in 0..MaxTime /\ stage \in StageType
      /\ bus.transitions \in Seq(Transition) /\ Len(bus.transitions) <= BusCap
  BY DEF TInv, TypeInv, BusType
<1>1. CASE StageBegins
  <2> DEFINE s == Replay(stage)
             recs == Trim(s.records, now - Retention)
             recent == recent_transitions(PushAll(stage.transitions), RecentLimit)
             apps == build_app_tree(aggregate_activities_since(recs, now - Retention))
  <2>1. /\ stage' = [s EXCEPT !.records = recs]
        /\ bus' = [transitions |-> PushAll(stage.transitions),
                   snapshot |-> [at |-> now, state |-> s.state, last |-> s.last,
                                 recent |-> recent, records |-> recs, apps |-> apps]]
    BY <1>1 DEF StageBegins, publish_snapshot
  <2>2. \A x : [s EXCEPT !.records = x].state = s.state /\ [s EXCEPT !.records = x].last = s.last
    BY <1>0 DEF Replay, StageType
  <2> HIDE DEF s, recs, apps
  <2>3. stage'.state = s.state /\ stage'.last = s.last
    BY <2>1, <2>2
  <2>4. /\ bus'.snapshot.state = s.state /\ bus'.snapshot.last = s.last
        /\ bus'.snapshot.recent = recent /\ bus'.transitions = PushAll(stage.transitions)
    BY <2>1
  <2> QED
    BY <1>1, <2>3, <2>4
<1>2. ASSUME NEW s \in StageType, s.begun = stage.begun, s.transitions = stage.transitions,
             s.state = stage.state, s.last = stage.last,
             publish_snapshot(s, bus.transitions)
      PROVE  /\ stage'.begun = stage.begun /\ stage'.transitions = stage.transitions
             /\ stage'.state = stage.state /\ stage'.last = stage.last
             /\ bus'.transitions = bus.transitions
             /\ bus'.snapshot.state = stage'.state /\ bus'.snapshot.last = stage'.last
             /\ bus'.snapshot.recent = recent_transitions(bus'.transitions, RecentLimit)
  <2>1. /\ stage' = [s EXCEPT !.records = stage'.records]
        /\ bus'.transitions = bus.transitions
        /\ bus'.snapshot.state = s.state /\ bus'.snapshot.last = s.last
        /\ bus'.snapshot.recent = recent_transitions(bus.transitions, RecentLimit)
    BY <1>0, <1>2, PublishIs
  <2>2. \A x : /\ [s EXCEPT !.records = x].state = s.state /\ [s EXCEPT !.records = x].last = s.last
               /\ [s EXCEPT !.records = x].begun = s.begun
               /\ [s EXCEPT !.records = x].transitions = s.transitions
    BY DEF StageType
  <2>3. /\ stage'.state = s.state /\ stage'.last = s.last /\ stage'.begun = s.begun
        /\ stage'.transitions = s.transitions
    BY <2>1, <2>2
  <2> QED
    BY <1>2, <2>1, <2>3
<1>3. CASE PublishNow
  <2>1. Received("publish") /\ publish_snapshot(stage, bus.transitions)
    BY <1>3 DEF PublishNow
  <2>2. stage.begun
    BY <2>1 DEF Received
  <2>3. /\ stage'.begun = stage.begun /\ stage'.transitions = stage.transitions
        /\ stage'.state = stage.state /\ stage'.last = stage.last
        /\ bus'.transitions = bus.transitions
        /\ bus'.snapshot.state = stage'.state /\ bus'.snapshot.last = stage'.last
        /\ bus'.snapshot.recent = recent_transitions(bus'.transitions, RecentLimit)
    BY <1>0, <1>2, <2>1
  <2> QED
    BY <2>1, <2>2, <2>3
<1>4. ASSUME NEW k \in {"shutdown", "complete"}, NEW s \in StageType, Finish(k, s),
             s.begun = stage.begun, s.transitions = stage.transitions,
             s.state = stage.state, s.last = stage.last
      PROVE  /\ \/ bus' = bus
                \/ /\ bus'.snapshot.state = stage'.state /\ bus'.snapshot.last = stage'.last
                   /\ bus'.snapshot.recent = recent_transitions(bus'.transitions, RecentLimit)
             /\ stage.begun /\ stage'.begun
             /\ stage'.transitions = stage.transitions
             /\ stage'.state = stage.state /\ stage'.last = stage.last
             /\ bus'.transitions = bus.transitions
             /\ Received(k)
  <2>1. Received(k) /\ stage.begun
    BY <1>4 DEF Finish, Received
  <2>2. CASE s.shutdown /\ s.complete
    <3>1. publish_snapshot(s, bus.transitions)
      BY <1>4, <2>2 DEF Finish
    <3>2. /\ stage'.begun = stage.begun /\ stage'.transitions = stage.transitions
          /\ stage'.state = stage.state /\ stage'.last = stage.last
          /\ bus'.transitions = bus.transitions
          /\ bus'.snapshot.state = stage'.state /\ bus'.snapshot.last = stage'.last
          /\ bus'.snapshot.recent = recent_transitions(bus'.transitions, RecentLimit)
      BY <1>2, <1>4, <3>1
    <3> QED
      BY <2>1, <3>2
  <2>3. CASE ~(s.shutdown /\ s.complete)
    <3>1. stage' = s /\ bus' = bus
      BY <1>4, <2>3 DEF Finish
    <3> QED
      BY <1>4, <2>1, <3>1
  <2> QED
    BY <2>2, <2>3
<1>5. CASE HandleShutdown
  <2> DEFINE s == [stage EXCEPT !.shutdown = TRUE]
  <2>1. /\ s \in StageType /\ Finish("shutdown", s)
        /\ s.begun = stage.begun /\ s.transitions = stage.transitions
        /\ s.state = stage.state /\ s.last = stage.last
    BY <1>0, <1>5 DEF StageType, HandleShutdown
  <2> HIDE DEF s
  <2> QED
    BY <1>4, <2>1
<1>6. CASE HandleComplete
  <2> DEFINE s == [stage EXCEPT !.complete = TRUE]
  <2>1. /\ s \in StageType /\ Finish("complete", s)
        /\ s.begun = stage.begun /\ s.transitions = stage.transitions
        /\ s.state = stage.state /\ s.last = stage.last
    BY <1>0, <1>6 DEF StageType, HandleComplete
  <2> HIDE DEF s
  <2> QED
    BY <1>4, <2>1
<1> QED
  BY <1>1, <1>3, <1>5, <1>6

LEMMA NewestNext ==
  ASSUME NInv, [Next]_vars
  PROVE  NInv'
<1>0. TInv /\ HInv'
  BY HistoryNext DEF NInv, HInv
<1> SUFFICES NewestInv'
  BY <1>0 DEF NInv
<1>1. CASE \E r \in Run : Start(r)
  BY <1>1, NewestStart
<1>2. CASE StageBegins
  BY <1>2, NewestStageBegins
<1>3. CASE ~StageBegins /\ (PublishNow \/ HandleShutdown \/ HandleComplete)
  <2>1. /\ stage.begun /\ stage'.begun
        /\ stage'.transitions = stage.transitions
        /\ stage'.state = stage.state /\ stage'.last = stage.last
        /\ bus'.transitions = bus.transitions
        /\ \E k \in {"publish", "shutdown", "complete"} : Received(k)
    BY <1>0, <1>3, PublishedState
  <2>2. daemon.phase # "down" /\ past' = past /\ now' = now
    BY <1>0, <1>3, PublishedBy
  <2>3. \E k : k # "transition" /\ Received(k)
    BY <2>1
  <2> QED
    BY <1>0, <2>1, <2>2, <2>3, NewestKept DEF NInv
<1>4. CASE \E s \in State : StateChanges(s)
  BY <1>4, NewestStateChanges
<1>5. CASE \E f \in Focus : FocusChanges(f)
  <2>1. PICK f \in Focus : FocusChanges(f)
    BY <1>5
  <2> DEFINE b == [builder EXCEPT !.focus = f]
  <2>2. Hint(b, <<Publish>>, FocusCost) /\ UNCHANGED <<daemon, past>>
    BY <2>1 DEF FocusChanges
  <2>3. <<Publish>> \in Seq(Message) /\ \A k \in 1..Len(<<Publish>>) : <<Publish>>[k].kind # "transition"
    BY MessageTypes DEF Msg, Publish
  <2> HIDE DEF b
  <2>4. At("transition")' = {}
    BY <1>0, <2>2, <2>3, HintTransitions
  <2>5. At("transition") = {} /\ daemon.phase # "down" /\ UNCHANGED <<now, stage, bus>>
    BY <2>2 DEF Hint, Quiet, At
  <2> QED
    BY <1>0, <2>2, <2>4, <2>5, NewestKept DEF NInv
<1>6. CASE Stop
  <2>1. At("transition")' = {}
    BY <1>0, <1>6, StopTransitions
  <2>2. At("transition") = {} /\ daemon.phase # "down" /\ UNCHANGED <<now, stage, bus, past>>
    BY <1>6 DEF Stop, Quiet, At
  <2> QED
    BY <1>0, <2>1, <2>2, NewestKept DEF NInv
<1>7. CASE ApplyUpdate
  BY <1>7, NewestApplyUpdate
<1>8. CASE UpdateRecords
  <2>1. Received("record") /\ UNCHANGED <<now, daemon, bus, past>>
          /\ stage' = [stage EXCEPT !.records = Append(@, Head(inbox).body)]
    BY <1>8 DEF UpdateRecords
  <2>2. daemon.phase # "down" /\ stage \in StageType
    BY <1>0, <2>1, ReceivedIs DEF TInv, TypeInv
  <2>3. /\ stage'.begun = stage.begun /\ stage'.transitions = stage.transitions
        /\ stage'.state = stage.state /\ stage'.last = stage.last
    BY <2>1, <2>2 DEF StageType
  <2> QED
    BY <1>0, <2>1, <2>2, <2>3, NewestKept DEF NInv
<1>9. CASE Commit
  <2>1. UNCHANGED <<now, daemon, inbox, stage, bus, past>>
    BY <1>9 DEF Commit
  <2>2. CASE daemon.phase # "down"
    BY <1>0, <2>1, <2>2, NewestKept DEF NInv
  <2>3. CASE daemon.phase = "down"
    BY <2>1, <2>3 DEF NInv, NewestInv, At
  <2> QED
    BY <2>2, <2>3
<1>10. CASE Exit \/ Crash
  <2>1. inbox' = <<>> /\ daemon'.phase = "down"
    BY <1>10 DEF Exit, Crash, Down, NoDaemon
  <2> QED
    BY <2>1 DEF NewestInv, At
<1>11. CASE Tick \/ UNCHANGED vars
  BY <1>11, NewestTick
<1> QED
  BY <1>1, <1>2, <1>3, <1>4, <1>5, <1>6, <1>7, <1>8, <1>9, <1>10, <1>11 DEF Next

LEMMA NewestInvariant == Spec => []NInv
<1>1. Init => NInv
  <2> SUFFICES ASSUME Init PROVE NewestInv
    BY TypesInit, HistoryInit DEF NInv, HInv
  <2> QED
    BY DEF Init, NewestInv, At, NoDaemon
<1>2. NInv /\ [Next]_vars => NInv'
  BY NewestNext
<1> QED
  BY <1>1, <1>2, PTL DEF Spec

(* The recent transitions of a snapshot: the last ones seen, newest first. *)
LEMMA RecentIs ==
  ASSUME NEW buf \in Seq(Transition), NEW seen \in Seq(Transition), LastOf(buf, seen, BusCap)
  PROVE  LET recent == recent_transitions(buf, RecentLimit)
         IN  /\ recent \in Seq(Transition)
             /\ \A i \in DOMAIN recent :
                   Len(seen) - i + 1 \in DOMAIN seen /\ recent[i] = seen[Len(seen) - i + 1]
             /\ seen # <<>> => 1 \in DOMAIN recent
<1> DEFINE recent == recent_transitions(buf, RecentLimit)
<1>0. /\ BusCap \in Nat /\ BusCap >= 1 /\ RecentLimit \in Nat /\ RecentLimit >= 1
      /\ Len(buf) \in Nat /\ Len(seen) \in Nat /\ DOMAIN seen = 1..Len(seen)
  BY Limits
<1>1. /\ Len(buf) = (IF Len(seen) <= BusCap THEN Len(seen) ELSE BusCap)
      /\ \A k \in 1..Len(buf) : buf[k] = seen[Len(seen) - Len(buf) + k]
  BY DEF LastOf
<1>2. /\ Reverse(buf) \in Seq(Transition) /\ Len(Reverse(buf)) = Len(buf)
      /\ \A k \in 1..Len(buf) : Reverse(buf)[k] = buf[Len(buf) - k + 1]
  BY ReverseIs
<1>3. /\ recent \in Seq(Transition)
      /\ Len(recent) = (IF Len(buf) <= RecentLimit THEN Len(buf) ELSE RecentLimit)
      /\ \A k \in 1..Len(recent) : recent[k] = Reverse(buf)[k]
  BY <1>0, <1>2, TruncateIs DEF recent_transitions
<1> HIDE DEF recent
<1>4. DOMAIN recent = 1..Len(recent)
  BY <1>3
<1>5. ASSUME NEW i \in DOMAIN recent
      PROVE  Len(seen) - i + 1 \in DOMAIN seen /\ recent[i] = seen[Len(seen) - i + 1]
  <2>1. i \in 1..Len(buf) /\ Len(buf) - i + 1 \in 1..Len(buf)
    BY <1>0, <1>3, <1>4
  <2>2. recent[i] = seen[Len(seen) - Len(buf) + (Len(buf) - i + 1)]
    BY <1>1, <1>2, <1>3, <1>4, <2>1
  <2>3. Len(seen) - Len(buf) + (Len(buf) - i + 1) = Len(seen) - i + 1
    BY <1>0, <2>1
  <2>4. Len(seen) - i + 1 \in DOMAIN seen
    BY <1>0, <1>1, <2>1
  <2> QED
    BY <2>2, <2>3, <2>4
<1>6. seen # <<>> => 1 \in DOMAIN recent
  <2> SUFFICES ASSUME seen # <<>> PROVE 1 \in DOMAIN recent
    OBVIOUS
  <2>1. Len(seen) >= 1
    <3>1. \A q \in Seq(Transition) : q # <<>> => Len(q) >= 1
      OBVIOUS
    <3> QED
      BY <3>1
  <2>2. Len(buf) >= 1
    BY <1>0, <1>1, <2>1
  <2>3. Len(recent) \in Nat /\ Len(recent) >= 1
    BY <1>0, <1>3, <2>2
  <2> QED
    BY <1>4, <2>3
<1> QED
  BY <1>3, <1>5, <1>6 DEF recent

(* What the stage has seen, place by place.                                *)
LEMMA SeenIs ==
  ASSUME TInv, NewestInv, daemon.phase # "down"
  PROVE  /\ Seen \in Seq(Transition) /\ Delivered \in Seq(Transition)
         /\ Range(Seen) = Known
         /\ Len(Seen) = Len(past.transitions) + Len(Delivered)
         /\ Seen = <<>> <=> Known = {}
         /\ \A k \in DOMAIN Seen :
               \/ k <= Len(past.transitions) /\ Seen[k] \in Range(past.transitions)
               \/ /\ k > Len(past.transitions)
                  /\ \A j \in DOMAIN Seen : j <= k => Seen[j].at <= Seen[k].at
<1>0. /\ past.made \in Seq(Transition) /\ past.transitions \in Seq(Transition)
      /\ InTime /\ \A i, j \in At("transition") : i = j
      /\ \A i \in At("transition") : past.made # <<>>
      /\ Len(past.transitions) \in Nat /\ Len(past.made) \in Nat
  BY DEF TInv, TypeInv, PastType, NewestInv
<1>1. /\ Delivered \in Seq(Transition) /\ Len(Delivered) <= Len(past.made)
      /\ \A k \in 1..Len(Delivered) : Delivered[k] = past.made[k]
  <2>1. Delivered = SubSeq(past.made, 1, Len(past.made) - Cardinality(At("transition")))
    BY DEF Delivered, At
  <2>2. CASE At("transition") = {}
    <3>1. Delivered = past.made
      BY <1>0, <2>1, <2>2, ButLast
    <3> QED
      BY <1>0, <3>1
  <2>3. CASE At("transition") # {}
    <3>1. PICK n : At("transition") = {n}
      <4>1. PICK n : n \in At("transition")
        BY <2>3
      <4>2. At("transition") = {n}
        BY <1>0, <4>1
      <4> QED
        BY <4>2
    <3>2. Delivered \in Seq(Transition) /\ Append(Delivered, Last(past.made)) = past.made
      <4>1. past.made # <<>>
        BY <1>0, <3>1
      <4> QED
        BY <1>0, <2>1, <3>1, <4>1, ButLast
    <3>3. \A d \in Seq(Transition) : \A x :
             /\ Len(d) <= Len(Append(d, x))
             /\ \A k \in 1..Len(d) : d[k] = Append(d, x)[k]
      OBVIOUS
    <3> QED
      BY <3>2, <3>3
  <2> QED
    BY <2>2, <2>3
<1> DEFINE n == Len(past.transitions)
           m == Len(Delivered)
<1>2. n \in Nat /\ m \in Nat /\ m <= Len(past.made)
  BY <1>0, <1>1
<1>3. /\ Seen \in Seq(Transition) /\ Len(Seen) = n + m /\ DOMAIN Seen = 1..(n + m)
      /\ \A k \in 1..n : Seen[k] = past.transitions[k]
      /\ \A k \in 1..m : Seen[n + k] = Delivered[k]
  <2>1. \A a, b \in Seq(Transition) :
           /\ a \o b \in Seq(Transition) /\ Len(a \o b) = Len(a) + Len(b)
           /\ DOMAIN (a \o b) = 1..(Len(a) + Len(b))
           /\ \A k \in 1..Len(a) : (a \o b)[k] = a[k]
           /\ \A k \in 1..Len(b) : (a \o b)[Len(a) + k] = b[k]
    OBVIOUS
  <2> QED
    BY <1>0, <1>1, <2>1 DEF Seen
<1>4. DOMAIN past.transitions = 1..n /\ DOMAIN Delivered = 1..m /\ DOMAIN past.made = 1..Len(past.made)
  BY <1>0, <1>1
<1> HIDE DEF n, m
<1>5. ASSUME NEW k \in 1..(n + m), k > n
      PROVE  k - n \in 1..m /\ k - n \in 1..Len(past.made) /\ Seen[k] = past.made[k - n]
  <2>1. k - n \in 1..m /\ n + (k - n) = k
    BY <1>2, <1>5
  <2>2. k - n \in 1..Len(past.made)
    BY <1>2, <2>1
  <2>3. Seen[k] = Delivered[k - n]
    BY <1>3, <2>1
  <2> QED
    BY <1>1, <2>1, <2>2, <2>3 DEF m
<1>6. Range(Seen) = Known
  <2>1. ASSUME NEW k \in DOMAIN Seen PROVE Seen[k] \in Known
    <3>1. CASE k <= n
      <4>1. k \in 1..n
        BY <1>2, <1>3, <3>1
      <4> QED
        BY <1>3, <1>4, <4>1 DEF Known, Range
    <3>2. CASE k > n
      <4>1. k - n \in 1..m /\ n + (k - n) = k
        BY <1>2, <1>3, <3>2
      <4> QED
        BY <1>3, <1>4, <4>1 DEF Known, Range
    <3> QED
      BY <1>2, <1>3, <3>1, <3>2
  <2>2. ASSUME NEW x \in Known PROVE x \in Range(Seen)
    <3>1. CASE \E k \in 1..n : x = past.transitions[k]
      <4>1. PICK k \in 1..n : x = past.transitions[k]
        BY <3>1
      <4>2. k \in DOMAIN Seen
        BY <1>2, <1>3
      <4> QED
        BY <1>3, <4>1, <4>2 DEF Range
    <3>2. CASE \E k \in 1..m : x = Delivered[k]
      <4>1. PICK k \in 1..m : x = Delivered[k]
        BY <3>2
      <4>2. n + k \in DOMAIN Seen
        BY <1>2, <1>3
      <4> QED
        BY <1>3, <4>1, <4>2 DEF Range
    <3> QED
      BY <1>4, <3>1, <3>2 DEF Known, Range
  <2> QED
    BY <2>1, <2>2 DEF Range
<1>7. Seen = <<>> <=> Known = {}
  <2>1. Seen = <<>> <=> DOMAIN Seen = {}
    BY <1>3
  <2>2. DOMAIN Seen = {} <=> Range(Seen) = {}
    BY DEF Range
  <2> QED
    BY <1>6, <2>1, <2>2
<1>8. ASSUME NEW k \in DOMAIN Seen
      PROVE  \/ k <= n /\ Seen[k] \in Range(past.transitions)
             \/ /\ k > n
                /\ \A j \in DOMAIN Seen : j <= k => Seen[j].at <= Seen[k].at
  <2>1. CASE k <= n
    <3>1. k \in 1..n
      BY <1>2, <1>3, <2>1
    <3> QED
      BY <1>3, <1>4, <2>1, <3>1 DEF Range
  <2>2. CASE k > n
    <3>1. k - n \in 1..Len(past.made) /\ Seen[k] = past.made[k - n]
      BY <1>3, <1>5, <2>2
    <3>2. ASSUME NEW j \in DOMAIN Seen, j <= k PROVE Seen[j].at <= Seen[k].at
      <4>1. CASE j <= n
        <5>1. j \in 1..n /\ Seen[j] = past.transitions[j]
          BY <1>2, <1>3, <4>1
        <5> QED
          BY <1>0, <1>4, <3>1, <5>1 DEF InTime
      <4>2. CASE j > n
        <5>1. j - n \in 1..Len(past.made) /\ Seen[j] = past.made[j - n]
          BY <1>3, <1>5, <4>2
        <5>2. CASE j = k
          <6>1. Seen[k] \in Transition
            BY <1>3
          <6>2. Seen[k].at \in Nat
            BY <6>1, RowFields
          <6> QED
            BY <5>2, <6>2
        <5>3. CASE j # k
          <6>1. j - n < k - n
            BY <1>2, <1>3, <3>2, <5>3
          <6> QED
            BY <1>0, <1>4, <3>1, <5>1, <6>1 DEF InTime
        <5> QED
          BY <5>2, <5>3
      <4> QED
        BY <1>2, <1>3, <4>1, <4>2
    <3> QED
      BY <2>2, <3>2
  <2> QED
    BY <1>2, <1>3, <2>1, <2>2
<1> QED
  BY <1>1, <1>3, <1>6, <1>7, <1>8 DEF n, m

(* A snapshot that says what the stage and the bus hold shows the newest.  *)
ShownNow ==
  /\ daemon.phase # "down" /\ stage.begun
  /\ bus.snapshot.state = stage.state /\ bus.snapshot.last = stage.last
  /\ bus.snapshot.recent = recent_transitions(bus.transitions, RecentLimit)

LEMMA NewestShown ==
  ASSUME NInv, ShownNow
  PROVE  ShowsNewest
<1> DEFINE recent == recent_transitions(bus.transitions, RecentLimit)
           n == Len(past.transitions)
           top == Len(Seen)
<1>0. /\ TInv /\ NewestInv /\ daemon.phase # "down" /\ stage.begun
      /\ bus.transitions \in Seq(Transition) /\ Held /\ n \in Nat
  BY DEF NInv, HInv, TInv, TypeInv, PastType, BusType, NewestInv, ShownNow
<1>1. /\ bus.snapshot.state = stage.state /\ bus.snapshot.last = stage.last
      /\ bus.snapshot.recent = recent
  BY DEF ShownNow
<1>2. /\ Seen \in Seq(Transition) /\ Delivered \in Seq(Transition)
      /\ Range(Seen) = Known
      /\ top = n + Len(Delivered)
      /\ Seen = <<>> <=> Known = {}
      /\ \A k \in DOMAIN Seen :
            \/ k <= n /\ Seen[k] \in Range(past.transitions)
            \/ /\ k > n
               /\ \A j \in DOMAIN Seen : j <= k => Seen[j].at <= Seen[k].at
  BY <1>0, SeenIs
<1>3. /\ LastOf(bus.transitions, Seen, BusCap)
      /\ Seen = <<>> => stage.last = None /\ stage.state = Inactive
      /\ Seen # <<>> => stage.last = Last(Seen) /\ stage.state = Last(Seen).to
  BY <1>0 DEF Held
<1>4. /\ recent \in Seq(Transition)
      /\ \A i \in DOMAIN recent : top - i + 1 \in DOMAIN Seen /\ recent[i] = Seen[top - i + 1]
      /\ Seen # <<>> => 1 \in DOMAIN recent
  BY <1>0, <1>2, <1>3, RecentIs
<1>5. top \in Nat /\ DOMAIN Seen = 1..top /\ Len(Delivered) \in Nat
  BY <1>2
<1>6. ASSUME Seen # <<>>
      PROVE  top >= 1 /\ top \in DOMAIN Seen /\ Last(Seen) = Seen[top] /\ Seen[top] \in Transition
  <2>1. \A q \in Seq(Transition) :
           q # <<>> => Len(q) >= 1 /\ Len(q) \in DOMAIN q /\ q[Len(q)] \in Transition
    OBVIOUS
  <2> QED
    BY <1>2, <1>6, <2>1 DEF Last
<1> HIDE DEF recent, n, top
<1>7. Known = {} => bus.snapshot.last = None /\ bus.snapshot.state = Inactive
  BY <1>1, <1>2, <1>3
<1>8. ASSUME bus.snapshot.last # None
      PROVE  /\ bus.snapshot.state = bus.snapshot.last.to
             /\ bus.snapshot.last \in Range(bus.snapshot.recent)
  <2>1. Seen # <<>>
    BY <1>1, <1>3, <1>8
  <2>2. bus.snapshot.last = Seen[top] /\ bus.snapshot.state = Seen[top].to
    BY <1>1, <1>3, <1>6, <2>1
  <2>3. 1 \in DOMAIN recent /\ recent[1] = Seen[top - 1 + 1] /\ top - 1 + 1 = top
    BY <1>4, <1>5, <2>1
  <2> QED
    BY <1>1, <2>2, <2>3 DEF Range
<1>9. ASSUME Known # {}, n <= 1 \/ Delivered # <<>>
      PROVE  bus.snapshot.last # None /\ \A t \in Known : t.at <= bus.snapshot.last.at
  <2>1. Seen # <<>>
    BY <1>2, <1>9
  <2>2. bus.snapshot.last = Seen[top] /\ Seen[top] \in Transition /\ top \in DOMAIN Seen /\ top >= 1
    BY <1>1, <1>3, <1>6, <2>1
  <2>3. ASSUME NEW t \in Known PROVE t.at <= Seen[top].at
    <3>1. PICK j \in DOMAIN Seen : t = Seen[j]
      BY <1>2 DEF Range
    <3>2. j \in Nat /\ 1 <= j /\ j <= top
      BY <1>5, <3>1
    <3>3. CASE top > n
      BY <1>0, <1>2, <1>5, <2>2, <3>1, <3>2, <3>3
    <3>4. CASE top <= n
      <4>1. Len(Delivered) = 0
        BY <1>0, <1>2, <1>5, <3>4
      <4>2. Delivered = <<>>
        BY <1>2, <4>1
      <4>3. n <= 1
        BY <1>9, <4>2
      <4>4. j = top
        BY <1>0, <1>5, <2>2, <3>2, <3>4, <4>3
      <4>5. Seen[top].at \in Nat
        BY <2>2, RowFields
      <4> QED
        BY <3>1, <4>4, <4>5
    <3> QED
      BY <1>0, <1>5, <3>3, <3>4
  <2> QED
    BY <2>2, <2>3, NoneAssumption
<1>10. ASSUME NEW i \in DOMAIN recent, NEW j \in DOMAIN recent, i < j, recent[i].at < recent[j].at
       PROVE  recent[i] \in Range(past.transitions) /\ recent[j] \in Range(past.transitions)
  <2>1. /\ top - i + 1 \in DOMAIN Seen /\ recent[i] = Seen[top - i + 1]
        /\ top - j + 1 \in DOMAIN Seen /\ recent[j] = Seen[top - j + 1]
    BY <1>4, <1>10
  <2>2. i \in Nat /\ j \in Nat /\ top - j + 1 <= top - i + 1 /\ top - i + 1 \in Nat /\ top - j + 1 \in Nat
    <3>1. DOMAIN recent = 1..Len(recent) /\ Len(recent) \in Nat
      BY <1>4
    <3>2. i \in Nat /\ j \in Nat
      BY <1>10, <3>1
    <3> QED
      BY <1>5, <1>10, <2>1, <3>2
  <2>3. recent[i] \in Transition /\ recent[j] \in Transition
    BY <1>4, <1>10
  <2>4. recent[i].at \in Nat /\ recent[j].at \in Nat
    BY <2>3, RowFields
  <2>5. ~(recent[j].at <= recent[i].at)
    BY <1>10, <2>4
  <2>6. top - i + 1 <= n /\ recent[i] \in Range(past.transitions)
    BY <1>2, <2>1, <2>2, <2>5
  <2>7. top - j + 1 <= n
    BY <1>0, <2>2, <2>6
  <2>8. ~(top - j + 1 > n)
    BY <1>0, <2>2, <2>7
  <2> QED
    BY <1>2, <2>1, <2>6, <2>8
<1>11. \A i, j \in DOMAIN bus.snapshot.recent :
         i < j /\ bus.snapshot.recent[i].at < bus.snapshot.recent[j].at
           => {bus.snapshot.recent[i], bus.snapshot.recent[j]} \subseteq Range(past.transitions)
  BY <1>1, <1>10
<1> QED
  BY <1>7, <1>8, <1>9, <1>11 DEF ShowsNewest, n

(* Every snapshot the stage publishes shows the newest transition it has   *)
(* got as its state and its last one, and lists the recent ones newest     *)
(* first; only hydrated transitions, replayed in the order the query       *)
(* returns them, are shown and listed the other way round (apply_update,   *)
(* push_transition, the replay in spawn_snapshot_stage).                   *)
THEOREM NewestPublished == Spec => PublishesNewest
<1>1. Spec => [](ShownNow => ShowsNewest)
  <2>1. NInv => (ShownNow => ShowsNewest)
    BY NewestShown
  <2> QED
    BY <2>1, NewestInvariant, PTL
<1>2. NInv /\ (ShownNow => ShowsNewest)' /\ [Next]_vars
        => [daemon'.phase # "down" /\ bus'.snapshot # bus.snapshot /\ stage'.begun
              => ShowsNewest']_vars
  <2> SUFFICES ASSUME NInv, (ShownNow => ShowsNewest)', [Next]_vars, daemon'.phase # "down",
                      bus'.snapshot # bus.snapshot, stage'.begun
               PROVE  ShowsNewest'
    OBVIOUS
  <2>0. TInv
    BY DEF NInv, HInv
  <2>1. StageBegins \/ PublishNow \/ HandleShutdown \/ HandleComplete
    BY <2>0, SnapshotKept
  <2>2. /\ bus'.snapshot.state = stage'.state /\ bus'.snapshot.last = stage'.last
        /\ bus'.snapshot.recent = recent_transitions(bus'.transitions, RecentLimit)
    BY <2>0, <2>1, PublishedState
  <2>3. ShownNow'
    BY <2>2 DEF ShownNow, recent_transitions, Truncate
  <2> QED
    BY <2>3
<1> QED
  BY <1>1, <1>2, NewestInvariant, PTL DEF Spec, PublishesNewest

-----------------------------------------------------------------------------
(* Counting.                                                               *)

(* The values f has on a finite set are not more than its elements.        *)
LEMMA ValuesOf ==
  ASSUME NEW S, IsFiniteSet(S), NEW f, DOMAIN f = S, f = [x \in S |-> f[x]]
  PROVE  LET T == {f[x] : x \in S}
         IN  /\ IsFiniteSet(T) /\ Cardinality(T) \in Nat /\ Cardinality(T) <= Cardinality(S)
             /\ (\A x, y \in S : f[x] = f[y] => x = y) => Cardinality(T) = Cardinality(S)
<1> DEFINE T == {f[x] : x \in S}
<1>1. f \in Surjection(S, T)
  BY DEF Surjection
<1>2. (\A x, y \in S : f[x] = f[y] => x = y) => f \in Injection(S, T)
  BY <1>1 DEF Surjection, Injection, IsInjective
<1> HIDE DEF T
<1>3. /\ IsFiniteSet(T) /\ Cardinality(T) <= Cardinality(S)
      /\ Cardinality(T) = Cardinality(S) <=> f \in Injection(S, T)
  BY <1>1, FS_Surjection
<1>4. Cardinality(T) \in Nat
  BY <1>3, FS_CardinalityType
<1> QED
  BY <1>2, <1>3, <1>4 DEF T

(* A sum of cardinalities of disjoint sets counts their union.             *)
LEMMA SumCounts ==
  ASSUME NEW S, IsFiniteSet(S), NEW sets, \A i \in S : IsFiniteSet(sets[i]),
         \A i, j \in S : i # j => sets[i] \cap sets[j] = {}
  PROVE  LET all == UNION {sets[i] : i \in S}
         IN  IsFiniteSet(all) /\ SumFunction([i \in S |-> Cardinality(sets[i])]) = Cardinality(all)
<1> DEFINE All(s) == UNION {sets[i] : i \in s}
           f == [i \in S |-> Cardinality(sets[i])]
           first(s) == CHOOSE x \in s : TRUE
           G(g) == [s \in SUBSET S |-> IF s = {} THEN 0 ELSE f[first(s)] + g[s \ {first(s)}]]
           w == [s \in SUBSET S |-> Cardinality(All(s))]
           sum == CHOOSE g : g = G(g)
<1>1. SumFunction(f) = sum[S]
  BY Zenon DEF SumFunction, SumFunctionOnSet, FoldFunctionOnSet, MapThenFoldSet
<1>2. ASSUME NEW s \in SUBSET S
      PROVE  IsFiniteSet(s) /\ IsFiniteSet(All(s))
  <2>1. IsFiniteSet(s)
    BY FS_Subset
  <2> DEFINE h == [i \in s |-> sets[i]]
             T == {h[i] : i \in s}
  <2>2. IsFiniteSet(T)
    <3>1. DOMAIN h = s /\ h = [i \in s |-> h[i]]
      OBVIOUS
    <3> HIDE DEF h
    <3> QED
      BY <2>1, <3>1, ValuesOf
  <2>3. All(s) = UNION T /\ \A t \in T : IsFiniteSet(t)
    OBVIOUS
  <2> HIDE DEF T
  <2>4. IsFiniteSet(UNION T)
    BY <2>2, <2>3, FS_UNION
  <2> QED
    BY <2>1, <2>3, <2>4
<1>3. w[{}] = 0
  <2>1. All({}) = {}
    OBVIOUS
  <2> QED
    BY <2>1, FS_EmptySet
<1>4. ASSUME NEW s \in SUBSET S, NEW x \in s
      PROVE  w[s] = f[x] + w[s \ {x}]
  <2> DEFINE a == sets[x]
             b == All(s \ {x})
  <2>1. IsFiniteSet(a) /\ IsFiniteSet(b)
    BY <1>2
  <2>2. All(s) = a \cup b
    OBVIOUS
  <2>3. a \cap b = {}
    OBVIOUS
  <2>4. w[s] = Cardinality(All(s)) /\ f[x] = Cardinality(a) /\ w[s \ {x}] = Cardinality(b)
    OBVIOUS
  <2> HIDE DEF a, b, w, f, All
  <2>5. Cardinality(a \cup b) = Cardinality(a) + Cardinality(b) - Cardinality(a \cap b)
    BY <2>1, FS_Union
  <2>6. Cardinality(a) \in Nat /\ Cardinality(b) \in Nat /\ Cardinality(a \cap b) = 0
    BY <2>1, <2>3, FS_CardinalityType, FS_EmptySet
  <2> QED
    BY <2>2, <2>4, <2>5, <2>6
<1>5. w = G(w)
  <2> SUFFICES ASSUME NEW s \in SUBSET S
               PROVE  w[s] = IF s = {} THEN 0 ELSE f[first(s)] + w[s \ {first(s)}]
    <3>1. DOMAIN w = SUBSET S /\ w = [s \in SUBSET S |-> w[s]]
      OBVIOUS
    <3> HIDE DEF w, f, first
    <3> QED
      BY <3>1
  <2> HIDE DEF w, f
  <2>1. s # {} => first(s) \in s
    OBVIOUS
  <2> HIDE DEF first
  <2> QED
    BY <1>3, <1>4, <2>1
<1>6. sum = G(sum)
  <2> HIDE DEF G, w
  <2> QED
    BY <1>5
<1> HIDE DEF sum
<1>7. ASSUME NEW s \in SUBSET S
      PROVE  sum[s] = IF s = {} THEN 0 ELSE f[first(s)] + sum[s \ {first(s)}]
  <2>1. sum[s] = G(sum)[s]
    BY <1>6
  <2> HIDE DEF f, first
  <2> QED
    BY <2>1
<1> DEFINE N == {n \in Nat : \A s \in SUBSET S : Cardinality(s) = n => sum[s] = w[s]}
<1> HIDE DEF f, w, first, All
<1>8. 0 \in N
  <2> SUFFICES ASSUME NEW s \in SUBSET S, Cardinality(s) = 0 PROVE sum[s] = w[s]
    OBVIOUS
  <2>1. s = {}
    BY <1>2, FS_EmptySet
  <2> QED
    BY <1>3, <1>7, <2>1
<1>9. ASSUME NEW n \in Nat, n \in N PROVE n + 1 \in N
  <2> SUFFICES ASSUME NEW s \in SUBSET S, Cardinality(s) = n + 1 PROVE sum[s] = w[s]
    OBVIOUS
  <2>1. s # {}
    BY FS_EmptySet
  <2> DEFINE x == first(s)
  <2>2. x \in s
    BY <2>1 DEF first
  <2> HIDE DEF x
  <2>3. s \ {x} \in SUBSET S /\ Cardinality(s \ {x}) = n
    <3>1. Cardinality(s \ {x}) = Cardinality(s) - 1
      BY <1>2, <2>2, FS_RemoveElement
    <3> QED
      BY <3>1
  <2>4. sum[s \ {x}] = w[s \ {x}]
    BY <1>9, <2>3
  <2>5. sum[s] = f[x] + sum[s \ {x}]
    BY <1>7, <2>1 DEF x
  <2>6. w[s] = f[x] + w[s \ {x}]
    BY <1>4, <2>2
  <2> QED
    BY <2>4, <2>5, <2>6
<1>10. sum[S] = w[S]
  <2>1. Cardinality(S) \in Nat
    BY FS_CardinalityType
  <2>2. Cardinality(S) \in N
    <3> HIDE DEF N
    <3> QED
      BY <1>8, <1>9, <2>1, Induction
  <2> QED
    BY <2>2
<1>11. w[S] = Cardinality(All(S)) /\ IsFiniteSet(All(S))
  BY <1>2 DEF w
<1> QED
  BY <1>1, <1>10, <1>11 DEF f, All

(* A sum of one.                                                           *)
LEMMA SumOfOne ==
  ASSUME NEW x, NEW T, IsFiniteSet(T)
  PROVE  SumFunction([i \in {x} |-> Cardinality(T)]) = Cardinality(T)
<1> DEFINE S == {x}
           sets == [i \in S |-> T]
<1>1. IsFiniteSet(S)
  BY FS_Singleton
<1>2. /\ \A i \in S : IsFiniteSet(sets[i])
      /\ \A i, j \in S : i # j => sets[i] \cap sets[j] = {}
      /\ UNION {sets[i] : i \in S} = T
      /\ [i \in S |-> Cardinality(sets[i])] = [i \in S |-> Cardinality(T)]
  OBVIOUS
<1> HIDE DEF S, sets
<1>3. SumFunction([i \in S |-> Cardinality(sets[i])]) = Cardinality(UNION {sets[i] : i \in S})
  BY <1>1, <1>2, SumCounts
<1> QED
  BY <1>2, <1>3 DEF S

(* Of a finite set ordered by key, those that less than k others surpass   *)
(* are k, when there are that many.                                        *)
LEMMA TopCount ==
  ASSUME NEW S, IsFiniteSet(S), NEW key, \A v \in S : key[v] \in Int,
         \A v, u \in S : key[v] = key[u] => v = u,
         NEW k \in Nat, k <= Cardinality(S)
  PROVE  Cardinality({x \in S : Cardinality({v \in S : key[v] > key[x]}) < k}) = k
<1> DEFINE Above(x) == {v \in S : key[v] > key[x]}
           rank == [x \in S |-> Cardinality(Above(x))]
           n == Cardinality(S)
           R == 0..(n - 1)
           Top == {x \in S : rank[x] < k}
           best == [x \in Top |-> rank[x]]
<1>0. n \in Nat
  BY FS_CardinalityType
<1> HIDE DEF n
<1>1. ASSUME NEW x \in S
      PROVE  IsFiniteSet(Above(x)) /\ rank[x] \in R
  <2>1. Above(x) \in SUBSET (S \ {x})
    OBVIOUS
  <2>2. IsFiniteSet(S \ {x}) /\ Cardinality(S \ {x}) = n - 1
    BY FS_RemoveElement DEF n
  <2>3. rank[x] = Cardinality(Above(x))
    OBVIOUS
  <2> HIDE DEF Above, rank
  <2>4. IsFiniteSet(Above(x)) /\ Cardinality(Above(x)) <= n - 1
    BY <2>1, <2>2, FS_Subset
  <2>5. Cardinality(Above(x)) \in Nat
    BY <2>4, FS_CardinalityType
  <2> QED
    BY <1>0, <2>3, <2>4, <2>5
<1>2. ASSUME NEW x \in S, NEW y \in S, key[x] > key[y]
      PROVE  rank[x] < rank[y]
  <2>1. Above(x) \in SUBSET Above(y) /\ x \in Above(y) /\ x \notin Above(x)
    BY <1>2
  <2>2. rank[x] = Cardinality(Above(x)) /\ rank[y] = Cardinality(Above(y))
    OBVIOUS
  <2>3. IsFiniteSet(Above(y))
    BY <1>1
  <2> HIDE DEF Above, rank
  <2>4. rank[x] \in Int /\ rank[y] \in Int
    BY <1>0, <1>1
  <2>5. /\ Cardinality(Above(x)) <= Cardinality(Above(y))
        /\ Cardinality(Above(y)) = Cardinality(Above(x)) => Above(y) = Above(x)
    BY <2>1, <2>3, FS_Subset
  <2>6. Cardinality(Above(y)) # Cardinality(Above(x))
    BY <2>1, <2>5
  <2> QED
    BY <2>2, <2>4, <2>5, <2>6
<1>3. rank \in [S -> R]
  BY <1>1
<1>4. rank \in Injection(S, R)
  <2>1. ASSUME NEW x \in S, NEW y \in S, rank[x] = rank[y] PROVE x = y
    <3>1. ~(rank[x] < rank[y]) /\ ~(rank[y] < rank[x])
      <4>1. rank[x] \in Int
        BY <1>1
      <4> HIDE DEF rank
      <4> QED
        BY <2>1, <4>1
    <3>2. ~(key[x] > key[y]) /\ ~(key[y] > key[x])
      BY <1>2, <3>1
    <3>3. key[x] = key[y]
      BY <3>2
    <3> QED
      BY <3>3
  <2> HIDE DEF rank, R
  <2> QED
    BY <1>3, <2>1 DEF Injection, IsInjective
<1>5. rank \in Surjection(S, R)
  <2>1. IsFiniteSet(R) /\ Cardinality(R) = n
    <3>1. n - 1 \in Int /\ 0 \in Int
      BY <1>0
    <3>2. IsFiniteSet(R) /\ Cardinality(R) = IF 0 > n - 1 THEN 0 ELSE (n - 1) - 0 + 1
      BY <3>1, FS_Interval
    <3> QED
      BY <1>0, <3>2
  <2> HIDE DEF R, rank
  <2>2. Cardinality(S) = Cardinality(R)
    BY <2>1 DEF n
  <2> QED
    BY <1>4, <2>1, <2>2, FS_Injection
<1>6. \A x, y \in Top : best[x] = best[y] => x = y
  <2> HIDE DEF rank, R
  <2> QED
    BY <1>4 DEF Injection, IsInjective
<1>7. {best[x] : x \in Top} = 0..(k - 1)
  <2>1. ASSUME NEW x \in Top PROVE best[x] \in 0..(k - 1)
    <3>1. rank[x] \in R /\ rank[x] < k /\ best[x] = rank[x]
      BY <1>1
    <3> HIDE DEF rank, best
    <3> QED
      BY <1>0, <3>1
  <2>2. ASSUME NEW i \in 0..(k - 1) PROVE \E x \in Top : best[x] = i
    <3>1. i \in R
      BY <1>0 DEF n
    <3>2. PICK x \in S : rank[x] = i
      <4> HIDE DEF R, rank
      <4> QED
        BY <1>5, <3>1 DEF Surjection
    <3>3. x \in Top
      BY <3>2
    <3> QED
      BY <3>2, <3>3
  <2> HIDE DEF best, Top
  <2> QED
    BY <2>1, <2>2
<1>8. IsFiniteSet(Top)
  <2>1. Top \in SUBSET S
    OBVIOUS
  <2> HIDE DEF Top
  <2> QED
    BY <2>1, FS_Subset
<1>9. Cardinality({best[x] : x \in Top}) = Cardinality(Top)
  <2>1. DOMAIN best = Top /\ best = [x \in Top |-> best[x]]
    OBVIOUS
  <2> HIDE DEF best, Top
  <2> QED
    BY <1>6, <1>8, <2>1, ValuesOf
<1>10. Cardinality(0..(k - 1)) = k
  <2>1. k - 1 \in Int /\ 0 \in Int
    OBVIOUS
  <2>2. Cardinality(0..(k - 1)) = IF 0 > k - 1 THEN 0 ELSE (k - 1) - 0 + 1
    BY <2>1, FS_Interval
  <2> QED
    BY <2>2
<1>11. Top = {x \in S : Cardinality({v \in S : key[v] > key[x]}) < k}
  OBVIOUS
<1> QED
  BY <1>7, <1>9, <1>10, <1>11

-----------------------------------------------------------------------------
(* What a snapshot says about applications.                                *)

Recs == bus.snapshot.records
Since == bus.snapshot.at - Retention

(* A snapshot's records are over, and no two overlap.                      *)
Orderly ==
  /\ bus.snapshot.at \in Nat /\ Recs \in Seq(Record)
  /\ \A i \in DOMAIN Recs : Closed(Recs[i], bus.snapshot.at)
  /\ \A i, j \in DOMAIN Recs : i < j => Apart(Recs[i], Recs[j])

AppsInv ==
  \/ bus.snapshot = EmptySnapshot
  \/ Orderly /\ bus.snapshot.apps = build_app_tree(aggregate_activities_since(Recs, Since))

(* The seconds of the window that a record, or some records, cover.        *)
Covered(i) == {t \in Since..(bus.snapshot.at - 1) : Recs[i].start <= t /\ t < Recs[i].end}
Spent(is) == UNION {Covered(i) : i \in is}

Valid == Counted(Recs, Since)
Mine(p) == {i \in Valid : Recs[i].focus.pid = p}
OfWindow(p, w) == {i \in Mine(p) : HasWindow(Recs[i].focus) /\ Recs[i].focus.win = w}
Procs == {Recs[i].focus.pid : i \in Valid}

LEMMA MaxOfTwo ==
  ASSUME NEW a \in Int, NEW b \in Int
  PROVE  Max({a, b}) = IF a >= b THEN a ELSE b
<1>1. Max({a, b}) \in {a, b} /\ \A k \in {a, b} : Max({a, b}) >= k
  <2>1. \E x \in {a, b} : \A k \in {a, b} : x >= k
    OBVIOUS
  <2> QED
    BY <2>1 DEF Max
<1> QED
  BY <1>1

LEMMA CoveredIs ==
  ASSUME Orderly
  PROVE  /\ Valid \subseteq DOMAIN Recs /\ IsFiniteSet(Valid)
         /\ \A i \in DOMAIN Recs : IsFiniteSet(Covered(i))
         /\ \A i \in DOMAIN Recs :
               /\ Recs[i].start \in Nat /\ Recs[i].end \in Nat
               /\ Recs[i].focus # NoFocus => Recs[i].focus \in Focus
         /\ \A i \in Valid :
               /\ Recs[i].focus # NoFocus /\ Recs[i].start < Recs[i].end
               /\ Covered(i) # {} /\ Duration(Recs[i], Since) = Cardinality(Covered(i))
               /\ Recs[i].end > Since
         /\ \A i \in DOMAIN Recs \ Valid : Recs[i].focus = NoFocus \/ Covered(i) = {}
         /\ \A i, j \in DOMAIN Recs : i # j => Covered(i) \cap Covered(j) = {}
         /\ \A i, j \in DOMAIN Recs : i # j => Apart(Recs[i], Recs[j])
<1> DEFINE at == bus.snapshot.at
<1>0. at \in Nat /\ Since \in Int /\ Since <= at /\ Recs \in Seq(Record)
  BY Limits DEF Orderly, Since
<1>1. ASSUME NEW i \in DOMAIN Recs
      PROVE  /\ Recs[i].start \in Nat /\ Recs[i].end \in Nat
             /\ Recs[i].focus # NoFocus => Recs[i].focus \in Focus
             /\ Recs[i].start <= Recs[i].end /\ Recs[i].end <= at
  <2>1. Recs[i] \in Record
    BY <1>0
  <2> QED
    BY <2>1, RowFields DEF Record, Orderly, Closed
<1>2. ASSUME NEW i \in DOMAIN Recs, NEW j \in DOMAIN Recs, i # j
      PROVE  Apart(Recs[i], Recs[j])
  <2>1. i \in Nat /\ j \in Nat
    BY <1>0
  <2>2. CASE i < j
    BY <2>2 DEF Orderly
  <2>3. CASE j < i
    BY <2>3 DEF Orderly, Apart
  <2> QED
    BY <1>2, <2>1, <2>2, <2>3
<1>3. Valid \subseteq DOMAIN Recs /\ IsFiniteSet(Valid)
  <2>1. DOMAIN Recs = 1..Len(Recs) /\ Len(Recs) \in Int /\ 1 \in Int
    BY <1>0
  <2>2. IsFiniteSet(DOMAIN Recs)
    BY <2>1, FS_Interval
  <2>3. Valid \in SUBSET (DOMAIN Recs)
    BY DEF Valid, Counted
  <2> QED
    BY <2>2, <2>3, FS_Subset
<1> HIDE DEF at
<1>4. ASSUME NEW i \in DOMAIN Recs
      PROVE  /\ IsFiniteSet(Covered(i))
             /\ i \in Valid =>
                   /\ Recs[i].focus # NoFocus /\ Recs[i].start < Recs[i].end
                   /\ Covered(i) # {} /\ Duration(Recs[i], Since) = Cardinality(Covered(i))
                   /\ Recs[i].end > Since
             /\ i \notin Valid => Recs[i].focus = NoFocus \/ Covered(i) = {}
  <2> DEFINE from == IF Recs[i].start >= Since THEN Recs[i].start ELSE Since
             dur == Duration(Recs[i], Since)
  <2>1. dur = Recs[i].end - from
    <3>1. Recs[i].start \in Int /\ Since \in Int
      BY <1>0, <1>1
    <3>2. Max({Recs[i].start, Since}) = from
      BY ONLY <3>1, MaxOfTwo
    <3> QED
      BY ONLY <3>2 DEF Duration, ClipStart
  <2>2. Covered(i) = from..(Recs[i].end - 1)
    BY <1>0, <1>1 DEF Covered, at
  <2>3. from \in Int /\ Recs[i].end - 1 \in Int /\ Recs[i].end \in Int
    BY <1>0, <1>1
  <2>4. i \in Valid <=> Recs[i].focus # NoFocus /\ Recs[i].end > Since /\ dur > 0
    BY DEF Valid, Counted
  <2>5. from >= Recs[i].start /\ from >= Since
    BY <1>0, <1>1
  <2> HIDE DEF from, dur
  <2>6. /\ IsFiniteSet(Covered(i))
        /\ Cardinality(Covered(i)) = IF from > Recs[i].end - 1 THEN 0
                                     ELSE (Recs[i].end - 1) - from + 1
    BY <2>2, <2>3, FS_Interval
  <2>7. ASSUME i \in Valid
        PROVE  /\ Recs[i].focus # NoFocus /\ Recs[i].start < Recs[i].end
               /\ Covered(i) # {} /\ dur = Cardinality(Covered(i))
               /\ Recs[i].end > Since
    <3>1. dur > 0 /\ from <= Recs[i].end - 1
      BY <2>1, <2>3, <2>4, <2>7
    <3>2. from \in Covered(i)
      BY <2>2, <2>3, <3>1
    <3>3. dur = Cardinality(Covered(i))
      BY <2>1, <2>3, <2>6, <3>1
    <3>4. Recs[i].start < Recs[i].end
      BY <1>1, <2>3, <2>5, <3>1
    <3> QED
      BY <2>4, <2>7, <3>2, <3>3, <3>4
  <2>8. ASSUME i \notin Valid, Recs[i].focus # NoFocus
        PROVE  Covered(i) = {}
    <3>1. ~(Recs[i].end > Since) \/ ~(dur > 0)
      BY <2>4, <2>8
    <3>2. from > Recs[i].end - 1
      BY <1>0, <2>1, <2>3, <2>5, <3>1
    <3> QED
      BY <2>2, <2>3, <3>2
  <2> QED
    BY <2>6, <2>7, <2>8 DEF dur
<1>5. ASSUME NEW i \in DOMAIN Recs, NEW j \in DOMAIN Recs, i # j
      PROVE  Covered(i) \cap Covered(j) = {}
  <2> SUFFICES ASSUME NEW t \in Int, t \in Covered(i), t \in Covered(j) PROVE FALSE
    BY <1>0 DEF Covered
  <2>1. Recs[i].start <= t /\ t < Recs[i].end /\ Recs[j].start <= t /\ t < Recs[j].end
    BY DEF Covered
  <2> QED
    BY <1>1, <1>2, <1>5, <2>1 DEF Apart
<1> QED
  BY <1>1, <1>2, <1>3, <1>4, <1>5

(* Durations add up to the seconds covered.                                *)
LEMMA TotalIs ==
  ASSUME Orderly, NEW is, is \subseteq Valid
  PROVE  /\ IsFiniteSet(Spent(is)) /\ Cardinality(Spent(is)) \in Nat
         /\ Total(Recs, Since, is) = Cardinality(Spent(is))
         /\ Cardinality(Spent(is)) > 0 <=> is # {}
<1> DEFINE sets == [i \in is |-> Covered(i)]
           all == UNION {sets[i] : i \in is}
<1>1. IsFiniteSet(is)
  BY CoveredIs, FS_Subset
<1>2. /\ \A i \in is : IsFiniteSet(sets[i])
      /\ \A i, j \in is : i # j => sets[i] \cap sets[j] = {}
  BY CoveredIs
<1>3. [i \in is |-> Duration(Recs[i], Since)] = [i \in is |-> Cardinality(sets[i])]
  BY CoveredIs
<1>4. all = Spent(is)
  BY DEF Spent
<1> HIDE DEF sets
<1>5. IsFiniteSet(all) /\ SumFunction([i \in is |-> Cardinality(sets[i])]) = Cardinality(all)
  BY <1>1, <1>2, SumCounts
<1> HIDE DEF all
<1>6. Cardinality(all) \in Nat /\ (Cardinality(all) = 0 <=> all = {})
  BY <1>5, FS_CardinalityType, FS_EmptySet
<1>7. Spent(is) = {} <=> is = {}
  BY CoveredIs DEF Spent
<1> QED
  BY <1>3, <1>4, <1>5, <1>6, <1>7 DEF Total

(* What the time of the property is.                                       *)
Used(p) == Seconds(bus.snapshot, LAMBDA f : f.pid = p)
Time(p, w) == Seconds(bus.snapshot, LAMBDA f : f.pid = p /\ HasWindow(f) /\ f.win = w)

LEMMA SecondsAre ==
  ASSUME Orderly, NEW F
  PROVE  {t \in Since..(bus.snapshot.at - 1) :
            \E x \in Range(Recs) :
               x.focus # NoFocus /\ x.focus \in F /\ x.start <= t /\ t < x.end}
           = Spent({i \in Valid : Recs[i].focus \in F})
<1> DEFINE is == {i \in Valid : Recs[i].focus \in F}
<1>1. ASSUME NEW t \in Since..(bus.snapshot.at - 1), NEW i \in DOMAIN Recs,
             Recs[i].focus # NoFocus, Recs[i].focus \in F, Recs[i].start <= t, t < Recs[i].end
      PROVE  t \in Spent(is)
  <2>1. t \in Covered(i)
    BY <1>1 DEF Covered
  <2>2. i \in is
    BY <1>1, <2>1, CoveredIs
  <2> QED
    BY <2>1, <2>2 DEF Spent
<1>2. ASSUME NEW t, t \in Spent(is)
      PROVE  /\ t \in Since..(bus.snapshot.at - 1)
             /\ \E x \in Range(Recs) :
                   x.focus # NoFocus /\ x.focus \in F /\ x.start <= t /\ t < x.end
  <2>1. PICK i \in is : t \in Covered(i)
    BY <1>2 DEF Spent
  <2>2. i \in DOMAIN Recs /\ Recs[i].focus # NoFocus /\ Recs[i].focus \in F
    BY <2>1, CoveredIs
  <2> QED
    BY <2>1, <2>2 DEF Covered, Range
<1> HIDE DEF is
<1>3. Range(Recs) = {Recs[i] : i \in DOMAIN Recs}
  BY DEF Range
<1> QED
  BY <1>1, <1>2, <1>3 DEF is

LEMMA UsedIs ==
  ASSUME Orderly, NEW p
  PROVE  Used(p) = Cardinality(Spent(Mine(p)))
<1> DEFINE F == {f \in Focus : f.pid = p}
<1>1. \A x \in Range(Recs) : x.focus # NoFocus => x.focus \in Focus
  BY CoveredIs DEF Range
<1>2. Used(p) = Cardinality({t \in Since..(bus.snapshot.at - 1) :
                   \E x \in Range(Recs) :
                      x.focus # NoFocus /\ x.focus.pid = p /\ x.start <= t /\ t < x.end})
  BY DEF Used, Seconds, Since, Recs
<1>3. {t \in Since..(bus.snapshot.at - 1) :
          \E x \in Range(Recs) :
             x.focus # NoFocus /\ x.focus.pid = p /\ x.start <= t /\ t < x.end}
        = {t \in Since..(bus.snapshot.at - 1) :
             \E x \in Range(Recs) :
                x.focus # NoFocus /\ x.focus \in F /\ x.start <= t /\ t < x.end}
  BY <1>1
<1>4. Mine(p) = {i \in Valid : Recs[i].focus \in F}
  BY CoveredIs DEF Mine
<1> HIDE DEF F
<1> QED
  BY <1>2, <1>3, <1>4, SecondsAre

LEMMA TimeIs ==
  ASSUME Orderly, NEW p, NEW w
  PROVE  Time(p, w) = Cardinality(Spent(OfWindow(p, w)))
<1> DEFINE F == {f \in Focus : f.pid = p /\ HasWindow(f) /\ f.win = w}
<1>1. \A x \in Range(Recs) : x.focus # NoFocus => x.focus \in Focus
  BY CoveredIs DEF Range
<1>2. Time(p, w) = Cardinality({t \in Since..(bus.snapshot.at - 1) :
                      \E x \in Range(Recs) :
                         /\ x.focus # NoFocus
                         /\ x.focus.pid = p /\ HasWindow(x.focus) /\ x.focus.win = w
                         /\ x.start <= t /\ t < x.end})
  BY DEF Time, Seconds, Since, Recs
<1>3. {t \in Since..(bus.snapshot.at - 1) :
          \E x \in Range(Recs) :
             /\ x.focus # NoFocus
             /\ x.focus.pid = p /\ HasWindow(x.focus) /\ x.focus.win = w
             /\ x.start <= t /\ t < x.end}
        = {t \in Since..(bus.snapshot.at - 1) :
             \E x \in Range(Recs) :
                x.focus # NoFocus /\ x.focus \in F /\ x.start <= t /\ t < x.end}
  BY <1>1
<1>4. OfWindow(p, w) = {i \in Valid : Recs[i].focus \in F}
  BY CoveredIs DEF OfWindow, Mine
<1> HIDE DEF F
<1> QED
  BY <1>2, <1>3, <1>4, SecondsAre

(* The entry of a process before the tree is built.                        *)
Ids(p) == {Recs[i].focus.win : i \in {j \in Mine(p) : HasWindow(Recs[j].focus)}}
Windows(p) == [w \in Ids(p) |-> WindowActivity(Recs, Since, OfWindow(p, w))]
Temporal(ws) == TemporalGroups(ws, Lane(ws))
Groups(ws) == EphemeralGroups(ws) \cup Temporal(ws)
Single(ws) == LruTrim(ws, Lane(ws) \ UNION Temporal(ws))
Agg(p) == Aggregated(Recs, Since, p)

LEMMA AggIs ==
  ASSUME Orderly, NEW p \in Procs
  PROVE  /\ Mine(p) # {} /\ Mine(p) \subseteq Valid
         /\ Agg(p).pid = p
         /\ Agg(p).total = Cardinality(Spent(Mine(p))) /\ Agg(p).total = Used(p)
         /\ Agg(p).total \in Nat /\ Agg(p).total > 0
         /\ \A f \in Focus : f.pid = p => Agg(p).app = f.app
         /\ Agg(p).activity = Windows(p)
         /\ Agg(p).windows = Single(Windows(p)) /\ Agg(p).groups = Groups(Windows(p))
<1>1. Mine(p) # {} /\ Mine(p) \subseteq Valid
  BY DEF Mine, Procs
<1>2. /\ Agg(p).app = Recs[Min(Mine(p))].focus.app
      /\ Agg(p).pid = p
      /\ Agg(p).total = Total(Recs, Since, Mine(p))
      /\ Agg(p).activity = Windows(p)
      /\ Agg(p).windows = Single(Windows(p)) /\ Agg(p).groups = Groups(Windows(p))
  BY DEF Agg, Aggregated, Windows, Ids, Mine, OfWindow, Valid, Single, Groups, Temporal
<1>3. /\ Agg(p).total = Cardinality(Spent(Mine(p))) /\ Agg(p).total \in Nat
      /\ Agg(p).total > 0
  <2>1. /\ Cardinality(Spent(Mine(p))) \in Nat
        /\ Total(Recs, Since, Mine(p)) = Cardinality(Spent(Mine(p)))
        /\ Cardinality(Spent(Mine(p))) > 0
    BY <1>1, TotalIs
  <2> QED
    BY <1>2, <2>1
<1>4. Agg(p).total = Used(p)
  BY <1>3, UsedIs
<1>5. \A f \in Focus : f.pid = p => Agg(p).app = f.app
  <2>1. Mine(p) \subseteq Nat
    BY <1>1, CoveredIs DEF Orderly
  <2>2. Min(Mine(p)) \in Mine(p)
    BY <1>1, <2>1, MinIs
  <2> DEFINE i == Min(Mine(p))
  <2> HIDE DEF i
  <2>3. i \in Valid /\ Recs[i].focus.pid = p
    BY <2>2 DEF i, Mine
  <2>4. Recs[i].focus \in Focus
    BY <2>3, CoveredIs
  <2>5. Agg(p).app = Recs[i].focus.app
    BY <1>2 DEF i
  <2> QED
    BY <2>3, <2>4, <2>5, FocusAssumption
<1> QED
  BY <1>1, <1>2, <1>3, <1>4, <1>5

(* The latest time a window had the focus.                                 *)
Ends(p, w) ==
  {x.end : x \in {y \in Range(Recs) :
     /\ y.start < y.end /\ y.focus # NoFocus
     /\ HasWindow(y.focus) /\ y.focus.pid = p /\ y.focus.win = w}}

Greatest(P, m) == m \in P /\ \A k \in P : k <= m

LEMMA GreatestIs ==
  ASSUME NEW P, P \subseteq Nat, NEW m, Greatest(P, m)
  PROVE  Max(P) = m
<1>1. m \in P /\ \A k \in P : m >= k
  BY DEF Greatest
<1>2. Max(P) \in P /\ \A k \in P : Max(P) >= k
  BY <1>1 DEF Max
<1>3. m \in Nat /\ Max(P) \in Nat /\ m >= Max(P) /\ Max(P) >= m
  BY <1>1, <1>2
<1> QED
  BY <1>3

(* A finite set of numbers has a greatest.                                 *)
LEMMA GreatestOf ==
  ASSUME NEW I, IsFiniteSet(I), I # {}, NEW P, NEW f, P = {f[i] : i \in I}, P \subseteq Nat
  PROVE  \E m \in P : Greatest(P, m)
<1> DEFINE n == Cardinality(I)
<1>1. n \in Nat /\ n # 0 /\ ExistsBijection(1..n, I)
  BY FS_CardinalityType, FS_EmptySet
<1> HIDE DEF n
<1>2. PICK b \in Surjection(1..n, I) : TRUE
  BY <1>1 DEF ExistsBijection, Bijection
<1> DEFINE g == [k \in 1..n |-> f[b[k]]]
<1>3. b \in [1..n -> I] /\ \A i \in I : \E k \in 1..n : b[k] = i
  BY <1>2 DEF Surjection
<1>4. P = {g[k] : k \in 1..n} /\ g \in [1..n -> Nat]
  <2>1. ASSUME NEW k \in 1..n PROVE g[k] \in P /\ g[k] \in Nat
    <3>1. b[k] \in I
      BY <1>3
    <3>2. g[k] = f[b[k]] /\ f[b[k]] \in P
      BY <3>1
    <3> QED
      BY <3>2
  <2>2. ASSUME NEW x \in P PROVE \E k \in 1..n : x = g[k]
    <3>1. PICK i \in I : x = f[i]
      OBVIOUS
    <3>2. PICK k \in 1..n : b[k] = i
      BY <1>3
    <3> QED
      BY <3>1, <3>2
  <2>3. g = [k \in 1..n |-> g[k]]
    OBVIOUS
  <2> HIDE DEF g
  <2> QED
    BY <2>1, <2>2, <2>3
<1> HIDE DEF g
<1>5. Max(P) \in P /\ \A k \in P : k <= Max(P)
  <2>1. n \in Nat \ {0} /\ g \in [1..n -> Nat] /\ P = {g[k] : k \in 1..n}
    BY <1>1, <1>4
  <2>2. LET Q == {g[k] : k \in 1..n} IN Max(Q) \in Q /\ \A k \in Q : k <= Max(Q)
    BY ONLY <2>1, MaxIs
  <2> QED
    BY ONLY <2>1, <2>2
<1> QED
  BY <1>5 DEF Greatest

LEMMA WindowsAre ==
  ASSUME Orderly, NEW p
  PROVE  /\ IsFiniteSet(Ids(p)) /\ DOMAIN Windows(p) = Ids(p)
         /\ \A w : Time(p, w) > 0 <=> w \in Ids(p)
         /\ \A w \in Ids(p) :
               /\ Windows(p)[w].dur = Cardinality(Spent(OfWindow(p, w)))
               /\ Windows(p)[w].dur = Time(p, w)
               /\ IsFiniteSet(Spent(OfWindow(p, w)))
               /\ Windows(p)[w].last = Max(Ends(p, w)) /\ Windows(p)[w].last \in Nat
         /\ \A v, w \in Ids(p) : Windows(p)[v].last = Windows(p)[w].last => v = w
<1>0. Mine(p) \subseteq Valid /\ Valid \subseteq DOMAIN Recs
  BY CoveredIs DEF Mine
<1>1. IsFiniteSet(Ids(p))
  <2> DEFINE I == {j \in Mine(p) : HasWindow(Recs[j].focus)}
             f == [i \in I |-> Recs[i].focus.win]
  <2>1. IsFiniteSet(I)
    BY <1>0, CoveredIs, FS_Subset
  <2>2. DOMAIN f = I /\ f = [i \in I |-> f[i]] /\ Ids(p) = {f[i] : i \in I}
    BY DEF Ids
  <2> HIDE DEF f, I
  <2> QED
    BY <2>1, <2>2, ValuesOf
<1>2. \A w : OfWindow(p, w) \subseteq Valid /\ (OfWindow(p, w) # {} <=> w \in Ids(p))
  BY <1>0 DEF OfWindow, Ids
<1>3. ASSUME NEW w
      PROVE  /\ Time(p, w) = Cardinality(Spent(OfWindow(p, w)))
             /\ Total(Recs, Since, OfWindow(p, w)) = Cardinality(Spent(OfWindow(p, w)))
             /\ IsFiniteSet(Spent(OfWindow(p, w)))
             /\ Time(p, w) > 0 <=> w \in Ids(p)
  <2>1. Time(p, w) = Cardinality(Spent(OfWindow(p, w)))
    BY TimeIs
  <2>2. OfWindow(p, w) \subseteq Valid /\ (OfWindow(p, w) # {} <=> w \in Ids(p))
    BY <1>2
  <2>3. /\ IsFiniteSet(Spent(OfWindow(p, w)))
        /\ Total(Recs, Since, OfWindow(p, w)) = Cardinality(Spent(OfWindow(p, w)))
        /\ Cardinality(Spent(OfWindow(p, w))) > 0 <=> OfWindow(p, w) # {}
    BY <2>2, TotalIs
  <2> QED
    BY <2>1, <2>2, <2>3
<1>4. ASSUME NEW w \in Ids(p)
      PROVE  /\ Windows(p)[w].dur = Total(Recs, Since, OfWindow(p, w))
             /\ Windows(p)[w].last = Max({Recs[i].end : i \in OfWindow(p, w)})
  BY DEF Windows, WindowActivity
<1>5. ASSUME NEW w \in Ids(p)
      PROVE  \E i \in OfWindow(p, w) :
                /\ Windows(p)[w].last = Recs[i].end /\ Max(Ends(p, w)) = Recs[i].end
                /\ Recs[i].end \in Nat
  <2> DEFINE P == {Recs[i].end : i \in OfWindow(p, w)}
             f == [i \in OfWindow(p, w) |-> Recs[i].end]
  <2>1. IsFiniteSet(OfWindow(p, w)) /\ OfWindow(p, w) # {}
    BY <1>2, CoveredIs, FS_Subset
  <2>2. P \subseteq Nat /\ P = {f[i] : i \in OfWindow(p, w)}
    BY <1>0, <1>2, CoveredIs
  <2> HIDE DEF P, f
  <2>3. PICK m \in P : Greatest(P, m)
    BY <2>1, <2>2, GreatestOf
  <2>4. PICK i \in OfWindow(p, w) : m = Recs[i].end
    BY <2>3 DEF P
  <2>5. Max(P) = m /\ m \in Nat
    BY <2>2, <2>3, GreatestIs
  <2>6. i \in Valid /\ i \in DOMAIN Recs /\ m > Since
    BY <1>0, <1>2, <2>4, CoveredIs
  <2>7. Ends(p, w) \subseteq Nat
    BY CoveredIs DEF Ends, Range
  <2>8. Greatest(Ends(p, w), m)
    <3>1. m \in Ends(p, w)
      <4>1. /\ Recs[i].start < Recs[i].end /\ Recs[i].focus # NoFocus
            /\ HasWindow(Recs[i].focus) /\ Recs[i].focus.pid = p /\ Recs[i].focus.win = w
        BY <2>4, <2>6, CoveredIs DEF OfWindow, Mine
      <4>2. Recs[i] \in Range(Recs)
        BY <2>6 DEF Range
      <4> QED
        BY <2>4, <4>1, <4>2 DEF Ends
    <3>2. ASSUME NEW k \in Ends(p, w) PROVE k <= m
      <4>1. PICK j \in DOMAIN Recs :
              /\ k = Recs[j].end /\ Recs[j].start < Recs[j].end /\ Recs[j].focus # NoFocus
              /\ HasWindow(Recs[j].focus) /\ Recs[j].focus.pid = p /\ Recs[j].focus.win = w
        BY <3>2 DEF Ends, Range
      <4>2. CASE j \in Valid
        <5>1. j \in OfWindow(p, w)
          BY <4>1, <4>2 DEF OfWindow, Mine
        <5> QED
          BY <2>3, <4>1, <5>1 DEF Greatest, P
      <4>3. CASE j \notin Valid
        <5>1. Covered(j) = {}
          BY <4>1, <4>3, CoveredIs
        <5>2. k \in Nat /\ Recs[j].start \in Nat /\ Since \in Int /\ k <= bus.snapshot.at
              /\ bus.snapshot.at \in Nat
          BY <4>1, CoveredIs, Limits DEF Orderly, Closed, Since
        <5>3. k <= Since
          <6> SUFFICES ASSUME k > Since PROVE FALSE
            BY <5>2
          <6>1. k - 1 \in Since..(bus.snapshot.at - 1) /\ Recs[j].start <= k - 1 /\ k - 1 < k
            BY <4>1, <5>2
          <6>2. k - 1 \in Covered(j)
            BY <4>1, <6>1 DEF Covered
          <6> QED
            BY <5>1, <6>2
        <5> QED
          BY <2>5, <2>6, <5>2, <5>3
      <4> QED
        BY <4>2, <4>3
    <3> QED
      BY <3>1, <3>2 DEF Greatest
  <2>9. Max(Ends(p, w)) = m
    BY <2>7, <2>8, GreatestIs
  <2>10. Windows(p)[w].last = m
    BY <1>4, <2>5 DEF P
  <2> QED
    BY <2>4, <2>5, <2>9, <2>10
<1>6. ASSUME NEW v \in Ids(p), NEW w \in Ids(p), Windows(p)[v].last = Windows(p)[w].last
      PROVE  v = w
  <2>1. PICK i \in OfWindow(p, v) : Windows(p)[v].last = Recs[i].end
    BY <1>5
  <2>2. PICK j \in OfWindow(p, w) : Windows(p)[w].last = Recs[j].end
    BY <1>5
  <2>3. i \in Valid /\ j \in Valid /\ i \in DOMAIN Recs /\ j \in DOMAIN Recs
    BY <1>0, <1>2
  <2>4. /\ Recs[i].start < Recs[i].end /\ Recs[j].start < Recs[j].end
        /\ Recs[i].start \in Nat /\ Recs[i].end \in Nat /\ Recs[j].start \in Nat /\ Recs[j].end \in Nat
        /\ i # j => Apart(Recs[i], Recs[j])
    BY <2>3, CoveredIs
  <2>5. Recs[i].end = Recs[j].end
    BY <1>6, <2>1, <2>2
  <2>6. i = j
    BY <2>4, <2>5 DEF Apart
  <2> QED
    BY <2>6 DEF OfWindow
<1>7. DOMAIN Windows(p) = Ids(p)
  BY DEF Windows
<1>8. ASSUME NEW w \in Ids(p)
      PROVE  /\ Windows(p)[w].dur = Cardinality(Spent(OfWindow(p, w)))
             /\ Windows(p)[w].dur = Time(p, w)
             /\ IsFiniteSet(Spent(OfWindow(p, w)))
             /\ Windows(p)[w].last = Max(Ends(p, w)) /\ Windows(p)[w].last \in Nat
  <2>1. Windows(p)[w].last = Max(Ends(p, w)) /\ Windows(p)[w].last \in Nat
    BY <1>5
  <2>2. Windows(p)[w].dur = Total(Recs, Since, OfWindow(p, w))
    BY <1>4
  <2> QED
    BY <1>3, <2>1, <2>2
<1>9. \A w : Time(p, w) > 0 <=> w \in Ids(p)
  BY <1>3
<1>10. \A v, w \in Ids(p) : Windows(p)[v].last = Windows(p)[w].last => v = w
  BY <1>6
<1> QED
  BY ONLY <1>1, <1>7, <1>8, <1>9, <1>10

(* A chain of times in A, none further than TemporalGap from the next,     *)
(* leads from hi down to lo.                                               *)
Linked(ws, A, lo, hi) ==
  \A y \in A : lo < ws[y].last /\ ws[y].last <= hi =>
     \E z \in A : ws[z].last < ws[y].last /\ ws[y].last - ws[z].last <= TemporalGap

(* Temporal groups that share a window are one.                            *)
LEMMA ClustersApart ==
  ASSUME NEW ws, \A w \in DOMAIN ws : ws[w].last \in Int,
         NEW A, A \subseteq DOMAIN ws, NEW v, NEW w \in A, NEW x \in A,
         v \in Cluster(ws, A, w), v \in Cluster(ws, A, x)
  PROVE  Cluster(ws, A, w) = Cluster(ws, A, x)
<1> DEFINE Both(a, b) == Linked(ws, A, ws[a].last, ws[b].last) /\ Linked(ws, A, ws[b].last, ws[a].last)
<1>1. \A a \in A : Cluster(ws, A, a) = {b \in A : Both(b, a)}
  BY DEF Cluster, Linked
<1>2. ASSUME NEW lo \in Int, NEW mid \in Int, NEW hi \in Int,
             Linked(ws, A, lo, mid), Linked(ws, A, mid, hi)
      PROVE  Linked(ws, A, lo, hi)
  <2> SUFFICES ASSUME NEW y \in A, lo < ws[y].last, ws[y].last <= hi
               PROVE  \E z \in A : ws[z].last < ws[y].last /\ ws[y].last - ws[z].last <= TemporalGap
    BY DEF Linked
  <2>1. ws[y].last \in Int
    OBVIOUS
  <2>2. CASE ws[y].last <= mid
    BY <1>2, <2>2 DEF Linked
  <2>3. CASE mid < ws[y].last
    BY <1>2, <2>3 DEF Linked
  <2> QED
    BY <2>1, <2>2, <2>3
<1>3. ASSUME NEW a \in A, NEW b \in A, NEW c \in A, Both(a, b), Both(b, c)
      PROVE  Both(a, c)
  <2>1. ws[a].last \in Int /\ ws[b].last \in Int /\ ws[c].last \in Int
    OBVIOUS
  <2> QED
    BY <1>2, <1>3, <2>1
<1>4. \A a, b \in A : Both(a, b) <=> Both(b, a)
  OBVIOUS
<1>5. v \in A /\ Both(v, w) /\ Both(v, x)
  BY <1>1
<1> HIDE DEF Both
<1>6. \A b \in A : Both(b, w) <=> Both(b, x)
  BY <1>3, <1>4, <1>5
<1> QED
  BY <1>1, <1>6

(* Every window of an application is in one group, or in none.             *)
LEMMA GroupsAre ==
  ASSUME NEW ws, \A w \in DOMAIN ws : ws[w].last \in Int
  PROVE  LET rest == Lane(ws) \ UNION Temporal(ws)
         IN  /\ rest \subseteq DOMAIN ws
             /\ \A g \in Groups(ws) : g \subseteq DOMAIN ws /\ g \cap rest = {}
             /\ \A g, h \in Groups(ws) : g # h => g \cap h = {}
             /\ \A w \in DOMAIN ws : w \in rest \/ \E g \in Groups(ws) : w \in g
             /\ Single(ws) = LruTrim(ws, rest)
<1> DEFINE rest == Lane(ws) \ UNION Temporal(ws)
           lane == Lane(ws)
           short == {w \in DOMAIN ws : ws[w].dur < ShortThresh}
<1>1. lane \subseteq DOMAIN ws /\ lane \cap UNION EphemeralGroups(ws) = {}
  BY DEF Lane
<1> DEFINE Same(v, w) == TitleKey[ws[v].title] = TitleKey[ws[w].title]
<1>2. /\ \A S, w, v : v \in Alike(ws, S, w) <=> v \in S /\ Same(v, w)
      /\ \A S, w, x : Same(x, w) => Alike(ws, S, x) = Alike(ws, S, w)
  BY DEF Alike
<1>3. ASSUME NEW g \in EphemeralGroups(ws)
      PROVE  \E w \in short : g = Alike(ws, short, w)
  BY DEF EphemeralGroups
<1>4. ASSUME NEW g \in Temporal(ws)
      PROVE  \E w \in lane : g = Cluster(ws, Alike(ws, lane, w), w)
  BY DEF Temporal, TemporalGroups
<1> HIDE DEF lane, short, Same
<1>0. \A a, b, c : (Same(a, b) => Same(b, a)) /\ (Same(a, b) /\ Same(b, c) => Same(a, c))
  BY DEF Same
<1>5. \A A, w : Cluster(ws, A, w) \subseteq A
  BY DEF Cluster
<1>6. \A g \in EphemeralGroups(ws) : g \subseteq DOMAIN ws
  <2> SUFFICES ASSUME NEW g \in EphemeralGroups(ws) PROVE g \subseteq DOMAIN ws
    OBVIOUS
  <2>1. PICK w \in short : g = Alike(ws, short, w)
    BY <1>3
  <2>2. g \subseteq short
    BY <1>2, <2>1
  <2> QED
    BY <2>2 DEF short
<1>7. \A g \in Temporal(ws) : g \subseteq lane
  BY <1>2, <1>4, <1>5
<1>8. ASSUME NEW g \in EphemeralGroups(ws), NEW h \in EphemeralGroups(ws), g # h
      PROVE  g \cap h = {}
  <2>1. PICK w \in short : g = Alike(ws, short, w)
    BY <1>3
  <2>2. PICK x \in short : h = Alike(ws, short, x)
    BY <1>3
  <2> SUFFICES ASSUME NEW v, v \in g, v \in h PROVE FALSE
    OBVIOUS
  <2>3. Same(v, w) /\ Same(v, x)
    BY <1>2, <2>1, <2>2
  <2>4. Same(w, x)
    BY <1>0, <2>3
  <2>5. g = h
    BY <1>2, <2>1, <2>2, <2>4
  <2> QED
    BY <1>8, <2>5
<1>9. ASSUME NEW g \in Temporal(ws), NEW h \in Temporal(ws), NEW v, v \in g, v \in h
      PROVE  g = h
  <2>1. PICK w \in lane : g = Cluster(ws, Alike(ws, lane, w), w)
    BY <1>4
  <2>2. PICK x \in lane : h = Cluster(ws, Alike(ws, lane, x), x)
    BY <1>4
  <2>3. v \in Alike(ws, lane, w) /\ v \in Alike(ws, lane, x)
    BY <1>5, <1>9, <2>1, <2>2
  <2> DEFINE A == Alike(ws, lane, w)
  <2>4. Alike(ws, lane, x) = A
    <3>1. Same(v, w) /\ Same(v, x)
      BY <1>2, <2>3
    <3>2. Same(x, w)
      BY <1>0, <3>1
    <3> QED
      BY <1>2, <3>2
  <2>5. w \in A /\ x \in A /\ A \subseteq DOMAIN ws
    <3>1. w \in Alike(ws, lane, w) /\ x \in Alike(ws, lane, x)
      BY <1>2 DEF Same
    <3>2. Alike(ws, lane, w) \subseteq lane
      BY <1>2
    <3> QED
      BY <1>1, <2>4, <3>1, <3>2
  <2> HIDE DEF A
  <2>6. v \in Cluster(ws, A, w) /\ v \in Cluster(ws, A, x)
    BY <1>9, <2>1, <2>2, <2>4 DEF A
  <2>7. Cluster(ws, A, w) = Cluster(ws, A, x)
    BY <2>5, <2>6, ClustersApart
  <2> QED
    BY <2>1, <2>2, <2>4, <2>7 DEF A
<1>10. \A g \in EphemeralGroups(ws), h \in Temporal(ws) : g \cap h = {}
  BY <1>1, <1>7
<1>11. Groups(ws) = EphemeralGroups(ws) \cup Temporal(ws) /\ Single(ws) = LruTrim(ws, rest)
  BY DEF Groups, Single
<1>12. /\ rest \subseteq lane /\ rest \cap UNION Temporal(ws) = {}
       /\ \A w \in DOMAIN ws :
             w \in rest \/ w \in UNION EphemeralGroups(ws) \/ w \in UNION Temporal(ws)
  BY DEF Lane, lane
<1>13. \A g, h \in Groups(ws) : g # h => g \cap h = {}
  BY <1>8, <1>9, <1>10, <1>11
<1>14. \A g \in Groups(ws) : g \subseteq DOMAIN ws /\ g \cap rest = {}
  BY <1>1, <1>6, <1>7, <1>11, <1>12
<1>15. rest \subseteq DOMAIN ws /\ \A w \in DOMAIN ws : w \in rest \/ \E g \in Groups(ws) : w \in g
  BY <1>1, <1>11, <1>12
<1> HIDE DEF rest
<1> QED
  BY <1>11, <1>13, <1>14, <1>15 DEF rest

(* The windows left out are older than the MaxWindows that are shown.      *)
LEMMA TrimmedAre ==
  ASSUME NEW ws, NEW rest, IsFiniteSet(rest), \A w \in rest : ws[w].last \in Int,
         \A v, w \in rest : ws[v].last = ws[w].last => v = w
  PROVE  LET kept == LruTrim(ws, rest)
         IN  /\ kept \subseteq rest /\ IsFiniteSet(kept)
             /\ \A w \in rest \ kept :
                   /\ MaxWindows > 0 /\ Cardinality(kept) = MaxWindows
                   /\ \A v \in kept : ws[v].last > ws[w].last
<1> DEFINE kept == LruTrim(ws, rest)
           Newer(w) == {v \in rest : ws[v].last > ws[w].last}
           key == [w \in rest |-> ws[w].last]
<1>0. MaxWindows \in Nat /\ Cardinality(rest) \in Nat
  BY AggregationAssumption, FS_CardinalityType
<1>1. kept \subseteq rest
  BY DEF LruTrim
<1>2. IsFiniteSet(kept)
  BY <1>1, FS_Subset
<1>3. ASSUME NEW w \in rest \ kept
      PROVE  /\ MaxWindows > 0 /\ Cardinality(kept) = MaxWindows
             /\ \A v \in kept : ws[v].last > ws[w].last
  <2>1. /\ MaxWindows > 0 /\ Cardinality(rest) > MaxWindows
        /\ kept = {x \in rest : Cardinality(Newer(x)) < MaxWindows}
    BY <1>3 DEF LruTrim
  <2>2. Cardinality(kept) = MaxWindows
    <3>1. /\ \A v \in rest : key[v] \in Int
          /\ \A v, u \in rest : key[v] = key[u] => v = u
          /\ MaxWindows <= Cardinality(rest)
      BY <1>0, <2>1
    <3>2. kept = {x \in rest : Cardinality({v \in rest : key[v] > key[x]}) < MaxWindows}
      <4>1. \A x \in rest : Newer(x) = {v \in rest : key[v] > key[x]}
        OBVIOUS
      <4> HIDE DEF Newer, key, kept
      <4> QED
        BY <2>1, <4>1
    <3> HIDE DEF key, kept
    <3> QED
      BY <1>0, <3>1, <3>2, TopCount
  <2>3. ASSUME NEW v \in kept PROVE ws[v].last > ws[w].last
    <3>0. v \in rest /\ w \in rest /\ ws[v].last \in Int /\ ws[w].last \in Int
      BY <1>1
    <3>1. IsFiniteSet(Newer(v)) /\ IsFiniteSet(Newer(w))
      <4>1. Newer(v) \in SUBSET rest /\ Newer(w) \in SUBSET rest
        OBVIOUS
      <4> HIDE DEF Newer
      <4> QED
        BY <4>1, FS_Subset
    <3>2. Cardinality(Newer(v)) < MaxWindows /\ ~(Cardinality(Newer(w)) < MaxWindows)
      <4> HIDE DEF Newer, kept
      <4> QED
        BY <1>3, <2>1, <3>0
    <3>3. ws[v].last <= ws[w].last => Newer(w) \in SUBSET Newer(v)
      BY <3>0
    <3> HIDE DEF Newer, kept
    <3>4. Cardinality(Newer(v)) \in Nat /\ Cardinality(Newer(w)) \in Nat
      BY <3>1, FS_CardinalityType
    <3>5. Newer(w) \in SUBSET Newer(v) => Cardinality(Newer(w)) <= Cardinality(Newer(v))
      BY <3>1, FS_Subset
    <3>6. ~(Newer(w) \in SUBSET Newer(v))
      BY <1>0, <3>2, <3>4, <3>5
    <3> QED
      BY <3>0, <3>3, <3>6
  <2> QED
    BY <2>1, <2>2, <2>3
<1> HIDE DEF kept
<1> QED
  BY <1>1, <1>2, <1>3 DEF kept

(* The windows of an application's entry.                                  *)
ShowsWindows(e, p) ==
  LET shown == UNION {v.members : v \in e.windows}
      alone == {v \in e.windows : ~v.group}
  IN  /\ shown \subseteq Ids(p)
      /\ \A u, v \in e.windows : u # v => u.members \cap v.members = {}
      /\ \A v \in e.windows : v.dur = SumFunction([w \in v.members |-> Time(p, w)])
      /\ \A w \in Ids(p) \ shown :
            /\ MaxWindows > 0 /\ Cardinality(alone) = MaxWindows
            /\ \A v \in alone : \A u \in v.members : Max(Ends(p, u)) > Max(Ends(p, w))

LEMMA EntryWindows ==
  ASSUME Orderly, NEW p \in Procs
  PROVE  ShowsWindows(AppEntry(Agg(p)), p)
<1> DEFINE a == Agg(p)
           ws == Windows(p)
           rest == Lane(ws) \ UNION Temporal(ws)
           kept == Single(ws)
           One(w) == WindowEntry(a, w)
           Many(g) == GroupEntry(a, g)
           entries == AppEntry(a).windows
<1>1. a.activity = ws /\ a.windows = kept /\ a.groups = Groups(ws)
  BY AggIs
<1>2. /\ IsFiniteSet(Ids(p)) /\ DOMAIN ws = Ids(p)
      /\ \A w \in Ids(p) :
            /\ ws[w].dur = Cardinality(Spent(OfWindow(p, w)))
            /\ ws[w].dur = Time(p, w)
            /\ IsFiniteSet(Spent(OfWindow(p, w)))
            /\ ws[w].last = Max(Ends(p, w)) /\ ws[w].last \in Nat
      /\ \A v, w \in Ids(p) : ws[v].last = ws[w].last => v = w
  BY WindowsAre
<1>3. entries = {One(w) : w \in kept} \cup {Many(g) : g \in Groups(ws)}
  BY <1>1 DEF AppEntry
<1>4. /\ \A w : One(w).members = {w} /\ One(w).group = FALSE /\ One(w).dur = ws[w].dur
      /\ \A g : /\ Many(g).members = g /\ Many(g).group = TRUE
                /\ Many(g).dur = SumFunction([w \in g |-> ws[w].dur])
  BY <1>1 DEF WindowEntry, GroupEntry
<1> HIDE DEF a, ws, One, Many, entries, kept
<1>5. /\ rest \subseteq DOMAIN ws
      /\ \A g \in Groups(ws) : g \subseteq DOMAIN ws /\ g \cap rest = {}
      /\ \A g, h \in Groups(ws) : g # h => g \cap h = {}
      /\ \A w \in DOMAIN ws : w \in rest \/ \E g \in Groups(ws) : w \in g
      /\ kept = LruTrim(ws, rest)
  <2>1. \A w \in DOMAIN ws : ws[w].last \in Int
    BY <1>2
  <2> QED
    BY <2>1, GroupsAre DEF kept
<1> HIDE DEF rest
<1>6. /\ kept \subseteq rest /\ IsFiniteSet(kept)
      /\ \A w \in rest \ kept :
            /\ MaxWindows > 0 /\ Cardinality(kept) = MaxWindows
            /\ \A v \in kept : ws[v].last > ws[w].last
  <2>1. IsFiniteSet(rest)
    BY <1>2, <1>5, FS_Subset
  <2>2. /\ \A w \in rest : ws[w].last \in Int
        /\ \A v, w \in rest : ws[v].last = ws[w].last => v = w
    BY <1>2, <1>5
  <2> QED
    BY <1>5, <2>1, <2>2, TrimmedAre
<1> DEFINE shown == UNION {v.members : v \in entries}
           alone == {v \in entries : ~v.group}
<1>7. \A v \in entries : (\E w \in kept : v = One(w)) \/ (\E g \in Groups(ws) : v = Many(g))
  BY <1>3
<1>8. shown \subseteq Ids(p)
  <2> SUFFICES ASSUME NEW v \in entries PROVE v.members \subseteq Ids(p)
    OBVIOUS
  <2> QED
    BY <1>2, <1>4, <1>5, <1>6, <1>7
<1>9. ASSUME NEW u \in entries, NEW v \in entries, u # v
      PROVE  u.members \cap v.members = {}
  <2>1. CASE \E w \in kept : u = One(w)
    <3>1. PICK w \in kept : u = One(w)
      BY <2>1
    <3>2. CASE \E x \in kept : v = One(x)
      BY <1>4, <1>9, <3>1, <3>2
    <3>3. CASE \E g \in Groups(ws) : v = Many(g)
      <4>1. PICK g \in Groups(ws) : v = Many(g)
        BY <3>3
      <4>2. w \in rest /\ w \notin g
        BY <1>5, <1>6
      <4> QED
        BY <1>4, <3>1, <4>1, <4>2
    <3> QED
      BY <1>7, <3>2, <3>3
  <2>2. CASE \E g \in Groups(ws) : u = Many(g)
    <3>1. PICK g \in Groups(ws) : u = Many(g)
      BY <2>2
    <3>2. CASE \E x \in kept : v = One(x)
      <4>1. PICK x \in kept : v = One(x)
        BY <3>2
      <4>2. x \in rest /\ x \notin g
        BY <1>5, <1>6
      <4> QED
        BY <1>4, <3>1, <4>1, <4>2
    <3>3. CASE \E h \in Groups(ws) : v = Many(h)
      <4>1. PICK h \in Groups(ws) : v = Many(h)
        BY <3>3
      <4>2. g # h
        BY <1>9, <3>1, <4>1
      <4>3. g \cap h = {}
        BY <1>5, <4>2
      <4> QED
        BY <1>4, <3>1, <4>1, <4>3
    <3> QED
      BY <1>7, <3>2, <3>3
  <2> QED
    BY <1>7, <2>1, <2>2
<1>10. ASSUME NEW v \in entries
       PROVE  v.dur = SumFunction([w \in v.members |-> Time(p, w)])
  <2>1. CASE \E w \in kept : v = One(w)
    <3>1. PICK w \in kept : v = One(w)
      BY <2>1
    <3>2. w \in Ids(p)
      BY <1>2, <1>5, <1>6
    <3> DEFINE T == Spent(OfWindow(p, w))
    <3>3. IsFiniteSet(T) /\ Time(p, w) = Cardinality(T) /\ v.dur = Cardinality(T)
      BY <1>2, <1>4, <3>1, <3>2
    <3>4. [x \in {w} |-> Time(p, x)] = [x \in {w} |-> Cardinality(T)]
      BY <3>3
    <3> HIDE DEF T
    <3>5. SumFunction([x \in {w} |-> Cardinality(T)]) = Cardinality(T)
      BY <3>3, SumOfOne
    <3>6. v.members = {w}
      BY <1>4, <3>1
    <3> QED
      BY <3>3, <3>4, <3>5, <3>6
  <2>2. CASE \E g \in Groups(ws) : v = Many(g)
    <3>1. PICK g \in Groups(ws) : v = Many(g)
      BY <2>2
    <3>2. [w \in g |-> ws[w].dur] = [w \in g |-> Time(p, w)]
      BY <1>2, <1>5
    <3>3. v.members = g /\ v.dur = SumFunction([w \in g |-> ws[w].dur])
      BY <1>4, <3>1
    <3> QED
      BY <3>2, <3>3
  <2> QED
    BY <1>7, <2>1, <2>2
<1>11. ASSUME NEW w \in Ids(p), w \notin shown
       PROVE  /\ MaxWindows > 0 /\ Cardinality(alone) = MaxWindows
              /\ \A v \in alone : \A u \in v.members : Max(Ends(p, u)) > Max(Ends(p, w))
  <2>1. \A g \in Groups(ws) : w \notin g
    <3> SUFFICES ASSUME NEW g \in Groups(ws), w \in g PROVE FALSE
      OBVIOUS
    <3>1. Many(g) \in entries /\ Many(g).members = g
      BY <1>3, <1>4
    <3> QED
      BY <1>11, <3>1
  <2>2. w \notin kept
    <3> SUFFICES ASSUME w \in kept PROVE FALSE
      OBVIOUS
    <3>1. One(w) \in entries /\ One(w).members = {w}
      BY <1>3, <1>4
    <3> QED
      BY <1>11, <3>1
  <2>3. w \in rest \ kept
    BY <1>2, <1>5, <2>1, <2>2
  <2>4. MaxWindows > 0 /\ Cardinality(kept) = MaxWindows
    BY <1>6, <2>3
  <2> DEFINE show == [x \in kept |-> One(x)]
  <2>5. alone = {show[x] : x \in kept}
    BY <1>3, <1>4
  <2>6. Cardinality({show[x] : x \in kept}) = Cardinality(kept)
    <3>1. DOMAIN show = kept /\ show = [x \in kept |-> show[x]]
      OBVIOUS
    <3>2. ASSUME NEW x \in kept, NEW y \in kept, show[x] = show[y] PROVE x = y
      <4>1. One(x).members = One(y).members
        BY <3>2
      <4>2. {x} = {y}
        BY <1>4, <4>1
      <4> QED
        BY <4>2
    <3> HIDE DEF show
    <3> QED
      BY <1>6, <3>1, <3>2, ValuesOf
  <2>7. ASSUME NEW v \in alone, NEW u \in v.members
        PROVE  Max(Ends(p, u)) > Max(Ends(p, w))
    <3>1. PICK x \in kept : v = One(x)
      BY <2>5
    <3>2. u = x
      BY <1>4, <3>1
    <3>3. ws[u].last > ws[w].last /\ u \in Ids(p)
      BY <1>2, <1>5, <1>6, <2>3, <3>2
    <3> QED
      BY <1>2, <3>3
  <2> QED
    BY <2>4, <2>5, <2>6, <2>7
<1> QED
  BY <1>8, <1>9, <1>10, <1>11 DEF ShowsWindows, entries, a

(* The application tree.                                                   *)
Aggs == aggregate_activities_since(Recs, Since)
Short == {a \in Aggs : a.total <= AppShortMax}
Named(n) == {a \in Short : a.app = n}
Tree == build_app_tree(Aggs)

LEMMA TreeIs ==
  ASSUME Orderly
  PROVE  /\ IsFiniteSet(Procs) /\ IsFiniteSet(Aggs)
         /\ \A p \in Procs : Agg(p) \in Aggs
         /\ \A a \in Aggs : a.pid \in Procs /\ a = Agg(a.pid)
         /\ \A e \in Tree :
               \/ \E p \in Procs : Agg(p).total > AppShortMax /\ e = AppEntry(Agg(p))
               \/ \E n : e = AppGroupEntry(Named(n))
         /\ \A p \in Procs : Agg(p).total > AppShortMax => AppEntry(Agg(p)) \in Tree
         /\ \A a \in Short :
               Cardinality(Named(a.app)) >= AppShortMin => AppGroupEntry(Named(a.app)) \in Tree
<1>0. AppShortMax \in Nat
  BY AggregationAssumption
<1>1. IsFiniteSet(Procs)
  <2> DEFINE f == [i \in Valid |-> Recs[i].focus.pid]
  <2>1. DOMAIN f = Valid /\ f = [i \in Valid |-> f[i]] /\ Procs = {f[i] : i \in Valid}
    BY DEF Procs
  <2> HIDE DEF f
  <2> QED
    BY <2>1, CoveredIs, ValuesOf
<1>2. Aggs = {Agg(p) : p \in Procs}
  BY DEF Aggs, aggregate_activities_since, Agg, Procs, Valid
<1>3. IsFiniteSet(Aggs)
  <2> DEFINE f == [p \in Procs |-> Agg(p)]
  <2>1. DOMAIN f = Procs /\ f = [p \in Procs |-> f[p]] /\ Aggs = {f[p] : p \in Procs}
    BY <1>2
  <2> HIDE DEF f
  <2> QED
    BY <1>1, <2>1, ValuesOf
<1>4. \A p \in Procs : Agg(p).pid = p /\ Agg(p).total \in Nat
  BY AggIs
<1>5. \A a \in Aggs : a.pid \in Procs /\ a = Agg(a.pid)
  BY <1>2, <1>4
<1>6. Tree = {AppEntry(a) : a \in Aggs \ Short}
               \cup {AppGroupEntry(Named(n)) :
                       n \in {m \in {a.app : a \in Short} : Cardinality(Named(m)) >= AppShortMin}}
  BY DEF Tree, build_app_tree, Short, Named
<1>7. \A p \in Procs : Agg(p) \in Aggs \ Short <=> Agg(p).total > AppShortMax
  BY <1>0, <1>2, <1>4 DEF Short
<1>8. ASSUME NEW e \in Tree
      PROVE  \/ \E p \in Procs : Agg(p).total > AppShortMax /\ e = AppEntry(Agg(p))
             \/ \E n : e = AppGroupEntry(Named(n))
  <2>1. CASE \E a \in Aggs \ Short : e = AppEntry(a)
    BY <1>5, <1>7, <2>1
  <2>2. CASE \E n : e = AppGroupEntry(Named(n))
    BY <2>2
  <2> QED
    BY <1>6, <2>1, <2>2
<1>9. \A p \in Procs : Agg(p).total > AppShortMax => AppEntry(Agg(p)) \in Tree
  BY <1>6, <1>7
<1>10. \A a \in Short :
          Cardinality(Named(a.app)) >= AppShortMin => AppGroupEntry(Named(a.app)) \in Tree
  BY <1>6
<1> QED
  BY <1>1, <1>2, <1>3, <1>5, <1>8, <1>9, <1>10

LEMMA EntriesAre ==
  /\ \A a : LET e == AppEntry(a)
            IN  e.pid = a.pid /\ e.procs = {a.pid} /\ e.total = a.total
  /\ \A v : LET e == AppGroupEntry(v)
            IN  e.procs = {a.pid : a \in v} /\ e.total = SumFunction([a \in v |-> a.total])
BY DEF AppEntry, AppGroupEntry

(* Processes share no second.                                              *)
LEMMA ProcsApart ==
  ASSUME Orderly, NEW P, P \subseteq Procs
  PROVE  /\ \A p \in P : IsFiniteSet(Spent(Mine(p))) /\ Used(p) = Cardinality(Spent(Mine(p)))
         /\ \A p, q \in P : p # q => Spent(Mine(p)) \cap Spent(Mine(q)) = {}
<1>1. ASSUME NEW p \in P
      PROVE  IsFiniteSet(Spent(Mine(p))) /\ Used(p) = Cardinality(Spent(Mine(p)))
  <2>1. Mine(p) \subseteq Valid
    BY DEF Mine
  <2> QED
    BY <2>1, TotalIs, UsedIs
<1>2. ASSUME NEW p \in P, NEW q \in P, p # q
      PROVE  Spent(Mine(p)) \cap Spent(Mine(q)) = {}
  <2> SUFFICES ASSUME NEW t, t \in Spent(Mine(p)), t \in Spent(Mine(q)) PROVE FALSE
    OBVIOUS
  <2>1. PICK i \in Mine(p) : t \in Covered(i)
    BY DEF Spent
  <2>2. PICK j \in Mine(q) : t \in Covered(j)
    BY DEF Spent
  <2>3. i \in DOMAIN Recs /\ j \in DOMAIN Recs /\ i # j
    BY <1>2, CoveredIs DEF Mine
  <2> QED
    BY <2>1, <2>2, <2>3, CoveredIs
<1> QED
  BY <1>1, <1>2

(* An entry's total is the sum of the times of its processes.              *)
LEMMA EntryTotals ==
  ASSUME Orderly, NEW e \in Tree
  PROVE  e.total = SumFunction([p \in e.procs |-> Used(p)])
<1>1. CASE \E p \in Procs : e = AppEntry(Agg(p))
  <2>1. PICK p \in Procs : e = AppEntry(Agg(p))
    BY <1>1
  <2> DEFINE T == Spent(Mine(p))
  <2>2. IsFiniteSet(T) /\ Used(p) = Cardinality(T)
    BY ProcsApart
  <2>3. e.procs = {p} /\ e.total = Cardinality(T)
    BY <2>1, EntriesAre, AggIs
  <2>4. [q \in {p} |-> Used(q)] = [q \in {p} |-> Cardinality(T)]
    BY <2>2
  <2> HIDE DEF T
  <2>5. SumFunction([q \in {p} |-> Cardinality(T)]) = Cardinality(T)
    BY <2>2, SumOfOne
  <2> QED
    BY <2>3, <2>4, <2>5
<1>2. CASE \E n : e = AppGroupEntry(Named(n))
  <2>1. PICK n : e = AppGroupEntry(Named(n))
    BY <1>2
  <2> DEFINE v == Named(n)
             P == {a.pid : a \in v}
             sets == [a \in v |-> Spent(Mine(a.pid))]
             each == [p \in P |-> Spent(Mine(p))]
  <2>2. v \subseteq Aggs /\ IsFiniteSet(v)
    <3>1. v \in SUBSET Aggs
      BY DEF Named, Short
    <3> QED
      BY <3>1, TreeIs, FS_Subset
  <2>3. /\ P \subseteq Procs
        /\ \A a \in v : a.total = Cardinality(Spent(Mine(a.pid)))
        /\ \A a, b \in v : a.pid = b.pid => a = b
    BY <2>2, TreeIs, AggIs
  <2>4. IsFiniteSet(P)
    BY <2>3, TreeIs, FS_Subset
  <2>5. e.procs = P /\ e.total = SumFunction([a \in v |-> a.total])
    BY <2>1, EntriesAre
  <2>6. [a \in v |-> a.total] = [a \in v |-> Cardinality(sets[a])]
    BY <2>3
  <2>7. [p \in P |-> Used(p)] = [p \in P |-> Cardinality(each[p])]
    BY <2>3, ProcsApart
  <2>8. /\ \A a \in v : IsFiniteSet(sets[a])
        /\ \A a, b \in v : a # b => sets[a] \cap sets[b] = {}
    BY <2>3, ProcsApart
  <2>9. /\ \A p \in P : IsFiniteSet(each[p])
        /\ \A p, q \in P : p # q => each[p] \cap each[q] = {}
    BY <2>3, ProcsApart
  <2>10. UNION {sets[a] : a \in v} = UNION {each[p] : p \in P}
    OBVIOUS
  <2> HIDE DEF v, P, sets, each
  <2>11. SumFunction([a \in v |-> Cardinality(sets[a])]) = Cardinality(UNION {sets[a] : a \in v})
    BY <2>2, <2>8, SumCounts
  <2>12. SumFunction([p \in P |-> Cardinality(each[p])]) = Cardinality(UNION {each[p] : p \in P})
    BY <2>4, <2>9, SumCounts
  <2> QED
    BY <2>5, <2>6, <2>7, <2>10, <2>11, <2>12
<1> QED
  BY <1>1, <1>2, TreeIs

(* The entry of a process.                                                 *)
LEMMA EntryOf ==
  ASSUME Orderly, NEW e \in Tree, NEW p \in e.procs
  PROVE  /\ p \in Procs
         /\ \/ Agg(p).total > AppShortMax /\ e = AppEntry(Agg(p))
            \/ Agg(p).total <= AppShortMax /\ e = AppGroupEntry(Named(Agg(p).app))
<1>1. CASE \E q \in Procs : Agg(q).total > AppShortMax /\ e = AppEntry(Agg(q))
  <2>1. PICK q \in Procs : Agg(q).total > AppShortMax /\ e = AppEntry(Agg(q))
    BY <1>1
  <2>2. p = q
    BY <2>1, EntriesAre, AggIs
  <2> QED
    BY <2>1, <2>2
<1>2. CASE \E n : e = AppGroupEntry(Named(n))
  <2>1. PICK n : e = AppGroupEntry(Named(n))
    BY <1>2
  <2>2. PICK a \in Named(n) : p = a.pid
    BY <2>1, EntriesAre
  <2>3. a \in Aggs /\ a.total <= AppShortMax /\ a.app = n
    BY DEF Named, Short
  <2>4. a = Agg(p) /\ p \in Procs
    BY <2>2, <2>3, TreeIs
  <2> QED
    BY <2>1, <2>3, <2>4
<1> QED
  BY <1>1, <1>2, TreeIs

(* The short processes of one name.                                        *)
Foci == {x.focus : x \in Range(Recs)} \ {NoFocus}
Brief(n) == {p \in {f.pid : f \in {g \in Foci : g.app = n}} : Used(p) \in 1..AppShortMax}

LEMMA UsedProcs ==
  ASSUME Orderly
  PROVE  /\ Foci \subseteq Focus
         /\ \A p : Used(p) \in Nat /\ (Used(p) > 0 <=> p \in Procs)
<1>1. Foci \subseteq Focus
  BY CoveredIs DEF Foci, Range
<1>2. ASSUME NEW p PROVE Used(p) \in Nat /\ (Used(p) > 0 <=> p \in Procs)
  <2>1. Mine(p) \subseteq Valid /\ (Mine(p) # {} <=> p \in Procs)
    BY DEF Mine, Procs
  <2>2. Used(p) = Cardinality(Spent(Mine(p)))
    BY UsedIs
  <2>3. Cardinality(Spent(Mine(p))) \in Nat /\ (Cardinality(Spent(Mine(p))) > 0 <=> Mine(p) # {})
    BY <2>1, TotalIs
  <2> QED
    BY <2>1, <2>2, <2>3
<1> QED
  BY <1>1, <1>2

LEMMA BriefIs ==
  ASSUME Orderly, NEW n
  PROVE  IsFiniteSet(Named(n)) /\ Cardinality(Brief(n)) \in Nat
         /\ Cardinality(Brief(n)) <= Cardinality(Named(n))
<1>0. AppShortMax \in Nat
  BY AggregationAssumption
<1> DEFINE v == Named(n)
           f == [a \in v |-> a.pid]
           P == {f[a] : a \in v}
<1>1. IsFiniteSet(v)
  <2>1. v \in SUBSET Aggs
    BY DEF Named, Short
  <2> QED
    BY <2>1, TreeIs, FS_Subset
<1>2. ASSUME NEW p \in Brief(n) PROVE p \in P
  <2>1. PICK g \in Foci : g.app = n /\ g.pid = p
    BY DEF Brief
  <2>2. Used(p) > 0 /\ Used(p) <= AppShortMax
    BY <1>0 DEF Brief
  <2>3. p \in Procs /\ g \in Focus
    BY <2>2, UsedProcs
  <2>4. Agg(p).app = n /\ Agg(p).total = Used(p) /\ Agg(p).pid = p
    BY <2>1, <2>3, AggIs
  <2>5. Agg(p) \in v
    BY <2>2, <2>3, <2>4, TreeIs DEF Named, Short
  <2> QED
    BY <2>4, <2>5
<1>3. DOMAIN f = v /\ f = [a \in v |-> f[a]]
  OBVIOUS
<1> HIDE DEF v, f
<1>4. IsFiniteSet(P) /\ Cardinality(P) <= Cardinality(v) /\ Cardinality(P) \in Nat
  BY <1>1, <1>3, ValuesOf
<1>5. Cardinality(v) \in Nat
  BY <1>1, FS_CardinalityType
<1> HIDE DEF P
<1>6. Brief(n) \in SUBSET P
  BY <1>2
<1>7. IsFiniteSet(Brief(n)) /\ Cardinality(Brief(n)) <= Cardinality(P)
  BY <1>4, <1>6, FS_Subset
<1>8. Cardinality(Brief(n)) \in Nat
  BY <1>7, FS_CardinalityType
<1> QED
  BY <1>1, <1>4, <1>5, <1>7, <1>8 DEF v

LEMMA TreeAccounts ==
  ASSUME Orderly
  PROVE  /\ \A e \in Tree : e.total = SumFunction([p \in e.procs |-> Used(p)])
         /\ \A d, e \in Tree : d # e => d.procs \cap e.procs = {}
         /\ \A f \in Foci : Used(f.pid) > 0 =>
               \/ \E e \in Tree : f.pid \in e.procs
               \/ Used(f.pid) <= AppShortMax /\ Cardinality(Brief(f.app)) < AppShortMin
         /\ \A e \in Tree : e.total > AppShortMax /\ Cardinality(e.procs) = 1 =>
               ShowsWindows(e, e.pid)
<1>0. AppShortMax \in Nat /\ AppShortMin \in Nat
  BY AggregationAssumption
<1>1. ASSUME NEW d \in Tree, NEW e \in Tree, NEW p, p \in d.procs, p \in e.procs
      PROVE  d = e
  <2>1. \/ Agg(p).total > AppShortMax /\ d = AppEntry(Agg(p))
        \/ Agg(p).total <= AppShortMax /\ d = AppGroupEntry(Named(Agg(p).app))
    BY <1>1, EntryOf
  <2>2. /\ p \in Procs
        /\ \/ Agg(p).total > AppShortMax /\ e = AppEntry(Agg(p))
           \/ Agg(p).total <= AppShortMax /\ e = AppGroupEntry(Named(Agg(p).app))
    BY <1>1, EntryOf
  <2>3. Agg(p).total \in Nat
    BY <2>2, AggIs
  <2>4. ~(Agg(p).total > AppShortMax /\ Agg(p).total <= AppShortMax)
    BY <1>0, <2>3
  <2> QED
    BY <2>1, <2>2, <2>4
<1>2. ASSUME NEW f \in Foci, Used(f.pid) > 0
      PROVE  \/ \E e \in Tree : f.pid \in e.procs
             \/ Used(f.pid) <= AppShortMax /\ Cardinality(Brief(f.app)) < AppShortMin
  <2> DEFINE p == f.pid
             a == Agg(p)
  <2>1. p \in Procs /\ f \in Focus
    BY <1>2, UsedProcs
  <2>2. a.app = f.app /\ a.total = Used(p) /\ a.total \in Nat /\ a.pid = p /\ a \in Aggs
    BY <2>1, AggIs, TreeIs
  <2>3. CASE a.total > AppShortMax
    <3>1. AppEntry(a) \in Tree /\ p \in AppEntry(a).procs
      BY <2>1, <2>2, <2>3, TreeIs, EntriesAre
    <3> QED
      BY <3>1
  <2>4. CASE a.total <= AppShortMax
    <3>1. a \in Short /\ a \in Named(a.app)
      BY <2>2, <2>4 DEF Short, Named
    <3>2. CASE Cardinality(Named(a.app)) >= AppShortMin
      <4>1. AppGroupEntry(Named(a.app)) \in Tree
        BY <3>1, <3>2, TreeIs
      <4>2. p \in AppGroupEntry(Named(a.app)).procs
        BY <2>2, <3>1, EntriesAre
      <4> QED
        BY <4>1, <4>2
    <3>3. CASE ~(Cardinality(Named(a.app)) >= AppShortMin)
      <4> DEFINE n == f.app
      <4>1. /\ IsFiniteSet(Named(n)) /\ Cardinality(Brief(n)) \in Nat
            /\ Cardinality(Brief(n)) <= Cardinality(Named(n))
        BY BriefIs
      <4>2. Cardinality(Named(n)) \in Nat
        BY <4>1, FS_CardinalityType
      <4>3. ~(Cardinality(Named(n)) >= AppShortMin)
        BY <2>2, <3>3
      <4> QED
        BY <1>0, <2>2, <2>4, <4>1, <4>2, <4>3
    <3> QED
      BY <3>2, <3>3
  <2> QED
    BY <1>0, <2>2, <2>3, <2>4
<1>3. ASSUME NEW e \in Tree, e.total > AppShortMax, Cardinality(e.procs) = 1
      PROVE  ShowsWindows(e, e.pid)
  <2>1. PICK p : e.procs = {p}
    <3>1. IsFiniteSet(e.procs)
      <4>1. CASE \E q \in Procs : e = AppEntry(Agg(q))
        <5>1. PICK q \in Procs : e = AppEntry(Agg(q))
          BY <4>1
        <5>2. e.procs = {q}
          BY <5>1, EntriesAre, AggIs
        <5> QED
          BY <5>2, FS_Singleton
      <4>2. CASE \E n : e = AppGroupEntry(Named(n))
        <5>1. PICK n : e = AppGroupEntry(Named(n))
          BY <4>2
        <5>2. e.procs = {a.pid : a \in Named(n)}
          BY <5>1, EntriesAre
        <5>3. e.procs \in SUBSET Procs
          BY <5>2, TreeIs DEF Named, Short
        <5> QED
          BY <5>3, TreeIs, FS_Subset
      <4> QED
        BY <4>1, <4>2, TreeIs
    <3> QED
      BY <1>3, <3>1, FS_Singleton
  <2>2. /\ p \in Procs
        /\ \/ Agg(p).total > AppShortMax /\ e = AppEntry(Agg(p))
           \/ Agg(p).total <= AppShortMax /\ e = AppGroupEntry(Named(Agg(p).app))
    BY <2>1, EntryOf
  <2>3. e.total = Used(p)
    <3> DEFINE T == Spent(Mine(p))
    <3>1. IsFiniteSet(T) /\ Used(p) = Cardinality(T)
      BY <2>2, ProcsApart
    <3>2. e.total = SumFunction([q \in {p} |-> Used(q)])
      BY <2>1, EntryTotals
    <3>3. [q \in {p} |-> Used(q)] = [q \in {p} |-> Cardinality(T)]
      BY <3>1
    <3> HIDE DEF T
    <3>4. SumFunction([q \in {p} |-> Cardinality(T)]) = Cardinality(T)
      BY <3>1, SumOfOne
    <3> QED
      BY <3>1, <3>2, <3>3, <3>4
  <2>4. Agg(p).total = Used(p) /\ Used(p) \in Nat /\ Agg(p).pid = p
    BY <2>2, AggIs
  <2>5. ~(Agg(p).total <= AppShortMax)
    BY <1>0, <1>3, <2>3, <2>4
  <2>6. e = AppEntry(Agg(p)) /\ e.pid = p
    BY <2>2, <2>4, <2>5, EntriesAre
  <2> QED
    BY <2>2, <2>6, EntryWindows
<1> QED
  BY <1>1, <1>2, <1>3, EntryTotals

LEMMA AppsAccount ==
  ASSUME AppsInv
  PROVE  AppsAccountForTime
<1>1. CASE bus.snapshot = EmptySnapshot
  <2>1. bus.snapshot.records = <<>> /\ bus.snapshot.apps = {} /\ Range(<<>>) = {}
    BY <1>1 DEF EmptySnapshot, Range
  <2> QED
    BY <2>1 DEF AppsAccountForTime
<1>2. CASE Orderly /\ bus.snapshot.apps = Tree
  <2> DEFINE Wins(p) == {w \in {f.win : f \in Foci} : Time(p, w) > 0}
  <2>1. \A p : Wins(p) = Ids(p)
    <3> SUFFICES ASSUME NEW p PROVE Wins(p) = Ids(p)
      OBVIOUS
    <3>1. \A w : Time(p, w) > 0 <=> w \in Ids(p)
      BY <1>2, WindowsAre
    <3>2. \A w \in Ids(p) : w \in {f.win : f \in Foci}
      BY <1>2, CoveredIs DEF Ids, Mine, Foci, Range
    <3> QED
      BY <3>1, <3>2
  <2>2. /\ \A e \in bus.snapshot.apps : e.total = SumFunction([p \in e.procs |-> Used(p)])
        /\ \A d, e \in bus.snapshot.apps : d # e => d.procs \cap e.procs = {}
        /\ \A f \in Foci : Used(f.pid) > 0 =>
              \/ \E e \in bus.snapshot.apps : f.pid \in e.procs
              \/ Used(f.pid) <= AppShortMax /\ Cardinality(Brief(f.app)) < AppShortMin
        /\ \A e \in bus.snapshot.apps : e.total > AppShortMax /\ Cardinality(e.procs) = 1 =>
              ShowsWindows(e, e.pid)
    BY <1>2, TreeAccounts
  <2>3. \A e, p : ShowsWindows(e, p) =>
          LET shown == UNION {v.members : v \in e.windows}
              alone == {v \in e.windows : ~v.group}
          IN  /\ shown \subseteq Wins(p)
              /\ \A u, v \in e.windows : u # v => u.members \cap v.members = {}
              /\ \A v \in e.windows : v.dur = SumFunction([w \in v.members |-> Time(p, w)])
              /\ \A w \in Wins(p) \ shown :
                    /\ MaxWindows > 0 /\ Cardinality(alone) = MaxWindows
                    /\ \A v \in alone : \A u \in v.members : Max(Ends(p, u)) > Max(Ends(p, w))
    <3> HIDE DEF Wins
    <3> QED
      BY <2>1 DEF ShowsWindows
  <2> HIDE DEF Wins
  <2>4. /\ \A e \in bus.snapshot.apps : e.total = SumFunction([p \in e.procs |-> Used(p)])
        /\ \A d, e \in bus.snapshot.apps : d # e => d.procs \cap e.procs = {}
        /\ \A f \in Foci : Used(f.pid) > 0 =>
              \/ \E e \in bus.snapshot.apps : f.pid \in e.procs
              \/ Used(f.pid) <= AppShortMax /\ Cardinality(Brief(f.app)) < AppShortMin
        /\ \A e \in bus.snapshot.apps : e.total > AppShortMax /\ Cardinality(e.procs) = 1 =>
              LET shown == UNION {v.members : v \in e.windows}
                  alone == {v \in e.windows : ~v.group}
              IN  /\ shown \subseteq Wins(e.pid)
                  /\ \A u, v \in e.windows : u # v => u.members \cap v.members = {}
                  /\ \A v \in e.windows :
                        v.dur = SumFunction([w \in v.members |-> Time(e.pid, w)])
                  /\ \A w \in Wins(e.pid) \ shown :
                        /\ MaxWindows > 0 /\ Cardinality(alone) = MaxWindows
                        /\ \A v \in alone : \A u \in v.members :
                              Max(Ends(e.pid, u)) > Max(Ends(e.pid, w))
    BY <2>2, <2>3
  <2> QED
    BY <2>4 DEF AppsAccountForTime, Used, Time, Foci, Brief, Wins, Ends, Recs, Seconds
<1> QED
  BY <1>1, <1>2 DEF AppsInv, Tree, Aggs

LEMMA PublishedApps ==
  ASSUME TInv, StageBegins \/ PublishNow \/ HandleShutdown \/ HandleComplete
  PROVE  \/ bus' = bus
         \/ /\ bus'.snapshot.at = now /\ bus'.snapshot.records = stage'.records
            /\ bus'.snapshot.apps =
                  build_app_tree(aggregate_activities_since(stage'.records, now - Retention))
<1> DEFINE Shown == /\ bus'.snapshot.at = now /\ bus'.snapshot.records = stage'.records
                    /\ bus'.snapshot.apps =
                          build_app_tree(aggregate_activities_since(stage'.records, now - Retention))
<1> SUFFICES bus' = bus \/ Shown
  OBVIOUS
<1>1. ASSUME NEW s, NEW buf, \A x : [s EXCEPT !.records = x].records = x,
             publish_snapshot(s, buf)
      PROVE  Shown
  <2> DEFINE recs == Trim(s.records, now - Retention)
             apps == build_app_tree(aggregate_activities_since(recs, now - Retention))
             recent == recent_transitions(buf, RecentLimit)
  <2>1. /\ stage' = [s EXCEPT !.records = recs]
        /\ bus' = [transitions |-> buf,
                   snapshot |-> [at |-> now, state |-> s.state, last |-> s.last,
                                 recent |-> recent, records |-> recs, apps |-> apps]]
    BY <1>1 DEF publish_snapshot
  <2> HIDE DEF recs, recent
  <2>2. stage'.records = recs
    BY <1>1, <2>1
  <2>3. bus'.snapshot.at = now /\ bus'.snapshot.records = recs /\ bus'.snapshot.apps = apps
    <3> HIDE DEF apps
    <3> QED
      BY <2>1
  <2> QED
    BY <2>2, <2>3
<1>2. stage \in StageType
  BY DEF TInv, TypeInv
<1> HIDE DEF Shown
<1>3. CASE StageBegins
  <2>1. publish_snapshot(Replay(stage), PushAll(stage.transitions))
    BY <1>3 DEF StageBegins
  <2>2. \A x : [Replay(stage) EXCEPT !.records = x].records = x
    BY <1>2 DEF Replay, StageType
  <2> QED
    BY <1>1, <2>1, <2>2
<1>4. \A s \in StageType : \A x : [s EXCEPT !.records = x].records = x
  BY DEF StageType
<1>5. CASE PublishNow
  <2>1. publish_snapshot(stage, bus.transitions)
    BY <1>5 DEF PublishNow
  <2> QED
    BY <1>1, <1>2, <1>4, <2>1
<1>6. ASSUME NEW k, NEW s \in StageType, Finish(k, s)
      PROVE  bus' = bus \/ Shown
  <2>1. CASE s.shutdown /\ s.complete
    <3>1. publish_snapshot(s, bus.transitions)
      BY <1>6, <2>1 DEF Finish
    <3> QED
      BY <1>1, <1>4, <3>1
  <2>2. CASE ~(s.shutdown /\ s.complete)
    BY <1>6, <2>2 DEF Finish
  <2> QED
    BY <2>1, <2>2
<1>7. CASE HandleShutdown
  <2>1. [stage EXCEPT !.shutdown = TRUE] \in StageType
    BY <1>2 DEF StageType
  <2> QED
    BY <1>6, <1>7, <2>1 DEF HandleShutdown
<1>8. CASE HandleComplete
  <2>1. [stage EXCEPT !.complete = TRUE] \in StageType
    BY <1>2 DEF StageType
  <2> QED
    BY <1>6, <1>8, <2>1 DEF HandleComplete
<1> QED
  BY <1>3, <1>5, <1>7, <1>8

(* The snapshot on the bus is the initial one, or one that was published.  *)
LEMMA AppsInvariant == Spec => []AppsInv
<1>1. Init => AppsInv
  BY DEF Init, NoBus, AppsInv
<1>2. ASSUME SInv, SInv', AppsInv, [Next]_vars
      PROVE  AppsInv'
  <2>0. TInv
    BY <1>2 DEF SInv, HInv
  <2>1. CASE bus'.snapshot = bus.snapshot
    BY <1>2, <2>1 DEF AppsInv, Orderly, Recs, Since
  <2>2. CASE daemon'.phase = "down"
    <3>1. bus' = NoBus
      BY <1>2, <2>2 DEF SInv, HInv, TInv, PhaseInv
    <3> QED
      BY <3>1 DEF NoBus, AppsInv
  <2>3. CASE daemon'.phase # "down" /\ bus'.snapshot # bus.snapshot
    <3>1. StageBegins \/ PublishNow \/ HandleShutdown \/ HandleComplete
      BY <1>2, <2>0, <2>3, SnapshotKept
    <3>2. /\ bus'.snapshot.at = now /\ bus'.snapshot.records = stage'.records
          /\ bus'.snapshot.apps =
                build_app_tree(aggregate_activities_since(stage'.records, now - Retention))
          /\ now' = now
      BY <2>0, <2>3, <3>1, PublishedApps, PublishedBy
    <3>3. /\ now \in Nat /\ stage'.records \in Seq(Record)
          /\ Listed(stage'.records, daemon'.run, past'.lost, now')
      BY <1>2, <2>3, Limits DEF SInv, HInv, TInv, TypeInv, StageType, StageInv
    <3>4. Orderly'
      BY <3>2, <3>3 DEF Orderly, Recs, Listed, Apart, Closed
    <3>5. bus'.snapshot.apps = build_app_tree(aggregate_activities_since(Recs, Since))'
      BY <3>2 DEF Recs, Since
    <3> QED
      BY <3>4, <3>5 DEF AppsInv
  <2> QED
    BY <2>1, <2>2, <2>3
<1> QED
  BY <1>1, <1>2, StageInvariant, PTL DEF Spec

(* The applications and windows of every snapshot account for the time of  *)
(* its records: totals are seconds with the focus, none counted twice, no  *)
(* process is in two entries or left out unless it and those of its name   *)
(* are few and short, and no window is shown twice or left out unless      *)
(* enough newer ones are shown (aggregate_activities_since,                *)
(* build_app_tree).                                                        *)
THEOREM TimeAccounted == Spec => []AppsAccountForTime
BY AppsInvariant, AppsAccount, PTL

=============================================================================
