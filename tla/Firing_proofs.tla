---------------------------- MODULE Firing_proofs ----------------------------
(* Theorems about Firing, for any number of events and of open blocks, and  *)
(* whatever receivers, blocks and callers there are.                        *)
EXTENDS Firing, Extremes, SequenceTheorems

-----------------------------------------------------------------------------
(* Sequences.                                                              *)

LEMMA Pushed ==
  ASSUME NEW X, NEW s \in Seq(X), NEW f \in X
  PROVE  /\ Append(s, f) \in Seq(X) /\ Append(s, f) # <<>>
         /\ Len(Append(s, f)) = Len(s) + 1
         /\ \A i \in 1..Len(s) : Append(s, f)[i] = s[i]
         /\ Append(s, f)[Len(s) + 1] = f /\ Last(Append(s, f)) = f
BY AppendProperties, LenProperties DEF Last

LEMMA Popped ==
  ASSUME NEW X, NEW s \in Seq(X), s # <<>>
  PROVE  /\ Len(s) \in Nat /\ Len(s) > 0
         /\ Front(s) \in Seq(X) /\ Len(Front(s)) = Len(s) - 1
         /\ \A i \in 1..(Len(s) - 1) : Front(s)[i] = s[i]
         /\ Last(s) = s[Len(s)] /\ Last(s) \in X
<1>1. Len(s) \in Nat /\ Len(s) > 0 /\ \A i \in 1..Len(s) : s[i] \in X
  BY EmptySeq, LenProperties, ElementOfSeq
<1> DEFINE n == Len(s) - 1
<1>2. n \in Int /\ \A i \in 1..n : s[i] \in X
  BY <1>1
<1>3. /\ SubSeq(s, 1, n) \in Seq(X) /\ Len(SubSeq(s, 1, n)) = IF 1 <= n THEN n - 1 + 1 ELSE 0
      /\ \A i \in 1..(n - 1 + 1) : SubSeq(s, 1, n)[i] = s[1 + i - 1]
  BY <1>2, SubSeqProperties
<1>4. \A i \in 1..n : SubSeq(s, 1, n)[i] = s[i]
  BY <1>2, <1>3
<1>5. Front(s) = SubSeq(s, 1, n) /\ Last(s) = s[Len(s)]
  BY DEF Front, Last
<1>6. n \in Nat
  BY <1>1
<1> HIDE DEF n
<1>7. Len(SubSeq(s, 1, n)) = n
  BY <1>3, <1>6
<1>8. n = Len(s) - 1
  BY DEF n
<1> QED
  BY <1>1, <1>3, <1>4, <1>5, <1>7, <1>8

\* The last element replaced.
LEMMA Swapped ==
  ASSUME NEW X, NEW s \in Seq(X), s # <<>>, NEW f \in X
  PROVE  /\ Append(Front(s), f) \in Seq(X) /\ Append(Front(s), f) # <<>>
         /\ Len(Append(Front(s), f)) = Len(s)
         /\ \A i \in 1..(Len(s) - 1) : Append(Front(s), f)[i] = s[i]
         /\ Append(Front(s), f)[Len(s)] = f /\ Last(Append(Front(s), f)) = f
<1>1. /\ Len(s) \in Nat /\ Len(s) > 0 /\ Front(s) \in Seq(X) /\ Len(Front(s)) = Len(s) - 1
      /\ \A i \in 1..(Len(s) - 1) : Front(s)[i] = s[i]
  BY Popped
<1>2. PICK t \in Seq(X) : t = Front(s)
  BY <1>1
<1>3. /\ Append(t, f) \in Seq(X) /\ Append(t, f) # <<>> /\ Len(Append(t, f)) = Len(t) + 1
      /\ \A i \in 1..Len(t) : Append(t, f)[i] = t[i]
      /\ Append(t, f)[Len(t) + 1] = f /\ Last(Append(t, f)) = f
  BY Pushed
<1> QED
  BY <1>1, <1>2, <1>3

-----------------------------------------------------------------------------
(* Frames that lie on one another.                                         *)

Stack == Seq(Frame)

\* What the invariants tell frames apart by.
Alike(f, g) ==
  /\ f.kind = g.kind /\ f.event = g.event /\ f.token = g.token /\ f.from = g.from
  /\ f.mark = g.mark /\ f.given = g.given

LEMMA StackedPushed ==
  ASSUME NEW s \in Stack, NEW f \in Frame, Stacked(s),
         f.kind = "inline" => s # <<>> /\ Last(s).kind = "firing" /\ Last(s).event = f.event,
         f.kind = "callback" <=> s # <<>> /\ Last(s).kind = "hooks",
         f.kind = "hooks" => ~InAtomic(s),
         f.kind # "hooks" => f.todo = <<>>
  PROVE  Stacked(Append(s, f))
<1> DEFINE t == Append(s, f)
<1>1. /\ t \in Seq(Frame) /\ Len(t) = Len(s) + 1 /\ t[Len(s) + 1] = f
      /\ \A i \in 1..Len(s) : t[i] = s[i]
  BY Pushed DEF Stack
<1>2. Len(s) \in Nat /\ DOMAIN s = 1..Len(s) /\ DOMAIN t = 1..(Len(s) + 1)
  BY <1>1, LenProperties DEF Stack
<1> HIDE DEF t
<1>3. s # <<>> => Len(s) > 0 /\ Last(s) = s[Len(s)]
  BY Popped DEF Stack
<1>4. Len(s) > 0 => s # <<>>
  BY EmptySeq
<1>5. ASSUME NEW i \in 1..Len(s)
      PROVE  AtomicBelow(t, i) <=> AtomicBelow(s, i)
  BY <1>1, <1>2, <1>5 DEF AtomicBelow
<1>6. ~InAtomic(s) => ~AtomicBelow(t, Len(s) + 1)
  BY <1>1, <1>2 DEF AtomicBelow, InAtomic
<1>7. ASSUME NEW i \in 1..Len(s)
      PROVE  /\ t[i].kind = "inline" => i > 1 /\ t[i - 1].kind = "firing" /\ t[i - 1].event = t[i].event
             /\ t[i].kind = "callback" <=> i > 1 /\ t[i - 1].kind = "hooks"
             /\ t[i].kind = "hooks" => ~AtomicBelow(t, i)
             /\ t[i].kind # "hooks" => t[i].todo = <<>>
  <2>1. t[i] = s[i] /\ (i > 1 => t[i - 1] = s[i - 1])
    BY <1>1, <1>2
  <2> QED
    BY <1>2, <1>5, <2>1 DEF Stacked
<1>8. /\ f.kind = "inline" => Len(s) + 1 > 1 /\ t[Len(s) + 1 - 1].kind = "firing" /\ t[Len(s) + 1 - 1].event = f.event
      /\ f.kind = "callback" <=> Len(s) + 1 > 1 /\ t[Len(s) + 1 - 1].kind = "hooks"
  <2>1. Len(s) > 0 => t[Len(s) + 1 - 1] = s[Len(s)]
    BY <1>1, <1>2
  <2> QED
    BY <1>2, <1>3, <1>4, <2>1
<1>9. \A i \in DOMAIN t : i \in 1..Len(s) \/ i = Len(s) + 1
  BY <1>2
<1> QED
  BY <1>1, <1>6, <1>7, <1>8, <1>9 DEF Stacked, t

\* Frames below the last are the ones there were.
LEMMA StackedPopped ==
  ASSUME NEW s \in Stack, s # <<>>, Stacked(s)
  PROVE  Stacked(Front(s))
<1> DEFINE t == Front(s)
<1>1. t \in Seq(Frame) /\ Len(t) = Len(s) - 1 /\ \A i \in 1..(Len(s) - 1) : t[i] = s[i]
  BY Popped DEF Stack
<1>2. Len(s) \in Nat /\ Len(s) > 0 /\ DOMAIN s = 1..Len(s) /\ DOMAIN t = 1..(Len(s) - 1)
  BY <1>1, Popped, LenProperties DEF Stack
<1> HIDE DEF t
<1>3. ASSUME NEW i \in 1..(Len(s) - 1)
      PROVE  AtomicBelow(t, i) <=> AtomicBelow(s, i)
  BY <1>1, <1>2 DEF AtomicBelow
<1>4. ASSUME NEW i \in 1..(Len(s) - 1)
      PROVE  t[i] = s[i] /\ (i > 1 => t[i - 1] = s[i - 1]) /\ i \in DOMAIN s
  BY <1>1, <1>2
<1> QED
  BY <1>2, <1>3, <1>4 DEF Stacked, t

LEMMA StackedSwapped ==
  ASSUME NEW s \in Stack, s # <<>>, NEW f \in Frame, Stacked(s), Alike(f, Last(s)),
         f.kind # "hooks" => f.todo = <<>>
  PROVE  Stacked(Append(Front(s), f))
<1> DEFINE t == Append(Front(s), f)
<1>1. t \in Seq(Frame) /\ Len(t) = Len(s) /\ t[Len(s)] = f /\ \A i \in 1..(Len(s) - 1) : t[i] = s[i]
  BY Swapped DEF Stack
<1>2. Len(s) \in Nat /\ Len(s) > 0 /\ DOMAIN s = 1..Len(s) /\ DOMAIN t = 1..Len(s) /\ Last(s) = s[Len(s)]
  BY <1>1, Popped, LenProperties DEF Stack
<1> HIDE DEF t
<1>3. ASSUME NEW i \in 1..Len(s)
      PROVE  AtomicBelow(t, i) <=> AtomicBelow(s, i)
  BY <1>1, <1>2 DEF AtomicBelow
<1>4. ASSUME NEW i \in 1..Len(s)
      PROVE  /\ t[i].kind = s[i].kind /\ t[i].event = s[i].event /\ (i > 1 => t[i - 1] = s[i - 1])
             /\ i < Len(s) => t[i].todo = s[i].todo
  BY <1>1, <1>2 DEF Alike
<1>5. ASSUME NEW i \in 1..Len(s)
      PROVE  t[i].kind # "hooks" => t[i].todo = <<>>
  BY <1>1, <1>2, <1>4 DEF Stacked
<1>6. ASSUME NEW i \in 1..Len(s)
      PROVE  i > 1 => t[i - 1] = s[i - 1]
  BY <1>1, <1>2
<1>7. ASSUME NEW i \in 1..Len(s)
      PROVE  /\ t[i].kind = "inline" => i > 1 /\ t[i - 1].kind = "firing" /\ t[i - 1].event = t[i].event
             /\ t[i].kind = "callback" <=> i > 1 /\ t[i - 1].kind = "hooks"
             /\ t[i].kind = "hooks" => ~AtomicBelow(t, i)
  BY <1>2, <1>3, <1>4, <1>6 DEF Stacked
<1>8. Stacked(t)
  BY <1>2, <1>5, <1>7 DEF Stacked
<1> QED
  BY <1>8 DEF t

LEMMA Bounds == MaxEvents \in Nat /\ MaxOpen \in Nat /\ Classes # {} /\ Receivers \subseteq Nat
BY ConstantsAssumption

LEMMA FrameIs ==
  ASSUME NEW f \in Frame
  PROVE  f.from \in Nat /\ f.mark \in Nat /\ f.event \in Nat /\ f.event <= MaxEvents
<1>1. f.from \in 0..MaxEvents /\ f.mark \in Nat /\ f.event \in (1..MaxEvents) \cup {0}
  BY DEF Frame, Ids
<1> QED
  BY <1>1, Bounds

\* One more frame, entered when there were n events, and if atomic m callbacks.
LEMMA DatedPushed ==
  ASSUME NEW s \in Stack, NEW f \in Frame, NEW n \in Nat, NEW m \in Nat, NEW l \in Nat, n <= l,
         Dated(s, n, m), f.from = n, f.kind = "firing" => f.event = n + 1 /\ n < l,
         f.kind = "atomic" => f.mark = m /\ (~InAtomic(s) => m = 0)
  PROVE  Dated(Append(s, f), l, m)
<1> DEFINE t == Append(s, f)
<1>1. /\ t \in Seq(Frame) /\ Len(t) = Len(s) + 1 /\ t[Len(s) + 1] = f
      /\ \A i \in 1..Len(s) : t[i] = s[i]
  BY Pushed DEF Stack
<1>2. Len(s) \in Nat /\ DOMAIN s = 1..Len(s) /\ DOMAIN t = 1..(Len(s) + 1)
  BY <1>1, LenProperties DEF Stack
<1> HIDE DEF t
<1>3. \A i \in 1..Len(s) : s[i].from \in Nat /\ s[i].mark \in Nat /\ s[i].event \in Nat
  BY ElementOfSeq, FrameIs DEF Stack
<1>4. ASSUME NEW i \in 1..Len(s)
      PROVE  t[i] = s[i] /\ i \in DOMAIN s /\ (AtomicBelow(t, i) <=> AtomicBelow(s, i))
  BY <1>1, <1>2, <1>4 DEF AtomicBelow
<1>5. ASSUME NEW i \in 1..Len(s)
      PROVE  /\ t[i].from <= l
             /\ t[i].kind = "firing" => t[i].event = t[i].from + 1 /\ t[i].event <= l
             /\ t[i].kind = "atomic" => t[i].mark <= m
             /\ t[i].kind = "atomic" /\ ~AtomicBelow(t, i) => t[i].mark = 0
  BY <1>3, <1>4 DEF Dated
<1>6. ASSUME NEW i \in 1..Len(s), NEW j \in 1..(i - 1)
      PROVE  /\ t[j].from <= t[i].from
             /\ t[j].kind = "firing" => t[j].event <= t[i].from
             /\ t[j].kind = "atomic" /\ t[i].kind = "atomic" => t[j].mark <= t[i].mark
  <2>1. t[i] = s[i] /\ t[j] = s[j] /\ i \in DOMAIN s
    BY <1>2, <1>4
  <2> QED
    BY <2>1 DEF Dated
<1>7. ASSUME NEW j \in 1..Len(s)
      PROVE  /\ t[j].from <= f.from
             /\ t[j].kind = "firing" => t[j].event <= f.from
             /\ t[j].kind = "atomic" /\ f.kind = "atomic" => t[j].mark <= f.mark
  BY <1>4 DEF Dated
<1>8. f.kind = "atomic" /\ ~AtomicBelow(t, Len(s) + 1) => f.mark = 0
  BY <1>1, <1>2 DEF AtomicBelow, InAtomic
<1>9. \A i \in DOMAIN t : i \in 1..Len(s) \/ i = Len(s) + 1
  BY <1>2
<1>10. Dated(t, l, m)
  BY <1>1, <1>2, <1>5, <1>6, <1>7, <1>8, <1>9 DEF Dated
<1> QED
  BY <1>10 DEF t

LEMMA DatedGrows ==
  ASSUME NEW s \in Stack, NEW n \in Nat, NEW m \in Nat, NEW l \in Nat, NEW k \in Nat,
         n <= l, m <= k, Dated(s, n, m)
  PROVE  Dated(s, l, k)
<1>1. \A i \in DOMAIN s : s[i].from \in Nat /\ s[i].mark \in Nat /\ s[i].event \in Nat
  BY ElementOfSeq, LenProperties, FrameIs DEF Stack
<1> QED
  BY <1>1 DEF Dated

\* Below the last frame nothing is later than its entry, and no mark is further.
LEMMA DatedPopped ==
  ASSUME NEW s \in Stack, s # <<>>, NEW n \in Nat, NEW m \in Nat, Dated(s, n, m)
  PROVE  Dated(Front(s), n, m) /\ (Last(s).kind = "atomic" => Dated(Front(s), n, Last(s).mark))
<1> DEFINE t == Front(s)
<1>1. t \in Seq(Frame) /\ Len(t) = Len(s) - 1 /\ \A i \in 1..(Len(s) - 1) : t[i] = s[i]
  BY Popped DEF Stack
<1>2. /\ Len(s) \in Nat /\ Len(s) > 0 /\ DOMAIN s = 1..Len(s) /\ DOMAIN t = 1..(Len(s) - 1)
      /\ Last(s) = s[Len(s)]
  BY <1>1, Popped, LenProperties DEF Stack
<1> HIDE DEF t
<1>3. ASSUME NEW i \in DOMAIN t
      PROVE  t[i] = s[i] /\ i \in DOMAIN s /\ (AtomicBelow(t, i) <=> AtomicBelow(s, i))
  BY <1>1, <1>2 DEF AtomicBelow
<1>4. ASSUME NEW i \in DOMAIN t, NEW j \in 1..(i - 1)
      PROVE  t[j] = s[j]
  BY <1>1, <1>2
<1>5. ASSUME NEW k, \A i \in DOMAIN t : t[i].kind = "atomic" => t[i].mark <= k
      PROVE  Dated(t, n, k)
  <2>1. ASSUME NEW i \in DOMAIN t
        PROVE  /\ t[i].from <= n
               /\ t[i].kind = "firing" => t[i].event = t[i].from + 1 /\ t[i].event <= n
               /\ t[i].kind = "atomic" /\ ~AtomicBelow(t, i) => t[i].mark = 0
    BY <1>3 DEF Dated
  <2>2. ASSUME NEW i \in DOMAIN t, NEW j \in 1..(i - 1)
        PROVE  /\ t[j].from <= t[i].from
               /\ t[j].kind = "firing" => t[j].event <= t[i].from
               /\ t[j].kind = "atomic" /\ t[i].kind = "atomic" => t[j].mark <= t[i].mark
    BY <1>3, <1>4 DEF Dated
  <2> QED
    BY <1>5, <2>1, <2>2 DEF Dated
<1>6. \A i \in DOMAIN t : t[i].kind = "atomic" => t[i].mark <= m
  BY <1>3 DEF Dated
<1>7. Last(s).kind = "atomic" => \A i \in DOMAIN t : t[i].kind = "atomic" => t[i].mark <= Last(s).mark
  <2> SUFFICES ASSUME Last(s).kind = "atomic", NEW i \in DOMAIN t, t[i].kind = "atomic"
               PROVE  t[i].mark <= Last(s).mark
    OBVIOUS
  <2>1. Len(s) \in DOMAIN s /\ i \in 1..(Len(s) - 1) /\ t[i] = s[i]
    BY <1>2, <1>3
  <2> QED
    BY <1>2, <2>1 DEF Dated
<1> QED
  BY <1>5, <1>6, <1>7 DEF t

LEMMA DatedSwapped ==
  ASSUME NEW s \in Stack, s # <<>>, NEW f \in Frame, NEW n \in Nat, NEW m \in Nat,
         Dated(s, n, m), Alike(f, Last(s))
  PROVE  Dated(Append(Front(s), f), n, m)
<1> DEFINE t == Append(Front(s), f)
<1>1. t \in Seq(Frame) /\ Len(t) = Len(s) /\ t[Len(s)] = f /\ \A i \in 1..(Len(s) - 1) : t[i] = s[i]
  BY Swapped DEF Stack
<1>2. Len(s) \in Nat /\ Len(s) > 0 /\ DOMAIN s = 1..Len(s) /\ DOMAIN t = 1..Len(s) /\ Last(s) = s[Len(s)]
  BY <1>1, Popped, LenProperties DEF Stack
<1> HIDE DEF t
<1>3. \A i \in 1..Len(s) :
        t[i].kind = s[i].kind /\ t[i].event = s[i].event /\ t[i].from = s[i].from /\ t[i].mark = s[i].mark
  BY <1>1, <1>2 DEF Alike
<1>4. ASSUME NEW i \in 1..Len(s)
      PROVE  AtomicBelow(t, i) <=> AtomicBelow(s, i)
  BY <1>2, <1>3 DEF AtomicBelow
<1>5. ASSUME NEW i \in 1..Len(s), NEW j \in 1..(i - 1)
      PROVE  /\ t[j].from <= t[i].from
             /\ t[j].kind = "firing" => t[j].event <= t[i].from
             /\ t[j].kind = "atomic" /\ t[i].kind = "atomic" => t[j].mark <= t[i].mark
  <2>1. j \in 1..Len(s)
    BY <1>2
  <2> QED
    BY <1>2, <1>3, <2>1 DEF Dated
<1>6. Dated(t, n, m)
  BY <1>2, <1>3, <1>4, <1>5 DEF Dated
<1> QED
  BY <1>6 DEF t

-----------------------------------------------------------------------------
(* What the ContextVars tell of the frames.                                *)

LEMMA SuppressingIs ==
  ASSUME NEW s, NEW n \in Nat
  PROVE  /\ IsFiniteSet(Suppressing(s, n)) /\ Cardinality(Suppressing(s, n)) \in Nat
         /\ Cardinality(Suppressing(s, n + 1)) =
              Cardinality(Suppressing(s, n)) + (IF s[n + 1].kind = "suppressed" THEN 1 ELSE 0)
<1>1. IsFiniteSet(1..n) /\ Suppressing(s, n) \in SUBSET (1..n)
  BY FS_Interval DEF Suppressing
<1>2. IsFiniteSet(Suppressing(s, n))
  BY <1>1, FS_Subset
<1>3. CASE s[n + 1].kind = "suppressed"
  <2>1. Suppressing(s, n + 1) = Suppressing(s, n) \cup {n + 1} /\ n + 1 \notin Suppressing(s, n)
    BY <1>3 DEF Suppressing
  <2> QED
    BY <1>2, <1>3, <2>1, FS_AddElement, FS_CardinalityType
<1>4. CASE s[n + 1].kind # "suppressed"
  <2>1. Suppressing(s, n + 1) = Suppressing(s, n)
    BY <1>4 DEF Suppressing
  <2> QED
    BY <1>2, <1>4, <2>1, FS_CardinalityType
<1> QED
  BY <1>3, <1>4

\* Frames that are alike tell the same.
LEMMA TellsSame ==
  ASSUME NEW s, NEW t, NEW n \in Nat, NEW held, Tells(s, n, held),
         \A j \in 1..n : t[j].kind = s[j].kind /\ t[j].event = s[j].event /\ t[j].given = s[j].given
  PROVE  Tells(t, n, held)
<1>1. Suppressing(t, n) = Suppressing(s, n)
  BY DEF Suppressing
<1>2. \A j \in 1..n : (Receives(t[j]) <=> Receives(s[j])) /\ (Names(t[j]) <=> Names(s[j]))
  BY DEF Receives, Names
<1>3. \A j \in 1..n : \A k \in (j + 1)..n : k \in 1..n
  OBVIOUS
<1>4. TellsCause(t, n, held.cause)
  BY <1>2, <1>3 DEF Tells, TellsCause
<1>5. TellsActor(t, n, held.scope.actor)
  BY <1>2, <1>3 DEF Tells, TellsActor
<1> QED
  BY <1>1, <1>4, <1>5 DEF Tells

\* One more frame tells what it was entered with.
LEMMA TellsMore ==
  ASSUME NEW s, NEW n \in Nat, NEW held, NEW now, Tells(s, n, held),
         now.cause = IF Receives(s[n + 1]) THEN s[n + 1].event ELSE held.cause,
         now.scope.actor = IF Names(s[n + 1]) THEN s[n + 1].given.actor ELSE held.scope.actor,
         now.scope.chain = 0 <=> held.scope.chain = 0 /\ s[n + 1].kind # "attributed",
         Len(now.blocks) = Len(held.blocks) + (IF s[n + 1].kind = "suppressed" THEN 1 ELSE 0)
  PROVE  Tells(s, n + 1, now)
<1>1. TellsCause(s, n + 1, now.cause)
  <2>1. CASE Receives(s[n + 1])
    <3>1. n + 1 \in 1..(n + 1) /\ \A k \in (n + 1 + 1)..(n + 1) : ~Receives(s[k])
      OBVIOUS
    <3> QED
      BY <2>1, <3>1 DEF TellsCause
  <2>2. CASE ~Receives(s[n + 1])
    <3>1. TellsCause(s, n, now.cause)
      BY <2>2 DEF Tells
    <3>2. \A j \in 1..(n + 1) : j \in 1..n \/ j = n + 1
      OBVIOUS
    <3>3. \A j \in 1..n : j \in 1..(n + 1) /\ \A k \in (j + 1)..(n + 1) : k \in (j + 1)..n \/ k = n + 1
      OBVIOUS
    <3> QED
      BY <2>2, <3>1, <3>2, <3>3 DEF TellsCause
  <2> QED
    BY <2>1, <2>2
<1>2. TellsActor(s, n + 1, now.scope.actor)
  <2>1. CASE Names(s[n + 1])
    <3>1. n + 1 \in 1..(n + 1) /\ \A k \in (n + 1 + 1)..(n + 1) : ~Names(s[k])
      OBVIOUS
    <3> QED
      BY <2>1, <3>1 DEF TellsActor
  <2>2. CASE ~Names(s[n + 1])
    <3>1. TellsActor(s, n, now.scope.actor)
      BY <2>2 DEF Tells
    <3>2. \A j \in 1..(n + 1) : j \in 1..n \/ j = n + 1
      OBVIOUS
    <3>3. \A j \in 1..n : j \in 1..(n + 1) /\ \A k \in (j + 1)..(n + 1) : k \in (j + 1)..n \/ k = n + 1
      OBVIOUS
    <3> QED
      BY <2>2, <3>1, <3>2, <3>3 DEF TellsActor
  <2> QED
    BY <2>1, <2>2
<1>3. Len(now.blocks) = Cardinality(Suppressing(s, n + 1))
  BY SuppressingIs DEF Tells
<1>4. now.scope.chain = 0 <=> \A j \in 1..(n + 1) : s[j].kind # "attributed"
  <2>1. \A j \in 1..(n + 1) : j \in 1..n \/ j = n + 1
    OBVIOUS
  <2>2. n + 1 \in 1..(n + 1) /\ \A j \in 1..n : j \in 1..(n + 1)
    OBVIOUS
  <2> QED
    BY <2>1, <2>2 DEF Tells
<1> QED
  BY <1>1, <1>2, <1>3, <1>4 DEF Tells

\* A frame on top, with the context there was as its token.
LEMMA KeptPushed ==
  ASSUME NEW s \in Stack, NEW f \in Frame, NEW now, Kept(s, f.token),
         now.cause = IF Receives(f) THEN f.event ELSE f.token.cause,
         now.scope.actor = IF Names(f) THEN f.given.actor ELSE f.token.scope.actor,
         f.kind # "attributed" => now.scope = f.token.scope,
         f.kind = "attributed" => now.scope.chain # 0,
         Len(now.blocks) = Len(f.token.blocks) + (IF f.kind = "suppressed" THEN 1 ELSE 0)
  PROVE  Kept(Append(s, f), now)
<1> DEFINE t == Append(s, f)
<1>1. /\ t \in Seq(Frame) /\ Len(t) = Len(s) + 1 /\ t[Len(s) + 1] = f
      /\ \A i \in 1..Len(s) : t[i] = s[i]
  BY Pushed DEF Stack
<1>2. Len(s) \in Nat /\ DOMAIN s = 1..Len(s) /\ DOMAIN t = 1..(Len(s) + 1)
  BY <1>1, LenProperties DEF Stack
<1> HIDE DEF t
<1>3. Tells(t, Len(s), f.token)
  <2>1. Tells(s, Len(s), f.token)
    BY DEF Kept
  <2> QED
    BY <1>1, <1>2, <2>1, TellsSame
<1>4. Tells(t, Len(s) + 1, now)
  <2>1. PICK n \in Nat : n = Len(s)
    BY <1>2
  <2>2. t[n + 1] = f /\ Tells(t, n, f.token)
    BY <1>1, <1>3, <2>1
  <2>3. now.scope.chain = 0 <=> f.token.scope.chain = 0 /\ t[n + 1].kind # "attributed"
    BY <2>2
  <2>4. Tells(t, n + 1, now)
    BY <2>2, <2>3, TellsMore
  <2> QED
    BY <2>1, <2>4
<1>5. ASSUME NEW i \in 1..Len(s)
      PROVE  /\ Tells(t, i - 1, t[i].token)
             /\ ~Receives(t[i]) => Above(t, i, now).cause = t[i].token.cause
             /\ t[i].kind # "attributed" => Above(t, i, now).scope = t[i].token.scope
  <2>1. t[i] = s[i] /\ i \in DOMAIN s /\ i - 1 \in Nat
    BY <1>1, <1>2
  <2>2. \A j \in 1..(i - 1) : t[j] = s[j]
    BY <1>1, <1>2
  <2>3. Tells(s, i - 1, s[i].token)
    BY <2>1 DEF Kept
  <2>4. Tells(t, i - 1, t[i].token)
    BY <2>1, <2>2, <2>3, TellsSame
  <2>5. Above(t, i, now) = Above(s, i, f.token)
    BY <1>1, <1>2 DEF Above
  <2> QED
    BY <2>1, <2>4, <2>5 DEF Kept
<1>6. LET i == Len(s) + 1
      IN  /\ Tells(t, i - 1, t[i].token)
          /\ ~Receives(t[i]) => Above(t, i, now).cause = t[i].token.cause
          /\ t[i].kind # "attributed" => Above(t, i, now).scope = t[i].token.scope
  <2>1. Above(t, Len(s) + 1, now) = now /\ Len(s) + 1 - 1 = Len(s)
    BY <1>1, <1>2 DEF Above
  <2> QED
    BY <1>1, <1>3, <2>1
<1>7. \A i \in DOMAIN t : i \in 1..Len(s) \/ i = Len(s) + 1
  BY <1>2
<1>8. Kept(t, now)
  BY <1>1, <1>4, <1>5, <1>6, <1>7 DEF Kept
<1> QED
  BY <1>8 DEF t

\* The last frame left, and what it changed put back.
LEMMA KeptPopped ==
  ASSUME NEW s \in Stack, s # <<>>, NEW held, NEW now, Kept(s, held),
         now.cause = IF Receives(Last(s)) THEN Last(s).token.cause ELSE held.cause,
         now.scope = IF Last(s).kind = "attributed" THEN Last(s).token.scope ELSE held.scope,
         now.blocks = IF Last(s).kind = "suppressed" THEN Last(s).token.blocks ELSE held.blocks
  PROVE  Kept(Front(s), now)
<1> DEFINE t == Front(s)
<1>1. t \in Seq(Frame) /\ Len(t) = Len(s) - 1 /\ \A i \in 1..(Len(s) - 1) : t[i] = s[i]
  BY Popped DEF Stack
<1>2. PICK n \in Nat : n = Len(s) - 1
  BY Popped DEF Stack
<1>3. /\ DOMAIN s = 1..(n + 1) /\ Len(s) = n + 1 /\ DOMAIN t = 1..n /\ Len(t) = n
      /\ Last(s) = s[n + 1] /\ \A i \in 1..n : t[i] = s[i]
  <2>1. Len(s) \in Nat /\ DOMAIN s = 1..Len(s) /\ DOMAIN t = 1..Len(t) /\ Last(s) = s[Len(s)]
    BY <1>1, Popped, LenProperties DEF Stack
  <2>2. Len(s) = n + 1 /\ Len(t) = n
    BY <1>1, <1>2, <2>1
  <2> QED
    BY <1>1, <1>2, <2>1, <2>2
<1> HIDE DEF t
<1>4. /\ n + 1 \in DOMAIN s /\ Above(s, n + 1, held) = held
      /\ Tells(s, n + 1, held) /\ Tells(s, n, s[n + 1].token)
  <2>1. n + 1 \in DOMAIN s /\ n + 1 - 1 = n
    BY <1>3
  <2> QED
    BY <1>3, <2>1 DEF Kept, Above
<1>5. now.cause = s[n + 1].token.cause /\ now.scope = s[n + 1].token.scope
  BY <1>3, <1>4 DEF Kept
<1>6. Len(now.blocks) = Cardinality(Suppressing(s, n))
  <2>1. CASE Last(s).kind = "suppressed"
    BY <1>3, <1>4, <2>1 DEF Tells
  <2>2. CASE Last(s).kind # "suppressed"
    <3>1. Len(held.blocks) = Cardinality(Suppressing(s, n + 1)) /\ s[n + 1].kind # "suppressed"
      BY <1>3, <1>4, <2>2 DEF Tells
    <3>2. /\ Cardinality(Suppressing(s, n)) \in Nat
          /\ Cardinality(Suppressing(s, n + 1)) =
               Cardinality(Suppressing(s, n)) + (IF s[n + 1].kind = "suppressed" THEN 1 ELSE 0)
      BY SuppressingIs
    <3>3. Len(now.blocks) = Len(held.blocks)
      BY <2>2
    <3> QED
      BY <3>1, <3>2, <3>3
  <2> QED
    BY <2>1, <2>2
<1>7. Tells(s, n, now)
  BY <1>4, <1>5, <1>6 DEF Tells
<1>8. Tells(t, n, now)
  BY <1>3, <1>7, TellsSame
<1>9. ASSUME NEW i \in 1..n
      PROVE  /\ Tells(t, i - 1, t[i].token)
             /\ ~Receives(t[i]) => Above(t, i, now).cause = t[i].token.cause
             /\ t[i].kind # "attributed" => Above(t, i, now).scope = t[i].token.scope
  <2>1. t[i] = s[i] /\ i \in DOMAIN s /\ i - 1 \in Nat
    BY <1>3
  <2>2. \A j \in 1..(i - 1) : t[j] = s[j]
    BY <1>3
  <2>3. Tells(s, i - 1, s[i].token)
    BY <2>1 DEF Kept
  <2>4. Tells(t, i - 1, t[i].token)
    BY <2>1, <2>2, <2>3, TellsSame
  <2>5. Above(t, i, now).cause = Above(s, i, held).cause /\ Above(t, i, now).scope = Above(s, i, held).scope
    <3>1. CASE i = n
      BY <1>3, <1>5, <3>1 DEF Above
    <3>2. CASE i < n
      <4>1. i + 1 \in 1..n /\ i # n /\ i # n + 1
        BY <3>2
      <4> QED
        BY <1>3, <4>1 DEF Above
    <3> QED
      BY <3>1, <3>2
  <2> QED
    BY <2>1, <2>4, <2>5 DEF Kept
<1>10. Kept(t, now)
  BY <1>3, <1>8, <1>9 DEF Kept
<1> QED
  BY <1>10 DEF t

LEMMA KeptSwapped ==
  ASSUME NEW s \in Stack, s # <<>>, NEW f \in Frame, NEW held, Kept(s, held), Alike(f, Last(s))
  PROVE  Kept(Append(Front(s), f), held)
<1> DEFINE t == Append(Front(s), f)
<1>1. t \in Seq(Frame) /\ Len(t) = Len(s) /\ t[Len(s)] = f /\ \A i \in 1..(Len(s) - 1) : t[i] = s[i]
  BY Swapped DEF Stack
<1>2. Len(s) \in Nat /\ Len(s) > 0 /\ DOMAIN s = 1..Len(s) /\ DOMAIN t = 1..Len(s) /\ Last(s) = s[Len(s)]
  BY <1>1, Popped, LenProperties DEF Stack
<1> HIDE DEF t
<1>n. PICK n \in Nat : n = Len(s)
  BY <1>2
<1>3. ASSUME NEW i \in 1..Len(s)
      PROVE  Alike(t[i], s[i])
  BY <1>1, <1>2 DEF Alike
<1>4. Tells(t, Len(s), held)
  <2>1. Tells(s, Len(s), held)
    BY DEF Kept
  <2> QED
    BY <1>2, <1>3, <2>1, TellsSame DEF Alike
<1>5. ASSUME NEW i \in 1..Len(s)
      PROVE  /\ Tells(t, i - 1, t[i].token)
             /\ ~Receives(t[i]) => Above(t, i, held).cause = t[i].token.cause
             /\ t[i].kind # "attributed" => Above(t, i, held).scope = t[i].token.scope
  <2>1. Alike(t[i], s[i]) /\ i \in DOMAIN s /\ i - 1 \in Nat
    BY <1>2, <1>3
  <2>2. \A j \in 1..(i - 1) : Alike(t[j], s[j])
    BY <1>2, <1>3
  <2>3. Tells(s, i - 1, s[i].token)
    BY <2>1 DEF Kept
  <2>4. Tells(t, i - 1, s[i].token)
    BY <2>1, <2>2, <2>3, TellsSame DEF Alike
  <2>5. Above(t, i, held) = Above(s, i, held)
    <3>1. CASE i = n
      BY <1>1, <1>n, <3>1 DEF Above
    <3>2. CASE i < n
      <4>1. i + 1 \in 1..n /\ i # n /\ i \in 1..n
        BY <1>n, <3>2
      <4>2. t[i + 1].token = s[i + 1].token
        BY <1>3, <1>n, <4>1 DEF Alike
      <4> QED
        BY <1>1, <1>n, <4>1, <4>2 DEF Above
    <3> QED
      BY <1>n, <3>1, <3>2
  <2>6. Receives(t[i]) <=> Receives(s[i])
    BY <2>1 DEF Alike, Receives
  <2> QED
    BY <2>1, <2>4, <2>5, <2>6 DEF Kept, Alike
<1>6. Kept(t, held)
  BY <1>1, <1>2, <1>4, <1>5 DEF Kept
<1> QED
  BY <1>6 DEF t

-----------------------------------------------------------------------------
(* Types.                                                                  *)

Statuses == {"none", "written", "committed", "undone"}
Chains == Minted \cup Named \cup {0}
Event == [status: Statuses, class: Classes, cause: Ids \cup {0}, chain: Chains,
          suppressed: BOOLEAN, inside: BOOLEAN]
Kinds == {"atomic", "suppressed", "attributed", "firing", "inline", "callback", "hooks"}

LEMMA TypesAre ==
  TypeOK <=>
    /\ event \in [Ids -> Event] /\ rows \in [Ids -> SUBSET Receivers]
    /\ fired \in 0..MaxEvents /\ returned \subseteq Ids
    /\ stack \in Stack /\ raising \in BOOLEAN
    /\ cause \in Ids \cup {0} /\ blocks \in Seq(Blocks) /\ scope \in Scope
    /\ hooks \in Seq(Hook)
    /\ ran \in [Ids -> [Callbacks -> Nat]] /\ lost \subseteq Ids
BY DEF TypeOK, Event, Stack, Statuses, Chains

LEMMA NothingIs == Empty \in Scope /\ Empty.chain = 0 /\ Empty.actor = NoOne
<1>1. NoOne \in Actor
  BY DEF NoOne, Actor
<1> QED
  BY <1>1 DEF Empty, Scope

\* A frame entered now.
New(f, kind) ==
  /\ f \in Frame /\ f.kind = kind /\ f.token = Context /\ f.from = fired /\ f.mark = Len(hooks)

LEMMA ContextIs ==
  ASSUME TypeOK
  PROVE  Context \in [cause: Ids \cup {0}, blocks: Seq(Blocks), scope: Scope]
BY DEF TypeOK, Context

LEMMA NowIs ==
  ASSUME TypeOK
  PROVE  /\ Context \in [cause: Ids \cup {0}, blocks: Seq(Blocks), scope: Scope]
         /\ fired \in 0..MaxEvents /\ Len(hooks) \in Nat
         /\ <<>> \in Seq(Hook) /\ Empty \in Scope
BY ContextIs, NothingIs, EmptySeq, LenProperties DEF TypeOK

LEMMA EnteredIs ==
  ASSUME TypeOK, NEW kind \in Kinds
  PROVE  /\ New(Entered(kind), kind)
         /\ Entered(kind).event = 0 /\ Entered(kind).owing = FALSE /\ Entered(kind).left = {}
         /\ Entered(kind).todo = <<>> /\ Entered(kind).given = Empty
BY NowIs DEF New, Frame, Kinds, Entered

LEMMA EnterAtomicMakes ==
  ASSUME TypeOK, EnterAtomic
  PROVE  \E f \in Frame :
           New(f, "atomic") /\ f.event = 0 /\ f.left = {} /\ f.todo = <<>> /\ stack' = Append(stack, f)
<1>1. PICK f : f = Entered("atomic")
  OBVIOUS
<1>2. New(f, "atomic") /\ f.event = 0 /\ f.left = {} /\ f.todo = <<>>
  BY <1>1, EnteredIs DEF Kinds
<1>3. stack' = Append(stack, f)
  BY <1>1 DEF EnterAtomic, Runs
<1> QED
  BY <1>2, <1>3 DEF New

LEMMA EnterSuppressedMakes ==
  ASSUME TypeOK, EnterSuppressed
  PROVE  \E f \in Frame :
           New(f, "suppressed") /\ f.event = 0 /\ f.left = {} /\ f.todo = <<>> /\ stack' = Append(stack, f)
<1>1. PICK f : f = Entered("suppressed")
  OBVIOUS
<1>2. New(f, "suppressed") /\ f.event = 0 /\ f.left = {} /\ f.todo = <<>>
  BY <1>1, EnteredIs DEF Kinds
<1>3. stack' = Append(stack, f)
  BY <1>1 DEF EnterSuppressed, Runs
<1> QED
  BY <1>2, <1>3 DEF New

LEMMA GivenIs ==
  ASSUME NEW call \in Calls
  PROVE  [actor |-> ActorFrom(call.actor, call.key), chain |-> call.chain] \in Scope
<1>1. call.key \in STRING /\ call.actor \in Actors \cup {""} /\ call.chain \in Nat
  BY ConstantsAssumption
<1>2. ActorFrom(call.actor, call.key) \in Actor
  <2>1. (IF call.key # "" \/ call.actor \notin Actors THEN call.key ELSE KeyFor[call.actor])
          \in {c.key : c \in Calls} \cup {KeyFor[a] : a \in Actors} \cup {""}
    OBVIOUS
  <2>2. (call.actor \in Users) \in BOOLEAN
    OBVIOUS
  <2> QED
    BY <2>1, <2>2 DEF ActorFrom, Actor
<1>3. call.chain \in Named \cup {0}
  BY <1>1 DEF Named
<1> QED
  BY <1>2, <1>3 DEF Scope

LEMMA EnterAttributedMakes ==
  ASSUME TypeOK, EnterAttributed
  PROVE  \E f \in Frame :
           /\ New(f, "attributed") /\ f.event = 0 /\ f.left = {} /\ f.todo = <<>>
           /\ stack' = Append(stack, f)
           /\ f.given.chain \in Named \cup {0} /\ scope' = Chained(Merged(scope, f.given))
<1>1. PICK call \in Calls :
        LET given == [actor |-> ActorFrom(call.actor, call.key), chain |-> call.chain]
        IN  /\ scope' = Chained(Merged(scope, given))
            /\ Runs([Entered("attributed") EXCEPT !.given = given])
  BY DEF EnterAttributed
<1>2. PICK given \in Scope : given = [actor |-> ActorFrom(call.actor, call.key), chain |-> call.chain]
  BY GivenIs
<1>3. PICK r : r = Entered("attributed")
  OBVIOUS
<1>4. New(r, "attributed") /\ r.event = 0 /\ r.left = {} /\ r.todo = <<>>
  BY <1>3, EnteredIs DEF Kinds
<1>5. PICK f : f = [r EXCEPT !.given = given]
  OBVIOUS
<1>6. New(f, "attributed") /\ f.event = 0 /\ f.left = {} /\ f.todo = <<>> /\ f.given = given
  BY <1>4, <1>5 DEF New, Frame
<1>7. stack' = Append(stack, f) /\ scope' = Chained(Merged(scope, f.given))
  BY <1>1, <1>2, <1>3, <1>5, <1>6 DEF Runs
<1>8. f.given.chain \in Named \cup {0}
  <2>1. call.chain \in Named \cup {0} /\ given.chain = call.chain
    BY <1>2 DEF Named
  <2> QED
    BY <1>6, <2>1
<1> QED
  BY <1>6, <1>7, <1>8 DEF New

LEMMA OfIs == ASSUME NEW class, NEW mode PROVE Of(class, mode) \in SUBSET Receivers
BY DEF Of

LEMMA NextId == ASSUME TypeOK, fired < MaxEvents PROVE fired + 1 \in Ids
BY Bounds DEF TypeOK, Ids

LEMMA RecordMakes ==
  ASSUME TypeOK, NEW class \in Classes, Record(class), Matches(class) = {}
  PROVE  \E f \in Frame :
           /\ New(f, "firing") /\ f.event = fired + 1 /\ f.owing = TRUE /\ f.todo = <<>>
           /\ f.left = Of(class, "INLINE") \cup Of(class, "ON_COMMIT")
           /\ stack' = Append(stack, f)
<1>1. PICK left \in SUBSET Reached : left = Of(class, "INLINE") \cup Of(class, "ON_COMMIT")
  BY DEF Of, Reached
<1>2. PICK e \in Ids : e = fired + 1
  BY NextId DEF Record
<1>3. PICK r : r = Entered("firing")
  OBVIOUS
<1>4. New(r, "firing") /\ r.todo = <<>>
  BY <1>3, EnteredIs DEF Kinds
<1>5. PICK f : f = [r EXCEPT !.event = e, !.owing = TRUE, !.left = left]
  OBVIOUS
<1>6. New(f, "firing") /\ f.event = e /\ f.owing = TRUE /\ f.left = left /\ f.todo = <<>>
  BY <1>4, <1>5 DEF New, Frame
<1>7. stack' = Append(stack, f)
  BY <1>1, <1>2, <1>3, <1>5 DEF Record, Runs
<1> QED
  BY <1>1, <1>2, <1>6, <1>7 DEF New

\* The frame of a callback or a receiver.
LEMMA ReceiverMakes ==
  ASSUME TypeOK, NEW kind \in Kinds, NEW e \in Ids
  PROVE  \E f \in Frame :
           /\ New(f, kind) /\ f.event = e /\ f.left = {} /\ f.todo = <<>>
           /\ f = [Entered(kind) EXCEPT !.event = e]
<1>1. PICK r : r = Entered(kind)
  OBVIOUS
<1>2. New(r, kind) /\ r.left = {} /\ r.todo = <<>>
  BY <1>1, EnteredIs
<1>3. PICK f : f = [r EXCEPT !.event = e]
  OBVIOUS
<1>4. New(f, kind) /\ f.event = e /\ f.left = {} /\ f.todo = <<>>
  BY <1>2, <1>3 DEF New, Frame
<1> QED
  BY <1>1, <1>3, <1>4 DEF New

LEMMA HooksMake ==
  ASSUME TypeOK, NEW list \in Seq(Hook)
  PROVE  \E f \in Frame :
           /\ New(f, "hooks") /\ f.event = 0 /\ f.left = {} /\ f.todo = list
           /\ f = [Entered("hooks") EXCEPT !.todo = list]
<1>1. PICK r : r = Entered("hooks")
  OBVIOUS
<1>2. New(r, "hooks") /\ r.left = {} /\ r.event = 0
  BY <1>1, EnteredIs DEF Kinds
<1>3. PICK f : f = [r EXCEPT !.todo = list]
  OBVIOUS
<1>4. New(f, "hooks") /\ f.event = 0 /\ f.left = {} /\ f.todo = list
  BY <1>2, <1>3 DEF New, Frame
<1> QED
  BY <1>1, <1>3, <1>4 DEF New

\* What becomes of callbacks: registered in a transaction, run outside of one.
LEMMA OnCommitMakes ==
  ASSUME TypeOK, NEW s \in Stack, NEW list \in Seq(Hook), OnCommit(s, list)
  PROVE  \/ InAtomic(s) /\ stack' = s /\ hooks' = hooks \o list
         \/ ~InAtomic(s) /\ list = <<>> /\ stack' = s /\ hooks' = hooks
         \/ /\ ~InAtomic(s) /\ hooks' = hooks
            /\ \E f \in Frame : /\ New(f, "hooks") /\ f.event = 0 /\ f.left = {} /\ f.todo = list
                                /\ stack' = Append(s, f)
<1>1. CASE InAtomic(s)
  BY <1>1 DEF OnCommit
<1>2. CASE ~InAtomic(s) /\ list = <<>>
  BY <1>2 DEF OnCommit, AtOnce
<1>3. CASE ~InAtomic(s) /\ list # <<>>
  <2>1. stack' = Append(s, [Entered("hooks") EXCEPT !.todo = list]) /\ hooks' = hooks
    BY <1>3 DEF OnCommit, AtOnce
  <2>2. PICK f \in Frame : /\ New(f, "hooks") /\ f.event = 0 /\ f.left = {} /\ f.todo = list
                           /\ f = [Entered("hooks") EXCEPT !.todo = list]
    BY HooksMake
  <2> QED
    BY <1>3, <2>1, <2>2
<1> QED
  BY <1>1, <1>2, <1>3

LEMMA TopIs ==
  ASSUME TypeOK, stack # <<>>
  PROVE  /\ Len(stack) \in Nat /\ Len(stack) > 0 /\ DOMAIN stack = 1..Len(stack)
         /\ Top \in Frame /\ Top = stack[Len(stack)] /\ stack \in Stack
         /\ Under \in Stack /\ Len(Under) = Len(stack) - 1
         /\ \A i \in 1..(Len(stack) - 1) : Under[i] = stack[i]
BY Popped, LenProperties DEF TypeOK, Stack, Top, Under

LEMMA InAtomicIs ==
  ASSUME TypeOK, stack # <<>>
  PROVE  /\ InAtomic(Under) <=> AtomicBelow(stack, Len(stack))
         /\ InAtomic(stack) <=> InAtomic(Under) \/ Top.kind = "atomic"
<1>1. PICK n \in Nat : n + 1 = Len(stack)
  <2>1. Len(stack) - 1 \in Nat /\ (Len(stack) - 1) + 1 = Len(stack)
    BY TopIs
  <2> QED
    BY <2>1
<1>2. /\ DOMAIN stack = 1..(n + 1) /\ Top = stack[n + 1] /\ Len(Under) = n /\ DOMAIN Under = 1..n
      /\ \A i \in 1..n : Under[i] = stack[i]
  <2>1. Len(stack) - 1 = n /\ DOMAIN Under = 1..Len(Under)
    BY <1>1, TopIs, LenProperties DEF Stack
  <2> QED
    BY <1>1, <2>1, TopIs
<1>3. InAtomic(Under) <=> AtomicBelow(stack, n + 1)
  <2>1. 1..(n + 1 - 1) = 1..n
    OBVIOUS
  <2> QED
    BY <1>2, <2>1 DEF InAtomic, AtomicBelow
<1>4. \A i \in 1..(n + 1) : i \in 1..n \/ i = n + 1
  OBVIOUS
<1>5. n + 1 \in 1..(n + 1) /\ \A i \in 1..n : i \in 1..(n + 1)
  OBVIOUS
<1>6. InAtomic(stack) <=> InAtomic(Under) \/ Top.kind = "atomic"
  BY <1>2, <1>4, <1>5 DEF InAtomic
<1> QED
  BY <1>1, <1>3, <1>6

\* The last frame replaced by one that is alike.
LEMMA InAtomicSwapped ==
  ASSUME NEW s \in Stack, s # <<>>, NEW f \in Frame, Alike(f, Last(s))
  PROVE  InAtomic(Append(Front(s), f)) <=> InAtomic(s)
<1> DEFINE t == Append(Front(s), f)
<1>1. t \in Seq(Frame) /\ Len(t) = Len(s) /\ t[Len(s)] = f /\ \A i \in 1..(Len(s) - 1) : t[i] = s[i]
  BY Swapped DEF Stack
<1>2. Len(s) \in Nat /\ Len(s) > 0 /\ DOMAIN s = 1..Len(s) /\ DOMAIN t = 1..Len(s) /\ Last(s) = s[Len(s)]
  BY <1>1, Popped, LenProperties DEF Stack
<1> HIDE DEF t
<1>3. \A i \in 1..Len(s) : t[i].kind = s[i].kind
  BY <1>1, <1>2 DEF Alike
<1>4. InAtomic(t) <=> InAtomic(s)
  BY <1>2, <1>3 DEF InAtomic
<1> QED
  BY <1>4 DEF t

LEMMA InAtomicPushed ==
  ASSUME NEW s \in Stack, NEW f \in Frame
  PROVE  InAtomic(Append(s, f)) <=> InAtomic(s) \/ f.kind = "atomic"
<1> DEFINE t == Append(s, f)
<1>1. /\ t \in Seq(Frame) /\ Len(t) = Len(s) + 1 /\ t[Len(s) + 1] = f
      /\ \A i \in 1..Len(s) : t[i] = s[i]
  BY Pushed DEF Stack
<1>2. Len(s) \in Nat /\ DOMAIN s = 1..Len(s) /\ DOMAIN t = 1..(Len(s) + 1)
  BY <1>1, LenProperties DEF Stack
<1> HIDE DEF t
<1>3. \A i \in DOMAIN t : i \in 1..Len(s) \/ i = Len(s) + 1
  BY <1>2
<1>4. Len(s) + 1 \in DOMAIN t /\ \A i \in 1..Len(s) : i \in DOMAIN t
  BY <1>2
<1>5. InAtomic(t) <=> InAtomic(s) \/ f.kind = "atomic"
  BY <1>1, <1>2, <1>3, <1>4 DEF InAtomic
<1> QED
  BY <1>5 DEF t

LEMMA CallbacksAre ==
  /\ Attempt \in Callbacks /\ Notify \in Callbacks /\ Attempt # Notify
  /\ Attempt \notin Receivers /\ Notify \notin Receivers
BY ConstantsAssumption DEF Callbacks

\* The eager attempt and the wake-up of an event, each once.
LEMMA ScheduledIs ==
  ASSUME NEW e \in Ids
  PROVE  LET list == Scheduled(e)
             owed == Of(event[e].class, "DURABLE")
         IN  /\ list \in Seq(Hook) /\ Len(list) \in Nat /\ DOMAIN list = 1..Len(list)
             /\ \A p \in DOMAIN list :
                  /\ list[p].event = e /\ list[p].run \in {Attempt, Notify} /\ owed # {}
                  /\ \A q \in DOMAIN list : list[q] = list[p] => q = p
             /\ owed # {} => \E p \in DOMAIN list : list[p] = [event |-> e, run |-> Notify]
             /\ owed \cap Eager # {} => \E p \in DOMAIN list : list[p] = [event |-> e, run |-> Attempt]
<1> DEFINE list == Scheduled(e)
           owed == Of(event[e].class, "DURABLE")
           a == [event |-> e, run |-> Attempt]
           n == [event |-> e, run |-> Notify]
<1>1. a \in Hook /\ n \in Hook /\ a # n
  BY CallbacksAre DEF Hook
<1>2. CASE owed = {}
  <2>1. list = <<>>
    BY <1>2 DEF Scheduled
  <2>2. owed \cap Eager = {}
    BY <1>2
  <2> QED
    BY <1>2, <2>1, <2>2, EmptySeq
<1>3. CASE owed # {} /\ owed \cap Eager = {}
  <2>1. list = <<n>>
    BY <1>3 DEF Scheduled
  <2>2. <<n>> \in Seq(Hook) /\ Len(<<n>>) = 1 /\ DOMAIN <<n>> = 1..1 /\ <<n>>[1] = n
    BY <1>1
  <2> HIDE DEF list
  <2>3. /\ \A p \in DOMAIN list : p = 1 /\ list[p] = n
        /\ 1 \in DOMAIN list
    BY <2>1, <2>2
  <2> QED
    BY <1>3, <2>1, <2>2, <2>3 DEF list
<1>4. CASE owed # {} /\ owed \cap Eager # {}
  <2>1. list = <<a, n>>
    BY <1>4 DEF Scheduled
  <2>2. /\ <<a, n>> \in Seq(Hook) /\ Len(<<a, n>>) = 2 /\ DOMAIN <<a, n>> = 1..2
        /\ <<a, n>>[1] = a /\ <<a, n>>[2] = n
    BY <1>1
  <2> HIDE DEF list
  <2>3. /\ \A p \in DOMAIN list : (p = 1 /\ list[p] = a) \/ (p = 2 /\ list[p] = n)
        /\ 1 \in DOMAIN list /\ 2 \in DOMAIN list
    BY <2>1, <2>2
  <2>4. list \in Seq(Hook) /\ Len(list) \in Nat /\ DOMAIN list = 1..Len(list)
    BY <2>1, <2>2
  <2>5. \A p \in DOMAIN list : list[p].event = e /\ list[p].run \in {Attempt, Notify}
    BY <2>3
  <2>6. \A p, q \in DOMAIN list : list[q] = list[p] => q = p
    BY <1>1, <2>3
  <2>7. /\ \E p \in DOMAIN list : list[p] = n
        /\ \E p \in DOMAIN list : list[p] = a
    BY <2>1, <2>2, <2>3
  <2> QED
    BY <1>4, <2>4, <2>5, <2>6, <2>7 DEF list
<1> QED
  BY <1>2, <1>3, <1>4

\* Owe leaves its own frame as it was but for what it owes.
LEMMA OweMakes ==
  ASSUME TypeOK, Owe
  PROVE  \E f \in Frame :
           /\ Alike(f, Top) /\ f.owing = FALSE /\ f.left = Top.left /\ f.todo = Top.todo
           /\ Append(Under, f) \in Stack /\ OnCommit(Append(Under, f), Scheduled(Top.event))
<1>1. stack # <<>>
  BY DEF Owe, Inside
<1>2. PICK g \in Frame : g = Top
  BY <1>1, TopIs
<1>3. PICK f : f = [g EXCEPT !.owing = FALSE]
  OBVIOUS
<1>4. f \in Frame /\ Alike(f, g) /\ f.owing = FALSE /\ f.left = g.left /\ f.todo = g.todo
  BY <1>3 DEF Frame, Alike
<1>5. Append(Under, f) \in Stack
  BY <1>1, <1>4, TopIs, Pushed DEF Stack
<1> QED
  BY <1>2, <1>3, <1>4, <1>5 DEF Owe

\* The next of the receivers there are to reach is the least.
LEMMA NextReceiver ==
  ASSUME TypeOK, stack # <<>>, Top.left # {}
  PROVE  Min(Top.left) \in Top.left /\ Min(Top.left) \in Receivers
<1>1. Top.left \subseteq Receivers
  BY TopIs DEF Frame, Reached
<1>2. PICK S : S = Top.left
  OBVIOUS
<1>3. Numbers(S) /\ S # {}
  BY <1>1, <1>2, Bounds DEF Numbers
<1>4. Min(S) \in S
  BY <1>3, LeastOfNumbers
<1> QED
  BY <1>1, <1>2, <1>4

\* One that is not INLINE is a callback.
LEMMA ReachedIs ==
  ASSUME TypeOK, stack # <<>>, NEW r \in Top.left
  PROVE  r \in Receivers /\ (ModeOf[r] # "INLINE" => r \in Callbacks /\ ModeOf[r] = "ON_COMMIT")
<1>1. r \in Receivers /\ ModeOf[r] # "DURABLE"
  BY TopIs DEF Frame, Reached
<1>2. ModeOf[r] \in Modes
  BY <1>1, ConstantsAssumption
<1> QED
  BY <1>1, <1>2 DEF Modes, Callbacks

LEMMA ReachMakes ==
  ASSUME TypeOK, Nested, Reach
  PROVE  \E f \in Frame, r \in Receivers :
           /\ r \in Top.left /\ Alike(f, Top) /\ f.owing = Top.owing /\ f.left = Top.left \ {r}
           /\ f.todo = Top.todo /\ Append(Under, f) \in Stack /\ Top.event \in Ids
           /\ \/ /\ ModeOf[r] = "INLINE" /\ cause' = Top.event /\ hooks' = hooks
                 /\ \E g \in Frame :
                      /\ New(g, "inline") /\ g.event = Top.event /\ g.left = {} /\ g.todo = <<>>
                      /\ stack' = Append(Append(Under, f), g)
              \/ /\ ModeOf[r] # "INLINE" /\ cause' = cause
                 /\ OnCommit(Append(Under, f), <<[event |-> Top.event, run |-> r]>>)
<1>1. stack # <<>> /\ Top.kind = "firing" /\ Top.left # {}
  BY DEF Reach, Inside
<1>2. PICK r \in Receivers : r = Min(Top.left) /\ r \in Top.left
  BY <1>1, NextReceiver
<1>3. PICK g \in Frame : g = Top
  BY <1>1, TopIs
<1>4. PICK f : f = [g EXCEPT !.left = @ \ {r}]
  OBVIOUS
<1>5. /\ f \in Frame /\ Alike(f, g) /\ f.owing = g.owing /\ f.left = g.left \ {r}
      /\ f.todo = g.todo
  BY <1>4 DEF Frame, Alike
<1>6. Append(Under, f) \in Stack
  BY <1>1, <1>5, TopIs, Pushed DEF Stack
<1>7. Top.event \in Ids
  <2>1. Len(stack) \in DOMAIN stack /\ Top = stack[Len(stack)] /\ Top.event \in Ids \cup {0}
    BY <1>1, TopIs DEF Frame
  <2>2. Top.event = Top.from + 1 /\ Top.from \in Nat
    BY <1>1, <1>3, <2>1, FrameIs DEF Nested, Dated
  <2> QED
    BY <2>1, <2>2
<1>8. CASE ModeOf[r] = "INLINE"
  <2>1. PICK h \in Frame : /\ New(h, "inline") /\ h.event = Top.event /\ h.left = {} /\ h.todo = <<>>
                           /\ h = [Entered("inline") EXCEPT !.event = Top.event]
    BY <1>7, ReceiverMakes DEF Kinds
  <2>2. cause' = Top.event /\ hooks' = hooks /\ stack' = Append(Append(Under, f), h)
    BY <1>2, <1>3, <1>4, <1>8, <2>1 DEF Reach
  <2> QED
    BY <1>2, <1>3, <1>5, <1>6, <1>7, <1>8, <2>1, <2>2
<1>9. CASE ModeOf[r] # "INLINE"
  <2>1. cause' = cause /\ OnCommit(Append(Under, f), <<[event |-> Top.event, run |-> r]>>)
    BY <1>2, <1>3, <1>4, <1>9 DEF Reach
  <2> QED
    BY <1>2, <1>3, <1>5, <1>6, <1>7, <1>9, <2>1
<1> QED
  BY <1>8, <1>9

LEMMA RunHookMakes ==
  ASSUME TypeOK, RunHook
  PROVE  \E f \in Frame, h \in Hook :
           /\ Top.kind = "hooks" /\ stack # <<>> /\ Top.todo # <<>> /\ Top.todo \in Seq(Hook)
           /\ h = Head(Top.todo) /\ Alike(f, Top) /\ f.left = Top.left
           /\ f.todo = Tail(Top.todo) /\ Append(Under, f) \in Stack
           /\ ran' = [ran EXCEPT ![h.event][h.run] = @ + 1]
           /\ \/ h.run \notin Receivers /\ cause' = cause /\ stack' = Append(Under, f)
              \/ /\ h.run \in Receivers /\ cause' = h.event
                 /\ \E g \in Frame :
                      /\ New(g, "callback") /\ g.event = h.event /\ g.left = {} /\ g.todo = <<>>
                      /\ stack' = Append(Append(Under, f), g)
<1>1. stack # <<>> /\ Top.kind = "hooks" /\ Top.todo # <<>>
  BY DEF RunHook, Inside
<1>2. PICK g \in Frame : g = Top
  BY <1>1, TopIs
<1>3. g.todo \in Seq(Hook) /\ Head(g.todo) \in Hook /\ Tail(g.todo) \in Seq(Hook)
  BY <1>1, <1>2, HeadTailProperties DEF Frame
<1>4. PICK h \in Hook : h = Head(g.todo)
  BY <1>3
<1>5. PICK rest \in Seq(Hook) : rest = Tail(g.todo)
  BY <1>3
<1>6. PICK f : f = [g EXCEPT !.todo = rest]
  OBVIOUS
<1>7. f \in Frame /\ Alike(f, g) /\ f.left = g.left /\ f.todo = rest
  BY <1>6 DEF Frame, Alike
<1>8. [g EXCEPT !.todo = Tail(@)] = f
  BY <1>5, <1>6
<1>9. Append(Under, f) \in Stack
  BY <1>1, <1>7, TopIs, Pushed DEF Stack
<1>10. ran' = [ran EXCEPT ![h.event][h.run] = @ + 1]
  BY <1>2, <1>4 DEF RunHook
<1>11. CASE h.run \in Receivers
  <2>1. h.event \in Ids
    BY DEF Hook
  <2>2. PICK k \in Frame : /\ New(k, "callback") /\ k.event = h.event /\ k.left = {} /\ k.todo = <<>>
                           /\ k = [Entered("callback") EXCEPT !.event = h.event]
    BY <2>1, ReceiverMakes DEF Kinds
  <2>3. cause' = h.event /\ stack' = Append(Append(Under, f), k)
    BY <1>2, <1>4, <1>8, <1>11, <2>2 DEF RunHook
  <2> QED
    BY <1>1, <1>2, <1>3, <1>4, <1>5, <1>7, <1>9, <1>10, <1>11, <2>2, <2>3
<1>12. CASE h.run \notin Receivers
  <2>1. cause' = cause /\ stack' = Append(Under, f)
    BY <1>2, <1>4, <1>8, <1>12 DEF RunHook
  <2> QED
    BY <1>1, <1>2, <1>3, <1>4, <1>5, <1>7, <1>9, <1>10, <1>12, <2>1
<1> QED
  BY <1>11, <1>12

\* The outermost block commits: the callbacks there are, if any, are run.
LEMMA CommitMakes ==
  ASSUME TypeOK, LeaveAtomic, ~InAtomic(Under)
  PROVE  \/ hooks = <<>> /\ stack' = Under
         \/ \E f \in Frame : /\ New(f, "hooks") /\ f.event = 0 /\ f.left = {} /\ f.todo = hooks
                             /\ stack' = Append(Under, f)
<1>1. hooks \in Seq(Hook)
  BY DEF TypeOK
<1>2. PICK list \in Seq(Hook) : list = hooks
  BY <1>1
<1>3. PICK f \in Frame : /\ New(f, "hooks") /\ f.event = 0 /\ f.left = {} /\ f.todo = list
                         /\ f = [Entered("hooks") EXCEPT !.todo = list]
  BY HooksMake
<1>4. stack' = IF hooks = <<>> THEN Under ELSE Append(Under, f)
  BY <1>2, <1>3 DEF LeaveAtomic
<1> QED
  BY <1>2, <1>3, <1>4

-----------------------------------------------------------------------------
(* Chains.                                                                 *)

LEMMA NoChainYet ==
  ASSUME TypeOK, ContextsKept, scope.chain = 0, NEW i \in DOMAIN stack
  PROVE  stack[i].token.scope.chain = 0
<1>1. \A j \in 1..Len(stack) : stack[j].kind # "attributed"
  BY DEF ContextsKept, Kept, Tells, Context
<1>2. i \in 1..Len(stack) /\ Len(stack) \in Nat
  BY LenProperties DEF TypeOK
<1>3. \A j \in 1..(i - 1) : j \in 1..Len(stack)
  BY <1>2
<1> QED
  BY <1>1, <1>3 DEF ContextsKept, Kept, Tells

\* There are more chains to mint than events to carry them.
LEMMA FreshIs ==
  ASSUME TypeOK, ContextsKept, scope.chain = 0
  PROVE  Fresh \in Minted /\ Fresh \in Nat \ {0}
<1> DEFINE carried == {event[e].chain : e \in Ids}
           used == {scope.chain} \cup carried \cup {stack[i].token.scope.chain : i \in DOMAIN stack}
           left == Minted \ used
<1>1. used \subseteq {0} \cup carried
  BY NoChainYet
<1>2. 0 \notin Minted
  BY Bounds DEF Minted
<1>3. left # {}
  <2> SUFFICES ASSUME left = {} PROVE FALSE
    OBVIOUS
  <2>1. \A x \in Minted : \E e \in Ids : event[e].chain = x
    BY <1>1, <1>2
  <2> DEFINE carrier == [x \in Minted |-> CHOOSE e \in Ids : event[e].chain = x]
  <2>2. carrier \in [Minted -> Ids] /\ \A x \in Minted : event[carrier[x]].chain = x
    BY <2>1
  <2> HIDE DEF carrier
  <2>3. IsFiniteSet(Minted) /\ Cardinality(Minted) = MaxEvents + MaxOpen + 1
    BY Bounds, FS_Interval DEF Minted
  <2>4. IsFiniteSet(Ids) /\ Cardinality(Ids) = MaxEvents
    BY Bounds, FS_Interval DEF Ids
  <2>5. Cardinality(Ids) < Cardinality(Minted)
    BY <2>3, <2>4, Bounds
  <2>6. \E x, y \in Minted : x # y /\ carrier[x] = carrier[y]
    BY <2>2, <2>3, <2>4, <2>5, FS_PigeonHole
  <2> QED
    BY <2>2, <2>6
<1>4. Numbers(left)
  BY Bounds DEF Minted, Numbers
<1> HIDE DEF left
<1>5. Min(left) \in left
  BY <1>3, <1>4, LeastOfNumbers
<1>6. Min(left) \in Minted
  BY <1>5 DEF left
<1>7. Min(left) \in Nat \ {0}
  BY <1>6, Bounds DEF Minted
<1> QED
  BY <1>6, <1>7 DEF Fresh, left

LEMMA InheritedIs == ASSUME TypeOK PROVE Inherited \in Chains
BY DEF TypeOK, Inherited, Chains

LEMMA NamedAre == Named \subseteq Nat \ {0}
BY ConstantsAssumption DEF Named

\* What an attributed block sets.
LEMMA ChainedIs ==
  ASSUME TypeOK, ContextsKept, NEW given \in Scope, given.chain \in Named \cup {0},
         NEW now, now = Chained(Merged(scope, given))
  PROVE  /\ now \in Scope /\ now.chain # 0
         /\ now.actor = IF given.actor # NoOne THEN given.actor ELSE scope.actor
         /\ \/ now.chain \in Named
            \/ scope.chain # 0 /\ now.chain = scope.chain
            \/ scope.chain = 0 /\ (Inherited = 0 \/ now.chain = Inherited)
<1>1. PICK merged : merged = Merged(scope, given)
  OBVIOUS
<1>2. /\ merged \in Scope
      /\ merged.actor = IF given.actor # NoOne THEN given.actor ELSE scope.actor
      /\ merged.chain = IF given.chain # 0 THEN given.chain ELSE scope.chain
  BY <1>1 DEF TypeOK, Merged, Scope
<1>3. now = IF merged.chain # 0 THEN merged
            ELSE [merged EXCEPT !.chain = IF Inherited # 0 THEN Inherited ELSE Fresh]
  BY <1>1 DEF Chained
<1>4. CASE merged.chain # 0
  BY <1>2, <1>3, <1>4
<1>5. CASE merged.chain = 0
  <2>1. given.chain = 0 /\ scope.chain = 0
    BY <1>2, <1>5
  <2>2. PICK c : c = IF Inherited # 0 THEN Inherited ELSE Fresh
    OBVIOUS
  <2>3. c \in Chains /\ c # 0
    BY <2>1, <2>2, FreshIs, InheritedIs DEF Chains
  <2>4. now = [merged EXCEPT !.chain = c]
    BY <1>3, <1>5, <2>2
  <2>5. now \in Scope /\ now.chain = c /\ now.actor = merged.actor
    BY <1>2, <2>3, <2>4 DEF Scope, Chains
  <2> QED
    BY <1>2, <2>1, <2>2, <2>3, <2>5
<1> QED
  BY <1>4, <1>5

-----------------------------------------------------------------------------
(* Types are kept.                                                         *)

\* What an action does to the tables and to the callbacks.
LEMMA UndoneIs ==
  ASSUME TypeOK, NEW from, Undone(from)
  PROVE  /\ event' \in [Ids -> Event] /\ rows' \in [Ids -> SUBSET Receivers]
         /\ \A e \in Ids :
              \/ /\ e > from /\ event[e].status = "written" /\ rows'[e] = {}
                 /\ event'[e] = [event[e] EXCEPT !.status = "undone"]
              \/ /\ ~(e > from /\ event[e].status = "written")
                 /\ event'[e] = event[e] /\ rows'[e] = rows[e]
<1>1. ASSUME NEW e \in Ids
      PROVE  /\ event[e] \in Event /\ rows[e] \in SUBSET Receivers
             /\ [event[e] EXCEPT !.status = "undone"] \in Event
  BY TypesAre DEF Event, Statuses
<1>2. /\ event' = [e \in Ids |-> IF e > from /\ event[e].status = "written"
                                  THEN [event[e] EXCEPT !.status = "undone"] ELSE event[e]]
      /\ rows' = [e \in Ids |-> IF e > from /\ event[e].status = "written" THEN {} ELSE rows[e]]
  BY DEF Undone
<1>3. event' \in [Ids -> Event]
  BY <1>1, <1>2
<1>4. rows' \in [Ids -> SUBSET Receivers]
  BY <1>1, <1>2
<1>5. ASSUME NEW e \in Ids
      PROVE  \/ /\ e > from /\ event[e].status = "written" /\ rows'[e] = {}
                /\ event'[e] = [event[e] EXCEPT !.status = "undone"]
             \/ /\ ~(e > from /\ event[e].status = "written")
                /\ event'[e] = event[e] /\ rows'[e] = rows[e]
  BY <1>2
<1> QED
  BY <1>3, <1>4, <1>5

LEMMA CommittedIs ==
  ASSUME TypeOK, LeaveAtomic, ~InAtomic(Under)
  PROVE  /\ event' \in [Ids -> Event] /\ hooks' = <<>>
         /\ \A e \in Ids :
              event'[e] = IF event[e].status = "written"
                          THEN [event[e] EXCEPT !.status = "committed"] ELSE event[e]
<1>1. ASSUME NEW e \in Ids
      PROVE  event[e] \in Event /\ [event[e] EXCEPT !.status = "committed"] \in Event
  BY TypesAre DEF Event, Statuses
<1>2. /\ event' = [e \in Ids |-> IF event[e].status = "written"
                                 THEN [event[e] EXCEPT !.status = "committed"] ELSE event[e]]
      /\ hooks' = <<>>
  BY DEF LeaveAtomic
<1>3. event' \in [Ids -> Event]
  BY <1>1, <1>2
<1> QED
  BY <1>2, <1>3

\* The row of a new event.
LEMMA WrittenIs ==
  ASSUME TypeOK, NEW class \in Classes, Record(class)
  PROVE  /\ fired + 1 \in Ids /\ fired' = fired + 1 /\ event' \in [Ids -> Event]
         /\ \A e \in Ids : e # fired + 1 => event'[e] = event[e]
         /\ event'[fired + 1] =
              [status |-> IF InAtomic(stack) THEN "written" ELSE "committed",
               class |-> class, cause |-> cause, suppressed |-> Matches(class) # {},
               chain |-> IF scope.chain # 0 THEN scope.chain ELSE Inherited,
               inside |-> InAtomic(stack)]
<1>1. fired + 1 \in Ids /\ fired' = fired + 1
  BY NextId DEF Record
<1>2. PICK new : new = [status |-> IF InAtomic(stack) THEN "written" ELSE "committed",
                        class |-> class, cause |-> cause, suppressed |-> Matches(class) # {},
                        chain |-> IF scope.chain # 0 THEN scope.chain ELSE Inherited,
                        inside |-> InAtomic(stack)]
  OBVIOUS
<1>3. event' = [event EXCEPT ![fired + 1] = new]
  BY <1>2 DEF Record
<1>4. new \in Event
  <2>1. cause \in Ids \cup {0} /\ scope.chain \in Chains /\ Inherited \in Chains
    BY InheritedIs DEF TypeOK, Scope, Chains
  <2>2. (Matches(class) # {}) \in BOOLEAN /\ InAtomic(stack) \in BOOLEAN
    BY DEF InAtomic
  <2> QED
    BY <1>2, <2>1, <2>2 DEF Event, Statuses
<1>5. event \in [Ids -> Event]
  BY TypesAre
<1> QED
  BY <1>1, <1>2, <1>3, <1>4, <1>5

-----------------------------------------------------------------------------
(* What pushing, replacing and popping a frame keep.                       *)

\* The frames below a new one are as they should be.
Ground(s) ==
  Stacked(s) /\ Dated(s, fired, Len(hooks')) /\ (~InAtomic(s) => hooks' = <<>>) /\ Kept(s, Context)

\* The new one may lie on them.
MayLie(s, f) ==
  /\ f.kind = "inline" => s # <<>> /\ Last(s).kind = "firing" /\ Last(s).event = f.event
  /\ f.kind = "callback" <=> s # <<>> /\ Last(s).kind = "hooks"
  /\ f.kind = "hooks" => ~InAtomic(s)
  /\ f.kind # "hooks" => f.todo = <<>>

\* It was entered now,
EnteredNow(f) ==
  /\ f.token = Context /\ f.from = fired /\ (f.kind = "atomic" => f.mark = Len(hooks'))
  /\ f.kind = "firing" => f.event = fired + 1 /\ fired < fired'

\* and the ContextVars are what it sets them to.
Sets(f) ==
  /\ cause' = IF Receives(f) THEN f.event ELSE cause
  /\ scope'.actor = IF Names(f) THEN f.given.actor ELSE scope.actor
  /\ f.kind # "attributed" => scope' = scope
  /\ f.kind = "attributed" => scope'.chain # 0
  /\ Len(blocks') = Len(blocks) + (IF f.kind = "suppressed" THEN 1 ELSE 0)

LEMMA PushKeeps ==
  ASSUME TypeOK, NEW s \in Stack, NEW f \in Frame, stack' = Append(s, f),
         Ground(s), MayLie(s, f), EnteredNow(f), Sets(f),
         Len(hooks') \in Nat, fired' \in Nat, fired <= fired', ~raising'
  PROVE  Nested' /\ ContextsKept'
<1>1. fired \in Nat
  BY Bounds DEF TypeOK
<1>2. Stacked(Append(s, f))
  BY StackedPushed DEF Ground, MayLie
<1>3. Dated(Append(s, f), fired', Len(hooks'))
  <2>1. PICK n \in Nat, m \in Nat, l \in Nat : n = fired /\ m = Len(hooks') /\ l = fired'
    BY <1>1
  <2>2. /\ n <= l /\ Dated(s, n, m) /\ f.from = n /\ (f.kind = "firing" => f.event = n + 1 /\ n < l)
        /\ f.kind = "atomic" => f.mark = m /\ (~InAtomic(s) => m = 0)
    BY <2>1, EmptySeq DEF Ground, EnteredNow
  <2>3. Dated(Append(s, f), l, m)
    BY <2>2, DatedPushed
  <2> QED
    BY <2>1, <2>3
<1>4. ~InAtomic(Append(s, f)) => hooks' = <<>>
  BY InAtomicPushed DEF Ground
<1>5. Kept(Append(s, f), Context')
  <2>1. PICK now : now = Context'
    OBVIOUS
  <2>2. /\ Kept(s, f.token)
        /\ now.cause = IF Receives(f) THEN f.event ELSE f.token.cause
        /\ now.scope.actor = IF Names(f) THEN f.given.actor ELSE f.token.scope.actor
        /\ f.kind # "attributed" => now.scope = f.token.scope
        /\ f.kind = "attributed" => now.scope.chain # 0
        /\ Len(now.blocks) = Len(f.token.blocks) + (IF f.kind = "suppressed" THEN 1 ELSE 0)
    BY <2>1 DEF Context, Ground, EnteredNow, Sets
  <2>3. Kept(Append(s, f), now)
    BY <2>2, KeptPushed
  <2> QED
    BY <2>1, <2>3
<1> QED
  BY <1>2, <1>3, <1>4, <1>5 DEF Nested, ContextsKept, Top

LEMMA LevelKeeps ==
  ASSUME TypeOK, Nested, ContextsKept, stack # <<>>, NEW f \in Frame, Alike(f, Top),
         f.kind # "hooks" => f.todo = <<>>,
         NEW m \in Nat, Len(hooks) <= m, Len(hooks) \in Nat
  PROVE  /\ Append(Under, f) \in Stack /\ Append(Under, f) # <<>> /\ Last(Append(Under, f)) = f
         /\ Stacked(Append(Under, f)) /\ Dated(Append(Under, f), fired, m)
         /\ Kept(Append(Under, f), Context)
         /\ InAtomic(Append(Under, f)) <=> InAtomic(stack)
<1>1. stack \in Stack /\ fired \in Nat /\ Top = Last(stack) /\ Under = Front(stack)
  BY TypesAre, Bounds DEF Top, Under
<1>2. Append(Under, f) \in Stack /\ Append(Under, f) # <<>> /\ Last(Append(Under, f)) = f
  BY <1>1, Swapped DEF Stack
<1>3. Stacked(Append(Under, f))
  BY <1>1, StackedSwapped DEF Nested
<1>4. Dated(Append(Under, f), fired, m)
  <2>1. PICK n \in Nat, k \in Nat : n = fired /\ k = Len(hooks)
    BY <1>1
  <2>2. Dated(stack, n, m)
    BY <1>1, <2>1, DatedGrows DEF Nested
  <2>3. Dated(Append(Under, f), n, m)
    BY <1>1, <2>2, DatedSwapped
  <2> QED
    BY <2>1, <2>3
<1>5. Kept(Append(Under, f), Context)
  <2>1. PICK held : held = Context
    OBVIOUS
  <2>2. Kept(Append(Under, f), held)
    BY <1>1, <2>1, KeptSwapped DEF ContextsKept
  <2> QED
    BY <2>1, <2>2
<1>6. InAtomic(Append(Under, f)) <=> InAtomic(stack)
  BY <1>1, InAtomicSwapped
<1> QED
  BY <1>2, <1>3, <1>4, <1>5, <1>6

LEMMA PopKeeps ==
  ASSUME TypeOK, Nested, ContextsKept, stack # <<>>, stack' = Under, fired' = fired,
         hooks' \in Seq(Hook),
         \/ Top.kind = "atomic" /\ Len(hooks') = Top.mark
         \/ hooks' = hooks /\ (Top.kind # "atomic" \/ InAtomic(Under)),
         raising' => Top.kind # "callback",
         cause' = IF Receives(Top) THEN Top.token.cause ELSE cause,
         scope' = IF Top.kind = "attributed" THEN Top.token.scope ELSE scope,
         blocks' = IF Top.kind = "suppressed" THEN Top.token.blocks ELSE blocks
  PROVE  Nested' /\ ContextsKept'
<1>1. stack \in Stack /\ fired \in Nat /\ Top = Last(stack) /\ Under = Front(stack)
  BY TypesAre, Bounds DEF Top, Under
<1>2. Len(hooks) \in Nat /\ Len(hooks') \in Nat /\ hooks \in Seq(Hook)
  BY LenProperties DEF TypeOK
<1>3. PICK n \in Nat : n + 1 = Len(stack)
  <2>1. Len(stack) - 1 \in Nat /\ (Len(stack) - 1) + 1 = Len(stack)
    BY TopIs
  <2> QED
    BY <2>1
<1>4. /\ DOMAIN stack = 1..(n + 1) /\ Top = stack[n + 1] /\ Len(Under) = n
      /\ \A i \in 1..n : Under[i] = stack[i]
  BY <1>3, TopIs
<1>5. Stacked(Under)
  BY <1>1, StackedPopped DEF Nested
<1>6. Dated(Under, fired, Len(hooks'))
  <2>1. PICK k \in Nat, m \in Nat : k = fired /\ m = Len(hooks)
    BY <1>1, <1>2
  <2>2. Dated(Under, k, m) /\ (Top.kind = "atomic" => Dated(Under, k, Top.mark))
    BY <1>1, <2>1, DatedPopped DEF Nested
  <2> QED
    BY <2>1, <2>2
<1>7. ~InAtomic(Under) => hooks' = <<>>
  <2>1. CASE Top.kind = "atomic" /\ ~InAtomic(Under)
    <3>1. n + 1 \in DOMAIN stack /\ ~AtomicBelow(stack, n + 1)
      BY <1>3, <1>4, <2>1, InAtomicIs
    <3>2. Top.mark = 0
      BY <1>4, <2>1, <3>1 DEF Nested, Dated
    <3>3. Len(hooks') = 0
      BY <2>1, <3>2
    <3> QED
      BY <3>3, EmptySeq
  <2>2. CASE Top.kind # "atomic" /\ ~InAtomic(Under)
    <3>1. ~InAtomic(stack)
      BY <2>2, InAtomicIs
    <3> QED
      BY <2>2, <3>1 DEF Nested
  <2> QED
    BY <2>1, <2>2
<1>8. raising' /\ Under # <<>> => Last(Under).kind # "hooks"
  <2> SUFFICES ASSUME raising', Under # <<>> PROVE Last(Under).kind # "hooks"
    OBVIOUS
  <2>1. Len(Under) > 0 /\ Last(Under) = Under[Len(Under)]
    BY <1>1, TopIs, Popped DEF Stack
  <2>2. n + 1 \in DOMAIN stack /\ n + 1 > 1 /\ n \in 1..n /\ n + 1 - 1 = n
    BY <1>4, <2>1
  <2>3. Top.kind # "callback"
    OBVIOUS
  <2>4. stack[n].kind # "hooks"
    BY <1>4, <2>2, <2>3 DEF Nested, Stacked
  <2> QED
    BY <1>4, <2>1, <2>2, <2>4
<1>9. Kept(Under, Context')
  <2>1. PICK held, now : held = Context /\ now = Context'
    OBVIOUS
  <2>2. /\ held.cause = cause /\ held.scope = scope /\ held.blocks = blocks
        /\ now.cause = cause' /\ now.scope = scope' /\ now.blocks = blocks'
    BY <2>1 DEF Context
  <2>3. Kept(Under, now)
    BY <1>1, <2>1, <2>2, KeptPopped DEF ContextsKept
  <2> QED
    BY <2>1, <2>3
<1> QED
  BY <1>5, <1>6, <1>7, <1>8, <1>9 DEF Nested, ContextsKept, Top

LEMMA SameKeeps ==
  ASSUME TypeOK, Nested, ContextsKept, stack' = stack, hooks' = hooks, fired' \in Nat, fired <= fired',
         cause' = cause, scope' = scope, blocks' = blocks,
         raising' /\ stack # <<>> => Top.kind # "hooks"
  PROVE  Nested' /\ ContextsKept'
<1>1. stack \in Stack /\ fired \in Nat /\ Len(hooks) \in Nat
  BY TypesAre, Bounds, LenProperties
<1>2. Dated(stack, fired', Len(hooks'))
  <2>1. PICK n \in Nat, m \in Nat, l \in Nat : n = fired /\ m = Len(hooks) /\ l = fired'
    BY <1>1
  <2>2. Dated(stack, l, m)
    BY <1>1, <2>1, DatedGrows DEF Nested
  <2> QED
    BY <2>1, <2>2
<1>3. Context' = Context
  BY DEF Context
<1> QED
  BY <1>2, <1>3 DEF Nested, ContextsKept, Top

-----------------------------------------------------------------------------
(* Types, nesting and contexts are kept, action by action.                 *)

Base == TypeOK /\ Nested /\ ContextsKept

LEMMA BaseIs ==
  ASSUME Base
  PROVE  /\ TypeOK /\ Nested /\ ContextsKept /\ stack \in Stack /\ Stacked(stack)
         /\ Dated(stack, fired, Len(hooks)) /\ Kept(stack, Context)
         /\ ~InAtomic(stack) => hooks = <<>>
         /\ fired \in Nat /\ Len(hooks) \in Nat /\ hooks \in Seq(Hook)
         /\ Context.cause = cause /\ Context.scope = scope /\ Context.blocks = blocks
<1>1. fired \in Nat
  BY Bounds DEF Base, TypeOK
<1>2. Len(hooks) \in Nat
  BY LenProperties DEF Base, TypeOK
<1> QED
  BY <1>1, <1>2, TypesAre DEF Base, Nested, ContextsKept, Context

\* User code runs in frames of other kinds than those of the library.
LEMMA UserIs ==
  ASSUME UserRuns
  PROVE  ~raising /\ (stack # <<>> => Last(stack).kind \notin {"firing", "hooks"})
BY DEF UserRuns, Top

LEMMA EnterAtomicBase == ASSUME Base, EnterAtomic PROVE Base'
<1>1. PICK f \in Frame :
        New(f, "atomic") /\ f.event = 0 /\ f.left = {} /\ f.todo = <<>> /\ stack' = Append(stack, f)
  BY EnterAtomicMakes DEF Base
<1>2. /\ UserRuns /\ event' = event /\ rows' = rows /\ fired' = fired /\ returned' = returned
      /\ raising' = raising /\ cause' = cause /\ blocks' = blocks /\ scope' = scope
      /\ hooks' = hooks /\ ran' = ran /\ lost' = lost
  BY DEF EnterAtomic, Room
<1>3. stack' \in Stack
  BY <1>1, BaseIs, Pushed DEF Stack
<1>4. TypeOK'
  BY <1>2, <1>3 DEF Base, TypeOK, Stack
<1>5. ~Receives(f) /\ ~Names(f)
  BY <1>1 DEF New, Receives, Names
<1>6. Ground(stack) /\ MayLie(stack, f) /\ EnteredNow(f) /\ Sets(f)
  BY <1>1, <1>2, <1>5, BaseIs, UserIs DEF New, Ground, MayLie, EnteredNow, Sets
<1>7. Nested' /\ ContextsKept'
  BY <1>1, <1>2, <1>6, BaseIs, UserIs, PushKeeps
<1> QED
  BY <1>4, <1>7 DEF Base

LEMMA EnterSuppressedBase == ASSUME Base, EnterSuppressed PROVE Base'
<1>1. PICK f \in Frame :
        New(f, "suppressed") /\ f.event = 0 /\ f.left = {} /\ f.todo = <<>> /\ stack' = Append(stack, f)
  BY EnterSuppressedMakes DEF Base
<1>2. /\ UserRuns /\ event' = event /\ rows' = rows /\ fired' = fired /\ returned' = returned
      /\ raising' = raising /\ cause' = cause /\ scope' = scope
      /\ hooks' = hooks /\ ran' = ran /\ lost' = lost
  BY DEF EnterSuppressed, Room
<1>3. PICK b \in Blocks : blocks' = Append(blocks, b)
  BY DEF EnterSuppressed
<1>4. blocks' \in Seq(Blocks) /\ Len(blocks') = Len(blocks) + 1
  BY <1>3, Pushed DEF Base, TypeOK
<1>5. stack' \in Stack
  BY <1>1, BaseIs, Pushed DEF Stack
<1>6. TypeOK'
  BY <1>2, <1>4, <1>5 DEF Base, TypeOK, Stack
<1>7. ~Receives(f) /\ ~Names(f)
  BY <1>1 DEF New, Receives, Names
<1>8. Len(blocks) \in Nat
  BY LenProperties DEF Base, TypeOK
<1>9. Ground(stack) /\ MayLie(stack, f) /\ EnteredNow(f) /\ Sets(f)
  BY <1>1, <1>2, <1>4, <1>7, <1>8, BaseIs, UserIs DEF New, Ground, MayLie, EnteredNow, Sets
<1>10. Nested' /\ ContextsKept'
  BY <1>1, <1>2, <1>9, BaseIs, UserIs, PushKeeps
<1> QED
  BY <1>6, <1>10 DEF Base

LEMMA EnterAttributedBase == ASSUME Base, EnterAttributed PROVE Base'
<1>1. PICK f \in Frame :
        /\ New(f, "attributed") /\ f.event = 0 /\ f.left = {} /\ f.todo = <<>>
        /\ stack' = Append(stack, f)
        /\ f.given.chain \in Named \cup {0} /\ scope' = Chained(Merged(scope, f.given))
  BY EnterAttributedMakes DEF Base
<1>2. /\ UserRuns /\ event' = event /\ rows' = rows /\ fired' = fired /\ returned' = returned
      /\ raising' = raising /\ cause' = cause /\ blocks' = blocks
      /\ hooks' = hooks /\ ran' = ran /\ lost' = lost
  BY DEF EnterAttributed, Room
<1>3. PICK given \in Scope : given = f.given
  BY DEF Frame
<1>4. PICK now : now = Chained(Merged(scope, given))
  OBVIOUS
<1>5. /\ now \in Scope /\ now.chain # 0
      /\ now.actor = IF given.actor # NoOne THEN given.actor ELSE scope.actor
  BY <1>1, <1>3, <1>4, ChainedIs DEF Base
<1>6. scope' = now
  BY <1>1, <1>3, <1>4
<1>7. stack' \in Stack
  BY <1>1, BaseIs, Pushed DEF Stack
<1>8. TypeOK'
  BY <1>2, <1>5, <1>6, <1>7 DEF Base, TypeOK, Stack
<1>9. ~Receives(f) /\ (Names(f) <=> given.actor # NoOne)
  BY <1>1, <1>3 DEF New, Receives, Names
<1>10. scope'.actor = IF Names(f) THEN f.given.actor ELSE scope.actor
  BY <1>3, <1>5, <1>6, <1>9
<1>11. Len(blocks) \in Nat
  BY LenProperties DEF Base, TypeOK
<1>12. Ground(stack) /\ MayLie(stack, f) /\ EnteredNow(f) /\ Sets(f)
  BY <1>1, <1>2, <1>5, <1>6, <1>9, <1>10, <1>11, BaseIs, UserIs DEF New, Ground, MayLie, EnteredNow, Sets
<1>13. Nested' /\ ContextsKept'
  BY <1>1, <1>2, <1>12, BaseIs, UserIs, PushKeeps
<1> QED
  BY <1>8, <1>13 DEF Base

LEMMA RecordBase == ASSUME Base, NEW class \in Classes, Record(class) PROVE Base'
<1>1. /\ UserRuns /\ fired < MaxEvents /\ rows' = rows /\ raising' = raising /\ cause' = cause
      /\ blocks' = blocks /\ scope' = scope /\ hooks' = hooks /\ ran' = ran /\ lost' = lost
  BY DEF Record
<1>2. fired + 1 \in Ids /\ fired' = fired + 1 /\ event' \in [Ids -> Event]
  BY WrittenIs DEF Base
<1>3. fired' \in Nat /\ fired' \in 0..MaxEvents
  BY <1>2, Bounds DEF Ids
<1>4. CASE Matches(class) # {}
  <2>1. stack' = stack /\ returned' = returned \cup {fired + 1}
    BY <1>4 DEF Record
  <2>2. TypeOK'
    BY <1>1, <1>2, <1>3, <2>1, TypesAre DEF Base, TypeOK, Event, Statuses, Chains
  <2>3. Nested' /\ ContextsKept'
    BY <1>1, <1>2, <1>3, <2>1, BaseIs, UserIs, SameKeeps
  <2> QED
    BY <2>2, <2>3 DEF Base
<1>5. CASE Matches(class) = {}
  <2>1. PICK f \in Frame :
          /\ New(f, "firing") /\ f.event = fired + 1 /\ f.owing = TRUE /\ f.todo = <<>>
          /\ f.left = Of(class, "INLINE") \cup Of(class, "ON_COMMIT")
          /\ stack' = Append(stack, f)
    BY <1>5, RecordMakes DEF Base
  <2>2. returned' = returned
    BY <1>5 DEF Record
  <2>3. stack' \in Stack
    BY <2>1, BaseIs, Pushed DEF Stack
  <2>4. TypeOK'
    BY <1>1, <1>2, <1>3, <2>2, <2>3 DEF Base, TypeOK, Event, Statuses, Chains, Stack
  <2>5. ~Receives(f) /\ ~Names(f)
    BY <2>1 DEF New, Receives, Names
  <2>6. Len(blocks) \in Nat
    BY LenProperties DEF Base, TypeOK
  <2>7. fired <= fired' /\ fired < fired'
    BY <1>2, BaseIs
  <2>8. Ground(stack) /\ MayLie(stack, f) /\ EnteredNow(f) /\ Sets(f)
    BY <1>1, <2>1, <2>5, <2>6, <2>7, BaseIs, UserIs DEF New, Ground, MayLie, EnteredNow, Sets
  <2>9. Nested' /\ ContextsKept'
    BY <1>1, <1>3, <2>1, <2>7, <2>8, BaseIs, UserIs, PushKeeps
  <2> QED
    BY <2>4, <2>9 DEF Base
<1> QED
  BY <1>4, <1>5

\* Callbacks registered or run at once, on the frames of a fire.
LEMMA OnCommitBase ==
  ASSUME Base, stack # <<>>, Top.kind = "firing", ~raising, NEW f \in Frame, Alike(f, Top),
         f.todo = <<>>, NEW list \in Seq(Hook), OnCommit(Append(Under, f), list),
         fired' = fired, raising' = raising, cause' = cause, scope' = scope, blocks' = blocks
  PROVE  stack' \in Stack /\ hooks' \in Seq(Hook) /\ Nested' /\ ContextsKept'
<1>0. f.kind = "firing"
  BY DEF Alike
<1>1. PICK s \in Stack : s = Append(Under, f)
  <2>1. PICK m \in Nat : m = Len(hooks)
    BY BaseIs
  <2>2. Append(Under, f) \in Stack
    BY <1>0, <2>1, BaseIs, LevelKeeps
  <2> QED
    BY <2>2
<1>2. \/ InAtomic(s) /\ stack' = s /\ hooks' = hooks \o list
      \/ ~InAtomic(s) /\ list = <<>> /\ stack' = s /\ hooks' = hooks
      \/ /\ ~InAtomic(s) /\ hooks' = hooks
         /\ \E g \in Frame : /\ New(g, "hooks") /\ g.event = 0 /\ g.left = {} /\ g.todo = list
                             /\ stack' = Append(s, g)
  BY <1>1, BaseIs, OnCommitMakes
<1>3. hooks' \in Seq(Hook) /\ Len(hooks') \in Nat /\ Len(hooks) <= Len(hooks')
  <2>1. CASE hooks' = hooks \o list
    <3>1. Len(list) \in Nat
      BY LenProperties
    <3> QED
      BY <2>1, <3>1, BaseIs, ConcatProperties
  <2>2. CASE hooks' = hooks
    BY <2>2, BaseIs
  <2> QED
    BY <1>2, <2>1, <2>2
<1>4. PICK m \in Nat : m = Len(hooks')
  BY <1>3
<1>5. /\ s # <<>> /\ Last(s) = f /\ Stacked(s) /\ Dated(s, fired, m) /\ Kept(s, Context)
      /\ InAtomic(s) <=> InAtomic(stack)
  BY <1>1, <1>3, <1>4, BaseIs, LevelKeeps
<1>6. f.kind = "firing"
  BY DEF Alike
<1>7. CASE stack' = s
  <2>1. ~InAtomic(s) => hooks' = <<>>
    BY <1>2, <1>5, BaseIs, Pushed, <1>7
  <2>2. Context' = Context
    BY DEF Context
  <2> QED
    BY <1>3, <1>4, <1>5, <1>6, <1>7, <2>1, <2>2 DEF Nested, ContextsKept
<1>8. ASSUME NEW g \in Frame, New(g, "hooks"), ~InAtomic(s), hooks' = hooks, stack' = Append(s, g)
      PROVE  stack' \in Stack /\ hooks' \in Seq(Hook) /\ Nested' /\ ContextsKept'
  <2>1. stack' \in Stack
    BY <1>8, Pushed DEF Stack
  <2>2. ~Receives(g) /\ ~Names(g)
    BY <1>8 DEF New, Receives, Names
  <2>3. hooks' = <<>>
    BY <1>5, <1>8, BaseIs
  <2>4. g.kind = "hooks" /\ g.token = Context /\ g.from = fired
    BY <1>8 DEF New
  <2>5. Len(blocks) \in Nat
    BY LenProperties DEF Base, TypeOK
  <2>6. Ground(s) /\ MayLie(s, g) /\ EnteredNow(g) /\ Sets(g)
    BY <1>4, <1>5, <1>6, <1>8, <2>2, <2>3, <2>4, <2>5 DEF Ground, MayLie, EnteredNow, Sets
  <2>8. ~raising'
    OBVIOUS
  <2>9. fired' \in Nat /\ fired <= fired'
    BY BaseIs
  <2>7. Nested' /\ ContextsKept'
    BY <1>3, <1>8, <2>6, <2>8, <2>9, BaseIs, PushKeeps
  <2> QED
    BY <1>3, <2>1, <2>7
<1> QED
  BY <1>2, <1>7, <1>8

LEMMA FiringIs ==
  ASSUME Base, Inside("firing")
  PROVE  /\ stack # <<>> /\ Top.kind = "firing" /\ Top.todo = <<>> /\ Top.event \in Ids
         /\ Top.event = Top.from + 1 /\ Top.event <= fired
<1>1. stack # <<>> /\ Top.kind = "firing"
  BY DEF Inside
<1>2. Len(stack) \in DOMAIN stack /\ Top = stack[Len(stack)] /\ Top \in Frame
  BY <1>1, BaseIs, TopIs
<1>3. Top.todo = <<>> /\ Top.event = Top.from + 1 /\ Top.event <= fired
  BY <1>1, <1>2, BaseIs DEF Stacked, Dated
<1>4. Top.event \in Ids \cup {0} /\ Top.from \in Nat
  BY <1>2, FrameIs DEF Frame
<1> QED
  BY <1>1, <1>3, <1>4

LEMMA OweBase == ASSUME Base, Owe PROVE Base'
<1>1. PICK f \in Frame :
        /\ Alike(f, Top) /\ f.owing = FALSE /\ f.left = Top.left /\ f.todo = Top.todo
        /\ Append(Under, f) \in Stack /\ OnCommit(Append(Under, f), Scheduled(Top.event))
  BY OweMakes DEF Base
<1>2. /\ Inside("firing") /\ ~raising /\ event' = event /\ fired' = fired /\ returned' = returned
      /\ raising' = raising /\ cause' = cause /\ blocks' = blocks /\ scope' = scope
      /\ ran' = ran /\ lost' = lost
      /\ rows' = [rows EXCEPT ![Top.event] = Of(event[Top.event].class, "DURABLE")]
  BY DEF Owe
<1>3. PICK list \in Seq(Hook) : list = Scheduled(Top.event)
  BY <1>2, FiringIs, ScheduledIs
<1>4. stack' \in Stack /\ hooks' \in Seq(Hook) /\ Nested' /\ ContextsKept'
  BY <1>1, <1>2, <1>3, FiringIs, OnCommitBase
<1>5. rows' \in [Ids -> SUBSET Receivers]
  BY <1>2, OfIs, TypesAre DEF Base
<1>6. TypeOK'
  BY <1>2, <1>4, <1>5 DEF Base, TypeOK, Stack
<1> QED
  BY <1>4, <1>6 DEF Base

LEMMA FanOutFailsBase == ASSUME Base, FanOutFails PROVE Base'
<1>1. /\ Inside("firing") /\ event' = event /\ rows' = rows /\ fired' = fired
      /\ returned' = returned /\ stack' = stack /\ raising' = TRUE /\ cause' = cause
      /\ blocks' = blocks /\ scope' = scope /\ hooks' = hooks /\ ran' = ran /\ lost' = lost
  BY DEF FanOutFails, RaisesIntoTheCaller
<1>2. TypeOK'
  BY <1>1 DEF Base, TypeOK
<1>3. Nested' /\ ContextsKept'
  BY <1>1, BaseIs, FiringIs, SameKeeps
<1> QED
  BY <1>2, <1>3 DEF Base

LEMMA ReachBase == ASSUME Base, Reach PROVE Base'
<1>1. PICK f \in Frame, r \in Receivers :
        /\ r \in Top.left /\ Alike(f, Top) /\ f.owing = Top.owing /\ f.left = Top.left \ {r}
        /\ f.todo = Top.todo /\ Append(Under, f) \in Stack /\ Top.event \in Ids
        /\ \/ /\ ModeOf[r] = "INLINE" /\ cause' = Top.event /\ hooks' = hooks
              /\ \E g \in Frame :
                   /\ New(g, "inline") /\ g.event = Top.event /\ g.left = {} /\ g.todo = <<>>
                   /\ stack' = Append(Append(Under, f), g)
           \/ /\ ModeOf[r] # "INLINE" /\ cause' = cause
              /\ OnCommit(Append(Under, f), <<[event |-> Top.event, run |-> r]>>)
  BY ReachMakes DEF Base
<1>2. /\ Inside("firing") /\ ~raising /\ event' = event /\ rows' = rows /\ fired' = fired
      /\ returned' = returned /\ raising' = raising /\ blocks' = blocks /\ scope' = scope
      /\ ran' = ran /\ lost' = lost
  BY DEF Reach
<1>3. CASE ModeOf[r] = "INLINE"
  <2>1. PICK g \in Frame :
          /\ New(g, "inline") /\ g.event = Top.event /\ g.left = {} /\ g.todo = <<>>
          /\ stack' = Append(Append(Under, f), g)
    BY <1>1, <1>3
  <2>2. hooks' = hooks /\ cause' = Top.event
    BY <1>1, <1>3
  <2>3. PICK s \in Stack : s = Append(Under, f)
    BY <1>1
  <2>4. PICK m \in Nat : m = Len(hooks)
    BY BaseIs
  <2>5. /\ s # <<>> /\ Last(s) = f /\ Stacked(s) /\ Dated(s, fired, m) /\ Kept(s, Context)
        /\ InAtomic(s) <=> InAtomic(stack)
    BY <1>1, <1>2, <2>3, <2>4, BaseIs, FiringIs, LevelKeeps
  <2>6. f.kind = "firing" /\ f.event = Top.event
    BY <1>1, <1>2, FiringIs DEF Alike
  <2>7. stack' = Append(s, g) /\ stack' \in Stack
    BY <2>1, <2>3, Pushed DEF Stack
  <2>8. TypeOK'
    BY <1>1, <1>2, <2>2, <2>7 DEF Base, TypeOK, Stack
  <2>9. Receives(g) /\ ~Names(g) /\ g.kind = "inline" /\ g.token = Context /\ g.from = fired
    BY <2>1 DEF New, Receives, Names
  <2>10. Len(blocks) \in Nat
    BY LenProperties DEF Base, TypeOK
  <2>11. ~InAtomic(s) => hooks' = <<>>
    BY <2>2, <2>5, BaseIs
  <2>12. Ground(s) /\ MayLie(s, g) /\ EnteredNow(g) /\ Sets(g)
    BY <1>2, <2>1, <2>2, <2>4, <2>5, <2>6, <2>9, <2>10, <2>11 DEF Ground, MayLie, EnteredNow, Sets
  <2>13. Nested' /\ ContextsKept'
    BY <1>2, <2>2, <2>7, <2>12, BaseIs, PushKeeps
  <2> QED
    BY <2>8, <2>13 DEF Base
<1>4. CASE ModeOf[r] # "INLINE"
  <2>1. cause' = cause /\ OnCommit(Append(Under, f), <<[event |-> Top.event, run |-> r]>>)
    BY <1>1, <1>4
  <2>2. [event |-> Top.event, run |-> r] \in Hook
    <3>1. r \in Callbacks
      BY <1>1, <1>2, <1>4, ReachedIs DEF Base, Inside
    <3> QED
      BY <1>1, <3>1 DEF Hook
  <2>3. PICK list \in Seq(Hook) : list = <<[event |-> Top.event, run |-> r]>>
    <3>1. PICK h \in Hook : h = [event |-> Top.event, run |-> r]
      BY <2>2
    <3>2. <<h>> \in Seq(Hook)
      OBVIOUS
    <3> QED
      BY <3>1, <3>2
  <2>4. stack' \in Stack /\ hooks' \in Seq(Hook) /\ Nested' /\ ContextsKept'
    BY <1>1, <1>2, <2>1, <2>3, FiringIs, OnCommitBase
  <2>5. TypeOK'
    BY <1>2, <2>1, <2>4 DEF Base, TypeOK, Stack
  <2> QED
    BY <2>4, <2>5 DEF Base
<1> QED
  BY <1>3, <1>4

LEMMA FireReturnsBase == ASSUME Base, FireReturns PROVE Base'
<1>1. /\ Inside("firing") /\ ~raising /\ stack' = Under /\ returned' = returned \cup {Top.event}
      /\ event' = event /\ rows' = rows /\ fired' = fired /\ raising' = raising /\ cause' = cause
      /\ blocks' = blocks /\ scope' = scope /\ hooks' = hooks /\ ran' = ran /\ lost' = lost
  BY DEF FireReturns
<1>2. stack # <<>> /\ Top.kind = "firing" /\ Top.event \in Ids
  BY <1>1, FiringIs
<1>3. TypeOK'
  <2>1. stack' \in Stack
    BY <1>1, <1>2, TopIs DEF Base
  <2> QED
    BY <1>1, <1>2, <2>1 DEF Base, TypeOK, Stack
<1>4. ~Receives(Top)
  BY <1>2 DEF Receives
<1>5. ~raising'
  BY <1>1
<1>6. Nested' /\ ContextsKept'
  BY <1>1, <1>2, <1>4, <1>5, BaseIs, PopKeeps
<1> QED
  BY <1>3, <1>6 DEF Base

LEMMA RunHookBase == ASSUME Base, RunHook PROVE Base'
<1>1. PICK f \in Frame, h \in Hook :
        /\ Top.kind = "hooks" /\ stack # <<>> /\ Top.todo # <<>> /\ Top.todo \in Seq(Hook)
        /\ h = Head(Top.todo) /\ Alike(f, Top) /\ f.left = Top.left
        /\ f.todo = Tail(Top.todo) /\ Append(Under, f) \in Stack
        /\ ran' = [ran EXCEPT ![h.event][h.run] = @ + 1]
        /\ \/ h.run \notin Receivers /\ cause' = cause /\ stack' = Append(Under, f)
           \/ /\ h.run \in Receivers /\ cause' = h.event
              /\ \E g \in Frame :
                   /\ New(g, "callback") /\ g.event = h.event /\ g.left = {} /\ g.todo = <<>>
                   /\ stack' = Append(Append(Under, f), g)
  BY RunHookMakes DEF Base
<1>2. /\ event' = event /\ rows' = rows /\ fired' = fired /\ returned' = returned
      /\ raising' = raising /\ blocks' = blocks /\ scope' = scope /\ hooks' = hooks /\ lost' = lost
  BY DEF RunHook
<1>3. ~raising /\ ~raising'
  <2>1. ~raising
    BY <1>1, BaseIs DEF Nested
  <2> QED
    BY <1>2, <2>1
<1>4. h.event \in Ids /\ h.run \in Callbacks
  BY DEF Hook
<1>5. ran' \in [Ids -> [Callbacks -> Nat]]
  <2>1. ran \in [Ids -> [Callbacks -> Nat]]
    BY BaseIs, TypesAre
  <2>2. PICK one : one = [ran[h.event] EXCEPT ![h.run] = @ + 1]
    OBVIOUS
  <2>3. one \in [Callbacks -> Nat]
    BY <1>4, <2>1, <2>2
  <2>4. ran' = [ran EXCEPT ![h.event] = one]
    BY <1>1, <2>2
  <2> QED
    BY <1>4, <2>1, <2>3, <2>4
<1>6. f.kind = "hooks"
  BY <1>1 DEF Alike
<1>7. PICK s \in Stack : s = Append(Under, f)
  BY <1>1
<1>8. PICK m \in Nat : m = Len(hooks)
  BY BaseIs
<1>9. /\ s # <<>> /\ Last(s) = f /\ Stacked(s) /\ Dated(s, fired, m) /\ Kept(s, Context)
      /\ InAtomic(s) <=> InAtomic(stack)
  BY <1>1, <1>6, <1>7, <1>8, BaseIs, LevelKeeps
<1>10. CASE cause' = cause /\ stack' = s
  <2>1. Context' = Context
    BY <1>2, <1>10 DEF Context
  <2>2. Nested' /\ ContextsKept'
    BY <1>2, <1>3, <1>8, <1>9, <1>10, <2>1, BaseIs DEF Nested, ContextsKept
  <2>3. TypeOK'
    BY <1>2, <1>5, <1>10 DEF Base, TypeOK, Stack
  <2> QED
    BY <2>2, <2>3 DEF Base
<1>11. ASSUME cause' = h.event, NEW g \in Frame, New(g, "callback"), g.event = h.event,
              g.todo = <<>>, stack' = Append(s, g)
       PROVE  Base'
  <2>1. stack' \in Stack
    BY <1>11, Pushed DEF Stack
  <2>2. TypeOK'
    BY <1>2, <1>4, <1>5, <1>11, <2>1 DEF Base, TypeOK, Stack
  <2>3. Receives(g) /\ ~Names(g) /\ g.kind = "callback" /\ g.token = Context /\ g.from = fired
    BY <1>11 DEF New, Receives, Names
  <2>4. Len(blocks) \in Nat
    BY LenProperties DEF Base, TypeOK
  <2>5. ~InAtomic(s) => hooks' = <<>>
    BY <1>2, <1>9, BaseIs
  <2>6. Ground(s) /\ MayLie(s, g) /\ EnteredNow(g) /\ Sets(g)
    BY <1>2, <1>6, <1>8, <1>9, <1>11, <2>3, <2>4, <2>5 DEF Ground, MayLie, EnteredNow, Sets
  <2>7. Nested' /\ ContextsKept'
    BY <1>2, <1>3, <1>11, <2>6, BaseIs, PushKeeps
  <2> QED
    BY <2>2, <2>7 DEF Base
<1> QED
  BY <1>1, <1>7, <1>10, <1>11

LEMMA HooksRunBase == ASSUME Base, HooksRun PROVE Base'
<1>1. /\ stack # <<>> /\ Top.kind = "hooks" /\ stack' = Under /\ returned' = returned
      /\ event' = event /\ rows' = rows /\ fired' = fired /\ raising' = raising /\ cause' = cause
      /\ blocks' = blocks /\ scope' = scope /\ hooks' = hooks /\ ran' = ran /\ lost' = lost
  BY DEF HooksRun, Inside
<1>2. TypeOK'
  <2>1. stack' \in Stack
    BY <1>1, TopIs DEF Base
  <2> QED
    BY <1>1, <2>1 DEF Base, TypeOK, Stack
<1>3. ~Receives(Top)
  BY <1>1 DEF Receives
<1>4. Nested' /\ ContextsKept'
  BY <1>1, <1>3, BaseIs, PopKeeps
<1> QED
  BY <1>2, <1>4 DEF Base

LEMMA LeaveAtomicBase == ASSUME Base, LeaveAtomic PROVE Base'
<1>1. /\ ~raising /\ stack # <<>> /\ Top.kind = "atomic"
      /\ rows' = rows /\ fired' = fired /\ returned' = returned /\ raising' = raising
      /\ cause' = cause /\ blocks' = blocks /\ scope' = scope /\ ran' = ran /\ lost' = lost
  BY DEF LeaveAtomic, UserRuns, Inside
<1>2. ~raising' /\ ~Receives(Top) /\ Under \in Stack
  BY <1>1, TopIs DEF Receives, Base
<1>3. CASE InAtomic(Under)
  <2>1. stack' = Under /\ event' = event /\ hooks' = hooks
    BY <1>3 DEF LeaveAtomic
  <2>2. TypeOK'
    BY <1>1, <1>2, <2>1 DEF Base, TypeOK, Stack
  <2>3. Nested' /\ ContextsKept'
    BY <1>1, <1>2, <1>3, <2>1, BaseIs, PopKeeps
  <2> QED
    BY <2>2, <2>3 DEF Base
<1>4. CASE ~InAtomic(Under)
  <2>1. event' \in [Ids -> Event] /\ hooks' = <<>>
    BY <1>4, CommittedIs DEF Base
  <2>2. hooks' \in Seq(Hook) /\ Len(hooks') = 0
    BY <2>1, EmptySeq
  <2>3. Stacked(Under) /\ Dated(Under, fired, Len(hooks')) /\ Kept(Under, Context)
    <3>1. Stacked(Under)
      BY <1>1, BaseIs, StackedPopped DEF Under
    <3>2. Top.mark = 0
      <4>1. Len(stack) \in DOMAIN stack /\ Top = stack[Len(stack)] /\ ~AtomicBelow(stack, Len(stack))
        BY <1>1, <1>4, BaseIs, TopIs, InAtomicIs
      <4> QED
        BY <1>1, <4>1, BaseIs DEF Dated
    <3>3. Dated(Under, fired, 0)
      <4>1. PICK n \in Nat, m \in Nat : n = fired /\ m = Len(hooks)
        BY BaseIs
      <4>2. Dated(Under, n, 0)
        BY <1>1, <3>2, <4>1, BaseIs, DatedPopped DEF Under, Top
      <4> QED
        BY <4>1, <4>2
    <3>4. Kept(Under, Context)
      <4>1. PICK held : held = Context
        OBVIOUS
      <4>2. Kept(Under, held)
        BY <1>1, <1>2, <4>1, BaseIs, KeptPopped DEF Under, Top
      <4> QED
        BY <4>1, <4>2
    <3> QED
      BY <2>2, <3>1, <3>3, <3>4
  <2>4. Context' = Context
    BY <1>1 DEF Context
  <2>5. CASE stack' = Under
    <3>1. TypeOK'
      BY <1>1, <1>2, <2>1, <2>2, <2>5 DEF Base, TypeOK, Stack, Event, Statuses, Chains
    <3>2. Nested' /\ ContextsKept'
      BY <1>1, <1>2, <2>1, <2>3, <2>4, <2>5 DEF Nested, ContextsKept
    <3> QED
      BY <3>1, <3>2 DEF Base
  <2>6. ASSUME NEW f \in Frame, New(f, "hooks"), stack' = Append(Under, f)
        PROVE  Base'
    <3>1. stack' \in Stack
      BY <1>2, <2>6, Pushed DEF Stack
    <3>2. TypeOK'
      BY <1>1, <2>1, <2>2, <3>1 DEF Base, TypeOK, Stack, Event, Statuses, Chains
    <3>3. ~Receives(f) /\ ~Names(f) /\ f.kind = "hooks" /\ f.token = Context /\ f.from = fired
      BY <2>6 DEF New, Receives, Names
    <3>4. Len(blocks) \in Nat
      BY LenProperties DEF Base, TypeOK
    <3>5. Under # <<>> => Last(Under).kind # "hooks"
      <4> SUFFICES ASSUME Under # <<>> PROVE Last(Under).kind # "hooks"
        OBVIOUS
      <4>1. PICK n \in Nat : n + 1 = Len(stack)
        <5>1. Len(stack) - 1 \in Nat /\ (Len(stack) - 1) + 1 = Len(stack)
          BY <1>1, BaseIs, TopIs
        <5> QED
          BY <5>1
      <4>2. /\ DOMAIN stack = 1..(n + 1) /\ Top = stack[n + 1] /\ Len(Under) = n
            /\ \A i \in 1..n : Under[i] = stack[i]
        BY <1>1, <4>1, BaseIs, TopIs
      <4>3. Len(Under) > 0 /\ Last(Under) = Under[Len(Under)]
        BY <1>2, Popped DEF Stack
      <4>4. n + 1 \in DOMAIN stack /\ n + 1 > 1 /\ n \in 1..n /\ n + 1 - 1 = n
        BY <4>2, <4>3
      <4> QED
        BY <1>1, <4>2, <4>3, <4>4, BaseIs DEF Stacked
    <3>6. Ground(Under) /\ MayLie(Under, f) /\ EnteredNow(f) /\ Sets(f)
      BY <1>1, <1>4, <2>1, <2>3, <3>3, <3>4, <3>5 DEF Ground, MayLie, EnteredNow, Sets
    <3>7. Nested' /\ ContextsKept'
      BY <1>1, <1>2, <2>2, <2>6, <3>6, BaseIs, PushKeeps
    <3> QED
      BY <3>2, <3>7 DEF Base
  <2> QED
    BY <1>4, <2>5, <2>6, CommitMakes DEF Base
<1> QED
  BY <1>3, <1>4

LEMMA LeaveSuppressedBase == ASSUME Base, LeaveSuppressed PROVE Base'
<1>1. /\ ~raising /\ stack # <<>> /\ Top.kind = "suppressed" /\ stack' = Under /\ event' = event
      /\ rows' = rows /\ fired' = fired /\ returned' = returned /\ raising' = raising
      /\ cause' = cause /\ blocks' = Top.token.blocks /\ scope' = scope /\ hooks' = hooks
      /\ ran' = ran /\ lost' = lost
  BY DEF LeaveSuppressed, UserRuns, Inside, BlocksRestored
<1>2. ~raising' /\ ~Receives(Top) /\ Under \in Stack /\ blocks' \in Seq(Blocks)
  BY <1>1, TopIs DEF Receives, Base, Frame
<1>3. TypeOK'
  BY <1>1, <1>2 DEF Base, TypeOK, Stack
<1>4. Nested' /\ ContextsKept'
  BY <1>1, <1>2, BaseIs, PopKeeps
<1> QED
  BY <1>3, <1>4 DEF Base

LEMMA LeaveAttributedBase == ASSUME Base, LeaveAttributed PROVE Base'
<1>1. /\ ~raising /\ stack # <<>> /\ Top.kind = "attributed" /\ stack' = Under /\ event' = event
      /\ rows' = rows /\ fired' = fired /\ returned' = returned /\ raising' = raising
      /\ cause' = cause /\ blocks' = blocks /\ scope' = Top.token.scope /\ hooks' = hooks
      /\ ran' = ran /\ lost' = lost
  BY DEF LeaveAttributed, UserRuns, Inside, ScopeRestored
<1>2. ~raising' /\ ~Receives(Top) /\ Under \in Stack /\ scope' \in Scope
  BY <1>1, TopIs DEF Receives, Base, Frame
<1>3. TypeOK'
  BY <1>1, <1>2 DEF Base, TypeOK, Stack
<1>4. Nested' /\ ContextsKept'
  BY <1>1, <1>2, BaseIs, PopKeeps
<1> QED
  BY <1>3, <1>4 DEF Base

LEMMA LeaveReceiverBase == ASSUME Base, LeaveReceiver PROVE Base'
<1>1. /\ ~raising /\ stack # <<>> /\ Top.kind \in {"inline", "callback"} /\ stack' = Under
      /\ event' = event /\ rows' = rows /\ fired' = fired /\ returned' = returned
      /\ raising' = raising /\ cause' = Top.token.cause /\ blocks' = blocks /\ scope' = scope
      /\ hooks' = hooks /\ ran' = ran /\ lost' = lost
  BY DEF LeaveReceiver, UserRuns, Inside, CauseRestored
<1>2. ~raising' /\ Receives(Top) /\ Under \in Stack /\ cause' \in Ids \cup {0}
  BY <1>1, TopIs DEF Receives, Base, Frame
<1>3. TypeOK'
  BY <1>1, <1>2 DEF Base, TypeOK, Stack
<1>4. Nested' /\ ContextsKept'
  BY <1>1, <1>2, BaseIs, PopKeeps
<1> QED
  BY <1>3, <1>4 DEF Base

LEMMA RaiseBase == ASSUME Base, Raise PROVE Base'
<1>1. /\ UserRuns /\ event' = event /\ rows' = rows /\ fired' = fired /\ returned' = returned
      /\ stack' = stack /\ raising' = TRUE /\ cause' = cause /\ blocks' = blocks
      /\ scope' = scope /\ hooks' = hooks /\ ran' = ran /\ lost' = lost
  BY DEF Raise
<1>2. TypeOK'
  BY <1>1 DEF Base, TypeOK
<1>3. Nested' /\ ContextsKept'
  BY <1>1, BaseIs, UserIs, SameKeeps DEF Top
<1> QED
  BY <1>2, <1>3 DEF Base

LEMMA RollBackBase == ASSUME Base, RollBack PROVE Base'
<1>1. /\ stack # <<>> /\ Top.kind = "atomic" /\ stack' = Under /\ Undone(Top.from)
      /\ fired' = fired /\ returned' = returned /\ raising' \in BOOLEAN /\ cause' = cause
      /\ blocks' = blocks /\ scope' = scope /\ hooks' = SubSeq(hooks, 1, Top.mark)
      /\ ran' = ran /\ lost' = lost
  BY DEF RollBack, Inside
<1>2. Top.mark \in Nat /\ Top.mark <= Len(hooks) /\ ~Receives(Top) /\ Under \in Stack
  <2>1. Len(stack) \in DOMAIN stack /\ Top = stack[Len(stack)] /\ Top \in Frame /\ Under \in Stack
    BY <1>1, BaseIs, TopIs
  <2> QED
    BY <1>1, <2>1, BaseIs, FrameIs DEF Dated, Receives
<1>3. hooks' \in Seq(Hook) /\ Len(hooks') = Top.mark
  <2>1. \A p \in 1..Top.mark : hooks[p] \in Hook
    BY <1>2, BaseIs, ElementOfSeq
  <2>2. PICK m \in Nat : m = Top.mark
    BY <1>2
  <2>3. SubSeq(hooks, 1, m) \in Seq(Hook) /\ Len(SubSeq(hooks, 1, m)) = IF 1 <= m THEN m - 1 + 1 ELSE 0
    BY <2>1, <2>2, SubSeqProperties
  <2>4. Len(SubSeq(hooks, 1, m)) = m
    BY <2>3
  <2> QED
    BY <1>1, <2>2, <2>3, <2>4
<1>4. event' \in [Ids -> Event] /\ rows' \in [Ids -> SUBSET Receivers]
  BY <1>1, UndoneIs DEF Base
<1>5. TypeOK'
  BY <1>1, <1>2, <1>3, <1>4 DEF Base, TypeOK, Stack, Event, Statuses, Chains
<1>6. Nested' /\ ContextsKept'
  BY <1>1, <1>2, <1>3, BaseIs, PopKeeps
<1> QED
  BY <1>5, <1>6 DEF Base

LEMMA UnwindBase == ASSUME Base, Unwind PROVE Base'
<1>1. /\ stack # <<>> /\ Top.kind \in {"suppressed", "attributed", "firing", "inline"}
      /\ stack' = Under /\ event' = event /\ rows' = rows /\ fired' = fired
      /\ returned' = returned /\ raising' = raising /\ hooks' = hooks /\ ran' = ran /\ lost' = lost
      /\ blocks' = IF Top.kind = "suppressed" THEN Top.token.blocks ELSE blocks
      /\ scope' = IF Top.kind = "attributed" THEN Top.token.scope ELSE scope
      /\ cause' = IF Top.kind = "inline" THEN Top.token.cause ELSE cause
  BY DEF Unwind, Inside, BlocksRestored, ScopeRestored, CauseRestored
<1>2. /\ Receives(Top) <=> Top.kind = "inline"
      /\ Under \in Stack /\ Top.token \in [cause: Ids \cup {0}, blocks: Seq(Blocks), scope: Scope]
  BY <1>1, TopIs DEF Receives, Base, Frame
<1>3. cause' \in Ids \cup {0} /\ blocks' \in Seq(Blocks) /\ scope' \in Scope
  BY <1>1, <1>2 DEF Base, TypeOK
<1>4. TypeOK'
  BY <1>1, <1>2, <1>3 DEF Base, TypeOK, Stack
<1>5. cause' = IF Receives(Top) THEN Top.token.cause ELSE cause
  BY <1>1, <1>2
<1>6. Nested' /\ ContextsKept'
  BY <1>1, <1>2, <1>5, BaseIs, PopKeeps
<1> QED
  BY <1>4, <1>6 DEF Base

LEMMA SurviveBase == ASSUME Base, Survive PROVE Base'
<1>1. /\ stack # <<>> /\ Top.kind = "callback" /\ stack' = Under /\ event' = event
      /\ rows' = rows /\ fired' = fired /\ returned' = returned /\ raising' = FALSE
      /\ cause' = Top.token.cause /\ blocks' = blocks /\ scope' = scope
      /\ hooks' = hooks /\ ran' = ran /\ lost' = lost
  BY DEF Survive, Inside, CauseRestored, RestKept
<1>2. Receives(Top) /\ Under \in Stack /\ cause' \in Ids \cup {0}
  BY <1>1, TopIs DEF Receives, Base, Frame
<1>3. TypeOK'
  BY <1>1, <1>2 DEF Base, TypeOK, Stack
<1>4. Nested' /\ ContextsKept'
  BY <1>1, <1>2, BaseIs, PopKeeps
<1> QED
  BY <1>3, <1>4 DEF Base

LEMMA FailBase == ASSUME Base, Fail PROVE Base'
<1>1. /\ stack = <<>> /\ event' = event /\ rows' = rows /\ fired' = fired /\ returned' = returned
      /\ stack' = stack /\ raising' = FALSE /\ cause' = cause /\ blocks' = blocks
      /\ scope' = scope /\ hooks' = hooks /\ ran' = ran /\ lost' = lost
  BY DEF Fail
<1>2. TypeOK'
  BY <1>1 DEF Base, TypeOK
<1>3. Nested' /\ ContextsKept'
  BY <1>1, BaseIs, SameKeeps
<1> QED
  BY <1>2, <1>3 DEF Base

\* An empty stack says that there is nothing.
LEMMA EmptyBase ==
  ASSUME stack' = <<>>, hooks' = <<>>, cause' = 0, blocks' = <<>>, scope' = Empty
  PROVE  Nested' /\ ContextsKept'
<1>1. Len(<<>>) = 0 /\ DOMAIN <<>> = {} /\ 1..0 = {}
  OBVIOUS
<1>2. PICK s : s = <<>>
  OBVIOUS
<1>3. Stacked(s) /\ Dated(s, fired', Len(hooks'))
  BY <1>1, <1>2 DEF Stacked, Dated
<1>4. PICK now : now = Context'
  OBVIOUS
<1>5. now.cause = 0 /\ now.scope.actor = NoOne /\ now.scope.chain = 0 /\ Len(now.blocks) = 0
  BY <1>1, <1>4, NothingIs DEF Context
<1>6. Suppressing(s, 0) = {}
  BY <1>1 DEF Suppressing
<1>7. Tells(s, 0, now)
  BY <1>1, <1>5, <1>6, FS_EmptySet DEF Tells, TellsCause, TellsActor
<1>8. Kept(s, now)
  BY <1>1, <1>2, <1>7 DEF Kept
<1> QED
  BY <1>2, <1>3, <1>4, <1>8 DEF Nested, ContextsKept

LEMMA CrashBase == ASSUME Base, Crash PROVE Base'
<1>1. /\ Undone(0) /\ lost' = lost \cup Pending /\ stack' = <<>> /\ raising' = FALSE
      /\ cause' = 0 /\ blocks' = <<>> /\ scope' = Empty /\ hooks' = <<>>
      /\ fired' = fired /\ returned' = returned /\ ran' = ran
  BY DEF Crash
<1>2. event' \in [Ids -> Event] /\ rows' \in [Ids -> SUBSET Receivers]
  BY <1>1, UndoneIs DEF Base
<1>3. Pending \subseteq Ids
  <2> SUFFICES ASSUME NEW i \in DOMAIN stack
               PROVE  /\ stack[i].kind = "hooks" => {h.event : h \in ToSet(stack[i].todo)} \subseteq Ids
                      /\ stack[i].kind = "firing" => stack[i].event \in Ids
    BY DEF Pending
  <2>1. stack[i] \in Frame
    BY BaseIs, ElementOfSeq, LenProperties DEF Stack
  <2>2. stack[i].todo \in Seq(Hook) /\ stack[i].event \in Ids \cup {0} /\ stack[i].from \in Nat
    BY <2>1, FrameIs DEF Frame
  <2>3. \A p \in DOMAIN stack[i].todo : stack[i].todo[p] \in Hook
    BY <2>2, ElementOfSeq, LenProperties
  <2>4. \A h \in ToSet(stack[i].todo) : h.event \in Ids
    BY <2>3 DEF ToSet, Hook
  <2>5. stack[i].kind = "firing" => stack[i].event # 0
    BY <2>2, BaseIs DEF Dated
  <2> QED
    BY <2>2, <2>4, <2>5
<1>4. TypeOK'
  <2>1. <<>> \in Seq(Frame) /\ <<>> \in Seq(Blocks) /\ <<>> \in Seq(Hook) /\ Empty \in Scope
    BY EmptySeq, NothingIs
  <2> QED
    BY <1>1, <1>2, <1>3, <2>1 DEF Base, TypeOK, Event, Statuses, Chains
<1>5. Nested' /\ ContextsKept'
  BY <1>1, EmptyBase
<1> QED
  BY <1>4, <1>5 DEF Base

LEMMA BaseInductive == ASSUME Base, [Next]_vars PROVE Base'
<1>1. CASE UNCHANGED vars
  <2>1. TypeOK'
    BY <1>1 DEF Base, TypeOK, vars
  <2>2. Nested' /\ ContextsKept'
    BY <1>1 DEF Base, Nested, ContextsKept, Context, Top, InAtomic, vars
  <2> QED
    BY <2>1, <2>2 DEF Base
<1>2. CASE Next
  BY <1>2, EnterAtomicBase, EnterSuppressedBase, EnterAttributedBase, LeaveAtomicBase,
     LeaveSuppressedBase, LeaveAttributedBase, LeaveReceiverBase, RecordBase, OweBase,
     FanOutFailsBase, ReachBase, FireReturnsBase, RunHookBase, HooksRunBase, RaiseBase,
     RollBackBase, UnwindBase, SurviveBase, FailBase, CrashBase DEF Next
<1> QED
  BY <1>1, <1>2

-----------------------------------------------------------------------------
(* What a step carries over.                                               *)

\* Frame i is still there, on the frames it lay on.
Carried(i) ==
  /\ i \in DOMAIN stack /\ i \in DOMAIN stack'
  /\ \A j \in 1..i : Alike(stack'[j], stack[j])
  /\ stack'[i].left \subseteq stack[i].left
  /\ \A p \in DOMAIN stack'[i].todo : \E q \in DOMAIN stack[i].todo :
       stack'[i].todo[p] = stack[i].todo[q]

LEMMA StackIs ==
  ASSUME Base
  PROVE  /\ Len(stack) \in Nat /\ DOMAIN stack = 1..Len(stack)
         /\ \A i \in DOMAIN stack : stack[i] \in Frame /\ i \in Nat /\ i > 0 /\ i <= Len(stack)
BY BaseIs, LenProperties, ElementOfSeq DEF Stack

LEMMA PushCarries ==
  ASSUME Base, NEW f \in Frame, stack' = Append(stack, f), NEW n \in Nat, n = Len(stack)
  PROVE  /\ DOMAIN stack' = 1..(n + 1) /\ Len(stack') = n + 1 /\ stack'[n + 1] = f
         /\ DOMAIN stack = 1..n
         /\ \A i \in 1..n : Carried(i) /\ stack'[i] = stack[i]
<1>1. /\ stack' \in Seq(Frame) /\ Len(stack') = n + 1 /\ stack'[n + 1] = f
      /\ \A i \in 1..n : stack'[i] = stack[i]
  BY BaseIs, Pushed DEF Stack
<1>2. DOMAIN stack' = 1..(n + 1) /\ DOMAIN stack = 1..n
  BY <1>1, StackIs, LenProperties
<1>3. ASSUME NEW i \in 1..n PROVE Carried(i)
  BY <1>1, <1>2 DEF Carried, Alike
<1> QED
  BY <1>1, <1>2, <1>3

LEMMA PopCarries ==
  ASSUME Base, stack # <<>>, stack' = Under, NEW n \in Nat, n + 1 = Len(stack)
  PROVE  /\ DOMAIN stack' = 1..n /\ Len(stack') = n /\ DOMAIN stack = 1..(n + 1)
         /\ Top = stack[n + 1]
         /\ \A i \in 1..n : Carried(i) /\ stack'[i] = stack[i]
<1>1. /\ stack' \in Seq(Frame) /\ Len(stack') = n /\ DOMAIN stack = 1..(n + 1)
      /\ Top = stack[n + 1] /\ \A i \in 1..n : stack'[i] = stack[i]
  BY BaseIs, TopIs DEF Stack
<1>2. DOMAIN stack' = 1..n
  BY <1>1, LenProperties
<1>3. ASSUME NEW i \in 1..n PROVE Carried(i)
  BY <1>1, <1>2 DEF Carried, Alike
<1> QED
  BY <1>1, <1>2, <1>3

\* The last frame goes on, with no more to do than it had.
Onward(f) ==
  /\ Alike(f, Top) /\ f.left \subseteq Top.left
  /\ \A p \in DOMAIN f.todo : \E q \in DOMAIN Top.todo : f.todo[p] = Top.todo[q]

LEMMA SwapCarries ==
  ASSUME Base, stack # <<>>, NEW f \in Frame, stack' = Append(Under, f), Onward(f),
         NEW n \in Nat, n + 1 = Len(stack)
  PROVE  /\ DOMAIN stack' = 1..(n + 1) /\ Len(stack') = n + 1 /\ DOMAIN stack = 1..(n + 1)
         /\ stack'[n + 1] = f /\ Top = stack[n + 1]
         /\ \A i \in 1..n : stack'[i] = stack[i]
         /\ \A i \in 1..(n + 1) : Carried(i)
<1>1. /\ stack' \in Seq(Frame) /\ Len(stack') = n + 1 /\ stack'[n + 1] = f
      /\ \A i \in 1..n : stack'[i] = stack[i]
  <2>1. /\ stack' \in Seq(Frame) /\ Len(stack') = Len(stack) /\ stack'[Len(stack)] = f
        /\ \A i \in 1..(Len(stack) - 1) : stack'[i] = stack[i]
    BY BaseIs, Swapped DEF Stack, Under
  <2>2. Len(stack) - 1 = n
    OBVIOUS
  <2> QED
    BY <2>1, <2>2
<1>2. DOMAIN stack' = 1..(n + 1) /\ DOMAIN stack = 1..(n + 1) /\ Top = stack[n + 1]
  BY <1>1, BaseIs, TopIs, LenProperties
<1>3. ASSUME NEW i \in 1..n PROVE Carried(i)
  BY <1>1, <1>2 DEF Carried, Alike, Onward
<1>4. Carried(n + 1)
  <2>1. \A j \in 1..(n + 1) : j \in 1..n \/ j = n + 1
    OBVIOUS
  <2> QED
    BY <1>1, <1>2, <2>1 DEF Carried, Alike, Onward
<1>5. \A i \in 1..(n + 1) : i \in 1..n \/ i = n + 1
  OBVIOUS
<1> QED
  BY <1>1, <1>2, <1>3, <1>4, <1>5

LEMMA SwapPushCarries ==
  ASSUME Base, stack # <<>>, NEW f \in Frame, NEW g \in Frame,
         stack' = Append(Append(Under, f), g), Onward(f),
         NEW n \in Nat, n + 1 = Len(stack)
  PROVE  /\ DOMAIN stack' = 1..(n + 2) /\ Len(stack') = n + 2 /\ DOMAIN stack = 1..(n + 1)
         /\ stack'[n + 2] = g /\ stack'[n + 1] = f /\ Top = stack[n + 1]
         /\ \A i \in 1..n : stack'[i] = stack[i]
         /\ \A i \in 1..(n + 1) : Carried(i)
<1>1. PICK s \in Seq(Frame) :
        /\ s = Append(Under, f) /\ Len(s) = n + 1 /\ s[n + 1] = f
        /\ \A i \in 1..n : s[i] = stack[i]
  <2>1. Append(Under, f) \in Seq(Frame)
    BY BaseIs, Swapped DEF Stack, Top, Under
  <2> QED
    <3>1. PICK s \in Seq(Frame) : s = Append(Under, f)
      BY <2>1
    <3>2. /\ Len(s) = Len(stack) /\ s[Len(stack)] = f
          /\ \A i \in 1..(Len(stack) - 1) : s[i] = stack[i]
      BY <3>1, BaseIs, Swapped DEF Stack, Under
    <3>3. Len(stack) - 1 = n
      OBVIOUS
    <3> QED
      BY <3>1, <3>2, <3>3
<1>2. /\ stack' \in Seq(Frame) /\ Len(stack') = n + 2 /\ stack'[n + 2] = g
      /\ \A i \in 1..(n + 1) : stack'[i] = s[i]
  <2>1. stack' = Append(s, g) /\ n + 1 + 1 = n + 2
    BY <1>1
  <2> QED
    BY <1>1, <2>1, Pushed
<1>3. DOMAIN stack' = 1..(n + 2) /\ DOMAIN stack = 1..(n + 1) /\ Top = stack[n + 1]
  BY <1>2, BaseIs, TopIs, LenProperties
<1>4. stack'[n + 1] = f /\ \A i \in 1..n : stack'[i] = stack[i]
  BY <1>1, <1>2
<1>5. ASSUME NEW i \in 1..n PROVE Carried(i)
  BY <1>3, <1>4 DEF Carried, Alike, Onward
<1>6. Carried(n + 1)
  <2>1. \A j \in 1..(n + 1) : j \in 1..n \/ j = n + 1
    OBVIOUS
  <2>2. n + 1 \in 1..(n + 2)
    OBVIOUS
  <2> QED
    BY <1>3, <1>4, <2>1, <2>2 DEF Carried, Alike, Onward
<1>7. \A i \in 1..(n + 1) : i \in 1..n \/ i = n + 1
  OBVIOUS
<1> QED
  BY <1>2, <1>3, <1>4, <1>5, <1>6, <1>7

LEMMA PopPushCarries ==
  ASSUME Base, stack # <<>>, NEW f \in Frame, stack' = Append(Under, f),
         NEW n \in Nat, n + 1 = Len(stack)
  PROVE  /\ DOMAIN stack' = 1..(n + 1) /\ Len(stack') = n + 1 /\ DOMAIN stack = 1..(n + 1)
         /\ stack'[n + 1] = f /\ Top = stack[n + 1]
         /\ \A i \in 1..n : Carried(i) /\ stack'[i] = stack[i]
<1>1. /\ stack' \in Seq(Frame) /\ Len(stack') = n + 1 /\ stack'[n + 1] = f
      /\ \A i \in 1..n : stack'[i] = stack[i]
  <2>1. /\ stack' \in Seq(Frame) /\ Len(stack') = Len(stack) /\ stack'[Len(stack)] = f
        /\ \A i \in 1..(Len(stack) - 1) : stack'[i] = stack[i]
    BY BaseIs, Swapped DEF Stack, Under
  <2>2. Len(stack) - 1 = n
    OBVIOUS
  <2> QED
    BY <2>1, <2>2
<1>2. DOMAIN stack' = 1..(n + 1) /\ DOMAIN stack = 1..(n + 1) /\ Top = stack[n + 1]
  BY <1>1, BaseIs, TopIs, LenProperties
<1>3. ASSUME NEW i \in 1..n PROVE Carried(i)
  BY <1>1, <1>2 DEF Carried, Alike
<1> QED
  BY <1>1, <1>2, <1>3

LEMMA DepthIs ==
  ASSUME Base, stack # <<>>
  PROVE  \E n \in Nat : n + 1 = Len(stack)
<1>1. Len(stack) - 1 \in Nat /\ (Len(stack) - 1) + 1 = Len(stack)
  BY BaseIs, TopIs
<1> QED
  BY <1>1

LEMMA CarriedIs ==
  ASSUME Base, NEW i \in DOMAIN stack, Carried(i)
  PROVE  /\ AtomicBelow(stack', i) <=> AtomicBelow(stack, i)
         /\ stack'[i].kind = stack[i].kind /\ stack'[i].event = stack[i].event
         /\ stack'[i].token = stack[i].token /\ stack'[i].from = stack[i].from
         /\ stack'[i].mark = stack[i].mark
<1>1. i \in Nat /\ i > 0
  BY StackIs
<1>2. i \in 1..i /\ \A j \in 1..(i - 1) : j \in 1..i
  BY <1>1
<1> QED
  BY <1>2 DEF Carried, Alike, AtomicBelow

-----------------------------------------------------------------------------
(* Events, and the frames that tell what becomes of them.                  *)

\* What is written of an event stays, and so does a commit.
Steady ==
  \A e \in Ids :
    /\ e <= fired =>
         /\ event'[e].class = event[e].class /\ event'[e].cause = event[e].cause
         /\ event'[e].chain = event[e].chain /\ event'[e].suppressed = event[e].suppressed
         /\ event'[e].inside = event[e].inside
    /\ event[e].status = "committed" => event'[e].status = "committed"

LEMMA UndoneSteady == ASSUME Base, NEW from, Undone(from) PROVE Steady
<1> SUFFICES ASSUME NEW e \in Ids
             PROVE  /\ event'[e].class = event[e].class /\ event'[e].cause = event[e].cause
                    /\ event'[e].chain = event[e].chain /\ event'[e].suppressed = event[e].suppressed
                    /\ event'[e].inside = event[e].inside
                    /\ event[e].status = "committed" => event'[e].status = "committed"
  BY DEF Steady
<1>1. event[e] \in Event
  BY BaseIs, TypesAre
<1>2. \/ event[e].status = "written" /\ event'[e] = [event[e] EXCEPT !.status = "undone"]
      \/ event'[e] = event[e]
  BY UndoneIs DEF Base
<1> QED
  BY <1>1, <1>2 DEF Event

LEMMA CommittedSteady == ASSUME Base, LeaveAtomic, ~InAtomic(Under) PROVE Steady
<1> SUFFICES ASSUME NEW e \in Ids
             PROVE  /\ event'[e].class = event[e].class /\ event'[e].cause = event[e].cause
                    /\ event'[e].chain = event[e].chain /\ event'[e].suppressed = event[e].suppressed
                    /\ event'[e].inside = event[e].inside
                    /\ event[e].status = "committed" => event'[e].status = "committed"
  BY DEF Steady
<1>1. event[e] \in Event
  BY BaseIs, TypesAre
<1>2. event'[e] = IF event[e].status = "written"
                  THEN [event[e] EXCEPT !.status = "committed"] ELSE event[e]
  BY CommittedIs DEF Base
<1> QED
  BY <1>1, <1>2 DEF Event

LEMMA RecordSteady ==
  ASSUME Base, EventsKept, NEW class \in Classes, Record(class)
  PROVE  Steady /\ \A e \in Ids : e <= fired => event'[e] = event[e]
<1>1. \A e \in Ids : e # fired + 1 => event'[e] = event[e]
  BY WrittenIs DEF Base
<1>2. \A e \in Ids : e <= fired => e # fired + 1
  BY BaseIs, Bounds DEF Ids
<1>3. \A e \in Ids : event[e].status = "committed" => e <= fired
  <2>1. \A e \in Ids : e \in Nat
    BY Bounds DEF Ids
  <2> QED
    BY <2>1, BaseIs DEF EventsKept, EventKept
<1> QED
  BY <1>1, <1>2, <1>3 DEF Steady

\* The events of a step in which the tables stay.
LEMMA SameSteady == ASSUME event' = event PROVE Steady
BY DEF Steady

LEMMA StepSteady == ASSUME Base, EventsKept, [Next]_vars PROVE Steady
<1>1. CASE event' = event
  BY <1>1, SameSteady
<1>2. ASSUME NEW class \in Classes, Record(class) PROVE Steady
  BY <1>2, RecordSteady
<1>3. CASE LeaveAtomic
  <2>1. CASE InAtomic(Under)
    <3>1. event' = event
      BY <1>3, <2>1 DEF LeaveAtomic
    <3> QED
      BY <3>1, SameSteady
  <2>2. CASE ~InAtomic(Under)
    BY <1>3, <2>2, CommittedSteady
  <2> QED
    BY <2>1, <2>2
<1>4. CASE RollBack \/ Crash
  BY <1>4, UndoneSteady DEF RollBack, Crash
<1>5. event' = event \/ (\E class \in Classes : Record(class)) \/ LeaveAtomic \/ RollBack \/ Crash
  BY DEF Next, vars, EnterAtomic, EnterSuppressed, EnterAttributed, LeaveSuppressed,
     LeaveAttributed, LeaveReceiver, Owe, FanOutFails, Reach, FireReturns, RunHook, HooksRun,
     Raise, Unwind, Survive, Fail
<1> QED
  BY <1>1, <1>2, <1>3, <1>4, <1>5

\* A frame that is carried over tells the same, where its event stays.
LEMMA FrameCarried ==
  ASSUME Base, Base', EventsKept, Steady, NEW i \in DOMAIN stack, Carried(i),
         stack[i].kind = "firing" =>
           /\ event'[stack[i].event].status = event[stack[i].event].status
           /\ stack[i].event \notin returned'
           /\ rows'[stack[i].event] \in {rows[stack[i].event], Of(event[stack[i].event].class, "DURABLE")}
           /\ ~stack'[i].owing =>
                ~stack[i].owing \/ rows'[stack[i].event] = Of(event[stack[i].event].class, "DURABLE"),
         stack[i].kind = "atomic" => \A p \in DOMAIN hooks' :
           p <= stack[i].mark <=> hooks'[p].event <= stack[i].from
  PROVE  FrameKept(stack, i)'
<1>1. FrameKept(stack, i)
  BY DEF EventsKept
<1>2. /\ AtomicBelow(stack', i) <=> AtomicBelow(stack, i)
      /\ stack'[i].kind = stack[i].kind /\ stack'[i].event = stack[i].event
      /\ stack'[i].from = stack[i].from /\ stack'[i].mark = stack[i].mark
  BY CarriedIs
<1>3. stack[i] \in Frame /\ stack'[i].todo \in Seq(Hook)
  <2>1. stack' \in Seq(Frame) /\ i \in DOMAIN stack'
    BY DEF Base, TypeOK, Carried
  <2>2. stack'[i] \in Frame
    BY <2>1, LenProperties, ElementOfSeq
  <2> QED
    BY <2>2, StackIs DEF Frame
<1>4. PICK e : e = stack[i].event
  OBVIOUS
<1>5. stack[i].kind = "firing" =>
        /\ e \in Ids /\ e <= fired /\ event'[e].class = event[e].class
        /\ event'[e].suppressed = event[e].suppressed
  <2> SUFFICES ASSUME stack[i].kind = "firing"
               PROVE  /\ e \in Ids /\ e <= fired /\ event'[e].class = event[e].class
                      /\ event'[e].suppressed = event[e].suppressed
    OBVIOUS
  <2>1. e = stack[i].from + 1 /\ e <= fired /\ stack[i].from \in Nat /\ e \in Ids \cup {0}
    BY <1>3, <1>4, BaseIs, FrameIs DEF Dated, Frame
  <2> QED
    BY <2>1 DEF Steady
<1>6. stack'[i].kind = "firing" =>
        /\ event'[e].status = IF AtomicBelow(stack', i) THEN "written" ELSE "committed"
        /\ ~event'[e].suppressed /\ e \notin returned'
        /\ ~stack'[i].owing => rows'[e] = Of(event'[e].class, "DURABLE")
        /\ stack'[i].left \subseteq Of(event'[e].class, "INLINE") \cup Of(event'[e].class, "ON_COMMIT")
  <2> SUFFICES ASSUME stack[i].kind = "firing"
               PROVE  /\ event'[e].status = IF AtomicBelow(stack', i) THEN "written" ELSE "committed"
                      /\ ~event'[e].suppressed /\ e \notin returned'
                      /\ ~stack'[i].owing => rows'[e] = Of(event'[e].class, "DURABLE")
                      /\ stack'[i].left \subseteq Of(event'[e].class, "INLINE") \cup Of(event'[e].class, "ON_COMMIT")
    BY <1>2
  <2>1. /\ event[e].status = IF AtomicBelow(stack, i) THEN "written" ELSE "committed"
        /\ ~event[e].suppressed
        /\ ~stack[i].owing => rows[e] = Of(event[e].class, "DURABLE")
        /\ stack[i].left \subseteq Of(event[e].class, "INLINE") \cup Of(event[e].class, "ON_COMMIT")
    BY <1>1, <1>4 DEF FrameKept
  <2>2. stack'[i].left \subseteq stack[i].left
    BY DEF Carried
  <2> QED
    BY <1>2, <1>4, <1>5, <2>1, <2>2
<1>7. stack'[i].kind = "callback" => e # 0 /\ event'[e].status = "committed"
  <2> SUFFICES ASSUME stack[i].kind = "callback" PROVE e # 0 /\ event'[e].status = "committed"
    BY <1>2
  <2>1. e # 0 /\ event[e].status = "committed" /\ e \in Ids \cup {0}
    BY <1>1, <1>3, <1>4 DEF FrameKept, Frame
  <2> QED
    BY <2>1 DEF Steady
<1>8. ASSUME NEW p \in DOMAIN stack'[i].todo
      PROVE  event'[stack'[i].todo[p].event].status = "committed"
  <2>1. PICK q \in DOMAIN stack[i].todo : stack'[i].todo[p] = stack[i].todo[q]
    BY DEF Carried
  <2>2. event[stack[i].todo[q].event].status = "committed"
    BY <1>1 DEF FrameKept
  <2>3. stack[i].todo \in Seq(Hook)
    BY <1>3 DEF Frame
  <2>4. stack[i].todo[q] \in Hook
    BY <2>3, LenProperties, ElementOfSeq
  <2>5. stack[i].todo[q].event \in Ids
    BY <2>4 DEF Hook
  <2> QED
    BY <2>1, <2>2, <2>5 DEF Steady
<1>9. stack'[i].kind = "atomic" => \A p \in DOMAIN hooks' :
        p <= stack'[i].mark <=> hooks'[p].event <= stack'[i].from
  BY <1>2
<1> QED
  BY <1>2, <1>4, <1>6, <1>7, <1>8, <1>9 DEF FrameKept

-----------------------------------------------------------------------------
(* What the frames tell of an event that is not yet committed.             *)

LEMMA ToldPushed ==
  ASSUME NEW s \in Stack, NEW f \in Frame, NEW e, InAtomic(s)
  PROVE  /\ InAtomic(Append(s, f))
         /\ Undoable(s, e) => Undoable(Append(s, f), e)
         /\ Fired(s, e) => Fired(Append(s, f), e)
<1>1. PICK t \in Stack :
        /\ t = Append(s, f) /\ Len(t) = Len(s) + 1 /\ t[Len(s) + 1] = f
        /\ \A i \in 1..Len(s) : t[i] = s[i]
  <2>1. /\ Append(s, f) \in Stack /\ Len(Append(s, f)) = Len(s) + 1
        /\ Append(s, f)[Len(s) + 1] = f /\ \A i \in 1..Len(s) : Append(s, f)[i] = s[i]
    BY Pushed DEF Stack
  <2> QED
    BY <2>1
<1>2. PICK n \in Nat : n = Len(s)
  BY LenProperties DEF Stack
<1>3. DOMAIN s = 1..n /\ DOMAIN t = 1..(n + 1)
  BY <1>1, <1>2, LenProperties DEF Stack
<1>4. \A i \in 1..n : i \in 1..(n + 1) /\ t[i] = s[i]
  BY <1>1, <1>2
<1>5. \A i \in 1..(n + 1) : i \in 1..n \/ i = n + 1
  OBVIOUS
<1>6. AtomicBelow(t, n + 1)
  BY <1>3, <1>4 DEF InAtomic, AtomicBelow
<1>7. ASSUME NEW i \in 1..n PROVE AtomicBelow(t, i) <=> AtomicBelow(s, i)
  <2>1. \A j \in 1..(i - 1) : j \in 1..n
    OBVIOUS
  <2> QED
    BY <1>4, <2>1 DEF AtomicBelow
<1>8. Undoable(s, e) => Undoable(t, e)
  BY <1>3, <1>4, <1>5, <1>6, <1>7 DEF Undoable
<1>9. Fired(s, e) => Fired(t, e)
  BY <1>3, <1>4 DEF Fired
<1>10. InAtomic(t)
  BY <1>3, <1>4 DEF InAtomic
<1> QED
  BY <1>1, <1>8, <1>9, <1>10

LEMMA ToldSwapped ==
  ASSUME NEW s \in Stack, s # <<>>, NEW f \in Frame, Alike(f, Last(s)), NEW e
  PROVE  /\ InAtomic(Append(Front(s), f)) <=> InAtomic(s)
         /\ Undoable(s, e) => Undoable(Append(Front(s), f), e)
         /\ Fired(s, e) => Fired(Append(Front(s), f), e)
<1>1. PICK t \in Stack :
        /\ t = Append(Front(s), f) /\ Len(t) = Len(s) /\ t[Len(s)] = f
        /\ \A i \in 1..(Len(s) - 1) : t[i] = s[i]
  <2>1. /\ Append(Front(s), f) \in Stack /\ Len(Append(Front(s), f)) = Len(s)
        /\ Append(Front(s), f)[Len(s)] = f
        /\ \A i \in 1..(Len(s) - 1) : Append(Front(s), f)[i] = s[i]
    BY Swapped DEF Stack
  <2> QED
    BY <2>1
<1>2. Len(s) \in Nat /\ Len(s) > 0 /\ DOMAIN s = 1..Len(s) /\ DOMAIN t = 1..Len(s) /\ Last(s) = s[Len(s)]
  BY <1>1, Popped, LenProperties DEF Stack
<1>3. \A i \in 1..Len(s) : t[i].kind = s[i].kind /\ t[i].event = s[i].event /\ t[i].from = s[i].from
  BY <1>1, <1>2 DEF Alike
<1>4. ASSUME NEW i \in 1..Len(s) PROVE AtomicBelow(t, i) <=> AtomicBelow(s, i)
  BY <1>2, <1>3 DEF AtomicBelow
<1>5. Undoable(s, e) => Undoable(t, e)
  BY <1>2, <1>3, <1>4 DEF Undoable
<1>6. Fired(s, e) => Fired(t, e)
  BY <1>2, <1>3 DEF Fired
<1> QED
  BY <1>1, <1>5, <1>6, InAtomicSwapped

LEMMA ToldPopped ==
  ASSUME NEW s \in Stack, s # <<>>, NEW e
  PROVE  /\ Last(s).kind # "atomic" /\ InAtomic(s) => InAtomic(Front(s))
         /\ Undoable(s, e) => Undoable(Front(s), e)
         /\ Fired(s, e) => Fired(Front(s), e) \/ (Last(s).kind = "firing" /\ Last(s).event = e)
         /\ Last(s).kind # "atomic" /\ Abandoned(s, e) => Abandoned(Front(s), e)
<1>1. PICK t \in Stack :
        t = Front(s) /\ Len(t) = Len(s) - 1 /\ \A i \in 1..(Len(s) - 1) : t[i] = s[i]
  BY Popped DEF Stack
<1>2. PICK n \in Nat : n + 1 = Len(s)
  <2>1. Len(s) - 1 \in Nat /\ (Len(s) - 1) + 1 = Len(s)
    BY Popped DEF Stack
  <2> QED
    BY <2>1
<1>3. DOMAIN s = 1..(n + 1) /\ DOMAIN t = 1..n /\ Last(s) = s[n + 1]
  <2>1. Len(s) - 1 = n
    BY <1>2
  <2> QED
    BY <1>1, <1>2, <2>1, Popped, LenProperties DEF Stack
<1>4. \A i \in 1..n : i \in 1..(n + 1) /\ t[i] = s[i]
  <2>1. Len(s) - 1 = n
    BY <1>2
  <2> QED
    BY <1>1, <2>1
<1>5. \A i \in 1..(n + 1) : i \in 1..n \/ i = n + 1
  OBVIOUS
<1>6. ASSUME NEW i \in 1..n PROVE AtomicBelow(t, i) <=> AtomicBelow(s, i)
  <2>1. \A j \in 1..(i - 1) : j \in 1..n
    OBVIOUS
  <2> QED
    BY <1>4, <2>1 DEF AtomicBelow
<1>7. Last(s).kind # "atomic" /\ InAtomic(s) => InAtomic(t)
  BY <1>3, <1>4, <1>5 DEF InAtomic
<1>8. Undoable(s, e) => Undoable(t, e)
  BY <1>3, <1>4, <1>6 DEF Undoable
<1>9. Fired(s, e) => Fired(t, e) \/ (Last(s).kind = "firing" /\ Last(s).event = e)
  BY <1>3, <1>4, <1>5 DEF Fired
<1>10. Last(s).kind # "atomic" /\ Abandoned(s, e) => Abandoned(t, e)
  <2> SUFFICES ASSUME Last(s).kind # "atomic", Abandoned(s, e),
                      NEW i \in 1..n, t[i].kind = "atomic",
                      \A k \in 1..n : k > i => t[k].kind # "atomic"
               PROVE  t[i].from < e
    BY <1>3 DEF Abandoned
  <2>1. \A k \in DOMAIN s : k > i => s[k].kind # "atomic"
    BY <1>3, <1>4, <1>5
  <2> QED
    BY <1>3, <1>4, <2>1 DEF Abandoned
<1> QED
  BY <1>1, <1>7, <1>8, <1>9, <1>10

\* A fire that is left has its event rolled back next.
LEMMA FireLeft ==
  ASSUME NEW s \in Stack, s # <<>>, NEW n, NEW m, Dated(s, n, m), Last(s).kind = "firing"
  PROVE  Abandoned(Front(s), Last(s).event)
<1>1. PICK t \in Stack :
        t = Front(s) /\ Len(t) = Len(s) - 1 /\ \A i \in 1..(Len(s) - 1) : t[i] = s[i]
  BY Popped DEF Stack
<1>2. /\ Len(s) \in Nat /\ Len(s) > 0 /\ DOMAIN s = 1..Len(s) /\ DOMAIN t = 1..(Len(s) - 1)
      /\ Last(s) = s[Len(s)]
  BY <1>1, Popped, LenProperties DEF Stack
<1>3. Len(s) \in DOMAIN s /\ s[Len(s)].event = s[Len(s)].from + 1 /\ s[Len(s)].from \in Nat
  BY <1>2, ElementOfSeq, FrameIs DEF Dated, Stack
<1>4. \A i \in DOMAIN t : t[i] = s[i] /\ s[i].from <= s[Len(s)].from /\ s[i].from \in Nat
  <2> SUFFICES ASSUME NEW i \in DOMAIN t
               PROVE  t[i] = s[i] /\ s[i].from <= s[Len(s)].from /\ s[i].from \in Nat
    OBVIOUS
  <2>1. i \in DOMAIN s /\ i \in 1..(Len(s) - 1)
    BY <1>2
  <2>2. s[i] \in Frame
    BY <1>2, <2>1, ElementOfSeq DEF Stack
  <2> QED
    BY <1>1, <1>3, <2>1, <2>2, FrameIs DEF Dated
<1>5. Abandoned(t, Last(s).event)
  BY <1>2, <1>3, <1>4 DEF Abandoned
<1> QED
  BY <1>1, <1>5

\* The next rollback is that of an innermost block.
LEMMA RolledBackNext ==
  ASSUME NEW s \in Stack, s # <<>>, Last(s).kind = "atomic", NEW e, Abandoned(s, e)
  PROVE  Last(s).from < e
<1>1. Len(s) \in Nat /\ Len(s) > 0 /\ DOMAIN s = 1..Len(s) /\ Last(s) = s[Len(s)]
  BY Popped, LenProperties DEF Stack
<1> QED
  BY <1>1 DEF Abandoned

\* The first rollback there may be is that of the outermost one.
LEMMA RolledBackFirst ==
  ASSUME NEW s \in Stack, s # <<>>, Last(s).kind = "atomic", ~InAtomic(Front(s)), NEW e, Undoable(s, e)
  PROVE  Last(s).from < e
<1>1. PICK t \in Stack :
        t = Front(s) /\ Len(t) = Len(s) - 1 /\ \A i \in 1..(Len(s) - 1) : t[i] = s[i]
  BY Popped DEF Stack
<1>2. /\ Len(s) \in Nat /\ Len(s) > 0 /\ DOMAIN s = 1..Len(s) /\ DOMAIN t = 1..(Len(s) - 1)
      /\ Last(s) = s[Len(s)]
  BY <1>1, Popped, LenProperties DEF Stack
<1>3. ~AtomicBelow(s, Len(s))
  BY <1>1, <1>2 DEF AtomicBelow, InAtomic
<1> QED
  BY <1>2, <1>3 DEF Undoable

-----------------------------------------------------------------------------
(* Events, and the frames that are left of them, step by step.             *)

LEMMA EventIs ==
  ASSUME Base, EventsKept, NEW e \in Ids
  PROVE  /\ EventKept(e) /\ e \in Nat /\ event[e] \in Event /\ (event[e].status # "none" => e <= fired)
BY BaseIs, TypesAre, Bounds DEF EventsKept, EventKept, Ids

\* Who caused what: a receiver's event stands, or is written with what it fires.
LEMMA CauseStands ==
  ASSUME Base, EventsKept, NEW n \in 0..Len(stack), NEW c, TellsCause(stack, n, c), c # 0
  PROVE  /\ c \in Ids /\ c <= fired
         /\ event[c].status = "committed" \/ (event[c].status = "written" /\ InAtomic(stack))
<1>1. PICK j \in 1..n : Receives(stack[j]) /\ c = stack[j].event
  BY DEF TellsCause
<1>2. Len(stack) \in Nat /\ DOMAIN stack = 1..Len(stack)
  BY StackIs
<1>3. j \in DOMAIN stack /\ j \in Nat
  BY <1>2
<1>4. stack[j] \in Frame /\ c \in Ids \cup {0}
  BY <1>1, <1>3, StackIs DEF Frame
<1>5. c \in Ids
  BY <1>4
<1>6. CASE stack[j].kind = "callback"
  <2>1. event[c].status = "committed"
    BY <1>1, <1>3, <1>6 DEF EventsKept, FrameKept
  <2> QED
    BY <1>5, <2>1, EventIs
<1>7. CASE stack[j].kind = "inline"
  <2>1. j > 1 /\ stack[j - 1].kind = "firing" /\ stack[j - 1].event = c
    BY <1>1, <1>3, <1>7, BaseIs DEF Stacked
  <2>2. PICK k \in DOMAIN stack : k = j - 1
    BY <1>2, <1>3, <2>1
  <2>3. event[c].status = IF AtomicBelow(stack, k) THEN "written" ELSE "committed"
    BY <2>1, <2>2 DEF EventsKept, FrameKept
  <2>4. AtomicBelow(stack, k) => InAtomic(stack)
    <3>1. \A i \in 1..(k - 1) : i \in DOMAIN stack
      BY <1>2
    <3> QED
      BY <3>1 DEF AtomicBelow, InAtomic
  <2> QED
    BY <1>5, <2>3, <2>4, EventIs
<1> QED
  BY <1>1, <1>6, <1>7 DEF Receives

LEMMA CauseIs ==
  ASSUME Base, EventsKept, cause # 0
  PROVE  /\ cause \in Ids /\ cause <= fired
         /\ event[cause].status = "committed" \/ (event[cause].status = "written" /\ InAtomic(stack))
<1>1. Len(stack) \in 0..Len(stack)
  BY StackIs
<1>2. TellsCause(stack, Len(stack), cause)
  BY BaseIs DEF Kept, Tells
<1> QED
  BY <1>1, <1>2, CauseStands

LEMMA EventSame ==
  ASSUME EventsKept, NEW e \in Ids, event' = event, rows'[e] = rows[e], fired' = fired,
         returned' = returned,
         event[e].status = "written" =>
           /\ InAtomic(stack') /\ Undoable(stack', e)
           /\ e \in returned \/ Fired(stack', e) \/ (raising' /\ Abandoned(stack', e))
  PROVE  EventKept(e)'
<1>1. EventKept(e)
  BY DEF EventsKept
<1>2. Decided(e)'
  BY <1>1 DEF EventKept, Decided
<1>3. (event[e].status = "written" =>
         /\ event[e].inside /\ InAtomic(stack) /\ Undoable(stack, e)
         /\ e \in returned \/ Fired(stack, e) \/ (raising /\ Abandoned(stack, e)))'
  BY <1>1 DEF EventKept
<1> QED
  BY <1>1, <1>2, <1>3 DEF EventKept, Of

LEMMA FrameSame ==
  ASSUME Base, Base', EventsKept, NEW i \in DOMAIN stack, Carried(i),
         stack[i].kind = "firing" => stack'[i].owing = stack[i].owing,
         event' = event, rows' = rows, returned' = returned, hooks' = hooks
  PROVE  FrameKept(stack, i)'
<1>1. Steady
  BY SameSteady
<1>2. FrameKept(stack, i)
  BY DEF EventsKept
<1> QED
  BY <1>1, <1>2, FrameCarried DEF FrameKept

\* A block is entered.
LEMMA BlockEvents ==
  ASSUME Base, Base', EventsKept, ~raising, NEW kind \in {"atomic", "suppressed", "attributed"},
         NEW f \in Frame, New(f, kind), f.todo = <<>>, stack' = Append(stack, f),
         event' = event, rows' = rows, fired' = fired, returned' = returned, hooks' = hooks
  PROVE  EventsKept'
<1>1. PICK n \in Nat : n = Len(stack)
  BY StackIs
<1>2. /\ DOMAIN stack' = 1..(n + 1) /\ stack'[n + 1] = f /\ DOMAIN stack = 1..n
      /\ \A i \in 1..n : Carried(i) /\ stack'[i] = stack[i]
  BY <1>1, PushCarries
<1>3. ASSUME NEW e \in Ids PROVE EventKept(e)'
  <2>1. event[e].status = "written" =>
          /\ InAtomic(stack) /\ Undoable(stack, e) /\ (e \in returned \/ Fired(stack, e))
    BY EventIs DEF EventKept
  <2>2. event[e].status = "written" =>
          /\ InAtomic(stack') /\ Undoable(stack', e) /\ (e \in returned \/ Fired(stack', e))
    BY <2>1, BaseIs, ToldPushed
  <2> QED
    BY <2>2, EventSame
<1>4. ASSUME NEW i \in 1..n PROVE FrameKept(stack, i)'
  BY <1>2, FrameSame
<1>5. FrameKept(stack, n + 1)'
  <2>1. stack'[n + 1].kind = kind /\ stack'[n + 1].from = fired /\ stack'[n + 1].mark = Len(hooks)
        /\ stack'[n + 1].todo = <<>>
    BY <1>2 DEF New
  <2>2. \A p \in DOMAIN hooks' : p <= Len(hooks) /\ hooks'[p].event <= fired
    <3> SUFFICES ASSUME NEW p \in DOMAIN hooks PROVE p <= Len(hooks) /\ hooks[p].event <= fired
      OBVIOUS
    <3>1. hooks[p] \in Hook /\ p <= Len(hooks)
      BY BaseIs, LenProperties, ElementOfSeq
    <3>2. hooks[p].event \in Ids /\ event[hooks[p].event].status = "written"
      BY <3>1 DEF EventsKept, Hook
    <3> QED
      BY <3>1, <3>2, EventIs
  <2>3. DOMAIN <<>> = {}
    OBVIOUS
  <2> QED
    BY <2>1, <2>2, <2>3 DEF FrameKept
<1>6. \A i \in 1..(n + 1) : i \in 1..n \/ i = n + 1
  OBVIOUS
<1>7. (\A p \in DOMAIN hooks : event[hooks[p].event].status = "written")'
  BY DEF EventsKept
<1> QED
  BY <1>2, <1>3, <1>4, <1>5, <1>6, <1>7 DEF EventsKept

\* A frame is left, and with it nothing that is not to be rolled back.
LEMMA LeaveEvents ==
  ASSUME Base, Base', EventsKept, stack # <<>>, stack' = Under,
         event' = event, rows' = rows, fired' = fired, returned' = returned, hooks' = hooks,
         Top.kind = "atomic" => ~raising /\ InAtomic(Under),
         Top.kind = "firing" => raising',
         raising' = raising \/ ~InAtomic(stack)
  PROVE  EventsKept'
<1>1. PICK n \in Nat : n + 1 = Len(stack)
  BY DepthIs
<1>2. /\ DOMAIN stack' = 1..n /\ DOMAIN stack = 1..(n + 1)
      /\ \A i \in 1..n : Carried(i) /\ stack'[i] = stack[i]
  BY <1>1, PopCarries
<1>3. stack \in Stack /\ Top = Last(stack) /\ Under = Front(stack)
  BY BaseIs DEF Top, Under
<1>4. ASSUME NEW e \in Ids PROVE EventKept(e)'
  <2> SUFFICES ASSUME event[e].status = "written"
               PROVE  /\ InAtomic(stack') /\ Undoable(stack', e)
                      /\ e \in returned \/ Fired(stack', e) \/ (raising' /\ Abandoned(stack', e))
    BY EventSame
  <2>1. /\ InAtomic(stack) /\ Undoable(stack, e)
        /\ e \in returned \/ Fired(stack, e) \/ (raising /\ Abandoned(stack, e))
    BY EventIs DEF EventKept
  <2>2. InAtomic(stack') /\ Undoable(stack', e)
    BY <1>3, <2>1, ToldPopped
  <2>3. CASE Fired(stack, e)
    <3>1. Fired(Under, e) \/ (Top.kind = "firing" /\ Top.event = e)
      BY <1>3, <2>3, ToldPopped
    <3>2. Top.kind = "firing" => Abandoned(Under, Top.event)
      BY <1>3, BaseIs, FireLeft
    <3> QED
      BY <2>2, <3>1, <3>2
  <2>4. CASE raising /\ Abandoned(stack, e)
    <3>1. Abandoned(Under, e)
      BY <1>3, <2>4, ToldPopped
    <3> QED
      BY <2>1, <2>2, <2>4, <3>1
  <2> QED
    BY <2>1, <2>2, <2>3, <2>4
<1>5. ASSUME NEW i \in 1..n PROVE FrameKept(stack, i)'
  <2>1. i \in DOMAIN stack
    BY <1>2
  <2> QED
    BY <1>2, <2>1, FrameSame
<1>6. (\A p \in DOMAIN hooks : event[hooks[p].event].status = "written")'
  BY DEF EventsKept
<1> QED
  BY <1>2, <1>4, <1>5, <1>6 DEF EventsKept

\* An exception is raised, or has nothing left to leave.
LEMMA RaisingEvents ==
  ASSUME Base, Base', EventsKept, stack' = stack, raising' \/ stack = <<>>,
         event' = event, rows' = rows, fired' = fired, returned' = returned, hooks' = hooks
  PROVE  EventsKept'
<1>1. ASSUME NEW e \in Ids PROVE EventKept(e)'
  <2>1. event[e].status = "written" =>
          /\ InAtomic(stack) /\ Undoable(stack, e)
          /\ e \in returned \/ Fired(stack, e) \/ (raising /\ Abandoned(stack, e))
    BY EventIs DEF EventKept
  <2>2. stack = <<>> => ~InAtomic(stack)
    BY DEF InAtomic
  <2> QED
    BY <2>1, <2>2, EventSame
<1>2. ASSUME NEW i \in DOMAIN stack PROVE FrameKept(stack, i)'
  <2>1. Carried(i)
    BY DEF Carried, Alike
  <2> QED
    BY <2>1, FrameSame
<1> QED
  BY <1>1, <1>2 DEF EventsKept

LEMMA EnterEvents ==
  ASSUME Base, Base', EventsKept, EnterAtomic \/ EnterSuppressed \/ EnterAttributed
  PROVE  EventsKept'
<1>1. ~raising
  BY DEF EnterAtomic, EnterSuppressed, EnterAttributed, Room, UserRuns
<1>2. event' = event /\ rows' = rows /\ fired' = fired /\ returned' = returned /\ hooks' = hooks
  BY DEF EnterAtomic, EnterSuppressed, EnterAttributed
<1>3. CASE EnterAtomic
  <2>1. PICK f \in Frame :
          New(f, "atomic") /\ f.event = 0 /\ f.left = {} /\ f.todo = <<>> /\ stack' = Append(stack, f)
    BY <1>3, EnterAtomicMakes DEF Base
  <2> QED
    BY <1>1, <1>2, <2>1, BlockEvents
<1>4. CASE EnterSuppressed
  <2>1. PICK f \in Frame :
          New(f, "suppressed") /\ f.event = 0 /\ f.left = {} /\ f.todo = <<>> /\ stack' = Append(stack, f)
    BY <1>4, EnterSuppressedMakes DEF Base
  <2> QED
    BY <1>1, <1>2, <2>1, BlockEvents
<1>5. CASE EnterAttributed
  <2>1. PICK f \in Frame : New(f, "attributed") /\ f.todo = <<>> /\ stack' = Append(stack, f)
    BY <1>5, EnterAttributedMakes DEF Base
  <2> QED
    BY <1>1, <1>2, <2>1, BlockEvents
<1> QED
  BY <1>3, <1>4, <1>5

\* A callback runs outside of any block.
LEMMA CallbackIs ==
  ASSUME Base, stack # <<>>, Top.kind \in {"callback", "hooks"}
  PROVE  ~InAtomic(stack)
<1>1. PICK n \in Nat : n + 1 = Len(stack)
  BY DepthIs
<1>2. DOMAIN stack = 1..(n + 1) /\ Top = stack[n + 1] /\ n + 1 \in DOMAIN stack
  BY <1>1, BaseIs, TopIs
<1>3. PICK k \in DOMAIN stack : stack[k].kind = "hooks" /\ (k = n + 1 \/ k = n)
  <2>1. CASE Top.kind = "callback"
    <3>1. n + 1 > 1 /\ stack[n + 1 - 1].kind = "hooks"
      BY <1>2, <2>1, BaseIs DEF Stacked
    <3>2. n \in DOMAIN stack /\ n + 1 - 1 = n
      BY <1>2, <3>1
    <3> QED
      BY <3>1, <3>2
  <2> QED
    BY <1>2, <2>1
<1>4. ~AtomicBelow(stack, k)
  BY <1>3, BaseIs DEF Stacked
<1>5. \A j \in DOMAIN stack : j \in 1..(k - 1) \/ j = k \/ j = n + 1
  BY <1>2, <1>3
<1> QED
  BY <1>2, <1>3, <1>4, <1>5 DEF InAtomic, AtomicBelow

LEMMA LeftEvents ==
  ASSUME Base, Base', EventsKept,
         LeaveSuppressed \/ LeaveAttributed \/ LeaveReceiver \/ HooksRun \/ Unwind \/ Survive
           \/ (LeaveAtomic /\ InAtomic(Under))
  PROVE  EventsKept'
<1>1. /\ stack # <<>> /\ stack' = Under /\ event' = event /\ rows' = rows /\ fired' = fired
      /\ returned' = returned /\ hooks' = hooks
  BY DEF LeaveSuppressed, LeaveAttributed, LeaveReceiver, HooksRun, Unwind, Survive, LeaveAtomic,
     Inside, RestKept
<1>2. Top.kind = "atomic" => ~raising /\ InAtomic(Under)
  BY DEF LeaveSuppressed, LeaveAttributed, LeaveReceiver, HooksRun, Unwind, Survive, LeaveAtomic,
     Inside, UserRuns
<1>3. Top.kind = "firing" => raising'
  BY DEF LeaveSuppressed, LeaveAttributed, LeaveReceiver, HooksRun, Unwind, Survive, LeaveAtomic,
     Inside, UserRuns
<1>4. raising' = raising \/ ~InAtomic(stack)
  <2>1. CASE Survive
    <3>1. Top.kind = "callback"
      BY <2>1 DEF Survive, Inside
    <3> QED
      BY <1>1, <3>1, CallbackIs
  <2>2. CASE ~Survive
    BY <2>2 DEF LeaveSuppressed, LeaveAttributed, LeaveReceiver, HooksRun, Unwind, LeaveAtomic
  <2> QED
    BY <2>1, <2>2
<1> QED
  BY <1>1, <1>2, <1>3, <1>4, LeaveEvents

LEMMA RaiseEvents ==
  ASSUME Base, Base', EventsKept, Raise \/ FanOutFails \/ Fail
  PROVE  EventsKept'
<1>1. /\ stack' = stack /\ event' = event /\ rows' = rows /\ fired' = fired
      /\ returned' = returned /\ hooks' = hooks
  BY DEF Raise, FanOutFails, Fail, RaisesIntoTheCaller
<1>2. raising' \/ stack = <<>>
  BY DEF Raise, FanOutFails, Fail, RaisesIntoTheCaller
<1> QED
  BY <1>1, <1>2, RaisingEvents

\* fire returns: its event is owed to all that it ever will be.
LEMMA FireReturnsEvents == ASSUME Base, Base', EventsKept, FireReturns PROVE EventsKept'
<1>1. /\ Inside("firing") /\ ~Top.owing /\ ~raising /\ returned' = returned \cup {Top.event}
      /\ stack' = Under /\ event' = event /\ rows' = rows /\ fired' = fired /\ hooks' = hooks
  BY DEF FireReturns
<1>2. /\ stack # <<>> /\ Top.kind = "firing" /\ Top.event \in Ids
      /\ Top.event = Top.from + 1 /\ Top.event <= fired
  BY <1>1, FiringIs
<1>3. PICK n \in Nat : n + 1 = Len(stack)
  BY <1>2, DepthIs
<1>4. /\ DOMAIN stack' = 1..n /\ DOMAIN stack = 1..(n + 1) /\ Top = stack[n + 1]
      /\ \A i \in 1..n : Carried(i) /\ stack'[i] = stack[i]
  BY <1>1, <1>2, <1>3, PopCarries
<1>5. stack \in Stack /\ Top = Last(stack) /\ Under = Front(stack)
  BY BaseIs DEF Top, Under
<1>6. n + 1 \in DOMAIN stack
  BY <1>4
<1>7. ~event[Top.event].suppressed /\ rows[Top.event] = Of(event[Top.event].class, "DURABLE")
  BY <1>1, <1>2, <1>4, <1>6 DEF EventsKept, FrameKept
<1>8. ASSUME NEW e \in Ids PROVE EventKept(e)'
  <2>1. EventKept(e)
    BY EventIs
  <2>2. event[e].status = "written" =>
          /\ event[e].inside /\ InAtomic(stack) /\ Undoable(stack, e)
          /\ e \in returned \/ Fired(stack, e)
    BY <1>1, <2>1 DEF EventKept
  <2>3. event[e].status = "written" =>
          /\ InAtomic(Under) /\ Undoable(Under, e)
          /\ e \in returned' \/ Fired(Under, e)
    BY <1>1, <1>2, <1>5, <2>2, ToldPopped
  <2>4. Decided(e)'
    BY <1>1, <2>1 DEF EventKept, Decided
  <2>5. (event[e].status = "written" =>
           /\ event[e].inside /\ InAtomic(stack) /\ Undoable(stack, e)
           /\ e \in returned \/ Fired(stack, e) \/ (raising /\ Abandoned(stack, e)))'
    BY <1>1, <2>2, <2>3
  <2>6. (event[e].status \in {"written", "committed"} /\ e \in returned /\ ~event[e].suppressed =>
           rows[e] = Of(event[e].class, "DURABLE"))'
    BY <1>1, <1>7, <2>1 DEF EventKept, Of
  <2>7. (event[e].inside /\ event[e].status = "committed" => e \in returned)'
    BY <1>1, <2>1 DEF EventKept
  <2>8. (e \in returned => e <= fired)'
    BY <1>1, <1>2, <2>1 DEF EventKept
  <2> QED
    BY <1>1, <2>1, <2>4, <2>5, <2>6, <2>7, <2>8 DEF EventKept
<1>9. ASSUME NEW i \in 1..n PROVE FrameKept(stack, i)'
  <2>1. i \in DOMAIN stack /\ FrameKept(stack, i) /\ stack[i] \in Frame
    BY <1>4, StackIs DEF EventsKept
  <2>2. stack[i].kind = "firing" => stack[i].event # Top.event
    <3>1. i \in 1..(n + 1 - 1)
      OBVIOUS
    <3>2. stack[i].kind = "firing" => stack[i].event <= Top.from
      BY <1>4, <1>6, <3>1, BaseIs DEF Dated
    <3>3. stack[i].event \in Nat /\ Top.from \in Nat
      BY <1>2, <2>1, TopIs, BaseIs, FrameIs
    <3> QED
      BY <1>2, <3>2, <3>3
  <2>3. stack[i].kind = "firing" =>
          /\ stack[i].event \notin returned'
          /\ ~stack[i].owing => rows[stack[i].event] = Of(event[stack[i].event].class, "DURABLE")
    BY <1>1, <2>1, <2>2 DEF FrameKept
  <2>4. stack[i].kind = "atomic" => \A p \in DOMAIN hooks' :
          p <= stack[i].mark <=> hooks'[p].event <= stack[i].from
    BY <1>1, <2>1 DEF FrameKept
  <2>5. Steady /\ Carried(i) /\ stack'[i] = stack[i]
    BY <1>1, <1>4, SameSteady
  <2> QED
    BY <1>1, <2>1, <2>3, <2>4, <2>5, FrameCarried
<1>10. (\A p \in DOMAIN hooks : event[hooks[p].event].status = "written")'
  BY <1>1 DEF EventsKept
<1> QED
  BY <1>4, <1>8, <1>9, <1>10 DEF EventsKept

\* What a rollback leaves as it was.
LEMMA NotUndone ==
  ASSUME Base, EventsKept, NEW from \in Nat, Undone(from), NEW e \in Ids,
         e <= from \/ event[e].status # "written"
  PROVE  event'[e] = event[e] /\ rows'[e] = rows[e]
<1>1. e \in Nat
  BY EventIs
<1>2. ~(e > from /\ event[e].status = "written")
  BY <1>1
<1> QED
  BY <1>2, UndoneIs DEF Base

\* No cause is undone without its effect.
LEMMA UndoneDecided ==
  ASSUME Base, EventsKept, NEW from \in Nat, Undone(from), NEW e \in Ids
  PROVE  Decided(e)'
<1>1. EventKept(e) /\ event[e] \in Event /\ e \in Nat
  BY EventIs
<1>2. PICK c : c = event[e].cause
  OBVIOUS
<1>3. event'[e].cause = c
  <2>1. event'[e] = event[e] \/ event'[e] = [event[e] EXCEPT !.status = "undone"]
    BY UndoneIs DEF Base
  <2> QED
    BY <1>1, <1>2, <2>1 DEF Event
<1> SUFFICES ASSUME c # 0
             PROVE  /\ c < e
                    /\ event'[e].status \in {"written", "committed"} =>
                         event'[c].status \in {"committed", event'[e].status}
  BY <1>3 DEF Decided
<1>4. /\ c < e
      /\ event[e].status \in {"written", "committed"} =>
           event[c].status \in {"committed", event[e].status}
  BY <1>1, <1>2 DEF EventKept, Decided
<1>5. c \in Ids /\ c \in Nat
  <2>1. c \in Ids
    BY <1>1, <1>2 DEF Event
  <2> QED
    BY <2>1, EventIs
<1>6. CASE e > from /\ event[e].status = "written"
  <2>1. event'[e] = [event[e] EXCEPT !.status = "undone"]
    BY <1>6, UndoneIs DEF Base
  <2>2. event'[e].status = "undone"
    BY <1>1, <2>1 DEF Event
  <2> QED
    BY <1>4, <2>2
<1>7. CASE e <= from \/ event[e].status # "written"
  <2>1. event'[e] = event[e]
    BY <1>7, NotUndone
  <2>2. CASE event[e].status = "written"
    <3>1. c <= from
      BY <1>1, <1>4, <1>5, <1>7, <2>2
    <3>2. event'[c] = event[c]
      BY <1>5, <3>1, NotUndone
    <3> QED
      BY <1>4, <2>1, <3>2
  <2>3. CASE event[e].status = "committed"
    <3>1. event[c].status = "committed"
      BY <1>4, <2>3
    <3>2. event'[c] = event[c]
      BY <1>5, <3>1, NotUndone
    <3> QED
      BY <1>4, <2>1, <3>1, <3>2
  <2> QED
    BY <1>4, <2>1, <2>2, <2>3
<1> QED
  BY <1>1, <1>6, <1>7

\* An event after a rollback, where the frames tell of one that is still written.
LEMMA UndoneKept ==
  ASSUME Base, EventsKept, NEW from \in Nat, Undone(from), fired' = fired, returned' = returned,
         NEW e \in Ids,
         event[e].status = "written" /\ e <= from =>
           /\ InAtomic(stack') /\ Undoable(stack', e)
           /\ e \in returned \/ Fired(stack', e) \/ (raising' /\ Abandoned(stack', e))
  PROVE  EventKept(e)'
<1>1. EventKept(e) /\ event[e] \in Event /\ e \in Nat
  BY EventIs
<1>2. Decided(e)'
  BY UndoneDecided
<1>3. CASE e > from /\ event[e].status = "written"
  <2>1. event'[e] = [event[e] EXCEPT !.status = "undone"] /\ rows'[e] = {}
    BY <1>3, UndoneIs DEF Base
  <2>2. event'[e].status = "undone"
    BY <1>1, <2>1 DEF Event
  <2>3. e <= fired
    BY <1>3, EventIs
  <2>4. (event[e].status = "none" <=> e > fired)'
    BY <1>1, <2>2, <2>3, BaseIs
  <2> QED
    BY <1>1, <1>2, <2>1, <2>2, <2>4 DEF EventKept
<1>4. CASE e <= from \/ event[e].status # "written"
  <2>1. event'[e] = event[e] /\ rows'[e] = rows[e]
    BY <1>4, NotUndone
  <2>2. (event[e].status = "written" =>
           /\ event[e].inside /\ InAtomic(stack) /\ Undoable(stack, e)
           /\ e \in returned \/ Fired(stack, e) \/ (raising /\ Abandoned(stack, e)))'
    BY <1>1, <1>4, <2>1 DEF EventKept
  <2> QED
    BY <1>1, <1>2, <2>1, <2>2 DEF EventKept, Of
<1> QED
  BY <1>1, <1>3, <1>4

LEMMA RollBackEvents == ASSUME Base, Base', EventsKept, RollBack PROVE EventsKept'
<1>1. /\ raising /\ stack # <<>> /\ Top.kind = "atomic" /\ stack' = Under /\ Undone(Top.from)
      /\ fired' = fired /\ returned' = returned /\ hooks' = SubSeq(hooks, 1, Top.mark)
  BY DEF RollBack, Inside
<1>2. PICK n \in Nat : n + 1 = Len(stack)
  BY <1>1, DepthIs
<1>3. /\ DOMAIN stack' = 1..n /\ DOMAIN stack = 1..(n + 1) /\ Top = stack[n + 1]
      /\ \A i \in 1..n : Carried(i) /\ stack'[i] = stack[i]
  BY <1>1, <1>2, PopCarries
<1>4. stack \in Stack /\ Top = Last(stack) /\ Under = Front(stack)
  BY BaseIs DEF Top, Under
<1>5. n + 1 \in DOMAIN stack
  BY <1>3
<1>6. PICK from \in Nat, m \in Nat : from = Top.from /\ m = Top.mark /\ m <= Len(hooks)
  <2>1. Top.from \in Nat /\ Top.mark \in Nat /\ Top.mark <= Len(hooks)
    BY <1>1, <1>3, <1>5, TopIs, BaseIs, FrameIs DEF Dated
  <2> QED
    BY <2>1
<1>7. DOMAIN hooks' = 1..m /\ (\A p \in 1..m : hooks'[p] = hooks[p] /\ p \in DOMAIN hooks)
  <2>1. DOMAIN hooks = 1..Len(hooks)
    BY BaseIs, LenProperties
  <2>2. \A p \in 1..m : p \in DOMAIN hooks /\ hooks[p] \in Hook
    BY <1>6, <2>1, BaseIs, ElementOfSeq
  <2>3. /\ SubSeq(hooks, 1, m) \in Seq(Hook) /\ Len(SubSeq(hooks, 1, m)) = IF 1 <= m THEN m - 1 + 1 ELSE 0
        /\ \A p \in 1..(m - 1 + 1) : SubSeq(hooks, 1, m)[p] = hooks[1 + p - 1]
    BY <2>2, SubSeqProperties
  <2>4. Len(SubSeq(hooks, 1, m)) = m
    BY <2>3
  <2>5. \A p \in 1..m : SubSeq(hooks, 1, m)[p] = hooks[p]
    BY <2>3
  <2>6. DOMAIN SubSeq(hooks, 1, m) = 1..m
    BY <2>3, <2>4, LenProperties
  <2>7. hooks' = SubSeq(hooks, 1, m)
    BY <1>1, <1>6
  <2> QED
    BY <2>2, <2>5, <2>6, <2>7
<1>8. ASSUME NEW e \in Ids PROVE EventKept(e)'
  <2> SUFFICES ASSUME event[e].status = "written", e <= from
               PROVE  InAtomic(Under) /\ Undoable(Under, e) /\ (e \in returned \/ Fired(Under, e))
    BY <1>1, <1>6, UndoneKept
  <2>1. /\ Undoable(stack, e) /\ e \in Nat
        /\ e \in returned \/ Fired(stack, e) \/ (raising /\ Abandoned(stack, e))
    BY EventIs DEF EventKept
  <2>2. ~(from < e)
    BY <2>1
  <2>3. InAtomic(Under)
    BY <1>1, <1>4, <1>6, <2>1, <2>2, RolledBackFirst
  <2>4. ~Abandoned(stack, e)
    BY <1>1, <1>4, <1>6, <2>1, <2>2, RolledBackNext
  <2> QED
    BY <1>1, <1>4, <2>1, <2>3, <2>4, ToldPopped
<1>9. ASSUME NEW i \in 1..n PROVE FrameKept(stack, i)'
  <2>1. i \in DOMAIN stack /\ FrameKept(stack, i) /\ stack[i] \in Frame
    BY <1>3, StackIs DEF EventsKept
  <2>2. stack[i].kind = "firing" => stack[i].event \in Ids /\ stack[i].event <= from
    <3>1. i \in 1..(n + 1 - 1)
      OBVIOUS
    <3>2. stack[i].kind = "firing" => stack[i].event <= Top.from /\ stack[i].event = stack[i].from + 1
      BY <1>3, <1>5, <2>1, <3>1, BaseIs DEF Dated
    <3>3. stack[i].event \in Ids \cup {0} /\ stack[i].from \in Nat
      BY <2>1, FrameIs DEF Frame
    <3> QED
      BY <1>6, <3>2, <3>3
  <2>3. stack[i].kind = "firing" =>
          event'[stack[i].event] = event[stack[i].event] /\ rows'[stack[i].event] = rows[stack[i].event]
    BY <1>1, <1>6, <2>2, NotUndone
  <2>4. stack[i].kind = "firing" =>
          /\ stack[i].event \notin returned'
          /\ ~stack[i].owing => rows[stack[i].event] = Of(event[stack[i].event].class, "DURABLE")
    BY <1>1, <2>1 DEF FrameKept
  <2>5. stack[i].kind = "atomic" => \A p \in DOMAIN hooks' :
          p <= stack[i].mark <=> hooks'[p].event <= stack[i].from
    BY <1>7, <2>1 DEF FrameKept
  <2>6. Steady /\ Carried(i) /\ stack'[i] = stack[i]
    BY <1>1, <1>3, <1>6, UndoneSteady
  <2> QED
    BY <2>1, <2>3, <2>4, <2>5, <2>6, FrameCarried
<1>10. ASSUME NEW p \in DOMAIN hooks' PROVE event'[hooks'[p].event].status = "written"
  <2>1. p \in DOMAIN hooks /\ hooks'[p] = hooks[p] /\ p <= m
    BY <1>7
  <2>2. hooks[p].event \in Ids /\ event[hooks[p].event].status = "written"
    <3>1. hooks[p] \in Hook
      BY <2>1, BaseIs, LenProperties, ElementOfSeq
    <3> QED
      BY <2>1, <3>1 DEF Hook, EventsKept
  <2>3. hooks[p].event <= from
    BY <1>1, <1>3, <1>5, <1>6, <2>1 DEF EventsKept, FrameKept
  <2> QED
    BY <1>1, <1>6, <2>1, <2>2, <2>3, NotUndone
<1> QED
  BY <1>3, <1>8, <1>9, <1>10 DEF EventsKept

LEMMA CrashEvents == ASSUME Base, Base', EventsKept, Crash PROVE EventsKept'
<1>1. /\ Undone(0) /\ fired' = fired /\ returned' = returned /\ stack' = <<>> /\ hooks' = <<>>
  BY DEF Crash
<1>2. ASSUME NEW e \in Ids PROVE EventKept(e)'
  <2>1. ~(e <= 0) /\ 0 \in Nat
    BY Bounds DEF Ids
  <2> QED
    BY <1>1, <2>1, UndoneKept
<1>3. DOMAIN <<>> = {}
  OBVIOUS
<1> QED
  BY <1>1, <1>2, <1>3 DEF EventsKept

\* The outermost block commits: whatever is written has been fired to the end.
LEMMA CommitEvents ==
  ASSUME Base, Base', EventsKept, LeaveAtomic, ~InAtomic(Under) PROVE EventsKept'
<1>1. /\ ~raising /\ stack # <<>> /\ Top.kind = "atomic" /\ rows' = rows /\ fired' = fired
      /\ returned' = returned /\ hooks' = <<>>
  BY DEF LeaveAtomic, UserRuns, Inside
<1>2. PICK n \in Nat : n + 1 = Len(stack)
  BY <1>1, DepthIs
<1>3. /\ DOMAIN stack = 1..(n + 1) /\ Top = stack[n + 1]
      /\ DOMAIN Under = 1..n /\ \A i \in 1..n : Under[i] = stack[i]
  <2>1. Len(stack) - 1 = n
    BY <1>2
  <2>2. DOMAIN Under = 1..Len(Under)
    BY <1>1, BaseIs, TopIs, LenProperties DEF Stack
  <2> QED
    BY <1>1, <1>2, <2>1, <2>2, BaseIs, TopIs
<1>4. /\ \A i \in 1..n : Carried(i) /\ stack'[i] = stack[i]
      /\ \/ DOMAIN stack' = 1..n
         \/ /\ DOMAIN stack' = 1..(n + 1)
            /\ \E f \in Frame : f.kind = "hooks" /\ f.todo = hooks /\ stack'[n + 1] = f
  <2>1. CASE stack' = Under
    BY <1>1, <1>2, <2>1, PopCarries
  <2>2. ASSUME NEW f \in Frame, New(f, "hooks"), f.todo = hooks, stack' = Append(Under, f)
        PROVE  /\ DOMAIN stack' = 1..(n + 1) /\ f.kind = "hooks" /\ stack'[n + 1] = f
               /\ \A i \in 1..n : Carried(i) /\ stack'[i] = stack[i]
    <3>1. /\ DOMAIN stack' = 1..(n + 1) /\ stack'[n + 1] = f
          /\ \A i \in 1..n : Carried(i) /\ stack'[i] = stack[i]
      BY <1>1, <1>2, <2>2, PopPushCarries
    <3>2. f.kind = "hooks"
      BY <2>2 DEF New
    <3> QED
      BY <2>2, <3>1, <3>2
  <2> QED
    BY <2>1, <2>2, CommitMakes DEF Base
<1>5. ASSUME NEW e \in Ids
      PROVE  /\ event[e].status = "written" => event'[e] = [event[e] EXCEPT !.status = "committed"]
             /\ event[e].status # "written" => event'[e] = event[e]
  BY CommittedIs DEF Base
<1>6. \A i \in 1..n : stack[i].kind # "atomic" /\ ~AtomicBelow(stack, i)
  <2>1. \A i \in 1..n : stack[i].kind # "atomic"
    BY <1>3 DEF InAtomic
  <2>2. \A i \in 1..n : \A j \in 1..(i - 1) : j \in 1..n
    OBVIOUS
  <2> QED
    BY <2>1, <2>2 DEF AtomicBelow
<1>7. ASSUME NEW e \in Ids, event[e].status = "written" PROVE e \in returned /\ event[e].inside
  <2>1. event[e].inside /\ (e \in returned \/ Fired(stack, e))
    BY <1>1, <1>7, EventIs DEF EventKept
  <2>2. ASSUME NEW i \in DOMAIN stack, stack[i].kind = "firing", stack[i].event = e PROVE FALSE
    <3>1. event[e].status = IF AtomicBelow(stack, i) THEN "written" ELSE "committed"
      BY <2>2 DEF EventsKept, FrameKept
    <3>2. AtomicBelow(stack, i)
      BY <1>7, <3>1
    <3>3. i \in 1..n
      BY <1>1, <1>3, <2>2
    <3> QED
      BY <1>6, <3>2, <3>3
  <2> QED
    BY <2>1, <2>2 DEF Fired
<1>8. ASSUME NEW e \in Ids PROVE EventKept(e)'
  <2>1. EventKept(e) /\ event[e] \in Event
    BY EventIs
  <2>2. /\ event'[e].status = IF event[e].status = "written" THEN "committed" ELSE event[e].status
        /\ event'[e].cause = event[e].cause /\ event'[e].class = event[e].class
        /\ event'[e].suppressed = event[e].suppressed /\ event'[e].inside = event[e].inside
    BY <1>5, <2>1 DEF Event
  <2>3. Decided(e)'
    <3>1. PICK c : c = event[e].cause
      OBVIOUS
    <3> SUFFICES ASSUME c # 0
                 PROVE  /\ c < e
                        /\ event'[e].status \in {"written", "committed"} =>
                             event'[c].status \in {"committed", event'[e].status}
      BY <2>2, <3>1 DEF Decided
    <3>2. /\ c < e
          /\ event[e].status \in {"written", "committed"} =>
               event[c].status \in {"committed", event[e].status}
      BY <2>1, <3>1 DEF EventKept, Decided
    <3>3. c \in Ids
      BY <2>1, <3>1 DEF Event
    <3>4. event[c] \in Event
      BY <3>3, EventIs
    <3>5. event[c].status \in {"written", "committed"} => event'[c].status = "committed"
      BY <1>5, <3>3, <3>4 DEF Event
    <3> QED
      BY <2>2, <3>2, <3>5
  <2>4. (event[e].status = "written" =>
           /\ event[e].inside /\ InAtomic(stack) /\ Undoable(stack, e)
           /\ e \in returned \/ Fired(stack, e) \/ (raising /\ Abandoned(stack, e)))'
    BY <2>2
  <2>5. (event[e].inside /\ event[e].status = "committed" => e \in returned)'
    BY <1>1, <1>7, <2>1, <2>2 DEF EventKept
  <2>6. event'[e].status \in {"written", "committed"} => event[e].status \in {"written", "committed"}
    BY <2>2
  <2>7. event'[e].status = "none" <=> event[e].status = "none"
    BY <2>2
  <2>8. event'[e].status = "undone" <=> event[e].status = "undone"
    BY <2>2
  <2>9. (event[e].status \in {"written", "committed"} /\ e \in returned /\ ~event[e].suppressed =>
           rows[e] = Of(event[e].class, "DURABLE"))'
    BY <1>1, <2>1, <2>2, <2>6 DEF EventKept, Of
  <2>10. (event[e].status \in {"none", "undone"} \/ event[e].suppressed => rows[e] = {})'
    BY <1>1, <2>1, <2>2, <2>7, <2>8 DEF EventKept
  <2>11. (event[e].status = "none" <=> e > fired)' /\ (e \in returned => e <= fired)'
    BY <1>1, <2>1, <2>7 DEF EventKept
  <2> QED
    BY <2>3, <2>4, <2>5, <2>9, <2>10, <2>11 DEF EventKept
<1>9. ASSUME NEW i \in 1..n PROVE FrameKept(stack, i)'
  <2>1. i \in DOMAIN stack /\ FrameKept(stack, i) /\ stack[i] \in Frame
    BY <1>3, StackIs DEF EventsKept
  <2>2. stack[i].kind = "firing" => stack[i].event \in Ids /\ event[stack[i].event].status = "committed"
    <3>1. stack[i].kind = "firing" => stack[i].event = stack[i].from + 1
      BY <2>1, BaseIs DEF Dated
    <3>2. stack[i].event \in Ids \cup {0} /\ stack[i].from \in Nat
      BY <2>1, FrameIs DEF Frame
    <3>3. stack[i].kind = "firing" => event[stack[i].event].status = "committed"
      BY <1>6, <2>1 DEF FrameKept
    <3> QED
      BY <3>1, <3>2, <3>3
  <2>3. stack[i].kind = "firing" => event'[stack[i].event].status = event[stack[i].event].status
    BY <1>5, <2>2
  <2>4. stack[i].kind = "firing" =>
          /\ stack[i].event \notin returned'
          /\ ~stack[i].owing => rows[stack[i].event] = Of(event[stack[i].event].class, "DURABLE")
    BY <1>1, <2>1 DEF FrameKept
  <2>5. Steady /\ Carried(i) /\ stack'[i] = stack[i] /\ stack[i].kind # "atomic"
    BY <1>4, <1>6, CommittedSteady
  <2> QED
    BY <1>1, <2>1, <2>3, <2>4, <2>5, FrameCarried
<1>10. ASSUME NEW f \in Frame, f.kind = "hooks", f.todo = hooks, stack'[n + 1] = f
       PROVE  FrameKept(stack, n + 1)'
  <2>1. ASSUME NEW p \in DOMAIN hooks PROVE event'[hooks[p].event].status = "committed"
    <3>1. hooks[p] \in Hook
      BY BaseIs, LenProperties, ElementOfSeq
    <3>2. hooks[p].event \in Ids /\ event[hooks[p].event].status = "written"
      BY <3>1 DEF Hook, EventsKept
    <3>3. event[hooks[p].event] \in Event
      BY <3>2, EventIs
    <3> QED
      BY <1>5, <3>2, <3>3 DEF Event
  <2> QED
    BY <1>10, <2>1 DEF FrameKept
<1>11. \A i \in 1..(n + 1) : i \in 1..n \/ i = n + 1
  OBVIOUS
<1>12. \A i \in DOMAIN stack' : FrameKept(stack, i)'
  BY <1>4, <1>9, <1>10, <1>11
<1>13. DOMAIN <<>> = {}
  OBVIOUS
<1> QED
  BY <1>1, <1>8, <1>12, <1>13 DEF EventsKept

\* The frame of a fire goes on, at the top or under a new one.
LEMMA FiringSwapped ==
  ASSUME Base, stack # <<>>, Top.kind = "firing", NEW f \in Frame, Alike(f, Top),
         NEW e, InAtomic(stack), Undoable(stack, e), e \in returned \/ Fired(stack, e)
  PROVE  /\ Append(Under, f) \in Stack
         /\ InAtomic(Append(Under, f)) /\ Undoable(Append(Under, f), e)
         /\ e \in returned \/ Fired(Append(Under, f), e)
<1>1. stack \in Stack /\ Top = Last(stack) /\ Under = Front(stack)
  BY BaseIs DEF Top, Under
<1>2. Append(Under, f) \in Stack
  BY <1>1, TopIs, BaseIs, Pushed DEF Stack
<1> QED
  BY <1>1, <1>2, ToldSwapped

LEMMA WrittenThen ==
  ASSUME Base, EventsKept, ~raising, NEW e \in Ids, event[e].status = "written"
  PROVE  InAtomic(stack) /\ Undoable(stack, e) /\ (e \in returned \/ Fired(stack, e))
BY EventIs DEF EventKept

\* Callbacks of a fire: registered in a transaction, run outside of one.
LEMMA OnCommitEvents ==
  ASSUME Base, Base', EventsKept, Inside("firing"), ~raising, ~raising', NEW f \in Frame,
         Alike(f, Top), f.left \subseteq Top.left, f.todo = Top.todo, f.owing => Top.owing,
         NEW list \in Seq(Hook), OnCommit(Append(Under, f), list),
         \A p \in DOMAIN list : list[p].event = Top.event,
         event' = event, fired' = fired, returned' = returned,
         \A e \in Ids : e # Top.event => rows'[e] = rows[e],
         rows'[Top.event] \in {rows[Top.event], Of(event[Top.event].class, "DURABLE")},
         ~f.owing => ~Top.owing \/ rows'[Top.event] = Of(event[Top.event].class, "DURABLE")
  PROVE  EventsKept'
<1>1. /\ stack # <<>> /\ Top.kind = "firing" /\ Top.todo = <<>> /\ Top.event \in Ids
      /\ Top.event = Top.from + 1 /\ Top.event <= fired
  BY FiringIs
<1>2. PICK n \in Nat : n + 1 = Len(stack)
  BY <1>1, DepthIs
<1>3. DOMAIN stack = 1..(n + 1) /\ Top = stack[n + 1] /\ n + 1 \in DOMAIN stack
  BY <1>1, <1>2, BaseIs, TopIs
<1>4. Append(Under, f) \in Stack /\ (InAtomic(Append(Under, f)) <=> InAtomic(stack))
  <2>1. stack \in Stack /\ Top = Last(stack) /\ Under = Front(stack)
    BY BaseIs DEF Top, Under
  <2> QED
    BY <1>1, <2>1, TopIs, BaseIs, Pushed, InAtomicSwapped DEF Stack
<1>5. \/ InAtomic(stack) /\ stack' = Append(Under, f) /\ hooks' = hooks \o list
      \/ ~InAtomic(stack) /\ stack' = Append(Under, f) /\ hooks' = hooks
      \/ /\ ~InAtomic(stack) /\ hooks' = hooks
         /\ \E g \in Frame : /\ New(g, "hooks") /\ g.event = 0 /\ g.left = {} /\ g.todo = list
                             /\ stack' = Append(Append(Under, f), g)
  BY <1>4, OnCommitMakes DEF Base
<1>6. FrameKept(stack, n + 1)
  BY <1>3 DEF EventsKept
<1>7. /\ InAtomic(stack) => event[Top.event].status = "written"
      /\ ~InAtomic(stack) => event[Top.event].status = "committed"
      /\ ~event[Top.event].suppressed /\ Top.event \notin returned
  <2>1. InAtomic(stack) <=> AtomicBelow(stack, n + 1)
    BY <1>1, <1>2, InAtomicIs DEF Base
  <2> QED
    BY <1>1, <1>3, <1>6, <2>1 DEF FrameKept
<1>8. DOMAIN f.todo = {}
  <2>1. DOMAIN <<>> = {}
    OBVIOUS
  <2> QED
    BY <1>1, <2>1
<1>9. /\ \A i \in 1..(n + 1) : Carried(i)
      /\ \A i \in 1..n : stack'[i] = stack[i]
      /\ stack'[n + 1] = f
      /\ \/ DOMAIN stack' = 1..(n + 1)
         \/ /\ ~InAtomic(stack) /\ DOMAIN stack' = 1..(n + 2)
            /\ \E g \in Frame : g.kind = "hooks" /\ g.todo = list /\ stack'[n + 2] = g
  <2>0. Onward(f)
    BY <1>8 DEF Onward
  <2>1. CASE stack' = Append(Under, f)
    BY <1>1, <1>2, <2>0, <2>1, SwapCarries
  <2>2. ASSUME NEW g \in Frame, New(g, "hooks"), g.todo = list, ~InAtomic(stack),
               stack' = Append(Append(Under, f), g)
        PROVE  /\ \A i \in 1..(n + 1) : Carried(i)
               /\ \A i \in 1..n : stack'[i] = stack[i]
               /\ stack'[n + 1] = f /\ DOMAIN stack' = 1..(n + 2) /\ stack'[n + 2] = g
               /\ g.kind = "hooks"
    <3>1. g.kind = "hooks"
      BY <2>2 DEF New
    <3> QED
      BY <1>1, <1>2, <2>0, <2>2, <3>1, SwapPushCarries
  <2> QED
    BY <1>5, <2>1, <2>2
<1>10. ASSUME NEW e \in Ids PROVE EventKept(e)'
  <2>1. EventKept(e) /\ Decided(e)'
    BY EventIs DEF EventKept, Decided
  <2>2. CASE event[e].status = "written"
    <3>1. InAtomic(stack) /\ Undoable(stack, e) /\ (e \in returned \/ Fired(stack, e))
      BY <2>2, WrittenThen
    <3>2. stack' = Append(Under, f)
      BY <1>5, <3>1
    <3>3. InAtomic(stack') /\ Undoable(stack', e) /\ (e \in returned' \/ Fired(stack', e))
      BY <1>1, <3>1, <3>2, FiringSwapped
    <3>4. rows'[e] = rows[e] \/ (e = Top.event /\ e \notin returned)
      BY <1>7
    <3> QED
      BY <1>7, <2>1, <2>2, <3>3, <3>4 DEF EventKept, Of
  <2>3. CASE event[e].status # "written"
    <3>1. rows'[e] = rows[e] \/ (e = Top.event /\ e \notin returned /\ event[e].status = "committed")
      BY <1>7, <2>3
    <3> QED
      BY <1>7, <2>1, <2>3, <3>1 DEF EventKept, Of
  <2> QED
    BY <2>2, <2>3
<1>11. DOMAIN hooks = 1..Len(hooks) /\ Len(hooks) \in Nat
  BY BaseIs, LenProperties
<1>12. ASSUME NEW p \in DOMAIN hooks'
       PROVE  \/ p \in DOMAIN hooks /\ hooks'[p] = hooks[p]
              \/ InAtomic(stack) /\ p \in Nat /\ p > Len(hooks) /\ hooks'[p].event = Top.event
  <2>1. CASE hooks' = hooks
    BY <2>1
  <2>2. CASE hooks' = hooks \o list /\ InAtomic(stack)
    <3>1. Len(list) \in Nat /\ DOMAIN list = 1..Len(list)
      BY LenProperties
    <3>2. /\ DOMAIN hooks' = 1..(Len(hooks) + Len(list))
          /\ \A k \in 1..(Len(hooks) + Len(list)) :
               hooks'[k] = IF k <= Len(hooks) THEN hooks[k] ELSE list[k - Len(hooks)]
      BY <2>2, <3>1, BaseIs, ConcatProperties, LenProperties
    <3>3. CASE p <= Len(hooks)
      BY <1>11, <3>2, <3>3
    <3>4. CASE p > Len(hooks)
      <4>1. p - Len(hooks) \in DOMAIN list
        BY <1>11, <3>1, <3>2, <3>4
      <4> QED
        BY <1>11, <2>2, <3>2, <3>4, <4>1
    <3> QED
      BY <1>11, <3>2, <3>3, <3>4
  <2> QED
    BY <1>5, <2>1, <2>2
<1>13. ASSUME NEW i \in 1..(n + 1) PROVE FrameKept(stack, i)'
  <2>1. i \in DOMAIN stack /\ FrameKept(stack, i) /\ stack[i] \in Frame /\ Carried(i)
    BY <1>3, <1>9, StackIs DEF EventsKept
  <2>2. stack[i].kind = "firing" /\ i # n + 1 => stack[i].event # Top.event /\ stack'[i] = stack[i]
    <3> SUFFICES ASSUME stack[i].kind = "firing", i # n + 1
                 PROVE  stack[i].event # Top.event /\ stack'[i] = stack[i]
      OBVIOUS
    <3>1. i \in 1..(n + 1 - 1) /\ i \in 1..n
      OBVIOUS
    <3>2. stack[i].event <= Top.from
      BY <1>3, <3>1, BaseIs DEF Dated
    <3>3. stack[i].event \in Nat /\ Top.from \in Nat
      BY <1>1, <2>1, TopIs, BaseIs, FrameIs
    <3> QED
      BY <1>1, <1>9, <3>1, <3>2, <3>3
  <2>3. stack[i].event \in Ids \cup {0} /\ stack[i].event \in Nat /\ stack[i].from \in Nat
        /\ stack[i].mark \in Nat /\ (stack[i].kind = "firing" => stack[i].event = stack[i].from + 1)
    BY <2>1, FrameIs, BaseIs DEF Frame, Dated
  <2>4. stack[i].kind = "firing" =>
          /\ stack[i].event \notin returned'
          /\ rows'[stack[i].event] \in {rows[stack[i].event], Of(event[stack[i].event].class, "DURABLE")}
          /\ ~stack'[i].owing =>
               ~stack[i].owing \/ rows'[stack[i].event] = Of(event[stack[i].event].class, "DURABLE")
    <3>1. CASE i = n + 1
      BY <1>3, <1>7, <1>9, <3>1
    <3>2. CASE i # n + 1
      BY <2>1, <2>2, <2>3, <3>2 DEF FrameKept
    <3> QED
      BY <3>1, <3>2
  <2>5. stack[i].kind = "atomic" => \A p \in DOMAIN hooks' :
          p <= stack[i].mark <=> hooks'[p].event <= stack[i].from
    <3> SUFFICES ASSUME stack[i].kind = "atomic", NEW p \in DOMAIN hooks'
                 PROVE  p <= stack[i].mark <=> hooks'[p].event <= stack[i].from
      OBVIOUS
    <3>1. CASE p \in DOMAIN hooks /\ hooks'[p] = hooks[p]
      BY <2>1, <3>1 DEF FrameKept
    <3>2. CASE p \in Nat /\ p > Len(hooks) /\ hooks'[p].event = Top.event
      <4>1. i # n + 1 /\ i \in 1..(n + 1 - 1)
        BY <1>1, <1>3
      <4>2. stack[i].mark <= Len(hooks) /\ stack[i].from <= Top.from
        BY <1>3, <2>1, <4>1, BaseIs DEF Dated
      <4>3. Top.from \in Nat
        BY <1>1, TopIs, BaseIs, FrameIs
      <4> QED
        BY <1>1, <1>11, <2>3, <3>2, <4>2, <4>3
    <3> QED
      BY <1>12, <3>1, <3>2
  <2>6. Steady
    BY SameSteady
  <2> QED
    BY <2>1, <2>4, <2>5, <2>6, FrameCarried
<1>14. ASSUME NEW g \in Frame, ~InAtomic(stack), g.kind = "hooks", g.todo = list, stack'[n + 2] = g
       PROVE  FrameKept(stack, n + 2)'
  BY <1>7, <1>14 DEF FrameKept
<1>15. ASSUME NEW p \in DOMAIN hooks' PROVE event'[hooks'[p].event].status = "written"
  BY <1>7, <1>12 DEF EventsKept
<1>16. \A i \in 1..(n + 2) : i \in 1..(n + 1) \/ i = n + 2
  OBVIOUS
<1>17. \A i \in DOMAIN stack' : FrameKept(stack, i)'
  BY <1>9, <1>13, <1>14, <1>16
<1> QED
  BY <1>10, <1>15, <1>17 DEF EventsKept

LEMMA OweEvents == ASSUME Base, Base', EventsKept, Owe PROVE EventsKept'
<1>1. PICK f \in Frame :
        /\ Alike(f, Top) /\ f.owing = FALSE /\ f.left = Top.left /\ f.todo = Top.todo
        /\ Append(Under, f) \in Stack /\ OnCommit(Append(Under, f), Scheduled(Top.event))
  BY OweMakes DEF Base
<1>2. /\ Inside("firing") /\ ~raising /\ ~raising' /\ event' = event /\ fired' = fired
      /\ returned' = returned
      /\ rows' = [rows EXCEPT ![Top.event] = Of(event[Top.event].class, "DURABLE")]
  BY DEF Owe
<1>3. Top.event \in Ids
  BY <1>2, FiringIs
<1>4. PICK list \in Seq(Hook) : list = Scheduled(Top.event) /\ \A p \in DOMAIN list : list[p].event = Top.event
  BY <1>3, ScheduledIs
<1>5. /\ \A e \in Ids : e # Top.event => rows'[e] = rows[e]
      /\ rows'[Top.event] = Of(event[Top.event].class, "DURABLE")
  BY <1>2, <1>3, TypesAre DEF Base
<1> QED
  BY <1>1, <1>2, <1>4, <1>5, OnCommitEvents

\* A receiver is run on a frame that goes on.
LEMMA ReceiverEvents ==
  ASSUME Base, Base', EventsKept, stack # <<>>, NEW f \in Frame, Onward(f),
         Top.kind = "firing" => f.owing = Top.owing,
         stack' = Append(Under, f)
           \/ \E g \in Frame :
                /\ g.kind \in {"inline", "callback"} /\ g.todo = <<>>
                /\ g.kind = "callback" => g.event \in Ids /\ event[g.event].status = "committed"
                /\ stack' = Append(Append(Under, f), g),
         \A e \in Ids : event[e].status = "written" =>
           /\ InAtomic(stack) /\ Undoable(stack, e) /\ (e \in returned \/ Fired(stack, e)),
         event' = event, rows' = rows, fired' = fired, returned' = returned, hooks' = hooks
  PROVE  EventsKept'
<1>1. PICK n \in Nat : n + 1 = Len(stack)
  BY DepthIs
<1>2. stack \in Stack /\ Top = Last(stack) /\ Under = Front(stack)
  BY BaseIs DEF Top, Under
<1>3. Append(Under, f) \in Stack
  BY <1>2, TopIs, BaseIs, Pushed DEF Stack
<1>4. /\ \A i \in 1..(n + 1) : Carried(i)
      /\ \A i \in 1..n : stack'[i] = stack[i]
      /\ stack'[n + 1] = f /\ Top = stack[n + 1] /\ DOMAIN stack = 1..(n + 1)
      /\ \/ DOMAIN stack' = 1..(n + 1)
         \/ /\ DOMAIN stack' = 1..(n + 2)
            /\ \E g \in Frame : /\ g.kind \in {"inline", "callback"} /\ g.todo = <<>>
                                /\ g.kind = "callback" => g.event \in Ids /\ event[g.event].status = "committed"
                                /\ stack'[n + 2] = g
  <2>1. CASE stack' = Append(Under, f)
    BY <1>1, <2>1, SwapCarries
  <2>2. ASSUME NEW g \in Frame, stack' = Append(Append(Under, f), g)
        PROVE  /\ \A i \in 1..(n + 1) : Carried(i)
               /\ \A i \in 1..n : stack'[i] = stack[i]
               /\ stack'[n + 1] = f /\ Top = stack[n + 1] /\ DOMAIN stack = 1..(n + 1)
               /\ DOMAIN stack' = 1..(n + 2) /\ stack'[n + 2] = g
    BY <1>1, <2>2, SwapPushCarries
  <2> QED
    BY <2>1, <2>2
<1>5. ASSUME NEW e \in Ids PROVE EventKept(e)'
  <2> SUFFICES ASSUME event[e].status = "written"
               PROVE  InAtomic(stack') /\ Undoable(stack', e) /\ (e \in returned \/ Fired(stack', e))
    BY EventSame
  <2>1. InAtomic(stack) /\ Undoable(stack, e) /\ (e \in returned \/ Fired(stack, e))
    OBVIOUS
  <2>2. PICK s \in Stack : s = Append(Under, f)
    BY <1>3
  <2>3. InAtomic(s) /\ Undoable(s, e) /\ (e \in returned \/ Fired(s, e))
    BY <1>2, <2>1, <2>2, ToldSwapped DEF Onward
  <2>4. CASE stack' = s
    BY <2>3, <2>4
  <2>5. ASSUME NEW g \in Frame, stack' = Append(s, g)
        PROVE  InAtomic(stack') /\ Undoable(stack', e) /\ (e \in returned \/ Fired(stack', e))
    BY <2>3, <2>5, ToldPushed
  <2> QED
    BY <2>2, <2>4, <2>5
<1>6. ASSUME NEW i \in 1..(n + 1) PROVE FrameKept(stack, i)'
  <2>1. i \in DOMAIN stack /\ Carried(i)
    BY <1>4
  <2>2. i \in 1..n \/ i = n + 1
    OBVIOUS
  <2>3. stack[i].kind = "firing" => stack'[i].owing = stack[i].owing
    BY <1>4, <2>2
  <2> QED
    BY <2>1, <2>3, FrameSame
<1>7. ASSUME NEW g \in Frame, g.kind \in {"inline", "callback"}, g.todo = <<>>,
             g.kind = "callback" => g.event \in Ids /\ event[g.event].status = "committed",
             stack'[n + 2] = g
      PROVE  FrameKept(stack, n + 2)'
  <2>1. DOMAIN <<>> = {} /\ 0 \notin Ids
    BY DEF Ids
  <2> QED
    BY <1>7, <2>1 DEF FrameKept
<1>8. \A i \in 1..(n + 2) : i \in 1..(n + 1) \/ i = n + 2
  OBVIOUS
<1>9. \A i \in DOMAIN stack' : FrameKept(stack, i)'
  BY <1>4, <1>6, <1>7, <1>8
<1>10. (\A p \in DOMAIN hooks : event[hooks[p].event].status = "written")'
  BY DEF EventsKept
<1> QED
  BY <1>5, <1>9, <1>10 DEF EventsKept

LEMMA ReachEvents == ASSUME Base, Base', EventsKept, Reach PROVE EventsKept'
<1>1. PICK f \in Frame, r \in Receivers :
        /\ r \in Top.left /\ Alike(f, Top) /\ f.owing = Top.owing /\ f.left = Top.left \ {r}
        /\ f.todo = Top.todo /\ Append(Under, f) \in Stack /\ Top.event \in Ids
        /\ \/ /\ ModeOf[r] = "INLINE" /\ cause' = Top.event /\ hooks' = hooks
              /\ \E g \in Frame :
                   /\ New(g, "inline") /\ g.event = Top.event /\ g.left = {} /\ g.todo = <<>>
                   /\ stack' = Append(Append(Under, f), g)
           \/ /\ ModeOf[r] # "INLINE" /\ cause' = cause
              /\ OnCommit(Append(Under, f), <<[event |-> Top.event, run |-> r]>>)
  BY ReachMakes DEF Base
<1>2. /\ Inside("firing") /\ ~raising /\ ~raising' /\ event' = event /\ rows' = rows
      /\ fired' = fired /\ returned' = returned /\ stack # <<>>
  BY DEF Reach, Inside
<1>3. CASE ModeOf[r] = "INLINE"
  <2>1. PICK g \in Frame : New(g, "inline") /\ g.todo = <<>> /\ stack' = Append(Append(Under, f), g)
    BY <1>1, <1>3
  <2>2. g.kind = "inline"
    BY <2>1 DEF New
  <2>3. hooks' = hooks
    BY <1>1, <1>3
  <2>4. \E h \in Frame :
          /\ h.kind \in {"inline", "callback"} /\ h.todo = <<>>
          /\ h.kind = "callback" => h.event \in Ids /\ event[h.event].status = "committed"
          /\ stack' = Append(Append(Under, f), h)
    BY <2>1, <2>2
  <2>5. \A e \in Ids : event[e].status = "written" =>
           /\ InAtomic(stack) /\ Undoable(stack, e) /\ (e \in returned \/ Fired(stack, e))
    BY <1>2, WrittenThen
  <2>6. Onward(f)
    BY <1>1 DEF Onward
  <2> QED
    BY <1>1, <1>2, <2>3, <2>4, <2>5, <2>6, ReceiverEvents
<1>4. CASE ModeOf[r] # "INLINE"
  <2>1. OnCommit(Append(Under, f), <<[event |-> Top.event, run |-> r]>>)
    BY <1>1, <1>4
  <2>2. r \in Callbacks
    BY <1>1, <1>2, <1>4, ReachedIs DEF Base
  <2>3. PICK h \in Hook : h = [event |-> Top.event, run |-> r]
    BY <1>1, <2>2 DEF Hook
  <2>4. PICK list \in Seq(Hook) : list = <<h>>
    <3>1. <<h>> \in Seq(Hook)
      OBVIOUS
    <3> QED
      BY <3>1
  <2>5. \A p \in DOMAIN list : list[p].event = Top.event
    BY <2>3, <2>4
  <2>6. f.left \subseteq Top.left /\ (f.owing => Top.owing) /\ (~f.owing => ~Top.owing)
    BY <1>1
  <2> QED
    BY <1>1, <1>2, <2>1, <2>3, <2>4, <2>5, <2>6, OnCommitEvents
<1> QED
  BY <1>3, <1>4

LEMMA RunHookEvents == ASSUME Base, Base', EventsKept, RunHook PROVE EventsKept'
<1>1. PICK f \in Frame, h \in Hook :
        /\ Top.kind = "hooks" /\ stack # <<>> /\ Top.todo # <<>> /\ Top.todo \in Seq(Hook)
        /\ h = Head(Top.todo) /\ Alike(f, Top) /\ f.left = Top.left
        /\ f.todo = Tail(Top.todo)
        /\ \/ h.run \notin Receivers /\ cause' = cause /\ stack' = Append(Under, f)
           \/ /\ h.run \in Receivers /\ cause' = h.event
              /\ \E g \in Frame :
                   /\ New(g, "callback") /\ g.event = h.event /\ g.left = {} /\ g.todo = <<>>
                   /\ stack' = Append(Append(Under, f), g)
  BY RunHookMakes DEF Base
<1>2. /\ event' = event /\ rows' = rows /\ fired' = fired /\ returned' = returned /\ hooks' = hooks
  BY DEF RunHook
<1>3. ~InAtomic(stack)
  BY <1>1, CallbackIs
<1>4. \A e \in Ids : event[e].status # "written"
  BY <1>3, EventIs DEF EventKept
<1>5. PICK list \in Seq(Hook) : list = Top.todo /\ list # <<>>
  BY <1>1
<1>6. /\ 1 \in DOMAIN list /\ h = list[1]
      /\ \A p \in DOMAIN Tail(list) : p + 1 \in DOMAIN list /\ Tail(list)[p] = list[p + 1]
  <2>1. Len(list) \in Nat /\ Len(list) > 0 /\ DOMAIN list = 1..Len(list)
    BY <1>5, EmptySeq, LenProperties
  <2>2. Tail(list) \in Seq(Hook) /\ Len(Tail(list)) = Len(list) - 1
        /\ \A p \in 1..(Len(list) - 1) : Tail(list)[p] = list[p + 1]
    BY <1>5, <2>1, HeadTailProperties
  <2>3. DOMAIN Tail(list) = 1..(Len(list) - 1)
    BY <2>2, LenProperties
  <2> QED
    BY <1>1, <1>5, <2>1, <2>2, <2>3, HeadTailProperties
<1>7. h.event \in Ids /\ event[h.event].status = "committed"
  <2>1. PICK n \in DOMAIN stack : Top = stack[n]
    BY <1>1, BaseIs, TopIs
  <2> QED
    BY <1>5, <1>6, <2>1 DEF EventsKept, FrameKept, Hook
<1>8. Onward(f)
  BY <1>1, <1>5, <1>6 DEF Onward
<1>9. stack' = Append(Under, f)
           \/ \E g \in Frame :
                /\ g.kind \in {"inline", "callback"} /\ g.todo = <<>>
                /\ g.kind = "callback" => g.event \in Ids /\ event[g.event].status = "committed"
                /\ stack' = Append(Append(Under, f), g)
  BY <1>1, <1>7 DEF New
<1>10. Top.kind # "firing"
  BY <1>1
<1> QED
  BY <1>1, <1>2, <1>4, <1>8, <1>9, <1>10, ReceiverEvents

\* Nothing there is tells of an event that is not there yet.
LEMMA NoneYet ==
  ASSUME Base, EventsKept, fired + 1 \in Ids
  PROVE  /\ rows[fired + 1] = {} /\ fired + 1 \notin returned /\ event[fired + 1].status = "none"
         /\ \A i \in DOMAIN stack : stack[i].from < fired + 1 /\ stack[i].from \in Nat
         /\ \A i \in DOMAIN stack : stack[i].kind = "firing" => stack[i].event \in Ids /\ stack[i].event <= fired
         /\ Undoable(stack, fired + 1)
<1>1. EventKept(fired + 1) /\ fired \in Nat
  BY BaseIs DEF EventsKept
<1>2. ASSUME NEW i \in DOMAIN stack
      PROVE  /\ stack[i].from < fired + 1 /\ stack[i].from \in Nat
             /\ stack[i].kind = "firing" => stack[i].event \in Ids /\ stack[i].event <= fired
  <2>1. stack[i] \in Frame /\ stack[i].from \in Nat /\ stack[i].event \in Ids \cup {0}
    BY StackIs, FrameIs DEF Frame
  <2>2. stack[i].from <= fired /\ (stack[i].kind = "firing" => stack[i].event = stack[i].from + 1 /\ stack[i].event <= fired)
    BY BaseIs DEF Dated
  <2> QED
    BY <1>1, <2>1, <2>2
<1>3. ~(fired + 1 <= fired) /\ fired + 1 > fired
  BY <1>1
<1> QED
  BY <1>1, <1>2, <1>3 DEF EventKept, Undoable

LEMMA RecordEvents ==
  ASSUME Base, Base', EventsKept, NEW class \in Classes, Record(class) PROVE EventsKept'
<1>1. /\ ~raising /\ rows' = rows /\ hooks' = hooks /\ cause' = cause
  BY DEF Record, UserRuns
<1>2. PICK e \in Ids :
        /\ e = fired + 1 /\ fired' = e /\ (\A x \in Ids : x # e => event'[x] = event[x])
        /\ event'[e] =
             [status |-> IF InAtomic(stack) THEN "written" ELSE "committed",
              class |-> class, cause |-> cause, suppressed |-> Matches(class) # {},
              chain |-> IF scope.chain # 0 THEN scope.chain ELSE Inherited,
              inside |-> InAtomic(stack)]
  BY WrittenIs DEF Base
<1>3. /\ event'[e].status = IF InAtomic(stack) THEN "written" ELSE "committed"
      /\ event'[e].class = class /\ event'[e].cause = cause
      /\ event'[e].suppressed = (Matches(class) # {}) /\ event'[e].inside = InAtomic(stack)
  BY <1>2
<1>4. PICK n \in Nat : n = Len(stack)
  BY StackIs
<1>5. /\ rows[e] = {} /\ e \notin returned /\ event[e].status = "none"
      /\ \A i \in DOMAIN stack : stack[i].from < e
      /\ \A i \in DOMAIN stack : stack[i].kind = "firing" => stack[i].event \in Ids /\ stack[i].event <= fired
      /\ Undoable(stack, e)
  BY <1>2, NoneYet
<1>6. DOMAIN stack = 1..n /\ fired \in Nat
  BY <1>4, StackIs, BaseIs
<1>7. \/ Matches(class) # {} /\ stack' = stack /\ returned' = returned \cup {e}
      \/ /\ Matches(class) = {} /\ returned' = returned
         /\ \E f \in Frame :
              /\ New(f, "firing") /\ f.event = e /\ f.owing = TRUE /\ f.todo = <<>>
              /\ f.left = Of(class, "INLINE") \cup Of(class, "ON_COMMIT")
              /\ stack' = Append(stack, f)
  <2>1. CASE Matches(class) # {}
    BY <1>2, <2>1 DEF Record
  <2>2. CASE Matches(class) = {}
    <3>1. returned' = returned
      BY <2>2 DEF Record
    <3> QED
      BY <1>2, <2>2, <3>1, RecordMakes DEF Base
  <2> QED
    BY <2>1, <2>2
<1>8. /\ \A i \in 1..n : Carried(i) /\ stack'[i] = stack[i]
      /\ \/ Matches(class) # {} /\ DOMAIN stack' = 1..n
         \/ /\ Matches(class) = {} /\ DOMAIN stack' = 1..(n + 1)
            /\ \E f \in Frame :
                 /\ f.kind = "firing" /\ f.event = e /\ f.owing = TRUE /\ f.todo = <<>>
                 /\ f.left = Of(class, "INLINE") \cup Of(class, "ON_COMMIT")
                 /\ stack'[n + 1] = f
  <2>1. CASE stack' = stack /\ Matches(class) # {}
    <3>1. \A i \in 1..n : Carried(i)
      BY <1>6, <2>1 DEF Carried, Alike
    <3> QED
      BY <1>6, <2>1, <3>1
  <2>2. ASSUME NEW f \in Frame, New(f, "firing"), stack' = Append(stack, f)
        PROVE  /\ \A i \in 1..n : Carried(i) /\ stack'[i] = stack[i]
               /\ DOMAIN stack' = 1..(n + 1) /\ stack'[n + 1] = f /\ f.kind = "firing"
    <3>1. f.kind = "firing"
      BY <2>2 DEF New
    <3> QED
      BY <1>4, <2>2, <3>1, PushCarries
  <2> QED
    BY <1>7, <2>1, <2>2
<1>9. ASSUME NEW x, InAtomic(stack)
      PROVE  /\ InAtomic(stack')
             /\ Undoable(stack, x) => Undoable(stack', x)
             /\ Fired(stack, x) => Fired(stack', x)
  <2>1. CASE stack' = stack
    BY <1>9, <2>1
  <2>2. ASSUME NEW f \in Frame, stack' = Append(stack, f) PROVE
             /\ InAtomic(stack')
             /\ Undoable(stack, x) => Undoable(stack', x)
             /\ Fired(stack, x) => Fired(stack', x)
    BY <1>9, <2>2, BaseIs, ToldPushed
  <2> QED
    BY <1>7, <2>1, <2>2
<1>10. ASSUME NEW x \in Ids, x # e PROVE EventKept(x)'
  <2>1. EventKept(x) /\ event'[x] = event[x] /\ x \in Nat /\ event[x] \in Event
    BY <1>2, <1>10, EventIs
  <2>2. (event[x].status = "none" <=> x > fired)'
    BY <1>2, <1>6, <1>10, <2>1 DEF EventKept
  <2>3. x \in returned' <=> x \in returned
    BY <1>7, <1>10
  <2>4. (event[x].status = "written" =>
           /\ event[x].inside /\ InAtomic(stack) /\ Undoable(stack, x)
           /\ x \in returned \/ Fired(stack, x) \/ (raising /\ Abandoned(stack, x)))'
    <3> SUFFICES ASSUME event[x].status = "written"
                 PROVE  /\ event[x].inside /\ InAtomic(stack') /\ Undoable(stack', x)
                        /\ x \in returned' \/ Fired(stack', x)
      BY <2>1
    <3>1. event[x].inside
      BY <2>1 DEF EventKept
    <3>2. InAtomic(stack) /\ Undoable(stack, x) /\ (x \in returned \/ Fired(stack, x))
      BY <1>1, WrittenThen
    <3> QED
      BY <1>9, <2>3, <3>1, <3>2
  <2>5. x \in returned' => x <= fired'
    BY <1>2, <1>6, <2>1, <2>3 DEF EventKept
  <2>6. Decided(x)'
    <3>1. PICK c : c = event[x].cause /\ c \in Ids \cup {0}
      BY <2>1 DEF Event
    <3> SUFFICES ASSUME c # 0
                 PROVE  /\ c < x
                        /\ event[x].status \in {"written", "committed"} =>
                             event'[c].status \in {"committed", event[x].status}
      BY <2>1, <3>1 DEF Decided
    <3>2. /\ c < x
          /\ event[x].status \in {"written", "committed"} =>
               event[c].status \in {"committed", event[x].status}
      BY <2>1, <3>1 DEF EventKept, Decided
    <3>3. c \in Ids /\ c \in Nat
      BY <3>1, EventIs
    <3>4. event[x].status \in {"written", "committed"} => x <= fired
      BY EventIs
    <3>5. event[x].status \in {"written", "committed"} => c # e
      BY <1>2, <1>6, <2>1, <3>2, <3>3, <3>4
    <3> QED
      BY <1>2, <3>2, <3>3, <3>5
  <2> QED
    BY <1>1, <2>1, <2>2, <2>3, <2>4, <2>5, <2>6 DEF EventKept, Of
<1>11. EventKept(e)'
  <2>1. (event[e].status = "none" <=> e > fired)'
    BY <1>2, <1>3, <1>6
  <2>2. (event[e].status \in {"none", "undone"} \/ event[e].suppressed => rows[e] = {})'
    BY <1>1, <1>5
  <2>3. (event[e].status = "written" =>
           /\ event[e].inside /\ InAtomic(stack) /\ Undoable(stack, e)
           /\ e \in returned \/ Fired(stack, e) \/ (raising /\ Abandoned(stack, e)))'
    <3> SUFFICES ASSUME InAtomic(stack)
                 PROVE  /\ InAtomic(stack') /\ Undoable(stack', e)
                        /\ e \in returned' \/ Fired(stack', e)
      BY <1>3
    <3>1. InAtomic(stack') /\ Undoable(stack', e)
      BY <1>5, <1>9
    <3>2. e \in returned' \/ Fired(stack', e)
      <4>1. n + 1 \in 1..(n + 1)
        OBVIOUS
      <4> QED
        BY <1>7, <1>8, <4>1 DEF Fired
    <3> QED
      BY <3>1, <3>2
  <2>4. (event[e].inside /\ event[e].status = "committed" => e \in returned)'
    BY <1>3
  <2>5. (event[e].status \in {"written", "committed"} /\ e \in returned /\ ~event[e].suppressed =>
           rows[e] = Of(event[e].class, "DURABLE"))'
    BY <1>3, <1>5, <1>7
  <2>6. (e \in returned => e <= fired)'
    BY <1>2, <1>6
  <2>7. Decided(e)'
    <3> SUFFICES ASSUME cause # 0
                 PROVE  cause < e /\ event'[cause].status \in {"committed", event'[e].status}
      BY <1>3 DEF Decided
    <3>1. /\ cause \in Ids /\ cause <= fired
          /\ event[cause].status = "committed" \/ (event[cause].status = "written" /\ InAtomic(stack))
      BY CauseIs
    <3>2. cause < e /\ cause # e
      <4>1. cause \in Nat
        BY <3>1, EventIs
      <4> QED
        BY <1>2, <1>6, <3>1, <4>1
    <3> QED
      BY <1>2, <1>3, <3>1, <3>2
  <2> QED
    BY <2>1, <2>2, <2>3, <2>4, <2>5, <2>6, <2>7 DEF EventKept
<1>12. ASSUME NEW i \in 1..n PROVE FrameKept(stack, i)'
  <2>1. i \in DOMAIN stack /\ FrameKept(stack, i)
    BY <1>6 DEF EventsKept
  <2>2. stack[i].kind = "firing" => stack[i].event \in Ids /\ stack[i].event # e
    BY <1>2, <1>5, <1>6, <2>1
  <2>3. stack[i].kind = "firing" =>
          /\ event'[stack[i].event] = event[stack[i].event]
          /\ stack[i].event \notin returned'
          /\ ~stack[i].owing => rows[stack[i].event] = Of(event[stack[i].event].class, "DURABLE")
    BY <1>2, <1>7, <2>1, <2>2 DEF FrameKept
  <2>4. stack[i].kind = "atomic" => \A p \in DOMAIN hooks' :
          p <= stack[i].mark <=> hooks'[p].event <= stack[i].from
    BY <1>1, <2>1 DEF FrameKept
  <2>5. Steady /\ Carried(i) /\ stack'[i] = stack[i]
    BY <1>8, RecordSteady
  <2> QED
    BY <1>1, <2>1, <2>3, <2>4, <2>5, FrameCarried
<1>13. ASSUME NEW f \in Frame, Matches(class) = {}, f.kind = "firing", f.event = e, f.owing = TRUE,
              f.todo = <<>>, f.left = Of(class, "INLINE") \cup Of(class, "ON_COMMIT"),
              stack'[n + 1] = f
       PROVE  FrameKept(stack, n + 1)'
  <2>1. AtomicBelow(stack', n + 1) <=> InAtomic(stack)
    <3>1. \A j \in 1..n : stack'[j] = stack[j]
      BY <1>8
    <3>2. 1..(n + 1 - 1) = 1..n
      OBVIOUS
    <3> QED
      BY <1>6, <3>1, <3>2 DEF AtomicBelow, InAtomic
  <2>2. DOMAIN <<>> = {}
    OBVIOUS
  <2>3. e \notin returned'
    BY <1>5, <1>7, <1>13
  <2> QED
    BY <1>3, <1>13, <2>1, <2>2, <2>3 DEF FrameKept, Of
<1>14. ASSUME NEW p \in DOMAIN hooks' PROVE event'[hooks'[p].event].status = "written"
  <2>1. hooks[p] \in Hook
    BY <1>1, BaseIs, LenProperties, ElementOfSeq
  <2>2. hooks[p].event \in Ids /\ event[hooks[p].event].status = "written"
    BY <1>1, <2>1 DEF Hook, EventsKept
  <2>3. hooks[p].event # e
    BY <1>5, <2>2
  <2> QED
    BY <1>1, <1>2, <2>2, <2>3
<1>15. \A i \in 1..(n + 1) : i \in 1..n \/ i = n + 1
  OBVIOUS
<1>16. \A i \in DOMAIN stack' : FrameKept(stack, i)'
  BY <1>8, <1>12, <1>13, <1>15
<1>17. \A x \in Ids : EventKept(x)'
  BY <1>10, <1>11
<1> QED
  BY <1>14, <1>16, <1>17 DEF EventsKept

LEMMA EventsInductive == ASSUME Base, Base', EventsKept, [Next]_vars PROVE EventsKept'
<1>1. CASE UNCHANGED vars
  BY <1>1 DEF vars, EventsKept, EventKept, FrameKept, Decided, Fired, Abandoned, Undoable,
     AtomicBelow, InAtomic, Of
<1>2. CASE LeaveAtomic
  BY <1>2, LeftEvents, CommitEvents
<1>3. CASE EnterAtomic \/ EnterSuppressed \/ EnterAttributed
  BY <1>3, EnterEvents
<1>4. CASE LeaveSuppressed \/ LeaveAttributed \/ LeaveReceiver \/ HooksRun \/ Unwind \/ Survive
  BY <1>4, LeftEvents
<1>5. CASE Raise \/ FanOutFails \/ Fail
  BY <1>5, RaiseEvents
<1>6. CASE Owe \/ Reach \/ FireReturns \/ RunHook \/ RollBack \/ Crash
  BY <1>6, OweEvents, ReachEvents, FireReturnsEvents, RunHookEvents, RollBackEvents, CrashEvents
<1>7. CASE \E class \in Classes : Record(class)
  BY <1>7, RecordEvents
<1> QED
  BY <1>1, <1>2, <1>3, <1>4, <1>5, <1>6, <1>7 DEF Next

-----------------------------------------------------------------------------
(* What a step does to frames, callbacks and ContextVars, whichever it is. *)

\* A frame there was not: entered now, on frames that are still there.
Newly(i) ==
  /\ i \in DOMAIN stack' /\ \A j \in 1..(i - 1) : Carried(j)
  /\ stack'[i].token = Context
  /\ stack'[i].kind = "firing" => \E class \in Classes : Record(class) /\ stack'[i].event = fired + 1
  /\ stack'[i].kind = "atomic" => stack'[i].mark = Len(hooks) /\ hooks' = hooks
  /\ \A p \in DOMAIN stack'[i].todo :
       /\ stack # <<>> /\ scope' = scope
       /\ \/ Top.kind = "firing" /\ stack'[i].todo[p].event = Top.event
          \/ Top.kind = "atomic" /\ ~InAtomic(Under) /\ p \in DOMAIN hooks /\ stack'[i].todo[p] = hooks[p]

\* A callback that was registered, or is by the fire at the top.
Registered(p) ==
  \/ p \in DOMAIN hooks /\ hooks'[p] = hooks[p]
  \/ stack # <<>> /\ Top.kind = "firing" /\ p > Len(hooks) /\ hooks'[p].event = Top.event

LEMMA OnCommitFrames ==
  ASSUME Base, stack # <<>>, Top.kind = "firing", NEW f \in Frame, Alike(f, Top), f.left \subseteq Top.left,
         f.todo = <<>>, NEW list \in Seq(Hook), OnCommit(Append(Under, f), list),
         \A p \in DOMAIN list : list[p].event = Top.event, scope' = scope
  PROVE  /\ \A i \in DOMAIN stack' : Carried(i) \/ Newly(i)
         /\ \A p \in DOMAIN hooks' : Registered(p)
<1>1. PICK n \in Nat : n + 1 = Len(stack)
  BY DepthIs
<1>2. Append(Under, f) \in Stack
  BY TopIs, BaseIs, Pushed DEF Stack
<1>3. \/ stack' = Append(Under, f) /\ (hooks' = hooks \o list \/ hooks' = hooks)
      \/ /\ hooks' = hooks
         /\ \E g \in Frame : /\ New(g, "hooks") /\ g.event = 0 /\ g.left = {} /\ g.todo = list
                             /\ stack' = Append(Append(Under, f), g)
  <2>1. PICK s \in Stack : s = Append(Under, f)
    BY <1>2
  <2>2. \/ InAtomic(s) /\ stack' = s /\ hooks' = hooks \o list
        \/ ~InAtomic(s) /\ list = <<>> /\ stack' = s /\ hooks' = hooks
        \/ /\ ~InAtomic(s) /\ hooks' = hooks
           /\ \E g \in Frame : /\ New(g, "hooks") /\ g.event = 0 /\ g.left = {} /\ g.todo = list
                               /\ stack' = Append(s, g)
    <3>1. OnCommit(s, list) /\ TypeOK
      BY <2>1 DEF Base
    <3> QED
      BY <3>1, OnCommitMakes
  <2> QED
    BY <2>1, <2>2
<1>4. DOMAIN f.todo = {}
  <2>1. DOMAIN <<>> = {}
    OBVIOUS
  <2> QED
    BY <2>1
<1>5. ASSUME NEW i \in DOMAIN stack' PROVE Carried(i) \/ Newly(i)
  <2>0. Onward(f)
    BY <1>4 DEF Onward
  <2>1. CASE stack' = Append(Under, f)
    <3>1. DOMAIN stack' = 1..(n + 1) /\ \A j \in 1..(n + 1) : Carried(j)
      BY <1>1, <2>0, <2>1, SwapCarries
    <3> QED
      BY <3>1
  <2>2. ASSUME NEW g \in Frame, New(g, "hooks"), g.todo = list,
               stack' = Append(Append(Under, f), g)
        PROVE  Carried(i) \/ Newly(i)
    <3>1. /\ DOMAIN stack' = 1..(n + 2) /\ stack'[n + 2] = g /\ \A j \in 1..(n + 1) : Carried(j)
      BY <1>1, <2>0, <2>2, SwapPushCarries
    <3>2. i \in 1..(n + 1) \/ i = n + 2
      BY <3>1
    <3>3. Newly(n + 2)
      <4>1. g.kind = "hooks" /\ g.token = Context
        BY <2>2 DEF New
      <4>2. n + 2 - 1 = n + 1
        OBVIOUS
      <4> QED
        BY <2>2, <3>1, <4>1, <4>2 DEF Newly
    <3> QED
      BY <3>1, <3>2, <3>3
  <2> QED
    BY <1>3, <2>1, <2>2
<1>6. DOMAIN hooks = 1..Len(hooks) /\ Len(hooks) \in Nat
  BY BaseIs, LenProperties
<1>7. ASSUME NEW p \in DOMAIN hooks' PROVE Registered(p)
  <2>1. CASE hooks' = hooks
    BY <2>1 DEF Registered
  <2>2. CASE hooks' = hooks \o list
    <3>1. Len(list) \in Nat /\ DOMAIN list = 1..Len(list)
      BY LenProperties
    <3>2. /\ DOMAIN hooks' = 1..(Len(hooks) + Len(list))
          /\ \A k \in 1..(Len(hooks) + Len(list)) :
               hooks'[k] = IF k <= Len(hooks) THEN hooks[k] ELSE list[k - Len(hooks)]
      BY <2>2, <3>1, BaseIs, ConcatProperties, LenProperties
    <3>3. CASE p <= Len(hooks)
      BY <1>6, <3>2, <3>3 DEF Registered
    <3>4. CASE p > Len(hooks)
      <4>1. p - Len(hooks) \in DOMAIN list
        BY <1>6, <3>1, <3>2, <3>4
      <4> QED
        BY <1>6, <2>2, <3>2, <3>4, <4>1 DEF Registered
    <3> QED
      BY <1>6, <3>2, <3>3, <3>4
  <2> QED
    BY <1>3, <2>1, <2>2
<1> QED
  BY <1>5, <1>7

LEMMA FiringFrames ==
  ASSUME Base, Owe \/ Reach
  PROVE  /\ \A i \in DOMAIN stack' : Carried(i) \/ Newly(i)
         /\ \A p \in DOMAIN hooks' : Registered(p)
<1>1. Inside("firing") /\ scope' = scope
  BY DEF Owe, Reach
<1>2. stack # <<>> /\ Top.kind = "firing" /\ Top.todo = <<>> /\ Top.event \in Ids
  BY <1>1, FiringIs
<1>3. CASE Owe
  <2>1. PICK f \in Frame :
          /\ Alike(f, Top) /\ f.owing = FALSE /\ f.left = Top.left /\ f.todo = Top.todo
          /\ Append(Under, f) \in Stack /\ OnCommit(Append(Under, f), Scheduled(Top.event))
    BY <1>3, OweMakes DEF Base
  <2>2. PICK list \in Seq(Hook) : list = Scheduled(Top.event) /\ \A p \in DOMAIN list : list[p].event = Top.event
    BY <1>2, ScheduledIs
  <2> QED
    BY <1>1, <1>2, <2>1, <2>2, OnCommitFrames
<1>4. CASE Reach
  <2>1. PICK f \in Frame, r \in Receivers :
          /\ r \in Top.left /\ Alike(f, Top) /\ f.owing = Top.owing /\ f.left = Top.left \ {r}
          /\ f.todo = Top.todo /\ Append(Under, f) \in Stack /\ Top.event \in Ids
          /\ \/ /\ ModeOf[r] = "INLINE" /\ cause' = Top.event /\ hooks' = hooks
                /\ \E g \in Frame :
                     /\ New(g, "inline") /\ g.event = Top.event /\ g.left = {} /\ g.todo = <<>>
                     /\ stack' = Append(Append(Under, f), g)
             \/ /\ ModeOf[r] # "INLINE" /\ cause' = cause
                /\ OnCommit(Append(Under, f), <<[event |-> Top.event, run |-> r]>>)
    BY <1>4, ReachMakes DEF Base
  <2>2. f.left \subseteq Top.left
    BY <2>1
  <2>3. CASE ModeOf[r] # "INLINE"
    <3>1. r \in Callbacks
      BY <1>2, <2>1, <2>3, ReachedIs DEF Base
    <3>2. PICK h \in Hook : h = [event |-> Top.event, run |-> r]
      BY <1>2, <3>1 DEF Hook
    <3>3. PICK list \in Seq(Hook) : list = <<h>>
      <4>1. <<h>> \in Seq(Hook)
        OBVIOUS
      <4> QED
        BY <4>1
    <3>4. \A p \in DOMAIN list : list[p].event = Top.event
      BY <3>2, <3>3
    <3>5. OnCommit(Append(Under, f), list)
      BY <2>1, <2>3, <3>2, <3>3
    <3> QED
      BY <1>1, <1>2, <2>1, <2>2, <3>4, <3>5, OnCommitFrames
  <2>4. CASE ModeOf[r] = "INLINE"
    <3>1. PICK g \in Frame : New(g, "inline") /\ g.todo = <<>> /\ stack' = Append(Append(Under, f), g)
      BY <2>1, <2>4
    <3>2. PICK n \in Nat : n + 1 = Len(stack)
      BY <1>2, DepthIs
    <3>3. Onward(f)
      BY <2>1 DEF Onward
    <3>4. DOMAIN stack' = 1..(n + 2) /\ stack'[n + 2] = g /\ \A j \in 1..(n + 1) : Carried(j)
      BY <1>2, <3>1, <3>2, <3>3, SwapPushCarries
    <3>5. Newly(n + 2)
      <4>1. g.kind = "inline" /\ g.token = Context
        BY <3>1 DEF New
      <4>2. n + 2 - 1 = n + 1 /\ DOMAIN <<>> = {}
        OBVIOUS
      <4> QED
        BY <3>1, <3>4, <4>1, <4>2 DEF Newly
    <3>6. \A i \in 1..(n + 2) : i \in 1..(n + 1) \/ i = n + 2
      OBVIOUS
    <3>7. hooks' = hooks
      BY <2>1, <2>4
    <3> QED
      BY <3>4, <3>5, <3>6, <3>7 DEF Registered
  <2> QED
    BY <2>3, <2>4
<1> QED
  BY <1>3, <1>4

LEMMA RunHookFrames ==
  ASSUME Base, RunHook
  PROVE  \A i \in DOMAIN stack' : Carried(i) \/ Newly(i)
<1>1. PICK f \in Frame, h \in Hook :
        /\ Top.kind = "hooks" /\ stack # <<>> /\ Top.todo # <<>> /\ Top.todo \in Seq(Hook)
        /\ h = Head(Top.todo) /\ Alike(f, Top) /\ f.left = Top.left
        /\ f.todo = Tail(Top.todo)
        /\ \/ h.run \notin Receivers /\ cause' = cause /\ stack' = Append(Under, f)
           \/ /\ h.run \in Receivers /\ cause' = h.event
              /\ \E g \in Frame :
                   /\ New(g, "callback") /\ g.event = h.event /\ g.left = {} /\ g.todo = <<>>
                   /\ stack' = Append(Append(Under, f), g)
  BY RunHookMakes DEF Base
<1>2. PICK list \in Seq(Hook) : list = Top.todo /\ list # <<>>
  BY <1>1
<1>3. \A p \in DOMAIN Tail(list) : p + 1 \in DOMAIN list /\ Tail(list)[p] = list[p + 1]
  <2>1. Len(list) \in Nat /\ Len(list) > 0 /\ DOMAIN list = 1..Len(list)
    BY <1>2, EmptySeq, LenProperties
  <2>2. Tail(list) \in Seq(Hook) /\ Len(Tail(list)) = Len(list) - 1
        /\ \A p \in 1..(Len(list) - 1) : Tail(list)[p] = list[p + 1]
    BY <1>2, <2>1, HeadTailProperties
  <2>3. DOMAIN Tail(list) = 1..(Len(list) - 1)
    BY <2>2, LenProperties
  <2> QED
    BY <2>1, <2>2, <2>3
<1>4. Onward(f)
  BY <1>1, <1>2, <1>3 DEF Onward
<1>5. PICK n \in Nat : n + 1 = Len(stack)
  BY <1>1, DepthIs
<1>6. CASE stack' = Append(Under, f)
  <2>1. DOMAIN stack' = 1..(n + 1) /\ \A j \in 1..(n + 1) : Carried(j)
    BY <1>1, <1>4, <1>5, <1>6, SwapCarries
  <2> QED
    BY <2>1
<1>7. ASSUME NEW g \in Frame, New(g, "callback"), g.todo = <<>>, stack' = Append(Append(Under, f), g)
      PROVE  \A i \in DOMAIN stack' : Carried(i) \/ Newly(i)
  <2>0. stack # <<>>
    BY <1>1
  <2>1. DOMAIN stack' = 1..(n + 2) /\ stack'[n + 2] = g /\ \A j \in 1..(n + 1) : Carried(j)
    <3>1. stack' = Append(Append(Under, f), g) /\ n + 1 = Len(stack)
      BY <1>5, <1>7
    <3> QED
      BY <1>4, <2>0, <3>1, SwapPushCarries
  <2>2. Newly(n + 2)
    <3>1. g.kind = "callback" /\ g.token = Context
      BY <1>7 DEF New
    <3>2. n + 2 - 1 = n + 1 /\ DOMAIN <<>> = {}
      OBVIOUS
    <3> QED
      BY <1>7, <2>1, <3>1, <3>2 DEF Newly
  <2>3. \A i \in 1..(n + 2) : i \in 1..(n + 1) \/ i = n + 2
    OBVIOUS
  <2> QED
    BY <2>1, <2>2, <2>3
<1> QED
  BY <1>1, <1>6, <1>7

LEMMA EnterFrames ==
  ASSUME Base, NEW kind \in {"atomic", "suppressed", "attributed"}, NEW f \in Frame, New(f, kind),
         f.todo = <<>>, stack' = Append(stack, f), hooks' = hooks
  PROVE  \A i \in DOMAIN stack' : Carried(i) \/ Newly(i)
<1>1. PICK n \in Nat : n = Len(stack)
  BY StackIs
<1>2. DOMAIN stack' = 1..(n + 1) /\ stack'[n + 1] = f /\ \A i \in 1..n : Carried(i)
  BY <1>1, PushCarries
<1>3. Newly(n + 1)
  <2>1. f.kind = kind /\ f.token = Context /\ f.mark = Len(hooks)
    BY DEF New
  <2>2. n + 1 - 1 = n /\ DOMAIN <<>> = {}
    OBVIOUS
  <2> QED
    BY <1>2, <2>1, <2>2 DEF Newly
<1>4. \A i \in 1..(n + 1) : i \in 1..n \/ i = n + 1
  OBVIOUS
<1> QED
  BY <1>2, <1>3, <1>4

LEMMA RecordFrames ==
  ASSUME Base, NEW class \in Classes, Record(class)
  PROVE  \A i \in DOMAIN stack' : Carried(i) \/ Newly(i)
<1>1. PICK n \in Nat : n = Len(stack)
  BY StackIs
<1>2. CASE Matches(class) # {}
  <2>1. stack' = stack
    BY <1>2 DEF Record
  <2> QED
    BY <2>1 DEF Carried, Alike
<1>3. CASE Matches(class) = {}
  <2>1. PICK f \in Frame :
          /\ New(f, "firing") /\ f.event = fired + 1 /\ f.todo = <<>> /\ stack' = Append(stack, f)
    BY <1>3, RecordMakes DEF Base
  <2>2. DOMAIN stack' = 1..(n + 1) /\ stack'[n + 1] = f /\ \A i \in 1..n : Carried(i)
    BY <1>1, <2>1, PushCarries
  <2>3. Newly(n + 1)
    <3>1. f.kind = "firing" /\ f.token = Context
      BY <2>1 DEF New
    <3>2. n + 1 - 1 = n /\ DOMAIN <<>> = {}
      OBVIOUS
    <3> QED
      BY <2>1, <2>2, <3>1, <3>2 DEF Newly
  <2>4. \A i \in 1..(n + 1) : i \in 1..n \/ i = n + 1
    OBVIOUS
  <2> QED
    BY <2>2, <2>3, <2>4
<1> QED
  BY <1>2, <1>3

LEMMA PopFrames ==
  ASSUME Base, stack # <<>>, stack' = Under
  PROVE  \A i \in DOMAIN stack' : Carried(i) /\ i < Len(stack) /\ i \in Nat
<1>1. PICK n \in Nat : n + 1 = Len(stack)
  BY DepthIs
<1>2. DOMAIN stack' = 1..n /\ \A i \in 1..n : Carried(i)
  BY <1>1, PopCarries
<1>3. \A i \in 1..n : i < n + 1 /\ i \in Nat
  OBVIOUS
<1> QED
  BY <1>1, <1>2, <1>3

LEMMA CommitFrames ==
  ASSUME Base, LeaveAtomic, ~InAtomic(Under)
  PROVE  \A i \in DOMAIN stack' : Carried(i) \/ Newly(i)
<1>1. stack # <<>> /\ Top.kind = "atomic" /\ scope' = scope
  BY DEF LeaveAtomic, Inside
<1>2. PICK n \in Nat : n + 1 = Len(stack)
  BY <1>1, DepthIs
<1>3. CASE stack' = Under
  BY <1>1, <1>3, PopFrames
<1>4. ASSUME NEW f \in Frame, New(f, "hooks"), f.todo = hooks, stack' = Append(Under, f)
      PROVE  \A i \in DOMAIN stack' : Carried(i) \/ Newly(i)
  <2>1. DOMAIN stack' = 1..(n + 1) /\ stack'[n + 1] = f /\ \A i \in 1..n : Carried(i)
    BY <1>1, <1>2, <1>4, PopPushCarries
  <2>2. Newly(n + 1)
    <3>1. f.kind = "hooks" /\ f.token = Context
      BY <1>4 DEF New
    <3>2. n + 1 - 1 = n
      OBVIOUS
    <3> QED
      BY <1>1, <1>4, <2>1, <3>1, <3>2 DEF Newly
  <2>3. \A i \in 1..(n + 1) : i \in 1..n \/ i = n + 1
    OBVIOUS
  <2> QED
    BY <2>1, <2>2, <2>3
<1> QED
  BY <1>3, <1>4, CommitMakes DEF Base

\* A step leaves the top frame alone.
Popping ==
  LeaveSuppressed \/ LeaveAttributed \/ LeaveReceiver \/ HooksRun \/ FireReturns \/ Unwind \/ Survive
    \/ RollBack \/ (LeaveAtomic /\ InAtomic(Under))

LEMMA PoppingIs ==
  ASSUME Base, Popping
  PROVE  /\ stack # <<>> /\ stack' = Under
         /\ cause' = Top.token.cause /\ scope' = Top.token.scope
         /\ \A p \in DOMAIN hooks' : Registered(p)
<1>1. stack # <<>> /\ stack' = Under
  BY DEF Popping, LeaveSuppressed, LeaveAttributed, LeaveReceiver, HooksRun, FireReturns, Unwind,
     Survive, RollBack, LeaveAtomic, Inside, RestKept
<1>2. /\ ~Receives(Top) => cause = Top.token.cause
      /\ Top.kind # "attributed" => scope = Top.token.scope
  <2>1. Len(stack) \in DOMAIN stack /\ Top = stack[Len(stack)]
    BY <1>1, BaseIs, TopIs
  <2>2. Kept(stack, Context) /\ Context.cause = cause /\ Context.scope = scope
    BY BaseIs
  <2> QED
    BY <2>1, <2>2 DEF Kept, Above
<1>3. /\ cause' = IF Receives(Top) THEN Top.token.cause ELSE cause
      /\ scope' = IF Top.kind = "attributed" THEN Top.token.scope ELSE scope
  <2>1. CASE Unwind
    BY <2>1 DEF Unwind, Inside, CauseRestored, ScopeRestored, Receives
  <2>2. CASE LeaveReceiver \/ Survive
    BY <2>2 DEF LeaveReceiver, Survive, Inside, CauseRestored, Receives
  <2>3. CASE LeaveSuppressed \/ HooksRun \/ FireReturns \/ RollBack \/ LeaveAtomic
    BY <2>3 DEF LeaveSuppressed, HooksRun, FireReturns, RollBack, LeaveAtomic, Inside, Receives
  <2>4. CASE LeaveAttributed
    BY <2>4 DEF LeaveAttributed, Inside, ScopeRestored, Receives
  <2> QED
    BY <2>1, <2>2, <2>3, <2>4 DEF Popping
<1>4. ASSUME NEW p \in DOMAIN hooks' PROVE Registered(p)
  <2>1. CASE RollBack
    <3>1. PICK m \in Nat : m = Top.mark /\ m <= Len(hooks)
      <4>1. Len(stack) \in DOMAIN stack /\ Top = stack[Len(stack)] /\ Top \in Frame
        BY <1>1, BaseIs, TopIs
      <4>2. Top.mark \in Nat /\ Top.mark <= Len(hooks)
        BY <2>1, <4>1, BaseIs, FrameIs DEF Dated, RollBack, Inside
      <4> QED
        BY <4>2
    <3>2. \A k \in 1..m : hooks[k] \in Hook /\ k \in DOMAIN hooks
      BY <3>1, BaseIs, LenProperties, ElementOfSeq
    <3>3. /\ SubSeq(hooks, 1, m) \in Seq(Hook) /\ Len(SubSeq(hooks, 1, m)) = IF 1 <= m THEN m - 1 + 1 ELSE 0
          /\ \A k \in 1..(m - 1 + 1) : SubSeq(hooks, 1, m)[k] = hooks[1 + k - 1]
      BY <3>2, SubSeqProperties
    <3>4. Len(SubSeq(hooks, 1, m)) = m /\ \A k \in 1..m : SubSeq(hooks, 1, m)[k] = hooks[k]
      BY <3>3
    <3>5. DOMAIN SubSeq(hooks, 1, m) = 1..m
      BY <3>3, <3>4, LenProperties
    <3>6. hooks' = SubSeq(hooks, 1, m)
      BY <2>1, <3>1 DEF RollBack
    <3> QED
      BY <3>2, <3>4, <3>5, <3>6 DEF Registered
  <2>2. CASE hooks' = hooks
    BY <2>2 DEF Registered
  <2> QED
    BY <2>1, <2>2 DEF Popping, LeaveSuppressed, LeaveAttributed, LeaveReceiver, HooksRun, FireReturns,
       Unwind, Survive, LeaveAtomic
<1> QED
  BY <1>1, <1>2, <1>3, <1>4

-----------------------------------------------------------------------------
(* Chains.                                                                 *)

LEMMA InnerTwice ==
  ASSUME NEW x, NEW y, NEW z, Inner(x, y), Inner(y, z)
  PROVE  Inner(x, z)
BY NamedAre DEF Inner

\* A chain that is followed stays followed.
LEMMA FollowsOn ==
  ASSUME Steady, NEW c, NEW y, Follows(c, y), c # 0 => c \in Ids /\ c <= fired
  PROVE  Follows(c, y)'
BY DEF Follows, Steady

\* What a fire has registered was fired no further out than where it is registered.
LEMMA TopChain ==
  ASSUME Base, ChainsKept, stack # <<>>, Top.kind = "firing"
  PROVE  /\ scope = Top.token.scope
         /\ scope.chain = 0 \/ event[Top.event].chain = scope.chain
         /\ \A i \in DOMAIN stack : Inner(stack[i].token.scope.chain, event[Top.event].chain)
<1>1. Len(stack) \in DOMAIN stack /\ Top = stack[Len(stack)]
  BY BaseIs, TopIs
<1>2. scope = Top.token.scope
  BY <1>1, BaseIs DEF Kept, Above
<1>3. ChainKept(stack, Len(stack)) /\ \A i \in DOMAIN stack : Inner(stack[i].token.scope.chain, scope.chain)
  BY <1>1 DEF ChainsKept
<1>4. scope.chain = 0 \/ event[Top.event].chain = scope.chain
  BY <1>1, <1>2, <1>3 DEF ChainKept
<1>5. ASSUME NEW i \in DOMAIN stack PROVE Inner(stack[i].token.scope.chain, event[Top.event].chain)
  BY <1>3, <1>4, NamedAre DEF Inner
<1> QED
  BY <1>2, <1>4, <1>5

LEMMA CarriedChains ==
  ASSUME Base, EventsKept, ChainsKept, Steady, NEW i \in DOMAIN stack, Carried(i),
         \A p \in DOMAIN hooks' : Registered(p)
  PROVE  ChainKept(stack, i)'
<1>1. ChainKept(stack, i)
  BY DEF ChainsKept
<1>2. /\ i \in Nat /\ i > 0 /\ i <= Len(stack) /\ Len(stack) \in Nat /\ DOMAIN stack = 1..Len(stack)
      /\ stack[i] \in Frame
  BY StackIs
<1>3. \A j \in 1..i : stack'[j].token = stack[j].token /\ j \in DOMAIN stack
  BY <1>2 DEF Carried, Alike
<1>4. /\ stack'[i].kind = stack[i].kind /\ stack'[i].event = stack[i].event
      /\ stack'[i].mark = stack[i].mark /\ stack'[i].token = stack[i].token
  BY CarriedIs
<1>5. PICK c, y : c = stack[i].token.cause /\ y = stack[i].token.scope.chain
  OBVIOUS
<1>6. Follows(c, y)'
  <2>1. i - 1 \in 0..Len(stack) /\ TellsCause(stack, i - 1, c)
    BY <1>2, <1>5, BaseIs DEF Kept, Tells
  <2>2. c # 0 => c \in Ids /\ c <= fired
    BY <2>1, CauseStands
  <2> QED
    BY <1>1, <1>5, <2>2, FollowsOn DEF ChainKept
<1>7. \A j \in 1..(i - 1) : Inner(stack'[j].token.scope.chain, y)
  <2>1. \A j \in 1..(i - 1) : j \in 1..i
    BY <1>2
  <2> QED
    BY <1>1, <1>3, <1>5, <2>1 DEF ChainKept
<1>8. stack[i].kind = "firing" /\ y # 0 => event'[stack[i].event].chain = y
  <2> SUFFICES ASSUME stack[i].kind = "firing", y # 0 PROVE event'[stack[i].event].chain = y
    OBVIOUS
  <2>1. stack[i].event = stack[i].from + 1 /\ stack[i].event <= fired
    BY BaseIs DEF Dated
  <2>2. stack[i].event \in Ids
    BY <1>2, <2>1, FrameIs DEF Frame
  <2> QED
    BY <1>1, <1>5, <2>1, <2>2 DEF ChainKept, Steady
<1>9. ASSUME NEW p \in DOMAIN stack'[i].todo PROVE Follows(stack[i].todo[p].event, y)'
  <2>1. PICK q \in DOMAIN stack[i].todo : stack'[i].todo[p] = stack[i].todo[q]
    BY DEF Carried
  <2>2. PICK h \in Hook : h = stack[i].todo[q]
    BY <1>2, LenProperties, ElementOfSeq DEF Frame
  <2>3. event[h.event].status = "committed" /\ h.event \in Ids
    BY <2>2 DEF EventsKept, FrameKept, Hook
  <2>4. h.event <= fired
    BY <2>3, EventIs
  <2>5. Follows(h.event, y)
    BY <1>1, <1>5, <2>2 DEF ChainKept
  <2>6. Follows(h.event, y)'
    BY <2>3, <2>4, <2>5, FollowsOn
  <2> QED
    BY <2>1, <2>2, <2>6 DEF Follows
<1>10. ASSUME stack[i].kind = "atomic", NEW p \in DOMAIN hooks', p > stack[i].mark
       PROVE  Inner(y, event'[hooks'[p].event].chain)
  <2>1. CASE p \in DOMAIN hooks /\ hooks'[p] = hooks[p]
    <3>1. hooks[p] \in Hook
      BY <2>1, BaseIs, LenProperties, ElementOfSeq
    <3>2. hooks[p].event \in Ids /\ event[hooks[p].event].status = "written"
      BY <2>1, <3>1 DEF Hook, EventsKept
    <3>3. hooks[p].event <= fired
      BY <3>2, EventIs
    <3>4. Inner(y, event[hooks[p].event].chain)
      BY <1>1, <1>5, <1>10, <2>1 DEF ChainKept
    <3> QED
      BY <2>1, <3>2, <3>3, <3>4 DEF Steady
  <2>2. CASE stack # <<>> /\ Top.kind = "firing" /\ hooks'[p].event = Top.event
    <3>1. Top.event \in Ids /\ Top.event <= fired
      BY <2>2, FiringIs DEF Inside
    <3>2. Inner(y, event[Top.event].chain)
      BY <1>5, <2>2, TopChain
    <3> QED
      BY <2>2, <3>1, <3>2 DEF Steady
  <2> QED
    BY <2>1, <2>2 DEF Registered
<1> QED
  BY <1>4, <1>5, <1>6, <1>7, <1>8, <1>9, <1>10 DEF ChainKept, Follows

\* A frame entered now is in what the ContextVars hold.
LEMMA NewChains ==
  ASSUME Base, Base', EventsKept, ChainsKept, Steady, NEW i \in DOMAIN stack', Newly(i)
  PROVE  ChainKept(stack, i)'
<1>1. stack'[i].token = Context /\ Context.cause = cause /\ Context.scope = scope
  BY BaseIs DEF Newly
<1>2. cause # 0 => cause \in Ids /\ cause <= fired
  BY CauseIs
<1>3. PICK c, y : c = cause /\ y = scope.chain
  OBVIOUS
<1>4. Follows(c, y) /\ Follows(c, y)'
  <2>1. Follows(c, y)
    BY <1>3 DEF ChainsKept
  <2> QED
    BY <1>2, <1>3, <2>1, FollowsOn
<1>5. ASSUME NEW j \in 1..(i - 1) PROVE Inner(stack'[j].token.scope.chain, y)
  <2>1. Carried(j)
    BY DEF Newly
  <2>2. j \in DOMAIN stack
    BY <2>1 DEF Carried
  <2>3. stack'[j].token = stack[j].token
    BY <2>1, <2>2, CarriedIs
  <2> QED
    BY <1>3, <2>2, <2>3 DEF ChainsKept
<1>6. stack'[i].kind = "firing" /\ y # 0 => event'[stack'[i].event].chain = y
  <2> SUFFICES ASSUME stack'[i].kind = "firing", y # 0 PROVE event'[stack'[i].event].chain = y
    OBVIOUS
  <2>1. PICK class \in Classes : Record(class) /\ stack'[i].event = fired + 1
    BY DEF Newly
  <2>2. event'[fired + 1] =
             [status |-> IF InAtomic(stack) THEN "written" ELSE "committed",
              class |-> class, cause |-> cause, suppressed |-> Matches(class) # {},
              chain |-> IF scope.chain # 0 THEN scope.chain ELSE Inherited,
              inside |-> InAtomic(stack)]
    BY <2>1, WrittenIs DEF Base
  <2>3. event'[fired + 1].chain = IF scope.chain # 0 THEN scope.chain ELSE Inherited
    BY <2>2
  <2> QED
    BY <1>3, <2>1, <2>3
<1>7. ASSUME NEW p \in DOMAIN stack'[i].todo PROVE Follows(stack[i].todo[p].event, y)'
  <2>1. stack # <<>>
    BY DEF Newly
  <2>2. CASE Top.kind = "firing" /\ stack'[i].todo[p].event = Top.event
    <3>1. Top.event \in Ids /\ Top.event <= fired
      BY <2>1, <2>2, FiringIs DEF Inside
    <3>2. Follows(Top.event, y)
      BY <1>3, <2>1, <2>2, TopChain DEF Follows
    <3>3. PICK e : e = Top.event
      OBVIOUS
    <3>4. Follows(e, y)'
      BY <3>1, <3>2, <3>3, FollowsOn
    <3> QED
      BY <2>2, <3>3, <3>4 DEF Follows
  <2>3. CASE Top.kind = "atomic" /\ ~InAtomic(Under) /\ p \in DOMAIN hooks /\ stack'[i].todo[p] = hooks[p]
    <3>1. PICK h \in Hook : h = hooks[p]
      BY <2>3, BaseIs, LenProperties, ElementOfSeq
    <3>2. h.event \in Ids /\ event[h.event].status = "written"
      BY <2>3, <3>1 DEF Hook, EventsKept
    <3>3. h.event <= fired
      BY <3>2, EventIs
    <3>4. Len(stack) \in DOMAIN stack /\ Top = stack[Len(stack)]
      BY <2>1, BaseIs, TopIs
    <3>5. Top.mark = 0
      <4>1. ~AtomicBelow(stack, Len(stack))
        BY <2>1, <2>3, InAtomicIs DEF Base
      <4> QED
        BY <2>3, <3>4, <4>1, BaseIs DEF Dated
    <3>6. p > 0
      BY <2>3, BaseIs, LenProperties
    <3>7. scope = Top.token.scope
      BY <2>1, <2>3, <3>4, BaseIs DEF Kept, Above
    <3>8. Inner(y, event[h.event].chain)
      BY <1>3, <2>3, <3>1, <3>4, <3>5, <3>6, <3>7 DEF ChainsKept, ChainKept
    <3>9. Follows(h.event, y)
      BY <3>8 DEF Inner, Follows
    <3>10. Follows(h.event, y)'
      BY <3>2, <3>3, <3>9, FollowsOn
    <3> QED
      BY <2>3, <3>1, <3>10 DEF Follows
  <2> QED
    BY <2>2, <2>3 DEF Newly
<1>8. stack'[i].kind = "atomic" => \A p \in DOMAIN hooks' : ~(p > stack'[i].mark)
  <2> SUFFICES ASSUME stack'[i].kind = "atomic", NEW p \in DOMAIN hooks' PROVE ~(p > stack'[i].mark)
    OBVIOUS
  <2>1. stack'[i].mark = Len(hooks) /\ hooks' = hooks
    BY DEF Newly
  <2>2. DOMAIN hooks = 1..Len(hooks) /\ Len(hooks) \in Nat
    BY BaseIs, LenProperties
  <2> QED
    BY <2>1, <2>2
<1> QED
  BY <1>1, <1>3, <1>4, <1>5, <1>6, <1>7, <1>8 DEF ChainKept, Follows

LEMMA StepFrames ==
  ASSUME Base, [Next]_vars
  PROVE  /\ \A i \in DOMAIN stack' : Carried(i) \/ Newly(i)
         /\ \A p \in DOMAIN hooks' : Registered(p)
<1>1. hooks' = hooks => \A p \in DOMAIN hooks' : Registered(p)
  BY DEF Registered
<1>2. stack' = stack => \A i \in DOMAIN stack' : Carried(i)
  BY DEF Carried, Alike
<1>3. CASE UNCHANGED vars
  BY <1>1, <1>2, <1>3 DEF vars
<1>4. CASE EnterAtomic
  <2>1. PICK f \in Frame : New(f, "atomic") /\ f.todo = <<>> /\ stack' = Append(stack, f)
    BY <1>4, EnterAtomicMakes DEF Base
  <2>2. hooks' = hooks /\ "atomic" \in {"atomic", "suppressed", "attributed"}
    BY <1>4 DEF EnterAtomic
  <2> QED
    BY <1>1, <2>1, <2>2, EnterFrames
<1>5. CASE EnterSuppressed
  <2>1. PICK f \in Frame : New(f, "suppressed") /\ f.todo = <<>> /\ stack' = Append(stack, f)
    BY <1>5, EnterSuppressedMakes DEF Base
  <2>2. hooks' = hooks /\ "suppressed" \in {"atomic", "suppressed", "attributed"}
    BY <1>5 DEF EnterSuppressed
  <2> QED
    BY <1>1, <2>1, <2>2, EnterFrames
<1>6. CASE EnterAttributed
  <2>1. PICK f \in Frame : New(f, "attributed") /\ f.todo = <<>> /\ stack' = Append(stack, f)
    BY <1>6, EnterAttributedMakes DEF Base
  <2>2. hooks' = hooks /\ "attributed" \in {"atomic", "suppressed", "attributed"}
    BY <1>6 DEF EnterAttributed
  <2> QED
    BY <1>1, <2>1, <2>2, EnterFrames
<1>7. CASE Popping
  <2>1. stack # <<>> /\ stack' = Under /\ \A p \in DOMAIN hooks' : Registered(p)
    BY <1>7, PoppingIs
  <2> QED
    BY <2>1, PopFrames
<1>8. CASE LeaveAtomic /\ ~InAtomic(Under)
  <2>1. hooks' = <<>>
    BY <1>8, CommittedIs DEF Base
  <2>2. DOMAIN hooks' = {}
    BY <2>1
  <2> QED
    BY <1>8, <2>2, CommitFrames
<1>9. CASE \E class \in Classes : Record(class)
  <2>1. hooks' = hooks
    BY <1>9 DEF Record
  <2> QED
    BY <1>1, <1>9, <2>1, RecordFrames
<1>10. CASE Owe \/ Reach
  BY <1>10, FiringFrames
<1>11. CASE RunHook
  <2>1. hooks' = hooks
    BY <1>11 DEF RunHook
  <2> QED
    BY <1>1, <1>11, <2>1, RunHookFrames
<1>12. CASE Raise \/ FanOutFails \/ Fail
  BY <1>1, <1>2, <1>12 DEF Raise, FanOutFails, RaisesIntoTheCaller, Fail
<1>13. CASE Crash
  <2>1. stack' = <<>> /\ hooks' = <<>>
    BY <1>13 DEF Crash
  <2>2. DOMAIN stack' = {} /\ DOMAIN hooks' = {}
    BY <2>1
  <2> QED
    BY <2>2
<1> QED
  BY <1>3, <1>4, <1>5, <1>6, <1>7, <1>8, <1>9, <1>10, <1>11, <1>12, <1>13 DEF Next, Popping

\* Every chain there is a block of is one that holds further in.
HeldIn(chain) == \A i \in DOMAIN stack' : Inner(stack'[i].token.scope.chain, chain)

\* Where the scope stays.
LEMMA HeldStays ==
  ASSUME Base, ChainsKept, scope' = scope, \A i \in DOMAIN stack' : Carried(i) \/ Newly(i)
  PROVE  HeldIn(scope'.chain)
<1> SUFFICES ASSUME NEW i \in DOMAIN stack' PROVE Inner(stack'[i].token.scope.chain, scope.chain)
  BY DEF HeldIn
<1>1. CASE Carried(i)
  <2>1. i \in DOMAIN stack /\ stack'[i].token = stack[i].token
    BY <1>1, CarriedIs DEF Carried
  <2> QED
    BY <2>1 DEF ChainsKept
<1>2. CASE Newly(i)
  BY <1>2, BaseIs DEF Newly, Inner
<1> QED
  BY <1>1, <1>2

LEMMA SameHeld ==
  ASSUME Base, EventsKept, ChainsKept, Steady, scope' = scope, cause' = cause,
         \A i \in DOMAIN stack' : Carried(i) \/ Newly(i)
  PROVE  Follows(cause, scope.chain)' /\ HeldIn(scope'.chain)
<1>1. PICK c, y : c = cause /\ y = scope.chain
  OBVIOUS
<1>2. Follows(c, y)
  BY <1>1 DEF ChainsKept
<1>3. c # 0 => c \in Ids /\ c <= fired
  BY <1>1, CauseIs
<1>4. Follows(c, y)'
  BY <1>2, <1>3, FollowsOn
<1>5. c = cause' /\ y = scope'.chain
  BY <1>1
<1>6. Follows(cause, scope.chain)'
  BY <1>4, <1>5 DEF Follows
<1> QED
  BY <1>6, HeldStays

\* A receiver runs under the event it is of.
LEMMA ReceiverHeld ==
  ASSUME Base, EventsKept, ChainsKept, Reach \/ RunHook, \A i \in DOMAIN stack' : Carried(i) \/ Newly(i)
  PROVE  Follows(cause, scope.chain)' /\ HeldIn(scope'.chain)
<1>1. event' = event /\ scope' = scope
  BY DEF Reach, RunHook
<1>2. Steady
  BY <1>1, SameSteady
<1>3. CASE cause' = cause
  BY <1>1, <1>2, <1>3, SameHeld
<1>4. CASE Reach /\ cause' = Top.event
  <2>1. stack # <<>> /\ Top.kind = "firing"
    BY <1>4 DEF Reach, Inside
  <2>2. scope.chain = 0 \/ event[Top.event].chain = scope.chain
    BY <2>1, TopChain
  <2>3. scope'.chain = 0 \/ event'[cause'].chain = scope'.chain
    BY <1>1, <1>4, <2>2
  <2>4. Follows(cause, scope.chain)'
    BY <2>3 DEF Follows
  <2> QED
    BY <1>1, <2>4, HeldStays
<1>5. CASE RunHook /\ cause' # cause
  <2>1. PICK h \in Hook :
          /\ Top.kind = "hooks" /\ stack # <<>> /\ Top.todo # <<>> /\ Top.todo \in Seq(Hook)
          /\ h = Head(Top.todo) /\ (cause' = cause \/ cause' = h.event)
    BY <1>5, RunHookMakes DEF Base
  <2>2. PICK list \in Seq(Hook) : list = Top.todo /\ list # <<>>
    BY <2>1
  <2>3. 1 \in DOMAIN list /\ h = list[1]
    BY <2>1, <2>2, EmptySeq, LenProperties, HeadTailProperties
  <2>4. Len(stack) \in DOMAIN stack /\ Top = stack[Len(stack)]
    BY <2>1, BaseIs, TopIs
  <2>5. Follows(h.event, Top.token.scope.chain)
    BY <2>2, <2>3, <2>4 DEF ChainsKept, ChainKept
  <2>6. scope = Top.token.scope
    BY <2>1, <2>4, BaseIs DEF Kept, Above
  <2>7. event' = event /\ cause' = h.event /\ scope'.chain = Top.token.scope.chain
    BY <1>1, <1>5, <2>1, <2>6
  <2>8. Follows(cause, scope.chain)'
    BY <2>5, <2>7 DEF Follows
  <2> QED
    BY <1>1, <2>8, HeldStays
<1>6. Reach => cause' = cause \/ cause' = Top.event
  BY DEF Reach
<1> QED
  BY <1>3, <1>4, <1>5, <1>6

\* A block that is entered in a receiver keeps to its chain, or names one.
LEMMA AttributedHeld ==
  ASSUME Base, EventsKept, ChainsKept, EnterAttributed, \A i \in DOMAIN stack' : Carried(i) \/ Newly(i)
  PROVE  Follows(cause, scope.chain)' /\ HeldIn(scope'.chain)
<1>1. event' = event /\ cause' = cause
  BY DEF EnterAttributed
<1>2. PICK f \in Frame : f.given.chain \in Named \cup {0} /\ scope' = Chained(Merged(scope, f.given))
  BY EnterAttributedMakes DEF Base
<1>3. PICK now : now = scope'
  OBVIOUS
<1>4. \/ now.chain \in Named
      \/ scope.chain # 0 /\ now.chain = scope.chain
      \/ scope.chain = 0 /\ (Inherited = 0 \/ now.chain = Inherited)
  <2>1. f.given \in Scope
    BY DEF Frame
  <2>2. now = Chained(Merged(scope, f.given))
    BY <1>2, <1>3
  <2> QED
    BY <1>2, <2>1, <2>2, ChainedIs DEF Base
<1>5. Follows(cause, scope.chain)'
  <2>1. Follows(cause, now.chain)
    BY <1>4 DEF ChainsKept, Follows, Inherited
  <2> QED
    BY <1>1, <1>3, <2>1 DEF Follows
<1>6. HeldIn(now.chain)
  <2> SUFFICES ASSUME NEW i \in DOMAIN stack' PROVE Inner(stack'[i].token.scope.chain, now.chain)
    BY DEF HeldIn
  <2>1. PICK x : x = stack'[i].token.scope.chain
    OBVIOUS
  <2>2. Inner(x, scope.chain) /\ (scope.chain = 0 => x = 0)
    <3>1. CASE Carried(i)
      <4>1. i \in DOMAIN stack /\ stack'[i].token = stack[i].token
        BY <3>1, CarriedIs DEF Carried
      <4> QED
        BY <2>1, <4>1, NoChainYet DEF ChainsKept, Base
    <3>2. CASE Newly(i)
      BY <2>1, <3>2, BaseIs DEF Newly, Inner
    <3> QED
      BY <3>1, <3>2
  <2> QED
    BY <1>4, <2>1, <2>2 DEF Inner
<1> QED
  BY <1>3, <1>5, <1>6

\* A frame that is left puts back what was held below it.
LEMMA PoppingHeld ==
  ASSUME Base, EventsKept, ChainsKept, Steady, Popping
  PROVE  Follows(cause, scope.chain)' /\ HeldIn(scope'.chain)
<1>1. stack # <<>> /\ stack' = Under /\ cause' = Top.token.cause /\ scope' = Top.token.scope
  BY PoppingIs
<1>2. PICK n \in Nat : n + 1 = Len(stack)
  BY <1>1, DepthIs
<1>3. /\ DOMAIN stack' = 1..n /\ DOMAIN stack = 1..(n + 1) /\ Top = stack[n + 1]
      /\ \A i \in 1..n : stack'[i] = stack[i]
  BY <1>1, <1>2, PopCarries
<1>4. ChainKept(stack, n + 1)
  BY <1>3 DEF ChainsKept
<1>5. PICK c, y : c = Top.token.cause /\ y = Top.token.scope.chain
  OBVIOUS
<1>6. Follows(cause, scope.chain)'
  <2>1. Follows(c, y)
    BY <1>3, <1>4, <1>5 DEF ChainKept
  <2>2. n \in 0..Len(stack) /\ TellsCause(stack, n, c)
    <3>1. n + 1 \in DOMAIN stack /\ n + 1 - 1 = n /\ n \in 0..(n + 1)
      BY <1>3
    <3> QED
      BY <1>2, <1>3, <1>5, <3>1, BaseIs DEF Kept, Tells
  <2>3. c # 0 => c \in Ids /\ c <= fired
    BY <2>2, CauseStands
  <2>4. Follows(c, y)'
    BY <2>1, <2>3, FollowsOn
  <2>5. c = cause' /\ y = scope'.chain
    BY <1>1, <1>5
  <2> QED
    BY <2>4, <2>5 DEF Follows
<1>7. HeldIn(scope'.chain)
  <2>1. n + 1 - 1 = n
    OBVIOUS
  <2>2. \A i \in 1..n : Inner(stack[i].token.scope.chain, stack[n + 1].token.scope.chain)
    BY <1>4, <2>1 DEF ChainKept
  <2> QED
    BY <1>1, <1>3, <2>2 DEF HeldIn
<1> QED
  BY <1>6, <1>7

LEMMA StepHeld ==
  ASSUME Base, EventsKept, ChainsKept, Steady, [Next]_vars,
         \A i \in DOMAIN stack' : Carried(i) \/ Newly(i)
  PROVE  Follows(cause, scope.chain)' /\ HeldIn(scope'.chain)
<1>1. CASE cause' = cause /\ scope' = scope
  BY <1>1, SameHeld
<1>2. CASE Reach \/ RunHook
  BY <1>2, ReceiverHeld
<1>3. CASE EnterAttributed
  BY <1>3, AttributedHeld
<1>4. CASE Popping
  BY <1>4, PoppingHeld
<1>5. CASE Crash
  <2>1. stack' = <<>> /\ cause' = 0
    BY <1>5 DEF Crash
  <2>2. Follows(cause, scope.chain)'
    BY <2>1 DEF Follows
  <2>3. DOMAIN stack' = {}
    BY <2>1
  <2> QED
    BY <2>2, <2>3 DEF HeldIn
<1>6. CASE UNCHANGED vars
  BY <1>1, <1>6 DEF vars
<1>7. CASE EnterAtomic \/ EnterSuppressed \/ LeaveAtomic \/ Owe \/ FanOutFails \/ Raise \/ Fail
             \/ \E class \in Classes : Record(class)
  BY <1>1, <1>7 DEF EnterAtomic, EnterSuppressed, LeaveAtomic, Owe, FanOutFails, Raise, Fail, Record
<1> QED
  BY <1>2, <1>3, <1>4, <1>5, <1>6, <1>7 DEF Next, Popping

\* An event that is fired keeps to the chain of its cause.
LEMMA SameChainKept ==
  ASSUME Base, Base', EventsKept, EventsKept', ChainsKept, Steady, [Next]_vars
  PROVE  SameChain'
<1> SUFFICES ASSUME NEW e \in Ids, event'[e].status # "none", event'[e].cause # 0
             PROVE  LET chain == event'[e].chain
                        parent == event'[event'[e].cause].chain
                    IN  parent = 0 \/ chain = parent \/ {chain, parent} \cap Named # {}
  BY DEF SameChain
<1>1. CASE e <= fired
  <2>1. event[e].status # "none" /\ event[e].cause = event'[e].cause /\ event[e].chain = event'[e].chain
    <3>1. EventKept(e) /\ e \in Nat /\ fired \in Nat
      BY EventIs, BaseIs
    <3>2. ~(e > fired)
      BY <1>1, <3>1
    <3> QED
      BY <1>1, <3>1, <3>2 DEF Steady, EventKept
  <2>2. PICK c : c = event[e].cause /\ c # 0
    BY <2>1
  <2>3. c < e /\ event[e] \in Event /\ e \in Nat
    BY <2>2, EventIs DEF EventKept, Decided
  <2>4. c \in Ids
    BY <2>2, <2>3 DEF Event
  <2>5. c <= fired
    <3>1. c \in Nat /\ fired \in Nat
      BY <2>4, BaseIs DEF Ids
    <3> QED
      BY <1>1, <2>3, <3>1
  <2>6. event'[c].chain = event[c].chain
    BY <2>4, <2>5 DEF Steady
  <2>7. event[c].chain = 0 \/ event[e].chain = event[c].chain \/ {event[e].chain, event[c].chain} \cap Named # {}
    BY <2>1, <2>2 DEF ChainsKept, SameChain
  <2> QED
    BY <2>1, <2>2, <2>6, <2>7
<1>2. CASE ~(e <= fired)
  <2>1. e <= fired'
    <3>1. event'[e].status = "none" <=> e > fired'
      BY DEF EventsKept, EventKept
    <3>2. e \in Nat /\ fired' \in Nat
      BY EventIs, BaseIs DEF Base, TypeOK
    <3> QED
      BY <3>1, <3>2
  <2>2. fired' # fired
    BY <1>2, <2>1
  <2>3. PICK class \in Classes : Record(class)
    BY <2>2 DEF Next, vars, EnterAtomic, EnterSuppressed, EnterAttributed, LeaveAtomic, LeaveSuppressed,
       LeaveAttributed, LeaveReceiver, Owe, FanOutFails, Reach, FireReturns, RunHook, HooksRun, Raise,
       RollBack, Unwind, Survive, Fail, Crash
  <2>4. /\ fired' = fired + 1 /\ fired + 1 \in Ids
        /\ event'[fired + 1] =
             [status |-> IF InAtomic(stack) THEN "written" ELSE "committed",
              class |-> class, cause |-> cause, suppressed |-> Matches(class) # {},
              chain |-> IF scope.chain # 0 THEN scope.chain ELSE Inherited,
              inside |-> InAtomic(stack)]
    BY <2>3, WrittenIs DEF Base
  <2>5. e = fired + 1
    <3>1. e \in Nat /\ fired \in Nat
      BY EventIs, BaseIs
    <3> QED
      BY <1>2, <2>1, <2>4, <3>1
  <2>6. event'[e].cause = cause /\ event'[e].chain = IF scope.chain # 0 THEN scope.chain ELSE Inherited
    BY <2>4, <2>5
  <2>7. cause # 0 /\ cause \in Ids /\ cause <= fired
    BY <2>6, CauseIs
  <2>8. event'[cause].chain = event[cause].chain
    BY <2>7 DEF Steady
  <2>9. Follows(cause, scope.chain)
    BY DEF ChainsKept
  <2> QED
    BY <2>6, <2>7, <2>8, <2>9 DEF Follows, Inherited
<1> QED
  BY <1>1, <1>2

LEMMA ChainsInductive ==
  ASSUME Base, Base', EventsKept, EventsKept', ChainsKept, [Next]_vars PROVE ChainsKept'
<1>1. Steady
  BY StepSteady
<1>2. /\ \A i \in DOMAIN stack' : Carried(i) \/ Newly(i)
      /\ \A p \in DOMAIN hooks' : Registered(p)
  BY StepFrames
<1>3. Follows(cause, scope.chain)' /\ HeldIn(scope'.chain)
  BY <1>1, <1>2, StepHeld
<1>4. ASSUME NEW i \in DOMAIN stack' PROVE ChainKept(stack, i)'
  <2>1. CASE Carried(i)
    <3>1. i \in DOMAIN stack
      BY <2>1 DEF Carried
    <3> QED
      BY <1>1, <1>2, <2>1, <3>1, CarriedChains
  <2>2. CASE Newly(i)
    BY <1>1, <2>2, NewChains
  <2> QED
    BY <1>2, <2>1, <2>2
<1>5. SameChain'
  BY <1>1, SameChainKept
<1>6. (\A i \in DOMAIN stack : ChainKept(stack, i) /\ Inner(stack[i].token.scope.chain, scope.chain))'
  BY <1>3, <1>4 DEF HeldIn
<1> QED
  BY <1>3, <1>5, <1>6 DEF ChainsKept

-----------------------------------------------------------------------------
(* Callbacks.                                                              *)

\* Callbacks wait in a transaction for events that are written, and in a frame
\* for events that are committed.
LEMMA WaitingIs ==
  ASSUME Base, EventsKept, NEW h \in Hook
  PROVE  /\ h.event \in Ids /\ h.run \in Callbacks
         /\ \A p \in DOMAIN hooks : hooks[p] = h => event[h.event].status = "written"
         /\ \A i \in DOMAIN stack : \A p \in DOMAIN stack[i].todo :
              stack[i].todo[p] = h => event[h.event].status = "committed"
         /\ Waits(h) => event[h.event].status \in {"written", "committed"} /\ h.event <= fired
<1>1. h.event \in Ids /\ h.run \in Callbacks
  BY DEF Hook
<1>2. \A p \in DOMAIN hooks : hooks[p] = h => event[h.event].status = "written"
  BY DEF EventsKept
<1>3. ASSUME NEW i \in DOMAIN stack, NEW p \in DOMAIN stack[i].todo, stack[i].todo[p] = h
      PROVE  event[h.event].status = "committed"
  BY <1>3 DEF EventsKept, FrameKept
<1>4. Waits(h) => event[h.event].status \in {"written", "committed"}
  BY <1>2, <1>3 DEF Waits
<1> QED
  BY <1>1, <1>2, <1>3, <1>4, EventIs

\* The callbacks of frames stay, and fires that are still there have as much to do.
TodosStay ==
  /\ \A i \in DOMAIN stack' : DOMAIN stack'[i].todo = {} \/ (i \in DOMAIN stack /\ stack'[i].todo = stack[i].todo)
  /\ \A i \in DOMAIN stack : DOMAIN stack[i].todo = {} \/ (i \in DOMAIN stack' /\ stack'[i].todo = stack[i].todo)

FiresStay == \A i \in DOMAIN stack' : stack'[i].kind = "firing" => i \in DOMAIN stack /\ stack'[i] = stack[i]

LEMMA PushStays ==
  ASSUME Base, NEW f \in Frame, stack' = Append(stack, f), f.todo = <<>>
  PROVE  TodosStay /\ (f.kind # "firing" => FiresStay)
<1>1. PICK n \in Nat : n = Len(stack)
  BY StackIs
<1>2. /\ DOMAIN stack' = 1..(n + 1) /\ stack'[n + 1] = f /\ DOMAIN stack = 1..n
      /\ \A i \in 1..n : stack'[i] = stack[i]
  BY <1>1, PushCarries
<1>3. DOMAIN f.todo = {}
  <2>1. DOMAIN <<>> = {}
    OBVIOUS
  <2> QED
    BY <2>1
<1>4. \A i \in 1..(n + 1) : i \in 1..n \/ i = n + 1
  OBVIOUS
<1>5. \A i \in 1..n : i \in 1..(n + 1)
  OBVIOUS
<1> QED
  BY <1>2, <1>3, <1>4, <1>5 DEF TodosStay, FiresStay

LEMMA PopStays ==
  ASSUME Base, stack # <<>>, stack' = Under, Top.todo = <<>>
  PROVE  TodosStay /\ FiresStay
<1>1. PICK n \in Nat : n + 1 = Len(stack)
  BY DepthIs
<1>2. /\ DOMAIN stack' = 1..n /\ DOMAIN stack = 1..(n + 1) /\ Top = stack[n + 1]
      /\ \A i \in 1..n : stack'[i] = stack[i]
  BY <1>1, PopCarries
<1>3. DOMAIN Top.todo = {}
  <2>1. DOMAIN <<>> = {}
    OBVIOUS
  <2> QED
    BY <2>1
<1>4. \A i \in 1..(n + 1) : i \in 1..n \/ i = n + 1
  OBVIOUS
<1>5. \A i \in 1..n : i \in 1..(n + 1)
  OBVIOUS
<1> QED
  BY <1>2, <1>3, <1>4, <1>5 DEF TodosStay, FiresStay

LEMMA SameStays == ASSUME stack' = stack PROVE TodosStay /\ FiresStay
BY DEF TodosStay, FiresStay

\* A frame that is left has no callbacks to run.
LEMMA NothingTodo ==
  ASSUME Base, stack # <<>>, Top.kind # "hooks"
  PROVE  Top.todo = <<>>
<1>1. Len(stack) \in DOMAIN stack /\ Top = stack[Len(stack)]
  BY BaseIs, TopIs
<1> QED
  BY <1>1, BaseIs DEF Stacked

LEMMA WaitsStay ==
  ASSUME TodosStay, hooks' = hooks
  PROVE  /\ Apart => Apart'
         /\ \A h : Waits(h)' <=> Waits(h)
<1>1. ASSUME Apart PROVE Apart'
  BY <1>1 DEF Apart, TodosStay
<1>2. ASSUME NEW h PROVE Waits(h)' <=> Waits(h)
  BY DEF Waits, TodosStay
<1> QED
  BY <1>1, <1>2

\* What a step may do to an event and to a callback of it, and leave them as they should be.
EventStays(e) ==
  /\ event'[e].suppressed = event[e].suppressed /\ event'[e].class = event[e].class
  /\ event'[e].status \in {"written", "committed"} => event[e].status \in {"written", "committed"}
  /\ event[e].status = "committed" => event'[e].status = "committed"

HookStays(h) ==
  LET e == h.event
  IN  /\ ran'[e][h.run] = ran[e][h.run]
      /\ Waits(h)' => Waits(h)
      /\ h.run \in {Attempt, Notify} /\ rows[e] # {} /\ (ran[e][h.run] = 1 \/ Waits(h)') => rows'[e] # {}
      /\ event'[e].status \in {"written", "committed"} /\ Waits(h) => Waits(h)'
      /\ e \in returned' \ lost' =>
           \/ e \in returned \ lost
           \/ \E i \in DOMAIN stack : /\ stack[i].kind = "firing" /\ stack[i].event = e
                                      /\ ~Registers(stack[i], h)

\* A fire that is there has as much left to do for it as one that was.
FireStays(h) ==
  \A i \in DOMAIN stack' : stack'[i].kind = "firing" /\ stack'[i].event = h.event =>
    \E j \in DOMAIN stack : /\ stack[j].kind = "firing" /\ stack[j].event = h.event
                            /\ Registers(stack'[i], h) <=> Registers(stack[j], h)

LEMMA StaysKept ==
  ASSUME NEW h \in Hook, HookKept(h), FireStays(h), EventStays(h.event), HookStays(h)
  PROVE  HookKept(h)'
<1>2. (\A i \in DOMAIN stack : ~Registers(stack[i], h)) => (\A i \in DOMAIN stack : ~Registers(stack[i], h))'
  BY DEF FireStays, Registers
<1>3. Expected(h.event)' = Expected(h.event)
  BY DEF EventStays, Expected, Of
<1>4. Due(h)' => Due(h)
  BY <1>3 DEF Due, EventStays
<1>5. (ran[h.event][h.run] = 1 \/ ran[h.event][h.run] = 0)'
  BY DEF HookKept, HookStays
<1>6. (Waits(h) => ran[h.event][h.run] # 1 /\ Earned(h))'
  BY <1>2 DEF HookKept, HookStays, EventStays, Earned
<1>7. (ran[h.event][h.run] = 1 => event[h.event].status = "committed" /\ Earned(h))'
  BY <1>2 DEF HookKept, HookStays, EventStays, Earned
<1>8. (Due(h) => (h.event \in returned \ lost => ran[h.event][h.run] = 1 \/ Waits(h)))'
  <2> SUFFICES ASSUME Due(h)', h.event \in returned' \ lost' PROVE ran[h.event][h.run] = 1 \/ Waits(h)'
    BY DEF HookStays
  <2>1. Due(h) /\ (Waits(h) => Waits(h)')
    BY <1>4 DEF Due, HookStays
  <2>2. ran[h.event][h.run] = 1 \/ Waits(h)
    BY <2>1 DEF HookKept, HookStays
  <2> QED
    BY <2>1, <2>2
<1>9. (Due(h) => \A i \in DOMAIN stack : stack[i].kind = "firing" /\ stack[i].event = h.event =>
                   ran[h.event][h.run] = 1 \/ Waits(h) \/ Registers(stack[i], h))'
  <2> SUFFICES ASSUME Due(h)', NEW i \in DOMAIN stack', stack'[i].kind = "firing", stack'[i].event = h.event
               PROVE  ran[h.event][h.run] = 1 \/ Waits(h)' \/ Registers(stack'[i], h)
    BY DEF HookStays, Registers
  <2>1. Due(h) /\ (Waits(h) => Waits(h)')
    BY <1>4 DEF Due, HookStays
  <2>2. PICK j \in DOMAIN stack : /\ stack[j].kind = "firing" /\ stack[j].event = h.event
                                  /\ Registers(stack'[i], h) <=> Registers(stack[j], h)
    BY DEF FireStays
  <2>3. ran[h.event][h.run] = 1 \/ Waits(h) \/ Registers(stack[j], h)
    BY <2>1, <2>2 DEF HookKept
  <2> QED
    BY <2>1, <2>2, <2>3
<1> QED
  BY <1>5, <1>6, <1>7, <1>8, <1>9 DEF HookKept

LEMMA FiresStayAll == ASSUME FiresStay PROVE \A h : FireStays(h)
BY DEF FiresStay, FireStays

LEMMA QuietHooks ==
  ASSUME HooksKept, TodosStay, FiresStay, hooks' = hooks, event' = event, rows' = rows,
         returned' = returned, ran' = ran, lost' = lost
  PROVE  HooksKept'
<1>1. Apart' /\ \A h : Waits(h)' <=> Waits(h)
  BY WaitsStay DEF HooksKept
<1>2. ASSUME NEW h \in Hook PROVE HookKept(h)'
  BY <1>1, FiresStayAll, StaysKept DEF HooksKept, EventStays, HookStays
<1> QED
  BY <1>1, <1>2 DEF HooksKept

LEMMA LeftHooks ==
  ASSUME Base, HooksKept,
         LeaveSuppressed \/ LeaveAttributed \/ LeaveReceiver \/ HooksRun \/ Unwind \/ Survive
           \/ (LeaveAtomic /\ InAtomic(Under))
  PROVE  HooksKept'
<1>1. /\ stack # <<>> /\ stack' = Under /\ (Top.kind = "hooks" => Top.todo = <<>>)
      /\ hooks' = hooks /\ event' = event /\ rows' = rows /\ returned' = returned
      /\ ran' = ran /\ lost' = lost
  BY DEF LeaveSuppressed, LeaveAttributed, LeaveReceiver, HooksRun, Unwind, Survive, LeaveAtomic,
     Inside, RestKept
<1>2. TodosStay /\ FiresStay
  BY <1>1, PopStays, NothingTodo
<1> QED
  BY <1>1, <1>2, QuietHooks

LEMMA EnterHooks ==
  ASSUME Base, HooksKept, EnterAtomic \/ EnterSuppressed \/ EnterAttributed
  PROVE  HooksKept'
<1>1. /\ hooks' = hooks /\ event' = event /\ rows' = rows /\ returned' = returned
      /\ ran' = ran /\ lost' = lost
  BY DEF EnterAtomic, EnterSuppressed, EnterAttributed
<1>2. PICK f \in Frame : f.kind # "firing" /\ f.todo = <<>> /\ stack' = Append(stack, f)
  BY EnterAtomicMakes, EnterSuppressedMakes, EnterAttributedMakes DEF Base, New
<1>3. TodosStay /\ FiresStay
  BY <1>2, PushStays
<1> QED
  BY <1>1, <1>3, QuietHooks

LEMMA RaiseHooks ==
  ASSUME Base, HooksKept, Raise \/ FanOutFails \/ Fail \/ UNCHANGED vars
  PROVE  HooksKept'
<1>1. /\ stack' = stack /\ hooks' = hooks /\ event' = event /\ rows' = rows /\ returned' = returned
      /\ ran' = ran /\ lost' = lost
  BY DEF Raise, FanOutFails, RaisesIntoTheCaller, Fail, vars
<1>2. TodosStay /\ FiresStay
  BY <1>1, SameStays
<1> QED
  BY <1>1, <1>2, QuietHooks

\* A fire that returns has registered all there was to register.
LEMMA FireReturnsHooks == ASSUME Base, HooksKept, FireReturns PROVE HooksKept'
<1>1. /\ stack # <<>> /\ stack' = Under /\ Top.kind = "firing" /\ ~Top.owing /\ Top.left = {}
      /\ returned' = returned \cup {Top.event}
      /\ hooks' = hooks /\ event' = event /\ rows' = rows /\ ran' = ran /\ lost' = lost
  BY DEF FireReturns, Inside
<1>2. TodosStay /\ FiresStay
  BY <1>1, PopStays, NothingTodo
<1>3. Len(stack) \in DOMAIN stack /\ Top = stack[Len(stack)]
  BY <1>1, BaseIs, TopIs
<1>4. Apart' /\ \A h : Waits(h)' <=> Waits(h)
  BY <1>1, <1>2, WaitsStay DEF HooksKept
<1>5. ASSUME NEW h \in Hook PROVE HookKept(h)'
  <2>1. h.event \in returned' \ lost' =>
          \/ h.event \in returned \ lost
          \/ \E i \in DOMAIN stack : /\ stack[i].kind = "firing" /\ stack[i].event = h.event
                                     /\ ~Registers(stack[i], h)
    BY <1>1, <1>3 DEF Registers
  <2>2. EventStays(h.event) /\ HookStays(h)
    BY <1>1, <1>4, <2>1 DEF EventStays, HookStays
  <2> QED
    BY <1>2, <2>2, FiresStayAll, StaysKept DEF HooksKept
<1> QED
  BY <1>4, <1>5 DEF HooksKept

\* The callbacks of what was rolled back go with it, and no others.
LEMMA RollBackHooks == ASSUME Base, EventsKept, HooksKept, RollBack PROVE HooksKept'
<1>1. /\ stack # <<>> /\ stack' = Under /\ Top.kind = "atomic" /\ Undone(Top.from)
      /\ hooks' = SubSeq(hooks, 1, Top.mark) /\ returned' = returned /\ ran' = ran /\ lost' = lost
  BY DEF RollBack, Inside
<1>2. TodosStay /\ FiresStay
  BY <1>1, PopStays, NothingTodo
<1>3. Len(stack) \in DOMAIN stack /\ Top = stack[Len(stack)] /\ Top \in Frame
  BY <1>1, BaseIs, TopIs
<1>4. PICK m \in Nat : m = Top.mark /\ m <= Len(hooks)
  <2>1. Top.mark \in Nat /\ Top.mark <= Len(hooks)
    BY <1>1, <1>3, BaseIs, FrameIs DEF Dated
  <2> QED
    BY <2>1
<1>5. /\ DOMAIN hooks' = 1..m /\ DOMAIN hooks = 1..Len(hooks) /\ Len(hooks) \in Nat
      /\ \A p \in 1..m : p \in DOMAIN hooks /\ hooks'[p] = hooks[p]
  <2>2. \A k \in 1..m : hooks[k] \in Hook /\ k \in DOMAIN hooks
    BY <1>4, BaseIs, LenProperties, ElementOfSeq
  <2>3. /\ SubSeq(hooks, 1, m) \in Seq(Hook) /\ Len(SubSeq(hooks, 1, m)) = IF 1 <= m THEN m - 1 + 1 ELSE 0
        /\ \A k \in 1..(m - 1 + 1) : SubSeq(hooks, 1, m)[k] = hooks[1 + k - 1]
    BY <2>2, SubSeqProperties
  <2>4. Len(SubSeq(hooks, 1, m)) = m /\ \A k \in 1..m : SubSeq(hooks, 1, m)[k] = hooks[k]
    BY <2>3
  <2>5. DOMAIN SubSeq(hooks, 1, m) = 1..m
    BY <2>3, <2>4, LenProperties
  <2> QED
    BY <1>1, <1>4, <2>2, <2>4, <2>5, BaseIs, LenProperties
<1>6. \A p \in DOMAIN hooks : p <= m <=> hooks[p].event <= Top.from
  BY <1>1, <1>3, <1>4 DEF EventsKept, FrameKept
<1>7. Apart'
  <2>1. (\A p, q \in DOMAIN hooks : hooks[p] = hooks[q] => p = q)'
    BY <1>5 DEF HooksKept, Apart
  <2>2. (\A i, k \in DOMAIN stack : \A p \in DOMAIN stack[i].todo, q \in DOMAIN stack[k].todo :
           stack[i].todo[p] = stack[k].todo[q] => i = k /\ p = q)'
    BY <1>2 DEF HooksKept, Apart, TodosStay
  <2> QED
    BY <2>1, <2>2 DEF Apart
<1>8. ASSUME NEW h \in Hook PROVE HookKept(h)'
  <2>1. /\ h.event \in Ids /\ h.event \in Nat /\ Top.from \in Nat
        /\ event[h.event] \in Event
    BY <1>3, WaitingIs, EventIs, FrameIs
  <2>2. \/ /\ h.event > Top.from /\ event[h.event].status = "written" /\ rows'[h.event] = {}
           /\ event'[h.event] = [event[h.event] EXCEPT !.status = "undone"]
        \/ /\ ~(h.event > Top.from /\ event[h.event].status = "written")
           /\ event'[h.event] = event[h.event] /\ rows'[h.event] = rows[h.event]
    BY <1>1, <2>1, UndoneIs DEF Base
  <2>3. EventStays(h.event)
    BY <2>1, <2>2 DEF EventStays, Event
  <2>4. Waits(h)' => Waits(h)
    BY <1>2, <1>5 DEF Waits, TodosStay
  <2>5. Waits(h)' => ~(h.event > Top.from /\ event[h.event].status = "written")
    <3>1. ASSUME NEW p \in DOMAIN hooks', hooks'[p] = h PROVE ~(h.event > Top.from)
      <4>1. p \in DOMAIN hooks /\ hooks[p] = h /\ p <= m
        BY <1>5, <3>1
      <4>2. h.event <= Top.from
        BY <1>6, <4>1
      <4> QED
        BY <2>1, <4>2
    <3>2. ASSUME NEW i \in DOMAIN stack', NEW p \in DOMAIN stack'[i].todo, stack'[i].todo[p] = h
          PROVE  event[h.event].status # "written"
      BY <1>2, <3>2, WaitingIs DEF TodosStay
    <3> QED
      BY <3>1, <3>2 DEF Waits
  <2>6. event'[h.event].status \in {"written", "committed"} /\ Waits(h) => Waits(h)'
    <3>1. ASSUME NEW p \in DOMAIN hooks, hooks[p] = h, event'[h.event].status \in {"written", "committed"}
          PROVE  Waits(h)'
      <4>1. event[h.event].status = "written"
        BY <3>1, WaitingIs
      <4>2. ~(h.event > Top.from)
        BY <2>1, <2>2, <3>1, <4>1 DEF Event
      <4>3. p <= m /\ p \in 1..m
        BY <1>5, <1>6, <2>1, <3>1, <4>2
      <4> QED
        BY <1>5, <3>1, <4>3 DEF Waits
    <3>2. ASSUME NEW i \in DOMAIN stack, NEW p \in DOMAIN stack[i].todo, stack[i].todo[p] = h
          PROVE  Waits(h)'
      BY <1>2, <3>2 DEF Waits, TodosStay
    <3> QED
      BY <3>1, <3>2 DEF Waits
  <2>7. HookStays(h)
    BY <1>1, <2>2, <2>4, <2>5, <2>6 DEF HooksKept, HookKept, HookStays
  <2> QED
    BY <1>2, <2>3, <2>7, FiresStayAll, StaysKept DEF HooksKept
<1> QED
  BY <1>7, <1>8 DEF HooksKept

\* A crash takes every callback that waits, and the events of those that are lost.
LEMMA CrashHooks == ASSUME Base, EventsKept, HooksKept, Crash PROVE HooksKept'
<1>1. /\ stack' = <<>> /\ hooks' = <<>> /\ Undone(0) /\ lost' = lost \cup Pending
      /\ returned' = returned /\ ran' = ran
  BY DEF Crash
<1>2. DOMAIN stack' = {} /\ DOMAIN hooks' = {}
  BY <1>1
<1>3. Apart' /\ \A h : ~Waits(h)'
  BY <1>2 DEF Apart, Waits
<1>4. ASSUME NEW h \in Hook PROVE HookKept(h)'
  <2>1. h.event \in Ids /\ h.event \in Nat /\ event[h.event] \in Event /\ h.event > 0
    <3>1. h.event \in Ids
      BY WaitingIs
    <3> QED
      BY <3>1, EventIs, Bounds DEF Ids
  <2>2. \/ /\ event[h.event].status = "written" /\ rows'[h.event] = {}
           /\ event'[h.event] = [event[h.event] EXCEPT !.status = "undone"]
        \/ /\ event[h.event].status # "written"
           /\ event'[h.event] = event[h.event] /\ rows'[h.event] = rows[h.event]
    BY <1>1, <2>1, UndoneIs DEF Base
  <2>3. EventStays(h.event) /\ event'[h.event].status # "written"
    BY <2>1, <2>2 DEF EventStays, Event
  <2>4. Due(h)' => Due(h) /\ event[h.event].status = "committed"
    BY <2>1, <2>2, <2>3 DEF Due, Expected, Of, EventStays, Event
  <2>5. ASSUME Due(h)', h.event \in returned' \ lost' PROVE ran[h.event][h.run] = 1
    <3>1. Due(h) /\ h.event \in returned \ lost /\ h.event \notin Pending
      BY <1>1, <2>4, <2>5
    <3>2. ran[h.event][h.run] = 1 \/ Waits(h)
      BY <3>1 DEF HooksKept, HookKept
    <3>3. ASSUME NEW i \in DOMAIN stack, NEW p \in DOMAIN stack[i].todo, stack[i].todo[p] = h PROVE FALSE
      <4>1. stack[i].kind = "hooks"
        <5>1. DOMAIN <<>> = {}
          OBVIOUS
        <5> QED
          BY <3>3, <5>1, BaseIs DEF Stacked
      <4>2. PICK list \in Seq(Hook) : list = stack[i].todo
        BY StackIs DEF Frame
      <4>3. h \in ToSet(list)
        BY <3>3, <4>2 DEF ToSet
      <4>4. h.event \in {g.event : g \in ToSet(stack[i].todo)}
        BY <4>2, <4>3
      <4> QED
        BY <3>1, <4>1, <4>4 DEF Pending
    <3>4. \A p \in DOMAIN hooks : hooks[p] # h
      BY <2>4, <2>5, WaitingIs
    <3> QED
      BY <3>2, <3>3, <3>4 DEF Waits
  <2>6. (ran[h.event][h.run] = 1 => event[h.event].status = "committed" /\ Earned(h))'
    BY <1>1, <1>2, <2>2, <2>3 DEF HooksKept, HookKept, Earned, EventStays
  <2>7. (ran[h.event][h.run] = 1 \/ ran[h.event][h.run] = 0)'
    BY <1>1 DEF HooksKept, HookKept
  <2> QED
    BY <1>1, <1>2, <1>3, <2>5, <2>6, <2>7 DEF HookKept
<1> QED
  BY <1>3, <1>4 DEF HooksKept

\* The outermost block commits: the callbacks there are go on, in a frame.
LEMMA CommitHooks ==
  ASSUME Base, EventsKept, HooksKept, LeaveAtomic, ~InAtomic(Under) PROVE HooksKept'
<1>1. /\ stack # <<>> /\ Top.kind = "atomic" /\ rows' = rows /\ returned' = returned
      /\ ran' = ran /\ lost' = lost /\ hooks' = <<>>
  BY DEF LeaveAtomic, Inside
<1>2. PICK n \in Nat : n + 1 = Len(stack)
  BY <1>1, DepthIs
<1>3. /\ FiresStay /\ Apart' /\ \A h \in Hook : Waits(h)' <=> Waits(h)
  <2>1. CASE hooks = <<>> /\ stack' = Under
    BY <1>1, <2>1, PopStays, NothingTodo, WaitsStay DEF HooksKept
  <2>2. ASSUME NEW f \in Frame, New(f, "hooks"), f.todo = hooks, stack' = Append(Under, f)
        PROVE  /\ FiresStay /\ Apart' /\ \A h \in Hook : Waits(h)' <=> Waits(h)
    <3>1. /\ DOMAIN stack' = 1..(n + 1) /\ DOMAIN stack = 1..(n + 1)
          /\ stack'[n + 1] = f /\ Top = stack[n + 1]
          /\ \A i \in 1..n : stack'[i] = stack[i]
      BY <1>1, <1>2, <2>2, PopPushCarries
    <3>2. \A i \in 1..(n + 1) : i \in 1..n \/ i = n + 1
      OBVIOUS
    <3>3. f.kind = "hooks" /\ DOMAIN hooks' = {} /\ DOMAIN stack[n + 1].todo = {} /\ n + 1 \in 1..(n + 1)
          /\ \A i \in 1..n : i \in 1..(n + 1)
      <4>1. DOMAIN <<>> = {}
        OBVIOUS
      <4>2. Top.todo = <<>>
        BY <1>1, NothingTodo
      <4> QED
        BY <1>1, <2>2, <3>1, <4>1, <4>2 DEF New
    <3>4. FiresStay
      BY <3>1, <3>2, <3>3 DEF FiresStay
    <3>5. ASSUME NEW h \in Hook PROVE Waits(h)' <=> Waits(h)
      BY <2>2, <3>1, <3>2, <3>3 DEF Waits
    <3>6. ASSUME NEW i \in 1..n, NEW p \in DOMAIN stack[i].todo, NEW q \in DOMAIN hooks
          PROVE  stack[i].todo[p] # hooks[q]
      <4>1. PICK h \in Hook : h = hooks[q]
        BY BaseIs, LenProperties, ElementOfSeq
      <4> QED
        BY <3>1, <3>3, <4>1, WaitingIs
    <3>7. Apart'
      <4>1. (\A p, q \in DOMAIN hooks : hooks[p] = hooks[q] => p = q)'
        BY <3>3
      <4>2. ASSUME NEW i \in 1..(n + 1), NEW k \in 1..(n + 1), NEW p \in DOMAIN stack'[i].todo,
                   NEW q \in DOMAIN stack'[k].todo, stack'[i].todo[p] = stack'[k].todo[q]
            PROVE  i = k /\ p = q
        <5>1. CASE i \in 1..n /\ k \in 1..n
          BY <3>1, <3>3, <4>2, <5>1 DEF HooksKept, Apart
        <5>2. CASE i = n + 1 /\ k = n + 1
          BY <2>2, <3>1, <4>2, <5>2 DEF HooksKept, Apart
        <5>3. CASE i \in 1..n /\ k = n + 1
          BY <2>2, <3>1, <3>6, <4>2, <5>3
        <5>4. CASE i = n + 1 /\ k \in 1..n
          BY <2>2, <3>1, <3>6, <4>2, <5>4
        <5> QED
          BY <3>2, <5>1, <5>2, <5>3, <5>4
      <4> QED
        BY <3>1, <4>1, <4>2 DEF Apart
    <3> QED
      BY <3>4, <3>5, <3>7
  <2> QED
    BY <2>1, <2>2, CommitMakes DEF Base
<1>4. ASSUME NEW h \in Hook PROVE HookKept(h)'
  <2>1. /\ h.event \in Ids /\ event[h.event] \in Event
        /\ event'[h.event] = IF event[h.event].status = "written"
                             THEN [event[h.event] EXCEPT !.status = "committed"] ELSE event[h.event]
    BY WaitingIs, EventIs, CommittedIs DEF Base
  <2>2. EventStays(h.event)
    BY <2>1 DEF EventStays, Event
  <2>3. HookStays(h)
    BY <1>1, <1>3 DEF HookStays
  <2> QED
    BY <1>3, <2>2, <2>3, FiresStayAll, StaysKept DEF HooksKept
<1> QED
  BY <1>3, <1>4 DEF HooksKept

\* Nothing waits for an event that is not there yet, and nothing has run.
LEMMA RecordHooks ==
  ASSUME Base, EventsKept, HooksKept, NEW class \in Classes, Record(class) PROVE HooksKept'
<1>1. /\ fired + 1 \in Ids /\ fired' = fired + 1
      /\ \A e \in Ids : e # fired + 1 => event'[e] = event[e]
      /\ event'[fired + 1] =
           [status |-> IF InAtomic(stack) THEN "written" ELSE "committed",
            class |-> class, cause |-> cause, suppressed |-> Matches(class) # {},
            chain |-> IF scope.chain # 0 THEN scope.chain ELSE Inherited,
            inside |-> InAtomic(stack)]
  BY WrittenIs DEF Base
<1>2. event'[fired + 1].class = class /\ event'[fired + 1].suppressed = (Matches(class) # {})
  BY <1>1
<1>3. rows' = rows /\ hooks' = hooks /\ ran' = ran /\ lost' = lost
  BY DEF Record
<1>4. fired + 1 \notin returned /\ event[fired + 1].status = "none"
      /\ \A i \in DOMAIN stack : stack[i].kind = "firing" => stack[i].event \in Ids /\ stack[i].event <= fired
  BY <1>1, NoneYet
<1>5. \/ Matches(class) # {} /\ stack' = stack /\ returned' = returned \cup {fired + 1}
      \/ /\ Matches(class) = {} /\ returned' = returned
         /\ \E f \in Frame : /\ f.kind = "firing" /\ f.event = fired + 1 /\ f.owing = TRUE /\ f.todo = <<>>
                             /\ f.left = Of(class, "INLINE") \cup Of(class, "ON_COMMIT")
                             /\ stack' = Append(stack, f)
  BY RecordMakes DEF Record, Base, New
<1>6. TodosStay
  BY <1>5, PushStays, SameStays
<1>7. Apart' /\ \A h : Waits(h)' <=> Waits(h)
  BY <1>3, <1>6, WaitsStay DEF HooksKept
<1>8. PICK n \in Nat : n = Len(stack) /\ DOMAIN stack = 1..n
  BY StackIs
<1>9. \/ stack' = stack
      \/ /\ Matches(class) = {} /\ DOMAIN stack' = 1..(n + 1) /\ \A i \in 1..n : stack'[i] = stack[i]
         /\ stack'[n + 1].kind = "firing" /\ stack'[n + 1].event = fired + 1 /\ stack'[n + 1].owing = TRUE
         /\ stack'[n + 1].left = Of(class, "INLINE") \cup Of(class, "ON_COMMIT")
  BY <1>5, <1>8, PushCarries
<1>10. \A i \in 1..(n + 1) : i \in 1..n \/ i = n + 1
  OBVIOUS
<1>11. ASSUME NEW h \in Hook, h.event # fired + 1 PROVE HookKept(h)'
  <2>1. FireStays(h)
    BY <1>8, <1>9, <1>10, <1>11 DEF FireStays
  <2>2. EventStays(h.event) /\ HookStays(h)
    BY <1>1, <1>3, <1>5, <1>7, <1>11, WaitingIs DEF EventStays, HookStays
  <2> QED
    BY <2>1, <2>2, StaysKept DEF HooksKept
<1>12. ASSUME NEW h \in Hook, h.event = fired + 1 PROVE HookKept(h)'
  <2>1. ~Waits(h)' /\ ran'[h.event][h.run] = 0
    BY <1>3, <1>4, <1>7, <1>12, WaitingIs DEF HooksKept, HookKept
  <2>2. Due(h)' => Matches(class) = {}
    BY <1>2, <1>12 DEF Due
  <2>3. ASSUME Due(h)', NEW i \in DOMAIN stack', stack'[i].kind = "firing", stack'[i].event = h.event
        PROVE  Registers(stack'[i], h)
    <3>1. ~(i \in DOMAIN stack /\ stack'[i] = stack[i])
      <4>1. ~(fired + 1 <= fired)
        BY BaseIs
      <4> QED
        BY <1>4, <1>12, <2>3, <4>1
    <3>2. stack'[i].owing = TRUE /\ stack'[i].left = Of(class, "INLINE") \cup Of(class, "ON_COMMIT")
      BY <1>8, <1>9, <1>10, <2>3, <3>1
    <3>3. h.run \in {Attempt, Notify} \/ h.run \in Of(class, "ON_COMMIT")
      <4>1. h.run \in Of(class, "ON_COMMIT")
               \cup (IF Of(class, "DURABLE") = {} THEN {} ELSE {Notify})
               \cup (IF Of(class, "DURABLE") \cap Eager = {} THEN {} ELSE {Attempt})
        BY <1>2, <1>12, <2>3 DEF Due, Expected, Of
      <4> QED
        BY <4>1
    <3> QED
      BY <2>3, <3>2, <3>3 DEF Registers
  <2>4. Due(h)' => h.event \notin returned'
    BY <1>4, <1>5, <1>12, <2>2
  <2> QED
    BY <2>1, <2>3, <2>4 DEF HookKept, Registers
<1> QED
  BY <1>7, <1>11, <1>12 DEF HooksKept

\* There is one fire of an event.
LEMMA OnlyFire ==
  ASSUME Base, stack # <<>>, Top.kind = "firing", NEW n \in Nat, n + 1 = Len(stack),
         NEW i \in 1..n, stack[i].kind = "firing"
  PROVE  stack[i].event # Top.event
<1>1. Top = stack[n + 1] /\ n + 1 \in DOMAIN stack /\ i \in DOMAIN stack /\ i \in 1..((n + 1) - 1)
  <2>1. TypeOK
    BY DEF Base
  <2>2. DOMAIN stack = 1..(n + 1) /\ Top = stack[n + 1]
    BY <2>1, TopIs
  <2> QED
    BY <2>2
<1>2. stack[i].event <= Top.from /\ Top.event = Top.from + 1
  BY <1>1, BaseIs DEF Dated
<1>3. stack[i].event \in Nat /\ Top.from \in Nat
  BY <1>1, StackIs, FrameIs
<1> QED
  BY <1>2, <1>3

\* Callbacks are registered, or go into a frame of their own.
LEMMA OnCommitWaits ==
  ASSUME Base, Apart, stack # <<>>, Top.kind = "firing", NEW f \in Frame, Alike(f, Top), f.left \subseteq Top.left,
         f.todo = <<>>, NEW list \in Seq(Hook), OnCommit(Append(Under, f), list),
         \A p \in DOMAIN list : ~Waits(list[p]),
         \A p, q \in DOMAIN list : list[p] = list[q] => p = q,
         NEW n \in Nat, n + 1 = Len(stack)
  PROVE  /\ Apart'
         /\ \A h : Waits(h)' <=> Waits(h) \/ \E p \in DOMAIN list : list[p] = h
         /\ n + 1 \in DOMAIN stack' /\ stack'[n + 1] = f
         /\ \A i \in DOMAIN stack' : stack'[i].kind = "firing" =>
              i = n + 1 \/ (i \in 1..n /\ stack'[i] = stack[i])
<1>1. /\ DOMAIN <<>> = {} /\ \A i \in 1..(n + 1) : i \in 1..n \/ i = n + 1
      /\ \A i \in 1..n : i \in 1..(n + 1)
      /\ \A i \in 1..(n + 2) : i \in 1..n \/ i = n + 1 \/ i = n + 2
  OBVIOUS
<1>2. Append(Under, f) \in Stack
  BY TopIs, BaseIs, Pushed DEF Stack
<1>3. \/ stack' = Append(Under, f) /\ hooks' = hooks \o list
      \/ stack' = Append(Under, f) /\ hooks' = hooks /\ list = <<>>
      \/ /\ hooks' = hooks
         /\ \E g \in Frame : g.kind = "hooks" /\ g.todo = list /\ stack' = Append(Append(Under, f), g)
  <2>1. PICK s \in Stack : s = Append(Under, f)
    BY <1>2
  <2>2. OnCommit(s, list) /\ TypeOK
    BY <2>1 DEF Base
  <2>3. \/ InAtomic(s) /\ stack' = s /\ hooks' = hooks \o list
        \/ ~InAtomic(s) /\ list = <<>> /\ stack' = s /\ hooks' = hooks
        \/ /\ ~InAtomic(s) /\ hooks' = hooks
           /\ \E g \in Frame : /\ New(g, "hooks") /\ g.event = 0 /\ g.left = {} /\ g.todo = list
                               /\ stack' = Append(s, g)
    BY <2>2, OnCommitMakes
  <2> QED
    BY <2>1, <2>3 DEF New
<1>4. Onward(f)
  BY <1>1 DEF Onward
<1>5. Top.todo = <<>>
  BY NothingTodo
<1>6. CASE stack' = Append(Under, f) /\ (hooks' = hooks \o list \/ (hooks' = hooks /\ list = <<>>))
  <2>1. /\ DOMAIN stack' = 1..(n + 1) /\ DOMAIN stack = 1..(n + 1)
        /\ stack'[n + 1] = f /\ Top = stack[n + 1] /\ \A i \in 1..n : stack'[i] = stack[i]
    BY <1>4, <1>6, SwapCarries
  <2>2. TodosStay
    BY <1>1, <1>5, <2>1 DEF TodosStay
  <2>3. n + 1 \in DOMAIN stack' /\ \A i \in DOMAIN stack' : i = n + 1 \/ (i \in 1..n /\ stack'[i] = stack[i])
    BY <1>1, <2>1
  <2>4. CASE hooks' = hooks /\ list = <<>>
    BY <1>1, <2>1, <2>2, <2>3, <2>4, WaitsStay
  <2>5. CASE hooks' = hooks \o list
    <3>1. Len(list) \in Nat /\ DOMAIN list = 1..Len(list) /\ DOMAIN hooks = 1..Len(hooks) /\ Len(hooks) \in Nat
      BY BaseIs, LenProperties
    <3>2. PICK m \in Nat, l \in Nat : m = Len(hooks) /\ l = Len(list)
      BY <3>1
    <3>3. /\ DOMAIN hooks' = 1..(m + l)
          /\ \A k \in 1..(m + l) : hooks'[k] = IF k <= m THEN hooks[k] ELSE list[k - m]
      BY <2>5, <3>2, BaseIs, ConcatProperties, LenProperties
    <3>4. \A k \in 1..(m + l) : \/ k <= m /\ k \in DOMAIN hooks /\ hooks'[k] = hooks[k]
                                \/ k > m /\ k - m \in DOMAIN list /\ hooks'[k] = list[k - m]
      BY <3>1, <3>2, <3>3
    <3>5. ASSUME NEW h PROVE Waits(h)' <=> Waits(h) \/ \E p \in DOMAIN list : list[p] = h
      <4>1. ASSUME NEW p \in DOMAIN hooks', hooks'[p] = h PROVE Waits(h) \/ \E q \in DOMAIN list : list[q] = h
        BY <3>3, <3>4, <4>1 DEF Waits
      <4>2. ASSUME NEW p \in DOMAIN hooks, hooks[p] = h PROVE Waits(h)'
        <5>1. p \in 1..(m + l) /\ p <= m
          BY <3>1, <3>2
        <5> QED
          BY <3>3, <4>2, <5>1 DEF Waits
      <4>3. ASSUME NEW p \in DOMAIN list, list[p] = h PROVE Waits(h)'
        <5>1. m + p \in 1..(m + l) /\ ~(m + p <= m) /\ (m + p) - m = p
          BY <3>1, <3>2
        <5>2. hooks'[m + p] = list[p]
          BY <3>3, <5>1
        <5> QED
          BY <3>3, <4>3, <5>1, <5>2 DEF Waits
      <4>4. ASSUME NEW i \in DOMAIN stack', NEW p \in DOMAIN stack'[i].todo, stack'[i].todo[p] = h PROVE Waits(h)
        BY <2>2, <4>4 DEF TodosStay, Waits
      <4>5. ASSUME NEW i \in DOMAIN stack, NEW p \in DOMAIN stack[i].todo, stack[i].todo[p] = h PROVE Waits(h)'
        BY <2>2, <4>5 DEF TodosStay, Waits
      <4> QED
        BY <4>1, <4>2, <4>3, <4>4, <4>5 DEF Waits
    <3>6. Apart'
      <4>1. ASSUME NEW p \in DOMAIN hooks', NEW q \in DOMAIN hooks', hooks'[p] = hooks'[q] PROVE p = q
        <5>1. p \in 1..(m + l) /\ q \in 1..(m + l)
          BY <3>3
        <5>2. CASE p <= m /\ q <= m
          <6>1. p \in DOMAIN hooks /\ q \in DOMAIN hooks /\ hooks[p] = hooks[q]
            BY <3>4, <4>1, <5>1, <5>2
          <6> QED
            BY <6>1 DEF Apart
        <5>3. CASE p > m /\ q > m
          <6>1. p - m \in DOMAIN list /\ q - m \in DOMAIN list /\ list[p - m] = list[q - m]
            BY <3>4, <4>1, <5>1, <5>3
          <6>2. p - m = q - m
            BY <6>1
          <6> QED
            BY <5>1, <6>2
        <5>4. CASE p <= m /\ q > m
          BY <3>4, <4>1, <5>1, <5>4 DEF Waits
        <5>5. CASE p > m /\ q <= m
          BY <3>4, <4>1, <5>1, <5>5 DEF Waits
        <5> QED
          BY <3>4, <5>1, <5>2, <5>3, <5>4, <5>5
      <4>2. (\A i, k \in DOMAIN stack : \A p \in DOMAIN stack[i].todo, q \in DOMAIN stack[k].todo :
               stack[i].todo[p] = stack[k].todo[q] => i = k /\ p = q)'
        BY <2>2 DEF Apart, TodosStay
      <4> QED
        BY <4>1, <4>2 DEF Apart
    <3> QED
      BY <2>1, <2>3, <3>5, <3>6
  <2> QED
    BY <1>6, <2>4, <2>5
<1>7. ASSUME NEW g \in Frame, g.kind = "hooks", g.todo = list, stack' = Append(Append(Under, f), g), hooks' = hooks
      PROVE  /\ Apart'
             /\ \A h : Waits(h)' <=> Waits(h) \/ \E p \in DOMAIN list : list[p] = h
             /\ n + 1 \in DOMAIN stack' /\ stack'[n + 1] = f
             /\ \A i \in DOMAIN stack' : stack'[i].kind = "firing" =>
                  i = n + 1 \/ (i \in 1..n /\ stack'[i] = stack[i])
  <2>1. /\ DOMAIN stack' = 1..(n + 2) /\ DOMAIN stack = 1..(n + 1)
        /\ stack'[n + 2] = g /\ stack'[n + 1] = f /\ Top = stack[n + 1]
        /\ \A i \in 1..n : stack'[i] = stack[i]
    <3>1. stack' = Append(Append(Under, f), g) /\ n + 1 = Len(stack)
      BY <1>7
    <3> QED
      BY <1>4, <3>1, SwapPushCarries
  <2>2. n + 1 \in 1..(n + 2) /\ n + 2 \in 1..(n + 2) /\ \A i \in 1..n : i \in 1..(n + 2)
    OBVIOUS
  <2>3. DOMAIN stack'[n + 1].todo = {} /\ DOMAIN stack[n + 1].todo = {}
    BY <1>1, <1>5, <2>1
  <2>4. ASSUME NEW h PROVE Waits(h)' <=> Waits(h) \/ \E p \in DOMAIN list : list[p] = h
    BY <1>1, <1>7, <2>1, <2>2, <2>3 DEF Waits
  <2>5. ASSUME NEW i \in 1..n, NEW p \in DOMAIN stack[i].todo, NEW q \in DOMAIN list
        PROVE  stack[i].todo[p] # list[q]
    BY <1>1, <2>1 DEF Waits
  <2>6. ASSUME NEW i \in DOMAIN stack', NEW k \in DOMAIN stack', NEW p \in DOMAIN stack'[i].todo,
               NEW q \in DOMAIN stack'[k].todo, stack'[i].todo[p] = stack'[k].todo[q]
        PROVE  i = k /\ p = q
    <3>1. (i \in 1..n \/ i = n + 2) /\ (k \in 1..n \/ k = n + 2)
      BY <1>1, <2>1, <2>3
    <3>2. CASE i \in 1..n /\ k \in 1..n
      BY <1>1, <2>1, <2>6, <3>2 DEF Apart
    <3>3. CASE i = n + 2 /\ k = n + 2
      BY <1>7, <2>1, <2>6, <3>3
    <3>4. CASE i \in 1..n /\ k = n + 2
      BY <1>7, <2>1, <2>5, <2>6, <3>4
    <3>5. CASE i = n + 2 /\ k \in 1..n
      BY <1>7, <2>1, <2>5, <2>6, <3>5
    <3> QED
      BY <3>1, <3>2, <3>3, <3>4, <3>5
  <2>7. Apart'
    BY <1>7, <2>6 DEF Apart
  <2>8. \A i \in DOMAIN stack' : stack'[i].kind = "firing" => i = n + 1 \/ (i \in 1..n /\ stack'[i] = stack[i])
    BY <1>1, <1>7, <2>1
  <2> QED
    BY <2>1, <2>2, <2>4, <2>7, <2>8
<1> QED
  BY <1>3, <1>6, <1>7

\* What fire registers, its frame has no longer to register.
LEMMA OnCommitHooks ==
  ASSUME Base, EventsKept, HooksKept, Inside("firing"), NEW f \in Frame, Alike(f, Top), f.left \subseteq Top.left,
         f.todo = <<>>, NEW list \in Seq(Hook), OnCommit(Append(Under, f), list),
         \A p, q \in DOMAIN list : list[p] = list[q] => p = q,
         \A p \in DOMAIN list :
           /\ Registers(Top, list[p]) /\ ~Registers(f, list[p])
           /\ list[p].run \in {Attempt, Notify} => rows'[Top.event] # {},
         \A h \in Hook : Registers(f, h) => Registers(Top, h),
         \A h \in Hook : Registers(Top, h) /\ h.run \in Expected(h.event) =>
           Registers(f, h) \/ \E p \in DOMAIN list : list[p] = h,
         \A h \in Hook :
           (h.event # Top.event \/ ~Registers(Top, h)) /\ h.run \in {Attempt, Notify} /\ rows[h.event] # {} =>
             rows'[h.event] # {},
         event' = event, returned' = returned, ran' = ran, lost' = lost
  PROVE  HooksKept'
<1>1. stack # <<>> /\ Top.kind = "firing" /\ Top.event \in Ids
  BY FiringIs
<1>2. PICK n \in Nat : n + 1 = Len(stack)
  BY <1>1, DepthIs
<1>3. n + 1 \in DOMAIN stack /\ Top = stack[n + 1] /\ \A i \in 1..n : i \in DOMAIN stack
  <2>1. TypeOK
    BY DEF Base
  <2>2. DOMAIN stack = 1..(n + 1) /\ Top = stack[n + 1]
    BY <1>1, <1>2, <2>1, TopIs
  <2> QED
    BY <2>2
<1>4. ASSUME NEW h \in Hook, Registers(Top, h) PROVE ~Waits(h) /\ ran[h.event][h.run] = 0
  BY <1>3, <1>4 DEF HooksKept, HookKept, Earned
<1>5. \A p \in DOMAIN list : list[p] \in Hook
  BY LenProperties, ElementOfSeq
<1>6. \A p \in DOMAIN list : ~Waits(list[p])
  BY <1>4, <1>5
<1>7. /\ Apart'
      /\ \A h : Waits(h)' <=> Waits(h) \/ \E p \in DOMAIN list : list[p] = h
      /\ n + 1 \in DOMAIN stack' /\ stack'[n + 1] = f
      /\ \A i \in DOMAIN stack' : stack'[i].kind = "firing" =>
           i = n + 1 \/ (i \in 1..n /\ stack'[i] = stack[i])
  BY <1>1, <1>2, <1>6, OnCommitWaits DEF HooksKept
<1>8. f.kind = "firing" /\ f.event = Top.event
  BY <1>1 DEF Alike
<1>9. \A i \in 1..n : stack[i].kind = "firing" => stack[i].event # Top.event
  BY <1>1, <1>2, OnlyFire
<1>10. ~event[Top.event].suppressed /\ Top.event \notin returned
  BY <1>1, <1>3 DEF EventsKept, FrameKept
<1>11. ASSUME NEW h \in Hook, ~Registers(Top, h) \/ h.event # Top.event PROVE HookKept(h)'
  <2>1. ~Registers(Top, h) /\ ~Registers(f, h)
    BY <1>11 DEF Registers
  <2>2. FireStays(h)
    BY <1>1, <1>3, <1>7, <1>8, <2>1 DEF FireStays
  <2>3. ~(\E p \in DOMAIN list : list[p] = h)
    BY <2>1
  <2>4. Waits(h)' <=> Waits(h)
    BY <1>7, <2>3
  <2>5. EventStays(h.event) /\ HookStays(h)
    BY <1>11, <2>4 DEF EventStays, HookStays
  <2> QED
    BY <2>2, <2>5, StaysKept DEF HooksKept
<1>12. ASSUME NEW h \in Hook, Registers(Top, h), h.event = Top.event PROVE HookKept(h)'
  <2>1. ~Waits(h) /\ ran'[h.event][h.run] = 0
    BY <1>4, <1>12
  <2>2. (Waits(h) => Earned(h))'
    <3> SUFFICES ASSUME Waits(h)' PROVE Earned(h)'
      OBVIOUS
    <3>1. PICK p \in DOMAIN list : list[p] = h
      BY <1>7, <2>1
    <3>2. ~Registers(f, h) /\ (h.run \in {Attempt, Notify} => rows'[h.event] # {})
      BY <1>12, <3>1
    <3>3. \A i \in DOMAIN stack' : ~Registers(stack'[i], h)
      BY <1>7, <1>9, <1>12, <3>2 DEF Registers
    <3> QED
      BY <1>10, <1>12, <3>2, <3>3 DEF Earned, Registers
  <2>3. h.event \notin returned'
    BY <1>10, <1>12
  <2>4. (Due(h) => \A i \in DOMAIN stack : stack[i].kind = "firing" /\ stack[i].event = h.event =>
                     ran[h.event][h.run] = 1 \/ Waits(h) \/ Registers(stack[i], h))'
    <3> SUFFICES ASSUME Due(h)', NEW i \in DOMAIN stack', stack'[i].kind = "firing", stack'[i].event = h.event
                 PROVE  Waits(h)' \/ Registers(stack'[i], h)
      BY DEF Registers
    <3>1. stack'[i] = f
      BY <1>7, <1>9, <1>12
    <3>2. h.run \in Expected(h.event)
      BY DEF Due, Expected, Of
    <3> QED
      BY <1>7, <1>12, <3>1, <3>2
  <2> QED
    BY <2>1, <2>2, <2>3, <2>4 DEF HookKept
<1> QED
  BY <1>7, <1>11, <1>12 DEF HooksKept

LEMMA OweHooks == ASSUME Base, EventsKept, HooksKept, Owe PROVE HooksKept'
<1>1. Inside("firing") /\ Top.owing
  BY DEF Owe
<1>2. stack # <<>> /\ Top.kind = "firing" /\ Top.event \in Ids /\ Top.todo = <<>> /\ Top \in Frame
  BY <1>1, FiringIs, TopIs DEF Base
<1>3. /\ event' = event /\ returned' = returned /\ ran' = ran /\ lost' = lost
      /\ rows' = [rows EXCEPT ![Top.event] = Of(event[Top.event].class, "DURABLE")]
  BY DEF Owe
<1>4. PICK f \in Frame :
        /\ Alike(f, Top) /\ f.owing = FALSE /\ f.left = Top.left /\ f.todo = Top.todo
        /\ Append(Under, f) \in Stack /\ OnCommit(Append(Under, f), Scheduled(Top.event))
  BY OweMakes DEF Base
<1>5. PICK owed : owed = Of(event[Top.event].class, "DURABLE")
  OBVIOUS
<1>6. PICK list \in Seq(Hook) :
        /\ list = Scheduled(Top.event)
        /\ \A p \in DOMAIN list :
             /\ list[p].event = Top.event /\ list[p].run \in {Attempt, Notify} /\ owed # {}
             /\ \A q \in DOMAIN list : list[q] = list[p] => q = p
        /\ owed # {} => \E p \in DOMAIN list : list[p] = [event |-> Top.event, run |-> Notify]
        /\ owed \cap Eager # {} => \E p \in DOMAIN list : list[p] = [event |-> Top.event, run |-> Attempt]
  BY <1>2, <1>5, ScheduledIs
<1>7. rows'[Top.event] = owed /\ \A e \in Ids : e # Top.event => rows'[e] = rows[e]
  BY <1>2, <1>3, <1>5, BaseIs DEF TypeOK
<1>8. {Attempt, Notify} \cap Top.left = {}
  BY <1>2, CallbacksAre DEF Frame, Reached
<1>9. f.kind = "firing" /\ f.event = Top.event
  BY <1>2, <1>4 DEF Alike
<1>10. \A p \in DOMAIN list :
         /\ Registers(Top, list[p]) /\ ~Registers(f, list[p])
         /\ list[p].run \in {Attempt, Notify} => rows'[Top.event] # {}
  BY <1>1, <1>2, <1>4, <1>6, <1>7, <1>8 DEF Registers
<1>11. \A h \in Hook : Registers(f, h) => Registers(Top, h)
  BY <1>2, <1>4, <1>9 DEF Registers
<1>12. ASSUME NEW h \in Hook, Registers(Top, h), h.run \in Expected(h.event)
       PROVE  Registers(f, h) \/ \E p \in DOMAIN list : list[p] = h
  <2>1. h.event = Top.event /\ (h.run \in {Attempt, Notify} \/ h.run \in Top.left)
    BY <1>12 DEF Registers
  <2>2. CASE h.run \in Top.left
    BY <1>4, <1>9, <2>1, <2>2 DEF Registers
  <2>3. CASE h.run = Notify
    <3>1. owed # {}
      BY <1>5, <1>12, <2>1, <2>3, CallbacksAre DEF Expected, Of
    <3>2. h = [event |-> Top.event, run |-> Notify]
      BY <2>1, <2>3 DEF Hook
    <3> QED
      BY <1>6, <3>1, <3>2
  <2>4. CASE h.run = Attempt
    <3>1. owed \cap Eager # {}
      BY <1>5, <1>12, <2>1, <2>4, CallbacksAre DEF Expected, Of
    <3>2. h = [event |-> Top.event, run |-> Attempt]
      BY <2>1, <2>4 DEF Hook
    <3> QED
      BY <1>6, <3>1, <3>2
  <2> QED
    BY <2>1, <2>2, <2>3, <2>4
<1>13. \A h \in Hook :
         (h.event # Top.event \/ ~Registers(Top, h)) /\ h.run \in {Attempt, Notify} /\ rows[h.event] # {} =>
           rows'[h.event] # {}
  BY <1>1, <1>2, <1>7 DEF Registers, Hook
<1>14. OnCommit(Append(Under, f), list) /\ f.left \subseteq Top.left /\ f.todo = <<>>
  BY <1>2, <1>4, <1>6
<1>15. \A p, q \in DOMAIN list : list[p] = list[q] => p = q
  BY <1>6
<1> QED
  BY <1>1, <1>3, <1>4, <1>10, <1>11, <1>12, <1>13, <1>14, <1>15, OnCommitHooks

LEMMA ReachHooks == ASSUME Base, EventsKept, HooksKept, Reach PROVE HooksKept'
<1>1. /\ Inside("firing") /\ event' = event /\ rows' = rows /\ returned' = returned /\ ran' = ran
      /\ lost' = lost
  BY DEF Reach
<1>2. stack # <<>> /\ Top.kind = "firing" /\ Top.todo = <<>> /\ Top.event \in Ids
  BY <1>1, FiringIs
<1>3. PICK f \in Frame, r \in Receivers :
        /\ r \in Top.left /\ Alike(f, Top) /\ f.owing = Top.owing /\ f.left = Top.left \ {r}
        /\ f.todo = Top.todo /\ Append(Under, f) \in Stack /\ Top.event \in Ids
        /\ \/ /\ ModeOf[r] = "INLINE" /\ cause' = Top.event /\ hooks' = hooks
              /\ \E g \in Frame :
                   /\ New(g, "inline") /\ g.event = Top.event /\ g.left = {} /\ g.todo = <<>>
                   /\ stack' = Append(Append(Under, f), g)
           \/ /\ ModeOf[r] # "INLINE" /\ cause' = cause
              /\ OnCommit(Append(Under, f), <<[event |-> Top.event, run |-> r]>>)
  BY ReachMakes DEF Base
<1>4. f.kind = "firing" /\ f.event = Top.event
  BY <1>2, <1>3 DEF Alike
<1>5. \A h \in Hook : Registers(f, h) => Registers(Top, h)
  BY <1>2, <1>3, <1>4 DEF Registers
<1>6. \A h \in Hook : Registers(Top, h) => Registers(f, h) \/ h.run = r
  BY <1>2, <1>3, <1>4 DEF Registers
<1>7. CASE ModeOf[r] # "INLINE"
  <2>1. r \in Callbacks /\ r \notin {Attempt, Notify}
    BY <1>2, <1>3, <1>7, ReachedIs, CallbacksAre DEF Base
  <2>2. PICK h \in Hook : h = [event |-> Top.event, run |-> r]
    BY <1>2, <2>1 DEF Hook
  <2>3. PICK list \in Seq(Hook) : list = <<h>>
    <3>1. <<h>> \in Seq(Hook)
      OBVIOUS
    <3> QED
      BY <3>1
  <2>4. DOMAIN list = {1} /\ list[1] = h
    BY <2>3
  <2>5. OnCommit(Append(Under, f), list)
    BY <1>3, <1>7, <2>2, <2>3
  <2>6. h.event = Top.event /\ h.run = r
    BY <2>2
  <2>7. Registers(Top, h)
    BY <1>2, <1>3, <2>6 DEF Registers
  <2>8. ~Registers(f, h)
    BY <1>3, <2>1, <2>6 DEF Registers
  <2>9. \A p \in DOMAIN list :
          /\ Registers(Top, list[p]) /\ ~Registers(f, list[p])
          /\ list[p].run \in {Attempt, Notify} => rows'[Top.event] # {}
    BY <2>1, <2>4, <2>6, <2>7, <2>8
  <2>10. \A p, q \in DOMAIN list : list[p] = list[q] => p = q
    BY <2>4
  <2>11. \A g \in Hook : Registers(Top, g) /\ g.run \in Expected(g.event) =>
           Registers(f, g) \/ \E p \in DOMAIN list : list[p] = g
    <3> SUFFICES ASSUME NEW g \in Hook, Registers(Top, g), ~Registers(f, g) PROVE g = h
      BY <2>4
    <3>1. g.run = r /\ g.event = Top.event
      BY <1>6 DEF Registers
    <3> QED
      BY <2>6, <3>1 DEF Hook
  <2>12. \A g \in Hook :
           (g.event # Top.event \/ ~Registers(Top, g)) /\ g.run \in {Attempt, Notify} /\ rows[g.event] # {} =>
             rows'[g.event] # {}
    BY <1>1
  <2>13. f.left \subseteq Top.left /\ f.todo = <<>>
    BY <1>2, <1>3
  <2> QED
    BY <1>1, <1>3, <1>5, <2>5, <2>9, <2>10, <2>11, <2>12, <2>13, OnCommitHooks
<1>8. CASE ModeOf[r] = "INLINE"
  <2>1. PICK g \in Frame : /\ g.kind = "inline" /\ g.todo = <<>> /\ hooks' = hooks
                           /\ stack' = Append(Append(Under, f), g)
    BY <1>3, <1>8 DEF New
  <2>2. PICK n \in Nat : n + 1 = Len(stack)
    BY <1>2, DepthIs
  <2>3. DOMAIN <<>> = {} /\ (\A i \in 1..(n + 1) : i \in 1..n \/ i = n + 1)
        /\ \A i \in 1..(n + 2) : i \in 1..n \/ i = n + 1 \/ i = n + 2
    OBVIOUS
  <2>4. n + 1 \in 1..(n + 1) /\ n + 1 \in 1..(n + 2) /\ \A i \in 1..n : i \in 1..(n + 1) /\ i \in 1..(n + 2)
    OBVIOUS
  <2>5. Onward(f)
    BY <1>2, <1>3, <2>3 DEF Onward
  <2>6. /\ DOMAIN stack' = 1..(n + 2) /\ DOMAIN stack = 1..(n + 1)
        /\ stack'[n + 2] = g /\ stack'[n + 1] = f /\ Top = stack[n + 1]
        /\ \A i \in 1..n : stack'[i] = stack[i]
    <3>1. stack' = Append(Append(Under, f), g) /\ n + 1 = Len(stack)
      BY <2>1, <2>2
    <3> QED
      BY <1>2, <2>5, <3>1, SwapPushCarries
  <2>7. TodosStay
    BY <1>2, <1>3, <2>1, <2>3, <2>4, <2>6 DEF TodosStay
  <2>8. Apart' /\ \A h : Waits(h)' <=> Waits(h)
    BY <2>1, <2>7, WaitsStay DEF HooksKept
  <2>9. ASSUME NEW h \in Hook PROVE HookKept(h)'
    <3>1. h.run # r
      BY <1>8, CallbacksAre DEF Hook, Callbacks
    <3>2. Registers(f, h) <=> Registers(Top, h)
      BY <1>5, <1>6, <3>1
    <3>3. ASSUME NEW i \in DOMAIN stack', stack'[i].kind = "firing", stack'[i].event = h.event
          PROVE  \E j \in DOMAIN stack : /\ stack[j].kind = "firing" /\ stack[j].event = h.event
                                         /\ Registers(stack'[i], h) <=> Registers(stack[j], h)
      <4>1. CASE i \in 1..n
        BY <2>4, <2>6, <3>3, <4>1
      <4>2. CASE i = n + 1
        BY <1>2, <1>4, <2>4, <2>6, <3>2, <3>3, <4>2
      <4>3. i # n + 2
        BY <2>1, <2>6, <3>3
      <4> QED
        BY <2>3, <2>6, <4>1, <4>2, <4>3
    <3>4. EventStays(h.event) /\ HookStays(h)
      BY <1>1, <2>8 DEF EventStays, HookStays
    <3>5. FireStays(h)
      BY <3>3 DEF FireStays
    <3> QED
      BY <3>4, <3>5, StaysKept DEF HooksKept
  <2> QED
    BY <2>8, <2>9 DEF HooksKept
<1> QED
  BY <1>7, <1>8

\* The first of the callbacks runs, and waits no longer.
LEMMA RunHookHooks == ASSUME Base, EventsKept, HooksKept, RunHook PROVE HooksKept'
<1>1. /\ event' = event /\ rows' = rows /\ returned' = returned /\ lost' = lost /\ hooks' = hooks
  BY DEF RunHook
<1>2. PICK f \in Frame, h \in Hook :
        /\ Top.kind = "hooks" /\ stack # <<>> /\ Top.todo # <<>> /\ Top.todo \in Seq(Hook)
        /\ h = Head(Top.todo) /\ Alike(f, Top) /\ f.left = Top.left
        /\ f.todo = Tail(Top.todo) /\ Append(Under, f) \in Stack
        /\ ran' = [ran EXCEPT ![h.event][h.run] = @ + 1]
        /\ \/ h.run \notin Receivers /\ cause' = cause /\ stack' = Append(Under, f)
           \/ /\ h.run \in Receivers /\ cause' = h.event
              /\ \E g \in Frame :
                   /\ New(g, "callback") /\ g.event = h.event /\ g.left = {} /\ g.todo = <<>>
                   /\ stack' = Append(Append(Under, f), g)
  BY RunHookMakes DEF Base
<1>3. PICK n \in Nat : n + 1 = Len(stack)
  BY <1>2, DepthIs
<1>4. PICK list \in Seq(Hook), l \in Nat : list = Top.todo /\ list # <<>> /\ Len(list) = l + 1
  <2>1. PICK list \in Seq(Hook) : list = Top.todo /\ list # <<>>
    BY <1>2
  <2>2. Len(list) \in Nat /\ Len(list) > 0
    BY <2>1, EmptySeq, LenProperties
  <2>3. Len(list) - 1 \in Nat /\ Len(list) = (Len(list) - 1) + 1
    BY <2>2
  <2> QED
    BY <2>1, <2>3
<1>5. /\ DOMAIN list = 1..(l + 1) /\ h = list[1] /\ DOMAIN f.todo = 1..l
      /\ \A p \in 1..l : f.todo[p] = list[p + 1]
  <2>1. DOMAIN list = 1..(l + 1)
    BY <1>4, LenProperties
  <2>2. /\ Tail(list) \in Seq(Hook) /\ Len(Tail(list)) = Len(list) - 1
        /\ \A p \in 1..(Len(list) - 1) : Tail(list)[p] = list[p + 1]
    BY <1>4, HeadTailProperties
  <2>3. Len(list) - 1 = l
    BY <1>4
  <2>4. DOMAIN Tail(list) = 1..l
    BY <2>2, <2>3, LenProperties
  <2>5. Head(list) = list[1]
    BY <1>4
  <2> QED
    BY <1>2, <1>4, <2>1, <2>2, <2>3, <2>4, <2>5
<1>6. /\ \A p \in 1..l : p + 1 \in 1..(l + 1) /\ p + 1 # 1
      /\ \A p \in 1..(l + 1) : p = 1 \/ (p - 1 \in 1..l /\ (p - 1) + 1 = p)
      /\ 1 \in 1..(l + 1)
  OBVIOUS
<1>7. Onward(f)
  BY <1>2, <1>4, <1>5, <1>6 DEF Onward
<1>8. /\ DOMAIN stack = 1..(n + 1) /\ Top = stack[n + 1] /\ n + 1 \in DOMAIN stack' /\ stack'[n + 1] = f
      /\ \A i \in 1..n : i \in DOMAIN stack' /\ stack'[i] = stack[i]
      /\ \A i \in DOMAIN stack' : i \in 1..(n + 1) \/ (DOMAIN stack'[i].todo = {} /\ stack'[i].kind # "firing")
  <2>1. DOMAIN <<>> = {} /\ n + 1 \in 1..(n + 1) /\ n + 1 \in 1..(n + 2)
        /\ (\A i \in 1..n : i \in 1..(n + 1) /\ i \in 1..(n + 2))
        /\ \A i \in 1..(n + 2) : i \in 1..(n + 1) \/ i = n + 2
    OBVIOUS
  <2>2. CASE stack' = Append(Under, f)
    <3>1. /\ DOMAIN stack' = 1..(n + 1) /\ DOMAIN stack = 1..(n + 1) /\ stack'[n + 1] = f
          /\ Top = stack[n + 1] /\ \A i \in 1..n : stack'[i] = stack[i]
      BY <1>2, <1>3, <1>7, <2>2, SwapCarries
    <3> QED
      BY <2>1, <3>1
  <2>3. ASSUME NEW g \in Frame, g.kind = "callback", g.todo = <<>>, stack' = Append(Append(Under, f), g)
        PROVE  /\ DOMAIN stack = 1..(n + 1) /\ Top = stack[n + 1] /\ n + 1 \in DOMAIN stack' /\ stack'[n + 1] = f
               /\ \A i \in 1..n : i \in DOMAIN stack' /\ stack'[i] = stack[i]
               /\ \A i \in DOMAIN stack' : i \in 1..(n + 1) \/ (DOMAIN stack'[i].todo = {} /\ stack'[i].kind # "firing")
    <3>1. stack' = Append(Append(Under, f), g) /\ n + 1 = Len(stack) /\ stack # <<>>
      BY <1>2, <1>3, <2>3
    <3>2. /\ DOMAIN stack' = 1..(n + 2) /\ DOMAIN stack = 1..(n + 1)
          /\ stack'[n + 2] = g /\ stack'[n + 1] = f /\ Top = stack[n + 1]
          /\ \A i \in 1..n : stack'[i] = stack[i]
      BY <1>7, <3>1, SwapPushCarries
    <3> QED
      BY <2>1, <2>3, <3>2
  <2> QED
    BY <1>2, <2>2, <2>3 DEF New
<1>9. \A i \in 1..(n + 1) : i \in 1..n \/ i = n + 1
  OBVIOUS
<1>10. ~(n + 1 \in 1..n)
  OBVIOUS
<1>11. Waits(h)
  BY <1>4, <1>5, <1>6, <1>8 DEF Waits
<1>12. \A p \in DOMAIN hooks : hooks[p] # h
  <2>1. \E i \in DOMAIN stack : \E p \in DOMAIN stack[i].todo : stack[i].todo[p] = h
    BY <1>4, <1>5, <1>6, <1>8
  <2> QED
    BY <2>1, WaitingIs
<1>13. \A i \in 1..n : \A p \in DOMAIN stack[i].todo : stack[i].todo[p] # h
  <2> SUFFICES ASSUME NEW i \in 1..n, NEW p \in DOMAIN stack[i].todo, stack[i].todo[p] = h PROVE FALSE
    OBVIOUS
  <2>1. i \in DOMAIN stack /\ n + 1 \in DOMAIN stack /\ i # n + 1
    BY <1>8
  <2>2. 1 \in DOMAIN stack[n + 1].todo /\ stack[n + 1].todo[1] = h
    BY <1>4, <1>5, <1>6, <1>8
  <2> QED
    BY <2>1, <2>2 DEF HooksKept, Apart
<1>14. \A p \in 1..(l + 1) : list[p] = h => p = 1
  <2>1. n + 1 \in DOMAIN stack /\ list = stack[n + 1].todo
    BY <1>4, <1>8
  <2> QED
    BY <1>5, <1>6, <2>1 DEF HooksKept, Apart
<1>15. ASSUME NEW g PROVE Waits(g)' <=> Waits(g) /\ g # h
  <2>1. ASSUME Waits(g)' PROVE Waits(g) /\ g # h
    <3>1. CASE \E p \in DOMAIN hooks' : hooks'[p] = g
      BY <1>1, <1>12, <3>1 DEF Waits
    <3>2. ASSUME NEW i \in DOMAIN stack', NEW p \in DOMAIN stack'[i].todo, stack'[i].todo[p] = g
          PROVE  Waits(g) /\ g # h
      <4>1. CASE i \in 1..n
        BY <1>8, <1>9, <1>13, <3>2, <4>1 DEF Waits
      <4>2. CASE i = n + 1
        <5>1. p \in 1..l /\ list[p + 1] = g /\ p + 1 \in 1..(l + 1) /\ p + 1 # 1
          BY <1>5, <1>6, <1>8, <3>2, <4>2
        <5> QED
          BY <1>4, <1>5, <1>8, <1>14, <5>1 DEF Waits
      <4> QED
        BY <1>8, <1>9, <3>2, <4>1, <4>2
    <3> QED
      BY <2>1, <3>1, <3>2 DEF Waits
  <2>2. ASSUME Waits(g), g # h PROVE Waits(g)'
    <3>1. CASE \E p \in DOMAIN hooks : hooks[p] = g
      BY <1>1, <3>1 DEF Waits
    <3>2. ASSUME NEW i \in DOMAIN stack, NEW p \in DOMAIN stack[i].todo, stack[i].todo[p] = g
          PROVE  Waits(g)'
      <4>1. CASE i \in 1..n
        BY <1>8, <3>2, <4>1 DEF Waits
      <4>2. CASE i = n + 1
        <5>1. p \in 1..(l + 1) /\ list[p] = g
          BY <1>4, <1>5, <1>8, <3>2, <4>2
        <5>2. p - 1 \in 1..l /\ (p - 1) + 1 = p
          BY <1>5, <1>6, <2>2, <5>1
        <5>3. f.todo[p - 1] = g
          BY <1>5, <5>1, <5>2
        <5> QED
          BY <1>5, <1>8, <5>2, <5>3 DEF Waits
      <4> QED
        BY <1>8, <1>9, <3>2, <4>1, <4>2
    <3> QED
      BY <2>2, <3>1, <3>2 DEF Waits
  <2> QED
    BY <2>1, <2>2
<1>16. Apart'
  <2>1. ASSUME NEW i \in DOMAIN stack', NEW k \in DOMAIN stack', NEW p \in DOMAIN stack'[i].todo,
               NEW q \in DOMAIN stack'[k].todo, stack'[i].todo[p] = stack'[k].todo[q]
        PROVE  i = k /\ p = q
    <3>1. (i \in 1..n \/ i = n + 1) /\ (k \in 1..n \/ k = n + 1)
      BY <1>8, <1>9
    <3>2. n + 1 \in DOMAIN stack /\ stack[n + 1].todo = list /\ \A j \in 1..n : j \in DOMAIN stack /\ j # n + 1
      BY <1>4, <1>8
    <3>3. CASE i \in 1..n /\ k \in 1..n
      BY <1>8, <2>1, <3>2, <3>3 DEF HooksKept, Apart
    <3>4. CASE i = n + 1 /\ k = n + 1
      <4>1. p \in 1..l /\ q \in 1..l /\ list[p + 1] = list[q + 1]
        BY <1>5, <1>8, <2>1, <3>4
      <4>2. PICK x \in 1..(l + 1), y \in 1..(l + 1) : x = p + 1 /\ y = q + 1
        BY <1>6, <4>1
      <4>3. x \in DOMAIN stack[n + 1].todo /\ y \in DOMAIN stack[n + 1].todo
            /\ stack[n + 1].todo[x] = stack[n + 1].todo[y]
        BY <1>5, <3>2, <4>1, <4>2
      <4>4. x = y
        BY <3>2, <4>3 DEF HooksKept, Apart
      <4> QED
        BY <3>4, <4>1, <4>2, <4>4
    <3>5. CASE i \in 1..n /\ k = n + 1
      <4>1. q \in 1..l /\ stack[i].todo[p] = list[q + 1] /\ p \in DOMAIN stack[i].todo
        BY <1>5, <1>8, <2>1, <3>5
      <4> QED
        BY <1>5, <1>6, <3>2, <3>5, <4>1 DEF HooksKept, Apart
    <3>6. CASE i = n + 1 /\ k \in 1..n
      <4>1. p \in 1..l /\ stack[k].todo[q] = list[p + 1] /\ q \in DOMAIN stack[k].todo
        BY <1>5, <1>8, <2>1, <3>6
      <4> QED
        BY <1>5, <1>6, <3>2, <3>6, <4>1 DEF HooksKept, Apart
    <3> QED
      BY <3>1, <3>3, <3>4, <3>5, <3>6
  <2>2. (\A p, q \in DOMAIN hooks : hooks[p] = hooks[q] => p = q)'
    BY <1>1 DEF HooksKept, Apart
  <2> QED
    BY <2>1, <2>2 DEF Apart
<1>17. FiresStay
  <2>1. f.kind = "hooks"
    BY <1>2 DEF Alike
  <2> QED
    BY <1>8, <1>9, <2>1 DEF FiresStay
<1>18. ASSUME NEW g \in Hook PROVE ran'[g.event][g.run] = ran[g.event][g.run] + (IF g = h THEN 1 ELSE 0)
  <2>1. /\ g.event \in Ids /\ g.run \in Callbacks /\ h.event \in Ids /\ h.run \in Callbacks
        /\ (g.event = h.event /\ g.run = h.run => g = h)
    BY DEF Hook
  <2>2. ran \in [Ids -> [Callbacks -> Nat]]
    BY DEF Base, TypeOK
  <2>3. ran[g.event] \in [Callbacks -> Nat] /\ ran[g.event][g.run] \in Nat
    BY <2>1, <2>2
  <2>4. CASE g.event = h.event
    <3>1. ran'[g.event] = [ran[g.event] EXCEPT ![h.run] = ran[g.event][h.run] + 1]
      BY <1>2, <2>1, <2>2, <2>4
    <3> QED
      BY <2>1, <2>3, <2>4, <3>1
  <2>5. CASE g.event # h.event
    <3>1. ran'[g.event] = ran[g.event]
      BY <1>2, <2>1, <2>2, <2>5
    <3> QED
      BY <2>3, <2>5, <3>1
  <2> QED
    BY <2>4, <2>5
<1>19. ASSUME NEW g \in Hook, g # h PROVE HookKept(g)'
  <2>1. ran[g.event][g.run] \in Nat
    <3>1. g.event \in Ids /\ g.run \in Callbacks
      BY DEF Hook
    <3> QED
      BY <3>1 DEF Base, TypeOK
  <2>2. ran'[g.event][g.run] = ran[g.event][g.run]
    BY <1>18, <1>19, <2>1
  <2>3. EventStays(g.event) /\ HookStays(g)
    BY <1>1, <1>15, <1>19, <2>2 DEF EventStays, HookStays
  <2> QED
    BY <1>17, <2>3, FiresStayAll, StaysKept DEF HooksKept
<1>20. HookKept(h)'
  <2>1. ran[h.event][h.run] = 0 /\ Earned(h)
    BY <1>11 DEF HooksKept, HookKept
  <2>2. ran'[h.event][h.run] = 1 /\ ~Waits(h)'
    BY <1>15, <1>18, <2>1
  <2>3. event'[h.event].status = "committed"
    <3>1. \E i \in DOMAIN stack : \E p \in DOMAIN stack[i].todo : stack[i].todo[p] = h
      BY <1>4, <1>5, <1>6, <1>8
    <3> QED
      BY <1>1, <3>1, WaitingIs
  <2>4. Earned(h)'
    BY <1>1, <1>17, <2>1 DEF Earned, FiresStay, Registers
  <2> QED
    BY <2>2, <2>3, <2>4 DEF HookKept
<1> QED
  BY <1>16, <1>19, <1>20 DEF HooksKept

LEMMA HooksInductive ==
  ASSUME Base, EventsKept, HooksKept, [Next]_vars PROVE HooksKept'
<1>1. CASE Raise \/ FanOutFails \/ Fail \/ UNCHANGED vars
  BY <1>1, RaiseHooks
<1>2. CASE LeaveAtomic
  BY <1>2, LeftHooks, CommitHooks
<1>3. CASE EnterAtomic \/ EnterSuppressed \/ EnterAttributed
  BY <1>3, EnterHooks
<1>4. CASE LeaveSuppressed \/ LeaveAttributed \/ LeaveReceiver \/ HooksRun \/ Unwind \/ Survive
  BY <1>4, LeftHooks
<1>5. CASE Owe \/ Reach \/ FireReturns \/ RunHook \/ RollBack \/ Crash
  BY <1>5, OweHooks, ReachHooks, FireReturnsHooks, RunHookHooks, RollBackHooks, CrashHooks
<1>6. CASE \E class \in Classes : Record(class)
  BY <1>6, RecordHooks
<1> QED
  BY <1>1, <1>2, <1>3, <1>4, <1>5, <1>6 DEF Next

-----------------------------------------------------------------------------
(* What holds.                                                             *)

LEMMA Start == ASSUME Init PROVE IInv
<1>1. /\ stack = <<>> /\ hooks = <<>> /\ fired = 0 /\ returned = {} /\ cause = 0 /\ blocks = <<>>
      /\ scope = Empty /\ raising = FALSE /\ lost = {} /\ rows = [e \in Ids |-> {}]
      /\ ran = [e \in Ids |-> [c \in Callbacks |-> 0]]
  BY DEF Init
<1>2. DOMAIN <<>> = {} /\ <<>> \in Seq(Frame) /\ <<>> \in Seq(Hook) /\ <<>> \in Seq(Blocks) /\ Len(<<>>) = 0
  OBVIOUS
<1>3. \A e \in Ids : e \in Nat /\ e > 0 /\ event[e].status = "none" /\ event[e].cause = 0
  BY Bounds DEF Init, Ids
<1>4. TypeOK
  <2>1. (CHOOSE c \in Classes : TRUE) \in Classes
    BY Bounds
  <2>2. event \in [Ids -> [status: {"none", "written", "committed", "undone"}, class: Classes, cause: Ids \cup {0},
                           chain: Minted \cup Named \cup {0}, suppressed: BOOLEAN, inside: BOOLEAN]]
    BY <2>1 DEF Init
  <2>3. fired \in 0..MaxEvents
    BY <1>1, Bounds
  <2> QED
    BY <1>1, <1>2, <2>2, <2>3, NothingIs DEF TypeOK
<1>5. Nested
  BY <1>1, <1>2 DEF Nested, Stacked, Dated
<1>6. ContextsKept
  <2>1. Context.cause = 0 /\ Context.blocks = <<>> /\ Context.scope = Empty
    BY <1>1 DEF Context
  <2>2. Suppressing(stack, 0) = {} /\ 1..0 = {} /\ Cardinality({}) = 0
    BY FS_EmptySet DEF Suppressing
  <2>3. Tells(stack, 0, Context)
    BY <1>2, <2>1, <2>2, NothingIs DEF Tells, TellsCause, TellsActor
  <2>4. Len(stack) = 0 /\ DOMAIN stack = {}
    BY <1>1, <1>2
  <2> QED
    BY <2>3, <2>4 DEF ContextsKept, Kept
<1>7. EventsKept
  <2>1. ASSUME NEW e \in Ids PROVE EventKept(e)
    BY <1>1, <1>3 DEF EventKept, Decided
  <2> QED
    BY <1>1, <1>2, <2>1 DEF EventsKept
<1>8. ChainsKept
  BY <1>1, <1>2, <1>3, NothingIs DEF ChainsKept, Follows, SameChain
<1>9. HooksKept
  <2>1. Apart /\ \A h : ~Waits(h)
    BY <1>1, <1>2 DEF Apart, Waits
  <2>2. ASSUME NEW h \in Hook PROVE HookKept(h)
    <3>1. h.event \in Ids /\ h.run \in Callbacks
      BY DEF Hook
    <3>2. ran[h.event][h.run] = 0 /\ event[h.event].status = "none"
      BY <1>1, <1>3, <3>1
    <3> QED
      BY <2>1, <3>2 DEF HookKept, Due
  <2> QED
    BY <2>1, <2>2 DEF HooksKept
<1> QED
  BY <1>4, <1>5, <1>6, <1>7, <1>8, <1>9 DEF IInv

\* Whatever is fired, vetoed, rolled back or crashed, the tables, the callbacks and the ContextVars
\* tell what the frames that the thread is in were entered with.
THEOREM InvariantHolds == Spec => []IInv
<1>1. Init => IInv
  BY Start
<1>2. IInv /\ [Next]_vars => IInv'
  <2> SUFFICES ASSUME IInv, [Next]_vars PROVE IInv'
    OBVIOUS
  <2>1. Base /\ EventsKept /\ ChainsKept /\ HooksKept
    BY DEF IInv, Base
  <2>2. Base'
    BY <2>1, BaseInductive
  <2>3. EventsKept'
    BY <2>1, <2>2, EventsInductive
  <2>4. ChainsKept'
    BY <2>1, <2>2, <2>3, ChainsInductive
  <2>5. HooksKept'
    BY <2>1, HooksInductive
  <2> QED
    BY <2>2, <2>3, <2>4, <2>5 DEF IInv, Base
<1> QED
  BY <1>1, <1>2, PTL DEF Spec

\* The tables hold events and receivers, and the ContextVars what fire may read off them.
THEOREM TypeCorrect == Spec => []TypeOK
<1>1. IInv => TypeOK
  BY DEF IInv
<1> QED
  BY <1>1, InvariantHolds, PTL

\* An event fired in a transaction is owed to its receivers if and only if that commits.
THEOREM OwedOnlyIfCommitted == Spec => []OwedIffCommitted
<1>1. IInv => OwedIffCommitted
  BY DEF IInv, EventsKept, EventKept, OwedIffCommitted
<1> QED
  BY <1>1, InvariantHolds, PTL

\* No savepoint takes a cause away and leaves its effect.
THEOREM CausesStandWithEffects == Spec => []CausesStand
<1>1. IInv => CausesStand
  <2> SUFFICES ASSUME IInv, NEW e \in Ids, event[e].status = "committed", event[e].cause # 0
               PROVE  event[e].cause < e /\ event[event[e].cause].status = "committed"
    BY DEF CausesStand
  <2>1. Decided(e)
    BY DEF IInv, EventsKept, EventKept
  <2> QED
    BY <2>1 DEF Decided
<1> QED
  BY <1>1, InvariantHolds, PTL

\* An event a receiver fires stays in the chain of its parent, unless a block names another.
THEOREM ChainIsKept == Spec => []SameChain
<1>1. IInv => SameChain
  BY DEF IInv, ChainsKept
<1> QED
  BY <1>1, InvariantHolds, PTL

\* No callback runs for an event that others cannot see, or that was rolled back or suppressed.
THEOREM HooksAfterTheCommit == Spec => []HooksFollowTheCommit
<1>1. IInv => HooksFollowTheCommit
  <2> SUFFICES ASSUME IInv, NEW e \in Ids, NEW c \in Callbacks, ran[e][c] > 0
               PROVE  /\ event[e].status = "committed" /\ ~event[e].suppressed
                      /\ c \in {Attempt, Notify} => rows[e] # {}
    BY DEF HooksFollowTheCommit
  <2>1. PICK h \in Hook : h.event = e /\ h.run = c
    <3>1. [event |-> e, run |-> c] \in Hook
      BY DEF Hook
    <3> QED
      BY <3>1
  <2>2. HookKept(h)
    BY DEF IInv, HooksKept
  <2> QED
    BY <2>1, <2>2 DEF HookKept, Earned
<1> QED
  BY <1>1, InvariantHolds, PTL

\* Each callback of a committed event runs once, whichever of the others fail, short of a crash.
THEOREM HooksRunOnce == Spec => []EachHookOnce
<1>1. IInv => EachHookOnce
  <2> SUFFICES ASSUME IInv, NEW e \in Ids
               PROVE  /\ \A c \in Callbacks : ran[e][c] <= 1
                      /\ stack = <<>> /\ event[e].status = "committed" /\ ~event[e].suppressed
                           /\ e \in returned \ lost =>
                             \A c \in Expected(e) : ran[e][c] = 1
    BY DEF EachHookOnce
  <2>1. ASSUME NEW c \in Callbacks PROVE \E h \in Hook : h.event = e /\ h.run = c /\ HookKept(h)
    <3>1. [event |-> e, run |-> c] \in Hook
      BY DEF Hook
    <3> QED
      BY <3>1 DEF IInv, HooksKept
  <2>2. ASSUME NEW c \in Callbacks PROVE ran[e][c] <= 1
    <3>1. ran[e][c] = 0 \/ ran[e][c] = 1
      BY <2>1 DEF HookKept
    <3> QED
      BY <3>1
  <2>3. ASSUME stack = <<>>, event[e].status = "committed", ~event[e].suppressed, e \in returned \ lost,
               NEW c \in Expected(e)
        PROVE  ran[e][c] = 1
    <3>1. c \in Callbacks
      BY DEF Expected, Of, Callbacks
    <3>2. PICK h \in Hook : h.event = e /\ h.run = c /\ HookKept(h)
      BY <2>1, <3>1
    <3>3. ran[e][c] = 1 \/ Waits(h)
      BY <2>3, <3>2 DEF HookKept, Due
    <3>4. ~Waits(h)
      <4>1. DOMAIN stack = {} /\ ~InAtomic(stack)
        BY <2>3 DEF InAtomic
      <4>2. hooks = <<>> /\ DOMAIN hooks = {}
        BY <4>1 DEF IInv, Nested
      <4> QED
        BY <4>1, <4>2 DEF Waits
    <3> QED
      BY <3>3, <3>4
  <2> QED
    BY <2>2, <2>3
<1> QED
  BY <1>1, InvariantHolds, PTL

\* The last frame of a kind.
LEMMA LastIs ==
  ASSUME NEW n \in Nat, NEW S, S \subseteq 1..n, NEW j \in S, \A k \in (j + 1)..n : k \notin S
  PROVE  Max(S) = j
<1>1. Numbers(S) /\ IsFiniteSet(S) /\ S # {}
  <2>1. IsFiniteSet(1..n)
    <3>1. 1 \in Int /\ n \in Int
      OBVIOUS
    <3> QED
      BY <3>1, FS_Interval
  <2>2. IsFiniteSet(S)
    BY <2>1, FS_Subset
  <2> QED
    BY <2>2 DEF Numbers
<1>2. Max(S) \in S /\ Max(S) >= j
  BY <1>1, MaxIsGreatest
<1>3. Max(S) \in 1..n /\ j \in 1..n
  BY <1>2
<1> QED
  BY <1>2, <1>3

\* What fire reads off the ContextVars is what the thread is inside of.
THEOREM ContextIsTheStack == Spec => []ContextFollowsTheStack
<1>1. IInv => ContextFollowsTheStack
  <2> SUFFICES ASSUME IInv PROVE ContextFollowsTheStack
    OBVIOUS
  <2>1. Base
    BY DEF IInv, Base
  <2>2. PICK n \in Nat : n = Len(stack) /\ DOMAIN stack = 1..n
    BY <2>1, StackIs
  <2>3. /\ TellsCause(stack, n, cause) /\ TellsActor(stack, n, scope.actor)
        /\ Len(blocks) = Cardinality(Suppressing(stack, n))
        /\ scope.chain = 0 <=> \A j \in 1..n : stack[j].kind # "attributed"
    <3>1. Tells(stack, n, Context)
      BY <2>1, <2>2, BaseIs DEF Kept
    <3> QED
      BY <2>1, <3>1, BaseIs DEF Tells
  <2>4. Receiving = {j \in 1..n : Receives(stack[j])} /\ Naming = {j \in 1..n : Names(stack[j])}
    BY <2>2 DEF Receiving, Naming, Frames, Receives, Names
  <2>5. cause = IF Receiving = {} THEN 0 ELSE stack[Max(Receiving)].event
    <3>1. CASE cause = 0 /\ \A j \in 1..n : ~Receives(stack[j])
      BY <2>4, <3>1
    <3>2. ASSUME NEW j \in 1..n, Receives(stack[j]), cause = stack[j].event,
                 \A k \in (j + 1)..n : ~Receives(stack[k])
          PROVE  cause = IF Receiving = {} THEN 0 ELSE stack[Max(Receiving)].event
      <4>1. Receiving \subseteq 1..n /\ j \in Receiving /\ \A k \in (j + 1)..n : k \notin Receiving
        BY <2>4, <3>2
      <4>2. Max(Receiving) = j
        BY <4>1, LastIs
      <4> QED
        BY <3>2, <4>1, <4>2
    <3> QED
      BY <2>3, <3>1, <3>2 DEF TellsCause
  <2>6. scope.actor = IF Naming = {} THEN NoOne ELSE stack[Max(Naming)].given.actor
    <3>1. CASE scope.actor = NoOne /\ \A j \in 1..n : ~Names(stack[j])
      BY <2>4, <3>1
    <3>2. ASSUME NEW j \in 1..n, Names(stack[j]), scope.actor = stack[j].given.actor,
                 \A k \in (j + 1)..n : ~Names(stack[k])
          PROVE  scope.actor = IF Naming = {} THEN NoOne ELSE stack[Max(Naming)].given.actor
      <4>1. Naming \subseteq 1..n /\ j \in Naming /\ \A k \in (j + 1)..n : k \notin Naming
        BY <2>4, <3>2
      <4>2. Max(Naming) = j
        BY <4>1, LastIs
      <4> QED
        BY <3>2, <4>1, <4>2
    <3> QED
      BY <2>3, <3>1, <3>2 DEF TellsActor
  <2>7. Frames({"suppressed"}) = Suppressing(stack, n)
    BY <2>2 DEF Frames, Suppressing
  <2>8. scope.chain = 0 <=> Frames({"attributed"}) = {}
    BY <2>2, <2>3 DEF Frames
  <2> QED
    BY <2>3, <2>5, <2>6, <2>7, <2>8 DEF ContextFollowsTheStack
<1> QED
  BY <1>1, InvariantHolds, PTL
=============================================================================
